----------------------------- MODULE IndexTasks -----------------------------
(***************************************************************************)
(* The search index and the task queue that keeps it up to date             *)
(* (services/src/task_manager/mod.rs, lock.rs, index.rs).                   *)
(*                                                                          *)
(*   - storing an e-mail or a calendar event writes, in the same batch, a   *)
(*     task to insert it into the index; deleting it writes a task to       *)
(*     delete it from the index, and reindex() writes one insertion for     *)
(*     every document;                                                      *)
(*   - the manager of each node scans the tasks that are due and sends over *)
(*     a channel to its indexing worker those that it has not handed out    *)
(*     for a while;                                                         *)
(*   - the worker takes a batch, locks each task in the in-memory store,    *)
(*     builds documents from what the data store still has, commits the     *)
(*     deletion of e-mail metadata, indexes, unindexes, and then removes    *)
(*     from the queue the tasks that did not fail, and their locks.         *)
(*                                                                          *)
(* The clock is left out: the manager may hand out a task again, and the    *)
(* lock of a task that nobody works on may lapse, at any time.  What is     *)
(* kept of it is that a worker is done before its own lock lapses.          *)
(***************************************************************************)
EXTENDS Naturals, FiniteSets

CONSTANTS
  Nodes,       \* the nodes that have the fts_indexing role
  Emails,      \* their metadata outlives them, until the deletion task
  Events,      \* calendar events and contacts: deleted at once
  BatchSize,   \* jmap.index_batch_size
  Faults,      \* what can go wrong, see FaultKinds
  MaxFaults,   \* bound on the number of faults
  MaxReindex,  \* bound on the number of reindex requests
  ReindexDue   \* the seconds in which they write their tasks

Docs == Emails \cup Events

(* lock: the in-memory store; build: reading a document or its blob;        *)
(* commit, clear: the two writes to the data store; search, unindex: the    *)
(* two calls to the search store; crash: the node.                          *)
FaultKinds == {"lock", "build", "commit", "search", "unindex", "clear", "crash"}

ASSUME DocsAssumption == Emails \cap Events = {}
ASSUME IndexBoundsAssumption ==
  BatchSize \in Nat \ {0} /\ MaxFaults \in Nat /\ MaxReindex \in Nat
ASSUME ReindexDueAssumption == ReindexDue \subseteq 0..1
ASSUME FaultsAssumption == Faults \subseteq FaultKinds

(* TaskQueueClass::UpdateIndex.  due tells apart the seconds in which the   *)
(* tasks of one document are written: 0 that of its ingestion, 1 a later    *)
(* one.                                                                     *)
Task == [doc : Docs, op : {"insert", "delete"}, due : 0..1]
Insert(d, due) == [doc |-> d, op |-> "insert", due |-> due]
Delete(d, due) == [doc |-> d, op |-> "delete", due |-> due]

(* The key of the lock leaves out is_insert: an insertion and a deletion    *)
(* that were written in the same second share it.                           *)
Key == Docs \X (0..1)
(* A version of LockKey that leaves out the due time, too.                  *)
LockKeyOfDocument(t) == <<t.doc>>
LockKey(t) == <<t.doc, t.due>>

VARIABLES
  created,    \* the documents stored so far
  alive,      \* those that have their archive
  meta,       \* those an index document can still be built from
  tasks,      \* the task queue
  search,     \* the documents in the search store
  unindexed,  \* history: those that were taken out of the search store
  chan,       \* node |-> the tasks in the channel to its indexing worker
  locks,      \* the keys of the locks in force
  pc,         \* node |-> what its indexing worker does next
  todo,       \* node |-> the tasks of the batch it has not come to yet
  held,       \* node |-> locked_batch
  docs,       \* node |-> document_insertions
  gone,       \* node |-> the documents whose metadata its batch deletes
  failed,     \* node |-> the tasks with TaskStatus::Failed
  listed,     \* the documents a reindex in progress has listed
  reindexing, \* whether a reindex is in progress
  reindexed,  \* how many there were
  faulted     \* how many faults there were

queue == <<created, alive, tasks, listed, reindexing, reindexed>>
stores == <<meta, search, unindexed>>
batch == <<todo, held, docs, gone, failed>>
worker == <<pc, batch>>
vars == <<queue, stores, chan, locks, worker, faulted>>

PcStates == {"idle", "lock", "build", "index", "unindex", "clear", "unlock"}

(* A fault of one of the kinds happens, or none.                            *)
Fault(kind) == kind \in Faults /\ faulted < MaxFaults /\ faulted' = faulted + 1
NoFault == faulted' = faulted

Init ==
  /\ created = {} /\ alive = {} /\ meta = {}
  /\ tasks = {} /\ search = {} /\ unindexed = {}
  /\ chan = [n \in Nodes |-> {}]
  /\ locks = {}
  /\ pc = [n \in Nodes |-> "idle"]
  /\ todo = [n \in Nodes |-> {}]
  /\ held = [n \in Nodes |-> {}]
  /\ docs = [n \in Nodes |-> {}]
  /\ gone = [n \in Nodes |-> {}]
  /\ failed = [n \in Nodes |-> {}]
  /\ listed = {} /\ reindexing = FALSE /\ reindexed = 0
  /\ faulted = 0

-----------------------------------------------------------------------------
(* Writers of the task queue *)

(* A version of Ingest that writes the task in a batch of its own, which    *)
(* may fail after the document was stored.                                  *)
IngestTwoWrites(d) ==
  /\ d \notin created
  /\ created' = created \cup {d}
  /\ alive' = alive \cup {d}
  /\ meta' = meta \cup {d}
  /\ \/ tasks' = tasks \cup {Insert(d, 0)} /\ NoFault
     \/ UNCHANGED tasks /\ Fault("clear")
  /\ UNCHANGED <<listed, reindexing, reindexed, search, unindexed, chan, locks, worker>>

(* email_ingest and the writers of calendar events and contacts: one batch  *)
(* stores the document and its task.                                        *)
Ingest(d) ==
  /\ d \notin created
  /\ created' = created \cup {d}
  /\ alive' = alive \cup {d}
  /\ meta' = meta \cup {d}
  /\ tasks' = tasks \cup {Insert(d, 0)}
  /\ UNCHANGED <<listed, reindexing, reindexed, search, unindexed, chan, locks,
                 worker, faulted>>

(* emails_delete, and the deletion of an event.  The task of an event gets  *)
(* a random sequence id; that of an e-mail may meet the second of its       *)
(* ingestion.                                                               *)
DeleteDocument(d) ==
  /\ d \in alive
  /\ alive' = alive \ {d}
  /\ meta' = IF d \in Events THEN meta \ {d} ELSE meta
  /\ \E due \in (IF d \in Emails THEN {0, 1} ELSE {1}) : tasks' = tasks \cup {Delete(d, due)}
  /\ UNCHANGED <<created, listed, reindexing, reindexed, search, unindexed, chan,
                 locks, worker, faulted>>

(* reindex lists the documents of the cache, and then writes the tasks.     *)
ReindexList ==
  /\ ~reindexing /\ reindexed < MaxReindex
  /\ reindexing' = TRUE
  /\ reindexed' = reindexed + 1
  /\ listed' = alive
  /\ UNCHANGED <<created, alive, tasks, stores, chan, locks, worker, faulted>>

ReindexWrite ==
  /\ reindexing
  /\ reindexing' = FALSE
  /\ listed' = {}
  /\ \E due \in ReindexDue : tasks' = tasks \cup {Insert(d, due) : d \in listed}
  /\ UNCHANGED <<created, alive, reindexed, stores, chan, locks, worker, faulted>>

-----------------------------------------------------------------------------
(* The manager of a node *)

(* process_tasks hands out the tasks that have no entry in ipc.locked, or   *)
(* one that has expired lock_expiry + 1 seconds after the task was handed   *)
(* out, however long the task still waits in the channel.                   *)
Scan(n) ==
  /\ \E due \in SUBSET tasks :
       /\ due \ chan[n] # {}
       /\ chan' = [chan EXCEPT ![n] = @ \cup due]
  /\ UNCHANGED <<queue, stores, locks, worker, faulted>>

(* A version of Lapse for locks without lock_expiry.                        *)
LapseNever(k) == FALSE /\ UNCHANGED vars

(* The lock of a task that nobody works on lapses after lock_expiry.        *)
Lapse(k) ==
  /\ k \in locks
  /\ \A n \in Nodes, t \in Task : t \in held[n] => LockKey(t) # k
  /\ locks' = locks \ {k}
  /\ UNCHANGED <<queue, stores, chan, worker, faulted>>

-----------------------------------------------------------------------------
(* The indexing worker of a node *)

(* The worker takes the first task, and more while there are any at hand.   *)
Receive(n) ==
  /\ pc[n] = "idle"
  /\ \E b \in SUBSET chan[n] :
       /\ b # {} /\ Cardinality(b) <= BatchSize
       /\ chan' = [chan EXCEPT ![n] = @ \ b]
       /\ todo' = [todo EXCEPT ![n] = b]
  /\ pc' = [pc EXCEPT ![n] = "lock"]
  /\ UNCHANGED <<queue, stores, locks, held, docs, gone, failed, faulted>>

(* A version of TryLock that goes on with the task in any case.             *)
TryLockIgnored(n) ==
  /\ pc[n] = "lock"
  /\ \E t \in todo[n] :
       /\ locks' = locks \cup {LockKey(t)}
       /\ held' = [held EXCEPT ![n] = @ \cup {t}]
       /\ todo' = [todo EXCEPT ![n] = IF @ = {t} THEN held'[n] ELSE @ \ {t}]
       /\ pc' = [pc EXCEPT ![n] = IF todo[n] # {t} THEN "lock" ELSE "build"]
  /\ UNCHANGED <<queue, stores, chan, docs, gone, failed, faulted>>

(* try_lock_task for the next task of the shuffled batch: a lock that is    *)
(* taken and a store that fails are the same to the worker.  After the last *)
(* one the worker goes on with what it has locked, if anything.             *)
TryLock(n) ==
  /\ pc[n] = "lock"
  /\ \E t \in todo[n] :
       /\ \/ /\ LockKey(t) \notin locks
             /\ locks' = locks \cup {LockKey(t)}
             /\ held' = [held EXCEPT ![n] = @ \cup {t}]
             /\ NoFault
          \/ /\ LockKey(t) \in locks
             /\ UNCHANGED <<locks, held>> /\ NoFault
          \/ UNCHANGED <<locks, held>> /\ Fault("lock")
       /\ todo' = [todo EXCEPT ![n] = IF @ = {t} THEN held'[n] ELSE @ \ {t}]
       /\ pc' = [pc EXCEPT ![n] = IF todo[n] # {t} THEN "lock"
                                  ELSE IF held'[n] = {} THEN "idle" ELSE "build"]
  /\ UNCHANGED <<queue, stores, chan, docs, gone, failed>>

(* The first loop of index(): the document of an insertion is built from    *)
(* what is stored, and there is nothing to index when that is gone; for the *)
(* deletion of an e-mail the metadata is looked up and added to the batch.  *)
(* (The third kind of document, SearchIndex::File, is passed over without a *)
(* status; no writer of the repository makes a task for it.)                *)
Build(n) ==
  /\ pc[n] = "build" /\ todo[n] # {}
  /\ \E t \in todo[n] :
       /\ todo' = [todo EXCEPT ![n] = @ \ {t}]
       /\ \/ /\ docs' = [docs EXCEPT ![n] = @ \cup
                            IF t.op = "insert" THEN {t.doc} \cap meta ELSE {}]
             /\ gone' = [gone EXCEPT ![n] = @ \cup
                            IF t.op = "delete" THEN {t.doc} \cap meta \cap Emails ELSE {}]
             /\ UNCHANGED failed /\ NoFault
          \/ /\ t.op = "insert" \/ t.doc \in Emails
             /\ failed' = [failed EXCEPT ![n] = @ \cup {t}]
             /\ UNCHANGED <<docs, gone>> /\ Fault("build")
  /\ UNCHANGED <<queue, stores, chan, locks, pc, held>>

Deletions(n) == {t \in held[n] : t.op = "delete"}
Insertions(n) == {t \in held[n] : t.op = "insert" /\ t.doc \in docs[n]}

(* "Commit deletion batch to data store".  When that fails index() returns: *)
(* the deletions of e-mails fail, and the other tasks keep their status.    *)
Commit(n) ==
  /\ pc[n] = "build" /\ todo[n] = {}
  /\ \/ /\ meta' = meta \ gone[n]
        /\ pc' = [pc EXCEPT ![n] = "index"]
        /\ UNCHANGED failed /\ NoFault
     \/ /\ gone[n] # {}
        /\ failed' = [failed EXCEPT ![n] = @ \cup {t \in Deletions(n) : t.doc \in Emails}]
        /\ pc' = [pc EXCEPT ![n] = "clear"]
        /\ UNCHANGED meta /\ Fault("commit")
  /\ UNCHANGED <<queue, search, unindexed, chan, locks, todo, held, docs, gone>>

(* "Index documents".  When that fails, whether or not the documents got    *)
(* there, index() returns and the insertions fail.                          *)
IndexDocuments(n) ==
  /\ pc[n] = "index"
  /\ \/ /\ search' = search \cup docs[n]
        /\ pc' = [pc EXCEPT ![n] = "unindex"]
        /\ UNCHANGED failed /\ NoFault
     \/ /\ docs[n] # {}
        /\ search' \in {search, search \cup docs[n]}
        /\ failed' = [failed EXCEPT ![n] = @ \cup Insertions(n)]
        /\ pc' = [pc EXCEPT ![n] = "clear"]
        /\ Fault("search")
  /\ UNCHANGED <<queue, meta, unindexed, chan, locks, todo, held, docs, gone>>

(* A version of Unindex that does not look at the result.                   *)
UnindexUnchecked(n) ==
  LET doomed == {t.doc : t \in Deletions(n) \ failed[n]} IN
  /\ pc[n] = "unindex"
  /\ \/ search' = search \ doomed /\ unindexed' = unindexed \cup doomed /\ NoFault
     \/ UNCHANGED <<search, unindexed>> /\ Fault("unindex")
  /\ pc' = [pc EXCEPT ![n] = "clear"]
  /\ UNCHANGED <<queue, meta, chan, locks, todo, held, docs, gone, failed>>

(* "Delete documents", first of the e-mails, then of the others.  When one  *)
(* of the two fails index() returns and all deletions fail.                 *)
Unindex(n) ==
  LET doomed == {t.doc : t \in Deletions(n) \ failed[n]} IN
  /\ pc[n] = "unindex"
  /\ \/ /\ search' = search \ doomed
        /\ unindexed' = unindexed \cup doomed
        /\ UNCHANGED failed /\ NoFault
     \/ /\ doomed # {}
        /\ \E done \in {{}, doomed \cap Emails} :
             search' = search \ done /\ unindexed' = unindexed \cup done
        /\ failed' = [failed EXCEPT ![n] = @ \cup Deletions(n)]
        /\ Fault("unindex")
  /\ pc' = [pc EXCEPT ![n] = "clear"]
  /\ UNCHANGED <<queue, meta, chan, locks, todo, held, docs, gone>>

(* delete_tasks: "Remove successful entries from queue".  A failed write is *)
(* only logged, and the locks are removed all the same.                     *)
Done(n) == held[n] \ failed[n]

Clear(n) ==
  /\ pc[n] = "clear"
  /\ \/ tasks' = tasks \ Done(n) /\ NoFault
     \/ UNCHANGED tasks /\ Done(n) # {} /\ Fault("clear")
  /\ pc' = [pc EXCEPT ![n] = "unlock"]
  /\ UNCHANGED <<created, alive, listed, reindexing, reindexed, stores, chan, locks, batch>>

(* remove_index_lock, for one task that did not fail after the other: each  *)
(* removal may fail by itself, which leaves the lock until it lapses.       *)
Unlock(n) ==
  /\ pc[n] = "unlock"
  /\ \E t \in Done(n) :
       /\ held' = [held EXCEPT ![n] = @ \ {t}]
       /\ \/ locks' = locks \ {LockKey(t)} /\ NoFault
          \/ UNCHANGED locks /\ Fault("lock")
  /\ UNCHANGED <<queue, stores, chan, pc, todo, docs, gone, failed>>

(* The batch is done; a failed task keeps its lock, until that lapses.      *)
Finish(n) ==
  /\ pc[n] = "unlock" /\ Done(n) = {}
  /\ pc' = [pc EXCEPT ![n] = "idle"]
  /\ held' = [held EXCEPT ![n] = {}]
  /\ docs' = [docs EXCEPT ![n] = {}]
  /\ gone' = [gone EXCEPT ![n] = {}]
  /\ failed' = [failed EXCEPT ![n] = {}]
  /\ UNCHANGED <<queue, stores, chan, locks, todo, faulted>>

(* The node dies and starts again, with nothing but what is stored.         *)
Crash(n) ==
  /\ pc[n] # "idle" \/ chan[n] # {}
  /\ Fault("crash")
  /\ pc' = [pc EXCEPT ![n] = "idle"]
  /\ chan' = [chan EXCEPT ![n] = {}]
  /\ todo' = [todo EXCEPT ![n] = {}]
  /\ held' = [held EXCEPT ![n] = {}]
  /\ docs' = [docs EXCEPT ![n] = {}]
  /\ gone' = [gone EXCEPT ![n] = {}]
  /\ failed' = [failed EXCEPT ![n] = {}]
  /\ UNCHANGED <<queue, stores, locks>>

-----------------------------------------------------------------------------

WorkerStep(n) ==
  \/ Receive(n)
  \/ TryLock(n)
  \/ Build(n)
  \/ Commit(n)
  \/ IndexDocuments(n)
  \/ Unindex(n)
  \/ Clear(n)
  \/ Unlock(n)
  \/ Finish(n)

Next ==
  \/ \E d \in Docs : Ingest(d) \/ DeleteDocument(d)
  \/ ReindexList \/ ReindexWrite
  \/ \E n \in Nodes : Scan(n) \/ WorkerStep(n) \/ Crash(n)
  \/ \E k \in Key : Lapse(k)

Spec == Init /\ [][Next]_vars

(* Managers scan at least every QUEUE_REFRESH_INTERVAL, workers finish what *)
(* they begin, and time passes.                                             *)
Fairness ==
  /\ \A n \in Nodes : WF_vars(Scan(n)) /\ WF_vars(WorkerStep(n))
  /\ WF_vars(\E k \in Key : Lapse(k))
LiveSpec == Spec /\ Fairness

-----------------------------------------------------------------------------
(* Properties *)

TypeOK ==
  /\ created \subseteq Docs /\ alive \subseteq created /\ meta \subseteq created
  /\ tasks \subseteq Task
  /\ search \subseteq created /\ unindexed \subseteq created
  /\ chan \in [Nodes -> SUBSET Task]
  /\ locks \subseteq Key
  /\ pc \in [Nodes -> PcStates]
  /\ todo \in [Nodes -> SUBSET Task]
  /\ held \in [Nodes -> SUBSET Task]
  /\ docs \in [Nodes -> SUBSET Docs]
  /\ gone \in [Nodes -> SUBSET Docs]
  /\ failed \in [Nodes -> SUBSET Task]
  /\ listed \subseteq created /\ reindexing \in BOOLEAN /\ reindexed \in Nat
  /\ faulted \in Nat

(* A document that exists is in the search store, or its insertion is still *)
(* in the task queue: whichever worker of whichever node fails or dies, at  *)
(* whichever step.                                                          *)
NothingForgotten ==
  \A d \in alive : d \in search \/ \E t \in tasks : t.doc = d /\ t.op = "insert"

(* A deleted document leaves the search store before its deletion leaves    *)
(* the task queue.  (A node that had built the index document before, and   *)
(* indexes it only after another node has unindexed it, puts it back.)      *)
NoGhost ==
  \A d \in search \ alive :
     d \in unindexed \/ \E t \in tasks : t.doc = d /\ t.op = "delete"

(* Two workers never hold the lock of the same task: what makes it safe     *)
(* that a scan of one node hands out what another node works on.            *)
OneWorkerPerTask ==
  \A m, n \in Nodes : \A s \in held[m], t \in held[n] :
     LockKey(s) = LockKey(t) => m = n /\ s = t

(* "Remove successful entries from queue" (task_manager/mod.rs:158): a task *)
(* that leaves the queue has done its work: the document is, or is no       *)
(* longer, in the search store, or it was deleted before it was indexed.    *)
RemovedWhenDone ==
  [][\A t \in tasks \ tasks' :
       IF t.op = "insert" THEN t.doc \in search \/ t.doc \notin alive
                          ELSE t.doc \notin search]_vars

(* The queue drains, however often: failed tasks are tried again, by this   *)
(* node or by another.  With NothingForgotten, every document that is not   *)
(* deleted first gets into the search store.                                *)
EventuallyDrained == []<>(tasks = {})
=============================================================================
