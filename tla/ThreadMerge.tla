----------------------------- MODULE ThreadMerge -----------------------------
(***************************************************************************)
(* Conversations: how a message finds its thread when it is stored          *)
(* (email/src/message/ingest.rs) and how threads that turn out to be one    *)
(* are merged in the background (services/src/task_manager/merge_threads.rs)*)
(*                                                                          *)
(*   - a session looks up the threads of the messages that share a message  *)
(*     id with the new one (find_thread_id), takes the most common, and     *)
(*     stores the message: its archive and an entry of the threading index, *)
(*     and a merge task when it found several threads;                      *)
(*   - a worker that has locked a merge task collects the messages of these *)
(*     threads from the index, reads the archive of every message that is   *)
(*     to move, and moves them in one batch that asserts that none of these *)
(*     archives has changed; if one has, it starts over;                    *)
(*   - its lock lapses after ALARM_EXPIRY, whether or not it is done;       *)
(*   - meanwhile other requests change and delete messages; the index entry *)
(*     of a deleted message goes only with its deletion task (IndexTasks).  *)
(*                                                                          *)
(* One account and one subject: all messages have the same thread_hash.  A  *)
(* thread has the id of its first message.                                  *)
(***************************************************************************)
EXTENDS Naturals, Sequences, FiniteSets

CONSTANTS
  Docs,        \* document ids, in the order in which they are assigned
  Refs,        \* document |-> the sequence of message ids it has or refers to
  Workers,     \* the merge workers, one per node
  MaxRetries,  \* MAX_RETRIES
  MaxTries,    \* bound on try_count, which has none of its own
  MaxChanges   \* bound on the changes of one message

ASSUME ThreadDocsAssumption == Docs \subseteq Nat \ {0} /\ IsFiniteSet(Docs)
ASSUME RefsAssumption == \A d \in Docs : d \in DOMAIN Refs /\ Refs[d] \in Seq(Nat)
ASSUME ThreadBoundsAssumption ==
  MaxRetries \in Nat /\ MaxTries \in Nat /\ MaxChanges \in Nat

None == 0                             \* no thread
Pair == Docs \X Docs                  \* a thread and a message of it
Merge == [doc : Docs, ids : SUBSET Docs]
NoMerge == [doc |-> None, ids |-> {}]

VARIABLES
  session,   \* document |-> "new", "found" or "stored"
  plan,      \* document |-> the ThreadResult of find_thread_id
  thread,    \* document |-> the thread_id in its archive, None without one
  version,   \* document |-> how often its archive was written
  index,     \* document |-> the thread in its threading entry, or None
  tasks,     \* the merge tasks in the queue
  locks,     \* the tasks whose lock is in force
  closed,    \* the threads that were reported as deleted to the clients
  pc,        \* worker |-> what it does next, "dead" after a panic
  task,      \* worker |-> the task it has locked
  tries,     \* worker |-> try_count
  seen,      \* worker |-> how often thread_merge lists each pair
  entries,   \* worker |-> the documents in thread_index
  left,      \* worker |-> the pairs it has still to visit, and how often
  reads,     \* worker |-> the archives that the batch asserts
  raced      \* history: a lookup overlapped another one or a merge, or a
             \* lock lapsed under the worker that held it

store == <<session, plan, thread, version, index, closed>>
loop == <<tries, seen, entries, left, reads>>
vars == <<store, tasks, locks, pc, task, loop, raced>>

PcStates == {"idle", "scan", "visit", "clear", "dead"}
Alive(d) == thread[d] # None
Busy(w) == pc[w] \notin {"idle", "dead"}

Init ==
  /\ session = [d \in Docs |-> "new"]
  /\ plan = [d \in Docs |-> NoMerge]
  /\ thread = [d \in Docs |-> None]
  /\ version = [d \in Docs |-> 0]
  /\ index = [d \in Docs |-> None]
  /\ tasks = {} /\ locks = {} /\ closed = {}
  /\ pc = [w \in Workers |-> "idle"]
  /\ task = [w \in Workers |-> NoMerge]
  /\ tries = [w \in Workers |-> 0]
  /\ seen = [w \in Workers |-> [p \in Pair |-> 0]]
  /\ entries = [w \in Workers |-> {}]
  /\ left = [w \in Workers |-> [p \in Pair |-> 0]]
  /\ reads = [w \in Workers |-> {}]
  /\ raced = FALSE

-----------------------------------------------------------------------------
(* ThreadMerge *)

(* The most common thread, the oldest of them when there are several.       *)
MergeThreadId(count) ==
  CHOOSE t \in DOMAIN count :
    /\ count[t] > 0
    /\ \A u \in DOMAIN count : count[u] < count[t] \/ (count[u] = count[t] /\ t <= u)

(* has_message_id: one walk along both lists, which finds a common message  *)
(* id if they are sorted.                                                   *)
HasMessageId(a, b) ==
  LET walk[at \in (1..Len(a) + 1) \X (1..Len(b) + 1)] ==
        LET i == at[1]
            j == at[2]
        IN /\ i <= Len(a) /\ j <= Len(b)
           /\ \/ a[i] = b[j]
              \/ IF a[i] < b[j] THEN walk[<<i + 1, j>>] ELSE walk[<<i, j + 1>>]
  IN walk[<<1, 1>>]

(* A version of FindThread that lists only the threads to be merged away.   *)
FindThreadLosers(d) ==
  LET related == {e \in Docs : index[e] # None /\ HasMessageId(Refs[d], Refs[e])}
      count == [t \in Docs |-> Cardinality({e \in related : index[e] = t})]
      found == {index[e] : e \in related}
      winner == IF found = {} THEN d ELSE MergeThreadId(count)
  IN [doc |-> winner, ids |-> found \ {winner}]

(* A version of FindThread that opens a thread with the id after its own.   *)
FindThreadOffByOne(d) ==
  LET related == {e \in Docs : index[e] # None /\ HasMessageId(Refs[d], Refs[e])}
      count == [t \in Docs |-> Cardinality({e \in related : index[e] = t})]
      found == {index[e] : e \in related}
  IN [doc |-> IF found = {} THEN d + 1 ELSE MergeThreadId(count),
      ids |-> IF Cardinality(found) > 1 THEN found ELSE {}]

(* find_thread_id: the thread of the new message, itself if it is the first *)
(* of its kind, and the threads to merge if there are several.              *)
FindThread(d) ==
  LET related == {e \in Docs : index[e] # None /\ HasMessageId(Refs[d], Refs[e])}
      count == [t \in Docs |-> Cardinality({e \in related : index[e] = t})]
      found == {index[e] : e \in related}
  IN [doc |-> IF found = {} THEN d ELSE MergeThreadId(count),
      ids |-> IF Cardinality(found) > 1 THEN found ELSE {}]

-----------------------------------------------------------------------------
(* Sessions *)

Find(d) ==
  /\ session[d] = "new"
  /\ \A e \in Docs : e < d => session[e] # "new"
  /\ session' = [session EXCEPT ![d] = "found"]
  /\ plan' = [plan EXCEPT ![d] = FindThread(d)]
  /\ raced' = (raced \/ tasks # {} \/ \E e \in Docs : session[e] = "found")
  /\ UNCHANGED <<thread, version, index, closed, tasks, locks, pc, task, loop>>

(* One batch: archive, threading entry, and the merge task.                 *)
Store(d) ==
  /\ session[d] = "found"
  /\ session' = [session EXCEPT ![d] = "stored"]
  /\ thread' = [thread EXCEPT ![d] = plan[d].doc]
  /\ version' = [version EXCEPT ![d] = 1]
  /\ index' = [index EXCEPT ![d] = plan[d].doc]
  /\ tasks' = IF plan[d].ids = {} THEN tasks
              ELSE tasks \cup {[doc |-> d, ids |-> plan[d].ids]}
  /\ UNCHANGED <<plan, closed, locks, pc, task, loop, raced>>

(* Another request rewrites the archive: keywords, mailboxes.               *)
Change(d) ==
  /\ Alive(d) /\ version[d] <= MaxChanges
  /\ version' = [version EXCEPT ![d] = @ + 1]
  /\ UNCHANGED <<session, plan, thread, index, closed, tasks, locks, pc, task, loop, raced>>

(* emails_delete clears the archive, and the deletion task the entry.       *)
DeleteMessage(d) ==
  /\ Alive(d)
  /\ thread' = [thread EXCEPT ![d] = None]
  /\ version' = [version EXCEPT ![d] = @ + 1]
  /\ UNCHANGED <<session, plan, index, closed, tasks, locks, pc, task, loop, raced>>

DeleteEntry(d) ==
  /\ ~Alive(d) /\ index[d] # None
  /\ index' = [index EXCEPT ![d] = None]
  /\ UNCHANGED <<session, plan, thread, version, closed, tasks, locks, pc, task, loop, raced>>

-----------------------------------------------------------------------------
(* The merge worker of a node *)

(* The worker locks a task of the queue and calls merge_threads.            *)
Begin(w) ==
  /\ pc[w] = "idle"
  /\ \E t \in tasks \ locks :
       /\ locks' = locks \cup {t}
       /\ task' = [task EXCEPT ![w] = t]
  /\ pc' = [pc EXCEPT ![w] = "scan"]
  /\ tries' = [tries EXCEPT ![w] = 0]
  /\ seen' = [seen EXCEPT ![w] = [p \in Pair |-> 0]]
  /\ entries' = [entries EXCEPT ![w] = {}]
  /\ UNCHANGED <<store, tasks, left, reads, raced>>

(* The lock lapses.  A worker that is still at the task does not notice,    *)
(* and another one may begin it.                                            *)
Lapse(t) ==
  /\ t \in locks
  /\ locks' = locks \ {t}
  /\ raced' = (raced \/ \E w \in Workers : Busy(w) /\ task[w] = t)
  /\ UNCHANGED <<store, tasks, pc, task, loop>>

(* The length of a thread's list in thread_merge, where a message that is    *)
(* listed twice counts twice.                                               *)
Total(count, t) == Cardinality(UNION {{d} \X (1..count[<<t, d>>]) : d \in Docs})

(* "Find thread ids": the messages of the threads to merge are added to     *)
(* what thread_merge has already.  With fewer than two threads there is     *)
(* nothing to do.                                                           *)
Scan(w) ==
  LET hits == {d \in Docs : index[d] # None /\ index[d] \in task[w].ids}
      list == [p \in Pair |->
                 seen[w][p] + IF p[2] \in hits /\ index[p[2]] = p[1] THEN 1 ELSE 0]
      winner == MergeThreadId([t \in Docs |-> Total(list, t)])
      found == {t \in Docs : Total(list, t) > 0}
  IN
  /\ pc[w] = "scan" /\ tries[w] <= MaxTries
  /\ seen' = [seen EXCEPT ![w] = list]
  /\ entries' = [entries EXCEPT ![w] = @ \cup hits]
  /\ IF Cardinality(found) < 2
     THEN /\ pc' = [pc EXCEPT ![w] = "clear"]
          /\ UNCHANGED left
     ELSE /\ pc' = [pc EXCEPT ![w] = "visit"]
          /\ left' = [left EXCEPT ![w] =
                        [p \in Pair |-> IF p[1] = winner THEN 0 ELSE list[p]]]
  /\ reads' = [reads EXCEPT ![w] = {}]
  /\ UNCHANGED <<store, tasks, locks, task, tries, raced>>

(* The archive of the next message is read.  One that is gone is skipped;   *)
(* one that is in another thread by now makes the merge start over; and a   *)
(* message that is listed twice has lost its entry of thread_index at its   *)
(* first visit, and unwrap() panics.                                        *)
Visit(w) ==
  /\ pc[w] = "visit"
  /\ \E p \in Pair :
       LET d == p[2] IN
       /\ left[w][p] > 0
       /\ left' = [left EXCEPT ![w][p] = @ - 1]
       /\ \/ /\ ~Alive(d)
             /\ UNCHANGED <<pc, tries, entries, reads>>
          \/ /\ Alive(d) /\ thread[d] # p[1]
             /\ pc' = [pc EXCEPT ![w] = "scan"]
             /\ tries' = [tries EXCEPT ![w] = @ + 1]
             /\ UNCHANGED <<entries, reads>>
          \/ /\ Alive(d) /\ thread[d] = p[1] /\ d \in entries[w]
             /\ entries' = [entries EXCEPT ![w] = @ \ {d}]
             /\ reads' = [reads EXCEPT ![w] = @ \cup {<<d, version[d]>>}]
             /\ UNCHANGED <<pc, tries>>
          \/ /\ Alive(d) /\ thread[d] = p[1] /\ d \notin entries[w]
             /\ pc' = [pc EXCEPT ![w] = "dead"]
             /\ UNCHANGED <<tries, entries, reads>>
  /\ UNCHANGED <<store, tasks, locks, task, seen, raced>>

Winner(w) == MergeThreadId([t \in Docs |-> Total(seen[w], t)])
Visited(w) == \A p \in Pair : left[w][p] = 0
Unchanged(w) == \A r \in reads[w] : Alive(r[1]) /\ version[r[1]] = r[2]
Moved(w) == {r[1] : r \in reads[w]}

(* A version of Commit without the assertions.                              *)
CommitUnasserted(w) ==
  /\ pc[w] = "visit" /\ Visited(w)
  /\ thread' = [d \in Docs |-> IF d \in Moved(w) THEN Winner(w) ELSE thread[d]]
  /\ version' = [d \in Docs |-> IF d \in Moved(w) THEN version[d] + 1 ELSE version[d]]
  /\ index' = [d \in Docs |-> IF d \in Moved(w) THEN Winner(w) ELSE index[d]]
  /\ closed' = closed \cup {t \in Docs \ {Winner(w)} : Total(seen[w], t) > 0}
  /\ pc' = [pc EXCEPT ![w] = "clear"]
  /\ UNCHANGED <<session, plan, tasks, locks, task, loop, raced>>

(* A version of Commit that leaves the threading index alone.               *)
CommitArchiveOnly(w) ==
  /\ pc[w] = "visit" /\ Visited(w)
  /\ Unchanged(w)
  /\ thread' = [d \in Docs |-> IF d \in Moved(w) THEN Winner(w) ELSE thread[d]]
  /\ version' = [d \in Docs |-> IF d \in Moved(w) THEN version[d] + 1 ELSE version[d]]
  /\ closed' = closed \cup {t \in Docs \ {Winner(w)} : Total(seen[w], t) > 0}
  /\ pc' = [pc EXCEPT ![w] = "clear"]
  /\ UNCHANGED <<session, plan, index, tasks, locks, task, loop, raced>>

(* The batch moves the messages it has read, and their threading entries,   *)
(* unless one of their archives was written since: then the merge starts    *)
(* over, and gives up after MAX_RETRIES.  The lock stays in force then.     *)
Commit(w) ==
  /\ pc[w] = "visit" /\ Visited(w)
  /\ \/ /\ Unchanged(w)
        /\ thread' = [d \in Docs |-> IF d \in Moved(w) THEN Winner(w) ELSE thread[d]]
        /\ version' = [d \in Docs |-> IF d \in Moved(w) THEN version[d] + 1 ELSE version[d]]
        /\ index' = [d \in Docs |-> IF d \in Moved(w) THEN Winner(w) ELSE index[d]]
        /\ closed' = closed \cup {t \in Docs \ {Winner(w)} : Total(seen[w], t) > 0}
        /\ pc' = [pc EXCEPT ![w] = "clear"]
        /\ UNCHANGED tries
     \/ /\ ~Unchanged(w)
        /\ pc' = [pc EXCEPT ![w] = IF tries[w] < MaxRetries THEN "scan" ELSE "idle"]
        /\ tries' = [tries EXCEPT ![w] = IF tries[w] < MaxRetries THEN @ + 1 ELSE @]
        /\ UNCHANGED <<thread, version, index, closed>>
  /\ UNCHANGED <<session, plan, tasks, locks, task, seen, entries, left, reads, raced>>

(* delete_tasks, after success: the task and its lock.  Either removal may  *)
(* fail, which is only logged.                                              *)
Clear(w) ==
  /\ pc[w] = "clear"
  /\ tasks' \in {tasks, tasks \ {task[w]}}
  /\ locks' \in {locks, locks \ {task[w]}}
  /\ pc' = [pc EXCEPT ![w] = "idle"]
  /\ UNCHANGED <<store, task, loop, raced>>

(* The node dies, or is started again after its worker died; or a read or   *)
(* the batch fails and merge_threads returns.  The lock stays in force.     *)
Restart(w) ==
  /\ pc[w] # "idle"
  /\ pc' = [pc EXCEPT ![w] = "idle"]
  /\ UNCHANGED <<store, tasks, locks, task, loop, raced>>

-----------------------------------------------------------------------------

WorkerStep(w) == Begin(w) \/ Scan(w) \/ Visit(w) \/ Commit(w) \/ Clear(w)

Next ==
  \/ \E d \in Docs : Find(d) \/ Store(d) \/ Change(d) \/ DeleteMessage(d) \/ DeleteEntry(d)
  \/ \E w \in Workers : WorkerStep(w) \/ Restart(w)
  \/ \E t \in locks : Lapse(t)

Spec == Init /\ [][Next]_vars

-----------------------------------------------------------------------------
(* Properties *)

TypeOK ==
  /\ session \in [Docs -> {"new", "found", "stored"}]
  /\ plan \in [Docs -> [doc : Docs, ids : SUBSET Docs] \cup {NoMerge}]
  /\ thread \in [Docs -> Docs \cup {None}]
  /\ version \in [Docs -> Nat]
  /\ index \in [Docs -> Docs \cup {None}]
  /\ tasks \subseteq Merge /\ locks \subseteq Merge
  /\ closed \subseteq Docs
  /\ pc \in [Workers -> PcStates]
  /\ task \in [Workers -> Merge \cup {NoMerge}]
  /\ tries \in [Workers -> Nat]
  /\ seen \in [Workers -> [Pair -> Nat]]
  /\ entries \in [Workers -> SUBSET Docs]
  /\ left \in [Workers -> [Pair -> Nat]]
  /\ reads \in [Workers -> SUBSET (Docs \X Nat)]
  /\ raced \in BOOLEAN

(* The threading index and the archives agree on the thread of every        *)
(* message, whatever merges, changes and deletions overlap.                 *)
IndexAgrees == \A d \in Docs : Alive(d) => index[d] = thread[d]

(* A merge does not bring back a message that was deleted while it ran.     *)
DeletedStaysDeleted ==
  [][\A d \in Docs : (session[d] = "stored" /\ ~Alive(d)) => thread'[d] = None]_vars

MessageIds(d) == {Refs[d][i] : i \in DOMAIN Refs[d]}
Sorted(d) == \A i, j \in DOMAIN Refs[d] : i < j => Refs[d][i] < Refs[d][j]

(* Messages that share a message id are in one thread once the merges are   *)
(* done, if no lookup overlapped another one or a merge, no lock lapsed     *)
(* under a merge, and for message ids in the order in which email_ingest    *)
(* puts them.                                                               *)
OneThread ==
  (tasks = {} /\ ~raced) =>
     \A d, e \in {f \in Docs : Alive(f) /\ Sorted(f)} :
        MessageIds(d) \cap MessageIds(e) # {} => thread[d] = thread[e]

(* thread_index.remove(..).unwrap() (merge_threads.rs:170): the message is  *)
(* in thread_index when its archive is read, however often the loop retries.*)
NoPanic == \A w \in Workers : pc[w] # "dead"
=============================================================================
