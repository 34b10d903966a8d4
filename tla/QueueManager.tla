---------------------------- MODULE QueueManager ----------------------------
(***************************************************************************)
(* The queue manager of one node (smtp/src/queue/manager.rs), a loop that   *)
(* owns its state and talks to everybody else through one channel:          *)
(*                                                                          *)
(*   - it sleeps until next_refresh or a QueueEvent, handles every event    *)
(*     that is waiting, and scans the due queue events of the store         *)
(*     (SmtpSpool::next_event), starting a delivery task for each, within   *)
(*     the threads of its virtual queue;                                    *)
(*   - a task (QueuedMessage::try_deliver) takes the distributed lock,      *)
(*     rewrites the event or clears it, unlocks and reports WorkerDone;     *)
(*   - MessageWrapper::queue writes an event and then sends Refresh;        *)
(*   - the management API sends Paused, a bulk delete around its work too;  *)
(*   - another node works on the same store.                                *)
(*                                                                          *)
(* A key stands for a (queue_id, queue_name) pair.  Times are countdowns:   *)
(* how long until the event is due, the lock lapses, the manager wakes up.  *)
(* What a delivery does to the message is the subject of QueueSpool.        *)
(***************************************************************************)
EXTENDS Integers, Sequences, FiniteSets, FiniteSetsExt, Functions

CONSTANTS
  Keys,          \* (queue_id, queue_name) pairs
  Queues,        \* the virtual queues
  QueueOf,       \* key |-> its virtual queue
  Threads,       \* the values the threads setting of a queue may take
  Tasks,         \* delivery tasks that can exist at a time
  Delays,        \* in how long a deferred or a new message is due
  LockExpiry,    \* LOCK_EXPIRY
  Jitter,        \* what is added to LOCK_EXPIRY (5..10 in the source)
  QueueRefresh,  \* QUEUE_REFRESH
  PauseSleep,    \* 86400
  OtherKeys,     \* keys a second node may come to work on, if there is one
  MaxRequests    \* bound on management requests, reloads, shutdowns, deaths of
                 \* the other node, deferrals and failed writes

ASSUME KeyAssumption == -1 \notin Keys
ASSUME QueueOfAssumption == QueueOf \in [Keys -> Queues]
ASSUME TimesAssumption ==
  /\ LockExpiry \in Nat \ {0}
  /\ Jitter \subseteq Nat
  /\ QueueRefresh \in Nat \ {0}
  /\ PauseSleep \in Nat \ {0}
  /\ Delays \subseteq Nat
ASSUME ThreadsAssumption == Threads \subseteq Nat \ {0} /\ Threads # {}
ASSUME BoundsAssumption == MaxRequests \in Nat
ASSUME OtherKeysAssumption == OtherKeys \subseteq Keys
(* Tasks never run out: the bound is one of the model.                      *)
ASSUME TasksAssumption ==
  /\ IsFiniteSet(Tasks)
  /\ IsFiniteSet(Keys)
  /\ IsFiniteSet(Queues)
  /\ \A n \in Threads : n * Cardinality(Queues) <= Cardinality(Tasks)

None == -1              \* no event, or no entry
Forever == 1000000      \* INFINITE_LOCK
Statuses == {"completed", "deferred", "locked"}

VARIABLES
  event,      \* key |-> when its MessageEvent is due, or None
  lock,       \* key |-> what is left of the distributed lock, 0 if none
  stage,      \* key |-> "new", "stored" (Refresh is still to be sent) or "queued"
  other,      \* keys the other node is working on
  locked,     \* Queue.locked: key |-> time to expiry, or None
  inflight,   \* queue |-> QueueStats.in_flight
  limit,      \* queue |-> QueueStats.max_in_flight
  paused,     \* Queue.is_paused
  wake,       \* Queue.next_refresh
  inbox,      \* the channel
  closed,     \* rx.close() was called
  mgr,        \* where the loop is
  refresh,    \* refresh_queue
  active,     \* inner.data.queue_status
  task,       \* delivery task |-> where it is, on which key, with which result
  bulk,       \* the bulk delete in progress: where it is, and is_active
  waspaused,  \* history: the loop has been paused at some time
  requests    \* what MaxRequests bounds, so far

Task == [pc : {"idle", "start", "work", "unlock", "report", "sent"},
         key : Keys \cup {None},
         status : Statuses \cup {"none"}]

(* QueueEvent of common/src/ipc.rs; WorkerDone names the task, whose key    *)
(* and result it carries, and ReloadSettings the setting the core has then. *)
QueueEvent == [type : {"WorkerDone"}, task : Tasks]
              \cup [type : {"Refresh", "Stop"}]
              \cup [type : {"Paused"}, paused : BOOLEAN]
              \cup [type : {"ReloadSettings"}, threads : [Queues -> Threads]]

store == <<event, lock, stage, other>>
manager == <<locked, inflight, limit, paused, wake, closed, mgr, refresh, active>>
vars == <<store, manager, inbox, task, bulk, waspaused, requests>>

TypeOK ==
  /\ event \in [Keys -> Nat \cup {None}]
  /\ lock \in [Keys -> Nat]
  /\ stage \in [Keys -> {"new", "stored", "queued"}]
  /\ other \subseteq Keys
  /\ locked \in [Keys -> Nat \cup {None}]
  /\ inflight \in [Queues -> Nat]
  /\ limit \in [Queues -> Nat \ {0}]
  /\ paused \in BOOLEAN
  /\ wake \in Nat
  /\ closed \in BOOLEAN
  /\ mgr \in {"wait", "drain", "run", "stopped"}
  /\ refresh \in BOOLEAN
  /\ active \in BOOLEAN
  /\ task \in [Tasks -> Task]
  /\ inbox \in Seq(QueueEvent)
  /\ bulk \in [pc : {"idle", "pause", "delete", "resume"}, active : BOOLEAN]
  /\ waspaused \in BOOLEAN
  /\ requests \in Nat

NoTask == [pc |-> "idle", key |-> None, status |-> "none"]
NoBulk == [pc |-> "idle", active |-> FALSE]

Init ==
  /\ event = [k \in Keys |-> None]
  /\ lock = [k \in Keys |-> 0]
  /\ stage = [k \in Keys |-> "new"]
  /\ other = {}
  /\ locked = [k \in Keys |-> None]
  /\ inflight = [q \in Queues |-> 0]
  /\ limit \in [Queues -> Threads]
  /\ paused = FALSE
  /\ wake = 1
  /\ inbox = << >>
  /\ closed = FALSE
  /\ mgr = "wait"
  /\ refresh = FALSE
  /\ active = TRUE
  /\ task = [t \in Tasks |-> NoTask]
  /\ bulk = NoBulk
  /\ waspaused = FALSE
  /\ requests = 0

(* queue_tx.send: a closed channel is an error everybody ignores.           *)
Send(e) == inbox' = IF closed THEN inbox ELSE Append(inbox, e)

HasCapacity(q) == inflight[q] < limit[q]

KeysOf(q) == {k \in Keys : QueueOf[k] = q}

(* The keys with a task between its start and its report to the manager.    *)
Running(t) == task[t].pc # "idle"
TasksOf(q) == {t \in Tasks : Running(t) /\ QueueOf[task[t].key] = q}

-----------------------------------------------------------------------------
(* Queue::handle_event *)

Entries(f) == {k \in Keys : f[k] # None}

(* A version of WorkerDone that forgets the thread of a locked message.     *)
WorkerDoneLeak(t) ==
  LET k == task[t].key
      q == QueueOf[k]
  IN /\ task' = [task EXCEPT ![t] = NoTask]
     /\ inflight' = IF task[t].status = "locked" THEN inflight
                                                 ELSE [inflight EXCEPT ![q] = @ - 1]
     /\ locked' = [locked EXCEPT ![k] = None]
     /\ refresh' = TRUE
     /\ UNCHANGED wake

(* A version of WorkerDone that takes a locked message for one of its own.  *)
WorkerDoneInfinite(t) ==
  LET k == task[t].key
      q == QueueOf[k]
  IN /\ task' = [task EXCEPT ![t] = NoTask]
     /\ inflight' = [inflight EXCEPT ![q] = @ - 1]
     /\ locked' = [locked EXCEPT ![k] = IF task[t].status = "locked" THEN Forever ELSE None]
     /\ refresh' = TRUE
     /\ UNCHANGED wake

(* A version of WorkerDone that takes a deferred message for a completed    *)
(* one.                                                                     *)
WorkerDoneQuiet(t) ==
  LET k == task[t].key
      q == QueueOf[k]
  IN /\ task' = [task EXCEPT ![t] = NoTask]
     /\ inflight' = [inflight EXCEPT ![q] = @ - 1]
     /\ locked' = [locked EXCEPT ![k] = None]
     /\ refresh' = (refresh \/ Entries(locked') # {} \/ ~(inflight'[q] < limit[q]))
     /\ UNCHANGED wake

(* A task has ended: its thread is free.  A message that somebody else has  *)
(* locked is left alone until that lock must have lapsed.                   *)
WorkerDone(t) ==
  LET k == task[t].key
      q == QueueOf[k]
  IN /\ task' = [task EXCEPT ![t] = NoTask]
     /\ inflight' = [inflight EXCEPT ![q] = @ - 1]
     /\ \/ /\ task[t].status = "completed"
           /\ locked' = [locked EXCEPT ![k] = None]
           /\ refresh' = (refresh \/ Entries(locked') # {} \/ ~(inflight'[q] < limit[q]))
           /\ UNCHANGED wake
        \/ /\ task[t].status = "locked"
           /\ \E j \in Jitter :
                /\ locked' = [locked EXCEPT ![k] = LockExpiry + j]
                /\ wake' = Min({wake, LockExpiry + j})
           /\ refresh' = (refresh \/ Cardinality(Entries(locked')) > 1
                                  \/ ~(inflight'[q] < limit[q]))
        \/ /\ task[t].status = "deferred"
           /\ locked' = [locked EXCEPT ![k] = None]
           /\ refresh' = TRUE
           /\ UNCHANGED wake

(* One event, the next in the channel.                                      *)
HandleEvent ==
  LET e == Head(inbox)
  IN /\ inbox' = Tail(inbox)
     /\ \/ /\ e.type = "WorkerDone"
           /\ WorkerDone(e.task)
           /\ UNCHANGED <<limit, paused, closed, active>>
        \/ /\ e.type = "Refresh"
           /\ refresh' = TRUE
           /\ UNCHANGED <<locked, inflight, limit, paused, wake, closed, active, task>>
        \/ /\ e.type = "Paused"
           /\ paused' = e.paused
           /\ active' = ~e.paused
           /\ UNCHANGED <<locked, inflight, limit, wake, closed, refresh, task>>
        \/ /\ e.type = "ReloadSettings"
           /\ limit' = e.threads
           /\ UNCHANGED <<locked, inflight, paused, wake, closed, refresh, active, task>>
        \/ /\ e.type = "Stop"
           /\ closed' = TRUE
           /\ paused' = TRUE
           /\ UNCHANGED <<locked, inflight, limit, wake, refresh, active, task>>

-----------------------------------------------------------------------------
(* Queue::start *)

(* rx.recv, then try_recv until the channel is empty.                       *)
Receive ==
  /\ mgr \in {"wait", "drain"}
  /\ inbox # << >>
  /\ HandleEvent
  /\ mgr' = "drain"
  /\ waspaused' = (waspaused \/ paused')
  /\ UNCHANGED <<store, bulk, requests>>

(* The timeout of the wait; an event that has arrived comes first.          *)
Timeout ==
  /\ mgr = "wait"
  /\ inbox = << >>
  /\ ~closed
  /\ wake = 0
  /\ refresh' = TRUE
  /\ mgr' = "run"
  /\ UNCHANGED <<store, locked, inflight, limit, paused, wake, closed, active, inbox, task,
                 bulk, waspaused, requests>>

(* SmtpSpool::next_event: the due keys it looks at, unless their queue has  *)
(* no thread left; those it returns are not locked, or not any more.        *)
Visited == {k \in Keys : event[k] = 0 /\ HasCapacity(QueueOf[k])}
Found == {k \in Visited : locked[k] \in {None, 0}}

(* A version of NextRefresh that takes a missing event for an early one.    *)
NextRefreshAny == Min({QueueRefresh} \cup {event[k] : k \in Keys})

(* When the scan wants to be repeated: QUEUE_REFRESH from now, or earlier   *)
(* for a locked entry that expires or an event that falls due.              *)
NextRefresh ==
  Min({QueueRefresh} \cup {locked[k] : k \in Visited \ Found}
                     \cup {event[k] : k \in {x \in Keys : event[x] > 0}})

(* A version of Startable that starts everything that was found.            *)
StartableAll == {Found}

(* The found keys for which there are threads, in the order of their due    *)
(* time or, when there are more than three, a random one.                   *)
Startable ==
  {D \in SUBSET Found : \A q \in {x \in Queues : HasCapacity(x)} :
     Cardinality(D \cap KeysOf(q)) =
       Min({limit[q] - inflight[q], Cardinality(Found \cap KeysOf(q))})}

(* A version of Scan that enters what it found before it looks for threads. *)
ScanEntersAll ==
  \E D \in Startable : \E f \in Injection(D, {t \in Tasks : ~Running(t)}) :
    /\ task' = [t \in Tasks |-> IF \E k \in D : f[k] = t
                   THEN [NoTask EXCEPT !.pc = "start", !.key = CHOOSE k \in D : f[k] = t]
                   ELSE task[t]]
    /\ inflight' = [q \in Queues |-> inflight[q] + Cardinality(D \cap KeysOf(q))]
    /\ locked' = [k \in Keys |-> IF k \in Found THEN Forever
                                  ELSE IF k \in Visited THEN locked[k]
                                  ELSE None]
    /\ wake' = NextRefresh

(* The scan: a task for each startable key.  What the scan did not look at  *)
(* keeps an old locked_revision and is dropped, and so are expired entries. *)
Scan ==
  \E D \in Startable : \E f \in Injection(D, {t \in Tasks : ~Running(t)}) :
    /\ task' = [t \in Tasks |-> IF \E k \in D : f[k] = t
                   THEN [NoTask EXCEPT !.pc = "start", !.key = CHOOSE k \in D : f[k] = t]
                   ELSE task[t]]
    /\ inflight' = [q \in Queues |-> inflight[q] + Cardinality(D \cap KeysOf(q))]
    /\ locked' = [k \in Keys |-> IF k \in D THEN Forever
                                  ELSE IF k \in Visited \ Found THEN locked[k]
                                  ELSE None]
    /\ wake' = NextRefresh

(* The rest of the loop.  A paused manager goes to sleep for a day.         *)
Run ==
  /\ mgr = "run" \/ (mgr = "drain" /\ inbox = << >>)
  /\ \/ /\ ~paused
        /\ refresh \/ wake = 0
        /\ Scan
     \/ /\ ~paused
        /\ ~refresh
        /\ wake > 0
        /\ UNCHANGED <<task, inflight, locked, wake>>
     \/ /\ paused
        /\ wake' = PauseSleep
        /\ UNCHANGED <<task, inflight, locked>>
  /\ mgr' = "wait"
  /\ refresh' = FALSE
  /\ UNCHANGED <<store, limit, paused, closed, active, inbox, bulk, waspaused, requests>>

(* recv answers None: the channel is closed and empty.                      *)
Stopped ==
  /\ mgr = "wait"
  /\ inbox = << >>
  /\ closed
  /\ mgr' = "stopped"
  /\ UNCHANGED <<store, locked, inflight, limit, paused, wake, closed, refresh, active, inbox,
                 task, bulk, waspaused, requests>>
-----------------------------------------------------------------------------
(* QueuedMessage::try_deliver, one task *)

At(t, pc, status) == task' = [task EXCEPT ![t].pc = pc, ![t].status = status]

(* try_lock_event (atomic as AtomicLease says), and read_message: when the  *)
(* message is gone there is nothing to do but to unlock.                    *)
TryLock(t) ==
  LET k == task[t].key
  IN /\ task[t].pc = "start"
     /\ \/ /\ lock[k] > 0
           /\ At(t, "report", "locked")
           /\ UNCHANGED lock
        \/ /\ lock[k] = 0
           /\ lock' = [lock EXCEPT ![k] = LockExpiry]
           /\ IF event[k] = None THEN At(t, "unlock", "completed") ELSE At(t, "work", "none")
     /\ UNCHANGED <<event, stage, other, manager, inbox, bulk, waspaused, requests>>

(* What an attempt at key k makes of its event: cleared (the message is     *)
(* done with) or moved to a later time, even if it was deleted since the    *)
(* message was read.  The batch may fail: then the event stays, and the     *)
(* attempt ends with the same status.                                       *)
Rewritten(k, status) ==
  \/ /\ status = "completed"
     /\ event' = [event EXCEPT ![k] = None]
     /\ UNCHANGED requests
  \/ /\ requests < MaxRequests
     /\ requests' = requests + 1
     /\ \/ status = "deferred" /\ \E d \in Delays : event' = [event EXCEPT ![k] = d]
        \/ UNCHANGED event

(* deliver_task, up to the batch that rewrites the event.                   *)
Deliver(t) ==
  /\ task[t].pc = "work"
  /\ \E s \in {"completed", "deferred"} :
       /\ Rewritten(task[t].key, s)
       /\ At(t, "unlock", s)
  /\ UNCHANGED <<lock, stage, other, manager, inbox, bulk, waspaused>>

(* unlock_event, whoever holds the lock by now.                             *)
Unlock(t) ==
  /\ task[t].pc = "unlock"
  /\ lock' = [lock EXCEPT ![task[t].key] = 0]
  /\ At(t, "report", task[t].status)
  /\ UNCHANGED <<event, stage, other, manager, inbox, bulk, waspaused, requests>>

(* WorkerDone is sent; after a shutdown nobody hears it.                    *)
Report(t) ==
  /\ task[t].pc = "report"
  /\ Send([type |-> "WorkerDone", task |-> t])
  /\ task' = [task EXCEPT ![t] = IF closed THEN NoTask ELSE [@ EXCEPT !.pc = "sent"]]
  /\ UNCHANGED <<store, manager, bulk, waspaused, requests>>

-----------------------------------------------------------------------------
(* Everybody else *)

(* MessageWrapper::queue writes the message with its event ...              *)
Enqueue(k) ==
  /\ stage[k] = "new"
  /\ \E d \in Delays \cup {0} : event' = [event EXCEPT ![k] = d]
  /\ stage' = [stage EXCEPT ![k] = "stored"]
  /\ UNCHANGED <<lock, other, manager, inbox, task, bulk, waspaused, requests>>

(* A version of SendRefresh that tells nobody.                              *)
SendRefreshSkipped(k) ==
  /\ stage[k] = "stored"
  /\ stage' = [stage EXCEPT ![k] = "queued"]
  /\ UNCHANGED <<event, lock, other, manager, inbox, task, bulk, waspaused,
                 requests>>

(* ... and then wakes the manager.                                          *)
SendRefresh(k) ==
  /\ stage[k] = "stored"
  /\ Send([type |-> "Refresh"])
  /\ stage' = [stage EXCEPT ![k] = "queued"]
  /\ UNCHANGED <<event, lock, other, manager, task, bulk, waspaused, requests>>

(* The other node does what this one does: it takes the lock of a due key,  *)
(* and rewrites the event and unlocks.                                      *)
OtherTakes(k) ==
  /\ k \in OtherKeys
  /\ event[k] = 0
  /\ lock[k] = 0
  /\ k \notin other
  /\ lock' = [lock EXCEPT ![k] = LockExpiry]
  /\ other' = other \cup {k}
  /\ UNCHANGED <<event, stage, manager, inbox, task, bulk, waspaused, requests>>

OtherEnds(k) ==
  /\ k \in other
  /\ \E s \in {"completed", "deferred"} : Rewritten(k, s)
  /\ lock' = [lock EXCEPT ![k] = 0]
  /\ other' = other \ {k}
  /\ UNCHANGED <<stage, manager, inbox, task, bulk, waspaused>>

(* It dies and leaves its locks behind.                                     *)
OtherDies ==
  /\ requests < MaxRequests
  /\ requests' = requests + 1
  /\ other # {}
  /\ other' = {}
  /\ UNCHANGED <<event, lock, stage, manager, inbox, task, bulk, waspaused>>

(* PATCH /queue/messages: the event is written again, at the time asked     *)
(* for, and the old one stays (the earlier one counts); then Refresh.       *)
Reschedule(k) ==
  /\ requests < MaxRequests
  /\ requests' = requests + 1
  /\ stage[k] = "queued"
  /\ event[k] # None
  /\ \E d \in Delays \cup {0} : event' = [event EXCEPT ![k] = Min({event[k], d})]
  /\ stage' = [stage EXCEPT ![k] = "stored"]
  /\ UNCHANGED <<lock, other, manager, inbox, task, bulk, waspaused>>

(* DELETE of one message.                                                   *)
DeleteOne(k) ==
  /\ requests < MaxRequests
  /\ requests' = requests + 1
  /\ stage[k] # "new"
  /\ event[k] # None
  /\ event' = [event EXCEPT ![k] = None]
  /\ UNCHANGED <<lock, stage, other, manager, inbox, task, bulk, waspaused>>

(* PATCH /queue/status/stop and /queue/status/start.                        *)
SetPaused(p) ==
  /\ requests < MaxRequests
  /\ requests' = requests + 1
  /\ Send([type |-> "Paused", paused |-> p])
  /\ UNCHANGED <<store, manager, task, bulk, waspaused>>

(* A configuration reload changed the threads of the queues.                *)
Reload ==
  /\ requests < MaxRequests
  /\ requests' = requests + 1
  /\ \E l \in [Queues -> Threads] : Send([type |-> "ReloadSettings", threads |-> l])
  /\ UNCHANGED <<store, manager, task, bulk, waspaused>>

(* The SMTP listener shuts down.                                            *)
Shutdown ==
  /\ requests < MaxRequests
  /\ requests' = requests + 1
  /\ Send([type |-> "Stop"])
  /\ UNCHANGED <<store, manager, task, bulk, waspaused>>

(* DELETE /queue/messages: the deletion is put between a pause and a        *)
(* resume, if the queue was active when the request came.                   *)
BulkRead ==
  /\ requests < MaxRequests
  /\ bulk.pc = "idle"
  /\ requests' = requests + 1
  /\ bulk' = [pc |-> "pause", active |-> active]
  /\ UNCHANGED <<store, manager, inbox, task, waspaused>>

BulkPause ==
  /\ bulk.pc = "pause"
  /\ IF bulk.active THEN Send([type |-> "Paused", paused |-> TRUE]) ELSE UNCHANGED inbox
  /\ bulk' = [bulk EXCEPT !.pc = "delete"]
  /\ UNCHANGED <<store, manager, task, waspaused, requests>>

BulkDelete ==
  /\ bulk.pc = "delete"
  /\ \E S \in SUBSET Keys : event' = [k \in Keys |-> IF k \in S THEN None ELSE event[k]]
  /\ bulk' = [bulk EXCEPT !.pc = "resume"]
  /\ UNCHANGED <<lock, stage, other, manager, inbox, task, waspaused, requests>>

BulkResume ==
  /\ bulk.pc = "resume"
  /\ IF bulk.active THEN Send([type |-> "Paused", paused |-> FALSE]) ELSE UNCHANGED inbox
  /\ bulk' = NoBulk
  /\ UNCHANGED <<store, manager, task, waspaused, requests>>

(* A second passes.                                                         *)
Elapse(n) == IF n \in {None, 0, Forever} THEN n ELSE n - 1

Tick ==
  /\ event' = [k \in Keys |-> Elapse(event[k])]
  /\ lock' = [k \in Keys |-> Elapse(lock[k])]
  /\ locked' = [k \in Keys |-> Elapse(locked[k])]
  /\ wake' = Elapse(wake)
  /\ UNCHANGED <<stage, other, inflight, limit, paused, closed, mgr, refresh, active,
                 inbox, task, bulk, waspaused, requests>>

Loop == Receive \/ Timeout \/ Run \/ Stopped
TaskStep(t) == TryLock(t) \/ Deliver(t) \/ Unlock(t) \/ Report(t)
BulkStep == BulkPause \/ BulkDelete \/ BulkResume

Next ==
  \/ Loop
  \/ \E t \in Tasks : TaskStep(t)
  \/ \E k \in Keys :
       \/ Enqueue(k)
       \/ SendRefresh(k)
       \/ OtherTakes(k)
       \/ OtherEnds(k)
       \/ Reschedule(k)
       \/ DeleteOne(k)
  \/ OtherDies
  \/ \E p \in BOOLEAN : SetPaused(p)
  \/ Reload
  \/ Shutdown
  \/ BulkRead
  \/ BulkStep
  \/ Tick

Spec == Init /\ [][Next]_vars

(* The runtime runs every task that can go on, and time passes.  Nothing    *)
(* makes the other node, a client or an administrator do anything.          *)
Fairness ==
  /\ WF_vars(Loop)
  /\ \A t \in Tasks : WF_vars(TaskStep(t))
  /\ \A k \in Keys : WF_vars(SendRefresh(k))
  /\ WF_vars(BulkStep)
  /\ WF_vars(Tick)
LiveSpec == Spec /\ Fairness

-----------------------------------------------------------------------------
(* Properties *)

(* in_flight counts the tasks the manager has started and not yet heard of, *)
(* so a thread is neither lost nor used twice and "in_flight -= 1" never    *)
(* underflows: whatever the order of reports, reloads, scans and pauses.    *)
InFlightExact == ~closed => \A q \in Queues : inflight[q] = Cardinality(TasksOf(q))

(* "Enforce concurrency limits": a scan never starts more tasks of a queue  *)
(* than the threads it has at the moment, also after a reload lowered them. *)
WithinLimits ==
  [][\A q \in Queues : inflight'[q] > inflight[q] => inflight'[q] <= limit'[q]]_vars

(* A manager that sleeps and is not paused wakes up for the next event in   *)
(* the store, and every QUEUE_REFRESH in any case, unless somebody who has  *)
(* changed an event is about to tell it ("Resume Queue Processing",         *)
(* api/v1/openapi.yml:1988, included).                                      *)
Silent ==
  /\ mgr = "wait"
  /\ inbox = << >>
  /\ \A t \in Tasks : task[t].pc \notin {"unlock", "report"}
  /\ \A k \in Keys : stage[k] # "stored"
WakesInTime ==
  (Silent /\ ~paused) =>
     /\ wake <= QueueRefresh
     /\ \A k \in Keys : event[k] > 0 => wake <= event[k]

(* The same for a loop that has never been paused: no order of scans,       *)
(* reports, new messages and reloads makes it sleep past an event.          *)
WakesUnlessPaused == ~waspaused => WakesInTime

(* The loop that "delivers scheduled messages" serves every event: once the *)
(* queue stays active, a queued message is delivered or given up some day.  *)
(* The locks of a dead node, a lack of threads, failed writes, pauses and   *)
(* bulk deletes only delay it.                                              *)
EventuallyServed ==
  <>[](~paused /\ ~closed) => \A k \in Keys : (event[k] # None) ~> (event[k] = None)
=============================================================================
