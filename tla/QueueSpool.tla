----------------------------- MODULE QueueSpool -----------------------------
(***************************************************************************)
(* One message in the outbound queue, from MessageWrapper::queue to         *)
(* MessageWrapper::remove (smtp/src/queue/spool.rs), and everybody who      *)
(* rewrites it: the delivery workers of all nodes (QueuedMessage::          *)
(* try_deliver and deliver_task, smtp/src/outbound/delivery.rs), one per    *)
(* due queue event, and the management API (http/src/management/queue.rs).  *)
(*                                                                          *)
(* A message has recipients in one or several virtual queues.  A worker     *)
(* holds the lock of (message, queue), works on a private copy of the WHOLE *)
(* message, and writes it back in one batch: as it is when no other queue   *)
(* has work left in the copy, and merged recipient by recipient otherwise.  *)
(* Every call of the store is one atomic step; between two steps anything   *)
(* can happen.  Messages share only the quota counters, so one is enough;   *)
(* the clock starts when the message is queued.                             *)
(***************************************************************************)
EXTENDS Integers, Sequences, FiniteSets, FiniteSetsExt

CONSTANTS
  Rcpts,          \* the recipients of the message
  Sender,         \* stands for the sender among the quota keys
  Queues,         \* the virtual queues
  DefaultQueue,   \* QueueName::default(), the queue the management API reads as
  Retry,          \* queue |-> delays before the next attempt
  Notify,         \* queue |-> delays before the next delay notification
  NoticeQueue,    \* queue |-> queue: what the schedule says at a delay notification
  Expiry,         \* queue |-> QueueExpiry: a time to live or a number of attempts
  Routes,         \* recipient |-> queue: what queue.strategy.schedule may say
  RetryQueues,    \* queue |-> queues a recipient can be moved to when it fails
  Releases,       \* the future-release holds a submission may ask for
  WantsDelay,     \* recipients with RCPT_NOTIFY_DELAY
  WantsFailure,   \* recipients with RCPT_NOTIFY_FAILURE
  Limiters,       \* whether outbound rate limiters are configured
  LockExpiry,     \* LOCK_EXPIRY
  ExtraAttempts,  \* attempts granted by a manual retry (10 in the source)
  Workers,        \* the delivery tasks of all nodes
  Faults,         \* which of FaultKinds may happen
  MaxFaults,      \* bound on worker crashes and failed writes
  MaxAdmin,       \* bound on management requests
  MaxTime         \* bound on the clock

FaultKinds == {"crash",    \* a worker dies where it stands
               "overrun",  \* an attempt takes longer than LOCK_EXPIRY
               "read",     \* the store fails to read the message
               "write",    \* the store fails to write a batch of a worker
               "request",  \* the store fails to write a batch of a request
               "dsn"}      \* the notification cannot be queued

Expiries == [kind : {"ttl", "attempts"}, n : Nat]

ASSUME QueueAssumption == DefaultQueue \in Queues
ASSUME RouteAssumption == Routes \subseteq [Rcpts -> Queues]
ASSUME ScheduleAssumption ==
  /\ Retry \in [Queues -> Seq(Nat \ {0})]
  /\ \A q \in Queues : Retry[q] # << >>
  /\ Notify \in [Queues -> Seq(Nat \ {0})]
  /\ \A q \in Queues : Notify[q] # << >>
  /\ NoticeQueue \in [Queues -> Queues]
  /\ Expiry \in [Queues -> Expiries]
  /\ RetryQueues \in [Queues -> SUBSET Queues]
ASSUME BoundAssumption ==
  /\ Releases \subseteq Nat
  /\ LockExpiry \in Nat \ {0}
  /\ ExtraAttempts \in Nat
  /\ MaxTime \in Nat
  /\ MaxFaults \in Nat
  /\ MaxAdmin \in Nat
ASSUME LimitersAssumption == Limiters \in BOOLEAN
ASSUME FaultAssumption == Faults \subseteq FaultKinds
ASSUME RcptAssumption == IsFiniteSet(Rcpts) /\ Rcpts # {}
ASSUME SenderAssumption == Sender \notin Rcpts

Never == 1000000      \* u64::MAX

Statuses == {"scheduled", "temp", "done", "perm"}

Recipient == [status  : Statuses,
              queue   : Queues,
              due     : Nat,        \* retry.due
              tries   : Nat,        \* retry.inner
              notify  : Nat,        \* notify.due
              notices : Nat,        \* notify.inner
              expires : Expiries,
              dsn     : BOOLEAN]    \* RCPT_DSN_SENT

(* The quota keys of a message, by the id they are registered under: 0 for  *)
(* the sender, the position of a recipient for its own, and the position of *)
(* the first recipient of a domain for the domain's.  A recipient stands    *)
(* for its own key and for the domain's if it is the first of its domain.   *)
QuotaKeys == Rcpts \cup {Sender}

Message == [rcpts : [Rcpts -> Recipient],
            quota : SUBSET QuotaKeys]   \* quota_keys

Event == [due : Nat, queue : Queues]

PcStates == {"idle", "picked", "locked", "read", "gone", "deliver", "save",
             "remove", "unlock"}

VARIABLES
  now,        \* seconds since the message was queued
  queued,     \* MessageWrapper::queue has run
  exists,     \* QueueClass::Message is in the store
  msg,        \* its value
  events,     \* the QueueClass::MessageEvent keys
  lock,       \* queue |-> expiry of the distributed lock, 0 if none
  usage,      \* what the message has added to the quota counters
  linked,     \* BlobLink::Id keeps the blob alive
  pc,         \* worker |-> where it is in try_deliver
  ev,         \* worker |-> the event it was started for
  copy,       \* worker |-> its MessageWrapper
  multi,      \* worker |-> is_multi_queue of the copy
  lease,      \* worker |-> when its lock runs out
  admin,      \* the management request in progress
  requests,   \* management requests so far
  faulted,    \* crashes and failed writes so far
  delivered,  \* history: recipient |-> times a next hop took the message
  bounced,    \* history: recipient |-> failure notifications queued
  canceled    \* history: recipients an administrator gave up on

store == <<exists, msg, events, usage, linked>>
worker == <<pc, ev, copy, multi, lease>>
history == <<delivered, bounced, canceled>>
vars == <<now, queued, store, lock, worker, admin, requests, faulted, history>>

-----------------------------------------------------------------------------
(* Message and Recipient (queue/manager.rs) *)

Pending(r) == r.status \in {"scheduled", "temp"}

(* Recipient::expiration_time; the message was created at time 0.           *)
ExpirationTime(r) == IF r.expires.kind = "ttl" THEN r.expires.n ELSE Never

(* Recipient::is_expired                                                    *)
IsExpired(r) ==
  IF r.expires.kind = "ttl" THEN r.expires.n <= now ELSE r.tries >= r.expires.n

PendingIn(m) == {r \in Rcpts : Pending(m.rcpts[r])}

(* The earliest of retry, delay notification and expiry of a recipient.     *)
EventTime(r) == Min({r.due, r.notify, ExpirationTime(r)})

PendingQueues(m) == {m.rcpts[r].queue : r \in PendingIn(m)}

(* Message::next_events: one event per queue with a pending recipient.      *)
NextEvents(m) ==
  {[due |-> Min({EventTime(m.rcpts[r]) : r \in {x \in PendingIn(m) : m.rcpts[x].queue = q}}),
    queue |-> q] : q \in PendingQueues(m)}

(* A version of DueIn that does not look at the status.                     *)
DueInAny(m, q) ==
  {r \in Rcpts : m.rcpts[r].queue = q /\ m.rcpts[r].due <= now}

(* What deliver_task attempts: due recipients of the worker's queue.        *)
DueIn(m, q) ==
  {r \in PendingIn(m) : m.rcpts[r].queue = q /\ m.rcpts[r].due <= now}

(* read_message: another queue has a pending recipient.                     *)
IsMultiQueue(m, q) == \E r \in PendingIn(m) : m.rcpts[r].queue # q

(* has_pending_delivery marks expired recipients of every queue as failed.  *)
MarkExpired(m) ==
  [m EXCEPT !.rcpts = [r \in Rcpts |->
     IF Pending(m.rcpts[r]) /\ IsExpired(m.rcpts[r])
       THEN [m.rcpts[r] EXCEPT !.status = "perm"]
       ELSE m.rcpts[r]]]

-----------------------------------------------------------------------------
(* Delivery status notifications (queue/dsn.rs, sender not empty) *)

Final(r) == r.status \in {"done", "perm"}

(* The recipients reported as failed, and those reported as delayed.        *)
FailureDsn(m) ==
  {r \in WantsFailure : m.rcpts[r].status = "perm" /\ ~m.rcpts[r].dsn}
DelayDsn(m) ==
  {r \in WantsDelay \cap PendingIn(m) : m.rcpts[r].notify <= now}

(* The next entry of the notify list, or never.  The schedule is asked for  *)
(* the queue again and need not name the one that the recipient is in.      *)
NextNotify(r) ==
  LET i == r.notices + 2
      delays == Notify[NoticeQueue[r.queue]]
  IN IF i \in DOMAIN delays
       THEN [r EXCEPT !.notify = now + delays[i], !.notices = @ + 1]
       ELSE [r EXCEPT !.notify = Never]

(* A version of BuildDsn that reports a delay and leaves its time alone.    *)
BuildDsnNoAdvance(m) ==
  [m EXCEPT !.rcpts = [r \in Rcpts |->
     IF Final(m.rcpts[r]) THEN [m.rcpts[r] EXCEPT !.dsn = TRUE] ELSE m.rcpts[r]]]

(* A version of BuildDsn that does not flag what was reported.              *)
BuildDsnUnflagged(m) ==
  [m EXCEPT !.rcpts = [r \in Rcpts |->
     IF ~Final(m.rcpts[r]) /\ DelayDsn(m) # {} /\ m.rcpts[r].notify <= now
       THEN NextNotify(m.rcpts[r]) ELSE m.rcpts[r]]]

(* build_dsn: flags what was reported; only when some delay is reported are *)
(* the notification times of the pending recipients moved on.               *)
BuildDsn(m) ==
  [m EXCEPT !.rcpts = [r \in Rcpts |->
     IF Final(m.rcpts[r])
       THEN [m.rcpts[r] EXCEPT !.dsn = TRUE]
       ELSE IF DelayDsn(m) # {} /\ m.rcpts[r].notify <= now
         THEN NextNotify(m.rcpts[r])
         ELSE m.rcpts[r]]]

(* A version of QueueDsn that flags a failure and reports nothing.          *)
QueueDsnSkipped(m) == UNCHANGED bounced

(* send_dsn ignores the outcome of queueing the notification.               *)
QueueDsn(m) ==
  \/ bounced' = [r \in Rcpts |-> IF r \in FailureDsn(m) THEN bounced[r] + 1 ELSE bounced[r]]
  \/ "dsn" \in Faults /\ FailureDsn(m) # {} /\ UNCHANGED bounced

-----------------------------------------------------------------------------
(* The batches of queue/spool.rs and quota.rs *)

(* release_quota: keys of the recipients that are done with; the sender's   *)
(* is held until the message is removed.                                    *)
Releasable(m) == {r \in m.quota \cap Rcpts : Final(m.rcpts[r])}

(* A version of MergeRcpts that writes the whole copy back.                 *)
MergeAll(m, q) == m

(* merge_fnc of save_changes: the stored message takes over the recipients  *)
(* that are in the saver's queue now; quota_keys are not merged.            *)
MergeRcpts(m, q) ==
  [msg EXCEPT !.rcpts = [r \in Rcpts |->
     IF m.rcpts[r].queue = q THEN m.rcpts[r] ELSE msg.rcpts[r]]]

(* A version of SaveBatch that forgets to write the next events.            *)
SaveBatchNoEvents(m, q, isMulti, prev) ==
  IF isMulti /\ ~exists
    THEN UNCHANGED store
    ELSE /\ usage' = usage - Cardinality(Releasable(m))
         /\ events' = events \ prev
         /\ msg' = IF isMulti THEN MergeRcpts(m, q)
                              ELSE [m EXCEPT !.quota = @ \ Releasable(m)]
         /\ exists' = TRUE
         /\ UNCHANGED linked

(* A version of SaveBatch that releases quota and keeps the keys.           *)
SaveBatchKeepKeys(m, q, isMulti, prev) ==
  IF isMulti /\ ~exists
    THEN UNCHANGED store
    ELSE /\ usage' = usage - Cardinality(Releasable(m))
         /\ events' = (events \ prev) \cup NextEvents(m)
         /\ msg' = IF isMulti THEN MergeRcpts(m, q) ELSE m
         /\ exists' = TRUE
         /\ UNCHANGED linked

(* save_changes: one batch; the merge fails, and the batch with it, when    *)
(* the message is gone.  "prev" holds the event to clear, if any.           *)
SaveBatch(m, q, isMulti, prev) ==
  IF isMulti /\ ~exists
    THEN UNCHANGED store
    ELSE /\ usage' = usage - Cardinality(Releasable(m))
         /\ events' = (events \ prev) \cup NextEvents(m)
         /\ msg' = IF isMulti THEN MergeRcpts(m, q)
                              ELSE [m EXCEPT !.quota = @ \ Releasable(m)]
         /\ exists' = TRUE
         /\ UNCHANGED linked

(* A version of RemoveBatch that releases what release_quota releases.      *)
RemoveBatchFinal(m, prev) ==
  /\ usage' = usage - Cardinality(Releasable(m))
  /\ events' = events \ prev
  /\ exists' = FALSE
  /\ linked' = FALSE
  /\ UNCHANGED msg

(* remove: releases the keys of the copy and deletes message and blob link. *)
RemoveBatch(m, prev) ==
  /\ usage' = usage - Cardinality(m.quota)
  /\ events' = events \ prev
  /\ exists' = FALSE
  /\ linked' = FALSE
  /\ UNCHANGED msg

-----------------------------------------------------------------------------
(* MessageWrapper::queue *)

NewRecipient(q, hold) ==
  [status |-> "scheduled", queue |-> q, due |-> now + hold, tries |-> 0,
   notify |-> now + hold + Notify[q][1], notices |-> 0,
   expires |-> IF Expiry[q].kind = "ttl" THEN [Expiry[q] EXCEPT !.n = @ + hold] ELSE Expiry[q],
   dsn |-> FALSE]

BlankMessage ==
  [rcpts |-> [r \in Rcpts |->
     [status |-> "done", queue |-> DefaultQueue, due |-> 0, tries |-> 0, notify |-> 0,
      notices |-> 0, expires |-> [kind |-> "ttl", n |-> 0], dsn |-> TRUE]],
   quota |-> {}]

(* A version of Enqueue that does not link the blob.                        *)
EnqueueUnlinked ==
  /\ ~queued
  /\ queued' = TRUE
  /\ exists' = TRUE
  /\ \E route \in Routes, hold \in Releases :
       msg' = [rcpts |-> [r \in Rcpts |-> NewRecipient(route[r], hold)], quota |-> QuotaKeys]
  /\ events' = events \cup NextEvents(msg')
  /\ usage' = usage + Cardinality(msg'.quota)
  /\ UNCHANGED <<now, linked, lock, worker, admin, requests, faulted, history>>

(* queue_message builds the recipients; queue() writes everything in one    *)
(* batch (the blob is stored before).                                       *)
Enqueue ==
  /\ ~queued
  /\ queued' = TRUE
  /\ exists' = TRUE
  /\ \E route \in Routes, hold \in Releases :
       msg' = [rcpts |-> [r \in Rcpts |-> NewRecipient(route[r], hold)], quota |-> QuotaKeys]
  /\ events' = events \cup NextEvents(msg')
  /\ usage' = usage + Cardinality(msg'.quota)
  /\ linked' = TRUE
  /\ UNCHANGED <<now, lock, worker, admin, requests, faulted, history>>

-----------------------------------------------------------------------------
(* QueuedMessage::try_deliver *)

NoEvent == [due |-> 0, queue |-> DefaultQueue]

Busy(w) == pc[w] \notin {"idle", "picked"}

(* The task ends: its locals are gone.                                      *)
Leave(w) ==
  /\ pc' = [pc EXCEPT ![w] = "idle"]
  /\ ev' = [ev EXCEPT ![w] = NoEvent]
  /\ copy' = [copy EXCEPT ![w] = BlankMessage]
  /\ multi' = [multi EXCEPT ![w] = FALSE]
  /\ lease' = [lease EXCEPT ![w] = 0]

(* A queue manager finds a due event and spawns a worker for it.            *)
Pick(w) ==
  /\ pc[w] = "idle"
  /\ \E e \in events :
       /\ e.due <= now
       /\ ev' = [ev EXCEPT ![w] = e]
  /\ pc' = [pc EXCEPT ![w] = "picked"]
  /\ UNCHANGED <<now, queued, store, lock, copy, multi, lease, admin, requests, faulted, history>>

(* A version of TryLock that goes on without the lock.                      *)
TryLockIgnored(w) ==
  /\ pc[w] = "picked"
  /\ lock' = [lock EXCEPT ![ev[w].queue] = now + LockExpiry]
  /\ lease' = [lease EXCEPT ![w] = now + LockExpiry]
  /\ pc' = [pc EXCEPT ![w] = "locked"]
  /\ UNCHANGED <<now, queued, store, ev, copy, multi, admin, requests, faulted, history>>

(* try_lock_event, atomic as AtomicLease says.                              *)
TryLock(w) ==
  /\ pc[w] = "picked"
  /\ IF lock[ev[w].queue] > now
       THEN /\ Leave(w)
            /\ UNCHANGED lock
       ELSE /\ lock' = [lock EXCEPT ![ev[w].queue] = now + LockExpiry]
            /\ lease' = [lease EXCEPT ![w] = now + LockExpiry]
            /\ pc' = [pc EXCEPT ![w] = "locked"]
            /\ UNCHANGED <<ev, copy, multi>>
  /\ UNCHANGED <<now, queued, store, admin, requests, faulted, history>>

(* read_message: a store error looks like a message that does not exist.    *)
Read(w) ==
  /\ pc[w] = "locked"
  /\ \/ /\ exists
        /\ copy' = [copy EXCEPT ![w] = msg]
        /\ multi' = [multi EXCEPT ![w] = IsMultiQueue(msg, ev[w].queue)]
        /\ pc' = [pc EXCEPT ![w] = "read"]
     \/ /\ ~exists \/ "read" \in Faults
        /\ pc' = [pc EXCEPT ![w] = "gone"]
        /\ UNCHANGED <<copy, multi>>
  /\ UNCHANGED <<now, queued, store, lock, ev, lease, admin, requests, faulted, history>>

(* The store refuses a batch; the worker goes on regardless.                *)
WriteFails ==
  /\ "write" \in Faults
  /\ faulted < MaxFaults
  /\ faulted' = faulted + 1
  /\ UNCHANGED store

(* "Message no longer exists, delete queue event."                          *)
ClearEvent(w) ==
  /\ pc[w] = "gone"
  /\ \/ events' = events \ {ev[w]} /\ UNCHANGED <<exists, msg, usage, linked, faulted>>
     \/ WriteFails
  /\ pc' = [pc EXCEPT ![w] = "unlock"]
  /\ UNCHANGED <<now, queued, lock, ev, copy, multi, lease, admin, requests, history>>

(* deliver_task up to the choice between attempting, re-queueing and        *)
(* removing: expired recipients fail, notifications are sent.               *)
Begin(w) ==
  /\ pc[w] = "read"
  /\ LET marked == MarkExpired(copy[w])
         m == BuildDsn(marked)
     IN /\ QueueDsn(marked)
        /\ copy' = [copy EXCEPT ![w] = m]
        /\ pc' = [pc EXCEPT ![w] = IF PendingIn(m) = {} THEN "remove"
                                   ELSE IF DueIn(m, ev[w].queue) # {} THEN "deliver"
                                   ELSE "save"]
  /\ UNCHANGED <<now, queued, store, lock, ev, multi, lease, admin, requests, faulted,
                 delivered, canceled>>

(* set_rcpt_rate_limit, and the same for a throttled sender; the limiter    *)
(* answers with a time after now.                                           *)
RateLimited(r) == [r EXCEPT !.status = "temp", !.due = now + 1]

(* A version of RetryLater that counts attempts down.                       *)
RetryLaterCountdown(r, q) ==
  [r EXCEPT !.status = "temp",
            !.due = now + Retry[q][Min({r.tries + 1, Len(Retry[q])})],
            !.tries = @ - 1,
            !.expires = Expiry[q],
            !.queue = q]

(* set_rcpt_status with a result that is not final, rescheduled in queue q. *)
RetryLater(r, q) ==
  [r EXCEPT !.status = "temp",
            !.due = now + Retry[q][Min({r.tries + 1, Len(Retry[q])})],
            !.tries = @ + 1,
            !.expires = Expiry[q],
            !.queue = q]

Outcomes == {"done", "perm", "temp"} \cup (IF Limiters THEN {"limited"} ELSE {})

(* The sender is throttled: every due recipient waits.                      *)
Throttle(w) ==
  /\ pc[w] = "deliver"
  /\ Limiters
  /\ LET D == DueIn(copy[w], ev[w].queue)
     IN copy' = [copy EXCEPT ![w].rcpts = [r \in Rcpts |->
                   IF r \in D THEN RateLimited(copy[w].rcpts[r]) ELSE copy[w].rcpts[r]]]
  /\ pc' = [pc EXCEPT ![w] = "save"]
  /\ UNCHANGED <<now, queued, store, lock, ev, multi, lease, admin, requests, faulted, history>>

(* A version of AfterAttempt that asks for the worker's own queue only.     *)
AfterAttemptOwnQueue(m, q) ==
  IF \E r \in PendingIn(m) : m.rcpts[r].queue = q THEN "save" ELSE "remove"

(* next_event(None): any queue with work left keeps the message.            *)
AfterAttempt(m, q) == IF PendingIn(m) # {} THEN "save" ELSE "remove"

(* The routes are attempted and the results applied: every due recipient    *)
(* is delivered, rejected, deferred (in whatever queue the expressions now  *)
(* choose) or rate limited.  Notifications are sent before the save.        *)
Attempt(w) ==
  /\ pc[w] = "deliver"
  /\ LET D == DueIn(copy[w], ev[w].queue)
     IN \E out \in [D -> Outcomes],
           next \in [D -> RetryQueues[ev[w].queue]] :
          LET Result(r) ==
                CASE out[r] \in {"done", "perm"} -> [copy[w].rcpts[r] EXCEPT !.status = out[r]]
                  [] out[r] = "temp" -> RetryLater(copy[w].rcpts[r], next[r])
                  [] out[r] = "limited" -> RateLimited(copy[w].rcpts[r])
              applied == [copy[w] EXCEPT !.rcpts = [r \in Rcpts |->
                            IF r \in D THEN Result(r) ELSE copy[w].rcpts[r]]]
          IN /\ copy' = [copy EXCEPT ![w] = BuildDsn(applied)]
             /\ QueueDsn(applied)
             /\ delivered' = [r \in Rcpts |-> IF r \in D /\ out[r] = "done"
                                                THEN delivered[r] + 1 ELSE delivered[r]]
             /\ pc' = [pc EXCEPT ![w] = AfterAttempt(applied, ev[w].queue)]
  /\ UNCHANGED <<now, queued, store, lock, ev, multi, lease, admin, requests, faulted, canceled>>

(* save_changes and remove take the MessageWrapper by value.                *)
Consumed(w) ==
  /\ pc' = [pc EXCEPT ![w] = "unlock"]
  /\ copy' = [copy EXCEPT ![w] = BlankMessage]
  /\ multi' = [multi EXCEPT ![w] = FALSE]

(* save_changes; its result is ignored.                                     *)
Save(w) ==
  /\ pc[w] = "save"
  /\ \/ SaveBatch(copy[w], ev[w].queue, multi[w], {ev[w]}) /\ UNCHANGED faulted
     \/ WriteFails
  /\ Consumed(w)
  /\ UNCHANGED <<now, queued, lock, ev, lease, admin, requests, history>>

(* remove; its result is ignored.                                           *)
Remove(w) ==
  /\ pc[w] = "remove"
  /\ \/ RemoveBatch(copy[w], {ev[w]}) /\ UNCHANGED faulted
     \/ WriteFails
  /\ Consumed(w)
  /\ UNCHANGED <<now, queued, lock, ev, lease, admin, requests, history>>

(* unlock_event, whoever holds the lock by now.                             *)
Unlock(w) ==
  /\ pc[w] = "unlock"
  /\ lock' = [lock EXCEPT ![ev[w].queue] = 0]
  /\ Leave(w)
  /\ UNCHANGED <<now, queued, store, admin, requests, faulted, history>>

(* The process of the worker dies; its lock stays until it lapses (within   *)
(* the bound on the clock: a bound of the model, not of the code).  A call  *)
(* of try_lock or remove_lock that fails has the same effect.               *)
Crash(w) ==
  /\ "crash" \in Faults
  /\ lease[w] <= MaxTime
  /\ faulted < MaxFaults
  /\ pc[w] # "idle"
  /\ faulted' = faulted + 1
  /\ Leave(w)
  /\ UNCHANGED <<now, queued, store, lock, admin, requests, history>>

-----------------------------------------------------------------------------
(* The management API: no lock is taken, and the queue is the default one.  *)

NoRequest == [pc |-> "idle", copy |-> BlankMessage, multi |-> FALSE]

(* Whether its batch was written, nobody asks.                              *)
RequestFails ==
  /\ "request" \in Faults
  /\ faulted < MaxFaults
  /\ faulted' = faulted + 1
  /\ UNCHANGED store

AdminRead ==
  /\ requests < MaxAdmin
  /\ admin.pc = "idle"
  /\ exists
  /\ admin' = [pc |-> "read", copy |-> msg, multi |-> IsMultiQueue(msg, DefaultQueue)]
  /\ requests' = requests + 1
  /\ UNCHANGED <<now, queued, store, lock, worker, faulted, history>>

(* PATCH: pending recipients that match are due at t, with more attempts.   *)
Rescheduled(r, t) ==
  IF r.expires.kind = "ttl" /\ r.expires.n > t
    THEN [r EXCEPT !.due = t, !.expires = [kind |-> "attempts", n |-> r.tries + ExtraAttempts]]
    ELSE [r EXCEPT !.due = t]

AdminReschedule ==
  /\ admin.pc = "read"
  /\ \E S \in SUBSET Rcpts, t \in {now, now + 1} :
       LET found == S \cap PendingIn(admin.copy)
           m == [admin.copy EXCEPT !.rcpts = [r \in Rcpts |->
                   IF r \in found THEN Rescheduled(admin.copy.rcpts[r], t)
                                  ELSE admin.copy.rcpts[r]]]
       IN \/ found # {} /\ SaveBatch(m, DefaultQueue, admin.multi, {}) /\ UNCHANGED faulted
          \/ found = {} /\ UNCHANGED <<store, faulted>>
          \/ found # {} /\ RequestFails
  /\ admin' = NoRequest
  /\ UNCHANGED <<now, queued, lock, worker, requests, history>>

(* DELETE with a filter: every recipient that matches fails, whatever its   *)
(* status; the message goes when nothing is pending any more.               *)
AdminCancel ==
  /\ admin.pc = "read"
  /\ \E S \in SUBSET Rcpts \ {{}} :
       LET m == [admin.copy EXCEPT !.rcpts = [r \in Rcpts |->
                   IF r \in S THEN [admin.copy.rcpts[r] EXCEPT !.status = "perm"]
                              ELSE admin.copy.rcpts[r]]]
       IN \/ /\ IF PendingIn(m) # {} THEN SaveBatch(m, DefaultQueue, admin.multi, {})
                                     ELSE RemoveBatch(m, NextEvents(m))
             /\ canceled' = canceled \cup S
             /\ UNCHANGED faulted
          \/ RequestFails /\ UNCHANGED canceled
  /\ admin' = NoRequest
  /\ UNCHANGED <<now, queued, lock, worker, requests, delivered, bounced>>

(* DELETE without a filter, one message or many.                            *)
AdminDelete ==
  /\ admin.pc = "read"
  /\ \/ /\ RemoveBatch(admin.copy, NextEvents(admin.copy))
        /\ canceled' = Rcpts
        /\ UNCHANGED faulted
     \/ RequestFails /\ UNCHANGED canceled
  /\ admin' = NoRequest
  /\ UNCHANGED <<now, queued, lock, worker, requests, delivered, bounced>>

-----------------------------------------------------------------------------
(* Unless "overrun" may happen, attempts end before their lock lapses.      *)
Tick ==
  /\ queued
  /\ now < MaxTime
  /\ "overrun" \notin Faults => \A w \in Workers : Busy(w) => now + 1 < lease[w]
  /\ now' = now + 1
  /\ UNCHANGED <<queued, store, lock, worker, admin, requests, faulted, history>>

Init ==
  /\ now = 0
  /\ queued = FALSE
  /\ exists = FALSE
  /\ msg = BlankMessage
  /\ events = {}
  /\ lock = [q \in Queues |-> 0]
  /\ usage = 0
  /\ linked = FALSE
  /\ pc = [w \in Workers |-> "idle"]
  /\ ev = [w \in Workers |-> NoEvent]
  /\ copy = [w \in Workers |-> BlankMessage]
  /\ multi = [w \in Workers |-> FALSE]
  /\ lease = [w \in Workers |-> 0]
  /\ admin = NoRequest
  /\ requests = 0
  /\ faulted = 0
  /\ delivered = [r \in Rcpts |-> 0]
  /\ bounced = [r \in Rcpts |-> 0]
  /\ canceled = {}

WorkerStep(w) ==
  \/ Pick(w)
  \/ TryLock(w)
  \/ Read(w)
  \/ ClearEvent(w)
  \/ Begin(w)
  \/ Throttle(w)
  \/ Attempt(w)
  \/ Save(w)
  \/ Remove(w)
  \/ Unlock(w)

Next ==
  \/ Enqueue
  \/ \E w \in Workers : WorkerStep(w) \/ Crash(w)
  \/ AdminRead \/ AdminReschedule \/ AdminCancel \/ AdminDelete
  \/ Tick

Spec == Init /\ [][Next]_vars

(* Workers finish what they start, due events are picked up, time passes.   *)
Fairness == WF_vars(Tick) /\ \A w \in Workers : WF_vars(WorkerStep(w))
LiveSpec == Spec /\ Fairness

-----------------------------------------------------------------------------
(* Properties *)

TypeOK ==
  /\ now \in Nat
  /\ queued \in BOOLEAN
  /\ exists \in BOOLEAN
  /\ msg \in Message
  /\ events \subseteq Event
  /\ lock \in [Queues -> Nat]
  /\ usage \in Int
  /\ linked \in BOOLEAN
  /\ pc \in [Workers -> PcStates]
  /\ ev \in [Workers -> Event]
  /\ copy \in [Workers -> Message]
  /\ multi \in [Workers -> BOOLEAN]
  /\ lease \in [Workers -> Nat]
  /\ admin \in [pc : {"idle", "read"}, copy : Message, multi : BOOLEAN]
  /\ requests \in Nat
  /\ faulted \in Nat
  /\ delivered \in [Rcpts -> Nat]
  /\ bounced \in [Rcpts -> Nat]
  /\ canceled \subseteq Rcpts

(* At most one worker of all nodes works on the message in one queue: the   *)
(* lock of try_lock_event, as long as attempts end before LOCK_EXPIRY.      *)
OneWorkerPerQueue ==
  \A v, w \in Workers : (Busy(v) /\ Busy(w) /\ ev[v].queue = ev[w].queue) => v = w

(* A stored message always has a queue event, or no node would ever look at *)
(* it again: whichever workers and requests rewrite it, in whatever order.  *)
NoStranded == exists => events # {}

(* Every queue in which the stored message has pending recipients has the   *)
(* event that next_events computes for them, so none of them is attempted   *)
(* late: whatever stale events the other workers add or clear.              *)
EventPerQueue == exists => NextEvents(msg) \subseteq events

(* A recipient that the stored message records as delivered or failed stays *)
(* so: no stale copy of another worker brings it back.                      *)
FinalStaysFinal ==
  [][(exists /\ exists') =>
       \A r \in Rcpts : Final(msg.rcpts[r]) =>
                          msg'.rcpts[r].status = msg.rcpts[r].status]_vars

(* A message leaves the queue only when every recipient has been delivered, *)
(* reported as failed to a sender that wants to know, or canceled.          *)
NoSilentLoss ==
  (queued /\ ~exists) =>
     \A r \in Rcpts : \/ delivered[r] > 0
                      \/ bounced[r] > 0
                      \/ r \notin WantsFailure
                      \/ r \in canceled

(* No recipient gets the message twice.                                     *)
AtMostOnce == \A r \in Rcpts : delivered[r] <= 1

(* As long as nothing has failed, a recipient is delivered or reported as   *)
(* failed, once, never both: a worker that dies or cannot save has done     *)
(* what nobody will remember, and only then it is done again.               *)
OneFate == faulted = 0 => \A r \in Rcpts : delivered[r] + bounced[r] <= 1

(* The quota counters hold what the stored message still has to release.    *)
QuotaExact == usage = IF exists THEN Cardinality(msg.quota) ELSE 0

(* The counters never hold more than the stored message will release: with  *)
(* any interleaving of workers, queues and requests, no quota stays used up *)
(* for good.  (Copies of several queues can release a key twice, which      *)
(* leaves less than that: save_changes does not merge quota_keys.)          *)
QuotaNeverLeaks == usage <= IF exists THEN Cardinality(msg.quota) ELSE 0

(* The blob of a stored message is linked, so that the purge keeps it.      *)
BlobKept == exists => linked

(* "Re-queue the message if its not yet due for delivery": what deliver_task *)
(* is about to write back then has no event that is due already in the       *)
(* worker's queue, or the same worker would be started again at once.  This  *)
(* holds when delays are reported to every sender: build_dsn advances        *)
(* notify.due only together with a report, so with WantsDelay = {} and a     *)
(* finite Notify a message is put back due at once until its next retry.     *)
RequeuedForLater ==
  [][\A w \in Workers :
       (Begin(w) /\ pc'[w] = "save") =>
          \A e \in NextEvents(copy'[w]) : e.queue = ev[w].queue => e.due > now]_vars

(* Every queued message is eventually delivered, bounced or removed.        *)
EventuallyGone == queued ~> (queued /\ ~exists)
=============================================================================
