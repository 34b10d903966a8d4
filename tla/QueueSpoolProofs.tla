-------------------------- MODULE QueueSpoolProofs --------------------------
(* Proofs about the message queue, for any recipients, queues, schedules,   *)
(* workers and bounds.                                                      *)
EXTENDS QueueSpool, FiniteSetTheorems, WellFoundedInduction, TLAPS

-----------------------------------------------------------------------------
(* The operators the model is built from *)

(* A non-empty set of times has an earliest one, and Min returns it.        *)
LEMMA MinIsLeast ==
  ASSUME NEW S \in SUBSET Nat, S # {}
  PROVE  /\ Min(S) \in S
         /\ \A t \in S : Min(S) <= t
<1>1. \E x \in S : \A y \in S : ~(<<y, x>> \in OpToRel(<, Nat))
  BY WFMin, NatLessThanWellFounded
<1>2. PICK x \in S : \A y \in S : ~(<<y, x>> \in OpToRel(<, Nat))
  BY <1>1
<1>3. ASSUME NEW y \in S PROVE x <= y
  <2>1. ~(y < x)
    BY <1>2 DEF OpToRel
  <2> QED BY <2>1
<1>4. \E z \in S : \A y \in S : z <= y
  BY <1>3
<1> QED BY <1>4 DEF Min

(* The earliest event of a recipient is a time not after its retry.         *)
LEMMA EventTimeType ==
  ASSUME NEW r \in Recipient
  PROVE  EventTime(r) \in Nat /\ EventTime(r) <= r.due
<1>1. r.due \in Nat /\ r.notify \in Nat /\ ExpirationTime(r) \in Nat
  BY DEF Recipient, ExpirationTime, Expiries, Never
<1>2. {r.due, r.notify, ExpirationTime(r)} \in SUBSET Nat
  BY <1>1
<1> HIDE DEF ExpirationTime
<1> QED BY <1>2, MinIsLeast DEF EventTime

(* The events next_events computes are well formed.                         *)
LEMMA NextEventsType ==
  ASSUME NEW m \in Message
  PROVE  NextEvents(m) \subseteq Event
<1> SUFFICES ASSUME NEW q \in PendingQueues(m)
             PROVE  [due |-> Min({EventTime(m.rcpts[r]) :
                                    r \in {x \in PendingIn(m) : m.rcpts[x].queue = q}}),
                     queue |-> q] \in Event
  BY DEF NextEvents
<1> DEFINE P == {x \in PendingIn(m) : m.rcpts[x].queue = q}
           T == {EventTime(m.rcpts[r]) : r \in P}
<1>1. q \in Queues /\ P # {}
  BY DEF PendingQueues, PendingIn, Message, Recipient
<1>2. \A r \in Rcpts : m.rcpts[r] \in Recipient
  BY DEF Message
<1>3. \A r \in P : EventTime(m.rcpts[r]) \in Nat
  BY <1>2, EventTimeType DEF PendingIn
<1>4. T \in SUBSET Nat /\ T # {}
  BY <1>1, <1>3
<1> HIDE DEF T
<1>5. Min(T) \in Nat
  BY <1>4, MinIsLeast
<1> QED BY <1>1, <1>5 DEF Event, T

(* A message with a pending recipient has an event, and only then.          *)
LEMMA NextEventsNonEmpty ==
  ASSUME NEW m
  PROVE  NextEvents(m) # {} <=> PendingIn(m) # {}
<1>1. ASSUME NEW r \in PendingIn(m) PROVE NextEvents(m) # {}
  <2>1. m.rcpts[r].queue \in PendingQueues(m)
    BY DEF PendingQueues
  <2> DEFINE F(q) == [due |-> Min({EventTime(m.rcpts[x]) :
                                     x \in {y \in PendingIn(m) : m.rcpts[y].queue = q}}),
                      queue |-> q]
  <2>2. NextEvents(m) = {F(q) : q \in PendingQueues(m)}
    BY Zenon DEF NextEvents
  <2> HIDE DEF F
  <2> QED BY <2>1, <2>2
<1>2. ASSUME NEW e \in NextEvents(m) PROVE PendingIn(m) # {}
  BY DEF NextEvents, PendingQueues
<1> QED BY <1>1, <1>2

-----------------------------------------------------------------------------
(* Types of what the handlers build *)

(* Numbers of recipients are numbers.                                       *)
LEMMA CardinalityType ==
  ASSUME NEW S \in SUBSET QuotaKeys
  PROVE  IsFiniteSet(S) /\ Cardinality(S) \in Nat
<1>1. IsFiniteSet(QuotaKeys)
  BY RcptAssumption, FS_AddElement DEF QuotaKeys
<1> QED BY <1>1, FS_Subset, FS_CardinalityType

(* A message takes any recipients in place of its own.                      *)
LEMMA WithRcpts ==
  ASSUME NEW m \in Message, NEW f \in [Rcpts -> Recipient]
  PROVE  [m EXCEPT !.rcpts = f] \in Message
  BY DEF Message

(* A recipient takes any status.                                            *)
LEMMA WithStatus ==
  ASSUME NEW r \in Recipient, NEW s \in Statuses
  PROVE  [r EXCEPT !.status = s] \in Recipient
  BY DEF Recipient

(* The value that stands for "no message" is one.                           *)
LEMMA BlankMessageType == BlankMessage \in Message
  BY QueueAssumption DEF BlankMessage, Message, Recipient, Expiries, Statuses

(* queue_message builds recipients.                                         *)
LEMMA NewRecipientType ==
  ASSUME now \in Nat, NEW q \in Queues, NEW hold \in Nat
  PROVE  NewRecipient(q, hold) \in Recipient
<1>1. Expiry[q] \in Expiries /\ Notify[q] \in Seq(Nat \ {0}) /\ Notify[q] # << >>
  BY ScheduleAssumption
<1>2. Notify[q][1] \in Nat
  BY <1>1
<1>3. (IF Expiry[q].kind = "ttl" THEN [Expiry[q] EXCEPT !.n = @ + hold] ELSE Expiry[q]) \in Expiries
  BY <1>1 DEF Expiries
<1> QED BY <1>2, <1>3 DEF NewRecipient, Recipient, Statuses

(* Marking expired recipients keeps a message a message.                    *)
LEMMA MarkExpiredType ==
  ASSUME NEW m \in Message
  PROVE  MarkExpired(m) \in Message
<1>1. \A r \in Rcpts : m.rcpts[r] \in Recipient
  BY DEF Message
<1>2. \A r \in Rcpts : [m.rcpts[r] EXCEPT !.status = "perm"] \in Recipient
  BY <1>1, WithStatus DEF Statuses
<1> QED BY <1>1, <1>2, WithRcpts DEF MarkExpired

(* Moving a notification on keeps a recipient a recipient.                  *)
LEMMA NextNotifyType ==
  ASSUME now \in Nat, NEW r \in Recipient
  PROVE  NextNotify(r) \in Recipient
<1>1. r.queue \in Queues /\ r.notices \in Nat
  BY DEF Recipient
<1>2. Notify[NoticeQueue[r.queue]] \in Seq(Nat \ {0})
  BY <1>1, ScheduleAssumption
<1>3. CASE r.notices + 2 \in DOMAIN Notify[NoticeQueue[r.queue]]
  <2>1. Notify[NoticeQueue[r.queue]][r.notices + 2] \in Nat
    BY <1>2, <1>3
  <2> DEFINE y == [r EXCEPT !.notify = now + Notify[NoticeQueue[r.queue]][r.notices + 2]]
  <2>2. y \in Recipient /\ y.notices = r.notices
    BY <2>1 DEF Recipient
  <2>3. NextNotify(r) = [y EXCEPT !.notices = @ + 1]
    BY <1>3 DEF NextNotify
  <2> HIDE DEF y
  <2> QED BY <1>1, <2>2, <2>3 DEF Recipient
<1>4. CASE r.notices + 2 \notin DOMAIN Notify[NoticeQueue[r.queue]]
  BY <1>4 DEF NextNotify, Recipient, Never
<1> QED BY <1>3, <1>4

(* build_dsn keeps a message a message.                                     *)
LEMMA BuildDsnType ==
  ASSUME now \in Nat, NEW m \in Message
  PROVE  BuildDsn(m) \in Message
<1>1. \A r \in Rcpts : m.rcpts[r] \in Recipient
  BY DEF Message
<1>2. \A r \in Rcpts : [m.rcpts[r] EXCEPT !.dsn = TRUE] \in Recipient
  BY <1>1 DEF Recipient
<1>3. \A r \in Rcpts : NextNotify(m.rcpts[r]) \in Recipient
  BY <1>1, NextNotifyType
<1> QED BY <1>1, <1>2, <1>3, WithRcpts DEF BuildDsn

(* A rate-limited recipient is one.                                         *)
LEMMA RateLimitedType ==
  ASSUME now \in Nat, NEW r \in Recipient
  PROVE  RateLimited(r) \in Recipient
<1> DEFINE y == [r EXCEPT !.status = "temp"]
<1>1. y \in Recipient
  BY WithStatus DEF Statuses
<1>2. RateLimited(r) = [y EXCEPT !.due = now + 1]
  BY DEF RateLimited
<1> HIDE DEF y
<1> QED BY <1>1, <1>2 DEF Recipient

(* A deferred recipient is one: the retry list has an entry for it.         *)
LEMMA RetryLaterType ==
  ASSUME now \in Nat, NEW r \in Recipient, NEW q \in Queues
  PROVE  RetryLater(r, q) \in Recipient
<1>1. Retry[q] \in Seq(Nat \ {0}) /\ Retry[q] # << >> /\ Expiry[q] \in Expiries
  BY ScheduleAssumption
<1>2. r.tries \in Nat
  BY DEF Recipient
<1> DEFINE i == Min({r.tries + 1, Len(Retry[q])})
<1>3. {r.tries + 1, Len(Retry[q])} \in SUBSET Nat
  BY <1>1, <1>2
<1>4. i \in {r.tries + 1, Len(Retry[q])} /\ i <= Len(Retry[q])
  BY <1>3, MinIsLeast
<1>5. i \in 1 .. Len(Retry[q])
  BY <1>1, <1>2, <1>4
<1> HIDE DEF i
<1>6. Retry[q][i] \in Nat
  BY <1>1, <1>5
<1> DEFINE a == [r EXCEPT !.status = "temp"]
           b == [a EXCEPT !.due = now + Retry[q][i]]
           c == [b EXCEPT !.tries = r.tries + 1]
           d == [c EXCEPT !.expires = Expiry[q]]
<1>7. RetryLater(r, q) = [d EXCEPT !.queue = q]
  BY DEF RetryLater, i
<1>8. a \in Recipient
  BY WithStatus DEF Statuses
<1> HIDE DEF a
<1>9. b \in Recipient
  BY <1>6, <1>8 DEF Recipient
<1> HIDE DEF b
<1>10. c \in Recipient
  BY <1>2, <1>9 DEF Recipient
<1> HIDE DEF c
<1>11. d \in Recipient
  BY <1>1, <1>10 DEF Recipient
<1> HIDE DEF d
<1> QED BY <1>7, <1>11 DEF Recipient

(* A manually rescheduled recipient is one.                                 *)
LEMMA RescheduledType ==
  ASSUME NEW r \in Recipient, NEW t \in Nat
  PROVE  Rescheduled(r, t) \in Recipient
<1> DEFINE y == [r EXCEPT !.due = t]
           x == [kind |-> "attempts", n |-> r.tries + ExtraAttempts]
<1>1. y \in Recipient
  BY DEF Recipient
<1>2. x \in Expiries
  BY BoundAssumption DEF Recipient, Expiries
<1>3. Rescheduled(r, t) \in {y, [y EXCEPT !.expires = x]}
  BY DEF Rescheduled
<1> HIDE DEF x, y
<1> QED BY <1>1, <1>2, <1>3 DEF Recipient

(* Merging two messages gives a message.                                    *)
LEMMA MergeRcptsType ==
  ASSUME msg \in Message, NEW m \in Message, NEW q
  PROVE  MergeRcpts(m, q) \in Message
<1>1. \A r \in Rcpts : m.rcpts[r] \in Recipient /\ msg.rcpts[r] \in Recipient
  BY DEF Message
<1> QED BY <1>1, WithRcpts DEF MergeRcpts

-----------------------------------------------------------------------------
(* Type correctness *)

StoreType ==
  /\ exists \in BOOLEAN
  /\ msg \in Message
  /\ events \subseteq Event
  /\ usage \in Int
  /\ linked \in BOOLEAN

WorkerType ==
  /\ pc \in [Workers -> PcStates]
  /\ ev \in [Workers -> Event]
  /\ copy \in [Workers -> Message]
  /\ multi \in [Workers -> BOOLEAN]
  /\ lease \in [Workers -> Nat]

AdminType == admin \in [pc : {"idle", "read"}, copy : Message, multi : BOOLEAN]

RestType ==
  /\ now \in Nat
  /\ queued \in BOOLEAN
  /\ lock \in [Queues -> Nat]
  /\ requests \in Nat
  /\ faulted \in Nat
  /\ delivered \in [Rcpts -> Nat]
  /\ bounced \in [Rcpts -> Nat]
  /\ canceled \subseteq Rcpts

(* The type invariant, by the groups of variables the actions change.       *)
LEMMA TypeParts == TypeOK <=> StoreType /\ WorkerType /\ AdminType /\ RestType
  BY DEF TypeOK, StoreType, WorkerType, AdminType, RestType

(* The same for the next state.                                             *)
LEMMA TypePartsNext == TypeOK' <=> StoreType' /\ WorkerType' /\ AdminType' /\ RestType'
  BY DEF TypeOK, StoreType, WorkerType, AdminType, RestType

(* save_changes stores a message, whichever way it writes it.               *)
LEMMA SaveBatchType ==
  ASSUME StoreType, NEW m \in Message, NEW q, NEW b, NEW prev, SaveBatch(m, q, b, prev)
  PROVE  StoreType'
<1>1. CASE b /\ ~exists
  BY <1>1 DEF SaveBatch, StoreType, store
<1>2. CASE ~(b /\ ~exists)
  <2>1. Cardinality(Releasable(m)) \in Nat
    BY CardinalityType DEF Releasable, Message, QuotaKeys
  <2>2. NextEvents(m) \subseteq Event
    BY NextEventsType
  <2>3. MergeRcpts(m, q) \in Message
    BY MergeRcptsType DEF StoreType
  <2>4. [m EXCEPT !.quota = @ \ Releasable(m)] \in Message
    BY DEF Message
  <2>5. /\ usage' = usage - Cardinality(Releasable(m))
        /\ events' = (events \ prev) \cup NextEvents(m)
        /\ msg' = IF b THEN MergeRcpts(m, q) ELSE [m EXCEPT !.quota = @ \ Releasable(m)]
    BY <1>2, Zenon DEF SaveBatch
  <2>6. exists' \in BOOLEAN /\ linked' \in BOOLEAN
    BY <1>2, Zenon DEF SaveBatch, StoreType
  <2>7. usage' \in Int
    BY <2>1, <2>5 DEF StoreType
  <2>8. events' \subseteq Event
    BY <2>2, <2>5, Zenon DEF StoreType
  <2>9. msg' \in Message
    BY <2>3, <2>4, <2>5, Zenon
  <2> QED BY <2>6, <2>7, <2>8, <2>9 DEF StoreType
<1> QED BY <1>1, <1>2

(* remove leaves the store well formed.                                     *)
LEMMA RemoveBatchType ==
  ASSUME StoreType, NEW m \in Message, NEW prev, RemoveBatch(m, prev)
  PROVE  StoreType'
<1>1. Cardinality(m.quota) \in Nat
  BY CardinalityType DEF Message
<1>2. events' \subseteq Event /\ usage' \in Int
  BY <1>1 DEF RemoveBatch, StoreType
<1>3. exists' \in BOOLEAN /\ linked' \in BOOLEAN /\ msg' \in Message
  BY Zenon DEF RemoveBatch, StoreType
<1> QED BY <1>2, <1>3 DEF StoreType

(* A task that ends leaves well-formed locals behind.                       *)
LEMMA LeaveType ==
  ASSUME WorkerType, NEW w \in Workers, Leave(w)
  PROVE  WorkerType'
<1>1. NoEvent \in Event
  BY QueueAssumption DEF NoEvent, Event
<1> QED BY <1>1, BlankMessageType DEF Leave, WorkerType, PcStates

(* Notifications only add to the history.                                   *)
LEMMA QueueDsnType ==
  ASSUME bounced \in [Rcpts -> Nat], NEW m, QueueDsn(m)
  PROVE  bounced' \in [Rcpts -> Nat]
  BY DEF QueueDsn

(* deliver_task's attempt as the worker sees it: only due recipients have a *)
(* new state, and who is recorded as delivered was.                         *)
LEMMA AttemptApplied ==
  ASSUME TypeOK, NEW w \in Workers, Attempt(w)
  PROVE  \E m \in Message :
           /\ copy' = [copy EXCEPT ![w] = BuildDsn(m)]
           /\ QueueDsn(m)
           /\ pc' = [pc EXCEPT ![w] = AfterAttempt(m, ev[w].queue)]
           /\ m.quota = copy[w].quota
           /\ \A r \in Rcpts \ DueIn(copy[w], ev[w].queue) :
                m.rcpts[r] = copy[w].rcpts[r] /\ delivered'[r] = delivered[r]
           /\ \A r \in Rcpts \cap DueIn(copy[w], ev[w].queue) :
                /\ m.rcpts[r].dsn = copy[w].rcpts[r].dsn
                /\ m.rcpts[r].queue \in {copy[w].rcpts[r].queue} \cup RetryQueues[ev[w].queue]
                /\ m.rcpts[r].queue = copy[w].rcpts[r].queue \/ m.rcpts[r].status = "temp"
                /\ delivered'[r] = IF m.rcpts[r].status = "done" THEN delivered[r] + 1
                                                                ELSE delivered[r]
<1> DEFINE D == DueIn(copy[w], ev[w].queue)
<1>1. PICK out \in [D -> Outcomes], next \in [D -> RetryQueues[ev[w].queue]] :
        LET Result(r) ==
              CASE out[r] \in {"done", "perm"} -> [copy[w].rcpts[r] EXCEPT !.status = out[r]]
                [] out[r] = "temp" -> RetryLater(copy[w].rcpts[r], next[r])
                [] out[r] = "limited" -> RateLimited(copy[w].rcpts[r])
            applied == [copy[w] EXCEPT !.rcpts = [r \in Rcpts |->
                          IF r \in D THEN Result(r) ELSE copy[w].rcpts[r]]]
        IN /\ copy' = [copy EXCEPT ![w] = BuildDsn(applied)]
           /\ QueueDsn(applied)
           /\ delivered' = [r \in Rcpts |-> IF r \in D /\ out[r] = "done"
                                              THEN delivered[r] + 1 ELSE delivered[r]]
           /\ pc' = [pc EXCEPT ![w] = AfterAttempt(applied, ev[w].queue)]
  BY DEF Attempt
<1> DEFINE Result(r) ==
             CASE out[r] \in {"done", "perm"} -> [copy[w].rcpts[r] EXCEPT !.status = out[r]]
               [] out[r] = "temp" -> RetryLater(copy[w].rcpts[r], next[r])
               [] out[r] = "limited" -> RateLimited(copy[w].rcpts[r])
           rcpts == [r \in Rcpts |-> IF r \in D THEN Result(r) ELSE copy[w].rcpts[r]]
           applied == [copy[w] EXCEPT !.rcpts = rcpts]
<1>2. /\ now \in Nat
      /\ copy[w] \in Message
      /\ ev[w].queue \in Queues
      /\ \A r \in Rcpts : copy[w].rcpts[r] \in Recipient
  BY DEF TypeOK, Message, Event
<1>3. RetryQueues[ev[w].queue] \subseteq Queues
  BY <1>2, ScheduleAssumption
<1>4. ASSUME NEW r \in Rcpts, r \in D
      PROVE  /\ Result(r) \in Recipient
             /\ Result(r).dsn = copy[w].rcpts[r].dsn
             /\ Result(r).queue \in {copy[w].rcpts[r].queue} \cup RetryQueues[ev[w].queue]
             /\ Result(r).queue = copy[w].rcpts[r].queue \/ Result(r).status = "temp"
             /\ Result(r).status = "done" <=> out[r] = "done"
  <2>1. out[r] \in {"done", "perm", "temp", "limited"}
    BY <1>4 DEF Outcomes
  <2>2. next[r] \in RetryQueues[ev[w].queue] /\ next[r] \in Queues
    BY <1>3, <1>4
  <2>3. copy[w].rcpts[r] \in Recipient
    BY <1>2
  <2>4. CASE out[r] \in {"done", "perm"}
    <3>1. Result(r) = [copy[w].rcpts[r] EXCEPT !.status = out[r]]
      BY <2>4
    <3>2. Result(r) \in Recipient
      BY <2>3, <2>4, <3>1, WithStatus DEF Statuses
    <3> QED BY <2>3, <3>1, <3>2 DEF Recipient
  <2>5. CASE out[r] = "temp"
    <3>1. Result(r) = RetryLater(copy[w].rcpts[r], next[r])
      BY <2>5
    <3>2. Result(r) \in Recipient
      BY <1>2, <2>2, <2>3, <3>1, RetryLaterType
    <3>3. Result(r).dsn = copy[w].rcpts[r].dsn /\ Result(r).status = "temp"
      BY <2>3, <3>1 DEF RetryLater, Recipient
    <3>4. Result(r).queue = next[r]
      BY <2>3, <3>1 DEF RetryLater, Recipient
    <3> QED BY <2>2, <2>5, <3>2, <3>3, <3>4
  <2>6. CASE out[r] = "limited"
    <3>1. Result(r) = RateLimited(copy[w].rcpts[r])
      BY <2>6
    <3>2. Result(r) \in Recipient
      BY <1>2, <2>3, <3>1, RateLimitedType
    <3>3. /\ Result(r).dsn = copy[w].rcpts[r].dsn
          /\ Result(r).status = "temp"
          /\ Result(r).queue = copy[w].rcpts[r].queue
      BY <2>3, <3>1 DEF RateLimited, Recipient
    <3> QED BY <2>6, <3>2, <3>3
  <2> QED BY <2>1, <2>4, <2>5, <2>6
<1> HIDE DEF Result, D
<1>6. rcpts \in [Rcpts -> Recipient]
  BY <1>2, <1>4
<1>7. applied \in Message /\ applied.rcpts = rcpts /\ applied.quota = copy[w].quota
  <2> HIDE DEF rcpts
  <2>1. applied \in Message
    BY <1>2, <1>6, WithRcpts
  <2> QED BY <1>2, <2>1 DEF Message
<1>8. /\ copy' = [copy EXCEPT ![w] = BuildDsn(applied)]
      /\ QueueDsn(applied)
      /\ delivered' = [r \in Rcpts |-> IF r \in D /\ out[r] = "done"
                                         THEN delivered[r] + 1 ELSE delivered[r]]
      /\ pc' = [pc EXCEPT ![w] = AfterAttempt(applied, ev[w].queue)]
  BY <1>1, Zenon DEF Result, D
<1>9. \A r \in Rcpts \ D : applied.rcpts[r] = copy[w].rcpts[r] /\ delivered'[r] = delivered[r]
  BY <1>7, <1>8
<1>10. \A r \in Rcpts \cap D :
         /\ applied.rcpts[r].dsn = copy[w].rcpts[r].dsn
         /\ applied.rcpts[r].queue \in {copy[w].rcpts[r].queue} \cup RetryQueues[ev[w].queue]
         /\ applied.rcpts[r].queue = copy[w].rcpts[r].queue \/ applied.rcpts[r].status = "temp"
         /\ delivered'[r] = IF applied.rcpts[r].status = "done" THEN delivered[r] + 1
                                                               ELSE delivered[r]
  BY <1>4, <1>7, <1>8
<1> HIDE DEF applied
<1> QED BY <1>7, <1>8, <1>9, <1>10 DEF D

(* An attempt keeps the state well formed.                                  *)
LEMMA AttemptType ==
  ASSUME TypeOK, NEW w \in Workers, Attempt(w)
  PROVE  TypeOK'
<1>1. PICK m \in Message :
        /\ copy' = [copy EXCEPT ![w] = BuildDsn(m)]
        /\ QueueDsn(m)
        /\ pc' = [pc EXCEPT ![w] = AfterAttempt(m, ev[w].queue)]
  BY AttemptApplied
<1>2. BuildDsn(m) \in Message
  BY BuildDsnType DEF TypeOK
<1>3. /\ copy' \in [Workers -> Message]
      /\ pc' \in [Workers -> PcStates]
  BY <1>1, <1>2 DEF TypeOK, AfterAttempt, PcStates
<1>4. /\ delivered' \in [Rcpts -> Nat]
      /\ bounced' \in [Rcpts -> Nat]
  BY <1>1, QueueDsnType DEF TypeOK, Attempt
<1> QED BY <1>3, <1>4, Zenon DEF Attempt, TypeOK, store

(* Every step of a worker keeps the state well formed.                      *)
LEMMA WorkerStepType ==
  ASSUME TypeOK, NEW w \in Workers, WorkerStep(w) \/ Crash(w)
  PROVE  TypeOK'
<1>0. StoreType /\ WorkerType /\ AdminType /\ RestType
  BY TypeParts
<1>a. now \in Nat /\ copy[w] \in Message /\ ev[w] \in Event /\ ev[w].queue \in Queues
  BY DEF TypeOK, Event
<1>1. CASE Pick(w)
  <2>1. WorkerType'
    BY <1>0, <1>1 DEF Pick, WorkerType, StoreType, PcStates
  <2>2. StoreType' /\ AdminType' /\ RestType'
    BY <1>0, <1>1, Zenon DEF Pick, StoreType, AdminType, RestType, store, history
  <2> QED BY <2>1, <2>2, TypePartsNext
<1>2. CASE TryLock(w)
  <2>1. now + LockExpiry \in Nat
    BY <1>a, BoundAssumption
  <2>2. StoreType' /\ AdminType'
    BY <1>0, <1>2, Zenon DEF TryLock, StoreType, AdminType, store
  <2>3. CASE lock[ev[w].queue] > now
    <3>1. Leave(w) /\ UNCHANGED lock
      BY <1>2, <2>3, Zenon DEF TryLock
    <3>2. RestType'
      BY <1>0, <1>2, <3>1, Zenon DEF TryLock, RestType, history
    <3> QED BY <1>0, <2>2, <3>1, <3>2, LeaveType, TypePartsNext
  <2>4. CASE ~(lock[ev[w].queue] > now)
    <3>1. /\ lock' = [lock EXCEPT ![ev[w].queue] = now + LockExpiry]
          /\ lease' = [lease EXCEPT ![w] = now + LockExpiry]
          /\ pc' = [pc EXCEPT ![w] = "locked"]
          /\ UNCHANGED <<ev, copy, multi>>
      BY <1>2, <2>4, Zenon DEF TryLock
    <3>2. WorkerType'
      BY <1>0, <2>1, <3>1 DEF WorkerType, PcStates
    <3>3. lock' \in [Queues -> Nat]
      BY <1>0, <1>a, <2>1, <3>1 DEF RestType
    <3>4. RestType'
      BY <1>0, <1>2, <3>3, Zenon DEF TryLock, RestType, history
    <3> QED BY <2>2, <3>2, <3>4, TypePartsNext
  <2> QED BY <2>3, <2>4
<1>3. CASE Read(w)
  <2>1. IsMultiQueue(msg, ev[w].queue) \in BOOLEAN
    BY DEF IsMultiQueue
  <2>2. StoreType' /\ AdminType' /\ RestType'
    BY <1>0, <1>3, Zenon DEF Read, StoreType, AdminType, RestType, store, history
  <2>3. WorkerType'
    BY <1>0, <1>3, <2>1 DEF Read, WorkerType, StoreType, PcStates
  <2> QED BY <2>2, <2>3, TypePartsNext
<1>4. CASE ClearEvent(w)
  <2>0. faulted' \in Nat
    BY <1>0, <1>4 DEF ClearEvent, WriteFails, RestType
  <2>1. StoreType'
    BY <1>0, <1>4, Zenon DEF ClearEvent, WriteFails, StoreType, store
  <2>2. AdminType' /\ RestType'
    BY <1>0, <1>4, <2>0, Zenon DEF ClearEvent, AdminType, RestType, history
  <2>3. WorkerType'
    BY <1>0, <1>4 DEF ClearEvent, WorkerType, PcStates
  <2> QED BY <2>1, <2>2, <2>3, TypePartsNext
<1>5. CASE Begin(w)
  <2> DEFINE marked == MarkExpired(copy[w])
             m == BuildDsn(marked)
  <2>1. marked \in Message
    BY <1>a, MarkExpiredType
  <2>2. m \in Message
    BY <1>a, <2>1, BuildDsnType
  <2>3. /\ QueueDsn(marked)
        /\ copy' = [copy EXCEPT ![w] = m]
        /\ pc' = [pc EXCEPT ![w] = IF PendingIn(m) = {} THEN "remove"
                                   ELSE IF DueIn(m, ev[w].queue) # {} THEN "deliver"
                                   ELSE "save"]
    BY <1>5, Zenon DEF Begin
  <2> HIDE DEF marked, m
  <2>4. pc' \in [Workers -> PcStates] /\ copy' \in [Workers -> Message]
    BY <1>0, <2>2, <2>3 DEF WorkerType, PcStates
  <2>5. WorkerType'
    BY <1>0, <1>5, <2>4, Zenon DEF Begin, WorkerType
  <2>6. bounced' \in [Rcpts -> Nat]
    BY <1>0, <2>3, QueueDsnType DEF RestType
  <2>7. StoreType' /\ AdminType' /\ RestType'
    BY <1>0, <1>5, <2>6, Zenon DEF Begin, StoreType, AdminType, RestType, store
  <2> QED BY <2>5, <2>7, TypePartsNext
<1>6. CASE Throttle(w)
  <2> DEFINE D == DueIn(copy[w], ev[w].queue)
             rcpts == [r \in Rcpts |-> IF r \in D THEN RateLimited(copy[w].rcpts[r])
                                                  ELSE copy[w].rcpts[r]]
             m == [copy[w] EXCEPT !.rcpts = rcpts]
  <2>1. \A r \in Rcpts : copy[w].rcpts[r] \in Recipient
    BY <1>a DEF Message
  <2>2. \A r \in Rcpts : RateLimited(copy[w].rcpts[r]) \in Recipient
    BY <1>a, <2>1, RateLimitedType
  <2> HIDE DEF D
  <2>3. rcpts \in [Rcpts -> Recipient]
    BY <2>1, <2>2
  <2>4. copy' = [copy EXCEPT ![w].rcpts = rcpts] /\ pc' = [pc EXCEPT ![w] = "save"]
    BY <1>6, Zenon DEF Throttle, D
  <2> HIDE DEF rcpts
  <2>5. m \in Message
    BY <1>a, <2>3, WithRcpts
  <2>6. copy' = [copy EXCEPT ![w] = m]
    BY <1>0, <2>4 DEF WorkerType
  <2> HIDE DEF m
  <2>7. pc' \in [Workers -> PcStates] /\ copy' \in [Workers -> Message]
    BY <1>0, <2>4, <2>5, <2>6 DEF WorkerType, PcStates
  <2>8. WorkerType'
    BY <1>0, <1>6, <2>7, Zenon DEF Throttle, WorkerType
  <2>9. StoreType' /\ AdminType' /\ RestType'
    BY <1>0, <1>6, Zenon DEF Throttle, StoreType, AdminType, RestType, store, history
  <2> QED BY <2>8, <2>9, TypePartsNext
<1>7. CASE Attempt(w)
  BY <1>7, AttemptType
<1>8. CASE Save(w)
  <2>1. Consumed(w) => WorkerType'
    BY <1>0, <1>8, BlankMessageType DEF Save, Consumed, WorkerType, PcStates
  <2>2. StoreType'
    BY <1>0, <1>8, <1>a, SaveBatchType, Zenon DEF Save, WriteFails, StoreType, store
  <2>3. faulted' \in Nat
    BY <1>0, <1>8 DEF Save, WriteFails, RestType
  <2>4. WorkerType' /\ AdminType' /\ RestType'
    BY <1>0, <1>8, <2>1, <2>3, Zenon DEF Save, AdminType, RestType, history
  <2> QED BY <2>2, <2>4, TypePartsNext
<1>9. CASE Remove(w)
  <2>1. Consumed(w) => WorkerType'
    BY <1>0, <1>9, BlankMessageType DEF Remove, Consumed, WorkerType, PcStates
  <2>2. StoreType'
    BY <1>0, <1>9, <1>a, RemoveBatchType, Zenon DEF Remove, WriteFails, StoreType, store
  <2>3. faulted' \in Nat
    BY <1>0, <1>9 DEF Remove, WriteFails, RestType
  <2>4. WorkerType' /\ AdminType' /\ RestType'
    BY <1>0, <1>9, <2>1, <2>3, Zenon DEF Remove, AdminType, RestType, history
  <2> QED BY <2>2, <2>4, TypePartsNext
<1>10. CASE Unlock(w)
  <2>1. WorkerType'
    BY <1>0, <1>10, LeaveType DEF Unlock
  <2>2. lock' \in [Queues -> Nat]
    BY <1>0, <1>10 DEF Unlock, RestType
  <2>3. StoreType' /\ AdminType' /\ RestType'
    BY <1>0, <1>10, <2>2, Zenon DEF Unlock, StoreType, AdminType, RestType, store, history
  <2> QED BY <2>1, <2>3, TypePartsNext
<1>11. CASE Crash(w)
  <2>1. WorkerType'
    BY <1>0, <1>11, LeaveType DEF Crash
  <2>2. faulted' \in Nat
    BY <1>0, <1>11 DEF Crash, RestType
  <2>3. StoreType' /\ AdminType' /\ RestType'
    BY <1>0, <1>11, <2>2, Zenon DEF Crash, StoreType, AdminType, RestType, store, history
  <2> QED BY <2>1, <2>3, TypePartsNext
<1> QED BY <1>1, <1>2, <1>3, <1>4, <1>5, <1>6, <1>7, <1>8, <1>9, <1>10, <1>11 DEF WorkerStep

(* Every management request keeps the state well formed.                    *)
LEMMA AdminStepType ==
  ASSUME TypeOK, AdminRead \/ AdminReschedule \/ AdminCancel \/ AdminDelete
  PROVE  TypeOK'
<1>0. StoreType /\ WorkerType /\ AdminType /\ RestType
  BY TypeParts
<1>a. admin.copy \in Message /\ now \in Nat
  BY <1>0 DEF AdminType, RestType
<1>b. \A r \in Rcpts : admin.copy.rcpts[r] \in Recipient
  BY <1>a DEF Message
<1>c. NoRequest \in [pc : {"idle", "read"}, copy : Message, multi : BOOLEAN]
  BY BlankMessageType DEF NoRequest
<1>1. CASE AdminRead
  <2>1. IsMultiQueue(msg, DefaultQueue) \in BOOLEAN
    BY DEF IsMultiQueue
  <2>2. AdminType' /\ requests' \in Nat
    BY <1>0, <1>1, <2>1 DEF AdminRead, AdminType, StoreType, RestType
  <2>3. StoreType' /\ WorkerType' /\ RestType'
    BY <1>0, <1>1, <2>2, Zenon
    DEF AdminRead, StoreType, WorkerType, RestType, store, worker, history
  <2> QED BY <2>2, <2>3, TypePartsNext
<1>2. CASE AdminReschedule
  <2>1. PICK S \in SUBSET Rcpts, t \in {now, now + 1} :
          LET found == S \cap PendingIn(admin.copy)
              m == [admin.copy EXCEPT !.rcpts = [r \in Rcpts |->
                      IF r \in found THEN Rescheduled(admin.copy.rcpts[r], t)
                                     ELSE admin.copy.rcpts[r]]]
          IN \/ found # {} /\ SaveBatch(m, DefaultQueue, admin.multi, {}) /\ UNCHANGED faulted
             \/ found = {} /\ UNCHANGED <<store, faulted>>
             \/ found # {} /\ RequestFails
    BY <1>2, Zenon DEF AdminReschedule
  <2> DEFINE found == S \cap PendingIn(admin.copy)
             rcpts == [r \in Rcpts |-> IF r \in found THEN Rescheduled(admin.copy.rcpts[r], t)
                                                      ELSE admin.copy.rcpts[r]]
             m == [admin.copy EXCEPT !.rcpts = rcpts]
  <2>2. \A r \in Rcpts : Rescheduled(admin.copy.rcpts[r], t) \in Recipient
    BY <1>a, <1>b, RescheduledType
  <2>3. rcpts \in [Rcpts -> Recipient]
    BY <1>b, <2>2
  <2>4. SaveBatch(m, DefaultQueue, admin.multi, {}) \/ UNCHANGED store
    BY <2>1, Zenon DEF RequestFails
  <2>8. faulted' \in Nat
    BY <1>0, <2>1 DEF RequestFails, RestType
  <2> HIDE DEF rcpts
  <2>5. m \in Message
    BY <1>a, <2>3, WithRcpts
  <2> HIDE DEF m
  <2>6. StoreType'
    BY <1>0, <2>4, <2>5, SaveBatchType, Zenon DEF StoreType, store
  <2>7. WorkerType' /\ AdminType' /\ RestType'
    BY <1>0, <1>2, <1>c, <2>8, Zenon DEF AdminReschedule, WorkerType, AdminType, RestType, worker, history
  <2> QED BY <2>6, <2>7, TypePartsNext
<1>3. CASE AdminCancel
  <2>1. PICK S \in SUBSET Rcpts \ {{}} :
          LET m == [admin.copy EXCEPT !.rcpts = [r \in Rcpts |->
                      IF r \in S THEN [admin.copy.rcpts[r] EXCEPT !.status = "perm"]
                                 ELSE admin.copy.rcpts[r]]]
          IN \/ /\ IF PendingIn(m) # {} THEN SaveBatch(m, DefaultQueue, admin.multi, {})
                                        ELSE RemoveBatch(m, NextEvents(m))
                /\ canceled' = canceled \cup S
                /\ UNCHANGED faulted
             \/ RequestFails /\ UNCHANGED canceled
    BY <1>3, Zenon DEF AdminCancel
  <2> DEFINE rcpts == [r \in Rcpts |-> IF r \in S
                                         THEN [admin.copy.rcpts[r] EXCEPT !.status = "perm"]
                                         ELSE admin.copy.rcpts[r]]
             m == [admin.copy EXCEPT !.rcpts = rcpts]
  <2>2. \A r \in Rcpts : [admin.copy.rcpts[r] EXCEPT !.status = "perm"] \in Recipient
    BY <1>b, WithStatus DEF Statuses
  <2>3. rcpts \in [Rcpts -> Recipient]
    BY <1>b, <2>2
  <2>4. \/ SaveBatch(m, DefaultQueue, admin.multi, {})
        \/ RemoveBatch(m, NextEvents(m))
        \/ UNCHANGED store
    BY <2>1, Zenon DEF RequestFails
  <2>9. faulted' \in Nat
    BY <1>0, <2>1 DEF RequestFails, RestType
  <2> HIDE DEF rcpts
  <2>5. m \in Message
    BY <1>a, <2>3, WithRcpts
  <2> HIDE DEF m
  <2>6. StoreType'
    <3>1. CASE UNCHANGED store
      BY <1>0, <3>1, Zenon DEF StoreType, store
    <3> QED BY <1>0, <2>4, <2>5, <3>1, SaveBatchType, RemoveBatchType
  <2>7. canceled' \subseteq Rcpts
    BY <1>0, <2>1, Zenon DEF RestType
  <2>8. WorkerType' /\ AdminType' /\ RestType'
    BY <1>0, <1>3, <1>c, <2>7, <2>9, Zenon DEF AdminCancel, WorkerType, AdminType, RestType, worker
  <2> QED BY <2>6, <2>8, TypePartsNext
<1>4. CASE AdminDelete
  <2>1. StoreType'
    <3>1. CASE RequestFails
      BY <1>0, <3>1, Zenon DEF RequestFails, StoreType, store
    <3> QED BY <1>0, <1>4, <1>a, <3>1, RemoveBatchType DEF AdminDelete
  <2>3. faulted' \in Nat /\ canceled' \subseteq Rcpts
    BY <1>0, <1>4 DEF AdminDelete, RequestFails, RestType
  <2>2. WorkerType' /\ AdminType' /\ RestType'
    BY <1>0, <1>4, <1>c, <2>3, Zenon DEF AdminDelete, WorkerType, AdminType, RestType, worker
  <2> QED BY <2>1, <2>2, TypePartsNext
<1> QED BY <1>1, <1>2, <1>3, <1>4

(* Queueing the message puts a well-formed message into the store.          *)
LEMMA EnqueueType ==
  ASSUME TypeOK, Enqueue
  PROVE  TypeOK'
<1>0. StoreType /\ WorkerType /\ AdminType /\ RestType
  BY TypeParts
<1>1. PICK route \in Routes, hold \in Releases :
        msg' = [rcpts |-> [r \in Rcpts |-> NewRecipient(route[r], hold)], quota |-> QuotaKeys]
  BY Zenon DEF Enqueue
<1>2. \A r \in Rcpts : NewRecipient(route[r], hold) \in Recipient
  BY <1>0, RouteAssumption, BoundAssumption, NewRecipientType DEF RestType
<1>3. msg' \in Message
  BY <1>1, <1>2 DEF Message, QuotaKeys
<1>4. NextEvents(msg') \subseteq Event /\ Cardinality(msg'.quota) \in Nat
  BY <1>3, NextEventsType, CardinalityType DEF Message
<1>5. events' \subseteq Event /\ usage' \in Int
  BY <1>0, <1>4 DEF Enqueue, StoreType
<1>6. StoreType'
  BY <1>3, <1>5, Zenon DEF Enqueue, StoreType
<1>7. WorkerType' /\ AdminType' /\ RestType'
  BY <1>0, Zenon DEF Enqueue, WorkerType, AdminType, RestType, worker, history
<1> QED BY <1>6, <1>7, TypePartsNext

(* Init has the type.                                                       *)
LEMMA InitType == Init => TypeOK
<1> SUFFICES ASSUME Init PROVE TypeOK
  OBVIOUS
<1>1. NoEvent \in Event
  BY QueueAssumption DEF NoEvent, Event
<1>2. StoreType
  <2>1. usage \in Int
    BY DEF Init
  <2> QED BY <2>1, BlankMessageType, Zenon DEF Init, StoreType
<1>3. WorkerType
  BY <1>1, BlankMessageType DEF Init, WorkerType, PcStates
<1>4. AdminType
  BY BlankMessageType DEF Init, AdminType, NoRequest
<1>5. RestType
  BY DEF Init, RestType
<1> QED BY <1>2, <1>3, <1>4, <1>5, TypeParts

(* Every step has the type.                                                 *)
LEMMA NextType == TypeOK /\ [Next]_vars => TypeOK'
<1> SUFFICES ASSUME TypeOK, [Next]_vars PROVE TypeOK'
  OBVIOUS
<1>1. CASE Tick
  <2>1. now' \in Nat
    BY <1>1 DEF Tick, TypeOK
  <2> QED BY <1>1, <2>1, Zenon DEF Tick, TypeOK, store, worker, history
<1>2. CASE UNCHANGED vars
  BY <1>2, Zenon DEF vars, TypeOK, store, worker, history
<1> QED BY <1>1, <1>2, EnqueueType, WorkerStepType, AdminStepType DEF Next

(* Whatever crashes, store errors, overruns and requests interleave, the    *)
(* stored message and the copies of it are messages, and every event names  *)
(* a queue and a time.                                                      *)
THEOREM TypeCorrect == Spec => []TypeOK
  BY InitType, NextType, PTL DEF Spec

-----------------------------------------------------------------------------
(* The queue lock *)

(* The strengthening of OneWorkerPerQueue: whoever works on a queue holds   *)
(* the very lease that is in the lock, and the lease has not run out.       *)
HoldsLease == \A w \in Workers : Busy(w) => (lock[ev[w].queue] = lease[w] /\ now < lease[w])
LockInv == HoldsLease /\ OneWorkerPerQueue

(* No step lets a second worker into a queue, as long as nobody overstays.  *)
LEMMA LockPreserved ==
  ASSUME "overrun" \notin Faults, TypeOK, LockInv, [Next]_vars
  PROVE  LockInv'
<1> USE DEF LockInv, HoldsLease, OneWorkerPerQueue, Busy
<1>0. /\ pc \in [Workers -> PcStates]
      /\ ev \in [Workers -> Event]
      /\ lease \in [Workers -> Nat]
      /\ lock \in [Queues -> Nat]
      /\ now \in Nat
      /\ \A w \in Workers : ev[w].queue \in Queues
  BY DEF TypeOK, Event
<1>1. ASSUME NEW w \in Workers, Pick(w) PROVE LockInv'
  BY <1>0, <1>1 DEF Pick
<1>2. ASSUME NEW w \in Workers, TryLock(w) PROVE LockInv'
  <2>1. now + LockExpiry > now
    BY <1>0, BoundAssumption
  <2>2. CASE lock[ev[w].queue] > now
    BY <1>0, <1>2, <2>2 DEF TryLock, Leave
  <2>3. CASE ~(lock[ev[w].queue] > now)
    <3>1. \A v \in Workers : Busy(v) => ev[v].queue # ev[w].queue
      BY <1>0, <2>3
    <3>2. /\ lock' = [lock EXCEPT ![ev[w].queue] = now + LockExpiry]
          /\ lease' = [lease EXCEPT ![w] = now + LockExpiry]
          /\ pc' = [pc EXCEPT ![w] = "locked"]
          /\ UNCHANGED <<ev, now>>
      BY <1>2, <2>3 DEF TryLock
    <3> QED BY <1>0, <2>1, <3>1, <3>2
  <2> QED BY <2>2, <2>3
<1>3. ASSUME NEW w \in Workers, Unlock(w) PROVE LockInv'
  <2>1. /\ pc[w] = "unlock"
        /\ pc' = [pc EXCEPT ![w] = "idle"]
        /\ ev' = [ev EXCEPT ![w] = NoEvent]
        /\ lease' = [lease EXCEPT ![w] = 0]
        /\ lock' = [lock EXCEPT ![ev[w].queue] = 0]
        /\ UNCHANGED now
    BY <1>3 DEF Unlock, Leave
  <2> QED BY <1>0, <2>1
<1>4. ASSUME NEW w \in Workers, Crash(w) PROVE LockInv'
  <2>1. /\ pc' = [pc EXCEPT ![w] = "idle"]
        /\ ev' = [ev EXCEPT ![w] = NoEvent]
        /\ lease' = [lease EXCEPT ![w] = 0]
        /\ UNCHANGED <<lock, now>>
    BY <1>4 DEF Crash, Leave
  <2> QED BY <1>0, <2>1
<1>5. ASSUME NEW w \in Workers,
             Read(w) \/ ClearEvent(w) \/ Begin(w) \/ Throttle(w) \/ Attempt(w) \/ Save(w) \/ Remove(w)
      PROVE  LockInv'
  <2>1. /\ Busy(w)
        /\ \A v \in Workers : v # w => pc'[v] = pc[v]
        /\ UNCHANGED <<lock, now, ev, lease>>
    BY <1>0, <1>5 DEF Read, ClearEvent, Begin, Throttle, Attempt, Save, Remove, Consumed
  <2> QED BY <1>0, <2>1
<1>6. CASE Tick
  BY <1>0, <1>6 DEF Tick, worker
<1>7. CASE Enqueue \/ AdminRead \/ AdminReschedule \/ AdminCancel \/ AdminDelete \/ UNCHANGED vars
  <2>1. UNCHANGED <<lock, now, pc, ev, lease>>
    BY <1>7 DEF Enqueue, AdminRead, AdminReschedule, AdminCancel, AdminDelete, vars, worker
  <2> QED BY <2>1
<1> QED
  BY <1>1, <1>2, <1>3, <1>4, <1>5, <1>6, <1>7 DEF Next, WorkerStep

(* The lock of try_lock_event does its job for any number of nodes, workers *)
(* and queues, whatever crashes and whatever the store refuses: as long as  *)
(* no attempt takes longer than LOCK_EXPIRY.                                *)
THEOREM QueueLockHolds ==
  ASSUME "overrun" \notin Faults
  PROVE  Spec => []OneWorkerPerQueue
<1>1. Init => LockInv
  BY DEF Init, LockInv, HoldsLease, OneWorkerPerQueue, Busy
<1>2. TypeOK /\ LockInv /\ [Next]_vars => LockInv'
  BY LockPreserved
<1>3. LockInv => OneWorkerPerQueue
  BY DEF LockInv
<1> QED BY <1>1, <1>2, <1>3, TypeCorrect, PTL DEF Spec

=============================================================================
