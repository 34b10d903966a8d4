-------------------------- MODULE QueueEventProofs --------------------------
(* The events of a message always match its pending recipients: proved for  *)
(* any recipients, queues, schedules and workers, with crashes and failed   *)
(* writes, when no attempt outlives its lock, no read fails, recipients     *)
(* stay in their queue and the management API is not used.  In that setting *)
(* a message in the store is never left without an event (NeverStranded);   *)
(* and, with any faults, a message of senders that want to hear of delays   *)
(* is put back for a later time than now (RequeuesForLater).                *)
EXTENDS QueueLossProofs

(* The setting of the theorem.                                              *)
Undisturbed ==
  /\ "overrun" \notin Faults
  /\ "read" \notin Faults
  /\ MaxAdmin = 0
  /\ \A q \in Queues : RetryQueues[q] \subseteq {q}

(* Who makes up the event of queue q, and that event.                       *)
WaitingIn(m, q) == {r \in PendingIn(m) : m.rcpts[r].queue = q}
EventFor(m, q) ==
  [due |-> Min({EventTime(m.rcpts[r]) : r \in WaitingIn(m, q)}), queue |-> q]

(* Recipients stay in their queue, so a copy agrees with the store on it;   *)
(* a copy that is not multi-queue has work for its own queue only.          *)
SameQueues ==
  \A w \in Workers : HasCopy(w) =>
    /\ \A r \in Rcpts : copy[w].rcpts[r].queue = msg.rcpts[r].queue
    /\ ~multi[w] => \A r \in PendingIn(copy[w]) : copy[w].rcpts[r].queue = ev[w].queue
(* A worker that found no message may clear its event: should the message   *)
(* be back, it has nothing to do in that queue.                             *)
GoneIsGone ==
  \A w \in Workers : (pc[w] = "gone" /\ exists) => WaitingIn(msg, ev[w].queue) = {}

EventInv == QuietBefore /\ NoAdmin /\ SameQueues /\ GoneIsGone /\ EventPerQueue

-----------------------------------------------------------------------------
(* next_events, queue by queue.                                             *)
LEMMA NextEventsAre ==
  ASSUME NEW m
  PROVE  NextEvents(m) = {EventFor(m, q) : q \in PendingQueues(m)}
  BY Zenon DEF NextEvents, EventFor, WaitingIn

(* A queue has an event if and only if somebody waits in it.                *)
LEMMA WaitingQueues ==
  ASSUME NEW m, NEW q
  PROVE  q \in PendingQueues(m) <=> WaitingIn(m, q) # {}
  BY DEF PendingQueues, WaitingIn

(* Versions that agree on who waits in a queue have the same event for it.  *)
LEMMA SameWaiting ==
  ASSUME NEW m, NEW n, NEW q, WaitingIn(m, q) = WaitingIn(n, q),
         \A r \in WaitingIn(m, q) : m.rcpts[r] = n.rcpts[r]
  PROVE  EventFor(m, q) = EventFor(n, q)
<1>1. {EventTime(m.rcpts[r]) : r \in WaitingIn(m, q)} = {EventTime(n.rcpts[r]) : r \in WaitingIn(n, q)}
  OBVIOUS
<1> QED BY <1>1, Zenon DEF EventFor

(* A message has the events of any other with the same recipients.          *)
LEMMA SameRcpts ==
  ASSUME NEW m, NEW n, m.rcpts = n.rcpts
  PROVE  NextEvents(m) = NextEvents(n) /\ PendingIn(m) = PendingIn(n)
<1>1. PendingIn(m) = PendingIn(n)
  BY DEF PendingIn
<1>2. \A q : WaitingIn(m, q) = WaitingIn(n, q)
  BY <1>1 DEF WaitingIn
<1>3. \A q : EventFor(m, q) = EventFor(n, q)
  BY <1>2, SameWaiting
<1>4. PendingQueues(m) = PendingQueues(n)
  BY <1>1 DEF PendingQueues
<1> QED BY <1>1, <1>3, <1>4, NextEventsAre

(* Marking recipients as expired and notifying moves nobody.                *)
LEMMA MarkExpiredRcpt ==
  ASSUME NEW m \in Message, NEW r \in Rcpts
  PROVE  /\ MarkExpired(m).rcpts[r].queue = m.rcpts[r].queue
         /\ Pending(MarkExpired(m).rcpts[r]) => Pending(m.rcpts[r])
<1> DEFINE x == m.rcpts[r]
<1>1. x \in Recipient
  BY DEF Message
<1>2. MarkExpired(m).rcpts[r] = IF Pending(x) /\ IsExpired(x) THEN [x EXCEPT !.status = "perm"] ELSE x
  BY DEF MarkExpired, Message
<1>3. [x EXCEPT !.status = "perm"].queue = x.queue
  BY <1>1 DEF Recipient
<1> HIDE DEF x
<1>4. /\ MarkExpired(m).rcpts[r].queue = x.queue
      /\ Pending(MarkExpired(m).rcpts[r]) => Pending(x)
  BY <1>2, <1>3
<1> QED BY <1>4 DEF x

-----------------------------------------------------------------------------
(* What a step leaves alone.                                                *)
LEMMA EventFrame ==
  ASSUME EventInv
  PROVE  /\ UNCHANGED <<exists, msg>> /\ events \subseteq events' => EventPerQueue'
         /\ UNCHANGED admin => NoAdmin'
<1>1. ASSUME UNCHANGED <<exists, msg>>, events \subseteq events' PROVE EventPerQueue'
  <2>1. ASSUME exists PROVE NextEvents(msg) \subseteq events
    BY <2>1 DEF EventInv, EventPerQueue
  <2>2. NextEvents(msg)' = NextEvents(msg)
    BY <1>1
  <2> QED BY <1>1, <2>1, <2>2 DEF EventPerQueue
<1> QED BY <1>1 DEF EventInv, NoAdmin

(* A worker that has left "idle" works on a queued message.                 *)
LEMMA ActiveQueued ==
  ASSUME EventInv, NEW w \in Workers, pc[w] # "idle"
  PROVE  queued
  BY DEF EventInv, QuietBefore

(* Nobody's copy moves when the store's recipients stay in their queues.    *)
LEMMA CopyQueueFrame ==
  ASSUME EventInv, NEW w \in Workers,
         \A r \in Rcpts : msg'.rcpts[r].queue = msg.rcpts[r].queue,
         \A v \in Workers : v # w => /\ pc'[v] = pc[v] /\ copy'[v] = copy[v]
                                    /\ multi'[v] = multi[v] /\ ev'[v] = ev[v],
         pc'[w] \in {"read", "deliver", "save", "remove"} =>
            /\ \A r \in Rcpts : copy'[w].rcpts[r].queue = msg.rcpts[r].queue
            /\ ~multi'[w] => \A r \in PendingIn(copy'[w]) : copy'[w].rcpts[r].queue = ev'[w].queue
  PROVE  SameQueues'
<1> SUFFICES ASSUME NEW v \in Workers, HasCopy(v)'
             PROVE  /\ \A r \in Rcpts : copy'[v].rcpts[r].queue = msg'.rcpts[r].queue
                    /\ ~multi'[v] => \A r \in PendingIn(copy'[v]) : copy'[v].rcpts[r].queue = ev'[v].queue
  BY DEF SameQueues
<1>1. CASE v = w
  BY <1>1 DEF HasCopy
<1>2. CASE v # w
  <2>1. HasCopy(v)
    BY <1>2 DEF HasCopy
  <2>2. /\ \A r \in Rcpts : copy[v].rcpts[r].queue = msg.rcpts[r].queue
        /\ ~multi[v] => \A r \in PendingIn(copy[v]) : copy[v].rcpts[r].queue = ev[v].queue
    BY <2>1 DEF EventInv, SameQueues
  <2> QED BY <1>2, <2>2
<1> QED BY <1>1, <1>2

(* A worker's step away from the store.                                     *)
LEMMA LocalStep ==
  ASSUME EventInv, queued, NEW w \in Workers, UNCHANGED <<queued, exists, msg, events, admin>>,
         \A v \in Workers : v # w => /\ pc'[v] = pc[v] /\ copy'[v] = copy[v]
                                    /\ multi'[v] = multi[v] /\ ev'[v] = ev[v],
         pc'[w] \in {"read", "deliver", "save", "remove"} =>
            /\ \A r \in Rcpts : copy'[w].rcpts[r].queue = msg.rcpts[r].queue
            /\ ~multi'[w] => \A r \in PendingIn(copy'[w]) : copy'[w].rcpts[r].queue = ev'[w].queue,
         pc'[w] = "gone" => ~exists
  PROVE  EventInv'
<1>1. SameQueues'
  BY CopyQueueFrame
<1>2. GoneIsGone'
  BY DEF EventInv, GoneIsGone, WaitingIn, PendingIn
<1>3. QuietBefore'
  BY DEF QuietBefore
<1> QED BY <1>1, <1>2, <1>3, EventFrame DEF EventInv

(* Steps that end or begin without a copy.                                  *)
LEMMA NoCopyEvents ==
  ASSUME TypeOK, EventInv, NEW w \in Workers, Pick(w) \/ TryLock(w) \/ Unlock(w) \/ Crash(w)
  PROVE  EventInv'
<1>1. pc'[w] \notin {"read", "deliver", "save", "remove", "gone"}
  BY DEF Pick, TryLock, Unlock, Crash, Leave, TypeOK
<1>2. \A v \in Workers : v # w => /\ pc'[v] = pc[v] /\ copy'[v] = copy[v]
                                  /\ multi'[v] = multi[v] /\ ev'[v] = ev[v]
  BY DEF Pick, TryLock, Unlock, Crash, Leave, TypeOK
<1>3. UNCHANGED <<queued, exists, msg, events, admin>>
  BY Zenon DEF Pick, TryLock, Unlock, Crash, store
<1>4. queued
  <2>1. CASE pc[w] # "idle"
    BY <2>1, ActiveQueued
  <2>2. CASE pc[w] = "idle"
    <3>1. events # {}
      BY <2>2 DEF Pick, TryLock, Unlock, Crash
    <3> QED BY <3>1 DEF EventInv, QuietBefore
  <2> QED BY <2>1, <2>2
<1> QED BY <1>1, <1>2, <1>3, <1>4, LocalStep

(* A read: what is not multi-queue waits in the reader's queue only.        *)
LEMMA ReadEvents ==
  ASSUME "read" \notin Faults, TypeOK, EventInv, NEW w \in Workers, Read(w)
  PROVE  EventInv'
<1>1. \A v \in Workers : v # w => /\ pc'[v] = pc[v] /\ copy'[v] = copy[v]
                                  /\ multi'[v] = multi[v] /\ ev'[v] = ev[v]
  BY DEF Read, TypeOK
<1>2. UNCHANGED <<queued, exists, msg, events, admin, ev>>
  BY Zenon DEF Read, store
<1>3. queued
  BY ActiveQueued DEF Read
<1>4. \/ /\ pc'[w] = "read"
         /\ copy'[w] = msg
         /\ multi'[w] = IsMultiQueue(msg, ev[w].queue)
      \/ pc'[w] = "gone" /\ ~exists
  BY DEF Read, TypeOK
<1>5. ~IsMultiQueue(msg, ev[w].queue) => \A r \in PendingIn(msg) : msg.rcpts[r].queue = ev[w].queue
  BY DEF IsMultiQueue
<1>6. CASE pc'[w] = "gone" /\ ~exists
  BY <1>1, <1>2, <1>3, <1>6, LocalStep
<1>7. CASE pc'[w] = "read" /\ copy'[w] = msg /\ multi'[w] = IsMultiQueue(msg, ev[w].queue)
  BY <1>1, <1>2, <1>3, <1>5, <1>7, LocalStep
<1> QED BY <1>4, <1>6, <1>7

(* Clearing the event of a message that is gone takes nobody's event away.  *)
LEMMA ClearEvents ==
  ASSUME TypeOK, EventInv, NEW w \in Workers, ClearEvent(w)
  PROVE  EventInv'
<1>1. /\ pc[w] = "gone" /\ events \ {ev[w]} \subseteq events' /\ pc' = [pc EXCEPT ![w] = "unlock"]
      /\ UNCHANGED <<queued, exists, msg, admin, ev, copy, multi>>
  BY DEF ClearEvent, WriteFails, store
<1>2. queued
  BY <1>1, ActiveQueued
<1>3. SameQueues'
  BY <1>1, CopyQueueFrame DEF TypeOK
<1>4. GoneIsGone'
  BY <1>1 DEF EventInv, GoneIsGone, WaitingIn, PendingIn, TypeOK
<1>5. QuietBefore' /\ NoAdmin'
  BY <1>1, <1>2 DEF EventInv, QuietBefore, NoAdmin
<1>6. ASSUME exists, NEW e \in NextEvents(msg) PROVE e \in events /\ e # ev[w]
  <2>1. e \in events
    BY <1>6 DEF EventInv, EventPerQueue
  <2>2. PICK q \in PendingQueues(msg) : e = EventFor(msg, q)
    BY <1>6, NextEventsAre
  <2>3. WaitingIn(msg, ev[w].queue) = {}
    BY <1>1, <1>6 DEF EventInv, GoneIsGone
  <2>4. q # ev[w].queue
    BY <2>2, <2>3, WaitingQueues
  <2>5. e.queue = q
    BY <2>2 DEF EventFor
  <2> QED BY <2>1, <2>4, <2>5
<1>7. EventPerQueue'
  BY <1>1, <1>6 DEF EventPerQueue
<1> QED BY <1>3, <1>4, <1>5, <1>7 DEF EventInv

(* Working on a copy moves nobody to another queue.                         *)
LEMMA CopyEvents ==
  ASSUME Undisturbed, TypeOK, EventInv, NEW w \in Workers, Begin(w) \/ Throttle(w) \/ Attempt(w)
  PROVE  EventInv'
<1>1. /\ UNCHANGED <<queued, exists, msg, events, admin, ev, multi>>
      /\ HasCopy(w) /\ pc[w] # "idle"
  BY DEF Begin, Throttle, Attempt, store, HasCopy
<1>2. queued
  BY <1>1, ActiveQueued
<1>3. /\ copy[w] \in Message
      /\ ev[w].queue \in Queues
      /\ \A r \in Rcpts : copy[w].rcpts[r].queue = msg.rcpts[r].queue
      /\ ~multi[w] => \A r \in PendingIn(copy[w]) : copy[w].rcpts[r].queue = ev[w].queue
  BY <1>1 DEF EventInv, SameQueues, TypeOK, Event
<1>4. \A v \in Workers : v # w => /\ pc'[v] = pc[v] /\ copy'[v] = copy[v]
                                  /\ multi'[v] = multi[v] /\ ev'[v] = ev[v]
  BY <1>1 DEF Begin, Throttle, Attempt, TypeOK
<1>5. pc'[w] # "gone"
  BY DEF Begin, Throttle, Attempt, AfterAttempt, TypeOK
<1>6. \A r \in Rcpts : /\ copy'[w].rcpts[r].queue = copy[w].rcpts[r].queue
                       /\ Pending(copy'[w].rcpts[r]) => Pending(copy[w].rcpts[r])
  <2>1. CASE Begin(w)
    <3>1. copy'[w] = BuildDsn(MarkExpired(copy[w]))
      BY <2>1 DEF Begin, TypeOK
    <3>2. MarkExpired(copy[w]) \in Message
      BY <1>3, MarkExpiredType
    <3>3. \A r \in Rcpts : /\ copy'[w].rcpts[r].queue = MarkExpired(copy[w]).rcpts[r].queue
                           /\ copy'[w].rcpts[r].status = MarkExpired(copy[w]).rcpts[r].status
      BY <3>1, <3>2, BuildDsnRcpt
    <3>4. \A r \in Rcpts : Pending(copy'[w].rcpts[r]) <=> Pending(MarkExpired(copy[w]).rcpts[r])
      BY <3>3 DEF Pending
    <3> QED BY <1>3, <3>3, <3>4, MarkExpiredRcpt
  <2>2. CASE Throttle(w)
    <3>1. \A r \in Rcpts : copy'[w].rcpts[r] = IF r \in DueIn(copy[w], ev[w].queue)
                                                 THEN RateLimited(copy[w].rcpts[r])
                                                 ELSE copy[w].rcpts[r]
      BY <1>3, <2>2 DEF Throttle, TypeOK, Message
    <3>2. \A r \in Rcpts : RateLimited(copy[w].rcpts[r]).queue = copy[w].rcpts[r].queue
      BY <1>3 DEF RateLimited, Message, Recipient
    <3>3. \A r \in DueIn(copy[w], ev[w].queue) : Pending(copy[w].rcpts[r])
      BY DEF DueIn, PendingIn
    <3> QED BY <3>1, <3>2, <3>3
  <2>3. CASE Attempt(w)
    <3> DEFINE D == DueIn(copy[w], ev[w].queue)
    <3>1. PICK m \in Message :
            /\ copy' = [copy EXCEPT ![w] = BuildDsn(m)]
            /\ \A r \in Rcpts \ D : m.rcpts[r] = copy[w].rcpts[r]
            /\ \A r \in Rcpts \cap D :
                 m.rcpts[r].queue \in {copy[w].rcpts[r].queue} \cup RetryQueues[ev[w].queue]
      BY <2>3, AttemptApplied
    <3>2. \A r \in D : Pending(copy[w].rcpts[r]) /\ copy[w].rcpts[r].queue = ev[w].queue
      BY DEF DueIn, PendingIn
    <3>3. RetryQueues[ev[w].queue] \subseteq {ev[w].queue}
      BY <1>3 DEF Undisturbed
    <3>4. copy'[w] = BuildDsn(m)
      BY <3>1 DEF TypeOK
    <3> HIDE DEF D
    <3>5. \A r \in Rcpts : /\ copy'[w].rcpts[r].queue = m.rcpts[r].queue
                           /\ copy'[w].rcpts[r].status = m.rcpts[r].status
      BY <3>4, BuildDsnRcpt
    <3>6. \A r \in Rcpts : Pending(copy'[w].rcpts[r]) <=> Pending(m.rcpts[r])
      BY <3>5 DEF Pending
    <3> QED BY <3>1, <3>2, <3>3, <3>5, <3>6
  <2> QED BY <2>1, <2>2, <2>3
<1>7. PendingIn(copy'[w]) \subseteq PendingIn(copy[w])
  BY <1>6 DEF PendingIn
<1>8. /\ \A r \in Rcpts : copy'[w].rcpts[r].queue = msg.rcpts[r].queue
      /\ ~multi'[w] => \A r \in PendingIn(copy'[w]) : copy'[w].rcpts[r].queue = ev'[w].queue
  BY <1>1, <1>3, <1>6, <1>7 DEF PendingIn
<1> QED BY <1>1, <1>2, <1>4, <1>5, <1>8, LocalStep

(* Saving writes the events of the saver's queue and, when the rest of the  *)
(* message is not its own, leaves the others' alone.                        *)
LEMMA SaveEvents ==
  ASSUME Undisturbed, TypeOK, LockInv, EventInv, NEW w \in Workers, Save(w) \/ Remove(w)
  PROVE  EventInv'
<1> DEFINE q == ev[w].queue
           c == copy[w]
<1>1. /\ UNCHANGED <<queued, admin, ev>>
      /\ HasCopy(w) /\ pc[w] # "idle" /\ Busy(w)
  BY DEF Save, Remove, HasCopy, Busy
<1>2. queued /\ c \in Message /\ msg \in Message
  BY <1>1, ActiveQueued DEF TypeOK
<1>3. /\ \A r \in Rcpts : c.rcpts[r].queue = msg.rcpts[r].queue
      /\ ~multi[w] => \A r \in PendingIn(c) : c.rcpts[r].queue = q
  BY <1>1 DEF EventInv, SameQueues
<1>4. /\ \A v \in Workers : v # w => /\ pc'[v] = pc[v] /\ copy'[v] = copy[v]
                                     /\ multi'[v] = multi[v] /\ ev'[v] = ev[v]
      /\ pc'[w] = "unlock"
  BY <1>1 DEF Save, Remove, Consumed, TypeOK
<1>5. \A v \in Workers : pc'[v] = "gone" => pc[v] = "gone" /\ v # w /\ ev[v].queue # q
  BY <1>1, <1>4 DEF LockInv, OneWorkerPerQueue, Busy
<1>6. QuietBefore' /\ NoAdmin'
  BY <1>1, <1>2 DEF EventInv, QuietBefore, NoAdmin
<1>7. CASE UNCHANGED <<exists, msg, events>>
  BY <1>1, <1>2, <1>4, <1>7, LocalStep
<1>8. CASE RemoveBatch(c, {ev[w]})
  <2>1. exists' = FALSE /\ msg' = msg
    BY <1>8 DEF RemoveBatch
  <2>2. SameQueues'
    BY <1>4, <2>1, CopyQueueFrame
  <2> QED BY <1>6, <2>1, <2>2 DEF EventInv, GoneIsGone, EventPerQueue
<1>9. CASE SaveBatch(c, q, multi[w], {ev[w]}) /\ ~multi[w]
  <2>1. /\ events' = (events \ {ev[w]}) \cup NextEvents(c)
        /\ msg' = [c EXCEPT !.quota = @ \ Releasable(c)]
    BY <1>9, Zenon DEF SaveBatch
  <2> HIDE DEF c
  <2>2. msg'.rcpts = c.rcpts
    BY <1>2, <2>1 DEF Message
  <2>3. NextEvents(msg') = NextEvents(c) /\ PendingIn(msg') = PendingIn(c)
    BY <2>2, SameRcpts
  <2>4. EventPerQueue'
    BY <2>1, <2>3 DEF EventPerQueue
  <2>5. SameQueues'
    BY <1>3, <1>4, <2>2, CopyQueueFrame
  <2>6. \A r \in PendingIn(msg') : msg'.rcpts[r].queue = q
    BY <1>3, <1>9, <2>2, <2>3
  <2>7. GoneIsGone'
    BY <1>1, <1>5, <2>6 DEF GoneIsGone, WaitingIn
  <2> QED BY <1>6, <2>4, <2>5, <2>7 DEF EventInv
<1>10. CASE SaveBatch(c, q, multi[w], {ev[w]}) /\ multi[w] /\ exists
  <2>1. /\ events' = (events \ {ev[w]}) \cup NextEvents(c)
        /\ msg' = MergeRcpts(c, q)
        /\ exists' = TRUE
    BY <1>10, Zenon DEF SaveBatch
  <2> HIDE DEF c
  <2>2. \A r \in Rcpts : msg'.rcpts[r] = IF c.rcpts[r].queue = q THEN c.rcpts[r] ELSE msg.rcpts[r]
    BY <1>2, <2>1 DEF MergeRcpts, Message
  <2>3. \A r \in Rcpts : msg'.rcpts[r].queue = msg.rcpts[r].queue
    BY <1>3, <2>2
  <2>4. SameQueues'
    BY <1>4, <2>3, CopyQueueFrame
  <2>5. /\ WaitingIn(msg', q) = WaitingIn(c, q)
        /\ \A r \in WaitingIn(msg', q) : msg'.rcpts[r] = c.rcpts[r]
    BY <1>3, <2>2 DEF WaitingIn, PendingIn
  <2>6. ASSUME NEW p, p # q
        PROVE  /\ WaitingIn(msg', p) = WaitingIn(msg, p)
               /\ \A r \in WaitingIn(msg', p) : msg'.rcpts[r] = msg.rcpts[r]
    BY <1>3, <2>2, <2>6 DEF WaitingIn, PendingIn
  <2>7. GoneIsGone'
    <3>1. ASSUME NEW v \in Workers, pc'[v] = "gone" PROVE WaitingIn(msg', ev'[v].queue) = {}
      <4>1. pc[v] = "gone" /\ ev[v].queue # q /\ ev'[v] = ev[v]
        BY <1>1, <1>5, <3>1
      <4>2. WaitingIn(msg, ev[v].queue) = {}
        BY <1>10, <4>1 DEF EventInv, GoneIsGone
      <4> QED BY <2>6, <4>1, <4>2
    <3> QED BY <3>1 DEF GoneIsGone
  <2>8. ASSUME NEW e \in NextEvents(msg') PROVE e \in events'
    <3>1. PICK p \in PendingQueues(msg') : e = EventFor(msg', p)
      BY <2>8, NextEventsAre
    <3>2. WaitingIn(msg', p) # {}
      BY <3>1, WaitingQueues
    <3>3. CASE p = q
      <4>1. e = EventFor(c, q) /\ q \in PendingQueues(c)
        BY <2>5, <3>1, <3>2, <3>3, SameWaiting, WaitingQueues
      <4> QED BY <2>1, <4>1, NextEventsAre
    <3>4. CASE p # q
      <4>1. e = EventFor(msg, p) /\ p \in PendingQueues(msg)
        BY <2>6, <3>1, <3>2, <3>4, SameWaiting, WaitingQueues
      <4>2. e \in events
        BY <1>10, <4>1, NextEventsAre DEF EventInv, EventPerQueue
      <4>3. e.queue = p
        BY <3>1 DEF EventFor
      <4> QED BY <2>1, <3>4, <4>2, <4>3
    <3> QED BY <3>3, <3>4
  <2>9. EventPerQueue'
    BY <2>8 DEF EventPerQueue
  <2> QED BY <1>6, <2>4, <2>7, <2>9 DEF EventInv
<1>11. CASE Save(w) /\ ~UNCHANGED <<exists, msg, events>>
  <2>1. ~UNCHANGED store
    BY <1>11 DEF store
  <2>2. SaveBatch(c, q, multi[w], {ev[w]})
    BY <1>11, <2>1, Zenon DEF Save, WriteFails
  <2>3. ~(multi[w] /\ ~exists)
    BY <2>1, <2>2, Zenon DEF SaveBatch
  <2> QED BY <1>9, <1>10, <2>2, <2>3
<1>12. CASE Remove(w) /\ ~UNCHANGED <<exists, msg, events>>
  <2>1. ~UNCHANGED store
    BY <1>12 DEF store
  <2>2. RemoveBatch(c, {ev[w]})
    BY <1>12, <2>1, Zenon DEF Remove, WriteFails
  <2> QED BY <1>8, <2>2
<1> QED BY <1>7, <1>11, <1>12

(* Every step keeps the events of the message complete.                     *)
LEMMA EventPreserved ==
  ASSUME Undisturbed, TypeOK, LockInv, EventInv, [Next]_vars
  PROVE  EventInv'
<1>1. CASE Enqueue
  <2>1. /\ ~queued /\ queued' = TRUE /\ exists' = TRUE
        /\ events' = events \cup NextEvents(msg')
        /\ UNCHANGED <<pc, admin>>
    BY <1>1 DEF Enqueue, worker
  <2>2. \A w \in Workers : pc'[w] = "idle"
    BY <2>1 DEF EventInv, QuietBefore
  <2> QED BY <2>1, <2>2
      DEF EventInv, QuietBefore, NoAdmin, SameQueues, GoneIsGone, EventPerQueue, HasCopy
<1>2. CASE Tick \/ UNCHANGED vars
  <2>1. UNCHANGED <<queued, exists, msg, events, admin, pc, ev, copy, multi>>
    BY <1>2 DEF Tick, vars, store, worker
  <2>2. SameQueues' /\ GoneIsGone' /\ QuietBefore'
    BY <2>1 DEF EventInv, SameQueues, HasCopy, GoneIsGone, QuietBefore, WaitingIn, PendingIn
  <2> QED BY <2>1, <2>2, EventFrame DEF EventInv
<1>3. ~(AdminRead \/ AdminReschedule \/ AdminCancel \/ AdminDelete)
  BY DEF AdminRead, AdminReschedule, AdminCancel, AdminDelete, EventInv, NoAdmin, Undisturbed, TypeOK
<1>4. ASSUME NEW w \in Workers, WorkerStep(w) \/ Crash(w) PROVE EventInv'
  BY <1>4, NoCopyEvents, ReadEvents, ClearEvents, CopyEvents, SaveEvents DEF WorkerStep, Undisturbed
<1> QED BY <1>1, <1>2, <1>3, <1>4 DEF Next

(* Every queue with pending recipients has the event that next_events       *)
(* computes for them, however many workers save the message, each with its  *)
(* own stale idea of the other queues, crash, or fail to write.             *)
THEOREM EventsComplete ==
  ASSUME Undisturbed
  PROVE  Spec => []EventPerQueue
<1>1. Init => LockInv /\ EventInv
  <2> SUFFICES ASSUME Init PROVE LockInv /\ EventInv
    OBVIOUS
  <2>1. LockInv
    BY DEF Init, LockInv, HoldsLease, OneWorkerPerQueue, Busy
  <2> QED BY <2>1 DEF Init, EventInv, QuietBefore, NoAdmin, SameQueues, GoneIsGone, EventPerQueue,
                      HasCopy, NoRequest
<1>2. TypeOK /\ LockInv /\ EventInv /\ [Next]_vars => LockInv' /\ EventInv'
  BY LockPreserved, EventPreserved DEF Undisturbed
<1>3. EventInv => EventPerQueue
  BY DEF EventInv
<1> QED BY <1>1, <1>2, <1>3, TypeCorrect, PTL DEF Spec

-----------------------------------------------------------------------------
(* No message is left without an event *)

(* A worker that will save has somebody pending to save it for.             *)
WorkInv == \A w \in Workers : pc[w] \in {"save", "deliver"} => PendingIn(copy[w]) # {}

(* Should the message be back while some worker still believes it gone,     *)
(* then it lives on in one queue, which has an event, has none of those     *)
(* workers, and whose own worker will replace the whole message.            *)
Survives(q) ==
  /\ \A w \in Workers : pc[w] = "gone" => ev[w].queue # q
  /\ \E e \in events : e.queue = q
  /\ PendingQueues(msg) \subseteq {q}
  /\ \A w \in Workers : HasCopy(w) /\ ev[w].queue = q => ~multi[w]
Remnant == exists /\ (\E w \in Workers : pc[w] = "gone") => \E q \in Queues : Survives(q)

StrandInv == WorkInv /\ Remnant /\ NoStranded

(* A worker works on its copy.                                              *)
LEMMA WorkWork ==
  ASSUME TypeOK, WorkInv, NEW w \in Workers, Begin(w) \/ Throttle(w) \/ Attempt(w)
  PROVE  WorkInv'
<1>1. /\ \A v \in Workers : v # w => pc'[v] = pc[v] /\ copy'[v] = copy[v]
      /\ pc'[w] \in {"deliver", "save"} => (pc[w] = "deliver" /\ Throttle(w)) \/ PendingIn(copy'[w]) # {}
  BY WorkFrame
<1>2. ASSUME Throttle(w) PROVE PendingIn(copy[w]) \subseteq PendingIn(copy'[w])
  <2>1. copy[w] \in Message
    BY DEF TypeOK
  <2>2. \A r \in Rcpts : copy'[w].rcpts[r] = IF r \in DueIn(copy[w], ev[w].queue)
                                               THEN RateLimited(copy[w].rcpts[r])
                                               ELSE copy[w].rcpts[r]
    BY <1>2, <2>1 DEF Throttle, TypeOK, Message
  <2>3. \A r \in Rcpts : Pending(RateLimited(copy[w].rcpts[r]))
    BY <2>1 DEF RateLimited, Pending, Message, Recipient
  <2> QED BY <2>2, <2>3 DEF PendingIn
<1> QED BY <1>1, <1>2 DEF WorkInv, PendingIn

(* A worker saves: the next events are not empty.                           *)
LEMMA SaveStrands ==
  ASSUME Undisturbed, TypeOK, LockInv, ClaimInv, EventInv, StrandInv, NEW w \in Workers,
         Save(w) \/ Remove(w)
  PROVE  StrandInv'
<1> DEFINE p == ev[w].queue
           c == copy[w]
<1>1. /\ HasCopy(w) /\ ~HasCopy(w)' /\ pc'[w] = "unlock"
      /\ \A v \in Workers : v # w => /\ pc'[v] = pc[v] /\ copy'[v] = copy[v]
                                     /\ multi'[v] = multi[v]
      /\ UNCHANGED ev
  BY WriteFrame
<1>2. WorkInv'
  BY <1>1 DEF StrandInv, WorkInv, PendingIn
<1>3. c \in Message /\ msg \in Message /\ p \in Queues /\ Busy(w)
  BY <1>1 DEF TypeOK, Event, HasCopy, Busy
<1>4. \A v \in Workers : pc'[v] = "gone" => pc[v] = "gone" /\ v # w /\ ev[v].queue # p
  BY <1>1, <1>3 DEF LockInv, OneWorkerPerQueue, Busy
<1>5. \A v \in Workers : HasCopy(v)' => HasCopy(v) /\ v # w /\ ev[v].queue # p
  BY <1>1, <1>3 DEF LockInv, OneWorkerPerQueue, Busy, HasCopy
<1>6. CASE UNCHANGED store
  <2>1. Remnant'
    <3> SUFFICES ASSUME exists', NEW v \in Workers, pc'[v] = "gone" PROVE \E q \in Queues : Survives(q)'
      BY DEF Remnant
    <3>1. PICK q \in Queues : Survives(q)
      BY <1>4, <1>6 DEF store, StrandInv, Remnant
    <3>2. \A x \in Workers : HasCopy(x)' /\ ev'[x].queue = q => ~multi'[x]
      BY <1>1, <1>5, <3>1 DEF Survives
    <3>3. Survives(q)'
      BY <1>1, <1>4, <1>6, <3>1, <3>2 DEF Survives, store, PendingQueues, PendingIn
    <3> QED BY <3>3
  <2> QED BY <1>2, <1>6, <2>1 DEF StrandInv, NoStranded, store
<1>7. CASE exists' = FALSE
  BY <1>2, <1>7 DEF StrandInv, Remnant, NoStranded
<1>8. CASE SaveBatch(c, p, multi[w], {ev[w]}) /\ Save(w) /\ ~(multi[w] /\ ~exists)
  <2>1. events' = (events \ {ev[w]}) \cup NextEvents(c)
    BY <1>8, Zenon DEF SaveBatch
  <2>2. PendingIn(c) # {}
    BY <1>8 DEF StrandInv, WorkInv, Save
  <2>3. NextEvents(c) # {}
    BY <1>3, <2>2, NextEventsNonEmpty
  <2>4. NoStranded'
    BY <2>1, <2>3 DEF NoStranded
  <2>5. CASE ~multi[w]
    <3>1. \A r \in PendingIn(c) : c.rcpts[r].queue = p
      BY <1>1, <2>5 DEF EventInv, SameQueues
    <3>2. PICK e \in NextEvents(c) : TRUE
      BY <2>3
    <3>3. e.queue = p
      <4>1. PICK q \in PendingQueues(c) : e = EventFor(c, q)
        BY <3>2, NextEventsAre
      <4>2. e.queue = q
        BY <4>1 DEF EventFor
      <4> QED BY <3>1, <4>1, <4>2 DEF PendingQueues
    <3>4. msg'.rcpts = c.rcpts
      <4>1. msg' = [c EXCEPT !.quota = @ \ Releasable(c)]
        BY <1>8, <2>5, Zenon DEF SaveBatch
      <4> QED BY <1>3, <4>1 DEF Message
    <3>5. PendingQueues(msg') \subseteq {p}
      BY <3>1, <3>4 DEF PendingQueues, PendingIn
    <3>6. PICK q \in Queues : q = p
      BY <1>3
    <3>7. Survives(q)'
      BY <1>1, <1>4, <1>5, <2>1, <3>2, <3>3, <3>5, <3>6 DEF Survives
    <3>8. Remnant'
      BY <3>7 DEF Remnant
    <3> QED BY <1>2, <2>4, <3>8 DEF StrandInv
  <2>6. CASE multi[w]
    <3>1. exists /\ msg' = MergeRcpts(c, p)
      BY <1>8, <2>6, Zenon DEF SaveBatch
    <3>2. Remnant'
      <4> SUFFICES ASSUME NEW v \in Workers, pc'[v] = "gone" PROVE \E q \in Queues : Survives(q)'
        BY DEF Remnant
      <4>1. PICK q \in Queues : Survives(q)
        BY <1>4, <3>1 DEF StrandInv, Remnant
      <4>2. p # q
        BY <1>1, <2>6, <4>1 DEF Survives
      <4>3. ASSUME NEW r \in PendingIn(msg') PROVE msg'.rcpts[r].queue = q
        <5>1. r \in Rcpts /\ Pending(msg'.rcpts[r])
          BY DEF PendingIn
        <5>2. CASE Agree(msg'.rcpts[r], msg.rcpts[r])
          <6>1. r \in PendingIn(msg)
            BY <5>1, <5>2 DEF PendingIn, Pending, Agree
          <6> QED BY <4>1, <5>2, <6>1 DEF Survives, PendingQueues, Agree
        <5>3. CASE Claims(w, r) /\ ~Final(msg.rcpts[r])
          <6>1. msg.rcpts[r].queue = p
            BY <1>1, <5>1, <5>3 DEF ClaimInv, Charged, ClaimOK
          <6>2. r \in PendingIn(msg)
            BY <1>3, <5>1, <5>3, PendingOrFinal DEF PendingIn
          <6>3. msg.rcpts[r].queue = q
            BY <4>1, <6>2 DEF Survives, PendingQueues
          <6> QED BY <4>2, <6>1, <6>3
        <5> QED BY <5>1, <5>2, <5>3, WriteKeepsFinal DEF ClaimInv
      <4>4. PendingQueues(msg') \subseteq {q}
        BY <4>3 DEF PendingQueues
      <4>5. \E e \in events' : e.queue = q
        BY <2>1, <4>1, <4>2 DEF Survives
      <4>6. \A x \in Workers : HasCopy(x)' /\ ev'[x].queue = q => ~multi'[x]
        BY <1>1, <1>5, <4>1 DEF Survives
      <4>7. \A x \in Workers : pc'[x] = "gone" => ev'[x].queue # q
        BY <1>1, <1>4, <4>1 DEF Survives
      <4>8. Survives(q)'
        BY <4>4, <4>5, <4>6, <4>7 DEF Survives
      <4> QED BY <4>8
    <3> QED BY <1>2, <2>4, <3>2 DEF StrandInv
  <2> QED BY <2>5, <2>6
<1>9. \/ UNCHANGED store
      \/ exists' = FALSE
      \/ SaveBatch(c, p, multi[w], {ev[w]}) /\ Save(w) /\ ~(multi[w] /\ ~exists)
  BY WriteFrame
<1> QED BY <1>6, <1>7, <1>8, <1>9

(* Every step leaves an event.                                              *)
LEMMA StrandPreserved ==
  ASSUME Undisturbed, TypeOK, LockInv, ClaimInv, EventInv, StrandInv, [Next]_vars
  PROVE  StrandInv'
<1>1. CASE Enqueue
  <2>1. ~queued /\ events' = events \cup NextEvents(msg') /\ UNCHANGED pc
    BY <1>1 DEF Enqueue, worker
  <2>2. \A w \in Workers : pc'[w] = "idle"
    BY <2>1 DEF EventInv, QuietBefore
  <2>3. msg' \in Message
    BY NextType DEF TypeOK
  <2>4. PendingIn(msg') # {}
    <3>1. PICK route \in Routes, hold \in Releases :
            msg' = [rcpts |-> [r \in Rcpts |-> NewRecipient(route[r], hold)], quota |-> QuotaKeys]
      BY <1>1, Zenon DEF Enqueue
    <3>2. PICK s \in Rcpts : TRUE
      BY RcptAssumption
    <3>3. msg'.rcpts[s] = NewRecipient(route[s], hold)
      BY <3>1
    <3>4. NewRecipient(route[s], hold).status = "scheduled"
      BY DEF NewRecipient
    <3> QED BY <3>2, <3>3, <3>4 DEF PendingIn, Pending
  <2>5. NextEvents(msg') # {}
    BY <2>3, <2>4, NextEventsNonEmpty
  <2> QED BY <2>1, <2>2, <2>5 DEF StrandInv, WorkInv, Remnant, NoStranded
<1>2. CASE Tick \/ UNCHANGED vars
  <2>1. UNCHANGED <<exists, msg, events, pc, ev, copy, multi>>
    BY <1>2 DEF Tick, vars, store, worker
  <2> QED BY <2>1 DEF StrandInv, WorkInv, Remnant, NoStranded, Survives, PendingQueues, PendingIn, HasCopy
<1>3. ~(AdminRead \/ AdminReschedule \/ AdminCancel \/ AdminDelete)
  BY DEF AdminRead, AdminReschedule, AdminCancel, AdminDelete, EventInv, NoAdmin, Undisturbed, TypeOK
<1>4. ASSUME NEW w \in Workers, WorkerStep(w) \/ Crash(w) PROVE StrandInv'
  <2>1. CASE Pick(w) \/ TryLock(w) \/ Unlock(w) \/ Crash(w) \/ ClearEvent(w)
    <3>1. /\ ~HasCopy(w)'
          /\ \A v \in Workers : v # w => /\ pc'[v] = pc[v] /\ copy'[v] = copy[v]
                                         /\ multi'[v] = multi[v] /\ ev'[v] = ev[v]
          /\ UNCHANGED <<exists, msg>>
      BY <2>1, IdleFrame
    <3>2. pc'[w] # "gone" /\ (pc[w] = "gone" \/ UNCHANGED events)
          /\ (UNCHANGED events \/ events' = events \ {ev[w]})
      BY <2>1 DEF Pick, TryLock, Unlock, Crash, ClearEvent, WriteFails, Leave, store, TypeOK
    <3>3. WorkInv'
      BY <3>1 DEF StrandInv, WorkInv, PendingIn, HasCopy
    <3>4. ASSUME NEW q \in Queues, Survives(q) PROVE Survives(q)'
      <4>1. PICK e \in events : e.queue = q
        BY <3>4 DEF Survives
      <4>2. pc[w] = "gone" => ev[w].queue # q
        BY <3>4 DEF Survives
      <4>3. e \in events'
        BY <3>2, <4>1, <4>2
      <4>4. \A x \in Workers : HasCopy(x)' /\ ev'[x].queue = q => ~multi'[x]
        BY <3>1, <3>4 DEF Survives, HasCopy
      <4>5. \A x \in Workers : pc'[x] = "gone" => ev'[x].queue # q
        BY <3>1, <3>2, <3>4 DEF Survives
      <4>6. PendingQueues(msg)' \subseteq {q}
        BY <3>1, <3>4 DEF Survives, PendingQueues, PendingIn
      <4> QED BY <4>1, <4>3, <4>4, <4>5, <4>6 DEF Survives
    <3>5. (\E v \in Workers : pc'[v] = "gone") => \E v \in Workers : pc[v] = "gone"
      BY <3>1, <3>2
    <3>6. Remnant'
      BY <3>1, <3>4, <3>5 DEF StrandInv, Remnant
    <3>7. NoStranded'
      <4>1. CASE UNCHANGED events
        BY <3>1, <4>1 DEF StrandInv, NoStranded
      <4>2. CASE pc[w] = "gone" /\ exists
        <5>1. PICK q \in Queues : Survives(q)
          BY <4>2 DEF StrandInv, Remnant
        <5> QED BY <3>4, <5>1 DEF NoStranded, Survives
      <4> QED BY <3>1, <3>2, <4>1, <4>2 DEF NoStranded
    <3> QED BY <3>3, <3>6, <3>7 DEF StrandInv
  <2>2. CASE Read(w)
    <3>1. /\ UNCHANGED <<exists, msg, events, ev>> /\ pc'[w] \in {"read", "gone"}
          /\ pc'[w] = "gone" => ~exists
          /\ pc'[w] = "read" => multi'[w] = IsMultiQueue(msg, ev[w].queue)
          /\ \A v \in Workers : v # w => /\ pc'[v] = pc[v] /\ copy'[v] = copy[v]
                                         /\ multi'[v] = multi[v]
      BY <2>2 DEF Read, TypeOK, store, Undisturbed
    <3>2. WorkInv'
      BY <3>1 DEF StrandInv, WorkInv, PendingIn
    <3>3. ASSUME NEW q \in Queues, exists, Survives(q) PROVE Survives(q)'
      <4>1. HasCopy(w)' /\ ev[w].queue = q => ~multi'[w]
        BY <3>1, <3>3 DEF HasCopy, Survives, IsMultiQueue, PendingQueues
      <4>2. \A x \in Workers : HasCopy(x)' /\ ev'[x].queue = q => ~multi'[x]
        BY <3>1, <3>3, <4>1 DEF Survives, HasCopy
      <4>3. \A x \in Workers : pc'[x] = "gone" => ev'[x].queue # q
        BY <3>1, <3>3 DEF Survives
      <4> QED BY <3>1, <3>3, <4>2, <4>3 DEF Survives, PendingQueues, PendingIn
    <3>4. Remnant'
      BY <3>1, <3>3 DEF StrandInv, Remnant
    <3> QED BY <3>1, <3>2, <3>4 DEF StrandInv, NoStranded
  <2>3. CASE Begin(w) \/ Throttle(w) \/ Attempt(w)
    <3>1. /\ UNCHANGED <<exists, msg, events, ev, multi>>
          /\ pc[w] \in {"read", "deliver"} /\ pc'[w] \in {"deliver", "save", "remove"}
          /\ \A v \in Workers : v # w => pc'[v] = pc[v]
      BY <2>3, WorkFrame
    <3>2. WorkInv'
      BY <2>3, WorkWork DEF StrandInv
    <3>3. (\A v \in Workers : HasCopy(v)' <=> HasCopy(v)) /\ \A v \in Workers : pc'[v] = "gone" <=> pc[v] = "gone"
      BY <3>1 DEF HasCopy
    <3>4. Remnant'
      BY <3>1, <3>3 DEF StrandInv, Remnant, Survives, PendingQueues, PendingIn
    <3> QED BY <3>1, <3>2, <3>4 DEF StrandInv, NoStranded
  <2>4. CASE Save(w) \/ Remove(w)
    BY <2>4, SaveStrands
  <2> QED BY <1>4, <2>1, <2>2, <2>3, <2>4 DEF WorkerStep
<1> QED BY <1>1, <1>2, <1>3, <1>4 DEF Next

(* A stored message always has an event, however many workers of however    *)
(* many queues remove it, put it back, or clear the event of a message they *)
(* found gone: no message is forgotten.                                     *)
THEOREM NeverStranded ==
  ASSUME Undisturbed
  PROVE  Spec => []NoStranded
<1>1. Init => LockInv /\ ClaimInv /\ EventInv /\ StrandInv
  <2> SUFFICES ASSUME Init PROVE EventInv /\ StrandInv
    BY InitClaims
  <2> QED BY DEF Init, EventInv, QuietBefore, NoAdmin, SameQueues, GoneIsGone, EventPerQueue,
                 HasCopy, NoRequest, StrandInv, WorkInv, Remnant, NoStranded
<1>2. TypeOK /\ LockInv /\ ClaimInv /\ EventInv /\ StrandInv /\ [Next]_vars
        => LockInv' /\ ClaimInv' /\ EventInv' /\ StrandInv'
  BY LockPreserved, ClaimStep, EventPreserved, StrandPreserved DEF Undisturbed, Locked
<1>3. StrandInv => NoStranded
  BY DEF StrandInv
<1> QED BY <1>1, <1>2, <1>3, TypeCorrect, PTL DEF Spec

-----------------------------------------------------------------------------
(* A message is not put back due at once *)

(* The clock of the model stays within its bound.                           *)
InTime == now <= MaxTime

(* What build_dsn leaves of a pending recipient that has just been checked  *)
(* for expiry: nothing but its next attempt can be due.                     *)
LEMMA NotifiedLater ==
  ASSUME TypeOK, InTime, MaxTime < Never, Rcpts \subseteq WantsDelay,
         NEW m \in Message, NEW r \in Rcpts, Pending(m.rcpts[r]), ~IsExpired(m.rcpts[r])
  PROVE  /\ BuildDsn(m).rcpts[r].notify > now
         /\ ExpirationTime(BuildDsn(m).rcpts[r]) > now
<1> DEFINE x == m.rcpts[r]
           y == BuildDsn(m).rcpts[r]
<1>1. x \in Recipient /\ ~Final(x) /\ now \in Nat /\ now < Never /\ Never \in Nat
  BY PendingOrFinal, BoundAssumption DEF Message, TypeOK, InTime, Never
<1>2. y = IF DelayDsn(m) # {} /\ x.notify <= now THEN NextNotify(x) ELSE x
  BY <1>1 DEF BuildDsn, Message
<1>3. x.notify <= now => DelayDsn(m) # {}
  BY DEF DelayDsn, PendingIn
<1>4. NextNotify(x).notify > now /\ NextNotify(x).expires = x.expires
  <2>1. CASE x.notices + 2 \in DOMAIN Notify[NoticeQueue[x.queue]]
    <3>1. Notify[NoticeQueue[x.queue]] \in Seq(Nat \ {0})
      BY <1>1, ScheduleAssumption DEF Recipient
    <3>2. Notify[NoticeQueue[x.queue]][x.notices + 2] \in Nat \ {0}
      BY <2>1, <3>1
    <3>3. NextNotify(x) = [x EXCEPT !.notify = now + Notify[NoticeQueue[x.queue]][x.notices + 2], !.notices = @ + 1]
      BY <2>1 DEF NextNotify
    <3> QED BY <1>1, <3>2, <3>3 DEF Recipient
  <2>2. CASE x.notices + 2 \notin DOMAIN Notify[NoticeQueue[x.queue]]
    <3>1. NextNotify(x) = [x EXCEPT !.notify = Never]
      BY <2>2 DEF NextNotify
    <3> QED BY <1>1, <3>1 DEF Recipient
  <2> QED BY <2>1, <2>2
<1>5. ExpirationTime(x) > now
  <2>1. x.expires \in Expiries
    BY <1>1 DEF Recipient
  <2> QED BY <1>1, <2>1 DEF IsExpired, ExpirationTime, Expiries
<1>6. x.notify \in Nat
  BY <1>1 DEF Recipient
<1> HIDE DEF x, y
<1>7. y.notify > now /\ y.expires = x.expires
  BY <1>1, <1>2, <1>3, <1>4, <1>6
<1>8. ExpirationTime(y) > now
  BY <1>5, <1>7 DEF ExpirationTime
<1> QED BY <1>7, <1>8 DEF y

(* deliver_task decides to re-queue: every event of the worker's queue is   *)
(* in the future.                                                           *)
LEMMA RequeueStep ==
  ASSUME TypeOK, InTime, MaxTime < Never, Rcpts \subseteq WantsDelay,
         NEW w \in Workers, Begin(w), pc'[w] = "save",
         NEW e \in NextEvents(copy'[w]), e.queue = ev[w].queue
  PROVE  e.due > now
<1> DEFINE q == ev[w].queue
           k == MarkExpired(copy[w])
           m == BuildDsn(k)
<1>1. copy[w] \in Message /\ k \in Message /\ now \in Nat
  BY MarkExpiredType DEF TypeOK
<1>2. m \in Message
  BY <1>1, BuildDsnType DEF TypeOK
<1>3. copy'[w] = m /\ DueIn(m, q) = {}
  BY DEF Begin, TypeOK
<1>4. PICK p \in PendingQueues(m) : e = EventFor(m, p)
  BY <1>3, NextEventsAre
<1>5. p = q /\ e.due = Min({EventTime(m.rcpts[r]) : r \in WaitingIn(m, q)})
  BY <1>4 DEF EventFor
<1>6. ASSUME NEW r \in WaitingIn(m, q) PROVE EventTime(m.rcpts[r]) \in Nat /\ EventTime(m.rcpts[r]) > now
  <2>1. r \in Rcpts /\ Pending(m.rcpts[r]) /\ m.rcpts[r].queue = q /\ m.rcpts[r] \in Recipient
    BY <1>2 DEF WaitingIn, PendingIn, Message
  <2>2. m.rcpts[r].due > now /\ m.rcpts[r].due \in Nat
    BY <1>1, <1>3, <2>1 DEF DueIn, PendingIn, Recipient
  <2>3. Pending(k.rcpts[r]) /\ ~IsExpired(k.rcpts[r])
    <3>1. Pending(k.rcpts[r])
      BY <1>1, <2>1, BuildDsnRcpt DEF Pending
    <3>2. k.rcpts[r] = IF Pending(copy[w].rcpts[r]) /\ IsExpired(copy[w].rcpts[r])
                         THEN [copy[w].rcpts[r] EXCEPT !.status = "perm"] ELSE copy[w].rcpts[r]
      BY <1>1, <2>1 DEF MarkExpired, Message
    <3>3. ~Pending([copy[w].rcpts[r] EXCEPT !.status = "perm"])
      BY <1>1, <2>1 DEF Message, Recipient, Pending
    <3> HIDE DEF k
    <3> QED BY <3>1, <3>2, <3>3
  <2>4. m.rcpts[r].notify > now /\ ExpirationTime(m.rcpts[r]) > now
    BY <1>1, <2>1, <2>3, NotifiedLater
  <2>5. m.rcpts[r].notify \in Nat /\ ExpirationTime(m.rcpts[r]) \in Nat
    BY <2>1 DEF Recipient, ExpirationTime, Expiries, Never
  <2> HIDE DEF m
  <2>6. EventTime(m.rcpts[r]) \in {m.rcpts[r].due, m.rcpts[r].notify, ExpirationTime(m.rcpts[r])}
    BY <2>2, <2>5, MinIsLeast DEF EventTime
  <2> QED BY <1>1, <2>2, <2>4, <2>5, <2>6
<1> DEFINE T == {EventTime(m.rcpts[r]) : r \in WaitingIn(m, q)}
<1>7. T \in SUBSET Nat /\ T # {} /\ \A t \in T : t > now
  <2>1. WaitingIn(m, q) # {}
    BY <1>4, <1>5, WaitingQueues
  <2> QED BY <1>6, <2>1
<1> HIDE DEF T
<1>8. Min(T) \in T
  BY <1>7, MinIsLeast
<1> QED BY <1>5, <1>7, <1>8 DEF T

(* If every sender wants to hear of delays: a message that deliver_task     *)
(* finds not yet due is put back for later in the worker's own queue, in    *)
(* any state and whatever the schedule, so the worker is not started again  *)
(* at once for nothing.  The bound on the clock stays below u64::MAX.       *)
THEOREM RequeuesForLater ==
  ASSUME Rcpts \subseteq WantsDelay, MaxTime < Never
  PROVE  Spec => RequeuedForLater
<1>1. Init => InTime
  BY BoundAssumption DEF Init, InTime
<1>2. TypeOK /\ InTime /\ [Next]_vars => InTime'
  <2>1. ASSUME TypeOK, InTime, Next PROVE InTime'
    <3>1. CASE Tick
      BY <2>1, <3>1, BoundAssumption DEF Tick, InTime, TypeOK
    <3>2. CASE ~Tick
      <4>1. UNCHANGED now
        BY <2>1, <3>2 DEF Next, WorkerStep, Enqueue, Pick, TryLock, Read, ClearEvent, Begin, Throttle,
           Attempt, Save, Remove, Unlock, Crash, AdminRead, AdminReschedule, AdminCancel, AdminDelete
      <4> QED BY <2>1, <4>1 DEF InTime
    <3> QED BY <3>1, <3>2
  <2> QED BY <2>1 DEF vars, InTime
<1>3. TypeOK /\ InTime /\ [Next]_vars =>
        [\A w \in Workers : (Begin(w) /\ pc'[w] = "save") =>
            \A e \in NextEvents(copy'[w]) : e.queue = ev[w].queue => e.due > now]_vars
  BY RequeueStep
<1> QED BY <1>1, <1>2, <1>3, TypeCorrect, PTL DEF Spec, RequeuedForLater
=============================================================================
