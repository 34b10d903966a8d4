-------------------------- MODULE QueueLossProofs --------------------------
(* What happens to recipients, quotas and blobs, for any recipients,        *)
(* schedules and workers:                                                   *)
(*   - no message is lost silently, in every setting (NothingLost);         *)
(*   - a final recipient stays final while no attempt outlives its lock and *)
(*     the management API is not used (FinalityHolds), and is delivered to  *)
(*     once if no node crashes and no write fails either (DeliveredOnce);   *)
(*   - a message that stays in one queue keeps its quota and its blob, and  *)
(*     each recipient has one fate (QuotaBalanced, BlobStays, OneFateEach). *)
EXTENDS QueueSpoolProofs

(* What NoSilentLoss asks for a recipient; once true, it stays true.        *)
Settled(r) ==
  \/ delivered[r] > 0
  \/ bounced[r] > 0
  \/ r \notin WantsFailure
  \/ r \in canceled

(* A version of the message, in the store or in somebody's hands, records   *)
(* nothing that has not happened: a recipient it calls final is settled,    *)
(* and only final recipients are flagged as reported.                       *)
Honest(m) ==
  \A r \in Rcpts : /\ Final(m.rcpts[r]) => Settled(r)
                   /\ m.rcpts[r].dsn => Final(m.rcpts[r])

HasCopy(w) == pc[w] \in {"read", "deliver", "save", "remove"}

StoreHonest == /\ exists => queued
               /\ queued => Honest(msg)
CopiesHonest ==
  \A w \in Workers : HasCopy(w) =>
    /\ queued
    /\ Honest(copy[w])
    /\ pc[w] = "remove" => PendingIn(copy[w]) = {}
AdminHonest == admin.pc = "read" => queued /\ Honest(admin.copy)
GoneSettled == (queued /\ ~exists) => \A r \in Rcpts : Settled(r)

LossInv == StoreHonest /\ CopiesHonest /\ AdminHonest /\ GoneSettled

-----------------------------------------------------------------------------
(* The history only grows, so what was honest stays honest.                 *)
LEMMA SettledGrows ==
  ASSUME TypeOK, TypeOK',
         \A r \in Rcpts : delivered'[r] >= delivered[r],
         \A r \in Rcpts : bounced'[r] >= bounced[r],
         canceled \subseteq canceled'
  PROVE  \A r \in Rcpts : Settled(r) => Settled(r)'
<1>1. \A r \in Rcpts : delivered[r] \in Nat /\ bounced[r] \in Nat
  BY DEF TypeOK
<1>2. \A r \in Rcpts : delivered'[r] \in Nat /\ bounced'[r] \in Nat
  BY DEF TypeOK
<1> QED BY <1>1, <1>2 DEF Settled

(* Notifications are only ever added.                                       *)
LEMMA BouncedGrows ==
  ASSUME TypeOK, NEW m, QueueDsn(m)
  PROVE  \A r \in Rcpts : bounced'[r] >= bounced[r]
  BY DEF QueueDsn, TypeOK

(* No step takes anything out of the history.                               *)
LEMMA HistoryGrows ==
  ASSUME TypeOK, [Next]_vars
  PROVE  \A r \in Rcpts : Settled(r) => Settled(r)'
<1>0. TypeOK' /\ \A r \in Rcpts : delivered[r] \in Nat /\ bounced[r] \in Nat
  BY NextType DEF TypeOK
<1>1. CASE UNCHANGED history
  BY <1>0, <1>1, SettledGrows DEF history
<1>2. ASSUME NEW w \in Workers, Begin(w) PROVE \A r \in Rcpts : Settled(r) => Settled(r)'
  <2>1. PICK m : QueueDsn(m)
    BY <1>2 DEF Begin
  <2> QED BY <1>0, <1>2, <2>1, BouncedGrows, SettledGrows DEF Begin
<1>3. ASSUME NEW w \in Workers, Attempt(w) PROVE \A r \in Rcpts : Settled(r) => Settled(r)'
  <2>1. PICK m : QueueDsn(m)
    BY <1>3 DEF Attempt
  <2>2. \A r \in Rcpts : delivered'[r] >= delivered[r]
    BY <1>0, <1>3 DEF Attempt
  <2> QED BY <1>0, <1>3, <2>1, <2>2, BouncedGrows, SettledGrows DEF Attempt
<1>4. CASE AdminCancel \/ AdminDelete
  <2>1. canceled \subseteq canceled' /\ UNCHANGED <<delivered, bounced>>
    BY <1>4 DEF AdminCancel, AdminDelete, TypeOK
  <2> QED BY <1>0, <2>1, SettledGrows
<1>5. ASSUME NEW w \in Workers,
             \/ Pick(w) \/ TryLock(w) \/ Read(w) \/ ClearEvent(w) \/ Throttle(w)
             \/ Save(w) \/ Remove(w) \/ Unlock(w) \/ Crash(w)
      PROVE  UNCHANGED history
  BY <1>5, Zenon
  DEF Pick, TryLock, Read, ClearEvent, Throttle, Save, Remove, Unlock, Crash
<1>6. CASE Enqueue \/ AdminRead \/ AdminReschedule \/ Tick \/ UNCHANGED vars
  <2>1. UNCHANGED history
    BY <1>6, Zenon DEF Enqueue, AdminRead, AdminReschedule, Tick, vars
  <2> QED BY <1>1, <2>1
<1> QED BY <1>1, <1>2, <1>3, <1>4, <1>5, <1>6 DEF Next, WorkerStep

-----------------------------------------------------------------------------
(* Honest(m), judged by the history after the step.                         *)
HonestNext(m) ==
  \A r \in Rcpts : /\ Final(m.rcpts[r]) => Settled(r)'
                   /\ m.rcpts[r].dsn => Final(m.rcpts[r])

(* What a recipient looks like after build_dsn.                             *)
LEMMA BuildDsnRcpt ==
  ASSUME NEW m \in Message, NEW r \in Rcpts
  PROVE  /\ BuildDsn(m).rcpts[r].status = m.rcpts[r].status
         /\ BuildDsn(m).rcpts[r].queue = m.rcpts[r].queue
         /\ ~Final(m.rcpts[r]) => BuildDsn(m).rcpts[r].dsn = m.rcpts[r].dsn
<1> DEFINE x == m.rcpts[r]
<1>1. x \in Recipient
  BY DEF Message
<1>2. BuildDsn(m).rcpts[r] = IF Final(x) THEN [x EXCEPT !.dsn = TRUE]
                             ELSE IF DelayDsn(m) # {} /\ x.notify <= now THEN NextNotify(x) ELSE x
  BY DEF BuildDsn, Message
<1> HIDE DEF x
<1>3. /\ [x EXCEPT !.dsn = TRUE].status = x.status
      /\ [x EXCEPT !.dsn = TRUE].queue = x.queue
  BY <1>1 DEF Recipient
<1>4. NextNotify(x).status = x.status /\ NextNotify(x).queue = x.queue /\ NextNotify(x).dsn = x.dsn
  BY <1>1 DEF Recipient, NextNotify
<1> QED BY <1>2, <1>3, <1>4 DEF x

(* build_dsn changes nobody's status.                                       *)
LEMMA BuildDsnPending ==
  ASSUME NEW m \in Message
  PROVE  PendingIn(BuildDsn(m)) = PendingIn(m)
  BY BuildDsnRcpt DEF PendingIn, Pending

(* send_dsn settles the failures it reports: a copy is honest after it.     *)
LEMMA DsnHonest ==
  ASSUME "dsn" \notin Faults, TypeOK, NEW m \in Message, QueueDsn(m),
         \A r \in Rcpts : m.rcpts[r].status = "done" => Settled(r)',
         \A r \in Rcpts : m.rcpts[r].dsn => Final(m.rcpts[r]) /\ Settled(r)'
  PROVE  HonestNext(BuildDsn(m))
<1> SUFFICES ASSUME NEW r \in Rcpts
             PROVE  /\ Final(BuildDsn(m).rcpts[r]) => Settled(r)'
                    /\ BuildDsn(m).rcpts[r].dsn => Final(BuildDsn(m).rcpts[r])
  BY DEF HonestNext
<1>1. Final(BuildDsn(m).rcpts[r]) <=> Final(m.rcpts[r])
  BY BuildDsnRcpt DEF Final
<1>2. ASSUME m.rcpts[r].status = "perm", ~m.rcpts[r].dsn PROVE Settled(r)'
  <2>1. CASE r \in WantsFailure
    <3>1. r \in FailureDsn(m)
      BY <1>2, <2>1 DEF FailureDsn
    <3>2. bounced' = [x \in Rcpts |-> IF x \in FailureDsn(m) THEN bounced[x] + 1 ELSE bounced[x]]
      BY DEF QueueDsn
    <3>3. bounced[r] \in Nat
      BY DEF TypeOK
    <3>4. bounced'[r] > 0
      BY <3>1, <3>2, <3>3
    <3> QED BY <3>4 DEF Settled
  <2>2. CASE r \notin WantsFailure
    BY <2>2 DEF Settled
  <2> QED BY <2>1, <2>2
<1>3. Final(m.rcpts[r]) => Settled(r)'
  BY <1>2 DEF Final
<1>4. BuildDsn(m).rcpts[r].dsn => Final(m.rcpts[r])
  BY BuildDsnRcpt
<1> QED BY <1>1, <1>3, <1>4

(* What was honest stays honest.                                            *)
LEMMA HonestKept ==
  ASSUME \A r \in Rcpts : Settled(r) => Settled(r)', NEW m, Honest(m)
  PROVE  HonestNext(m)
  BY DEF Honest, HonestNext

(* save_changes of an honest copy leaves an honest message.                 *)
LEMMA SaveBatchHonest ==
  ASSUME StoreType, NEW m \in Message, NEW q, NEW b, NEW prev, SaveBatch(m, q, b, prev),
         HonestNext(m), HonestNext(msg)
  PROVE  HonestNext(msg')
<1>1. CASE b /\ ~exists
  BY <1>1 DEF SaveBatch, store
<1>2. CASE ~(b /\ ~exists)
  <2>1. msg' = IF b THEN MergeRcpts(m, q) ELSE [m EXCEPT !.quota = @ \ Releasable(m)]
    BY <1>2, Zenon DEF SaveBatch
  <2>2. [m EXCEPT !.quota = @ \ Releasable(m)].rcpts = m.rcpts
    BY DEF Message
  <2>3. \A r \in Rcpts : MergeRcpts(m, q).rcpts[r] \in {m.rcpts[r], msg.rcpts[r]}
    BY DEF MergeRcpts, Message, StoreType
  <2> QED BY <2>1, <2>2, <2>3 DEF HonestNext
<1> QED BY <1>1, <1>2

-----------------------------------------------------------------------------
(* What a step leaves alone stays as it was.                                *)
LEMMA LossFrame ==
  ASSUME LossInv, \A r \in Rcpts : Settled(r) => Settled(r)'
  PROVE  /\ UNCHANGED <<queued, exists, msg>> => StoreHonest'
         /\ UNCHANGED <<queued, exists>> => GoneSettled'
         /\ UNCHANGED <<queued, admin>> => AdminHonest'
<1>1. ASSUME UNCHANGED <<queued, exists, msg>> PROVE StoreHonest'
  BY <1>1, HonestKept DEF LossInv, StoreHonest, Honest, HonestNext
<1>2. ASSUME UNCHANGED <<queued, exists>> PROVE GoneSettled'
  BY <1>2 DEF LossInv, GoneSettled
<1>3. ASSUME UNCHANGED <<queued, admin>> PROVE AdminHonest'
  BY <1>3, HonestKept DEF LossInv, AdminHonest, Honest, HonestNext
<1> QED BY <1>1, <1>2, <1>3

(* A worker's step concerns its own copy.                                   *)
LEMMA CopyFrame ==
  ASSUME LossInv, \A r \in Rcpts : Settled(r) => Settled(r)',
         NEW w \in Workers, UNCHANGED queued,
         \A v \in Workers : v # w => pc'[v] = pc[v] /\ copy'[v] = copy[v],
         pc'[w] \in {"read", "deliver", "save", "remove"} =>
            /\ queued
            /\ HonestNext(copy'[w])
            /\ pc'[w] = "remove" => PendingIn(copy'[w]) = {}
  PROVE  CopiesHonest'
<1> SUFFICES ASSUME NEW v \in Workers, HasCopy(v)'
             PROVE  queued' /\ Honest(copy[v])' /\ (pc[v] = "remove" => PendingIn(copy[v]) = {})'
  BY DEF CopiesHonest
<1>1. CASE v = w
  BY <1>1 DEF HasCopy, Honest, HonestNext, PendingIn
<1>2. CASE v # w
  <2>1. pc'[v] = pc[v] /\ copy'[v] = copy[v] /\ HasCopy(v)
    BY <1>2 DEF HasCopy
  <2>2. queued /\ Honest(copy[v]) /\ (pc[v] = "remove" => PendingIn(copy[v]) = {})
    BY <2>1 DEF LossInv, CopiesHonest
  <2>3. HonestNext(copy[v])
    BY <2>2, HonestKept
  <2> QED BY <2>1, <2>2, <2>3 DEF Honest, HonestNext, PendingIn
<1> QED BY <1>1, <1>2

(* A step that ends or begins without a copy changes nobody's.              *)
LEMMA NoCopyStep ==
  ASSUME TypeOK, LossInv, \A r \in Rcpts : Settled(r) => Settled(r)', NEW w \in Workers,
         \/ Pick(w) \/ TryLock(w) \/ ClearEvent(w) \/ Unlock(w) \/ Crash(w)
  PROVE  LossInv'
<1>1. pc'[w] \notin {"read", "deliver", "save", "remove"}
  BY DEF Pick, TryLock, ClearEvent, Unlock, Crash, Leave, TypeOK
<1>2. \A v \in Workers : v # w => pc'[v] = pc[v] /\ copy'[v] = copy[v]
  BY DEF Pick, TryLock, ClearEvent, Unlock, Crash, Leave, TypeOK
<1>3. UNCHANGED <<queued, exists, msg, admin>>
  BY Zenon DEF Pick, TryLock, ClearEvent, WriteFails, Unlock, Crash, store
<1>4. CopiesHonest'
  BY <1>1, <1>2, <1>3, CopyFrame
<1> QED BY <1>3, <1>4, LossFrame DEF LossInv

(* A read takes an honest message.                                          *)
LEMMA ReadHonest ==
  ASSUME TypeOK, LossInv, \A r \in Rcpts : Settled(r) => Settled(r)', NEW w \in Workers, Read(w)
  PROVE  LossInv'
<1>1. UNCHANGED <<queued, exists, msg, admin>>
  BY Zenon DEF Read, store
<1>2. \A v \in Workers : v # w => pc'[v] = pc[v] /\ copy'[v] = copy[v]
  BY DEF Read, TypeOK
<1>3. pc'[w] \in {"read", "gone"} /\ (pc'[w] = "read" => exists /\ copy'[w] = msg)
  BY DEF Read, TypeOK
<1>4. exists => queued /\ HonestNext(msg)
  BY HonestKept DEF LossInv, StoreHonest
<1>5. CopiesHonest'
  BY <1>1, <1>2, <1>3, <1>4, CopyFrame
<1> QED BY <1>1, <1>5, LossFrame DEF LossInv

(* Expired recipients fail, and are reported in the same breath.            *)
LEMMA BeginHonest ==
  ASSUME "dsn" \notin Faults, TypeOK, LossInv, \A r \in Rcpts : Settled(r) => Settled(r)',
         NEW w \in Workers, Begin(w)
  PROVE  LossInv'
<1> DEFINE marked == MarkExpired(copy[w])
           m == BuildDsn(marked)
<1>1. UNCHANGED <<queued, exists, msg, admin>>
  BY Zenon DEF Begin, store
<1>2. now \in Nat /\ copy[w] \in Message
  BY DEF TypeOK
<1>3. marked \in Message
  BY <1>2, MarkExpiredType
<1>4. queued /\ Honest(copy[w])
  BY DEF Begin, LossInv, CopiesHonest, HasCopy
<1>5. /\ QueueDsn(marked)
      /\ copy' = [copy EXCEPT ![w] = m]
      /\ pc' = [pc EXCEPT ![w] = IF PendingIn(m) = {} THEN "remove"
                                 ELSE IF DueIn(m, ev[w].queue) # {} THEN "deliver"
                                 ELSE "save"]
  BY Zenon DEF Begin
<1>6. ASSUME NEW r \in Rcpts
      PROVE  /\ marked.rcpts[r].status = "done" => Settled(r)'
             /\ marked.rcpts[r].dsn => Final(marked.rcpts[r]) /\ Settled(r)'
  <2> DEFINE x == copy[w].rcpts[r]
  <2>1. x \in Recipient
    BY <1>2 DEF Message
  <2>2. marked.rcpts[r] = IF Pending(x) /\ IsExpired(x) THEN [x EXCEPT !.status = "perm"] ELSE x
    BY <1>2 DEF MarkExpired, Message
  <2>3. [x EXCEPT !.status = "perm"].dsn = x.dsn /\ [x EXCEPT !.status = "perm"].status = "perm"
    BY <2>1 DEF Recipient
  <2>4. (Final(x) => Settled(r)') /\ (x.dsn => Final(x))
    BY <1>4 DEF Honest
  <2> HIDE DEF x, marked
  <2> QED BY <2>2, <2>3, <2>4 DEF Final, Pending
<1> HIDE DEF marked
<1>7. HonestNext(m)
  BY <1>3, <1>5, <1>6, DsnHonest
<1> HIDE DEF m
<1>8. /\ \A v \in Workers : v # w => pc'[v] = pc[v] /\ copy'[v] = copy[v]
      /\ copy'[w] = m
      /\ pc'[w] = "remove" => PendingIn(m) = {}
  BY <1>5 DEF TypeOK
<1>9. CopiesHonest'
  BY <1>1, <1>4, <1>7, <1>8, CopyFrame
<1> QED BY <1>1, <1>9, LossFrame DEF LossInv

(* A throttled sender's recipients stay pending.                            *)
LEMMA ThrottleHonest ==
  ASSUME TypeOK, LossInv, \A r \in Rcpts : Settled(r) => Settled(r)',
         NEW w \in Workers, Throttle(w)
  PROVE  LossInv'
<1> DEFINE D == DueIn(copy[w], ev[w].queue)
<1>1. UNCHANGED <<queued, exists, msg, admin>>
  BY Zenon DEF Throttle, store
<1>2. copy[w] \in Message /\ queued /\ Honest(copy[w])
  BY DEF Throttle, TypeOK, LossInv, CopiesHonest, HasCopy
<1>3. /\ \A v \in Workers : v # w => pc'[v] = pc[v] /\ copy'[v] = copy[v]
      /\ pc'[w] = "save"
  BY DEF Throttle, TypeOK
<1>4. \A r \in Rcpts : copy'[w].rcpts[r] = IF r \in D THEN RateLimited(copy[w].rcpts[r])
                                                      ELSE copy[w].rcpts[r]
  BY <1>2 DEF Throttle, TypeOK, Message
<1>5. ASSUME NEW r \in D PROVE Pending(copy[w].rcpts[r])
  BY DEF DueIn, PendingIn
<1>6. \A r \in Rcpts : /\ RateLimited(copy[w].rcpts[r]).status = "temp"
                       /\ RateLimited(copy[w].rcpts[r]).dsn = copy[w].rcpts[r].dsn
  BY <1>2 DEF RateLimited, Message, Recipient
<1> HIDE DEF D
<1>7. HonestNext(copy'[w])
  BY <1>2, <1>4, <1>5, <1>6 DEF Honest, HonestNext, Final, Pending
<1>8. CopiesHonest'
  BY <1>1, <1>2, <1>3, <1>7, CopyFrame
<1> QED BY <1>1, <1>8, LossFrame DEF LossInv

(* A recipient recorded as delivered was delivered, one recorded as failed  *)
(* is reported.                                                             *)
LEMMA AttemptHonest ==
  ASSUME "dsn" \notin Faults, TypeOK, LossInv,
         \A r \in Rcpts : Settled(r) => Settled(r)',
         NEW w \in Workers, Attempt(w)
  PROVE  LossInv'
<1> DEFINE D == DueIn(copy[w], ev[w].queue)
<1>1. PICK m \in Message :
        /\ copy' = [copy EXCEPT ![w] = BuildDsn(m)]
        /\ QueueDsn(m)
        /\ pc' = [pc EXCEPT ![w] = AfterAttempt(m, ev[w].queue)]
        /\ \A r \in Rcpts \ D : m.rcpts[r] = copy[w].rcpts[r]
        /\ \A r \in Rcpts \cap D :
             /\ m.rcpts[r].dsn = copy[w].rcpts[r].dsn
             /\ m.rcpts[r].status = "done" => delivered'[r] = delivered[r] + 1
  BY AttemptApplied
<1>2. queued /\ Honest(copy[w]) /\ UNCHANGED <<queued, exists, msg, admin>>
  BY DEF Attempt, LossInv, CopiesHonest, HasCopy, store
<1>3. ASSUME NEW r \in D PROVE Pending(copy[w].rcpts[r])
  BY DEF DueIn, PendingIn
<1> HIDE DEF D
<1>4. ASSUME NEW r \in Rcpts
      PROVE  /\ m.rcpts[r].status = "done" => Settled(r)'
             /\ m.rcpts[r].dsn => Final(m.rcpts[r]) /\ Settled(r)'
  <2>1. (Final(copy[w].rcpts[r]) => Settled(r)') /\ (copy[w].rcpts[r].dsn => Final(copy[w].rcpts[r]))
    BY <1>2 DEF Honest
  <2>2. CASE r \in D
    <3>1. ~m.rcpts[r].dsn
      BY <1>1, <1>3, <2>1, <2>2 DEF Pending, Final
    <3>2. ASSUME m.rcpts[r].status = "done" PROVE Settled(r)'
      <4>1. delivered'[r] > 0
        BY <1>1, <2>2, <3>2 DEF TypeOK
      <4> QED BY <4>1 DEF Settled
    <3> QED BY <3>1, <3>2
  <2>3. CASE r \notin D
    BY <1>1, <2>1, <2>3 DEF Final
  <2> QED BY <2>2, <2>3
<1>5. HonestNext(BuildDsn(m)) /\ PendingIn(BuildDsn(m)) = PendingIn(m)
  BY <1>1, <1>4, DsnHonest, BuildDsnPending
<1>6. /\ \A v \in Workers : v # w => pc'[v] = pc[v] /\ copy'[v] = copy[v]
      /\ copy'[w] = BuildDsn(m)
      /\ pc'[w] = AfterAttempt(m, ev[w].queue)
  BY <1>1 DEF TypeOK
<1>7. CopiesHonest'
  BY <1>2, <1>5, <1>6, CopyFrame DEF AfterAttempt
<1> QED BY <1>2, <1>7, LossFrame DEF LossInv

(* A batch of save_changes keeps the store honest, and the message in it.   *)
LEMMA SaveKeepsStore ==
  ASSUME TypeOK, LossInv, \A r \in Rcpts : Settled(r) => Settled(r)', UNCHANGED queued,
         NEW m \in Message, NEW q, NEW b, NEW prev, SaveBatch(m, q, b, prev),
         queued, HonestNext(m)
  PROVE  StoreHonest' /\ GoneSettled'
<1>1. HonestNext(msg)
  BY HonestKept DEF LossInv, StoreHonest
<1>2. HonestNext(msg')
  BY <1>1, TypeParts, SaveBatchHonest
<1>3. exists' = TRUE \/ exists' = exists
  BY Zenon DEF SaveBatch, store
<1> QED BY <1>2, <1>3 DEF LossInv, StoreHonest, GoneSettled, Honest, HonestNext

(* A removal leaves no unsettled recipient behind, if there was none.       *)
LEMMA RemoveKeepsStore ==
  ASSUME LossInv, \A r \in Rcpts : Settled(r) => Settled(r)', UNCHANGED queued,
         NEW m, NEW prev, RemoveBatch(m, prev),
         queued, \A r \in Rcpts : Settled(r)'
  PROVE  StoreHonest' /\ GoneSettled'
<1>1. HonestNext(msg)
  BY HonestKept DEF LossInv, StoreHonest
<1>2. exists' = FALSE /\ msg' = msg
  BY DEF RemoveBatch
<1> QED BY <1>1, <1>2 DEF LossInv, StoreHonest, GoneSettled, Honest, HonestNext

(* Saving and removing.                                                     *)
LEMMA SaveRemoveHonest ==
  ASSUME TypeOK, LossInv, \A r \in Rcpts : Settled(r) => Settled(r)',
         NEW w \in Workers, Save(w) \/ Remove(w)
  PROVE  LossInv'
<1>1. UNCHANGED <<queued, admin>>
  BY DEF Save, Remove
<1>2. copy[w] \in Message /\ queued /\ Honest(copy[w]) /\ HonestNext(copy[w])
  BY HonestKept DEF Save, Remove, TypeOK, LossInv, CopiesHonest, HasCopy
<1>3. /\ \A v \in Workers : v # w => pc'[v] = pc[v] /\ copy'[v] = copy[v]
      /\ pc'[w] = "unlock"
  BY DEF Save, Remove, Consumed, TypeOK
<1>4. CopiesHonest'
  BY <1>1, <1>3, CopyFrame
<1>5. CASE WriteFails
  <2>1. UNCHANGED <<exists, msg>>
    BY <1>5, Zenon DEF WriteFails, store
  <2> QED BY <1>1, <1>4, <2>1, LossFrame DEF LossInv
<1>6. CASE Save(w) /\ ~WriteFails
  <2>1. SaveBatch(copy[w], ev[w].queue, multi[w], {ev[w]})
    BY <1>6, Zenon DEF Save
  <2> QED BY <1>1, <1>2, <1>4, <2>1, SaveKeepsStore, LossFrame DEF LossInv
<1>7. CASE Remove(w) /\ ~WriteFails
  <2>1. RemoveBatch(copy[w], {ev[w]})
    BY <1>7, Zenon DEF Remove
  <2>2. PendingIn(copy[w]) = {}
    BY <1>7 DEF Remove, LossInv, CopiesHonest, HasCopy
  <2>3. ASSUME NEW r \in Rcpts PROVE Settled(r)'
    <3>1. copy[w].rcpts[r].status \in Statuses
      BY <1>2 DEF Message, Recipient
    <3>2. Final(copy[w].rcpts[r])
      BY <2>2, <3>1 DEF PendingIn, Pending, Final, Statuses
    <3> QED BY <1>2, <3>2 DEF HonestNext
  <2> QED BY <1>1, <1>2, <1>4, <2>1, <2>3, RemoveKeepsStore, LossFrame DEF LossInv
<1> QED BY <1>5, <1>6, <1>7

(* No request touches the workers, and after it there is none in progress.  *)
LEMMA RequestDone ==
  ASSUME TypeOK, LossInv, \A r \in Rcpts : Settled(r) => Settled(r)',
         AdminReschedule \/ AdminCancel \/ AdminDelete
  PROVE  /\ UNCHANGED queued
         /\ CopiesHonest'
         /\ AdminHonest'
         /\ queued
         /\ admin.copy \in Message
         /\ Honest(admin.copy)
<1>1. UNCHANGED <<queued, pc, copy>> /\ admin' = NoRequest /\ admin.pc = "read"
  BY Zenon DEF AdminReschedule, AdminCancel, AdminDelete, worker
<1>2. queued /\ Honest(admin.copy) /\ admin.copy \in Message
  BY <1>1 DEF LossInv, AdminHonest, TypeOK
<1>3. AdminHonest'
  BY <1>1 DEF AdminHonest, NoRequest
<1>4. ASSUME NEW w \in Workers, HasCopy(w)'
      PROVE  queued' /\ Honest(copy[w])' /\ (pc[w] = "remove" => PendingIn(copy[w]) = {})'
  <2>1. HasCopy(w)
    BY <1>1, <1>4 DEF HasCopy
  <2>2. Honest(copy[w]) /\ (pc[w] = "remove" => PendingIn(copy[w]) = {})
    BY <2>1 DEF LossInv, CopiesHonest
  <2>3. HonestNext(copy[w])
    BY <2>2, HonestKept
  <2> QED BY <1>1, <1>2, <2>2, <2>3 DEF Honest, HonestNext, PendingIn
<1> QED BY <1>1, <1>2, <1>3, <1>4 DEF CopiesHonest

(* A manual retry changes no status.                                        *)
LEMMA RescheduleHonest ==
  ASSUME TypeOK, LossInv, \A r \in Rcpts : Settled(r) => Settled(r)', AdminReschedule
  PROVE  LossInv'
<1>0. /\ UNCHANGED queued /\ CopiesHonest' /\ AdminHonest' /\ queued
      /\ admin.copy \in Message /\ Honest(admin.copy) /\ now \in Nat
  BY RequestDone DEF TypeOK
<1>1. PICK S \in SUBSET Rcpts, t \in {now, now + 1} :
        LET found == S \cap PendingIn(admin.copy)
            m == [admin.copy EXCEPT !.rcpts = [r \in Rcpts |->
                    IF r \in found THEN Rescheduled(admin.copy.rcpts[r], t)
                                   ELSE admin.copy.rcpts[r]]]
        IN \/ found # {} /\ SaveBatch(m, DefaultQueue, admin.multi, {}) /\ UNCHANGED faulted
           \/ found = {} /\ UNCHANGED <<store, faulted>>
           \/ found # {} /\ RequestFails
  BY Zenon DEF AdminReschedule
<1> DEFINE found == S \cap PendingIn(admin.copy)
           rcpts == [r \in Rcpts |-> IF r \in found THEN Rescheduled(admin.copy.rcpts[r], t)
                                                    ELSE admin.copy.rcpts[r]]
           m == [admin.copy EXCEPT !.rcpts = rcpts]
<1>2. \A r \in Rcpts : admin.copy.rcpts[r] \in Recipient
  BY <1>0 DEF Message
<1>3. \A r \in Rcpts : Rescheduled(admin.copy.rcpts[r], t) \in Recipient
  BY <1>0, <1>2, RescheduledType
<1>4. ASSUME NEW x \in Recipient
      PROVE  Rescheduled(x, t).status = x.status /\ Rescheduled(x, t).dsn = x.dsn
  BY DEF Rescheduled, Recipient
<1>5. SaveBatch(m, DefaultQueue, admin.multi, {}) \/ UNCHANGED store
  BY <1>1, Zenon DEF RequestFails
<1>6. rcpts \in [Rcpts -> Recipient]
  BY <1>2, <1>3
<1>7. \A r \in Rcpts : /\ rcpts[r].status = admin.copy.rcpts[r].status
                       /\ rcpts[r].dsn = admin.copy.rcpts[r].dsn
  BY <1>2, <1>4
<1> HIDE DEF rcpts
<1>8. m \in Message /\ m.rcpts = rcpts
  <2>1. m \in Message
    BY <1>0, <1>6, WithRcpts
  <2> QED BY <1>0, <2>1 DEF Message
<1> HIDE DEF m
<1>9. HonestNext(m)
  BY <1>0, <1>7, <1>8 DEF Honest, HonestNext, Final
<1>10. CASE SaveBatch(m, DefaultQueue, admin.multi, {})
  BY <1>0, <1>8, <1>9, <1>10, SaveKeepsStore DEF LossInv
<1>11. CASE UNCHANGED store
  <2>1. UNCHANGED <<exists, msg>>
    BY <1>11 DEF store
  <2> QED BY <1>0, <2>1, LossFrame DEF LossInv
<1> QED BY <1>5, <1>10, <1>11

(* Who is canceled is settled.                                              *)
LEMMA CancelHonest ==
  ASSUME TypeOK, LossInv, \A r \in Rcpts : Settled(r) => Settled(r)', AdminCancel
  PROVE  LossInv'
<1>0. /\ UNCHANGED queued /\ CopiesHonest' /\ AdminHonest' /\ queued
      /\ admin.copy \in Message /\ Honest(admin.copy)
  BY RequestDone
<1>1. PICK S \in SUBSET Rcpts \ {{}} :
        LET m == [admin.copy EXCEPT !.rcpts = [r \in Rcpts |->
                    IF r \in S THEN [admin.copy.rcpts[r] EXCEPT !.status = "perm"]
                               ELSE admin.copy.rcpts[r]]]
        IN \/ /\ IF PendingIn(m) # {} THEN SaveBatch(m, DefaultQueue, admin.multi, {})
                                      ELSE RemoveBatch(m, NextEvents(m))
              /\ canceled' = canceled \cup S
              /\ UNCHANGED faulted
           \/ RequestFails /\ UNCHANGED canceled
  BY Zenon DEF AdminCancel
<1> DEFINE rcpts == [r \in Rcpts |-> IF r \in S
                                       THEN [admin.copy.rcpts[r] EXCEPT !.status = "perm"]
                                       ELSE admin.copy.rcpts[r]]
           m == [admin.copy EXCEPT !.rcpts = rcpts]
<1>2. \A r \in Rcpts : admin.copy.rcpts[r] \in Recipient
  BY <1>0 DEF Message
<1>3. ASSUME NEW x \in Recipient
      PROVE  [x EXCEPT !.status = "perm"] \in Recipient /\ [x EXCEPT !.status = "perm"].status = "perm"
  BY WithStatus DEF Recipient, Statuses
<1>4. \/ /\ IF PendingIn(m) # {} THEN SaveBatch(m, DefaultQueue, admin.multi, {})
                                 ELSE RemoveBatch(m, NextEvents(m))
         /\ canceled' = canceled \cup S
      \/ RequestFails
  BY <1>1, Zenon
<1>12. CASE RequestFails
  <2>1. UNCHANGED <<exists, msg>>
    BY <1>12 DEF RequestFails, store
  <2> QED BY <1>0, <2>1, LossFrame DEF LossInv
<1> SUFFICES ASSUME ~RequestFails PROVE LossInv'
  BY <1>12
<1>5. rcpts \in [Rcpts -> Recipient]
  BY <1>2, <1>3
<1>6. /\ \A r \in S : rcpts[r].status = "perm"
      /\ \A r \in Rcpts \ S : rcpts[r] = admin.copy.rcpts[r]
  BY <1>2, <1>3
<1> HIDE DEF rcpts
<1>7. m \in Message /\ m.rcpts = rcpts
  <2>1. m \in Message
    BY <1>0, <1>5, WithRcpts
  <2> QED BY <1>0, <2>1 DEF Message
<1> HIDE DEF m
<1>8. \A r \in S : Settled(r)'
  BY <1>4 DEF Settled
<1>9. HonestNext(m)
  BY <1>0, <1>6, <1>7, <1>8 DEF Honest, HonestNext, Final
<1>10. CASE PendingIn(m) # {}
  BY <1>0, <1>4, <1>7, <1>9, <1>10, SaveKeepsStore DEF LossInv
<1>11. CASE PendingIn(m) = {}
  <2>1. ASSUME NEW r \in Rcpts PROVE Settled(r)'
    <3>1. m.rcpts[r].status \in Statuses
      BY <1>7 DEF Message, Recipient
    <3>2. Final(m.rcpts[r])
      BY <1>11, <3>1 DEF PendingIn, Pending, Final, Statuses
    <3> QED BY <1>9, <3>2 DEF HonestNext
  <2> QED BY <1>0, <1>4, <1>11, <2>1, RemoveKeepsStore DEF LossInv
<1> QED BY <1>10, <1>11

(* Every step keeps every version of the message honest.                    *)
LEMMA LossPreserved ==
  ASSUME "dsn" \notin Faults, TypeOK, LossInv, [Next]_vars
  PROVE  LossInv'
<1>0. \A r \in Rcpts : Settled(r) => Settled(r)'
  BY HistoryGrows
<1>1. CASE Enqueue
  <2>1. PICK route \in Routes, hold \in Releases :
          msg' = [rcpts |-> [r \in Rcpts |-> NewRecipient(route[r], hold)], quota |-> QuotaKeys]
    BY <1>1, Zenon DEF Enqueue
  <2>2. \A r \in Rcpts : /\ msg'.rcpts[r].status = "scheduled"
                         /\ msg'.rcpts[r].dsn = FALSE
    BY <2>1 DEF NewRecipient
  <2>3. ~queued /\ queued' = TRUE /\ exists' = TRUE /\ UNCHANGED <<pc, copy, admin>>
    BY <1>1 DEF Enqueue, worker
  <2>4. StoreHonest' /\ GoneSettled'
    BY <2>2, <2>3 DEF StoreHonest, GoneSettled, Honest, Final
  <2>5. CopiesHonest' /\ AdminHonest'
    BY <2>3 DEF LossInv, CopiesHonest, AdminHonest, HasCopy
  <2> QED BY <2>4, <2>5 DEF LossInv
<1>2. CASE AdminRead
  <2>1. UNCHANGED <<queued, exists, msg, pc, copy>> /\ exists /\ admin'.copy = msg
    BY <1>2 DEF AdminRead, store, worker
  <2>2. queued /\ HonestNext(msg)
    BY <1>0, <2>1, HonestKept DEF LossInv, StoreHonest
  <2>3. AdminHonest'
    BY <2>1, <2>2 DEF AdminHonest, Honest, HonestNext
  <2>4. CopiesHonest'
    BY <1>0, <2>1, HonestKept DEF LossInv, CopiesHonest, HasCopy, Honest, HonestNext, PendingIn
  <2> QED BY <1>0, <2>1, <2>3, <2>4, LossFrame DEF LossInv
<1>3. CASE AdminDelete
  <2>1. UNCHANGED queued /\ CopiesHonest' /\ AdminHonest' /\ queued
    BY <1>0, <1>3, RequestDone
  <2>2. CASE RequestFails
    <3>1. UNCHANGED <<exists, msg>>
      BY <2>2 DEF RequestFails, store
    <3> QED BY <1>0, <2>1, <3>1, LossFrame DEF LossInv
  <2>3. CASE RemoveBatch(admin.copy, NextEvents(admin.copy)) /\ canceled' = Rcpts
    <3>1. \A r \in Rcpts : Settled(r)'
      BY <2>3 DEF Settled
    <3> QED BY <1>0, <2>1, <2>3, <3>1, RemoveKeepsStore DEF LossInv
  <2> QED BY <1>3, <2>2, <2>3 DEF AdminDelete
<1>4. CASE Tick \/ UNCHANGED vars
  <2>1. UNCHANGED <<queued, exists, msg, pc, copy, admin>>
    BY <1>4 DEF Tick, vars, store, worker
  <2>2. CopiesHonest'
    BY <1>0, <2>1, HonestKept DEF LossInv, CopiesHonest, HasCopy, Honest, HonestNext, PendingIn
  <2> QED BY <1>0, <2>1, <2>2, LossFrame DEF LossInv
<1>5. ASSUME NEW w \in Workers, WorkerStep(w) \/ Crash(w) PROVE LossInv'
  BY <1>0, <1>5, NoCopyStep, ReadHonest, BeginHonest, ThrottleHonest, AttemptHonest,
     SaveRemoveHonest DEF WorkerStep
<1> QED BY <1>0, <1>1, <1>2, <1>3, <1>4, <1>5, RescheduleHonest, CancelHonest DEF Next

(* A message never leaves the queue unaccounted for: if notifications can   *)
(* be queued, then when it is gone every recipient has been delivered,      *)
(* reported as failed to a sender that wants to know, or canceled.          *)
THEOREM NothingLost ==
  ASSUME "dsn" \notin Faults
  PROVE  Spec => []NoSilentLoss
<1>1. Init => LossInv
  BY DEF Init, LossInv, StoreHonest, CopiesHonest, AdminHonest, GoneSettled, HasCopy, NoRequest
<1>2. TypeOK /\ LossInv /\ [Next]_vars => LossInv'
  BY LossPreserved
<1>3. LossInv => NoSilentLoss
  BY DEF LossInv, GoneSettled, Settled, NoSilentLoss
<1> QED BY <1>1, <1>2, <1>3, TypeCorrect, PTL DEF Spec
-----------------------------------------------------------------------------
(* Nothing happens before the message is queued.                            *)
QuietBefore == ~queued => events = {} /\ ~exists /\ \A w \in Workers : pc[w] = "idle"
NoAdmin == admin.pc = "idle"
-----------------------------------------------------------------------------
(* What a worker may do to a recipient *)

(* A recipient is pending or final.                                         *)
LEMMA PendingOrFinal ==
  ASSUME NEW m \in Message, NEW r \in Rcpts
  PROVE  Pending(m.rcpts[r]) <=> ~Final(m.rcpts[r])
<1>1. m.rcpts[r].status \in Statuses
  BY DEF Message, Recipient
<1> QED BY <1>1 DEF Pending, Final, Statuses

(* build_dsn flags what is final.                                           *)
LEMMA BuildDsnFlags ==
  ASSUME NEW m \in Message, NEW r \in Rcpts, Final(m.rcpts[r])
  PROVE  BuildDsn(m).rcpts[r].dsn
<1>1. m.rcpts[r] \in Recipient
  BY DEF Message
<1>2. BuildDsn(m).rcpts[r] = [m.rcpts[r] EXCEPT !.dsn = TRUE]
  BY DEF BuildDsn, Message
<1> QED BY <1>1, <1>2 DEF Recipient

(* build_dsn and marking leave the quota keys alone.                        *)
LEMMA SameQuota ==
  ASSUME NEW m \in Message
  PROVE  BuildDsn(m).quota = m.quota /\ MarkExpired(m).quota = m.quota
  BY DEF BuildDsn, MarkExpired, Message

(* Who is reported as failed: failures not yet flagged, once each.          *)
LEMMA DsnCounts ==
  ASSUME TypeOK, NEW m, QueueDsn(m), NEW r \in Rcpts
  PROVE  \/ bounced'[r] = bounced[r]
         \/ /\ bounced'[r] = bounced[r] + 1
            /\ m.rcpts[r].status = "perm" /\ ~m.rcpts[r].dsn
<1>1. CASE r \in FailureDsn(m)
  BY <1>1 DEF QueueDsn, FailureDsn
<1>2. CASE r \notin FailureDsn(m)
  BY <1>2 DEF QueueDsn
<1> QED BY <1>1, <1>2

(* The fate of recipient r in a step in which worker w works on its copy:   *)
(* x is its state before, y after.                                          *)
Worked(w, r, x, y) ==
  /\ Final(x) => y.status = x.status /\ y.queue = x.queue
  /\ Final(y) => y.queue = x.queue /\ ((Final(x) => x.dsn) => y.dsn)
  /\ y.queue # x.queue => x.queue = ev[w].queue /\ y.queue \in RetryQueues[ev[w].queue]
  /\ Pending(x) /\ Final(y) /\ pc[w] = "deliver" => x.queue = ev[w].queue
  /\ \/ delivered'[r] = delivered[r] /\ (y.status = "done" => x.status = "done")
     \/ /\ delivered'[r] = delivered[r] + 1 /\ bounced'[r] = bounced[r]
        /\ Pending(x) /\ y.status = "done" /\ x.queue = ev[w].queue
  /\ \/ bounced'[r] = bounced[r]
     \/ bounced'[r] = bounced[r] + 1 /\ y.status = "perm" /\ (Final(x) => ~x.dsn)

(* deliver_task up to the attempt.                                          *)
LEMMA BeginWorks ==
  ASSUME TypeOK, NEW w \in Workers, Begin(w), NEW r \in Rcpts
  PROVE  Worked(w, r, copy[w].rcpts[r], copy'[w].rcpts[r])
<1> DEFINE c == copy[w]
           m == MarkExpired(c)
           x == c.rcpts[r]
           z == m.rcpts[r]
           y == BuildDsn(m).rcpts[r]
<1>1. c \in Message /\ m \in Message /\ x \in Recipient
  BY MarkExpiredType DEF TypeOK, Message
<1>2. copy'[w] = BuildDsn(m) /\ QueueDsn(m) /\ pc[w] = "read" /\ UNCHANGED <<delivered, ev>>
  BY DEF Begin, TypeOK
<1>3. z = IF Pending(x) /\ IsExpired(x) THEN [x EXCEPT !.status = "perm"] ELSE x
  BY <1>1 DEF MarkExpired, Message
<1>4. [x EXCEPT !.status = "perm"].queue = x.queue /\ [x EXCEPT !.status = "perm"].dsn = x.dsn
      /\ [x EXCEPT !.status = "perm"].status = "perm"
  BY <1>1 DEF Recipient
<1>5. y.status = z.status /\ y.queue = z.queue /\ (Final(z) => y.dsn)
  BY <1>1, BuildDsnRcpt, BuildDsnFlags
<1>6. bounced'[r] = bounced[r] \/ (bounced'[r] = bounced[r] + 1 /\ z.status = "perm" /\ ~z.dsn)
  BY <1>2, DsnCounts
<1>7. Pending(x) <=> ~Final(x)
  BY <1>1, PendingOrFinal
<1> HIDE DEF c, m, x, y, z
<1>8. z.queue = x.queue /\ z.dsn = x.dsn /\ (z.status = x.status \/ (z.status = "perm" /\ Pending(x)))
  BY <1>3, <1>4
<1>9. Worked(w, r, x, y)
  BY <1>2, <1>5, <1>6, <1>7, <1>8 DEF Worked, Final, Pending
<1> QED BY <1>2, <1>9 DEF c, x, y

(* A throttled sender.                                                      *)
LEMMA ThrottleWorks ==
  ASSUME TypeOK, NEW w \in Workers, Throttle(w), NEW r \in Rcpts
  PROVE  Worked(w, r, copy[w].rcpts[r], copy'[w].rcpts[r])
<1> DEFINE D == DueIn(copy[w], ev[w].queue)
           x == copy[w].rcpts[r]
           y == copy'[w].rcpts[r]
<1>1. copy[w] \in Message /\ x \in Recipient /\ UNCHANGED <<delivered, bounced, ev>>
  BY DEF TypeOK, Message, Throttle, history
<1>2. y = IF r \in D THEN RateLimited(x) ELSE x
  BY <1>1 DEF Throttle, TypeOK, Message
<1>3. RateLimited(x).status = "temp" /\ RateLimited(x).queue = x.queue
  BY <1>1 DEF RateLimited, Recipient
<1>4. r \in D => Pending(x)
  BY DEF DueIn, PendingIn
<1>5. Pending(x) <=> ~Final(x)
  BY <1>1, PendingOrFinal
<1>6. x.dsn \in BOOLEAN
  BY <1>1 DEF Recipient
<1> HIDE DEF D, x, y
<1>7. Worked(w, r, x, y)
  BY <1>1, <1>2, <1>3, <1>4, <1>5 DEF Worked, Final, Pending
<1> QED BY <1>7 DEF x, y

(* The routes are attempted.                                                *)
LEMMA AttemptWorks ==
  ASSUME TypeOK, NEW w \in Workers, Attempt(w), NEW r \in Rcpts
  PROVE  Worked(w, r, copy[w].rcpts[r], copy'[w].rcpts[r])
<1> DEFINE D == DueIn(copy[w], ev[w].queue)
           x == copy[w].rcpts[r]
<1>1. PICK m \in Message :
        /\ copy' = [copy EXCEPT ![w] = BuildDsn(m)]
        /\ QueueDsn(m)
        /\ \A s \in Rcpts \ D : m.rcpts[s] = copy[w].rcpts[s] /\ delivered'[s] = delivered[s]
        /\ \A s \in Rcpts \cap D :
             /\ m.rcpts[s].dsn = copy[w].rcpts[s].dsn
             /\ m.rcpts[s].queue \in {copy[w].rcpts[s].queue} \cup RetryQueues[ev[w].queue]
             /\ m.rcpts[s].queue = copy[w].rcpts[s].queue \/ m.rcpts[s].status = "temp"
             /\ delivered'[s] = IF m.rcpts[s].status = "done" THEN delivered[s] + 1
                                                              ELSE delivered[s]
  BY AttemptApplied
<1> DEFINE z == m.rcpts[r]
           y == copy'[w].rcpts[r]
<1>2. copy'[w] = BuildDsn(m) /\ copy[w] \in Message /\ pc[w] = "deliver"
  BY <1>1 DEF TypeOK, Attempt
<1>3. y.status = z.status /\ y.queue = z.queue /\ (Final(z) => y.dsn)
  BY <1>1, <1>2, BuildDsnRcpt, BuildDsnFlags
<1>4. bounced'[r] = bounced[r] \/ (bounced'[r] = bounced[r] + 1 /\ z.status = "perm" /\ ~z.dsn)
  BY <1>1, DsnCounts
<1>5. Pending(x) <=> ~Final(x)
  BY <1>2, PendingOrFinal
<1>6. r \in D => Pending(x) /\ x.queue = ev[w].queue
  BY DEF DueIn, PendingIn
<1>7. CASE r \in D
  <2>1. /\ z.dsn = x.dsn
        /\ z.queue \in {x.queue} \cup RetryQueues[ev[w].queue]
        /\ z.queue = x.queue \/ z.status = "temp"
        /\ delivered'[r] = IF z.status = "done" THEN delivered[r] + 1 ELSE delivered[r]
    BY <1>1, <1>7
  <2> HIDE DEF D, x, y, z
  <2>2. Worked(w, r, x, y)
    BY <1>3, <1>4, <1>5, <1>6, <1>7, <2>1 DEF Worked, Final
  <2> QED BY <2>2 DEF x, y
<1>8. CASE r \notin D
  <2>1. z = x /\ delivered'[r] = delivered[r]
    BY <1>1, <1>8
  <2> HIDE DEF D, x, y, z
  <2>2. Worked(w, r, x, y)
    BY <1>3, <1>4, <1>5, <2>1 DEF Worked, Final, Pending
  <2> QED BY <2>2 DEF x, y
<1> QED BY <1>7, <1>8

(* Working on a copy: the frame of the three steps.                         *)
LEMMA WorkFrame ==
  ASSUME TypeOK, NEW w \in Workers, Begin(w) \/ Throttle(w) \/ Attempt(w)
  PROVE  /\ UNCHANGED <<queued, exists, msg, events, usage, linked, admin, faulted, ev, multi>>
         /\ pc[w] \in {"read", "deliver"} /\ pc'[w] \in {"deliver", "save", "remove"}
         /\ \A v \in Workers : v # w => pc'[v] = pc[v] /\ copy'[v] = copy[v]
         /\ copy'[w].quota = copy[w].quota
         /\ \A r \in Rcpts : Worked(w, r, copy[w].rcpts[r], copy'[w].rcpts[r])
         /\ pc'[w] \in {"deliver", "save"} => (pc[w] = "deliver" /\ Throttle(w)) \/ PendingIn(copy'[w]) # {}
<1>1. UNCHANGED <<queued, exists, msg, events, usage, linked, admin, faulted, ev, multi>>
  BY Zenon DEF Begin, Throttle, Attempt, store
<1>2. \A r \in Rcpts : Worked(w, r, copy[w].rcpts[r], copy'[w].rcpts[r])
  BY BeginWorks, ThrottleWorks, AttemptWorks
<1>3. CASE Begin(w)
  <2> DEFINE m == MarkExpired(copy[w])
  <2>1. copy[w] \in Message /\ m \in Message
    BY MarkExpiredType DEF TypeOK
  <2>2. /\ pc[w] = "read"
        /\ copy' = [copy EXCEPT ![w] = BuildDsn(m)]
        /\ pc' = [pc EXCEPT ![w] = IF PendingIn(BuildDsn(m)) = {} THEN "remove"
                                   ELSE IF DueIn(BuildDsn(m), ev[w].queue) # {} THEN "deliver"
                                   ELSE "save"]
    BY <1>3, Zenon DEF Begin
  <2>3. BuildDsn(m).quota = copy[w].quota
    BY <2>1, SameQuota
  <2> HIDE DEF m
  <2>4. copy'[w] = BuildDsn(m) /\ \A v \in Workers : v # w => pc'[v] = pc[v] /\ copy'[v] = copy[v]
    BY <2>2 DEF TypeOK
  <2>5. /\ pc'[w] \in {"deliver", "save", "remove"}
        /\ pc'[w] \in {"deliver", "save"} => PendingIn(BuildDsn(m)) # {}
    BY <2>2 DEF TypeOK
  <2> QED BY <1>1, <1>2, <2>2, <2>3, <2>4, <2>5
<1>4. CASE Throttle(w)
  BY <1>1, <1>2, <1>4 DEF Throttle, TypeOK, Message
<1>5. CASE Attempt(w)
  <2>1. PICK m \in Message :
          /\ copy' = [copy EXCEPT ![w] = BuildDsn(m)]
          /\ pc' = [pc EXCEPT ![w] = AfterAttempt(m, ev[w].queue)]
          /\ m.quota = copy[w].quota
    BY <1>5, AttemptApplied
  <2>2. BuildDsn(m).quota = copy[w].quota /\ PendingIn(BuildDsn(m)) = PendingIn(m)
    BY <2>1, SameQuota, BuildDsnPending
  <2>3. copy'[w] = BuildDsn(m) /\ \A v \in Workers : v # w => pc'[v] = pc[v] /\ copy'[v] = copy[v]
    BY <2>1 DEF TypeOK
  <2>4. /\ pc'[w] \in {"save", "remove"}
        /\ pc'[w] = "save" => PendingIn(m) # {}
    BY <2>1 DEF TypeOK, AfterAttempt
  <2> QED BY <1>1, <1>2, <1>5, <2>2, <2>3, <2>4 DEF Attempt
<1> QED BY <1>3, <1>4, <1>5

(* A worker's other steps away from the store.                              *)
LEMMA IdleFrame ==
  ASSUME TypeOK, NEW w \in Workers,
         \/ Pick(w) \/ TryLock(w) \/ ClearEvent(w) \/ Unlock(w) \/ Crash(w)
         \/ Read(w) /\ pc'[w] = "gone"
  PROVE  /\ ~HasCopy(w)'
         /\ \A v \in Workers : v # w => /\ pc'[v] = pc[v] /\ copy'[v] = copy[v]
                                       /\ multi'[v] = multi[v] /\ ev'[v] = ev[v]
         /\ UNCHANGED <<queued, exists, msg, usage, linked, admin, history>>
         /\ ~Crash(w) => ~HasCopy(w)
         /\ Crash(w) => faulted' = faulted + 1
         /\ faulted' \in {faulted, faulted + 1}
<1>1. pc'[w] \notin {"read", "deliver", "save", "remove"}
  BY DEF Pick, TryLock, ClearEvent, Unlock, Crash, Leave, TypeOK
<1>2. \A v \in Workers : v # w => /\ pc'[v] = pc[v] /\ copy'[v] = copy[v]
                                  /\ multi'[v] = multi[v] /\ ev'[v] = ev[v]
  BY DEF Pick, TryLock, ClearEvent, Unlock, Crash, Leave, Read, TypeOK
<1>3. UNCHANGED <<queued, exists, msg, usage, linked, admin, history>>
  BY Zenon DEF Pick, TryLock, ClearEvent, WriteFails, Unlock, Crash, Read, store
<1>4. ~Crash(w) => ~HasCopy(w)
  BY DEF Pick, TryLock, ClearEvent, Unlock, Read, HasCopy
<1>5. (Crash(w) => faulted' = faulted + 1) /\ faulted' \in {faulted, faulted + 1}
  BY DEF Pick, TryLock, ClearEvent, WriteFails, Unlock, Crash, Read
<1> QED BY <1>1, <1>2, <1>3, <1>4, <1>5 DEF HasCopy

(* Writing back: the batch fails, or merges, or replaces, or removes.       *)
LEMMA WriteFrame ==
  ASSUME TypeOK, NEW w \in Workers, Save(w) \/ Remove(w)
  PROVE  /\ HasCopy(w) /\ ~HasCopy(w)' /\ pc'[w] = "unlock"
         /\ \A v \in Workers : v # w => /\ pc'[v] = pc[v] /\ copy'[v] = copy[v]
                                       /\ multi'[v] = multi[v]
         /\ UNCHANGED <<queued, admin, ev, history>>
         /\ \/ UNCHANGED store /\ (faulted' = faulted + 1 \/ (multi[w] /\ ~exists /\ faulted' = faulted))
            \/ /\ Save(w) /\ multi[w] /\ exists /\ faulted' = faulted
               /\ SaveBatch(copy[w], ev[w].queue, multi[w], {ev[w]})
               /\ exists' = TRUE /\ msg'.quota = msg.quota
               /\ \A r \in Rcpts : msg'.rcpts[r] = IF copy[w].rcpts[r].queue = ev[w].queue
                                                     THEN copy[w].rcpts[r] ELSE msg.rcpts[r]
            \/ /\ Save(w) /\ ~multi[w] /\ faulted' = faulted
               /\ SaveBatch(copy[w], ev[w].queue, multi[w], {ev[w]})
               /\ exists' = TRUE /\ msg'.rcpts = copy[w].rcpts
               /\ msg'.quota = copy[w].quota \ Releasable(copy[w])
            \/ /\ Remove(w) /\ RemoveBatch(copy[w], {ev[w]}) /\ faulted' = faulted
               /\ exists' = FALSE /\ msg' = msg
<1> DEFINE c == copy[w]
           q == ev[w].queue
<1>1. c \in Message /\ msg \in Message
  BY DEF TypeOK
<1>2. /\ HasCopy(w) /\ pc'[w] = "unlock"
      /\ \A v \in Workers : v # w => /\ pc'[v] = pc[v] /\ copy'[v] = copy[v]
                                     /\ multi'[v] = multi[v]
  BY DEF Save, Remove, Consumed, TypeOK, HasCopy
<1>3. UNCHANGED <<queued, admin, ev, history>>
  BY Zenon DEF Save, Remove
<1>4. ~HasCopy(w)'
  BY <1>2 DEF HasCopy
<1>5. CASE WriteFails
  BY <1>2, <1>3, <1>4, <1>5 DEF WriteFails
<1>6. CASE Remove(w) /\ ~WriteFails
  BY <1>2, <1>3, <1>4, <1>6, Zenon DEF Remove, RemoveBatch
<1>7. CASE Save(w) /\ ~WriteFails
  <2>1. SaveBatch(c, q, multi[w], {ev[w]}) /\ UNCHANGED faulted
    BY <1>7, Zenon DEF Save
  <2>2. CASE multi[w] /\ ~exists
    <3>1. UNCHANGED store
      BY <2>1, <2>2, Zenon DEF SaveBatch
    <3> QED BY <1>2, <1>3, <1>4, <2>1, <2>2, <3>1
  <2>3. CASE multi[w] /\ exists
    <3>1. msg' = MergeRcpts(c, q) /\ exists' = TRUE
      BY <2>1, <2>3, Zenon DEF SaveBatch
    <3>2. /\ \A r \in Rcpts : msg'.rcpts[r] = IF c.rcpts[r].queue = q THEN c.rcpts[r] ELSE msg.rcpts[r]
          /\ msg'.quota = msg.quota
      BY <1>1, <3>1 DEF MergeRcpts, Message
    <3> QED BY <1>2, <1>3, <1>4, <1>7, <2>1, <2>3, <3>1, <3>2
  <2>4. CASE ~multi[w]
    <3>1. msg' = [c EXCEPT !.quota = @ \ Releasable(c)] /\ exists' = TRUE
      BY <2>1, <2>4, Zenon DEF SaveBatch
    <3>2. msg'.rcpts = c.rcpts /\ msg'.quota = c.quota \ Releasable(c)
      BY <1>1, <3>1 DEF Message
    <3> QED BY <1>2, <1>3, <1>4, <1>7, <2>1, <2>4, <3>1, <3>2
  <2> QED BY <2>2, <2>3, <2>4
<1> QED BY <1>5, <1>6, <1>7

-----------------------------------------------------------------------------
(***************************************************************************)
(* No quota is used up for good.  The counters only grow when the message  *)
(* is queued, so whoever has a copy holds at least what they contain.      *)
(***************************************************************************)
Covers(m) == usage <= Cardinality(m.quota)

LeakInv ==
  /\ QuotaNeverLeaks
  /\ exists => queued
  /\ ~queued => usage = 0
  /\ \A w \in Workers : HasCopy(w) => queued /\ Covers(copy[w])
  /\ admin.pc = "read" => queued /\ Covers(admin.copy)

(* save_changes keeps the keys of what it does not release.                 *)
LEMMA SaveCovers ==
  ASSUME TypeOK, QuotaNeverLeaks, NEW m \in Message, Covers(m), NEW q, NEW b, NEW prev,
         SaveBatch(m, q, b, prev)
  PROVE  usage' <= usage /\ QuotaNeverLeaks'
<1> DEFINE R == Releasable(m)
<1>1. /\ m.quota \in SUBSET QuotaKeys /\ R \in SUBSET QuotaKeys /\ R \subseteq m.quota
      /\ msg \in Message /\ usage \in Int
  BY DEF Message, Releasable, QuotaKeys, TypeOK
<1>2. /\ IsFiniteSet(m.quota) /\ Cardinality(m.quota) \in Nat /\ Cardinality(R) \in Nat
      /\ Cardinality(msg.quota) \in Nat
  BY <1>1, CardinalityType DEF Message
<1>3. Cardinality(m.quota \ R) = Cardinality(m.quota) - Cardinality(R)
  <2>1. m.quota \cap R = R
    BY <1>1
  <2> QED BY <1>2, <2>1, FS_Difference
<1>4. CASE b /\ ~exists
  BY <1>1, <1>4 DEF SaveBatch, store, QuotaNeverLeaks
<1>5. CASE b /\ exists
  <2>1. usage' = usage - Cardinality(R) /\ exists' = TRUE /\ msg' = MergeRcpts(m, q)
    BY <1>5, Zenon DEF SaveBatch
  <2>2. msg'.quota = msg.quota
    BY <1>1, <2>1 DEF MergeRcpts, Message
  <2>3. usage <= Cardinality(msg.quota)
    BY <1>5 DEF QuotaNeverLeaks
  <2> HIDE DEF R
  <2>4. usage' <= usage /\ usage' <= Cardinality(msg'.quota)
    BY <1>1, <1>2, <2>1, <2>2, <2>3
  <2> QED BY <2>1, <2>4 DEF QuotaNeverLeaks
<1>6. CASE ~b
  <2>1. usage' = usage - Cardinality(R) /\ exists' = TRUE /\ msg' = [m EXCEPT !.quota = @ \ R]
    BY <1>6, Zenon DEF SaveBatch
  <2>2. msg'.quota = m.quota \ R
    BY <2>1 DEF Message
  <2> HIDE DEF R
  <2>3. usage' <= usage /\ usage' <= Cardinality(msg'.quota)
    BY <1>1, <1>2, <1>3, <2>1, <2>2 DEF Covers
  <2> QED BY <2>1, <2>3 DEF QuotaNeverLeaks
<1> QED BY <1>4, <1>5, <1>6

(* remove releases all that the copy holds.                                 *)
LEMMA RemoveCovers ==
  ASSUME TypeOK, NEW m \in Message, Covers(m), NEW prev, RemoveBatch(m, prev)
  PROVE  usage' <= usage /\ QuotaNeverLeaks'
<1>1. Cardinality(m.quota) \in Nat /\ usage \in Int
  BY CardinalityType DEF Message, TypeOK
<1>2. usage' = usage - Cardinality(m.quota) /\ exists' = FALSE
  BY DEF RemoveBatch
<1> QED BY <1>1, <1>2 DEF Covers, QuotaNeverLeaks

(* A step that writes nothing new and copies nothing new.                   *)
LEMMA LeakFrame ==
  ASSUME TypeOK, TypeOK', LeakInv, UNCHANGED queued, usage' <= usage, QuotaNeverLeaks', queued,
         \A w \in Workers : HasCopy(w)' => HasCopy(w) /\ copy'[w].quota = copy[w].quota,
         admin'.pc = "read" => UNCHANGED admin
  PROVE  LeakInv'
<1>1. usage \in Int /\ usage' \in Int
  BY DEF TypeOK
<1>2. ASSUME NEW w \in Workers, HasCopy(w)' PROVE Covers(copy[w])'
  <2>1. Cardinality(copy[w].quota) \in Nat /\ usage <= Cardinality(copy[w].quota)
    BY <1>2, CardinalityType DEF LeakInv, Covers, TypeOK, Message
  <2>2. copy'[w].quota = copy[w].quota
    BY <1>2
  <2> QED BY <1>1, <2>1, <2>2 DEF Covers
<1>3. ASSUME admin'.pc = "read" PROVE Covers(admin.copy)'
  <2>1. admin' = admin /\ admin.copy \in Message
    BY <1>3 DEF TypeOK
  <2>2. Cardinality(admin.copy.quota) \in Nat /\ usage <= Cardinality(admin.copy.quota)
    BY <1>3, <2>1, CardinalityType DEF LeakInv, Covers, Message
  <2> QED BY <1>1, <2>1, <2>2 DEF Covers
<1> QED BY <1>2, <1>3 DEF LeakInv

(* A request rewrites the message, or removes it, or nothing is written.    *)
LEMMA RequestWrites ==
  ASSUME TypeOK, AdminReschedule \/ AdminCancel \/ AdminDelete
  PROVE  \/ UNCHANGED store
         \/ \E m \in Message : /\ m.quota = admin.copy.quota
                               /\ \/ \E prev : RemoveBatch(m, prev)
                                  \/ SaveBatch(m, DefaultQueue, admin.multi, {})
<1>0. /\ admin.copy \in Message /\ now \in Nat
      /\ \A r \in Rcpts : admin.copy.rcpts[r] \in Recipient
  BY DEF TypeOK, Message
<1>1. CASE AdminDelete
  <2>1. RemoveBatch(admin.copy, NextEvents(admin.copy)) \/ RequestFails
    BY <1>1, Zenon DEF AdminDelete
  <2> QED BY <1>0, <2>1, Zenon DEF RequestFails
<1>2. CASE AdminReschedule
  <2>1. PICK S \in SUBSET Rcpts, t \in {now, now + 1} :
          LET found == S \cap PendingIn(admin.copy)
              m == [admin.copy EXCEPT !.rcpts = [r \in Rcpts |->
                      IF r \in found THEN Rescheduled(admin.copy.rcpts[r], t)
                                     ELSE admin.copy.rcpts[r]]]
          IN \/ found # {} /\ SaveBatch(m, DefaultQueue, admin.multi, {}) /\ UNCHANGED faulted
             \/ found = {} /\ UNCHANGED <<store, faulted>>
             \/ found # {} /\ RequestFails
    BY <1>2, Zenon DEF AdminReschedule
  <2> DEFINE found == S \cap PendingIn(admin.copy)
             rcpts == [r \in Rcpts |-> IF r \in found THEN Rescheduled(admin.copy.rcpts[r], t)
                                                      ELSE admin.copy.rcpts[r]]
             m == [admin.copy EXCEPT !.rcpts = rcpts]
  <2>2. \A r \in Rcpts : Rescheduled(admin.copy.rcpts[r], t) \in Recipient
    BY <1>0, RescheduledType
  <2>3. rcpts \in [Rcpts -> Recipient]
    BY <1>0, <2>2
  <2>4. SaveBatch(m, DefaultQueue, admin.multi, {}) \/ UNCHANGED store
    BY <2>1, Zenon DEF RequestFails
  <2> HIDE DEF rcpts
  <2>5. m \in Message
    BY <1>0, <2>3, WithRcpts
  <2>6. m.quota = admin.copy.quota
    BY <1>0 DEF Message
  <2> HIDE DEF m
  <2> QED BY <2>4, <2>5, <2>6, Zenon
<1>3. CASE AdminCancel
  <2>1. PICK S \in SUBSET Rcpts \ {{}} :
          LET m == [admin.copy EXCEPT !.rcpts = [r \in Rcpts |->
                      IF r \in S THEN [admin.copy.rcpts[r] EXCEPT !.status = "perm"]
                                 ELSE admin.copy.rcpts[r]]]
          IN \/ /\ IF PendingIn(m) # {} THEN SaveBatch(m, DefaultQueue, admin.multi, {})
                                        ELSE RemoveBatch(m, NextEvents(m))
                /\ canceled' = canceled \cup S
                /\ UNCHANGED faulted
             \/ RequestFails /\ UNCHANGED canceled
    BY <1>3, Zenon DEF AdminCancel
  <2> DEFINE rcpts == [r \in Rcpts |-> IF r \in S
                                         THEN [admin.copy.rcpts[r] EXCEPT !.status = "perm"]
                                         ELSE admin.copy.rcpts[r]]
             m == [admin.copy EXCEPT !.rcpts = rcpts]
  <2>2. \A r \in Rcpts : [admin.copy.rcpts[r] EXCEPT !.status = "perm"] \in Recipient
    BY <1>0, WithStatus DEF Statuses
  <2>3. rcpts \in [Rcpts -> Recipient]
    BY <1>0, <2>2
  <2>4. \/ SaveBatch(m, DefaultQueue, admin.multi, {})
        \/ RemoveBatch(m, NextEvents(m))
        \/ UNCHANGED store
    BY <2>1, Zenon DEF RequestFails
  <2> HIDE DEF rcpts
  <2>5. m \in Message
    BY <1>0, <2>3, WithRcpts
  <2>6. m.quota = admin.copy.quota
    BY <1>0 DEF Message
  <2> HIDE DEF m
  <2> QED BY <2>4, <2>5, <2>6, Zenon
<1> QED BY <1>1, <1>2, <1>3

(* Every step keeps what is counted within what is held.                    *)
LEMMA LeakPreserved ==
  ASSUME TypeOK, TypeOK', LeakInv, [Next]_vars
  PROVE  LeakInv'
<1>0. usage \in Int /\ usage' \in Int /\ admin.copy \in Message /\ QuotaNeverLeaks
  BY DEF TypeOK, LeakInv
<1>1. CASE Enqueue
  <2>1. /\ ~queued /\ queued' = TRUE /\ exists' = TRUE
        /\ usage' = usage + Cardinality(msg'.quota) /\ UNCHANGED <<pc, copy, admin>>
    BY <1>1 DEF Enqueue, worker
  <2>2. usage = 0 /\ admin.pc # "read" /\ \A w \in Workers : ~HasCopy(w)
    BY <2>1 DEF LeakInv
  <2>3. Cardinality(msg'.quota) \in Nat
    BY CardinalityType DEF TypeOK, Message
  <2>4. QuotaNeverLeaks'
    BY <2>1, <2>2, <2>3 DEF QuotaNeverLeaks
  <2>5. \A w \in Workers : ~HasCopy(w)'
    BY <2>1, <2>2 DEF HasCopy
  <2> QED BY <2>1, <2>2, <2>4, <2>5 DEF LeakInv
<1>2. CASE AdminRead
  <2>1. /\ UNCHANGED <<queued, exists, msg, usage, pc, copy>>
        /\ exists /\ admin'.copy = msg
    BY <1>2 DEF AdminRead, store, worker
  <2>2. usage <= Cardinality(msg.quota)
    BY <1>0, <2>1 DEF QuotaNeverLeaks
  <2>3. queued
    BY <2>1 DEF LeakInv
  <2> QED BY <1>0, <2>1, <2>2, <2>3 DEF LeakInv, Covers, QuotaNeverLeaks, HasCopy
<1>3. CASE AdminReschedule \/ AdminCancel \/ AdminDelete
  <2>1. UNCHANGED <<queued, pc, copy>> /\ admin' = NoRequest /\ admin.pc = "read"
    BY <1>3, Zenon DEF AdminReschedule, AdminCancel, AdminDelete, worker
  <2>2. queued /\ Covers(admin.copy)
    BY <2>1 DEF LeakInv
  <2>3. usage' <= usage /\ QuotaNeverLeaks'
    <3>1. CASE UNCHANGED store
      BY <1>0, <3>1 DEF store, QuotaNeverLeaks
    <3>2. CASE ~UNCHANGED store
      <4>1. PICK m \in Message : /\ m.quota = admin.copy.quota
                                 /\ \/ \E prev : RemoveBatch(m, prev)
                                    \/ SaveBatch(m, DefaultQueue, admin.multi, {})
        BY <1>3, <3>2, RequestWrites
      <4>2. Covers(m)
        BY <2>2, <4>1 DEF Covers
      <4> QED BY <1>0, <4>1, <4>2, SaveCovers, RemoveCovers
    <3> QED BY <3>1, <3>2
  <2>4. admin'.pc # "read"
    BY <2>1 DEF NoRequest
  <2>5. \A w \in Workers : HasCopy(w)' => HasCopy(w) /\ copy'[w].quota = copy[w].quota
    BY <2>1 DEF HasCopy
  <2> QED BY <2>1, <2>2, <2>3, <2>4, <2>5, LeakFrame
<1>4. CASE Tick \/ UNCHANGED vars
  BY <1>4 DEF Tick, vars, store, worker, LeakInv, Covers, QuotaNeverLeaks, HasCopy
<1>5. ASSUME NEW w \in Workers, WorkerStep(w) \/ Crash(w) PROVE LeakInv'
  <2>1. CASE \/ Pick(w) \/ TryLock(w) \/ ClearEvent(w) \/ Unlock(w) \/ Crash(w)
             \/ Read(w) /\ pc'[w] = "gone"
    BY <2>1, IdleFrame DEF LeakInv, Covers, QuotaNeverLeaks, HasCopy
  <2>2. CASE Read(w) /\ pc'[w] # "gone"
    <3>1. /\ UNCHANGED <<queued, exists, msg, usage, admin>> /\ exists
          /\ copy'[w] = msg
          /\ \A v \in Workers : v # w => pc'[v] = pc[v] /\ copy'[v] = copy[v]
      BY <2>2 DEF Read, TypeOK, store
    <3>2. queued /\ usage <= Cardinality(msg.quota)
      BY <1>0, <3>1 DEF LeakInv, QuotaNeverLeaks
    <3> QED BY <3>1, <3>2 DEF LeakInv, Covers, QuotaNeverLeaks, HasCopy
  <2>3. CASE Begin(w) \/ Throttle(w) \/ Attempt(w)
    <3>1. /\ UNCHANGED <<queued, exists, msg, usage, admin>> /\ HasCopy(w)
          /\ copy'[w].quota = copy[w].quota
          /\ \A v \in Workers : v # w => pc'[v] = pc[v] /\ copy'[v] = copy[v]
      BY <2>3, WorkFrame DEF HasCopy
    <3> QED BY <3>1 DEF LeakInv, Covers, QuotaNeverLeaks, HasCopy
  <2>4. CASE Save(w) \/ Remove(w)
    <3>1. /\ HasCopy(w) /\ ~HasCopy(w)' /\ UNCHANGED <<queued, admin>>
          /\ \A v \in Workers : v # w => pc'[v] = pc[v] /\ copy'[v] = copy[v]
          /\ \/ UNCHANGED store
             \/ SaveBatch(copy[w], ev[w].queue, multi[w], {ev[w]})
             \/ RemoveBatch(copy[w], {ev[w]})
      BY <2>4, WriteFrame
    <3>2. queued /\ Covers(copy[w]) /\ copy[w] \in Message
      BY <3>1 DEF LeakInv, TypeOK
    <3>3. usage' <= usage /\ QuotaNeverLeaks'
      <4>1. CASE UNCHANGED store
        BY <1>0, <4>1 DEF store, QuotaNeverLeaks
      <4> QED BY <1>0, <3>1, <3>2, <4>1, SaveCovers, RemoveCovers
    <3>4. \A v \in Workers : HasCopy(v)' => HasCopy(v) /\ copy'[v].quota = copy[v].quota
      BY <3>1 DEF HasCopy
    <3> QED BY <3>1, <3>2, <3>3, <3>4, LeakFrame
  <2> QED BY <1>5, <2>1, <2>2, <2>3, <2>4 DEF WorkerStep
<1> QED BY <1>1, <1>2, <1>3, <1>4, <1>5 DEF Next

(* For any queues, workers, faults and requests, attempts that overrun      *)
(* their lock included: the counters never hold more than the stored        *)
(* message has to release, and nothing once it is gone, so save_changes and *)
(* remove never leave a quota used up for good.                             *)
THEOREM NoQuotaLeaks == Spec => []QuotaNeverLeaks
<1>1. Init => LeakInv
  BY DEF Init, LeakInv, QuotaNeverLeaks, HasCopy, NoRequest
<1>2. TypeOK /\ TypeOK' /\ LeakInv /\ [Next]_vars => LeakInv'
  BY LeakPreserved
<1>3. LeakInv => QuotaNeverLeaks
  BY DEF LeakInv
<1> QED BY <1>1, <1>2, <1>3, TypeCorrect, PTL DEF Spec

-----------------------------------------------------------------------------
(* What is final stays final *)

(* The setting: attempts end before LOCK_EXPIRY, and the management API,    *)
(* which takes no lock, is not used.  Recipients may be moved to other      *)
(* queues, workers may crash, reads, writes and notifications may fail.     *)
Locked == "overrun" \notin Faults /\ MaxAdmin = 0

(* Worker w is in charge of recipient r: it belongs to the worker's queue   *)
(* or, in a copy that has work for no other queue, is still pending (an     *)
(* attempt may have just moved it).                                         *)
Claims(w, r) ==
  /\ HasCopy(w)
  /\ \/ copy[w].rcpts[r].queue = ev[w].queue
     \/ ~multi[w] /\ Pending(copy[w].rcpts[r])

Agree(x, y) == x.status = y.status /\ x.queue = y.queue

(* The stored recipient is in the queue of whoever is in charge of it, who  *)
(* knows when it is final.  A worker that will replace the whole message    *)
(* has the store's word on everybody else, and they are final.              *)
ClaimOK(w, r) ==
  HasCopy(w) =>
    /\ Claims(w, r) => msg.rcpts[r].queue = ev[w].queue
    /\ Claims(w, r) /\ Final(msg.rcpts[r]) => Agree(copy[w].rcpts[r], msg.rcpts[r])
    /\ ~multi[w] /\ ~Claims(w, r) => Final(msg.rcpts[r]) /\ Agree(copy[w].rcpts[r], msg.rcpts[r])
    /\ pc[w] = "read" /\ ~multi[w] /\ Pending(copy[w].rcpts[r]) =>
         copy[w].rcpts[r].queue = ev[w].queue

Charged == \A w \in Workers, r \in Rcpts : ClaimOK(w, r)
ClaimInv == QuietBefore /\ NoAdmin /\ Charged

(* Nothing changes for a worker that does nothing while the store stays.    *)
LEMMA ClaimKept ==
  ASSUME NEW v \in Workers, NEW r \in Rcpts, ClaimOK(v, r),
         Agree(msg'.rcpts[r], msg.rcpts[r]),
         pc'[v] = pc[v], copy'[v] = copy[v], multi'[v] = multi[v], ev'[v] = ev[v]
  PROVE  ClaimOK(v, r)'
  BY DEF ClaimOK, Claims, HasCopy, Agree, Final

(* Two workers are never in charge of one recipient.                        *)
LEMMA OneInCharge ==
  ASSUME LockInv, Charged, NEW v \in Workers, NEW w \in Workers, NEW r \in Rcpts,
         Claims(v, r), Claims(w, r)
  PROVE  v = w
<1>1. HasCopy(v) /\ HasCopy(w) /\ Busy(v) /\ Busy(w)
  BY DEF Claims, HasCopy, Busy
<1>2. ev[v].queue = ev[w].queue
  BY <1>1 DEF Charged, ClaimOK
<1> QED BY <1>1, <1>2 DEF LockInv, OneWorkerPerQueue

(* A worker reads.                                                          *)
LEMMA ReadClaims ==
  ASSUME TypeOK, Charged, NEW w \in Workers, Read(w), pc'[w] # "gone"
  PROVE  Charged'
<1>1. /\ UNCHANGED <<msg, ev>> /\ pc'[w] = "read" /\ copy'[w] = msg
      /\ multi'[w] = IsMultiQueue(msg, ev[w].queue)
      /\ \A v \in Workers : v # w => /\ pc'[v] = pc[v] /\ copy'[v] = copy[v]
                                     /\ multi'[v] = multi[v] /\ ev'[v] = ev[v]
  BY DEF Read, TypeOK, store
<1>2. ASSUME NEW r \in Rcpts PROVE ClaimOK(w, r)'
  <2>1. Pending(msg.rcpts[r]) <=> ~Final(msg.rcpts[r])
    BY PendingOrFinal DEF TypeOK
  <2>2. ~multi'[w] /\ Pending(msg.rcpts[r]) => msg.rcpts[r].queue = ev[w].queue
    BY <1>1 DEF IsMultiQueue, PendingIn
  <2> QED BY <1>1, <2>1, <2>2 DEF ClaimOK, Claims, Agree
<1>3. ASSUME NEW v \in Workers, NEW r \in Rcpts, v # w PROVE ClaimOK(v, r)'
  <2>1. ClaimOK(v, r)
    BY DEF Charged
  <2> QED BY <1>1, <1>3, <2>1, ClaimKept DEF Agree
<1> QED BY <1>2, <1>3 DEF Charged

(* A worker works on its copy: it takes charge of nobody.                   *)
LEMMA WorkClaims ==
  ASSUME TypeOK, Charged, NEW w \in Workers, Begin(w) \/ Throttle(w) \/ Attempt(w)
  PROVE  Charged' /\ \A r \in Rcpts : Claims(w, r)' => Claims(w, r)
<1>1. /\ UNCHANGED <<msg, ev, multi>>
      /\ pc[w] \in {"read", "deliver"} /\ pc'[w] \in {"deliver", "save", "remove"}
      /\ \A v \in Workers : v # w => pc'[v] = pc[v] /\ copy'[v] = copy[v]
      /\ \A r \in Rcpts : Worked(w, r, copy[w].rcpts[r], copy'[w].rcpts[r])
  BY WorkFrame
<1>2. copy[w] \in Message /\ copy'[w] \in Message
  BY NextType DEF TypeOK, Next, WorkerStep
<1>3. ASSUME NEW r \in Rcpts PROVE ClaimOK(w, r)' /\ (Claims(w, r)' => Claims(w, r))
  <2> DEFINE x == copy[w].rcpts[r]
             y == copy'[w].rcpts[r]
  <2>1. (Pending(x) <=> ~Final(x)) /\ (Pending(y) <=> ~Final(y))
    BY <1>2, PendingOrFinal
  <2>2. /\ Final(x) => y.status = x.status /\ y.queue = x.queue
        /\ Final(y) => y.queue = x.queue
        /\ y.queue # x.queue => x.queue = ev[w].queue
        /\ Pending(x) /\ Final(y) /\ pc[w] = "deliver" => x.queue = ev[w].queue
    BY <1>1 DEF Worked
  <2>3. HasCopy(w) /\ HasCopy(w)' /\ pc'[w] # "read"
    BY <1>1 DEF HasCopy
  <2>4. Claims(w, r)' <=> (y.queue = ev[w].queue \/ (~multi[w] /\ Pending(y)))
    BY <1>1, <2>3 DEF Claims
  <2>5. Claims(w, r) <=> (x.queue = ev[w].queue \/ (~multi[w] /\ Pending(x)))
    BY <2>3 DEF Claims
  <2>6. /\ Claims(w, r) => msg.rcpts[r].queue = ev[w].queue
        /\ Claims(w, r) /\ Final(msg.rcpts[r]) => Agree(x, msg.rcpts[r])
        /\ ~multi[w] /\ ~Claims(w, r) => Final(msg.rcpts[r]) /\ Agree(x, msg.rcpts[r])
        /\ pc[w] = "read" /\ ~multi[w] /\ Pending(x) => x.queue = ev[w].queue
    BY <2>3 DEF Charged, ClaimOK
  <2> HIDE DEF x, y
  <2>7. Claims(w, r)' => Claims(w, r)
    BY <2>1, <2>2, <2>4, <2>5 DEF Final
  <2>8. /\ Claims(w, r)' => msg.rcpts[r].queue = ev[w].queue
        /\ Claims(w, r)' /\ Final(msg.rcpts[r]) => Agree(y, msg.rcpts[r])
    <3>1. ASSUME Claims(w, r)', Final(msg.rcpts[r]) PROVE Agree(y, msg.rcpts[r])
      <4>1. Agree(x, msg.rcpts[r])
        BY <2>6, <2>7, <3>1
      <4>2. Final(x)
        BY <3>1, <4>1 DEF Agree, Final
      <4> QED BY <2>2, <4>1, <4>2 DEF Agree
    <3> QED BY <2>6, <2>7, <3>1
  <2>9. ~multi[w] /\ ~Claims(w, r)' => Final(msg.rcpts[r]) /\ Agree(y, msg.rcpts[r])
    <3> SUFFICES ASSUME ~multi[w], ~Claims(w, r)' PROVE Final(msg.rcpts[r]) /\ Agree(y, msg.rcpts[r])
      OBVIOUS
    <3>1. Final(y) /\ x.queue # ev[w].queue
      BY <2>1, <2>2, <2>4
    <3>2. ~Claims(w, r)
      BY <1>1, <2>2, <2>5, <2>6, <3>1
    <3>3. Final(x)
      BY <2>1, <2>5, <3>2
    <3> QED BY <2>2, <2>6, <3>2, <3>3 DEF Agree
  <2>10. /\ Claims(w, r)' => msg'.rcpts[r].queue = ev'[w].queue
         /\ Claims(w, r)' /\ Final(msg'.rcpts[r]) => Agree(y, msg'.rcpts[r])
         /\ ~multi'[w] /\ ~Claims(w, r)' => Final(msg'.rcpts[r]) /\ Agree(y, msg'.rcpts[r])
    BY <1>1, <2>8, <2>9
  <2> QED BY <2>3, <2>7, <2>10 DEF ClaimOK, y
<1>4. ASSUME NEW v \in Workers, NEW r \in Rcpts, v # w PROVE ClaimOK(v, r)'
  <2>1. ClaimOK(v, r)
    BY DEF Charged
  <2> QED BY <1>1, <1>4, <2>1, ClaimKept DEF Agree
<1> QED BY <1>3, <1>4 DEF Charged

(* A worker writes back: it changes whom it is in charge of, and nobody who *)
(* was final.                                                               *)
LEMMA WriteKeepsFinal ==
  ASSUME TypeOK, Charged, NEW w \in Workers, Save(w) \/ Remove(w), NEW r \in Rcpts
  PROVE  \/ Agree(msg'.rcpts[r], msg.rcpts[r])
         \/ Claims(w, r) /\ ~Final(msg.rcpts[r]) /\ msg'.rcpts[r] = copy[w].rcpts[r]
<1>1. /\ HasCopy(w)
      /\ \/ msg' = msg
         \/ multi[w] /\ msg'.rcpts[r] = IF copy[w].rcpts[r].queue = ev[w].queue
                                          THEN copy[w].rcpts[r] ELSE msg.rcpts[r]
         \/ ~multi[w] /\ msg'.rcpts = copy[w].rcpts
  BY WriteFrame DEF store
<1>2. /\ Claims(w, r) /\ Final(msg.rcpts[r]) => Agree(copy[w].rcpts[r], msg.rcpts[r])
      /\ ~multi[w] /\ ~Claims(w, r) => Agree(copy[w].rcpts[r], msg.rcpts[r])
  BY <1>1 DEF Charged, ClaimOK
<1>3. copy[w].rcpts[r].queue = ev[w].queue => Claims(w, r)
  BY <1>1 DEF Claims
<1> QED BY <1>1, <1>2, <1>3 DEF Agree

(* Writing back disturbs nobody else.                                       *)
LEMMA WriteClaims ==
  ASSUME TypeOK, LockInv, Charged, NEW w \in Workers, Save(w) \/ Remove(w)
  PROVE  Charged'
<1>1. /\ HasCopy(w) /\ ~HasCopy(w)' /\ UNCHANGED ev
      /\ \A v \in Workers : v # w => /\ pc'[v] = pc[v] /\ copy'[v] = copy[v]
                                     /\ multi'[v] = multi[v]
  BY WriteFrame
<1>2. ASSUME NEW v \in Workers, NEW r \in Rcpts PROVE ClaimOK(v, r)'
  <2>1. CASE v = w
    BY <1>1, <2>1 DEF ClaimOK
  <2>2. CASE v # w /\ Agree(msg'.rcpts[r], msg.rcpts[r])
    BY <1>1, <2>2, ClaimKept DEF Charged
  <2>3. CASE v # w /\ Claims(w, r) /\ ~Final(msg.rcpts[r])
    <3>1. ~Claims(v, r)
      BY <2>3, OneInCharge
    <3>2. HasCopy(v) => multi[v]
      BY <2>3, <3>1 DEF Charged, ClaimOK
    <3> QED BY <1>1, <2>3, <3>1, <3>2 DEF ClaimOK, Claims, HasCopy
  <2> QED BY <2>1, <2>2, <2>3, WriteKeepsFinal
<1> QED BY <1>2 DEF Charged

(* Nobody but a worker that writes back changes a recipient in the store.   *)
LEMMA ClaimStep ==
  ASSUME Locked, TypeOK, LockInv, ClaimInv, [Next]_vars
  PROVE  /\ ClaimInv'
         /\ exists => \A r \in Rcpts : \/ Agree(msg'.rcpts[r], msg.rcpts[r])
                                       \/ ~Final(msg.rcpts[r])
<1>1. CASE Enqueue
  <2>1. ~queued /\ queued' = TRUE /\ UNCHANGED <<pc, admin>>
    BY <1>1 DEF Enqueue, worker
  <2>2. ~exists /\ \A w \in Workers : pc'[w] = "idle"
    BY <2>1 DEF ClaimInv, QuietBefore
  <2> QED BY <2>1, <2>2 DEF ClaimInv, QuietBefore, NoAdmin, Charged, ClaimOK, HasCopy
<1>2. CASE Tick \/ UNCHANGED vars
  <2>1. UNCHANGED <<queued, exists, msg, events, admin, pc, ev, copy, multi>>
    BY <1>2 DEF Tick, vars, store, worker
  <2>2. \A w \in Workers, r \in Rcpts : ClaimOK(w, r)'
    BY <2>1, ClaimKept DEF ClaimInv, Charged, Agree
  <2> QED BY <2>1, <2>2 DEF ClaimInv, QuietBefore, NoAdmin, Charged, Agree
<1>3. ~(AdminRead \/ AdminReschedule \/ AdminCancel \/ AdminDelete)
  BY DEF AdminRead, AdminReschedule, AdminCancel, AdminDelete, ClaimInv, NoAdmin, Locked, TypeOK
<1>4. ASSUME NEW w \in Workers, WorkerStep(w) \/ Crash(w)
      PROVE  /\ ClaimInv'
             /\ \A r \in Rcpts : \/ Agree(msg'.rcpts[r], msg.rcpts[r])
                                 \/ ~Final(msg.rcpts[r])
  <2>1. queued
    <3>1. pc[w] # "idle" \/ events # {}
      BY <1>4 DEF WorkerStep, Crash, Pick, TryLock, Read, ClearEvent, Begin, Throttle, Attempt, Save,
                  Remove, Unlock
    <3> QED BY <3>1 DEF ClaimInv, QuietBefore
  <2>2. CASE \/ Pick(w) \/ TryLock(w) \/ ClearEvent(w) \/ Unlock(w) \/ Crash(w)
             \/ Read(w) /\ pc'[w] = "gone"
    <3>1. /\ ~HasCopy(w)'
          /\ \A v \in Workers : v # w => /\ pc'[v] = pc[v] /\ copy'[v] = copy[v]
                                         /\ multi'[v] = multi[v] /\ ev'[v] = ev[v]
          /\ UNCHANGED <<queued, msg, admin>>
      BY <2>2, IdleFrame
    <3>2. ASSUME NEW v \in Workers, NEW r \in Rcpts PROVE ClaimOK(v, r)'
      <4>1. CASE v = w
        BY <3>1, <4>1 DEF ClaimOK
      <4>2. CASE v # w
        BY <3>1, <4>2, ClaimKept DEF ClaimInv, Charged, Agree
      <4> QED BY <4>1, <4>2
    <3> QED BY <2>1, <3>1, <3>2 DEF ClaimInv, QuietBefore, NoAdmin, Charged, Agree
  <2>3. CASE Read(w) /\ pc'[w] # "gone"
    <3>1. UNCHANGED <<queued, msg, admin>>
      BY <2>3 DEF Read, store
    <3> QED BY <2>1, <2>3, <3>1, ReadClaims DEF ClaimInv, QuietBefore, NoAdmin, Agree
  <2>4. CASE Begin(w) \/ Throttle(w) \/ Attempt(w)
    BY <2>1, <2>4, WorkClaims, WorkFrame DEF ClaimInv, QuietBefore, NoAdmin, Agree
  <2>5. CASE Save(w) \/ Remove(w)
    <3>1. UNCHANGED <<queued, admin>>
      BY <2>5 DEF Save, Remove
    <3>2. Charged'
      BY <2>5, WriteClaims DEF ClaimInv
    <3> QED BY <2>1, <2>5, <3>1, <3>2, WriteKeepsFinal DEF ClaimInv, QuietBefore, NoAdmin
  <2> QED BY <1>4, <2>2, <2>3, <2>4, <2>5 DEF WorkerStep
<1> QED BY <1>1, <1>2, <1>3, <1>4 DEF Next

(* Before the message is queued.                                            *)
LEMMA InitClaims == Init => LockInv /\ ClaimInv
<1> SUFFICES ASSUME Init PROVE LockInv /\ ClaimInv
  OBVIOUS
<1>1. LockInv
  BY DEF Init, LockInv, HoldsLease, OneWorkerPerQueue, Busy
<1> QED BY <1>1 DEF Init, ClaimInv, QuietBefore, NoAdmin, Charged, ClaimOK, HasCopy, NoRequest

(* For any number of queues and workers, with recipients that move between  *)
(* queues, crashes and failed reads, writes and notifications: no stale     *)
(* copy brings back a recipient that the stored message calls delivered or  *)
(* failed, nor turns one end into the other.                                *)
THEOREM FinalityHolds ==
  ASSUME Locked
  PROVE  Spec => FinalStaysFinal
<1>1. TypeOK /\ LockInv /\ ClaimInv /\ [Next]_vars => LockInv' /\ ClaimInv'
  BY LockPreserved, ClaimStep DEF Locked
<1>2. TypeOK /\ LockInv /\ ClaimInv /\ [Next]_vars =>
        [(exists /\ exists') =>
            \A r \in Rcpts : Final(msg.rcpts[r]) => msg'.rcpts[r].status = msg.rcpts[r].status]_vars
  BY ClaimStep DEF Agree
<1> QED BY <1>1, <1>2, InitClaims, TypeCorrect, PTL DEF Spec, FinalStaysFinal

-----------------------------------------------------------------------------
(* Nobody gets the message twice *)

(* As long as no worker has died and no batch has failed, who is pending    *)
(* for the worker in charge, or in the store while nobody is, has not been  *)
(* delivered.                                                               *)
OnceOK(r) ==
  /\ delivered[r] <= 1
  /\ \A w \in Workers : Claims(w, r) /\ Pending(copy[w].rcpts[r]) => delivered[r] = 0
  /\ exists /\ Pending(msg.rcpts[r]) /\ (\A w \in Workers : ~Claims(w, r)) => delivered[r] = 0

OnceInv ==
  /\ ~queued => \A r \in Rcpts : delivered[r] = 0
  /\ faulted = 0 => \A r \in Rcpts : OnceOK(r)

(* Every step keeps the deliveries apart.                                   *)
LEMMA OncePreserved ==
  ASSUME Locked, TypeOK, LockInv, ClaimInv, OnceInv, [Next]_vars
  PROVE  OnceInv'
<1>0. /\ faulted \in Nat /\ \A r \in Rcpts : delivered[r] \in Nat
      /\ Charged /\ Charged'
  BY ClaimStep DEF TypeOK, ClaimInv
<1>1. CASE Enqueue
  <2>1. ~queued /\ queued' = TRUE /\ UNCHANGED <<pc, delivered>>
    BY <1>1 DEF Enqueue, worker, history
  <2>2. \A w \in Workers : pc'[w] = "idle"
    BY <2>1 DEF ClaimInv, QuietBefore
  <2>3. \A r \in Rcpts : delivered'[r] = 0
    BY <2>1 DEF OnceInv
  <2> QED BY <2>1, <2>2, <2>3 DEF OnceInv, OnceOK, Claims, HasCopy
<1>2. CASE Tick \/ UNCHANGED vars
  <2>1. UNCHANGED <<queued, exists, msg, pc, ev, copy, multi, faulted, delivered>>
    BY <1>2 DEF Tick, vars, store, worker, history
  <2> QED BY <2>1 DEF OnceInv, OnceOK, Claims, HasCopy
<1>3. ~(AdminRead \/ AdminReschedule \/ AdminCancel \/ AdminDelete)
  BY DEF AdminRead, AdminReschedule, AdminCancel, AdminDelete, ClaimInv, NoAdmin, Locked, TypeOK
<1>4. ASSUME NEW w \in Workers, WorkerStep(w) \/ Crash(w) PROVE OnceInv'
  <2>1. queued /\ queued'
    <3>1. pc[w] # "idle" \/ events # {}
      BY <1>4 DEF WorkerStep, Crash, Pick, TryLock, Read, ClearEvent, Begin, Throttle, Attempt, Save,
                  Remove, Unlock
    <3>2. UNCHANGED queued
      BY <1>4 DEF WorkerStep, Crash, Pick, TryLock, Read, ClearEvent, Begin, Throttle, Attempt, Save,
                  Remove, Unlock
    <3> QED BY <3>1, <3>2 DEF ClaimInv, QuietBefore
  <2> SUFFICES ASSUME faulted' = 0, NEW r \in Rcpts PROVE OnceOK(r)'
    BY <2>1 DEF OnceInv
  <2>2. CASE \/ Pick(w) \/ TryLock(w) \/ ClearEvent(w) \/ Unlock(w) \/ Crash(w)
             \/ Read(w) /\ pc'[w] = "gone"
    <3>1. /\ ~HasCopy(w)' /\ ~HasCopy(w) /\ faulted = 0
          /\ \A v \in Workers : v # w => /\ pc'[v] = pc[v] /\ copy'[v] = copy[v]
                                         /\ multi'[v] = multi[v] /\ ev'[v] = ev[v]
          /\ UNCHANGED <<exists, msg, delivered>>
      BY <1>0, <2>2, IdleFrame DEF history
    <3>2. \A v \in Workers : Claims(v, r)' <=> Claims(v, r)
      BY <3>1 DEF Claims, HasCopy
    <3>3. ~Claims(w, r)
      BY <3>1 DEF Claims
    <3>4. OnceOK(r)
      BY <3>1 DEF OnceInv
    <3> QED BY <3>1, <3>2, <3>3, <3>4 DEF OnceOK
  <2>3. CASE Read(w) /\ pc'[w] # "gone"
    <3>1. /\ UNCHANGED <<exists, msg, ev, faulted, delivered>> /\ exists
          /\ pc[w] = "locked" /\ copy'[w] = msg
          /\ \A v \in Workers : v # w => /\ pc'[v] = pc[v] /\ copy'[v] = copy[v]
                                         /\ multi'[v] = multi[v]
      BY <2>3 DEF Read, TypeOK, store, history
    <3>2. \A v \in Workers : v # w => (Claims(v, r)' <=> Claims(v, r))
      BY <3>1 DEF Claims, HasCopy
    <3>3. ~Claims(w, r)
      BY <3>1 DEF Claims, HasCopy
    <3>4. OnceOK(r)
      BY <3>1 DEF OnceInv
    <3>5. LockInv'
      BY LockPreserved DEF Locked
    <3>6. Claims(w, r)' => \A v \in Workers : v # w => ~Claims(v, r)
      <4>1. ASSUME NEW v \in Workers, Claims(w, r)', Claims(v, r)' PROVE v = w
        <5>1. HasCopy(v)' /\ HasCopy(w)' /\ Busy(v)' /\ Busy(w)'
          BY <4>1 DEF Claims, HasCopy, Busy
        <5>2. ev'[v].queue = ev'[w].queue
          BY <1>0, <4>1, <5>1 DEF Charged, ClaimOK
        <5> QED BY <3>5, <5>1, <5>2 DEF LockInv, OneWorkerPerQueue
      <4> QED BY <3>2, <4>1
    <3>7. Claims(w, r)' /\ Pending(msg.rcpts[r]) => delivered[r] = 0
      BY <3>1, <3>3, <3>4, <3>6 DEF OnceOK
    <3> QED BY <3>1, <3>2, <3>3, <3>4, <3>7 DEF OnceOK
  <2>4. CASE Begin(w) \/ Throttle(w) \/ Attempt(w)
    <3> DEFINE x == copy[w].rcpts[r]
               y == copy'[w].rcpts[r]
    <3>1. /\ UNCHANGED <<exists, msg, faulted, ev, multi>>
          /\ pc[w] \in {"read", "deliver"}
          /\ \A v \in Workers : v # w => pc'[v] = pc[v] /\ copy'[v] = copy[v]
          /\ Worked(w, r, x, y)
      BY <2>4, WorkFrame
    <3>2. \A v \in Workers : v # w => (Claims(v, r)' <=> Claims(v, r))
      BY <3>1 DEF Claims, HasCopy
    <3>3. OnceOK(r)
      BY <3>1 DEF OnceInv
    <3>4. Claims(w, r)' => Claims(w, r)
      BY <1>0, <2>4, WorkClaims
    <3>5. /\ Final(x) => y.status = x.status
          /\ \/ delivered'[r] = delivered[r]
             \/ /\ delivered'[r] = delivered[r] + 1 
                /\ Pending(x) /\ y.status = "done" /\ x.queue = ev[w].queue
          /\ Final(y) => y.queue = x.queue
          /\ y.queue # x.queue => x.queue = ev[w].queue
      BY <3>1 DEF Worked
    <3>6. (Pending(x) <=> ~Final(x)) /\ (Pending(y) <=> ~Final(y))
      <4>1. copy[w] \in Message /\ copy'[w] \in Message
        BY NextType DEF TypeOK
      <4> QED BY <4>1, PendingOrFinal
    <3>7. Claims(w, r) <=> (x.queue = ev[w].queue \/ (~multi[w] /\ Pending(x)))
      BY <3>1 DEF Claims, HasCopy
    <3>8. Claims(w, r)' <=> pc'[w] \in {"read", "deliver", "save", "remove"}
                            /\ (y.queue = ev[w].queue \/ (~multi[w] /\ Pending(y)))
      BY <3>1 DEF Claims, HasCopy
    <3>9. pc'[w] \in {"read", "deliver", "save", "remove"}
      BY <2>4, WorkFrame
    <3>10. /\ delivered[r] <= 1
           /\ Claims(w, r) /\ Pending(x) => delivered[r] = 0
           /\ \A v \in Workers : Claims(v, r) /\ Pending(copy[v].rcpts[r]) => delivered[r] = 0
           /\ exists /\ Pending(msg.rcpts[r]) /\ (\A v \in Workers : ~Claims(v, r)) => delivered[r] = 0
      BY <3>3 DEF OnceOK, x
    <3> HIDE DEF x, y
    <3>11. CASE delivered'[r] = delivered[r] + 1 /\ Pending(x) /\ y.status = "done" /\ x.queue = ev[w].queue
      <4>1. Final(y) /\ Claims(w, r) /\ Claims(w, r)' /\ delivered'[r] = 1
        BY <3>5, <3>7, <3>8, <3>9, <3>10, <3>11 DEF Final
      <4>2. \A v \in Workers : v # w => ~Claims(v, r)
        BY <1>0, <4>1, OneInCharge
      <4>3. ~Pending(y)
        BY <3>6, <4>1
      <4> QED BY <3>2, <4>1, <4>2, <4>3 DEF OnceOK, y
    <3>12. CASE delivered'[r] = delivered[r]
      <4>1. Claims(w, r)' /\ Pending(y) => delivered[r] = 0
        BY <3>4, <3>5, <3>6, <3>10 DEF Final
      <4>2. \A v \in Workers : v # w /\ Claims(v, r)' /\ Pending(copy'[v].rcpts[r]) => delivered[r] = 0
        BY <3>1, <3>2, <3>10
      <4>3. Claims(w, r) /\ ~Claims(w, r)' => Pending(x)
        BY <3>5, <3>6, <3>7, <3>8, <3>9 DEF Final
      <4>4. exists /\ Pending(msg.rcpts[r]) /\ (\A v \in Workers : ~Claims(v, r)') => delivered[r] = 0
        BY <3>2, <3>10, <4>3
      <4> QED BY <3>1, <3>10, <3>12, <4>1, <4>2, <4>4 DEF OnceOK, y
    <3> QED BY <3>5, <3>11, <3>12
  <2>5. CASE Save(w) \/ Remove(w)
    <3>1. /\ HasCopy(w) /\ ~HasCopy(w)' /\ UNCHANGED <<ev, delivered>>
          /\ \A v \in Workers : v # w => /\ pc'[v] = pc[v] /\ copy'[v] = copy[v]
                                         /\ multi'[v] = multi[v]
          /\ \/ UNCHANGED store /\ (faulted' = faulted + 1 \/ (multi[w] /\ ~exists /\ faulted' = faulted))
             \/ exists' = FALSE /\ faulted' = faulted
             \/ /\ multi[w] /\ faulted' = faulted /\ exists
                /\ msg'.rcpts[r] = IF copy[w].rcpts[r].queue = ev[w].queue
                                     THEN copy[w].rcpts[r] ELSE msg.rcpts[r]
             \/ ~multi[w] /\ msg'.rcpts = copy[w].rcpts /\ faulted' = faulted
      BY <2>5, WriteFrame DEF history
    <3>a. /\ faulted = 0
          /\ \/ ~exists'
             \/ /\ multi[w] /\ exists
                /\ msg'.rcpts[r] = IF copy[w].rcpts[r].queue = ev[w].queue
                                     THEN copy[w].rcpts[r] ELSE msg.rcpts[r]
             \/ ~multi[w] /\ msg'.rcpts = copy[w].rcpts
      BY <1>0, <3>1 DEF store
    <3>2. \A v \in Workers : v # w => (Claims(v, r)' <=> Claims(v, r))
      BY <3>1 DEF Claims, HasCopy
    <3>3. OnceOK(r) /\ ~Claims(w, r)'
      BY <3>1, <3>a DEF OnceInv, Claims
    <3>4. ASSUME exists', Pending(msg'.rcpts[r]), \A v \in Workers : ~Claims(v, r)'
          PROVE  delivered[r] = 0
      <4>1. CASE msg'.rcpts[r] = copy[w].rcpts[r] /\ Claims(w, r)
        BY <3>3, <3>4, <4>1 DEF OnceOK
      <4>2. CASE msg'.rcpts[r] = msg.rcpts[r] /\ ~Claims(w, r) /\ exists
        BY <3>2, <3>3, <3>4, <4>2 DEF OnceOK
      <4>3. CASE multi[w] /\ exists /\ msg'.rcpts[r] = IF copy[w].rcpts[r].queue = ev[w].queue
                                     THEN copy[w].rcpts[r] ELSE msg.rcpts[r]
        BY <3>1, <4>1, <4>2, <4>3 DEF Claims
      <4>4. CASE ~multi[w] /\ msg'.rcpts = copy[w].rcpts
        BY <3>1, <3>4, <4>1, <4>4 DEF Claims
      <4> QED BY <3>a, <3>4, <4>3, <4>4
    <3> QED BY <3>1, <3>2, <3>3, <3>4 DEF OnceOK
  <2> QED BY <1>4, <2>2, <2>3, <2>4, <2>5 DEF WorkerStep
<1> QED BY <1>1, <1>2, <1>3, <1>4 DEF Next

Unfailed == faulted = 0

(* For any number of queues and workers, and with recipients that move      *)
(* between queues: nobody gets the message twice as long as no worker dies  *)
(* and no batch fails, whatever the stale copies of the others say.         *)
THEOREM DeliveredOnce ==
  ASSUME Locked, "crash" \notin Faults, "write" \notin Faults
  PROVE  Spec => []AtMostOnce
<1>1. Init => OnceInv /\ Unfailed
  BY DEF Unfailed, Init, OnceInv, OnceOK, Claims, HasCopy
<1>2. Unfailed /\ ClaimInv /\ [Next]_vars => Unfailed'
  BY DEF Unfailed, ClaimInv, NoAdmin, Next, WorkerStep, vars, Enqueue, Pick, TryLock, Read, ClearEvent, Begin, Throttle,
         Attempt, Save, Remove, Unlock, Crash, WriteFails, AdminRead, AdminReschedule, AdminCancel, AdminDelete, Tick
<1>3. TypeOK /\ LockInv /\ ClaimInv /\ OnceInv /\ [Next]_vars => LockInv' /\ ClaimInv' /\ OnceInv'
  BY LockPreserved, ClaimStep, OncePreserved DEF Locked
<1>4. OnceInv /\ Unfailed => AtMostOnce
  BY DEF Unfailed, OnceInv, OnceOK, AtMostOnce
<1> QED BY <1>1, <1>2, <1>3, <1>4, InitClaims, TypeCorrect, PTL DEF Spec

-----------------------------------------------------------------------------
(* Messages with recipients in one queue *)

(* The setting: as above, and the message is routed to one queue and stays  *)
(* there, so that all its workers compete for one lock.                     *)
OneQueue ==
  /\ Locked
  /\ \A route \in Routes, r, s \in Rcpts : route[r] = route[s]
  /\ \A q \in Queues : RetryQueues[q] \subseteq {q}

(* Everything is about queue q, and whoever has a copy will replace a       *)
(* message that is still there with the quota keys it had when it was read. *)
AllIn(m, q) == \A r \in Rcpts : m.rcpts[r].queue = q
Current(w, q) == exists /\ copy[w].quota = msg.quota /\ ~multi[w] /\ AllIn(copy[w], q)
SoloIn(q) ==
  /\ AllIn(msg, q)
  /\ \A e \in events : e.queue = q
  /\ \A w \in Workers : pc[w] # "idle" => ev[w].queue = q
  /\ \A w \in Workers : HasCopy(w) => Current(w, q)
SoloInv == QuietBefore /\ NoAdmin /\ \E q \in Queues : SoloIn(q)

(* next_events speaks of no other queue.                                    *)
LEMMA EventsIn ==
  ASSUME NEW m, NEW q, AllIn(m, q), NEW e \in NextEvents(m)
  PROVE  e.queue = q
<1> DEFINE D(p) == Min({EventTime(m.rcpts[r]) : r \in {x \in PendingIn(m) : m.rcpts[x].queue = p}})
<1>1. PICK p \in PendingQueues(m) : e = [due |-> D(p), queue |-> p]
  BY Zenon DEF NextEvents
<1> HIDE DEF D
<1>2. e.queue = p
  BY <1>1
<1> QED BY <1>1, <1>2 DEF PendingQueues, PendingIn, AllIn

(* There is one copy at a time.                                             *)
LEMMA OneCopy ==
  ASSUME LockInv, NEW q, SoloIn(q), NEW v \in Workers, NEW w \in Workers, HasCopy(v), HasCopy(w)
  PROVE  v = w
<1>1. Busy(v) /\ Busy(w) /\ pc[v] # "idle" /\ pc[w] # "idle"
  BY DEF Busy, HasCopy
<1> QED BY <1>1 DEF SoloIn, LockInv, OneWorkerPerQueue

(* A message is queued.                                                     *)
LEMMA SoloEnqueue ==
  ASSUME OneQueue, TypeOK, SoloInv, Enqueue
  PROVE  SoloInv'
<1>1. /\ ~queued /\ queued' = TRUE /\ UNCHANGED <<pc, admin>>
      /\ events' = events \cup NextEvents(msg')
  BY DEF Enqueue, worker
<1>2. events = {} /\ \A w \in Workers : pc'[w] = "idle"
  BY <1>1 DEF SoloInv, QuietBefore
<1>3. PICK route \in Routes, hold \in Releases :
        msg' = [rcpts |-> [r \in Rcpts |-> NewRecipient(route[r], hold)], quota |-> QuotaKeys]
  BY Zenon DEF Enqueue
<1>4. PICK s \in Rcpts : TRUE
  BY RcptAssumption
<1>5. route[s] \in Queues
  BY RouteAssumption
<1>6. AllIn(msg', route[s])
  <2>1. ASSUME NEW r \in Rcpts PROVE msg'.rcpts[r].queue = route[s]
    <3>1. msg'.rcpts[r] = NewRecipient(route[r], hold)
      BY <1>3
    <3>2. NewRecipient(route[r], hold).queue = route[r]
      BY DEF NewRecipient
    <3> QED BY <3>1, <3>2 DEF OneQueue
  <2> QED BY <2>1 DEF AllIn
<1>7. \A e \in events' : e.queue = route[s]
  BY <1>1, <1>2, <1>6, EventsIn
<1>8. SoloIn(route[s])'
  BY <1>2, <1>6, <1>7 DEF SoloIn, AllIn, HasCopy
<1> QED BY <1>1, <1>5, <1>8 DEF SoloInv, QuietBefore, NoAdmin

(* A worker takes a step.                                                   *)
LEMMA SoloWorker ==
  ASSUME OneQueue, TypeOK, LockInv, NEW q \in Queues, SoloIn(q),
         NEW w \in Workers, WorkerStep(w) \/ Crash(w)
  PROVE  SoloIn(q)'
<1>1. CASE \/ Pick(w) \/ TryLock(w) \/ ClearEvent(w) \/ Unlock(w) \/ Crash(w)
           \/ Read(w) /\ pc'[w] = "gone"
  <2>1. /\ ~HasCopy(w)'
        /\ \A v \in Workers : v # w => /\ pc'[v] = pc[v] /\ copy'[v] = copy[v]
                                       /\ multi'[v] = multi[v] /\ ev'[v] = ev[v]
        /\ UNCHANGED <<exists, msg>>
    BY <1>1, IdleFrame
  <2>2. events' \subseteq events
    BY <1>1 DEF Pick, TryLock, ClearEvent, WriteFails, Unlock, Crash, Read, store
  <2>3. pc'[w] = "idle" \/ ev'[w] \in events \/ (pc[w] # "idle" /\ ev'[w] = ev[w])
    BY <1>1 DEF Pick, TryLock, ClearEvent, Unlock, Crash, Read, Leave, TypeOK
  <2> QED BY <2>1, <2>2, <2>3 DEF SoloIn, AllIn, Current, HasCopy
<1>2. CASE Read(w) /\ pc'[w] # "gone"
  <2>1. /\ UNCHANGED <<exists, msg, events, ev>> /\ exists
        /\ pc[w] = "locked" /\ pc'[w] = "read" /\ copy'[w] = msg
        /\ multi'[w] = IsMultiQueue(msg, ev[w].queue)
        /\ \A v \in Workers : v # w => /\ pc'[v] = pc[v] /\ copy'[v] = copy[v]
                                       /\ multi'[v] = multi[v]
    BY <1>2 DEF Read, TypeOK, store
  <2>2. ~multi'[w]
    BY <2>1 DEF SoloIn, AllIn, IsMultiQueue, PendingIn
  <2> QED BY <2>1, <2>2 DEF SoloIn, AllIn, Current, HasCopy
<1>3. CASE Begin(w) \/ Throttle(w) \/ Attempt(w)
  <2>1. /\ UNCHANGED <<exists, msg, events, ev, multi>>
        /\ pc[w] \in {"read", "deliver"} /\ pc'[w] \in {"deliver", "save", "remove"}
        /\ \A v \in Workers : v # w => pc'[v] = pc[v] /\ copy'[v] = copy[v]
        /\ copy'[w].quota = copy[w].quota
        /\ \A r \in Rcpts : Worked(w, r, copy[w].rcpts[r], copy'[w].rcpts[r])
    BY <1>3, WorkFrame
  <2>2. Current(w, q) /\ ev[w].queue = q
    BY <2>1 DEF SoloIn, HasCopy
  <2>3. RetryQueues[q] \subseteq {q}
    BY DEF OneQueue
  <2>4. AllIn(copy'[w], q)
    BY <2>1, <2>2, <2>3 DEF AllIn, Current, Worked
  <2> QED BY <2>1, <2>2, <2>4 DEF SoloIn, AllIn, Current, HasCopy
<1>4. CASE Save(w) \/ Remove(w)
  <2>1. /\ HasCopy(w) /\ ~HasCopy(w)' /\ pc'[w] = "unlock" /\ UNCHANGED ev
        /\ \A v \in Workers : v # w => pc'[v] = pc[v]
        /\ \/ UNCHANGED store
           \/ SaveBatch(copy[w], ev[w].queue, multi[w], {ev[w]}) /\ msg'.rcpts = copy[w].rcpts
           \/ multi[w]
           \/ RemoveBatch(copy[w], {ev[w]}) /\ msg' = msg
    BY <1>4, WriteFrame
  <2>2. Current(w, q)
    BY <2>1 DEF SoloIn
  <2>3. \A v \in Workers : ~HasCopy(v)'
    BY <2>1, OneCopy DEF HasCopy
  <2>4. AllIn(msg', q) /\ \A e \in events' : e \in events \/ e \in NextEvents(copy[w])
    <3>1. CASE UNCHANGED store
      BY <3>1 DEF store, SoloIn
    <3>2. CASE SaveBatch(copy[w], ev[w].queue, multi[w], {ev[w]}) /\ msg'.rcpts = copy[w].rcpts
      BY <2>2, <3>2 DEF SaveBatch, Current, AllIn
    <3>3. CASE RemoveBatch(copy[w], {ev[w]}) /\ msg' = msg
      BY <3>3 DEF RemoveBatch, SoloIn
    <3> QED BY <2>1, <2>2, <3>1, <3>2, <3>3 DEF Current
  <2>5. \A e \in events' : e.queue = q
    BY <2>2, <2>4, EventsIn DEF SoloIn, Current
  <2> QED BY <2>1, <2>3, <2>4, <2>5 DEF SoloIn, AllIn, HasCopy
<1> QED BY <1>1, <1>2, <1>3, <1>4 DEF WorkerStep

(* A worker only moves once the message is queued.                          *)
LEMMA WorkerQueued ==
  ASSUME QuietBefore, NEW w \in Workers, WorkerStep(w) \/ Crash(w)
  PROVE  queued /\ UNCHANGED <<queued, admin>>
<1>1. pc[w] # "idle" \/ events # {}
  BY DEF WorkerStep, Crash, Pick, TryLock, Read, ClearEvent, Begin, Throttle, Attempt, Save,
         Remove, Unlock
<1>2. UNCHANGED <<queued, admin>>
  BY DEF WorkerStep, Crash, Pick, TryLock, Read, ClearEvent, Begin, Throttle, Attempt, Save,
         Remove, Unlock
<1> QED BY <1>1, <1>2 DEF QuietBefore

(* Every step keeps to the one queue.                                       *)
LEMMA SoloPreserved ==
  ASSUME OneQueue, TypeOK, LockInv, SoloInv, [Next]_vars
  PROVE  SoloInv'
<1>1. CASE Enqueue
  BY <1>1, SoloEnqueue
<1>2. CASE Tick \/ UNCHANGED vars
  BY <1>2 DEF Tick, vars, store, worker, SoloInv, QuietBefore, NoAdmin, SoloIn, AllIn, Current, HasCopy
<1>3. ~(AdminRead \/ AdminReschedule \/ AdminCancel \/ AdminDelete)
  BY DEF AdminRead, AdminReschedule, AdminCancel, AdminDelete, SoloInv, NoAdmin, OneQueue, Locked, TypeOK
<1>4. ASSUME NEW w \in Workers, WorkerStep(w) \/ Crash(w) PROVE SoloInv'
  <2>1. queued /\ UNCHANGED <<queued, admin>>
    BY <1>4, WorkerQueued DEF SoloInv
  <2>2. PICK q \in Queues : SoloIn(q)
    BY DEF SoloInv
  <2>3. SoloIn(q)'
    BY <1>4, <2>2, SoloWorker
  <2> QED BY <2>1, <2>3 DEF SoloInv, QuietBefore, NoAdmin
<1> QED BY <1>1, <1>2, <1>3, <1>4 DEF Next

(* Before the message is queued.                                            *)
LEMMA InitSolo == Init => LockInv /\ SoloInv
<1> SUFFICES ASSUME Init PROVE LockInv /\ SoloInv
  OBVIOUS
<1>1. LockInv
  BY InitClaims
<1>2. AllIn(msg, DefaultQueue)
  BY DEF Init, AllIn, BlankMessage
<1>3. SoloIn(DefaultQueue)
  BY <1>2 DEF Init, SoloIn, HasCopy
<1> QED BY <1>1, <1>3, QueueAssumption DEF Init, SoloInv, QuietBefore, NoAdmin, NoRequest

(* The counters and the blob link follow the store.                         *)
QuotaInv == (~queued => usage = 0) /\ QuotaExact /\ BlobKept

(* Every step keeps them in line.                                           *)
LEMMA QuotaPreserved ==
  ASSUME OneQueue, TypeOK, LockInv, SoloInv, QuotaInv, [Next]_vars
  PROVE  QuotaInv'
<1>1. CASE Enqueue
  <2>1. ~queued /\ queued' = TRUE /\ exists' = TRUE /\ linked' = TRUE
        /\ usage' = usage + Cardinality(msg'.quota)
    BY <1>1 DEF Enqueue
  <2>2. usage' = Cardinality(msg'.quota)
    <3>1. usage = 0
      BY <2>1 DEF QuotaInv
    <3>2. msg' \in Message
      BY NextType DEF TypeOK
    <3>3. Cardinality(msg'.quota) \in Nat
      BY <3>2, CardinalityType DEF Message
    <3> QED BY <2>1, <3>1, <3>3
  <2> QED BY <2>1, <2>2 DEF QuotaInv, QuotaExact, BlobKept
<1>2. CASE Tick \/ UNCHANGED vars
  BY <1>2 DEF Tick, vars, store, QuotaInv, QuotaExact, BlobKept
<1>3. ~(AdminRead \/ AdminReschedule \/ AdminCancel \/ AdminDelete)
  BY DEF AdminRead, AdminReschedule, AdminCancel, AdminDelete, SoloInv, NoAdmin, OneQueue, Locked, TypeOK
<1>4. ASSUME NEW w \in Workers, WorkerStep(w) \/ Crash(w) PROVE QuotaInv'
  <2>1. queued /\ queued'
    BY <1>4, WorkerQueued DEF SoloInv
  <2>2. CASE \/ Pick(w) \/ TryLock(w) \/ ClearEvent(w) \/ Unlock(w) \/ Crash(w)
             \/ Read(w) /\ pc'[w] = "gone"
    <3>1. UNCHANGED <<exists, msg, usage, linked>>
      BY <2>2, IdleFrame
    <3> QED BY <2>1, <3>1 DEF QuotaInv, QuotaExact, BlobKept
  <2>3. CASE Read(w) /\ pc'[w] # "gone"
    BY <2>1, <2>3 DEF Read, store, QuotaInv, QuotaExact, BlobKept
  <2>4. CASE Begin(w) \/ Throttle(w) \/ Attempt(w)
    <3>1. UNCHANGED <<exists, msg, usage, linked>>
      BY <2>4, WorkFrame
    <3> QED BY <2>1, <3>1 DEF QuotaInv, QuotaExact, BlobKept
  <2>5. CASE Save(w) \/ Remove(w)
    <3> DEFINE c == copy[w]
    <3>1. /\ HasCopy(w)
          /\ \/ UNCHANGED store
             \/ multi[w]
             \/ /\ SaveBatch(c, ev[w].queue, multi[w], {ev[w]}) /\ exists'
                /\ msg'.quota = c.quota \ Releasable(c)
             \/ RemoveBatch(c, {ev[w]}) /\ exists' = FALSE
      BY <2>5, WriteFrame
    <3>2. exists /\ c.quota = msg.quota /\ ~multi[w]
      BY <3>1 DEF SoloInv, SoloIn, Current
    <3>3. usage = Cardinality(c.quota) /\ linked
      BY <3>2 DEF QuotaInv, QuotaExact, BlobKept
    <3>4. IsFiniteSet(c.quota) /\ Releasable(c) \subseteq c.quota
      <4>1. c.quota \subseteq QuotaKeys
        BY DEF TypeOK, Message
      <4> QED BY <4>1, CardinalityType DEF Releasable
    <3>5. Cardinality(c.quota \ Releasable(c)) = Cardinality(c.quota) - Cardinality(Releasable(c))
      <4>1. c.quota \cap Releasable(c) = Releasable(c)
        BY <3>4
      <4> QED BY <3>4, <4>1, FS_Difference
    <3>6. CASE UNCHANGED store
      BY <2>1, <3>6 DEF store, QuotaInv, QuotaExact, BlobKept
    <3>7. CASE /\ SaveBatch(c, ev[w].queue, multi[w], {ev[w]}) /\ exists'
               /\ msg'.quota = c.quota \ Releasable(c)
      <4>1. usage' = usage - Cardinality(Releasable(c)) /\ UNCHANGED linked
        BY <3>2, <3>7 DEF SaveBatch
      <4> QED BY <2>1, <3>3, <3>5, <3>7, <4>1 DEF QuotaInv, QuotaExact, BlobKept
    <3>8. CASE RemoveBatch(c, {ev[w]}) /\ exists' = FALSE
      <4>1. usage' = usage - Cardinality(c.quota)
        BY <3>8 DEF RemoveBatch
      <4>2. usage' = 0
        BY <3>3, <3>4, <4>1, FS_CardinalityType
      <4> QED BY <2>1, <3>8, <4>2 DEF QuotaInv, QuotaExact, BlobKept
    <3> QED BY <3>1, <3>2, <3>6, <3>7, <3>8
  <2> QED BY <1>4, <2>2, <2>3, <2>4, <2>5 DEF WorkerStep
<1> QED BY <1>1, <1>2, <1>3, <1>4 DEF Next

(* For a message in one queue, and any workers, crashes and failed reads,   *)
(* writes and notifications: the quota counters hold exactly what the       *)
(* stored message still has to release; nothing is released twice.          *)
THEOREM QuotaBalanced ==
  ASSUME OneQueue
  PROVE  Spec => []QuotaExact
<1>1. Init => QuotaInv
  BY DEF Init, QuotaInv, QuotaExact, BlobKept
<1>2. TypeOK /\ LockInv /\ SoloInv /\ QuotaInv /\ [Next]_vars => LockInv' /\ SoloInv' /\ QuotaInv'
  BY LockPreserved, SoloPreserved, QuotaPreserved DEF OneQueue, Locked
<1>3. QuotaInv => QuotaExact
  BY DEF QuotaInv
<1> QED BY <1>1, <1>2, <1>3, InitSolo, TypeCorrect, PTL DEF Spec

(* For such a message: no worker puts it back after another has deleted it  *)
(* and its blob link, so the blob of a stored message is never purged.      *)
THEOREM BlobStays ==
  ASSUME OneQueue
  PROVE  Spec => []BlobKept
<1>1. Init => QuotaInv
  BY DEF Init, QuotaInv, QuotaExact, BlobKept
<1>2. TypeOK /\ LockInv /\ SoloInv /\ QuotaInv /\ [Next]_vars => LockInv' /\ SoloInv' /\ QuotaInv'
  BY LockPreserved, SoloPreserved, QuotaPreserved DEF OneQueue, Locked
<1>3. QuotaInv => BlobKept
  BY DEF QuotaInv
<1> QED BY <1>1, <1>2, <1>3, InitSolo, TypeCorrect, PTL DEF Spec

(* What is final has been reported; and as long as nothing has failed, who  *)
(* is pending for the worker at work, or in the store while there is none,  *)
(* has met no fate yet.                                                     *)
Flagged(m) == \A r \in Rcpts : Final(m.rcpts[r]) => m.rcpts[r].dsn
Fate(r) == delivered[r] + bounced[r]
FateOK(r) ==
  /\ Fate(r) <= 1
  /\ \A w \in Workers : HasCopy(w) /\ Pending(copy[w].rcpts[r]) => Fate(r) = 0
  /\ exists /\ (\A w \in Workers : ~HasCopy(w)) /\ Pending(msg.rcpts[r]) => Fate(r) = 0
FateInv ==
  /\ ~queued => \A r \in Rcpts : Fate(r) = 0
  /\ Flagged(msg)
  /\ \A w \in Workers : HasCopy(w) => Flagged(copy[w])
  /\ faulted = 0 => \A r \in Rcpts : FateOK(r)

(* A message is queued: nobody is final, nobody has met a fate.             *)
LEMMA FateEnqueue ==
  ASSUME SoloInv, FateInv, Enqueue
  PROVE  FateInv'
<1>1. ~queued /\ queued' = TRUE /\ UNCHANGED <<pc, delivered, bounced>>
  BY DEF Enqueue, worker, history
<1>2. \A w \in Workers : pc'[w] = "idle"
  BY <1>1 DEF SoloInv, QuietBefore
<1>3. \A r \in Rcpts : Fate(r)' = 0
  BY <1>1 DEF FateInv, Fate
<1>4. Flagged(msg)'
  <2>1. PICK route \in Routes, hold \in Releases :
          msg' = [rcpts |-> [r \in Rcpts |-> NewRecipient(route[r], hold)], quota |-> QuotaKeys]
    BY Zenon DEF Enqueue
  <2>2. \A r \in Rcpts : msg'.rcpts[r] = NewRecipient(route[r], hold)
    BY <2>1
  <2>3. \A r \in Rcpts : NewRecipient(route[r], hold).status = "scheduled"
    BY DEF NewRecipient
  <2> QED BY <2>2, <2>3 DEF Flagged, Final
<1> QED BY <1>1, <1>2, <1>3, <1>4 DEF FateInv, FateOK, HasCopy

(* A worker works on its copy: whoever becomes final then is delivered or   *)
(* reported, and nobody else is.                                            *)
LEMMA FateWork ==
  ASSUME TypeOK, LockInv, SoloInv, FateInv, queued, NEW w \in Workers,
         Begin(w) \/ Throttle(w) \/ Attempt(w)
  PROVE  FateInv'
<1>1. /\ UNCHANGED <<queued, exists, msg, faulted, ev, multi>>
      /\ pc[w] \in {"read", "deliver"} /\ pc'[w] \in {"deliver", "save", "remove"}
      /\ \A v \in Workers : v # w => pc'[v] = pc[v] /\ copy'[v] = copy[v]
      /\ \A r \in Rcpts : Worked(w, r, copy[w].rcpts[r], copy'[w].rcpts[r])
  BY WorkFrame
<1>2. HasCopy(w) /\ HasCopy(w)' /\ Flagged(copy[w])
  BY <1>1 DEF HasCopy, FateInv
<1>3. \A v \in Workers : v # w => ~HasCopy(v) /\ ~HasCopy(v)'
  <2>1. \A v \in Workers : v # w => ~HasCopy(v)
    BY <1>2, OneCopy DEF SoloInv
  <2> QED BY <1>1, <2>1 DEF HasCopy
<1>4. Flagged(copy'[w])
  BY <1>1, <1>2 DEF Flagged, Worked
<1>5. ASSUME faulted = 0, NEW r \in Rcpts PROVE FateOK(r)'
  <2> DEFINE x == copy[w].rcpts[r]
             y == copy'[w].rcpts[r]
  <2>1. copy[w] \in Message /\ copy'[w] \in Message /\ delivered[r] \in Nat /\ bounced[r] \in Nat
    BY NextType DEF TypeOK, Next, WorkerStep
  <2>2. (Pending(x) <=> ~Final(x)) /\ (Pending(y) <=> ~Final(y))
    BY <2>1, PendingOrFinal
  <2>3. FateOK(r) /\ (Final(x) => x.dsn) /\ Worked(w, r, x, y)
    BY <1>1, <1>2, <1>5 DEF FateInv, Flagged
  <2>4. delivered[r] + bounced[r] <= 1 /\ (Pending(x) => delivered[r] + bounced[r] = 0)
    BY <1>2, <2>3 DEF FateOK, Fate
  <2> HIDE DEF x, y
  <2>5. /\ delivered'[r] + bounced'[r] <= 1
        /\ Pending(y) => delivered'[r] + bounced'[r] = 0
    <3>1. CASE Final(x)
      BY <2>1, <2>2, <2>3, <2>4, <3>1 DEF Worked, Final
    <3>2. CASE Pending(x)
      BY <2>1, <2>2, <2>3, <2>4, <3>2 DEF Worked, Final
    <3> QED BY <2>2, <3>1, <3>2
  <2> QED BY <1>2, <1>3, <2>5 DEF FateOK, Fate, y
<1> QED BY <1>1, <1>2, <1>3, <1>4, <1>5 DEF FateInv

(* Every step gives a recipient at most one fate.                           *)
LEMMA FatePreserved ==
  ASSUME OneQueue, TypeOK, LockInv, SoloInv, FateInv, [Next]_vars
  PROVE  FateInv'
<1>0. faulted \in Nat
  BY DEF TypeOK
<1>1. CASE Enqueue
  BY <1>1, FateEnqueue
<1>2. CASE Tick \/ UNCHANGED vars
  BY <1>2 DEF Tick, vars, store, worker, history, FateInv, FateOK, Fate, Flagged, HasCopy
<1>3. ~(AdminRead \/ AdminReschedule \/ AdminCancel \/ AdminDelete)
  BY DEF AdminRead, AdminReschedule, AdminCancel, AdminDelete, SoloInv, NoAdmin, OneQueue, Locked, TypeOK
<1>4. ASSUME NEW w \in Workers, WorkerStep(w) \/ Crash(w) PROVE FateInv'
  <2>1. queued /\ queued'
    BY <1>4, WorkerQueued DEF SoloInv
  <2>2. CASE \/ Pick(w) \/ TryLock(w) \/ ClearEvent(w) \/ Unlock(w) \/ Crash(w)
             \/ Read(w) /\ pc'[w] = "gone"
    <3>1. /\ ~HasCopy(w)'
          /\ \A v \in Workers : v # w => pc'[v] = pc[v] /\ copy'[v] = copy[v]
          /\ UNCHANGED <<exists, msg, delivered, bounced>>
          /\ faulted' = 0 => faulted = 0 /\ ~HasCopy(w)
      BY <1>0, <2>2, IdleFrame DEF history
    <3>2. \A v \in Workers : v # w => (HasCopy(v)' <=> HasCopy(v))
      BY <3>1 DEF HasCopy
    <3>3. Flagged(msg)' /\ \A v \in Workers : HasCopy(v)' => Flagged(copy[v])'
      BY <3>1, <3>2 DEF FateInv, Flagged
    <3>4. ASSUME faulted' = 0, NEW r \in Rcpts PROVE FateOK(r)'
      <4>1. FateOK(r) /\ ~HasCopy(w)
        BY <3>1, <3>4 DEF FateInv
      <4> QED BY <3>1, <3>2, <4>1 DEF FateOK, Fate
    <3> QED BY <2>1, <3>3, <3>4 DEF FateInv
  <2>3. CASE Read(w) /\ pc'[w] # "gone"
    <3>1. /\ UNCHANGED <<exists, msg, ev, faulted, delivered, bounced>> /\ exists
          /\ pc[w] = "locked" /\ copy'[w] = msg
          /\ \A v \in Workers : v # w => pc'[v] = pc[v] /\ copy'[v] = copy[v]
      BY <2>3 DEF Read, TypeOK, store, history
    <3>2. \A v \in Workers : ~HasCopy(v)
      <4>1. ASSUME NEW v \in Workers, HasCopy(v) PROVE FALSE
        <5>1. Busy(v) /\ Busy(w) /\ pc[v] # "idle" /\ pc[w] # "idle" /\ v # w
          BY <3>1, <4>1 DEF Busy, HasCopy
        <5>2. ev[v].queue = ev[w].queue
          BY <5>1 DEF SoloInv, SoloIn
        <5> QED BY <5>1, <5>2 DEF LockInv, OneWorkerPerQueue
      <4> QED BY <4>1
    <3>3. \A v \in Workers : v # w => ~HasCopy(v)'
      BY <3>1, <3>2 DEF HasCopy
    <3>4. Flagged(msg)' /\ \A v \in Workers : HasCopy(v)' => Flagged(copy[v])'
      BY <3>1, <3>3 DEF FateInv, Flagged
    <3>5. ASSUME faulted' = 0, NEW r \in Rcpts PROVE FateOK(r)'
      <4>1. FateOK(r)
        BY <3>1, <3>5 DEF FateInv
      <4> QED BY <3>1, <3>2, <3>3, <4>1 DEF FateOK, Fate
    <3> QED BY <2>1, <3>4, <3>5 DEF FateInv
  <2>4. CASE Begin(w) \/ Throttle(w) \/ Attempt(w)
    BY <2>1, <2>4, FateWork
  <2>5. CASE Save(w) \/ Remove(w)
    <3>1. /\ HasCopy(w) /\ ~HasCopy(w)' /\ UNCHANGED <<delivered, bounced>>
          /\ \A v \in Workers : v # w => pc'[v] = pc[v]
          /\ \/ UNCHANGED store /\ (faulted' = faulted + 1 \/ multi[w])
             \/ multi[w]
             \/ msg'.rcpts = copy[w].rcpts /\ faulted' = faulted
             \/ exists' = FALSE /\ msg' = msg /\ faulted' = faulted
      BY <2>5, WriteFrame DEF history
    <3>2. ~multi[w]
      BY <3>1 DEF SoloInv, SoloIn, Current
    <3>3. \A v \in Workers : ~HasCopy(v)'
      <4>1. \A v \in Workers : v # w => ~HasCopy(v)
        BY <3>1, OneCopy DEF SoloInv
      <4> QED BY <3>1, <4>1 DEF HasCopy
    <3>4. Flagged(msg)'
      BY <3>1, <3>2 DEF FateInv, Flagged, store
    <3>5. ASSUME faulted' = 0, NEW r \in Rcpts PROVE FateOK(r)'
      <4>1. faulted = 0 /\ (exists' => msg'.rcpts = copy[w].rcpts)
        BY <1>0, <3>1, <3>2, <3>5
      <4>2. FateOK(r)
        BY <4>1 DEF FateInv
      <4> QED BY <3>1, <3>3, <4>1, <4>2 DEF FateOK, Fate
    <3> QED BY <2>1, <3>3, <3>4, <3>5 DEF FateInv
  <2> QED BY <1>4, <2>2, <2>3, <2>4, <2>5 DEF WorkerStep
<1> QED BY <1>1, <1>2, <1>3, <1>4 DEF Next

(* For such a message, and any workers and schedules: until the first crash *)
(* or failed write, a recipient is delivered once or reported as failed     *)
(* once, and never both.                                                    *)
THEOREM OneFateEach ==
  ASSUME OneQueue
  PROVE  Spec => []OneFate
<1>1. Init => FateInv
  BY DEF Init, FateInv, FateOK, Fate, Flagged, HasCopy, BlankMessage
<1>2. TypeOK /\ LockInv /\ SoloInv /\ FateInv /\ [Next]_vars => LockInv' /\ SoloInv' /\ FateInv'
  BY LockPreserved, SoloPreserved, FatePreserved DEF OneQueue, Locked
<1>3. FateInv => OneFate
  BY DEF FateInv, FateOK, Fate, OneFate
<1> QED BY <1>1, <1>2, <1>3, InitSolo, TypeCorrect, PTL DEF Spec
=============================================================================
