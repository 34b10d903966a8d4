--------------------------- MODULE BlobPurgeProofs ---------------------------
(***************************************************************************)
(* Proofs about BlobPurge, for any requests, hashes, accounts and times.    *)
(*                                                                          *)
(* The inductive invariant says, of every hash that is not tainted: what a  *)
(* request that got past its check relies on (InvUse), that nobody uses a   *)
(* hash the purge has taken (InvTaken, InvDeleted), and that content that   *)
(* has no commit key yet is held by a temporary link that the purge will    *)
(* leave alone (InvFound).  With it, a reservation lasts until it expires   *)
(* (InvHold).                                                               *)
(***************************************************************************)
EXTENDS BlobPurge, TLAPS

Safe(h) == h \notin tainted

InvIdle == purge = "idle" => doomed = {} /\ expired = {} /\ deleted = {}

UseOK(r) ==
  /\ req[r] = "linked" => Content[r] \in stored /\ Content[r] \in committed
  /\ req[r] = "put" => Content[r] \in stored
  /\ req[r] = "granted" => Content[r] \in stored /\ Content[r] \in committed
  /\ (req[r] = "ready" /\ InUse(r)) =>
        Content[r] \in stored /\ (kind[r] = "queue" \/ Content[r] \in committed)
InvUse == \A r \in Requests : Safe(Content[r]) => UseOK(r)

(* A commit key without a blob is one the purge is about to clear.          *)
InvCommitted == \A h \in committed \ deleted : Safe(h) => h \in stored

InvTaken ==
  \A h \in doomed : Safe(h) =>
    ~Linked(h) /\ ~Used(h) /\ \A x \in temp : x.hash = h => x \in expired

InvDeleted == \A h \in deleted : Safe(h) => h \notin stored

InvExpired == \A x \in expired : x.until <= time \/ x.kind = "sample"

(* No two temporary links have the same key, and the keys the purge is      *)
(* about to clear still have the value it has seen.                         *)
InvUnique == \A x, y \in temp : SameKey(x, y) => x = y
InvSeen == \A x \in temp, y \in expired : (Safe(x.hash) /\ SameKey(x, y)) => x = y

InvSample ==
  \A x \in temp : (Safe(x.hash) /\ x.kind \in {"sample", "undelete"}) => x.hash \in committed

Found(h) ==
  \E x \in temp :
    /\ x.hash = h /\ x.kind \in {"hold", "quota"}
    /\ h \notin doomed => \A y \in expired : ~SameKey(x, y)
InvFound ==
  \A h \in Hashes : (Safe(h) /\ h \notin committed /\ (h \in stored \/ Used(h))) => Found(h)

InvKind == \A x \in companions : x.kind # "hold"

IInv ==
  /\ TypeOK /\ InvIdle
  /\ InvUse /\ InvCommitted /\ InvTaken /\ InvDeleted
  /\ InvExpired /\ InvUnique /\ InvSeen /\ InvSample /\ InvFound
  /\ InvKind /\ CompanionsHeld
-----------------------------------------------------------------------------
(* Steps *)

LEMMA SetLinkType ==
  ASSUME NEW links \in SUBSET TempLink, NEW x \in TempLink
  PROVE  SetLink(links, x) \in SUBSET TempLink
BY DEF SetLink

LEMMA OwnLinkType ==
  ASSUME TypeOK, NEW r \in Requests, NEW u \in Nat
  PROVE  /\ OwnLink(r, u) \in TempLink
         /\ OwnLink(r, u).hash = Content[r]
         /\ OwnLink(r, u).until = u
         /\ OwnLink(r, u).kind \in {"hold", "quota"}
         /\ kind[r] # "jmap" => OwnLink(r, u).kind = "hold"
BY BlobContentAssumption DEF TypeOK, OwnLink, TempLink, LinkKinds

LEMMA SampleType ==
  ASSUME TypeOK, NEW r \in Requests
  PROVE  Sample(r) \in TempLink /\ Sample(r).hash = Content[r] /\ Sample(r).kind = "sample"
<1>1. time % Day \in Nat /\ time % Day <= time
  BY BlobTimeAssumption DEF TypeOK
<1>2. time - (time % Day) \in Nat
  BY <1>1 DEF TypeOK
<1>3. SampleTtl + (IF kind[r] = "queue" THEN time ELSE time - (time % Day)) \in Nat
  BY <1>2, BlobTimeAssumption DEF TypeOK
<1>4. QED
  BY <1>3, BlobContentAssumption DEF Sample, TempLink, LinkKinds

(* What the batches that write a temporary link do, x being the link.       *)
LEMMA ReserveFacts ==
  ASSUME TypeOK, NEW r \in Requests, Reserve(r)
  PROVE  \E x \in TempLink :
           /\ x.hash = Content[r] /\ x.until > time /\ x.kind \in {"hold", "quota"}
           /\ temp' = SetLink(temp, x)
           /\ companions' = companions \/ (companions' = companions \cup {x} /\ x.kind # "hold")
           /\ tainted \subseteq tainted' /\ tainted' \subseteq tainted \cup {Content[r]}
           /\ Content[r] \in doomed \/ Clashes(x) => Content[r] \in tainted'
           /\ until' = [until EXCEPT ![r] = x.until]
<1> DEFINE x == OwnLink(r, time + Ttl(r))
<1>1. time + Ttl(r) \in Nat /\ time + Ttl(r) > time
  BY BlobTimeAssumption DEF TypeOK, Ttl
<1>2. /\ x \in TempLink /\ x.hash = Content[r] /\ x.until > time /\ x.kind \in {"hold", "quota"}
  BY <1>1, OwnLinkType
<1>3. QED
  BY <1>2 DEF Reserve

LEMMA LinkFacts ==
  ASSUME TypeOK, NEW r \in Requests, NEW b \in BOOLEAN, Link(r, b)
  PROVE  \E x \in TempLink, own \in TempLink :
           /\ x.hash = Content[r] /\ x.kind = "sample"
           /\ own.hash = Content[r] /\ own.kind = "hold"
           /\ \E held \in SUBSET temp :
                /\ \/ held = temp
                   \/ /\ held = {y \in temp : ~SameKey(y, own)}
                      /\ Clashes(own) => Content[r] \in tainted'
                /\ \/ temp' = held /\ companions' = companions
                   \/ /\ temp' = SetLink(held, x) /\ companions' = companions \cup {x}
                      /\ Clashes(x) => Content[r] \in tainted'
           /\ tainted \subseteq tainted' /\ tainted' \subseteq tainted \cup {Content[r]}
<1> DEFINE x == Sample(r)
<1> DEFINE own == [hash |-> Content[r], account |-> Account[r], until |-> until[r], kind |-> "hold"]
<1> DEFINE held == IF EndsHold(r) THEN {y \in temp : ~SameKey(y, OwnLink(r, until[r]))} ELSE temp
<1>1. x \in TempLink /\ x.hash = Content[r] /\ x.kind = "sample"
  BY SampleType
<1>2. own \in TempLink /\ own.hash = Content[r] /\ own.kind = "hold"
  BY BlobContentAssumption DEF TypeOK, TempLink, LinkKinds
<1>3. EndsHold(r) => own = OwnLink(r, until[r])
  BY DEF EndsHold, OwnLink
<1>4. held \in SUBSET temp
  OBVIOUS
<1>5. \/ held = temp
      \/ held = {y \in temp : ~SameKey(y, own)} /\ (Clashes(own) => Content[r] \in tainted')
  BY <1>3 DEF Link
<1>6. \/ temp' = held /\ companions' = companions
      \/ /\ temp' = SetLink(held, x) /\ companions' = companions \cup {x}
         /\ Clashes(x) => Content[r] \in tainted'
  BY DEF Link
<1>7. tainted \subseteq tainted' /\ tainted' \subseteq tainted \cup {Content[r]}
  BY DEF Link
<1> HIDE DEF x, own, held
<1>8. QED
  BY <1>1, <1>2, <1>4, <1>5, <1>6, <1>7

LEMMA UnlinkFacts ==
  ASSUME TypeOK, NEW r \in Requests, NEW b \in BOOLEAN, Unlink(r, b)
  PROVE  \E x \in TempLink :
           /\ x.hash = Content[r] /\ x.kind = "undelete"
           /\ \/ temp' = temp /\ companions' = companions
              \/ /\ temp' = SetLink(temp, x) /\ companions' = companions \cup {x}
                 /\ Clashes(x) => Content[r] \in tainted'
           /\ tainted \subseteq tainted' /\ tainted' \subseteq tainted \cup {Content[r]}
<1> DEFINE x == [hash |-> Content[r], account |-> Account[r], kind |-> "undelete",
                 until |-> time + UndeleteTtl]
<1>1. x \in TempLink /\ x.hash = Content[r] /\ x.kind = "undelete"
  BY BlobContentAssumption, BlobTimeAssumption DEF TypeOK, TempLink, LinkKinds
<1>2. QED
  BY <1>1 DEF Unlink

LEMMA TypeStep == ASSUME TypeOK, [Next]_vars PROVE TypeOK'
<1>1. ASSUME NEW r \in Requests, Reserve(r) PROVE TypeOK'
  <2>1. PICK x \in TempLink : temp' = SetLink(temp, x) /\ until' = [until EXCEPT ![r] = x.until]
                             /\ companions' \subseteq companions \cup {x}
    BY <1>1, ReserveFacts
  <2>2. temp' \in SUBSET TempLink /\ companions' \in SUBSET TempLink
    BY <2>1, SetLinkType DEF TypeOK
  <2>3. until' \in [Requests -> Nat]
    BY <2>1 DEF TypeOK, TempLink
  <2>4. QED
    BY <1>1, <2>2, <2>3, BlobContentAssumption DEF TypeOK, Reserve, ReqStates, scan
<1>2. ASSUME NEW r \in Requests, Exists(r) PROVE TypeOK'
  BY <1>2, BlobContentAssumption, BlobTimeAssumption DEF TypeOK, Exists, ReqStates, AllKinds, scan
<1>3. ASSUME NEW r \in Requests, Put(r) PROVE TypeOK'
  BY <1>3, BlobContentAssumption, BlobTimeAssumption DEF TypeOK, Put, ReqStates, AllKinds, scan
<1>4. ASSUME NEW r \in Requests, CommitBlob(r) PROVE TypeOK'
  BY <1>4, BlobContentAssumption, BlobTimeAssumption DEF TypeOK, CommitBlob, ReqStates, AllKinds, scan
<1>5. ASSUME NEW r \in Requests, Access(r) PROVE TypeOK'
  BY <1>5, BlobContentAssumption, BlobTimeAssumption DEF TypeOK, Access, ReqStates, AllKinds, scan
<1>6. ASSUME NEW r \in Requests, NEW b \in BOOLEAN, Link(r, b) PROVE TypeOK'
  <2>1. PICK x \in TempLink, held \in SUBSET temp :
            /\ temp' = held \/ temp' = SetLink(held, x)
            /\ companions' \subseteq companions \cup {x}
    BY <1>6, LinkFacts
  <2>2. temp' \in SUBSET TempLink /\ companions' \in SUBSET TempLink
    BY <2>1, SetLinkType DEF TypeOK
  <2>3. QED
    BY <1>6, <2>2, BlobContentAssumption DEF TypeOK, Link, ReqStates, scan
<1>7. ASSUME NEW r \in Requests, NEW b \in BOOLEAN, Unlink(r, b) PROVE TypeOK'
  <2>1. PICK x \in TempLink : /\ temp' = temp \/ temp' = SetLink(temp, x)
                              /\ companions' \subseteq companions \cup {x}
    BY <1>7, UnlinkFacts
  <2>2. temp' \in SUBSET TempLink /\ companions' \in SUBSET TempLink
    BY <2>1, SetLinkType DEF TypeOK
  <2>3. QED
    BY <1>7, <2>2, BlobContentAssumption DEF TypeOK, Unlink, ReqStates, scan
<1>8. ASSUME NEW r \in Requests, Abandon(r) PROVE TypeOK'
  BY <1>8, BlobContentAssumption, BlobTimeAssumption DEF TypeOK, Abandon, ReqStates, AllKinds, scan
<1>9. CASE Scan
  BY <1>9 DEF TypeOK, Scan, Unheld, TempLink
<1>10. CASE DeleteBlob
  BY <1>10 DEF TypeOK, DeleteBlob
<1>11. CASE Clear
  BY <1>11 DEF TypeOK, Clear, Done
<1>12. CASE Stop
  BY <1>12 DEF TypeOK, Stop, Done
<1>13. CASE Tick
  BY <1>13, BlobContentAssumption, BlobTimeAssumption DEF TypeOK, Tick, ReqStates, AllKinds, scan
<1>14. CASE UNCHANGED vars
  BY <1>14 DEF TypeOK, vars
<1>15. QED
  BY <1>1, <1>2, <1>3, <1>4, <1>5, <1>6, <1>7, <1>8, <1>9, <1>10, <1>11, <1>12, <1>13, <1>14 DEF Next, RequestStep, PurgeStep

LEMMA IdleStep == ASSUME InvIdle, TypeOK, [Next]_vars PROVE InvIdle'
<1>1. ASSUME NEW r \in Requests, Reserve(r) PROVE InvIdle'
  BY <1>1 DEF InvIdle, Reserve, scan
<1>2. ASSUME NEW r \in Requests, Exists(r) PROVE InvIdle'
  BY <1>2 DEF InvIdle, Exists, scan
<1>3. ASSUME NEW r \in Requests, Put(r) PROVE InvIdle'
  BY <1>3 DEF InvIdle, Put, scan
<1>4. ASSUME NEW r \in Requests, CommitBlob(r) PROVE InvIdle'
  BY <1>4 DEF InvIdle, CommitBlob, scan
<1>5. ASSUME NEW r \in Requests, Access(r) PROVE InvIdle'
  BY <1>5 DEF InvIdle, Access, scan
<1>6. ASSUME NEW r \in Requests, NEW b \in BOOLEAN, Link(r, b) PROVE InvIdle'
  BY <1>6 DEF InvIdle, Link, scan
<1>7. ASSUME NEW r \in Requests, NEW b \in BOOLEAN, Unlink(r, b) PROVE InvIdle'
  BY <1>7 DEF InvIdle, Unlink, scan
<1>8. ASSUME NEW r \in Requests, Abandon(r) PROVE InvIdle'
  BY <1>8 DEF InvIdle, Abandon, scan
<1>9. CASE Scan
  BY <1>9 DEF InvIdle, Scan, scan
<1>10. CASE DeleteBlob
  BY <1>10 DEF InvIdle, TypeOK, DeleteBlob, scan
<1>11. CASE Clear
  BY <1>11 DEF InvIdle, Done, Clear, scan
<1>12. CASE Stop
  BY <1>12 DEF InvIdle, Done, Stop, scan
<1>13. CASE Tick
  BY <1>13 DEF InvIdle, Tick, scan
<1>14. CASE UNCHANGED vars
  BY <1>14 DEF InvIdle, vars
<1>15. QED
  BY <1>1, <1>2, <1>3, <1>4, <1>5, <1>6, <1>7, <1>8, <1>9, <1>10, <1>11, <1>12, <1>13, <1>14 DEF Next, RequestStep, PurgeStep

LEMMA ExpiredStep == ASSUME InvExpired, TypeOK, [Next]_vars PROVE InvExpired'
<1>1. ASSUME NEW r \in Requests, Reserve(r) PROVE InvExpired'
  BY <1>1 DEF InvExpired, Reserve, scan
<1>2. ASSUME NEW r \in Requests, Exists(r) PROVE InvExpired'
  BY <1>2 DEF InvExpired, Exists, scan
<1>3. ASSUME NEW r \in Requests, Put(r) PROVE InvExpired'
  BY <1>3 DEF InvExpired, Put, scan
<1>4. ASSUME NEW r \in Requests, CommitBlob(r) PROVE InvExpired'
  BY <1>4 DEF InvExpired, CommitBlob, scan
<1>5. ASSUME NEW r \in Requests, Access(r) PROVE InvExpired'
  BY <1>5 DEF InvExpired, Access, scan
<1>6. ASSUME NEW r \in Requests, NEW b \in BOOLEAN, Link(r, b) PROVE InvExpired'
  BY <1>6 DEF InvExpired, Link, scan
<1>7. ASSUME NEW r \in Requests, NEW b \in BOOLEAN, Unlink(r, b) PROVE InvExpired'
  BY <1>7 DEF InvExpired, Unlink, scan
<1>8. ASSUME NEW r \in Requests, Abandon(r) PROVE InvExpired'
  BY <1>8 DEF InvExpired, Abandon, scan
<1>9. CASE Scan
  BY <1>9 DEF TypeOK, InvExpired, Scan, Live, Superseded, TempLink
<1>10. CASE DeleteBlob
  BY <1>10 DEF InvExpired, DeleteBlob, scan
<1>11. CASE Clear
  BY <1>11 DEF InvExpired, Done, Clear, scan
<1>12. CASE Stop
  BY <1>12 DEF InvExpired, Done, Stop, scan
<1>13. CASE Tick
  BY <1>13 DEF TypeOK, InvExpired, Tick, TempLink, scan
<1>14. CASE UNCHANGED vars
  BY <1>14 DEF InvExpired, vars
<1>15. QED
  BY <1>1, <1>2, <1>3, <1>4, <1>5, <1>6, <1>7, <1>8, <1>9, <1>10, <1>11, <1>12, <1>13, <1>14 DEF Next, RequestStep, PurgeStep

LEMMA UniqueStep == ASSUME InvUnique, TypeOK, [Next]_vars PROVE InvUnique'
<1>1. ASSUME NEW r \in Requests, Reserve(r) PROVE InvUnique'
  <2>1. PICK x \in TempLink : temp' = SetLink(temp, x)
    BY <1>1, ReserveFacts
  <2>2. QED
    BY <2>1 DEF InvUnique, SetLink, SameKey
<1>2. ASSUME NEW r \in Requests, Exists(r) PROVE InvUnique'
  BY <1>2 DEF InvUnique, Exists, scan
<1>3. ASSUME NEW r \in Requests, Put(r) PROVE InvUnique'
  BY <1>3 DEF InvUnique, Put, scan
<1>4. ASSUME NEW r \in Requests, CommitBlob(r) PROVE InvUnique'
  BY <1>4 DEF InvUnique, CommitBlob, scan
<1>5. ASSUME NEW r \in Requests, Access(r) PROVE InvUnique'
  BY <1>5 DEF InvUnique, Access, scan
<1>6. ASSUME NEW r \in Requests, NEW b \in BOOLEAN, Link(r, b) PROVE InvUnique'
  <2>1. PICK x \in TempLink, held \in SUBSET temp : temp' = held \/ temp' = SetLink(held, x)
    BY <1>6, LinkFacts
  <2>2. QED
    BY <2>1 DEF InvUnique, SetLink, SameKey
<1>7. ASSUME NEW r \in Requests, NEW b \in BOOLEAN, Unlink(r, b) PROVE InvUnique'
  <2>1. PICK x \in TempLink : temp' = temp \/ temp' = SetLink(temp, x)
    BY <1>7, UnlinkFacts
  <2>2. QED
    BY <2>1 DEF InvUnique, SetLink, SameKey
<1>8. ASSUME NEW r \in Requests, Abandon(r) PROVE InvUnique'
  BY <1>8 DEF InvUnique, Abandon, scan
<1>9. CASE Scan
  BY <1>9 DEF InvUnique, Scan, scan
<1>10. CASE DeleteBlob
  BY <1>10 DEF InvUnique, DeleteBlob, scan
<1>11. CASE Clear
  BY <1>11 DEF InvUnique, Clear, scan
<1>12. CASE Stop
  BY <1>12 DEF InvUnique, Stop, scan
<1>13. CASE Tick
  BY <1>13 DEF InvUnique, Tick, scan
<1>14. CASE UNCHANGED vars
  BY <1>14 DEF InvUnique, vars
<1>15. QED
  BY <1>1, <1>2, <1>3, <1>4, <1>5, <1>6, <1>7, <1>8, <1>9, <1>10, <1>11, <1>12, <1>13, <1>14 DEF Next, RequestStep, PurgeStep

LEMMA KindStep == ASSUME InvKind, TypeOK, [Next]_vars PROVE InvKind'
<1>1. ASSUME NEW r \in Requests, Reserve(r) PROVE InvKind'
  <2>1. PICK x \in TempLink : companions' = companions
                             \/ (companions' = companions \cup {x} /\ x.kind # "hold")
    BY <1>1, ReserveFacts
  <2>2. QED
    BY <2>1 DEF InvKind
<1>2. ASSUME NEW r \in Requests, Exists(r) PROVE InvKind'
  BY <1>2 DEF InvKind, Exists, scan
<1>3. ASSUME NEW r \in Requests, Put(r) PROVE InvKind'
  BY <1>3 DEF InvKind, Put, scan
<1>4. ASSUME NEW r \in Requests, CommitBlob(r) PROVE InvKind'
  BY <1>4 DEF InvKind, CommitBlob, scan
<1>5. ASSUME NEW r \in Requests, Access(r) PROVE InvKind'
  BY <1>5 DEF InvKind, Access, scan
<1>6. ASSUME NEW r \in Requests, NEW b \in BOOLEAN, Link(r, b) PROVE InvKind'
  <2>1. PICK x \in TempLink : x.kind = "sample" /\ companions' \subseteq companions \cup {x}
    BY <1>6, LinkFacts
  <2>2. QED
    BY <2>1 DEF InvKind
<1>7. ASSUME NEW r \in Requests, NEW b \in BOOLEAN, Unlink(r, b) PROVE InvKind'
  <2>1. PICK x \in TempLink : x.kind = "undelete" /\ companions' \subseteq companions \cup {x}
    BY <1>7, UnlinkFacts
  <2>2. QED
    BY <2>1 DEF InvKind
<1>8. ASSUME NEW r \in Requests, Abandon(r) PROVE InvKind'
  BY <1>8 DEF InvKind, Abandon, scan
<1>9. CASE Scan
  BY <1>9 DEF InvKind, Scan, scan
<1>10. CASE DeleteBlob
  BY <1>10 DEF InvKind, DeleteBlob, scan
<1>11. CASE Clear
  BY <1>11 DEF InvKind, Clear, scan
<1>12. CASE Stop
  BY <1>12 DEF InvKind, Stop, scan
<1>13. CASE Tick
  BY <1>13 DEF InvKind, Tick, scan
<1>14. CASE UNCHANGED vars
  BY <1>14 DEF InvKind, vars
<1>15. QED
  BY <1>1, <1>2, <1>3, <1>4, <1>5, <1>6, <1>7, <1>8, <1>9, <1>10, <1>11, <1>12, <1>13, <1>14 DEF Next, RequestStep, PurgeStep

LEMMA SeenStep == ASSUME InvSeen, InvUnique, TypeOK, [Next]_vars PROVE InvSeen'
<1>1. ASSUME NEW r \in Requests, Reserve(r) PROVE InvSeen'
  <2>1. PICK x \in TempLink :
            /\ x.hash = Content[r]
            /\ temp' = SetLink(temp, x) /\ tainted \subseteq tainted'
            /\ Clashes(x) => Content[r] \in tainted'
    BY <1>1, ReserveFacts
  <2>2. \A y \in expired : (SameKey(x, y) /\ Safe(x.hash)') => x = y
    BY <2>1 DEF Clashes, SameKey, TypeOK, TempLink, Safe
  <2>3. expired' = expired
    BY <1>1 DEF Reserve, scan
  <2>4. QED
    BY <2>1, <2>2, <2>3 DEF InvSeen, SetLink, Safe, SameKey
<1>2. ASSUME NEW r \in Requests, Exists(r) PROVE InvSeen'
  BY <1>2 DEF InvSeen, Safe, Exists, scan
<1>3. ASSUME NEW r \in Requests, Put(r) PROVE InvSeen'
  BY <1>3 DEF InvSeen, Safe, Put, scan
<1>4. ASSUME NEW r \in Requests, CommitBlob(r) PROVE InvSeen'
  BY <1>4 DEF InvSeen, Safe, CommitBlob, scan
<1>5. ASSUME NEW r \in Requests, Access(r) PROVE InvSeen'
  BY <1>5 DEF InvSeen, Safe, Access, scan
<1>6. ASSUME NEW r \in Requests, NEW b \in BOOLEAN, Link(r, b) PROVE InvSeen'
  <2>1. PICK x \in TempLink, held \in SUBSET temp :
            /\ x.hash = Content[r] /\ tainted \subseteq tainted'
            /\ \/ temp' = held
               \/ temp' = SetLink(held, x) /\ (Clashes(x) => Content[r] \in tainted')
    BY <1>6, LinkFacts
  <2>2. temp' # held => \A y \in expired : (SameKey(x, y) /\ Safe(x.hash)') => x = y
    BY <2>1 DEF Clashes, SameKey, TypeOK, TempLink, Safe
  <2>3. expired' = expired
    BY <1>6 DEF Link, scan
  <2>4. QED
    BY <2>1, <2>2, <2>3 DEF InvSeen, SetLink, Safe, SameKey
<1>7. ASSUME NEW r \in Requests, NEW b \in BOOLEAN, Unlink(r, b) PROVE InvSeen'
  <2>1. PICK x \in TempLink :
            /\ x.hash = Content[r] /\ tainted \subseteq tainted'
            /\ \/ temp' = temp
               \/ temp' = SetLink(temp, x) /\ (Clashes(x) => Content[r] \in tainted')
    BY <1>7, UnlinkFacts
  <2>2. temp' # temp => \A y \in expired : (SameKey(x, y) /\ Safe(x.hash)') => x = y
    BY <2>1 DEF Clashes, SameKey, TypeOK, TempLink, Safe
  <2>3. expired' = expired
    BY <1>7 DEF Unlink, scan
  <2>4. QED
    BY <2>1, <2>2, <2>3 DEF InvSeen, SetLink, Safe, SameKey
<1>8. ASSUME NEW r \in Requests, Abandon(r) PROVE InvSeen'
  BY <1>8 DEF InvSeen, Safe, Abandon, scan
<1>9. CASE Scan
  BY <1>9 DEF InvSeen, InvUnique, Scan
<1>10. CASE DeleteBlob
  BY <1>10 DEF InvSeen, Safe, DeleteBlob, scan
<1>11. CASE Clear
  BY <1>11 DEF InvSeen, Clear, Done
<1>12. CASE Stop
  BY <1>12 DEF InvSeen, Stop, Done, Safe
<1>13. CASE Tick
  BY <1>13 DEF InvSeen, Safe, Tick, scan
<1>14. CASE UNCHANGED vars
  BY <1>14 DEF InvSeen, Safe, vars
<1>15. QED
  BY <1>1, <1>2, <1>3, <1>4, <1>5, <1>6, <1>7, <1>8, <1>9, <1>10, <1>11, <1>12, <1>13, <1>14 DEF Next, RequestStep, PurgeStep

LEMMA TakenStep == ASSUME InvTaken, TypeOK, [Next]_vars PROVE InvTaken'
<1>1. ASSUME NEW r \in Requests, Reserve(r) PROVE InvTaken'
  <2> SUFFICES ASSUME NEW h \in doomed, h \notin tainted'
               PROVE  ~Linked(h)' /\ ~Used(h)' /\ \A x \in temp' : x.hash = h => x \in expired
    BY <1>1 DEF InvTaken, Safe, Reserve, scan
  <2>0. h \notin tainted /\ ~Linked(h) /\ ~Used(h) /\ \A x \in temp : x.hash = h => x \in expired
    BY <1>1 DEF InvTaken, Safe, Reserve
  <2>1. PICK x \in TempLink :
            /\ x.hash = Content[r] /\ temp' = SetLink(temp, x) /\ until' = [until EXCEPT ![r] = x.until]
            /\ Content[r] \in doomed => Content[r] \in tainted'
    BY <1>1, ReserveFacts
  <2>2. Content[r] # h
    BY <2>1
  <2>3. \A s \in Requests \ {r} : req'[s] = req[s] /\ until'[s] = until[s]
    BY <1>1, <2>1 DEF Reserve, TypeOK
  <2>4. ~Linked(h)' /\ ~Used(h)'
    BY <1>1, <2>0, <2>2, <2>3 DEF Reserve, Linked, Used, InUse
  <2>5. QED
    BY <2>0, <2>1, <2>2, <2>4 DEF SetLink
<1>2. ASSUME NEW r \in Requests, Exists(r) PROVE InvTaken'
  <2> SUFFICES ASSUME NEW h \in doomed, h \notin tainted'
               PROVE  ~Linked(h)' /\ ~Used(h)' /\ \A x \in temp' : x.hash = h => x \in expired
    BY <1>2 DEF InvTaken, Safe, Exists, scan
  <2>0. h \notin tainted /\ ~Linked(h) /\ ~Used(h) /\ \A x \in temp : x.hash = h => x \in expired
    BY <1>2 DEF InvTaken, Safe, Exists
  <2>1. Content[r] # h
    BY <1>2, <2>0 DEF Exists, Used, InUse
  <2>2. \A s \in Requests \ {r} : req'[s] = req[s]
    BY <1>2 DEF Exists, TypeOK
  <2>3. QED
    BY <1>2, <2>0, <2>1, <2>2 DEF Exists, Linked, Used, InUse
<1>3. ASSUME NEW r \in Requests, Put(r) PROVE InvTaken'
  <2> SUFFICES ASSUME NEW h \in doomed, h \notin tainted'
               PROVE  ~Linked(h)' /\ ~Used(h)' /\ \A x \in temp' : x.hash = h => x \in expired
    BY <1>3 DEF InvTaken, Safe, Put, scan
  <2>0. h \notin tainted /\ ~Linked(h) /\ ~Used(h) /\ \A x \in temp : x.hash = h => x \in expired
    BY <1>3 DEF InvTaken, Safe, Put
  <2>1. Content[r] # h
    BY <1>3, <2>0 DEF Put, Used, InUse
  <2>2. \A s \in Requests \ {r} : req'[s] = req[s]
    BY <1>3 DEF Put, TypeOK
  <2>3. QED
    BY <1>3, <2>0, <2>1, <2>2 DEF Put, Linked, Used, InUse
<1>4. ASSUME NEW r \in Requests, CommitBlob(r) PROVE InvTaken'
  <2> SUFFICES ASSUME NEW h \in doomed, h \notin tainted'
               PROVE  ~Linked(h)' /\ ~Used(h)' /\ \A x \in temp' : x.hash = h => x \in expired
    BY <1>4 DEF InvTaken, Safe, CommitBlob, scan
  <2>0. h \notin tainted /\ ~Linked(h) /\ ~Used(h) /\ \A x \in temp : x.hash = h => x \in expired
    BY <1>4 DEF InvTaken, Safe, CommitBlob
  <2>1. Content[r] # h
    BY <1>4, <2>0 DEF CommitBlob, Used, InUse
  <2>2. \A s \in Requests \ {r} : req'[s] = req[s]
    BY <1>4 DEF CommitBlob, TypeOK
  <2>3. QED
    BY <1>4, <2>0, <2>1, <2>2 DEF CommitBlob, Linked, Used, InUse
<1>5. ASSUME NEW r \in Requests, Access(r) PROVE InvTaken'
  <2> SUFFICES ASSUME NEW h \in doomed, h \notin tainted'
               PROVE  ~Linked(h)' /\ ~Used(h)' /\ \A x \in temp' : x.hash = h => x \in expired
    BY <1>5 DEF InvTaken, Safe, Access, scan
  <2>0. h \notin tainted /\ ~Linked(h) /\ ~Used(h) /\ \A x \in temp : x.hash = h => x \in expired
    BY <1>5 DEF InvTaken, Safe, Access
  <2>1. Content[r] # h
    BY <1>5, <2>0 DEF Access, Linked, Used, InUse
  <2>2. \A s \in Requests \ {r} : req'[s] = req[s]
    BY <1>5 DEF Access, TypeOK
  <2>3. QED
    BY <1>5, <2>0, <2>1, <2>2 DEF Access, Linked, Used, InUse
<1>6. ASSUME NEW r \in Requests, NEW b \in BOOLEAN, Link(r, b) PROVE InvTaken'
  <2> SUFFICES ASSUME NEW h \in doomed, h \notin tainted'
               PROVE  ~Linked(h)' /\ ~Used(h)' /\ \A x \in temp' : x.hash = h => x \in expired
    BY <1>6 DEF InvTaken, Safe, Link, scan
  <2>0. h \notin tainted /\ ~Linked(h) /\ ~Used(h) /\ \A x \in temp : x.hash = h => x \in expired
    BY <1>6 DEF InvTaken, Safe, Link
  <2>1. PICK x \in TempLink, held \in SUBSET temp :
            /\ x.hash = Content[r]
            /\ temp' = held \/ temp' = SetLink(held, x)
    BY <1>6, LinkFacts
  <2>2. Content[r] # h
    BY <1>6, <2>0 DEF Link, CanLink, Used, InUse
  <2>3. \A s \in Requests \ {r} : req'[s] = req[s]
    BY <1>6 DEF Link, TypeOK
  <2>4. ~Linked(h)' /\ ~Used(h)'
    BY <1>6, <2>0, <2>2, <2>3 DEF Link, Linked, Used, InUse
  <2>5. QED
    BY <2>0, <2>1, <2>2, <2>4 DEF SetLink
<1>7. ASSUME NEW r \in Requests, NEW b \in BOOLEAN, Unlink(r, b) PROVE InvTaken'
  <2> SUFFICES ASSUME NEW h \in doomed, h \notin tainted'
               PROVE  ~Linked(h)' /\ ~Used(h)' /\ \A x \in temp' : x.hash = h => x \in expired
    BY <1>7 DEF InvTaken, Safe, Unlink, scan
  <2>0. h \notin tainted /\ ~Linked(h) /\ ~Used(h) /\ \A x \in temp : x.hash = h => x \in expired
    BY <1>7 DEF InvTaken, Safe, Unlink
  <2>1. PICK x \in TempLink : x.hash = Content[r] /\ (temp' = temp \/ temp' = SetLink(temp, x))
    BY <1>7, UnlinkFacts
  <2>2. Content[r] # h
    BY <1>7, <2>0 DEF Unlink, Linked
  <2>3. \A s \in Requests \ {r} : req'[s] = req[s]
    BY <1>7 DEF Unlink, TypeOK
  <2>4. ~Linked(h)' /\ ~Used(h)'
    BY <1>7, <2>0, <2>2, <2>3 DEF Unlink, Linked, Used, InUse
  <2>5. QED
    BY <2>0, <2>1, <2>2, <2>4 DEF SetLink
<1>8. ASSUME NEW r \in Requests, Abandon(r) PROVE InvTaken'
  <2> SUFFICES ASSUME NEW h \in doomed, h \notin tainted'
               PROVE  ~Linked(h)' /\ ~Used(h)' /\ \A x \in temp' : x.hash = h => x \in expired
    BY <1>8 DEF InvTaken, Safe, Abandon, scan
  <2>0. h \notin tainted /\ ~Linked(h) /\ ~Used(h) /\ \A x \in temp : x.hash = h => x \in expired
    BY <1>8 DEF InvTaken, Safe, Abandon
  <2>1. \A s \in Requests : req'[s] = req[s] \/ req'[s] = "over"
    BY <1>8 DEF Abandon, TypeOK
  <2>2. QED
    BY <1>8, <2>0, <2>1 DEF Abandon, Linked, Used, InUse
<1>9. CASE Scan
  <2> SUFFICES ASSUME NEW h \in doomed', h \notin tainted'
               PROVE  ~Linked(h)' /\ ~Used(h)' /\ \A x \in temp' : x.hash = h => x \in expired'
    BY DEF InvTaken, Safe
  <2>1. h \in Unheld /\ ~Used(h)
    BY <1>9 DEF Scan
  <2>2. ~Linked(h) /\ \A x \in temp : x.hash = h => ~Live(x)
    BY <2>1 DEF Unheld
  <2>3. QED
    BY <1>9, <2>1, <2>2 DEF Scan, Linked, Used, InUse
<1>10. CASE DeleteBlob
  BY <1>10 DEF InvTaken, DeleteBlob, Safe, Linked, Used, InUse
<1>11. CASE Clear
  BY <1>11 DEF InvTaken, Clear, Done
<1>12. CASE Stop
  BY <1>12 DEF InvTaken, Stop, Done
<1>13. CASE Tick
  <2> SUFFICES ASSUME NEW h \in doomed, h \notin tainted'
               PROVE  ~Linked(h)' /\ ~Used(h)' /\ \A x \in temp' : x.hash = h => x \in expired
    BY <1>13 DEF InvTaken, Safe, Tick, scan
  <2>0. h \notin tainted /\ ~Linked(h) /\ ~Used(h) /\ \A x \in temp : x.hash = h => x \in expired
    BY <1>13 DEF InvTaken, Safe, Tick
  <2>1. \A s \in Requests : until[s] > time' => until[s] > time
    BY <1>13 DEF Tick, TypeOK
  <2>2. QED
    BY <1>13, <2>0, <2>1 DEF Tick, Linked, Used, InUse
<1>14. CASE UNCHANGED vars
  BY <1>14 DEF InvTaken, Safe, Linked, Used, InUse, vars
<1>15. QED
  BY <1>1, <1>2, <1>3, <1>4, <1>5, <1>6, <1>7, <1>8, <1>9, <1>10, <1>11, <1>12, <1>13, <1>14 DEF Next, RequestStep, PurgeStep

LEMMA DeletedStep == ASSUME InvDeleted, InvTaken, TypeOK, [Next]_vars PROVE InvDeleted'
<1>1. ASSUME NEW r \in Requests, Reserve(r) PROVE InvDeleted'
  BY <1>1 DEF InvDeleted, Safe, Reserve, scan
<1>2. ASSUME NEW r \in Requests, Exists(r) PROVE InvDeleted'
  BY <1>2 DEF InvDeleted, Safe, Exists, scan
<1>3. ASSUME NEW r \in Requests, Put(r) PROVE InvDeleted'
  <2>1. Used(Content[r])
    BY <1>3 DEF Put, Used, InUse
  <2>2. Content[r] \in deleted => ~Safe(Content[r])
    BY <2>1 DEF InvTaken, TypeOK
  <2>3. QED
    BY <1>3, <2>2 DEF InvDeleted, Safe, Put, scan
<1>4. ASSUME NEW r \in Requests, CommitBlob(r) PROVE InvDeleted'
  BY <1>4 DEF InvDeleted, Safe, CommitBlob, scan
<1>5. ASSUME NEW r \in Requests, Access(r) PROVE InvDeleted'
  BY <1>5 DEF InvDeleted, Safe, Access, scan
<1>6. ASSUME NEW r \in Requests, NEW b \in BOOLEAN, Link(r, b) PROVE InvDeleted'
  BY <1>6 DEF InvDeleted, Safe, Link, scan
<1>7. ASSUME NEW r \in Requests, NEW b \in BOOLEAN, Unlink(r, b) PROVE InvDeleted'
  BY <1>7 DEF InvDeleted, Safe, Unlink, scan
<1>8. ASSUME NEW r \in Requests, Abandon(r) PROVE InvDeleted'
  BY <1>8 DEF InvDeleted, Safe, Abandon, scan
<1>9. CASE Scan
  BY <1>9 DEF InvDeleted, Scan
<1>10. CASE DeleteBlob
  BY <1>10 DEF InvDeleted, DeleteBlob, Safe
<1>11. CASE Clear
  BY <1>11 DEF InvDeleted, Clear, Done
<1>12. CASE Stop
  BY <1>12 DEF InvDeleted, Stop, Done
<1>13. CASE Tick
  BY <1>13 DEF InvDeleted, Safe, Tick, scan
<1>14. CASE UNCHANGED vars
  BY <1>14 DEF InvDeleted, Safe, vars
<1>15. QED
  BY <1>1, <1>2, <1>3, <1>4, <1>5, <1>6, <1>7, <1>8, <1>9, <1>10, <1>11, <1>12, <1>13, <1>14 DEF Next, RequestStep, PurgeStep

LEMMA UseStep == ASSUME InvUse, InvCommitted, InvTaken, TypeOK, [Next]_vars PROVE InvUse'
<1>1. ASSUME NEW r \in Requests, Reserve(r) PROVE InvUse'
  <2> SUFFICES ASSUME NEW s \in Requests, Content[s] \notin tainted' PROVE UseOK(s)'
    BY DEF InvUse, Safe
  <2>0. Content[s] \notin tainted /\ UseOK(s)
    BY <1>1 DEF InvUse, Safe, Reserve
  <2>1. CASE s = r
    BY <1>1, <2>1 DEF Reserve, UseOK, TypeOK
  <2>2. CASE s # r
    <3>1. req'[s] = req[s] /\ until'[s] = until[s]
      BY <1>1, <2>2 DEF Reserve, TypeOK
    <3>2. QED
      BY <1>1, <2>0, <3>1 DEF Reserve, UseOK, InUse
  <2>3. QED
    BY <2>1, <2>2
<1>2. ASSUME NEW r \in Requests, Exists(r) PROVE InvUse'
  <2> SUFFICES ASSUME NEW s \in Requests, Content[s] \notin tainted' PROVE UseOK(s)'
    BY DEF InvUse, Safe
  <2>0. Content[s] \notin tainted /\ UseOK(s)
    BY <1>2 DEF InvUse, Safe, Exists
  <2>1. CASE s = r
    <3>1. Used(Content[r])
      BY <1>2 DEF Exists, Used, InUse
    <3>2. Content[r] \notin deleted
      BY <3>1, <2>0, <2>1 DEF InvTaken, Safe, TypeOK
    <3>3. QED
      BY <1>2, <2>0, <2>1, <3>2 DEF Exists, UseOK, TypeOK, InvCommitted, Safe
  <2>2. CASE s # r
    <3>1. req'[s] = req[s]
      BY <1>2, <2>2 DEF Exists, TypeOK
    <3>2. QED
      BY <1>2, <2>0, <3>1 DEF Exists, UseOK, InUse
  <2>3. QED
    BY <2>1, <2>2
<1>3. ASSUME NEW r \in Requests, Put(r) PROVE InvUse'
  <2> SUFFICES ASSUME NEW s \in Requests, Content[s] \notin tainted' PROVE UseOK(s)'
    BY DEF InvUse, Safe
  <2>0. Content[s] \notin tainted /\ UseOK(s)
    BY <1>3 DEF InvUse, Safe, Put
  <2>1. CASE s = r
    BY <1>3, <2>1 DEF Put, UseOK, TypeOK
  <2>2. CASE s # r
    <3>1. req'[s] = req[s]
      BY <1>3, <2>2 DEF Put, TypeOK
    <3>2. QED
      BY <1>3, <2>0, <3>1 DEF Put, UseOK, InUse
  <2>3. QED
    BY <2>1, <2>2
<1>4. ASSUME NEW r \in Requests, CommitBlob(r) PROVE InvUse'
  <2> SUFFICES ASSUME NEW s \in Requests, Content[s] \notin tainted' PROVE UseOK(s)'
    BY DEF InvUse, Safe
  <2>0. Content[s] \notin tainted /\ UseOK(s)
    BY <1>4 DEF InvUse, Safe, CommitBlob
  <2>1. CASE s = r
    BY <1>4, <2>0, <2>1 DEF CommitBlob, UseOK, TypeOK
  <2>2. CASE s # r
    <3>1. req'[s] = req[s]
      BY <1>4, <2>2 DEF CommitBlob, TypeOK
    <3>2. QED
      BY <1>4, <2>0, <3>1 DEF CommitBlob, UseOK, InUse
  <2>3. QED
    BY <2>1, <2>2
<1>5. ASSUME NEW r \in Requests, Access(r) PROVE InvUse'
  <2> SUFFICES ASSUME NEW s \in Requests, Content[s] \notin tainted' PROVE UseOK(s)'
    BY DEF InvUse, Safe
  <2>0. Content[s] \notin tainted /\ UseOK(s)
    BY <1>5 DEF InvUse, Safe, Access
  <2>1. CASE s = r
    <3>1. Content[r] \in committed
      <4>1. CASE req[r] = "ready" /\ kind[r] = "jmap" /\ until[r] > time
        BY <4>1, <2>0, <2>1 DEF UseOK, InUse
      <4>2. CASE Linked(Content[r])
        BY <4>2, <2>0, <2>1 DEF Linked, InvUse, UseOK, Safe
      <4>3. QED
        BY <1>5, <4>1, <4>2 DEF Access
    <3>2. QED
      BY <1>5, <2>1, <3>1 DEF Access, UseOK, TypeOK
  <2>2. CASE s # r
    <3>1. req'[s] = req[s]
      BY <1>5, <2>2 DEF Access, TypeOK
    <3>2. QED
      BY <1>5, <2>0, <3>1 DEF Access, UseOK, InUse
  <2>3. QED
    BY <2>1, <2>2
<1>6. ASSUME NEW r \in Requests, NEW b \in BOOLEAN, Link(r, b) PROVE InvUse'
  <2> SUFFICES ASSUME NEW s \in Requests, Content[s] \notin tainted' PROVE UseOK(s)'
    BY DEF InvUse, Safe
  <2>0. Content[s] \notin tainted /\ UseOK(s)
    BY <1>6 DEF InvUse, Safe, Link
  <2>1. CASE s = r
    BY <1>6, <2>0, <2>1 DEF Link, CanLink, UseOK, InUse, TypeOK, AllKinds
  <2>2. CASE s # r
    <3>1. req'[s] = req[s]
      BY <1>6, <2>2 DEF Link, TypeOK
    <3>2. QED
      BY <1>6, <2>0, <3>1 DEF Link, UseOK, InUse
  <2>3. QED
    BY <2>1, <2>2
<1>7. ASSUME NEW r \in Requests, NEW b \in BOOLEAN, Unlink(r, b) PROVE InvUse'
  <2> SUFFICES ASSUME NEW s \in Requests, Content[s] \notin tainted' PROVE UseOK(s)'
    BY DEF InvUse, Safe
  <2>0. Content[s] \notin tainted /\ UseOK(s)
    BY <1>7 DEF InvUse, Safe, Unlink
  <2>1. CASE s = r
    BY <1>7, <2>1 DEF Unlink, UseOK, TypeOK
  <2>2. CASE s # r
    <3>1. req'[s] = req[s]
      BY <1>7, <2>2 DEF Unlink, TypeOK
    <3>2. QED
      BY <1>7, <2>0, <3>1 DEF Unlink, UseOK, InUse
  <2>3. QED
    BY <2>1, <2>2
<1>8. ASSUME NEW r \in Requests, Abandon(r) PROVE InvUse'
  <2> SUFFICES ASSUME NEW s \in Requests, Content[s] \notin tainted' PROVE UseOK(s)'
    BY DEF InvUse, Safe
  <2>0. Content[s] \notin tainted /\ UseOK(s)
    BY <1>8 DEF InvUse, Safe, Abandon
  <2>1. CASE s = r
    BY <1>8, <2>1 DEF Abandon, UseOK, TypeOK
  <2>2. CASE s # r
    <3>1. req'[s] = req[s]
      BY <1>8, <2>2 DEF Abandon, TypeOK
    <3>2. QED
      BY <1>8, <2>0, <3>1 DEF Abandon, UseOK, InUse
  <2>3. QED
    BY <2>1, <2>2
<1>9. CASE Scan
  <2> SUFFICES ASSUME NEW s \in Requests, Content[s] \notin tainted' PROVE UseOK(s)'
    BY DEF InvUse, Safe
  <2>0. Content[s] \notin tainted /\ UseOK(s)
    BY <1>9 DEF InvUse, Safe, Scan
  <2>1. QED
    BY <1>9, <2>0 DEF Scan, UseOK, InUse
<1>10. CASE DeleteBlob
  <2> SUFFICES ASSUME NEW s \in Requests, Content[s] \notin tainted' PROVE UseOK(s)'
    BY DEF InvUse, Safe
  <2>0. Content[s] \notin tainted /\ UseOK(s)
    BY <1>10 DEF InvUse, Safe, DeleteBlob
  <2>1. Content[s] \in doomed => req[s] # "linked" /\ ~InUse(s)
    BY <2>0 DEF InvTaken, Safe, Linked, Used
  <2>2. QED
    BY <1>10, <2>0, <2>1 DEF DeleteBlob, UseOK, InUse
<1>11. CASE Clear
  <2> SUFFICES ASSUME NEW s \in Requests, Content[s] \notin tainted' PROVE UseOK(s)'
    BY DEF InvUse, Safe
  <2>1. CASE Content[s] \in tainted
    <3>1. ~Linked(Content[s]) /\ ~Used(Content[s])
      BY <1>11, <2>1 DEF Clear, Forgotten
    <3>2. req[s] # "linked" /\ ~InUse(s)
      BY <3>1 DEF Linked, Used
    <3>3. QED
      BY <1>11, <3>2 DEF Clear, UseOK, InUse
  <2>2. CASE Content[s] \notin tainted
    <3>1. UseOK(s)
      BY <2>2 DEF InvUse, Safe
    <3>2. Content[s] \in doomed => req[s] # "linked" /\ ~InUse(s)
      BY <2>2 DEF InvTaken, Safe, Linked, Used
    <3>3. QED
      BY <1>11, <3>1, <3>2 DEF Clear, UseOK, InUse
  <2>3. QED
    BY <2>1, <2>2
<1>12. CASE Stop
  <2> SUFFICES ASSUME NEW s \in Requests, Content[s] \notin tainted' PROVE UseOK(s)'
    BY DEF InvUse, Safe
  <2>0. UseOK(s)
    BY <1>12 DEF InvUse, Safe, Stop
  <2>1. QED
    BY <1>12, <2>0 DEF Stop, UseOK, InUse
<1>13. CASE Tick
  <2> SUFFICES ASSUME NEW s \in Requests, Content[s] \notin tainted' PROVE UseOK(s)'
    BY DEF InvUse, Safe
  <2>0. UseOK(s)
    BY <1>13 DEF InvUse, Safe, Tick
  <2>1. until[s] > time' => until[s] > time
    BY <1>13 DEF Tick, TypeOK
  <2>2. QED
    BY <1>13, <2>0, <2>1 DEF Tick, UseOK, InUse
<1>14. CASE UNCHANGED vars
  BY <1>14 DEF InvUse, Safe, UseOK, InUse, vars
<1>15. QED
  BY <1>1, <1>2, <1>3, <1>4, <1>5, <1>6, <1>7, <1>8, <1>9, <1>10, <1>11, <1>12, <1>13, <1>14 DEF Next, RequestStep, PurgeStep

LEMMA CommittedStep == ASSUME InvCommitted, InvUse, InvIdle, TypeOK, [Next]_vars PROVE InvCommitted'
<1>1. ASSUME NEW r \in Requests, Reserve(r) PROVE InvCommitted'
  BY <1>1 DEF InvCommitted, Safe, Reserve, scan
<1>2. ASSUME NEW r \in Requests, Exists(r) PROVE InvCommitted'
  BY <1>2 DEF InvCommitted, Safe, Exists, scan
<1>3. ASSUME NEW r \in Requests, Put(r) PROVE InvCommitted'
  BY <1>3 DEF InvCommitted, Safe, Put, scan
<1>4. ASSUME NEW r \in Requests, CommitBlob(r) PROVE InvCommitted'
  BY <1>4 DEF InvCommitted, InvUse, UseOK, Safe, CommitBlob, scan
<1>5. ASSUME NEW r \in Requests, Access(r) PROVE InvCommitted'
  BY <1>5 DEF InvCommitted, Safe, Access, scan
<1>6. ASSUME NEW r \in Requests, NEW b \in BOOLEAN, Link(r, b) PROVE InvCommitted'
  BY <1>6 DEF InvCommitted, InvUse, UseOK, InUse, Safe, Link, CanLink, scan
<1>7. ASSUME NEW r \in Requests, NEW b \in BOOLEAN, Unlink(r, b) PROVE InvCommitted'
  BY <1>7 DEF InvCommitted, Safe, Unlink, scan
<1>8. ASSUME NEW r \in Requests, Abandon(r) PROVE InvCommitted'
  BY <1>8 DEF InvCommitted, Safe, Abandon, scan
<1>9. CASE Scan
  BY <1>9 DEF InvCommitted, InvIdle, Safe, Scan
<1>10. CASE DeleteBlob
  BY <1>10 DEF InvCommitted, Safe, DeleteBlob, scan
<1>11. CASE Clear
  <2> SUFFICES ASSUME NEW h \in committed \ doomed, h \notin tainted' PROVE h \in stored
    BY <1>11 DEF InvCommitted, Safe, Clear, Done
  <2>1. h \notin tainted
    BY <1>11 DEF Clear, Forgotten
  <2>2. QED
    BY <2>1 DEF InvCommitted, Safe, TypeOK
<1>12. CASE Stop
  BY <1>12 DEF InvCommitted, Safe, Stop, Done
<1>13. CASE Tick
  BY <1>13 DEF InvCommitted, Safe, Tick, scan
<1>14. CASE UNCHANGED vars
  BY <1>14 DEF InvCommitted, Safe, vars
<1>15. QED
  BY <1>1, <1>2, <1>3, <1>4, <1>5, <1>6, <1>7, <1>8, <1>9, <1>10, <1>11, <1>12, <1>13, <1>14 DEF Next, RequestStep, PurgeStep

LEMMA SampleStep == ASSUME InvSample, InvUse, InvTaken, InvIdle, TypeOK, [Next]_vars PROVE InvSample'
<1>1. ASSUME NEW r \in Requests, Reserve(r) PROVE InvSample'
  <2>1. PICK x \in TempLink : /\ temp' = SetLink(temp, x) /\ x.kind \in {"hold", "quota"}
                              /\ tainted \subseteq tainted'
    BY <1>1, ReserveFacts
  <2>2. QED
    BY <1>1, <2>1 DEF InvSample, Safe, SetLink, Reserve
<1>2. ASSUME NEW r \in Requests, Exists(r) PROVE InvSample'
  BY <1>2 DEF InvSample, Safe, Exists, scan
<1>3. ASSUME NEW r \in Requests, Put(r) PROVE InvSample'
  BY <1>3 DEF InvSample, Safe, Put, scan
<1>4. ASSUME NEW r \in Requests, CommitBlob(r) PROVE InvSample'
  BY <1>4 DEF InvSample, Safe, CommitBlob, scan
<1>5. ASSUME NEW r \in Requests, Access(r) PROVE InvSample'
  BY <1>5 DEF InvSample, Safe, Access, scan
<1>6. ASSUME NEW r \in Requests, NEW b \in BOOLEAN, Link(r, b) PROVE InvSample'
  <2>1. PICK x \in TempLink, held \in SUBSET temp :
            /\ x.hash = Content[r] /\ tainted \subseteq tainted'
            /\ temp' = held \/ temp' = SetLink(held, x)
    BY <1>6, LinkFacts
  <2>2. Content[r] \in tainted' \/ Content[r] \in committed'
    BY <1>6, <2>1 DEF InvUse, UseOK, InUse, Safe, Link, CanLink
  <2>3. committed \subseteq committed'
    BY <1>6 DEF Link
  <2>4. QED
    BY <2>1, <2>2, <2>3 DEF InvSample, Safe, SetLink
<1>7. ASSUME NEW r \in Requests, NEW b \in BOOLEAN, Unlink(r, b) PROVE InvSample'
  <2>1. PICK x \in TempLink : /\ x.hash = Content[r] /\ tainted \subseteq tainted'
                              /\ temp' = temp \/ temp' = SetLink(temp, x)
    BY <1>7, UnlinkFacts
  <2>2. Content[r] \in tainted \/ Content[r] \in committed
    BY <1>7 DEF InvUse, UseOK, Safe, Unlink
  <2>3. QED
    BY <1>7, <2>1, <2>2 DEF InvSample, Safe, SetLink, Unlink
<1>8. ASSUME NEW r \in Requests, Abandon(r) PROVE InvSample'
  BY <1>8 DEF InvSample, Safe, Abandon, scan
<1>9. CASE Scan
  BY <1>9 DEF InvSample, Safe, Scan, scan
<1>10. CASE DeleteBlob
  BY <1>10 DEF InvSample, Safe, DeleteBlob, scan
<1>11. CASE Clear
  <2> SUFFICES ASSUME NEW x \in temp', x.hash \notin tainted', x.kind \in {"sample", "undelete"}
               PROVE  x.hash \in committed'
    BY DEF InvSample, Safe
  <2>1. x \in temp /\ x \notin expired
    BY <1>11 DEF Clear, SameKey
  <2>2. x.hash \in tainted => Forgotten(x.hash, temp', companions', committed')
    BY <1>11, <2>1 DEF Clear, TypeOK
  <2>3. x.hash \notin tainted
    BY <2>2 DEF Forgotten
  <2>4. x.hash \notin doomed
    BY <2>1, <2>3 DEF InvTaken, Safe
  <2>5. QED
    BY <1>11, <2>1, <2>3, <2>4 DEF InvSample, Safe, Clear
<1>12. CASE Stop
  BY <1>12 DEF InvSample, Safe, Stop
<1>13. CASE Tick
  BY <1>13 DEF InvSample, Safe, Tick, scan
<1>14. CASE UNCHANGED vars
  BY <1>14 DEF InvSample, Safe, vars
<1>15. QED
  BY <1>1, <1>2, <1>3, <1>4, <1>5, <1>6, <1>7, <1>8, <1>9, <1>10, <1>11, <1>12, <1>13, <1>14 DEF Next, RequestStep, PurgeStep

LEMMA CompanionStep == ASSUME CompanionsHeld, InvSeen, InvKind, InvIdle, TypeOK, [Next]_vars PROVE CompanionsHeld'
<1>1. ASSUME NEW r \in Requests, Reserve(r) PROVE CompanionsHeld'
  <2>1. PICK x \in TempLink :
            /\ x.hash = Content[r]
            /\ temp' = SetLink(temp, x) /\ companions' \subseteq companions \cup {x}
            /\ tainted \subseteq tainted' /\ (Clashes(x) => Content[r] \in tainted')
    BY <1>1, ReserveFacts
  <2>2. \A y \in temp : (SameKey(x, y) /\ x.hash \notin tainted') => x = y
    BY <2>1 DEF Clashes, SameKey, TypeOK, TempLink
  <2>3. QED
    BY <2>1, <2>2 DEF CompanionsHeld, SetLink, SameKey
<1>2. ASSUME NEW r \in Requests, Exists(r) PROVE CompanionsHeld'
  BY <1>2 DEF CompanionsHeld, Exists, scan
<1>3. ASSUME NEW r \in Requests, Put(r) PROVE CompanionsHeld'
  BY <1>3 DEF CompanionsHeld, Put, scan
<1>4. ASSUME NEW r \in Requests, CommitBlob(r) PROVE CompanionsHeld'
  BY <1>4 DEF CompanionsHeld, CommitBlob, scan
<1>5. ASSUME NEW r \in Requests, Access(r) PROVE CompanionsHeld'
  BY <1>5 DEF CompanionsHeld, Access, scan
<1>6. ASSUME NEW r \in Requests, NEW b \in BOOLEAN, Link(r, b) PROVE CompanionsHeld'
  <2>1. PICK x \in TempLink, own \in TempLink, held \in SUBSET temp :
            /\ x.hash = Content[r] /\ own.hash = Content[r] /\ own.kind = "hold"
            /\ tainted \subseteq tainted'
            /\ \/ held = temp
               \/ /\ held = {y \in temp : ~SameKey(y, own)}
                  /\ Clashes(own) => Content[r] \in tainted'
            /\ \/ temp' = held /\ companions' = companions
               \/ /\ temp' = SetLink(held, x) /\ companions' = companions \cup {x}
                  /\ Clashes(x) => Content[r] \in tainted'
    BY <1>6, LinkFacts
  <2>2. \A y \in companions : y.hash \in tainted' \/ y \in held
    <3> SUFFICES ASSUME NEW y \in companions, y.hash \notin tainted' PROVE y \in held
      OBVIOUS
    <3>1. y \in temp /\ y.kind # "hold"
      BY <2>1 DEF CompanionsHeld, InvKind
    <3>2. SameKey(y, own) => Clashes(own)
      BY <2>1, <3>1 DEF Clashes, SameKey
    <3>3. SameKey(y, own) => y.hash = Content[r]
      BY <2>1 DEF SameKey
    <3>4. QED
      BY <2>1, <3>1, <3>2, <3>3
  <2>3. CASE temp' = held /\ companions' = companions
    BY <2>2, <2>3 DEF CompanionsHeld
  <2>4. CASE /\ temp' = SetLink(held, x) /\ companions' = companions \cup {x}
             /\ Clashes(x) => Content[r] \in tainted'
    <3>1. \A y \in temp : (SameKey(x, y) /\ x.hash \notin tainted') => x = y
      BY <2>1, <2>4 DEF Clashes, SameKey, TypeOK, TempLink
    <3>2. QED
      BY <2>1, <2>2, <2>4, <3>1 DEF CompanionsHeld, SetLink, SameKey
  <2>5. QED
    BY <2>1, <2>3, <2>4
<1>7. ASSUME NEW r \in Requests, NEW b \in BOOLEAN, Unlink(r, b) PROVE CompanionsHeld'
  <2>1. PICK x \in TempLink :
            /\ x.hash = Content[r] /\ tainted \subseteq tainted'
            /\ \/ temp' = temp /\ companions' = companions
               \/ /\ temp' = SetLink(temp, x) /\ companions' = companions \cup {x}
                  /\ Clashes(x) => Content[r] \in tainted'
    BY <1>7, UnlinkFacts
  <2>2. CASE temp' = temp /\ companions' = companions
    BY <2>1, <2>2 DEF CompanionsHeld
  <2>3. CASE /\ temp' = SetLink(temp, x) /\ companions' = companions \cup {x}
             /\ Clashes(x) => Content[r] \in tainted'
    <3>1. \A y \in temp : (SameKey(x, y) /\ x.hash \notin tainted') => x = y
      BY <2>1, <2>3 DEF Clashes, SameKey, TypeOK, TempLink
    <3>2. QED
      BY <2>1, <2>3, <3>1 DEF CompanionsHeld, SetLink, SameKey
  <2>4. QED
    BY <2>1, <2>2, <2>3
<1>8. ASSUME NEW r \in Requests, Abandon(r) PROVE CompanionsHeld'
  BY <1>8 DEF CompanionsHeld, Abandon, scan
<1>9. CASE Scan
  BY <1>9 DEF CompanionsHeld, Scan, scan
<1>10. CASE DeleteBlob
  BY <1>10 DEF CompanionsHeld, DeleteBlob, scan
<1>11. CASE Clear
  <2> SUFFICES ASSUME NEW x \in companions', x.hash \notin tainted' PROVE x \in temp'
    BY DEF CompanionsHeld
  <2>1. x \in companions /\ x \notin expired
    BY <1>11 DEF Clear
  <2>2. x.hash \in tainted => Forgotten(x.hash, temp', companions', committed')
    BY <1>11, <2>1 DEF Clear, TypeOK
  <2>3. x.hash \notin tainted
    BY <2>2 DEF Forgotten
  <2>4. x \in temp
    BY <2>1, <2>3 DEF CompanionsHeld
  <2>5. \A y \in expired : ~SameKey(x, y)
    BY <2>1, <2>3, <2>4 DEF InvSeen, Safe
  <2>6. QED
    BY <1>11, <2>4, <2>5 DEF Clear
<1>12. CASE Stop
  BY <1>12 DEF CompanionsHeld, Stop
<1>13. CASE Tick
  BY <1>13 DEF CompanionsHeld, Tick, scan
<1>14. CASE UNCHANGED vars
  BY <1>14 DEF CompanionsHeld, vars
<1>15. QED
  BY <1>1, <1>2, <1>3, <1>4, <1>5, <1>6, <1>7, <1>8, <1>9, <1>10, <1>11, <1>12, <1>13, <1>14 DEF Next, RequestStep, PurgeStep

LEMMA FoundStep == ASSUME InvFound, InvUse, InvTaken, InvDeleted, InvExpired, InvUnique, InvSample, InvIdle, TypeOK, [Next]_vars PROVE InvFound'
<1>1. ASSUME NEW r \in Requests, Reserve(r) PROVE InvFound'
  <2> SUFFICES ASSUME NEW h \in Hashes, h \notin tainted', h \notin committed',
                      h \in stored' \/ Used(h)'
               PROVE  Found(h)'
    BY DEF InvFound, Safe
  <2>1. PICK x \in TempLink :
            /\ x.hash = Content[r] /\ x.until > time /\ x.kind \in {"hold", "quota"}
            /\ temp' = SetLink(temp, x) /\ tainted \subseteq tainted'
            /\ Content[r] \in doomed \/ Clashes(x) => Content[r] \in tainted'
    BY <1>1, ReserveFacts
  <2>2. CASE h = Content[r]
    <3>1. \A y \in expired : ~SameKey(x, y)
      <4> SUFFICES ASSUME NEW y \in expired, SameKey(x, y) PROVE FALSE
        OBVIOUS
      <4>1. y.until = x.until /\ ~(y.until <= time)
        BY <2>1 DEF SameKey, TypeOK, TempLink
      <4>2. y.kind = "sample"
        BY <4>1 DEF InvExpired
      <4>3. Clashes(x)
        BY <2>1, <4>2 DEF Clashes
      <4>4. QED
        BY <2>1, <2>2, <4>3
    <3>2. x \in temp'
      BY <2>1 DEF SetLink
    <3>3. expired' = expired
      BY <1>1 DEF Reserve, scan
    <3>4. QED
      BY <2>1, <2>2, <3>1, <3>2, <3>3 DEF Found
  <2>3. CASE h # Content[r]
    <3>1. h \notin tainted /\ h \notin committed
      BY <1>1, <2>1 DEF Reserve
    <3>2. \A s \in Requests \ {r} : req'[s] = req[s] /\ until'[s] = until[s] /\ kind'[s] = kind[s]
      BY <1>1 DEF Reserve, TypeOK
    <3>3. Used(h)' => Used(h)
      BY <1>1, <2>3, <3>2 DEF Reserve, Used, InUse
    <3>4. stored' = stored
      BY <1>1 DEF Reserve
    <3>5. PICK w \in temp :
               /\ w.hash = h /\ w.kind \in {"hold", "quota"}
               /\ h \notin doomed => \A y \in expired : ~SameKey(w, y)
      BY <3>1, <3>3, <3>4 DEF InvFound, Safe, Found
    <3>6. w.hash # Content[r]
      BY <2>3, <3>5
    <3>7. w \in temp'
      BY <2>1, <3>6 DEF SetLink, SameKey
    <3>8. doomed' = doomed /\ expired' = expired
      BY <1>1 DEF Reserve, scan
    <3>9. QED
      BY <3>5, <3>7, <3>8 DEF Found, SameKey
  <2>4. QED
    BY <2>2, <2>3
<1>2. ASSUME NEW r \in Requests, Exists(r) PROVE InvFound'
  <2> SUFFICES ASSUME NEW h \in Hashes, h \notin tainted', h \notin committed',
                      h \in stored' \/ Used(h)'
               PROVE  Found(h)'
    BY DEF InvFound, Safe
  <2>1. h \notin tainted /\ h \notin committed
    BY <1>2 DEF Exists
  <2>2. h \in stored \/ Used(h)
    BY <1>2 DEF Exists, Used, InUse, TypeOK
  <2>3. Found(h)
    BY <2>1, <2>2 DEF InvFound, Safe
  <2>4. QED
    BY <1>2, <2>3 DEF Found, Exists, scan
<1>3. ASSUME NEW r \in Requests, Put(r) PROVE InvFound'
  <2> SUFFICES ASSUME NEW h \in Hashes, h \notin tainted', h \notin committed',
                      h \in stored' \/ Used(h)'
               PROVE  Found(h)'
    BY DEF InvFound, Safe
  <2>1. h \notin tainted /\ h \notin committed
    BY <1>3 DEF Put
  <2>2. h \in stored \/ Used(h)
    BY <1>3 DEF Put, Used, InUse, TypeOK
  <2>3. Found(h)
    BY <2>1, <2>2 DEF InvFound, Safe
  <2>4. QED
    BY <1>3, <2>3 DEF Found, Put, scan
<1>4. ASSUME NEW r \in Requests, CommitBlob(r) PROVE InvFound'
  <2> SUFFICES ASSUME NEW h \in Hashes, h \notin tainted', h \notin committed',
                      h \in stored' \/ Used(h)'
               PROVE  Found(h)'
    BY DEF InvFound, Safe
  <2>1. h \notin tainted /\ h \notin committed
    BY <1>4 DEF CommitBlob
  <2>2. h \in stored \/ Used(h)
    BY <1>4 DEF CommitBlob, Used, InUse, TypeOK
  <2>3. Found(h)
    BY <2>1, <2>2 DEF InvFound, Safe
  <2>4. QED
    BY <1>4, <2>3 DEF Found, CommitBlob, scan
<1>5. ASSUME NEW r \in Requests, Access(r) PROVE InvFound'
  <2> SUFFICES ASSUME NEW h \in Hashes, h \notin tainted', h \notin committed',
                      h \in stored' \/ Used(h)'
               PROVE  Found(h)'
    BY DEF InvFound, Safe
  <2>1. h \notin tainted /\ h \notin committed
    BY <1>5 DEF Access
  <2>2. h \in stored \/ Used(h)
    BY <1>5 DEF Access, Used, InUse, TypeOK
  <2>3. Found(h)
    BY <2>1, <2>2 DEF InvFound, Safe
  <2>4. QED
    BY <1>5, <2>3 DEF Found, Access, scan
<1>6. ASSUME NEW r \in Requests, NEW b \in BOOLEAN, Link(r, b) PROVE InvFound'
  <2> SUFFICES ASSUME NEW h \in Hashes, h \notin tainted', h \notin committed',
                      h \in stored' \/ Used(h)'
               PROVE  Found(h)'
    BY DEF InvFound, Safe
  <2>1. PICK x \in TempLink, own \in TempLink, held \in SUBSET temp :
            /\ x.hash = Content[r] /\ own.hash = Content[r] /\ tainted \subseteq tainted'
            /\ held = temp \/ held = {y \in temp : ~SameKey(y, own)}
            /\ temp' = held \/ temp' = SetLink(held, x)
    BY <1>6, LinkFacts
  <2>2. Content[r] \in tainted' \/ Content[r] \in committed'
    BY <1>6, <2>1 DEF InvUse, UseOK, InUse, Safe, Link, CanLink
  <2>3. CASE h # Content[r]
    <3>1. h \notin tainted /\ h \notin committed
      BY <1>6, <2>1 DEF Link
    <3>2. \A s \in Requests \ {r} : req'[s] = req[s] /\ until'[s] = until[s] /\ kind'[s] = kind[s]
      BY <1>6 DEF Link, TypeOK
    <3>3. Used(h)' => Used(h)
      BY <1>6, <2>3, <3>2 DEF Link, Used, InUse
    <3>4. stored' = stored
      BY <1>6 DEF Link
    <3>5. PICK w \in temp :
               /\ w.hash = h /\ w.kind \in {"hold", "quota"}
               /\ h \notin doomed => \A y \in expired : ~SameKey(w, y)
      BY <3>1, <3>3, <3>4 DEF InvFound, Safe, Found
    <3>6. w.hash # Content[r]
      BY <2>3, <3>5
    <3>7. w \in temp'
      BY <2>1, <3>6 DEF SetLink, SameKey
    <3>8. doomed' = doomed /\ expired' = expired
      BY <1>6 DEF Link, scan
    <3>9. QED
      BY <3>5, <3>7, <3>8 DEF Found, SameKey
  <2>4. QED
    BY <2>2, <2>3
<1>7. ASSUME NEW r \in Requests, NEW b \in BOOLEAN, Unlink(r, b) PROVE InvFound'
  <2> SUFFICES ASSUME NEW h \in Hashes, h \notin tainted', h \notin committed',
                      h \in stored' \/ Used(h)'
               PROVE  Found(h)'
    BY DEF InvFound, Safe
  <2>1. PICK x \in TempLink :
            /\ x.hash = Content[r] /\ tainted \subseteq tainted'
            /\ temp' = temp \/ temp' = SetLink(temp, x)
    BY <1>7, UnlinkFacts
  <2>2. Content[r] \in tainted' \/ Content[r] \in committed'
    BY <1>7, <2>1 DEF InvUse, UseOK, Safe, Unlink
  <2>3. CASE h # Content[r]
    <3>1. h \notin tainted /\ h \notin committed
      BY <1>7, <2>1 DEF Unlink
    <3>2. \A s \in Requests \ {r} : req'[s] = req[s] /\ until'[s] = until[s] /\ kind'[s] = kind[s]
      BY <1>7 DEF Unlink, TypeOK
    <3>3. Used(h)' => Used(h)
      BY <1>7, <2>3, <3>2 DEF Unlink, Used, InUse
    <3>4. stored' = stored
      BY <1>7 DEF Unlink
    <3>5. PICK w \in temp :
               /\ w.hash = h /\ w.kind \in {"hold", "quota"}
               /\ h \notin doomed => \A y \in expired : ~SameKey(w, y)
      BY <3>1, <3>3, <3>4 DEF InvFound, Safe, Found
    <3>6. w.hash # Content[r]
      BY <2>3, <3>5
    <3>7. w \in temp'
      BY <2>1, <3>6 DEF SetLink, SameKey
    <3>8. doomed' = doomed /\ expired' = expired
      BY <1>7 DEF Unlink, scan
    <3>9. QED
      BY <3>5, <3>7, <3>8 DEF Found, SameKey
  <2>4. QED
    BY <2>2, <2>3
<1>8. ASSUME NEW r \in Requests, Abandon(r) PROVE InvFound'
  <2> SUFFICES ASSUME NEW h \in Hashes, h \notin tainted', h \notin committed',
                      h \in stored' \/ Used(h)'
               PROVE  Found(h)'
    BY DEF InvFound, Safe
  <2>1. h \notin tainted /\ h \notin committed
    BY <1>8 DEF Abandon
  <2>2. h \in stored \/ Used(h)
    BY <1>8 DEF Abandon, Used, InUse, TypeOK
  <2>3. Found(h)
    BY <2>1, <2>2 DEF InvFound, Safe
  <2>4. QED
    BY <1>8, <2>3 DEF Found, Abandon, scan
<1>9. CASE Scan
  <2> SUFFICES ASSUME NEW h \in Hashes, h \notin tainted', h \notin committed',
                      h \in stored' \/ Used(h)'
               PROVE  Found(h)'
    BY DEF InvFound, Safe
  <2>1. h \notin tainted /\ h \notin committed /\ (h \in stored \/ Used(h))
    BY <1>9 DEF Scan, Used, InUse
  <2>2. PICK w \in temp : w.hash = h /\ w.kind \in {"hold", "quota"}
    BY <2>1 DEF InvFound, Safe, Found
  <2>3. CASE h \in doomed'
    BY <1>9, <2>2, <2>3 DEF Found, Scan
  <2>4. CASE h \notin doomed'
    <3>1. ~Linked(h)
      BY <2>1 DEF Linked, InvUse, UseOK, Safe
    <3>2. PICK x \in temp : x.hash = h /\ Live(x)
      BY <1>9, <2>2, <2>4, <3>1 DEF Scan, Unheld
    <3>3. x.kind \in {"hold", "quota"}
      BY <2>1, <3>2 DEF InvSample, Safe, TypeOK, TempLink, LinkKinds
    <3>4. \A y \in expired' : ~SameKey(x, y)
      BY <1>9, <3>2, <3>3 DEF Scan, InvUnique, Superseded
    <3>5. QED
      BY <1>9, <3>2, <3>3, <3>4 DEF Found, Scan
  <2>5. QED
    BY <2>3, <2>4
<1>10. CASE DeleteBlob
  <2> SUFFICES ASSUME NEW h \in Hashes, h \notin tainted', h \notin committed',
                      h \in stored' \/ Used(h)'
               PROVE  Found(h)'
    BY DEF InvFound, Safe
  <2>1. h \notin tainted /\ h \notin committed
    BY <1>10 DEF DeleteBlob
  <2>2. h \in stored \/ Used(h)
    BY <1>10 DEF DeleteBlob, Used, InUse, TypeOK
  <2>3. Found(h)
    BY <2>1, <2>2 DEF InvFound, Safe
  <2>4. QED
    BY <1>10, <2>3 DEF Found, DeleteBlob, scan
<1>11. CASE Clear
  <2> SUFFICES ASSUME NEW h \in Hashes, h \notin tainted', h \notin committed',
                      h \in stored' \/ Used(h)'
               PROVE  Found(h)'
    BY DEF InvFound, Safe
  <2>1. Used(h)' => Used(h)
    BY <1>11 DEF Clear, Used, InUse
  <2>2. h \notin tainted
    BY <1>11, <2>1 DEF Clear, Forgotten
  <2>3. h \notin doomed
    <3>1. h \in doomed => ~Used(h) /\ h \notin stored
      BY <1>11, <2>2 DEF InvTaken, InvDeleted, Safe, Clear
    <3>2. QED
      BY <1>11, <2>1, <3>1 DEF Clear
  <2>4. h \notin committed
    BY <1>11, <2>3 DEF Clear
  <2>5. PICK w \in temp : /\ w.hash = h /\ w.kind \in {"hold", "quota"}
                          /\ \A y \in expired : ~SameKey(w, y)
    BY <1>11, <2>1, <2>2, <2>3, <2>4 DEF InvFound, Safe, Found, Clear
  <2>6. w \in temp' /\ expired' = {}
    BY <1>11, <2>5 DEF Clear, Done
  <2>7. QED
    BY <2>5, <2>6 DEF Found
<1>12. CASE Stop
  <2> SUFFICES ASSUME NEW h \in Hashes, h \notin tainted', h \notin committed',
                      h \in stored' \/ Used(h)'
               PROVE  Found(h)'
    BY DEF InvFound, Safe
  <2>1. h \notin tainted /\ h \notin committed /\ (h \in stored \/ Used(h))
    BY <1>12 DEF Stop, Used, InUse
  <2>2. Found(h)
    BY <2>1 DEF InvFound, Safe
  <2>3. QED
    BY <1>12, <2>2 DEF Found, Stop, Done
<1>13. CASE Tick
  <2> SUFFICES ASSUME NEW h \in Hashes, h \notin tainted', h \notin committed',
                      h \in stored' \/ Used(h)'
               PROVE  Found(h)'
    BY DEF InvFound, Safe
  <2>1. \A s \in Requests : until[s] > time' => until[s] > time
    BY <1>13 DEF Tick, TypeOK
  <2>2. h \notin tainted /\ h \notin committed /\ (h \in stored \/ Used(h))
    BY <1>13, <2>1 DEF Tick, Used, InUse
  <2>3. Found(h)
    BY <2>2 DEF InvFound, Safe
  <2>4. QED
    BY <1>13, <2>3 DEF Found, Tick, scan
<1>14. CASE UNCHANGED vars
  BY <1>14 DEF InvFound, Found, Safe, Used, InUse, vars
<1>15. QED
  BY <1>1, <1>2, <1>3, <1>4, <1>5, <1>6, <1>7, <1>8, <1>9, <1>10, <1>11, <1>12, <1>13, <1>14 DEF Next, RequestStep, PurgeStep

-----------------------------------------------------------------------------
(* Theorems *)

LEMMA InitInv == Init => IInv
<1> SUFFICES ASSUME Init PROVE IInv
  OBVIOUS
<1>1. TypeOK
  BY BlobKindsAssumption DEF Init, TypeOK, ReqStates
<1>2. InvIdle /\ InvTaken /\ InvDeleted /\ InvExpired /\ InvUnique /\ InvSeen /\ InvSample
  BY DEF Init, InvIdle, InvTaken, InvDeleted, InvExpired, InvUnique, InvSeen, InvSample
<1>3. InvUse /\ InvCommitted
  BY DEF Init, InvUse, UseOK, InvCommitted
<1>4. InvFound
  BY DEF Init, InvFound, Used, InUse
<1>5. InvKind /\ CompanionsHeld
  BY DEF Init, InvKind, CompanionsHeld
<1>6. QED
  BY <1>1, <1>2, <1>3, <1>4, <1>5 DEF IInv

LEMMA StepInv == IInv /\ [Next]_vars => IInv'
<1> SUFFICES ASSUME IInv, [Next]_vars PROVE IInv'
  OBVIOUS
<1>1. TypeOK' /\ InvIdle'
  BY TypeStep, IdleStep DEF IInv
<1>2. InvUse' /\ InvCommitted' /\ InvTaken' /\ InvDeleted'
  BY UseStep, CommittedStep, TakenStep, DeletedStep DEF IInv
<1>3. InvExpired' /\ InvUnique' /\ InvSeen' /\ InvSample'
  BY ExpiredStep, UniqueStep, SeenStep, SampleStep DEF IInv
<1>4. InvFound' /\ InvKind' /\ CompanionsHeld'
  BY FoundStep, KindStep, CompanionStep DEF IInv
<1>5. QED
  BY <1>1, <1>2, <1>3, <1>4 DEF IInv

LEMMA Invariance == Spec => []IInv
BY InitInv, StepInv, PTL DEF Spec

(* The variables of requests, blobs and purge keep their types, for any     *)
(* number of requests and any times.                                        *)
THEOREM TypeCorrect == Spec => []TypeOK
<1>1. IInv => TypeOK
  BY DEF IInv
<1>2. QED
  BY <1>1, Invariance, PTL

(* The content of every document and queued message is in the blob store,   *)
(* for any number of requests for the same content and whatever they do     *)
(* while purge_blobs runs, unless the hash was tainted: only a reservation  *)
(* of a hash the purge has taken already, an expired or shared reservation, *)
(* or a purge that stopped between delete_blob and its batch can lose it.   *)
THEOREM ContentKept == Spec => []LinkedStored
<1>1. IInv => LinkedStored
  BY DEF IInv, InvUse, UseOK, Safe, LinkedStored
<1>2. QED
  BY <1>1, Invariance, PTL

(* No blob is left behind without a key by which purge_blobs finds it,      *)
(* under the same condition: uploads that fail between any two of their     *)
(* steps and purges that stop anywhere included.                            *)
THEOREM NothingLeaks == Spec => []NoLeak
<1>1. IInv => NoLeak
  BY DEF IInv, InvFound, Found, Safe, NoLeak, TypeOK
<1>2. QED
  BY <1>1, Invariance, PTL

(* A quota, undelete or sample key never outlives the temporary link that   *)
(* keeps its blob and that the purge removes it with.                       *)
THEOREM CompanionsKept == Spec => []CompanionsHeld
<1>1. IInv => CompanionsHeld
  BY DEF IInv
<1>2. QED
  BY <1>1, Invariance, PTL

-----------------------------------------------------------------------------
(* Reservations *)

(* A request that has reserved its hash and is not at its end, its own      *)
(* temporary link, and another request that has ended the same link.        *)
Holding(r) ==
  kind[r] # "copy" /\ req[r] \in {"reserved", "absent", "put", "ready", "granted"}
Kept(r) ==
  \E x \in temp : SameKey(x, OwnLink(r, until[r])) /\ x.kind = OwnLink(r, until[r]).kind
SharedEnd(r) ==
  \E s \in Requests \ {r} : /\ Content[s] = Content[r] /\ Account[s] = Account[r]
                            /\ until[s] = until[r] /\ req[s] \in {"linked", "over"}

(* Until it expires, a request's temporary link is there, or was shared.    *)
InvHold ==
  \A r \in Requests :
    (Holding(r) /\ until[r] > time /\ Safe(Content[r])) => Kept(r) \/ SharedEnd(r)

(* The key of a request's own temporary link.                               *)
LEMMA OwnKey ==
  ASSUME TypeOK, NEW r \in Requests
  PROVE  /\ OwnLink(r, until[r]).hash = Content[r] /\ OwnLink(r, until[r]).account = Account[r]
         /\ OwnLink(r, until[r]).until = until[r]
         /\ OwnLink(r, until[r]).kind \in {"hold", "quota"}
BY DEF OwnLink

(* A step that leaves the links alone.                                      *)
LEMMA HoldFrame ==
  ASSUME TypeOK, NEW r \in Requests, Kept(r) \/ SharedEnd(r), temp' = temp, UNCHANGED <<until, kind>>,
         \A s \in Requests : req[s] \in {"linked", "over"} => req'[s] \in {"linked", "over"}
  PROVE  (Kept(r) \/ SharedEnd(r))'
<1>1. CASE Kept(r)
  BY <1>1 DEF Kept, OwnLink
<1>2. CASE SharedEnd(r)
  BY <1>2 DEF SharedEnd
<1> QED BY <1>1, <1>2

(* Another link is written: it has another key, or the same kind, or it     *)
(* taints the hash.                                                         *)
LEMMA HoldSetLink ==
  ASSUME TypeOK, NEW r \in Requests, Kept(r), NEW x \in TempLink, temp' = SetLink(temp, x),
         kind' = kind, until'[r] = until[r], x.hash = Content[r] /\ Clashes(x) => Content[r] \in tainted',
         Safe(Content[r])'
  PROVE  Kept(r)'
<1>1. PICK y \in temp : SameKey(y, OwnLink(r, until[r])) /\ y.kind = OwnLink(r, until[r]).kind
  BY DEF Kept
<1>2. OwnLink(r, until[r])' = OwnLink(r, until[r])
  BY DEF OwnLink
<1>3. CASE ~SameKey(x, y)
  BY <1>1, <1>2, <1>3 DEF Kept, SetLink
<1>4. CASE SameKey(x, y)
  <2>1. y.kind = x.kind
    BY <1>1, <1>4, OwnKey DEF SameKey, Clashes, Safe
  <2>2. x \in temp' /\ SameKey(x, OwnLink(r, until[r]))
    BY <1>1, <1>4 DEF SetLink, SameKey
  <2> QED BY <1>1, <1>2, <2>1, <2>2 DEF Kept
<1> QED BY <1>3, <1>4

(* Ended requests do not start again.                                       *)
LEMMA HoldShared ==
  ASSUME NEW r \in Requests, SharedEnd(r),
         \A s \in Requests : req[s] \in {"linked", "over"} =>
            req'[s] \in {"linked", "over"} /\ until'[s] = until[s],
         until'[r] = until[r]
  PROVE  SharedEnd(r)'
BY DEF SharedEnd

(* Every step keeps a reservation that has not expired, or ends one that    *)
(* was shared.                                                              *)
LEMMA HoldStep == ASSUME IInv, InvHold, [Next]_vars PROVE InvHold'
<1>0. TypeOK
  BY DEF IInv
<1> SUFFICES ASSUME NEW r \in Requests, Holding(r)', (until[r] > time)', Safe(Content[r])'
             PROVE  (Kept(r) \/ SharedEnd(r))'
  BY DEF InvHold
<1>1. ASSUME NEW q \in Requests, Reserve(q) PROVE (Kept(r) \/ SharedEnd(r))'
  <2> DEFINE x == OwnLink(q, time + Ttl(q))
  <2>1. /\ time + Ttl(q) \in Nat /\ x \in TempLink /\ x.hash = Content[q] /\ x.until = time + Ttl(q)
    <3>1. time + Ttl(q) \in Nat
      BY <1>0, BlobTimeAssumption DEF TypeOK, Ttl
    <3> QED BY <1>0, <3>1, OwnLinkType
  <2>2. /\ temp' = SetLink(temp, x) /\ until' = [until EXCEPT ![q] = x.until] /\ UNCHANGED <<time, kind>>
        /\ req' = [req EXCEPT ![q] = "reserved"] /\ req[q] = "new"
        /\ tainted \subseteq tainted' /\ (Clashes(x) => Content[q] \in tainted')
    BY <1>1 DEF Reserve
  <2>3. CASE q = r
    <3>1. until'[r] = time + Ttl(q)
      BY <1>0, <2>1, <2>2, <2>3 DEF TypeOK
    <3>2. OwnLink(r, until[r])' = x
      BY <2>2, <2>3, <3>1 DEF OwnLink
    <3>3. x \in temp'
      BY <2>2 DEF SetLink
    <3> QED BY <3>2, <3>3 DEF Kept, SameKey
  <2>4. CASE q # r
    <3>1. until'[r] = until[r] /\ req'[r] = req[r]
      BY <1>0, <2>2, <2>4 DEF TypeOK
    <3>2. Kept(r) \/ SharedEnd(r)
      BY <2>2, <3>1 DEF InvHold, Holding, Safe
    <3>3. \A s \in Requests : req[s] \in {"linked", "over"} =>
            req'[s] \in {"linked", "over"} /\ until'[s] = until[s]
      BY <1>0, <2>2 DEF TypeOK
    <3> HIDE DEF x
    <3>4. Kept(r) => Kept(r)'
      BY <1>0, <2>1, <2>2, <3>1, HoldSetLink
    <3> QED BY <3>1, <3>2, <3>3, <3>4, HoldShared
  <2> QED BY <2>3, <2>4
<1>2. ASSUME NEW q \in Requests, Exists(q) \/ Put(q) \/ CommitBlob(q) \/ Access(q) \/ Abandon(q)
      PROVE  (Kept(r) \/ SharedEnd(r))'
  <2>1. UNCHANGED <<time, temp, until, kind, tainted>>
    BY <1>2 DEF Exists, Put, CommitBlob, Access, Abandon
  <2>2. \A s \in Requests : req[s] \in {"linked", "over"} => req'[s] \in {"linked", "over"}
    BY <1>0, <1>2 DEF TypeOK, Exists, Put, CommitBlob, Access, Abandon
  <2>3. Holding(r)
    BY <1>0, <1>2 DEF TypeOK, Holding, Exists, Put, CommitBlob, Access, Abandon
  <2>4. Kept(r) \/ SharedEnd(r)
    BY <2>1, <2>3 DEF InvHold, Safe
  <2> QED BY <1>0, <2>1, <2>2, <2>4, HoldFrame
<1>3. ASSUME NEW q \in Requests, NEW b \in BOOLEAN, Link(q, b) PROVE (Kept(r) \/ SharedEnd(r))'
  <2> DEFINE x == Sample(q)
             own == OwnLink(q, until[q])
             held == IF EndsHold(q) THEN {y \in temp : ~SameKey(y, own)} ELSE temp
  <2>1. /\ temp' = (IF b THEN SetLink(held, x) ELSE held) /\ UNCHANGED <<time, kind, until>>
        /\ req' = [req EXCEPT ![q] = "linked"] /\ CanLink(q)
        /\ tainted \subseteq tainted' /\ (b /\ Clashes(x) => Content[q] \in tainted')
    BY <1>3 DEF Link
  <2>2. x \in TempLink /\ x.hash = Content[q] /\ x.kind = "sample"
    BY <1>0, SampleType
  <2>3. q # r /\ req'[r] = req[r] /\ req'[q] = "linked"
    BY <1>0, <2>1 DEF TypeOK, Holding
  <2>4. Kept(r) \/ SharedEnd(r)
    BY <2>1, <2>3 DEF InvHold, Holding, Safe
  <2>5. \A s \in Requests : req[s] \in {"linked", "over"} => req'[s] \in {"linked", "over"}
    BY <1>0, <2>1 DEF TypeOK
  <2>6. SharedEnd(r) => SharedEnd(r)'
    BY <2>1, <2>5, HoldShared
  <2>7. ASSUME Kept(r) PROVE (Kept(r) \/ SharedEnd(r))'
    <3>1. PICK y \in temp : SameKey(y, OwnLink(r, until[r])) /\ y.kind = OwnLink(r, until[r]).kind
      BY <2>7 DEF Kept
    <3>2. OwnLink(r, until[r])' = OwnLink(r, until[r])
      BY <2>1 DEF OwnLink
    <3>3. CASE SameKey(y, own)
      <4>1. Content[q] = Content[r] /\ Account[q] = Account[r] /\ until[q] = until[r]
        BY <1>0, <3>1, <3>3, OwnKey DEF SameKey
      <4> QED BY <2>1, <2>3, <4>1 DEF SharedEnd
    <3>4. CASE ~SameKey(y, own)
      <4>1. y \in held
        BY <3>4
      <4>2. b => ~SameKey(x, y)
        BY <1>0, <2>1, <2>2, <3>1, OwnKey DEF SameKey, Clashes, Safe
      <4>3. y \in temp'
        BY <2>1, <4>1, <4>2 DEF SetLink
      <4> QED BY <3>1, <3>2, <4>3 DEF Kept
    <3> QED BY <3>3, <3>4
  <2> QED BY <2>4, <2>6, <2>7
<1>4. ASSUME NEW q \in Requests, NEW b \in BOOLEAN, Unlink(q, b) PROVE (Kept(r) \/ SharedEnd(r))'
  <2>1. PICK x \in TempLink :
           /\ x.hash = Content[q]
           /\ temp' = temp \/ (temp' = SetLink(temp, x) /\ (Clashes(x) => Content[q] \in tainted'))
           /\ tainted \subseteq tainted'
    BY <1>0, <1>4, UnlinkFacts
  <2>2. UNCHANGED <<time, kind, until>> /\ req' = [req EXCEPT ![q] = "over"]
    BY <1>4 DEF Unlink
  <2>3. q # r /\ req'[r] = req[r]
    BY <1>0, <2>2 DEF TypeOK, Holding
  <2>4. Kept(r) \/ SharedEnd(r)
    BY <2>1, <2>2, <2>3 DEF InvHold, Holding, Safe
  <2>5. \A s \in Requests : req[s] \in {"linked", "over"} => req'[s] \in {"linked", "over"}
    BY <1>0, <2>2 DEF TypeOK
  <2>6. SharedEnd(r) => SharedEnd(r)'
    BY <2>2, <2>5, HoldShared
  <2>7. CASE temp' = temp
    BY <1>0, <2>2, <2>4, <2>5, <2>7, HoldFrame
  <2>8. CASE temp' = SetLink(temp, x) /\ (Clashes(x) => Content[q] \in tainted')
    <3>1. Kept(r) => Kept(r)'
      BY <1>0, <2>1, <2>2, <2>8, HoldSetLink
    <3> QED BY <2>4, <2>6, <3>1
  <2> QED BY <2>1, <2>7, <2>8
<1>5. CASE Scan \/ DeleteBlob \/ Stop \/ Tick
  <2>1. UNCHANGED <<temp, until, kind, req>> /\ tainted \subseteq tainted' /\ (time' = time \/ time' = time + 1)
    BY <1>5 DEF Scan, DeleteBlob, Stop, Tick
  <2>2. Holding(r) /\ until[r] > time /\ Safe(Content[r])
    BY <1>0, <2>1 DEF Holding, Safe, TypeOK
  <2>3. Kept(r) \/ SharedEnd(r)
    BY <2>2 DEF InvHold
  <2> QED BY <1>0, <2>1, <2>3, HoldFrame
<1>6. CASE Clear
  <2>1. /\ temp' = {x \in temp : \A y \in expired : ~SameKey(x, y)}
        /\ UNCHANGED <<time, until, kind, req, stored>>
    BY <1>6 DEF Clear
  <2>2. Holding(r) /\ until[r] > time
    BY <2>1 DEF Holding
  <2>3. Safe(Content[r])
    <3>1. Used(Content[r])
      BY <2>2 DEF Used, InUse, Holding
    <3> QED BY <1>6, <3>1 DEF Clear, Forgotten, Safe
  <2>4. Kept(r) \/ SharedEnd(r)
    BY <2>2, <2>3 DEF InvHold
  <2>5. ASSUME Kept(r) PROVE Kept(r)'
    <3>1. PICK x \in temp : SameKey(x, OwnLink(r, until[r])) /\ x.kind = OwnLink(r, until[r]).kind
      BY <2>5 DEF Kept
    <3>2. x.hash = Content[r] /\ x.until = until[r] /\ x.kind # "sample"
      BY <1>0, <3>1, OwnKey DEF SameKey
    <3>3. ASSUME NEW y \in expired, SameKey(x, y) PROVE FALSE
      <4>1. x = y
        BY <2>3, <3>2, <3>3 DEF IInv, InvSeen
      <4>2. x.until <= time
        BY <3>2, <4>1 DEF IInv, InvExpired
      <4> QED BY <1>0, <2>2, <3>2, <4>2 DEF TypeOK
    <3>4. x \in temp'
      BY <2>1, <3>3
    <3> QED BY <2>1, <3>1, <3>4 DEF Kept, OwnLink
  <2>6. SharedEnd(r) => SharedEnd(r)'
    BY <2>1 DEF SharedEnd
  <2> QED BY <2>4, <2>5, <2>6
<1>7. CASE UNCHANGED vars
  <2>1. UNCHANGED <<temp, until, kind, req, tainted, time>>
    BY <1>7 DEF vars
  <2>2. Kept(r) \/ SharedEnd(r)
    BY <2>1 DEF InvHold, Holding, Safe
  <2> QED BY <1>0, <2>1, <2>2, HoldFrame
<1> QED BY <1>1, <1>2, <1>3, <1>4, <1>5, <1>6, <1>7 DEF Next, RequestStep, PurgeStep

(* The reservation works for any number of requests, accounts and times: a  *)
(* purge that starts takes the hash of a request in progress only when its  *)
(* temporary link has expired, or another request of its account that       *)
(* reserved in the same second has ended the link they shared.              *)
THEOREM ReservationsHold == Spec => ReservationRespected
<1> DEFINE Respected ==
      \A r \in Requests :
       (purge = "idle" /\ purge' # "idle" /\ InUse(r) /\ kind[r] # "copy"
          /\ until[r] > time /\ Content[r] \in doomed' /\ Content[r] \notin tainted) =>
       \E s \in Requests \ {r} :
          /\ Content[s] = Content[r] /\ Account[s] = Account[r]
          /\ until[s] = until[r] /\ req[s] \in {"linked", "over"}
<1>1. IInv /\ InvHold /\ [Next]_vars => [Respected]_vars
  <2> SUFFICES ASSUME IInv, InvHold, Next, NEW r \in Requests,
                      purge = "idle", purge' # "idle", InUse(r), kind[r] # "copy",
                      until[r] > time, Content[r] \in doomed', Content[r] \notin tainted
               PROVE  SharedEnd(r)
    BY DEF SharedEnd
  <2>1. Scan
    BY DEF Next, RequestStep, PurgeStep, Reserve, Exists, Put, CommitBlob, Access, Link, Unlink,
           Abandon, DeleteBlob, Clear, Done, Stop, Tick
  <2>2. Kept(r) \/ SharedEnd(r)
    BY DEF InvHold, Holding, InUse, Safe
  <2>3. ASSUME Kept(r) PROVE FALSE
    <3>1. PICK x \in temp : SameKey(x, OwnLink(r, until[r]))
      BY <2>3 DEF Kept
    <3>2. x.hash = Content[r] /\ x.until = until[r]
      BY <3>1, OwnKey DEF SameKey, IInv
    <3>3. ~Live(x)
      BY <2>1, <3>1, <3>2 DEF Scan, Unheld
    <3> QED BY <3>2, <3>3 DEF Live
  <2> QED BY <2>2, <2>3
<1>2. Init => InvHold
  BY DEF Init, InvHold, Holding
<1>3. IInv /\ InvHold /\ [Next]_vars => InvHold'
  BY HoldStep
<1>4. ReservationRespected <=> [][Respected]_vars
  BY DEF ReservationRespected
<1> QED BY <1>1, <1>2, <1>3, <1>4, InitInv, StepInv, PTL DEF Spec
=============================================================================
