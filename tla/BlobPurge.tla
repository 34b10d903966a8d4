------------------------------ MODULE BlobPurge ------------------------------
(***************************************************************************)
(* Blobs: content that is stored once per hash, held by links in the data   *)
(* store, and removed by a purge when nothing holds it any more             *)
(* (store/src/write/blob.rs, common/src/core.rs, the batches of the spool   *)
(* and of email/src/message).                                               *)
(*                                                                          *)
(*   - a request writes a temporary link first ("First reserve the hash"),  *)
(*     looks for the commit key of the hash, puts the blob and writes the   *)
(*     key when there is none, and links the hash to a document or to a     *)
(*     message of the queue in the batch that clears the temporary link;    *)
(*   - the spool of the queue puts the blob without looking, and writes the *)
(*     commit key with its link; an import or a copy links a hash it was    *)
(*     able to read, with no temporary link of its own;                     *)
(*   - the purge scans all keys, deletes the blobs of the hashes that have  *)
(*     no live link, and clears their keys and the expired links.           *)
(*                                                                          *)
(* One purge runs at a time (the housekeeper locks it), and it clears its   *)
(* keys in one batch.  Nothing locks a hash: tainted records the hashes of  *)
(* which two requests or a request and the purge got into each other's way. *)
(***************************************************************************)
EXTENDS Naturals

CONSTANTS
  Hashes, Accounts,
  Requests,    \* the requests that store or link content
  Content,     \* request |-> the hash of its content
  Account,     \* request |-> its account (all of the spool's have the same)
  Kinds,       \* the kinds of requests that occur
  HoldTtl,     \* seconds of a reservation (60, 120)
  QuotaTtl,    \* upload_tmp_ttl
  SampleTtl,   \* hold_samples_for
  UndeleteTtl, \* undelete.retention
  Day,         \* seconds of a day
  MaxTime,     \* bound on the clock
  MaxFaults    \* bound on the purges that stop half-way

AllKinds == {"upload", "jmap", "queue", "copy"}

ASSUME BlobContentAssumption ==
  Content \in [Requests -> Hashes] /\ Account \in [Requests -> Accounts]
ASSUME BlobKindsAssumption == Kinds \subseteq AllKinds
ASSUME BlobTimeAssumption ==
  /\ HoldTtl \in Nat \ {0} /\ QuotaTtl \in Nat \ {0} /\ Day \in Nat \ {0}
  /\ SampleTtl \in Nat /\ UndeleteTtl \in Nat
  /\ MaxTime \in Nat /\ MaxFaults \in Nat

(* A temporary link: its key, and its value, which is the kind.             *)
LinkKinds == {"hold", "quota", "undelete", "sample"}
TempLink == [hash : Hashes, account : Accounts, until : Nat, kind : LinkKinds]
SameKey(x, y) == x.hash = y.hash /\ x.account = y.account /\ x.until = y.until

ReqStates == {"new", "reserved", "absent", "put", "ready", "granted", "linked", "over"}

VARIABLES
  time,
  temp,       \* the temporary links
  companions, \* the keys of class Quota, Undelete and SpamSample
  committed,  \* the hashes with a commit key
  stored,     \* the hashes with a blob in the blob store
  req,        \* request |-> where it is; "linked" while its link exists
  kind,       \* request |-> its kind
  until,      \* request |-> when its own temporary link expires
  purge,      \* "idle" or "delete"
  doomed,     \* the commit keys in delete_keys
  expired,    \* the temporary links in delete_keys, with their companions
  deleted,    \* the blobs this purge has deleted
  faults,     \* the purges that stopped half-way
  tainted     \* history: hashes whose protection was defeated

vars == <<time, temp, companions, committed, stored, req, kind, until,
          purge, doomed, expired, deleted, faults, tainted>>
scan == <<doomed, expired, deleted>>

Init ==
  /\ time = 0
  /\ temp = {} /\ companions = {} /\ committed = {} /\ stored = {}
  /\ req = [r \in Requests |-> "new"]
  /\ kind \in [Requests -> Kinds]
  /\ until = [r \in Requests |-> 0]
  /\ purge = "idle"
  /\ doomed = {} /\ expired = {} /\ deleted = {}
  /\ faults = 0 /\ tainted = {}

Linked(h) == \E r \in Requests : req[r] = "linked" /\ Content[r] = h

(* A request that relies on its hash: it is on its way to a link, or holds  *)
(* an upload that has not expired.                                          *)
InUse(r) ==
  \/ req[r] \in {"reserved", "absent", "put", "granted"}
  \/ req[r] = "ready" /\ (kind[r] = "jmap" => until[r] > time)
Used(h) == \E r \in Requests : InUse(r) /\ Content[r] = h

(* Writing a temporary link replaces the value of the same key.             *)
SetLink(links, x) == {y \in links : ~SameKey(x, y)} \cup {x}
Clashes(x) ==
  \E y \in temp \cup expired : SameKey(x, y) /\ y.kind # x.kind

-----------------------------------------------------------------------------
(* Requests *)

OwnLink(r, u) ==
  [hash |-> Content[r], account |-> Account[r], until |-> u,
   kind |-> IF kind[r] = "jmap" THEN "quota" ELSE "hold"]
Ttl(r) == IF kind[r] = "jmap" THEN QuotaTtl ELSE HoldTtl

(* "First reserve the hash": the temporary link, with the quota key of an   *)
(* upload over JMAP.                                                        *)
Reserve(r) ==
  LET x == OwnLink(r, time + Ttl(r)) IN
  /\ req[r] = "new" /\ kind[r] # "copy"
  /\ time + Ttl(r) <= MaxTime
  /\ req' = [req EXCEPT ![r] = "reserved"]
  /\ until' = [until EXCEPT ![r] = x.until]
  /\ temp' = SetLink(temp, x)
  /\ companions' = IF x.kind = "quota" THEN companions \cup {x} ELSE companions
  /\ tainted' = tainted \cup
       (IF Content[r] \in doomed \/ Clashes(x) THEN {Content[r]} ELSE {})
  /\ UNCHANGED <<time, committed, stored, kind, purge, scan, faults>>

(* A version of Exists that takes a reservation for the blob.               *)
ExistsReserved(r) ==
  /\ req[r] = "reserved"
  /\ req' = [req EXCEPT ![r] =
       IF kind[r] # "queue" /\ \E x \in temp : x.hash = Content[r] /\ x.until > until[r]
       THEN "ready" ELSE "absent"]
  /\ UNCHANGED <<time, temp, companions, committed, stored, kind, until, purge, scan,
                 faults, tainted>>

(* blob_exists, which the spool does not call.                              *)
Exists(r) ==
  /\ req[r] = "reserved"
  /\ req' = [req EXCEPT ![r] =
       IF kind[r] # "queue" /\ Content[r] \in committed THEN "ready" ELSE "absent"]
  /\ UNCHANGED <<time, temp, companions, committed, stored, kind, until, purge, scan,
                 faults, tainted>>

(* put_blob, and for the spool its next step is already the link.           *)
Put(r) ==
  /\ req[r] = "absent"
  /\ stored' = stored \cup {Content[r]}
  /\ req' = [req EXCEPT ![r] = IF kind[r] = "queue" THEN "ready" ELSE "put"]
  /\ UNCHANGED <<time, temp, companions, committed, kind, until, purge, scan, faults, tainted>>

(* "Commit blob"                                                            *)
CommitBlob(r) ==
  /\ req[r] = "put"
  /\ committed' = committed \cup {Content[r]}
  /\ req' = [req EXCEPT ![r] = "ready"]
  /\ UNCHANGED <<time, temp, companions, stored, kind, until, purge, scan, faults, tainted>>

(* Email/import of an upload that has not expired, and Email/copy of a      *)
(* message that exists: the content can be read now.                        *)
Access(r) ==
  /\ Content[r] \in stored
  /\ \/ /\ req[r] = "ready" /\ kind[r] = "jmap"
        /\ until[r] > time
        /\ \E x \in temp : SameKey(x, OwnLink(r, until[r]))
     \/ /\ req[r] = "new" /\ kind[r] = "copy"
        /\ Linked(Content[r])
  /\ req' = [req EXCEPT ![r] = "granted"]
  /\ UNCHANGED <<time, temp, companions, committed, stored, kind, until, purge, scan,
                 faults, tainted>>

(* A spam sample expires at the same time all day, except in the spool.     *)
Sample(r) ==
  [hash |-> Content[r], account |-> Account[r], kind |-> "sample",
   until |-> SampleTtl + IF kind[r] = "queue" THEN time ELSE time - (time % Day)]

EndsHold(r) == kind[r] \in {"upload", "queue"}
CanLink(r) == req[r] = IF kind[r] \in {"jmap", "copy"} THEN "granted" ELSE "ready"

(* A version of Link that has the spool rely on a commit key it never set.  *)
LinkUncommitted(r, train) ==
  LET x == Sample(r)
      held == IF EndsHold(r)
              THEN {y \in temp : ~SameKey(y, OwnLink(r, until[r]))} ELSE temp
  IN
  /\ CanLink(r) /\ (train => x.until <= MaxTime)
  /\ req' = [req EXCEPT ![r] = "linked"]
  /\ temp' = IF train THEN SetLink(held, x) ELSE held
  /\ companions' = IF train THEN companions \cup {x} ELSE companions
  /\ tainted' = tainted \cup
       (IF (train /\ Clashes(x)) \/ (EndsHold(r) /\ Clashes(OwnLink(r, until[r])))
        THEN {Content[r]} ELSE {})
  /\ UNCHANGED <<time, committed, stored, kind, until, purge, scan, faults>>

(* The batch that stores the document or the message of the queue: its      *)
(* link, perhaps a spam sample, and the end of the reservation.             *)
Link(r, train) ==
  LET x == Sample(r)
      held == IF EndsHold(r)
              THEN {y \in temp : ~SameKey(y, OwnLink(r, until[r]))} ELSE temp
  IN
  /\ CanLink(r) /\ (train => x.until <= MaxTime)
  /\ req' = [req EXCEPT ![r] = "linked"]
  /\ temp' = IF train THEN SetLink(held, x) ELSE held
  /\ companions' = IF train THEN companions \cup {x} ELSE companions
  /\ committed' = IF kind[r] = "queue" THEN committed \cup {Content[r]} ELSE committed
  /\ tainted' = tainted \cup
       (IF (train /\ Clashes(x)) \/ (EndsHold(r) /\ Clashes(OwnLink(r, until[r])))
        THEN {Content[r]} ELSE {})
  /\ UNCHANGED <<time, stored, kind, until, purge, scan, faults>>

(* A version of Unlink that forgets the link of an item kept for undelete.  *)
UnlinkKeyOnly(r, keep) ==
  LET x == [hash |-> Content[r], account |-> Account[r], kind |-> "undelete",
            until |-> time + UndeleteTtl]
  IN
  /\ req[r] = "linked" /\ (keep => kind[r] # "queue" /\ x.until <= MaxTime)
  /\ req' = [req EXCEPT ![r] = "over"]
  /\ companions' = IF keep THEN companions \cup {x} ELSE companions
  /\ UNCHANGED <<time, temp, committed, stored, kind, until, purge, scan, faults, tainted>>

(* The document is deleted, or the message leaves the queue; a document may *)
(* be kept for undelete.                                                    *)
Unlink(r, keep) ==
  LET x == [hash |-> Content[r], account |-> Account[r], kind |-> "undelete",
            until |-> time + UndeleteTtl]
  IN
  /\ req[r] = "linked" /\ (keep => kind[r] # "queue" /\ x.until <= MaxTime)
  /\ req' = [req EXCEPT ![r] = "over"]
  /\ temp' = IF keep THEN SetLink(temp, x) ELSE temp
  /\ companions' = IF keep THEN companions \cup {x} ELSE companions
  /\ tainted' = tainted \cup (IF keep /\ Clashes(x) THEN {Content[r]} ELSE {})
  /\ UNCHANGED <<time, committed, stored, kind, until, purge, scan, faults>>

(* The request fails, or its node does; an upload may never be imported.    *)
Abandon(r) ==
  /\ req[r] \notin {"new", "linked", "over"}
  /\ req' = [req EXCEPT ![r] = "over"]
  /\ UNCHANGED <<time, temp, companions, committed, stored, kind, until, purge, scan,
                 faults, tainted>>

-----------------------------------------------------------------------------
(* purge_blobs *)

(* A version of Live in which a spam sample does not expire.                *)
LiveSample(x) == x.until > time \/ x.kind = "sample"

Live(x) == x.until > time

(* "Keep only the latest sample per account"                                *)
Superseded(x) ==
  /\ Live(x) /\ x.kind = "sample"
  /\ \E y \in temp : /\ y.kind = "sample" /\ y.hash = x.hash
                     /\ y.account = x.account /\ y.until > x.until

(* A version of Unheld that takes only documents for links.                 *)
UnheldByDocument ==
  {h \in committed \cup {x.hash : x \in temp} : ~Linked(h)}

(* The hashes that have a key and no live link.                             *)
Unheld ==
  {h \in committed \cup {x.hash : x \in temp} :
     ~Linked(h) /\ \A x \in temp : x.hash = h => ~Live(x)}

Scan ==
  /\ purge = "idle"
  /\ purge' = "delete"
  /\ doomed' = Unheld
  /\ expired' = {x \in temp : ~Live(x) \/ Superseded(x)}
  /\ deleted' = {}
  /\ tainted' = tainted \cup {h \in doomed' : Used(h)}
  /\ UNCHANGED <<time, temp, companions, committed, stored, req, kind, until, faults>>

(* delete_blob, one hash after the other.                                   *)
DeleteBlob ==
  /\ purge = "delete"
  /\ \E h \in doomed \ deleted :
       /\ stored' = stored \ {h}
       /\ deleted' = deleted \cup {h}
  /\ UNCHANGED <<time, temp, companions, committed, req, kind, until, purge, doomed,
                 expired, faults, tainted>>

(* A version of Done that keeps what was deleted.                           *)
DoneKept == purge' = "idle" /\ doomed' = {} /\ expired' = {} /\ UNCHANGED deleted

(* The BlobPurgeState is dropped.                                           *)
Done == purge' = "idle" /\ doomed' = {} /\ expired' = {} /\ deleted' = {}

(* Nothing is left of a hash: whatever happened to it is over.              *)
Forgotten(h, links, keys, commits) ==
  /\ h \notin commits /\ h \notin stored
  /\ ~Linked(h) /\ ~Used(h)
  /\ \A x \in links \cup keys : x.hash # h

(* "Delete hashes"                                                          *)
Clear ==
  LET links == {x \in temp : \A y \in expired : ~SameKey(x, y)}
      keys == companions \ expired
      commits == committed \ doomed
  IN
  /\ purge = "delete" /\ doomed \subseteq deleted
  /\ temp' = links /\ companions' = keys /\ committed' = commits
  /\ tainted' = {h \in tainted : ~Forgotten(h, links, keys, commits)}
  /\ Done
  /\ UNCHANGED <<time, stored, req, kind, until, faults>>

(* A store fails, and the purge with it, or its node dies.                  *)
Stop ==
  /\ purge # "idle" /\ faults < MaxFaults
  /\ faults' = faults + 1
  /\ Done
  /\ tainted' = tainted \cup deleted
  /\ UNCHANGED <<time, temp, companions, committed, stored, req, kind, until>>

Tick ==
  /\ time < MaxTime
  /\ time' = time + 1
  /\ UNCHANGED <<temp, companions, committed, stored, req, kind, until, purge, scan,
                 faults, tainted>>

-----------------------------------------------------------------------------

RequestStep(r) ==
  \/ Reserve(r) \/ Exists(r) \/ Put(r) \/ CommitBlob(r) \/ Access(r)
  \/ \E b \in BOOLEAN : Link(r, b) \/ Unlink(r, b)
  \/ Abandon(r)

PurgeStep == Scan \/ DeleteBlob \/ Clear

Next == (\E r \in Requests : RequestStep(r)) \/ PurgeStep \/ Stop \/ Tick

Spec == Init /\ [][Next]_vars

(* The housekeeper keeps running the purge, and the clock goes on.          *)
LiveSpec == Spec /\ WF_vars(Scan) /\ WF_vars(DeleteBlob) /\ WF_vars(Clear) /\ WF_vars(Tick)

-----------------------------------------------------------------------------
(* Properties *)

TypeOK ==
  /\ time \in Nat
  /\ temp \subseteq TempLink /\ companions \subseteq TempLink
  /\ committed \subseteq Hashes /\ stored \subseteq Hashes
  /\ req \in [Requests -> ReqStates]
  /\ kind \in [Requests -> AllKinds]
  /\ until \in [Requests -> Nat]
  /\ purge \in {"idle", "delete"}
  /\ doomed \subseteq Hashes /\ expired \subseteq TempLink
  /\ deleted \subseteq doomed
  /\ faults \in Nat
  /\ tainted \subseteq Hashes

(* A document or a queued message finds its content: the purge took no blob *)
(* that is linked, or is about to be, unless a request had met the purge or *)
(* outlived its reservation.                                                *)
LinkedStored ==
  \A r \in Requests : (req[r] = "linked" /\ Content[r] \notin tainted) => Content[r] \in stored

(* Every blob has a key that the purge will find it by.                     *)
NoLeak ==
  \A h \in stored \ tainted : h \in committed \/ (\E x \in temp : x.hash = h) \/ Linked(h)

(* Every quota, undelete and sample key has the temporary link that keeps   *)
(* its blob and that the purge will remove it with.                         *)
CompanionsHeld == \A x \in companions : x.hash \in tainted \/ x \in temp

(* The reservation works: the purge takes no hash of a request in progress  *)
(* whose temporary link has not expired, unless the link was shared with    *)
(* another request of the account that has ended it.                        *)
ReservationRespected ==
  [][\A r \in Requests :
       (purge = "idle" /\ purge' # "idle" /\ InUse(r) /\ kind[r] # "copy"
          /\ until[r] > time /\ Content[r] \in doomed' /\ Content[r] \notin tainted) =>
       \E s \in Requests \ {r} :
          /\ Content[s] = Content[r] /\ Account[s] = Account[r]
          /\ until[s] = until[r] /\ req[s] \in {"linked", "over"}]_vars

(* A blob that nothing needs is deleted in the end.                         *)
EventuallyPurged ==
  \A h \in Hashes :
    (h \in stored /\ ~Linked(h) /\ ~Used(h) /\ h \notin tainted)
       ~> (h \notin stored \/ Linked(h) \/ Used(h) \/ h \in tainted)
=============================================================================
