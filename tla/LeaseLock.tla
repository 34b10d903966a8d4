------------------------------ MODULE LeaseLock ------------------------------
(***************************************************************************)
(* The distributed lock of InMemoryStore (store/src/dispatch/lookup.rs).    *)
(*                                                                          *)
(* With a data store, try_lock is a read, a look at the clock and a         *)
(* conditional write, three store or system calls apart, and                *)
(* purge_in_memory_store first scans for expired keys and deletes what it   *)
(* found later.  With Redis, alone or sharded, it is an INCR with an EXPIRE *)
(* that every caller sets anew, and Redis drops the key when it expires.    *)
(* remove_lock is a plain delete.  One lock key is modelled: keys do not    *)
(* influence each other.                                                    *)
(***************************************************************************)
EXTENDS Integers

CONSTANTS Procs,      \* the tasks and nodes that compete for the key
          Duration,   \* the lease asked for (LOCK_EXPIRY and the like)
          Backends,   \* the kinds of store it may be: "data" and "redis"
          LegacyEntry,\* whether an old release left a value of its own there
          MaxTime     \* bound on the clock

ASSUME DurationAssumption == Duration \in Nat \ {0}
ASSUME BackendsAssumption == Backends \subseteq {"data", "redis"}
ASSUME LegacyEntryAssumption == LegacyEntry \in BOOLEAN
ASSUME MaxTimeAssumption == MaxTime \in Nat

None == 0             \* the key is absent
Corrupt == -1         \* the key holds a value that is not a u64 (old format)
NoOne == "no one"

ASSUME ProcsAssumption == NoOne \notin Procs

VARIABLES backend,    \* the store that is configured
          now,        \* the clock, store::write::now()
          lock,       \* value stored under the key: an expiry, None or Corrupt
          pc,         \* where each process is in try_lock / its critical section
          seen,       \* lock_expiry as read by try_lock
          lease,      \* the expiry the process writes, or wrote
          condemned,  \* the purge has collected the key and not yet deleted it
          owner,      \* history: the process that wrote the entry
          stolen      \* history: an entry in force was deleted by a non-owner

vars == <<backend, now, lock, pc, seen, lease, condemned, owner, stolen>>

PcStates == {"idle", "clear", "check", "write", "held"}

TypeOK ==
  /\ backend \in Backends
  /\ now \in Nat \ {0}
  /\ lock \in Nat \cup {Corrupt}
  /\ pc \in [Procs -> PcStates]
  /\ seen \in [Procs -> Nat]
  /\ lease \in [Procs -> Nat]
  /\ condemned \in BOOLEAN
  /\ owner \in Procs \cup {NoOne}
  /\ stolen \in BOOLEAN

(* A fresh store, or a data store with a lock value left by an older        *)
(* release.                                                                 *)
Init ==
  /\ backend \in Backends
  /\ now = 1
  /\ lock = IF LegacyEntry /\ backend = "data" THEN Corrupt ELSE None
  /\ pc = [p \in Procs |-> "idle"]
  /\ seen = [p \in Procs |-> None]
  /\ lease = [p \in Procs |-> None]
  /\ condemned = FALSE
  /\ owner = NoOne
  /\ stolen = FALSE

(* ValueOp::Clear on the key, on behalf of "by": nothing is compared.       *)
Delete(by) ==
  /\ lock' = None
  /\ owner' = NoOne
  /\ stolen' = (stolen \/ (lock > now /\ owner # by))

-----------------------------------------------------------------------------
(* try_lock of a data store *)

(* A version of Read that hands an undecodable value on as it is.           *)
ReadCorruptAsExpiry(p) ==
  /\ backend = "data" /\ pc[p] = "idle"
  /\ seen' = [seen EXCEPT ![p] = lock]
  /\ pc' = [pc EXCEPT ![p] = "check"]
  /\ UNCHANGED <<backend, now, lock, lease, condemned, owner, stolen>>

(* store.get_value: a value that does not decode as u64 is removed first.   *)
Read(p) ==
  /\ backend = "data" /\ pc[p] = "idle"
  /\ IF lock = Corrupt
       THEN /\ pc' = [pc EXCEPT ![p] = "clear"]
            /\ UNCHANGED seen
       ELSE /\ pc' = [pc EXCEPT ![p] = "check"]
            /\ seen' = [seen EXCEPT ![p] = lock]
  /\ UNCHANGED <<backend, now, lock, lease, condemned, owner, stolen>>

(* The removal is a write of its own, after the read that failed.           *)
ClearCorrupt(p) ==
  /\ pc[p] = "clear"
  /\ Delete(p)
  /\ seen' = [seen EXCEPT ![p] = None]
  /\ pc' = [pc EXCEPT ![p] = "check"]
  /\ UNCHANGED <<backend, now, lease, condemned>>

(* A version of Check that does not look at the expiry it has read.         *)
CheckNothing(p) ==
  /\ pc[p] = "check"
  /\ pc' = [pc EXCEPT ![p] = "write"]
  /\ lease' = [lease EXCEPT ![p] = now + Duration]
  /\ UNCHANGED <<backend, now, lock, seen, condemned, owner, stolen>>

(* let now = now(): give up on a lease in force, else prepare the write.    *)
Check(p) ==
  /\ pc[p] = "check"
  /\ IF seen[p] > now
       THEN /\ pc' = [pc EXCEPT ![p] = "idle"]
            /\ UNCHANGED lease
       ELSE /\ pc' = [pc EXCEPT ![p] = "write"]
            /\ lease' = [lease EXCEPT ![p] = now + Duration]
  /\ UNCHANGED <<backend, now, lock, seen, condemned, owner, stolen>>

(* A version of Write without the assertion on the value that was read.     *)
WriteUnasserted(p) ==
  /\ pc[p] = "write"
  /\ lock' = lease[p]
  /\ owner' = p
  /\ pc' = [pc EXCEPT ![p] = "held"]
  /\ UNCHANGED <<backend, now, seen, lease, condemned, stolen>>

(* assert_value + set in one batch; an assertion failure answers Ok(false). *)
Write(p) ==
  /\ pc[p] = "write"
  /\ IF lock = seen[p]
       THEN /\ lock' = lease[p]
            /\ owner' = p
            /\ pc' = [pc EXCEPT ![p] = "held"]
       ELSE /\ pc' = [pc EXCEPT ![p] = "idle"]
            /\ UNCHANGED <<lock, owner>>
  /\ UNCHANGED <<backend, now, seen, lease, condemned, stolen>>

-----------------------------------------------------------------------------
(* try_lock of Redis *)

(* A version of Increment that takes any count for the first.               *)
IncrementAny(p) ==
  /\ backend = "redis" /\ pc[p] = "idle"
  /\ lock' = now + Duration
  /\ owner' = p
  /\ lease' = [lease EXCEPT ![p] = now + Duration]
  /\ pc' = [pc EXCEPT ![p] = "held"]
  /\ UNCHANGED <<backend, now, seen, condemned, stolen>>

(* INCR and EXPIRE in one transaction: the counter is 1 for the first       *)
(* caller; the others only put off its expiry.                              *)
Increment(p) ==
  /\ backend = "redis" /\ pc[p] = "idle"
  /\ lock' = now + Duration
  /\ IF lock <= now
       THEN /\ owner' = p
            /\ lease' = [lease EXCEPT ![p] = now + Duration]
            /\ pc' = [pc EXCEPT ![p] = "held"]
       ELSE UNCHANGED <<owner, lease, pc>>
  /\ UNCHANGED <<backend, now, seen, condemned, stolen>>

-----------------------------------------------------------------------------
(* The end of a lock *)

(* The process dies, or a store call fails and the caller takes the error   *)
(* for "not locked"; whatever it has written stays.                         *)
Abandon(p) ==
  /\ pc[p] # "idle"
  /\ pc' = [pc EXCEPT ![p] = "idle"]
  /\ UNCHANGED <<backend, now, lock, seen, lease, condemned, owner, stolen>>

(* remove_lock: the caller may be past its lease.                           *)
Release(p) ==
  /\ pc[p] = "held"
  /\ Delete(p)
  /\ pc' = [pc EXCEPT ![p] = "idle"]
  /\ UNCHANGED <<backend, now, seen, lease, condemned>>

-----------------------------------------------------------------------------
(* purge_in_memory_store *)

(* The scan collects the keys whose expiry is not after the clock.  The     *)
(* first eight bytes of an old-format value are read as an expiry.          *)
PurgeScan ==
  /\ backend = "data"
  /\ ~condemned
  /\ lock # None
  /\ lock <= now
  /\ condemned' = TRUE
  /\ UNCHANGED <<backend, now, lock, pc, seen, lease, owner, stolen>>

(* The collected keys are deleted by name, in a later write.                *)
PurgeClear ==
  /\ condemned
  /\ Delete(NoOne)
  /\ condemned' = FALSE
  /\ UNCHANGED <<backend, now, pc, seen, lease>>

Tick ==
  /\ now < MaxTime
  /\ now' = now + 1
  /\ UNCHANGED <<backend, lock, pc, seen, lease, condemned, owner, stolen>>

Next ==
  \/ \E p \in Procs :
       \/ Read(p)
       \/ ClearCorrupt(p)
       \/ Check(p)
       \/ Write(p)
       \/ Increment(p)
       \/ Abandon(p)
       \/ Release(p)
  \/ PurgeScan
  \/ PurgeClear
  \/ Tick

Spec == Init /\ [][Next]_vars

-----------------------------------------------------------------------------
(* Properties *)

(* p has the answer Ok(true) and its lease has not run out.                 *)
InForce(p) == pc[p] = "held" /\ lease[p] > now

(* As long as nobody has deleted an entry in force that was not its own, at *)
(* most one caller of try_lock is inside an unexpired lease, however the    *)
(* reads, clock readings and conditional writes of the callers, the purge,  *)
(* crashes and overlong critical sections interleave.                       *)
MutexUnlessStolen ==
  ~stolen => \A p, q \in Procs : (InForce(p) /\ InForce(q)) => p = q

(* The three-step try_lock is one atomic step to its callers; only with     *)
(* Redis a refused caller prolongs the lease of another one.                *)
Atomic == INSTANCE AtomicLease WITH holders <- {p \in Procs : pc[p] = "held"},
                                    prolongs <- (backend = "redis")
AtomicSpec == Atomic!Spec
=============================================================================
