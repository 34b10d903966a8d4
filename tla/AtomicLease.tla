----------------------------- MODULE AtomicLease -----------------------------
(***************************************************************************)
(* What InMemoryStore::try_lock and remove_lock promise their callers (the  *)
(* delivery workers, the task workers, the housekeeper, the report          *)
(* scheduler and the account purge): taking a lease is ONE step, and that   *)
(* step never replaces an entry that is still in force.  The entry can be   *)
(* deleted at any moment: remove_lock is an unconditional delete, and so    *)
(* are the deletes of the periodic purge.  A caller that is refused leaves  *)
(* the entry as it is, so that the entry of a dead holder lapses Duration   *)
(* after it was written; with a store that prolongs it lapses only when     *)
(* nobody has asked for that long.                                          *)
(***************************************************************************)
EXTENDS Integers

CONSTANTS Procs,      \* the tasks and nodes that compete for one lock key
          Duration    \* the lease a caller asks for

VARIABLES now,        \* the clock
          lock,       \* expiry stored under the key; anything < 1 is "no lease"
          prolongs,   \* whether a refused caller sets the expiry anew
          holders     \* the callers that were told Ok(true) and are not done

vars == <<now, lock, prolongs, holders>>

Init ==
  /\ now = 1
  /\ lock < 1
  /\ prolongs \in BOOLEAN
  /\ holders = {}

(* try_lock answers Ok(true).  The expiry was computed from a clock reading *)
(* that can be old by the time the entry is written.                        *)
Acquire(p) ==
  /\ p \notin holders
  /\ lock <= now
  /\ \E e \in 1 .. (now + Duration) : lock' = e
  /\ holders' = holders \cup {p}
  /\ UNCHANGED <<now, prolongs>>

(* try_lock answers Ok(false) and moves the expiry of the entry in force.   *)
Prolong ==
  /\ prolongs
  /\ lock > now
  /\ lock' = now + Duration
  /\ UNCHANGED <<now, prolongs, holders>>

(* remove_lock by the caller that holds the lease.                          *)
Release(p) ==
  /\ p \in holders
  /\ lock' = 0
  /\ holders' = holders \ {p}
  /\ UNCHANGED <<now, prolongs>>

(* The holder dies: its entry stays until it lapses.                        *)
Abandon(p) ==
  /\ p \in holders
  /\ holders' = holders \ {p}
  /\ UNCHANGED <<now, lock, prolongs>>

(* The purge, or the removal of an unreadable entry.                        *)
Drop ==
  /\ lock' = 0
  /\ UNCHANGED <<now, prolongs, holders>>

Tick ==
  /\ now' = now + 1
  /\ UNCHANGED <<lock, prolongs, holders>>

Next ==
  \/ \E p \in Procs : Acquire(p) \/ Release(p) \/ Abandon(p)
  \/ Prolong
  \/ Drop
  \/ Tick

Spec == Init /\ [][Next]_vars
=============================================================================
