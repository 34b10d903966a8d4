-------------------------- MODULE LeaseLockProofs --------------------------
(* Proofs about the distributed lock, for any set of processes, any lease   *)
(* duration and any clock bound.                                            *)
EXTENDS LeaseLock, TLAPS

(* The strengthening of MutexUnlessStolen.  No lease is longer than asked   *)
(* for, so a refused caller of Redis never shortens one.  What a process is *)
(* about to assert was already lapsed when it looked at the clock, and as   *)
(* long as no entry was stolen a lease in force is the very entry in the    *)
(* store, or what a refused caller has made of it.                          *)
LeaseInv ==
  /\ TypeOK
  /\ \A p \in Procs : lease[p] <= now + Duration
  /\ \A p \in Procs : pc[p] = "write" => (seen[p] <= now /\ lease[p] \in 1 .. (now + Duration))
  /\ ~stolen => \A p \in Procs : InForce(p) => (lock >= lease[p] /\ owner = p)

LEMMA InitLease == Init => LeaseInv
<1> SUFFICES ASSUME Init PROVE LeaseInv
  OBVIOUS
<1>1. TypeOK
  <2>0. backend \in Backends
    BY DEF Init
  <2>1. now \in Nat \ {0} /\ lock \in Nat \cup {Corrupt}
    BY LegacyEntryAssumption DEF Init, None, Corrupt
  <2>2. pc \in [Procs -> PcStates] /\ seen \in [Procs -> Nat] /\ lease \in [Procs -> Nat]
    BY DEF Init, None, PcStates
  <2>3. condemned \in BOOLEAN /\ owner \in Procs \cup {NoOne} /\ stolen \in BOOLEAN
    BY DEF Init
  <2> QED BY <2>0, <2>1, <2>2, <2>3 DEF TypeOK
<1>2. \A p \in Procs : pc[p] = "idle"
  BY DEF Init
<1>3. \A p \in Procs : lease[p] <= now + Duration
  <2>1. now = 1 /\ \A p \in Procs : lease[p] = 0
    BY DEF Init, None
  <2>2. 0 <= 1 + Duration
    BY DurationAssumption
  <2> QED BY <2>1, <2>2
<1> QED BY <1>1, <1>2, <1>3 DEF LeaseInv, InForce

(* Every step of the lock protocol preserves the type of the state.         *)
LEMMA TypePreserved == TypeOK /\ [Next]_vars => TypeOK'
<1> SUFFICES ASSUME TypeOK, [Next]_vars PROVE TypeOK'
  OBVIOUS
<1> USE DurationAssumption DEF TypeOK, PcStates, None, Corrupt
<1>1. ASSUME NEW p \in Procs, Read(p) PROVE TypeOK'
  BY <1>1 DEF Read
<1>2. ASSUME NEW p \in Procs, ClearCorrupt(p) PROVE TypeOK'
  BY <1>2 DEF ClearCorrupt, Delete
<1>3. ASSUME NEW p \in Procs, Check(p) PROVE TypeOK'
  BY <1>3 DEF Check
<1>4. ASSUME NEW p \in Procs, Write(p) PROVE TypeOK'
  BY <1>4 DEF Write
<1>5. ASSUME NEW p \in Procs, Abandon(p) PROVE TypeOK'
  BY <1>5 DEF Abandon
<1>6. ASSUME NEW p \in Procs, Release(p) PROVE TypeOK'
  BY <1>6 DEF Release, Delete
<1>7. CASE PurgeScan
  BY <1>7 DEF PurgeScan
<1>8. CASE PurgeClear
  BY <1>8 DEF PurgeClear, Delete
<1>9. CASE Tick
  BY <1>9 DEF Tick
<1>10. ASSUME NEW p \in Procs, Increment(p) PROVE TypeOK'
  BY <1>10 DEF Increment
<1>11. CASE UNCHANGED vars
  BY <1>11 DEF vars
<1> QED
  BY <1>1, <1>2, <1>3, <1>4, <1>5, <1>6, <1>7, <1>8, <1>9, <1>10, <1>11 DEF Next

(* Whoever deletes the entry ends its own lease, or it has stolen one.      *)
LEMMA DeleteEndsLease ==
  ASSUME LeaseInv, NEW by, Delete(by), ~stolen', NEW q \in Procs, InForce(q)
  PROVE  q = by
<1>1. ~stolen /\ ~(lock > now /\ owner # by)
  BY DEF Delete
<1>2. lock >= lease[q] /\ owner = q
  BY <1>1 DEF LeaseInv
<1>3. lease[q] > now
  BY DEF InForce
<1>4. lock > now
  BY <1>2, <1>3 DEF LeaseInv, TypeOK, Corrupt
<1> QED BY <1>1, <1>2, <1>4

(* Every step preserves the strengthened invariant.                         *)
LEMMA LeasePreserved == LeaseInv /\ [Next]_vars => LeaseInv'
<1> SUFFICES ASSUME LeaseInv, [Next]_vars PROVE LeaseInv'
  OBVIOUS
<1>t. TypeOK'
  BY TypePreserved DEF LeaseInv
<1> DEFINE Short == \A p \in Procs : lease[p] <= now + Duration
           Prepared == \A p \in Procs :
             pc[p] = "write" => (seen[p] <= now /\ lease[p] \in 1 .. (now + Duration))
           Entry == ~stolen => \A p \in Procs : InForce(p) => (lock >= lease[p] /\ owner = p)
<1>i. TypeOK /\ Short /\ Prepared /\ Entry
  BY DEF LeaseInv
<1>s. Short'
  <2> USE DurationAssumption, <1>i DEF TypeOK
  <2>1. ASSUME NEW p \in Procs,
               Read(p) \/ ClearCorrupt(p) \/ Check(p) \/ Write(p)
        PROVE  Short'
    BY <2>1 DEF Read, ClearCorrupt, Check, Write
  <2>2. ASSUME NEW p \in Procs, Increment(p) \/ Abandon(p) \/ Release(p)
        PROVE  Short'
    BY <2>2 DEF Increment, Abandon, Release
  <2>3. CASE PurgeScan \/ PurgeClear \/ Tick \/ UNCHANGED vars
    BY <2>3 DEF PurgeScan, PurgeClear, Tick, vars
  <2> QED BY <2>1, <2>2, <2>3 DEF Next
<1>p. Prepared'
  <2> USE DurationAssumption, <1>i DEF TypeOK, PcStates, None, Corrupt
  <2>1. ASSUME NEW p \in Procs,
               Read(p) \/ ClearCorrupt(p) \/ Check(p) \/ Write(p)
        PROVE  Prepared'
    BY <2>1 DEF Read, ClearCorrupt, Check, Write
  <2>2. ASSUME NEW p \in Procs, Increment(p) \/ Abandon(p) \/ Release(p)
        PROVE  Prepared'
    BY <2>2 DEF Increment, Abandon, Release
  <2>3. CASE PurgeScan \/ PurgeClear \/ Tick \/ UNCHANGED vars
    BY <2>3 DEF PurgeScan, PurgeClear, Tick, vars
  <2> QED BY <2>1, <2>2, <2>3 DEF Next
<1>e. Entry'
  <2> SUFFICES ASSUME ~stolen', NEW q \in Procs, InForce(q)'
               PROVE  lock' >= lease'[q] /\ owner' = q
    OBVIOUS
  <2> USE <1>i DEF TypeOK, None, Corrupt
  <2>1. ASSUME NEW p \in Procs, Read(p) \/ Check(p) \/ Abandon(p)
        PROVE  lock' >= lease'[q] /\ owner' = q
    <3>1. pc'[q] = "held" /\ lease'[q] > now
      BY <2>1 DEF InForce, Read, Check, Abandon
    <3>2. InForce(q) /\ lease'[q] = lease[q]
      BY <2>1, <3>1 DEF InForce, Read, Check, Abandon, PcStates
    <3> QED BY <2>1, <3>2 DEF Read, Check, Abandon
  <2>2. ASSUME NEW p \in Procs, ClearCorrupt(p) \/ Release(p)
        PROVE  lock' >= lease'[q] /\ owner' = q
    <3>1. InForce(q) /\ q # p
      BY <2>2 DEF InForce, ClearCorrupt, Release, PcStates
    <3>2. Delete(p)
      BY <2>2 DEF ClearCorrupt, Release
    <3> QED BY <3>1, <3>2, DeleteEndsLease
  <2>3. ASSUME NEW p \in Procs, Write(p)
        PROVE  lock' >= lease'[q] /\ owner' = q
    <3>1. CASE lock = seen[p]
      <4>1. lock <= now
        BY <2>3, <3>1 DEF Write
      <4>2. q = p
        <5> SUFFICES ASSUME q # p PROVE FALSE
          OBVIOUS
        <5>1. InForce(q) /\ ~stolen
          BY <2>3 DEF InForce, Write, PcStates
        <5>2. lock >= lease[q] /\ lease[q] > now
          BY <5>1 DEF InForce
        <5> QED BY <4>1, <5>2
      <4> QED BY <2>3, <3>1, <4>2 DEF Write
    <3>2. CASE lock # seen[p]
      BY <2>3, <3>2 DEF InForce, Write, PcStates
    <3> QED BY <3>1, <3>2
  <2>4. ASSUME NEW p \in Procs, Increment(p)
        PROVE  lock' >= lease'[q] /\ owner' = q
    <3>0. lock' = now + Duration /\ stolen' = stolen /\ now' = now
      BY <2>4 DEF Increment
    <3>1. CASE lock <= now
      <4>1. q = p
        <5> SUFFICES ASSUME q # p PROVE FALSE
          OBVIOUS
        <5>1. InForce(q) /\ ~stolen
          BY <2>4, <3>1 DEF InForce, Increment, PcStates
        <5>2. lock >= lease[q] /\ lease[q] > now
          BY <5>1 DEF InForce
        <5> QED BY <3>1, <5>2
      <4> QED BY <2>4, <3>1, <4>1, DurationAssumption DEF Increment
    <3>2. CASE lock > now
      <4>1. InForce(q) /\ ~stolen /\ lease'[q] = lease[q] /\ owner' = owner
        BY <2>4, <3>2 DEF InForce, Increment
      <4>2. owner = q
        BY <4>1
      <4> QED BY <3>0, <4>1, <4>2
    <3> QED BY <3>1, <3>2
  <2>5. CASE PurgeClear
    <3>1. Delete(NoOne) /\ InForce(q)
      BY <2>5 DEF PurgeClear, InForce
    <3> QED BY <3>1, DeleteEndsLease, ProcsAssumption
  <2>6. CASE PurgeScan \/ Tick \/ UNCHANGED vars
    <3>1. InForce(q) /\ UNCHANGED <<lock, lease, owner, stolen>>
      BY <2>6 DEF InForce, PurgeScan, Tick, vars
    <3> QED BY <3>1
  <2> QED BY <2>1, <2>2, <2>3, <2>4, <2>5, <2>6 DEF Next
<1> QED BY <1>t, <1>s, <1>p, <1>e DEF LeaseInv

(* The strengthened invariant of the lock protocol always holds.            *)
THEOREM LeaseInvariant == Spec => []LeaseInv
<1>1. Init => LeaseInv
  BY InitLease
<1>2. LeaseInv /\ [Next]_vars => LeaseInv'
  BY LeasePreserved
<1> QED BY <1>1, <1>2, PTL DEF Spec

(* The variables of try_lock, remove_lock and the purge keep their types.   *)
THEOREM TypeCorrect == Spec => []TypeOK
<1>1. LeaseInv => TypeOK
  BY DEF LeaseInv
<1> QED BY <1>1, LeaseInvariant, PTL

(* Unless an entry in force was deleted by somebody else, at most one       *)
(* caller of try_lock is inside an unexpired lease.                         *)
THEOREM MutualExclusion == Spec => []MutexUnlessStolen
<1>1. LeaseInv => MutexUnlessStolen
  BY DEF LeaseInv, MutexUnlessStolen
<1> QED BY <1>1, LeaseInvariant, PTL

(* The read, the clock reading and the conditional write of try_lock are,   *)
(* together, one atomic acquisition of a lapsed or absent lease.            *)
THEOREM Linearizable == Spec => AtomicSpec
<1>1. Init => Atomic!Init
  BY DEF Init, Atomic!Init, None, Corrupt
<1>2. LeaseInv /\ [Next]_vars => [Atomic!Next]_(Atomic!vars)
  <2> SUFFICES ASSUME LeaseInv, [Next]_vars PROVE [Atomic!Next]_(Atomic!vars)
    OBVIOUS
  <2> DEFINE H == {p \in Procs : pc[p] = "held"}
  <2> USE DEF LeaseInv, TypeOK, PcStates, None, Corrupt, Atomic!vars
  <2>1. ASSUME NEW p \in Procs, Read(p) PROVE UNCHANGED Atomic!vars
    <3>1. H' = H
      BY <2>1 DEF Read
    <3> QED BY <2>1, <3>1 DEF Read
  <2>2. ASSUME NEW p \in Procs, ClearCorrupt(p) PROVE Atomic!Drop
    <3>1. H' = H
      BY <2>2 DEF ClearCorrupt
    <3> QED BY <2>2, <3>1 DEF ClearCorrupt, Delete, Atomic!Drop
  <2>3. ASSUME NEW p \in Procs, Check(p) PROVE UNCHANGED Atomic!vars
    <3>1. H' = H
      BY <2>3 DEF Check
    <3> QED BY <2>3, <3>1 DEF Check
  <2>4. ASSUME NEW p \in Procs, Write(p) PROVE Atomic!Acquire(p) \/ UNCHANGED Atomic!vars
    <3>1. CASE lock = seen[p]
      <4>1. H' = H \cup {p} /\ p \notin H
        BY <2>4, <3>1 DEF Write
      <4>2. lock <= now /\ lock' = lease[p] /\ lease[p] \in 1 .. (now + Duration) /\ now' = now
        BY <2>4, <3>1 DEF Write
      <4>3. backend' = backend
        BY <2>4 DEF Write
      <4> QED BY <4>1, <4>2, <4>3 DEF Atomic!Acquire
    <3>2. CASE lock # seen[p]
      <4>1. H' = H
        BY <2>4, <3>2 DEF Write
      <4> QED BY <2>4, <3>2, <4>1 DEF Write
    <3> QED BY <3>1, <3>2
  <2>5. ASSUME NEW p \in Procs, Abandon(p) PROVE Atomic!Abandon(p) \/ UNCHANGED Atomic!vars
    <3>1. H' = H \ {p}
      BY <2>5 DEF Abandon
    <3>2. CASE p \in H
      BY <2>5, <3>1, <3>2 DEF Abandon, Atomic!Abandon
    <3>3. CASE p \notin H
      BY <2>5, <3>1, <3>3 DEF Abandon
    <3> QED BY <3>2, <3>3
  <2>6. ASSUME NEW p \in Procs, Release(p) PROVE Atomic!Release(p)
    <3>1. H' = H \ {p} /\ p \in H
      BY <2>6 DEF Release
    <3> QED BY <2>6, <3>1 DEF Release, Delete, Atomic!Release
  <2>7. ASSUME PurgeScan PROVE UNCHANGED Atomic!vars
    BY <2>7 DEF PurgeScan
  <2>8. ASSUME PurgeClear PROVE Atomic!Drop
    BY <2>8 DEF PurgeClear, Delete, Atomic!Drop
  <2>9. ASSUME Tick PROVE Atomic!Tick
    BY <2>9 DEF Tick, Atomic!Tick
  <2>10. ASSUME NEW p \in Procs, Increment(p) PROVE Atomic!Acquire(p) \/ Atomic!Prolong
    <3>1. CASE lock <= now
      <4>1. H' = H \cup {p} /\ p \notin H
        BY <2>10, <3>1 DEF Increment
      <4>2. /\ lock' = now + Duration /\ now + Duration \in 1 .. (now + Duration)
            /\ now' = now /\ backend' = backend
        BY <2>10, DurationAssumption DEF Increment
      <4> QED BY <3>1, <4>1, <4>2 DEF Atomic!Acquire
    <3>2. CASE lock > now
      <4>1. H' = H
        BY <2>10, <3>2 DEF Increment
      <4> QED BY <2>10, <3>2, <4>1 DEF Increment, Atomic!Prolong
    <3> QED BY <3>1, <3>2
  <2>11. CASE UNCHANGED vars
    BY <2>11 DEF vars
  <2> QED
    BY <2>1, <2>2, <2>3, <2>4, <2>5, <2>6, <2>7, <2>8, <2>9, <2>10, <2>11 DEF Next, Atomic!Next
<1> QED BY <1>1, <1>2, LeaseInvariant, PTL DEF Spec, AtomicSpec, Atomic!Spec
=============================================================================
