---------------------------- MODULE MCLeaseLock ----------------------------
(* Instances of LeaseLock for TLC. *)
EXTENDS LeaseLock, TLC

Symmetry == Permutations(Procs)
=============================================================================
