--------------------------- MODULE MCQueueManager ---------------------------
(* Instances of QueueManager for TLC. *)
EXTENDS QueueManager, TLC

CONSTANT qa
OneQueue == [k \in Keys |-> qa]

Symmetry == Permutations(Keys) \cup Permutations(Tasks)
=============================================================================
