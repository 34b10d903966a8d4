---------------------------- MODULE MCThreadMerge ----------------------------
EXTENDS ThreadMerge, TLC

(* Two conversations that the third message, and the fourth, tie together.  *)
TwoInOne == << <<1>>, <<2>>, <<1, 2>>, <<2, 3>> >>

(* The merge workers are alike.                                             *)
WorkerSymmetry == Permutations(Workers)
=============================================================================
