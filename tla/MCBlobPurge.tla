----------------------------- MODULE MCBlobPurge -----------------------------
EXTENDS BlobPurge, TLC

CONSTANTS h1, a1, r1, r2

(* Two requests of one account for the same content.                        *)
TwoSame == r1 :> h1 @@ r2 :> h1
OneAccount == r1 :> a1 @@ r2 :> a1
=============================================================================
