----------------------------- MODULE MCLaneTurn -----------------------------
(* Small instances of LaneTurn for TLC. *)
EXTENDS LaneTurn, TLC

CONSTANTS t1, t2, t3, x, w1, w2, w3

\* Of two turns on the lane each may wait once; of three the second may once
\* and the third twice.
OwnerOfTwo == w1 :> t1 @@ w2 :> t2
OwnerOfThree == w1 :> t2 @@ w2 :> t3 @@ w3 :> t3
=============================================================================
