---------------------------- MODULE MCTurnQueue ----------------------------
(* Small instances of TurnQueue for TLC. *)
EXTENDS TurnQueue, TLC

CONSTANTS t1, t2, t3, t4, w1, w2, w3

\* One turn makes two waits at once, another one.
OwnerOfEach == w1 :> t1 @@ w2 :> t1 @@ w3 :> t2
=============================================================================
