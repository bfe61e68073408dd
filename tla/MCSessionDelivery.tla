------------------------ MODULE MCSessionDelivery ------------------------
(* Small instances of SessionDelivery for TLC. *)
EXTENDS SessionDelivery, TLC

CONSTANTS p, w
=============================================================================
