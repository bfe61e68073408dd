--------------------------- MODULE ExclusiveLock ---------------------------
(***************************************************************************)
(* What withFileLock promises: each call asks once, its function runs at   *)
(* most once and alone, and a call may end without having run it. The      *)
(* calls of a process that ends are over together.                         *)
(***************************************************************************)
CONSTANT Call

VARIABLE stage

\* A call may have ended before.
Init == stage \in [Call -> {"new", "over"}]

Ask(c) == stage[c] = "new" /\ stage' = [stage EXCEPT ![c] = "waiting"]

Enter(c) ==
  /\ stage[c] = "waiting"
  /\ \A d \in Call : stage[d] # "in"
  /\ stage' = [stage EXCEPT ![c] = "in"]

\* The function ended, or the call gave up or failed before it.
Leave(c) ==
  /\ stage[c] \in {"waiting", "in"}
  /\ stage' = [stage EXCEPT ![c] = "over"]

Die(S) == stage' = [c \in Call |-> IF c \in S THEN "over" ELSE stage[c]]

Next ==
  \/ \E c \in Call : Ask(c) \/ Enter(c) \/ Leave(c)
  \/ \E S \in SUBSET Call : Die(S)

Spec == Init /\ [][Next]_stage
=============================================================================
