---------------------------- MODULE AtomicStore ----------------------------
(***************************************************************************)
(* What the queue's store promises of its mutations: each is applied at    *)
(* most once, to the contents as they are at that moment, so that no       *)
(* writer reverts another; a strict one is confirmed only when it was      *)
(* applied, and once a durable one is confirmed a power loss cannot undo   *)
(* it.                                                                     *)
(***************************************************************************)
CONSTANTS
  Call,          \* the mutations
  Op,            \* what a mutation may be asked to do
  Strict,        \* the operations that fail rather than stay in memory
  Durable,       \* the operations synced before they are confirmed
  NONE,
  Empty,         \* the contents of no file
  Change(_, _)   \* Change(o, s): the contents after operation o on s

VARIABLES
  contents,
  kept,          \* the contents a power loss may leave
  op,            \* what each call was asked to do
  state          \* new, asked, applied, and how the call ended

vars == <<contents, kept, op, state>>

Init ==
  /\ contents = Empty /\ kept = {Empty}
  /\ op = [c \in Call |-> NONE]
  /\ state = [c \in Call |-> "new"]

Goto(c, to) == state' = [state EXCEPT ![c] = to]

Ask(c, o) ==
  /\ state[c] = "new" /\ Goto(c, "asked")
  /\ op' = [op EXCEPT ![c] = o]
  /\ UNCHANGED <<contents, kept>>

Commit(c) ==
  /\ state[c] = "asked" /\ Goto(c, "applied")
  /\ contents' = Change(op[c], contents)
  /\ kept' = kept \cup {contents'}
  /\ UNCHANGED op

Confirm(c) ==
  /\ state[c] = "applied" /\ Goto(c, "yes")
  /\ kept' = (IF op[c] \in Durable THEN {contents} ELSE kept)
  /\ UNCHANGED <<contents, op>>

\* Confirmed in memory only.
Excuse(c) ==
  /\ state[c] \in {"asked", "applied"} /\ op[c] \notin Strict
  /\ Goto(c, "excused")
  /\ UNCHANGED <<contents, kept, op>>

Refuse(c) ==
  /\ state[c] \in {"asked", "applied"} /\ Goto(c, "no")
  /\ UNCHANGED <<contents, kept, op>>

\* A process ended with the calls of S.
Die(S) ==
  /\ state' = [c \in Call |-> IF c \in S /\ state[c] # "yes" THEN "lost" ELSE state[c]]
  /\ UNCHANGED <<contents, kept, op>>

PowerLoss(S) ==
  /\ contents' \in kept /\ kept' = {contents'}
  /\ state' = [c \in Call |-> IF c \in S THEN "lost" ELSE state[c]]
  /\ UNCHANGED op

Next ==
  \/ \E c \in Call, o \in Op : Ask(c, o)
  \/ \E c \in Call : Commit(c) \/ Confirm(c) \/ Excuse(c) \/ Refuse(c)
  \/ \E S \in SUBSET Call : Die(S) \/ PowerLoss(S)

Spec == Init /\ [][Next]_vars
=============================================================================
