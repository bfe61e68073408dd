----------------------------- MODULE FencedLead -----------------------------
(***************************************************************************)
(* What a host promises about who leads it: the lead changes hands under   *)
(* numbers that only grow, so each lead of the companion has one of its    *)
(* own, and a command of the companion is carried out only while the lead  *)
(* it was sent under lasts.                                                *)
(***************************************************************************)
EXTENDS Naturals

CONSTANT Host

VARIABLES
  lead,     \* each host's number and holder
  obeyed    \* the leads carried out for, since the primary last took the host back

vars == <<lead, obeyed>>

Init ==
  /\ lead = [h \in Host |-> [epoch |-> 0, holder |-> "primary"]]
  /\ obeyed = {}

\* The first description of the Walnut makes number 1.
Describe(h) ==
  /\ lead[h].epoch = 0
  /\ lead' = [lead EXCEPT ![h].epoch = 1]
  /\ UNCHANGED obeyed

\* The companion names the number, which the host has not given out yet.
TakeOver(h) ==
  /\ lead'[h].epoch \in Nat /\ lead'[h].epoch > lead[h].epoch
  /\ lead' = [lead EXCEPT ![h] = [epoch |-> lead'[h].epoch, holder |-> "backup"]]
  /\ UNCHANGED obeyed

TakeBack(h) ==
  /\ lead[h].holder = "backup"
  /\ lead' = [lead EXCEPT ![h] = [epoch |-> @.epoch + 1, holder |-> "primary"]]
  /\ obeyed' = {c \in obeyed : c[1] # h}

Obey(h) ==
  /\ lead[h].holder = "backup"
  /\ obeyed' = obeyed \cup {<<h, lead[h].epoch>>}
  /\ UNCHANGED lead

Next == \E h \in Host : Describe(h) \/ TakeOver(h) \/ TakeBack(h) \/ Obey(h)

Spec == Init /\ [][Next]_vars
=============================================================================
