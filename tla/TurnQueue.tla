----------------------------- MODULE TurnQueue -----------------------------
(***************************************************************************)
(* src/src/web/agent-turn-queue.ts with src/src/core/turn-slot.ts: the     *)
(* turns of one agent run one at a time. A running turn may give the       *)
(* agent's slot up while it waits for something that is not the agent's    *)
(* work (releaseTurnSlotWhile), and takes it back, ahead of every new      *)
(* turn, before it goes on. A turn that ends and leaves such a wait to a   *)
(* helper has the wait hand the slot on.                                   *)
(*                                                                         *)
(* An action is what runs between two awaits. An entry the slot is given   *)
(* to goes on a promise later: between the two it is `granted'.            *)
(***************************************************************************)
EXTENDS Integers, Sequences

CONSTANTS
  Turn,
  Wait,      \* the calls of releaseWhile, each made at most once
  OwnerOf    \* the turn a call is made in

ASSUME QueueAssumption == OwnerOf \in [Wait -> Turn] /\ Turn \cap Wait = {}

VARIABLES
  resumers, fresh,  \* `queue': waits that want the slot back, and behind them new turns
  active,           \* the holders the queue counts
  granted,          \* the entries whose start was called and that have not gone on yet
  flow,             \* where each turn's task is
  held,             \* the turns whose `held' is true
  wait              \* where each call of releaseWhile is

slot == <<resumers, fresh, active, granted>>
qvars == <<slot, flow, held, wait>>

TypeOK ==
  /\ resumers \in Seq(Wait) /\ fresh \in Seq(Turn)
  /\ active \in 0..1
  /\ granted \in SUBSET (Turn \cup Wait)
  /\ flow \in [Turn -> {"new", "queued", "working", "waiting", "over"}]
  /\ held \in SUBSET Turn
  /\ wait \in [Wait -> {"new", "plain", "away", "back", "over"}]

QInit ==
  /\ resumers = <<>> /\ fresh = <<>>
  /\ active = 0 /\ granted = {}
  /\ flow = [t \in Turn |-> "new"]
  /\ held = {}
  /\ wait = [w \in Wait |-> "new"]

-----------------------------------------------------------------------------
(* The slot *)

\* Mutant: the next entry starts while another holds the slot.
FreeAlways(n) == TRUE

Free(n) == n < 1

\* pump: with the entries rs and fs queued, n holders counted and gs granted,
\* the first entry starts if the slot is free. One at most, for it takes it.
Pump(rs, fs, n, gs) ==
  /\ resumers' = IF Free(n) /\ rs # <<>> THEN Tail(rs) ELSE rs
  /\ fresh' = IF Free(n) /\ rs = <<>> /\ fs # <<>> THEN Tail(fs) ELSE fs
  /\ active' = IF Free(n) /\ (rs # <<>> \/ fs # <<>>) THEN n + 1 ELSE n
  /\ granted' = gs \cup (IF ~Free(n) THEN {}
                         ELSE IF rs # <<>> THEN {Head(rs)}
                         ELSE IF fs # <<>> THEN {Head(fs)} ELSE {})

Give(gs) == Pump(resumers, fresh, active - 1, gs)

Goto(t, to) == flow' = [flow EXCEPT ![t] = to]
Move(w, to) == wait' = [wait EXCEPT ![w] = to]

-----------------------------------------------------------------------------
(* A turn *)

\* enqueueAgentTurn: acquireSlot at the end of the queue.
Enqueue(t) ==
  /\ flow[t] = "new" /\ Goto(t, "queued")
  /\ Pump(resumers, Append(fresh, t), active, granted)
  /\ UNCHANGED <<held, wait>>

\* The slot is the turn's: its task runs.
Begin(t) ==
  /\ t \in granted /\ granted' = granted \ {t}
  /\ Goto(t, "working")
  /\ held' = held \cup {t}
  /\ UNCHANGED <<resumers, fresh, active, wait>>

MayGive(t) == t \in held

\* releaseWhile, called by the turn's own flow, which may make several such
\* waits at once: the first gives the slot up, the others find it given.
Release(w) ==
  LET t == OwnerOf[w]
  IN /\ wait[w] = "new" /\ flow[t] \in {"working", "waiting"}
     /\ Goto(t, "waiting")
     /\ IF MayGive(t) THEN Move(w, "away") /\ held' = held \ {t} /\ Give(granted)
        ELSE Move(w, "plain") /\ UNCHANGED <<slot, held>>

\* releaseWhile, called by a helper that outlived its turn.
ReleaseLate(w) ==
  /\ flow[OwnerOf[w]] = "over" /\ wait[w] = "new" /\ Move(w, "plain")
  /\ UNCHANGED <<slot, flow, held>>

\* What was waited for is over, and no slot was given up for it.
PlainOver(w) ==
  /\ wait[w] = "plain" /\ Move(w, "over")
  /\ UNCHANGED <<slot, flow, held>>

\* Mutant: it goes behind the new turns.
ComeBackLast(w) == Pump(resumers, Append(fresh, w), active, granted)

\* acquireSlot for a turn that was running: behind the waits that already want
\* the slot back, ahead of every new turn.
ComeBack(w) == Pump(Append(resumers, w), fresh, active, granted)

\* What was waited for is over: the slot is asked for again.
Retake(w) ==
  /\ wait[w] = "away" /\ Move(w, "back")
  /\ ComeBack(w)
  /\ UNCHANGED <<flow, held>>

\* Mutant: the slot is kept for a turn that has ended.
HandOnNever(w) ==
  /\ held' = held \cup {OwnerOf[w]} /\ granted' = granted \ {w}
  /\ UNCHANGED <<resumers, fresh, active>>

\* The slot is the turn's again, or, when the turn has ended, handed straight on.
HandOn(w) ==
  IF flow[OwnerOf[w]] = "over"
    THEN Give(granted \ {w}) /\ UNCHANGED held
    ELSE /\ held' = held \cup {OwnerOf[w]} /\ granted' = granted \ {w}
         /\ UNCHANGED <<resumers, fresh, active>>

Resume(w) ==
  /\ w \in granted /\ Move(w, "over")
  /\ HandOn(w)
  /\ UNCHANGED flow

\* All the turn's waits are over: its flow goes on.
GoOn(t) ==
  /\ flow[t] = "waiting" /\ Goto(t, "working")
  /\ \A w \in Wait : OwnerOf[w] = t => wait[w] \in {"new", "over"}
  /\ UNCHANGED <<slot, held, wait>>

\* The task's end (`finally').
End(t) ==
  /\ Goto(t, "over") /\ held' = held \ {t}
  /\ IF t \in held THEN Give(granted) ELSE UNCHANGED slot
  /\ UNCHANGED wait

Finish(t) == flow[t] = "working" /\ End(t)

\* The turn ends without awaiting its waits: a helper has them.
LeaveBehind(t) == flow[t] = "waiting" /\ End(t)

QNext ==
  \/ \E t \in Turn : Enqueue(t) \/ Begin(t) \/ GoOn(t) \/ Finish(t) \/ LeaveBehind(t)
  \/ \E w \in Wait : Release(w) \/ ReleaseLate(w) \/ PlainOver(w) \/ Retake(w) \/ Resume(w)

QSpec == QInit /\ [][QNext]_qvars

\* A started entry goes on, what a turn waits for is over some time, and so is
\* a turn's work.
QFairness ==
  /\ \A t \in Turn : WF_qvars(Begin(t)) /\ WF_qvars(GoOn(t)) /\ WF_qvars(Finish(t))
  /\ \A w \in Wait : WF_qvars(PlainOver(w)) /\ WF_qvars(Retake(w)) /\ WF_qvars(Resume(w))

QFairSpec == QSpec /\ QFairness

-----------------------------------------------------------------------------
(* Properties *)

\* An agent works on one turn at a time, whatever the turns wait for and
\* whenever those waits end (the queue's concurrency of one): the turn at work
\* holds the slot, and nothing else holds it or was granted it.
OneAtATime ==
  \A t \in Turn : flow[t] = "working" =>
    /\ t \in held /\ granted = {}
    /\ \A u \in Turn : flow[u] = "working" => u = t

\* While a turn that gave its slot up wants it back, no new turn is started
\* (`ahead of turns queued in the meantime: this turn was running before').
ComesBackFirst ==
  [][\A w \in Wait, t \in Turn :
       wait[w] = "back" /\ w \notin granted /\ t \notin granted => t \notin granted']_qvars

\* Every turn asked for ends, so no wait ever keeps the slot: not one left to a
\* helper, not one of several a turn made at once.
EveryTurnEnds == \A t \in Turn : flow[t] = "queued" ~> flow[t] = "over"
=============================================================================
