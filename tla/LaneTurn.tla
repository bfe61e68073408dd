----------------------------- MODULE LaneTurn -----------------------------
(***************************************************************************)
(* src/src/core/sessions/lane-turn.ts and lane-turn-gate.ts: turns of the  *)
(* Personal AI on one lane (a conversation's CLI session), each run as a   *)
(* task of its agent's turn queue (TurnQueue). A turn sends its message to *)
(* the lane, learns in which turn of the CLI it was delivered, and takes   *)
(* the result that closes that turn or a later one. A turn whose CLI falls *)
(* silent has stalled: it ends, but its late answer is watched for and the *)
(* lane's gate is shut, and the turns that arrive wait there without the   *)
(* agent's slot.                                                           *)
(*                                                                         *)
(* The CLI is seen as the events it causes show it. A message written      *)
(* while it is in a turn joins that turn, or waits in its pipe and gets    *)
(* the next turn. Somebody else may type into the lane as well. The lane   *)
(* exists from the start.                                                  *)
(***************************************************************************)
EXTENDS TurnQueue

CONSTANTS
  Lane,       \* the turns on this lane; the agent's others are on other lanes
  MaxGen,     \* bound: turns of the CLI
  MaxDeaths   \* bound: deaths of the CLI

ASSUME LaneAssumption == Lane \subseteq Turn /\ MaxGen \in Nat /\ MaxDeaths \in Nat

VARIABLES
  gate,       \* open, shut (a late answer is watched for), or drained
  atGate,     \* the waits at the gate, in the order they were made
  verdict,    \* what the gate told each of them
  mode,       \* `mode' of each turn, and how far it is before it is sent
  told,       \* how its promise was resolved
  answer,     \* the CLI turn whose result it was given, 0 for none
  row,        \* its message in the session's queue
  reported,   \* `delivered': the generation it was reported with, 0 for none
  early,      \* `heldResults': the results that came before that
  cli,        \* the lane's CLI
  inTurn,     \* the messages in its current turn
  pipe,       \* the messages written and not taken yet
  contents,   \* auxiliary: the messages of each turn of the CLI so far
  deaths,
  ungated,    \* auxiliary: turns given up, delivered, with the gate left open
  behind,     \* auxiliary: turns given up with their message (again) in the queue
  loose,      \* auxiliary: messages written while the CLI was in a turn, or lost with it
  line        \* auxiliary: the turns that waited, in the order they came

watch == <<mode, told, answer, reported, early>>
stream == <<row, cli, inTurn, pipe, contents, deaths, loose>>
door == <<gate, verdict>>
givenUp == <<ungated, behind>>
vars == <<qvars, door, atGate, watch, stream, givenUp, line>>

Gens == 0..MaxGen

LTypeOK ==
  /\ TypeOK
  /\ gate \in {"open", "shut", "drain"}
  /\ atGate \in Seq(Wait)
  /\ verdict \in [Wait -> {"none", "free", "busy"}]
  /\ mode \in [Lane -> {"before", "ready", "turn", "late", "done"}]
  /\ told \in [Lane -> {"none", "answered", "died", "stalled", "busy", "unsent"}]
  /\ answer \in [Lane -> Gens] /\ reported \in [Lane -> Gens]
  /\ early \in [Lane -> SUBSET Gens]
  /\ row \in [Lane -> {"none", "queued", "in", "gone"}]
  /\ cli \in {"idle", "running", "dead"}
  /\ inTurn \in SUBSET Lane /\ pipe \in SUBSET Lane
  /\ contents \in Seq(SUBSET Lane) /\ Len(contents) <= MaxGen
  /\ deaths \in Nat
  /\ {ungated, behind, loose} \subseteq SUBSET Lane
  /\ line \in Seq(Lane)

Init ==
  /\ QInit
  /\ gate = "open" /\ atGate = <<>>
  /\ verdict = [w \in Wait |-> "none"]
  /\ mode = [t \in Lane |-> "before"]
  /\ told = [t \in Lane |-> "none"]
  /\ answer = [t \in Lane |-> 0] /\ reported = [t \in Lane |-> 0]
  /\ early = [t \in Lane |-> {}]
  /\ row = [t \in Lane |-> "none"]
  /\ cli = "idle" /\ inTurn = {} /\ pipe = {} /\ contents = <<>> /\ deaths = 0
  /\ ungated = {} /\ behind = {} /\ loose = {} /\ line = <<>>

-----------------------------------------------------------------------------
(* The gate *)

\* The waits at the gate's current window.
Waiting == {w \in Wait : wait[w] = "away" /\ verdict[w] = "none"}

Answer(v) == verdict' = [w \in Wait |-> IF w \in Waiting THEN v ELSE verdict[w]]

\* openLaneGate: every waiter may send.
OpenGate == gate' = "open" /\ Answer("free")

\* The waiters a gate has answered go on before the next event comes in: their
\* promises have settled.
Quiet == \A w \in Wait : wait[w] = "away" => verdict[w] = "none"

\* Mutant: they go on in any order.
GoesOnAny(w) ==
  /\ w \in Wait /\ verdict[w] # "none"
  /\ Retake(w)
  /\ atGate' = SelectSeq(atGate, LAMBDA v : v # w)
  /\ UNCHANGED <<door, watch, stream, givenUp, line>>

\* They go on in the order in which they came to wait.
GoesOn(w) ==
  /\ atGate # <<>> /\ w = Head(atGate) /\ verdict[w] # "none"
  /\ Retake(w)
  /\ atGate' = Tail(atGate)
  /\ UNCHANGED <<door, watch, stream, givenUp, line>>

-----------------------------------------------------------------------------
(* runLaneTurn *)

Queued(A) == A /\ UNCHANGED <<door, atGate, watch, stream, givenUp, line>>

Refused(t) == \E w \in Wait : OwnerOf[w] = t /\ wait[w] = "over" /\ verdict[w] = "busy"

\* Mutant: the gate is not asked again after a wait.
OpenForOnce(t) == gate = "open" \/ \E w \in Wait : OwnerOf[w] = t /\ verdict[w] = "free"

OpenFor(t) == gate = "open"

\* The lane is resolved, or a wait at the gate is over: with the gate open the
\* turn gets ready to send, else it waits, without the agent's slot.
Arrive(t) ==
  /\ flow[t] = "working" /\ mode[t] = "before" /\ ~Refused(t) /\ Quiet
  /\ \/ /\ OpenFor(t)
        /\ mode' = [mode EXCEPT ![t] = "ready"]
        /\ UNCHANGED <<qvars, atGate, line>>
     \/ /\ ~OpenFor(t)
        /\ \E w \in Wait : /\ OwnerOf[w] = t /\ Release(w)
                           /\ atGate' = Append(atGate, w)
                           /\ line' = IF \E v \in Wait : OwnerOf[v] = t /\ wait[v] # "new"
                                        THEN line ELSE Append(line, t)
        /\ UNCHANGED mode
  /\ UNCHANGED <<door, told, answer, reported, early, stream, givenUp>>

\* The promise of a turn is resolved.
Told(t, how) == told' = [told EXCEPT ![t] = how]
Mode(t, to) == mode' = [mode EXCEPT ![t] = to]

\* The CLI did not end its earlier turn even after an interrupt: not sent.
GiveWay(t) ==
  /\ flow[t] = "working" /\ mode[t] = "before" /\ Refused(t)
  /\ Mode(t, "done") /\ Told(t, "busy")
  /\ UNCHANGED <<qvars, door, atGate, answer, reported, early, stream, givenUp, line>>

\* sendMessageToSession: the message is in the session's queue, or is not.
Send(t) ==
  /\ mode[t] = "ready" /\ Quiet
  /\ Mode(t, "turn")
  /\ row' = [row EXCEPT ![t] = "queued"]
  /\ UNCHANGED <<qvars, door, atGate, told, answer, reported, early, cli, inTurn, pipe,
                 contents, deaths, loose, givenUp, line>>

SendFails(t) ==
  /\ mode[t] = "ready" /\ Quiet
  /\ Mode(t, "done") /\ Told(t, "unsent")
  /\ UNCHANGED <<qvars, door, atGate, answer, reported, early, stream, givenUp, line>>

\* The task of a turn on the lane ends with its promise, any other when it likes.
TaskEnds(t) == (t \in Lane => told[t] # "none") /\ Finish(t)

-----------------------------------------------------------------------------
(* The session and its CLI *)

Listening == {t \in Lane : mode[t] \in {"turn", "late"}}

\* What ends the turns of S: each promise that is open is resolved with `how',
\* and a late watch that ends, or a drain that saw the CLI's turn end, opens
\* the gate.
Settle(S, how, drained) ==
  /\ mode' = [t \in Lane |-> IF t \in S THEN "done" ELSE mode[t]]
  /\ told' = [t \in Lane |-> IF t \in S /\ mode[t] = "turn" THEN how ELSE told[t]]
  /\ IF drained \/ \E t \in S : mode[t] = "late" THEN OpenGate ELSE UNCHANGED door

\* Mutant: the first result after the send is the answer.
IsOursAny(t, k) == TRUE

\* isOurs: a result of the generation the message was delivered in, or later.
IsOurs(t, k) == reported[t] # 0 /\ k >= reported[t]

Turns(n) == Len(contents) + n <= MaxGen

NewTurn(D) == cli' = "running" /\ inTurn' = D /\ contents' = Append(contents, D)

Join(D) ==
  /\ inTurn' = inTurn \cup D
  /\ contents' = [contents EXCEPT ![Len(contents)] = @ \cup D]
  /\ UNCHANGED cli

\* A session's deliveries are made one after another, each up to its report.
Delivering == \E t \in Lane : mode[t] = "turn" /\ row[t] \in {"in", "gone"} /\ reported[t] = 0

InQueue == {t \in Lane : row[t] = "queued"}

\* The queue's rows are delivered: to an idle CLI, or one resumed for it, as a
\* new turn; to one that is in a turn, joining it or waiting in its pipe.
Write ==
  /\ InQueue # {} /\ ~Delivering /\ Quiet
  /\ row' = [t \in Lane |-> IF t \in InQueue THEN "in" ELSE row[t]]
  /\ \/ /\ cli # "running" /\ Turns(1)
        /\ NewTurn(InQueue)
        /\ UNCHANGED <<pipe, loose>>
     \/ /\ cli = "running"
        /\ loose' = loose \cup InQueue
        /\ \/ Join(InQueue) /\ UNCHANGED pipe
           \/ pipe' = pipe \cup InQueue /\ UNCHANGED <<cli, inTurn, contents>>
  /\ UNCHANGED <<qvars, door, atGate, watch, deaths, givenUp, line>>

\* The CLI takes what is in its pipe into its turn.
TakeUp ==
  /\ pipe # {} /\ Quiet
  /\ Join(pipe) /\ pipe' = {}
  /\ UNCHANGED <<qvars, door, atGate, watch, row, deaths, loose, givenUp, line>>

\* Somebody types into the lane.
Outside ==
  /\ cli # "running" /\ Turns(1) /\ Quiet /\ InQueue = {} /\ ~Delivering
  /\ NewTurn({})
  /\ UNCHANGED <<qvars, door, atGate, watch, row, pipe, deaths, loose, givenUp, line>>

\* session:messages-delivered: the turn takes the generation of this moment,
\* and a result it had held back that closed it.
Report(t) ==
  /\ mode[t] = "turn" /\ row[t] \in {"in", "gone"} /\ reported[t] = 0 /\ Quiet
  /\ LET k == Len(contents)
     IN /\ reported' = [reported EXCEPT ![t] = k]
        /\ IF k \in early[t]
             THEN Settle({t}, "answered", FALSE) /\ answer' = [answer EXCEPT ![t] = k]
             ELSE UNCHANGED <<door, mode, told, answer>>
  /\ UNCHANGED <<qvars, atGate, early, stream, givenUp, line>>

\* session:result: the CLI's turn is over. With something in its pipe it goes
\* on with a turn for that.
Result ==
  /\ cli = "running" /\ Quiet
  /\ LET k == Len(contents)
         takes == {t \in Listening : IsOurs(t, k)}
     IN /\ Settle(takes, "answered", gate = "drain")
        /\ answer' = [t \in Lane |-> IF t \in takes THEN k ELSE answer[t]]
        /\ early' = [t \in Lane |-> IF t \in Listening /\ reported[t] = 0
                                      THEN early[t] \cup {k} ELSE early[t]]
  /\ row' = [t \in Lane |-> IF t \in inTurn THEN "gone" ELSE row[t]]
  /\ IF pipe # {} THEN Turns(1) /\ NewTurn(pipe) /\ pipe' = {}
     ELSE cli' = "idle" /\ inTurn' = {} /\ UNCHANGED <<pipe, contents>>
  /\ UNCHANGED <<qvars, atGate, reported, deaths, loose, givenUp, line>>

\* The turns that are over now and whose message is in the queue.
LeftBehind == behind' = behind \cup {t \in Lane : mode'[t] = "done" /\ row'[t] = "queued"}

\* The CLI dies. What it had not answered goes back to the queue or does not.
\* session:error says so, or nothing does.
Die ==
  /\ cli # "dead" /\ deaths < MaxDeaths /\ Quiet
  /\ deaths' = deaths + 1
  /\ cli' = "dead" /\ inTurn' = {} /\ pipe' = {}
  /\ \E back \in SUBSET (inTurn \cup pipe) :
       /\ row' = [t \in Lane |-> IF t \in back THEN "queued"
                                 ELSE IF t \in inTurn \cup pipe THEN "gone" ELSE row[t]]
       /\ loose' = loose \cup ((inTurn \cup pipe) \ back)
  /\ \/ cli = "running" /\ Settle(Listening, "died", gate = "drain")
     \/ UNCHANGED <<mode, told, door>>
  /\ LeftBehind
  /\ UNCHANGED <<qvars, atGate, answer, reported, early, contents, ungated, line>>

-----------------------------------------------------------------------------
(* Silence *)

\* After a minute of it the record is asked: the CLI is dead.
DeadSeen(t) ==
  /\ t \in Listening /\ cli = "dead" /\ Quiet
  /\ Settle({t}, "died", FALSE)
  /\ UNCHANGED stream /\ LeftBehind
  /\ UNCHANGED <<qvars, atGate, answer, reported, early, ungated, line>>

\* A report comes well before a turn has been silent for a stall.
Silent(t) == mode[t] = "turn" /\ (row[t] = "in" => reported[t] # 0) /\ Quiet

\* closeLaneGate.
Shut == gate' = (IF gate = "open" THEN "shut" ELSE gate) /\ UNCHANGED verdict

\* A stall, and the record reads running: the late answer is watched for.
Stall(t) ==
  /\ Silent(t) /\ reported[t] # 0 /\ cli = "running"
  /\ Mode(t, "late") /\ Told(t, "stalled")
  /\ Shut
  /\ UNCHANGED <<qvars, atGate, answer, reported, early, stream, givenUp, line>>

\* A stall, and the record does not read running: it could not be read, its
\* host cannot be reached, or it is idle.
StallUnread(t) ==
  /\ Silent(t) /\ reported[t] # 0
  /\ Mode(t, "done") /\ Told(t, "stalled")
  /\ ungated' = ungated \cup {t}
  /\ UNCHANGED stream /\ LeftBehind
  /\ UNCHANGED <<qvars, door, atGate, answer, reported, early, line>>

\* A stall, and the message was not delivered: it stays in the queue.
StallUndelivered(t) ==
  /\ Silent(t) /\ reported[t] = 0
  /\ Mode(t, "done") /\ Told(t, "stalled")
  /\ UNCHANGED stream /\ LeftBehind
  /\ UNCHANGED <<qvars, door, atGate, answer, reported, early, ungated, line>>

\* Mutant: giving up on the late answer opens the gate.
DrainNever(t) == OpenGate

\* drainLaneGate.
Drain(t) == gate' = "drain" /\ UNCHANGED verdict

\* Silent again, or late for an hour: the answer is not waited for any more.
\* A record that reads idle opens the gate, else the CLI is interrupted.
LateOver(t) ==
  /\ mode[t] = "late" /\ Quiet
  /\ Mode(t, "done")
  /\ \/ cli = "idle" /\ OpenGate
     \/ Drain(t)
  /\ UNCHANGED stream /\ LeftBehind
  /\ UNCHANGED <<qvars, atGate, told, answer, reported, early, ungated, line>>

\* A tick of the drain: the CLI's turn is over.
DrainEnds ==
  /\ gate = "drain" /\ cli # "running" /\ Quiet
  /\ OpenGate
  /\ UNCHANGED <<qvars, atGate, watch, stream, givenUp, line>>

\* Mutant: the waiters of a window are told the lane is free.
RefuseNone == Answer("free")

Refuse == Answer("busy")

\* It is not, for a window: those who wait are refused.
DrainGoesOn ==
  /\ gate = "drain" /\ Quiet /\ Waiting # {}
  /\ Refuse
  /\ UNCHANGED <<qvars, gate, atGate, watch, stream, givenUp, line>>

-----------------------------------------------------------------------------

OnQueue(t) == Enqueue(t) \/ Begin(t) \/ GoOn(t) \/ TaskEnds(t)

TurnStep(t) == Arrive(t) \/ GiveWay(t) \/ Send(t) \/ SendFails(t)
Tick(t) == DeadSeen(t) \/ Stall(t) \/ StallUnread(t) \/ StallUndelivered(t) \/ LateOver(t)

Next ==
  \/ \E t \in Turn : Queued(OnQueue(t))
  \/ \E w \in Wait : Queued(Resume(w)) \/ GoesOn(w)
  \/ \E t \in Lane : TurnStep(t) \/ Tick(t) \/ Report(t)
  \/ Write \/ TakeUp \/ Outside \/ Result \/ Die \/ DrainEnds \/ DrainGoesOn

Spec == Init /\ [][Next]_vars

\* The flow of a turn goes on, a report arrives, and the ticks find a silence:
\* a CLI that neither ends its turn nor falls silent is left out. The CLI
\* itself owes nothing, nor does the host its message is for.
Fairness ==
  /\ \A t \in Turn : WF_vars(Queued(Begin(t) \/ GoOn(t) \/ TaskEnds(t)))
  /\ \A w \in Wait : WF_vars(Queued(Resume(w))) /\ WF_vars(GoesOn(w))
  /\ \A t \in Lane : WF_vars(TurnStep(t)) /\ WF_vars(Tick(t)) /\ WF_vars(Report(t))
  /\ WF_vars(DrainEnds) /\ WF_vars(DrainGoesOn)

FairSpec == Spec /\ Fairness

-----------------------------------------------------------------------------
(* Properties *)

\* No result of the CLI is given to two turns as their answer (the glued
\* answer of lane-turn.ts's header): a turn that stalled may still take one
\* late, when the turns behind it are at work.
OneAnswerEach ==
  \A t, u \in Lane : answer[t] = answer[u] /\ answer[t] # 0 => t = u

\* What a turn is given closes a turn of the CLI that had its message, unless
\* the message was written while the CLI was in somebody else's turn, or was
\* lost with a CLI whose death nothing reported.
AnswersItsOwn ==
  \A t \in Lane : answer[t] # 0 => t \in contents[answer[t]] \/ t \in loose

WaitedAgain(t) ==
  \E v, w \in Wait : /\ v # w /\ OwnerOf[v] = t /\ OwnerOf[w] = t
                    /\ wait[v] # "new" /\ wait[w] # "new"

\* The turns that waited at the gate are sent in the order they came to it: of
\* two, the later is not sent before the earlier is sent or given up. Only a turn
\* that has to wait a second time, the gate being shut again while it came back
\* for its slot, may be passed by those that waited once.
InLine ==
  \A i, j \in 1..Len(line) :
    i < j /\ row[line[j]] # "none" =>
      row[line[i]] # "none" \/ told[line[i]] # "none" \/ WaitedAgain(line[i])

Joins(t) == row[t] = "queued" /\ row'[t] = "in" /\ mode[t] = "turn" /\ cli = "running"

\* A turn is not written into a turn of the CLI that is an earlier turn's, but
\* for one that was given up with the gate open or its message still queued
\* (`the gate opens only when the earlier turn has provably ended'), and one
\* whose message had itself met somebody else's turn, whose result was then
\* taken for its own.
WaitsForItsTurn ==
  [][\A t \in Lane : Joins(t) =>
       (inTurn \cup pipe) \ {t} \subseteq ungated \cup behind \cup loose]_vars

\* The same without the exception for a turn given up with the gate open, as
\* the gate's comment has it (lane-turn-gate.ts:12, 26).
NeverIntoATurn ==
  [][\A t \in Lane : Joins(t) => (inTurn \cup pipe) \ {t} \subseteq behind \cup loose]_vars
=============================================================================
