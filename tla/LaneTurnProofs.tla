--------------------------- MODULE LaneTurnProofs ---------------------------
(***************************************************************************)
(* Turns on one lane, for any turns, waits, turns of the CLI and deaths:   *)
(* the lane uses the agent's queue as TurnQueue has it, no result answers  *)
(* two turns and each is of a turn of the CLI that had the message, no     *)
(* turn is written into an earlier one's, and turns go in line.            *)
(*                                                                         *)
(* The invariant joins three facts to that of the queue. AtOne: a turn on  *)
(* its way to the CLI is at work with the gate open, and one whose late    *)
(* answer is watched for has it shut, so one turn at most listens. Past:   *)
(* results held back or given are of turns of the CLI that are over.       *)
(* Streaming: whose message is with the CLI still listens, unless the gate *)
(* is drained or it was given up in a way the property excepts. Closing,   *)
(* further down, follows a message to the result that ends its turn, and   *)
(* Lining the order of two waits from the gate to the slot.                *)
(***************************************************************************)
EXTENDS LaneTurn, TurnQueueProofs

Busy(t) == mode[t] \in {"ready", "turn"}

Resulted(k) == k < Len(contents) \/ (k = Len(contents) /\ cli # "running")

AtOne ==
  /\ \A t \in Lane : Busy(t) => gate = "open" /\ flow[t] = "working"
  /\ \A t \in Lane : mode[t] \in {"before", "ready", "turn"} => told[t] = "none"
  /\ \A t \in Lane : mode[t] = "late" => gate = "shut"
  /\ \A t, u \in Lane : mode[t] = "late" /\ mode[u] = "late" => t = u

Past ==
  /\ \A t \in Lane : answer[t] # 0 => Resulted(answer[t])
  /\ \A t \in Lane : \A k \in early[t] : Resulted(k)
  /\ \A t, u \in Lane : t # u /\ answer[t] # 0 => answer[t] # answer[u] /\ answer[t] \notin early[u]
  /\ \A t, u \in Lane : t # u => early[t] \cap early[u] = {}

Excepted == ungated \cup behind \cup loose

Streaming ==
  /\ cli # "running" => inTurn = {} /\ pipe = {}
  /\ pipe \subseteq loose /\ inTurn \cap pipe = {}
  /\ \A t \in inTurn \cup pipe : row[t] = "in"
  /\ \A t \in Lane : row[t] # "none" => mode[t] \in {"turn", "late", "done"}
  /\ \A t \in Lane : row[t] = "queued" /\ mode[t] = "done" => t \in behind
  /\ \A t \in Lane : row[t] = "queued" /\ reported[t] # 0 => cli # "running"
  /\ \A t \in Lane : row[t] = "none" => reported[t] = 0
  /\ \A t \in inTurn \cup pipe :
       t \in Excepted \/ mode[t] \in {"turn", "late"} \/ gate = "drain"

LInv == IInv /\ LTypeOK /\ AtOne /\ Past /\ Streaming

-----------------------------------------------------------------------------
(* The queue *)

LEMMA InitUses == Init => QInit
PROOF
<1> QED BY DEF Init

\* Every step of a lane is one of the queue, or leaves it alone.
LEMMA StepUses == [Next]_vars => [QNext]_qvars
PROOF
<1> SUFFICES ASSUME [Next]_vars PROVE [QNext]_qvars
  OBVIOUS
<1>1. ASSUME NEW t \in Turn, Queued(OnQueue(t))  PROVE QNext
  BY <1>1 DEF Queued, OnQueue, TaskEnds, QNext
<1>2. ASSUME NEW w \in Wait, Queued(Resume(w)) \/ GoesOn(w)  PROVE QNext
  BY <1>2 DEF Queued, GoesOn, QNext
<1>3. ASSUME NEW t \in Lane, Arrive(t)  PROVE [QNext]_qvars
  BY <1>3 DEF Arrive, QNext
<1>4. ASSUME NEW t \in Lane, GiveWay(t) \/ Send(t) \/ SendFails(t) \/ Tick(t) \/ Report(t)
      PROVE  UNCHANGED qvars
  BY <1>4 DEF GiveWay, Send, SendFails, Tick, Report, DeadSeen, Stall, StallUnread,
              StallUndelivered, LateOver
<1>5. CASE Write \/ TakeUp \/ Outside \/ Result \/ Die \/ DrainEnds \/ DrainGoesOn
  BY <1>5 DEF Write, TakeUp, Outside, Result, Die, DrainEnds, DrainGoesOn
<1>6. CASE UNCHANGED vars
  BY <1>6 DEF vars
<1> QED BY <1>1, <1>2, <1>3, <1>4, <1>5, <1>6 DEF Next, TurnStep

\* The lane's behaviours are the queue's, as far as the queue's variables go.
THEOREM UsesTheQueue == Spec => QSpec
PROOF
<1> QED BY InitUses, StepUses, PTL DEF Spec, QSpec

\* So on a lane too an agent works on one turn at a time.
THEOREM LaneWorksOneAtATime == Spec => []OneAtATime
PROOF
<1> QED BY UsesTheQueue, WorksOneAtATime

LEMMA OneWorks ==
  ASSUME IInv
  PROVE  \A t, u \in Turn : flow[t] = "working" /\ flow[u] = "working" => t = u
PROOF
<1> QED BY DEF IInv, Fits, Flowing, OneSlot

-----------------------------------------------------------------------------
(* Types *)

LEMMA AnswerTyped ==
  ASSUME LTypeOK, NEW v \in {"free", "busy"}, Answer(v)
  PROVE  verdict' \in [Wait -> {"none", "free", "busy"}]
PROOF
<1> QED BY DEF LTypeOK, Answer

LEMMA SettleTyped ==
  ASSUME LTypeOK, NEW S, NEW how \in {"answered", "died"}, NEW d, Settle(S, how, d)
  PROVE  /\ gate' \in {"open", "shut", "drain"}
         /\ verdict' \in [Wait -> {"none", "free", "busy"}]
         /\ mode' \in [Lane -> {"before", "ready", "turn", "late", "done"}]
         /\ told' \in [Lane -> {"none", "answered", "died", "stalled", "busy", "unsent"}]
PROOF
<1>1. gate' \in {"open", "shut", "drain"} /\ verdict' \in [Wait -> {"none", "free", "busy"}]
  BY AnswerTyped DEF LTypeOK, Settle, OpenGate, door
<1>2. mode' \in [Lane -> {"before", "ready", "turn", "late", "done"}]
  BY DEF LTypeOK, Settle
<1>3. told' \in [Lane -> {"none", "answered", "died", "stalled", "busy", "unsent"}]
  BY DEF LTypeOK, Settle
<1> QED BY <1>1, <1>2, <1>3

\* A new turn of the CLI, or more in the one it has, is within the bound.
LEMMA NewTurnTyped ==
  ASSUME LTypeOK, NEW D \in SUBSET Lane, Turns(1), NewTurn(D)
  PROVE  /\ cli' = "running" /\ inTurn' = D
         /\ contents' \in Seq(SUBSET Lane) /\ Len(contents') <= MaxGen
         /\ Len(contents') = Len(contents) + 1
PROOF
<1>1. contents \in Seq(SUBSET Lane) /\ MaxGen \in Nat /\ Len(contents) + 1 <= MaxGen
  BY LaneAssumption DEF LTypeOK, Turns
<1>2. /\ Append(contents, D) \in Seq(SUBSET Lane)
      /\ Len(Append(contents, D)) = Len(contents) + 1
  BY <1>1, AppendProperties
<1> QED BY <1>1, <1>2 DEF NewTurn

LEMMA JoinTyped ==
  ASSUME LTypeOK, NEW D \in SUBSET Lane, Join(D)
  PROVE  /\ inTurn' \in SUBSET Lane /\ inTurn' = inTurn \cup D /\ cli' = cli
         /\ contents' \in Seq(SUBSET Lane) /\ Len(contents') = Len(contents)
PROOF
<1>1. contents \in Seq(SUBSET Lane) /\ inTurn \in SUBSET Lane
  BY DEF LTypeOK
<1>2. Len(contents) \in Nat /\ contents \in [1..Len(contents) -> SUBSET Lane]
  BY <1>1, LenProperties
<1>3. [contents EXCEPT ![Len(contents)] = @ \cup D] \in [1..Len(contents) -> SUBSET Lane]
  BY <1>2
<1>4. contents' \in [1..Len(contents) -> SUBSET Lane]
  BY <1>3 DEF Join
<1>5. contents' \in Seq(SUBSET Lane) /\ Len(contents') = Len(contents)
  BY <1>2, <1>4
<1> QED BY <1>1, <1>5 DEF Join

LEMMA Lengths ==
  ASSUME LTypeOK
  PROVE  Len(contents) \in Nat /\ Len(contents) \in Gens /\ Gens \subseteq Nat
PROOF
<1>1. contents \in Seq(SUBSET Lane) /\ Len(contents) <= MaxGen /\ MaxGen \in Nat
  BY LaneAssumption DEF LTypeOK
<1>2. Len(contents) \in Nat
  BY <1>1, LenProperties
<1> QED BY <1>1, <1>2 DEF Gens

LEMMA QueueTyped == IInv' => TypeOK'
PROOF
<1> QED BY DEF IInv, Fits, Typed, TypeOK

\* What a step leaves alone keeps its type; the rest is shown for it.
LEMMA StreamTyped ==
  ASSUME LTypeOK, UNCHANGED stream
  PROVE  /\ row' \in [Lane -> {"none", "queued", "in", "gone"}]
         /\ cli' \in {"idle", "running", "dead"}
         /\ inTurn' \in SUBSET Lane /\ pipe' \in SUBSET Lane
         /\ contents' \in Seq(SUBSET Lane) /\ Len(contents') <= MaxGen
         /\ deaths' \in Nat /\ loose' \in SUBSET Lane
PROOF
<1> QED BY DEF LTypeOK, stream

LEMMA WatchTyped ==
  ASSUME LTypeOK, NEW t \in Lane,
         NEW to \in {"before", "ready", "turn", "late", "done"}, Mode(t, to),
         \/ UNCHANGED told
         \/ \E how \in {"none", "answered", "died", "stalled", "busy", "unsent"} : Told(t, how)
  PROVE  /\ mode' \in [Lane -> {"before", "ready", "turn", "late", "done"}]
         /\ told' \in [Lane -> {"none", "answered", "died", "stalled", "busy", "unsent"}]
PROOF
<1> QED BY DEF LTypeOK, Mode, Told

LEMMA QueueStepTyped ==
  ASSUME LTypeOK, TypeOK',
         \/ \E t \in Turn : Queued(OnQueue(t))
         \/ \E w \in Wait : Queued(Resume(w)) \/ GoesOn(w)
  PROVE  LTypeOK'
PROOF
<1>1. atGate' \in Seq(Wait)
  <2>1. CASE atGate' = atGate
    BY <2>1 DEF LTypeOK
  <2>2. CASE atGate # <<>> /\ atGate' = Tail(atGate)
    BY <2>2, InTail DEF LTypeOK
  <2> QED BY <2>1, <2>2 DEF Queued, GoesOn
<1>2. UNCHANGED <<door, watch, stream, givenUp, line>>
  BY DEF Queued, GoesOn
<1> QED BY <1>1, <1>2 DEF LTypeOK, door, watch, stream, givenUp

LEMMA TurnStepTyped ==
  ASSUME LTypeOK, TypeOK', NEW t \in Lane, TurnStep(t)
  PROVE  LTypeOK'
PROOF
<1>1. CASE Arrive(t)
  <2>1. mode' \in [Lane -> {"before", "ready", "turn", "late", "done"}]
    BY <1>1 DEF Arrive, LTypeOK
  <2>2. atGate' \in Seq(Wait)
    <3>1. \A w \in Wait : Append(atGate, w) \in Seq(Wait)
      BY InAppend DEF LTypeOK
    <3> QED BY <1>1, <3>1 DEF Arrive, LTypeOK
  <2>3. line' \in Seq(Lane)
    <3>1. Append(line, t) \in Seq(Lane)
      BY InAppend DEF LTypeOK
    <3> QED BY <1>1, <3>1 DEF Arrive, LTypeOK
  <2>4. UNCHANGED <<door, told, answer, reported, early, stream, givenUp>>
    BY <1>1 DEF Arrive
  <2> QED BY <2>1, <2>2, <2>3, <2>4 DEF LTypeOK, door, stream, givenUp
<1>2. CASE GiveWay(t) \/ SendFails(t)
  <2>1. /\ mode' \in [Lane -> {"before", "ready", "turn", "late", "done"}]
        /\ told' \in [Lane -> {"none", "answered", "died", "stalled", "busy", "unsent"}]
    BY <1>2, WatchTyped DEF GiveWay, SendFails
  <2>2. UNCHANGED <<door, atGate, answer, reported, early, stream, givenUp, line>>
    BY <1>2 DEF GiveWay, SendFails
  <2> QED BY <2>1, <2>2 DEF LTypeOK, door, stream, givenUp
<1>3. CASE Send(t)
  <2>1. mode' \in [Lane -> {"before", "ready", "turn", "late", "done"}]
    BY <1>3, WatchTyped DEF Send
  <2>2. row' \in [Lane -> {"none", "queued", "in", "gone"}]
    BY <1>3 DEF Send, LTypeOK
  <2>3. UNCHANGED <<door, atGate, told, answer, reported, early, cli, inTurn, pipe,
                    contents, deaths, loose, givenUp, line>>
    BY <1>3 DEF Send
  <2> QED BY <2>1, <2>2, <2>3 DEF LTypeOK, door, givenUp
<1> QED BY <1>1, <1>2, <1>3 DEF TurnStep

LEMMA TickTyped ==
  ASSUME LTypeOK, TypeOK', NEW t \in Lane, Tick(t)
  PROVE  LTypeOK'
PROOF
<1>1. UNCHANGED <<atGate, answer, reported, early, stream, line>>
  BY DEF Tick, DeadSeen, Stall, StallUnread, StallUndelivered, LateOver
<1>2. behind' \in SUBSET Lane /\ ungated' \in SUBSET Lane
  BY DEF Tick, DeadSeen, Stall, StallUnread, StallUndelivered, LateOver, LeftBehind, LTypeOK,
         givenUp
<1>3. /\ mode' \in [Lane -> {"before", "ready", "turn", "late", "done"}]
      /\ told' \in [Lane -> {"none", "answered", "died", "stalled", "busy", "unsent"}]
  <2>1. CASE DeadSeen(t)
    BY <2>1, SettleTyped DEF DeadSeen
  <2>2. CASE Stall(t) \/ StallUnread(t) \/ StallUndelivered(t) \/ LateOver(t)
    BY <2>2, WatchTyped DEF Stall, StallUnread, StallUndelivered, LateOver
  <2> QED BY <2>1, <2>2 DEF Tick
<1>4. gate' \in {"open", "shut", "drain"} /\ verdict' \in [Wait -> {"none", "free", "busy"}]
  <2>1. CASE DeadSeen(t)
    BY <2>1, SettleTyped DEF DeadSeen
  <2>2. CASE Stall(t)
    BY <2>2 DEF Stall, Shut, LTypeOK
  <2>3. CASE StallUnread(t) \/ StallUndelivered(t)
    BY <2>3 DEF StallUnread, StallUndelivered, LTypeOK, door
  <2>4. CASE LateOver(t)
    BY <2>4, AnswerTyped DEF LateOver, OpenGate, Drain, LTypeOK
  <2> QED BY <2>1, <2>2, <2>3, <2>4 DEF Tick
<1>5. /\ row' \in [Lane -> {"none", "queued", "in", "gone"}]
      /\ cli' \in {"idle", "running", "dead"}
      /\ inTurn' \in SUBSET Lane /\ pipe' \in SUBSET Lane
      /\ contents' \in Seq(SUBSET Lane) /\ Len(contents') <= MaxGen
      /\ deaths' \in Nat /\ loose' \in SUBSET Lane
  BY <1>1, StreamTyped
<1> QED BY <1>1, <1>2, <1>3, <1>4, <1>5 DEF LTypeOK

LEMMA WriteTyped ==
  ASSUME LTypeOK, TypeOK', Write \/ TakeUp \/ Outside
  PROVE  LTypeOK'
PROOF
<1>1. UNCHANGED <<door, atGate, watch, deaths, givenUp, line>>
  BY DEF Write, TakeUp, Outside
<1>2. row' \in [Lane -> {"none", "queued", "in", "gone"}] /\ loose' \in SUBSET Lane
  BY DEF Write, TakeUp, Outside, LTypeOK, InQueue
<1>3. /\ cli' \in {"idle", "running", "dead"}
      /\ inTurn' \in SUBSET Lane /\ pipe' \in SUBSET Lane
      /\ contents' \in Seq(SUBSET Lane) /\ Len(contents') <= MaxGen
  <2>1. InQueue \in SUBSET Lane /\ {} \in SUBSET Lane /\ pipe \in SUBSET Lane
    BY DEF InQueue, LTypeOK
  <2>2. CASE Write
    <3>1. CASE Turns(1) /\ NewTurn(InQueue) /\ UNCHANGED pipe
      BY <2>1, <3>1, NewTurnTyped DEF LTypeOK
    <3>2. CASE Join(InQueue) /\ UNCHANGED pipe
      BY <2>1, <3>2, JoinTyped DEF LTypeOK
    <3>3. CASE pipe' = pipe \cup InQueue /\ UNCHANGED <<cli, inTurn, contents>>
      BY <2>1, <3>3 DEF LTypeOK
    <3> QED BY <2>2, <3>1, <3>2, <3>3 DEF Write
  <2>3. CASE TakeUp
    BY <2>1, <2>3, JoinTyped DEF TakeUp, LTypeOK
  <2>4. CASE Outside
    BY <2>1, <2>4, NewTurnTyped DEF Outside, LTypeOK
  <2> QED BY <2>2, <2>3, <2>4
<1> QED BY <1>1, <1>2, <1>3 DEF LTypeOK, door, watch, givenUp

LEMMA ReportTyped ==
  ASSUME LTypeOK, TypeOK', NEW t \in Lane, Report(t)
  PROVE  LTypeOK'
PROOF
<1>1. UNCHANGED <<atGate, early, stream, givenUp, line>>
  BY DEF Report
<1>2. reported' \in [Lane -> Gens] /\ answer' \in [Lane -> Gens]
  BY Lengths DEF Report, LTypeOK
<1>3. /\ gate' \in {"open", "shut", "drain"}
      /\ verdict' \in [Wait -> {"none", "free", "busy"}]
      /\ mode' \in [Lane -> {"before", "ready", "turn", "late", "done"}]
      /\ told' \in [Lane -> {"none", "answered", "died", "stalled", "busy", "unsent"}]
  <2>1. CASE Settle({t}, "answered", FALSE)
    BY <2>1, SettleTyped
  <2>2. CASE UNCHANGED <<door, mode, told>>
    BY <2>2 DEF LTypeOK, door
  <2> QED BY <2>1, <2>2 DEF Report
<1> QED BY <1>1, <1>2, <1>3 DEF LTypeOK, stream, givenUp

LEMMA ResultTyped ==
  ASSUME LTypeOK, TypeOK', Result
  PROVE  LTypeOK'
PROOF
<1>. DEFINE k == Len(contents)
            takes == {t \in Listening : IsOurs(t, k)}
<1>1. UNCHANGED <<atGate, reported, deaths, loose, givenUp, line>>
  BY DEF Result
<1>2. /\ Settle(takes, "answered", gate = "drain")
      /\ answer' = [t \in Lane |-> IF t \in takes THEN k ELSE answer[t]]
      /\ early' = [t \in Lane |-> IF t \in Listening /\ reported[t] = 0
                                    THEN early[t] \cup {k} ELSE early[t]]
  BY DEF Result
<1>3. k \in Gens
  BY Lengths
<1>4. answer' \in [Lane -> Gens]
  BY <1>2, <1>3 DEF LTypeOK
<1>5. early' \in [Lane -> SUBSET Gens]
  BY <1>2, <1>3 DEF LTypeOK
<1>6. row' \in [Lane -> {"none", "queued", "in", "gone"}]
  BY DEF Result, LTypeOK
<1>7. /\ cli' \in {"idle", "running", "dead"}
      /\ inTurn' \in SUBSET Lane /\ pipe' \in SUBSET Lane
      /\ contents' \in Seq(SUBSET Lane) /\ Len(contents') <= MaxGen
  <2>1. CASE Turns(1) /\ NewTurn(pipe) /\ pipe' = {}
    BY <2>1, NewTurnTyped DEF LTypeOK
  <2>2. CASE cli' = "idle" /\ inTurn' = {} /\ UNCHANGED <<pipe, contents>>
    BY <2>2 DEF LTypeOK
  <2> QED BY <2>1, <2>2 DEF Result
<1>8. /\ gate' \in {"open", "shut", "drain"}
      /\ verdict' \in [Wait -> {"none", "free", "busy"}]
      /\ mode' \in [Lane -> {"before", "ready", "turn", "late", "done"}]
      /\ told' \in [Lane -> {"none", "answered", "died", "stalled", "busy", "unsent"}]
  BY <1>2, SettleTyped
<1> QED BY <1>1, <1>4, <1>5, <1>6, <1>7, <1>8 DEF LTypeOK, givenUp

LEMMA DieTyped ==
  ASSUME LTypeOK, TypeOK', Die
  PROVE  LTypeOK'
PROOF
<1>1. UNCHANGED <<atGate, answer, reported, early, contents, ungated, line>>
  BY DEF Die
<1>2. behind' \in SUBSET Lane
  BY DEF Die, LeftBehind, LTypeOK
<1>3. /\ row' \in [Lane -> {"none", "queued", "in", "gone"}] /\ loose' \in SUBSET Lane
      /\ cli' = "dead" /\ inTurn' = {} /\ pipe' = {} /\ deaths' \in Nat
  BY DEF Die, LTypeOK
<1>4. /\ gate' \in {"open", "shut", "drain"}
      /\ verdict' \in [Wait -> {"none", "free", "busy"}]
      /\ mode' \in [Lane -> {"before", "ready", "turn", "late", "done"}]
      /\ told' \in [Lane -> {"none", "answered", "died", "stalled", "busy", "unsent"}]
  <2>1. CASE Settle(Listening, "died", gate = "drain")
    BY <2>1, SettleTyped
  <2>2. CASE UNCHANGED <<mode, told, door>>
    BY <2>2 DEF LTypeOK, door
  <2> QED BY <2>1, <2>2 DEF Die
<1> QED BY <1>1, <1>2, <1>3, <1>4 DEF LTypeOK

LEMMA DrainTyped ==
  ASSUME LTypeOK, TypeOK', DrainEnds \/ DrainGoesOn
  PROVE  LTypeOK'
PROOF
<1>1. UNCHANGED <<atGate, watch, stream, givenUp, line>>
  BY DEF DrainEnds, DrainGoesOn
<1>2. gate' \in {"open", "shut", "drain"} /\ verdict' \in [Wait -> {"none", "free", "busy"}]
  BY AnswerTyped DEF DrainEnds, DrainGoesOn, OpenGate, Refuse, LTypeOK
<1> QED BY <1>1, <1>2 DEF LTypeOK, watch, stream, givenUp

LEMMA StepTyped ==
  ASSUME LTypeOK, TypeOK', [Next]_vars
  PROVE  LTypeOK'
PROOF
<1>1. CASE UNCHANGED vars
  BY <1>1 DEF LTypeOK, vars, door, watch, stream, givenUp
<1> QED BY <1>1, QueueStepTyped, TurnStepTyped, TickTyped, WriteTyped, ReportTyped, ResultTyped,
           DieTyped, DrainTyped DEF Next

-----------------------------------------------------------------------------
(* One turn at a time listens. *)

\* A turn's flow leaves its work only when it waits or its promise is resolved.
LEMMA QueueAtOne ==
  ASSUME LInv, UNCHANGED <<gate, mode, told>>,
         \/ \E t \in Turn : Queued(OnQueue(t))
         \/ \E w \in Wait : Queued(Resume(w)) \/ GoesOn(w)
  PROVE  AtOne'
PROOF
<1>1. AtOne /\ flow \in [Turn -> {"new", "queued", "working", "waiting", "over"}]
  BY DEF LInv, LTypeOK, TypeOK
<1>2. ASSUME NEW t \in Lane, Busy(t)  PROVE flow'[t] = "working"
  <2>1. t \in Turn /\ flow[t] = "working" /\ told[t] = "none"
    BY <1>1, <1>2, LaneAssumption DEF AtOne, Busy
  <2>2. ASSUME NEW u \in Turn, OnQueue(u)  PROVE flow'[t] = "working"
    <3>1. CASE Enqueue(u)
      BY <1>1, <2>1, <3>1 DEF Enqueue, Goto
    <3>2. CASE Begin(u) \/ GoOn(u)
      BY <1>1, <2>1, <3>2 DEF Begin, GoOn, Goto
    <3>3. CASE TaskEnds(u)
      <4>1. u # t
        BY <2>1, <3>3 DEF TaskEnds
      <4> QED BY <1>1, <2>1, <3>3, <4>1 DEF TaskEnds, Finish, End, Goto
    <3> QED BY <2>2, <3>1, <3>2, <3>3 DEF OnQueue
  <2>3. ASSUME NEW w \in Wait, Resume(w) \/ Retake(w)  PROVE flow'[t] = "working"
    BY <2>1, <2>3 DEF Resume, Retake
  <2> QED BY <2>2, <2>3 DEF Queued, GoesOn
<1> QED BY <1>1, <1>2 DEF AtOne, Busy

\* At work on the lane is one turn only, so nobody else is on its way to it.
LEMMA OneBusy ==
  ASSUME LInv
  PROVE  \A t, u \in Lane : Busy(t) /\ flow[u] = "working" => t = u
PROOF
<1> QED BY OneWorks, LaneAssumption DEF LInv, AtOne

LEMMA ArriveAtOne ==
  ASSUME LInv, NEW t \in Lane, Arrive(t)
  PROVE  AtOne'
PROOF
<1>1. /\ AtOne /\ flow \in [Turn -> {"new", "queued", "working", "waiting", "over"}]
      /\ mode \in [Lane -> {"before", "ready", "turn", "late", "done"}]
      /\ flow[t] = "working" /\ mode[t] = "before" /\ t \in Turn
  BY LaneAssumption DEF LInv, LTypeOK, TypeOK, Arrive
<1>2. UNCHANGED <<gate, told>>
  BY DEF Arrive, door
<1>3. CASE OpenFor(t) /\ mode' = [mode EXCEPT ![t] = "ready"] /\ UNCHANGED qvars
  <2>1. gate = "open" /\ flow' = flow
    BY <1>3 DEF OpenFor, qvars
  <2> QED BY <1>1, <1>2, <1>3, <2>1 DEF AtOne, Busy
<1>4. CASE (\E w \in Wait : OwnerOf[w] = t /\ Release(w)) /\ UNCHANGED mode
  <2>1. flow' = [flow EXCEPT ![t] = "waiting"]
    BY <1>4 DEF Release, Goto
  <2>2. \A u \in Lane : Busy(u) => u # t
    BY <1>1 DEF Busy
  <2> QED BY <1>1, <1>2, <1>4, <2>1, <2>2, LaneAssumption DEF AtOne, Busy
<1> QED BY <1>3, <1>4 DEF Arrive

\* A turn leaves the lane for the gate as it is.
LEMMA DoneAtOne ==
  ASSUME LInv, NEW t \in Lane, Mode(t, "done"), UNCHANGED <<qvars, gate>>,
         \/ UNCHANGED told /\ mode[t] = "late"
         \/ \E how \in {"busy", "unsent", "stalled"} : Told(t, how)
  PROVE  AtOne'
PROOF
<1>1. /\ AtOne /\ flow' = flow /\ gate' = gate
      /\ mode \in [Lane -> {"before", "ready", "turn", "late", "done"}]
      /\ told \in [Lane -> {"none", "answered", "died", "stalled", "busy", "unsent"}]
  BY DEF LInv, LTypeOK, qvars
<1>2. mode'[t] = "done" /\ \A u \in Lane : u # t => mode'[u] = mode[u] /\ told'[u] = told[u]
  BY <1>1 DEF Mode, Told
<1> QED BY <1>1, <1>2 DEF AtOne, Busy

LEMMA SendAtOne ==
  ASSUME LInv, NEW t \in Lane, Send(t)
  PROVE  AtOne'
PROOF
<1>1. /\ AtOne /\ mode \in [Lane -> {"before", "ready", "turn", "late", "done"}]
      /\ mode[t] = "ready" /\ mode' = [mode EXCEPT ![t] = "turn"]
      /\ flow' = flow /\ gate' = gate /\ told' = told
  BY DEF LInv, LTypeOK, Send, Mode, qvars, door
<1> QED BY <1>1 DEF AtOne, Busy

\* A settled turn opens the gate only if it shut it.
LEMMA SettleAtOne ==
  ASSUME LInv, NEW S \in SUBSET Lane, NEW how, NEW d \in BOOLEAN, Settle(S, how, d), UNCHANGED qvars,
         d => gate = "drain", \A t \in S : mode[t] \in {"turn", "late"}
  PROVE  AtOne'
PROOF
<1>1. /\ AtOne /\ flow' = flow
      /\ mode \in [Lane -> {"before", "ready", "turn", "late", "done"}]
  BY DEF LInv, LTypeOK, qvars
<1>2. /\ \A u \in Lane : u \in S => mode'[u] = "done"
      /\ \A u \in Lane : u \notin S => mode'[u] = mode[u] /\ told'[u] = told[u]
  BY DEF Settle
<1>3. CASE d \/ \E t \in S : mode[t] = "late"
  <2>1. gate' = "open"
    BY <1>3 DEF Settle, OpenGate
  <2>2. \A u \in Lane : u \notin S => mode[u] # "late"
    BY <1>1, <1>3 DEF AtOne
  <2>3. \A u \in Lane : u \notin S => ~Busy(u)
    BY <1>1, <1>3 DEF AtOne
  <2> QED BY <1>1, <1>2, <2>1, <2>2, <2>3 DEF AtOne, Busy
<1>4. CASE ~(d \/ \E t \in S : mode[t] = "late")
  <2>1. gate' = gate
    BY <1>4 DEF Settle, door
  <2> QED BY <1>1, <1>2, <2>1 DEF AtOne, Busy
<1> QED BY <1>3, <1>4

LEMMA StallAtOne ==
  ASSUME LInv, NEW t \in Lane, Stall(t)
  PROVE  AtOne'
PROOF
<1>1. /\ AtOne /\ mode \in [Lane -> {"before", "ready", "turn", "late", "done"}]
      /\ told \in [Lane -> {"none", "answered", "died", "stalled", "busy", "unsent"}]
      /\ mode[t] = "turn" /\ mode' = [mode EXCEPT ![t] = "late"] /\ flow' = flow
      /\ told' = [told EXCEPT ![t] = "stalled"]
  BY DEF LInv, LTypeOK, Stall, Silent, Mode, Told, qvars
<1>2. gate = "open" /\ gate' = "shut"
  BY <1>1 DEF AtOne, Busy, Stall, Shut
<1>3. \A u \in Lane : u # t => ~Busy(u) /\ mode[u] # "late"
  BY <1>1, <1>2, OneBusy DEF AtOne, Busy
<1> QED BY <1>1, <1>2, <1>3 DEF AtOne, Busy

LEMMA LateOverAtOne ==
  ASSUME LInv, NEW t \in Lane, LateOver(t)
  PROVE  AtOne'
PROOF
<1>1. /\ AtOne /\ mode \in [Lane -> {"before", "ready", "turn", "late", "done"}]
      /\ mode[t] = "late" /\ mode' = [mode EXCEPT ![t] = "done"] /\ flow' = flow
      /\ told' = told
  BY DEF LInv, LTypeOK, LateOver, Mode, qvars
<1>2. gate = "shut" /\ \A u \in Lane : ~Busy(u)
  BY <1>1 DEF AtOne
<1>3. \A u \in Lane : mode'[u] # "late" /\ mode'[u] \notin {"ready", "turn"}
  BY <1>1, <1>2 DEF AtOne, Busy
<1> QED BY <1>1, <1>3 DEF AtOne, Busy

LEMMA ReportAtOne ==
  ASSUME LInv, NEW t \in Lane, Report(t)
  PROVE  AtOne'
PROOF
<1>1. CASE Settle({t}, "answered", FALSE)
  BY <1>1, SettleAtOne DEF Report
<1>2. CASE UNCHANGED <<door, mode, told>>
  BY <1>2 DEF Report, LInv, AtOne, Busy, door, qvars
<1> QED BY <1>1, <1>2 DEF Report

LEMMA ResultAtOne ==
  ASSUME LInv, Result
  PROVE  AtOne'
PROOF
<1>. DEFINE takes == {t \in Listening : IsOurs(t, Len(contents))}
<1>1. Settle(takes, "answered", gate = "drain") /\ UNCHANGED qvars
  BY DEF Result
<1>2. takes \in SUBSET Lane /\ \A t \in takes : mode[t] \in {"turn", "late"}
  BY DEF Listening
<1> QED BY <1>1, <1>2, SettleAtOne

LEMMA DieAtOne ==
  ASSUME LInv, Die
  PROVE  AtOne'
PROOF
<1>1. UNCHANGED qvars
  BY DEF Die
<1>2. CASE Settle(Listening, "died", gate = "drain")
  <2>1. Listening \in SUBSET Lane /\ \A t \in Listening : mode[t] \in {"turn", "late"}
    BY DEF Listening
  <2> QED BY <1>1, <1>2, <2>1, SettleAtOne
<1>3. CASE UNCHANGED <<mode, told, door>>
  BY <1>1, <1>3 DEF LInv, AtOne, Busy, door, qvars
<1> QED BY <1>2, <1>3 DEF Die

LEMMA StepAtOne ==
  ASSUME LInv, [Next]_vars
  PROVE  AtOne'
PROOF
<1>1. ASSUME NEW t \in Lane, TurnStep(t)  PROVE AtOne'
  <2>1. CASE GiveWay(t) \/ SendFails(t)
    BY <2>1, DoneAtOne DEF GiveWay, SendFails, door
  <2> QED BY <1>1, <2>1, ArriveAtOne, SendAtOne DEF TurnStep
<1>2. ASSUME NEW t \in Lane, Tick(t)  PROVE AtOne'
  <2>1. CASE DeadSeen(t)
    BY <2>1, SettleAtOne DEF DeadSeen, Listening
  <2>2. CASE StallUnread(t) \/ StallUndelivered(t)
    BY <2>2, DoneAtOne DEF StallUnread, StallUndelivered, door
  <2> QED BY <1>2, <2>1, <2>2, StallAtOne, LateOverAtOne DEF Tick
<1>3. CASE Write \/ TakeUp \/ Outside
  BY <1>3 DEF Write, TakeUp, Outside, LInv, AtOne, Busy, door, watch, qvars
<1>4. CASE DrainEnds
  <2>1. gate = "drain" /\ gate' = "open" /\ UNCHANGED <<flow, mode, told>>
    BY <1>4 DEF DrainEnds, OpenGate, watch, qvars
  <2> QED BY <2>1 DEF LInv, AtOne, Busy
<1>5. CASE DrainGoesOn
  BY <1>5 DEF DrainGoesOn, LInv, AtOne, Busy, watch, qvars
<1>6. CASE UNCHANGED vars
  BY <1>6 DEF vars, LInv, AtOne, Busy, door, watch, qvars
<1>7. CASE \/ \E t \in Turn : Queued(OnQueue(t))
           \/ \E w \in Wait : Queued(Resume(w)) \/ GoesOn(w)
  <2>1. UNCHANGED <<gate, mode, told>>
    BY <1>7 DEF Queued, GoesOn, door, watch
  <2> QED BY <1>7, <2>1, QueueAtOne
<1> QED BY <1>1, <1>2, <1>3, <1>4, <1>5, <1>6, <1>7, ReportAtOne, ResultAtOne, DieAtOne DEF Next

\* So two turns never listen at once.
LEMMA OneListens ==
  ASSUME LInv
  PROVE  \A t, u \in Listening : t = u
PROOF
<1> QED BY OneBusy DEF LInv, AtOne, Busy, Listening

-----------------------------------------------------------------------------
(* What was answered. *)

\* A turn of the CLI that is over stays over.
LEMMA PastUnchanged ==
  ASSUME Past, UNCHANGED <<answer, early>>, \A k \in Gens : Resulted(k) => Resulted(k)',
         LTypeOK
  PROVE  Past'
PROOF
<1>1. \A t \in Lane : answer[t] \in Gens /\ early[t] \in SUBSET Gens
  BY DEF LTypeOK
<1> QED BY <1>1 DEF Past

LEMMA WritePast ==
  ASSUME LInv, Write \/ TakeUp \/ Outside
  PROVE  Past'
PROOF
<1>0. LTypeOK /\ Past /\ UNCHANGED <<answer, early>>
  BY DEF LInv, Write, TakeUp, Outside, watch
<1>1. Len(contents) \in Nat /\ Gens \subseteq Nat
  BY <1>0, Lengths
<1>2. \/ cli # "running" /\ Len(contents') = Len(contents) + 1
      \/ cli' = cli /\ Len(contents') = Len(contents)
  <2>1. InQueue \in SUBSET Lane /\ {} \in SUBSET Lane /\ pipe \in SUBSET Lane
    BY <1>0 DEF InQueue, LTypeOK
  <2>2. CASE Write
    <3>1. CASE cli # "running" /\ Turns(1) /\ NewTurn(InQueue)
      BY <1>0, <2>1, <3>1, NewTurnTyped
    <3>2. CASE Join(InQueue)
      BY <1>0, <2>1, <3>2, JoinTyped
    <3> QED BY <2>2, <3>1, <3>2 DEF Write
  <2>3. CASE TakeUp
    BY <1>0, <2>1, <2>3, JoinTyped DEF TakeUp
  <2>4. CASE Outside
    BY <1>0, <2>1, <2>4, NewTurnTyped DEF Outside
  <2> QED BY <2>2, <2>3, <2>4
<1>3. \A k \in Gens : Resulted(k) => Resulted(k)'
  BY <1>1, <1>2 DEF Resulted
<1> QED BY <1>0, <1>3, PastUnchanged

\* The result that closes the CLI's turn was given to nobody, and one turn
\* listens.
LEMMA ResultPast ==
  ASSUME LInv, Result
  PROVE  Past'
PROOF
<1>. DEFINE k == Len(contents)
            takes == {t \in Listening : IsOurs(t, k)}
            holds == {t \in Listening : reported[t] = 0}
<1>1. /\ LTypeOK /\ Past /\ cli = "running" /\ k \in Nat /\ k \in Gens /\ Gens \subseteq Nat
  BY Lengths DEF LInv, Result
<1>2. /\ \A t \in Lane : answer'[t] = IF t \in takes THEN k ELSE answer[t]
      /\ \A t \in Lane : early'[t] = IF t \in holds THEN early[t] \cup {k} ELSE early[t]
  BY DEF Result
<1>3. \A t, u \in takes \cup holds : t = u
  BY OneListens
<1>4. /\ \A t \in Lane : answer[t] # 0 => answer[t] # k
      /\ \A t \in Lane : k \notin early[t]
  BY <1>1 DEF Past, Resulted
<1>5. \A j \in Gens : j = k \/ Resulted(j) => Resulted(j)'
  <2>1. CASE Turns(1) /\ NewTurn(pipe)
    <3>1. Len(contents') = k + 1
      BY <1>1, <2>1, NewTurnTyped DEF LTypeOK
    <3> QED BY <1>1, <3>1 DEF Resulted
  <2>2. CASE cli' = "idle" /\ contents' = contents
    BY <1>1, <2>2 DEF Resulted
  <2> QED BY <2>1, <2>2 DEF Result
<1>6. \A t \in Lane : answer[t] \in Gens /\ early[t] \in SUBSET Gens
  BY <1>1 DEF LTypeOK
<1>. HIDE DEF takes, holds
<1>7. (\A t \in Lane : answer[t] # 0 => Resulted(answer[t]))'
  <2>1. ASSUME NEW t \in Lane, NEW j \in Gens, j # 0, answer'[t] = j  PROVE Resulted(j)'
    <3>1. j = k \/ Resulted(j)
      BY <1>1, <1>2, <2>1 DEF Past
    <3> QED BY <1>5, <3>1
  <2>2. \A t \in Lane : answer'[t] \in Gens
    BY <1>1, <1>2, <1>6
  <2> QED BY <2>1, <2>2
<1>8. \A t \in Lane : \A j \in early'[t] : Resulted(j)'
  <2>1. \A t \in Lane : \A j \in early'[t] : j \in Gens /\ (j = k \/ Resulted(j))
    BY <1>1, <1>2, <1>6 DEF Past
  <2> QED BY <1>5, <2>1
<1>9. \A t, u \in Lane : t # u => early'[t] \cap early'[u] = {}
  <2>1. ASSUME NEW t \in Lane, NEW u \in Lane, t # u, NEW j \in early'[t], j \in early'[u]
        PROVE  FALSE
    <3>1. CASE j = k
      <4>1. t \in holds /\ u \in holds
        BY <1>2, <1>4, <2>1, <3>1
      <4> QED BY <1>3, <2>1, <4>1
    <3>2. CASE j # k
      <4>1. j \in early[t] /\ j \in early[u]
        BY <1>2, <2>1, <3>2
      <4> QED BY <1>1, <2>1, <4>1 DEF Past
    <3> QED BY <3>1, <3>2
  <2> QED BY <2>1
<1>10. \A t, u \in Lane : t # u /\ answer'[t] # 0 => answer'[t] # answer'[u]
  BY <1>1, <1>2, <1>3, <1>4 DEF Past
<1>11. \A t, u \in Lane : t # u /\ answer'[t] # 0 => answer'[t] \notin early'[u]
  BY <1>1, <1>2, <1>3, <1>4 DEF Past
<1> QED BY <1>7, <1>8, <1>9, <1>10, <1>11 DEF Past

\* The result that was held back is held back by one turn, and given to none.
LEMMA ReportPast ==
  ASSUME LInv, NEW t \in Lane, Report(t)
  PROVE  Past'
PROOF
<1>. DEFINE k == Len(contents)
<1>1. /\ LTypeOK /\ Past /\ early' = early /\ UNCHANGED <<contents, cli>>
  BY DEF LInv, Report, stream
<1>2. \A j : Resulted(j) => Resulted(j)'
  BY <1>1 DEF Resulted
<1>3. CASE k \in early[t]
  <2>1. answer' = [answer EXCEPT ![t] = k] /\ answer \in [Lane -> Gens]
    BY <1>1, <1>3 DEF Report, LTypeOK
  <2>2. \A u \in Lane : u # t => answer[u] # k \/ answer[u] = 0
    BY <1>1, <1>3 DEF Past
  <2>3. \A u \in Lane : u # t => k \notin early[u]
    BY <1>1, <1>3 DEF Past
  <2>4. Resulted(k)
    BY <1>1, <1>3 DEF Past
  <2>. HIDE DEF k
  <2>5. answer'[t] = k /\ \A u \in Lane : u # t => answer'[u] = answer[u]
    BY <2>1
  <2> QED BY <1>1, <1>2, <2>2, <2>3, <2>4, <2>5 DEF Past
<1>4. CASE k \notin early[t]
  <2>1. answer' = answer
    BY <1>4 DEF Report
  <2> QED BY <1>1, <1>2, <2>1 DEF Past
<1> QED BY <1>3, <1>4

LEMMA StepPast ==
  ASSUME LInv, [Next]_vars
  PROVE  Past'
PROOF
<1>0. LTypeOK /\ Past
  BY DEF LInv
<1>1. ASSUME UNCHANGED <<answer, early, contents, cli>>  PROVE Past'
  BY <1>0, <1>1 DEF Past, Resulted
<1>2. ASSUME NEW t \in Lane, TurnStep(t) \/ Tick(t)  PROVE Past'
  <2>1. UNCHANGED <<answer, early, contents, cli>>
    BY <1>2 DEF TurnStep, Arrive, GiveWay, Send, SendFails, Tick, DeadSeen, Stall, StallUnread,
                StallUndelivered, LateOver, stream
  <2> QED BY <1>1, <2>1
<1>3. CASE Die
  <2>1. UNCHANGED <<answer, early, contents>> /\ cli' = "dead"
    BY <1>3 DEF Die
  <2>2. \A k \in Gens : Resulted(k) => Resulted(k)'
    BY <2>1 DEF Resulted
  <2> QED BY <1>0, <2>1, <2>2, PastUnchanged
<1>4. CASE \/ \E t \in Turn : Queued(OnQueue(t))
           \/ \E w \in Wait : Queued(Resume(w)) \/ GoesOn(w)
           \/ DrainEnds \/ DrainGoesOn \/ UNCHANGED vars
  <2>1. UNCHANGED <<answer, early, contents, cli>>
    BY <1>4 DEF Queued, GoesOn, DrainEnds, DrainGoesOn, vars, watch, stream
  <2> QED BY <1>1, <2>1
<1> QED BY <1>2, <1>3, <1>4, WritePast, ResultPast, ReportPast DEF Next

-----------------------------------------------------------------------------
(* Whose message is with the CLI. *)

\* Of the turns, one that has sent nothing may move on.
UnsentMoves(t) ==
  \/ mode'[t] = mode[t]
  \/ /\ mode'[t] \in {"ready", "done"}
     /\ row[t] = "none"

\* The turns' flows and a wider set of exceptions leave it as it is.
LEMMA StreamingKept ==
  ASSUME Streaming, UNCHANGED <<stream, reported>>, Excepted \subseteq Excepted', behind \subseteq behind',
         \A t \in Lane : UnsentMoves(t),
         gate = "drain" => gate' = "drain", LTypeOK
  PROVE  Streaming'
PROOF
<1>1. UNCHANGED <<row, cli, inTurn, pipe, loose, reported>>
  BY DEF stream
<1>2. inTurn \cup pipe \subseteq Lane
  BY DEF LTypeOK
<1>3. \A t \in Lane : row[t] # "none" => mode'[t] = mode[t]
  BY DEF UnsentMoves
<1>4. \A t \in inTurn \cup pipe : mode'[t] = mode[t]
  BY <1>2, <1>3 DEF Streaming
<1> QED BY <1>1, <1>2, <1>3, <1>4 DEF Streaming

LEMMA TurnStepStreaming ==
  ASSUME LInv, NEW t \in Lane, TurnStep(t)
  PROVE  Streaming'
PROOF
<1>1. /\ LTypeOK /\ Streaming
      /\ mode \in [Lane -> {"before", "ready", "turn", "late", "done"}]
  BY DEF LInv, LTypeOK
<1>2. CASE Arrive(t) \/ GiveWay(t) \/ SendFails(t)
  <2>1. UNCHANGED <<stream, reported, givenUp>> /\ gate' = gate
    BY <1>2 DEF Arrive, GiveWay, SendFails, door
  <2>2. row[t] = "none" /\ mode[t] \in {"before", "ready"}
    BY <1>1, <1>2 DEF Arrive, GiveWay, SendFails, Streaming
  <2>3. \A u \in Lane : UnsentMoves(u)
    <3>1. ASSUME NEW to \in {"ready", "done"}, mode' = [mode EXCEPT ![t] = to]
          PROVE  \A u \in Lane : UnsentMoves(u)
      BY <1>1, <2>2, <3>1 DEF UnsentMoves
    <3>2. CASE mode' = mode
      BY <3>2 DEF UnsentMoves
    <3> QED BY <1>2, <3>1, <3>2 DEF Arrive, GiveWay, SendFails, Mode
  <2>4. Excepted \subseteq Excepted' /\ behind \subseteq behind'
    BY <2>1 DEF Excepted, stream, givenUp
  <2> QED BY <1>1, <2>1, <2>3, <2>4, StreamingKept
<1>3. CASE Send(t)
  <2>1. /\ mode[t] = "ready" /\ mode' = [mode EXCEPT ![t] = "turn"]
        /\ row' = [row EXCEPT ![t] = "queued"] /\ row \in [Lane -> {"none", "queued", "in", "gone"}]
        /\ UNCHANGED <<reported, cli, inTurn, pipe, loose, ungated, behind, gate>>
    BY <1>1, <1>3 DEF Send, Mode, door, givenUp, LTypeOK
  <2>2. row[t] = "none" /\ inTurn \cup pipe \subseteq Lane
    BY <1>1, <2>1 DEF Streaming, LTypeOK
  <2>3. t \notin inTurn \cup pipe
    BY <1>1, <2>2 DEF Streaming
  <2>4. reported[t] = 0
    BY <1>1, <2>2 DEF Streaming
  <2> QED BY <1>1, <2>1, <2>2, <2>3, <2>4 DEF Streaming, Excepted
<1> QED BY <1>2, <1>3 DEF TurnStep

\* A turn that is given up leaves nothing with the CLI, or is excepted, or has
\* its lane drained.
LEMMA TickStreaming ==
  ASSUME LInv, NEW t \in Lane, Tick(t)
  PROVE  Streaming'
PROOF
<1>1. /\ LTypeOK /\ Streaming /\ inTurn \cup pipe \subseteq Lane
      /\ mode \in [Lane -> {"before", "ready", "turn", "late", "done"}]
  BY DEF LInv, LTypeOK
<1>2. UNCHANGED <<row, cli, inTurn, pipe, loose, reported>>
  BY DEF Tick, DeadSeen, Stall, StallUnread, StallUndelivered, LateOver, stream
<1>3. /\ mode[t] \in {"turn", "late"} /\ mode'[t] \in {"late", "done"}
      /\ \A u \in Lane : u # t => mode'[u] = mode[u]
  <2>1. CASE DeadSeen(t)
    BY <2>1 DEF DeadSeen, Settle, Listening
  <2>2. CASE Stall(t) \/ StallUnread(t) \/ StallUndelivered(t) \/ LateOver(t)
    BY <1>1, <2>2 DEF Stall, StallUnread, StallUndelivered, LateOver, Silent, Mode
  <2> QED BY <2>1, <2>2 DEF Tick
<1>4. /\ Excepted \subseteq Excepted' /\ behind \subseteq behind'
      /\ \A u \in Lane : row[u] = "queued" /\ mode'[u] = "done" => u \in behind'
  <2>1. CASE Stall(t)
    <3>1. mode'[t] = "late" /\ UNCHANGED givenUp
      BY <1>1, <2>1 DEF Stall, Mode
    <3> QED BY <1>1, <1>2, <1>3, <3>1 DEF Streaming, Excepted, givenUp
  <2>2. CASE ~Stall(t)
    <3>1. LeftBehind /\ ungated \subseteq ungated'
      BY <2>2 DEF Tick, DeadSeen, StallUnread, StallUndelivered, LateOver
    <3> QED BY <1>2, <3>1 DEF LeftBehind, Excepted
  <2> QED BY <2>1, <2>2
<1>5. gate = "drain" => mode[t] # "turn" /\ mode[t] # "late"
  BY DEF LInv, AtOne, Busy
<1>6. t \in inTurn \cup pipe =>
        t \in Excepted' \/ mode'[t] \in {"turn", "late"} \/ gate' = "drain"
  <2>1. CASE DeadSeen(t)
    BY <1>1, <2>1 DEF DeadSeen, Streaming
  <2>2. CASE Stall(t)
    BY <1>1, <2>2 DEF Stall, Mode
  <2>3. CASE StallUnread(t)
    BY <2>3 DEF StallUnread, Excepted
  <2>4. CASE StallUndelivered(t)
    BY <1>1, <2>4 DEF StallUndelivered, Silent, Streaming
  <2>5. CASE LateOver(t)
    <3>1. CASE cli = "idle"
      BY <1>1, <3>1 DEF Streaming
    <3>2. CASE Drain(t)
      BY <3>2 DEF Drain
    <3> QED BY <2>5, <3>1, <3>2 DEF LateOver
  <2> QED BY <2>1, <2>2, <2>3, <2>4, <2>5 DEF Tick
<1>7. \A u \in inTurn \cup pipe :
        u \in Excepted' \/ mode'[u] \in {"turn", "late"} \/ gate' = "drain"
  BY <1>1, <1>3, <1>4, <1>5, <1>6 DEF Streaming
<1>8. \A u \in Lane : row[u] # "none" => mode'[u] \in {"turn", "late", "done"}
  BY <1>1, <1>3 DEF Streaming
<1> QED BY <1>1, <1>2, <1>4, <1>7, <1>8 DEF Streaming

LEMMA WriteStreaming ==
  ASSUME LInv, Write \/ TakeUp \/ Outside
  PROVE  Streaming'
PROOF
<1>1. LTypeOK /\ Streaming /\ inTurn \cup pipe \cup InQueue \subseteq Lane
  BY DEF LInv, LTypeOK, InQueue
<1>2. UNCHANGED <<gate, mode, reported, ungated, behind>>
  BY DEF Write, TakeUp, Outside, door, watch, givenUp
<1>3. CASE Write
  <2>1. \A t \in Lane : row'[t] = IF row[t] = "queued" THEN "in" ELSE row[t]
    BY <1>3 DEF Write, InQueue
  <2>2. \A t \in Lane : t \in InQueue <=> row[t] = "queued"
    BY DEF InQueue
  <2>3. \A t \in InQueue : t \in behind \/ mode[t] \in {"turn", "late"}
    BY <1>1, <2>2 DEF Streaming
  <2>4. InQueue \cap (inTurn \cup pipe) = {}
    BY <1>1, <2>2 DEF Streaming
  <2>. DEFINE D == InQueue
  <2>. HIDE DEF D
  <2>5. /\ cli' = "running" /\ pipe' \subseteq loose' /\ inTurn' \cap pipe' = {}
        /\ loose \subseteq loose' /\ inTurn' \cup pipe' \subseteq inTurn \cup pipe \cup InQueue
    <3>1. CASE cli # "running" /\ NewTurn(InQueue) /\ UNCHANGED <<pipe, loose>>
      <4>1. pipe = {} /\ pipe' = {} /\ inTurn' = InQueue /\ cli' = "running" /\ loose' = loose
        BY <1>1, <3>1 DEF Streaming, NewTurn
      <4> QED BY <4>1
    <3>2. CASE cli = "running" /\ loose' = loose \cup InQueue /\ Join(InQueue) /\ UNCHANGED pipe
      <4>1. inTurn' = inTurn \cup InQueue /\ cli' = "running" /\ pipe' = pipe
        BY <3>2 DEF Join
      <4> QED BY <1>1, <2>4, <3>2, <4>1 DEF Streaming
    <3>3. CASE /\ cli = "running" /\ loose' = loose \cup InQueue
               /\ pipe' = pipe \cup InQueue /\ UNCHANGED <<cli, inTurn, contents>>
      BY <1>1, <2>4, <3>3 DEF Streaming
    <3> QED BY <1>3, <3>1, <3>2, <3>3 DEF Write
  <2>6. Excepted \subseteq Excepted' /\ behind \subseteq Excepted'
    BY <1>2, <2>5 DEF Excepted
  <2>7. \A t \in Lane : row'[t] # "queued" /\ (row'[t] = "none" <=> row[t] = "none")
    BY <2>1
  <2>8. \A t \in inTurn' \cup pipe' : row'[t] = "in"
    BY <1>1, <2>1, <2>2, <2>5 DEF Streaming
  <2>9. \A t \in inTurn' \cup pipe' :
          t \in Excepted' \/ mode'[t] \in {"turn", "late"} \/ gate' = "drain"
    BY <1>1, <1>2, <2>3, <2>5, <2>6 DEF Streaming
  <2>10. \A t \in Lane : row'[t] # "none" => mode'[t] \in {"turn", "late", "done"}
    BY <1>1, <1>2, <2>7 DEF Streaming
  <2>11. \A t \in Lane : row'[t] = "none" => reported'[t] = 0
    BY <1>1, <1>2, <2>7 DEF Streaming
  <2> QED BY <2>5, <2>7, <2>8, <2>9, <2>10, <2>11 DEF Streaming
<1>4. CASE TakeUp
  <2>1. inTurn' = inTurn \cup pipe /\ pipe' = {} /\ UNCHANGED <<row, cli, loose>>
    BY <1>4 DEF TakeUp, Join
  <2>2. cli = "running"
    BY <1>1, <1>4 DEF TakeUp, Streaming
  <2> QED BY <1>1, <1>2, <2>1, <2>2 DEF Streaming, Excepted
<1>5. CASE Outside
  <2>1. inTurn' = {} /\ cli' = "running" /\ UNCHANGED <<row, pipe, loose>> /\ pipe = {}
    BY <1>1, <1>5 DEF Outside, NewTurn, Streaming
  <2>2. \A t \in Lane : row[t] # "queued"
    BY <1>5 DEF Outside, InQueue
  <2> QED BY <1>1, <1>2, <2>1, <2>2 DEF Streaming, Excepted
<1> QED BY <1>3, <1>4, <1>5

LEMMA ReportStreaming ==
  ASSUME LInv, NEW t \in Lane, Report(t)
  PROVE  Streaming'
PROOF
<1>1. /\ LTypeOK /\ Streaming /\ mode[t] = "turn" /\ row[t] \in {"in", "gone"}
      /\ mode \in [Lane -> {"before", "ready", "turn", "late", "done"}]
      /\ reported \in [Lane -> Gens] /\ inTurn \cup pipe \subseteq Lane
  BY DEF LInv, LTypeOK, Report
<1>2. UNCHANGED <<row, cli, inTurn, pipe, loose, ungated, behind>>
  BY DEF Report, stream, givenUp
<1>3. \A u \in Lane : u # t => reported'[u] = reported[u]
  BY <1>1 DEF Report
<1>4. CASE UNCHANGED <<door, mode>>
  BY <1>1, <1>2, <1>3, <1>4 DEF Streaming, Excepted, door
<1>5. CASE Len(contents) \in early[t] /\ Settle({t}, "answered", FALSE)
  <2>1. Resulted(Len(contents)) /\ Len(contents) \in Nat
    BY <1>1, <1>5, Lengths DEF LInv, Past
  <2>2. inTurn = {} /\ pipe = {}
    BY <1>1, <2>1 DEF Streaming, Resulted
  <2>3. mode'[t] = "done" /\ \A u \in Lane : u # t => mode'[u] = mode[u]
    BY <1>5 DEF Settle
  <2> QED BY <1>1, <1>2, <1>3, <2>2, <2>3 DEF Streaming, Excepted
<1> QED BY <1>4, <1>5 DEF Report

LEMMA ResultStreaming ==
  ASSUME LInv, Result
  PROVE  Streaming'
PROOF
<1>. DEFINE takes == {t \in Listening : IsOurs(t, Len(contents))}
<1>1. /\ LTypeOK /\ Streaming /\ inTurn \cup pipe \subseteq Lane /\ cli = "running"
  BY DEF LInv, LTypeOK, Result
<1>2. UNCHANGED <<reported, loose, ungated, behind>>
  BY DEF Result, givenUp
<1>3. /\ \A t \in Lane : t \in takes => mode'[t] = "done"
      /\ \A t \in Lane : t \notin takes => mode'[t] = mode[t]
      /\ \A t \in takes : reported[t] # 0
  BY DEF Result, Settle, IsOurs
<1>4. \A t \in Lane : row'[t] = IF t \in inTurn THEN "gone" ELSE row[t]
  BY DEF Result
<1>5. inTurn' = pipe /\ pipe' = {}
  BY DEF Result, NewTurn
<1>. HIDE DEF takes
<1>6. \A t \in inTurn' : row'[t] = "in" /\ t \in loose'
  BY <1>1, <1>2, <1>4, <1>5 DEF Streaming
<1>7. cli' # "running" => inTurn' = {}
  BY <1>5 DEF Result, NewTurn
<1>8. \A t \in Lane : (row'[t] = "queued" => row[t] = "queued" /\ reported[t] = 0)
                      /\ (row'[t] # "none" => row[t] # "none")
                      /\ (row'[t] = "none" => row[t] = "none")
  BY <1>1, <1>4 DEF Streaming
<1>9. \A t \in Lane : row'[t] = "queued" /\ mode'[t] = "done" => t \in behind'
  BY <1>1, <1>2, <1>3, <1>8 DEF Streaming
<1>10. \A t \in Lane : row'[t] # "none" => mode'[t] \in {"turn", "late", "done"}
  BY <1>1, <1>3, <1>8 DEF Streaming
<1> QED BY <1>1, <1>2, <1>5, <1>6, <1>7, <1>8, <1>9, <1>10 DEF Streaming, Excepted

LEMMA DieStreaming ==
  ASSUME LInv, Die
  PROVE  Streaming'
PROOF
<1>1. LTypeOK /\ Streaming /\ inTurn \cup pipe \subseteq Lane
  BY DEF LInv, LTypeOK
<1>2. inTurn' = {} /\ pipe' = {} /\ cli' = "dead" /\ reported' = reported
  BY DEF Die
<1>3. \A t \in Lane : /\ row'[t] # "none" => row[t] # "none"
                      /\ row'[t] = "none" => row[t] = "none"
  BY <1>1 DEF Die, Streaming
<1>4. \A t \in Lane : row[t] # "none" => mode'[t] \in {"turn", "late", "done"}
  <2>1. CASE Settle(Listening, "died", gate = "drain")
    BY <1>1, <2>1 DEF Settle, Streaming
  <2>2. CASE mode' = mode
    BY <1>1, <2>2 DEF Streaming
  <2> QED BY <2>1, <2>2 DEF Die
<1>5. \A t \in Lane : row'[t] = "queued" /\ mode'[t] = "done" => t \in behind'
  BY DEF Die, LeftBehind
<1> QED BY <1>1, <1>2, <1>3, <1>4, <1>5 DEF Streaming

LEMMA StepStreaming ==
  ASSUME LInv, [Next]_vars
  PROVE  Streaming'
PROOF
<1>1. LTypeOK /\ Streaming
  BY DEF LInv
<1>2. CASE \/ \E t \in Turn : Queued(OnQueue(t))
           \/ \E w \in Wait : Queued(Resume(w)) \/ GoesOn(w)
           \/ DrainGoesOn \/ UNCHANGED vars
  <2>1. UNCHANGED <<stream, reported, mode, gate, givenUp>>
    BY <1>2 DEF Queued, GoesOn, DrainGoesOn, vars, watch, door
  <2>2. Excepted \subseteq Excepted' /\ behind \subseteq behind'
    BY <2>1 DEF Excepted, stream, givenUp
  <2>3. \A t \in Lane : UnsentMoves(t)
    BY <2>1 DEF UnsentMoves
  <2> QED BY <1>1, <2>1, <2>2, <2>3, StreamingKept
<1>3. CASE DrainEnds
  <2>1. UNCHANGED <<row, cli, inTurn, pipe, loose, reported, mode, ungated, behind>>
    BY <1>3 DEF DrainEnds, watch, stream, givenUp
  <2>2. inTurn = {} /\ pipe = {}
    BY <1>1, <1>3 DEF DrainEnds, Streaming
  <2> QED BY <1>1, <2>1, <2>2 DEF Streaming
<1> QED BY <1>2, <1>3, TurnStepStreaming, TickStreaming, WriteStreaming, ReportStreaming,
           ResultStreaming, DieStreaming DEF Next

-----------------------------------------------------------------------------

LEMMA InitLInv == Init => LInv
PROOF
<1> SUFFICES ASSUME Init PROVE LInv
  OBVIOUS
<1>1. IInv
  BY InitUses, InitFits
<1>2. LTypeOK
  <2>1. TypeOK
    BY <1>1 DEF IInv, Fits, Typed, TypeOK
  <2> QED BY <2>1, LaneAssumption DEF Init, LTypeOK, Gens
<1>3. AtOne
  BY DEF Init, AtOne, Busy
<1>4. Past
  BY DEF Init, Past
<1>5. Streaming
  BY DEF Init, Streaming
<1> QED BY <1>1, <1>2, <1>3, <1>4, <1>5 DEF LInv

LEMMA StepLInv == LInv /\ [Next]_vars => LInv'
PROOF
<1> SUFFICES ASSUME LInv, [Next]_vars PROVE LInv'
  OBVIOUS
<1>1. IInv'
  BY StepUses, StepFits DEF LInv
<1>2. LTypeOK'
  BY <1>1, QueueTyped, StepTyped DEF LInv
<1> QED BY <1>1, <1>2, StepAtOne, StepPast, StepStreaming DEF LInv

THEOREM LaneInvHolds == Spec => []LInv
PROOF
<1> QED BY InitLInv, StepLInv, PTL DEF Spec

\* The variables of a lane keep their types.
THEOREM LaneTypesHold == Spec => []LTypeOK
PROOF
<1>1. LInv => LTypeOK
  BY DEF LInv
<1> QED BY <1>1, LaneInvHolds, PTL

\* No result of the CLI answers two turns.
THEOREM AnswersOnce == Spec => []OneAnswerEach
PROOF
<1>1. LInv => OneAnswerEach
  BY DEF LInv, Past, OneAnswerEach
<1> QED BY <1>1, LaneInvHolds, PTL

\* A turn on its way finds nothing of an earlier turn with the CLI, but for the
\* exceptions.
LEMMA NothingElse ==
  ASSUME LInv, NEW t \in Lane, mode[t] = "turn"
  PROVE  (inTurn \cup pipe) \ {t} \subseteq ungated \cup behind \cup loose
PROOF
<1>1. Streaming /\ gate = "open" /\ inTurn \cup pipe \subseteq Lane
  BY DEF LInv, AtOne, Busy, LTypeOK
<1>2. \A u \in Lane : mode[u] \in {"turn", "late"} => u = t
  BY OneListens DEF Listening
<1> QED BY <1>1, <1>2 DEF Streaming, Excepted

\* A turn is not written into a turn of the CLI that is an earlier turn's.
THEOREM LaneWaits == Spec => WaitsForItsTurn
PROOF
<1>1. LInv /\ [Next]_vars =>
        [\A t \in Lane : Joins(t) =>
           (inTurn \cup pipe) \ {t} \subseteq ungated \cup behind \cup loose]_vars
  BY NothingElse DEF Joins
<1> QED BY <1>1, LaneInvHolds, PTL DEF Spec, WaitsForItsTurn

-----------------------------------------------------------------------------
(* Whose answer a result is. *)

\* A turn's message is in the CLI's turn from its delivery to the result that
\* ends it, and that result is either held back for it or given to it: a turn
\* that still listens, whose delivery was reported and whose message is gone,
\* has had it gone astray.
Closing ==
  /\ cli = "running" => Len(contents) > 0
  /\ \A t \in Lane : row[t] = "in" => t \in inTurn \cup pipe
  /\ \A t \in inTurn : t \in contents[Len(contents)]
  /\ \A t \in Lane : reported[t] <= Len(contents)
  /\ \A t \in Lane : mode[t] = "turn" /\ row[t] = "in" /\ reported[t] = 0 =>
       pipe = {} \/ t \in loose
  /\ \A t \in Lane : mode[t] = "turn" /\ row[t] = "gone" /\ reported[t] = 0 =>
       \/ t \in loose
       \/ cli # "running" /\ Len(contents) \in early[t] /\ t \in contents[Len(contents)]
  /\ \A t \in Lane : mode[t] \in {"turn", "late"} /\ reported[t] # 0 =>
       row[t] \in {"in", "queued"} \/ t \in loose

\* What a new turn of the CLI, or a message more in its turn, does to what the
\* turns so far had.
LEMMA NewTurnKeeps ==
  ASSUME LTypeOK, NEW D \in SUBSET Lane, Turns(1), NewTurn(D)
  PROVE  /\ \A k \in 1..Len(contents) : contents'[k] = contents[k]
         /\ Len(contents') = Len(contents) + 1 /\ contents'[Len(contents')] = D
         /\ cli' = "running" /\ inTurn' = D
PROOF
<1>1. contents \in Seq(SUBSET Lane)
  BY DEF LTypeOK
<1> QED BY <1>1, AppendProperties, LenProperties DEF NewTurn

LEMMA JoinKeeps ==
  ASSUME LTypeOK, NEW D \in SUBSET Lane, Join(D), Len(contents) > 0
  PROVE  /\ \A k \in 1..Len(contents) : contents[k] \subseteq contents'[k]
         /\ Len(contents') = Len(contents)
         /\ contents'[Len(contents')] = contents[Len(contents)] \cup D
         /\ cli' = cli /\ inTurn' = inTurn \cup D
PROOF
<1>1. contents \in Seq(SUBSET Lane)
  BY DEF LTypeOK
<1>2. Len(contents) \in 1..Len(contents) /\ contents \in [1..Len(contents) -> SUBSET Lane]
  BY <1>1, LenProperties
<1>3. Len(contents') = Len(contents)
  BY JoinTyped
<1> QED BY <1>2, <1>3 DEF Join

\* An answer that was right stays right while the CLI goes on.
LEMMA AnswersKept ==
  ASSUME LInv, AnswersItsOwn, NEW t \in Lane, answer'[t] = answer[t], answer[t] # 0,
         \A k \in 1..Len(contents) : contents[k] \subseteq contents'[k],
         loose \subseteq loose'
  PROVE  t \in contents'[answer'[t]] \/ t \in loose'
PROOF
<1>1. answer[t] \in Nat /\ Resulted(answer[t]) /\ Len(contents) \in Nat
  BY Lengths DEF LInv, LTypeOK, Past
<1>2. answer[t] \in 1..Len(contents)
  <2>1. answer[t] <= Len(contents) /\ answer[t] >= 1
    BY <1>1 DEF Resulted
  <2> QED BY <1>1, <2>1
<1> QED BY <1>2 DEF AnswersItsOwn

\* The flows of the turns, and what ends them, leave it as it is.
LEMMA ClosingKept ==
  ASSUME LInv, Closing, AnswersItsOwn, UNCHANGED <<stream, reported, answer, early>>,
         \A t \in Lane : \/ mode'[t] = mode[t]
                         \/ mode'[t] \notin {"turn", "late"}
                         \/ mode[t] = "turn" /\ mode'[t] = "late"
  PROVE  Closing' /\ AnswersItsOwn'
PROOF
<1> QED BY DEF Closing, AnswersItsOwn, stream

LEMMA TurnStepClosing ==
  ASSUME LInv, Closing, AnswersItsOwn, NEW t \in Lane, TurnStep(t)
  PROVE  Closing' /\ AnswersItsOwn'
PROOF
<1>1. mode \in [Lane -> {"before", "ready", "turn", "late", "done"}]
  BY DEF LInv, LTypeOK
<1>2. CASE Arrive(t) \/ GiveWay(t) \/ SendFails(t)
  <2>1. UNCHANGED <<stream, reported, answer, early>>
    BY <1>2 DEF Arrive, GiveWay, SendFails
  <2>2. \A u \in Lane : mode'[u] = mode[u] \/ mode'[u] \in {"ready", "done"}
    BY <1>1, <1>2 DEF Arrive, GiveWay, SendFails, Mode
  <2> QED BY <2>1, <2>2, ClosingKept
<1>3. CASE Send(t)
  <2>1. /\ mode[t] = "ready" /\ mode' = [mode EXCEPT ![t] = "turn"]
        /\ row' = [row EXCEPT ![t] = "queued"]
        /\ row \in [Lane -> {"none", "queued", "in", "gone"}]
        /\ UNCHANGED <<reported, answer, early, cli, inTurn, pipe, contents, loose>>
    BY <1>3 DEF Send, Mode, LInv, LTypeOK
  <2>2. row[t] = "none" /\ reported[t] = 0
    BY <2>1 DEF LInv, Streaming
  <2>3. row'[t] = "queued" /\ \A u \in Lane : u # t => row'[u] = row[u] /\ mode'[u] = mode[u]
    BY <1>1, <2>1
  <2> QED BY <2>1, <2>2, <2>3 DEF Closing, AnswersItsOwn
<1> QED BY <1>2, <1>3 DEF TurnStep

LEMMA TickClosing ==
  ASSUME LInv, Closing, AnswersItsOwn, NEW t \in Lane, Tick(t)
  PROVE  Closing' /\ AnswersItsOwn'
PROOF
<1>1. mode \in [Lane -> {"before", "ready", "turn", "late", "done"}]
  BY DEF LInv, LTypeOK
<1>2. UNCHANGED <<stream, reported, answer, early>>
  BY DEF Tick, DeadSeen, Stall, StallUnread, StallUndelivered, LateOver
<1>3. \A u \in Lane : \/ mode'[u] = mode[u]
                      \/ mode'[u] = "done"
                      \/ mode[u] = "turn" /\ mode'[u] = "late"
  <2>1. CASE DeadSeen(t)
    BY <2>1 DEF DeadSeen, Settle
  <2>2. CASE Stall(t) \/ StallUnread(t) \/ StallUndelivered(t) \/ LateOver(t)
    BY <1>1, <2>2 DEF Stall, StallUnread, StallUndelivered, LateOver, Silent, Mode
  <2> QED BY <2>1, <2>2 DEF Tick
<1> QED BY <1>2, <1>3, ClosingKept

LEMMA WriteClosing ==
  ASSUME LInv, Closing, AnswersItsOwn, Write \/ TakeUp \/ Outside
  PROVE  Closing' /\ AnswersItsOwn'
PROOF
<1>1. /\ LTypeOK /\ Streaming /\ InQueue \in SUBSET Lane /\ pipe \in SUBSET Lane
      /\ inTurn \in SUBSET Lane /\ {} \in SUBSET Lane
      /\ Len(contents) \in Nat /\ \A t \in Lane : reported[t] \in Nat
  BY Lengths DEF LInv, LTypeOK, InQueue
<1>2. UNCHANGED <<mode, answer, reported, early>>
  BY DEF Write, TakeUp, Outside, watch
<1>3. CASE Write
  <2>1. \A t \in Lane : row'[t] = IF t \in InQueue THEN "in" ELSE row[t]
    BY <1>3 DEF Write
  <2>2. \A t \in Lane : mode[t] = "turn" /\ row[t] \in {"in", "gone"} => reported[t] # 0
    BY <1>3 DEF Write, Delivering
  <2>3. \A t \in InQueue : row[t] = "queued"
    BY DEF InQueue
  <2>. DEFINE Q == InQueue
  <2>. HIDE DEF Q
  <2>4. CASE cli # "running" /\ Turns(1) /\ NewTurn(InQueue) /\ UNCHANGED <<pipe, loose>>
    <3>1. inTurn = {} /\ pipe = {}
      BY <1>1, <2>4 DEF Streaming
    <3>2. /\ \A k \in 1..Len(contents) : contents'[k] = contents[k]
          /\ Len(contents') = Len(contents) + 1 /\ contents'[Len(contents')] = InQueue
          /\ cli' = "running" /\ inTurn' = InQueue
      BY <1>1, <2>4, NewTurnKeeps
    <3>3. Closing'
      BY <1>1, <1>2, <2>1, <2>2, <2>3, <2>4, <3>1, <3>2 DEF Closing
    <3>4. AnswersItsOwn'
      <4> SUFFICES ASSUME NEW t \in Lane, answer'[t] # 0
                   PROVE  t \in contents'[answer'[t]] \/ t \in loose'
        BY DEF AnswersItsOwn
      <4> QED BY <1>2, <2>4, <3>2, AnswersKept
    <3> QED BY <3>3, <3>4
  <2>5. CASE cli = "running" /\ loose' = loose \cup InQueue /\ Join(InQueue) /\ UNCHANGED pipe
    <3>1. Len(contents) > 0
      BY <2>5 DEF Closing
    <3>2. /\ \A k \in 1..Len(contents) : contents[k] \subseteq contents'[k]
          /\ Len(contents') = Len(contents)
          /\ contents'[Len(contents')] = contents[Len(contents)] \cup InQueue
          /\ cli' = cli /\ inTurn' = inTurn \cup InQueue
      BY <1>1, <2>5, <3>1, JoinKeeps
    <3>3. Closing'
      BY <1>1, <1>2, <2>1, <2>2, <2>3, <2>5, <3>1, <3>2 DEF Closing
    <3>4. AnswersItsOwn'
      <4> SUFFICES ASSUME NEW t \in Lane, answer'[t] # 0
                   PROVE  t \in contents'[answer'[t]] \/ t \in loose'
        BY DEF AnswersItsOwn
      <4> QED BY <1>2, <2>5, <3>2, AnswersKept
    <3> QED BY <3>3, <3>4
  <2>6. CASE /\ cli = "running" /\ loose' = loose \cup InQueue
             /\ pipe' = pipe \cup InQueue /\ UNCHANGED <<cli, inTurn, contents>>
    BY <1>1, <1>2, <2>1, <2>2, <2>3, <2>6 DEF Closing, AnswersItsOwn
  <2> QED BY <1>3, <2>4, <2>5, <2>6 DEF Write
<1>4. CASE TakeUp
  <2>1. /\ pipe # {} /\ Join(pipe) /\ pipe' = {} /\ UNCHANGED <<row, loose>>
    BY <1>4 DEF TakeUp
  <2>2. cli = "running" /\ Len(contents) > 0
    BY <1>1, <2>1 DEF Streaming, Closing
  <2>3. /\ \A k \in 1..Len(contents) : contents[k] \subseteq contents'[k]
        /\ Len(contents') = Len(contents)
        /\ contents'[Len(contents')] = contents[Len(contents)] \cup pipe
        /\ cli' = cli /\ inTurn' = inTurn \cup pipe
    BY <1>1, <2>1, <2>2, JoinKeeps
  <2>4. Closing'
    BY <1>1, <1>2, <2>1, <2>2, <2>3 DEF Closing
  <2>5. AnswersItsOwn'
    <3> SUFFICES ASSUME NEW t \in Lane, answer'[t] # 0
                 PROVE  t \in contents'[answer'[t]] \/ t \in loose'
      BY DEF AnswersItsOwn
    <3> QED BY <1>2, <2>1, <2>3, AnswersKept
  <2> QED BY <2>4, <2>5
<1>5. CASE Outside
  <2>1. /\ cli # "running" /\ Turns(1) /\ NewTurn({}) /\ UNCHANGED <<row, pipe, loose>>
        /\ \A t \in Lane : mode[t] = "turn" /\ row[t] \in {"in", "gone"} => reported[t] # 0
    BY <1>5 DEF Outside, Delivering
  <2>2. inTurn = {} /\ pipe = {}
    BY <1>1, <2>1 DEF Streaming
  <2>3. /\ \A k \in 1..Len(contents) : contents'[k] = contents[k]
        /\ Len(contents') = Len(contents) + 1
        /\ cli' = "running" /\ inTurn' = {}
    BY <1>1, <2>1, NewTurnKeeps
  <2>4. Closing'
    BY <1>1, <1>2, <2>1, <2>2, <2>3 DEF Closing
  <2>5. AnswersItsOwn'
    <3> SUFFICES ASSUME NEW t \in Lane, answer'[t] # 0
                 PROVE  t \in contents'[answer'[t]] \/ t \in loose'
      BY DEF AnswersItsOwn
    <3> QED BY <1>2, <2>1, <2>3, AnswersKept
  <2> QED BY <2>4, <2>5
<1> QED BY <1>3, <1>4, <1>5

\* The delivery is reported in the turn its message is in, or was in when the
\* result that was held back ended it.
LEMMA ReportClosing ==
  ASSUME LInv, Closing, AnswersItsOwn, NEW t \in Lane, Report(t)
  PROVE  Closing' /\ AnswersItsOwn'
PROOF
<1>. DEFINE k == Len(contents)
<1>1. /\ LTypeOK /\ Streaming /\ k \in Nat
      /\ mode[t] = "turn" /\ row[t] \in {"in", "gone"} /\ reported[t] = 0
      /\ reported \in [Lane -> Gens] /\ answer \in [Lane -> Gens]
      /\ inTurn \in SUBSET Lane
  BY Lengths DEF LInv, LTypeOK, Report
<1>2. UNCHANGED <<early, row, cli, inTurn, pipe, contents, loose>>
  BY DEF Report, stream
<1>3. reported'[t] = k /\ \A u \in Lane : u # t => reported'[u] = reported[u]
  BY <1>1 DEF Report
<1>4. CASE k \in early[t] /\ Settle({t}, "answered", FALSE) /\ answer' = [answer EXCEPT ![t] = k]
  <2>1. mode'[t] = "done" /\ \A u \in Lane : u # t => mode'[u] = mode[u]
    BY <1>4 DEF Settle
  <2>2. answer'[t] = k /\ \A u \in Lane : u # t => answer'[u] = answer[u]
    BY <1>1, <1>4
  <2>3. t \in contents[k] \/ t \in loose
    <3>1. CASE row[t] = "in"
      <4>1. t \in inTurn \/ t \in pipe
        BY <3>1 DEF Closing
      <4> QED BY <1>1, <4>1 DEF Closing, Streaming
    <3>2. CASE row[t] = "gone"
      BY <1>1, <3>2 DEF Closing
    <3> QED BY <1>1, <3>1, <3>2
  <2>. HIDE DEF k
  <2>4. AnswersItsOwn'
    BY <1>2, <2>2, <2>3 DEF AnswersItsOwn
  <2>5. \A u \in Lane : reported'[u] <= Len(contents)
    BY <1>1, <1>3 DEF Closing, k
  <2>6. Closing'
    BY <1>2, <1>3, <2>1, <2>5 DEF Closing
  <2> QED BY <2>4, <2>6
<1>5. CASE k \notin early[t] /\ UNCHANGED <<mode, answer>>
  <2>1. row[t] \in {"in", "queued"} \/ t \in loose
    BY <1>1, <1>5 DEF Closing
  <2>2. \A u \in Lane : reported'[u] <= Len(contents)
    BY <1>1, <1>3 DEF Closing
  <2>. HIDE DEF k
  <2>3. Closing'
    BY <1>1, <1>2, <1>3, <1>5, <2>1, <2>2 DEF Closing
  <2> QED BY <1>2, <1>5, <2>3 DEF AnswersItsOwn
<1> QED BY <1>4, <1>5 DEF Report, door

\* A result is given to a turn whose message is in the turn it ends.
LEMMA ResultClosing ==
  ASSUME LInv, Closing, AnswersItsOwn, Result
  PROVE  Closing' /\ AnswersItsOwn'
PROOF
<1>. DEFINE k == Len(contents)
            takes == {t \in Listening : IsOurs(t, k)}
            holds == {t \in Listening : reported[t] = 0}
<1>1. /\ LTypeOK /\ Streaming /\ k \in Nat /\ cli = "running" /\ k > 0
      /\ inTurn \in SUBSET Lane /\ pipe \in SUBSET Lane
      /\ \A t \in Lane : reported[t] \in Nat /\ answer[t] \in Nat
  BY Lengths DEF LInv, LTypeOK, Result, Closing
<1>2. /\ \A t \in Lane : answer'[t] = IF t \in takes THEN k ELSE answer[t]
      /\ \A t \in Lane : early'[t] = IF t \in holds THEN early[t] \cup {k} ELSE early[t]
      /\ \A t \in Lane : row'[t] = IF t \in inTurn THEN "gone" ELSE row[t]
      /\ UNCHANGED <<reported, loose>>
      /\ Settle(takes, "answered", gate = "drain")
  BY DEF Result
<1>3. \A t \in Lane : mode'[t] = IF t \in takes THEN "done" ELSE mode[t]
  BY <1>2 DEF Settle
<1>4. /\ \A j \in 1..k : contents[j] \subseteq contents'[j]
      /\ Len(contents') >= k /\ inTurn' = pipe /\ pipe' = {}
      /\ \A t \in inTurn' : t \in contents'[Len(contents')]
      /\ cli' = "running" => Len(contents') > 0
      /\ pipe = {} => cli' # "running" /\ contents' = contents
  <2>1. CASE pipe # {} /\ Turns(1) /\ NewTurn(pipe) /\ pipe' = {}
    BY <1>1, <2>1, NewTurnKeeps
  <2>2. CASE pipe = {} /\ cli' = "idle" /\ inTurn' = {} /\ UNCHANGED <<pipe, contents>>
    BY <1>1, <2>2
  <2> QED BY <2>1, <2>2 DEF Result
<1>5. \A t \in Lane : t \in takes <=> mode[t] \in {"turn", "late"} /\ reported[t] # 0
  BY <1>1 DEF Listening, IsOurs, Closing
<1>6. \A t \in Lane : t \in holds <=> mode[t] \in {"turn", "late"} /\ reported[t] = 0
  BY DEF Listening
<1>7. \A t \in takes : t \in contents[k] \/ t \in loose
  <2> SUFFICES ASSUME NEW t \in takes, t \notin loose PROVE t \in contents[k]
    OBVIOUS
  <2>1. t \in Lane /\ row[t] = "in"
    BY <1>1, <1>5 DEF Closing, Streaming, Listening
  <2>2. t \in inTurn
    BY <1>1, <2>1 DEF Closing, Streaming
  <2> QED BY <2>2 DEF Closing
<1>8. k \in 1..k
  BY <1>1
<1>. HIDE DEF takes, holds, k
<1>9. AnswersItsOwn'
  <2> SUFFICES ASSUME NEW t \in Lane, answer'[t] # 0
               PROVE  t \in contents'[answer'[t]] \/ t \in loose'
    BY DEF AnswersItsOwn
  <2>1. CASE t \in takes
    <3>1. answer'[t] = k
      BY <1>2, <2>1
    <3> QED BY <1>2, <1>4, <1>7, <1>8, <2>1, <3>1
  <2>2. CASE t \notin takes
    <3>1. answer'[t] = answer[t]
      BY <1>2, <2>2
    <3> QED BY <1>2, <1>4, <3>1, AnswersKept DEF k
  <2> QED BY <2>1, <2>2
<1>10. \A t \in Lane : row'[t] = "in" => t \in inTurn' \cup pipe'
  BY <1>2, <1>4 DEF Closing
<1>11. \A t \in Lane : reported'[t] <= Len(contents')
  <2>1. \A t \in Lane : reported[t] <= k
    BY DEF Closing, k
  <2>2. contents' \in Seq(SUBSET Lane)
    BY StepLInv DEF LInv, LTypeOK, Next
  <2>3. Len(contents') \in Nat
    BY <2>2, LenProperties
  <2> QED BY <1>1, <1>2, <1>4, <2>1, <2>3
<1>12. \A t \in Lane : mode'[t] = "turn" /\ row'[t] = "gone" /\ reported'[t] = 0 =>
         \/ t \in loose'
         \/ cli' # "running" /\ Len(contents') \in early'[t] /\ t \in contents'[Len(contents')]
  <2> SUFFICES ASSUME NEW t \in Lane, mode'[t] = "turn", row'[t] = "gone", reported'[t] = 0,
                      t \notin loose
               PROVE  cli' # "running" /\ Len(contents') \in early'[t] /\ t \in contents'[Len(contents')]
    BY <1>2
  <2>1. mode[t] = "turn" /\ reported[t] = 0 /\ t \in holds
    BY <1>2, <1>3, <1>6
  <2>2. row[t] = "in" /\ t \in inTurn
    BY <1>1, <1>2, <2>1 DEF Closing, Streaming
  <2>3. pipe = {} /\ t \in contents[k]
    BY <2>1, <2>2 DEF Closing, k
  <2> QED BY <1>2, <1>4, <2>1, <2>3 DEF k
<1>13. \A t \in Lane : mode'[t] \in {"turn", "late"} => reported'[t] = 0
  BY <1>2, <1>3, <1>5
<1> QED BY <1>4, <1>9, <1>10, <1>11, <1>12, <1>13 DEF Closing

LEMMA DieClosing ==
  ASSUME LInv, Closing, AnswersItsOwn, Die
  PROVE  Closing' /\ AnswersItsOwn'
PROOF
<1>1. /\ Streaming /\ inTurn \in SUBSET Lane /\ pipe \in SUBSET Lane
  BY DEF LInv, LTypeOK
<1>2. inTurn' = {} /\ pipe' = {} /\ cli' = "dead" /\ UNCHANGED <<answer, reported, early, contents>>
  BY DEF Die
<1>3. \A t \in Lane : mode'[t] = mode[t] \/ mode'[t] = "done"
  BY DEF Die, Settle
<1>4. /\ loose \subseteq loose'
      /\ \A t \in Lane : t \in inTurn \cup pipe => row'[t] = "queued" \/ t \in loose'
      /\ \A t \in Lane : t \notin inTurn \cup pipe => row'[t] = row[t]
  BY DEF Die
<1>5. \A t \in Lane : row[t] = "in" => row'[t] = "queued" \/ t \in loose'
  BY <1>4 DEF Closing
<1>6. \A t \in Lane : row'[t] # "in"
  <2>1. \A t \in Lane : t \in inTurn \cup pipe => row'[t] # "in"
    BY DEF Die
  <2> QED BY <1>4, <2>1 DEF Closing
<1>7. \A t \in Lane : row'[t] = "gone" => row[t] = "gone" \/ t \in loose'
  BY <1>4
<1>8. \A t \in Lane : row[t] = "gone" => row'[t] = "gone"
  BY <1>1, <1>4 DEF Streaming
<1>9. \A t \in Lane : row[t] = "queued" => row'[t] = "queued"
  BY <1>1, <1>4 DEF Streaming
<1> QED BY <1>2, <1>3, <1>4, <1>5, <1>6, <1>7, <1>8, <1>9 DEF Closing, AnswersItsOwn

LEMMA StepClosing ==
  ASSUME LInv, Closing, AnswersItsOwn, [Next]_vars
  PROVE  Closing' /\ AnswersItsOwn'
PROOF
<1>1. CASE \/ \E t \in Turn : Queued(OnQueue(t))
           \/ \E w \in Wait : Queued(Resume(w)) \/ GoesOn(w)
           \/ DrainEnds \/ DrainGoesOn \/ UNCHANGED vars
  <2>1. UNCHANGED <<stream, reported, answer, early, mode>>
    BY <1>1 DEF Queued, GoesOn, DrainEnds, DrainGoesOn, vars, watch
  <2> QED BY <2>1, ClosingKept
<1> QED BY <1>1, TurnStepClosing, TickClosing, WriteClosing, ReportClosing, ResultClosing,
           DieClosing DEF Next

\* What a turn is given closes a turn of the CLI that had its message, unless
\* the message met somebody else's turn or went astray with a CLI.
THEOREM AnswersAreOwn == Spec => []AnswersItsOwn
PROOF
<1>1. Init => Closing /\ AnswersItsOwn
  BY DEF Init, Closing, AnswersItsOwn
<1>2. LInv /\ Closing /\ AnswersItsOwn /\ [Next]_vars => Closing' /\ AnswersItsOwn'
  BY StepClosing
<1> QED BY <1>1, <1>2, LaneInvHolds, PTL DEF Spec

-----------------------------------------------------------------------------
(* The order at the gate. *)

\* Wherever both are in s, a is before b.
Before(s, a, b) == \A i, j \in 1..Len(s) : s[i] = a /\ s[j] = b => i < j

LEMMA BeforeTail ==
  ASSUME NEW S, NEW s \in Seq(S), s # <<>>, NEW a, NEW b, Before(s, a, b)
  PROVE  Before(Tail(s), a, b) /\ (Head(s) = b => ~In(a, s))
PROOF
<1>1. /\ Head(s) = s[1] /\ Len(s) \in Nat /\ Len(s) >= 1 /\ Len(Tail(s)) = Len(s) - 1
      /\ \A i \in 1..Len(Tail(s)) : Tail(s)[i] = s[i + 1]
  BY HeadTailProperties, EmptySeq, LenProperties
<1>2. \A i \in 1..Len(Tail(s)) : i + 1 \in 1..Len(s)
  BY <1>1
<1>3. Before(Tail(s), a, b)
  <2> SUFFICES ASSUME NEW i \in 1..Len(Tail(s)), NEW j \in 1..Len(Tail(s)),
                      Tail(s)[i] = a, Tail(s)[j] = b
               PROVE  i < j
    BY DEF Before
  <2>1. s[i + 1] = a /\ s[j + 1] = b /\ i + 1 < j + 1
    BY <1>1, <1>2 DEF Before
  <2> QED BY <1>1, <2>1
<1>4. Head(s) = b => ~In(a, s)
  BY <1>1 DEF Before, In
<1> QED BY <1>3, <1>4

LEMMA BeforeAppend ==
  ASSUME NEW S, NEW s \in Seq(S), NEW y \in S, NEW a, NEW b, Before(s, a, b),
         a # b, y = a => ~In(b, s)
  PROVE  Before(Append(s, y), a, b)
PROOF
<1>. DEFINE q == Append(s, y)
<1>1. /\ Len(s) \in Nat /\ Len(q) = Len(s) + 1 /\ q[Len(s) + 1] = y
      /\ \A i \in 1..Len(s) : q[i] = s[i]
  BY AppendProperties, LenProperties
<1>. HIDE DEF q
<1> SUFFICES ASSUME NEW i \in 1..Len(q), NEW j \in 1..Len(q), q[i] = a, q[j] = b
             PROVE  i < j
  BY DEF Before, q
<1>2. CASE i \in 1..Len(s) /\ j \in 1..Len(s)
  BY <1>1, <1>2 DEF Before
<1>3. CASE j = Len(s) + 1
  BY <1>1, <1>3
<1>4. CASE i = Len(s) + 1 /\ j \in 1..Len(s)
  BY <1>1, <1>4 DEF In
<1> QED BY <1>1, <1>2, <1>3, <1>4

\* A turn that made the wait w only, and is neither sent nor given up.
Pending(t, w) ==
  /\ OwnerOf[w] = t /\ wait[w] # "new"
  /\ \A v \in Wait : OwnerOf[v] = t /\ wait[v] # "new" => v = w
  /\ row[t] = "none" /\ told[t] = "none"

\* The wait v comes after the wait w at the gate and for the slot: it has not
\* got the slot back, and w, if it has, kept it for its turn. Stated over the
\* values a pump is given as well as over the variables.
Behind(ag, rs, gs, h, wt, w, v) ==
  /\ wt[v] \in {"away", "back"} /\ v \notin gs
  /\ wt[w] = "away" => wt[v] = "away"
  /\ Before(ag, w, v) /\ Before(rs, w, v)
  /\ wt[w] = "over" => OwnerOf[w] \in h

Ahead(w, v) == Behind(atGate, resumers, granted, held, wait, w, v)

AtGate ==
  /\ Once(atGate)
  /\ \A w \in Wait : In(w, atGate) <=> wait[w] = "away"
  /\ \A w \in Wait : wait[w] # "plain"

InFlow ==
  /\ \A t \in Turn : flow[t] = "working" =>
       \A w \in Wait : OwnerOf[w] = t => wait[w] \in {"new", "over"}
  /\ \A t \in Lane : flow[t] = "over" => told[t] # "none"
  /\ \A i \in 1..Len(line) : \E w \in Wait : OwnerOf[w] = line[i] /\ wait[w] # "new"
  /\ \A t \in Lane, w \in Wait : Pending(t, w) /\ wait[w] = "over" => t \in held

Queueing ==
  \A i, j \in 1..Len(line) : i < j =>
    \A w, v \in Wait :
      Pending(line[i], w) /\ OwnerOf[v] = line[j] /\ wait[v] # "new" =>
        Ahead(w, v) /\ row[line[j]] = "none"

Lining == AtGate /\ InFlow /\ Queueing

\* A pump starts no wait ahead of one that it is behind.
LEMMA PumpBehind ==
  ASSUME NEW rs \in Seq(Wait), NEW fs \in Seq(Turn), NEW n \in 0..1, NEW gs,
         Pump(rs, fs, n, gs), n = 0 => gs = {} /\ held' = {},
         NEW w \in Wait, NEW v \in Wait, Behind(atGate', rs, gs, held', wait', w, v),
         wait'[w] \in {"away", "back", "over"},
         \A x \in Wait : In(x, rs) => wait'[x] = "back",
         wait'[w] = "back" => In(w, rs) \/ w \in gs
  PROVE  Ahead(w, v)'
PROOF
<1>. USE DEF Ahead
<1>0. Turn \cap Wait = {}
  BY QueueAssumption
<1>1. CASE n # 0 \/ (rs = <<>> /\ fs = <<>>)
  <2>1. resumers' = rs /\ granted' = gs
    BY <1>1 DEF Pump, Free
  <2> QED BY <2>1 DEF Behind
<1>2. CASE n = 0 /\ rs = <<>> /\ fs # <<>>
  <2>1. resumers' = rs /\ granted' = gs \cup {Head(fs)} /\ Head(fs) \in Turn
    BY <1>2, InTail DEF Pump, Free
  <2> QED BY <1>0, <2>1 DEF Behind
<1>3. CASE n = 0 /\ rs # <<>>
  <2>1. resumers' = Tail(rs) /\ granted' = gs \cup {Head(rs)}
    BY <1>3 DEF Pump, Free
  <2>2. Before(Tail(rs), w, v) /\ (Head(rs) = v => ~In(w, rs))
    BY <1>3, BeforeTail DEF Behind
  <2>3. In(Head(rs), rs)
    BY <1>3, InTail
  <2>4. Head(rs) # v
    BY <1>3, <2>2, <2>3 DEF Behind
  <2> QED BY <2>1, <2>2, <2>4 DEF Behind
<1> QED BY <1>1, <1>2, <1>3

\* The queue's state, as the proofs of its order use it.
LEMMA Slotted ==
  ASSUME LInv
  PROVE  /\ resumers \in Seq(Wait) /\ fresh \in Seq(Turn) /\ active \in 0..1
         /\ wait \in [Wait -> {"new", "plain", "away", "back", "over"}]
         /\ flow \in [Turn -> {"new", "queued", "working", "waiting", "over"}]
         /\ \A x, y \in held \cup granted : x = y
         /\ active = 0 => granted = {} /\ held = {}
         /\ held \cup granted # {} => active = 1
         /\ \A w \in Wait : In(w, resumers) => wait[w] = "back"
         /\ \A w \in Wait : w \in granted => wait[w] = "back"
         /\ \A w \in Wait : wait[w] = "back" => In(w, resumers) \/ w \in granted
         /\ \A t \in Turn : flow[t] = "working" => t \in held
         /\ \A t \in held : t \in Turn /\ flow[t] \in {"working", "waiting"}
         /\ \A w \in Wait : wait[w] # "new" => flow[OwnerOf[w]] \notin {"new", "queued"}
PROOF
<1> QED BY DEF LInv, IInv, Fits, Typed, OneSlot, InPlace, Flowing

LEMMA Owned == \A w \in Wait : OwnerOf[w] \in Turn /\ w \notin Turn
PROOF
<1> QED BY QueueAssumption

\* A wait once made is not unmade, a message put in the queue not taken back,
\* and a turn is told once for all.
LEMMA Onward ==
  ASSUME LInv, [Next]_vars
  PROVE  /\ \A w \in Wait : wait[w] # "new" => wait'[w] # "new"
         /\ \A t \in Lane : row[t] # "none" => row'[t] # "none"
         /\ \A t \in Lane : told[t] # "none" => told'[t] # "none"
PROOF
<1>0. /\ wait \in [Wait -> {"new", "plain", "away", "back", "over"}]
      /\ row \in [Lane -> {"none", "queued", "in", "gone"}]
      /\ told \in [Lane -> {"none", "answered", "died", "stalled", "busy", "unsent"}]
  BY Slotted DEF LInv, LTypeOK
<1>1. CASE \/ \E t \in Turn : Queued(OnQueue(t))
           \/ \E w \in Wait : Queued(Resume(w)) \/ GoesOn(w)
  <2>1. UNCHANGED <<row, told>>
    BY <1>1 DEF Queued, GoesOn, watch, stream
  <2>2. \A w \in Wait : wait[w] # "new" => wait'[w] # "new"
    BY <1>0, <1>1 DEF Queued, OnQueue, TaskEnds, Enqueue, Begin, GoOn, Finish, End, GoesOn,
                      Resume, Retake, Move
  <2> QED BY <2>1, <2>2
<1>2. ASSUME NEW t \in Lane, TurnStep(t)
      PROVE  /\ \A w \in Wait : wait[w] # "new" => wait'[w] # "new"
             /\ \A u \in Lane : row[u] # "none" => row'[u] # "none"
             /\ \A u \in Lane : told[u] # "none" => told'[u] # "none"
  <2>1. CASE Arrive(t)
    BY <1>0, <2>1 DEF Arrive, Release, Move, qvars, stream
  <2>2. CASE GiveWay(t) \/ SendFails(t)
    BY <1>0, <2>2 DEF GiveWay, SendFails, Told, qvars, stream
  <2>3. CASE Send(t)
    BY <1>0, <2>3 DEF Send, qvars
  <2> QED BY <1>2, <2>1, <2>2, <2>3 DEF TurnStep
<1>3. ASSUME NEW t \in Lane, Tick(t)
      PROVE  /\ UNCHANGED <<wait, row>>
             /\ \A u \in Lane : told[u] # "none" => told'[u] # "none"
  <2>1. CASE DeadSeen(t)
    BY <1>0, <2>1 DEF DeadSeen, Settle, qvars, stream
  <2>2. CASE Stall(t) \/ StallUnread(t) \/ StallUndelivered(t)
    BY <1>0, <2>2 DEF Stall, StallUnread, StallUndelivered, Told, qvars, stream
  <2>3. CASE LateOver(t)
    BY <2>3 DEF LateOver, qvars, stream
  <2> QED BY <1>3, <2>1, <2>2, <2>3 DEF Tick
<1>4. ASSUME NEW t \in Lane, Report(t)
      PROVE  /\ UNCHANGED <<wait, row>>
             /\ \A u \in Lane : told[u] # "none" => told'[u] # "none"
  <2>1. CASE Settle({t}, "answered", FALSE)
    BY <1>4, <2>1 DEF Report, Settle, qvars, stream
  <2>2. CASE told' = told
    BY <1>4, <2>2 DEF Report, qvars, stream
  <2> QED BY <1>4, <2>1, <2>2 DEF Report
<1>5. CASE Result \/ Die
  <2>1. wait' = wait /\ \A u \in Lane : row[u] # "none" => row'[u] # "none"
    BY <1>5 DEF Result, Die, qvars
  <2>2. \A u \in Lane : told[u] # "none" => told'[u] # "none"
    BY <1>5 DEF Result, Die, Settle
  <2> QED BY <2>1, <2>2
<1>6. CASE Write \/ TakeUp \/ Outside \/ DrainEnds \/ DrainGoesOn \/ UNCHANGED vars
  BY <1>6 DEF Write, TakeUp, Outside, DrainEnds, DrainGoesOn, vars, qvars, watch, stream
<1> QED BY <1>1, <1>2, <1>3, <1>4, <1>5, <1>6 DEF Next

LEMMA PendingBack ==
  ASSUME LInv, [Next]_vars, NEW t \in Lane, NEW w \in Wait, wait[w] # "new", Pending(t, w)'
  PROVE  Pending(t, w)
PROOF
<1> QED BY Onward DEF Pending

\* A step of the queue leaves the order of two waits as it is, as long as the
\* turn of the first keeps what it has.
LEMMA EnqueueAhead ==
  ASSUME LInv, NEW x \in Turn, Enqueue(x), atGate' = atGate, NEW w \in Wait, NEW v \in Wait,
         wait[w] \in {"away", "back", "over"}, Ahead(w, v)
  PROVE  Ahead(w, v)'
PROOF
<1>. DEFINE fs == Append(fresh, x)
<1>1. fs \in Seq(Turn)
  BY Slotted, InAppend
<1>. HIDE DEF fs
<1>2. Pump(resumers, fs, active, granted) /\ UNCHANGED <<held, wait>>
  BY DEF Enqueue, fs
<1>3. Behind(atGate', resumers, granted, held', wait', w, v)
  BY <1>2 DEF Ahead, Behind
<1> QED BY <1>1, <1>2, <1>3, Slotted, PumpBehind

LEMMA BeginAhead ==
  ASSUME LInv, NEW x \in Turn, Begin(x) \/ GoOn(x), atGate' = atGate,
         NEW w \in Wait, NEW v \in Wait, Ahead(w, v)
  PROVE  Ahead(w, v)'
PROOF
<1> QED BY DEF Begin, GoOn, slot, Ahead, Behind

\* The turn that ends is not the one that has the slot back for w.
LEMMA EndsAhead ==
  ASSUME LInv, NEW x \in Turn, TaskEnds(x), atGate' = atGate, NEW w \in Wait, NEW v \in Wait,
         wait[w] \in {"away", "back", "over"}, Ahead(w, v), OwnerOf[w] # x
  PROVE  Ahead(w, v)'
PROOF
<1>1. wait' = wait /\ held' = held \ {x}
  BY DEF TaskEnds, Finish, End
<1>2. Behind(atGate', resumers, granted, held', wait', w, v)
  BY <1>1 DEF Ahead, Behind
<1>3. CASE x \in held
  <2>. DEFINE n == active - 1
  <2>1. Pump(resumers, fresh, n, granted)
    BY <1>3 DEF TaskEnds, Finish, End, Give
  <2>2. active = 1 /\ held' = {} /\ n \in 0..1
    BY <1>1, <1>3, Slotted
  <2>3. granted = {}
    <3>1. ASSUME NEW y \in granted PROVE FALSE
      <4>1. y = x
        BY <1>3, <3>1, Slotted
      <4>2. flow[x] = "queued"
        BY <3>1, <4>1 DEF LInv, IInv, Fits, InPlace
      <4> QED BY <1>3, <4>2, Slotted
    <3> QED BY <3>1
  <2>. HIDE DEF n
  <2> QED BY <1>1, <1>2, <2>1, <2>2, <2>3, Slotted, PumpBehind
<1>4. CASE x \notin held
  <2>1. UNCHANGED slot
    BY <1>4 DEF TaskEnds, Finish, End
  <2> QED BY <1>2, <2>1 DEF slot, Ahead
<1> QED BY <1>3, <1>4

\* A granted wait is not v; if it is w, its turn is not over and has the slot.
LEMMA ResumeAhead ==
  ASSUME LInv, NEW x \in Wait, Resume(x), atGate' = atGate, NEW w \in Wait, NEW v \in Wait,
         wait[w] \in {"away", "back", "over"}, Ahead(w, v), flow[OwnerOf[w]] # "over"
  PROVE  Ahead(w, v)'
PROOF
<1>1. x \in granted /\ x # v /\ wait' = [wait EXCEPT ![x] = "over"] /\ OwnerOf[w] \in Turn
  BY Owned DEF Resume, Move, Ahead, Behind
<1>2. wait'[v] = wait[v] /\ (x # w => wait'[w] = wait[w]) /\ wait'[x] = "over"
  BY <1>1, Slotted
<1>3. active = 1 /\ \A y \in held \cup granted : y = x
  BY <1>1, Slotted
<1>4. held = {}
  <2>1. x \notin held
    BY Owned, Slotted
  <2> QED BY <1>3, <2>1
<1>5. CASE flow[OwnerOf[x]] = "over"
  <2>1. x # w
    BY <1>5
  <2>. DEFINE gs == granted \ {x}
  <2>2. gs = {} /\ held' = held
    BY <1>3, <1>5 DEF Resume, HandOn
  <2>3. Pump(resumers, fresh, active - 1, gs)
    BY <1>5 DEF Resume, HandOn, Give
  <2>4. Behind(atGate', resumers, gs, held', wait', w, v)
    BY <1>2, <2>1, <2>2 DEF Ahead, Behind
  <2>5. \A y \in Wait : In(y, resumers) => wait'[y] = "back"
    <3>1. ~In(x, resumers)
      BY <1>1 DEF LInv, IInv, Fits, InPlace
    <3> QED BY <1>1, <3>1, Slotted
  <2>6. wait'[w] = "back" => In(w, resumers) \/ w \in gs
    BY <1>2, <2>1, Slotted
  <2>. HIDE DEF gs
  <2> QED BY <1>2, <1>3, <1>4, <2>1, <2>2, <2>3, <2>4, <2>5, <2>6, Slotted, PumpBehind
<1>6. CASE flow[OwnerOf[x]] # "over"
  <2>1. /\ held' = held \cup {OwnerOf[x]} /\ granted' = granted \ {x}
        /\ UNCHANGED resumers
    BY <1>6 DEF Resume, HandOn
  <2> QED BY <1>1, <1>2, <2>1 DEF Ahead, Behind
<1> QED BY <1>5, <1>6

\* The waits go on from the gate in the order they came to it.
LEMMA GoesOnAhead ==
  ASSUME LInv, AtGate, NEW x \in Wait, GoesOn(x), NEW w \in Wait, NEW v \in Wait, w # v,
         wait[w] \in {"away", "back", "over"}, Ahead(w, v)
  PROVE  Ahead(w, v)'
PROOF
<1>. DEFINE rs == Append(resumers, x)
<1>1. /\ atGate \in Seq(Wait) /\ atGate # <<>> /\ x = Head(atGate) /\ atGate' = Tail(atGate)
      /\ wait[x] = "away" /\ wait' = [wait EXCEPT ![x] = "back"]
      /\ Pump(rs, fresh, active, granted) /\ held' = held
  BY DEF GoesOn, Retake, Move, ComeBack, LInv, LTypeOK
<1>2. /\ wait'[x] = "back" /\ \A y \in Wait : y # x => wait'[y] = wait[y]
  BY <1>1, Slotted
<1>3. Before(atGate', w, v) /\ (x = v => ~In(w, atGate))
  BY <1>1, BeforeTail DEF Ahead, Behind
<1>4. x = v => wait[w] # "away"
  BY <1>3 DEF AtGate
<1>5. Before(rs, w, v) /\ rs \in Seq(Wait) /\ \A y : In(y, rs) <=> In(y, resumers) \/ y = x
  <2>1. x = w => ~In(v, resumers)
    BY <1>1, Slotted DEF Ahead, Behind
  <2>2. Before(resumers, w, v) /\ resumers \in Seq(Wait)
    BY Slotted DEF Ahead, Behind
  <2> QED BY <2>1, <2>2, BeforeAppend, InAppend
<1>. HIDE DEF rs
<1>6. Behind(atGate', rs, granted, held', wait', w, v)
  <2>1. wait'[v] \in {"away", "back"} /\ v \notin granted
    BY <1>2 DEF Ahead, Behind
  <2>2. wait'[w] = "away" => wait'[v] = "away"
    BY <1>2, <1>4 DEF Ahead, Behind
  <2>3. wait'[w] = "over" => OwnerOf[w] \in held'
    BY <1>1, <1>2 DEF Ahead, Behind
  <2> QED BY <1>3, <1>5, <2>1, <2>2, <2>3 DEF Behind
<1>7. \A y \in Wait : In(y, rs) => wait'[y] = "back"
  BY <1>2, <1>5, Slotted
<1>8. wait'[w] = "back" => In(w, rs) \/ w \in granted
  BY <1>2, <1>5, Slotted
<1>9. wait'[w] \in {"away", "back", "over"}
  BY <1>2
<1> QED BY <1>1, <1>5, <1>6, <1>7, <1>8, <1>9, Slotted, PumpBehind

\* A turn that goes to wait gives its slot up, and it is not the turn of w.
LEMMA ReleaseAhead ==
  ASSUME LInv, NEW x \in Wait, Release(x), flow[OwnerOf[x]] = "working",
         atGate' = Append(atGate, x), NEW w \in Wait, NEW v \in Wait, w # v, w # x,
         wait[w] \in {"away", "back", "over"}, OwnerOf[w] # OwnerOf[x],
         \/ v # x /\ Ahead(w, v)
         \/ /\ v = x /\ ~In(x, atGate)
            /\ wait[w] = "over" => OwnerOf[w] \in held
  PROVE  Ahead(w, v)'
PROOF
<1>. DEFINE t == OwnerOf[x]
<1>1. t \in held /\ OwnerOf[w] \in Turn
  BY Owned, Slotted
<1>2. /\ wait' = [wait EXCEPT ![x] = "away"] /\ held' = held \ {t}
      /\ Pump(resumers, fresh, active - 1, granted)
  BY <1>1 DEF Release, MayGive, Move, Give
<1>3. active = 1 /\ held' = {} /\ granted = {}
  <2>1. active = 1 /\ \A y \in held \cup granted : y = t
    BY <1>1, Slotted
  <2>2. t \notin granted
    <3>1. t \in granted => flow[t] = "queued"
      BY <1>1, Owned DEF LInv, IInv, Fits, InPlace
    <3> QED BY <3>1
  <2> QED BY <1>2, <2>1, <2>2
<1>4. wait'[x] = "away" /\ (\A y \in Wait : y # x => wait'[y] = wait[y]) /\ wait[x] = "new"
  BY <1>2, Slotted DEF Release
<1>5. atGate \in Seq(Wait) /\ ~In(x, resumers)
  BY <1>4, Slotted DEF LInv, LTypeOK
<1>6. wait[w] # "over"
  <2>1. wait[w] = "over" => OwnerOf[w] \in held
    BY DEF Ahead, Behind
  <2>2. OwnerOf[w] \notin held
    BY <1>1, Slotted
  <2> QED BY <2>1, <2>2
<1>7. Before(atGate', w, v) /\ Before(resumers, w, v)
  <2>1. CASE v # x /\ Ahead(w, v)
    BY <1>5, <2>1, BeforeAppend DEF Ahead, Behind
  <2>2. CASE v = x /\ ~In(x, atGate)
    <3>1. Before(atGate, w, x) /\ Before(resumers, w, x)
      BY <1>5, <2>2 DEF Before, In
    <3> QED BY <1>5, <2>2, <3>1, BeforeAppend
  <2> QED BY <2>1, <2>2
<1>8. Behind(atGate', resumers, granted, held', wait', w, v)
  BY <1>3, <1>4, <1>6, <1>7 DEF Ahead, Behind
<1>9. \A y \in Wait : In(y, resumers) => wait'[y] = "back"
  BY <1>4, <1>5, Slotted
<1>10. wait'[w] = "back" => In(w, resumers) \/ w \in granted
  BY <1>4, Slotted
<1>. DEFINE n == active - 1
<1>11. n \in 0..1 /\ Pump(resumers, fresh, n, granted)
  BY <1>2, <1>3
<1>. HIDE DEF n
<1> QED BY <1>3, <1>4, <1>8, <1>9, <1>10, <1>11, Slotted, PumpBehind

\* The steps of the lane that are none of the agent's queue.
OffQueue ==
  \/ \E t \in Lane : GiveWay(t) \/ Send(t) \/ SendFails(t) \/ Tick(t) \/ Report(t)
  \/ Write \/ TakeUp \/ Outside \/ Result \/ Die \/ DrainEnds \/ DrainGoesOn
  \/ UNCHANGED vars

LEMMA StaysOff ==
  ASSUME OffQueue
  PROVE  UNCHANGED <<resumers, fresh, active, granted, held, flow, wait, atGate, line>>
PROOF
<1>1. ASSUME NEW t \in Lane, GiveWay(t) \/ Send(t) \/ SendFails(t) \/ Report(t)
      PROVE  UNCHANGED <<qvars, atGate, line>>
  BY <1>1 DEF GiveWay, Send, SendFails, Report
<1>2. ASSUME NEW t \in Lane, Tick(t)
      PROVE  UNCHANGED <<qvars, atGate, line>>
  BY <1>2 DEF Tick, DeadSeen, Stall, StallUnread, StallUndelivered, LateOver
<1>3. CASE Write \/ TakeUp \/ Outside \/ Result \/ Die \/ DrainEnds \/ DrainGoesOn
  <2>1. UNCHANGED <<qvars, atGate, line>>
    BY <1>3 DEF Write, TakeUp, Outside, Result, Die, DrainEnds, DrainGoesOn
  <2> QED BY <2>1 DEF qvars, slot
<1>4. CASE UNCHANGED vars
  BY <1>4 DEF vars, qvars, slot
<1> QED BY <1>1, <1>2, <1>3, <1>4 DEF OffQueue, qvars, slot

\* The steps that are.
LEMMA OnOrOff ==
  ASSUME [Next]_vars
  PROVE  \/ OffQueue
         \/ \E x \in Turn : (Enqueue(x) \/ Begin(x) \/ GoOn(x) \/ TaskEnds(x))
                            /\ UNCHANGED <<atGate, line, told, row>>
         \/ \E x \in Wait : Resume(x) /\ UNCHANGED <<atGate, line, told, row>>
         \/ \E x \in Wait : GoesOn(x) /\ UNCHANGED <<line, told, row>>
         \/ \E t \in Lane : Arrive(t) /\ UNCHANGED <<told, row>>
PROOF
<1>1. ASSUME NEW x \in Turn, Queued(OnQueue(x))
      PROVE  (Enqueue(x) \/ Begin(x) \/ GoOn(x) \/ TaskEnds(x))
             /\ UNCHANGED <<atGate, line, told, row>>
  BY <1>1 DEF Queued, OnQueue, watch, stream
<1>2. ASSUME NEW x \in Wait, Queued(Resume(x))
      PROVE  Resume(x) /\ UNCHANGED <<atGate, line, told, row>>
  BY <1>2 DEF Queued, watch, stream
<1>3. ASSUME NEW x \in Wait, GoesOn(x)
      PROVE  UNCHANGED <<line, told, row>>
  BY <1>3 DEF GoesOn, watch, stream
<1>4. ASSUME NEW t \in Lane, Arrive(t)
      PROVE  UNCHANGED <<told, row>>
  BY <1>4 DEF Arrive, stream
<1> QED BY <1>1, <1>2, <1>3, <1>4 DEF Next, TurnStep, OffQueue

\* A turn that arrives at an open gate keeps its slot; at a shut one it makes a
\* wait, and takes its place in the line with its first.
LEMMA Arrives ==
  ASSUME LInv, NEW t \in Lane, Arrive(t)
  PROVE  /\ flow[t] = "working" /\ t \in held /\ row[t] = "none"
         /\ \/ UNCHANGED <<resumers, fresh, active, granted, held, flow, wait, atGate, line>>
            \/ \E x \in Wait :
                 /\ OwnerOf[x] = t /\ Release(x) /\ atGate' = Append(atGate, x)
                 /\ wait[x] = "new" /\ wait' = [wait EXCEPT ![x] = "away"]
                 /\ flow' = [flow EXCEPT ![t] = "waiting"] /\ held' = held \ {t}
                 /\ \/ /\ line' = line
                       /\ \E y \in Wait : OwnerOf[y] = t /\ wait[y] # "new"
                    \/ /\ line' = Append(line, t)
                       /\ \A y \in Wait : OwnerOf[y] = t => wait[y] = "new"
PROOF
<1>1. flow[t] = "working" /\ t \in held /\ mode[t] = "before"
  BY Slotted, LaneAssumption DEF Arrive
<1>2. row[t] = "none"
  BY <1>1 DEF LInv, Streaming
<1>3. CASE UNCHANGED <<qvars, atGate, line>>
  BY <1>1, <1>2, <1>3 DEF qvars, slot
<1>4. ASSUME NEW x \in Wait, OwnerOf[x] = t, Release(x), atGate' = Append(atGate, x),
             line' = IF \E y \in Wait : OwnerOf[y] = t /\ wait[y] # "new"
                       THEN line ELSE Append(line, t)
      PROVE  /\ wait[x] = "new" /\ wait' = [wait EXCEPT ![x] = "away"]
             /\ flow' = [flow EXCEPT ![t] = "waiting"] /\ held' = held \ {t}
             /\ \/ /\ line' = line
                   /\ \E y \in Wait : OwnerOf[y] = t /\ wait[y] # "new"
                \/ /\ line' = Append(line, t)
                   /\ \A y \in Wait : OwnerOf[y] = t => wait[y] = "new"
  BY <1>1, <1>4 DEF Release, MayGive, Move, Goto
<1> QED BY <1>1, <1>2, <1>3, <1>4 DEF Arrive

LEMMA StepAtGate ==
  ASSUME LInv, AtGate, [Next]_vars
  PROVE  AtGate'
PROOF
<1>0. atGate \in Seq(Wait)
  BY DEF LInv, LTypeOK
<1>1. CASE wait' = wait /\ atGate' = atGate
  BY <1>1 DEF AtGate
<1>2. ASSUME NEW x \in Turn, Enqueue(x) \/ Begin(x) \/ GoOn(x) \/ TaskEnds(x)
      PROVE  wait' = wait
  BY <1>2 DEF Enqueue, Begin, GoOn, TaskEnds, Finish, End
<1>3. ASSUME NEW x \in Wait, Resume(x), atGate' = atGate  PROVE AtGate'
  <2>1. wait[x] = "back" /\ wait' = [wait EXCEPT ![x] = "over"]
    BY <1>3, Slotted DEF Resume, Move
  <2>2. wait'[x] = "over" /\ \A y \in Wait : y # x => wait'[y] = wait[y]
    BY <2>1, Slotted
  <2> QED BY <1>3, <2>1, <2>2 DEF AtGate
<1>4. ASSUME NEW x \in Wait, GoesOn(x)  PROVE AtGate'
  <2>1. /\ atGate # <<>> /\ x = Head(atGate) /\ atGate' = Tail(atGate)
        /\ wait' = [wait EXCEPT ![x] = "back"]
    BY <1>4 DEF GoesOn, Retake, Move
  <2>2. wait'[x] = "back" /\ \A y \in Wait : y # x => wait'[y] = wait[y]
    BY <2>1, Slotted
  <2>3. /\ Once(atGate') /\ ~In(x, atGate')
        /\ \A y \in Wait : y # x => (In(y, atGate') <=> In(y, atGate))
    BY <1>0, <2>1, InTail DEF AtGate
  <2> QED BY <2>2, <2>3 DEF AtGate
<1>5. ASSUME NEW x \in Wait, wait[x] = "new", wait' = [wait EXCEPT ![x] = "away"],
             atGate' = Append(atGate, x)
      PROVE  AtGate'
  <2>1. wait'[x] = "away" /\ \A y \in Wait : y # x => wait'[y] = wait[y]
    BY <1>5, Slotted
  <2>2. ~In(x, atGate)
    BY <1>5 DEF AtGate
  <2>3. Once(atGate') /\ \A y : In(y, atGate') <=> In(y, atGate) \/ y = x
    BY <1>0, <1>5, <2>2, InAppend DEF AtGate
  <2> QED BY <2>1, <2>3 DEF AtGate
<1> QED BY <1>1, <1>2, <1>3, <1>4, <1>5, OnOrOff, StaysOff, Arrives

LEMMA StepInFlow ==
  ASSUME LInv, AtGate, InFlow, [Next]_vars
  PROVE  InFlow'
PROOF
<1>. DEFINE Quits(t) == \A w \in Wait : OwnerOf[w] = t => wait[w] \in {"new", "over"}
<1>0. /\ \A w \in Wait : wait[w] # "new" => wait'[w] # "new"
      /\ \A t \in Lane : told[t] # "none" => told'[t] # "none"
      /\ \A t \in Lane, w \in Wait : wait[w] # "new" /\ Pending(t, w)' => Pending(t, w)
  BY Onward, PendingBack
<1>1. ASSUME line' = line
      PROVE  \A i \in 1..Len(line') : \E w \in Wait : OwnerOf[w] = line'[i] /\ wait'[w] # "new"
  BY <1>0, <1>1 DEF InFlow
<1>2. CASE UNCHANGED <<held, flow, wait, line>>
  BY <1>0, <1>1, <1>2 DEF InFlow
<1>3. ASSUME NEW x \in Turn, Enqueue(x) \/ Begin(x) \/ GoOn(x) \/ TaskEnds(x),
             UNCHANGED <<line, told, row>>
      PROVE  InFlow'
  <2>1. wait' = wait
    BY <1>3 DEF Enqueue, Begin, GoOn, TaskEnds, Finish, End
  <2>2. \A t \in Turn : t # x => flow'[t] = flow[t]
    BY <1>3, Slotted DEF Enqueue, Begin, GoOn, TaskEnds, Finish, End, Goto
  <2>3. flow'[x] = "working" => Quits(x)
    <3>1. CASE Enqueue(x) \/ TaskEnds(x)
      BY <3>1, Slotted DEF Enqueue, TaskEnds, Finish, End, Goto
    <3>2. CASE Begin(x)
      <4>1. flow[x] = "queued"
        BY <3>2 DEF Begin, LInv, IInv, Fits, InPlace
      <4> QED BY <4>1, Slotted
    <3>3. CASE GoOn(x)
      BY <3>3 DEF GoOn
    <3> QED BY <1>3, <3>1, <3>2, <3>3
  <2>4. x \in Lane /\ flow'[x] = "over" => told[x] # "none"
    <3>1. CASE Enqueue(x) \/ Begin(x) \/ GoOn(x)
      BY <3>1, Slotted DEF Enqueue, Begin, GoOn, Goto
    <3>2. CASE TaskEnds(x)
      BY <3>2 DEF TaskEnds
    <3> QED BY <1>3, <3>1, <3>2
  <2>5. \A t \in Lane, w \in Wait : Pending(t, w)' /\ wait'[w] = "over" => t \in held'
    <3> SUFFICES ASSUME NEW t \in Lane, NEW w \in Wait, Pending(t, w)', wait'[w] = "over"
                 PROVE  t \in held'
      OBVIOUS
    <3>1. t \in held /\ told[t] = "none"
      BY <1>0, <2>1 DEF InFlow, Pending
    <3> QED BY <1>3, <3>1 DEF Enqueue, Begin, GoOn, TaskEnds, Finish, End
  <2> QED BY <1>1, <1>3, <2>1, <2>2, <2>3, <2>4, <2>5, LaneAssumption DEF InFlow
<1>4. ASSUME NEW x \in Wait, Resume(x) \/ GoesOn(x), UNCHANGED <<line, told, row>>
      PROVE  InFlow'
  <2>1. /\ flow' = flow /\ \A y \in Wait : y # x => wait'[y] = wait[y]
        /\ Resume(x) => wait[x] = "back" /\ wait'[x] = "over"
        /\ GoesOn(x) => wait[x] = "away" /\ wait'[x] = "back" /\ held' = held
    BY <1>4, Slotted DEF Resume, GoesOn, Retake, Move
  <2>2. \A t \in Turn : flow'[t] = "working" =>
          \A w \in Wait : OwnerOf[w] = t => wait'[w] \in {"new", "over"}
    BY <1>4, <2>1 DEF InFlow
  <2>3. \A t \in Lane, w \in Wait : Pending(t, w)' /\ wait'[w] = "over" => t \in held'
    <3> SUFFICES ASSUME NEW t \in Lane, NEW w \in Wait, Pending(t, w)', wait'[w] = "over"
                 PROVE  t \in held'
      OBVIOUS
    <3>1. Pending(t, w)
      BY <1>0, <1>4, <2>1
    <3>2. CASE w # x
      <4>1. t \in held
        BY <2>1, <3>1, <3>2 DEF InFlow
      <4> QED BY <1>4, <2>1, <4>1, Slotted, Owned DEF Resume, HandOn, Give, Pump
    <3>3. CASE w = x
      <4>1. flow[OwnerOf[x]] # "over" /\ OwnerOf[x] = t
        BY <3>1, <3>3 DEF InFlow, Pending
      <4> QED BY <1>4, <2>1, <3>3, <4>1 DEF Resume, HandOn
    <3> QED BY <3>2, <3>3
  <2> QED BY <1>1, <1>4, <2>1, <2>2, <2>3 DEF InFlow
<1>5. ASSUME NEW u \in Lane, NEW x \in Wait, OwnerOf[x] = u, wait[x] = "new",
             wait' = [wait EXCEPT ![x] = "away"], flow' = [flow EXCEPT ![u] = "waiting"],
             held' = held \ {u}, line' = line \/ line' = Append(line, u), told' = told
      PROVE  InFlow'
  <2>1. wait'[x] = "away" /\ \A y \in Wait : y # x => wait'[y] = wait[y]
    BY <1>5, Slotted
  <2>2. u \in Turn /\ flow'[u] = "waiting" /\ \A t \in Turn : t # u => flow'[t] = flow[t]
    BY <1>5, Slotted, LaneAssumption
  <2>3. \A t \in Turn : flow'[t] = "working" =>
          \A w \in Wait : OwnerOf[w] = t => wait'[w] \in {"new", "over"}
    BY <1>5, <2>1, <2>2 DEF InFlow
  <2>4. \A t \in Lane : flow'[t] = "over" => told'[t] # "none"
    BY <1>5, <2>2, LaneAssumption DEF InFlow
  <2>5. \A i \in 1..Len(line') : \E w \in Wait : OwnerOf[w] = line'[i] /\ wait'[w] # "new"
    <3>1. CASE line' = Append(line, u)
      <4>1. line \in Seq(Lane)
        BY DEF LInv, LTypeOK
      <4>2. /\ Len(line') = Len(line) + 1 /\ line'[Len(line) + 1] = u /\ Len(line) \in Nat
            /\ \A i \in 1..Len(line) : line'[i] = line[i]
        BY <3>1, <4>1, AppendProperties, LenProperties
      <4>3. \A i \in 1..Len(line') : i \in 1..Len(line) \/ i = Len(line) + 1
        BY <4>2
      <4> QED BY <1>0, <1>5, <2>1, <4>2, <4>3 DEF InFlow
    <3> QED BY <1>1, <1>5, <3>1
  <2>6. \A t \in Lane, w \in Wait : Pending(t, w)' /\ wait'[w] = "over" => t \in held'
    <3> SUFFICES ASSUME NEW t \in Lane, NEW w \in Wait, Pending(t, w)', wait'[w] = "over"
                 PROVE  t \in held'
      OBVIOUS
    <3>1. w # x /\ wait[w] = "over"
      BY <2>1
    <3>2. t \in held /\ t # u
      BY <1>0, <1>5, <2>1, <3>1 DEF InFlow, Pending
    <3> QED BY <1>5, <3>2
  <2> QED BY <2>3, <2>4, <2>5, <2>6 DEF InFlow
<1> QED BY <1>2, <1>3, <1>4, <1>5, OnOrOff, StaysOff, Arrives

\* A message comes to the queue when its turn sends it.
LEMMA RowNone ==
  ASSUME LInv, [Next]_vars, NEW t \in Lane, row[t] = "none"
  PROVE  row'[t] = "none" \/ Send(t)
PROOF
<1>0. /\ row \in [Lane -> {"none", "queued", "in", "gone"}]
      /\ t \notin inTurn \cup pipe
  BY DEF LInv, LTypeOK, Streaming
<1>1. ASSUME NEW u \in Lane, Tick(u) \/ Report(u)  PROVE row' = row
  BY <1>1 DEF Tick, DeadSeen, Stall, StallUnread, StallUndelivered, LateOver, Report, stream
<1>2. ASSUME NEW u \in Lane, GiveWay(u) \/ SendFails(u)  PROVE row' = row
  BY <1>2 DEF GiveWay, SendFails, stream
<1>3. ASSUME NEW u \in Lane, Send(u)  PROVE row'[t] = "none" \/ Send(t)
  BY <1>0, <1>3 DEF Send
<1>4. CASE Write
  BY <1>4 DEF Write, InQueue
<1>5. CASE Result \/ Die
  BY <1>0, <1>5 DEF Result, Die
<1>6. CASE TakeUp \/ Outside \/ DrainEnds \/ DrainGoesOn
  BY <1>6 DEF TakeUp, Outside, DrainEnds, DrainGoesOn, stream
<1>7. CASE UNCHANGED vars
  BY <1>7 DEF vars, stream
<1> QED BY <1>1, <1>2, <1>3, <1>4, <1>5, <1>6, <1>7, OnOrOff DEF OffQueue

\* A wait is made by a turn at work.
LEMMA NewWait ==
  ASSUME LInv, [Next]_vars, NEW v \in Wait, wait[v] = "new", wait'[v] # "new"
  PROVE  flow[OwnerOf[v]] = "working"
PROOF
<1>1. ASSUME NEW x \in Turn, Enqueue(x) \/ Begin(x) \/ GoOn(x) \/ TaskEnds(x)
      PROVE  wait' = wait
  BY <1>1 DEF Enqueue, Begin, GoOn, TaskEnds, Finish, End
<1>2. ASSUME NEW x \in Wait, Resume(x) \/ GoesOn(x)  PROVE wait'[v] = "new"
  <2>1. wait[x] # "new"
    BY <1>2, Slotted DEF Resume, GoesOn, Retake
  <2> QED BY <1>2, <2>1, Slotted DEF Resume, GoesOn, Retake, Move
<1>3. ASSUME NEW t \in Lane, Arrive(t)  PROVE flow[OwnerOf[v]] = "working"
  BY <1>3, Arrives, Slotted
<1> QED BY <1>1, <1>2, <1>3, OnOrOff, StaysOff

LEMMA AheadApart ==
  ASSUME LInv, AtGate, NEW w \in Wait, NEW v \in Wait, Ahead(w, v)
  PROVE  w # v
PROOF
<1> SUFFICES ASSUME w = v PROVE FALSE
  OBVIOUS
<1>1. wait[w] \in {"away", "back"} /\ w \notin granted
  BY DEF Ahead, Behind
<1>2. In(w, atGate) \/ In(w, resumers)
  BY <1>1, Slotted DEF AtGate
<1>3. /\ Before(atGate, w, w) /\ Before(resumers, w, w)
      /\ Len(atGate) \in Nat /\ Len(resumers) \in Nat
  BY Slotted, LenProperties DEF Ahead, Behind, LInv, LTypeOK
<1> QED BY <1>2, <1>3 DEF Before, In

\* The order of two waits that were made stays, the first being its turn's only
\* one before and after the step.
LEMMA StepAhead ==
  ASSUME LInv, AtGate, InFlow, [Next]_vars, NEW t \in Lane, NEW w \in Wait, NEW v \in Wait,
         wait[w] # "new", wait[v] # "new", Pending(t, w)', Ahead(w, v)
  PROVE  Ahead(w, v)'
PROOF
<1>1. Pending(t, w) /\ w # v /\ wait[w] \in {"away", "back", "over"}
  BY PendingBack, AheadApart, Slotted DEF AtGate
<1>2. OwnerOf[w] = t /\ told[t] = "none" /\ flow[t] # "over"
  BY <1>1 DEF Pending, InFlow
<1>3. CASE OffQueue
  BY <1>3, StaysOff DEF Ahead, Behind
<1>4. ASSUME NEW x \in Turn, Enqueue(x) \/ Begin(x) \/ GoOn(x) \/ TaskEnds(x),
             atGate' = atGate
      PROVE  Ahead(w, v)'
  <2>1. TaskEnds(x) => x # OwnerOf[w]
    BY <1>2 DEF TaskEnds
  <2> QED BY <1>1, <1>4, <2>1, EnqueueAhead, BeginAhead, EndsAhead
<1>5. ASSUME NEW x \in Wait, Resume(x), atGate' = atGate  PROVE Ahead(w, v)'
  BY <1>1, <1>2, <1>5, ResumeAhead
<1>6. ASSUME NEW x \in Wait, GoesOn(x)  PROVE Ahead(w, v)'
  BY <1>1, <1>6, GoesOnAhead
<1>7. ASSUME NEW u \in Lane, Arrive(u)  PROVE Ahead(w, v)'
  <2>1. ASSUME NEW x \in Wait, OwnerOf[x] = u, Release(x), atGate' = Append(atGate, x),
               wait[x] = "new", wait' = [wait EXCEPT ![x] = "away"]
        PROVE  Ahead(w, v)'
    <3>1. x # w /\ x # v /\ wait'[x] = "away"
      BY <2>1, Slotted
    <3>2. u # t
      BY <2>1, <3>1 DEF Pending
    <3>3. flow[u] = "working"
      BY <1>7, Arrives
    <3> QED BY <1>1, <1>2, <2>1, <3>1, <3>2, <3>3, ReleaseAhead
  <2>2. CASE UNCHANGED <<resumers, fresh, active, granted, held, flow, wait, atGate, line>>
    BY <2>2 DEF Ahead, Behind
  <2> QED BY <1>7, <2>1, <2>2, Arrives
<1> QED BY <1>3, <1>4, <1>5, <1>6, <1>7, OnOrOff

\* Of two turns that are in the line, the second stays behind the first.
LEMMA LineKeeps ==
  ASSUME LInv, Lining, [Next]_vars, NEW i \in 1..Len(line), NEW j \in 1..Len(line), i < j,
         NEW t, NEW u, t = line[i], u = line[j],
         NEW w \in Wait, NEW v \in Wait, Pending(t, w)', OwnerOf[v] = u, wait'[v] # "new"
  PROVE  Ahead(w, v)' /\ row'[u] = "none"
PROOF
<1>0. t \in Lane /\ u \in Lane /\ u \in Turn
  BY LaneAssumption, ElementOfSeq DEF LInv, LTypeOK
<1>1. PICK w0 \in Wait : OwnerOf[w0] = t /\ wait[w0] # "new"
  BY DEF Lining, InFlow
<1>2. PICK v0 \in Wait : OwnerOf[v0] = u /\ wait[v0] # "new"
  BY DEF Lining, InFlow
<1>3. w = w0
  BY <1>1, Onward DEF Pending
<1>4. Pending(t, w)
  BY <1>0, <1>1, <1>3, PendingBack
<1>5. \A y \in Wait : OwnerOf[y] = u /\ wait[y] # "new" => Ahead(w, y) /\ row[u] = "none"
  BY <1>4 DEF Lining, Queueing
<1>6. wait[v0] \in {"away", "back"}
  BY <1>2, <1>5 DEF Ahead, Behind
<1>7. flow[u] # "working"
  BY <1>0, <1>2, <1>6 DEF Lining, InFlow
<1>8. wait[v] # "new"
  BY <1>7, NewWait
<1>9. Ahead(w, v)'
  <2>1. Ahead(w, v) /\ wait[w] # "new"
    BY <1>1, <1>3, <1>5, <1>8
  <2> QED BY <1>0, <1>8, <2>1, StepAhead DEF Lining
<1>10. row'[u] = "none"
  <2>1. row[u] = "none"
    BY <1>2, <1>5
  <2>2. ~Send(u)
    BY <1>0, <1>7 DEF Send, Busy, LInv, AtOne
  <2> QED BY <1>0, <2>1, <2>2, RowNone
<1> QED BY <1>9, <1>10

LEMMA StepQueueing ==
  ASSUME LInv, Lining, [Next]_vars
  PROVE  Queueing'
PROOF
<1>0. line \in Seq(Lane) /\ Len(line) \in Nat
  BY LenProperties DEF LInv, LTypeOK
<1>1. CASE line' = line
  <2> SUFFICES ASSUME NEW i \in 1..Len(line'), NEW j \in 1..Len(line'), i < j,
                      NEW t, NEW u, t = line'[i], u = line'[j],
                      NEW w \in Wait, NEW v \in Wait, Pending(t, w)',
                      OwnerOf[v] = u, wait'[v] # "new"
               PROVE  Ahead(w, v)' /\ row'[u] = "none"
    BY DEF Queueing, Pending
  <2> QED BY <1>1, LineKeeps
<1>2. ASSUME NEW u \in Lane, NEW x \in Wait, Arrive(u), OwnerOf[x] = u, Release(x),
             atGate' = Append(atGate, x), wait[x] = "new", wait' = [wait EXCEPT ![x] = "away"],
             line' = Append(line, u), \A y \in Wait : OwnerOf[y] = u => wait[y] = "new"
      PROVE  Queueing'
  <2>1. /\ Len(line') = Len(line) + 1 /\ line'[Len(line) + 1] = u
        /\ \A i \in 1..Len(line) : line'[i] = line[i]
    BY <1>0, <1>2, AppendProperties
  <2> SUFFICES ASSUME NEW i \in 1..Len(line'), NEW j \in 1..Len(line'), i < j,
                      NEW t, NEW y, t = line'[i], y = line'[j],
                      NEW w \in Wait, NEW v \in Wait, Pending(t, w)',
                      OwnerOf[v] = y, wait'[v] # "new"
               PROVE  Ahead(w, v)' /\ row'[y] = "none"
    BY DEF Queueing, Pending
  <2>2. i \in 1..Len(line)
    BY <1>0, <2>1
  <2>3. CASE j \in 1..Len(line)
    <3>1. t = line[i] /\ y = line[j]
      BY <2>1, <2>2, <2>3
    <3> QED BY <2>2, <2>3, <3>1, LineKeeps
  <2>4. CASE j = Len(line) + 1
    <3>1. t = line[i] /\ t \in Lane /\ OwnerOf[w] = t /\ y = u
      BY <1>0, <2>1, <2>2, <2>4, ElementOfSeq DEF Pending
    <3>2. PICK w0 \in Wait : OwnerOf[w0] = t /\ wait[w0] # "new"
      BY <2>2, <3>1 DEF Lining, InFlow
    <3>3. w = w0 /\ t # u /\ w # x
      BY <1>2, <3>1, <3>2, Onward DEF Pending
    <3>4. Pending(t, w)
      BY <3>1, <3>2, <3>3, PendingBack
    <3>5. v = x
      <4>1. wait[v] = "new"
        BY <1>2, <3>1
      <4> QED BY <1>2, <4>1, Slotted
    <3>6. ~In(x, atGate) /\ wait[w] \in {"away", "back", "over"}
      BY <1>2, <3>2, <3>3, Slotted DEF Lining, AtGate
    <3>7. wait[w] = "over" => OwnerOf[w] \in held
      BY <3>1, <3>4 DEF Lining, InFlow
    <3>8. flow[OwnerOf[x]] = "working" /\ row'[u] = "none"
      BY <1>2, Arrives DEF Arrive, stream
    <3>9. Ahead(w, x)'
      BY <1>2, <3>1, <3>3, <3>6, <3>7, <3>8, ReleaseAhead
    <3> QED BY <2>1, <2>4, <3>5, <3>8, <3>9
  <2> QED BY <1>0, <2>1, <2>3, <2>4
<1>3. ASSUME NEW u \in Lane, Arrive(u)  PROVE Queueing'
  BY <1>1, <1>2, <1>3, Arrives
<1> QED BY <1>1, <1>3, OnOrOff, StaysOff

\* InLine: the turns that waited at the gate are sent in the order they came to
\* it, but for one that has to wait again; whatever the turns, the waits, the
\* gate's windows and the deaths of the CLI.
THEOREM SentInLine == Spec => []InLine
PROOF
<1>1. Init => Lining
  <2> SUFFICES ASSUME Init PROVE Lining
    OBVIOUS
  <2>1. /\ \A w \in Wait : wait[w] = "new"
        /\ \A t \in Turn : flow[t] = "new"
        /\ atGate = <<>> /\ line = <<>>
    BY DEF Init, QInit
  <2>2. AtGate
    BY <2>1 DEF AtGate, Once, In
  <2>3. InFlow
    BY <2>1, LaneAssumption DEF InFlow, Pending
  <2>4. Queueing
    BY <2>1 DEF Queueing, Pending
  <2> QED BY <2>2, <2>3, <2>4 DEF Lining
<1>2. LInv /\ Lining /\ [Next]_vars => Lining'
  BY StepAtGate, StepInFlow, StepQueueing DEF Lining
<1>3. LInv /\ Lining => InLine
  <2> SUFFICES ASSUME LInv, Lining, NEW i \in 1..Len(line), NEW j \in 1..Len(line), i < j,
                      row[line[i]] = "none", told[line[i]] = "none", ~WaitedAgain(line[i])
               PROVE  row[line[j]] = "none"
    BY DEF InLine
  <2>1. PICK w \in Wait : OwnerOf[w] = line[i] /\ wait[w] # "new"
    BY DEF Lining, InFlow
  <2>2. PICK v \in Wait : OwnerOf[v] = line[j] /\ wait[v] # "new"
    BY DEF Lining, InFlow
  <2>3. Pending(line[i], w)
    BY <2>1 DEF WaitedAgain, Pending
  <2> QED BY <2>2, <2>3 DEF Lining, Queueing
<1> QED BY <1>1, <1>2, <1>3, LaneInvHolds, PTL DEF Spec
=============================================================================
