---------------------- MODULE SessionDeliveryProofs ----------------------
(***************************************************************************)
(* What is proved of SessionDelivery for every value of its constants: its*)
(* types; that nothing is written past a stop; that only a line split     *)
(* under its uuid loses a message, has one told delivered that was not, or*)
(* leaves a row with nobody to settle it; that with one message nothing   *)
(* does; that of the lines of one uuid one at most is answered, none      *)
(* after the uuid was judged unanswered; and that a message which is alone*)
(* in its session, and which no person interferes with, is answered once. *)
(***************************************************************************)
EXTENDS SessionDelivery, SessionQueueProofs

\* What an attempt holds while it is in progress: rows of its own fence, at
\* least one once it marked a line, and no answer before it asked.
AttemptsHold ==
  \A a \in Attempts :
    /\ att[a].pc \in {"begun", "marked", "registered"} => att[a].reply = "none"
    /\ att[a].pc \in {"marked", "registered", "replied"} => att[a].batch # {}
    /\ a = "spawn" /\ att[a].pc = "begun" => att[a].batch # {}
    /\ \A r \in att[a].batch : r.fence = att[a].fence

HoldHasRows == hold # NoHold => hold.rows # {}

IInv == TypeOK /\ AttemptsHold /\ HoldHasRows

\* An attempt that does nothing is an attempt.
LEMMA IdleType == Idle \in Attempt
BY DEF Idle, Attempt, Reply

-----------------------------------------------------------------------------
(* Type correctness *)

\* The initial state is well typed and nobody is delivering.
LEMMA InitIInv == Init => IInv
<1> SUFFICES ASSUME Init PROVE IInv
  OBVIOUS
<1>1. TypeOK
  BY IdleType, UuidTypes
  DEF Init, TypeOK, NoStop, AtEase, NoHold, Fate
<1>2. AttemptsHold /\ HoldHasRows
  BY DEF Init, AttemptsHold, HoldHasRows, Idle, NoHold
<1> QED BY <1>1, <1>2 DEF IInv

-----------------------------------------------------------------------------

\* What enters, leaves or is parked in the queue keeps the types.
LEMMA IntakeType ==
  ASSUME TypeOK, Intake
  PROVE  TypeOK'
<1> USE DEF TypeOK, queueFile, stopState, registry, host, history
<1>1. CASE Store
  <2>1. PICK w \in arriving : Store!(w)
    BY <1>1 DEF Store
  <2>2. NewRow(w) \in Row
    BY UuidTypes DEF NewRow, Row, Status, Reason
  <2> QED BY <2>1, <2>2 DEF Fate
<1>2. CASE Revive
  <2>1. PICK w \in arriving :
          queue' = Unpark(queue, w.id, w.fence, used.fresh + 1)
    BY <1>2 DEF Revive
  <2>2. queue' \in SUBSET Row
    BY <2>1, UnparkType
  <2> QED BY <1>2, <2>2 DEF Revive
<1>3. CASE ParkStale
  <2>1. queue' \in SUBSET Row
    BY <1>3, ParkIfQueuedType DEF ParkStale, Reason
  <2> QED BY <1>3, <2>1 DEF ParkStale
<1>4. ASSUME NEW m \in Messages, Arrive(m) PROVE TypeOK'
  BY <1>4 DEF Arrive
<1>5. ASSUME NEW m \in Messages, Relay(m) PROVE TypeOK'
  BY <1>5 DEF Relay
<1>6. ASSUME NEW m \in Messages, Retry(m) PROVE TypeOK'
  BY <1>6, UuidTypes DEF Retry
<1>7. ASSUME NEW m \in Messages, Delete(m) PROVE TypeOK'
  BY <1>7 DEF Delete, Fate
<1>8. ASSUME NEW m \in Messages, Withdraw(m) PROVE TypeOK'
  BY <1>8 DEF Withdraw, Fate, Word
<1> QED BY <1>1, <1>2, <1>3, <1>4, <1>5, <1>6, <1>7, <1>8 DEF Intake

\* The line an attempt registers or writes is a line.
LEMMA LineTypes ==
  ASSUME TypeOK, NEW a \in Attempts, att[a].batch # {}, NEW pid \in Nat
  PROVE  /\ LineUuid(a) \in Uuid
         /\ LineOf(a, pid) \in Line
         /\ PipedLine(a) \in WireLine
<1>1. att[a].batch \in SUBSET Row
  BY DEF TypeOK, Attempt
<1>2. Ids(att[a].batch) \in SUBSET Messages
  BY <1>1 DEF Ids, Row
<1>3. LineUuid(a) \in Uuid
  BY <1>1, EarliestUuid DEF LineUuid
<1> QED BY <1>2, <1>3 DEF LineOf, PipedLine, Line, WireLine, TypeOK

\* What the steps of a delivery write into an attempt keeps it an attempt.
LEMMA AttemptTypes ==
  ASSUME NEW x \in Attempt
  PROVE  /\ \A rows \in SUBSET Row : [x EXCEPT !.pc = "marked", !.batch = rows] \in Attempt
         /\ \A n \in Nat : [x EXCEPT !.pc = "registered", !.pid = n] \in Attempt
         /\ \A r \in Reply : [x EXCEPT !.pc = "replied", !.reply = r] \in Attempt
         /\ [x EXCEPT !.pc = "begun", !.reply = "none"] \in Attempt
         /\ [x EXCEPT !.pc = "begun"] \in Attempt
         /\ [x EXCEPT !.stopped = TRUE] \in Attempt
BY DEF Attempt, Reply

\* Taking the rows of a line that ran out of the queue keeps the types.
LEMMA ReleaseRanTypes ==
  ASSUME TypeOK, NEW ids, ReleaseRan(ids)
  PROVE  /\ queue' \in SUBSET Row
         /\ fate' \in [Messages -> Fate]
         /\ settled' \in [Messages -> Uuid]
<1> USE DEF TypeOK
<1>1. queue' \in SUBSET Row
  BY DEF ReleaseRan, RemoveTaken
<1>2. fate' \in [Messages -> Fate]
  BY DEF ReleaseRan, DeliveredFate, Fate
<1> DEFINE gone == {r \in queue : r.id \in ids}
<1>3. ASSUME NEW m \in Messages, \E r \in gone : r.id = m
      PROVE  (CHOOSE r \in gone : r.id = m).uuid \in Uuid
  BY <1>3 DEF Row
<1>4. settled' = [m \in Messages |->
        IF \E r \in gone : r.id = m /\ r.uuid # NoUuid
          THEN (CHOOSE r \in gone : r.id = m).uuid ELSE settled[m]]
  BY DEF ReleaseRan
<1>5. settled' \in [Messages -> Uuid]
  BY <1>3, <1>4
<1> QED BY <1>1, <1>2, <1>5

\* The same for a line that was cancelled.
LEMMA ReleaseCancelledTypes ==
  ASSUME TypeOK, NEW ids, ReleaseCancelled(ids)
  PROVE  /\ queue' \in SUBSET Row
         /\ fate' \in [Messages -> Fate]
         /\ discarded' \in SUBSET Messages
BY DEF TypeOK, ReleaseCancelled, RemoveTaken, Fate, Ids, Row

\* A delivery attempt keeps the types until its line is out.
LEMMA DeliverLiveType ==
  ASSUME IInv, NEW a \in {"next", "mid"}, DeliverLive(a)
  PROVE  TypeOK'
<1> USE DEF IInv, TypeOK, queueFile, stopState, registry, host, history, Set, Attempts
<1>1. CASE Begin(a)
  BY <1>1 DEF Begin, Attempt, Idle, Reply
<1>2. CASE Mark(a)
  <2>1. att[a].fence \in Nat
    BY DEF Attempt
  <2>2. queue' \in SUBSET Row /\ MarkedBatch(queue, att[a].fence) \in SUBSET Row
    BY <1>2, <2>1, MarkedBatchFacts DEF Mark
  <2>3. att[a] \in Attempt
    OBVIOUS
  <2>4. att' \in [Attempts -> Attempt]
    BY <1>2, <2>2, <2>3, IdleType, AttemptTypes DEF Mark
  <2> QED BY <1>2, <2>2, <2>4 DEF Mark
<1>3. CASE Register(a)
  <2>1. LineOf(a, view) \in Line
    BY <1>3, LineTypes DEF Register, AttemptsHold
  <2>2. att' \in [Attempts -> Attempt]
    BY <1>3, AttemptTypes DEF Register
  <2> QED BY <1>3, <2>1, <2>2 DEF Register
<1>4. CASE SettleRefusedStopped(a)
  <2>1. RevertIfQueued(queue, HandedBack(view)) \in SUBSET Row
    BY RevertIfQueuedType
  <2>2. \A rows \in SUBSET Row : ParkIfQueued(rows, BatchIds(a), "stop") \in SUBSET Row
    BY ParkIfQueuedType DEF Reason
  <2>3. queue' \in SUBSET Row
    BY <1>4, <2>1, <2>2 DEF SettleRefusedStopped
  <2> QED BY <1>4, <2>3, IdleType DEF SettleRefusedStopped, Untracked
<1>5. CASE SettleRefusedEnded(a)
  <2>1. queue' \in SUBSET Row
    BY <1>5, RevertIfQueuedType DEF SettleRefusedEnded
  <2> QED BY <1>5, <2>1, IdleType DEF SettleRefusedEnded
<1>6. CASE SettleRefusedGone(a)
  <2>1. queue' \in SUBSET Row
    BY <1>6, RevertIfQueuedType DEF SettleRefusedGone
  <2>2. [att["next"] EXCEPT !.pc = "begun", !.reply = "none"] \in Attempt
    BY AttemptTypes
  <2>3. att' \in [Attempts -> Attempt]
    BY <1>6, <2>2, IdleType DEF SettleRefusedGone
  <2> QED BY <1>6, <2>1, <2>3 DEF SettleRefusedGone, Untracked
<1> QED BY <1>1, <1>2, <1>3, <1>4, <1>5, <1>6 DEF DeliverLive

\* A delivery attempt keeps the types from its line on.
LEMMA DeliverType ==
  ASSUME IInv, NEW a \in Attempts, Deliver(a)
  PROVE  TypeOK'
<1>0. /\ SettleRan(a) => /\ queue' \in SUBSET Row
                          /\ fate' \in [Messages -> Fate]
                          /\ settled' \in [Messages -> Uuid]
      /\ SettleCancelled(a) => /\ queue' \in SUBSET Row
                               /\ fate' \in [Messages -> Fate]
                               /\ discarded' \in SUBSET Messages
  <2>1. ASSUME SettleRan(a) PROVE ReleaseRan(BatchIds(a))
    BY <2>1 DEF SettleRan
  <2>2. ASSUME SettleCancelled(a) PROVE ReleaseCancelled(BatchIds(a))
    BY <2>2 DEF SettleCancelled
  <2>3. TypeOK
    BY DEF IInv
  <2> QED BY <2>1, <2>2, <2>3, ReleaseRanTypes, ReleaseCancelledTypes
<1> USE DEF IInv, TypeOK, queueFile, stopState, registry, host, history, Set
<1>1. att[a].batch \in SUBSET Row /\ view \in Nat
  BY DEF Attempt
<1>2. att[a].pc = "replied" => LineUuid(a) \in Uuid /\ LineOf(a, view) \in Line
  BY LineTypes DEF AttemptsHold
<1>3. CASE Send(a)
  <2>1. PipedLine(a) \in WireLine
    BY <1>3, LineTypes DEF Send, AttemptsHold
  <2>2. Answer(a) \in Reply
    BY DEF Answer, Verdict, Reply
  <2>3. att' \in [Attempts -> Attempt]
    BY <1>3, <2>2, AttemptTypes DEF Send
  <2>4. wire' \in SUBSET WireLine /\ view' \in Nat
    BY <1>3, <2>1 DEF Send
  <2> QED BY <1>3, <2>3, <2>4 DEF Send
<1>4. CASE LoseAnswer(a)
  <2>1. att' \in [Attempts -> Attempt]
    BY <1>4, AttemptTypes DEF LoseAnswer, Reply
  <2> QED BY <1>4, <2>1 DEF LoseAnswer
<1>5. CASE SettleWritten(a)
  BY <1>1, <1>5, IdleType DEF SettleWritten, Batch, Attempt
<1>6. CASE SettleTaking(a)
  BY <1>2, <1>6, IdleType DEF SettleTaking, Replied, Untracked
<1>7. CASE SettleRan(a)
  BY <1>0, <1>7, IdleType DEF SettleRan, Untracked
<1>8. CASE SettleUnanswered(a)
  <2>1. used.fresh + 1 \in Nat /\ used.fresh + 2 \in Nat /\ "failed" \in Reason
    BY DEF Reason
  <2>2. RequeueUnanswered(queue, BatchIds(a), LineUuid(a), used.fresh + 1) \in SUBSET Row
    BY <2>1, RequeueUnansweredType
  <2>3. queue' \in SUBSET Row
    BY <1>8, <2>1, <2>2, ParkForFreshLineType DEF SettleUnanswered
  <2>4. used' \in [enq : Nat, fresh : Nat, restarts : Nat, retries : Nat, losses : Nat]
    BY <1>8, <2>1 DEF SettleUnanswered
  <2> QED BY <1>8, <2>3, <2>4, IdleType DEF SettleUnanswered, Untracked
<1>9. CASE SettleCancelled(a)
  BY <1>0, <1>9, IdleType DEF SettleCancelled, Untracked
<1>10. CASE SettleSuperseded(a)
  <2>1. queue' \in SUBSET Row
    BY <1>1, <1>10, ParkMessagesType DEF SettleSuperseded, Batch, Reason
  <2> QED BY <1>10, <2>1, IdleType DEF SettleSuperseded, Untracked
<1>11. CASE SettleUnknown(a)
  <2>1. queue' \in SUBSET Row
    BY <1>11, ParkIfQueuedType, RevertIfQueuedType DEF SettleUnknown, Reason
  <2> QED BY <1>11, <2>1, IdleType DEF SettleUnknown
<1> QED BY <1>3, <1>4, <1>5, <1>6, <1>7, <1>8, <1>9, <1>10, <1>11 DEF Deliver

\* A resume, its held first line and its recovery keep the types.
LEMMA ResumeType ==
  ASSUME IInv, Resume
  PROVE  TypeOK'
<1> USE DEF IInv, TypeOK, queueFile, stopState, registry, host, history, Set, Attempts
<1>1. \A a \in Attempts : Batch(a) \in SUBSET Row
  BY DEF Batch, Attempt
<1>2. CASE Attach
  BY <1>2 DEF Attach
<1>3. CASE NoSession
  <2>1. [att["next"] EXCEPT !.pc = "begun"] \in Attempt
    BY AttemptTypes
  <2> QED BY <1>3, <2>1, IdleType DEF NoSession
<1>4. CASE SpawnStart
  <2>1. proc' \in Nat
    BY <1>4 DEF SpawnStart
  <2>2. [att["spawn"] EXCEPT !.pc = "registered", !.pid = proc'] \in Attempt
    BY <2>1, AttemptTypes
  <2> QED BY <1>4, <2>1, <2>2 DEF SpawnStart
<1>5. CASE SpawnFails
  <2>1. queue' \in SUBSET Row
    BY <1>1, <1>5, RevertToPendingType DEF SpawnFails
  <2>2. CASE UNCHANGED <<alive, proc>>
    BY <1>5, <2>1, <2>2, IdleType DEF SpawnFails
  <2>3. CASE alive' = TRUE /\ proc' = proc + 1
    BY <1>5, <2>1, <2>3, IdleType DEF SpawnFails
  <2> QED BY <1>5, <2>2, <2>3 DEF SpawnFails
<1>6. CASE SpawnRefused
  <2>1. queue' \in SUBSET Row
    BY <1>1, <1>6, ParkMessagesType DEF SpawnRefused, Reason
  <2> QED BY <1>6, <2>1, IdleType DEF SpawnRefused
<1>7. CASE SettleSpawnDead
  <2>1. \A ids : RevertIfQueued(queue, ids) \in SUBSET Row
    BY RevertIfQueuedType
  <2>2. queue' \in SUBSET Row
    BY <1>1, <1>7, <2>1, RevertToPendingType DEF SettleSpawnDead
  <2> QED BY <1>7, <2>2, IdleType DEF SettleSpawnDead
<1>8. CASE ReadHold
  <2>1. hold.rows \in SUBSET Row /\ hold.rows # {}
    BY <1>8 DEF ReadHold, HoldHasRows
  <2>2. HoldUuid \in Uuid
    BY <2>1, EarliestUuid DEF HoldUuid
  <2>3. Ids(hold.rows) \in SUBSET Messages
    BY <2>1 DEF Ids, Row
  <2>4. answering' \in SUBSET Line
    BY <1>8, <2>2, <2>3 DEF ReadHold, Line
  <2>5. queue' \in SUBSET Row
    BY <1>8, RevertIfQueuedType DEF ReadHold
  <2> QED BY <1>8, <2>4, <2>5 DEF ReadHold, NoHold
<1>9. CASE DropHold
  <2>1. HoldForStartRecovery(queue, hold.rows) \in SUBSET Row
    BY HoldForStartRecoveryType
  <2>2. ParkIfQueued(queue, Ids(hold.rows), "failed") \in SUBSET Row
    BY ParkIfQueuedType DEF Reason
  <2>3. queue' \in SUBSET Row
    BY <1>9, <2>1, <2>2 DEF DropHold
  <2> QED BY <1>9, <2>3 DEF DropHold, NoHold
<1>10. CASE RecoveryEnds
  BY <1>10, SettleHeldType DEF RecoveryEnds
<1> QED BY <1>2, <1>3, <1>4, <1>5, <1>6, <1>7, <1>8, <1>9, <1>10 DEF Resume

\* What the CLI does keeps the types.
LEMMA CliType ==
  ASSUME TypeOK, Cli
  PROVE  TypeOK'
<1> USE DEF TypeOK, queueFile, stopState, registry, host, history
<1>1. CASE Take
  BY <1>1 DEF Take, WireLine
<1>2. CASE AnswerLines
  <2>1. \A w \in WireLine : [w EXCEPT !.st = "answered"] \in WireLine
    BY DEF WireLine
  <2> QED BY <1>2, <2>1 DEF AnswerLines, Started
<1>3. CASE Die
  BY <1>3 DEF Die
<1> QED BY <1>1, <1>2, <1>3 DEF Cli

\* What the server reads of the CLI keeps the types.
LEMMA FramesType ==
  ASSUME TypeOK, Frames
  PROVE  TypeOK'
<1>1. CASE ReadStart
  <2>1. \A l \in Line : \A n \in Nat : [l EXCEPT !.pid = n] \in Line
    BY DEF Line
  <2> QED BY <1>1, <2>1
    DEF ReadStart, TypeOK, queueFile, stopState, registry, host, history
<1>2. CASE ReadAnswer
  <2>1. /\ queue' \in SUBSET Row
        /\ fate' \in [Messages -> Fate]
        /\ settled' \in [Messages -> Uuid]
    BY <1>2, ReleaseRanTypes DEF ReadAnswer
  <2> QED BY <1>2, <2>1
    DEF ReadAnswer, TypeOK, queueFile, stopState, registry, host, history
<1>3. CASE ReadCancelled
  <2>1. /\ queue' \in SUBSET Row
        /\ fate' \in [Messages -> Fate]
        /\ discarded' \in SUBSET Messages
    BY <1>3, ReleaseCancelledTypes DEF ReadCancelled
  <2> QED BY <1>3, <2>1
    DEF ReadCancelled, TypeOK, queueFile, stopState, registry, host, history
<1>4. CASE SeeExit
  <2>1. queue' \in SUBSET Row
    BY <1>4, RevertIfQueuedType DEF SeeExit, TypeOK
  <2> QED BY <1>4, <2>1
    DEF SeeExit, TypeOK, queueFile, stopState, registry, host, history
<1> QED BY <1>1, <1>2, <1>3, <1>4 DEF Frames

\* Stops and interrupts keep the types.
LEMMA StoppingType ==
  ASSUME TypeOK, Stopping
  PROVE  TypeOK'
<1> USE DEF TypeOK, queueFile, stopState, registry, host, history
<1>1. CASE Interrupt
  <2>1. \A w \in WireLine : /\ [w EXCEPT !.st = "cancelled"] \in WireLine
                            /\ [w EXCEPT !.st = "stopped"] \in WireLine
    BY DEF WireLine
  <2>2. wire' \in SUBSET WireLine
    <3>1. \A w \in wire' : w \in wire \/ \E v \in wire :
            w \in {[v EXCEPT !.st = "cancelled"], [v EXCEPT !.st = "stopped"]}
      BY <1>1 DEF Interrupt
    <3>2. ASSUME NEW w \in wire' PROVE w \in WireLine
      <4>1. CASE w \in wire
        BY <4>1
      <4>2. CASE w \notin wire
        <5>1. PICK v \in wire : \/ w = [v EXCEPT !.st = "cancelled"]
                                \/ w = [v EXCEPT !.st = "stopped"]
          BY <3>1, <4>2
        <5>2. v \in WireLine
          OBVIOUS
        <5> QED BY <2>1, <5>1, <5>2
      <4> QED BY <4>1, <4>2
    <3> QED BY <3>2
  <2>3. \A a \in Attempts : [att[a] EXCEPT !.stopped = TRUE] \in Attempt
    BY AttemptTypes
  <2>4. att' \in [Attempts -> Attempt]
    BY <1>1, <2>3 DEF Interrupt
  <2> QED BY <1>1, <2>2, <2>4 DEF Interrupt
<1>2. CASE StopAsk
  BY <1>2 DEF StopAsk, AtEase
<1>3. CASE StopPeek
  BY <1>3 DEF StopPeek
<1>4. CASE StopPark
  <2>1. queue' \in SUBSET Row
    BY <1>4, ParkMessagesType DEF StopPark, Reason
  <2> QED BY <1>4, <2>1 DEF StopPark, AtEase
<1>5. CASE StopSend
  BY <1>5 DEF StopSend, AtEase
<1>6. CASE StopFails
  BY <1>6 DEF StopFails
<1> QED BY <1>1, <1>2, <1>3, <1>4, <1>5, <1>6 DEF Stopping

\* Restarts of the server and of the CLI keep the types.
LEMMA RestartingType ==
  ASSUME TypeOK, Restarting
  PROVE  TypeOK'
<1> USE DEF TypeOK, queueFile, stopState, registry, host, history
<1>1. CASE RestartCli
  <2>1. queue' \in SUBSET Row
    BY <1>1, RevertToPendingType DEF RestartCli
  <2> QED BY <1>1, <2>1 DEF RestartCli
<1>2. CASE Restart
  <2>1. att' \in [Attempts -> Attempt]
    BY <1>2, IdleType DEF Restart
  <2>2. /\ stopper' \in [pc : {"idle", "peek", "park", "send"}, peek : SUBSET Row]
        /\ hold' \in [rows : SUBSET Row, pid : Nat]
    BY <1>2 DEF Restart, AtEase, NoHold
  <2>3. view' \in Nat /\ object' \in BOOLEAN
    BY <1>2 DEF Restart
  <2>4. used' \in [enq : Nat, fresh : Nat, restarts : Nat, retries : Nat, losses : Nat]
    BY <1>2 DEF Restart
  <2> QED BY <1>2, <2>1, <2>2, <2>3, <2>4 DEF Restart
<1>3. CASE Load
  <2>1. queue' \in SUBSET Row
    BY <1>3, RevertIfQueuedType DEF Load, LoadQueue
  <2> QED BY <1>3, <2>1 DEF Load
<1> QED BY <1>1, <1>2, <1>3 DEF Restarting

\* Every step keeps the types.
LEMMA TypeStep ==
  ASSUME IInv, [Next]_vars
  PROVE  TypeOK'
<1>1. TypeOK
  BY DEF IInv
<1>2. CASE UNCHANGED vars
  BY <1>1, <1>2 DEF TypeOK, vars, queueFile, stopState, registry, host, history
<1> QED
  BY <1>1, <1>2, IntakeType, DeliverType, DeliverLiveType, ResumeType, CliType,
     FramesType, StoppingType, RestartingType DEF Next

-----------------------------------------------------------------------------
(* What attempts hold *)

\* What AttemptsHold says of one attempt.
Holds(a, x) ==
  /\ x.pc \in {"begun", "marked", "registered"} => x.reply = "none"
  /\ x.pc \in {"marked", "registered", "replied"} => x.batch # {}
  /\ a = "spawn" /\ x.pc = "begun" => x.batch # {}
  /\ \A r \in x.batch : r.fence = x.fence

\* The steps that touch an attempt leave it with what it should hold: the rows
\* of its line are picked under its fence, and an answer comes after a question.
LEMMA AttemptsStep ==
  ASSUME IInv, [Next]_vars
  PROVE  AttemptsHold'
<1> USE DEF Set, Attempts
<1>1. \A a \in Attempts : att[a] \in Attempt /\ Holds(a, att[a])
  BY DEF IInv, TypeOK, AttemptsHold, Holds
<1>2. \A a \in Attempts : Holds(a, Idle)
  BY DEF Holds, Idle
<1>3. SUFFICES \A a \in Attempts : Holds(a, att'[a])
  BY DEF AttemptsHold, Holds
<1>4. ASSUME att' = att PROVE \A a \in Attempts : Holds(a, att'[a])
  BY <1>1, <1>4
<1>5. ASSUME NEW b \in Attempts, NEW v, Set(b, v), Holds(b, v)
      PROVE  \A a \in Attempts : Holds(a, att'[a])
  BY <1>1, <1>5 DEF IInv, TypeOK
<1>6. CASE Intake
  BY <1>4, <1>6 DEF Intake, Store, Revive, ParkStale, Arrive, Relay, Retry, Delete, Withdraw
<1>7. ASSUME NEW b \in {"next", "mid"}, DeliverLive(b)
      PROVE  \A a \in Attempts : Holds(a, att'[a])
  <2>1. CASE Begin(b)
    <3>1. Holds(b, [Idle EXCEPT !.pc = "begun", !.fence = stop.id])
      BY DEF Holds, Idle
    <3> QED BY <1>5, <2>1, <3>1 DEF Begin
  <2>2. CASE Mark(b)
    <3>1. MarkedBatch(queue, att[b].fence) \in SUBSET Row
          /\ \A r \in MarkedBatch(queue, att[b].fence) : r.fence = att[b].fence
      BY <1>1, MarkedBatchFacts DEF IInv, TypeOK, Attempt
    <3>2. ASSUME MarkedBatch(queue, att[b].fence) # {}
          PROVE  Holds(b, [att[b] EXCEPT !.pc = "marked",
                                         !.batch = MarkedBatch(queue, att[b].fence)])
      BY <1>1, <2>2, <3>1, <3>2 DEF Mark, Holds, Attempt
    <3> QED BY <1>2, <1>5, <2>2, <3>2 DEF Mark
  <2>3. CASE Register(b)
    <3>1. Holds(b, [att[b] EXCEPT !.pc = "registered", !.pid = view])
      BY <1>1, <2>3 DEF Register, Holds, Attempt
    <3> QED BY <1>5, <2>3, <3>1 DEF Register
  <2>4. CASE SettleRefusedStopped(b) \/ SettleRefusedEnded(b)
    BY <1>2, <1>5, <2>4 DEF SettleRefusedStopped, SettleRefusedEnded
  <2>5. CASE SettleRefusedGone(b)
    <3>1. CASE Set(b, Idle)
      BY <1>2, <1>5, <3>1
    <3>2. CASE b = "next" /\ att' = [att EXCEPT !["next"] = Idle,
                 !["spawn"] = [att["next"] EXCEPT !.pc = "begun", !.reply = "none"]]
      <4>1. Holds("spawn", [att["next"] EXCEPT !.pc = "begun", !.reply = "none"])
        BY <1>1, <2>5, <3>2 DEF SettleRefusedGone, Replied, Holds, Attempt
      <4> QED BY <1>1, <1>2, <3>2, <4>1 DEF IInv, TypeOK
    <3> QED BY <2>5, <3>1, <3>2 DEF SettleRefusedGone
  <2> QED BY <1>7, <2>1, <2>2, <2>3, <2>4, <2>5 DEF DeliverLive
<1>8. ASSUME NEW b \in Attempts, Deliver(b)
      PROVE  \A a \in Attempts : Holds(a, att'[a])
  <2>1. ASSUME NEW r \in Reply, att[b].pc \in {"registered", "replied"}
        PROVE  Holds(b, [att[b] EXCEPT !.pc = "replied", !.reply = r])
    BY <1>1, <2>1 DEF Holds, Attempt
  <2>2. CASE Send(b)
    <3>1. Answer(b) \in Reply
      BY DEF Answer, Verdict, Reply
    <3> QED BY <1>5, <2>1, <2>2, <3>1 DEF Send
  <2>3. CASE LoseAnswer(b)
    BY <1>5, <2>1, <2>3 DEF LoseAnswer, Reply
  <2>4. CASE Set(b, Idle)
    BY <1>2, <1>5, <2>4
  <2> QED
    BY <1>8, <2>2, <2>3, <2>4
    DEF Deliver, SettleWritten, SettleTaking, SettleRan, SettleUnanswered,
        SettleCancelled, SettleSuperseded, SettleUnknown
<1>9. CASE Resume
  <2>1. CASE NoSession
    <3>1. Holds("spawn", [att["next"] EXCEPT !.pc = "begun"])
      BY <1>1, <2>1 DEF NoSession, Holds, Attempt
    <3> QED BY <1>1, <1>2, <2>1, <3>1 DEF NoSession, IInv, TypeOK
  <2>2. CASE SpawnStart
    <3>1. Holds("spawn", [att["spawn"] EXCEPT !.pc = "registered", !.pid = proc'])
      BY <1>1, <2>2 DEF SpawnStart, Holds, Attempt
    <3> QED BY <1>5, <2>2, <3>1 DEF SpawnStart
  <2>3. CASE SpawnFails \/ SpawnRefused \/ SettleSpawnDead
    BY <1>2, <1>5, <2>3 DEF SpawnFails, SpawnRefused, SettleSpawnDead
  <2>4. CASE Attach \/ ReadHold \/ DropHold \/ RecoveryEnds
    BY <1>4, <2>4 DEF Attach, ReadHold, DropHold, RecoveryEnds
  <2> QED BY <1>9, <2>1, <2>2, <2>3, <2>4 DEF Resume
<1>10. CASE Cli \/ Frames
  BY <1>4, <1>10
  DEF Cli, Take, AnswerLines, Die, Frames, ReadStart, ReadAnswer, ReadCancelled, SeeExit
<1>11. CASE Stopping
  <2>1. CASE Interrupt
    <3>1. \A a \in Attempts : Holds(a, [att[a] EXCEPT !.stopped = TRUE])
      BY <1>1 DEF Holds, Attempt
    <3> QED BY <1>1, <2>1, <3>1 DEF Interrupt
  <2>2. CASE ~Interrupt
    BY <1>4, <1>11, <2>2
    DEF Stopping, StopAsk, StopPeek, StopPark, StopSend, StopFails
  <2> QED BY <2>1, <2>2
<1>12. CASE Restarting
  <2>1. CASE Restart
    BY <1>2, <2>1 DEF Restart
  <2> QED BY <1>4, <1>12, <2>1 DEF Restarting, RestartCli, Load
<1>13. CASE UNCHANGED vars
  BY <1>4, <1>13 DEF vars
<1> QED BY <1>6, <1>7, <1>8, <1>9, <1>10, <1>11, <1>12, <1>13 DEF Next

\* A resume's hold is made of a batch, and a batch is never empty.
LEMMA HoldStep ==
  ASSUME IInv, [Next]_vars
  PROVE  HoldHasRows'
<1> USE DEF HoldHasRows, registry, IInv
<1>1. ASSUME hold' \in {hold, NoHold} PROVE HoldHasRows'
  BY <1>1
<1>2. CASE Intake
  BY <1>1, <1>2 DEF Intake, Store, Revive, ParkStale, Arrive, Relay, Retry, Delete, Withdraw
<1>3. ASSUME NEW a \in {"next", "mid"}, DeliverLive(a) PROVE HoldHasRows'
  BY <1>1, <1>3 DEF DeliverLive, Begin, Mark, Register, SettleRefusedStopped,
                    SettleRefusedEnded, SettleRefusedGone
<1>4. ASSUME NEW a \in Attempts, Deliver(a) PROVE HoldHasRows'
  <2>1. CASE SettleWritten(a)
    BY <2>1 DEF SettleWritten, Replied, AttemptsHold, Batch
  <2>2. CASE ~SettleWritten(a)
    BY <1>1, <1>4, <2>2
    DEF Deliver, Send, LoseAnswer, SettleTaking, SettleRan, SettleUnanswered,
        SettleCancelled, SettleSuperseded, SettleUnknown
  <2> QED BY <2>1, <2>2
<1>5. CASE Resume
  BY <1>1, <1>5 DEF Resume, Attach, NoSession, SpawnStart, SpawnFails, SpawnRefused,
                    SettleSpawnDead, ReadHold, DropHold, RecoveryEnds
<1>6. CASE Cli \/ Frames
  BY <1>1, <1>6 DEF Cli, Take, AnswerLines, Die, Frames, ReadStart, ReadAnswer,
                    ReadCancelled, SeeExit
<1>7. CASE Stopping \/ Restarting
  BY <1>1, <1>7 DEF Stopping, Interrupt, StopAsk, StopPeek, StopPark, StopSend,
                    StopFails, Restarting, RestartCli, Restart, Load
<1>8. CASE UNCHANGED vars
  BY <1>1, <1>8 DEF vars
<1> QED BY <1>2, <1>3, <1>4, <1>5, <1>6, <1>7, <1>8 DEF Next

\* The invariant is inductive.
LEMMA IInvStep == IInv /\ [Next]_vars => IInv'
BY TypeStep, AttemptsStep, HoldStep DEF IInv

\* Every value a delivery, the queue file, the registries and the host can take
\* in any interleaving is one the code's types allow.
THEOREM TypeCorrect == Spec => []TypeOK
<1>1. IInv => TypeOK
  BY DEF IInv
<1> QED BY <1>1, InitIInv, IInvStep, PTL DEF Spec

-----------------------------------------------------------------------------
(* Nothing is written past a stop *)

\* Only the daemon's answer to a registered line says it was written.
LEMMA OnlySendWrites ==
  ASSUME IInv, Next, NEW a \in Attempts,
         att[a].pc = "registered", att'[a].reply = "written"
  PROVE  Send(a)
<1> USE DEF Set, Attempts
<1>1. att[a].reply = "none" /\ att \in [Attempts -> Attempt]
  BY DEF IInv, AttemptsHold, TypeOK
<1>2. \A b \in Attempts : att[b] \in Attempt
  BY <1>1
<1>3. ~(att' = att)
  BY <1>1
<1>4. Idle.reply = "none"
  BY DEF Idle
<1>5. ~Intake
  BY <1>3 DEF Intake, Store, Revive, ParkStale, Arrive, Relay, Retry, Delete, Withdraw
<1>6. ASSUME NEW b \in {"next", "mid"}, DeliverLive(b) PROVE FALSE
  <2>1. CASE Begin(b)
    BY <1>1, <2>1 DEF Begin, Idle
  <2>2. CASE Mark(b)
    BY <1>1, <1>2, <2>2 DEF Mark, Idle
  <2>3. CASE Register(b)
    BY <1>1, <2>3 DEF Register
  <2>4. ~Set(b, Idle)
    BY <1>1, <1>4
  <2>5. CASE SettleRefusedStopped(b) \/ SettleRefusedEnded(b)
    BY <2>4, <2>5 DEF SettleRefusedStopped, SettleRefusedEnded
  <2>6. CASE SettleRefusedGone(b)
    <3>1. att' = [att EXCEPT !["next"] = Idle,
                 !["spawn"] = [att["next"] EXCEPT !.pc = "begun", !.reply = "none"]]
      BY <2>4, <2>6 DEF SettleRefusedGone
    <3>2. [att["next"] EXCEPT !.pc = "begun", !.reply = "none"].reply = "none"
      BY <1>2 DEF Attempt
    <3> QED BY <1>1, <1>4, <3>1, <3>2
  <2> QED BY <1>6, <2>1, <2>2, <2>3, <2>5, <2>6 DEF DeliverLive
<1>7. ASSUME NEW b \in Attempts, Deliver(b) PROVE Send(a)
  <2>1. CASE Send(b)
    BY <1>1, <2>1 DEF Send
  <2>2. CASE LoseAnswer(b)
    BY <1>1, <1>2, <2>2 DEF LoseAnswer, Attempt
  <2>3. CASE Set(b, Idle)
    BY <1>1, <1>4, <2>3
  <2> QED
    BY <1>7, <2>1, <2>2, <2>3
    DEF Deliver, SettleWritten, SettleTaking, SettleRan, SettleUnanswered,
        SettleCancelled, SettleSuperseded, SettleUnknown
<1>8. ~Resume
  <2>1. ~NoSession
    BY <1>1, <1>2, <1>4 DEF NoSession, Attempt
  <2>2. ~SpawnStart
    BY <1>1, <1>2 DEF SpawnStart, Attempt
  <2>3. ~(SpawnFails \/ SpawnRefused \/ SettleSpawnDead)
    BY <1>1, <1>4 DEF SpawnFails, SpawnRefused, SettleSpawnDead
  <2> QED BY <1>3, <2>1, <2>2, <2>3 DEF Resume, Attach, ReadHold, DropHold, RecoveryEnds
<1>9. ~(Cli \/ Frames)
  BY <1>3 DEF Cli, Take, AnswerLines, Die, Frames, ReadStart, ReadAnswer,
              ReadCancelled, SeeExit
<1>10. ~Stopping
  <2>1. ~Interrupt
    BY <1>1, <1>2 DEF Interrupt, Attempt
  <2> QED BY <1>3, <2>1 DEF Stopping, StopAsk, StopPeek, StopPark, StopSend, StopFails
<1>11. ~Restarting
  BY <1>1, <1>3, <1>4 DEF Restarting, RestartCli, Restart, Load
<1> QED BY <1>5, <1>6, <1>7, <1>8, <1>9, <1>10, <1>11 DEF Next

\* A line goes out only under the session's latest stop, with no stop pending
\* and only for rows queued after that stop: the fence a delivery read when it
\* began is the one its rows were picked under, and it is read again, under the
\* stop coordinator's lock, in the step that writes (session-stop.ts dispatch).
THEOREM NothingWrittenPastAStop == Spec => StopsHold
<1>1. IInv /\ [Next]_vars => [WrittenUnderLatestStop]_vars
  <2> SUFFICES ASSUME IInv, Next, NEW a \in Attempts,
                      att[a].pc = "registered", att'[a].reply = "written"
               PROVE  /\ stop.st # "pending"
                      /\ \A r \in att[a].batch : r.fence = stop.id
    BY DEF WrittenUnderLatestStop
  <2>1. Send(a)
    BY OnlySendWrites
  <2>2. Answer(a) = "written"
    BY <2>1 DEF Send, Set, IInv, TypeOK, Attempt
  <2>3. FenceHolds(att[a].fence)
    BY <2>2 DEF Answer
  <2> QED BY <2>3 DEF FenceHolds, IInv, AttemptsHold
<1> QED BY <1>1, InitIInv, IInvStep, PTL DEF Spec, StopsHold

-----------------------------------------------------------------------------
(* No message is lost while a uuid names one batch *)

Ran == {"answered", "stopped", "skipped"}

\* An attempt that was told its line ran was told so of a line in a transcript.
RanShown == \A a \in Attempts : Replied(a, "ran") => Shows(LineUuid(a), Ran)

\* A phone message recorded as taken waits here, or a CLI took it.
TakenKept ==
  \A m \in Messages : fate[m] = "taken" => Queued(m) \/ Carried(m, Took)

Keeping == RanShown /\ NothingLost /\ TakenKept /\ DeliveredWasTaken

\* What a CLI took stays taken, and what ran stays so, whoever dies.
LEMMA TookStays ==
  ASSUME IInv, [Next]_vars, NEW v \in wire, v.st \in Took
  PROVE  \E x \in wire' : /\ x.uuid = v.uuid /\ x.ids = v.ids
                          /\ x.st \in Took
                          /\ v.st \in Ran => x.st \in Ran
<1> DEFINE Kept == \E x \in wire' : /\ x.uuid = v.uuid /\ x.ids = v.ids
                                    /\ x.st \in Took
                                    /\ v.st \in Ran => x.st \in Ran
<1> SUFFICES Kept
  OBVIOUS
<1>1. v \in WireLine
  BY DEF IInv, TypeOK
<1>2. v.st # "piped" /\ v.st # "cancelled"
  BY DEF Took
<1>3. ASSUME v \in wire' PROVE Kept
  BY <1>3
<1>4. CASE Intake
  BY <1>3, <1>4 DEF Intake, Store, Revive, ParkStale, Arrive, Relay, Retry, Delete,
                    Withdraw, host
<1>5. ASSUME NEW a \in {"next", "mid"}, DeliverLive(a) PROVE Kept
  BY <1>3, <1>5 DEF DeliverLive, Begin, Mark, Register, SettleRefusedStopped,
                    SettleRefusedEnded, SettleRefusedGone, host
<1>6. ASSUME NEW a \in Attempts, Deliver(a) PROVE Kept
  BY <1>3, <1>6 DEF Deliver, Send, LoseAnswer, SettleWritten, SettleTaking, SettleRan,
                    SettleUnanswered, SettleCancelled, SettleSuperseded, SettleUnknown,
                    host
<1>7. CASE Resume
  BY <1>3, <1>7 DEF Resume, Attach, NoSession, SpawnStart, SpawnFails, SpawnRefused,
                    SettleSpawnDead, ReadHold, DropHold, RecoveryEnds, host
<1>8. CASE Cli
  <2>1. CASE Take
    <3>1. v \in wire'
      BY <1>2, <2>1 DEF Take
    <3> QED BY <1>3, <3>1
  <2>2. CASE AnswerLines
    <3>1. CASE v \in Started
      <4> DEFINE x == [v EXCEPT !.st = "answered"]
      <4>1. x \in wire'
        BY <2>2, <3>1 DEF AnswerLines
      <4>2. x.uuid = v.uuid /\ x.ids = v.ids /\ x.st = "answered"
        BY <1>1 DEF WireLine
      <4> QED BY <4>1, <4>2 DEF Took, Ran
    <3>2. CASE v \notin Started
      BY <1>3, <2>2, <3>2 DEF AnswerLines
    <3> QED BY <3>1, <3>2
  <2>3. CASE Die
    BY <1>2, <1>3, <2>3 DEF Die
  <2> QED BY <1>8, <2>1, <2>2, <2>3 DEF Cli
<1>9. CASE Frames
  BY <1>3, <1>9 DEF Frames, ReadStart, ReadAnswer, ReadCancelled, SeeExit, host
<1>10. CASE Stopping
  <2>1. CASE Interrupt
    <3>1. CASE Live(v) /\ v.st = "started"
      <4> DEFINE x == [v EXCEPT !.st = "stopped"]
      <4>1. x \in wire'
        BY <2>1, <3>1 DEF Interrupt
      <4>2. x.uuid = v.uuid /\ x.ids = v.ids /\ x.st = "stopped"
        BY <1>1 DEF WireLine
      <4> QED BY <4>1, <4>2 DEF Took, Ran
    <3>2. CASE ~(Live(v) /\ v.st = "started")
      <4>1. v \in wire'
        BY <1>2, <2>1, <3>2 DEF Interrupt
      <4> QED BY <1>3, <4>1
    <3> QED BY <3>1, <3>2
  <2>2. CASE ~Interrupt
    <3>1. v \in wire'
      BY <1>2, <1>10, <2>2 DEF Stopping, StopAsk, StopPeek, StopPark, StopSend, StopFails,
                                host
    <3> QED BY <1>3, <3>1
  <2> QED BY <2>1, <2>2
<1>11. CASE Restarting
  BY <1>3, <1>11 DEF Restarting, RestartCli, Restart, Load, host
<1>12. CASE UNCHANGED vars
  BY <1>3, <1>12 DEF vars, host
<1> QED BY <1>4, <1>5, <1>6, <1>7, <1>8, <1>9, <1>10, <1>11, <1>12 DEF Next

\* In terms of a message.
LEMMA CarriedStays ==
  ASSUME IInv, [Next]_vars, NEW m, Carried(m, Took)
  PROVE  Carried(m, Took)'
<1>1. PICK v \in wire : m \in v.ids /\ v.st \in Took
  BY DEF Carried
<1>2. \E x \in wire' : x.ids = v.ids /\ x.st \in Took
  BY <1>1, TookStays
<1> QED BY <1>1, <1>2 DEF Carried, Took

\* A line that ran took with it every message of what goes out under its uuid.
LEMMA RanCarries ==
  ASSUME OneBatchPerUuid
  PROVE  /\ \A a \in Attempts :
              att[a].batch # {} /\ Shows(LineUuid(a), Ran) =>
                \A m \in BatchIds(a) : Carried(m, Took)
         /\ \A l \in untaken \cup answering :
              Shows(l.uuid, Ran) => \A m \in l.ids : Carried(m, Took)
BY DEF OneBatchPerUuid, Shows, Carried, Took, Ran

\* An attempt that has been told its line ran was told so before, or the daemon
\* said so in this step; its batch is the one it had.
LEMMA RanIsAnswered ==
  ASSUME IInv, [Next]_vars, NEW a \in Attempts,
         att'[a].pc = "replied", att'[a].reply = "ran"
  PROVE  /\ att'[a].batch = att[a].batch
         /\ Replied(a, "ran") \/ (Send(a) /\ Answer(a) = "ran")
<1> DEFINE Goal == /\ att'[a].batch = att[a].batch
                   /\ Replied(a, "ran") \/ (Send(a) /\ Answer(a) = "ran")
<1> USE DEF Set, Attempts, Replied
<1>1. att \in [Attempts -> Attempt] /\ att[a] \in Attempt
  BY DEF IInv, TypeOK
<1>2. Idle.pc = "idle"
  BY DEF Idle
<1>3. ASSUME att'[a] = att[a] PROVE Goal
  BY <1>3
<1>4. CASE Intake
  BY <1>3, <1>4 DEF Intake, Store, Revive, ParkStale, Arrive, Relay, Retry, Delete, Withdraw
<1>5. ASSUME NEW b \in Attempts, NEW v, Set(b, v), v.pc # "replied" PROVE Goal
  BY <1>1, <1>3, <1>5
<1>6. ASSUME NEW b \in {"next", "mid"}, DeliverLive(b) PROVE Goal
  <2>1. CASE Begin(b)
    <3>1. [Idle EXCEPT !.pc = "begun", !.fence = stop.id].pc = "begun"
      BY DEF Idle
    <3> QED BY <1>5, <2>1, <3>1 DEF Begin
  <2>2. CASE Mark(b)
    <3>1. \A x : [att[b] EXCEPT !.pc = "marked", !.batch = x].pc = "marked"
      BY <1>1 DEF Attempt
    <3> QED BY <1>2, <1>5, <2>2, <3>1 DEF Mark
  <2>3. CASE Register(b)
    <3>1. [att[b] EXCEPT !.pc = "registered", !.pid = view].pc = "registered"
      BY <1>1 DEF Attempt
    <3> QED BY <1>5, <2>3, <3>1 DEF Register
  <2>4. CASE Set(b, Idle)
    BY <1>2, <1>5, <2>4
  <2>5. CASE SettleRefusedGone(b)
    <3>1. CASE att' = [att EXCEPT !["next"] = Idle,
                 !["spawn"] = [att["next"] EXCEPT !.pc = "begun", !.reply = "none"]]
      <4>1. [att["next"] EXCEPT !.pc = "begun", !.reply = "none"].pc = "begun"
        BY <1>1 DEF Attempt
      <4> QED BY <1>1, <1>2, <1>3, <3>1, <4>1
    <3> QED BY <2>4, <2>5, <3>1 DEF SettleRefusedGone
  <2> QED BY <1>6, <2>1, <2>2, <2>3, <2>4, <2>5
          DEF DeliverLive, SettleRefusedStopped, SettleRefusedEnded
<1>7. ASSUME NEW b \in Attempts, Deliver(b) PROVE Goal
  <2>1. CASE Send(b)
    <3>1. CASE a = b
      <4>1. att'[a] = [att[a] EXCEPT !.pc = "replied", !.reply = Answer(a)]
        BY <1>1, <2>1, <3>1 DEF Send
      <4>2. att'[a].batch = att[a].batch /\ att'[a].reply = Answer(a)
        BY <1>1, <4>1 DEF Attempt
      <4> QED BY <2>1, <3>1, <4>2
    <3>2. CASE a # b
      BY <1>1, <1>3, <2>1, <3>2 DEF Send
    <3> QED BY <3>1, <3>2
  <2>2. CASE LoseAnswer(b)
    <3>1. a # b
      BY <1>1, <2>2 DEF LoseAnswer, Attempt
    <3> QED BY <1>1, <1>3, <2>2, <3>1 DEF LoseAnswer
  <2>3. CASE Set(b, Idle)
    BY <1>2, <1>5, <2>3
  <2> QED
    BY <1>7, <2>1, <2>2, <2>3
    DEF Deliver, SettleWritten, SettleTaking, SettleRan, SettleUnanswered,
        SettleCancelled, SettleSuperseded, SettleUnknown
<1>8. CASE Resume
  <2>1. CASE NoSession
    <3>1. [att["next"] EXCEPT !.pc = "begun"].pc = "begun"
      BY <1>1 DEF Attempt
    <3> QED BY <1>1, <1>2, <1>3, <2>1, <3>1 DEF NoSession
  <2>2. CASE SpawnStart
    <3>1. [att["spawn"] EXCEPT !.pc = "registered", !.pid = proc'].pc = "registered"
      BY <1>1 DEF Attempt
    <3> QED BY <1>5, <2>2, <3>1 DEF SpawnStart
  <2>3. CASE SpawnFails \/ SpawnRefused \/ SettleSpawnDead
    BY <1>2, <1>5, <2>3 DEF SpawnFails, SpawnRefused, SettleSpawnDead
  <2>4. CASE Attach \/ ReadHold \/ DropHold \/ RecoveryEnds
    BY <1>3, <2>4 DEF Attach, ReadHold, DropHold, RecoveryEnds
  <2> QED BY <1>8, <2>1, <2>2, <2>3, <2>4 DEF Resume
<1>9. CASE Cli \/ Frames
  BY <1>3, <1>9
  DEF Cli, Take, AnswerLines, Die, Frames, ReadStart, ReadAnswer, ReadCancelled, SeeExit
<1>10. CASE Stopping
  <2>1. CASE Interrupt
    <3>1. att'[a] = IF att[a].pc \in {"registered", "replied"}
                      THEN [att[a] EXCEPT !.stopped = TRUE] ELSE att[a]
      BY <2>1 DEF Interrupt
    <3>2. /\ [att[a] EXCEPT !.stopped = TRUE].pc = att[a].pc
          /\ [att[a] EXCEPT !.stopped = TRUE].reply = att[a].reply
          /\ [att[a] EXCEPT !.stopped = TRUE].batch = att[a].batch
      BY <1>1 DEF Attempt
    <3> QED BY <1>3, <3>1, <3>2
  <2>2. CASE ~Interrupt
    BY <1>3, <1>10, <2>2
    DEF Stopping, StopAsk, StopPeek, StopPark, StopSend, StopFails
  <2> QED BY <2>1, <2>2
<1>11. CASE Restarting
  <2>1. ~Restart
    BY <1>2 DEF Restart
  <2> QED BY <1>3, <1>11, <2>1 DEF Restarting, RestartCli, Load
<1>12. CASE UNCHANGED vars
  BY <1>3, <1>12 DEF vars
<1> QED BY <1>4, <1>6, <1>7, <1>8, <1>9, <1>10, <1>11, <1>12 DEF Next

\* So whoever was told "ran" can point at the transcript.
LEMMA RanShownStep ==
  ASSUME IInv, RanShown, [Next]_vars
  PROVE  RanShown'
<1> SUFFICES ASSUME NEW a \in Attempts, att'[a].pc = "replied", att'[a].reply = "ran"
             PROVE  \E x \in wire' : /\ x.uuid = Earliest(att'[a].batch).uuid
                                     /\ x.st \in Ran
  BY DEF RanShown, Replied, LineUuid, Shows, Ran
<1>1. /\ att'[a].batch = att[a].batch
      /\ Replied(a, "ran") \/ (Send(a) /\ Answer(a) = "ran")
  BY RanIsAnswered
<1> DEFINE u == LineUuid(a)
<1>2. u = Earliest(att[a].batch).uuid
  BY DEF LineUuid
<1>3. Shows(u, Ran)
  <2>1. CASE Replied(a, "ran")
    BY <2>1 DEF RanShown
  <2>2. CASE Answer(a) = "ran"
    <3>1. Verdict(u) = "ran"
      BY <2>2 DEF Answer
    <3> QED BY <3>1 DEF Verdict, Shows, Ran
  <2> QED BY <1>1, <2>1, <2>2
<1>4. PICK v \in wire : v.uuid = u /\ v.st \in Ran
  BY <1>3 DEF Shows
<1>5. \E x \in wire' : x.uuid = v.uuid /\ x.st \in Ran
  BY <1>4, TookStays DEF Took, Ran
<1> QED BY <1>1, <1>2, <1>4, <1>5

\* What a message that is not queued any more met in this step: a person
\* discarded it, the companion got it back, or its line ran.
Discards(m) == m \in discarded' /\ fate'[m] # "taken"
GivesBack(m) == "freed" \in told'[m] /\ fate'[m] # "taken"

\* The daemon answered, or a frame shows, that a line of it ran.
HasRun(m) ==
  \/ \E a \in Attempts : Replied(a, "ran") /\ m \in BatchIds(a)
  \/ \E l \in untaken \cup answering : Shows(l.uuid, Ran) /\ m \in l.ids

\* Every way out of the queue, in any interleaving.
LEMMA LeavesHow ==
  ASSUME IInv, [Next]_vars, NEW m \in Messages, Queued(m), ~Queued(m)'
  PROVE  Discards(m) \/ GivesBack(m) \/ HasRun(m)
<1> DEFINE Goal == Discards(m) \/ GivesBack(m) \/ HasRun(m)
<1>0. queue \in SUBSET Row /\ IInv
  BY DEF IInv, TypeOK
<1>1. ASSUME Ids(queue) \subseteq Ids(queue') PROVE Goal
  BY <1>1 DEF Queued, Ids
<1>2. ASSUME queue' = queue PROVE Goal
  BY <1>1, <1>2
<1>3. ASSUME NEW ids, ReleaseCancelled(ids) PROVE Goal
  <2>1. PICK r \in queue : r.id = m
    BY DEF Queued, Ids
  <2>2. m \in ids
    BY <1>3, <2>1 DEF ReleaseCancelled, RemoveTaken, Queued, Ids
  <2>3. m \in discarded' /\ fate'[m] = IF fate[m] # "none" \/ m \in Phone
                                        THEN "removed" ELSE fate[m]
    BY <1>3, <2>1, <2>2 DEF ReleaseCancelled, Ids
  <2> QED BY <2>3 DEF Discards
<1>4. ASSUME NEW ids, ReleaseRan(ids) PROVE m \in ids
  BY <1>4 DEF ReleaseRan, RemoveTaken, Queued, Ids
<1>5. ASSUME Intake PROVE Goal
  <2>1. CASE Store
    BY <1>1, <2>1 DEF Store, Ids
  <2>2. CASE Revive
    BY <1>0, <1>1, <2>2, FreshLineKeepsIds DEF Revive
  <2>3. CASE ParkStale
    BY <1>0, <1>1, <2>3, ParkKeepsIds DEF ParkStale
  <2>4. ASSUME NEW k \in Messages, Arrive(k) \/ Relay(k) \/ Retry(k) PROVE Goal
    BY <1>2, <2>4 DEF Arrive, Relay, Retry, queueFile
  <2>5. ASSUME NEW k \in Messages, Delete(k) PROVE Goal
    <3>1. k = m
      BY <2>5 DEF Delete, Queued, Ids
    <3>2. m \in discarded' /\ fate'[m] # "taken"
      BY <1>0, <2>5, <3>1 DEF Delete, IInv, TypeOK
    <3> QED BY <3>2 DEF Discards
  <2>6. ASSUME NEW k \in Messages, Withdraw(k) PROVE Goal
    <3>1. WithdrawAnswer(queue, fate[k], k) = "withdrawn"
      <4>1. queue' = IF WithdrawAnswer(queue, fate[k], k) = "withdrawn"
                       THEN {r \in queue : r.id # k} ELSE queue
        BY <2>6 DEF Withdraw
      <4> QED BY <4>1 DEF Queued
    <3>2. k = m
      BY <2>6, <3>1 DEF Withdraw, Queued, Ids
    <3>3. fate' = [fate EXCEPT ![k] = "withdrawn"]
      BY <2>6, <3>1 DEF Withdraw
    <3>4. told' = [told EXCEPT ![k] = @ \cup {"freed"}]
      BY <2>6, <3>1 DEF Withdraw, GivenBack
    <3> QED BY <1>0, <3>2, <3>3, <3>4 DEF GivesBack, IInv, TypeOK
  <2> QED BY <1>5, <2>1, <2>2, <2>3, <2>4, <2>5, <2>6 DEF Intake
<1>6. ASSUME NEW a \in {"next", "mid"}, DeliverLive(a) PROVE Goal
  <2>1. CASE Begin(a) \/ Register(a)
    BY <1>2, <2>1 DEF Begin, Register, queueFile
  <2>2. CASE Mark(a)
    BY <1>0, <1>1, <2>2, MarkKeepsIds DEF Mark
  <2>3. CASE SettleRefusedStopped(a)
    <3>1. Ids(queue) \subseteq Ids(RevertIfQueued(queue, HandedBack(view)))
      BY <1>0, RevertKeepsIds
    <3>2. RevertIfQueued(queue, HandedBack(view)) \in SUBSET Row
      BY <1>0, RevertIfQueuedType
    <3>3. \A rows \in SUBSET Row :
            Ids(rows) \subseteq Ids(ParkIfQueued(rows, BatchIds(a), "stop"))
      BY ParkKeepsIds
    <3>4. Ids(queue) \subseteq Ids(queue')
      BY <1>0, <2>3, <3>1, <3>2, <3>3 DEF SettleRefusedStopped
    <3> QED BY <1>1, <3>4
  <2>4. CASE SettleRefusedEnded(a)
    BY <1>0, <1>1, <2>4, RevertKeepsIds DEF SettleRefusedEnded
  <2>5. CASE SettleRefusedGone(a)
    BY <1>0, <1>1, <2>5, RevertKeepsIds DEF SettleRefusedGone
  <2> QED BY <1>6, <2>1, <2>2, <2>3, <2>4, <2>5 DEF DeliverLive
<1>7. ASSUME NEW a \in Attempts, Deliver(a) PROVE Goal
  <2>1. CASE Send(a) \/ LoseAnswer(a) \/ SettleWritten(a) \/ SettleTaking(a)
    BY <1>2, <2>1 DEF Send, LoseAnswer, SettleWritten, SettleTaking, queueFile
  <2>2. CASE SettleRan(a)
    BY <1>4, <2>2 DEF SettleRan, HasRun
  <2>3. CASE SettleUnanswered(a)
    <3> DEFINE again == RequeueUnanswered(queue, BatchIds(a), LineUuid(a), used.fresh + 1)
    <3>1. Ids(queue) \subseteq Ids(again)
      BY <1>0, FreshLineKeepsIds
    <3>2. used.fresh + 1 \in Nat
      BY DEF IInv, TypeOK
    <3>3. again \in SUBSET Row
      BY <1>0, <3>2, RequeueUnansweredType
    <3>4. PICK spent : queue' = ParkForFreshLine(again, spent, "failed", used.fresh + 2)
      BY <2>3 DEF SettleUnanswered
    <3> HIDE DEF again
    <3>5. Ids(again) \subseteq Ids(queue')
      BY <3>3, <3>4, FreshLineKeepsIds
    <3>6. Ids(queue) \subseteq Ids(queue')
      BY <3>1, <3>5
    <3> QED BY <1>1, <3>6
  <2>4. CASE SettleCancelled(a)
    BY <1>3, <2>4 DEF SettleCancelled
  <2>5. CASE SettleSuperseded(a)
    BY <1>0, <1>1, <2>5, ParkKeepsIds DEF SettleSuperseded
  <2>6. CASE SettleUnknown(a)
    BY <1>0, <1>1, <2>6, ParkKeepsIds, RevertKeepsIds DEF SettleUnknown
  <2> QED BY <1>7, <2>1, <2>2, <2>3, <2>4, <2>5, <2>6 DEF Deliver
<1>8. ASSUME Resume PROVE Goal
  <2>1. CASE Attach \/ NoSession \/ SpawnStart
    BY <1>2, <2>1 DEF Attach, NoSession, SpawnStart, queueFile
  <2>2. CASE SpawnFails \/ SpawnRefused
    BY <1>0, <1>1, <2>2, ParkKeepsIds, RevertKeepsIds DEF SpawnFails, SpawnRefused
  <2>3. CASE SettleSpawnDead
    <3>1. PICK ids : queue' = RevertToPending(RevertIfQueued(queue, ids), Batch("spawn"))
      BY <2>3 DEF SettleSpawnDead
    <3>2. Ids(queue) \subseteq Ids(RevertIfQueued(queue, ids))
      BY <1>0, RevertKeepsIds
    <3>3. RevertIfQueued(queue, ids) \in SUBSET Row
      BY <1>0, RevertIfQueuedType
    <3>4. Ids(RevertIfQueued(queue, ids)) \subseteq Ids(queue')
      BY <3>1, <3>3, RevertKeepsIds
    <3>5. Ids(queue) \subseteq Ids(queue')
      BY <3>2, <3>4
    <3> QED BY <1>1, <3>5
  <2>4. CASE ReadHold
    BY <1>0, <1>1, <2>4, RevertKeepsIds DEF ReadHold
  <2>5. CASE DropHold \/ RecoveryEnds
    BY <1>0, <1>1, <2>5, ParkKeepsIds DEF DropHold, RecoveryEnds
  <2> QED BY <1>8, <2>1, <2>2, <2>3, <2>4, <2>5 DEF Resume
<1>9. ASSUME Cli PROVE Goal
  BY <1>2, <1>9 DEF Cli, Take, AnswerLines, Die, queueFile
<1>10. ASSUME Frames PROVE Goal
  <2>1. CASE ReadStart
    BY <1>2, <2>1 DEF ReadStart, queueFile
  <2>2. CASE ReadAnswer
    <3>1. PICK l \in untaken \cup answering : Shows(l.uuid, Ran) /\ ReleaseRan(l.ids)
      BY <2>2 DEF ReadAnswer, Shows, Ran
    <3>2. m \in l.ids
      BY <1>4, <3>1
    <3> QED BY <3>1, <3>2 DEF HasRun
  <2>3. CASE ReadCancelled
    BY <1>3, <2>3 DEF ReadCancelled
  <2>4. CASE SeeExit
    BY <1>0, <1>1, <2>4, RevertKeepsIds DEF SeeExit
  <2> QED BY <1>10, <2>1, <2>2, <2>3, <2>4 DEF Frames
<1>11. ASSUME Stopping PROVE Goal
  <2>1. CASE StopPark
    BY <1>0, <1>1, <2>1, ParkKeepsIds DEF StopPark
  <2>2. CASE ~StopPark
    BY <1>2, <1>11, <2>2
    DEF Stopping, Interrupt, StopAsk, StopPeek, StopSend, StopFails, queueFile
  <2> QED BY <2>1, <2>2
<1>12. ASSUME Restarting PROVE Goal
  BY <1>0, <1>1, <1>2, <1>12, RevertKeepsIds
  DEF Restarting, RestartCli, Restart, Load, queueFile
<1>13. CASE UNCHANGED vars
  BY <1>2, <1>13 DEF vars, queueFile
<1> QED BY <1>5, <1>6, <1>7, <1>8, <1>9, <1>10, <1>11, <1>12, <1>13 DEF Next

\* A row that leaves did so by such a word, which is true.
LEMMA LeavesForCause ==
  ASSUME IInv, RanShown, OneBatchPerUuid, [Next]_vars,
         NEW m \in Messages, Queued(m), ~Queued(m)'
  PROVE  Discards(m) \/ GivesBack(m) \/ Carried(m, Took)
<1>1. ASSUME NEW a \in Attempts, Replied(a, "ran"), m \in BatchIds(a) PROVE Carried(m, Took)
  <2>1. att[a].batch # {} /\ Shows(LineUuid(a), Ran)
    BY <1>1 DEF Replied, IInv, AttemptsHold, RanShown
  <2> QED BY <1>1, <2>1, RanCarries
<1>2. ASSUME NEW l \in untaken \cup answering, Shows(l.uuid, Ran), m \in l.ids
      PROVE  Carried(m, Took)
  BY <1>2, RanCarries
<1> QED BY <1>1, <1>2, LeavesHow DEF HasRun

\* What the properties remember grows, and grows for cause: a message is stored
\* with its row, "taken" is noted of a row here, "delivered" is told of a taken
\* message that is not queued.
LEMMA HistoryGrows ==
  ASSUME IInv, [Next]_vars, NEW m \in Messages
  PROVE  /\ m \in discarded => m \in discarded'
         /\ told[m] \subseteq told'[m]
         /\ m \in stored' => m \in stored \/ Queued(m)'
         /\ fate'[m] = "taken" => fate[m] = "taken" \/ Queued(m) \/ Queued(m)'
         /\ "delivered" \in told'[m] =>
              \/ "delivered" \in told[m]
              \/ fate[m] = "taken" /\ ~Queued(m)
<1> DEFINE Goal ==
      /\ m \in discarded => m \in discarded'
      /\ told[m] \subseteq told'[m]
      /\ m \in stored' => m \in stored \/ Queued(m)'
      /\ fate'[m] = "taken" => fate[m] = "taken" \/ Queued(m) \/ Queued(m)'
      /\ "delivered" \in told'[m] =>
           \/ "delivered" \in told[m]
           \/ fate[m] = "taken" /\ ~Queued(m)
<1> SUFFICES Goal
  OBVIOUS
<1>0. fate \in [Messages -> Fate] /\ told \in [Messages -> SUBSET Word]
  BY DEF IInv, TypeOK
<1>1. ASSUME UNCHANGED history, fate'[m] = "taken" => fate[m] = "taken" \/ Queued(m)
      PROVE  Goal
  BY <1>1 DEF history
<1>2. ASSUME UNCHANGED <<fate, history>> PROVE Goal
  BY <1>1, <1>2
<1>3. ASSUME NEW ids, ReleaseCancelled(ids), UNCHANGED <<told, stored>> PROVE Goal
  <2>1. discarded \subseteq discarded'
    BY <1>3 DEF ReleaseCancelled
  <2>2. fate'[m] = "taken" => fate[m] = "taken"
    BY <1>3 DEF ReleaseCancelled
  <2> QED BY <1>3, <2>1, <2>2
<1>4. ASSUME NEW ids, ReleaseRan(ids), UNCHANGED history PROVE Goal
  <2>1. fate'[m] # fate[m] => m \in Ids({r \in queue : r.id \in ids})
    BY <1>4 DEF ReleaseRan
  <2>2. fate'[m] # fate[m] => Queued(m)
    BY <2>1 DEF Queued, Ids
  <2> QED BY <1>1, <1>4, <2>2
<1>5. ASSUME Intake PROVE Goal
  <2>1. CASE Store
    <3>1. PICK w \in arriving : Store!(w)
      BY <2>1 DEF Store
    <3>2. m = w.id => Queued(m)'
      <4> DEFINE row == NewRow(w)
      <4>1. row.id = w.id
        BY DEF NewRow
      <4> HIDE DEF row
      <4>2. queue' = IF w.id \in {r.id : r \in queue} THEN queue ELSE queue \cup {row}
        BY <3>1 DEF Queued, Ids, row
      <4> QED BY <4>1, <4>2 DEF Queued, Ids
    <3>3. m # w.id => fate'[m] = fate[m]
      BY <1>0, <3>1
    <3> QED BY <3>1, <3>2, <3>3
  <2>2. CASE Revive \/ ParkStale
    BY <1>2, <2>2 DEF Revive, ParkStale
  <2>3. ASSUME NEW k \in Messages, Arrive(k) \/ Relay(k) \/ Retry(k) PROVE Goal
    BY <1>2, <2>3 DEF Arrive, Relay, Retry, queueFile
  <2>4. ASSUME NEW k \in Messages, Delete(k) PROVE Goal
    BY <1>0, <2>4 DEF Delete
  <2>5. ASSUME NEW k \in Messages, Withdraw(k) PROVE Goal
    <3> DEFINE answer == WithdrawAnswer(queue, fate[k], k)
    <3>1. UNCHANGED <<discarded, stored>>
      BY <2>5 DEF Withdraw
    <3>2. fate' = CASE answer = "withdrawn" -> [fate EXCEPT ![k] = "withdrawn"]
                    [] answer = "not-received" -> [fate EXCEPT ![k] = "fenced"]
                    [] OTHER -> fate
      BY <2>5 DEF Withdraw
    <3>3. told' = [told EXCEPT ![k] = @ \cup
                     (IF answer \in GivenBack THEN {"freed"} ELSE {answer} \cap Word)]
      BY <2>5 DEF Withdraw
    <3>4. answer = "delivered" => fate[k] = "taken" /\ ~Queued(k)
      <4>1. CASE k \in Ids(queue)
        BY <4>1 DEF WithdrawAnswer
      <4>2. CASE k \notin Ids(queue)
        BY <4>2 DEF WithdrawAnswer, Queued
      <4> QED BY <4>1, <4>2
    <3> HIDE DEF answer
    <3>5. fate'[m] = "taken" => fate[m] = "taken"
      BY <1>0, <3>2
    <3>6. told[m] \subseteq told'[m]
      BY <1>0, <3>3
    <3>7. "delivered" \in told'[m] =>
            "delivered" \in told[m] \/ (answer = "delivered" /\ k = m)
      BY <1>0, <3>3
    <3> QED BY <3>1, <3>4, <3>5, <3>6, <3>7
  <2> QED BY <1>5, <2>1, <2>2, <2>3, <2>4, <2>5 DEF Intake
<1>6. ASSUME NEW a \in {"next", "mid"}, DeliverLive(a) PROVE Goal
  BY <1>2, <1>6
  DEF DeliverLive, Begin, Mark, Register, SettleRefusedStopped, SettleRefusedEnded,
      SettleRefusedGone, queueFile
<1>7. ASSUME NEW a \in Attempts, Deliver(a) PROVE Goal
  <2>1. CASE SettleRan(a)
    BY <1>4, <2>1 DEF SettleRan
  <2>2. CASE SettleCancelled(a)
    BY <1>3, <2>2 DEF SettleCancelled
  <2>3. CASE ~SettleRan(a) /\ ~SettleCancelled(a)
    BY <1>2, <1>7, <2>3
    DEF Deliver, Send, LoseAnswer, SettleWritten, SettleTaking, SettleUnanswered,
        SettleSuperseded, SettleUnknown, queueFile
  <2> QED BY <2>1, <2>2, <2>3
<1>8. ASSUME Resume PROVE Goal
  BY <1>2, <1>8
  DEF Resume, Attach, NoSession, SpawnStart, SpawnFails, SpawnRefused, SettleSpawnDead,
      ReadHold, DropHold, RecoveryEnds, queueFile
<1>9. ASSUME Cli \/ Stopping \/ Restarting PROVE Goal
  BY <1>2, <1>9
  DEF Cli, Take, AnswerLines, Die, Stopping, Interrupt, StopAsk, StopPeek, StopPark,
      StopSend, StopFails, Restarting, RestartCli, Restart, Load, queueFile
<1>10. ASSUME Frames PROVE Goal
  <2>1. CASE ReadAnswer
    BY <1>4, <2>1 DEF ReadAnswer
  <2>2. CASE ReadCancelled
    BY <1>3, <2>2 DEF ReadCancelled
  <2>3. CASE ReadStart \/ SeeExit
    BY <1>2, <2>3 DEF ReadStart, SeeExit, queueFile
  <2> QED BY <1>10, <2>1, <2>2, <2>3 DEF Frames
<1>11. CASE UNCHANGED vars
  BY <1>2, <1>11 DEF vars, queueFile
<1> QED BY <1>5, <1>6, <1>7, <1>8, <1>9, <1>10, <1>11 DEF Next

\* The invariant holds at the start, ...
LEMMA KeepingInit == Init => Keeping
BY DEF Init, Keeping, RanShown, Replied, Idle, NothingLost, TakenKept,
       DeliveredWasTaken

\* ... and every step keeps it, as long as a uuid names one batch.
LEMMA KeepingStep ==
  ASSUME IInv, Keeping, OneBatchPerUuid, [Next]_vars
  PROVE  Keeping'
<1>1. RanShown'
  BY RanShownStep DEF Keeping
<1>2. ASSUME NEW m \in Messages, Queued(m), ~Queued(m)'
      PROVE  Discards(m) \/ GivesBack(m) \/ Carried(m, Took)'
  BY <1>2, LeavesForCause, CarriedStays DEF Keeping
<1>3. NothingLost'
  <2> SUFFICES ASSUME NEW m \in stored', ~Queued(m)'
               PROVE  m \in discarded' \/ "freed" \in told'[m] \/ Carried(m, Took)'
    BY DEF NothingLost
  <2>0. m \in Messages
    BY TypeStep DEF TypeOK
  <2>1. CASE Queued(m)
    BY <1>2, <2>0, <2>1 DEF Discards, GivesBack
  <2>2. CASE ~Queued(m)
    BY <2>0, <2>2, HistoryGrows, CarriedStays DEF Keeping, NothingLost
  <2> QED BY <2>1, <2>2
<1>4. TakenKept'
  <2> SUFFICES ASSUME NEW m \in Messages, fate'[m] = "taken", ~Queued(m)'
               PROVE  Carried(m, Took)'
    BY DEF TakenKept
  <2>1. CASE Queued(m)
    BY <1>2, <2>1 DEF Discards, GivesBack
  <2>2. CASE ~Queued(m)
    BY <2>2, HistoryGrows, CarriedStays DEF Keeping, TakenKept
  <2> QED BY <2>1, <2>2
<1>5. DeliveredWasTaken'
  <2> SUFFICES ASSUME NEW m \in Messages, "delivered" \in told'[m]
               PROVE  Carried(m, Took)'
    BY DEF DeliveredWasTaken
  <2> QED BY HistoryGrows, CarriedStays DEF Keeping, TakenKept, DeliveredWasTaken
<1> QED BY <1>1, <1>3, <1>4, <1>5 DEF Keeping

\* A stored message stays in the queue until a CLI took it, a person discarded
\* it or the companion got it back, through every crash, stop and retry, as long
\* as no uuid is used for a batch that its first line did not hold. TLC shows
\* that the condition is needed (dlv_split).
THEOREM LostOnlyBySplitting == Spec /\ []OneBatchPerUuid => []NothingLost
<1>1. IInv /\ Keeping /\ OneBatchPerUuid /\ [Next]_vars => Keeping'
  BY KeepingStep
<1>2. Keeping => NothingLost
  BY DEF Keeping
<1> QED BY <1>1, <1>2, InitIInv, IInvStep, KeepingInit, PTL DEF Spec

\* Under the same condition the companion hears "delivered" of no message that
\* a CLI did not take.
THEOREM DeliveredIsTrue == Spec /\ []OneBatchPerUuid => []DeliveredWasTaken
<1>1. IInv /\ Keeping /\ OneBatchPerUuid /\ [Next]_vars => Keeping'
  BY KeepingStep
<1>2. Keeping => DeliveredWasTaken
  BY DEF Keeping
<1> QED BY <1>1, <1>2, InitIInv, IInvStep, KeepingInit, PTL DEF Spec

-----------------------------------------------------------------------------
(* Who settles a row that is being delivered *)

\* An attempt that answers for its rows itself. A line of `next' or `mid' is
\* answered for by the registry once it is registered.
Busy(a) == IF a = "spawn" THEN att[a].pc # "idle" ELSE att[a].pc = "marked"

\* Who answers for a row does so under the row's own uuid.
HasOwner(r) ==
  \/ \E a \in Attempts : Busy(a) /\ r.id \in BatchIds(a) /\ LineUuid(a) = r.uuid
  \/ \E l \in untaken \cup answering : r.id \in l.ids /\ l.uuid = r.uuid
  \/ hold # NoHold /\ r.id \in Ids(hold.rows) /\ HoldUuid = r.uuid

Owned == loaded => \A r \in Delivering(queue) : HasOwner(r)

\* One resume at a time: `next' starts one only while none is in progress, and a
\* resume's line goes out only while no earlier one is held.
OneResume ==
  /\ att["next"].pc \in {"registered", "replied"} => att["spawn"].pc = "idle"
  /\ att["spawn"].pc \in {"registered", "replied"} => hold = NoHold

\* Every step keeps resumes apart.
LEMMA OneResumeStep ==
  ASSUME IInv, OneResume, [Next]_vars
  PROVE  OneResume'
<1> DEFINE Before == att["next"].pc \in {"registered", "replied"}
           After == att'["next"].pc \in {"registered", "replied"}
           Spawned == att["spawn"].pc \in {"registered", "replied"}
           SpawnedAfter == att'["spawn"].pc \in {"registered", "replied"}
<1> USE DEF Set, Attempts, registry
<1>0. \A a \in Attempts : att[a] \in Attempt
  BY DEF IInv, TypeOK
<1>1. att \in [Attempts -> Attempt] /\ Idle.pc = "idle"
  BY DEF IInv, TypeOK, Idle
<1>2. ASSUME After => Before, att'["spawn"].pc = "idle" \/ att'["spawn"].pc = att["spawn"].pc,
             hold' \in {hold, NoHold}
      PROVE  OneResume'
  BY <1>2 DEF OneResume
<1>3. ASSUME att' = att, hold' \in {hold, NoHold} PROVE OneResume'
  BY <1>2, <1>3
<1>4. ASSUME NEW b \in Attempts, Set(b, Idle), hold' \in {hold, NoHold} PROVE OneResume'
  BY <1>1, <1>2, <1>4
<1>5. CASE Intake
  BY <1>3, <1>5 DEF Intake, Store, Revive, ParkStale, Arrive, Relay, Retry, Delete, Withdraw
<1>6. ASSUME NEW b \in {"next", "mid"}, DeliverLive(b) PROVE OneResume'
  <2>1. CASE Begin(b)
    <3>1. [Idle EXCEPT !.pc = "begun", !.fence = stop.id].pc = "begun"
      BY DEF Idle
    <3> QED BY <1>1, <1>2, <2>1, <3>1 DEF Begin
  <2>2. CASE Mark(b)
    <3>1. \A x : [att[b] EXCEPT !.pc = "marked", !.batch = x].pc = "marked"
      BY <1>0 DEF Attempt
    <3> QED BY <1>1, <1>2, <2>2, <3>1 DEF Mark
  <2>3. CASE Register(b)
    BY <1>1, <2>3 DEF Register, OneResume
  <2>4. CASE SettleRefusedStopped(b) \/ SettleRefusedEnded(b)
    BY <1>4, <2>4 DEF SettleRefusedStopped, SettleRefusedEnded
  <2>5. CASE SettleRefusedGone(b)
    <3>1. CASE Set(b, Idle)
      BY <1>4, <2>5, <3>1 DEF SettleRefusedGone
    <3>2. CASE att' = [att EXCEPT !["next"] = Idle,
                 !["spawn"] = [att["next"] EXCEPT !.pc = "begun", !.reply = "none"]]
      <4>1. [att["next"] EXCEPT !.pc = "begun", !.reply = "none"].pc = "begun"
        BY <1>0 DEF Attempt
      <4> QED BY <1>1, <3>2, <4>1 DEF OneResume
    <3> QED BY <2>5, <3>1, <3>2 DEF SettleRefusedGone
  <2> QED BY <1>6, <2>1, <2>2, <2>3, <2>4, <2>5 DEF DeliverLive
<1>7. ASSUME NEW b \in Attempts, Deliver(b) PROVE OneResume'
  <2>1. CASE Send(b) \/ LoseAnswer(b)
    <3>1. \A r : [att[b] EXCEPT !.pc = "replied", !.reply = r].pc = "replied"
      BY <1>0 DEF Attempt
    <3>2. att[b].pc \in {"registered", "replied"} /\ hold' = hold
      BY <2>1 DEF Send, LoseAnswer, host
    <3>3. \E r : att' = [att EXCEPT ![b] = [att[b] EXCEPT !.pc = "replied", !.reply = r]]
      BY <2>1 DEF Send, LoseAnswer
    <3>4. att'[b].pc = "replied" /\ \A a \in Attempts \ {b} : att'[a] = att[a]
      BY <1>1, <3>1, <3>3
    <3> QED BY <3>2, <3>4 DEF OneResume
  <2>2. CASE SettleWritten(b)
    BY <1>1, <1>4, <2>2 DEF SettleWritten, OneResume
  <2>3. CASE SettleTaking(b) \/ SettleRan(b) \/ SettleUnanswered(b) \/ SettleCancelled(b)
             \/ SettleSuperseded(b) \/ SettleUnknown(b)
    BY <1>4, <2>3 DEF SettleTaking, SettleRan, SettleUnanswered, SettleCancelled,
                      SettleSuperseded, SettleUnknown
  <2> QED BY <1>7, <2>1, <2>2, <2>3 DEF Deliver
<1>8. CASE Resume
  <2>1. CASE NoSession
    <3>1. [att["next"] EXCEPT !.pc = "begun"].pc = "begun"
      BY <1>0 DEF Attempt
    <3> QED BY <1>1, <2>1, <3>1 DEF NoSession, OneResume
  <2>2. CASE SpawnStart
    <3>1. att["next"].pc \notin {"registered", "replied"}
      BY <2>2 DEF SpawnStart, OneResume
    <3> QED BY <1>1, <2>2, <3>1 DEF SpawnStart, OneResume
  <2>3. CASE SpawnFails \/ SpawnRefused \/ SettleSpawnDead
    BY <1>4, <2>3 DEF SpawnFails, SpawnRefused, SettleSpawnDead
  <2>4. CASE Attach \/ ReadHold \/ DropHold \/ RecoveryEnds
    BY <1>3, <2>4 DEF Attach, ReadHold, DropHold, RecoveryEnds
  <2> QED BY <1>8, <2>1, <2>2, <2>3, <2>4 DEF Resume
<1>9. CASE Cli \/ Frames
  BY <1>3, <1>9
  DEF Cli, Take, AnswerLines, Die, Frames, ReadStart, ReadAnswer, ReadCancelled, SeeExit
<1>10. CASE Stopping
  <2>1. CASE Interrupt
    <3>1. \A a \in Attempts : [att[a] EXCEPT !.stopped = TRUE].pc = att[a].pc
      BY <1>0 DEF Attempt
    <3>2. \A a \in Attempts : att'[a].pc = att[a].pc
      BY <2>1, <3>1 DEF Interrupt
    <3> QED BY <1>2, <2>1, <3>2 DEF Interrupt
  <2>2. CASE ~Interrupt
    BY <1>3, <1>10, <2>2 DEF Stopping, StopAsk, StopPeek, StopPark, StopSend, StopFails
  <2> QED BY <2>1, <2>2
<1>11. CASE Restarting
  <2>1. CASE Restart
    BY <1>1, <2>1 DEF Restart, OneResume
  <2> QED BY <1>3, <1>11, <2>1 DEF Restarting, RestartCli, Load
<1>12. CASE UNCHANGED vars
  BY <1>3, <1>12 DEF vars
<1> QED BY <1>5, <1>6, <1>7, <1>8, <1>9, <1>10, <1>11, <1>12 DEF Next

\* A row still being delivered after a park or a revert is none of its rows.
LEMMA StillDelivering ==
  ASSUME NEW rows \in SUBSET Row, NEW copies \in SUBSET Row, NEW r
  PROVE  /\ \A why : r \in Delivering(ParkMessages(rows, copies, why)) =>
                       r \in Delivering(rows) /\ r.id \notin Ids(copies)
         /\ r \in Delivering(RevertToPending(rows, copies)) =>
              r \in Delivering(rows) /\ r.id \notin Ids(copies)
         /\ r \in Delivering(HoldForStartRecovery(rows, copies)) =>
              r \in Delivering(rows) /\ r.id \notin Ids(copies)
         /\ \A ids, why : r \in Delivering(ParkIfQueued(rows, ids, why)) =>
                            r \in Delivering(rows) /\ r.id \notin ids
<1>1. /\ \A why : Delivering(ParkMessages(rows, copies, why))
                    \subseteq {x \in Delivering(rows) : x.id \notin Ids(copies)}
      /\ Delivering(HoldForStartRecovery(rows, copies))
           \subseteq {x \in Delivering(rows) : x.id \notin Ids(copies)}
      /\ \A ids, why : Delivering(ParkIfQueued(rows, ids, why))
                         \subseteq {x \in Delivering(rows) : x.id \notin ids}
  BY ParkEndsDelivery
<1>2. Delivering(RevertToPending(rows, copies))
        \subseteq {x \in Delivering(rows) : x.id \notin Ids(copies)}
  BY RevertEndsDelivery
<1> QED BY <1>1, <1>2

\* Every step that ends a line, a hold or an attempt puts its rows back, parks
\* them or takes them out, as long as no line under their uuid leaves one behind.
LEMMA OwnedStep ==
  ASSUME IInv, OneResume, Owned, RowsGoTogether, [Next]_vars,
         loaded', NEW r \in Delivering(queue')
  PROVE  HasOwner(r)'
<1> DEFINE ByAttempt(a) ==
             /\ IF a = "spawn" THEN att'[a].pc # "idle" ELSE att'[a].pc = "marked"
             /\ r.id \in Ids(att'[a].batch) /\ Earliest(att'[a].batch).uuid = r.uuid
           ByLine == \E l \in untaken' \cup answering' : r.id \in l.ids /\ l.uuid = r.uuid
           ByHold == /\ hold' # NoHold
                     /\ r.id \in Ids(hold'.rows) /\ Earliest(hold'.rows).uuid = r.uuid
           Goal == (\E a \in Attempts : ByAttempt(a)) \/ ByLine \/ ByHold
           Mine(a) == Busy(a) /\ r.id \in BatchIds(a) /\ LineUuid(a) = r.uuid
           Lined == \E l \in untaken \cup answering : r.id \in l.ids /\ l.uuid = r.uuid
           Held == hold # NoHold /\ r.id \in Ids(hold.rows) /\ HoldUuid = r.uuid
<1> SUFFICES Goal
  BY DEF HasOwner, Busy, BatchIds, LineUuid, HoldUuid, NoHold
<1>0. /\ queue \in SUBSET Row /\ queue' \in SUBSET Row
      /\ att \in [Attempts -> Attempt] /\ \A a \in Attempts : att[a] \in Attempt
      /\ \A a \in Attempts : att[a].batch \in SUBSET Row
      /\ Idle.pc = "idle"
      /\ NoHold' = NoHold
  BY TypeStep DEF IInv, TypeOK, Attempt, Idle, NoHold
<1>1. ASSUME loaded, r \in Delivering(queue)
      PROVE  /\ (\E a \in Attempts : Mine(a)) \/ Lined \/ Held
             /\ \A a \in Attempts :
                  att[a].batch # {} /\ LineUuid(a) = r.uuid => r.id \in BatchIds(a)
             /\ \A l \in untaken \cup answering : l.uuid = r.uuid => r.id \in l.ids
             /\ hold # NoHold /\ HoldUuid = r.uuid => r.id \in Ids(hold.rows)
  BY <1>1 DEF Owned, HasOwner, RowsGoTogether, Delivering
\* An owner that stays what it was.
<1>2. ASSUME NEW a \in Attempts, Mine(a), att'[a].batch = att[a].batch,
             IF a = "spawn" THEN att'[a].pc # "idle" ELSE att'[a].pc = "marked"
      PROVE  Goal
  BY <1>2 DEF BatchIds, LineUuid
<1>3. ASSUME NEW a \in Attempts, Mine(a), att'[a] = att[a] PROVE Goal
  BY <1>2, <1>3 DEF Busy
<1>4. ASSUME Held, hold' = hold PROVE Goal
  BY <1>4 DEF HoldUuid
<1>5. ASSUME NEW l \in untaken' \cup answering', r.id \in l.ids, l.uuid = r.uuid PROVE Goal
  BY <1>5
<1>6. ASSUME Lined, untaken \subseteq untaken', answering \subseteq answering' PROVE Goal
  BY <1>6
<1> HIDE DEF Goal, Mine, Lined, Held
<1>7. ASSUME loaded, r \in Delivering(queue), att' = att, UNCHANGED registry PROVE Goal
  BY <1>1, <1>3, <1>4, <1>6, <1>7 DEF registry
\* An attempt of which no row is being delivered any more goes idle.
<1>8. ASSUME NEW b \in Attempts, loaded, r \in Delivering(queue), Set(b, Idle),
             Busy(b) => r.id \notin BatchIds(b) \/ LineUuid(b) # r.uuid,
             hold' = hold, Lined => Goal
      PROVE  Goal
  <2>1. CASE Lined \/ Held
    BY <1>4, <1>8, <2>1
  <2>2. ASSUME NEW a \in Attempts, Mine(a) PROVE Goal
    <3>1. a # b
      BY <1>8, <2>2 DEF Mine
    <3>2. att'[a] = att[a]
      BY <1>0, <1>8, <3>1 DEF Set
    <3> QED BY <1>3, <2>2, <3>2
  <2> QED BY <1>1, <1>8, <2>1, <2>2
<1>9. ASSUME Intake PROVE Goal
  <2>1. loaded /\ att' = att /\ UNCHANGED registry
    BY <1>9 DEF Intake, Store, Revive, ParkStale, Arrive, Relay, Retry, Delete, Withdraw
  <2>2. r \in Delivering(queue)
    <3>1. CASE Store
      <4>1. PICK w \in arriving :
              queue' = IF Queued(w.id) THEN queue ELSE queue \cup {NewRow(w)}
        BY <3>1 DEF Store
      <4>2. NewRow(w).status = "pending"
        BY DEF NewRow
      <4> QED BY <4>1, <4>2 DEF Delivering
    <3>2. CASE Revive
      BY <1>0, <3>2, FreshLineEndsDelivery DEF Revive
    <3>3. CASE ParkStale
      BY <1>0, <3>3, ParkEndsDelivery DEF ParkStale
    <3>4. ASSUME NEW k \in Messages, Arrive(k) \/ Relay(k) \/ Retry(k)
          PROVE  r \in Delivering(queue)
      BY <3>4 DEF Arrive, Relay, Retry, queueFile
    <3>5. ASSUME NEW k \in Messages, Delete(k) \/ Withdraw(k)
          PROVE  r \in Delivering(queue)
      BY <3>5 DEF Delete, Withdraw, Delivering
    <3> QED BY <1>9, <3>1, <3>2, <3>3, <3>4, <3>5 DEF Intake
  <2> QED BY <1>7, <2>1, <2>2
<1>10. ASSUME NEW b \in {"next", "mid"}, DeliverLive(b) PROVE Goal
  <2>0. b \in Attempts /\ b # "spawn"
    BY DEF Attempts
  <2>1. CASE Begin(b)
    <3>1. loaded /\ r \in Delivering(queue) /\ UNCHANGED registry
      BY <2>1 DEF Begin, queueFile
    <3>2. ~Busy(b)
      BY <2>0, <2>1 DEF Begin, Busy
    <3>3. ASSUME NEW a \in Attempts, Mine(a) PROVE Goal
      <4>1. a # b
        BY <3>2, <3>3 DEF Mine
      <4>2. att'[a] = att[a]
        BY <1>0, <2>1, <4>1 DEF Begin, Set
      <4> QED BY <1>3, <3>3, <4>2
    <3> QED BY <1>1, <1>4, <1>6, <3>1, <3>3 DEF registry
  <2>2. CASE Mark(b)
    <3> DEFINE batch == MarkedBatch(queue, att[b].fence)
    <3>1. loaded /\ UNCHANGED registry /\ att[b].pc = "begun" /\ att[b].fence \in Nat
      BY <1>0, <2>0, <2>2 DEF Mark, Attempt
    <3>2. r \in Delivering(queue) \/ r \in batch
      BY <1>0, <2>2, <3>1, MarkDelivers DEF Mark
    <3>3. CASE r \in batch
      <4>1. batch \in SUBSET Row /\ \A x, y \in batch : x.uuid = y.uuid
        BY <1>0, <3>1, MarkedBatchFacts, MarkedTogether
      <4>2. Earliest(batch) \in batch
        BY <3>3, <4>1, EarliestIn
      <4>3. att' = [att EXCEPT ![b] = [att[b] EXCEPT !.pc = "marked", !.batch = batch]]
        BY <2>2, <3>3 DEF Mark, Set
      <4> HIDE DEF batch
      <4>4. att'[b].pc = "marked" /\ att'[b].batch = batch
        BY <1>0, <2>0, <4>3 DEF Attempt
      <4> QED BY <2>0, <3>3, <4>1, <4>2, <4>4 DEF Goal, Ids
    <3>4. CASE r \in Delivering(queue)
      <4>1. ASSUME NEW a \in Attempts, Mine(a) PROVE Goal
        <5>1. a # b
          BY <2>0, <3>1, <4>1 DEF Mine, Busy
        <5>2. att'[a] = att[a]
          BY <1>0, <2>2, <5>1 DEF Mark, Set
        <5> QED BY <1>3, <4>1, <5>2
      <4> QED BY <1>1, <1>4, <1>6, <3>1, <3>4, <4>1 DEF registry
    <3> QED BY <3>2, <3>3, <3>4
  <2>3. CASE Register(b)
    <3> DEFINE line == LineOf(b, view)
    <3>1. /\ loaded /\ r \in Delivering(queue) /\ hold' = hold /\ answering' = answering
          /\ untaken' = {l \in untaken : l.uuid # LineUuid(b)} \cup {line}
          /\ att[b].batch # {}
      BY <2>0, <2>3 DEF Register, queueFile, IInv, AttemptsHold
    <3>2. line.ids = BatchIds(b) /\ line.uuid = LineUuid(b)
      BY DEF LineOf, BatchIds
    <3> HIDE DEF line
    <3>3. ASSUME r.uuid = LineUuid(b) PROVE Goal
      <4>1. r.id \in BatchIds(b)
        BY <1>1, <2>0, <3>1, <3>3
      <4> QED BY <1>5, <3>1, <3>2, <3>3, <4>1
    <3>4. ASSUME r.uuid # LineUuid(b) PROVE Goal
      <4>1. ASSUME NEW a \in Attempts, Mine(a) PROVE Goal
        <5>1. a # b
          BY <3>4, <4>1 DEF Mine
        <5>2. att'[a] = att[a]
          BY <1>0, <2>3, <5>1 DEF Register, Set
        <5> QED BY <1>3, <4>1, <5>2
      <4>2. CASE Lined
        BY <1>5, <3>1, <3>4, <4>2 DEF Lined
      <4> QED BY <1>1, <1>4, <3>1, <4>1, <4>2
    <3> QED BY <3>3, <3>4
  <2>4. CASE SettleRefusedStopped(b)
    <3>1. loaded /\ Set(b, Idle) /\ hold' = hold /\ ~Busy(b)
      BY <2>0, <2>4 DEF SettleRefusedStopped, Busy, Replied
    <3>2. CASE ~Believed(b)
      <4>1. queue' = ParkIfQueued(queue, BatchIds(b), "stop")
        BY <2>4, <3>2 DEF SettleRefusedStopped
      <4>2. r \in Delivering(queue) /\ r.id \notin BatchIds(b)
        BY <1>0, <4>1, ParkEndsDelivery
      <4>3. LineUuid(b) # r.uuid
        BY <1>1, <2>0, <2>4, <3>1, <4>2 DEF SettleRefusedStopped, Replied, IInv, AttemptsHold
      <4>4. untaken' = {l \in untaken : l.uuid # LineUuid(b)} /\ answering' = answering
        BY <2>4, <3>2 DEF SettleRefusedStopped, Untracked
      <4>5. Lined => Goal
        BY <1>5, <4>3, <4>4 DEF Lined
      <4> QED BY <1>8, <2>0, <3>1, <4>2, <4>5
    <3>3. CASE Believed(b)
      <4> DEFINE back == RevertIfQueued(queue, HandedBack(view))
      <4>1. /\ queue' = ParkIfQueued(back, BatchIds(b), "stop")
            /\ untaken' = untaken \ LinesOf(untaken, view)
            /\ answering' = answering \ LinesOf(answering, view)
        BY <2>4, <3>3 DEF SettleRefusedStopped
      <4>2. back \in SUBSET Row
        BY <1>0, RevertIfQueuedType
      <4>3. r \in Delivering(back)
        BY <4>1, <4>2, ParkEndsDelivery
      <4>4. r \in Delivering(queue) /\ r.id \notin HandedBack(view)
        BY <1>0, <4>3, RevertEndsDelivery
      <4>5. Lined => Goal
        BY <1>5, <4>1, <4>4 DEF Lined, HandedBack
      <4> QED BY <1>8, <2>0, <3>1, <4>4, <4>5
    <3> QED BY <3>2, <3>3
  <2>5. CASE SettleRefusedEnded(b)
    <3>1. /\ loaded /\ Set(b, Idle) /\ hold' = hold /\ ~Busy(b)
          /\ queue' = RevertIfQueued(queue, HandedBack(view) \cup BatchIds(b))
          /\ untaken' = untaken \ LinesOf(untaken, view)
          /\ answering' = answering \ LinesOf(answering, view)
      BY <2>0, <2>5 DEF SettleRefusedEnded, Busy, Replied
    <3>2. r \in Delivering(queue) /\ r.id \notin HandedBack(view)
      BY <1>0, <3>1, RevertEndsDelivery
    <3>3. Lined => Goal
      BY <1>5, <3>1, <3>2 DEF Lined, HandedBack
    <3> QED BY <1>8, <2>0, <3>1, <3>2, <3>3
  <2>6. CASE SettleRefusedGone(b)
    <3>1. /\ loaded /\ hold' = hold /\ ~Busy(b) /\ att[b].pc = "replied"
          /\ untaken' = {l \in untaken : l.uuid # LineUuid(b)}
          /\ att[b].batch # {}
      BY <2>0, <2>6 DEF SettleRefusedGone, Busy, Replied, Untracked, IInv, AttemptsHold
    <3>2. CASE b = "mid" \/ att[b].pid # 0
      <4>1. /\ Set(b, Idle) /\ answering' = answering
            /\ queue' = RevertIfQueued(queue, BatchIds(b))
        BY <2>6, <3>2 DEF SettleRefusedGone
      <4>2. r \in Delivering(queue) /\ r.id \notin BatchIds(b)
        BY <1>0, <4>1, RevertEndsDelivery
      <4>3. LineUuid(b) # r.uuid
        BY <1>1, <2>0, <3>1, <4>2
      <4>4. Lined => Goal
        BY <1>5, <3>1, <4>1, <4>3 DEF Lined
      <4> QED BY <1>8, <2>0, <3>1, <4>1, <4>2, <4>4
    <3>3. CASE ~(b = "mid" \/ att[b].pid # 0)
      <4>1. /\ att' = [att EXCEPT !["next"] = Idle,
                 !["spawn"] = [att["next"] EXCEPT !.pc = "begun", !.reply = "none"]]
            /\ queue' = RevertIfQueued(queue, UNION {l.ids : l \in answering})
            /\ b = "next"
        BY <2>6, <3>3 DEF SettleRefusedGone
      <4>2. r \in Delivering(queue) /\ \A l \in answering : r.id \notin l.ids
        <5> DEFINE ids == UNION {l.ids : l \in answering}
        <5>1. r \in Delivering(queue) /\ r.id \notin ids
          <6> HIDE DEF ids
          <6>1. queue' = RevertIfQueued(queue, ids)
            BY <4>1 DEF ids
          <6> QED BY <1>0, <6>1, RevertEndsDelivery
        <5> QED BY <5>1
      <4>3. att'["spawn"].pc = "begun" /\ att'["spawn"].batch = att["next"].batch
            /\ att'["mid"] = att["mid"]
        BY <1>0, <4>1 DEF Attempts, Attempt
      <4>4. ASSUME LineUuid(b) = r.uuid PROVE Goal
        <5>1. r.id \in BatchIds(b)
          BY <1>1, <2>0, <3>1, <4>2, <4>4
        <5> QED BY <4>1, <4>3, <4>4, <5>1 DEF Goal, Attempts, BatchIds, LineUuid
      <4>5. ASSUME LineUuid(b) # r.uuid PROVE Goal
        <5>1. CASE Lined
          BY <1>5, <3>1, <4>2, <4>5, <5>1 DEF Lined
        <5>2. ASSUME NEW a \in Attempts, Mine(a) PROVE Goal
          <6>1. att["spawn"].pc = "idle" /\ a # "next"
            BY <3>1, <4>1, <4>5, <5>2 DEF OneResume, Mine
          <6>2. a = "mid"
            BY <5>2, <6>1 DEF Mine, Busy, Attempts
          <6> QED BY <1>3, <4>3, <5>2, <6>2
        <5> QED BY <1>1, <1>4, <3>1, <4>2, <5>1, <5>2
      <4> QED BY <4>4, <4>5
    <3> QED BY <3>2, <3>3
  <2> QED BY <1>10, <2>1, <2>2, <2>3, <2>4, <2>5, <2>6 DEF DeliverLive
<1>11. ASSUME NEW b \in Attempts, Deliver(b) PROVE Goal
  <2>0. loaded
    BY <1>11 DEF Deliver, Send, LoseAnswer, SettleWritten, SettleTaking, SettleRan,
                 SettleUnanswered, SettleCancelled, SettleSuperseded, SettleUnknown
  <2>1. CASE Send(b) \/ LoseAnswer(b)
    <3>1. r \in Delivering(queue) /\ UNCHANGED registry
      BY <2>1 DEF Send, LoseAnswer, queueFile
    <3>2. /\ att[b].pc \in {"registered", "replied"}
          /\ \E x : att' = [att EXCEPT ![b] = [att[b] EXCEPT !.pc = "replied", !.reply = x]]
      BY <2>1 DEF Send, LoseAnswer, Set
    <3>3. att'[b].batch = att[b].batch /\ att'[b].pc = "replied"
          /\ \A a \in Attempts \ {b} : att'[a] = att[a]
      BY <1>0, <3>2 DEF Attempt
    <3>4. ASSUME NEW a \in Attempts, Mine(a) PROVE Goal
      <4>1. CASE a = b
        <5>1. a = "spawn"
          BY <3>2, <3>4, <4>1 DEF Mine, Busy
        <5> QED BY <1>2, <3>3, <3>4, <4>1, <5>1
      <4>2. CASE a # b
        BY <1>3, <3>3, <3>4, <4>2
      <4> QED BY <4>1, <4>2
    <3> QED BY <1>1, <1>4, <1>6, <2>0, <3>1, <3>4 DEF registry
  <2>2. CASE SettleWritten(b)
    <3>1. /\ r \in Delivering(queue) /\ Set(b, Idle) /\ att[b].pc = "replied"
          /\ untaken' = untaken /\ answering' = answering
          /\ hold' = IF b = "spawn" THEN [rows |-> Batch(b), pid |-> att[b].pid] ELSE hold
      BY <2>2 DEF SettleWritten, Replied, queueFile
    <3>2. CASE b # "spawn"
      <4>1. ~Busy(b)
        BY <3>1, <3>2 DEF Busy
      <4> QED BY <1>6, <1>8, <2>0, <3>1, <3>2, <4>1
    <3>3. CASE b = "spawn"
      <4>1. ~Held
        BY <3>1, <3>3 DEF OneResume, Held
      <4>2. ASSUME NEW a \in Attempts, Mine(a) PROVE Goal
        <5>1. CASE a = b
          <6>1. att[b].batch # {} /\ hold'.rows = att[b].batch
            BY <3>1, <3>3 DEF Batch, IInv, AttemptsHold
          <6>2. hold' # NoHold
            BY <6>1 DEF NoHold
          <6> QED BY <4>2, <5>1, <6>1, <6>2 DEF Goal, Mine, BatchIds, LineUuid
        <5>2. CASE a # b
          <6>1. att'[a] = att[a]
            BY <1>0, <3>1, <5>2 DEF Set
          <6> QED BY <1>3, <4>2, <6>1
        <5> QED BY <5>1, <5>2
      <4> QED BY <1>1, <1>6, <2>0, <3>1, <4>1, <4>2
    <3> QED BY <3>2, <3>3
  <2>3. CASE SettleTaking(b)
    <3> DEFINE line == LineOf(b, view)
    <3>1. /\ r \in Delivering(queue) /\ Set(b, Idle) /\ hold' = hold
          /\ untaken' = {l \in untaken : l.uuid # LineUuid(b)}
          /\ answering' = {l \in answering : l.uuid # LineUuid(b)} \cup {line}
          /\ att[b].batch # {}
      BY <2>3 DEF SettleTaking, Replied, Untracked, queueFile, IInv, AttemptsHold
    <3>2. line.ids = BatchIds(b) /\ line.uuid = LineUuid(b)
      BY DEF LineOf, BatchIds
    <3> HIDE DEF line
    <3>3. ASSUME r.uuid = LineUuid(b) PROVE Goal
      <4>1. r.id \in BatchIds(b)
        BY <1>1, <2>0, <3>1, <3>3
      <4> QED BY <1>5, <3>1, <3>2, <3>3, <4>1
    <3>4. ASSUME r.uuid # LineUuid(b) PROVE Goal
      <4>1. Lined => Goal
        BY <1>5, <3>1, <3>4 DEF Lined
      <4> QED BY <1>8, <2>0, <3>1, <3>4, <4>1
    <3> QED BY <3>3, <3>4
\* The lines of its uuid go, and of that uuid no row is being delivered.
  <2>4. ASSUME Set(b, Idle), hold' = hold, r \in Delivering(queue),
               LineUuid(b) # r.uuid,
               {l \in untaken : l.uuid # LineUuid(b)} \subseteq untaken',
               {l \in answering : l.uuid # LineUuid(b)} \subseteq answering'
        PROVE  Goal
    <3>1. Lined => Goal
      BY <1>5, <2>4 DEF Lined
    <3> QED BY <1>8, <2>0, <2>4, <3>1
  <2>5. ASSUME r \in Delivering(queue), r.id \notin BatchIds(b), att[b].pc = "replied"
        PROVE  LineUuid(b) # r.uuid
    BY <1>1, <2>0, <2>5 DEF IInv, AttemptsHold
  <2>6. CASE SettleRan(b) \/ SettleCancelled(b)
    <3>1. /\ Set(b, Idle) /\ hold' = hold /\ att[b].pc = "replied"
          /\ untaken' = {l \in untaken : l.uuid # LineUuid(b)} /\ answering' = answering
          /\ queue' = RemoveTaken(queue, BatchIds(b))
      BY <2>6 DEF SettleRan, SettleCancelled, Replied, Untracked, ReleaseRan,
                  ReleaseCancelled
    <3>2. r \in Delivering(queue) /\ r.id \notin BatchIds(b)
      BY <3>1 DEF RemoveTaken, Delivering
    <3> QED BY <2>4, <2>5, <3>1, <3>2
  <2>7. CASE SettleUnanswered(b)
    <3> DEFINE u == LineUuid(b)
               spent == Ids(Exhausted(queue, BatchIds(b), u))
               again == RequeueUnanswered(queue, BatchIds(b), u, used.fresh + 1)
    <3>1. /\ Set(b, Idle) /\ hold' = hold /\ att[b].pc = "replied"
          /\ untaken' = {l \in untaken : l.uuid # LineUuid(b)}
          /\ answering' = {l \in answering : l.uuid # LineUuid(b)}
          /\ queue' = ParkForFreshLine(again, spent, "failed", used.fresh + 2)
      BY <2>7 DEF SettleUnanswered, Replied, Untracked
    <3>2. again \in SUBSET Row
      <4>1. used.fresh + 1 \in Nat
        BY DEF IInv, TypeOK
      <4> QED BY <1>0, <4>1, RequeueUnansweredType
    <3>3. Delivering(again) \subseteq Delivering(queue) \ Resendable(queue, BatchIds(b), u)
      BY <1>0, FreshLineEndsDelivery
    <3>4. r \in Delivering(again) /\ r.id \notin spent
      <4> HIDE DEF again, spent
      <4> QED BY <3>1, <3>2, FreshLineEndsDelivery
    <3>5. r \in Delivering(queue) /\ r \notin Resendable(queue, BatchIds(b), u)
          /\ r \notin Exhausted(queue, BatchIds(b), u)
      BY <3>3, <3>4 DEF Ids
    <3>6. r.id \notin BatchIds(b) \/ r.uuid # u
      BY <1>0, <3>5 DEF Resendable, Exhausted, Delivering, Row
    <3> QED BY <2>4, <2>5, <3>1, <3>5, <3>6
  <2>8. CASE SettleSuperseded(b)
    <3>1. /\ Set(b, Idle) /\ hold' = hold /\ att[b].pc = "replied"
          /\ untaken' = {l \in untaken : l.uuid # LineUuid(b)} /\ answering' = answering
          /\ queue' = ParkMessages(queue, att[b].batch, "failed")
      BY <2>8 DEF SettleSuperseded, Replied, Untracked, Batch
    <3>2. r \in Delivering(queue) /\ r.id \notin BatchIds(b)
      BY <1>0, <3>1, StillDelivering DEF BatchIds
    <3> QED BY <2>4, <2>5, <3>1, <3>2
  <2>9. CASE SettleUnknown(b)
    <3>1. /\ Set(b, Idle) /\ UNCHANGED registry
          /\ \/ queue' = ParkIfQueued(queue, BatchIds(b), "stop")
             \/ queue' = RevertIfQueued(queue, BatchIds(b))
      BY <2>9 DEF SettleUnknown
    <3>2. r \in Delivering(queue) /\ r.id \notin BatchIds(b)
      BY <1>0, <3>1, ParkEndsDelivery, RevertEndsDelivery
    <3> QED BY <1>6, <1>8, <2>0, <3>1, <3>2 DEF registry
  <2> QED BY <1>11, <2>1, <2>2, <2>3, <2>6, <2>7, <2>8, <2>9 DEF Deliver
<1>12. ASSUME Resume PROVE Goal
  <2>0. loaded /\ "spawn" \in Attempts
    BY <1>12 DEF Resume, Attach, NoSession, SpawnStart, SpawnFails, SpawnRefused,
                 SettleSpawnDead, ReadHold, DropHold, RecoveryEnds, Attempts
  <2>1. CASE Attach
    BY <1>7, <2>0, <2>1 DEF Attach, queueFile
  <2>2. CASE NoSession
    <3>1. r \in Delivering(queue) /\ UNCHANGED registry /\ att["spawn"].pc = "idle"
      BY <2>2 DEF NoSession, queueFile
    <3>2. /\ att'["spawn"].pc = "begun" /\ att'["spawn"].batch = att["next"].batch
          /\ att'["mid"] = att["mid"]
      BY <1>0, <2>2 DEF NoSession, Attempts, Attempt
    <3>3. ASSUME NEW a \in Attempts, Mine(a) PROVE Goal
      <4>1. CASE a = "next"
        BY <2>0, <3>2, <3>3, <4>1 DEF Goal, Mine, BatchIds, LineUuid
      <4>2. CASE a = "mid"
        BY <1>3, <3>2, <3>3, <4>2
      <4>3. a # "spawn"
        BY <3>1, <3>3 DEF Mine, Busy
      <4> QED BY <4>1, <4>2, <4>3 DEF Attempts
    <3> QED BY <1>1, <1>4, <1>6, <2>0, <3>1, <3>3 DEF registry
  <2>3. CASE SpawnStart
    <3>1. r \in Delivering(queue) /\ UNCHANGED registry
      BY <2>3 DEF SpawnStart, queueFile
    <3>2. /\ att'["spawn"].pc = "registered" /\ att'["spawn"].batch = att["spawn"].batch
          /\ \A a \in Attempts \ {"spawn"} : att'[a] = att[a]
      BY <1>0, <2>0, <2>3 DEF SpawnStart, Set, Attempt
    <3>3. ASSUME NEW a \in Attempts, Mine(a) PROVE Goal
      BY <1>2, <1>3, <3>2, <3>3
    <3> QED BY <1>1, <1>4, <1>6, <2>0, <3>1, <3>3 DEF registry
  <2>4. CASE SpawnFails \/ SpawnRefused
    <3>1. /\ Set("spawn", Idle) /\ UNCHANGED registry
          /\ \/ queue' = RevertToPending(queue, att["spawn"].batch)
             \/ queue' = ParkMessages(queue, att["spawn"].batch, "failed")
      BY <2>4 DEF SpawnFails, SpawnRefused, Batch
    <3>2. r \in Delivering(queue) /\ r.id \notin BatchIds("spawn")
      BY <1>0, <2>0, <3>1, StillDelivering DEF BatchIds
    <3> QED BY <1>6, <1>8, <2>0, <3>1, <3>2 DEF registry
  <2>5. CASE SettleSpawnDead
    <3>1. PICK lines, ids :
            /\ Set("spawn", Idle) /\ hold' = hold
            /\ untaken' = untaken \ lines /\ answering' = answering \ lines
            /\ queue' = RevertToPending(RevertIfQueued(queue, ids), att["spawn"].batch)
            /\ ids = UNION {l.ids : l \in lines}
      BY <2>5 DEF SettleSpawnDead, Batch
    <3>2. RevertIfQueued(queue, ids) \in SUBSET Row
      BY <1>0, RevertIfQueuedType
    <3>3. r \in Delivering(RevertIfQueued(queue, ids)) /\ r.id \notin BatchIds("spawn")
      BY <1>0, <2>0, <3>1, <3>2, StillDelivering DEF BatchIds
    <3>4. r \in Delivering(queue) /\ r.id \notin ids
      BY <1>0, <3>3, RevertEndsDelivery
    <3>5. Lined => Goal
      BY <1>5, <3>1, <3>4 DEF Lined
    <3> QED BY <1>8, <2>0, <3>1, <3>3, <3>4, <3>5
  <2>6. ASSUME att' = att, r \in Delivering(queue), Lined \/ Held => Goal PROVE Goal
    BY <1>1, <1>3, <2>0, <2>6
  <2>7. CASE ReadHold
    <3>1. att' = att /\ untaken' = untaken
      BY <2>7 DEF ReadHold
    <3>2. CASE view = hold.pid
      <4> DEFINE line == [uuid |-> HoldUuid, ids |-> Ids(hold.rows), pid |-> hold.pid]
      <4>1. /\ queue' = queue /\ hold # NoHold
            /\ answering' = {l \in answering : l.uuid # HoldUuid} \cup {line}
        BY <2>7, <3>2 DEF ReadHold
      <4>2. line.ids = Ids(hold.rows) /\ line.uuid = HoldUuid
        OBVIOUS
      <4> HIDE DEF line
      <4>3. r \in Delivering(queue)
        BY <4>1
      <4>4. ASSUME r.uuid = HoldUuid PROVE Goal
        <5>1. r.id \in Ids(hold.rows)
          BY <1>1, <2>0, <4>1, <4>3, <4>4
        <5> QED BY <1>5, <4>1, <4>2, <4>4, <5>1
      <4>5. ASSUME r.uuid # HoldUuid PROVE Goal
        <5>1. Lined => Goal
          BY <1>5, <3>1, <4>1, <4>5 DEF Lined
        <5> QED BY <2>6, <3>1, <4>3, <4>5, <5>1 DEF Held
      <4> QED BY <4>4, <4>5
    <3>3. CASE view # hold.pid
      <4>1. queue' = RevertIfQueued(queue, Ids(hold.rows)) /\ answering' = answering
        BY <2>7, <3>3 DEF ReadHold
      <4>2. r \in Delivering(queue) /\ r.id \notin Ids(hold.rows)
        BY <1>0, <4>1, RevertEndsDelivery
      <4> QED BY <1>6, <2>6, <3>1, <4>1, <4>2 DEF Held
    <3> QED BY <3>2, <3>3
  <2>8. CASE DropHold
    <3>1. /\ att' = att /\ untaken' = untaken /\ answering' = answering
          /\ \/ queue' = HoldForStartRecovery(queue, hold.rows)
             \/ queue' = ParkIfQueued(queue, Ids(hold.rows), "failed")
      BY <2>8 DEF DropHold
    <3>2. hold.rows \in SUBSET Row
      BY DEF IInv, TypeOK
    <3>3. r \in Delivering(queue) /\ r.id \notin Ids(hold.rows)
      <4>1. r \in Delivering(ParkIfQueued(queue, Ids(hold.rows), "failed")) =>
              r \in Delivering(queue) /\ r.id \notin Ids(hold.rows)
        BY <1>0, <3>2, StillDelivering
      <4> QED BY <1>0, <3>1, <3>2, <4>1, StillDelivering
    <3> QED BY <1>6, <2>6, <3>1, <3>3 DEF Held
  <2>9. CASE RecoveryEnds
    <3>1. att' = att /\ UNCHANGED registry /\ queue' \in {ReleaseHeld(queue), GiveUpHeld(queue)}
      BY <2>9 DEF RecoveryEnds
    <3>2. r \in Delivering(queue)
      BY <1>0, <3>1, ParkEndsDelivery
    <3> QED BY <1>7, <2>0, <3>1, <3>2
  <2> QED BY <1>12, <2>1, <2>2, <2>3, <2>4, <2>5, <2>7, <2>8, <2>9 DEF Resume
<1>13. ASSUME Cli PROVE Goal
  <2>1. loaded /\ r \in Delivering(queue) /\ att' = att /\ UNCHANGED registry
    BY <1>13 DEF Cli, Take, AnswerLines, Die, queueFile
  <2> QED BY <1>7, <2>1
<1>14. ASSUME Frames PROVE Goal
  <2>0. loaded /\ att' = att /\ hold' = hold
    BY <1>14 DEF Frames, ReadStart, ReadAnswer, ReadCancelled, SeeExit
  <2>1. ASSUME r \in Delivering(queue), Lined => Goal PROVE Goal
    BY <1>1, <1>3, <1>4, <2>0, <2>1
  <2>2. CASE ReadStart
    <3>1. PICK l \in untaken :
            /\ untaken' = untaken \ {l}
            /\ answering' = {k \in answering : k.uuid # l.uuid} \cup {[l EXCEPT !.pid = view]}
      BY <2>2 DEF ReadStart
    <3>2. r \in Delivering(queue)
      BY <2>2 DEF ReadStart, queueFile
    <3> DEFINE line == [l EXCEPT !.pid = view]
    <3>3. line.uuid = l.uuid /\ line.ids = l.ids /\ line \in answering'
      BY <3>1 DEF IInv, TypeOK, Line
    <3> HIDE DEF line
    <3>4. CASE l.uuid = r.uuid
      <4>1. r.id \in l.ids
        BY <1>1, <2>0, <3>2, <3>4
      <4> QED BY <1>5, <3>3, <3>4, <4>1
    <3>5. CASE l.uuid # r.uuid
      <4>1. Lined => Goal
        BY <1>5, <3>1, <3>5 DEF Lined
      <4> QED BY <2>1, <3>2, <4>1
    <3> QED BY <3>4, <3>5
  <2>3. CASE ReadAnswer \/ ReadCancelled
    <3>1. PICK l \in untaken \cup answering :
            /\ untaken \ {l} \subseteq untaken' /\ answering \ {l} \subseteq answering'
            /\ queue' = RemoveTaken(queue, l.ids)
      BY <2>3 DEF ReadAnswer, ReadCancelled, ReleaseRan, ReleaseCancelled
    <3>2. r \in Delivering(queue) /\ r.id \notin l.ids
      BY <3>1 DEF RemoveTaken, Delivering
    <3>3. Lined => Goal
      BY <1>5, <3>1, <3>2 DEF Lined
    <3> QED BY <2>1, <3>2, <3>3
  <2>4. CASE SeeExit
    <3>1. /\ untaken' = untaken \ LinesOf(untaken, view)
          /\ answering' = answering \ LinesOf(answering, view)
          /\ queue' = RevertIfQueued(queue, HandedBack(view))
      BY <2>4 DEF SeeExit
    <3>2. r \in Delivering(queue) /\ r.id \notin HandedBack(view)
      BY <1>0, <3>1, RevertEndsDelivery
    <3>3. Lined => Goal
      BY <1>5, <3>1, <3>2 DEF Lined, HandedBack
    <3> QED BY <2>1, <3>2, <3>3
  <2> QED BY <1>14, <2>2, <2>3, <2>4 DEF Frames
<1>15. ASSUME Stopping PROVE Goal
  <2>0. loaded /\ UNCHANGED registry
    BY <1>15 DEF Stopping, Interrupt, StopAsk, StopPeek, StopPark, StopSend, StopFails
  <2>1. r \in Delivering(queue)
    <3>1. CASE StopPark
      <4>1. stopper.peek \in SUBSET Row /\ queue' = ParkMessages(queue, stopper.peek, "stop")
        BY <3>1 DEF StopPark, IInv, TypeOK
      <4> QED BY <1>0, <4>1, StillDelivering
    <3>2. CASE ~StopPark
      BY <1>15, <3>2 DEF Stopping, Interrupt, StopAsk, StopPeek, StopSend, StopFails,
                         queueFile
    <3> QED BY <3>1, <3>2
  <2>2. CASE Interrupt
    <3>1. \A a \in Attempts : /\ [att[a] EXCEPT !.stopped = TRUE].pc = att[a].pc
                              /\ [att[a] EXCEPT !.stopped = TRUE].batch = att[a].batch
      BY <1>0 DEF Attempt
    <3>2. \A a \in Attempts : att'[a].pc = att[a].pc /\ att'[a].batch = att[a].batch
      BY <2>2, <3>1 DEF Interrupt
    <3>3. ASSUME NEW a \in Attempts, Mine(a) PROVE Goal
      BY <1>2, <3>2, <3>3 DEF Mine, Busy
    <3> QED BY <1>1, <1>4, <1>6, <2>0, <2>1, <3>3 DEF registry
  <2>3. CASE ~Interrupt
    <3>1. att' = att
      BY <1>15, <2>3 DEF Stopping, StopAsk, StopPeek, StopPark, StopSend, StopFails
    <3> QED BY <1>7, <2>0, <2>1, <3>1
  <2> QED BY <2>2, <2>3
<1>16. ASSUME Restarting PROVE Goal
  <2>1. CASE RestartCli
    <3>1. loaded /\ att' = att /\ UNCHANGED registry
      BY <2>1 DEF RestartCli
    <3>2. r \in Delivering(queue)
      BY <1>0, <2>1, RevertEndsDelivery DEF RestartCli
    <3> QED BY <1>7, <3>1, <3>2
  <2>2. ~Restart
    BY DEF Restart
  <2>3. ~Load
    BY <1>0, RevertEndsDelivery DEF Load
  <2> QED BY <1>16, <2>1, <2>2, <2>3 DEF Restarting
<1>17. CASE UNCHANGED vars
  BY <1>7, <1>17 DEF vars, queueFile
<1> QED BY <1>9, <1>10, <1>11, <1>12, <1>13, <1>14, <1>15, <1>16, <1>17 DEF Next

\* Owned at the start, and kept.
LEMMA OwnedInit == Init => Owned /\ OneResume
BY DEF Init, Owned, OneResume, Delivering, Idle, Attempts

\* A row that is being delivered always has someone who will settle it: an
\* attempt in progress, a registered line, a resume's hold or the loadQueue of
\* the next start, as long as no line leaves rows of its uuid behind. TLC shows
\* that a Retry of one row of a line strands the other.
THEOREM RowsHaveOwners == Spec /\ []RowsGoTogether => []NoStrandedRow
<1>1. IInv /\ OneResume /\ Owned /\ RowsGoTogether /\ [Next]_vars => Owned'
  BY OwnedStep DEF Owned
<1>2. IInv /\ OneResume /\ [Next]_vars => OneResume'
  BY OneResumeStep
<1>3. Owned => NoStrandedRow
  BY DEF Owned, HasOwner, NoStrandedRow, Delivering, BatchIds
<1> QED BY <1>1, <1>2, <1>3, InitIInv, IInvStep, OwnedInit, PTL DEF Spec
-----------------------------------------------------------------------------
(* One message alone *)

\* Each line carries a row.
LinesFull == \A l \in untaken \cup answering \cup wire : l.ids # {}

\* Lines are made of the rows of an attempt past its mark, or of a hold.
LEMMA LinesFullStep ==
  ASSUME IInv, LinesFull, [Next]_vars
  PROVE  LinesFull'
<1>1. ASSUME \A l \in untaken' : l \in untaken \/ l.ids # {},
             \A l \in answering' : l \in answering \/ l.ids # {},
             \A x \in wire' : x \in wire \/ x.ids # {}
      PROVE  LinesFull'
  BY <1>1 DEF LinesFull
<1>2. ASSUME NEW a \in Attempts, att[a].pc \in {"marked", "registered", "replied"}
      PROVE  LineOf(a, view).ids # {} /\ PipedLine(a).ids # {}
  BY <1>2 DEF LineOf, PipedLine, Ids, IInv, AttemptsHold, BatchIds
<1>3. hold # NoHold => Ids(hold.rows) # {}
  BY DEF IInv, HoldHasRows, Ids
<1>4. CASE Intake
  BY <1>1, <1>4 DEF Intake, Store, Revive, ParkStale, Arrive, Relay, Retry, Delete,
                    Withdraw, host, registry
<1>5. ASSUME NEW a \in {"next", "mid"}, DeliverLive(a) PROVE LinesFull'
  <2>0. a \in Attempts
    BY DEF Attempts
  <2>1. CASE Register(a)
    BY <1>1, <1>2, <2>0, <2>1 DEF Register, host
  <2>2. CASE ~Register(a)
    BY <1>1, <1>5, <2>2 DEF DeliverLive, Begin, Mark, SettleRefusedStopped,
                            SettleRefusedEnded, SettleRefusedGone, Untracked, host, registry
  <2> QED BY <2>1, <2>2
<1>6. ASSUME NEW a \in Attempts, Deliver(a) PROVE LinesFull'
  <2>1. CASE Send(a)
    BY <1>1, <1>2, <2>1 DEF Send, registry
  <2>2. CASE SettleTaking(a)
    BY <1>1, <1>2, <2>2 DEF SettleTaking, Replied, Untracked, host
  <2>3. CASE ~Send(a) /\ ~SettleTaking(a)
    BY <1>1, <1>6, <2>3
    DEF Deliver, LoseAnswer, SettleWritten, SettleRan, SettleUnanswered, SettleCancelled,
        SettleSuperseded, SettleUnknown, Untracked, host, registry
  <2> QED BY <2>1, <2>2, <2>3
<1>7. CASE Resume
  <2>1. CASE ReadHold
    BY <1>1, <1>3, <2>1 DEF ReadHold, host
  <2>2. CASE ~ReadHold
    BY <1>1, <1>7, <2>2 DEF Resume, Attach, NoSession, SpawnStart, SpawnFails,
                            SpawnRefused, SettleSpawnDead, DropHold, RecoveryEnds, host,
                            registry
  <2> QED BY <2>1, <2>2
<1>8. ASSUME \A x \in wire' : \E v \in wire : x.ids = v.ids, UNCHANGED registry
      PROVE  LinesFull'
  BY <1>8 DEF LinesFull, registry
<1>9. CASE Cli \/ Interrupt
  <2>1. \A v \in wire : \A st : [v EXCEPT !.st = st].ids = v.ids
    BY DEF IInv, TypeOK, WireLine
  <2>2. \A x \in wire' : \E v \in wire : x.ids = v.ids
    <3>1. CASE Take
      BY <2>1, <3>1 DEF Take
    <3>2. CASE AnswerLines
      <4> DEFINE over(v) == [v EXCEPT !.st = "answered"]
      <4>1. \A v \in wire : over(v).ids = v.ids
        BY <2>1
      <4>2. wire' = (wire \ Started) \cup {over(v) : v \in Started}
        BY <3>2 DEF AnswerLines
      <4> HIDE DEF over
      <4> QED BY <4>1, <4>2 DEF Started
    <3>3. CASE Die
      BY <3>3 DEF Die
    <3>4. CASE Interrupt
      <4> DEFINE cut(v) == IF Live(v) /\ v.st = "piped" THEN [v EXCEPT !.st = "cancelled"]
                           ELSE IF Live(v) /\ v.st = "started"
                                  THEN [v EXCEPT !.st = "stopped"] ELSE v
      <4>1. \A v \in wire : cut(v).ids = v.ids
        BY <2>1
      <4>2. wire' = {cut(v) : v \in wire}
        BY <3>4 DEF Interrupt
      <4> HIDE DEF cut
      <4> QED BY <4>1, <4>2
    <3> QED BY <1>9, <3>1, <3>2, <3>3, <3>4 DEF Cli
  <2> QED BY <1>8, <1>9, <2>2 DEF Cli, Take, AnswerLines, Die, Interrupt
<1>10. CASE Frames
  <2>1. CASE ReadStart
    <3>1. PICK l \in untaken :
            /\ untaken' = untaken \ {l}
            /\ answering' = {k \in answering : k.uuid # l.uuid} \cup {[l EXCEPT !.pid = view]}
      BY <2>1 DEF ReadStart
    <3>2. [l EXCEPT !.pid = view].ids = l.ids
      BY DEF IInv, TypeOK, Line
    <3> QED BY <1>1, <2>1, <3>1, <3>2 DEF ReadStart, host, LinesFull
  <2>2. CASE ~ReadStart
    BY <1>1, <1>10, <2>2 DEF Frames, ReadAnswer, ReadCancelled, SeeExit, host
  <2> QED BY <2>1, <2>2
<1>11. CASE Stopping /\ ~Interrupt
  BY <1>1, <1>11 DEF Stopping, StopAsk, StopPeek, StopPark, StopSend, StopFails, host,
                     registry
<1>12. CASE Restarting
  BY <1>1, <1>12 DEF Restarting, RestartCli, Restart, Load, host, registry
<1>13. CASE UNCHANGED vars
  BY <1>1, <1>13 DEF vars, host, registry
<1> QED BY <1>4, <1>5, <1>6, <1>7, <1>9, <1>10, <1>11, <1>12, <1>13 DEF Next, Stopping

\* With one message no line can be split.
LEMMA AloneGoesTogether ==
  ASSUME IInv, LinesFull, \A m, n \in Messages : m = n
  PROVE  OneBatchPerUuid /\ RowsGoTogether
<1>1. \A l \in untaken \cup answering \cup wire : l.ids = Messages
  <2>1. \A l \in untaken \cup answering \cup wire : l.ids \subseteq Messages
    BY DEF IInv, TypeOK, Line, WireLine
  <2> QED BY <2>1 DEF LinesFull
<1>2. \A rows \in SUBSET Row : Ids(rows) \subseteq Messages /\ (rows # {} => Ids(rows) = Messages)
  BY DEF Ids, Row
<1>3. \A a \in Attempts : att[a].batch \in SUBSET Row
  BY DEF IInv, TypeOK, Attempt
<1>4. OneBatchPerUuid
  BY <1>1, <1>2, <1>3 DEF OneBatchPerUuid, BatchIds
<1>5. hold.rows \in SUBSET Row /\ (hold # NoHold => hold.rows # {})
  BY DEF IInv, TypeOK, HoldHasRows
<1>6. \A r \in queue : r.id \in Messages
  BY DEF IInv, TypeOK, Row
<1>7. RowsGoTogether
  BY <1>1, <1>2, <1>3, <1>5, <1>6 DEF RowsGoTogether, BatchIds
<1> QED BY <1>4, <1>7

\* A message that shares the session with no other is never lost, nor told
\* delivered when no CLI took it, nor left with nobody to settle it, whatever
\* answers, processes, servers and stops do to it and for any number of times.
THEOREM AloneIsSafe ==
  ASSUME \A m, n \in Messages : m = n
  PROVE  Spec => [](NothingLost /\ DeliveredWasTaken /\ NoStrandedRow)
<1>1. Init => LinesFull
  BY DEF Init, LinesFull
<1>2. IInv /\ LinesFull /\ [Next]_vars => LinesFull'
  BY LinesFullStep
<1>3. IInv /\ LinesFull => OneBatchPerUuid /\ RowsGoTogether
  BY AloneGoesTogether
<1> QED BY <1>1, <1>2, <1>3, InitIInv, IInvStep, LostOnlyBySplitting, DeliveredIsTrue,
           RowsHaveOwners, PTL DEF Spec

-----------------------------------------------------------------------------
(* What a CLI runs under one uuid. *)

\* A line that has had a turn of a CLI.
Turned == {"started", "answered", "stopped"}

OneTurn ==
  \A v, w \in wire : v.uuid = w.uuid /\ v.st \in Turned /\ w.st \in Turned => v = w

Numbered == \A w \in wire : w.pid <= proc

\* A process took a line of `uuid' and died with it unanswered.
GivenUp(uuid) == \E w \in wire : w.uuid = uuid /\ w.st = "started" /\ ~Live(w)

\* The lines of the other steps: what is there was there, or was just piped.
QuietWire ==
  /\ \A x \in wire' : x \in wire \/ (x.st = "piped" /\ x.pid = proc)
  /\ \A w \in wire : w.st # "piped" => w \in wire'
  /\ \/ alive' = alive /\ proc' = proc
     \/ alive' = FALSE /\ proc' = proc
     \/ ~alive /\ proc' = proc + 1

\* Any step but a read, an answer and an interrupt is such a one.
LEMMA WireSteps ==
  ASSUME IInv, [Next]_vars, ~Take, ~AnswerLines, ~Interrupt
  PROVE  QuietWire
PROOF
<1>1. proc \in Nat
  BY DEF IInv, TypeOK
<1>2. ASSUME UNCHANGED host PROVE QuietWire
  BY <1>2 DEF host, QuietWire
<1>4. CASE Intake
  BY <1>2, <1>4 DEF Intake, Store, Revive, ParkStale, Arrive, Relay, Retry, Delete, Withdraw
<1>5. ASSUME NEW a \in {"next", "mid"}, DeliverLive(a) PROVE QuietWire
  BY <1>2, <1>5 DEF DeliverLive, Begin, Mark, Register, SettleRefusedStopped,
                    SettleRefusedEnded, SettleRefusedGone
<1>6. ASSUME NEW a \in Attempts, Deliver(a) PROVE QuietWire
  <2>1. CASE Send(a)
    <3>1. PipedLine(a).st = "piped" /\ PipedLine(a).pid = proc
      BY DEF PipedLine
    <3> QED BY <2>1, <3>1 DEF Send, QuietWire
  <2>2. CASE ~Send(a)
    BY <1>2, <1>6, <2>2 DEF Deliver, LoseAnswer, SettleWritten, SettleTaking, SettleRan,
       SettleUnanswered, SettleCancelled, SettleSuperseded, SettleUnknown
  <2> QED BY <2>1, <2>2
<1>7. CASE Resume
  <2>1. CASE SpawnStart \/ SpawnFails
    BY <2>1 DEF SpawnStart, SpawnFails, QuietWire
  <2>2. CASE ~(SpawnStart \/ SpawnFails)
    BY <1>2, <1>7, <2>2 DEF Resume, Attach, NoSession, SpawnRefused, SettleSpawnDead,
       ReadHold, DropHold, RecoveryEnds
  <2> QED BY <2>1, <2>2
<1>8. CASE Cli
  BY <1>8 DEF Cli, Die, QuietWire
<1>9. CASE Frames
  BY <1>2, <1>9 DEF Frames, ReadStart, ReadAnswer, ReadCancelled, SeeExit
<1>10. CASE Stopping
  <2>1. CASE StopSend
    BY <2>1 DEF StopSend, QuietWire
  <2>2. CASE ~StopSend
    BY <1>2, <1>10, <2>2 DEF Stopping, StopAsk, StopPeek, StopPark, StopFails
  <2> QED BY <2>1, <2>2
<1>11. CASE Restarting
  BY <1>2, <1>11 DEF Restarting, RestartCli, Restart, Load
<1>12. CASE UNCHANGED vars
  BY <1>2, <1>12 DEF vars
<1> QED BY <1>4, <1>5, <1>6, <1>7, <1>8, <1>9, <1>10, <1>11, <1>12 DEF Next

\* What the CLI does with its lines: it takes one, or ends the turn of some.
LEMMA TakeSteps ==
  ASSUME IInv, Take
  PROVE  \E w \in wire, x \in WireLine :
           /\ Live(w) /\ w.st = "piped"
           /\ wire' = (wire \ {w}) \cup {x}
           /\ x.uuid = w.uuid /\ x.pid = w.pid
           /\ x.st = "started" => ~InTranscript(w.uuid)
           /\ x.st \in {"started", "skipped"}
PROOF
<1>1. PICK w \in wire :
        /\ Live(w) /\ w.st = "piped"
        /\ wire' = (wire \ {w}) \cup
             {[w EXCEPT !.st = IF InTranscript(w.uuid) THEN "skipped" ELSE "started"]}
  BY DEF Take
<1> DEFINE x == [w EXCEPT !.st = IF InTranscript(w.uuid) THEN "skipped" ELSE "started"]
<1>2. w \in WireLine
  BY DEF IInv, TypeOK
<1>3. /\ x \in WireLine /\ x.uuid = w.uuid /\ x.pid = w.pid
      /\ x.st = IF InTranscript(w.uuid) THEN "skipped" ELSE "started"
  BY <1>2 DEF WireLine
<1>4. wire' = (wire \ {w}) \cup {x}
  BY <1>1
<1> HIDE DEF x
<1> QED BY <1>1, <1>3, <1>4

\* An answer and an interrupt end turns, and start none.
LEMMA EndSteps ==
  ASSUME IInv, AnswerLines \/ Interrupt
  PROVE  \E st \in {"answered", "stopped"} :
           /\ \A x \in wire' :
                \/ x \in wire /\ (x.st = "started" => ~Live(x))
                \/ \E w \in wire : Live(w) /\ w.pid = x.pid /\ x.st = "cancelled"
                \/ \E w \in wire : Live(w) /\ w.st = "started" /\ x = [w EXCEPT !.st = st]
           /\ \A w \in wire : ~Live(w) => w \in wire'
PROOF
<1>1. \A w \in wire : w \in WireLine
  BY DEF IInv, TypeOK
<1>2. CASE AnswerLines
  <2>1. \A x \in wire' :
          \/ x \in wire /\ (x.st = "started" => ~Live(x))
          \/ \E w \in wire : Live(w) /\ w.st = "started" /\ x = [w EXCEPT !.st = "answered"]
    BY <1>2 DEF AnswerLines, Started
  <2>2. \A w \in wire : ~Live(w) => w \in wire'
    BY <1>2 DEF AnswerLines, Started
  <2> QED BY <2>1, <2>2
<1>3. CASE Interrupt
  <2>0. wire' = {IF Live(w) /\ w.st = "piped" THEN [w EXCEPT !.st = "cancelled"]
                 ELSE IF Live(w) /\ w.st = "started" THEN [w EXCEPT !.st = "stopped"]
                 ELSE w : w \in wire}
    BY <1>3 DEF Interrupt
  <2>1. ASSUME NEW x \in wire'
        PROVE  \/ x \in wire /\ (x.st = "started" => ~Live(x))
               \/ \E w \in wire : Live(w) /\ w.pid = x.pid /\ x.st = "cancelled"
               \/ \E w \in wire : Live(w) /\ w.st = "started" /\ x = [w EXCEPT !.st = "stopped"]
    <3>1. PICK w \in wire : x = IF Live(w) /\ w.st = "piped" THEN [w EXCEPT !.st = "cancelled"]
                                ELSE IF Live(w) /\ w.st = "started" THEN [w EXCEPT !.st = "stopped"]
                                ELSE w
      BY <2>0
    <3>2. CASE Live(w) /\ w.st = "piped"
      <4>1. x = [w EXCEPT !.st = "cancelled"] /\ w \in WireLine
        BY <1>1, <3>1, <3>2
      <4>2. x.pid = w.pid /\ x.st = "cancelled"
        BY <4>1 DEF WireLine
      <4> QED BY <3>2, <4>2
    <3>3. CASE Live(w) /\ w.st = "started"
      BY <3>1, <3>3
    <3>4. CASE ~(Live(w) /\ w.st \in {"piped", "started"})
      BY <3>1, <3>4
    <3> QED BY <3>2, <3>3, <3>4
  <2>2. \A w \in wire : ~Live(w) => w \in wire'
    BY <2>0
  <2> QED BY <2>1, <2>2
<1> QED BY <1>2, <1>3

\* A process takes no line whose uuid its transcript holds, so no uuid has two turns.
LEMMA OneTurnStep ==
  ASSUME IInv, OneTurn, Numbered, [Next]_vars
  PROVE  OneTurn' /\ Numbered'
PROOF
<1>1. proc \in Nat /\ (\A w \in wire : w \in WireLine) /\ (\A w \in wire' : w.pid \in Nat)
  BY IInvStep DEF IInv, TypeOK, WireLine
<1>2. CASE ~Take /\ ~AnswerLines /\ ~Interrupt
  <2>1. QuietWire
    BY <1>2, WireSteps
  <2>2. \A x \in wire' : x.st \in Turned => x \in wire
    BY <2>1 DEF QuietWire, Turned
  <2>3. OneTurn'
    BY <2>2 DEF OneTurn
  <2>4. proc' \in {proc, proc + 1}
    BY <2>1 DEF QuietWire
  <2>5. \A x \in wire' : x \in wire \/ x.pid = proc
    BY <2>1 DEF QuietWire
  <2>6. ASSUME NEW x \in wire' PROVE x.pid <= proc'
    <3>1. x.pid \in Nat /\ x.pid <= proc
      BY <1>1, <2>5 DEF Numbered
    <3> QED BY <1>1, <2>4, <3>1
  <2> QED BY <2>3, <2>6 DEF Numbered
<1>3. CASE Take
  <2>1. PICK w \in wire, x \in WireLine :
           /\ Live(w) /\ w.st = "piped"
           /\ wire' = (wire \ {w}) \cup {x}
           /\ x.uuid = w.uuid /\ x.pid = w.pid
           /\ x.st = "started" => ~InTranscript(w.uuid)
           /\ x.st \in {"started", "skipped"}
    BY <1>3, TakeSteps
  <2>2. x.st = "started" => \A v \in wire : v.uuid = x.uuid => v.st \notin Turned
    BY <2>1 DEF InTranscript, Turned
  <2>3. OneTurn'
    BY <2>1, <2>2 DEF OneTurn, Turned
  <2>4. proc' = proc
    BY <1>3 DEF Take
  <2> QED BY <1>1, <2>1, <2>3, <2>4 DEF Numbered
<1>4. CASE AnswerLines \/ Interrupt
  <2>1. PICK st \in {"answered", "stopped"} :
           /\ \A x \in wire' :
                \/ x \in wire /\ (x.st = "started" => ~Live(x))
                \/ \E w \in wire : Live(w) /\ w.pid = x.pid /\ x.st = "cancelled"
                \/ \E w \in wire : Live(w) /\ w.st = "started" /\ x = [w EXCEPT !.st = st]
           /\ \A w \in wire : ~Live(w) => w \in wire'
    BY <1>4, EndSteps
  <2>2. proc' = proc
    BY <1>4 DEF AnswerLines, Interrupt
  <2>3. \A w \in wire : LET x == [w EXCEPT !.st = st]
                        IN x.uuid = w.uuid /\ x.pid = w.pid /\ x.st = st
    BY <1>1 DEF WireLine
  <2>4. ASSUME NEW x \in wire', x.st \in Turned
        PROVE  \E w \in wire : /\ w.uuid = x.uuid /\ w.st \in Turned
                               /\ x = w \/ (Live(w) /\ w.st = "started" /\ x = [w EXCEPT !.st = st])
                               /\ x = w => ~(Live(w) /\ w.st = "started")
    BY <2>1, <2>3, <2>4 DEF Turned
  <2>5. OneTurn'
    <3> SUFFICES ASSUME NEW x \in wire', NEW y \in wire', x.uuid = y.uuid,
                        x.st \in Turned, y.st \in Turned
                 PROVE  x = y
      BY DEF OneTurn
    <3>1. PICK v \in wire : /\ v.uuid = x.uuid /\ v.st \in Turned
                            /\ x = v \/ (Live(v) /\ v.st = "started" /\ x = [v EXCEPT !.st = st])
                            /\ x = v => ~(Live(v) /\ v.st = "started")
      BY <2>4
    <3>2. PICK w \in wire : /\ w.uuid = y.uuid /\ w.st \in Turned
                            /\ y = w \/ (Live(w) /\ w.st = "started" /\ y = [w EXCEPT !.st = st])
                            /\ y = w => ~(Live(w) /\ w.st = "started")
      BY <2>4
    <3>3. v = w
      BY <3>1, <3>2 DEF OneTurn
    <3> QED BY <3>1, <3>2, <3>3
  <2>6. ASSUME NEW x \in wire' PROVE x.pid <= proc'
    <3>1. \E w \in wire : w.pid = x.pid
      BY <2>1, <2>3
    <3> QED BY <2>2, <3>1 DEF Numbered
  <2> QED BY <2>5, <2>6 DEF Numbered
<1> QED BY <1>2, <1>3, <1>4

\* What a dead process left unanswered stays so.
LEMMA GivenUpStays ==
  ASSUME IInv, OneTurn, Numbered, [Next]_vars, NEW uuid, GivenUp(uuid)
  PROVE  GivenUp(uuid)'
PROOF
<1>1. PICK w \in wire : w.uuid = uuid /\ w.st = "started" /\ ~Live(w)
  BY DEF GivenUp
<1>2. proc \in Nat /\ w.pid \in Nat /\ w.pid <= proc
  BY DEF IInv, TypeOK, WireLine, Numbered
<1>3. w \in wire' /\ ~Live(w)'
  <2>1. CASE ~Take /\ ~AnswerLines /\ ~Interrupt
    <3>1. QuietWire
      BY <2>1, WireSteps
    <3>2. w \in wire'
      BY <1>1, <3>1 DEF QuietWire
    <3>3. ~alive \/ w.pid # proc
      BY <1>1 DEF Live
    <3>4. ~(alive' /\ w.pid = proc')
      <4>1. CASE alive' = alive /\ proc' = proc
        BY <3>3, <4>1
      <4>2. CASE alive' = FALSE
        BY <4>2
      <4>3. CASE proc' = proc + 1
        BY <1>2, <4>3
      <4> QED BY <3>1, <4>1, <4>2, <4>3 DEF QuietWire
    <3> QED BY <3>2, <3>4 DEF Live
  <2>2. CASE Take
    BY <1>1, <2>2 DEF Take, Live
  <2>3. CASE AnswerLines \/ Interrupt
    <3>1. w \in wire'
      BY <1>1, <2>3, EndSteps
    <3> QED BY <1>1, <2>3, <3>1 DEF AnswerLines, Interrupt, Live
  <2> QED BY <2>1, <2>2, <2>3
<1> QED BY <1>1, <1>3 DEF GivenUp

\* Under one uuid a CLI runs one line at most, through every crash and repeated
\* write: a message is run twice only under two uuids.
THEOREM UuidRunsOnce ==
  Spec => [](\A v, w \in wire :
               v.st = "answered" /\ w.st = "answered" /\ v.uuid = w.uuid => v = w)
PROOF
<1>1. Init => OneTurn /\ Numbered
  BY DEF Init, OneTurn, Numbered
<1>2. OneTurn => \A v, w \in wire :
        v.st = "answered" /\ w.st = "answered" /\ v.uuid = w.uuid => v = w
  BY DEF OneTurn, Turned
<1> QED BY <1>1, <1>2, InitIInv, IInvStep, OneTurnStep, PTL DEF Spec

\* The verdict "unanswered", on which a line is sent again under a new uuid, is
\* final: no line of the old uuid is answered any more.
THEOREM UnansweredIsFinal ==
  ASSUME NEW uuid
  PROVE  Spec => [](Verdict(uuid) = "unanswered" =>
                      [](\A w \in wire : w.uuid = uuid => w.st # "answered"))
PROOF
<1> DEFINE I == IInv /\ OneTurn /\ Numbered
           Unanswered == \A w \in wire : w.uuid = uuid => w.st # "answered"
           Judged == Verdict(uuid) = "unanswered"
           Given == GivenUp(uuid)
<1>1. Init => I
  BY InitIInv DEF Init, OneTurn, Numbered
<1>2. I /\ [Next]_vars => I'
  BY IInvStep, OneTurnStep
<1>3. I /\ Judged => Given
  <2> SUFFICES ASSUME I, Judged PROVE Given
    OBVIOUS
  <2>1. (\E w \in wire : w.uuid = uuid /\ w.st = "started")
        /\ ~(alive /\ \E w \in wire : w.uuid = uuid /\ w.st = "started" /\ w.pid = proc)
    BY DEF Verdict
  <2> QED BY <2>1 DEF GivenUp, Live
<1>4. I /\ Given /\ [Next]_vars => Given'
  BY GivenUpStays
<1>5. I /\ Given => Unanswered
  BY DEF GivenUp, OneTurn, Turned
<1> QED
  <2> HIDE DEF I, Unanswered, Judged, Given
  <2>1. Spec => [](Judged => []Unanswered)
    BY <1>1, <1>2, <1>3, <1>4, <1>5, PTL DEF Spec
  <2> QED BY <2>1 DEF Unanswered, Judged

-----------------------------------------------------------------------------
(* A message that is alone in its session is answered once *)

\* No other message, no Retry and no restart by hand; deliveries begin after
\* loadQueue; what an ended process wrote is read before its resume is judged.
Lone ==
  /\ \A m, n \in Messages : m = n
  /\ MaxRetries = 0 /\ ~HardRestarts /\ ~EarlySends /\ SettleWaits

Past(a) == att[a].batch # {}

\* The copies of the row, ...
InPlay == queue \cup stopper.peek \cup UNION {att[a].batch : a \in Attempts}

\* ... the uuids the message may still go out under, ...
Out == ({r.uuid : r \in InPlay} \cup {settled[m] : m \in Messages}
          \cup {e.uuid : e \in arriving}) \ {NoUuid}

HeldUuids == {r.uuid : r \in hold.rows}

WireUuids == {v.uuid : v \in wire}

\* ... and every uuid anyone still knows.
Known == Out \cup HeldUuids \cup WireUuids

\* The uuid's line ran.
Done(u) == Shows(u, Ran)

Unsettled == \A m \in Messages : settled[m] = NoUuid

\* Nothing of the message has left the queue yet.
Nothing ==
  /\ Out = {} /\ wire = {} /\ hold = NoHold /\ untaken = {} /\ answering = {} /\ ~alive
  /\ \A a \in Attempts : att[a].batch = {}

\* Every row that may still go out is being delivered.
AllGoing == \A r \in queue : Waits(r) => r.status = "processing"

Agree == \A u, v \in Out : u = v

\* A resume that will neither write nor put back its line under another's.
Spent == att["spawn"].pc = "idle" \/ Replied("spawn", "unknown") \/ Replied("spawn", "superseded")

Dead == ~alive /\ object /\ Spent

\* An attempt on its first try, whose line goes out unasked.
First(a) == att[a].pc \in {"marked", "registered"} /\ \E r \in att[a].batch : r.tries = 1

\* A line under this uuid may go out without the daemon being asked about it.
Green(u) ==
  \/ \E r \in queue : Waits(r) /\ r.uuid = u /\ r.tries = 0
  \/ \E a \in {"next", "mid"} : First(a) /\ LineUuid(a) = u

\* Whatever is under way is about this uuid, one attempt at most among it.
Clean(u) ==
  /\ hold = NoHold
  /\ \A l \in untaken \cup answering : l.uuid = u
  /\ \A a, b \in Attempts : Past(a) /\ Past(b) => a = b
  /\ (\E a \in Attempts : Past(a)) => AllGoing
  /\ view \in {0, proc}
  /\ att["spawn"].pc = "begun" => view = 0
  /\ \A v \in Out : v = u

-----------------------------------------------------------------------------
(* What holds of it *)

\* One row, and one copy of it wherever copies are kept.
OneEach ==
  /\ Single(queue) /\ Single(stopper.peek) /\ Single(hold.rows)
  /\ \A a \in Attempts : Single(att[a].batch)

\* Without a session object there is only a delivery that has not registered.
Detached ==
  ~object => /\ att["mid"].pc = "idle" /\ att["spawn"].pc = "idle"
             /\ att["next"].pc \in {"idle", "begun", "marked"}
             /\ untaken = {} /\ answering = {} /\ hold = NoHold /\ view = 0

\* Nothing is delivered before loadQueue.
LoadsFirst == ~loaded => \A a \in Attempts : att[a].pc = "idle"

\* Rows that went out were marked.
BatchRows ==
  /\ att["spawn"].pc # "marked"
  /\ \A a \in Attempts :
       /\ att[a].pc = "idle" => att[a].batch = {}
       /\ a # "spawn" /\ att[a].pc = "begun" => att[a].batch = {}
       /\ \A r \in att[a].batch \cup hold.rows :
            r.uuid # NoUuid /\ r.status = "processing" /\ r.tries \in 1..2

\* While a stop is carried out it is pending and no answer is on its way.
StopperWaits ==
  /\ stopper.pc # "idle" => stop.st = "pending" /\ ~AnswerDue
  /\ stopper.pc # "park" => stopper.peek = {}
  /\ \A r \in stopper.peek : r.status # "parked"

\* A delivery's fence is an earlier one than a stop it must not pass.
FencesBehind ==
  \A a \in Attempts : att[a].pc # "idle" =>
    /\ att[a].fence <= stop.id
    /\ stop.st = "pending" \/ Replied(a, "superseded") => att[a].fence < stop.id

\* A resume begins, and a line is refused, with no process.
NoProcess ==
  /\ att["spawn"].pc = "begun" => ~alive
  /\ Replied("next", "refused") => ~alive

Due(a) == att[a].pc = "replied" /\ att[a].reply \notin {"unknown", "superseded"}

OneDue == \A a, b \in Attempts : Due(a) /\ Due(b) => a = b

\* A row being delivered was marked.
SentRows == \A r \in queue : r.status = "processing" => r.tries >= 1 /\ r.uuid # NoUuid

\* One enqueue at a time: the first one, or the message again after it ran.
Arrivals ==
  /\ \A e \in arriving : e.kind # "retry" /\ (e.kind = "web" => e.id \notin Phone)
  /\ Single(arriving)
  /\ \A m \in Phone : m \in stored => fate[m] # "none"
  /\ \A e \in arriving : e.uuid = NoUuid => stored = {}
  /\ \A e \in arriving : e.uuid # NoUuid => Done(e.uuid) /\ settled[e.id] # NoUuid

\* The uuid a removed row went out in is that of a line that ran.
SettledRan == \A m \in Messages : settled[m] # NoUuid => Done(settled[m])

\* Before the message is stored there is nothing, and nothing goes out while
\* its row has no uuid.
BlankStart ==
  /\ stored = {} => queue = {} /\ stopper.peek = {} /\ Nothing
  /\ (\E r \in queue : r.uuid = NoUuid /\ Waits(r)) => Nothing

\* Until the message has run, its copies are of one fence.
OneFence == Unsettled => \A r, s \in InPlay \cup hold.rows : r.fence = s.fence

\* A delivery begun without a session object has the row to itself.
DetachedGoing == ~object /\ Past("next") /\ Unsettled => AllGoing

\* No line is written twice.
Distinct == \A v, x \in wire : v.uuid = x.uuid => v = x

\* The message goes out under one uuid, or there is no process and nobody is
\* about to start one for it.
OneUuid == Agree \/ Dead

\* What may still go out is no older than what went out, ...
LatestGoesOut ==
  /\ \A u \in Out, v \in WireUuids : v.n <= u.n
  /\ \A h \in HeldUuids, u \in Out : h.n <= u.n

\* ... and an older uuid is one a process died with, unanswered.
OlderGivenUp == \A u, v \in Known : u.n < v.n => GivenUp(u)

\* Uuids are told apart by their number.
Numbers ==
  /\ \A u, v \in Known : u.n = v.n => u = v
  /\ \A u \in Known : u.n <= used.fresh

\* A row that an attempt has overtaken waits for nobody, and the attempt is
\* behind a stop.
Overtaken ==
  \A r \in queue, a \in Attempts :
    Past(a) /\ r.uuid # NoUuid /\ r.uuid.n < LineUuid(a).n =>
      att[a].fence < stop.id /\ ~Waits(r)

MidLast == Past("mid") /\ Past("next") => LineUuid("next").n <= LineUuid("mid").n

\* What the daemon answered: a line refused with the session to be resumed is
\* the latest and was not written, one judged unanswered was given up, one
\* written or waiting in a live process was not.
AnswersTrue ==
  /\ Replied("next", "refused") => Agree
  /\ \A a \in Attempts : Replied(a, "unanswered") => GivenUp(LineUuid(a))
  /\ \A a \in {"next", "spawn"} : Replied(a, "refused") => LineUuid(a) \notin WireUuids
  /\ (Replied("spawn", "written") \/ Replied("spawn", "waiting")) /\ alive =>
       ~GivenUp(LineUuid("spawn"))

\* A mid-turn write that a resume overtook is not judged unanswered.
ResumeUnwritten ==
  /\ att["mid"].pc = "registered" /\ att["spawn"].pc \in {"begun", "registered"} =>
       LineUuid("spawn") \notin WireUuids
  /\ Replied("mid", "unanswered") => att["spawn"].pc \notin {"begun", "registered"}

\* What goes out unasked was never written.
Unwritten == \A u \in Out : Green(u) => u \notin WireUuids

\* A uuid just drawn has no attempt, and of two attempts with one uuid the
\* second asks.
FirstAlone ==
  /\ \A r \in queue : Waits(r) /\ r.tries = 0 /\ r.uuid # NoUuid =>
       \A a \in Attempts : Past(a) => LineUuid(a) # r.uuid
  /\ Past("next") /\ Past("mid") /\ LineUuid("next") = LineUuid("mid") =>
       \A r \in att["mid"].batch : r.tries = 2

\* With a process to write to, a uuid about to be left or unasked is all there is.
CleanResend ==
  \A u \in Out :
    (GivenUp(u) \/ Green(u)) /\ (alive \/ att["spawn"].pc = "begun") => Clean(u)
\* What holds in every state of a message that is alone.
LoneInv ==
  /\ IInv /\ OneResume /\ OneTurn /\ Numbered /\ RanShown
  /\ OneEach /\ Detached /\ LoadsFirst /\ BatchRows /\ StopperWaits /\ FencesBehind
  /\ NoProcess /\ OneDue /\ SentRows /\ Arrivals /\ SettledRan /\ BlankStart /\ OneFence
  /\ DetachedGoing /\ Distinct /\ OneUuid /\ LatestGoesOut /\ OlderGivenUp /\ Numbers
  /\ Overtaken /\ MidLast /\ AnswersTrue /\ ResumeUnwritten /\ Unwritten /\ FirstAlone
  /\ CleanResend

-----------------------------------------------------------------------------
(* What a step does to an attempt *)

Carries(a) == att'[a].batch = att[a].batch /\ att'[a].fence = att[a].fence

Same(a) == Carries(a) /\ att'[a].pc = att[a].pc /\ att'[a].reply = att[a].reply

\* The resume takes the line of `next' over.
Resumes ==
  /\ NoSession \/ SettleRefusedGone("next")
  /\ att["next"].pc \in {"marked", "replied"}
  /\ att'["next"] = Idle
  /\ att'["spawn"].pc = "begun" /\ att'["spawn"].reply = "none"
  /\ att'["spawn"].batch = att["next"].batch /\ att'["spawn"].fence = att["next"].fence

\* Whatever happens, an attempt goes on as it was, ends, or takes its next step.
Moves(a) ==
  \/ att'[a] = Idle
  \/ Same(a)
  \/ /\ a # "spawn" /\ Begin(a) /\ att'[a].pc = "begun" /\ att'[a].reply = "none"
     /\ att'[a].batch = {} /\ att'[a].fence = stop.id
  \/ /\ a # "spawn" /\ Mark(a) /\ att'[a].pc = "marked"
     /\ att'[a].batch = MarkedBatch(queue, att[a].fence) /\ att'[a].batch # {}
     /\ att'[a].fence = att[a].fence
  \/ a # "spawn" /\ Register(a) /\ Carries(a) /\ att'[a].pc = "registered"
  \/ Send(a) /\ Carries(a) /\ att'[a].pc = "replied" /\ att'[a].reply = Answer(a)
  \/ LoseAnswer(a) /\ Carries(a) /\ att'[a].pc = "replied" /\ att'[a].reply = "unknown"
  \/ a = "spawn" /\ SpawnStart /\ Carries(a) /\ att'[a].pc = "registered"
  \/ a = "spawn" /\ Resumes

\* Each step does to an attempt one of the things Moves lists.
LEMMA AttemptMoves ==
  ASSUME IInv, [Next]_vars, NEW a \in Attempts
  PROVE  Moves(a)
<1> USE DEF Set, Attempts, Replied
<1>1. att \in [Attempts -> Attempt] /\ att[a] \in Attempt /\ att["next"] \in Attempt
  BY DEF IInv, TypeOK
<1>3. ASSUME att'[a] = att[a] PROVE Moves(a)
  BY <1>3 DEF Moves, Same, Carries
<1>4. CASE Intake
  BY <1>3, <1>4 DEF Intake, Store, Revive, ParkStale, Arrive, Relay, Retry, Delete, Withdraw
<1>5. ASSUME NEW b \in Attempts, Set(b, Idle) PROVE Moves(a)
  BY <1>1, <1>3, <1>5 DEF Moves
<1>6. ASSUME NEW b \in {"next", "mid"}, DeliverLive(b) PROVE Moves(a)
  <2>0. CASE a # b /\ ~SettleRefusedGone(b)
    BY <1>1, <1>3, <1>6, <2>0 DEF DeliverLive, Begin, Mark, Register, SettleRefusedStopped,
                                   SettleRefusedEnded
  <2>1. CASE a = b /\ Begin(b)
    <3>1. att'[a] = [Idle EXCEPT !.pc = "begun", !.fence = stop.id]
      BY <1>1, <2>1 DEF Begin
    <3> QED BY <2>1, <3>1 DEF Moves, Idle
  <2>2. CASE a = b /\ Mark(b)
    <3> DEFINE batch == MarkedBatch(queue, att[a].fence)
    <3>1. att'[a] = IF batch = {} THEN Idle ELSE [att[a] EXCEPT !.pc = "marked", !.batch = batch]
      BY <1>1, <2>2 DEF Mark
    <3> HIDE DEF batch
    <3>2. CASE batch = {}
      BY <3>1, <3>2 DEF Moves
    <3>3. CASE batch # {}
      <4>1. /\ att'[a].pc = "marked" /\ att'[a].batch = batch /\ att'[a].batch # {}
            /\ att'[a].fence = att[a].fence
        BY <1>1, <3>1, <3>3 DEF Attempt
      <4> QED BY <2>2, <4>1 DEF Moves, batch
    <3> QED BY <3>2, <3>3
  <2>3. CASE a = b /\ Register(b)
    <3>1. att'[a] = [att[a] EXCEPT !.pc = "registered", !.pid = view]
      BY <1>1, <2>3 DEF Register
    <3>2. Carries(a) /\ att'[a].pc = "registered"
      BY <1>1, <3>1 DEF Carries, Attempt
    <3> QED BY <2>3, <3>2 DEF Moves
  <2>4. CASE Set(b, Idle)
    BY <1>5, <2>4
  <2>5. CASE SettleRefusedGone(b)
    <3>1. CASE att' = [att EXCEPT !["next"] = Idle,
                 !["spawn"] = [att["next"] EXCEPT !.pc = "begun", !.reply = "none"]]
      <4>1. CASE a = "mid"
        BY <1>1, <1>3, <3>1, <4>1
      <4>2. CASE a = "next"
        BY <1>1, <3>1, <4>2 DEF Moves
      <4>3. CASE a = "spawn"
        <5>1. /\ att'["next"] = Idle
              /\ att'["spawn"] = [att["next"] EXCEPT !.pc = "begun", !.reply = "none"]
          BY <1>1, <3>1
        <5>2. /\ att'["spawn"].pc = "begun" /\ att'["spawn"].reply = "none"
              /\ att'["spawn"].batch = att["next"].batch
              /\ att'["spawn"].fence = att["next"].fence
          BY <1>1, <5>1 DEF Attempt
        <5>3. CASE b = "next"
          BY <2>5, <4>3, <5>1, <5>2, <5>3 DEF Moves, Resumes, SettleRefusedGone
        <5>4. CASE b = "mid"
          BY <1>5, <2>5, <5>4 DEF SettleRefusedGone
        <5> QED BY <5>3, <5>4
      <4> QED BY <4>1, <4>2, <4>3
    <3> QED BY <2>4, <2>5, <3>1 DEF SettleRefusedGone
  <2> QED BY <1>6, <2>0, <2>1, <2>2, <2>3, <2>4, <2>5
          DEF DeliverLive, SettleRefusedStopped, SettleRefusedEnded
<1>7. ASSUME NEW b \in Attempts, Deliver(b) PROVE Moves(a)
  <2>1. CASE a # b
    BY <1>1, <1>3, <1>7, <2>1
    DEF Deliver, Send, LoseAnswer, SettleWritten, SettleTaking, SettleRan, SettleUnanswered,
        SettleCancelled, SettleSuperseded, SettleUnknown
  <2>2. CASE a = b /\ Send(b)
    <3>1. att'[a] = [att[a] EXCEPT !.pc = "replied", !.reply = Answer(a)]
      BY <1>1, <2>2 DEF Send
    <3>2. Carries(a) /\ att'[a].pc = "replied" /\ att'[a].reply = Answer(a)
      BY <1>1, <3>1 DEF Attempt, Carries
    <3> QED BY <2>2, <3>2 DEF Moves
  <2>3. CASE a = b /\ LoseAnswer(b)
    <3>1. att'[a] = [att[a] EXCEPT !.pc = "replied", !.reply = "unknown"]
      BY <1>1, <2>3 DEF LoseAnswer
    <3>2. Carries(a) /\ att'[a].pc = "replied" /\ att'[a].reply = "unknown"
      BY <1>1, <3>1 DEF Attempt, Carries
    <3> QED BY <2>3, <3>2 DEF Moves
  <2>4. CASE Set(b, Idle)
    BY <1>5, <2>4
  <2> QED
    BY <1>7, <2>1, <2>2, <2>3, <2>4
    DEF Deliver, SettleWritten, SettleTaking, SettleRan, SettleUnanswered,
        SettleCancelled, SettleSuperseded, SettleUnknown
<1>8. CASE Resume
  <2>1. CASE NoSession
    <3>1. CASE a = "mid"
      BY <1>1, <1>3, <2>1, <3>1 DEF NoSession
    <3>2. CASE a = "next"
      BY <1>1, <2>1, <3>2 DEF NoSession, Moves
    <3>3. CASE a = "spawn"
      <4>1. /\ att'["next"] = Idle
            /\ att'["spawn"] = [att["next"] EXCEPT !.pc = "begun"]
        BY <1>1, <2>1 DEF NoSession
      <4>2. att["next"].reply = "none" /\ att["next"].pc = "marked"
        BY <2>1 DEF NoSession, IInv, AttemptsHold
      <4>3. /\ att'["spawn"].pc = "begun" /\ att'["spawn"].reply = "none"
            /\ att'["spawn"].batch = att["next"].batch
            /\ att'["spawn"].fence = att["next"].fence
        BY <1>1, <4>1, <4>2 DEF Attempt
      <4> QED BY <2>1, <3>3, <4>1, <4>2, <4>3 DEF Moves, Resumes
    <3> QED BY <3>1, <3>2, <3>3
  <2>2. CASE SpawnStart
    <3>1. CASE a = "spawn"
      <4>1. att'[a] = [att[a] EXCEPT !.pc = "registered", !.pid = proc']
        BY <1>1, <2>2, <3>1 DEF SpawnStart
      <4>2. Carries(a) /\ att'[a].pc = "registered"
        BY <1>1, <4>1 DEF Attempt, Carries
      <4> QED BY <2>2, <3>1, <4>2 DEF Moves
    <3>2. CASE a # "spawn"
      BY <1>1, <1>3, <2>2, <3>2 DEF SpawnStart
    <3> QED BY <3>1, <3>2
  <2>3. CASE SpawnFails \/ SpawnRefused \/ SettleSpawnDead
    BY <1>5, <2>3 DEF SpawnFails, SpawnRefused, SettleSpawnDead
  <2>4. CASE Attach \/ ReadHold \/ DropHold \/ RecoveryEnds
    BY <1>3, <2>4 DEF Attach, ReadHold, DropHold, RecoveryEnds
  <2> QED BY <1>8, <2>1, <2>2, <2>3, <2>4 DEF Resume
<1>9. CASE Cli \/ Frames
  BY <1>3, <1>9
  DEF Cli, Take, AnswerLines, Die, Frames, ReadStart, ReadAnswer, ReadCancelled, SeeExit
<1>10. CASE Stopping
  <2>1. CASE Interrupt
    <3>1. att'[a] = IF att[a].pc \in {"registered", "replied"}
                      THEN [att[a] EXCEPT !.stopped = TRUE] ELSE att[a]
      BY <2>1 DEF Interrupt
    <3>2. /\ [att[a] EXCEPT !.stopped = TRUE].pc = att[a].pc
          /\ [att[a] EXCEPT !.stopped = TRUE].reply = att[a].reply
          /\ [att[a] EXCEPT !.stopped = TRUE].batch = att[a].batch
          /\ [att[a] EXCEPT !.stopped = TRUE].fence = att[a].fence
      BY <1>1 DEF Attempt
    <3> QED BY <1>3, <3>1, <3>2 DEF Moves, Same, Carries
  <2>2. CASE ~Interrupt
    BY <1>3, <1>10, <2>2
    DEF Stopping, StopAsk, StopPeek, StopPark, StopSend, StopFails
  <2> QED BY <2>1, <2>2
<1>11. CASE Restarting
  <2>1. CASE Restart
    BY <2>1 DEF Restart, Moves
  <2> QED BY <1>3, <1>11, <2>1 DEF Restarting, RestartCli, Load
<1>12. CASE UNCHANGED vars
  BY <1>3, <1>12 DEF vars
<1> QED BY <1>4, <1>6, <1>7, <1>8, <1>9, <1>10, <1>11, <1>12 DEF Next

-----------------------------------------------------------------------------
(* What a step does to the queue *)

\* A row comes back from the copy that an attempt, a stop or a hold has.
Reinserted(x) ==
  \/ /\ SpawnFails \/ SettleSpawnDead
     /\ x.status = "pending" /\ \E c \in att["spawn"].batch : BackFrom(x, c)
  \/ /\ SpawnRefused
     /\ ~Waits(x) /\ \E c \in att["spawn"].batch : BackFrom(x, c)
  \/ \E a \in Attempts :
       SettleSuperseded(a) /\ ~Waits(x) /\ \E c \in att[a].batch : BackFrom(x, c)
  \/ StopPark /\ ~Waits(x) /\ \E c \in stopper.peek : BackFrom(x, c)
  \/ DropHold /\ x.status = "parked" /\ \E c \in hold.rows : BackFrom(x, c)

\* The row is marked as an attempt's line, under the uuid it had or its first.
MarkedFrom(a, r, x) ==
  /\ Mark(a) /\ MarkedBatch(queue, att[a].fence) = {x} /\ queue' = {x}
  /\ att'[a].batch = {x}
  /\ r.status = "pending" /\ r.fence = x.fence /\ x.status = "processing"
  /\ x.uuid # NoUuid /\ (x.uuid = r.uuid \/ (r.uuid = NoUuid /\ x.uuid.n = 0))
  /\ x.tries = IF r.tries = 0 THEN 1 ELSE 2
  /\ x.doubt = r.doubt

JustMarked(x) == \E a \in {"next", "mid"}, r \in queue : MarkedFrom(a, r, x)

\* The row of a line nobody answered gets a new uuid.
Renewed(x) ==
  \E a \in Attempts, r \in queue :
    /\ SettleUnanswered(a)
    /\ r.status # "parked" /\ r.uuid \in {NoUuid, LineUuid(a)}
    /\ x.uuid \in {FreshUuid(used.fresh + 1), FreshUuid(used.fresh + 2)}
    /\ x.tries = 0 /\ x.fence = r.fence /\ x.status # "processing"

JustStored(x) ==
  /\ Store /\ queue = {}
  /\ \E e \in arriving : e.kind # "retry" /\ x = NewRow(e)

\* Where a row of the queue comes from.
Origin(x) ==
  \/ \E r \in queue : Still(x, r)
  \/ JustMarked(x) \/ Renewed(x) \/ JustStored(x)
  \/ queue = {} /\ Reinserted(x)

\* A line is marked of the row that waits.
LEMMA MarkMoves ==
  ASSUME IInv, OneEach, NEW a \in {"next", "mid"}, Mark(a)
  PROVE  \/ /\ MarkedBatch(queue, att[a].fence) = {} /\ Single(queue')
            /\ \A x \in queue' : (\E r \in queue : Still(x, r)) /\ (x \in queue \/ ~Waits(x))
         \/ \E r \in queue, x \in Row : MarkedFrom(a, r, x)
<1> DEFINE batch == MarkedBatch(queue, att[a].fence)
<1>0. /\ queue \in SUBSET Row /\ Single(queue) /\ a \in Attempts
      /\ att \in [Attempts -> Attempt] /\ att[a] \in Attempt
  BY DEF IInv, TypeOK, OneEach, Attempts
<1>1. att[a].fence \in Nat /\ queue' = MarkProcessing(queue, att[a].fence)
  BY <1>0 DEF Mark, Attempt
<1>2. \/ /\ batch = {} /\ Single(queue')
         /\ \A x \in queue' : (\E r \in queue : Still(x, r)) /\ (x \in queue \/ ~Waits(x))
      \/ \E r \in queue, b \in Row :
              /\ batch = {b} /\ queue' = {b}
              /\ r.status = "pending" /\ r.fence = att[a].fence
              /\ b.status = "processing" /\ b.fence = att[a].fence
              /\ b.uuid # NoUuid
              /\ b.uuid = r.uuid \/ (r.uuid = NoUuid /\ b.uuid.n = 0)
              /\ b.tries = IF r.tries = 0 THEN 1 ELSE 2
              /\ b.doubt = r.doubt
  BY <1>0, <1>1, MarkAlone
<1>3. batch # {} => att'[a].batch = batch
  <2>1. batch # {} => att'[a] = [att[a] EXCEPT !.pc = "marked", !.batch = batch]
    BY <1>0 DEF Mark, Set
  <2> HIDE DEF batch
  <2> QED BY <1>0, <2>1 DEF Attempt
<1> QED BY <1>2, <1>3 DEF MarkedFrom

\* There is one row at most, and each step says where it comes from.
LEMMA QueueMoves ==
  ASSUME IInv, Lone, OneEach, BatchRows, StopperWaits, Arrivals, [Next]_vars
  PROVE  Single(queue') /\ \A x \in queue' : Origin(x)
<1> DEFINE Goal == Single(queue') /\ \A x \in queue' : Origin(x)
<1>0. /\ queue \in SUBSET Row /\ Single(queue) /\ hold.rows \in SUBSET Row /\ Single(hold.rows)
      /\ stopper.peek \in SUBSET Row /\ Single(stopper.peek)
      /\ \A r \in stopper.peek : r.status # "parked"
      /\ \A a \in Attempts : /\ att[a].batch \in SUBSET Row /\ Single(att[a].batch)
                             /\ att[a].fence \in Nat
                             /\ \A r \in att[a].batch : r.status = "processing"
      /\ \A rows, copies \in SUBSET Row : \A r \in rows, c \in copies : r.id = c.id
      /\ "spawn" \in Attempts
  BY DEF IInv, TypeOK, Attempt, OneEach, BatchRows, StopperWaits, Lone, Row, Attempts
<1>1. ASSUME Single(queue'), \A x \in queue' : \E r \in queue : Still(x, r) PROVE Goal
  BY <1>1 DEF Origin
<1>2. ASSUME queue' \subseteq queue PROVE Goal
  BY <1>0, <1>1, <1>2, StillOn DEF Single
<1>3. ASSUME NEW ids, queue' = RevertIfQueued(queue, ids) PROVE Goal
  BY <1>0, <1>1, <1>3, RevertIfQueuedAlone
<1>4. ASSUME NEW ids, NEW why, why # "recovery", queue' = ParkIfQueued(queue, ids, why)
      PROVE  Goal
  <2>1. \A x \in queue' : x \in queue \/ \E r \in queue : Still(x, r)
    BY <1>0, <1>4, ParkIfQueuedAlone
  <2>2. \A x \in queue' : \E r \in queue : Still(x, r)
    BY <2>1, StillOn
  <2> QED BY <1>0, <1>1, <1>4, <2>2, ParkIfQueuedAlone
<1>5. ASSUME NEW a \in Attempts, NEW why, why # "recovery",
             queue' = ParkMessages(queue, att[a].batch, why),
             SettleSuperseded(a) \/ (SpawnRefused /\ a = "spawn")
      PROVE  Goal
  <2>1. /\ Single(queue')
        /\ \A x \in queue' :
              \/ x \in queue
              \/ ~Waits(x) /\ \E r \in queue : Still(x, r)
              \/ ~Waits(x) /\ queue = {} /\ \E c \in att[a].batch : BackFrom(x, c)
    BY <1>0, <1>5, ParkMessagesAlone
  <2> QED BY <1>5, <2>1, StillOn DEF Origin, Reinserted
<1>6. ASSUME NEW ids, ReleaseRan(ids) \/ ReleaseCancelled(ids) PROVE Goal
  BY <1>2, <1>6 DEF ReleaseRan, ReleaseCancelled, RemoveTaken
<1>7. CASE Intake
  <2>1. CASE Store
    <3>1. PICK e \in arriving :
            /\ e.kind # "retry"
            /\ queue' = IF Queued(e.id) THEN queue ELSE queue \cup {NewRow(e)}
      BY <2>1 DEF Store
    <3>2. CASE Queued(e.id)
      BY <1>2, <3>1, <3>2
    <3>3. CASE ~Queued(e.id)
      <4>1. e.id \in Messages
        BY DEF IInv, TypeOK
      <4>2. queue = {}
        BY <1>0, <3>3, <4>1 DEF Queued, Ids, Lone, Row
      <4> QED BY <2>1, <3>1, <3>3, <4>2 DEF Origin, JustStored, Single
    <3> QED BY <3>2, <3>3
  <2>2. CASE Revive
    BY <2>2 DEF Revive, Arrivals
  <2>3. CASE ParkStale
    BY <1>4, <2>3 DEF ParkStale
  <2>4. ASSUME NEW m \in Messages, Arrive(m) \/ Relay(m) \/ Retry(m) \/ Delete(m) \/ Withdraw(m)
        PROVE  Goal
    BY <1>2, <2>4 DEF Arrive, Relay, Retry, Delete, Withdraw, queueFile
  <2> QED BY <1>7, <2>1, <2>2, <2>3, <2>4 DEF Intake
<1>8. ASSUME NEW a \in {"next", "mid"}, DeliverLive(a) PROVE Goal
  <2>1. CASE Begin(a) \/ Register(a)
    BY <1>2, <2>1 DEF Begin, Register, queueFile
  <2>2. CASE Mark(a)
    <3>1. ASSUME NEW r \in queue, NEW x \in Row, MarkedFrom(a, r, x) PROVE Goal
      BY <3>1 DEF MarkedFrom, Origin, JustMarked, Single
    <3> QED BY <1>1, <2>2, <3>1, MarkMoves
  <2>3. CASE SettleRefusedStopped(a)
    <3>1. CASE queue' = ParkIfQueued(queue, BatchIds(a), "stop")
      BY <1>4, <3>1
    <3>2. CASE queue' = ParkIfQueued(RevertIfQueued(queue, HandedBack(view)), BatchIds(a), "stop")
      <4> DEFINE back == RevertIfQueued(queue, HandedBack(view))
      <4>1. /\ back \in SUBSET Row /\ Single(back)
            /\ \A x \in back : \E r \in queue : Still(x, r)
        BY <1>0, RevertIfQueuedAlone, RevertIfQueuedType
      <4> HIDE DEF back
      <4>2. /\ Single(ParkIfQueued(back, BatchIds(a), "stop"))
            /\ \A x \in ParkIfQueued(back, BatchIds(a), "stop") :
                 x \in back \/ \E r \in back : Still(x, r)
        BY <4>1, ParkIfQueuedAlone
      <4>3. \A x \in ParkIfQueued(back, BatchIds(a), "stop") : \E r \in queue : Still(x, r)
        BY <4>1, <4>2, StillOn
      <4> QED BY <1>1, <3>2, <4>2, <4>3 DEF back
    <3> QED BY <2>3, <3>1, <3>2 DEF SettleRefusedStopped
  <2>4. CASE SettleRefusedEnded(a) \/ SettleRefusedGone(a)
    BY <1>3, <2>4 DEF SettleRefusedEnded, SettleRefusedGone
  <2> QED BY <1>8, <2>1, <2>2, <2>3, <2>4 DEF DeliverLive
<1>9. ASSUME NEW a \in Attempts, Deliver(a) PROVE Goal
  <2>1. CASE Send(a) \/ LoseAnswer(a) \/ SettleWritten(a) \/ SettleTaking(a)
    BY <1>2, <2>1 DEF Send, LoseAnswer, SettleWritten, SettleTaking, queueFile
  <2>2. CASE SettleRan(a) \/ SettleCancelled(a)
    BY <1>6, <2>2 DEF SettleRan, SettleCancelled
  <2>3. CASE SettleUnanswered(a)
    <3>1. used.fresh \in Nat /\ queue \in SUBSET Row /\ Single(queue)
      BY <1>0 DEF IInv, TypeOK
    <3>2. queue' = Resent(queue, BatchIds(a), LineUuid(a), used.fresh)
      BY <2>3 DEF SettleUnanswered, Resent
    <3>3. /\ Single(queue')
          /\ \A x \in queue' : \E r \in queue :
              \/ x = r
              \/ /\ r.status # "parked" /\ r.uuid \in {NoUuid, LineUuid(a)}
                 /\ x.uuid \in {FreshUuid(used.fresh + 1), FreshUuid(used.fresh + 2)}
                 /\ x.tries = 0 /\ x.fence = r.fence /\ x.status # "processing"
      BY <3>1, <3>2, ResendAlone
    <3> QED BY <2>3, <3>3, StillOn DEF Origin, Renewed
  <2>4. CASE SettleSuperseded(a)
    BY <1>5, <2>4 DEF SettleSuperseded, Batch
  <2>5. CASE SettleUnknown(a)
    BY <1>3, <1>4, <2>5 DEF SettleUnknown
  <2> QED BY <1>9, <2>1, <2>2, <2>3, <2>4, <2>5 DEF Deliver
<1>10. CASE Resume
  <2>1. CASE Attach \/ NoSession \/ SpawnStart
    BY <1>2, <2>1 DEF Attach, NoSession, SpawnStart, queueFile
  <2> DEFINE batch == att["spawn"].batch
  <2>2. ASSUME NEW rows \in SUBSET Row, Single(rows), \A x \in rows : \E r \in queue : Still(x, r),
               rows = {} => queue = {},
               queue' = RevertToPending(rows, batch), SpawnFails \/ SettleSpawnDead
        PROVE  Goal
    <3>1. /\ Single(queue')
          /\ \A x \in queue' :
               \/ \E r \in rows : Still(x, r)
               \/ rows = {} /\ \E c \in batch :
                    BackFrom(x, c) /\ (c.status = "processing" => x.status = "pending")
      BY <1>0, <2>2, RevertToPendingAlone
    <3>2. \A x \in queue' :
               \/ \E r \in queue : Still(x, r)
               \/ queue = {} /\ \E c \in batch : BackFrom(x, c) /\ x.status = "pending"
      BY <1>0, <2>2, <3>1, StillOn
    <3> QED BY <2>2, <3>1, <3>2 DEF Origin, Reinserted
  <2>3. CASE SpawnFails
    BY <1>0, <2>2, <2>3, StillOn DEF SpawnFails, Batch
  <2>4. CASE SpawnRefused
    BY <1>0, <1>5, <2>4 DEF SpawnRefused, Batch
  <2>5. CASE SettleSpawnDead
    <3>1. PICK ids : queue' = RevertToPending(RevertIfQueued(queue, ids), batch)
      BY <2>5 DEF SettleSpawnDead, Batch
    <3>2. /\ RevertIfQueued(queue, ids) \in SUBSET Row /\ Single(RevertIfQueued(queue, ids))
          /\ \A x \in RevertIfQueued(queue, ids) : \E r \in queue : Still(x, r)
      BY <1>0, RevertIfQueuedAlone, RevertIfQueuedType
    <3>3. RevertIfQueued(queue, ids) = {} => queue = {}
      BY DEF RevertIfQueued
    <3> QED BY <2>2, <2>5, <3>1, <3>2, <3>3
  <2>6. CASE ReadHold
    BY <1>2, <1>3, <2>6 DEF ReadHold
  <2>7. CASE DropHold
    <3>1. CASE queue' = HoldForStartRecovery(queue, hold.rows)
      <4>1. /\ Single(queue')
            /\ \A x \in queue' :
                 \/ \E r \in queue : Still(x, r)
                 \/ queue = {} /\ x.status = "parked" /\ \E c \in hold.rows : BackFrom(x, c)
        BY <1>0, <3>1, HoldForStartRecoveryAlone
      <4> QED BY <2>7, <4>1 DEF Origin, Reinserted
    <3> QED BY <1>4, <2>7, <3>1 DEF DropHold
  <2>8. CASE RecoveryEnds
    BY <1>0, <1>1, <2>8, SettleHeldAlone DEF RecoveryEnds
  <2> QED BY <1>10, <2>1, <2>3, <2>4, <2>5, <2>6, <2>7, <2>8 DEF Resume
<1>11. CASE Cli
  BY <1>2, <1>11 DEF Cli, Take, AnswerLines, Die, queueFile
<1>12. CASE Frames
  <2>1. CASE ReadStart
    BY <1>2, <2>1 DEF ReadStart, queueFile
  <2>2. CASE ReadAnswer \/ ReadCancelled
    BY <1>6, <2>2 DEF ReadAnswer, ReadCancelled
  <2>3. CASE SeeExit
    BY <1>3, <2>3 DEF SeeExit
  <2> QED BY <1>12, <2>1, <2>2, <2>3 DEF Frames
<1>13. CASE Stopping
  <2>1. CASE StopPark
    <3>1. /\ Single(queue')
          /\ \A x \in queue' :
              \/ x \in queue
              \/ ~Waits(x) /\ \E r \in queue : Still(x, r)
              \/ ~Waits(x) /\ queue = {} /\ \E c \in stopper.peek : BackFrom(x, c)
      BY <1>0, <2>1, ParkMessagesAlone DEF StopPark
    <3> QED BY <2>1, <3>1, StillOn DEF Origin, Reinserted
  <2>2. CASE ~StopPark
    BY <1>2, <1>13, <2>2
    DEF Stopping, Interrupt, StopAsk, StopPeek, StopSend, StopFails, queueFile
  <2> QED BY <2>1, <2>2
<1>14. CASE Restarting
  <2>1. CASE RestartCli
    BY <2>1 DEF RestartCli, Lone
  <2>2. CASE Restart \/ Load
    BY <1>2, <1>3, <2>2 DEF Restart, Load, LoadQueue, queueFile
  <2> QED BY <1>14, <2>1, <2>2 DEF Restarting
<1>15. CASE UNCHANGED vars
  BY <1>2, <1>15 DEF vars, queueFile
<1> QED BY <1>7, <1>8, <1>9, <1>10, <1>11, <1>12, <1>13, <1>14, <1>15 DEF Next

\* The steps that put a row being delivered back in line.
Reverts ==
  \/ \E a \in Attempts :
       \/ SettleUnknown(a) \/ SettleUnanswered(a) \/ SettleRefusedStopped(a)
       \/ SettleRefusedEnded(a) \/ SettleRefusedGone(a)
  \/ SpawnFails \/ SettleSpawnDead \/ ReadHold \/ DropHold \/ SeeExit \/ Load

\* No other step makes a row wait again that nobody may take.
LEMMA GoingStays ==
  ASSUME IInv, Lone, OneEach, BatchRows, StopperWaits, Arrivals, AllGoing,
         [Next]_vars, ~Store, ~Reverts
  PROVE  AllGoing'
<1>0. /\ queue \in SUBSET Row /\ Single(queue)
      /\ stopper.peek \in SUBSET Row /\ Single(stopper.peek)
      /\ \A r \in stopper.peek : r.status # "parked"
      /\ \A a \in Attempts : /\ att[a].batch \in SUBSET Row /\ Single(att[a].batch)
                             /\ att[a].fence \in Nat
                             /\ \A r \in att[a].batch : r.status = "processing"
      /\ \A rows, copies \in SUBSET Row : \A r \in rows, c \in copies : r.id = c.id
      /\ "spawn" \in Attempts
  BY DEF IInv, TypeOK, Attempt, OneEach, BatchRows, StopperWaits, Lone, Row, Attempts
<1>1. ASSUME \A x \in queue' : x \in queue \/ ~Waits(x) PROVE AllGoing'
  BY <1>1 DEF AllGoing
<1>2. ASSUME NEW ids, NEW why, why # "recovery", queue' = ParkIfQueued(queue, ids, why)
      PROVE  AllGoing'
  BY <1>0, <1>1, <1>2, ParkIfQueuedAlone
<1>3. ASSUME NEW copies \in SUBSET Row, NEW why, why # "recovery", Single(copies),
             \A c \in copies : c.status # "parked", queue' = ParkMessages(queue, copies, why)
      PROVE  AllGoing'
  BY <1>0, <1>1, <1>3, ParkMessagesAlone
<1>4. CASE Intake
  <2>1. CASE Revive
    BY <2>1 DEF Revive, Arrivals
  <2>2. CASE ParkStale
    BY <1>2, <2>2 DEF ParkStale
  <2>3. ASSUME NEW m \in Messages, Arrive(m) \/ Relay(m) \/ Retry(m) \/ Delete(m) \/ Withdraw(m)
        PROVE  AllGoing'
    BY <1>1, <2>3 DEF Arrive, Relay, Retry, Delete, Withdraw, queueFile
  <2> QED BY <1>4, <2>1, <2>2, <2>3 DEF Intake
<1>5. ASSUME NEW a \in {"next", "mid"}, DeliverLive(a) PROVE AllGoing'
  <2>1. CASE Begin(a) \/ Register(a)
    BY <1>1, <2>1 DEF Begin, Register, queueFile
  <2>2. CASE Mark(a)
    <3>1. Pending(queue) = {}
      BY DEF Pending, AllGoing, Waits
    <3>2. att[a].fence \in Nat
      BY <1>0 DEF Attempts
    <3>3. queue' = queue
      BY <1>0, <2>2, <3>1, <3>2, MarkNothing DEF Mark
    <3> QED BY <1>1, <3>3
  <2> QED BY <1>5, <2>1, <2>2 DEF DeliverLive, Reverts, Attempts
<1>6. ASSUME NEW a \in Attempts, Deliver(a) PROVE AllGoing'
  <2>1. CASE Send(a) \/ LoseAnswer(a) \/ SettleWritten(a) \/ SettleTaking(a)
    BY <1>1, <2>1 DEF Send, LoseAnswer, SettleWritten, SettleTaking, queueFile
  <2>2. CASE SettleRan(a) \/ SettleCancelled(a)
    BY <1>1, <2>2 DEF SettleRan, SettleCancelled, ReleaseRan, ReleaseCancelled, RemoveTaken
  <2>3. CASE SettleSuperseded(a)
    BY <1>0, <1>3, <2>3 DEF SettleSuperseded, Batch
  <2> QED BY <1>6, <2>1, <2>2, <2>3 DEF Deliver, Reverts
<1>7. CASE Resume
  <2>1. CASE Attach \/ NoSession \/ SpawnStart
    BY <1>1, <2>1 DEF Attach, NoSession, SpawnStart, queueFile
  <2>2. CASE SpawnRefused
    BY <1>0, <1>3, <2>2 DEF SpawnRefused, Batch
  <2>3. CASE RecoveryEnds
    BY <2>3 DEF RecoveryEnds, HeldForRecovery, AllGoing, Waits
  <2> QED BY <1>7, <2>1, <2>2, <2>3 DEF Resume, Reverts
<1>8. CASE Cli
  BY <1>1, <1>8 DEF Cli, Take, AnswerLines, Die, queueFile
<1>9. CASE Frames
  BY <1>1, <1>9 DEF Frames, ReadStart, ReadAnswer, ReadCancelled, Reverts, queueFile,
                    ReleaseRan, ReleaseCancelled, RemoveTaken
<1>10. CASE Stopping
  <2>1. CASE StopPark
    BY <1>0, <1>3, <2>1 DEF StopPark
  <2>2. CASE ~StopPark
    BY <1>1, <1>10, <2>2
    DEF Stopping, Interrupt, StopAsk, StopPeek, StopSend, StopFails, queueFile
  <2> QED BY <2>1, <2>2
<1>11. CASE Restarting
  BY <1>1, <1>11 DEF Restarting, RestartCli, Lone, Restart, Reverts, queueFile
<1>12. CASE UNCHANGED vars
  BY <1>1, <1>12 DEF vars, queueFile
<1> QED BY <1>4, <1>5, <1>6, <1>7, <1>8, <1>9, <1>10, <1>11, <1>12 DEF Next

-----------------------------------------------------------------------------
(* What a step does to the rest *)

\* A registered line was registered, or an attempt or a hold brings it.
LEMMA RegistryMoves ==
  ASSUME IInv, [Next]_vars, NEW l \in untaken' \cup answering'
  PROVE  \/ \E k \in untaken \cup answering : k.uuid = l.uuid
         \/ \E a \in Attempts : /\ Register(a) \/ SettleTaking(a)
                                /\ Past(a) /\ l.uuid = LineUuid(a)
         \/ ReadHold /\ hold # NoHold
<1> DEFINE Goal == \/ \E k \in untaken \cup answering : k.uuid = l.uuid
                   \/ \E a \in Attempts : /\ Register(a) \/ SettleTaking(a)
                                          /\ Past(a) /\ l.uuid = LineUuid(a)
                   \/ ReadHold /\ hold # NoHold
<1> USE DEF registry
<1>1. ASSUME l \in untaken \cup answering PROVE Goal
  BY <1>1
<1>2. ASSUME NEW a \in Attempts, NEW pid, l = LineOf(a, pid), Register(a) \/ SettleTaking(a)
      PROVE  Goal
  BY <1>2 DEF LineOf, Past, IInv, AttemptsHold, Register, SettleTaking, Replied
<1>4. CASE Intake
  BY <1>1, <1>4 DEF Intake, Store, Revive, ParkStale, Arrive, Relay, Retry, Delete, Withdraw
<1>5. ASSUME NEW a \in {"next", "mid"}, DeliverLive(a) PROVE Goal
  BY <1>1, <1>2, <1>5
  DEF DeliverLive, Begin, Mark, Register, SettleRefusedStopped, SettleRefusedEnded,
      SettleRefusedGone, Untracked, Attempts
<1>6. ASSUME NEW a \in Attempts, Deliver(a) PROVE Goal
  BY <1>1, <1>2, <1>6
  DEF Deliver, Send, LoseAnswer, SettleWritten, SettleTaking, SettleRan, SettleUnanswered,
      SettleCancelled, SettleSuperseded, SettleUnknown, Untracked, Replied
<1>7. CASE Resume
  BY <1>1, <1>7 DEF Resume, Attach, NoSession, SpawnStart, SpawnFails, SpawnRefused,
                    SettleSpawnDead, ReadHold, DropHold, RecoveryEnds
<1>8. CASE Cli
  BY <1>1, <1>8 DEF Cli, Take, AnswerLines, Die
<1>9. CASE Frames
  <2>1. CASE ReadStart
    <3>1. PICK k \in untaken : answering' = {j \in answering : j.uuid # k.uuid}
                                              \cup {[k EXCEPT !.pid = view]}
                               /\ untaken' = untaken \ {k}
      BY <2>1 DEF ReadStart
    <3>2. [k EXCEPT !.pid = view].uuid = k.uuid
      BY DEF IInv, TypeOK, Line
    <3> QED BY <3>1, <3>2
  <2> QED BY <1>1, <1>9, <2>1 DEF Frames, ReadAnswer, ReadCancelled, SeeExit
<1>10. CASE Stopping
  BY <1>1, <1>10 DEF Stopping, Interrupt, StopAsk, StopPeek, StopPark, StopSend, StopFails
<1>11. CASE Restarting
  BY <1>1, <1>11 DEF Restarting, RestartCli, Restart, Load
<1>12. CASE UNCHANGED vars
  BY <1>1, <1>12 DEF vars
<1> QED BY <1>4, <1>5, <1>6, <1>7, <1>8, <1>9, <1>10, <1>11, <1>12 DEF Next

\* A hold is the line of a resume that was written.
LEMMA HoldMoves ==
  ASSUME IInv, [Next]_vars
  PROVE  \/ hold' \in {hold, NoHold}
         \/ SettleWritten("spawn") /\ hold' = [rows |-> att["spawn"].batch,
                                               pid |-> att["spawn"].pid]
<1> USE DEF registry
<1>4. ASSUME Intake PROVE hold' = hold
  BY <1>4 DEF Intake, Store, Revive, ParkStale, Arrive, Relay, Retry, Delete, Withdraw
<1>5. ASSUME NEW a \in {"next", "mid"}, DeliverLive(a) PROVE hold' = hold
  BY <1>5 DEF DeliverLive, Begin, Mark, Register, SettleRefusedStopped, SettleRefusedEnded,
              SettleRefusedGone
<1>6. ASSUME NEW a \in Attempts, Deliver(a), ~SettleWritten("spawn") PROVE hold' = hold
  BY <1>6
  DEF Deliver, Send, LoseAnswer, SettleWritten, SettleTaking, SettleRan, SettleUnanswered,
      SettleCancelled, SettleSuperseded, SettleUnknown
<1>7. ASSUME Resume PROVE hold' \in {hold, NoHold}
  BY <1>7 DEF Resume, Attach, NoSession, SpawnStart, SpawnFails, SpawnRefused,
              SettleSpawnDead, ReadHold, DropHold, RecoveryEnds
<1>8. ASSUME Cli \/ Frames PROVE hold' = hold
  BY <1>8 DEF Cli, Take, AnswerLines, Die, Frames, ReadStart, ReadAnswer, ReadCancelled, SeeExit
<1>10. ASSUME Stopping PROVE hold' = hold
  BY <1>10 DEF Stopping, Interrupt, StopAsk, StopPeek, StopPark, StopSend, StopFails
<1>11. ASSUME Restarting PROVE hold' \in {hold, NoHold}
  BY <1>11 DEF Restarting, RestartCli, Restart, Load
<1>12. ASSUME UNCHANGED vars PROVE hold' = hold
  BY <1>12 DEF vars
<1>13. CASE SettleWritten("spawn")
  BY <1>13 DEF SettleWritten, Batch
<1> QED BY <1>4, <1>5, <1>6, <1>7, <1>8, <1>10, <1>11, <1>12, <1>13 DEF Next

\* Only a write adds a line; otherwise the lines are those there were, each at
\* most once.
LEMMA WireMoves ==
  ASSUME IInv, [Next]_vars
  PROVE  \/ \E a \in Attempts : /\ Send(a) /\ Answer(a) = "written"
                                /\ wire' = wire \cup {PipedLine(a)}
         \/ /\ \A x \in wire' : \E v \in wire : v.uuid = x.uuid
            /\ Distinct => Distinct'
<1> DEFINE Quiet == /\ \A x \in wire' : \E v \in wire : v.uuid = x.uuid
                    /\ Distinct => Distinct'
           Goal == \/ \E a \in Attempts : /\ Send(a) /\ Answer(a) = "written"
                                          /\ wire' = wire \cup {PipedLine(a)}
                   \/ Quiet
<1> USE DEF host
<1>0. \A v \in wire : v \in WireLine
  BY DEF IInv, TypeOK
<1>1. ASSUME wire' \subseteq wire PROVE Goal
  BY <1>1 DEF Distinct
<1>2. ASSUME NEW f, \A v \in wire : f[v].uuid = v.uuid, wire' = {f[v] : v \in wire}
      PROVE  Goal
  <2>1. \A x \in wire' : \E v \in wire : v.uuid = x.uuid /\ x = f[v]
    BY <1>2
  <2>2. ASSUME Distinct, NEW x \in wire', NEW y \in wire', x.uuid = y.uuid PROVE x = y
    <3>1. PICK v \in wire : v.uuid = x.uuid /\ x = f[v]
      BY <2>1
    <3>2. PICK w \in wire : w.uuid = y.uuid /\ y = f[w]
      BY <2>1
    <3>3. v = w
      BY <2>2, <3>1, <3>2 DEF Distinct
    <3> QED BY <3>1, <3>2, <3>3
  <2> QED BY <2>1, <2>2 DEF Distinct
<1>4. CASE Intake
  BY <1>1, <1>4 DEF Intake, Store, Revive, ParkStale, Arrive, Relay, Retry, Delete, Withdraw
<1>5. ASSUME NEW a \in {"next", "mid"}, DeliverLive(a) PROVE Goal
  BY <1>1, <1>5 DEF DeliverLive, Begin, Mark, Register, SettleRefusedStopped,
                    SettleRefusedEnded, SettleRefusedGone
<1>6. ASSUME NEW a \in Attempts, Deliver(a) PROVE Goal
  BY <1>1, <1>6
  DEF Deliver, Send, LoseAnswer, SettleWritten, SettleTaking, SettleRan, SettleUnanswered,
      SettleCancelled, SettleSuperseded, SettleUnknown
<1>7. CASE Resume
  BY <1>1, <1>7 DEF Resume, Attach, NoSession, SpawnStart, SpawnFails, SpawnRefused,
                    SettleSpawnDead, ReadHold, DropHold, RecoveryEnds
<1>8. CASE Cli
  <2>1. CASE Take
    <3>1. PICK v \in wire, x \in WireLine : wire' = (wire \ {v}) \cup {x} /\ x.uuid = v.uuid
      BY <2>1, TakeSteps
    <3>2. Quiet
      BY <3>1 DEF Distinct
    <3> QED BY <3>2
  <2>2. CASE AnswerLines
    <3> DEFINE f == [v \in wire |-> IF v \in Started THEN [v EXCEPT !.st = "answered"] ELSE v]
    <3>1. \A v \in wire : f[v].uuid = v.uuid
      BY <1>0 DEF WireLine
    <3>2. wire' = {IF v \in Started THEN [v EXCEPT !.st = "answered"] ELSE v : v \in wire}
      BY <2>2 DEF AnswerLines, Started
    <3>3. wire' = {f[v] : v \in wire}
      BY <3>2
    <3> HIDE DEF f
    <3> QED BY <1>2, <3>1, <3>3
  <2>3. CASE Die
    BY <1>1, <2>3 DEF Die
  <2> QED BY <1>8, <2>1, <2>2, <2>3 DEF Cli
<1>9. CASE Frames
  BY <1>1, <1>9 DEF Frames, ReadStart, ReadAnswer, ReadCancelled, SeeExit
<1>10. CASE Stopping
  <2>1. CASE Interrupt
    <3> DEFINE f == [v \in wire |->
                       IF Live(v) /\ v.st = "piped" THEN [v EXCEPT !.st = "cancelled"]
                       ELSE IF Live(v) /\ v.st = "started" THEN [v EXCEPT !.st = "stopped"]
                       ELSE v]
    <3>1. \A v \in wire : f[v].uuid = v.uuid
      BY <1>0 DEF WireLine
    <3>2. wire' = {f[v] : v \in wire}
      BY <2>1 DEF Interrupt
    <3> HIDE DEF f
    <3> QED BY <1>2, <3>1, <3>2
  <2> QED BY <1>1, <1>10, <2>1 DEF Stopping, StopAsk, StopPeek, StopPark, StopSend, StopFails
<1>11. CASE Restarting
  BY <1>1, <1>11 DEF Restarting, RestartCli, Restart, Load
<1>12. CASE UNCHANGED vars
  BY <1>1, <1>12 DEF vars
<1> QED BY <1>4, <1>5, <1>6, <1>7, <1>8, <1>9, <1>10, <1>11, <1>12 DEF Next

\* A resume alone starts a process, and the server comes to believe in one only
\* while it runs.
LEMMA ProcessMoves ==
  ASSUME IInv, [Next]_vars
  PROVE  /\ alive' => alive \/ SpawnStart \/ SpawnFails
         /\ proc' = proc \/ SpawnStart \/ SpawnFails
         /\ object' = object \/ (object' /\ (Attach \/ NoSession)) \/ Restart
         /\ loaded' = loaded \/ Load \/ Restart
         /\ \/ view' \in {view, 0}
            \/ /\ view' = proc' /\ alive'
               /\ Attach \/ SpawnStart \/ \E a \in Attempts : Send(a)
<1> DEFINE Goal == /\ alive' => alive \/ SpawnStart \/ SpawnFails
                   /\ proc' = proc \/ SpawnStart \/ SpawnFails
                   /\ object' = object \/ (object' /\ (Attach \/ NoSession)) \/ Restart
                   /\ loaded' = loaded \/ Load \/ Restart
                   /\ \/ view' \in {view, 0}
                      \/ /\ view' = proc' /\ alive'
                         /\ Attach \/ SpawnStart \/ \E a \in Attempts : Send(a)
<1> USE DEF host
<1>4. CASE Intake
  BY <1>4 DEF Intake, Store, Revive, ParkStale, Arrive, Relay, Retry, Delete, Withdraw
<1>5. ASSUME NEW a \in {"next", "mid"}, DeliverLive(a) PROVE Goal
  BY <1>5 DEF DeliverLive, Begin, Mark, Register, SettleRefusedStopped, SettleRefusedEnded,
              SettleRefusedGone
<1>6. ASSUME NEW a \in Attempts, Deliver(a) PROVE Goal
  <2>1. CASE Send(a)
    <3>1. Answer(a) = "written" => alive
      BY DEF Answer, Verdict
    <3> QED BY <2>1, <3>1 DEF Send
  <2> QED BY <1>6, <2>1
    DEF Deliver, LoseAnswer, SettleWritten, SettleTaking, SettleRan, SettleUnanswered,
        SettleCancelled, SettleSuperseded, SettleUnknown
<1>7. CASE Resume
  BY <1>7 DEF Resume, Attach, NoSession, SpawnStart, SpawnFails, SpawnRefused,
              SettleSpawnDead, ReadHold, DropHold, RecoveryEnds
<1>8. CASE Cli \/ Frames
  BY <1>8 DEF Cli, Take, AnswerLines, Die, Frames, ReadStart, ReadAnswer, ReadCancelled, SeeExit
<1>10. CASE Stopping
  BY <1>10 DEF Stopping, Interrupt, StopAsk, StopPeek, StopPark, StopSend, StopFails
<1>11. CASE Restarting
  BY <1>11 DEF Restarting, RestartCli, Restart, Load
<1>12. CASE UNCHANGED vars
  BY <1>12 DEF vars
<1> QED BY <1>4, <1>5, <1>6, <1>7, <1>8, <1>10, <1>11, <1>12 DEF Next

\* A stop is asked for under a new number, and carried out while no answer is due.
LEMMA StopMoves ==
  ASSUME IInv, [Next]_vars
  PROVE  /\ stop'.id \in Nat /\ stop'.id >= stop.id
         /\ stop'.st = "pending" /\ stop'.id = stop.id => stop.st = "pending"
         /\ \/ stopper' = stopper /\ (stopper.pc # "idle" => stop' = stop)
            \/ stopper' = AtEase
            \/ StopAsk /\ stopper'.pc = "peek" /\ stopper'.peek = {}
            \/ StopPeek /\ stopper'.pc = "park" /\ stop' = stop
                 /\ stopper'.peek = {r \in queue : r.status # "parked"}
            \/ StopPark /\ stopper'.pc = "send" /\ stopper'.peek = {} /\ stop' = stop
<1> DEFINE Goal ==
         /\ stop'.id \in Nat /\ stop'.id >= stop.id
         /\ stop'.st = "pending" /\ stop'.id = stop.id => stop.st = "pending"
         /\ \/ stopper' = stopper /\ (stopper.pc # "idle" => stop' = stop)
            \/ stopper' = AtEase
            \/ StopAsk /\ stopper'.pc = "peek" /\ stopper'.peek = {}
            \/ StopPeek /\ stopper'.pc = "park" /\ stop' = stop
                 /\ stopper'.peek = {r \in queue : r.status # "parked"}
            \/ StopPark /\ stopper'.pc = "send" /\ stopper'.peek = {} /\ stop' = stop
<1> USE DEF stopState
<1>0. stop \in [id : Nat, st : {"none", "pending", "confirmed", "failed"}]
  BY DEF IInv, TypeOK
<1>1. ASSUME stop' = stop, stopper' \in {stopper, AtEase} PROVE Goal
  BY <1>0, <1>1
<1>4. CASE Intake
  BY <1>1, <1>4 DEF Intake, Store, Revive, ParkStale, Arrive, Relay, Retry, Delete, Withdraw
<1>5. ASSUME NEW a \in {"next", "mid"}, DeliverLive(a) PROVE Goal
  BY <1>1, <1>5 DEF DeliverLive, Begin, Mark, Register, SettleRefusedStopped,
                    SettleRefusedEnded, SettleRefusedGone
<1>6. ASSUME NEW a \in Attempts, Deliver(a) PROVE Goal
  BY <1>1, <1>6
    DEF Deliver, Send, LoseAnswer, SettleWritten, SettleTaking, SettleRan, SettleUnanswered,
        SettleCancelled, SettleSuperseded, SettleUnknown
<1>7. CASE Resume
  BY <1>1, <1>7 DEF Resume, Attach, NoSession, SpawnStart, SpawnFails, SpawnRefused,
                    SettleSpawnDead, ReadHold, DropHold, RecoveryEnds
<1>8. CASE Cli \/ Frames
  BY <1>1, <1>8
  DEF Cli, Take, AnswerLines, Die, Frames, ReadStart, ReadAnswer, ReadCancelled, SeeExit
<1>10. CASE Stopping
  <2>1. CASE Interrupt
    BY <1>1, <2>1 DEF Interrupt
  <2>2. CASE StopAsk
    <3>1. stopper' = [AtEase EXCEPT !.pc = "peek"]
      BY <2>2 DEF StopAsk
    <3>2. stopper'.pc = "peek" /\ stopper'.peek = {}
      BY <3>1 DEF AtEase
    <3> QED BY <1>0, <2>2, <3>2 DEF StopAsk
  <2>3. CASE StopPeek
    BY <1>0, <2>3 DEF StopPeek
  <2>4. CASE StopPark
    <3>1. stopper' = [AtEase EXCEPT !.pc = "send"]
      BY <2>4 DEF StopPark
    <3>2. stopper'.pc = "send" /\ stopper'.peek = {}
      BY <3>1 DEF AtEase
    <3> QED BY <1>0, <2>4, <3>2 DEF StopPark
  <2>5. CASE StopSend \/ StopFails
    <3>1. stop' \in {stop, [stop EXCEPT !.st = "confirmed"], [stop EXCEPT !.st = "failed"]}
      BY <2>5 DEF StopSend, StopFails
    <3>2. stop'.id = stop.id /\ (stop'.st = "pending" => stop.st = "pending")
      BY <1>0, <3>1
    <3> QED BY <1>0, <2>5, <3>2 DEF StopSend, StopFails
  <2> QED BY <1>10, <2>1, <2>2, <2>3, <2>4, <2>5 DEF Stopping
<1>11. CASE Restarting
  BY <1>1, <1>11 DEF Restarting, RestartCli, Restart, Load
<1>12. CASE UNCHANGED vars
  BY <1>1, <1>12 DEF vars
<1> QED BY <1>4, <1>5, <1>6, <1>7, <1>8, <1>10, <1>11, <1>12 DEF Next

\* A removed row's uuid is recorded when a line was seen to have run.
LEMMA SettledMoves ==
  ASSUME IInv, RanShown, Single(queue), [Next]_vars, NEW m \in Messages
  PROVE  \/ settled'[m] = settled[m]
         \/ /\ settled'[m] # NoUuid
            /\ \E r \in queue : r.uuid = settled'[m]
            /\ \E u : Done(u)
<1> DEFINE Goal == \/ settled'[m] = settled[m]
                   \/ /\ settled'[m] # NoUuid
                      /\ \E r \in queue : r.uuid = settled'[m]
                      /\ \E u : Done(u)
<1> USE DEF queueFile
<1>1. ASSUME settled' = settled PROVE Goal
  BY <1>1
<1>2. ASSUME NEW ids, ReleaseRan(ids), NEW u, Done(u) PROVE Goal
  <2> DEFINE gone == {r \in queue : r.id \in ids}
  <2>1. settled'[m] = IF \E r \in gone : r.id = m /\ r.uuid # NoUuid
                        THEN (CHOOSE r \in gone : r.id = m).uuid ELSE settled[m]
    BY <1>2 DEF ReleaseRan
  <2>2. CASE ~\E r \in gone : r.id = m /\ r.uuid # NoUuid
    BY <2>1, <2>2
  <2>3. CASE \E r \in gone : r.id = m /\ r.uuid # NoUuid
    <3>1. PICK r \in gone : r.id = m /\ r.uuid # NoUuid
      BY <2>3
    <3>2. (CHOOSE x \in gone : x.id = m) = r
      BY <3>1 DEF Single
    <3> QED BY <1>2, <2>1, <3>1, <3>2
  <2> QED BY <2>2, <2>3
<1>4. CASE Intake
  BY <1>1, <1>4 DEF Intake, Store, Revive, ParkStale, Arrive, Relay, Retry, Delete, Withdraw
<1>5. ASSUME NEW a \in {"next", "mid"}, DeliverLive(a) PROVE Goal
  BY <1>1, <1>5 DEF DeliverLive, Begin, Mark, Register, SettleRefusedStopped,
                    SettleRefusedEnded, SettleRefusedGone
<1>6. ASSUME NEW a \in Attempts, Deliver(a) PROVE Goal
  <2>1. CASE SettleRan(a)
    BY <1>2, <2>1 DEF SettleRan, RanShown, Done
  <2> QED BY <1>1, <1>6, <2>1
    DEF Deliver, Send, LoseAnswer, SettleWritten, SettleTaking, SettleUnanswered,
        SettleCancelled, SettleSuperseded, SettleUnknown
<1>7. CASE Resume
  BY <1>1, <1>7 DEF Resume, Attach, NoSession, SpawnStart, SpawnFails, SpawnRefused,
                    SettleSpawnDead, ReadHold, DropHold, RecoveryEnds
<1>8. CASE Cli
  BY <1>1, <1>8 DEF Cli, Take, AnswerLines, Die
<1>9. CASE Frames
  <2>1. CASE ReadAnswer
    <3>1. PICK l \in untaken \cup answering : Shows(l.uuid, Ran) /\ ReleaseRan(l.ids)
      BY <2>1 DEF ReadAnswer, Shows, Ran
    <3> QED BY <1>2, <3>1 DEF Done
  <2> QED BY <1>1, <1>9, <2>1 DEF Frames, ReadStart, ReadCancelled, SeeExit
<1>10. CASE Stopping
  BY <1>1, <1>10 DEF Stopping, Interrupt, StopAsk, StopPeek, StopPark, StopSend, StopFails
<1>11. CASE Restarting
  BY <1>1, <1>11 DEF Restarting, RestartCli, Restart, Load
<1>12. CASE UNCHANGED vars
  BY <1>1, <1>12 DEF vars
<1> QED BY <1>4, <1>5, <1>6, <1>7, <1>8, <1>9, <1>10, <1>11, <1>12 DEF Next

-----------------------------------------------------------------------------
(* What goes out, and under which uuid *)

\* The uuids are uuids.
LEMMA KnownTypes ==
  ASSUME IInv
  PROVE  /\ Known \subseteq Uuid
         /\ \A u \in Uuid : u.n \in Nat
         /\ InPlay \subseteq Row /\ hold.rows \subseteq Row
         /\ \A r \in InPlay \cup hold.rows : r.uuid \in Uuid
<1>1. InPlay \subseteq Row /\ hold.rows \subseteq Row
  BY DEF IInv, TypeOK, InPlay, Attempt
<1>2. \A r \in InPlay \cup hold.rows : r.uuid \in Uuid
  BY <1>1 DEF Row
<1>3. Out \subseteq Uuid
  BY <1>2 DEF Out, IInv, TypeOK
<1>4. HeldUuids \subseteq Uuid /\ WireUuids \subseteq Uuid
  BY <1>2 DEF HeldUuids, WireUuids, IInv, TypeOK, WireLine
<1> QED BY <1>1, <1>2, <1>3, <1>4 DEF Known, Uuid

\* The uuid of an attempt's line is that of its row, which may still go out.
LEMMA BatchUuid ==
  ASSUME OneEach, BatchRows, NEW a \in Attempts
  PROVE  /\ \A r \in att[a].batch : r.uuid = LineUuid(a) /\ r \in InPlay /\ r.uuid \in Out
                                    /\ r = Earliest(att[a].batch)
         /\ Past(a) => LineUuid(a) \in Out /\ \E r \in att[a].batch : r.uuid = LineUuid(a)
<1>1. ASSUME NEW r \in att[a].batch
      PROVE  r.uuid = LineUuid(a) /\ r \in InPlay /\ r.uuid \in Out /\ r = Earliest(att[a].batch)
  <2>1. Earliest(att[a].batch) = r
    BY OneRow DEF OneEach
  <2> QED BY <2>1 DEF LineUuid, InPlay, Out, BatchRows
<1> QED BY <1>1 DEF Past

\* Where something waits to go out.
LEMMA OutParts ==
  ASSUME NEW u
  PROVE  u \in Out <=> /\ u # NoUuid
                       /\ \/ \E r \in queue : r.uuid = u
                          \/ \E r \in stopper.peek : r.uuid = u
                          \/ \E a \in Attempts : \E r \in att[a].batch : r.uuid = u
                          \/ \E m \in Messages : settled[m] = u
                          \/ \E e \in arriving : e.uuid = u
BY DEF Out, InPlay

\* What ran keeps having run.
LEMMA DoneStays ==
  ASSUME IInv, [Next]_vars, NEW u, Done(u)
  PROVE  \E x \in wire' : x.uuid = u /\ x.st \in Ran
<1>1. PICK v \in wire : v.uuid = u /\ v.st \in Ran
  BY DEF Done, Shows
<1> QED BY <1>1, TookStays DEF Ran, Took

\* A uuid is given up when a process dies with it.
LEMMA GivenUpMoves ==
  ASSUME IInv, [Next]_vars, NEW u, GivenUp(u)'
  PROVE  GivenUp(u) \/ (alive /\ ~alive')
<1>1. PICK x \in wire' : x.uuid = u /\ x.st = "started" /\ ~(alive' /\ x.pid = proc')
  BY DEF GivenUp, Live
<1>2. CASE ~Take /\ ~AnswerLines /\ ~Interrupt
  <2>1. QuietWire
    BY <1>2, WireSteps
  <2>2. x \in wire
    BY <1>1, <2>1 DEF QuietWire
  <2> QED BY <1>1, <2>1, <2>2 DEF QuietWire, GivenUp, Live
<1>3. CASE Take
  <2>1. PICK w \in wire, y \in WireLine :
           Live(w) /\ wire' = (wire \ {w}) \cup {y} /\ y.pid = w.pid
    BY <1>3, TakeSteps
  <2>2. alive' = alive /\ proc' = proc
    BY <1>3 DEF Take
  <2> QED BY <1>1, <2>1, <2>2 DEF GivenUp, Live
<1>4. CASE AnswerLines \/ Interrupt
  <2>1. alive' = alive /\ proc' = proc
    BY <1>4 DEF AnswerLines, Interrupt
  <2>2. PICK st \in {"answered", "stopped"} :
                \/ x \in wire /\ (x.st = "started" => ~Live(x))
                \/ \E w \in wire : Live(w) /\ w.pid = x.pid /\ x.st = "cancelled"
                \/ \E w \in wire : Live(w) /\ w.st = "started" /\ x = [w EXCEPT !.st = st]
    BY <1>4, EndSteps
  <2>3. \A w \in wire : [w EXCEPT !.st = st].st = st
    BY DEF IInv, TypeOK, WireLine
  <2>4. x \in wire
    BY <1>1, <2>2, <2>3
  <2> QED BY <1>1, <2>1, <2>4 DEF GivenUp, Live
<1> QED BY <1>2, <1>3, <1>4

\* An enqueue in progress carries the uuid its message ran under.
LEMMA ArrivingMoves ==
  ASSUME IInv, [Next]_vars, NEW e \in arriving'
  PROVE  e \in arriving \/ e.uuid = NoUuid \/ \E m \in Messages : e.uuid = settled[m]
<1> USE DEF history
<1>4. CASE Intake
  BY <1>4 DEF Intake, Store, Revive, ParkStale, Arrive, Relay, Retry, Delete, Withdraw
<1>5. CASE \E a \in {"next", "mid"} : DeliverLive(a)
  BY <1>5 DEF DeliverLive, Begin, Mark, Register, SettleRefusedStopped, SettleRefusedEnded,
              SettleRefusedGone
<1>6. CASE \E a \in Attempts : Deliver(a)
  BY <1>6
    DEF Deliver, Send, LoseAnswer, SettleWritten, SettleTaking, SettleRan, SettleUnanswered,
        SettleCancelled, SettleSuperseded, SettleUnknown
<1>7. CASE Resume
  BY <1>7 DEF Resume, Attach, NoSession, SpawnStart, SpawnFails, SpawnRefused,
              SettleSpawnDead, ReadHold, DropHold, RecoveryEnds
<1>8. CASE Cli \/ Frames
  BY <1>8 DEF Cli, Take, AnswerLines, Die, Frames, ReadStart, ReadAnswer, ReadCancelled, SeeExit
<1>10. CASE Stopping
  BY <1>10 DEF Stopping, Interrupt, StopAsk, StopPeek, StopPark, StopSend, StopFails
<1>11. CASE Restarting
  BY <1>11 DEF Restarting, RestartCli, Restart, Load
<1>12. CASE UNCHANGED vars
  BY <1>12 DEF vars
<1> QED BY <1>4, <1>5, <1>6, <1>7, <1>8, <1>10, <1>11, <1>12 DEF Next

\* A copy of the row is of the queue, or was there.
LEMMA InPlayMoves ==
  ASSUME IInv, [Next]_vars, NEW x \in InPlay'
  PROVE  x \in queue' \/ x \in InPlay
<1>1. ASSUME x \in stopper'.peek PROVE x \in InPlay
  <2>1. AtEase.peek = {}
    BY DEF AtEase
  <2> QED BY <1>1, <2>1, StopMoves DEF InPlay
<1>2. ASSUME NEW a \in Attempts, x \in att'[a].batch PROVE x \in queue' \/ x \in InPlay
  <2>1. Moves(a)
    BY AttemptMoves
  <2>2. Idle.batch = {}
    BY DEF Idle
  <2>3. CASE att'[a].batch = att[a].batch
    BY <1>2, <2>3 DEF InPlay
  <2>4. CASE Mark(a) /\ att'[a].batch = MarkedBatch(queue, att[a].fence)
    BY <1>2, <2>4 DEF Mark, MarkProcessing
  <2>5. CASE Resumes /\ a = "spawn"
    BY <1>2, <2>5 DEF Resumes, InPlay, Attempts
  <2> QED BY <1>2, <2>1, <2>2, <2>3, <2>4, <2>5 DEF Moves, Same, Carries
<1>3. x \in queue' \/ x \in stopper'.peek \/ \E a \in Attempts : x \in att'[a].batch
  BY DEF InPlay
<1> QED BY <1>1, <1>2, <1>3

\* A uuid that may go out might before, or it is the row's first, or new, or
\* comes from a hold.
LEMMA OutMoves ==
  ASSUME IInv, Lone, OneEach, BatchRows, StopperWaits, Arrivals, RanShown, [Next]_vars,
         NEW u \in Out'
  PROVE  \/ u \in Out
         \/ \E x \in queue' : JustMarked(x) /\ x.uuid = u /\ u.n = 0
                              /\ \E r \in queue : r.uuid = NoUuid /\ Waits(r)
         \/ \E x \in queue' : Renewed(x) /\ x.uuid = u
         \/ /\ DropHold /\ queue = {} /\ u \in HeldUuids
            /\ \E x \in queue' : x.uuid = u
<1> DEFINE Goal == \/ u \in Out
                   \/ \E x \in queue' : JustMarked(x) /\ x.uuid = u /\ u.n = 0
                                        /\ \E r \in queue : r.uuid = NoUuid /\ Waits(r)
                   \/ \E x \in queue' : Renewed(x) /\ x.uuid = u
                   \/ /\ DropHold /\ queue = {} /\ u \in HeldUuids
                      /\ \E x \in queue' : x.uuid = u
<1>0. u # NoUuid
  BY DEF Out
<1>1. ASSUME NEW r \in InPlay, r.uuid = u PROVE u \in Out
  BY <1>0, <1>1 DEF Out
<1>2. \A a \in Attempts : \A r \in att[a].batch : r \in InPlay
  BY DEF InPlay
<1>3. ASSUME NEW x \in queue', x.uuid = u PROVE Goal
  <2>1. Origin(x)
    BY QueueMoves
  <2>2. ASSUME NEW r \in queue, Still(x, r) PROVE Goal
    BY <1>1, <1>3, <2>2 DEF Still, InPlay
  <2>3. CASE JustMarked(x)
    <3>1. PICK r \in queue : /\ r.status = "pending"
                             /\ x.uuid = r.uuid \/ (r.uuid = NoUuid /\ x.uuid.n = 0)
      BY <2>3 DEF JustMarked, MarkedFrom
    <3>2. Waits(r) /\ r \in InPlay
      BY <3>1 DEF Waits, InPlay
    <3> QED BY <1>1, <1>3, <2>3, <3>1, <3>2
  <2>4. CASE Renewed(x)
    BY <1>3, <2>4
  <2>5. CASE JustStored(x)
    <3>1. PICK e \in arriving : x = NewRow(e)
      BY <2>5 DEF JustStored
    <3>2. x.uuid = e.uuid
      BY <3>1 DEF NewRow
    <3> QED BY <1>0, <1>3, <3>2 DEF Out
  <2>6. CASE queue = {} /\ Reinserted(x)
    <3>1. \/ DropHold /\ \E c \in hold.rows : BackFrom(x, c)
          \/ \E c \in InPlay : BackFrom(x, c)
      BY <1>2, <2>6 DEF Reinserted, InPlay, Attempts
    <3> QED BY <1>1, <1>3, <2>6, <3>1 DEF BackFrom, HeldUuids
  <2> QED BY <2>1, <2>2, <2>3, <2>4, <2>5, <2>6 DEF Origin
<1>4. ASSUME NEW m \in Messages, settled'[m] = u PROVE u \in Out
  <2>1. \/ settled'[m] = settled[m]
        \/ \E r \in queue : r.uuid = settled'[m]
    BY SettledMoves DEF OneEach
  <2> QED BY <1>0, <1>1, <1>4, <2>1 DEF Out, InPlay
<1>5. ASSUME NEW e \in arriving', e.uuid = u PROVE u \in Out
  BY <1>0, <1>5, ArrivingMoves DEF Out
<1>6. \/ \E r \in InPlay' : r.uuid = u
      \/ \E m \in Messages : settled'[m] = u
      \/ \E e \in arriving' : e.uuid = u
  BY DEF Out
<1> QED BY <1>1, <1>3, <1>4, <1>5, <1>6, InPlayMoves

\* A uuid that ran was not given up, and is the only one that may go out.
LEMMA DoneIsLatest ==
  ASSUME IInv, Distinct, LatestGoesOut, OlderGivenUp, Numbers, NEW u, Done(u)
  PROVE  /\ ~GivenUp(u) /\ u \in WireUuids
         /\ \A v \in Out : v = u
<1>1. PICK x \in wire : x.uuid = u /\ x.st \in Ran
  BY DEF Done, Shows
<1>2. ~GivenUp(u)
  BY <1>1 DEF GivenUp, Distinct, Ran
<1>3. u \in WireUuids
  BY <1>1 DEF WireUuids
<1>4. ASSUME NEW v \in Out PROVE v = u
  <2>1. u \in Known /\ v \in Known
    BY <1>3 DEF Known
  <2>2. u.n \in Nat /\ v.n \in Nat
    BY <2>1, KnownTypes
  <2>3. u.n <= v.n
    BY <1>3 DEF LatestGoesOut
  <2>4. ~(u.n < v.n)
    BY <1>2, <2>1 DEF OlderGivenUp
  <2>5. u.n = v.n
    BY <2>2, <2>3, <2>4
  <2> QED BY <2>1, <2>5 DEF Numbers
<1> QED BY <1>2, <1>3, <1>4

-----------------------------------------------------------------------------
(* Who holds what *)

\* An attempt goes out under its own line, one just marked, or one taken over.
LEMMA LineMoves ==
  ASSUME Lone, LoneInv, [Next]_vars, NEW a \in Attempts, att'[a].batch # {}
  PROVE  \/ \E b \in Attempts :
              /\ Past(b) /\ LineUuid(a)' = LineUuid(b)
              /\ att'[a].batch = att[b].batch /\ att'[a].fence = att[b].fence
              /\ b = a \/ (a = "spawn" /\ b = "next" /\ Resumes)
         \/ \E r \in queue, x \in queue' :
              /\ a # "spawn" /\ MarkedFrom(a, r, x) /\ LineUuid(a)' = x.uuid
              /\ att' = [att EXCEPT ![a] = att'[a]]
<1>0. IInv /\ OneEach /\ BatchRows
  BY DEF LoneInv
<1>1. Moves(a)
  BY <1>0, AttemptMoves
<1>2. Idle.batch = {}
  BY DEF Idle
<1>3. CASE att'[a].batch = att[a].batch /\ att'[a].fence = att[a].fence
  BY <1>3 DEF LineUuid, Past
<1>4. CASE a = "spawn" /\ Resumes
  BY <1>4 DEF LineUuid, Past, Resumes, Attempts
<1>5. CASE a # "spawn" /\ Mark(a) /\ att'[a].batch = MarkedBatch(queue, att[a].fence)
  <2>1. PICK r \in queue, x \in Row : MarkedFrom(a, r, x)
    BY <1>0, <1>5, MarkMoves DEF Attempts
  <2>2. x \in queue' /\ Single(att'[a].batch) /\ x \in att'[a].batch
    BY <2>1 DEF MarkedFrom, Single
  <2>3. LineUuid(a)' = x.uuid
    BY <2>2, OneRow DEF LineUuid
  <2>4. att' = [att EXCEPT ![a] = att'[a]]
    BY <1>0, <1>5 DEF Mark, Set, IInv, TypeOK
  <2> QED BY <1>5, <2>1, <2>2, <2>3, <2>4
<1> QED BY <1>1, <1>2, <1>3, <1>4, <1>5 DEF Moves, Same, Carries

\* An answer is due to whom it was, or to whoever just sent.
LEMMA DueMoves ==
  ASSUME IInv, [Next]_vars, NEW a \in Attempts, Due(a)'
  PROVE  \/ Due(a) /\ att'[a].reply = att[a].reply /\ Carries(a)
         \/ Send(a) /\ att'[a].reply = Answer(a) /\ Carries(a)
BY AttemptMoves DEF Moves, Same, Carries, Due, Idle, Resumes

\* A write changes nothing but what is told of it.
LEMMA SendKeeps ==
  ASSUME IInv, NEW a \in Attempts, Send(a)
  PROVE  /\ UNCHANGED <<queue, settled, stop, stopper, arriving, hold, alive, proc>>
         /\ \A b \in Attempts : /\ att'[b].batch = att[b].batch
                                /\ b # a => att'[b] = att[b]
         /\ att'[a].pc = "replied" /\ att'[a].reply = Answer(a) /\ Out' = Out
<1>1. att \in [Attempts -> Attempt] /\ att[a] \in Attempt
  BY DEF IInv, TypeOK
<1>2. att' = [att EXCEPT ![a] = [att[a] EXCEPT !.pc = "replied", !.reply = Answer(a)]]
  BY DEF Send, Set
<1>3. /\ att'[a].pc = "replied" /\ att'[a].reply = Answer(a)
      /\ att'[a].batch = att[a].batch
  BY <1>1, <1>2 DEF Attempt
<1>4. \A b \in Attempts : att'[b].batch = att[b].batch /\ (b # a => att'[b] = att[b])
  BY <1>1, <1>2, <1>3
<1>5. UNCHANGED <<queue, settled, stop, stopper, arriving, hold, alive, proc>>
  BY DEF Send, queueFile, stopState, registry
<1>6. Out' = Out
  BY <1>4, <1>5 DEF Out, InPlay
<1> QED BY <1>3, <1>4, <1>5, <1>6

\* Marks, resumes, peeks and holds copy the one row there is.
LEMMA OneEachStep ==
  ASSUME Lone, LoneInv, [Next]_vars
  PROVE  OneEach'
<1>0. /\ IInv /\ OneEach /\ BatchRows /\ StopperWaits /\ Arrivals
      /\ Single(queue) /\ Single(stopper.peek) /\ Single(hold.rows)
      /\ \A a \in Attempts : Single(att[a].batch)
  BY DEF LoneInv, OneEach
<1>1. Single(queue')
  BY <1>0, QueueMoves
<1>2. Single(stopper'.peek)
  <2>1. Single({r \in queue : r.status # "parked"}) /\ Single({}) /\ AtEase.peek = {}
    BY <1>0 DEF Single, AtEase
  <2> QED BY <1>0, <2>1, StopMoves
<1>3. Single(hold'.rows)
  <2>1. NoHold.rows = {} /\ "spawn" \in Attempts
    BY DEF NoHold, Attempts
  <2> QED BY <1>0, <2>1, HoldMoves DEF Single
<1>4. ASSUME NEW a \in Attempts PROVE Single(att'[a].batch)
  <2>1. CASE att'[a].batch = {}
    BY <2>1 DEF Single
  <2>2. CASE att'[a].batch # {}
    BY <1>0, <2>2, LineMoves DEF MarkedFrom, Single
  <2> QED BY <2>1, <2>2
<1> QED BY <1>1, <1>2, <1>3, <1>4 DEF OneEach

\* A batch is made by Mark, which counts the try and gives the uuid.
LEMMA BatchRowsStep ==
  ASSUME Lone, LoneInv, [Next]_vars
  PROVE  BatchRows'
<1>0. IInv /\ BatchRows /\ TypeOK
  BY DEF LoneInv, IInv
<1>1. \A a \in Attempts : Moves(a)
  BY <1>0, AttemptMoves
<1>2. Idle.batch = {} /\ Idle.pc = "idle" /\ {"spawn", "next"} \subseteq Attempts
  BY DEF Idle, Attempts
<1>3. att'["spawn"].pc # "marked"
  BY <1>0, <1>1, <1>2 DEF Moves, Same, Resumes, BatchRows
<1>4. ASSUME NEW a \in Attempts
      PROVE  /\ att'[a].pc = "idle" => att'[a].batch = {}
             /\ a # "spawn" /\ att'[a].pc = "begun" => att'[a].batch = {}
  BY <1>0, <1>1, <1>2 DEF Moves, Same, Carries, Resumes, BatchRows
<1>5. ASSUME NEW a \in Attempts, NEW x \in att'[a].batch
      PROVE  x.uuid # NoUuid /\ x.status = "processing" /\ x.tries \in 1..2
  <2>1. CASE \E b \in Attempts : att'[a].batch = att[b].batch
    BY <1>0, <2>1 DEF BatchRows
  <2>2. ASSUME NEW r \in queue, NEW y, MarkedFrom(a, r, y)
        PROVE  x.uuid # NoUuid /\ x.status = "processing" /\ x.tries \in 1..2
    BY <1>0, <2>2 DEF MarkedFrom
  <2> QED BY <2>1, <2>2, LineMoves
<1>6. ASSUME NEW x \in hold'.rows
      PROVE  x.uuid # NoUuid /\ x.status = "processing" /\ x.tries \in 1..2
  <2>1. NoHold.rows = {}
    BY DEF NoHold
  <2>2. x \in hold.rows \cup att["spawn"].batch
    BY <1>0, <2>1, HoldMoves
  <2> QED BY <1>0, <1>2, <2>2 DEF BatchRows
<1> QED BY <1>3, <1>4, <1>5, <1>6 DEF BatchRows

\* The coordinator takes up a stop when no answer is on its way.
LEMMA StopperWaitsStep ==
  ASSUME Lone, LoneInv, [Next]_vars
  PROVE  StopperWaits'
<1>0. IInv /\ StopperWaits
  BY DEF LoneInv
<1>1. AtEase.pc = "idle" /\ AtEase.peek = {}
  BY DEF AtEase
<1>2. AnswerDue' => AnswerDue \/ (stopper'.pc = "idle" /\ \E a \in Attempts : Send(a))
  <2>1. AnswerDue = \E a \in Attempts : Due(a)
    BY DEF AnswerDue, Due
  <2>2. AnswerDue' = \E a \in Attempts : Due(a)'
    BY DEF AnswerDue, Due
  <2>3. \A a \in Attempts : Due(a)' => Due(a) \/ (Send(a) /\ stopper' = stopper)
    BY <1>0, DueMoves, SendKeeps
  <2> QED BY <2>1, <2>2, <2>3 DEF Send
<1>3. CASE StopAsk
  <2>1. stop'.st = "pending" /\ ~AnswerDue /\ att' = att
    BY <1>3 DEF StopAsk
  <2>2. ~AnswerDue'
    BY <2>1 DEF AnswerDue
  <2>3. stopper' = [AtEase EXCEPT !.pc = "peek"]
    BY <1>3 DEF StopAsk
  <2>4. stopper'.peek = {}
    BY <2>3 DEF AtEase
  <2> QED BY <2>1, <2>2, <2>4 DEF StopperWaits
<1>4. CASE ~StopAsk
  <2>1. \/ stopper' = stopper /\ (stopper.pc # "idle" => stop' = stop)
        \/ stopper' = AtEase
        \/ StopPeek /\ stopper'.pc = "park" /\ stop' = stop
                 /\ stopper'.peek = {r \in queue : r.status # "parked"}
        \/ StopPark /\ stopper'.pc = "send" /\ stopper'.peek = {} /\ stop' = stop
    BY <1>0, <1>4, StopMoves
  <2>2. StopPeek \/ StopPark => stopper.pc # "idle"
    BY DEF StopPeek, StopPark
  <2>3. stopper'.pc # "idle" => stopper.pc # "idle" /\ stop' = stop
    BY <1>1, <2>1, <2>2
  <2>4. stopper'.pc # "idle" => stop'.st = "pending" /\ ~AnswerDue'
    BY <1>0, <1>2, <2>3 DEF StopperWaits
  <2>5. stopper'.pc # "park" => stopper'.peek = {}
    BY <1>0, <1>1, <2>1 DEF StopperWaits
  <2>6. \A r \in stopper'.peek : r.status # "parked"
    BY <1>0, <1>1, <2>1 DEF StopperWaits
  <2> QED BY <2>4, <2>5, <2>6 DEF StopperWaits
<1> QED BY <1>3, <1>4

\* A stop is numbered beyond every fence that was read before it.
LEMMA FencesBehindStep ==
  ASSUME Lone, LoneInv, [Next]_vars
  PROVE  FencesBehind'
<1>0. IInv /\ FencesBehind /\ stop.id \in Nat /\ stop'.id \in Nat /\ stop'.id >= stop.id
      /\ (stop'.st = "pending" /\ stop'.id = stop.id => stop.st = "pending")
      /\ \A a \in Attempts : att[a].fence \in Nat
  BY StopMoves DEF LoneInv, IInv, TypeOK, Attempt
<1> SUFFICES ASSUME NEW a \in Attempts, att'[a].pc # "idle"
             PROVE  /\ att'[a].fence <= stop'.id
                    /\ stop'.st = "pending" \/ Replied(a, "superseded")' =>
                         att'[a].fence < stop'.id
  BY DEF FencesBehind
<1>1. Moves(a)
  BY <1>0, AttemptMoves
<1>2. ASSUME NEW b \in Attempts, att[b].pc # "idle", att'[a].fence = att[b].fence,
             Replied(a, "superseded")' => Replied(b, "superseded")
      PROVE  /\ att'[a].fence <= stop'.id
             /\ stop'.st = "pending" \/ Replied(a, "superseded")' => att'[a].fence < stop'.id
  <2>1. /\ att[b].fence <= stop.id
        /\ stop.st = "pending" \/ Replied(b, "superseded") => att[b].fence < stop.id
    BY <1>0, <1>2 DEF FencesBehind
  <2> QED BY <1>0, <1>2, <2>1
<1>3. CASE Same(a)
  BY <1>2, <1>3 DEF Same, Carries, Replied
<1>4. CASE Mark(a) /\ att'[a].pc = "marked" /\ att'[a].fence = att[a].fence
  BY <1>2, <1>4 DEF Mark, Replied
<1>5. CASE (Register(a) \/ (a = "spawn" /\ SpawnStart)) /\ Carries(a) /\ att'[a].pc = "registered"
  BY <1>2, <1>5 DEF Register, SpawnStart, Carries, Replied
<1>6. CASE LoseAnswer(a) /\ Carries(a) /\ att'[a].reply = "unknown"
  BY <1>2, <1>6 DEF LoseAnswer, Carries, Replied
<1>7. CASE Resumes /\ a = "spawn"
  BY <1>2, <1>7 DEF Resumes, Replied, Attempts
<1>8. CASE Begin(a) /\ att'[a].pc = "begun" /\ att'[a].fence = stop.id
  <2>1. stop' = stop /\ stop.st # "pending"
    BY <1>8 DEF Begin, stopState
  <2> QED BY <1>0, <1>8, <2>1 DEF Replied
<1>9. CASE Send(a) /\ Carries(a) /\ att'[a].reply = Answer(a)
  <2>1. stop' = stop /\ att[a].pc # "idle"
    BY <1>0, <1>9, SendKeeps DEF Send
  <2>2. Answer(a) = "superseded" => ~FenceHolds(att[a].fence)
    BY DEF Answer, Verdict
  <2>3. /\ att[a].fence <= stop.id
        /\ stop.st = "pending" => att[a].fence < stop.id
    BY <1>0, <2>1 DEF FencesBehind
  <2> QED BY <1>0, <1>9, <2>1, <2>2, <2>3 DEF FenceHolds, Carries, Replied
<1> QED BY <1>1, <1>3, <1>4, <1>5, <1>6, <1>7, <1>8, <1>9 DEF Moves, Idle

\* A restart leaves no session object and nothing that has one.
LEMMA DetachedStep ==
  ASSUME Lone, LoneInv, [Next]_vars
  PROVE  Detached'
<1>0. IInv /\ Detached
  BY DEF LoneInv
<1>1. \A a \in Attempts : Moves(a)
  BY <1>0, AttemptMoves
<1>2. Idle.pc = "idle" /\ {"spawn", "next", "mid"} = Attempts
  BY DEF Idle, Attempts
<1>3. CASE Restart
  BY <1>2, <1>3 DEF Restart, Detached
<1>4. CASE object'
  BY <1>4 DEF Detached
<1>5. CASE ~object' /\ object' = object
  <2>1. /\ att["mid"].pc = "idle" /\ att["spawn"].pc = "idle"
        /\ att["next"].pc \in {"idle", "begun", "marked"}
        /\ untaken = {} /\ answering = {} /\ hold = NoHold /\ view = 0
        /\ ~Attach /\ ~NoSession
    BY <1>0, <1>5 DEF Detached, Attach, NoSession
  <2>2. ~Resumes /\ ~SpawnStart /\ ~\E a \in Attempts : Send(a) \/ Register(a) \/ SettleTaking(a)
    BY <1>2, <1>5, <2>1 DEF Resumes, SettleRefusedGone, Replied, SpawnStart, Send, Register,
                            SettleTaking
  <2>3. att'["mid"].pc = "idle"
    BY <1>1, <1>2, <1>5, <2>1, <2>2 DEF Moves, Same, Begin, Mark, LoseAnswer
  <2>4. att'["spawn"].pc = "idle"
    BY <1>1, <1>2, <1>5, <2>1, <2>2 DEF Moves, Same, LoseAnswer
  <2>5. att'["next"].pc \in {"idle", "begun", "marked"}
    BY <1>1, <1>2, <1>5, <2>1, <2>2 DEF Moves, Same, LoseAnswer
  <2>6. untaken' = {} /\ answering' = {}
    <3>1. \A l \in untaken' \cup answering' : FALSE
      BY <1>0, <2>1, <2>2, RegistryMoves
    <3> QED BY <3>1
  <2>7. hold' = NoHold
    BY <1>0, <1>2, <2>1, HoldMoves DEF SettleWritten, Replied
  <2>8. view' = 0
    BY <1>0, <2>1, <2>2, ProcessMoves
  <2> QED BY <2>3, <2>4, <2>5, <2>6, <2>7, <2>8 DEF Detached
<1> QED BY <1>0, <1>3, <1>4, <1>5, ProcessMoves

\* Only a delivery after loadQueue begins (EarlySends is false).
LEMMA LoadsFirstStep ==
  ASSUME Lone, LoneInv, [Next]_vars
  PROVE  LoadsFirst'
<1>0. IInv /\ LoadsFirst
  BY DEF LoneInv
<1> SUFFICES ASSUME ~loaded', NEW a \in Attempts PROVE att'[a].pc = "idle"
  BY DEF LoadsFirst
<1>1. Moves(a) /\ Idle.pc = "idle" /\ "next" \in Attempts
  BY <1>0, AttemptMoves DEF Idle, Attempts
<1>2. CASE Restart
  BY <1>1, <1>2 DEF Restart
<1>3. CASE ~loaded
  <2>1. \A b \in Attempts : att[b].pc = "idle"
    BY <1>0, <1>3 DEF LoadsFirst
  <2> QED BY <1>1, <1>3, <2>1 DEF Moves, Same, Begin, Mark, Register, Send, LoseAnswer, SpawnStart,
                                  Resumes, Lone
<1> QED BY <1>0, <1>2, <1>3, ProcessMoves DEF Load

\* A resume begins when there is no process, and none starts but by it.
LEMMA NoProcessStep ==
  ASSUME Lone, LoneInv, [Next]_vars
  PROVE  NoProcess'
<1>0. IInv /\ NoProcess /\ OneResume /\ att \in [Attempts -> Attempt]
      /\ {"spawn", "next"} \subseteq Attempts /\ Idle.pc = "idle"
  BY DEF LoneInv, IInv, TypeOK, Attempts, Idle
<1>1. SpawnStart \/ SpawnFails =>
        att["spawn"].pc = "begun" /\ att'["spawn"].pc # "begun" /\ att'["next"] = att["next"]
  <2>1. SpawnStart => /\ att'["spawn"] = [att["spawn"] EXCEPT !.pc = "registered", !.pid = proc']
                      /\ att'["next"] = att["next"]
    BY <1>0 DEF SpawnStart, Set
  <2>2. [att["spawn"] EXCEPT !.pc = "registered", !.pid = proc'].pc = "registered"
    BY <1>0 DEF Attempt
  <2>3. SpawnFails => att'["spawn"] = Idle /\ att'["next"] = att["next"]
    BY <1>0 DEF SpawnFails, Set
  <2> QED BY <1>0, <2>1, <2>2, <2>3 DEF SpawnStart, SpawnFails
<1>2. ASSUME att'["spawn"].pc = "begun" PROVE ~alive'
  <2>1. Same("spawn") \/ Resumes
    BY <1>0, <1>2, AttemptMoves DEF Moves
  <2>2. CASE Same("spawn")
    BY <1>0, <1>1, <1>2, <2>2, ProcessMoves DEF Same, NoProcess
  <2>3. CASE Resumes
    BY <1>0, <2>3 DEF Resumes, NoSession, SettleRefusedGone, NoProcess, host
  <2> QED BY <2>1, <2>2, <2>3
<1>3. ASSUME Replied("next", "refused")' PROVE ~alive'
  <2>0. Due("next")'
    BY <1>3 DEF Due, Replied
  <2>1. CASE Due("next") /\ att'["next"].reply = att["next"].reply
    <3>1. Replied("next", "refused") /\ att["spawn"].pc = "idle"
      BY <1>0, <1>3, <2>1 DEF Due, Replied, OneResume
    <3>2. ~SpawnStart /\ ~SpawnFails
      BY <1>1, <3>1
    <3> QED BY <1>0, <3>1, <3>2, ProcessMoves DEF NoProcess
  <2>2. CASE Send("next") /\ att'["next"].reply = Answer("next")
    <3>1. Answer("next") = "refused"
      BY <1>3, <2>2 DEF Replied
    <3> QED BY <2>2, <3>1 DEF Send, Answer, Verdict
  <2> QED BY <1>0, <2>0, <2>1, <2>2, DueMoves
<1> QED BY <1>2, <1>3 DEF NoProcess

\* No line is sent while an answer to another is on its way.
LEMMA OneDueStep ==
  ASSUME Lone, LoneInv, [Next]_vars
  PROVE  OneDue'
<1>0. IInv /\ OneDue
  BY DEF LoneInv
<1>1. \A a \in Attempts : Due(a)' => Due(a) \/ Send(a)
  BY <1>0, DueMoves
<1>2. ASSUME NEW a \in Attempts, Send(a), NEW b \in Attempts, Due(b)' PROVE a = b
  <2>1. ~Due(b)
    BY <1>2 DEF Send, AnswerDue, Due
  <2>2. b # a => att'[b] = att[b]
    BY <1>0, <1>2, SendKeeps
  <2> QED BY <1>2, <2>1, <2>2 DEF Due
<1> QED BY <1>0, <1>1, <1>2 DEF OneDue

\* Only Mark has a row delivered, and what puts it back says so.
LEMMA SentRowsStep ==
  ASSUME Lone, LoneInv, [Next]_vars
  PROVE  SentRows'
<1>0. IInv /\ OneEach /\ BatchRows /\ StopperWaits /\ Arrivals /\ SentRows
  BY DEF LoneInv
<1> SUFFICES ASSUME NEW x \in queue', x.status = "processing" PROVE x.tries >= 1 /\ x.uuid # NoUuid
  BY DEF SentRows
<1>1. Origin(x)
  BY <1>0, QueueMoves
<1>2. CASE \E r \in queue : Still(x, r)
  BY <1>0, <1>2 DEF Still, SentRows
<1>3. CASE JustMarked(x)
  BY <1>3 DEF JustMarked, MarkedFrom
<1>4. CASE Renewed(x) \/ JustStored(x) \/ Reinserted(x)
  BY <1>4 DEF Renewed, JustStored, NewRow, Reinserted, Waits
<1> QED BY <1>1, <1>2, <1>3, <1>4 DEF Origin

\* A message that was stored stays stored, and a phone message has a fate then.
LEMMA StoredMoves ==
  ASSUME IInv, [Next]_vars
  PROVE  /\ stored \subseteq stored' /\ (stored' = stored \/ Store)
         /\ \A m \in Phone : fate[m] # "none" => fate'[m] # "none"
<1> DEFINE Goal == /\ stored \subseteq stored' /\ (stored' = stored \/ Store)
                   /\ \A m \in Phone : fate[m] # "none" => fate'[m] # "none"
<1> USE DEF queueFile, history
<1>0. Phone \subseteq Messages /\ fate \in [Messages -> Fate]
  BY MessagesAssumption DEF IInv, TypeOK
<1>1. ASSUME stored' = stored, fate' = fate PROVE Goal
  BY <1>1
<1>2. ASSUME stored' = stored, NEW ids, ReleaseRan(ids) \/ ReleaseCancelled(ids) PROVE Goal
  BY <1>0, <1>2 DEF ReleaseRan, ReleaseCancelled, DeliveredFate
<1>4. CASE Intake
  <2>1. CASE Store
    <3>1. \A m \in Messages : fate'[m] # fate[m] => fate'[m] = "taken"
      BY <1>0, <2>1 DEF Store
    <3> QED BY <1>0, <2>1, <3>1 DEF Store
  <2>2. ASSUME NEW m \in Messages, Delete(m) PROVE Goal
    BY <1>0, <2>2 DEF Delete
  <2>3. ASSUME NEW m \in Messages, Withdraw(m) PROVE Goal
    BY <1>0, <2>3 DEF Withdraw
  <2> QED BY <1>1, <1>4, <2>1, <2>2, <2>3 DEF Intake, Revive, ParkStale, Arrive, Relay, Retry
<1>5. ASSUME NEW a \in {"next", "mid"}, DeliverLive(a) PROVE Goal
  BY <1>1, <1>5 DEF DeliverLive, Begin, Mark, Register, SettleRefusedStopped,
                    SettleRefusedEnded, SettleRefusedGone
<1>6. ASSUME NEW a \in Attempts, Deliver(a) PROVE Goal
  BY <1>1, <1>2, <1>6
    DEF Deliver, Send, LoseAnswer, SettleWritten, SettleTaking, SettleRan, SettleUnanswered,
        SettleCancelled, SettleSuperseded, SettleUnknown
<1>7. CASE Resume
  BY <1>1, <1>7 DEF Resume, Attach, NoSession, SpawnStart, SpawnFails, SpawnRefused,
                    SettleSpawnDead, ReadHold, DropHold, RecoveryEnds
<1>8. CASE Cli
  BY <1>1, <1>8 DEF Cli, Take, AnswerLines, Die
<1>9. CASE Frames
  BY <1>1, <1>2, <1>9 DEF Frames, ReadStart, ReadAnswer, ReadCancelled, SeeExit
<1>10. CASE Stopping
  BY <1>1, <1>10 DEF Stopping, Interrupt, StopAsk, StopPeek, StopPark, StopSend, StopFails
<1>11. CASE Restarting
  BY <1>1, <1>11 DEF Restarting, RestartCli, Restart, Load
<1>12. CASE UNCHANGED vars
  BY <1>1, <1>12 DEF vars
<1> QED BY <1>4, <1>5, <1>6, <1>7, <1>8, <1>9, <1>10, <1>11, <1>12 DEF Next

\* Enqueues come one at a time, under the uuid of a message sent again.
LEMMA EnqueueMoves ==
  ASSUME Lone, IInv, Arrivals, [Next]_vars
  PROVE  \/ arriving' \subseteq arriving
         \/ \E e : \E m \in Messages :
              /\ arriving = {} /\ arriving' = {e} /\ stored' = stored
              /\ e.id = m /\ e.uuid = settled[m] /\ e.kind # "retry"
              /\ e.kind = "web" => m \notin Phone
              /\ m \in Phone => fate[m] = "none"
              /\ m \in stored => settled[m] # NoUuid
<1> DEFINE Goal ==
        \/ arriving' \subseteq arriving
        \/ \E e : \E m \in Messages :
              /\ arriving = {} /\ arriving' = {e} /\ stored' = stored
              /\ e.id = m /\ e.uuid = settled[m] /\ e.kind # "retry"
              /\ e.kind = "web" => m \notin Phone
              /\ m \in Phone => fate[m] = "none"
              /\ m \in stored => settled[m] # NoUuid
<1> USE DEF history
<1>4. CASE Intake
  <2>1. ASSUME NEW m \in Messages, Arrive(m) PROVE Goal
    <3>1. \A e \in arriving : e.id = m
      BY DEF Lone, IInv, TypeOK
    <3>2. arriving = {}
      BY <2>1, <3>1 DEF Arrive
    <3> DEFINE e == [id |-> m, ord |-> used.enq + 1, fence |-> stop.id, kind |-> "web",
                     uuid |-> settled[m]]
    <3>3. arriving' = {e} /\ stored' = stored
      BY <2>1, <3>2 DEF Arrive
    <3>4. m \notin Phone /\ (m \in stored => settled[m] # NoUuid)
      BY <2>1 DEF Arrive
    <3>5. e.id = m /\ e.uuid = settled[m] /\ e.kind = "web"
      OBVIOUS
    <3> HIDE DEF e
    <3> QED BY <3>2, <3>3, <3>4, <3>5
  <2>2. ASSUME NEW m \in Messages, Relay(m) PROVE Goal
    <3>1. \A e \in arriving : e.id = m /\ e.kind \in {"web", "relay", "retry"}
      BY DEF Lone, IInv, TypeOK
    <3>2. arriving = {}
      BY <2>2, <3>1 DEF Relay, InRelay, Arrivals
    <3> DEFINE e == [id |-> m, ord |-> used.enq + 1, fence |-> stop.id, kind |-> "relay",
                     uuid |-> settled[m]]
    <3>3. arriving' = {e} /\ stored' = stored
      BY <2>2, <3>2 DEF Relay
    <3>4. m \notin stored /\ fate[m] = "none"
      BY <2>2 DEF Relay, Arrivals
    <3>5. e.id = m /\ e.uuid = settled[m] /\ e.kind = "relay"
      OBVIOUS
    <3> HIDE DEF e
    <3> QED BY <3>2, <3>3, <3>4, <3>5
  <2>3. ASSUME NEW m \in Messages PROVE ~Retry(m)
    BY DEF Retry, Lone, IInv, TypeOK
  <2> QED BY <1>4, <2>1, <2>2, <2>3 DEF Intake, Store, Revive, ParkStale, Delete, Withdraw
<1>5. CASE \E a \in {"next", "mid"} : DeliverLive(a)
  BY <1>5 DEF DeliverLive, Begin, Mark, Register, SettleRefusedStopped, SettleRefusedEnded,
              SettleRefusedGone
<1>6. CASE \E a \in Attempts : Deliver(a)
  BY <1>6
    DEF Deliver, Send, LoseAnswer, SettleWritten, SettleTaking, SettleRan, SettleUnanswered,
        SettleCancelled, SettleSuperseded, SettleUnknown
<1>7. CASE Resume
  BY <1>7 DEF Resume, Attach, NoSession, SpawnStart, SpawnFails, SpawnRefused,
              SettleSpawnDead, ReadHold, DropHold, RecoveryEnds
<1>8. CASE Cli \/ Frames
  BY <1>8 DEF Cli, Take, AnswerLines, Die, Frames, ReadStart, ReadAnswer, ReadCancelled, SeeExit
<1>10. CASE Stopping
  BY <1>10 DEF Stopping, Interrupt, StopAsk, StopPeek, StopPark, StopSend, StopFails
<1>11. CASE Restarting
  BY <1>11 DEF Restarting, RestartCli, Restart, Load
<1>12. CASE UNCHANGED vars
  BY <1>12 DEF vars
<1> QED BY <1>4, <1>5, <1>6, <1>7, <1>8, <1>10, <1>11, <1>12 DEF Next

\* A message is enqueued again only when its row left because it ran.
LEMMA ArrivalsStep ==
  ASSUME Lone, LoneInv, [Next]_vars
  PROVE  Arrivals'
<1>0. IInv /\ Arrivals /\ RanShown /\ Single(queue) /\ SettledRan
      /\ stored \subseteq Messages /\ stored' \subseteq Messages
  BY IInvStep DEF LoneInv, OneEach, IInv, TypeOK
<1>1. \A m \in Phone : m \in stored' => fate'[m] # "none"
  <2>1. CASE Store
    <3>1. PICK e \in arriving :
            /\ e.kind # "retry"
            /\ fate' = IF e.kind = "relay" THEN [fate EXCEPT ![e.id] = "taken"] ELSE fate
            /\ stored' = stored \cup {e.id}
      BY <2>1 DEF Store
    <3>2. e.id \in Messages /\ e.kind \in {"web", "relay", "retry"}
          /\ fate \in [Messages -> Fate]
      BY <1>0 DEF IInv, TypeOK
    <3>3. e.id \in Phone => e.kind = "relay"
      BY <1>0, <3>1, <3>2 DEF Arrivals
    <3>4. \A m \in Phone : m \in Messages
      BY MessagesAssumption
    <3> QED BY <1>0, <3>1, <3>2, <3>3, <3>4 DEF Arrivals
  <2> QED BY <1>0, <2>1, StoredMoves DEF Arrivals
<1>2. ASSUME NEW u, Done(u) PROVE Done(u)'
  BY <1>0, <1>2, DoneStays DEF Done, Shows
<1>3. \A m \in Messages : settled[m] # NoUuid => settled'[m] # NoUuid
  BY <1>0, SettledMoves
<1>4. CASE arriving' \subseteq arriving
  <2>1. ASSUME NEW e \in arriving', e.uuid = NoUuid PROVE stored' = {}
    <3>1. ~Store
      <4>1. ASSUME NEW w \in arriving, arriving' = arriving \ {w} PROVE FALSE
        BY <1>0, <1>4, <2>1, <4>1 DEF Arrivals, Single
      <4> QED BY <4>1 DEF Store
    <3> QED BY <1>0, <1>4, <2>1, <3>1, StoredMoves DEF Arrivals
  <2>2. ASSUME NEW e \in arriving', e.uuid # NoUuid PROVE Done(e.uuid)' /\ settled'[e.id] # NoUuid
    <3>1. e \in arriving /\ e.id \in Messages
      BY <1>0, <1>4 DEF IInv, TypeOK
    <3>2. Done(e.uuid) /\ settled[e.id] # NoUuid
      BY <1>0, <2>2, <3>1 DEF Arrivals
    <3> QED BY <1>2, <1>3, <3>1, <3>2
  <2>3. /\ Single(arriving')
        /\ \A e \in arriving' : e.kind # "retry" /\ (e.kind = "web" => e.id \notin Phone)
    BY <1>0, <1>4 DEF Arrivals, Single
  <2> QED BY <1>1, <2>1, <2>2, <2>3 DEF Arrivals
<1>5. ASSUME NEW m \in Messages, NEW e,
             arriving' = {e}, stored' = stored,
             e.id = m, e.uuid = settled[m], e.kind # "retry", e.kind = "web" => m \notin Phone,
             m \in stored => settled[m] # NoUuid
      PROVE  Arrivals'
  <2>1. e.uuid = NoUuid => stored' = {}
    BY <1>0, <1>5 DEF Lone
  <2>2. e.uuid # NoUuid => Done(e.uuid)' /\ settled'[e.id] # NoUuid
    BY <1>0, <1>2, <1>3, <1>5 DEF SettledRan
  <2> QED BY <1>1, <1>5, <2>1, <2>2 DEF Arrivals, Single
<1> QED BY <1>0, <1>4, <1>5, EnqueueMoves

\* Under an ended uuid nothing waits.
LEMMA DoneAlone ==
  ASSUME LoneInv, NEW u, Done(u)
  PROVE  /\ ~GivenUp(u) /\ ~(u \in Out /\ Green(u)) /\ u \in WireUuids
         /\ \A v \in Out : v = u
BY DoneIsLatest DEF LoneInv, Unwritten

\* What a removed row or an enqueue brings has run.
LEMMA BroughtDone ==
  ASSUME LoneInv, NEW u
  PROVE  /\ \A m \in Messages : settled[m] = u /\ u # NoUuid => Done(u)
         /\ \A e \in arriving : e.uuid = u /\ u # NoUuid => Done(u)
BY DEF LoneInv, SettledRan, Arrivals

\* A row leaves under its uuid on the word that this uuid ran.
LEMMA SettledRanStep ==
  ASSUME Lone, LoneInv, [Next]_vars
  PROVE  SettledRan'
<1>0. IInv /\ RanShown /\ Single(queue) /\ SettledRan
  BY DEF LoneInv, OneEach
<1> SUFFICES ASSUME NEW m \in Messages, settled'[m] # NoUuid PROVE Done(settled[m])'
  BY DEF SettledRan
<1>1. Done(settled'[m])
  <2>1. CASE settled'[m] = settled[m]
    BY <1>0, <2>1 DEF SettledRan
  <2>2. ASSUME NEW r \in queue, r.uuid = settled'[m], NEW u, Done(u) PROVE Done(settled'[m])
    <3>1. r.uuid \in Out
      BY <2>2 DEF Out, InPlay
    <3>2. r.uuid = u
      BY <2>2, <3>1, DoneAlone
    <3> QED BY <2>2, <3>2
  <2> QED BY <1>0, <2>1, <2>2, SettledMoves
<1> QED BY <1>0, <1>1, DoneStays DEF Done, Shows

\* While nothing has left the queue, nothing does but a line just marked.
LEMMA NothingStays ==
  ASSUME Lone, LoneInv, Nothing, [Next]_vars, \A x \in queue' : ~JustMarked(x)
  PROVE  Nothing'
<1>0. /\ IInv /\ OneEach /\ BatchRows /\ StopperWaits /\ Arrivals /\ RanShown
      /\ "spawn" \in Attempts
  BY DEF LoneInv, Attempts
<1>1. ASSUME NEW a \in Attempts
      PROVE  /\ att[a].batch = {} /\ att[a].pc \in {"idle", "begun"}
             /\ a = "spawn" => att[a].pc = "idle"
             /\ ~Send(a) /\ ~SettleUnanswered(a) /\ ~Register(a) /\ ~SettleTaking(a)
             /\ ~SettleWritten(a)
  <2>1. att[a].batch = {} /\ att[a].pc \in {"idle", "begun", "marked", "registered", "replied"}
    BY <1>0 DEF Nothing, IInv, TypeOK, Attempt
  <2>2. att[a].pc \in {"idle", "begun"} /\ (a = "spawn" => att[a].pc = "idle")
    BY <1>0, <2>1 DEF IInv, AttemptsHold
  <2> QED BY <2>1, <2>2 DEF Send, SettleUnanswered, Register, SettleTaking, SettleWritten, Replied
<1>2. hold = NoHold /\ untaken = {} /\ answering = {} /\ ~alive /\ wire = {} /\ Out = {}
  BY DEF Nothing
<1>3. Out' = {}
  <2>1. ASSUME NEW u \in Out' PROVE FALSE
    <3>1. ~DropHold /\ \A x \in queue' : ~Renewed(x)
      BY <1>1, <1>2 DEF DropHold, Renewed
    <3> QED BY <1>0, <1>2, <2>1, <3>1, OutMoves
  <2> QED BY <2>1
<1>4. wire' = {}
  BY <1>0, <1>1, <1>2, WireMoves
<1>5. hold' = NoHold
  BY <1>0, <1>1, <1>2, HoldMoves
<1>6. untaken' = {} /\ answering' = {}
  <2>1. \A l \in untaken' \cup answering' : FALSE
    BY <1>0, <1>1, <1>2, RegistryMoves
  <2> QED BY <2>1
<1>7. ~alive'
  BY <1>0, <1>1, <1>2, ProcessMoves DEF SpawnStart, SpawnFails
<1>8. ASSUME NEW a \in Attempts PROVE att'[a].batch = {}
  BY <1>0, <1>1, LineMoves DEF JustMarked, Past, MarkedFrom, Attempts
<1> QED BY <1>3, <1>4, <1>5, <1>6, <1>7, <1>8 DEF Nothing

\* Nothing leaves the queue but by a mark, which gives the row its uuid.
LEMMA BlankStartStep ==
  ASSUME Lone, LoneInv, [Next]_vars
  PROVE  BlankStart'
<1>0. /\ IInv /\ OneEach /\ BatchRows /\ StopperWaits /\ Arrivals /\ BlankStart
      /\ "spawn" \in Attempts
  BY DEF LoneInv, Attempts
<1>1. \A x \in queue' : Origin(x)
  BY <1>0, QueueMoves
<1>2. ASSUME NEW x, JustMarked(x) PROVE queue' = {x} /\ x.uuid # NoUuid /\ queue # {}
  BY <1>2 DEF JustMarked, MarkedFrom
<1>3. ASSUME stored' = {} PROVE queue' = {} /\ stopper'.peek = {} /\ Nothing'
  <2>1. stored = {} /\ ~Store
    BY <1>0, <1>3, StoredMoves DEF Store
  <2>2. queue = {} /\ stopper.peek = {} /\ Nothing
    BY <1>0, <2>1 DEF BlankStart
  <2>3. queue' = {}
    <3>1. ASSUME NEW x \in queue' PROVE FALSE
      <4>1. Reinserted(x)
        BY <1>1, <2>1, <2>2, <3>1 DEF Origin, JustMarked, Renewed, JustStored
      <4>2. hold.rows = {} /\ \A a \in Attempts : att[a].batch = {}
        BY <2>2 DEF Nothing, NoHold
      <4> QED BY <1>0, <2>2, <4>1, <4>2 DEF Reinserted
    <3> QED BY <3>1
  <2>4. stopper'.peek = {}
    BY <1>0, <2>2, StopMoves DEF AtEase
  <2> QED BY <2>2, <2>3, <2>4, NothingStays
<1>4. ASSUME NEW x \in queue', x.uuid = NoUuid, Waits(x) PROVE Nothing'
  <2>1. \A y \in queue' : ~JustMarked(y)
    BY <1>2, <1>4
  <2>2. Nothing
    <3>1. CASE \E r \in queue : Still(x, r)
      BY <1>0, <1>4, <3>1 DEF Still, BlankStart
    <3>2. CASE Renewed(x)
      BY <1>4, <3>2 DEF Renewed, FreshUuid, NoUuid
    <3>3. CASE JustStored(x)
      <4>1. PICK e \in arriving : x = NewRow(e)
        BY <3>3 DEF JustStored
      <4>2. e.uuid = NoUuid
        BY <1>4, <4>1 DEF NewRow
      <4> QED BY <1>0, <4>2 DEF Arrivals, BlankStart
    <3>4. CASE Reinserted(x)
      BY <1>0, <1>4, <3>4 DEF Reinserted, BackFrom, BatchRows
    <3> QED BY <1>1, <2>1, <3>1, <3>2, <3>3, <3>4 DEF Origin
  <2> QED BY <2>1, <2>2, NothingStays
<1> QED BY <1>3, <1>4 DEF BlankStart

\* Only a row enqueued again gets another fence, after the message ran.
LEMMA OneFenceStep ==
  ASSUME Lone, LoneInv, [Next]_vars
  PROVE  OneFence'
<1>0. /\ IInv /\ OneEach /\ BatchRows /\ StopperWaits /\ Arrivals /\ RanShown /\ OneFence
      /\ BlankStart /\ {"spawn", "next"} \subseteq Attempts
  BY DEF LoneInv, Attempts
<1> SUFFICES ASSUME Unsettled', NEW x \in InPlay' \cup hold'.rows, NEW y \in InPlay' \cup hold'.rows
             PROVE  x.fence = y.fence
  BY DEF OneFence
<1>1. Unsettled
  BY <1>0, SettledMoves DEF Unsettled, OneEach
<1> DEFINE Old(r) == \E s \in InPlay \cup hold.rows : r.fence = s.fence
<1>2. ASSUME NEW r \in queue' PROVE Old(r) \/ JustStored(r)
  <2>1. Origin(r)
    BY <1>0, QueueMoves
  <2>2. ASSUME NEW s \in queue, r.fence = s.fence PROVE Old(r)
    BY <2>2 DEF InPlay
  <2>3. CASE \E s \in queue : Still(r, s)
    BY <2>2, <2>3 DEF Still
  <2>4. CASE JustMarked(r) \/ Renewed(r)
    BY <2>2, <2>4 DEF JustMarked, MarkedFrom, Renewed
  <2>5. CASE Reinserted(r)
    BY <1>0, <2>5 DEF Reinserted, BackFrom, InPlay
  <2> QED BY <2>1, <2>3, <2>4, <2>5 DEF Origin
<1>3. ASSUME NEW r \in InPlay' \cup hold'.rows PROVE r \in InPlay \cup hold.rows \cup queue'
  <2>1. hold'.rows \subseteq hold.rows \cup InPlay
    <3>1. NoHold.rows = {}
      BY DEF NoHold
    <3> QED BY <1>0, <3>1, HoldMoves DEF InPlay
  <2> QED BY <1>0, <2>1, InPlayMoves
<1>4. CASE \E r \in queue' : JustStored(r)
  <2>1. PICK e \in arriving : TRUE
    BY <1>4 DEF JustStored
  <2>2. stored = {}
    BY <1>0, <1>1, <2>1 DEF Arrivals, Unsettled, IInv, TypeOK
  <2>3. InPlay \cup hold.rows = {}
    BY <1>0, <2>2 DEF BlankStart, Nothing, InPlay, NoHold
  <2> QED BY <1>0, <1>3, <2>3, QueueMoves DEF Single
<1>5. CASE ~\E r \in queue' : JustStored(r)
  <2>1. Old(x) /\ Old(y)
    BY <1>2, <1>3, <1>5
  <2> QED BY <1>0, <1>1, <2>1 DEF OneFence
<1> QED BY <1>4, <1>5

\* A delivery with no session object marked all there is.
LEMMA DetachedGoingStep ==
  ASSUME Lone, LoneInv, [Next]_vars
  PROVE  DetachedGoing'
<1>0. /\ IInv /\ OneEach /\ BatchRows /\ StopperWaits /\ Arrivals /\ RanShown /\ DetachedGoing
      /\ BlankStart /\ Detached /\ LoadsFirst /\ Attempts = {"spawn", "next", "mid"}
  BY DEF LoneInv, Attempts
<1> SUFFICES ASSUME ~object', Past("next")', Unsettled' PROVE AllGoing'
  BY DEF DetachedGoing
<1>1. Unsettled
  BY <1>0, SettledMoves DEF Unsettled, OneEach
<1>2. ~Restart
  BY DEF Restart, Idle, Past, Attempts
<1>3. ~object
  BY <1>0, <1>2, ProcessMoves
<1>4. ASSUME NEW r, NEW x, MarkedFrom("next", r, x) PROVE AllGoing'
  BY <1>4 DEF MarkedFrom, AllGoing
<1>5. CASE Past("next")
  <2>1. AllGoing
    BY <1>0, <1>1, <1>3, <1>5 DEF DetachedGoing
  <2>2. ~Store
    <3>1. ASSUME NEW e \in arriving PROVE FALSE
      <4>1. stored = {}
        BY <1>0, <1>1, <3>1 DEF Arrivals, Unsettled, IInv, TypeOK
      <4> QED BY <1>0, <1>5, <4>1 DEF BlankStart, Nothing, Past
    <3> QED BY <3>1 DEF Store
  <2>3. /\ att["mid"].pc = "idle" /\ att["spawn"].pc = "idle"
        /\ att["next"].pc \in {"idle", "begun", "marked"} /\ hold = NoHold /\ view = 0
    BY <1>0, <1>3 DEF Detached
  <2>4. \A a \in Attempts : att[a].pc # "replied" /\ (a = "spawn" => att[a].pc = "idle")
    BY <1>0, <2>3
  <2>5. loaded
    BY <1>0, <1>5 DEF LoadsFirst, BatchRows, Past
  <2>6. ~Reverts
    BY <1>0, <2>3, <2>4, <2>5
    DEF Reverts, SettleUnknown, SettleUnanswered, SettleRefusedStopped, SettleRefusedEnded,
        SettleRefusedGone, Replied, SpawnFails, SettleSpawnDead, ReadHold, DropHold, SeeExit, Load
  <2> QED BY <1>0, <2>1, <2>2, <2>6, GoingStays
<1>6. CASE ~Past("next")
  <2>1. att'["next"].batch # {}
    BY DEF Past
  <2> QED BY <1>0, <1>4, <1>6, <2>1, LineMoves
<1> QED BY <1>5, <1>6

-----------------------------------------------------------------------------
(* One line for each uuid *)

\* A verdict other than "write" is about a line in a pipe or a transcript.
LEMMA WriteIsUnseen ==
  ASSUME IInv, NEW u, Verdict(u) = "write"
  PROVE  u \notin WireUuids
BY DEF Verdict, WireUuids, IInv, TypeOK, WireLine

\* The daemon writes, or refuses for want of a process, only what it never wrote.
LEMMA SentIsNew ==
  ASSUME LoneInv, NEW a \in Attempts, Send(a), Answer(a) \in {"written", "refused"}
  PROVE  /\ LineUuid(a) \notin WireUuids /\ LineUuid(a) \in Out /\ FenceHolds(att[a].fence)
         /\ ~GivenUp(LineUuid(a))
<1>0. IInv /\ OneEach /\ BatchRows /\ Unwritten
  BY DEF LoneInv
<1>1. att[a].pc = "registered" /\ Past(a)
  BY <1>0 DEF Send, Past, IInv, AttemptsHold
<1>2. LineUuid(a) \in Out /\ \E r \in att[a].batch : r = Earliest(att[a].batch)
  BY <1>0, <1>1, BatchUuid DEF Past
<1>3. FenceHolds(att[a].fence) /\ (Dedupes(a) => Verdict(LineUuid(a)) = "write")
  BY DEF Answer, Verdict
<1>4. LineUuid(a) \notin WireUuids
  <2>1. CASE Dedupes(a)
    BY <1>0, <1>3, <2>1, WriteIsUnseen
  <2>2. CASE ~Dedupes(a)
    <3>1. PICK r \in att[a].batch : r = Earliest(att[a].batch)
      BY <1>2
    <3>2. r.tries = 1 /\ a \in {"next", "mid"}
      BY <1>0, <2>2, <3>1 DEF Dedupes, BatchRows, Attempts
    <3>3. Green(LineUuid(a))
      BY <1>1, <3>2 DEF Green, First
    <3> QED BY <1>0, <1>2, <3>3 DEF Unwritten
  <2> QED BY <2>1, <2>2
<1> QED BY <1>2, <1>3, <1>4 DEF GivenUp, WireUuids

\* A line is written once: its uuid was not on the wire, or a process is asked.
LEMMA DistinctStep ==
  ASSUME Lone, LoneInv, [Next]_vars
  PROVE  Distinct'
<1>0. IInv /\ Distinct
  BY DEF LoneInv
<1>1. ASSUME NEW a \in Attempts, Send(a), Answer(a) = "written",
             wire' = wire \cup {PipedLine(a)}
      PROVE  Distinct'
  <2>1. LineUuid(a) \notin WireUuids /\ PipedLine(a).uuid = LineUuid(a)
    BY <1>1, SentIsNew DEF PipedLine
  <2> QED BY <1>0, <1>1, <2>1 DEF Distinct, WireUuids
<1> QED BY <1>0, <1>1, WireMoves

-----------------------------------------------------------------------------
(* What is known, and in what order *)

\* Random uuids are drawn one after another.
LEMMA DrawnGrows ==
  ASSUME IInv, [Next]_vars
  PROVE  used'.fresh \in Nat /\ used.fresh \in Nat /\ used'.fresh >= used.fresh
<1>0. used \in [enq : Nat, fresh : Nat, restarts : Nat, retries : Nat, losses : Nat]
      /\ used' \in [enq : Nat, fresh : Nat, restarts : Nat, retries : Nat, losses : Nat]
  BY IInvStep DEF IInv, TypeOK
<1> DEFINE Goal == used'.fresh >= used.fresh
<1>4. CASE Intake
  BY <1>0, <1>4 DEF Intake, Store, Revive, ParkStale, Arrive, Relay, Retry, Delete, Withdraw
<1>5. CASE \E a \in {"next", "mid"} : DeliverLive(a)
  BY <1>0, <1>5 DEF DeliverLive, Begin, Mark, Register, SettleRefusedStopped, SettleRefusedEnded,
              SettleRefusedGone
<1>6. CASE \E a \in Attempts : Deliver(a)
  BY <1>0, <1>6
    DEF Deliver, Send, LoseAnswer, SettleWritten, SettleTaking, SettleRan, SettleUnanswered,
        SettleCancelled, SettleSuperseded, SettleUnknown
<1>7. CASE Resume
  BY <1>0, <1>7 DEF Resume, Attach, NoSession, SpawnStart, SpawnFails, SpawnRefused,
              SettleSpawnDead, ReadHold, DropHold, RecoveryEnds
<1>8. CASE Cli \/ Frames
  BY <1>0, <1>8 DEF Cli, Take, AnswerLines, Die, Frames, ReadStart, ReadAnswer,
                    ReadCancelled, SeeExit
<1>10. CASE Stopping
  BY <1>0, <1>10 DEF Stopping, Interrupt, StopAsk, StopPeek, StopPark, StopSend, StopFails
<1>11. CASE Restarting
  BY <1>0, <1>11 DEF Restarting, RestartCli, Restart, Load
<1>12. CASE UNCHANGED vars
  BY <1>0, <1>12 DEF vars
<1>13. Goal
  BY <1>4, <1>5, <1>6, <1>7, <1>8, <1>10, <1>11, <1>12 DEF Next
<1> QED BY <1>0, <1>13

\* A uuid that is known was known, or is the row's first, or was just drawn.
LEMMA KnownMoves ==
  ASSUME Lone, LoneInv, [Next]_vars, NEW u \in Known'
  PROVE  \/ u \in Known
         \/ u.n = 0 /\ Nothing /\ \E x \in queue' : JustMarked(x) /\ x.uuid = u
         \/ \E x \in queue' : Renewed(x) /\ x.uuid = u
<1>0. /\ IInv /\ OneEach /\ BatchRows /\ StopperWaits /\ Arrivals /\ RanShown
      /\ BlankStart /\ "spawn" \in Attempts
  BY DEF LoneInv, Attempts
<1>1. CASE u \in Out'
  BY <1>0, <1>1, OutMoves DEF Known, BlankStart
<1>2. CASE u \in HeldUuids'
  <2>1. PICK r \in hold'.rows : r.uuid = u
    BY <1>2 DEF HeldUuids
  <2>2. r \in hold.rows \/ r \in att["spawn"].batch
    <3>1. NoHold.rows = {}
      BY DEF NoHold
    <3> QED BY <1>0, <2>1, <3>1, HoldMoves
  <2> QED BY <1>0, <2>1, <2>2, BatchUuid DEF HeldUuids, Known
<1>3. CASE u \in WireUuids'
  <2>1. PICK x \in wire' : x.uuid = u
    BY <1>3 DEF WireUuids
  <2>2. ASSUME NEW a \in Attempts, Send(a), wire' = wire \cup {PipedLine(a)} PROVE u \in Known
    <3>1. LineUuid(a) \in Out /\ PipedLine(a).uuid = LineUuid(a)
      BY <1>0, <2>2, BatchUuid DEF Send, Past, IInv, AttemptsHold, PipedLine
    <3> QED BY <2>1, <2>2, <3>1 DEF Known, WireUuids
  <2> QED BY <1>0, <2>1, <2>2, WireMoves DEF Known, WireUuids
<1> QED BY <1>1, <1>2, <1>3 DEF Known

\* With the first uuid there is no other.
LEMMA FirstKnown ==
  ASSUME Lone, LoneInv, [Next]_vars, Nothing, NEW x, JustMarked(x), NEW u \in Known'
  PROVE  u = x.uuid
<1>1. Known = {}
  BY DEF Nothing, Known, HeldUuids, WireUuids, NoHold
<1>2. \A y : ~Renewed(y)
  BY DEF Nothing, LoneInv, IInv, AttemptsHold, Renewed, SettleUnanswered, Replied
<1>3. queue' = {x}
  BY DEF JustMarked, MarkedFrom
<1> QED BY <1>1, <1>2, <1>3, KnownMoves

\* The line that goes out again under a new uuid is the latest, and was given up.
LEMMA ResentMoves ==
  ASSUME Lone, LoneInv, NEW x, Renewed(x)
  PROVE  \E a \in Attempts :
           /\ SettleUnanswered(a) /\ LineUuid(a) \in Out /\ GivenUp(LineUuid(a))
           /\ \A u \in Known : u.n <= LineUuid(a).n /\ GivenUp(u)
           /\ Unsettled /\ (\A e \in arriving : e.uuid = NoUuid) /\ stopper.peek = {}
           /\ x.uuid.n > used.fresh /\ x.uuid.n <= used.fresh + 2 /\ x.uuid \notin Known
           /\ x.uuid # NoUuid /\ x.tries = 0
<1>0. /\ IInv /\ OneEach /\ BatchRows /\ StopperWaits /\ Arrivals /\ AnswersTrue
      /\ BlankStart /\ Single(queue) /\ LatestGoesOut /\ OlderGivenUp /\ Numbers /\ Overtaken
      /\ used.fresh \in Nat
  BY DEF LoneInv, OneEach, IInv, TypeOK
<1>1. PICK a \in Attempts, r \in queue :
    /\ SettleUnanswered(a)
    /\ r.status # "parked" /\ r.uuid \in {NoUuid, LineUuid(a)}
    /\ x.uuid \in {FreshUuid(used.fresh + 1), FreshUuid(used.fresh + 2)}
    /\ x.tries = 0
  BY DEF Renewed
<1> DEFINE o == LineUuid(a)
<1>2. Past(a) /\ Replied(a, "unanswered")
  BY <1>0, <1>1 DEF SettleUnanswered, Past, IInv, AttemptsHold, Replied
<1>3. o \in Out /\ GivenUp(o)
  BY <1>0, <1>2, BatchUuid DEF AnswersTrue
<1>4. Waits(r) /\ r.uuid = o
  BY <1>0, <1>1, <1>2 DEF Waits, BlankStart, Nothing, Past
<1>5. stopper.peek = {}
  BY <1>0, <1>2 DEF StopperWaits, AnswerDue, Replied
<1>6. ASSUME NEW u, Done(u) PROVE FALSE
  BY <1>3, <1>6, DoneAlone
<1>7. Unsettled /\ \A e \in arriving : e.uuid = NoUuid
  BY <1>6, BroughtDone DEF Unsettled
<1>8. \A u \in Known : u \in Uuid /\ u.n \in Nat
  BY <1>0, KnownTypes
<1>9. o \in Known /\ o # NoUuid
  BY <1>3 DEF Known, Out
<1>10. ASSUME NEW u \in Out PROVE u.n <= o.n
  <2>1. u \in Known
    BY DEF Known
  <2>2. CASE \E s \in queue : s.uuid = u
    BY <1>0, <1>4, <1>8, <1>9, <2>2 DEF Single
  <2>3. ASSUME NEW b \in Attempts, NEW s \in att[b].batch, s.uuid = u PROVE u.n <= o.n
    <3>1. Past(b) /\ LineUuid(b) = u
      BY <1>0, <2>3, BatchUuid DEF Past
    <3>2. ~(o.n < u.n)
      BY <1>0, <1>4, <1>9, <3>1 DEF Overtaken
    <3> QED BY <1>8, <1>9, <2>1, <3>2
  <2> QED BY <1>5, <1>7, <2>2, <2>3, OutParts DEF Unsettled
<1>11. ASSUME NEW u \in Known PROVE u.n <= o.n /\ GivenUp(u)
  <2>1. u.n <= o.n
    BY <1>0, <1>3, <1>10 DEF Known, LatestGoesOut
  <2>2. u.n < o.n \/ u.n = o.n
    BY <1>8, <1>9, <2>1
  <2> QED BY <1>0, <1>3, <1>9, <2>1, <2>2 DEF OlderGivenUp, Numbers
<1>12. x.uuid.n \in {used.fresh + 1, used.fresh + 2} /\ x.uuid # NoUuid
  BY <1>1 DEF FreshUuid, NoUuid
<1>13. x.uuid \notin Known
  BY <1>0, <1>8, <1>12 DEF Numbers
<1> QED BY <1>0, <1>1, <1>3, <1>5, <1>7, <1>11, <1>12, <1>13

-----------------------------------------------------------------------------
(* Which uuids there are, and which goes out *)

\* Every uuid that will be known is numbered.
LEMMA KnownNats ==
  ASSUME Lone, LoneInv, [Next]_vars, NEW u \in Known'
  PROVE  u.n \in Nat
<1>0. IInv /\ used.fresh \in Nat
  BY DEF LoneInv, IInv, TypeOK
<1>1. CASE u \in Known
  BY <1>0, <1>1, KnownTypes
<1>2. ASSUME NEW x, Renewed(x), x.uuid = u PROVE u.n \in Nat
  <2>1. u \in {FreshUuid(used.fresh + 1), FreshUuid(used.fresh + 2)}
    BY <1>2 DEF Renewed
  <2> QED BY <1>0, <2>1 DEF FreshUuid
<1> QED BY <1>1, <1>2, KnownMoves

\* A uuid is drawn with a number beyond all drawn before.
LEMMA NumbersStep ==
  ASSUME Lone, LoneInv, [Next]_vars
  PROVE  Numbers'
<1>0. /\ IInv /\ IInv' /\ Numbers /\ OneEach' /\ Single(queue')
      /\ used'.fresh \in Nat /\ used.fresh \in Nat /\ used'.fresh >= used.fresh
  BY IInvStep, DrawnGrows, OneEachStep DEF LoneInv, OneEach
<1>1. \A u \in Known : u.n \in Nat
  BY <1>0, KnownTypes
<1>2. ASSUME NEW x \in queue', Renewed(x)
      PROVE  x.uuid.n > used.fresh /\ x.uuid.n <= used'.fresh
  <2>1. PICK a \in Attempts :
          SettleUnanswered(a) /\ x.uuid.n > used.fresh /\ x.uuid.n <= used.fresh + 2
    BY <1>2, ResentMoves
  <2>2. used'.fresh = used.fresh + 2
    BY <1>0, <2>1 DEF SettleUnanswered, IInv, TypeOK
  <2> QED BY <2>1, <2>2
<1>3. ASSUME NEW u \in Known' PROVE u.n <= used'.fresh
  <2>1. CASE u \in Known
    BY <1>0, <1>1, <2>1 DEF Numbers
  <2> QED BY <1>0, <1>2, <2>1, KnownMoves
<1>4. ASSUME NEW u \in Known', NEW v \in Known', u.n = v.n PROVE u = v
  <2>1. CASE \E x : Nothing /\ JustMarked(x)
    BY <2>1, FirstKnown
  <2>2. CASE u \in Known /\ v \in Known
    BY <1>0, <1>4, <2>2 DEF Numbers
  <2>3. ASSUME NEW x \in queue', Renewed(x), NEW w \in Known, w.n = x.uuid.n PROVE FALSE
    BY <1>0, <1>1, <1>2, <2>3 DEF Numbers
  <2> QED BY <1>0, <1>4, <2>1, <2>2, <2>3, KnownMoves DEF Single
<1> QED BY <1>3, <1>4 DEF Numbers

\* A uuid is drawn when the last one was given up, which is final.
LEMMA OlderGivenUpStep ==
  ASSUME Lone, LoneInv, [Next]_vars
  PROVE  OlderGivenUp'
<1>0. /\ IInv /\ OneTurn /\ Numbered /\ Numbers /\ OlderGivenUp /\ Single(queue')
      /\ used.fresh \in Nat
  BY OneEachStep DEF LoneInv, OneEach, IInv, TypeOK
<1>1. \A u \in Known : u.n \in Nat /\ u.n <= used.fresh
  BY <1>0, KnownTypes DEF Numbers
<1> SUFFICES ASSUME NEW u \in Known', NEW v \in Known', u.n < v.n PROVE GivenUp(u)'
  BY DEF OlderGivenUp
<1>2. ~(v.n < v.n)
  <2>1. v.n \in Nat
    BY KnownNats
  <2> QED BY <2>1
<1>3. CASE \E x : Nothing /\ JustMarked(x)
  BY <1>2, <1>3, FirstKnown
<1>4. ASSUME GivenUp(u) PROVE GivenUp(u)'
  BY <1>0, <1>4, GivenUpStays
<1>5. CASE u \in Known /\ v \in Known
  BY <1>0, <1>4, <1>5 DEF OlderGivenUp
<1>6. ASSUME NEW x \in queue', Renewed(x), u \in Known PROVE GivenUp(u)'
  BY <1>4, <1>6, ResentMoves
<1>7. ASSUME NEW x \in queue', Renewed(x), u = x.uuid PROVE FALSE
  <2>1. x.uuid.n > used.fresh /\ x.uuid.n \in Nat
    BY <1>7, ResentMoves, KnownNats
  <2>2. v \in Known => FALSE
    BY <1>0, <1>1, <1>7, <2>1
  <2>3. \A y \in queue' : y = x
    BY <1>0 DEF Single
  <2> QED BY <1>2, <1>3, <1>7, <2>2, <2>3, KnownMoves
<1> QED BY <1>3, <1>5, <1>6, <1>7, KnownMoves

\* A hold that is dropped unread is of the latest uuid.
LEMMA HeldIsLatest ==
  ASSUME Lone, LoneInv, DropHold, NEW h \in HeldUuids
  PROVE  /\ ~GivenUp(h) /\ (\A u \in Known : u.n <= h.n) /\ (\A u \in Out : u = h)
         /\ \A u \in HeldUuids : u = h
<1>0. /\ IInv /\ OneEach /\ OlderGivenUp /\ LatestGoesOut /\ Numbers
  BY DEF LoneInv
<1>1. \A u \in Known : u.n \in Nat
  BY <1>0, KnownTypes
<1>2. PICK r \in hold.rows : r.uuid = h
  BY DEF HeldUuids
<1>3. Earliest(hold.rows) = r /\ Single(hold.rows)
  BY <1>0, OneRow DEF OneEach
<1>4. ~HoldStarted /\ HoldUuid = h
  BY <1>2, <1>3 DEF DropHold, Lone, HoldUuid
<1>5. ~GivenUp(h)
  BY <1>4 DEF HoldStarted, GivenUp
<1>6. h \in Known
  BY DEF Known
<1>7. ASSUME NEW u \in Known PROVE u.n <= h.n
  <2>1. ~(h.n < u.n)
    BY <1>0, <1>5, <1>6 DEF OlderGivenUp
  <2> QED BY <1>1, <1>6, <2>1
<1>8. ASSUME NEW u \in Out PROVE u = h
  <2>1. u \in Known /\ u.n <= h.n /\ h.n <= u.n
    BY <1>0, <1>7 DEF Known, LatestGoesOut
  <2>2. u.n = h.n
    BY <1>1, <1>6, <2>1
  <2> QED BY <1>0, <1>6, <2>1, <2>2 DEF Numbers
<1>9. \A u \in HeldUuids : u = h
  BY <1>2, <1>3 DEF HeldUuids, Single
<1> QED BY <1>5, <1>7, <1>8, <1>9

\* An attempt that is to write, or put back, what a resume carries has no
\* other uuid beside it.
LEMMA ResumeAgrees ==
  ASSUME LoneInv, ~Spent
  PROVE  Agree
BY DEF LoneInv, OneUuid, Dead

\* What a process died with is put back under the latest uuid, or was it.
LEMMA LatestGoesOutStep ==
  ASSUME Lone, LoneInv, [Next]_vars
  PROVE  LatestGoesOut'
<1>0. /\ IInv /\ OneEach /\ BatchRows /\ StopperWaits /\ Arrivals /\ RanShown
      /\ BlankStart /\ LatestGoesOut /\ Numbers /\ "spawn" \in Attempts /\ used.fresh \in Nat
  BY DEF LoneInv, Attempts, IInv, TypeOK
<1>1. \A u \in Known : u.n \in Nat /\ u.n <= used.fresh
  BY <1>0, KnownTypes DEF Numbers
<1>2. ASSUME NEW x \in queue', Renewed(x), NEW v \in Known PROVE v.n <= x.uuid.n
  <2>1. x.uuid.n > used.fresh /\ x.uuid.n \in {used.fresh + 1, used.fresh + 2}
    BY <1>2, ResentMoves DEF Renewed, FreshUuid
  <2> QED BY <1>0, <1>1, <2>1
<1>3. ASSUME NEW u \in Out', NEW v \in WireUuids' PROVE v.n <= u.n
  <2>1. CASE v \in WireUuids
    <3>1. v \in Known
      BY <2>1 DEF Known
    <3>2. u \in Out => v.n <= u.n
      BY <1>0, <2>1 DEF LatestGoesOut
    <3>3. ~Nothing
      BY <2>1 DEF Nothing, WireUuids
    <3>4. DropHold /\ u \in HeldUuids => v.n <= u.n
      BY <3>1, HeldIsLatest
    <3> QED BY <1>0, <1>2, <3>1, <3>2, <3>3, <3>4, OutMoves DEF BlankStart
  <2>2. ASSUME NEW a \in Attempts, Send(a), Answer(a) = "written", v = LineUuid(a)
        PROVE  v.n <= u.n
    <3>1. Out' = Out /\ v \in Out
      BY <1>0, <2>2, SendKeeps, SentIsNew
    <3>2. alive
      BY <2>2 DEF Answer, Verdict
    <3>3. Agree
      BY <3>2 DEF LoneInv, OneUuid, Dead
    <3>4. u = v /\ u \in Known
      BY <3>1, <3>3 DEF Agree, Known
    <3> QED BY <1>1, <3>4
  <2>3. v \in WireUuids \/ \E a \in Attempts : Send(a) /\ Answer(a) = "written" /\ v = LineUuid(a)
    <3>1. \A a \in Attempts : PipedLine(a).uuid = LineUuid(a)
      BY DEF PipedLine
    <3> QED BY <1>0, <3>1, WireMoves DEF WireUuids
  <2> QED BY <2>1, <2>2, <2>3
<1>4. ASSUME NEW h \in HeldUuids', NEW u \in Out' PROVE h.n <= u.n
  <2>0. NoHold.rows = {}
    BY DEF NoHold
  <2>1. CASE hold' = hold
    <3>1. h \in HeldUuids /\ h \in Known /\ ~Nothing
      BY <1>4, <2>0, <2>1 DEF HeldUuids, Known, Nothing
    <3>2. u \in Out => h.n <= u.n
      BY <1>0, <3>1 DEF LatestGoesOut
    <3>3. DropHold => hold = NoHold
      BY <2>1 DEF DropHold
    <3>4. ~DropHold
      BY <1>4, <2>0, <2>1, <3>3 DEF HeldUuids
    <3> QED BY <1>0, <1>2, <3>1, <3>2, <3>4, OutMoves DEF BlankStart
  <2>2. CASE SettleWritten("spawn") /\ hold'.rows = att["spawn"].batch
    <3>1. h \in Out
      BY <1>0, <1>4, <2>2, BatchUuid DEF HeldUuids
    <3>2. ~Spent
      BY <2>2 DEF SettleWritten, Replied, Spent
    <3>3. queue' = queue
      BY <2>2 DEF SettleWritten, queueFile
    <3>4. ~DropHold
      BY <2>2, <3>1, <3>2 DEF DropHold, SettleWritten, LoneInv, OneResume, Replied, Spent
    <3>5. ~Nothing
      BY <3>1 DEF Nothing
    <3>6. \A x \in queue' : ~Renewed(x)
      <4>1. ASSUME NEW x \in queue', Renewed(x) PROVE FALSE
        <5>1. x.uuid \notin Known /\ x.uuid # NoUuid
          BY <4>1, ResentMoves
        <5> QED BY <3>3, <4>1, <5>1 DEF Known, Out, InPlay
      <4> QED BY <4>1
    <3>7. u \in Out
      BY <1>0, <3>4, <3>5, <3>6, OutMoves DEF BlankStart
    <3>8. u = h /\ u \in Known
      BY <3>1, <3>2, <3>7, ResumeAgrees DEF Agree, Known
    <3> QED BY <1>1, <3>8
  <2> QED BY <1>0, <1>4, <2>0, <2>1, <2>2, HoldMoves DEF HeldUuids
<1> QED BY <1>3, <1>4 DEF LatestGoesOut

\* With a process to write to, the uuid just drawn is all that is left.
LEMMA ResendClears ==
  ASSUME Lone, LoneInv, [Next]_vars, NEW x \in queue', Renewed(x),
         alive \/ att["spawn"].pc = "begun"
  PROVE  /\ Out' = {x.uuid} /\ queue' = {x}
         /\ untaken' = {} /\ answering' = {} /\ hold' = NoHold
         /\ \A a \in Attempts : att'[a].batch = {}
         /\ view' \in {0, proc'} /\ (att'["spawn"].pc = "begun" => view' = 0)
<1>0. /\ IInv /\ CleanResend /\ Single(queue') /\ att \in [Attempts -> Attempt]
  BY OneEachStep DEF LoneInv, OneEach, IInv, TypeOK
<1>1. PICK a \in Attempts :
           /\ SettleUnanswered(a) /\ LineUuid(a) \in Out /\ GivenUp(LineUuid(a))
           /\ Unsettled /\ (\A e \in arriving : e.uuid = NoUuid) /\ stopper.peek = {}
           /\ x.uuid # NoUuid
  BY ResentMoves
<1>2. Clean(LineUuid(a))
  BY <1>0, <1>1 DEF CleanResend
<1>3. Past(a)
  BY <1>0, <1>1 DEF SettleUnanswered, Past, IInv, AttemptsHold, Replied
<1>4. \A b \in Attempts : att'[b].batch = {}
  <2>1. att' = [att EXCEPT ![a] = Idle]
    BY <1>1 DEF SettleUnanswered, Set
  <2>2. Idle.batch = {}
    BY DEF Idle
  <2>3. \A b \in Attempts : b # a => att[b].batch = {}
    BY <1>2, <1>3 DEF Clean, Past
  <2> QED BY <1>0, <2>1, <2>2, <2>3
<1>5. UNCHANGED <<settled, stopper, arriving, hold, alive, proc, view>>
  BY <1>1 DEF SettleUnanswered, stopState, host
<1>6. untaken' = {} /\ answering' = {} /\ hold' = NoHold
  BY <1>1, <1>2, <1>5 DEF SettleUnanswered, Clean, Untracked
<1>7. queue' = {x}
  BY <1>0 DEF Single
<1>8. InPlay' = {x}
  BY <1>1, <1>4, <1>5, <1>7 DEF InPlay
<1>9. Out' = {x.uuid}
  <2>1. x.uuid \in Out'
    BY <1>1, <1>8 DEF Out
  <2>2. ASSUME NEW u \in Out' PROVE u = x.uuid
    BY <1>1, <1>5, <1>8, <2>2 DEF Out, Unsettled
  <2> QED BY <2>1, <2>2
<1>10. view' \in {0, proc'} /\ (att'["spawn"].pc = "begun" => view' = 0)
  <2>1. att'["spawn"].pc = "begun" => att["spawn"].pc = "begun"
    BY <1>0, <1>1 DEF SettleUnanswered, Set, Idle
  <2> QED BY <1>2, <1>5, <2>1 DEF Clean
<1> QED BY <1>4, <1>6, <1>7, <1>9, <1>10

\* Only a new uuid parts a message from its one.
LEMMA AgreeStays ==
  ASSUME Lone, LoneInv, [Next]_vars, Agree, \A x \in queue' : ~Renewed(x)
  PROVE  Agree'
<1>0. /\ IInv /\ OneEach /\ BatchRows /\ StopperWaits /\ Arrivals /\ RanShown /\ BlankStart
  BY DEF LoneInv
<1> SUFFICES ASSUME NEW u \in Out', NEW v \in Out' PROVE u = v
  BY DEF Agree
<1>1. CASE \E x : Nothing /\ JustMarked(x)
  BY <1>1, FirstKnown DEF Known
<1>2. CASE u \in Out /\ v \in Out
  BY <1>2 DEF Agree
<1>3. ASSUME DropHold, NEW h \in HeldUuids PROVE \A w \in Out \cup HeldUuids : w = h
  BY <1>3, HeldIsLatest
<1> QED BY <1>0, <1>1, <1>2, <1>3, OutMoves DEF BlankStart

\* A new uuid is drawn with nothing else about, or with no process and none to come.
LEMMA OneUuidStep ==
  ASSUME Lone, LoneInv, [Next]_vars
  PROVE  OneUuid'
<1>0. /\ IInv /\ OneUuid /\ OneResume /\ OneDue /\ Detached /\ BatchRows /\ AnswersTrue
      /\ ResumeUnwritten /\ SettledRan /\ Single(queue') /\ "spawn" \in Attempts
      /\ att \in [Attempts -> Attempt] /\ Idle.pc = "idle" /\ Idle.batch = {}
  BY OneEachStep DEF LoneInv, OneEach, Attempts, IInv, TypeOK, Idle
<1>1. ASSUME NEW x \in queue', Renewed(x) PROVE OneUuid'
  <2>1. CASE alive \/ att["spawn"].pc = "begun"
    BY <1>1, <2>1, ResendClears DEF OneUuid, Agree
  <2>2. CASE ~alive /\ att["spawn"].pc # "begun"
    <3>1. PICK a \in Attempts : SettleUnanswered(a)
      BY <1>1, ResentMoves
    <3>2. att' = [att EXCEPT ![a] = Idle] /\ UNCHANGED <<alive, object>>
          /\ Replied(a, "unanswered")
      BY <3>1 DEF SettleUnanswered, Set, host
    <3>3. object
      BY <1>0, <3>2 DEF Detached, Replied, Attempts
    <3>4. Spent'
      <4>1. CASE a = "spawn"
        BY <1>0, <3>2, <4>1 DEF Spent
      <4>2. CASE a = "next"
        BY <1>0, <3>2, <4>2 DEF Spent, OneResume, Replied
      <4>3. CASE a = "mid"
        <5>1. att["spawn"].pc \in {"idle", "replied"}
          BY <1>0, <3>2, <4>3 DEF ResumeUnwritten, BatchRows, Attempt
        <5>2. att["spawn"].pc = "replied" => att["spawn"].reply \in {"unknown", "superseded"}
          BY <1>0, <3>2, <4>3 DEF OneDue, Due, Replied
        <5>3. att'["spawn"] = att["spawn"]
          BY <1>0, <3>2, <4>3
        <5> QED BY <5>1, <5>2, <5>3 DEF Spent, Replied
      <4> QED BY <4>1, <4>2, <4>3 DEF Attempts
    <3> QED BY <2>2, <3>2, <3>3, <3>4 DEF OneUuid, Dead
  <2> QED BY <2>1, <2>2
<1>2. ASSUME \A x \in queue' : ~Renewed(x), ~Agree, ~Agree' PROVE Dead'
  <2>1. Dead
    BY <1>0, <1>2 DEF OneUuid
  <2>2. ~alive'
    BY <1>0, <2>1, ProcessMoves DEF Dead, Spent, SpawnStart, SpawnFails, Replied
  <2>3. ~Restart
    <3>1. SUFFICES ASSUME Restart PROVE Agree'
      BY <1>2
    <3>2. /\ queue' = queue /\ settled' = settled /\ arriving' = {} /\ stopper' = AtEase
          /\ att' = [a \in Attempts |-> Idle]
      BY <3>1 DEF Restart, queueFile
    <3>3. \A m \in Messages : settled[m] = NoUuid
      BY <1>0, <1>2, DoneAlone DEF SettledRan, Agree
    <3>4. InPlay' = queue'
      BY <1>0, <3>2 DEF InPlay, AtEase
    <3>5. \A u \in Out' : \E r \in queue' : r.uuid = u
      BY <3>2, <3>3, <3>4 DEF Out
    <3> QED BY <1>0, <3>5 DEF Agree, Single
  <2>4. object'
    BY <1>0, <2>1, <2>3, ProcessMoves DEF Dead
  <2>5. Spent'
    <3>1. Moves("spawn")
      BY <1>0, AttemptMoves
    <3>2. ~Resumes
      BY <1>0, <1>2, <2>1 DEF Resumes, NoSession, Dead, SettleRefusedGone, AnswersTrue
    <3>3. ~SpawnStart /\ ~Send("spawn")
      BY <2>1 DEF Dead, Spent, SpawnStart, Send, Replied
    <3> QED BY <1>0, <2>1, <3>1, <3>2, <3>3 DEF Moves, Same, Dead, Spent, Replied
  <2> QED BY <2>2, <2>4, <2>5 DEF Dead
<1> QED BY <1>1, <1>2, AgreeStays DEF OneUuid

\* A copy that comes back under an older uuid comes back parked, behind a stop.
LEMMA OvertakenStep ==
  ASSUME Lone, LoneInv, [Next]_vars
  PROVE  Overtaken'
<1>0. /\ IInv /\ OneEach /\ BatchRows /\ StopperWaits /\ Arrivals /\ FencesBehind /\ OneFence
      /\ BlankStart /\ Numbers /\ Overtaken /\ "spawn" \in Attempts
      /\ used.fresh \in Nat /\ stop.id \in Nat /\ att \in [Attempts -> Attempt]
  BY DEF LoneInv, Attempts, IInv, TypeOK
<1> SUFFICES ASSUME NEW x \in queue', NEW a \in Attempts, Past(a)', x.uuid # NoUuid,
                    x.uuid.n < (LineUuid(a)').n
             PROVE  att'[a].fence < stop'.id /\ ~Waits(x)
  BY DEF Overtaken
<1>1. x.uuid \in Known' /\ x.uuid.n \in Nat
  <2>1. x.uuid \in Known'
    BY DEF Known, Out, InPlay
  <2> QED BY <2>1, KnownNats
<1>2. LineUuid(a)' # x.uuid
  BY <1>1
<1>3. CASE \E r \in queue, y \in queue' : MarkedFrom(a, r, y) /\ LineUuid(a)' = y.uuid
  BY <1>2, <1>3 DEF MarkedFrom
<1>4. ASSUME NEW b \in Attempts, Past(b), LineUuid(a)' = LineUuid(b),
             att'[a].batch = att[b].batch, att'[a].fence = att[b].fence
      PROVE  att'[a].fence < stop'.id /\ ~Waits(x)
  <2> DEFINE o == LineUuid(b)
  <2>1. o \in Out /\ o \in Known /\ o.n \in Nat /\ o.n <= used.fresh /\ o # x.uuid
        /\ x.uuid.n < o.n
    BY <1>0, <1>2, <1>4, BatchUuid, KnownTypes DEF Known, Numbers
  <2>2. stop'.id \in Nat /\ stop'.id >= stop.id /\ att[b].fence \in Nat
    BY <1>0, StopMoves DEF Attempt
  <2>3. SUFFICES att[b].fence < stop.id /\ ~Waits(x)
    BY <1>0, <1>4, <2>2
  <2>4. ASSUME NEW r \in queue, Still(x, r) PROVE att[b].fence < stop.id /\ ~Waits(x)
    BY <1>0, <1>4, <2>1, <2>4 DEF Overtaken, Still
  <2>5. ~JustMarked(x)
    <3>1. SUFFICES ASSUME NEW r \in queue, Waits(r),
                          x.uuid = r.uuid \/ r.uuid = NoUuid
                   PROVE  FALSE
      BY DEF JustMarked, MarkedFrom, Waits
    <3> QED BY <1>0, <1>4, <2>1, <3>1 DEF Overtaken, BlankStart, Nothing, Past
  <2>6. ~Renewed(x)
    <3>1. SUFFICES ASSUME Renewed(x) PROVE FALSE
      OBVIOUS
    <3>2. x.uuid.n > used.fresh
      BY <3>1, ResentMoves
    <3> QED BY <1>0, <1>1, <2>1, <3>2
  <2>7. ~JustStored(x)
    <3>1. SUFFICES ASSUME NEW e \in arriving, x = NewRow(e) PROVE FALSE
      BY DEF JustStored
    <3>2. x.uuid = e.uuid
      BY <3>1 DEF NewRow
    <3> QED BY <2>1, <3>2, BroughtDone, DoneAlone
  <2>8. CASE Reinserted(x)
    <3>1. ASSUME NEW c \in Attempts, NEW r \in att[c].batch, BackFrom(x, r)
          PROVE  x.uuid \in Out /\ ~Agree /\ Unsettled
      <4>1. x.uuid \in Out
        BY <1>0, <3>1, BatchUuid DEF BackFrom
      <4>2. ~Agree
        BY <2>1, <4>1 DEF Agree
      <4>3. Unsettled
        BY <4>2, BroughtDone, DoneAlone DEF Agree, Unsettled
      <4> QED BY <4>1, <4>2, <4>3
    <3>2. ~(SpawnFails \/ SettleSpawnDead \/ SpawnRefused) \/
            ~\E r \in att["spawn"].batch : BackFrom(x, r)
      BY <1>0, <3>1, ResumeAgrees DEF SpawnFails, SettleSpawnDead, SpawnRefused, Spent, Replied
    <3>3. ASSUME NEW c \in Attempts, SettleSuperseded(c), ~Waits(x),
                 NEW r \in att[c].batch, BackFrom(x, r)
          PROVE  att[b].fence < stop.id /\ ~Waits(x)
      <4>1. PICK s \in att[b].batch : TRUE
        BY <1>4 DEF Past
      <4>2. r \in InPlay /\ s \in InPlay
        BY <1>0, <4>1, BatchUuid
      <4>3. r.fence = att[c].fence /\ s.fence = att[b].fence
        BY <1>0, <3>3, <4>1 DEF IInv, AttemptsHold
      <4>4. r.fence = s.fence
        BY <1>0, <3>1, <3>3, <4>2 DEF OneFence
      <4>5. att[c].fence < stop.id
        BY <1>0, <3>3 DEF FencesBehind, SettleSuperseded, Replied
      <4> QED BY <3>3, <4>3, <4>4, <4>5
    <3>4. CASE StopPark /\ ~Waits(x)
      <4>1. stop.st = "pending" /\ att[b].pc # "idle"
        BY <1>0, <1>4, <3>4 DEF StopPark, StopperWaits, Past, BatchRows
      <4> QED BY <1>0, <3>4, <4>1 DEF FencesBehind
    <3>5. ~(DropHold /\ \E c \in hold.rows : BackFrom(x, c))
      BY <2>1, HeldIsLatest DEF HeldUuids, BackFrom
    <3> QED BY <2>8, <3>2, <3>3, <3>4, <3>5 DEF Reinserted
  <2> QED BY <1>0, <2>4, <2>5, <2>6, <2>7, <2>8, QueueMoves DEF Origin
<1> QED BY <1>0, <1>3, <1>4, LineMoves DEF Past

\* The mid-turn write is marked last, of the row in line.
LEMMA MidLastStep ==
  ASSUME Lone, LoneInv, [Next]_vars
  PROVE  MidLast'
<1>0. /\ IInv /\ OneEach /\ BatchRows /\ BlankStart /\ Overtaken /\ MidLast
      /\ att \in [Attempts -> Attempt] /\ {"mid", "next"} \subseteq Attempts
  BY DEF LoneInv, Attempts, IInv, TypeOK
<1> SUFFICES ASSUME Past("mid")', Past("next")'
             PROVE  (LineUuid("next")').n <= (LineUuid("mid")').n
  BY DEF MidLast
<1>1. CASE /\ Past("next") /\ LineUuid("next")' = LineUuid("next")
           /\ Past("mid") /\ LineUuid("mid")' = LineUuid("mid")
  BY <1>0, <1>1 DEF MidLast
<1>2. ASSUME NEW r \in queue, NEW x \in queue', MarkedFrom("mid", r, x),
             LineUuid("mid")' = x.uuid, att' = [att EXCEPT !["mid"] = att'["mid"]]
      PROVE  (LineUuid("next")').n <= (LineUuid("mid")').n
  <2>1. att'["next"] = att["next"]
    BY <1>0, <1>2
  <2>2. Past("next") /\ LineUuid("next")' = LineUuid("next")
    BY <2>1 DEF Past, LineUuid
  <2>3. Waits(r) /\ r.uuid # NoUuid /\ x.uuid = r.uuid
    BY <1>0, <1>2, <2>2 DEF MarkedFrom, Waits, BlankStart, Nothing, Past
  <2>4. ~(r.uuid.n < LineUuid("next").n)
    BY <1>0, <2>2, <2>3 DEF Overtaken
  <2>5. r.uuid.n \in Nat /\ LineUuid("next").n \in Nat
    <3>1. r.uuid \in Known /\ LineUuid("next") \in Known
      BY <1>0, <2>2, <2>3, BatchUuid DEF Known, Out, InPlay
    <3> QED BY <1>0, <3>1, KnownTypes
  <2> QED BY <1>2, <2>2, <2>3, <2>4, <2>5
<1>3. ASSUME Mark("next"), att' = [att EXCEPT !["next"] = att'["next"]] PROVE FALSE
  <2>1. att'["mid"] = att["mid"]
    BY <1>0, <1>3
  <2> QED BY <1>0, <1>3, <2>1 DEF Mark, BatchRows, Past
<1> QED BY <1>1, <1>2, <1>3, LineMoves, <1>0 DEF Past, MarkedFrom

-----------------------------------------------------------------------------
(* What was answered, and what goes out unasked *)

\* A verdict of unanswered is of a line that a process died with.
LEMMA UnansweredGivenUp ==
  ASSUME NEW u, Verdict(u) = "unanswered"
  PROVE  GivenUp(u) /\ u \in WireUuids
BY DEF Verdict, GivenUp, Live, WireUuids

\* When `next' is refused there is no other uuid to go out.
LEMMA RefusedAgrees ==
  ASSUME LoneInv, Send("next"), Answer("next") = "refused"
  PROVE  Agree
<1> DEFINE o == LineUuid("next")
<1>0. /\ IInv /\ OneEach /\ BatchRows /\ StopperWaits /\ Overtaken /\ OlderGivenUp /\ Numbers
      /\ MidLast /\ OneResume /\ "next" \in Attempts
  BY DEF LoneInv, Attempts
<1>1. o \in Out /\ FenceHolds(att["next"].fence) /\ ~GivenUp(o) /\ Past("next")
  BY <1>0, SentIsNew DEF Send, Past, IInv, AttemptsHold
<1>2. \A u \in Known : u.n \in Nat
  BY <1>0, KnownTypes
<1>3. o \in Known
  BY <1>1 DEF Known
<1>4. SUFFICES ASSUME NEW u \in Out PROVE u = o
  BY DEF Agree
<1>5. u \in Known /\ ~(o.n < u.n)
  BY <1>0, <1>1, <1>3 DEF OlderGivenUp, Known
<1>6. ~(u.n < o.n) => u = o
  BY <1>0, <1>2, <1>3, <1>5 DEF Numbers
<1>7. ASSUME NEW r \in queue, r.uuid = u PROVE u = o
  <2>1. u # NoUuid /\ ~(att["next"].fence < stop.id)
    BY <1>0, <1>1 DEF Out, FenceHolds, IInv, TypeOK
  <2> QED BY <1>0, <1>1, <1>6, <1>7, <2>1 DEF Overtaken
<1>8. stopper.peek = {}
  BY <1>0 DEF Send, StopperWaits
<1>9. ASSUME NEW b \in Attempts, NEW r \in att[b].batch, r.uuid = u PROVE u = o
  <2>1. Past(b) /\ LineUuid(b) = u
    BY <1>0, <1>9, BatchUuid DEF Past
  <2>2. b # "spawn"
    BY <1>0, <2>1 DEF Send, OneResume, BatchRows, Past
  <2>3. CASE b = "mid"
    <3>1. o.n <= u.n
      BY <1>0, <1>1, <2>1, <2>3 DEF MidLast
    <3> QED BY <1>0, <1>2, <1>3, <1>5, <3>1 DEF Numbers
  <2> QED BY <2>1, <2>2, <2>3 DEF Attempts
<1>10. Done(u) => u = o
  BY <1>1, DoneAlone
<1> QED BY <1>7, <1>8, <1>9, <1>10, OutParts, BroughtDone

\* What was answered stays true until it is settled.
LEMMA AnswersTrueStep ==
  ASSUME Lone, LoneInv, [Next]_vars
  PROVE  AnswersTrue'
<1>0. /\ IInv /\ OneTurn /\ Numbered /\ OneDue /\ AnswersTrue
      /\ att \in [Attempts -> Attempt] /\ {"next", "spawn"} \subseteq Attempts
  BY DEF LoneInv, Attempts, IInv, TypeOK
<1>1. \A a \in Attempts : Carries(a) => LineUuid(a)' = LineUuid(a)
  BY DEF Carries, LineUuid
<1>2. ASSUME NEW a \in Attempts, NEW reply, reply \notin {"unknown", "superseded"},
             Replied(a, reply)'
      PROVE  /\ Replied(a, reply) \/ (Send(a) /\ Answer(a) = reply)
             /\ LineUuid(a)' = LineUuid(a)
  <2>1. Due(a)'
    BY <1>2 DEF Due, Replied
  <2> QED BY <1>0, <1>1, <1>2, <2>1, DueMoves DEF Due, Replied
<1>3. ASSUME Replied("next", "refused")' PROVE Agree'
  <2>1. CASE Replied("next", "refused")
    <3>1. ASSUME NEW x, Renewed(x) PROVE FALSE
      <4>1. PICK a \in Attempts : Replied(a, "unanswered")
        BY <3>1 DEF Renewed, SettleUnanswered
      <4> QED BY <1>0, <2>1, <4>1 DEF OneDue, Due, Replied
    <3> QED BY <1>0, <2>1, <3>1, AgreeStays DEF AnswersTrue
  <2>2. CASE Send("next") /\ Answer("next") = "refused"
    BY <1>0, <2>2, RefusedAgrees, SendKeeps DEF Agree
  <2> QED BY <1>0, <1>2, <1>3, <2>1, <2>2
<1>4. ASSUME NEW a \in Attempts, Replied(a, "unanswered")' PROVE GivenUp(LineUuid(a))'
  <2>1. GivenUp(LineUuid(a))
    BY <1>0, <1>2, <1>4, UnansweredGivenUp DEF AnswersTrue, Answer
  <2> QED BY <1>0, <1>2, <1>4, <2>1, GivenUpStays
<1>5. ASSUME NEW a \in {"next", "spawn"}, Replied(a, "refused")'
      PROVE  LineUuid(a)' \notin WireUuids'
  <2>1. CASE Replied(a, "refused")
    <3>1. LineUuid(a) \notin WireUuids
      BY <1>0, <2>1 DEF AnswersTrue
    <3>2. \A b \in Attempts : ~Send(b)
      BY <1>0, <2>1 DEF Send, AnswerDue, Replied
    <3> QED BY <1>0, <1>2, <1>5, <3>1, <3>2, WireMoves DEF WireUuids
  <2>2. CASE Send(a) /\ Answer(a) = "refused"
    <3>1. wire' = wire
      BY <2>2 DEF Send
    <3> QED BY <1>0, <1>2, <1>5, <2>2, <3>1, SentIsNew DEF WireUuids
  <2> QED BY <1>0, <1>2, <1>5, <2>1, <2>2
<1>6. ASSUME NEW reply \in {"written", "waiting"}, Replied("spawn", reply)', alive'
      PROVE  ~GivenUp(LineUuid("spawn"))'
  <2>1. LineUuid("spawn")' = LineUuid("spawn")
    BY <1>0, <1>2, <1>6
  <2>2. alive
    <3>1. att["spawn"].pc # "begun"
      BY <1>0, <1>2, <1>6 DEF Replied, Send
    <3> QED BY <1>0, <1>6, <3>1, ProcessMoves DEF SpawnStart, SpawnFails
  <2>3. ~GivenUp(LineUuid("spawn"))
    <3>1. CASE Replied("spawn", reply)
      BY <1>0, <1>6, <2>2, <3>1 DEF AnswersTrue
    <3>2. CASE Send("spawn") /\ Answer("spawn") = "written"
      BY <1>0, <3>2, SentIsNew
    <3>3. CASE Send("spawn") /\ Answer("spawn") = "waiting"
      BY <3>3 DEF Answer, Verdict, GivenUp
    <3> QED BY <1>0, <1>2, <1>6, <3>1, <3>2, <3>3
  <2> QED BY <1>0, <1>6, <2>1, <2>3, GivenUpMoves
<1> QED BY <1>3, <1>4, <1>5, <1>6 DEF AnswersTrue

\* While `mid' waits for its answer a resume writes no line of its own.
LEMMA ResumeUnwrittenStep ==
  ASSUME Lone, LoneInv, [Next]_vars
  PROVE  ResumeUnwritten'
<1>0. /\ IInv /\ OneEach /\ BatchRows /\ OneDue /\ OneResume /\ Detached /\ AnswersTrue
      /\ ResumeUnwritten /\ att \in [Attempts -> Attempt] /\ Idle.pc = "idle"
      /\ {"next", "mid", "spawn"} \subseteq Attempts
  BY DEF LoneInv, Attempts, IInv, TypeOK, Idle
<1>1. Moves("mid") /\ Moves("spawn")
  BY <1>0, AttemptMoves
<1>2. ASSUME att'["mid"].pc = "registered", att'["spawn"].pc \in {"begun", "registered"}
      PROVE  LineUuid("spawn")' \notin WireUuids'
  <2>1. ~Register("mid")
    <3>1. SUFFICES ASSUME Register("mid") PROVE FALSE
      OBVIOUS
    <3>2. att["spawn"].pc = "idle" /\ att'["spawn"] = att["spawn"]
      BY <1>0, <3>1 DEF Register, Set
    <3> QED BY <1>2, <3>2
  <2>2. att["mid"].pc = "registered"
    BY <1>0, <1>1, <1>2, <2>1 DEF Moves, Same, Resumes
  <2>3. PICK b \in {"next", "spawn"} :
          /\ LineUuid("spawn")' = LineUuid(b) /\ LineUuid(b) \notin WireUuids
    <3>1. CASE Same("spawn") \/ (SpawnStart /\ Carries("spawn"))
      <4>1. LineUuid("spawn")' = LineUuid("spawn")
        BY <3>1 DEF Same, Carries, LineUuid
      <4>2. att["spawn"].pc \in {"begun", "registered"}
        BY <1>2, <3>1 DEF Same, SpawnStart
      <4> QED BY <1>0, <2>2, <4>1, <4>2 DEF ResumeUnwritten
    <3>2. CASE Resumes
      <4>1. ~NoSession
        BY <1>0, <2>2 DEF NoSession, Detached
      <4>2. Replied("next", "refused") /\ LineUuid("spawn")' = LineUuid("next")
        BY <3>2, <4>1 DEF Resumes, SettleRefusedGone, LineUuid
      <4> QED BY <1>0, <4>2 DEF AnswersTrue
    <3> QED BY <1>0, <1>1, <1>2, <3>1, <3>2 DEF Moves
  <2>4. \A c \in Attempts : ~Send(c)
    <3>1. SUFFICES ASSUME NEW c \in Attempts, Send(c) PROVE FALSE
      OBVIOUS
    <3>2. att[c].pc = "registered" /\ att'[c].pc = "replied"
          /\ (c # "spawn" => att'["spawn"] = att["spawn"])
      BY <1>0, <3>1, SendKeeps DEF Send
    <3> QED BY <1>0, <1>2, <3>2 DEF OneResume, Attempts
  <2> QED BY <1>0, <2>3, <2>4, WireMoves DEF WireUuids
<1>3. ASSUME Replied("mid", "unanswered")', att'["spawn"].pc \in {"begun", "registered"}
      PROVE  FALSE
  <2>1. Replied("mid", "unanswered") \/ (Send("mid") /\ Answer("mid") = "unanswered")
    <3>1. Due("mid")'
      BY <1>3 DEF Due, Replied
    <3> QED BY <1>0, <1>3, <3>1, DueMoves DEF Due, Replied
  <2>2. CASE Replied("mid", "unanswered")
    <3>1. ~Resumes
      BY <1>0, <2>2 DEF Resumes, NoSession, SettleRefusedGone, Detached, OneDue, Due, Replied
    <3> QED BY <1>0, <1>1, <1>3, <2>2, <3>1 DEF Moves, Same, SpawnStart, ResumeUnwritten
  <2>3. CASE Send("mid") /\ Answer("mid") = "unanswered"
    <3>1. att["spawn"].pc \in {"begun", "registered"} /\ att["mid"].pc = "registered"
      BY <1>0, <1>3, <2>3, SendKeeps DEF Send
    <3>2. Agree
      BY <3>1, ResumeAgrees DEF Spent, Replied
    <3>3. LineUuid("mid") \in Out /\ LineUuid("spawn") \in Out
      BY <1>0, <3>1, BatchUuid DEF Past, IInv, AttemptsHold
    <3>4. LineUuid("mid") \in WireUuids
      BY <2>3, UnansweredGivenUp DEF Answer
    <3>5. LineUuid("spawn") \notin WireUuids
      BY <1>0, <3>1 DEF ResumeUnwritten
    <3> QED BY <3>2, <3>3, <3>4, <3>5 DEF Agree
  <2> QED BY <2>1, <2>2, <2>3
<1> QED BY <1>2, <1>3 DEF ResumeUnwritten, Replied

\* What goes out unasked did so before, unless it was just drawn or is the first.
LEMMA GreenMoves ==
  ASSUME Lone, LoneInv, [Next]_vars, NEW u, u # NoUuid, Green(u)'
  PROVE  \/ Green(u) /\ u \in Out
         \/ \E x \in queue' : Renewed(x) /\ x.uuid = u
         \/ Nothing
<1> DEFINE Goal == \/ Green(u) /\ u \in Out
                   \/ \E x \in queue' : Renewed(x) /\ x.uuid = u
                   \/ Nothing
<1>0. /\ IInv /\ OneEach /\ BatchRows /\ StopperWaits /\ Arrivals /\ BlankStart
      /\ "spawn" \in Attempts /\ {"next", "mid"} \subseteq Attempts
      /\ Idle.pc = "idle"
  BY DEF LoneInv, Attempts, Idle
<1>1. ASSUME NEW r \in queue, Waits(r), r.uuid = u, r.tries = 0 PROVE Goal
  BY <1>1 DEF Green, Out, InPlay
<1>2. ASSUME NEW a \in {"next", "mid"}, First(a), LineUuid(a) = u PROVE Goal
  <2>1. u \in Out
    BY <1>0, <1>2, BatchUuid DEF First, Past
  <2> QED BY <1>2, <2>1 DEF Green
<1>3. ASSUME NEW x \in queue', Waits(x), x.uuid = u, x.tries = 0 PROVE Goal
  <2>1. ASSUME NEW r \in queue, Still(x, r) PROVE Goal
    BY <1>1, <1>3, <2>1 DEF Still
  <2>2. ~JustMarked(x)
    BY <1>3 DEF JustMarked, MarkedFrom
  <2>3. ~JustStored(x)
    BY <1>3 DEF JustStored, NewRow
  <2>4. ~Reinserted(x)
    <3>1. \A a \in Attempts : \A c \in att[a].batch \cup hold.rows : c.tries # 0
      BY <1>0 DEF BatchRows
    <3> QED BY <1>0, <1>3, <3>1 DEF Reinserted, BackFrom
  <2> QED BY <1>0, <1>3, <2>1, <2>2, <2>3, <2>4, QueueMoves DEF Origin
<1>4. ASSUME NEW a \in {"next", "mid"}, First(a)', LineUuid(a)' = u PROVE Goal
  <2>0. Past(a)' /\ att'[a].batch # {}
    BY <1>4 DEF First, Past
  <2>1. ASSUME Past(a), LineUuid(a)' = LineUuid(a), att'[a].batch = att[a].batch PROVE Goal
    <3>1. Moves(a)
      BY <1>0, AttemptMoves
    <3>2. att[a].pc \in {"marked", "registered"}
      <4>1. ~Mark(a)
        BY <1>0, <2>1 DEF Mark, BatchRows, Past
      <4> QED BY <1>0, <1>4, <3>1, <4>1 DEF Moves, Same, Register, First
    <3> QED BY <1>2, <1>4, <2>1, <3>2 DEF First
  <2>2. ASSUME NEW r \in queue, NEW x \in queue', MarkedFrom(a, r, x), LineUuid(a)' = x.uuid
        PROVE  Goal
    <3>1. Waits(r) /\ r.tries = 0 /\ (r.uuid = u \/ r.uuid = NoUuid)
      BY <1>4, <2>2 DEF MarkedFrom, Waits, First
    <3> QED BY <1>0, <1>1, <3>1 DEF BlankStart
  <2> QED BY <1>0, <1>4, <2>0, <2>1, <2>2, LineMoves
<1> QED BY <1>3, <1>4 DEF Green

\* What is written is either no longer unasked, or not the one uuid left.
LEMMA UnwrittenStep ==
  ASSUME Lone, LoneInv, [Next]_vars
  PROVE  Unwritten'
<1>0. /\ IInv /\ OneEach /\ BatchRows /\ SentRows /\ Unwritten /\ CleanResend
      /\ {"next", "mid"} \subseteq Attempts
  BY DEF LoneInv, Attempts
<1> SUFFICES ASSUME NEW u \in Out', Green(u)', u \in WireUuids' PROVE FALSE
  BY DEF Unwritten
<1>1. u \in WireUuids \/ \E b \in Attempts : Send(b) /\ Answer(b) = "written" /\ LineUuid(b) = u
  <2>1. \A b \in Attempts : PipedLine(b).uuid = LineUuid(b)
    BY DEF PipedLine
  <2> QED BY <1>0, <2>1, WireMoves DEF WireUuids
<1>2. ASSUME NEW b \in Attempts, Send(b) PROVE Past(b) /\ LineUuid(b) \in Out
  BY <1>0, <1>2, BatchUuid DEF Send, Past, IInv, AttemptsHold
<1>3. ~Nothing
  BY <1>1, <1>2 DEF Nothing, Past, WireUuids
<1>4. \A x : Renewed(x) => x.uuid # u
  BY <1>1, <1>2, ResentMoves DEF Known
<1>5. Green(u) /\ u \in Out
  <2>1. u # NoUuid
    BY DEF Out
  <2> QED BY <1>3, <1>4, <2>1, GreenMoves
<1>6. PICK b \in Attempts : Send(b) /\ Answer(b) = "written" /\ LineUuid(b) = u
  BY <1>0, <1>1, <1>5 DEF Unwritten
<1>7. Clean(u) /\ Past(b)
  <2>1. alive
    BY <1>6 DEF Answer, Verdict
  <2> QED BY <1>0, <1>2, <1>5, <1>6, <2>1 DEF CleanResend
<1>8. /\ queue' = queue /\ att'[b].pc = "replied"
      /\ \A c \in Attempts : c # b => att'[c] = att[c]
  BY <1>0, <1>6, SendKeeps
<1>9. ASSUME NEW r \in queue', Waits(r), r.tries = 0 PROVE FALSE
  BY <1>0, <1>7, <1>8, <1>9 DEF Clean, AllGoing, SentRows
<1>10. ASSUME NEW c \in {"next", "mid"}, First(c)' PROVE FALSE
  BY <1>0, <1>7, <1>8, <1>10 DEF Clean, First, Past
<1> QED BY <1>9, <1>10 DEF Green

\* A row gets its second try when its first attempt may still be there.
LEMMA FirstAloneStep ==
  ASSUME Lone, LoneInv, [Next]_vars
  PROVE  FirstAlone'
<1>0. /\ IInv /\ OneEach /\ BatchRows /\ StopperWaits /\ Arrivals /\ BlankStart /\ FirstAlone
      /\ att \in [Attempts -> Attempt] /\ {"mid", "next", "spawn"} \subseteq Attempts
  BY DEF LoneInv, Attempts, IInv, TypeOK
<1>1. ASSUME NEW x \in queue', Waits(x), x.tries = 0, x.uuid # NoUuid,
             NEW a \in Attempts, Past(a)', LineUuid(a)' = x.uuid
      PROVE  FALSE
  <2>1. \A y : JustMarked(y) => queue' = {y} /\ y.tries # 0
    BY DEF JustMarked, MarkedFrom
  <2>2. PICK b \in Attempts : Past(b) /\ LineUuid(b) = x.uuid
    <3>1. ASSUME NEW r \in queue, NEW y \in queue', a # "spawn", MarkedFrom(a, r, y)
          PROVE  FALSE
      <4>1. JustMarked(y)
        BY <3>1 DEF JustMarked, Attempts
      <4>2. x = y /\ y.tries # 0
        BY <2>1, <4>1
      <4> QED BY <1>1, <4>2
    <3> QED BY <1>0, <1>1, <3>1, LineMoves DEF Past
  <2>3. x.uuid \in Known
    BY <1>0, <2>2, BatchUuid DEF Known
  <2>4. ~\E r \in queue : Still(x, r)
    BY <1>0, <1>1, <2>2 DEF FirstAlone, Still
  <2>5. ~JustStored(x) /\ ~JustMarked(x)
    BY <1>1, <2>1 DEF JustStored, NewRow
  <2>6. ~Renewed(x)
    BY <2>3, ResentMoves
  <2>7. ~Reinserted(x)
    <3>1. \A c \in Attempts : \A r \in att[c].batch \cup hold.rows : r.tries # 0
      BY <1>0 DEF BatchRows
    <3> QED BY <1>0, <1>1, <3>1 DEF Reinserted, BackFrom
  <2> QED BY <1>0, <2>4, <2>5, <2>6, <2>7, QueueMoves DEF Origin
<1>2. ASSUME Past("next")', Past("mid")', LineUuid("next")' = LineUuid("mid")',
             NEW y \in att'["mid"].batch
      PROVE  y.tries = 2
  <2>1. CASE /\ Past("next") /\ LineUuid("next")' = LineUuid("next")
             /\ Past("mid") /\ LineUuid("mid")' = LineUuid("mid")
             /\ att'["mid"].batch = att["mid"].batch
    BY <1>0, <1>2, <2>1 DEF FirstAlone
  <2>2. ASSUME NEW r \in queue, NEW x \in queue', MarkedFrom("mid", r, x),
               LineUuid("mid")' = x.uuid, att' = [att EXCEPT !["mid"] = att'["mid"]]
        PROVE  y.tries = 2
    <3>1. att'["next"] = att["next"]
      BY <1>0, <2>2
    <3>2. Past("next") /\ LineUuid("next")' = LineUuid("next")
      BY <1>2, <3>1 DEF Past, LineUuid
    <3>3. Waits(r) /\ r.uuid # NoUuid /\ x.uuid = r.uuid /\ y = x
      BY <1>0, <1>2, <2>2, <3>2 DEF MarkedFrom, Waits, BlankStart, Nothing, Past
    <3>4. r.tries # 0
      BY <1>0, <1>2, <2>2, <3>2, <3>3 DEF FirstAlone
    <3> QED BY <2>2, <3>3, <3>4 DEF MarkedFrom
  <2>3. ASSUME Mark("next"), att' = [att EXCEPT !["next"] = att'["next"]] PROVE FALSE
    <3>1. att'["mid"] = att["mid"]
      BY <1>0, <2>3
    <3> QED BY <1>0, <1>2, <2>3, <3>1 DEF Mark, BatchRows, Past
  <2> QED BY <1>0, <1>2, <2>1, <2>2, <2>3, LineMoves DEF Past, MarkedFrom
<1> QED BY <1>1, <1>2 DEF FirstAlone

\* What is refused to be resumed was neither given up nor can it go out unasked.
LEMMA RefusedAsks ==
  ASSUME LoneInv, Replied("next", "refused"), NEW u \in Out
  PROVE  ~GivenUp(u) /\ ~Green(u)
<1> DEFINE o == LineUuid("next")
<1>0. /\ IInv /\ OneEach /\ BatchRows /\ AnswersTrue /\ FirstAlone
      /\ {"next", "mid"} \subseteq Attempts
  BY DEF LoneInv, Attempts
<1>1. Past("next") /\ o \in Out
  BY <1>0, BatchUuid DEF Replied, Past, IInv, AttemptsHold
<1>2. u = o /\ u # NoUuid
  BY <1>0, <1>1 DEF AnswersTrue, Agree, Out
<1>3. ~GivenUp(u)
  BY <1>0, <1>2 DEF AnswersTrue, GivenUp, WireUuids
<1>4. ~\E r \in queue : Waits(r) /\ r.uuid = u /\ r.tries = 0
  BY <1>0, <1>1, <1>2 DEF FirstAlone
<1>5. ~First("next")
  BY DEF First, Replied
<1>6. ~(First("mid") /\ LineUuid("mid") = u)
  BY <1>0, <1>1, <1>2 DEF FirstAlone, First, Past
<1> QED BY <1>3, <1>4, <1>5, <1>6 DEF Green

\* While a uuid is to be left or may go out unasked, nothing has run.
LEMMA NotRunYet ==
  ASSUME LoneInv, NEW u \in Out, GivenUp(u) \/ Green(u)
  PROVE  (\A v : ~Done(v)) /\ Unsettled /\ arriving = {}
<1>0. Arrivals /\ BlankStart
  BY DEF LoneInv
<1>1. \A v : ~Done(v)
  BY DoneAlone
<1>2. Unsettled
  BY <1>1, BroughtDone DEF Unsettled
<1>3. \A e \in arriving : stored = {}
  BY <1>0, <1>1 DEF Arrivals
<1>4. arriving = {}
  BY <1>0, <1>3 DEF BlankStart, Nothing
<1> QED BY <1>1, <1>2, <1>4

\* A resume that takes over a line with no object there has the row to itself.
LEMMA ResumeIsClean ==
  ASSUME Lone, LoneInv, [Next]_vars, NoSession, NEW u \in Out, u \in Out',
         GivenUp(u) \/ Green(u)
  PROVE  Clean(u)'
<1>0. /\ IInv /\ Detached /\ BatchRows /\ DetachedGoing /\ OneUuid
      /\ {"next", "mid", "spawn"} \subseteq Attempts
      /\ att \in [Attempts -> Attempt] /\ Idle.batch = {}
  BY DEF LoneInv, Attempts, IInv, TypeOK, Idle
<1>1. /\ ~object /\ att["next"].pc = "marked"
      /\ UNCHANGED <<queue, untaken, answering, hold, view>>
      /\ att' = [att EXCEPT !["next"] = Idle,
                            !["spawn"] = [att["next"] EXCEPT !.pc = "begun"]]
  BY DEF NoSession, queueFile, registry
<1>2. /\ att["mid"].pc = "idle" /\ att["spawn"].pc = "idle"
      /\ untaken = {} /\ answering = {} /\ hold = NoHold /\ view = 0
  BY <1>0, <1>1 DEF Detached
<1>3. att'["next"].batch = {} /\ att'["mid"].batch = {}
  BY <1>0, <1>1, <1>2 DEF BatchRows
<1>4. AllGoing'
  BY <1>0, <1>1, NotRunYet DEF DetachedGoing, Past, IInv, AttemptsHold, AllGoing
<1>5. \A x \in queue' : ~Renewed(x)
  BY <1>1, <1>2 DEF Renewed, SettleUnanswered, Replied, Attempts
<1>6. Agree'
  BY <1>0, <1>1, <1>5, AgreeStays DEF OneUuid, Dead
<1> QED BY <1>1, <1>2, <1>3, <1>4, <1>6 DEF Clean, Past, Attempts, Agree

\* Who is at work.
LEMMA CleanOne ==
  ASSUME Lone, LoneInv, [Next]_vars, NEW u \in Out, Clean(u),
         NEW a \in Attempts, NEW b \in Attempts, Past(a)', Past(b)'
  PROVE  a = b
<1>0. att \in [Attempts -> Attempt] /\ Idle.batch = {}
  BY DEF LoneInv, IInv, TypeOK, Idle
<1>1. Resumes => att'["next"].batch = {}
  BY <1>0 DEF Resumes
<1>2. ASSUME NEW c \in Attempts, Past(c), NEW d, NEW r \in queue, NEW x, MarkedFrom(d, r, x)
      PROVE  FALSE
  BY <1>2 DEF Clean, AllGoing, MarkedFrom, Waits
<1>3. ASSUME NEW c \in Attempts, Past(c)'
      PROVE  \/ Past(c)
             \/ c = "spawn" /\ Past("next") /\ Resumes
             \/ /\ att' = [att EXCEPT ![c] = att'[c]]
                /\ \A d \in Attempts : ~Past(d)
  BY <1>2, <1>3, LineMoves DEF Past
<1>4. ASSUME NEW c \in Attempts, NEW d \in Attempts, Past(d)',
             att' = [att EXCEPT ![c] = att'[c]], \A e \in Attempts : ~Past(e)
      PROVE  c = d
  BY <1>0, <1>4 DEF Past
<1>5. CASE Past(a) /\ Past(b)
  BY <1>5 DEF Clean
<1>6. ASSUME NEW c \in Attempts, Past(c), Past("next"), Resumes, Past(c)' PROVE FALSE
  <2>1. c = "next"
    BY <1>6 DEF Clean, Attempts
  <2> QED BY <1>1, <1>6, <2>1 DEF Past
<1> QED BY <1>3, <1>4, <1>5, <1>6

\* While an attempt is at work, every row it may be about is being delivered.
LEMMA CleanGoing ==
  ASSUME Lone, LoneInv, [Next]_vars, NEW u \in Out, Clean(u), GivenUp(u) \/ Green(u),
         alive \/ att["spawn"].pc = "begun", NEW a \in Attempts, Past(a)'
  PROVE  AllGoing'
<1>0. /\ IInv /\ OneEach /\ BatchRows /\ StopperWaits /\ Arrivals /\ LoadsFirst
      /\ "spawn" \in Attempts /\ "next" \in Attempts
      /\ att \in [Attempts -> Attempt] /\ Idle.batch = {}
  BY DEF LoneInv, Attempts, IInv, TypeOK, Idle
<1>1. CASE \E r \in queue : \E x : MarkedFrom(a, r, x)
  BY <1>1 DEF MarkedFrom, AllGoing
<1>2. ASSUME NEW b \in Attempts, Past(b) PROVE AllGoing'
  <2>1. AllGoing /\ \A c \in Attempts : Past(c) => c = b
    BY <1>2 DEF Clean
  <2>2. ~Store
    BY NotRunYet DEF Store
  <2>3. \A c \in Attempts : Past(c) => ~(att' = [att EXCEPT ![c] = Idle])
    BY <1>0, <2>1 DEF Past
  <2>4. ASSUME NEW c \in Attempts
        PROVE  /\ ~SettleUnknown(c) /\ ~SettleUnanswered(c) /\ ~SettleRefusedStopped(c)
               /\ ~SettleRefusedEnded(c)
    BY <1>0, <2>3 DEF SettleUnknown, SettleUnanswered, SettleRefusedStopped,
                      SettleRefusedEnded, Replied, Set, Past, IInv, AttemptsHold
  <2>5. ASSUME NEW c \in Attempts PROVE ~SettleRefusedGone(c)
    <3>1. CASE c = "mid"
      BY <1>0, <2>3, <3>1 DEF SettleRefusedGone, Replied, Set, Past, IInv, AttemptsHold
    <3>2. CASE c = "next"
      BY <3>2, RefusedAsks DEF SettleRefusedGone
    <3> QED BY <3>1, <3>2 DEF SettleRefusedGone, Attempts
  <2>6. ~SpawnFails /\ ~SettleSpawnDead
    BY <1>0, <2>3 DEF SpawnFails, SettleSpawnDead, Replied, Set, Past, IInv, AttemptsHold
  <2>7. ~ReadHold /\ ~DropHold
    BY DEF ReadHold, DropHold, Clean
  <2>8. ~SeeExit
    BY DEF SeeExit, Clean
  <2>9. ~Load
    BY <1>0, <1>2 DEF Load, LoadsFirst, BatchRows, Past
  <2> QED BY <1>0, <2>1, <2>2, <2>4, <2>5, <2>6, <2>7, <2>8, <2>9, GoingStays DEF Reverts
<1> QED BY <1>1, <1>2, LineMoves DEF Past

\* What is all there is about a uuid stays so.
LEMMA CleanStays ==
  ASSUME Lone, LoneInv, [Next]_vars, NEW u \in Out, u \in Out', GivenUp(u) \/ Green(u),
         alive \/ att["spawn"].pc = "begun"
  PROVE  Clean(u)'
<1>0. /\ IInv /\ OneEach /\ BatchRows /\ SentRows /\ Detached /\ AnswersTrue /\ CleanResend
      /\ NoProcess' /\ {"next", "mid", "spawn"} \subseteq Attempts
  BY NoProcessStep DEF LoneInv, Attempts
<1>1. Clean(u)
  BY <1>0 DEF CleanResend
<1>2. \A a \in Attempts : Past(a) => LineUuid(a) = u
  BY <1>0, <1>1, BatchUuid DEF Clean
<1>3. \A v \in Out' : v = u
  <2>1. ASSUME NEW x \in queue', Renewed(x) PROVE FALSE
    <3>1. x.uuid = u
      BY <2>1, ResendClears
    <3> QED BY <2>1, <3>1, ResentMoves DEF Known
  <2> QED BY <1>1, <2>1, AgreeStays DEF Agree, Clean
<1>4. hold' = NoHold
  <2>1. SUFFICES ASSUME SettleWritten("spawn") PROVE FALSE
    BY <1>0, <1>1, HoldMoves DEF Clean
  <2>2. Past("spawn") /\ alive
    BY <1>0, <2>1 DEF SettleWritten, Replied, Past, IInv, AttemptsHold
  <2>3. ~GivenUp(u)
    BY <1>0, <1>2, <2>1, <2>2 DEF AnswersTrue, SettleWritten
  <2>4. AllGoing /\ \A a \in {"next", "mid"} : ~Past(a)
    BY <1>0, <1>1, <2>2 DEF Clean
  <2>5. ~\E r \in queue : Waits(r) /\ r.tries = 0
    BY <1>0, <2>4 DEF AllGoing, SentRows
  <2> QED BY <2>3, <2>4, <2>5 DEF Green, First, Past
<1>5. \A l \in untaken' \cup answering' : l.uuid = u
  BY <1>0, <1>1, <1>2, RegistryMoves DEF Clean
<1>6. view' \in {0, proc'}
  BY <1>0, <1>1, ProcessMoves DEF Clean, SpawnStart, SpawnFails
<1>7. ASSUME att'["spawn"].pc = "begun" PROVE view' = 0
  <2>1. Moves("spawn")
    BY <1>0, AttemptMoves
  <2>2. CASE Same("spawn")
    <3>1. view = 0 /\ ~alive'
      BY <1>0, <1>1, <1>7, <2>2 DEF Same, Clean, NoProcess
    <3> QED BY <1>0, <3>1, ProcessMoves
  <2>3. CASE Resumes
    <3>1. ~SettleRefusedGone("next")
      BY RefusedAsks DEF SettleRefusedGone
    <3> QED BY <1>0, <2>3, <3>1 DEF Resumes, NoSession, Detached
  <2> QED BY <1>7, <2>1, <2>2, <2>3 DEF Moves, Idle
<1> QED BY <1>1, <1>3, <1>4, <1>5, <1>6, <1>7, CleanOne, CleanGoing DEF Clean

\* A process is started for one uuid, and what goes out unasked is that one.
LEMMA CleanResendStep ==
  ASSUME Lone, LoneInv, [Next]_vars
  PROVE  CleanResend'
<1>0. /\ IInv /\ OneEach /\ BatchRows /\ StopperWaits /\ Arrivals /\ RanShown /\ BlankStart
      /\ NoProcess /\ OneResume /\ "spawn" \in Attempts /\ "next" \in Attempts
      /\ Idle.pc = "idle"
      /\ att \in [Attempts -> Attempt]
  BY DEF LoneInv, Attempts, Idle, IInv, TypeOK
<1> SUFFICES ASSUME NEW u \in Out', GivenUp(u)' \/ Green(u)',
                    alive' \/ att'["spawn"].pc = "begun"
             PROVE  Clean(u)'
  BY DEF CleanResend
<1>1. alive \/ att["spawn"].pc = "begun" \/ Resumes
  <2>1. Moves("spawn")
    BY <1>0, AttemptMoves
  <2>2. att'["spawn"].pc = "begun" => att["spawn"].pc = "begun" \/ Resumes
    BY <1>0, <2>1 DEF Moves, Same
  <2> QED BY <1>0, <2>2, ProcessMoves DEF SpawnStart, SpawnFails
<1>2. ~Nothing
  BY <1>0, <1>1 DEF Nothing, Resumes, IInv, AttemptsHold
<1>3. ASSUME NEW x \in queue', Renewed(x), u = x.uuid PROVE Clean(u)'
  <2>1. PICK a \in Attempts : SettleUnanswered(a)
    BY <1>3, ResentMoves
  <2>2. att' = [att EXCEPT ![a] = Idle]
    BY <2>1 DEF SettleUnanswered, Set
  <2>3. ~Resumes
    <3>1. SUFFICES ASSUME Resumes PROVE FALSE
      OBVIOUS
    <3>2. a = "next" /\ att'["spawn"] = att["spawn"]
      BY <1>0, <2>2, <3>1 DEF Resumes
    <3>3. att["spawn"].pc = "idle"
      BY <1>0, <2>1, <3>2 DEF OneResume, SettleUnanswered, Replied
    <3> QED BY <3>1, <3>2, <3>3 DEF Resumes
  <2> QED BY <1>1, <1>3, <2>3, ResendClears DEF Clean, Past
<1>4. GivenUp(u)' => GivenUp(u)
  <2>1. SUFFICES ASSUME alive, ~alive' PROVE FALSE
    BY <1>0, GivenUpMoves
  <2>2. ~Resumes
    BY <1>0, <2>1 DEF Resumes, NoSession, SettleRefusedGone, NoProcess
  <2>3. Moves("spawn")
    BY <1>0, AttemptMoves
  <2> QED BY <1>0, <2>1, <2>2, <2>3 DEF Moves, Same, NoProcess
<1>5. u # NoUuid
  BY DEF Out
<1>6. ASSUME \A x \in queue' : Renewed(x) => x.uuid # u PROVE Clean(u)'
  <2>1. Green(u)' => Green(u) /\ u \in Out
    BY <1>2, <1>5, <1>6, GreenMoves
  <2>2. u \in Out
    <3>1. DropHold /\ u \in HeldUuids => ~GivenUp(u)
      BY HeldIsLatest
    <3> QED BY <1>0, <1>2, <1>4, <1>6, <2>1, <3>1, OutMoves DEF BlankStart
  <2>3. GivenUp(u) \/ Green(u)
    BY <1>4, <2>1
  <2>4. CASE alive \/ att["spawn"].pc = "begun"
    BY <2>2, <2>3, <2>4, CleanStays
  <2>5. CASE NoSession
    BY <2>2, <2>3, <2>5, ResumeIsClean
  <2>6. ~SettleRefusedGone("next")
    BY <2>2, <2>3, RefusedAsks DEF SettleRefusedGone
  <2> QED BY <1>1, <2>4, <2>5, <2>6 DEF Resumes
<1> QED BY <1>3, <1>6

-----------------------------------------------------------------------------
(* Answered once *)

\* At first there is nothing.
LEMMA LoneInit ==
  ASSUME Init
  PROVE  LoneInv
<1>1. /\ queue = {} /\ stopper = AtEase /\ arriving = {} /\ untaken = {} /\ answering = {}
      /\ hold = NoHold /\ ~object /\ view = 0 /\ loaded /\ ~alive /\ wire = {} /\ stored = {}
      /\ \A a \in Attempts : att[a] = Idle
      /\ settled = [m \in Messages |-> NoUuid]
  BY DEF Init
<1>2. /\ stopper.pc = "idle" /\ stopper.peek = {} /\ hold.rows = {}
      /\ {"next", "mid", "spawn"} \subseteq Attempts
      /\ \A a \in Attempts : att[a].pc = "idle" /\ att[a].batch = {} /\ att[a].reply = "none"
  BY <1>1 DEF AtEase, NoHold, Idle, Attempts
<1>3. IInv
  BY InitIInv
<1>4. OneResume
  BY <1>1, <1>2 DEF OneResume
<1>5. OneTurn /\ Numbered /\ RanShown
  BY <1>1, <1>2 DEF OneTurn, Numbered, RanShown, Replied
<1>6. InPlay = {} /\ Out = {} /\ HeldUuids = {} /\ WireUuids = {} /\ Known = {}
  BY <1>1, <1>2 DEF InPlay, Out, HeldUuids, WireUuids, Known
<1>7. OneEach /\ Detached /\ LoadsFirst /\ BatchRows /\ StopperWaits
  BY <1>1, <1>2 DEF OneEach, Single, Detached, LoadsFirst, BatchRows, StopperWaits
<1>8. FencesBehind /\ NoProcess /\ OneDue /\ SentRows
  BY <1>1, <1>2 DEF FencesBehind, NoProcess, Replied, OneDue, Due, SentRows
<1>9. Arrivals /\ SettledRan
  BY <1>1 DEF Arrivals, Single, SettledRan
<1>10. Nothing
  BY <1>1, <1>2, <1>6 DEF Nothing
<1>11. BlankStart /\ OneFence /\ DetachedGoing /\ Distinct
  BY <1>1, <1>2, <1>6, <1>10 DEF BlankStart, OneFence, DetachedGoing, Past, Distinct
<1>12. OneUuid /\ LatestGoesOut /\ OlderGivenUp /\ Numbers
  BY <1>6 DEF OneUuid, Agree, LatestGoesOut, OlderGivenUp, Numbers
<1>13. Overtaken /\ MidLast /\ AnswersTrue /\ ResumeUnwritten
  BY <1>1, <1>2 DEF Overtaken, MidLast, Past, AnswersTrue, Replied, ResumeUnwritten
<1>14. Unwritten /\ FirstAlone /\ CleanResend
  BY <1>1, <1>2, <1>6 DEF Unwritten, FirstAlone, Past, CleanResend
<1> QED BY <1>3, <1>4, <1>5, <1>7, <1>8, <1>9, <1>11, <1>12, <1>13, <1>14 DEF LoneInv

\* Every step keeps what holds of a message that is alone.
LEMMA LoneStep ==
  ASSUME Lone, LoneInv, [Next]_vars
  PROVE  LoneInv'
<1>1. IInv /\ OneResume /\ OneTurn /\ Numbered /\ RanShown
  BY DEF LoneInv
<1>2. IInv' /\ OneResume' /\ OneTurn' /\ Numbered' /\ RanShown'
  BY <1>1, IInvStep, OneResumeStep, OneTurnStep, RanShownStep
<1>3. OneEach' /\ Detached' /\ LoadsFirst' /\ BatchRows' /\ StopperWaits' /\ FencesBehind'
  BY OneEachStep, DetachedStep, LoadsFirstStep, BatchRowsStep, StopperWaitsStep,
     FencesBehindStep
<1>4. NoProcess' /\ OneDue' /\ SentRows' /\ Arrivals' /\ SettledRan' /\ BlankStart' /\ OneFence'
  BY NoProcessStep, OneDueStep, SentRowsStep, ArrivalsStep, SettledRanStep, BlankStartStep,
     OneFenceStep
<1>5. DetachedGoing' /\ Distinct' /\ OneUuid' /\ LatestGoesOut' /\ OlderGivenUp' /\ Numbers'
  BY DetachedGoingStep, DistinctStep, OneUuidStep, LatestGoesOutStep, OlderGivenUpStep,
     NumbersStep
<1>6. Overtaken' /\ MidLast' /\ AnswersTrue' /\ ResumeUnwritten' /\ Unwritten' /\ FirstAlone'
  BY OvertakenStep, MidLastStep, AnswersTrueStep, ResumeUnwrittenStep, UnwrittenStep,
     FirstAloneStep
<1>7. CleanResend'
  BY CleanResendStep
<1> QED BY <1>2, <1>3, <1>4, <1>5, <1>6, <1>7 DEF LoneInv

\* Of two answered lines neither was given up, so they are of one uuid.
LEMMA LoneAnswer ==
  ASSUME LoneInv
  PROVE  AnsweredOnce
<1>0. IInv /\ Distinct /\ OlderGivenUp /\ Numbers
  BY DEF LoneInv
<1> SUFFICES ASSUME NEW v \in wire, NEW w \in wire, v.st = "answered", w.st = "answered"
             PROVE  v = w
  BY DEF AnsweredOnce
<1>1. v.uuid \in Known /\ w.uuid \in Known
  BY DEF Known, WireUuids
<1>2. ~GivenUp(v.uuid) /\ ~GivenUp(w.uuid)
  BY <1>0 DEF Distinct, GivenUp
<1>3. v.uuid.n \in Nat /\ w.uuid.n \in Nat
  BY <1>0, <1>1, KnownTypes
<1>4. v.uuid.n = w.uuid.n
  BY <1>0, <1>1, <1>2, <1>3 DEF OlderGivenUp
<1> QED BY <1>0, <1>1, <1>4 DEF Numbers, Distinct

\* AnsweredOnce: a message that is alone in its session, that nobody retries or
\* restarts the CLI for, is answered in one line only, however its deliveries, its
\* resumes, its stops and the server's restarts fall, and whatever answers are lost.
THEOREM AloneAnsweredOnce ==
  ASSUME Lone
  PROVE  Spec => []AnsweredOnce
<1>1. Init => LoneInv
  BY LoneInit
<1>2. LoneInv /\ [Next]_vars => LoneInv'
  BY LoneStep
<1>3. LoneInv => AnsweredOnce
  BY LoneAnswer
<1> QED BY <1>1, <1>2, <1>3, PTL DEF Spec

-----------------------------------------------------------------------------
(* A message that is alone, given back and never deleted, stays out *)

Freed(m) == "freed" \in told[m]

\* The server knows the running process, and no answer says there is none.
Attended == view = proc /\ \A a \in Attempts : ~Replied(a, "refused")

\* A resume that was started believes in its process, ...
SpawnSees ==
  att["spawn"].pc \in {"registered", "replied"} =>
    att["spawn"].pid = proc /\ (alive => Attended)

\* ... and so does the hold it leaves, until another process is started.
HoldSees ==
  hold # NoHold => hold.pid <= proc /\ (alive /\ hold.pid = proc => Attended)

\* What waits in a pipe waits in that of the running process.
PipedHere == \A v \in wire : v.st = "piped" => Live(v)

\* A relayed message is enqueued without a uuid.
RelaysFirst == \A e \in arriving : e.id \in Phone => e.uuid = NoUuid

\* What the queue file says was given back was, and only phone messages are.
FatesTold ==
  \A m \in Messages : /\ fate[m] \in {"withdrawn", "fenced"} => Freed(m)
                      /\ Freed(m) => m \in Phone

-----------------------------------------------------------------------------

\* A resume has the process it started.
LEMMA ResumePid ==
  ASSUME IInv, [Next]_vars, att'["spawn"].pc \in {"registered", "replied"}
  PROVE  \/ SpawnStart /\ att'["spawn"].pid = proc'
         \/ /\ att["spawn"].pc \in {"registered", "replied"}
            /\ att'["spawn"].pid = att["spawn"].pid
<1> DEFINE Goal == \/ SpawnStart /\ att'["spawn"].pid = proc'
                   \/ /\ att["spawn"].pc \in {"registered", "replied"}
                      /\ att'["spawn"].pid = att["spawn"].pid
<1> USE DEF Set, Replied
<1>0. /\ att \in [Attempts -> Attempt] /\ att["spawn"] \in Attempt /\ Idle.pc = "idle"
      /\ "spawn" \in Attempts
  BY DEF IInv, TypeOK, Attempts, Idle
<1>1. ASSUME att'["spawn"] = att["spawn"] PROVE Goal
  BY <1>1
<1>2. ASSUME NEW a \in Attempts, NEW v, Set(a, v), a # "spawn" PROVE Goal
  BY <1>0, <1>1, <1>2
<1>3. ASSUME NEW a \in Attempts, Set(a, Idle) PROVE Goal
  BY <1>0, <1>1, <1>3
<1>4. CASE Intake
  BY <1>1, <1>4 DEF Intake, Store, Revive, ParkStale, Arrive, Relay, Retry, Delete, Withdraw
<1>5. ASSUME NEW a \in {"next", "mid"}, DeliverLive(a) PROVE Goal
  <2>1. a \in Attempts /\ a # "spawn"
    BY DEF Attempts
  <2>2. CASE att' = [att EXCEPT !["next"] = Idle,
                 !["spawn"] = [att["next"] EXCEPT !.pc = "begun", !.reply = "none"]]
    <3>1. att'["spawn"] = [att["next"] EXCEPT !.pc = "begun", !.reply = "none"]
      BY <1>0, <2>2
    <3>2. att["next"] \in Attempt
      BY <1>0 DEF Attempts
    <3>3. att'["spawn"].pc = "begun"
      BY <3>1, <3>2 DEF Attempt
    <3> QED BY <3>3
  <2> QED BY <1>2, <1>5, <2>1, <2>2
          DEF DeliverLive, Begin, Mark, Register, SettleRefusedStopped, SettleRefusedEnded,
              SettleRefusedGone
<1>6. ASSUME NEW a \in Attempts, Deliver(a) PROVE Goal
  <2>1. CASE a # "spawn"
    BY <1>2, <1>6, <2>1
    DEF Deliver, Send, LoseAnswer, SettleWritten, SettleTaking, SettleRan, SettleUnanswered,
        SettleCancelled, SettleSuperseded, SettleUnknown
  <2>2. CASE a = "spawn" /\ (Send(a) \/ LoseAnswer(a))
    <3>1. PICK rp : att'["spawn"] = [att["spawn"] EXCEPT !.pc = "replied", !.reply = rp]
      BY <1>0, <2>2 DEF Send, LoseAnswer
    <3>2. att'["spawn"].pid = att["spawn"].pid
      BY <1>0, <3>1 DEF Attempt
    <3>3. att["spawn"].pc \in {"registered", "replied"}
      BY <2>2 DEF Send, LoseAnswer
    <3> QED BY <3>2, <3>3
  <2> QED BY <1>3, <1>6, <2>1, <2>2
          DEF Deliver, SettleWritten, SettleTaking, SettleRan, SettleUnanswered,
              SettleCancelled, SettleSuperseded, SettleUnknown
<1>7. CASE Resume
  <2>1. CASE NoSession
    <3>1. att'["spawn"] = [att["next"] EXCEPT !.pc = "begun"]
      BY <1>0, <2>1 DEF NoSession
    <3>2. att["next"] \in Attempt
      BY <1>0 DEF Attempts
    <3>3. att'["spawn"].pc = "begun"
      BY <3>1, <3>2 DEF Attempt
    <3> QED BY <3>3
  <2>2. CASE SpawnStart
    <3>1. att'["spawn"] = [att["spawn"] EXCEPT !.pc = "registered", !.pid = proc']
      BY <1>0, <2>2 DEF SpawnStart
    <3>2. att'["spawn"].pid = proc'
      BY <1>0, <3>1 DEF Attempt
    <3> QED BY <2>2, <3>2
  <2> QED BY <1>0, <1>1, <1>3, <1>7, <2>1, <2>2
          DEF Resume, Attach, SpawnFails, SpawnRefused, SettleSpawnDead, ReadHold, DropHold,
              RecoveryEnds
<1>8. CASE Cli \/ Frames
  BY <1>1, <1>8
  DEF Cli, Take, AnswerLines, Die, Frames, ReadStart, ReadAnswer, ReadCancelled, SeeExit
<1>9. CASE Stopping
  <2>1. CASE Interrupt
    <3>1. att'["spawn"] = IF att["spawn"].pc \in {"registered", "replied"}
                            THEN [att["spawn"] EXCEPT !.stopped = TRUE] ELSE att["spawn"]
      BY <1>0, <2>1 DEF Interrupt
    <3>2. /\ [att["spawn"] EXCEPT !.stopped = TRUE].pc = att["spawn"].pc
          /\ [att["spawn"] EXCEPT !.stopped = TRUE].pid = att["spawn"].pid
      BY <1>0 DEF Attempt
    <3> QED BY <3>1, <3>2
  <2> QED BY <1>1, <1>9, <2>1 DEF Stopping, StopAsk, StopPeek, StopPark, StopSend, StopFails
<1>10. CASE Restarting
  <2>1. CASE Restart
    BY <1>0, <2>1 DEF Restart
  <2> QED BY <1>1, <1>10, <2>1 DEF Restarting, RestartCli, Load
<1>11. CASE UNCHANGED vars
  BY <1>1, <1>11 DEF vars
<1> QED BY <1>4, <1>5, <1>6, <1>7, <1>8, <1>9, <1>10, <1>11 DEF Next

\* The server gives a process up when it sees its exit, or restarts; it turns to
\* none but the one that runs.
LEMMA ViewMoves ==
  ASSUME IInv, [Next]_vars
  PROVE  view' \in {view, proc'} \/ SeeExit \/ Restart \/ \E a \in Attempts : Replied(a, "refused")
<1> DEFINE Goal == \/ view' \in {view, proc'} \/ SeeExit \/ Restart
                   \/ \E a \in Attempts : Replied(a, "refused")
<1>1. ASSUME view' \in {view, proc'} PROVE Goal
  BY <1>1
<1>4. CASE Intake
  BY <1>1, <1>4 DEF Intake, Store, Revive, ParkStale, Arrive, Relay, Retry, Delete, Withdraw
<1>5. ASSUME NEW a \in {"next", "mid"}, DeliverLive(a) PROVE Goal
  BY <1>1, <1>5 DEF Attempts, DeliverLive, Begin, Mark, Register, SettleRefusedStopped,
                    SettleRefusedEnded, SettleRefusedGone
<1>6. ASSUME NEW a \in Attempts, Deliver(a) PROVE Goal
  BY <1>1, <1>6
    DEF Deliver, Send, LoseAnswer, SettleWritten, SettleTaking, SettleRan, SettleUnanswered,
        SettleCancelled, SettleSuperseded, SettleUnknown, host
<1>8. CASE Resume
  BY <1>1, <1>8 DEF Resume, Attach, NoSession, SpawnStart, SpawnFails, SpawnRefused,
              SettleSpawnDead, ReadHold, DropHold, RecoveryEnds, Attempts, host
<1>9. CASE Cli \/ Frames
  BY <1>1, <1>9 DEF Cli, Take, AnswerLines, Die, Frames, ReadStart, ReadAnswer, ReadCancelled
<1>10. CASE Stopping
  BY <1>1, <1>10 DEF Stopping, Interrupt, StopAsk, StopPeek, StopPark, StopSend, StopFails
<1>11. CASE Restarting
  BY <1>1, <1>11 DEF Restarting, RestartCli, Load
<1>12. CASE UNCHANGED vars
  BY <1>1, <1>12 DEF vars
<1> QED BY <1>4, <1>5, <1>6, <1>8, <1>9, <1>10, <1>11, <1>12 DEF Next

\* While it runs, a process the server attends to is attended to.
LEMMA AttendedStays ==
  ASSUME IInv, [Next]_vars, ~Restart, alive, Attended
  PROVE  proc' = proc /\ Attended'
<1>0. {"spawn", "next"} \subseteq Attempts
  BY DEF Attempts
<1>1. proc' = proc
  <2>1. SpawnStart \/ SpawnFails => proc' = proc
    BY DEF SpawnStart, SpawnFails
  <2> QED BY <2>1, ProcessMoves
<1>2. view' = proc'
  <2>1. ~SeeExit /\ ~\E a \in Attempts : Replied(a, "refused")
    BY DEF SeeExit, Attended
  <2> QED BY <1>1, <2>1, ViewMoves DEF Attended
<1>3. ASSUME NEW a \in Attempts, Replied(a, "refused")' PROVE FALSE
  <2>1. Due(a)'
    BY <1>3 DEF Due, Replied
  <2>2. CASE Due(a) /\ att'[a].reply = att[a].reply
    BY <1>3, <2>2 DEF Due, Replied, Attended
  <2>3. CASE Send(a) /\ att'[a].reply = Answer(a)
    BY <1>3, <2>3 DEF Replied, Answer, Verdict
  <2> QED BY <2>1, <2>2, <2>3, DueMoves
<1> QED BY <1>1, <1>2, <1>3 DEF Attended

\* The process a resume started is the one it knows.
LEMMA SpawnSeesStep ==
  ASSUME Lone, LoneInv, [Next]_vars, SpawnSees
  PROVE  SpawnSees'
<1>0. IInv /\ att \in [Attempts -> Attempt] /\ "spawn" \in Attempts /\ Idle.pc = "idle"
  BY DEF LoneInv, IInv, TypeOK, Attempts, Idle
<1> SUFFICES ASSUME att'["spawn"].pc \in {"registered", "replied"}
             PROVE  att'["spawn"].pid = proc' /\ (alive' => Attended')
  BY DEF SpawnSees
<1>1. CASE SpawnStart
  <2>1. att'["spawn"].pid = proc' /\ view' = proc'
    <3>1. att'["spawn"] = [att["spawn"] EXCEPT !.pc = "registered", !.pid = proc']
      BY <1>0, <1>1 DEF SpawnStart, Set
    <3>2. att["spawn"] \in Attempt
      BY <1>0
    <3>3. att'["spawn"].pid = proc'
      BY <3>1, <3>2 DEF Attempt
    <3> QED BY <1>1, <3>3 DEF SpawnStart
  <2>2. ASSUME NEW a \in Attempts, Replied(a, "refused")' PROVE FALSE
    <3>1. ~Due(a)
      BY <1>1 DEF SpawnStart, Due, AnswerDue
    <3>2. Send(a) => Answer(a) # "refused"
      BY <1>1 DEF SpawnStart, Send, Answer, Verdict
    <3> QED BY <1>0, <2>2, <3>1, <3>2, DueMoves DEF Due, Replied
  <2> QED BY <2>1, <2>2 DEF Attended
<1>2. CASE ~SpawnStart
  <2>1. /\ att["spawn"].pc \in {"registered", "replied"}
        /\ att'["spawn"].pid = att["spawn"].pid
    BY <1>0, <1>2, ResumePid
  <2>2. ~SpawnFails /\ ~Restart
    BY <1>0, <2>1 DEF SpawnFails, Restart
  <2>3. proc' = proc /\ (alive' => alive)
    BY <1>0, <1>2, <2>2, ProcessMoves
  <2> QED BY <1>0, <2>1, <2>2, <2>3, AttendedStays DEF SpawnSees
<1> QED BY <1>1, <1>2

\* A hold's process is the one the server knows, unless another was started.
LEMMA HoldSeesStep ==
  ASSUME Lone, LoneInv, [Next]_vars, SpawnSees, HoldSees
  PROVE  HoldSees'
<1>0. /\ IInv /\ proc \in Nat /\ proc' \in Nat /\ hold.pid \in Nat
      /\ "spawn" \in Attempts /\ att["spawn"] \in Attempt
  <2>1. IInv'
    BY IInvStep DEF LoneInv
  <2> QED BY <2>1 DEF LoneInv, IInv, TypeOK, Attempts
<1> SUFFICES ASSUME hold' # NoHold
             PROVE  hold'.pid <= proc' /\ (alive' /\ hold'.pid = proc' => Attended')
  BY DEF HoldSees
<1>1. ~Restart
  BY DEF Restart
<1>2. CASE hold' = hold
  <2>1. ~SpawnStart
    BY <1>2 DEF SpawnStart
  <2>2. CASE SpawnFails /\ proc' # proc
    <3>1. proc' = proc + 1
      BY <2>2 DEF SpawnFails
    <3> QED BY <1>0, <1>2, <3>1 DEF HoldSees
  <2>3. CASE ~SpawnFails \/ proc' = proc
    <3>1. SpawnFails => (UNCHANGED <<alive, proc>>) \/ proc' = proc + 1
      BY DEF SpawnFails
    <3>2. proc + 1 # proc
      BY <1>0
    <3>3. proc' = proc /\ (alive' => alive)
      BY <1>0, <2>1, <2>3, <3>1, <3>2, ProcessMoves
    <3> QED BY <1>0, <1>1, <1>2, <3>3, AttendedStays DEF HoldSees
  <2> QED BY <2>2, <2>3
<1>3. CASE SettleWritten("spawn") /\ hold' = [rows |-> att["spawn"].batch, pid |-> att["spawn"].pid]
  <2>1. att["spawn"].pc = "replied" /\ hold'.pid = att["spawn"].pid
    BY <1>3 DEF SettleWritten, Replied
  <2>2. proc' = proc /\ alive' = alive
    BY <1>3 DEF SettleWritten, host
  <2> QED BY <1>0, <1>1, <2>1, <2>2, AttendedStays DEF SpawnSees
<1> QED BY <1>0, <1>2, <1>3, HoldMoves

\* Line v is what became of line w, in a process that still reads what it had.
Becomes(w, v) ==
  /\ v.uuid = w.uuid /\ v.pid = w.pid
  /\ w.st = "cancelled" => v.st = "cancelled"
  /\ v.st = "piped" => w.st = "piped" /\ (alive => alive')

\* Each line was written now, or is what became of one.
LEMMA LineHistory ==
  ASSUME IInv, [Next]_vars, NEW v \in wire'
  PROVE  \/ \E a \in Attempts : Send(a) /\ Answer(a) = "written" /\ v = PipedLine(a)
         \/ \E w \in wire : Becomes(w, v)
<1> DEFINE Goal ==
       \/ \E a \in Attempts : Send(a) /\ Answer(a) = "written" /\ v = PipedLine(a)
       \/ \E w \in wire : Becomes(w, v)
<1> USE DEF host
<1>0. \A w \in wire : w \in WireLine
  BY DEF IInv, TypeOK
<1>1. ASSUME v \in wire, v.st = "piped" /\ alive => alive' PROVE Goal
  BY <1>1 DEF Becomes
<1>2. ASSUME UNCHANGED host PROVE Goal
  BY <1>1, <1>2
<1>4. CASE Intake
  BY <1>2, <1>4 DEF Intake, Store, Revive, ParkStale, Arrive, Relay, Retry, Delete, Withdraw
<1>5. ASSUME NEW a \in {"next", "mid"}, DeliverLive(a) PROVE Goal
  BY <1>2, <1>5 DEF DeliverLive, Begin, Mark, Register, SettleRefusedStopped,
                    SettleRefusedEnded, SettleRefusedGone
<1>6. ASSUME NEW a \in Attempts, Deliver(a) PROVE Goal
  <2>1. CASE Send(a)
    BY <1>1, <2>1 DEF Send
  <2> QED BY <1>2, <1>6, <2>1
          DEF Deliver, LoseAnswer, SettleWritten, SettleTaking, SettleRan, SettleUnanswered,
              SettleCancelled, SettleSuperseded, SettleUnknown
<1>7. CASE Resume
  <2>1. CASE SpawnStart \/ SpawnFails
    BY <1>1, <2>1 DEF SpawnStart, SpawnFails
  <2> QED BY <1>2, <1>7, <2>1 DEF Resume, Attach, NoSession, SpawnRefused,
                    SettleSpawnDead, ReadHold, DropHold, RecoveryEnds
<1>8. CASE Cli
  <2>1. CASE Take
    <3>1. PICK w \in wire, x \in WireLine :
             /\ w.st = "piped" /\ wire' = (wire \ {w}) \cup {x}
             /\ x.uuid = w.uuid /\ x.pid = w.pid /\ x.st \in {"started", "skipped"}
      BY <2>1, TakeSteps
    <3>2. CASE v = x
      BY <3>1, <3>2 DEF Becomes
    <3>3. CASE v # x
      BY <1>1, <2>1, <3>1, <3>3 DEF Take
    <3> QED BY <3>2, <3>3
  <2>2. CASE AnswerLines
    <3>1. alive' = alive
      BY <2>2 DEF AnswerLines
    <3>2. ASSUME NEW w \in Started, v = [w EXCEPT !.st = "answered"] PROVE Goal
      <4>1. w \in wire /\ w \in WireLine /\ w.st = "started"
        BY <1>0 DEF Started
      <4>2. v.uuid = w.uuid /\ v.pid = w.pid /\ v.st = "answered"
        BY <3>2, <4>1 DEF WireLine
      <4> QED BY <4>1, <4>2 DEF Becomes
    <3> QED BY <1>1, <2>2, <3>1, <3>2 DEF AnswerLines
  <2>3. CASE Die
    BY <1>1, <2>3 DEF Die
  <2> QED BY <1>8, <2>1, <2>2, <2>3 DEF Cli
<1>9. CASE Frames
  BY <1>2, <1>9 DEF Frames, ReadStart, ReadAnswer, ReadCancelled, SeeExit
<1>10. CASE Stopping
  <2>1. CASE Interrupt
    <3>1. PICK w \in wire : v = IF Live(w) /\ w.st = "piped" THEN [w EXCEPT !.st = "cancelled"]
                                ELSE IF Live(w) /\ w.st = "started"
                                       THEN [w EXCEPT !.st = "stopped"]
                                ELSE w
      BY <2>1 DEF Interrupt
    <3>2. ASSUME NEW st, v = [w EXCEPT !.st = st], w.st # "cancelled", st # "piped" PROVE Goal
      <4>1. w \in WireLine
        BY <1>0
      <4>2. v.uuid = w.uuid /\ v.pid = w.pid /\ v.st = st
        BY <3>2, <4>1 DEF WireLine
      <4> QED BY <3>2, <4>2 DEF Becomes
    <3>3. CASE v = w
      BY <1>1, <2>1, <3>3 DEF Interrupt
    <3> QED BY <3>1, <3>2, <3>3
  <2>2. CASE StopSend
    BY <1>1, <2>2 DEF StopSend
  <2> QED BY <1>2, <1>10, <2>1, <2>2 DEF Stopping, StopAsk, StopPeek, StopPark, StopFails
<1>11. CASE Restarting
  BY <1>2, <1>11 DEF Restarting, RestartCli, Restart, Load
<1>12. CASE UNCHANGED vars
  BY <1>2, <1>12 DEF vars
<1> QED BY <1>4, <1>5, <1>6, <1>7, <1>8, <1>9, <1>10, <1>11, <1>12 DEF Next

\* What a pipe held dies with its process, and no other is started before.
LEMMA PipedHereStep ==
  ASSUME Lone, LoneInv, [Next]_vars, PipedHere
  PROVE  PipedHere'
<1>0. IInv /\ proc \in Nat
  BY DEF LoneInv, IInv, TypeOK
<1> SUFFICES ASSUME NEW v \in wire', v.st = "piped" PROVE alive' /\ v.pid = proc'
  BY DEF PipedHere, Live
<1>1. ASSUME NEW a \in Attempts, Send(a), Answer(a) = "written", v = PipedLine(a)
      PROVE  alive' /\ v.pid = proc'
  BY <1>1 DEF Send, Answer, Verdict, PipedLine
<1>2. ASSUME NEW w \in wire, Becomes(w, v) PROVE alive' /\ v.pid = proc'
  <2>1. alive /\ alive' /\ w.pid = proc /\ v.pid = w.pid
    BY <1>2 DEF Becomes, PipedHere, Live
  <2>2. SpawnStart \/ SpawnFails => proc' = proc
    BY <2>1 DEF SpawnStart, SpawnFails
  <2> QED BY <1>0, <2>1, <2>2, ProcessMoves
<1> QED BY <1>0, <1>1, <1>2, LineHistory

\* A phone message that is enqueued was not stored before.
LEMMA RelaysFirstStep ==
  ASSUME Lone, LoneInv, [Next]_vars, RelaysFirst
  PROVE  RelaysFirst'
<1>0. IInv /\ Arrivals /\ BlankStart
  BY DEF LoneInv
<1> SUFFICES ASSUME NEW e \in arriving', e.id \in Phone PROVE e.uuid = NoUuid
  BY DEF RelaysFirst
<1>1. CASE e \in arriving
  BY <1>1 DEF RelaysFirst
<1>2. ASSUME NEW m \in Messages, e.id = m, e.uuid = settled[m], m \in Phone => fate[m] = "none"
      PROVE  e.uuid = NoUuid
  <2>1. m \notin stored
    BY <1>0, <1>2 DEF Arrivals
  <2>2. stored = {}
    BY <1>0, <2>1 DEF IInv, TypeOK, Lone
  <2>3. Out = {}
    BY <1>0, <2>2 DEF BlankStart, Nothing
  <2> QED BY <1>2, <2>3, OutParts
<1> QED BY <1>0, <1>1, <1>2, EnqueueMoves

\* "withdrawn" and "fenced" are written with the answer that gives it back.
LEMMA FatesToldStep ==
  ASSUME Lone, LoneInv, [Next]_vars, FatesTold
  PROVE  FatesTold'
<1> DEFINE Goal == FatesTold'
<1>0. fate \in [Messages -> Fate] /\ told \in [Messages -> SUBSET Word]
  BY DEF LoneInv, IInv, TypeOK
<1>1. ASSUME told' = told,
             \A m \in Messages : fate'[m] \in {"withdrawn", "fenced"} => fate'[m] = fate[m]
      PROVE  Goal
  BY <1>1 DEF FatesTold, Freed
<1>2. ASSUME UNCHANGED <<told, fate>> PROVE Goal
  BY <1>2 DEF FatesTold, Freed
<1>3. ASSUME NEW ids, ReleaseRan(ids), told' = told PROVE Goal
  BY <1>1, <1>3 DEF ReleaseRan, DeliveredFate
<1>4. ASSUME NEW ids, ReleaseCancelled(ids), told' = told PROVE Goal
  BY <1>1, <1>4 DEF ReleaseCancelled
<1> USE DEF queueFile, history
<1>5. CASE Intake
  <2>1. CASE Store
    BY <1>0, <1>1, <2>1 DEF Store
  <2>2. ASSUME NEW m \in Messages, Delete(m) PROVE Goal
    BY <1>0, <1>1, <2>2 DEF Delete
  <2>3. ASSUME NEW m \in Messages, Withdraw(m) PROVE Goal
    <3> DEFINE answer == WithdrawAnswer(queue, fate[m], m)
               word == IF answer \in GivenBack THEN {"freed"} ELSE {answer} \cap Word
    <3>1. /\ m \in Phone /\ told' = [told EXCEPT ![m] = @ \cup word]
          /\ fate' = CASE answer = "withdrawn" -> [fate EXCEPT ![m] = "withdrawn"]
                       [] answer = "not-received" -> [fate EXCEPT ![m] = "fenced"]
                       [] OTHER -> fate
      BY <2>3 DEF Withdraw
    <3> HIDE DEF answer
    <3>2. \A k \in Messages : told[k] \subseteq told'[k] /\ (k # m => told'[k] = told[k])
      BY <1>0, <3>1
    <3>3. answer \in GivenBack => "freed" \in told'[m]
      BY <1>0, <3>1
    <3>4. \A k \in Messages : fate'[k] = fate[k] \/ (k = m /\ answer \in GivenBack)
      BY <1>0, <3>1 DEF GivenBack
    <3> QED BY <3>1, <3>2, <3>3, <3>4 DEF FatesTold, Freed
  <2> QED BY <1>2, <1>5, <2>1, <2>2, <2>3 DEF Intake, Revive, ParkStale, Arrive, Relay, Retry
<1>6. ASSUME NEW a \in {"next", "mid"}, DeliverLive(a) PROVE Goal
  BY <1>2, <1>6 DEF DeliverLive, Begin, Mark, Register, SettleRefusedStopped,
                    SettleRefusedEnded, SettleRefusedGone
<1>7. ASSUME NEW a \in Attempts, Deliver(a) PROVE Goal
  <2>1. CASE SettleRan(a) \/ SettleCancelled(a)
    BY <1>3, <1>4, <2>1 DEF SettleRan, SettleCancelled
  <2> QED BY <1>2, <1>7, <2>1
          DEF Deliver, Send, LoseAnswer, SettleWritten, SettleTaking, SettleUnanswered,
              SettleSuperseded, SettleUnknown
<1>8. CASE Resume
  BY <1>2, <1>8 DEF Resume, Attach, NoSession, SpawnStart, SpawnFails, SpawnRefused,
                    SettleSpawnDead, ReadHold, DropHold, RecoveryEnds
<1>9. CASE Cli
  BY <1>2, <1>9 DEF Cli, Take, AnswerLines, Die
<1>10. CASE Frames
  <2>1. CASE ReadAnswer \/ ReadCancelled
    BY <1>3, <1>4, <2>1 DEF ReadAnswer, ReadCancelled
  <2> QED BY <1>2, <1>10, <2>1 DEF Frames, ReadStart, SeeExit
<1>11. CASE Stopping
  BY <1>2, <1>11 DEF Stopping, Interrupt, StopAsk, StopPeek, StopPark, StopSend, StopFails
<1>12. CASE Restarting
  BY <1>2, <1>12 DEF Restarting, RestartCli, Restart, Load
<1>13. CASE UNCHANGED vars
  BY <1>2, <1>13 DEF vars
<1> QED BY <1>5, <1>6, <1>7, <1>8, <1>9, <1>10, <1>11, <1>12, <1>13 DEF Next

-----------------------------------------------------------------------------
(* Where a row comes from whose line is in no doubt *)

\* A row comes back with its line as it was, by no frame of a CLI.
Restored(x) ==
  \E r \in queue :
    /\ Sure(r) /\ r.uuid = x.uuid /\ x.status # "processing"
    /\ SpawnFails \/ SettleSpawnDead \/ DropHold \/ r.status # "processing"

\* It comes back from a copy, its line not in doubt.
Recopied(x) ==
  /\ queue = {}
  /\ \/ /\ SpawnFails \/ SettleSpawnDead
        /\ \E c \in att["spawn"].batch : ~c.doubt /\ c.id = x.id /\ c.uuid = x.uuid
     \/ DropHold

\* Where a phone message's row comes from whose line is not in doubt.
LEMMA SureMoves ==
  ASSUME Lone, LoneInv, RelaysFirst, [Next]_vars, NEW x \in queue', Sure(x)
  PROVE  \/ x \in queue \/ Restored(x) \/ Recopied(x) \/ Renewed(x)
         \/ \E a \in {"next", "mid"}, r \in queue : MarkedFrom(a, r, x)
<1> DEFINE Goal == \/ x \in queue \/ Restored(x) \/ Recopied(x) \/ Renewed(x)
                   \/ \E a \in {"next", "mid"}, r \in queue : MarkedFrom(a, r, x)
<1>0. /\ IInv /\ OneEach /\ Arrivals
      /\ queue \in SUBSET Row /\ Single(queue) /\ hold.rows \in SUBSET Row
      /\ stopper.peek \in SUBSET Row /\ Single(stopper.peek)
      /\ \A r \in stopper.peek : r.status # "parked"
      /\ \A a \in Attempts : /\ att[a].batch \in SUBSET Row /\ Single(att[a].batch)
                             /\ \A r \in att[a].batch : r.status = "processing"
      /\ \A rows, copies \in SUBSET Row : \A r \in rows, c \in copies : r.id = c.id
      /\ "spawn" \in Attempts
  BY DEF LoneInv, IInv, TypeOK, Attempt, OneEach, BatchRows, StopperWaits, Lone, Row, Attempts
<1>1. ASSUME x \in queue PROVE Goal
  BY <1>1
<1>2. ASSUME queue' \subseteq queue PROVE Goal
  BY <1>2
<1>3. ASSUME NEW ids, queue' = RevertIfQueued(queue, ids) PROVE Goal
  BY <1>0, <1>1, <1>3, RevertIfQueuedSure
<1>4. ASSUME NEW ids, NEW why, why # "recovery", queue' = ParkIfQueued(queue, ids, why)
      PROVE  Goal
  BY <1>0, <1>1, <1>4, ParkIfQueuedAlone DEF Sure
<1>5. ASSUME NEW copies \in SUBSET Row, NEW why, why # "recovery", Single(copies),
             \A c \in copies : c.status # "parked", queue' = ParkMessages(queue, copies, why)
      PROVE  Goal
  BY <1>0, <1>1, <1>5, ParkMessagesAlone DEF Sure
<1>6. ASSUME NEW ids, ReleaseRan(ids) \/ ReleaseCancelled(ids) PROVE Goal
  BY <1>2, <1>6 DEF ReleaseRan, ReleaseCancelled, RemoveTaken
<1>7. CASE Intake
  <2>1. CASE Store
    <3>1. PICK e \in arriving :
            queue' = IF Queued(e.id) THEN queue ELSE queue \cup {NewRow(e)}
      BY <2>1 DEF Store
    <3>2. CASE x = NewRow(e)
      <4>1. x.id = e.id /\ x.uuid = e.uuid
        BY <3>2 DEF NewRow
      <4> QED BY <4>1 DEF Sure, RelaysFirst
    <3> QED BY <1>1, <3>1, <3>2
  <2>2. CASE Revive
    BY <1>0, <2>2 DEF Revive, Arrivals
  <2>3. CASE ParkStale
    BY <1>4, <2>3 DEF ParkStale
  <2>4. ASSUME NEW m \in Messages, Arrive(m) \/ Relay(m) \/ Retry(m) \/ Delete(m) \/ Withdraw(m)
        PROVE  Goal
    BY <1>2, <2>4 DEF Arrive, Relay, Retry, Delete, Withdraw, queueFile
  <2> QED BY <1>7, <2>1, <2>2, <2>3, <2>4 DEF Intake
<1>8. ASSUME NEW a \in {"next", "mid"}, DeliverLive(a) PROVE Goal
  <2>1. CASE Begin(a) \/ Register(a)
    BY <1>2, <2>1 DEF Begin, Register, queueFile
  <2>2. CASE Mark(a)
    <3>1. ASSUME NEW r \in queue, NEW y \in Row, MarkedFrom(a, r, y) PROVE Goal
      <4>1. x = y
        BY <3>1 DEF MarkedFrom
      <4> QED BY <3>1, <4>1
    <3> QED BY <1>0, <1>1, <2>2, <3>1, MarkMoves DEF Sure
  <2>3. CASE SettleRefusedStopped(a)
    <3>1. CASE queue' = ParkIfQueued(queue, BatchIds(a), "stop")
      BY <1>4, <3>1
    <3>2. CASE queue' = ParkIfQueued(RevertIfQueued(queue, HandedBack(view)), BatchIds(a), "stop")
      <4> DEFINE back == RevertIfQueued(queue, HandedBack(view))
      <4>1. back \in SUBSET Row /\ Single(back)
        BY <1>0, RevertIfQueuedAlone, RevertIfQueuedType
      <4>2. \A y \in back : Sure(y) => y \in queue
        BY <1>0, RevertIfQueuedSure
      <4> HIDE DEF back
      <4>3. x \in back
        BY <3>2, <4>1, ParkIfQueuedAlone DEF Sure, back
      <4> QED BY <1>1, <4>2, <4>3
    <3> QED BY <2>3, <3>1, <3>2 DEF SettleRefusedStopped
  <2>4. CASE SettleRefusedEnded(a) \/ SettleRefusedGone(a)
    BY <1>3, <2>4 DEF SettleRefusedEnded, SettleRefusedGone
  <2> QED BY <1>8, <2>1, <2>2, <2>3, <2>4 DEF DeliverLive
<1>9. ASSUME NEW a \in Attempts, Deliver(a) PROVE Goal
  <2>1. CASE Send(a) \/ LoseAnswer(a) \/ SettleWritten(a) \/ SettleTaking(a)
    BY <1>2, <2>1 DEF Send, LoseAnswer, SettleWritten, SettleTaking, queueFile
  <2>2. CASE SettleRan(a) \/ SettleCancelled(a)
    BY <1>6, <2>2 DEF SettleRan, SettleCancelled
  <2>3. CASE SettleUnanswered(a)
    <3>1. used.fresh \in Nat
      BY <1>0 DEF IInv, TypeOK
    <3>2. queue' = Resent(queue, BatchIds(a), LineUuid(a), used.fresh)
      BY <2>3 DEF SettleUnanswered, Resent
    <3>3. \E r \in queue :
              \/ x = r
              \/ /\ r.status # "parked" /\ r.uuid \in {NoUuid, LineUuid(a)}
                 /\ x.uuid \in {FreshUuid(used.fresh + 1), FreshUuid(used.fresh + 2)}
                 /\ x.tries = 0 /\ x.fence = r.fence /\ x.status # "processing"
      BY <1>0, <3>1, <3>2, ResendAlone
    <3> QED BY <1>1, <2>3, <3>3 DEF Renewed
  <2>4. CASE SettleSuperseded(a)
    <3>1. \A c \in att[a].batch : c.status # "parked"
      BY <1>0
    <3> QED BY <1>0, <1>5, <2>4, <3>1 DEF SettleSuperseded, Batch
  <2>5. CASE SettleUnknown(a)
    BY <1>3, <1>4, <2>5 DEF SettleUnknown
  <2> QED BY <1>9, <2>1, <2>2, <2>3, <2>4, <2>5 DEF Deliver
<1>10. CASE Resume
  <2>1. CASE Attach \/ NoSession \/ SpawnStart
    BY <1>2, <2>1 DEF Attach, NoSession, SpawnStart, queueFile
  <2> DEFINE batch == att["spawn"].batch
  <2>2. ASSUME NEW rows \in SUBSET Row, \A y \in rows : Sure(y) => y \in queue,
               rows = {} => queue = {},
               queue' = RevertToPending(rows, batch), SpawnFails \/ SettleSpawnDead
        PROVE  Goal
    <3>0. batch \in SUBSET Row /\ \A r \in rows, c \in batch : r.id = c.id
      BY <1>0
    <3> HIDE DEF batch
    <3>1. \/ x \in rows
          \/ \E r \in rows : Sure(r) /\ r.uuid = x.uuid /\ x.status = "pending"
          \/ rows = {} /\ \E c \in batch : ~c.doubt /\ c.id = x.id /\ c.uuid = x.uuid
      BY <2>2, <3>0, RevertToPendingSure
    <3> QED BY <1>1, <2>2, <3>1 DEF Restored, Recopied, batch
  <2>3. CASE SpawnFails
    BY <1>0, <2>2, <2>3 DEF SpawnFails, Batch
  <2>4. CASE SpawnRefused
    <3>1. \A c \in att["spawn"].batch : c.status # "parked"
      BY <1>0
    <3> QED BY <1>0, <1>5, <2>4, <3>1 DEF SpawnRefused, Batch
  <2>5. CASE SettleSpawnDead
    <3>1. PICK ids : queue' = RevertToPending(RevertIfQueued(queue, ids), batch)
      BY <2>5 DEF SettleSpawnDead, Batch
    <3>2. /\ RevertIfQueued(queue, ids) \in SUBSET Row
          /\ \A y \in RevertIfQueued(queue, ids) : Sure(y) => y \in queue
      BY <1>0, RevertIfQueuedSure, RevertIfQueuedType
    <3>3. RevertIfQueued(queue, ids) = {} => queue = {}
      BY DEF RevertIfQueued
    <3> QED BY <2>2, <2>5, <3>1, <3>2, <3>3
  <2>6. CASE ReadHold
    BY <1>2, <1>3, <2>6 DEF ReadHold
  <2>7. CASE DropHold
    <3>1. CASE queue' = HoldForStartRecovery(queue, hold.rows)
      <4>1. \/ x \in queue
            \/ \E r \in queue : Sure(r) /\ r.uuid = x.uuid /\ x.status = "parked"
            \/ queue = {}
        <5>1. \A r \in queue, c \in hold.rows : r.id = c.id
          BY <1>0
        <5> QED BY <1>0, <3>1, <5>1, HoldForStartRecoverySure
      <4> QED BY <1>1, <2>7, <4>1 DEF Restored, Recopied
    <3> QED BY <1>4, <2>7, <3>1 DEF DropHold
  <2>8. CASE RecoveryEnds
    <3>1. \/ x \in queue
          \/ \E r \in queue : /\ Sure(r) /\ r.uuid = x.uuid /\ r.status = "parked"
                              /\ x.status = "pending"
      BY <1>0, <2>8, SettleHeldSure DEF RecoveryEnds
    <3> QED BY <1>1, <3>1 DEF Restored
  <2> QED BY <1>10, <2>1, <2>3, <2>4, <2>5, <2>6, <2>7, <2>8 DEF Resume
<1>11. CASE Cli
  BY <1>2, <1>11 DEF Cli, Take, AnswerLines, Die, queueFile
<1>12. CASE Frames
  <2>1. CASE ReadStart
    BY <1>2, <2>1 DEF ReadStart, queueFile
  <2>2. CASE ReadAnswer \/ ReadCancelled
    BY <1>6, <2>2 DEF ReadAnswer, ReadCancelled
  <2>3. CASE SeeExit
    BY <1>3, <2>3 DEF SeeExit
  <2> QED BY <1>12, <2>1, <2>2, <2>3 DEF Frames
<1>13. CASE Stopping
  <2>1. CASE StopPark
    BY <1>0, <1>5, <2>1 DEF StopPark
  <2>2. CASE ~StopPark
    BY <1>2, <1>13, <2>2
    DEF Stopping, Interrupt, StopAsk, StopPeek, StopSend, StopFails, queueFile
  <2> QED BY <2>1, <2>2
<1>14. CASE Restarting
  <2>1. CASE RestartCli
    BY <2>1 DEF RestartCli, Lone
  <2>2. CASE Restart \/ Load
    BY <1>2, <1>3, <2>2 DEF Restart, Load, LoadQueue, queueFile
  <2> QED BY <1>14, <2>1, <2>2 DEF Restarting
<1>15. CASE UNCHANGED vars
  BY <1>2, <1>15 DEF vars, queueFile
<1> QED BY <1>7, <1>8, <1>9, <1>10, <1>11, <1>12, <1>13, <1>14, <1>15 DEF Next

-----------------------------------------------------------------------------
(* A message that is alone, and not deleted, leaves for cause *)

\* The attempt carries a line under this uuid, ...
On(a, u) == Past(a) /\ LineUuid(a) = u

\* ... which no process can read, ...
Unread(u) == \A v \in wire : v.uuid = u => v.st = "cancelled"

\* ... and none was started with, ...
Absent(u) == u \notin HeldUuids /\ Unread(u)

\* ... nor will be by an attempt.
Clear(u) == Absent(u) /\ \A a \in Attempts : ~On(a, u)

\* The attempt's line has not been written by it.
Unsent(a) == att[a].pc \in {"begun", "marked", "registered"} \/ Replied(a, "refused")

\* Where the line of a row is that is not in doubt: with one attempt at most, ...
OneCarrier ==
  \A r \in queue, a, b \in Attempts : Sure(r) /\ On(a, r.uuid) /\ On(b, r.uuid) => a = b

\* ... nowhere, when the row is back, ...
BackClear == \A r \in queue : Sure(r) /\ r.status # "processing" => Clear(r.uuid)

\* ... or when its attempt did not send it yet, ...
UnsentAbsent ==
  \A r \in queue, a \in Attempts : Sure(r) /\ On(a, r.uuid) /\ Unsent(a) => Absent(r.uuid)

\* ... and only in the process that was started for it, if one was.
HeldAlone ==
  \A r \in queue : Sure(r) /\ r.uuid \in HeldUuids =>
    /\ \A a \in Attempts : ~On(a, r.uuid)
    /\ \A v \in wire : v.uuid = r.uuid /\ v.st = "piped" => v.pid = hold.pid

\* The copy a resume is to start with, its line not in doubt, is nowhere else.
CopiesUnread ==
  \A a \in Attempts : \A c \in att[a].batch :
    /\ (a = "next" /\ ~object) \/ (a = "spawn" /\ att[a].pc = "begun")
    /\ c.id \in Phone /\ ~c.doubt
    => Unread(c.uuid)

\* A row that left the queue ran, or was given back.
Kept == stored # {} => queue # {} \/ (\E u : Done(u)) \/ \E m \in Messages : Freed(m)

\* Whatever is out is what a process died with, and no resume is to write more.
Abandoned ==
  /\ Spent /\ (~object => ~Past("next"))
  /\ \A a \in Attempts : Past(a) => GivenUp(LineUuid(a))
  /\ \A h \in HeldUuids : GivenUp(h)
  /\ \A v \in wire : v.st = "cancelled" \/ GivenUp(v.uuid)

\* A message given back does not wait here, nor goes out.
FreedOut ==
  \A m \in Messages : Freed(m) =>
    /\ fate[m] # "none" /\ arriving = {} /\ Abandoned
    /\ \A r \in queue : ~Waits(r)

\* While nothing was deleted or cancelled.
SureInv ==
  /\ OneCarrier /\ BackClear /\ UnsentAbsent /\ HeldAlone /\ CopiesUnread /\ Kept /\ FreedOut

\* What holds in every state of a message that is alone, until it is deleted.
BackInv ==
  /\ LoneInv /\ SpawnSees /\ HoldSees /\ PipedHere /\ RelaysFirst /\ FatesTold
  /\ discarded = {} => SureInv

-----------------------------------------------------------------------------

\* A row is in the queue until its line ran, it was given back, or deleted.
LEMMA KeptStep ==
  ASSUME Lone, LoneInv, Kept, [Next]_vars, discarded' = {}
  PROVE  Kept'
<1>0. IInv /\ RanShown /\ queue \in SUBSET Row /\ \A m, n \in Messages : m = n
  BY DEF LoneInv, IInv, TypeOK, Lone
<1> SUFFICES ASSUME stored' # {}, queue' = {}, \A m \in Messages : ~Freed(m)'
             PROVE  \E u : Done(u)'
  BY DEF Kept
<1>1. ASSUME NEW u, Done(u) PROVE \E w : Done(w)'
  BY <1>0, <1>1, DoneStays DEF Done, Shows
<1>2. \A m \in Messages : ~Freed(m)
  BY <1>0, HistoryGrows DEF Freed
<1>3. CASE queue # {}
  <2>1. PICK r \in queue : TRUE
    BY <1>3
  <2>2. r.id \in Messages /\ Queued(r.id) /\ ~Queued(r.id)'
    BY <1>0, <2>1 DEF Queued, Ids, Row
  <2>3. HasRun(r.id)
    BY <1>0, <2>2, LeavesHow DEF Discards, GivesBack, Freed
  <2>4. \E u : Done(u)
    BY <1>0, <2>3 DEF HasRun, RanShown, Done
  <2> QED BY <1>1, <2>4
<1>4. CASE queue = {} /\ stored # {}
  BY <1>1, <1>2, <1>4 DEF Kept
<1>5. CASE queue = {} /\ stored = {}
  <2>1. PICK m \in stored' : TRUE
    OBVIOUS
  <2>2. m \in Messages
    <3>1. IInv'
      BY <1>0, IInvStep
    <3> QED BY <2>1, <3>1 DEF IInv, TypeOK
  <2>3. Queued(m)'
    BY <1>0, <1>5, <2>1, <2>2, HistoryGrows
  <2> QED BY <2>3 DEF Queued, Ids
<1> QED BY <1>3, <1>4, <1>5

\* What is sent now is no line of this uuid.
NoWrite(u) == \A a \in Attempts : Send(a) /\ Answer(a) = "written" => LineUuid(a) # u

\* A uuid becomes readable by a write.
LEMMA UnreadStays ==
  ASSUME IInv, [Next]_vars, NEW u, Unread(u), NoWrite(u)
  PROVE  Unread(u)'
<1> SUFFICES ASSUME NEW v \in wire', v.uuid = u PROVE v.st = "cancelled"
  BY DEF Unread
<1>1. ASSUME NEW a \in Attempts, Send(a), Answer(a) = "written", v = PipedLine(a) PROVE FALSE
  BY <1>1 DEF NoWrite, PipedLine
<1>2. ASSUME NEW w \in wire, Becomes(w, v) PROVE v.st = "cancelled"
  BY <1>2 DEF Becomes, Unread
<1> QED BY <1>1, <1>2, LineHistory

\* It turns up by a write or with a resume that was written.
LEMMA AbsentStays ==
  ASSUME LoneInv, [Next]_vars, NEW u, Absent(u), NoWrite(u),
         ~(SettleWritten("spawn") /\ On("spawn", u))
  PROVE  Absent(u)'
<1>0. IInv /\ OneEach /\ BatchRows /\ "spawn" \in Attempts
  BY DEF LoneInv, Attempts
<1>1. Unread(u)'
  BY <1>0, UnreadStays DEF Absent
<1>2. ASSUME NEW r \in hold'.rows, r.uuid = u PROVE FALSE
  <2>1. CASE hold' \in {hold, NoHold}
    BY <1>2, <2>1 DEF Absent, HeldUuids, NoHold
  <2>2. CASE SettleWritten("spawn") /\ r \in att["spawn"].batch
    <3>1. On("spawn", u)
      BY <1>0, <1>2, <2>2, BatchUuid DEF On, Past
    <3> QED BY <2>2, <3>1
  <2> QED BY <1>0, <1>2, <2>1, <2>2, HoldMoves
<1> QED BY <1>1, <1>2 DEF Absent, HeldUuids

\* An attempt carries the line it carried, took it over, or has marked it.
LEMMA OnMoves ==
  ASSUME Lone, LoneInv, [Next]_vars, NEW a \in Attempts, NEW u, On(a, u)'
  PROVE  \/ On(a, u) /\ att'[a].batch = att[a].batch
         \/ a = "spawn" /\ Resumes /\ On("next", u)
         \/ \E r \in queue, x \in queue' : a # "spawn" /\ MarkedFrom(a, r, x) /\ x.uuid = u
BY LineMoves DEF On, Past

\* What nobody carries stays nowhere until a row is marked with it.
LEMMA ClearStays ==
  ASSUME Lone, LoneInv, [Next]_vars, NEW u, Clear(u),
         \A a \in {"next", "mid"}, r \in queue, x \in queue' : MarkedFrom(a, r, x) => x.uuid # u
  PROVE  Clear(u)'
<1>0. IInv /\ {"spawn", "next"} \subseteq Attempts
  BY DEF LoneInv, Attempts
<1>1. NoWrite(u)
  <2>1. \A a \in Attempts : Send(a) => Past(a)
    BY <1>0 DEF IInv, AttemptsHold, Send, Past
  <2> QED BY <2>1 DEF NoWrite, Clear, On
<1>2. Absent(u)'
  BY <1>0, <1>1, AbsentStays DEF Clear
<1>3. \A a \in Attempts : a \in {"next", "mid"} \/ a = "spawn"
  BY DEF Attempts
<1>4. ASSUME NEW a \in Attempts, On(a, u)' PROVE FALSE
  BY <1>0, <1>3, <1>4, OnMoves DEF Clear
<1> QED BY <1>2, <1>4 DEF Clear, On, Past

\* The uuid of a hold is that of its row.
LEMMA HoldOfOne ==
  ASSUME LoneInv, hold # NoHold
  PROVE  HoldUuid \in HeldUuids /\ \A h \in HeldUuids : h = HoldUuid
<1>1. Single(hold.rows) /\ hold.rows # {}
  BY DEF LoneInv, OneEach, IInv, HoldHasRows
<1>2. PICK r \in hold.rows : hold.rows = {r}
  BY <1>1 DEF Single
<1>3. Earliest(hold.rows) = r
  <2>1. Earliest(hold.rows) \in {y \in hold.rows : \A z \in hold.rows : y.ord <= z.ord}
    <3>1. r.ord \in Nat
      BY <1>2 DEF LoneInv, IInv, TypeOK, Row
    <3>2. \E y \in hold.rows : \A z \in hold.rows : y.ord <= z.ord
      BY <1>2, <3>1
    <3> QED BY <3>2 DEF Earliest
  <2> QED BY <1>2, <2>1
<1> QED BY <1>2, <1>3 DEF HoldUuid, HeldUuids

\* A hold that is dropped unread is of a uuid that did not run, nor did another.
LEMMA DropUnread ==
  ASSUME Lone, LoneInv, DropHold
  PROVE  /\ HoldUuid \in HeldUuids /\ ~GivenUp(HoldUuid)
         /\ \A v \in wire : v.uuid = HoldUuid => v.st \in {"piped", "cancelled"}
         /\ \A u : ~Done(u)
         /\ \A u \in HeldUuids \cup Out : u = HoldUuid
<1>0. /\ IInv /\ Numbers /\ OlderGivenUp /\ hold # NoHold /\ ~HoldStarted
  BY DEF LoneInv, DropHold, Lone
<1>1. HoldUuid \in HeldUuids /\ \A h \in HeldUuids : h = HoldUuid
  BY <1>0, HoldOfOne
<1>2. ~GivenUp(HoldUuid) /\ (\A u \in Known : u.n <= HoldUuid.n) /\ (\A u \in Out : u = HoldUuid)
  BY <1>1, HeldIsLatest
<1>3. \A v \in wire : v.uuid = HoldUuid => v.st \in {"piped", "cancelled"}
  BY <1>0 DEF HoldStarted
<1>4. ASSUME NEW u, Done(u) PROVE FALSE
  <2>1. ~GivenUp(u) /\ u \in WireUuids
    BY <1>4, DoneAlone
  <2>2. u # HoldUuid
    BY <1>3, <1>4 DEF Done, Shows, Ran
  <2>3. u \in Known /\ HoldUuid \in Known
    BY <1>1, <2>1 DEF Known
  <2>4. u.n \in Nat /\ HoldUuid.n \in Nat
    BY <1>0, <2>3, KnownTypes
  <2>5. u.n < HoldUuid.n
    <3>1. u.n <= HoldUuid.n
      BY <1>2, <2>3
    <3>2. u.n # HoldUuid.n
      BY <1>0, <2>2, <2>3 DEF Numbers
    <3> QED BY <2>4, <3>1, <3>2
  <2> QED BY <1>0, <2>1, <2>3, <2>5 DEF OlderGivenUp
<1> QED BY <1>1, <1>2, <1>3, <1>4

\* No row comes back from a copy with its line not in doubt: while a copy may
\* put it back so, the row did not leave.
LEMMA NotRecopied ==
  ASSUME Lone, LoneInv, SureInv, NEW x, Sure(x), Recopied(x)
  PROVE  FALSE
<1>0. IInv /\ OneEach /\ BatchRows /\ BlankStart /\ AnswersTrue /\ "spawn" \in Attempts
  BY DEF LoneInv, Attempts
<1>1. queue = {}
  BY DEF Recopied
<1>2. CASE stored = {}
  <2>1. hold = NoHold /\ att["spawn"].batch = {}
    BY <1>0, <1>2 DEF BlankStart, Nothing
  <2> QED BY <2>1 DEF Recopied, DropHold
<1>3. ASSUME NEW u, Done(u) PROVE FALSE
  <2>1. u \in WireUuids /\ \A v \in Out : v = u
    BY <1>3, DoneAlone
  <2>2. ~DropHold
    BY <1>3, DropUnread
  <2>3. PICK c \in att["spawn"].batch : ~c.doubt /\ c.id = x.id /\ c.uuid = x.uuid
    BY <2>2 DEF Recopied
  <2>4. c.uuid = u /\ LineUuid("spawn") = u
    BY <1>0, <2>1, <2>3, BatchUuid
  <2>5. CASE SpawnFails
    <3>1. Unread(u)
      BY <1>0, <2>3, <2>4, <2>5 DEF SpawnFails, SureInv, CopiesUnread, Sure
    <3> QED BY <1>3, <3>1 DEF Unread, Done, Shows, Ran
  <2>6. CASE SettleSpawnDead
    BY <1>0, <2>1, <2>4, <2>6 DEF SettleSpawnDead, AnswersTrue
  <2> QED BY <2>2, <2>5, <2>6 DEF Recopied
<1>4. ASSUME NEW m \in Messages, Freed(m) PROVE FALSE
  <2>1. Spent /\ \A h \in HeldUuids : GivenUp(h)
    BY <1>4 DEF SureInv, FreedOut, Abandoned
  <2>2. ~SpawnFails /\ ~SettleSpawnDead
    BY <2>1 DEF Spent, Replied, SpawnFails, SettleSpawnDead
  <2>3. ~DropHold
    BY <2>1, DropUnread
  <2> QED BY <2>2, <2>3 DEF Recopied
<1> QED BY <1>1, <1>2, <1>3, <1>4 DEF SureInv, Kept

-----------------------------------------------------------------------------
(* The line of a row in no doubt is with one attempt, or nowhere *)

\* A line that is sent is carried by the attempt that sends it.
LEMMA SentIsOn ==
  ASSUME LoneInv, NEW a \in Attempts, Send(a)
  PROVE  On(a, LineUuid(a)) /\ Unsent(a)
BY DEF LoneInv, IInv, AttemptsHold, Send, On, Past, Unsent

\* One row is marked, for one attempt.
LEMMA MarkedOnce ==
  ASSUME LoneInv, NEW a \in {"next", "mid"}, NEW b \in {"next", "mid"},
         NEW r \in queue, NEW s \in queue, NEW x, NEW y, MarkedFrom(a, r, x), MarkedFrom(b, s, y)
  PROVE  a = b
<1>0. /\ att \in [Attempts -> Attempt] /\ {a, b} \subseteq Attempts
      /\ att[b].pc = "begun" => att[b].batch = {}
  BY DEF LoneInv, IInv, TypeOK, BatchRows, Attempts
<1>1. a # b => att'[b] = att[b]
  BY <1>0 DEF MarkedFrom, Mark, Set
<1>2. att[b].pc = "begun" /\ att'[b].batch # {}
  BY DEF MarkedFrom, Mark
<1> QED BY <1>0, <1>1, <1>2

\* A row that was here before is none that is marked now.
LEMMA NotMarked ==
  ASSUME LoneInv, NEW a \in {"next", "mid"}, NEW r \in queue, NEW x, NEW y \in queue',
         MarkedFrom(a, r, x)
  PROVE  y = x /\ x.status = "processing" /\ y \notin queue
<1>1. y = x /\ x.status = "processing" /\ r.status = "pending"
  BY DEF MarkedFrom
<1>2. Single(queue)
  BY DEF LoneInv, OneEach
<1> QED BY <1>1, <1>2 DEF Single

\* The line of a row in no doubt is nowhere when it is marked.
LEMMA MarkedClear ==
  ASSUME Lone, LoneInv, SureInv, [Next]_vars,
         NEW a \in {"next", "mid"}, NEW r \in queue, NEW x \in queue', Sure(x), MarkedFrom(a, r, x)
  PROVE  Clear(x.uuid)
<1>0. IInv' /\ BlankStart
  BY IInvStep DEF LoneInv
<1>1. r.id = x.id
  <2>1. r.id \in Messages /\ x.id \in Messages
    BY <1>0 DEF LoneInv, IInv, TypeOK, Row
  <2> QED BY <2>1 DEF Lone
<1>2. r.status = "pending" /\ Waits(r) /\ ~r.doubt /\ r.id \in Phone
  BY <1>1 DEF MarkedFrom, Sure, Waits
<1>3. CASE r.uuid = x.uuid
  <2>1. Sure(r)
    BY <1>2, <1>3 DEF Sure
  <2> QED BY <1>2, <1>3, <2>1 DEF SureInv, BackClear
<1>4. CASE r.uuid = NoUuid
  <2>1. Nothing
    BY <1>0, <1>2, <1>4 DEF BlankStart
  <2> QED BY <2>1 DEF Nothing, Clear, Absent, HeldUuids, NoHold, Unread, On, Past
<1> QED BY <1>3, <1>4 DEF MarkedFrom

\* What nobody carries stays unread, whatever is marked.
LEMMA AbsentOfClear ==
  ASSUME Lone, LoneInv, [Next]_vars, NEW u, Clear(u)
  PROVE  Absent(u)'
<1>1. NoWrite(u)
  BY SentIsOn DEF NoWrite, Clear
<1>2. "spawn" \in Attempts
  BY DEF Attempts
<1> QED BY <1>1, <1>2, AbsentStays DEF Clear

\* A row that comes back with its line in no doubt left its line nowhere.
LEMMA BackStays ==
  ASSUME Lone, LoneInv, HoldSees, PipedHere, SureInv, [Next]_vars,
         NEW x \in queue', Sure(x), x.status # "processing",
         x \in queue \/ Restored(x) \/ Renewed(x)
  PROVE  Clear(x.uuid)'
<1> DEFINE u == x.uuid
<1>0. /\ IInv /\ OneEach /\ BatchRows /\ Single(queue) /\ {"spawn", "next"} \subseteq Attempts
      /\ att \in [Attempts -> Attempt] /\ u # NoUuid
  BY DEF LoneInv, IInv, TypeOK, OneEach, Attempts, Sure
<1>1. ASSUME NEW a \in {"next", "mid"}, NEW r \in queue, NEW y \in queue', MarkedFrom(a, r, y)
      PROVE  FALSE
  BY <1>1, NotMarked
<1>2. ASSUME Clear(u) PROVE Clear(u)'
  BY <1>1, <1>2, ClearStays
<1>3. CASE x \in queue
  BY <1>2, <1>3 DEF SureInv, BackClear
<1>4. CASE Renewed(x)
  <2>1. u \notin Known
    BY <1>4, ResentMoves
  <2>2. \A a \in Attempts : Past(a) => LineUuid(a) \in Known
    BY <1>0, BatchUuid DEF Known
  <2> QED BY <1>2, <2>1, <2>2 DEF Known, Clear, Absent, Unread, On, WireUuids
<1>5. ASSUME NEW r \in queue, Sure(r), r.uuid = u, r.status = "processing",
             SpawnFails \/ SettleSpawnDead
      PROVE  Clear(u)'
  <2>1. ~Spent /\ Past("spawn") /\ Unsent("spawn")
    BY <1>0, <1>5 DEF Spent, Replied, SpawnFails, SettleSpawnDead, Past, IInv, AttemptsHold,
                      Unsent
  <2>2. Agree
    BY <2>1, ResumeAgrees
  <2>3. On("spawn", u)
    <3>1. u \in Out
      BY <1>0, <1>5, OutParts
    <3>2. LineUuid("spawn") \in Out
      BY <1>0, <2>1, BatchUuid
    <3> QED BY <2>1, <2>2, <3>1, <3>2 DEF Agree, On
  <2>4. Absent(u) /\ \A a \in Attempts : On(a, u) => a = "spawn"
    BY <1>0, <1>5, <2>1, <2>3 DEF SureInv, UnsentAbsent, OneCarrier
  <2>5. att'["spawn"] = Idle /\ ~SettleWritten("spawn")
    BY <1>0, <1>5 DEF SpawnFails, SettleSpawnDead, SettleWritten, Replied, Set
  <2>6. NoWrite(u)
    <3>1. ASSUME NEW a \in Attempts, Send(a) PROVE FALSE
      <4>1. queue' = queue
        BY <1>0, <3>1, SendKeeps
      <4>2. x = r
        BY <1>0, <4>1 DEF Single
      <4> QED BY <1>5, <4>2
    <3> QED BY <3>1 DEF NoWrite
  <2>7. Absent(u)'
    BY <2>4, <2>5, <2>6, AbsentStays
  <2>8. ASSUME NEW a \in Attempts, On(a, u)' PROVE FALSE
    <3>1. a # "spawn"
      BY <2>5, <2>8 DEF On, Past, Idle
    <3>2. a \in {"next", "mid"} /\ ~On(a, u)
      BY <2>4, <3>1 DEF Attempts
    <3> QED BY <1>1, <2>8, <3>1, <3>2, OnMoves
  <2> QED BY <2>7, <2>8 DEF Clear, On, Past
<1>6. ASSUME NEW r \in queue, Sure(r), r.uuid = u, DropHold PROVE Clear(u)'
  <2>1. u = HoldUuid /\ u \in HeldUuids /\ hold # NoHold /\ view # hold.pid /\ hold' = NoHold
    <3>1. u \in Out
      BY <1>0, <1>6, OutParts
    <3> QED BY <1>6, <3>1, DropUnread DEF DropHold
  <2>2. \A a \in Attempts : ~On(a, u)
    BY <1>6, <2>1 DEF SureInv, HeldAlone
  <2>3. Unread(u)
    <3>1. ASSUME NEW v \in wire, v.uuid = u, v.st = "piped" PROVE FALSE
      <4>1. v.pid = hold.pid /\ alive /\ v.pid = proc
        BY <1>6, <2>1, <3>1 DEF SureInv, HeldAlone, PipedHere, Live
      <4> QED BY <2>1, <4>1 DEF HoldSees, Attended
    <3> QED BY <1>6, <2>1, <3>1, DropUnread DEF Unread
  <2>4. Unread(u)'
    <3>1. NoWrite(u)
      BY <2>2, SentIsOn DEF NoWrite
    <3> QED BY <1>0, <2>3, <3>1, UnreadStays
  <2>5. ASSUME NEW a \in Attempts, On(a, u)' PROVE FALSE
    <3>1. a \in {"next", "mid"} \/ a = "spawn"
      BY DEF Attempts
    <3> QED BY <1>0, <1>1, <2>2, <2>5, <3>1, OnMoves
  <2>6. u \notin HeldUuids'
    BY <2>1 DEF HeldUuids, NoHold
  <2> QED BY <2>4, <2>5, <2>6 DEF Clear, Absent, On, Past
<1>7. CASE Restored(x)
  <2>1. PICK r \in queue : /\ Sure(r) /\ r.uuid = u
                           /\ SpawnFails \/ SettleSpawnDead \/ DropHold \/ r.status # "processing"
    BY <1>7 DEF Restored
  <2>2. CASE r.status # "processing"
    BY <1>2, <2>1, <2>2 DEF SureInv, BackClear
  <2> QED BY <1>5, <1>6, <2>1, <2>2
<1> QED BY <1>3, <1>4, <1>7

\* A row in no doubt was here, or came back, or was marked, with its line nowhere.
LEMMA SureCases ==
  ASSUME Lone, LoneInv, HoldSees, PipedHere, RelaysFirst, SureInv, [Next]_vars,
         NEW x \in queue', Sure(x)
  PROVE  \/ /\ x \in queue
            /\ \A a \in {"next", "mid"}, r \in queue, y \in queue' : ~MarkedFrom(a, r, y)
         \/ Clear(x.uuid)'
         \/ Clear(x.uuid) /\ \E a \in {"next", "mid"}, r \in queue : MarkedFrom(a, r, x)
<1>1. CASE x \in queue
  BY <1>1, NotMarked
<1>2. CASE Restored(x) \/ Renewed(x)
  <2>1. x.status # "processing"
    BY <1>2 DEF Restored, Renewed
  <2> QED BY <1>2, <2>1, BackStays
<1>3. ASSUME NEW a \in {"next", "mid"}, NEW r \in queue, MarkedFrom(a, r, x)
      PROVE  Clear(x.uuid)
  BY <1>3, MarkedClear
<1> QED BY <1>1, <1>2, <1>3, SureMoves, NotRecopied

\* While its row is here and not marked, a line is carried by whom it was, or
\* by the resume that takes it over.
LEMMA OnStays ==
  ASSUME Lone, LoneInv, [Next]_vars, NEW a \in Attempts, NEW u, On(a, u)',
         \A b \in {"next", "mid"}, r \in queue, y \in queue' : ~MarkedFrom(b, r, y)
  PROVE  On(a, u) \/ (a = "spawn" /\ Resumes /\ On("next", u))
<1>1. a \in {"next", "mid"} \/ a = "spawn"
  BY DEF Attempts
<1> QED BY <1>1, OnMoves

\* A line is marked, or taken over by the resume, of no other's.
LEMMA OneCarrierStep ==
  ASSUME Lone, LoneInv, HoldSees, PipedHere, RelaysFirst, SureInv, [Next]_vars
  PROVE  OneCarrier'
<1> SUFFICES ASSUME NEW x \in queue', Sure(x), NEW a \in Attempts, NEW b \in Attempts,
                    On(a, x.uuid)', On(b, x.uuid)'
             PROVE  a = b
  BY DEF OneCarrier
<1> DEFINE u == x.uuid
<1>1. CASE x \in queue /\ \A c \in {"next", "mid"}, r \in queue, y \in queue' : ~MarkedFrom(c, r, y)
  <2>1. \A c, d \in Attempts : On(c, u) /\ On(d, u) => c = d
    BY <1>1 DEF SureInv, OneCarrier
  <2>2. /\ On(a, u) \/ (a = "spawn" /\ Resumes /\ On("next", u))
        /\ On(b, u) \/ (b = "spawn" /\ Resumes /\ On("next", u))
    BY <1>1, OnStays
  <2>3. "next" \in Attempts /\ (Resumes => a # "next" /\ b # "next")
    BY DEF Attempts, Resumes, On, Past, Idle
  <2> QED BY <2>1, <2>2, <2>3
<1>2. CASE Clear(u)'
  BY <1>2 DEF Clear, On, Past
<1>3. ASSUME NEW c \in {"next", "mid"}, NEW r \in queue, MarkedFrom(c, r, x), Clear(u)
      PROVE  a = b
  <2>1. ASSUME NEW d \in Attempts, On(d, u)' PROVE d = c
    <3>1. "next" \in Attempts
      BY DEF Attempts
    <3>2. PICK s \in queue, y \in queue' : d # "spawn" /\ MarkedFrom(d, s, y)
      BY <1>3, <2>1, <3>1, OnMoves DEF Clear
    <3>3. d \in {"next", "mid"}
      BY <3>2 DEF Attempts
    <3> QED BY <1>3, <3>2, <3>3, MarkedOnce
  <2> QED BY <2>1
<1> QED BY <1>1, <1>2, <1>3, SureCases

\* A row that is back has its line nowhere.
LEMMA BackClearStep ==
  ASSUME Lone, LoneInv, HoldSees, PipedHere, RelaysFirst, SureInv, [Next]_vars
  PROVE  BackClear'
<1> SUFFICES ASSUME NEW x \in queue', Sure(x), x.status # "processing"
             PROVE  Clear(x.uuid)'
  BY DEF BackClear, Clear, Absent, HeldUuids, Unread, On, Past
<1>1. ASSUME NEW a \in {"next", "mid"}, NEW r \in queue PROVE ~MarkedFrom(a, r, x)
  BY DEF MarkedFrom
<1>2. x \in queue \/ Restored(x) \/ Renewed(x)
  BY <1>1, SureMoves, NotRecopied
<1> QED BY <1>2, BackStays

\* Nothing is written of a line that its attempt has not sent.
LEMMA UnsentAbsentStep ==
  ASSUME Lone, LoneInv, HoldSees, PipedHere, RelaysFirst, SureInv, [Next]_vars
  PROVE  UnsentAbsent'
<1> SUFFICES ASSUME NEW x \in queue', Sure(x), NEW a \in Attempts,
                    On(a, x.uuid)', Unsent(a)'
             PROVE  Absent(x.uuid)'
  BY DEF UnsentAbsent, Absent, HeldUuids, Unread, On, Past, Unsent
<1> DEFINE u == x.uuid
<1>0. /\ IInv /\ BatchRows /\ {"next", "spawn"} \subseteq Attempts
  BY DEF LoneInv, Attempts
<1>1. CASE x \in queue /\ \A c \in {"next", "mid"}, r \in queue, y \in queue' : ~MarkedFrom(c, r, y)
  <2>1. \A c, d \in Attempts : On(c, u) /\ On(d, u) => c = d
    BY <1>1 DEF SureInv, OneCarrier
  <2>2. \A c \in Attempts : On(c, u) /\ Unsent(c) => Absent(u)
    BY <1>1 DEF SureInv, UnsentAbsent
  <2>3. CASE a = "spawn" /\ Resumes /\ On("next", u)
    <3>1. Unsent("next")
      BY <2>3 DEF Resumes, NoSession, SettleRefusedGone, Unsent
    <3>2. Absent(u)
      BY <1>0, <2>2, <2>3, <3>1
    <3>3. NoWrite(u)
      <4>1. ASSUME NEW c \in Attempts, Send(c), LineUuid(c) = u PROVE FALSE
        <5>1. c = "next"
          BY <1>0, <2>1, <2>3, <4>1, SentIsOn
        <5> QED BY <1>0, <2>3, <4>1, <5>1, SendKeeps DEF Resumes, Idle
      <4> QED BY <4>1 DEF NoWrite
    <3>4. ~On("spawn", u)
      BY <1>0, <2>1, <2>3
    <3> QED BY <3>2, <3>3, <3>4, AbsentStays
  <2>4. CASE On(a, u) /\ ~(a = "spawn" /\ Resumes)
    <3>1. Moves(a) /\ att'[a].batch # {}
      BY <1>0, AttemptMoves DEF On, Past
    <3>2. Unsent(a)
      <4>1. CASE Mark(a) /\ a # "spawn"
        BY <1>0, <2>4, <4>1 DEF Mark, BatchRows, On, Past
      <4> QED BY <2>4, <3>1, <4>1 DEF Moves, Same, Unsent, Replied, Idle, Register, Send, SpawnStart
    <3>3. Absent(u)
      BY <2>2, <2>4, <3>2
    <3>4. NoWrite(u)
      <4>1. ASSUME NEW c \in Attempts, Send(c), Answer(c) = "written", LineUuid(c) = u PROVE FALSE
        <5>1. c = a
          BY <2>1, <2>4, <4>1, SentIsOn
        <5>2. att'[a].pc = "replied" /\ att'[a].reply = "written"
          BY <1>0, <4>1, <5>1, SendKeeps
        <5> QED BY <5>2 DEF Unsent, Replied
      <4> QED BY <4>1 DEF NoWrite
    <3>5. ~(SettleWritten("spawn") /\ On("spawn", u))
      <4>1. ASSUME SettleWritten("spawn"), On("spawn", u) PROVE FALSE
        <5>1. a = "spawn"
          BY <1>0, <2>1, <2>4, <4>1
        <5>2. att'["spawn"] = Idle
          BY <1>0, <4>1 DEF SettleWritten, Set, IInv, TypeOK
        <5> QED BY <5>1, <5>2 DEF Unsent, Replied, Idle
      <4> QED BY <4>1
    <3> QED BY <3>3, <3>4, <3>5, AbsentStays
  <2>5. On(a, u) \/ (a = "spawn" /\ Resumes /\ On("next", u))
    BY <1>1, OnStays
  <2>6. ~(a = "spawn" /\ Resumes /\ On(a, u) /\ ~On("next", u))
    <3>1. ASSUME a = "spawn", Resumes PROVE On("next", u)
      <4>1. att'["spawn"].batch = att["next"].batch
        BY <3>1 DEF Resumes
      <4> QED BY <3>1, <4>1 DEF On, Past, LineUuid
    <3> QED BY <3>1
  <2> QED BY <2>3, <2>4, <2>5, <2>6
<1>2. CASE Clear(u)'
  BY <1>2 DEF Clear
<1>3. CASE Clear(u)
  BY <1>3, AbsentOfClear
<1> QED BY <1>1, <1>2, <1>3, SureCases

\* A resume's line that was written is its own only, and in its process.
LEMMA HeldAloneStep ==
  ASSUME Lone, LoneInv, SpawnSees, HoldSees, PipedHere, RelaysFirst, SureInv, [Next]_vars
  PROVE  HeldAlone'
<1> SUFFICES ASSUME NEW x \in queue', Sure(x), x.uuid \in HeldUuids'
             PROVE  /\ \A a \in Attempts : ~On(a, x.uuid)'
                    /\ \A v \in wire' : v.uuid = x.uuid /\ v.st = "piped" => v.pid = hold'.pid
  BY DEF HeldAlone, On, Past
<1> DEFINE u == x.uuid
<1>0. /\ IInv /\ OneEach /\ BatchRows /\ {"next", "spawn"} \subseteq Attempts
      /\ att \in [Attempts -> Attempt]
  BY DEF LoneInv, IInv, TypeOK, Attempts
<1>1. CASE x \in queue /\ \A c \in {"next", "mid"}, r \in queue, y \in queue' : ~MarkedFrom(c, r, y)
  <2>1. CASE hold' = NoHold
    BY <2>1 DEF HeldUuids, NoHold
  <2>2. CASE hold' = hold
    <3>1. /\ \A a \in Attempts : ~On(a, u)
          /\ \A v \in wire : v.uuid = u /\ v.st = "piped" => v.pid = hold.pid
      BY <1>1, <2>2 DEF SureInv, HeldAlone, HeldUuids
    <3>2. \A a \in Attempts : ~On(a, u)'
      BY <1>0, <1>1, <3>1, OnStays
    <3>3. ASSUME NEW v \in wire', v.uuid = u, v.st = "piped" PROVE v.pid = hold'.pid
      <4>1. ASSUME NEW c \in Attempts, Send(c), v = PipedLine(c) PROVE FALSE
        <5>1. LineUuid(c) = u
          BY <3>3, <4>1 DEF PipedLine
        <5> QED BY <3>1, <4>1, <5>1, SentIsOn
      <4>2. PICK w \in wire : Becomes(w, v)
        BY <1>0, <4>1, LineHistory
      <4> QED BY <2>2, <3>1, <3>3, <4>2 DEF Becomes
    <3> QED BY <3>2, <3>3
  <2>3. CASE SettleWritten("spawn") /\ hold' = [rows |-> att["spawn"].batch,
                                                pid |-> att["spawn"].pid]
    <3>1. On("spawn", u)
      BY <1>0, <2>3, BatchUuid DEF HeldUuids, On, Past
    <3>2. att'["spawn"] = Idle /\ att["spawn"].pc = "replied" /\ wire' = wire
      BY <1>0, <2>3 DEF SettleWritten, Replied, Set, host
    <3>3. ASSUME NEW a \in Attempts, On(a, u)' PROVE FALSE
      <4>1. a # "spawn"
        BY <3>2, <3>3 DEF On, Past, Idle
      <4>2. On(a, u)
        BY <1>1, <3>3, <4>1, OnStays
      <4> QED BY <1>0, <1>1, <3>1, <4>1, <4>2 DEF SureInv, OneCarrier
    <3>4. \A v \in wire' : v.st = "piped" => v.pid = hold'.pid
      BY <2>3, <3>2 DEF PipedHere, Live, SpawnSees
    <3> QED BY <3>3, <3>4
  <2> QED BY <1>0, <2>1, <2>2, <2>3, HoldMoves
<1>2. CASE Clear(u)'
  BY <1>2 DEF Clear, Absent, HeldUuids
<1>3. CASE Clear(u)
  BY <1>3, AbsentOfClear DEF Absent, HeldUuids
<1> QED BY <1>1, <1>2, <1>3, SureCases

\* A resume starts with a line that is nowhere: the delivery it takes over could
\* not send it.
LEMMA CopiesUnreadStep ==
  ASSUME Lone, LoneInv, SureInv, [Next]_vars
  PROVE  CopiesUnread'
<1>0. /\ IInv /\ IInv' /\ OneEach /\ BatchRows /\ {"next", "spawn"} \subseteq Attempts
      /\ att \in [Attempts -> Attempt] /\ CopiesUnread
  BY IInvStep DEF LoneInv, IInv, TypeOK, Attempts, SureInv
<1> SUFFICES ASSUME NEW a \in Attempts, NEW c \in att'[a].batch, c.id \in Phone, ~c.doubt,
                    (a = "next" /\ ~object') \/ (a = "spawn" /\ att'[a].pc = "begun")
             PROVE  Unread(c.uuid)'
  BY DEF CopiesUnread, Unread
<1>1. CASE a = "spawn" /\ Resumes
  <2>1. c \in att["next"].batch /\ att'["next"].pc = "idle" /\ att["next"].pc # "idle"
    BY <1>1 DEF Resumes, Idle
  <2>2. c.uuid = LineUuid("next")
    BY <1>0, <2>1, BatchUuid
  <2>3. Unread(c.uuid)
    <3>1. CASE NoSession
      BY <1>0, <2>1, <3>1 DEF NoSession, CopiesUnread
    <3>2. CASE SettleRefusedGone("next")
      <4>1. c.uuid \notin WireUuids
        BY <2>2, <3>2 DEF SettleRefusedGone, LoneInv, AnswersTrue
      <4> QED BY <4>1 DEF Unread, WireUuids
    <3> QED BY <1>1, <3>1, <3>2 DEF Resumes
  <2>4. NoWrite(c.uuid)
    <3>1. ASSUME NEW b \in Attempts, Send(b) PROVE FALSE
      <4>1. b = "next" \/ att'["next"] = att["next"]
        BY <1>0, <3>1, SendKeeps
      <4>2. att["next"].pc = "registered" /\ b = "next"
        BY <2>1, <3>1, <4>1 DEF Send
      <4> QED BY <1>1, <4>2 DEF Resumes
    <3> QED BY <3>1 DEF NoWrite
  <2> QED BY <1>0, <2>3, <2>4, UnreadStays
<1>2. CASE c \in att[a].batch /\ ~(a = "spawn" /\ Resumes)
  <2>1. CASE a = "next"
    <3>1. ~object
      <4>1. object => Restart
        BY <1>0, <2>1, ProcessMoves
      <4>2. ~Restart
        <5>1. Restart => att'[a] = Idle
          BY DEF Restart
        <5> QED BY <5>1 DEF Idle
      <4> QED BY <4>1, <4>2
    <3>2. Unread(c.uuid)
      BY <1>0, <1>2, <2>1, <3>1 DEF CopiesUnread
    <3>3. NoWrite(c.uuid)
      BY <3>1 DEF NoWrite, Send, LoneInv, Detached, Attempts
    <3> QED BY <1>0, <3>2, <3>3, UnreadStays
  <2>2. CASE a = "spawn"
    <3>1. att[a].pc = "begun"
      <4>1. Moves(a)
        BY <1>0, AttemptMoves
      <4> QED BY <1>2, <2>2, <4>1 DEF Moves, Same, Idle
    <3>2. Unread(c.uuid)
      BY <1>0, <1>2, <2>2, <3>1 DEF CopiesUnread
    <3>3. ~alive
      BY <2>2, <3>1 DEF LoneInv, NoProcess
    <3>4. NoWrite(c.uuid)
      BY <3>3 DEF NoWrite, Answer, Verdict
    <3> QED BY <1>0, <3>2, <3>4, UnreadStays
  <2> QED BY <2>1, <2>2
<1>3. ASSUME NEW r \in queue, NEW x \in queue', a # "spawn", MarkedFrom(a, r, x)
      PROVE  Unread(c.uuid)'
  <2>1. c = x /\ Waits(x) /\ x.uuid # NoUuid /\ a \in {"next", "mid"}
    BY <1>3 DEF MarkedFrom, Waits, Attempts
  <2>2. Sure(c)
    BY <2>1 DEF Sure
  <2>3. Clear(c.uuid)
    BY <1>3, <2>1, <2>2, MarkedClear
  <2> QED BY <2>3, AbsentOfClear DEF Absent, Unread
<1>4. att'[a].batch # {}
  OBVIOUS
<1> QED BY <1>1, <1>2, <1>3, <1>4, LineMoves

-----------------------------------------------------------------------------
(* What is given back is left behind *)

\* What is abandoned stays so while no row waits.
LEMMA AbandonedStays ==
  ASSUME Lone, LoneInv, Abandoned, \A r \in queue : ~Waits(r), [Next]_vars
  PROVE  Abandoned'
<1>0. /\ IInv /\ OneTurn /\ Numbered /\ OneEach /\ BatchRows /\ {"next", "spawn"} \subseteq Attempts
      /\ \A a \in Attempts : att[a] \in Attempt
  BY DEF LoneInv, IInv, TypeOK, Attempts
<1>1. ASSUME NEW a \in {"next", "mid"}, NEW r \in queue, NEW x PROVE ~MarkedFrom(a, r, x)
  BY DEF MarkedFrom, Waits
<1>2. ASSUME NEW u, GivenUp(u) PROVE GivenUp(u)'
  BY <1>0, <1>2, GivenUpStays
<1>3. ~Resumes
  <2>1. ~NoSession
    BY <1>0 DEF NoSession, Abandoned, Past, IInv, AttemptsHold
  <2>2. ~SettleRefusedGone("next")
    <3>1. ASSUME Replied("next", "refused") PROVE FALSE
      <4>1. GivenUp(LineUuid("next"))
        BY <1>0, <3>1 DEF Abandoned, Past, Replied, IInv, AttemptsHold
      <4> QED BY <3>1, <4>1 DEF LoneInv, AnswersTrue, GivenUp, WireUuids
    <3> QED BY <3>1 DEF SettleRefusedGone
  <2> QED BY <2>1, <2>2 DEF Resumes
<1>4. ASSUME NEW a \in Attempts, att'[a].batch # {}
      PROVE  Past(a) /\ LineUuid(a)' = LineUuid(a)
  <2>1. a \in {"next", "mid"} \/ a = "spawn"
    BY DEF Attempts
  <2> QED BY <1>1, <1>3, <1>4, <2>1, LineMoves
<1>5. Spent'
  <2>1. Moves("spawn")
    BY <1>0, AttemptMoves
  <2> QED BY <1>3, <2>1 DEF Moves, Same, Spent, Abandoned, Replied, Idle, Send,
                                      LoseAnswer, SpawnStart
<1>6. ~object' => ~Past("next")'
  <2>1. CASE Restart
    BY <1>0, <2>1 DEF Restart, Past, Idle
  <2> QED BY <1>0, <1>4, <2>1, ProcessMoves DEF Abandoned, Past
<1>7. ASSUME NEW a \in Attempts, Past(a)' PROVE GivenUp(LineUuid(a))'
  <2>1. GivenUp(LineUuid(a)) /\ LineUuid(a)' = LineUuid(a)
    BY <1>4, <1>7 DEF Past, Abandoned
  <2> QED BY <1>2, <2>1 DEF GivenUp, Live
<1>8. ASSUME NEW h \in HeldUuids' PROVE GivenUp(h)'
  <2>1. PICK r \in hold'.rows : h = r.uuid
    BY <1>8 DEF HeldUuids
  <2>2. r \in hold.rows \/ r \in att["spawn"].batch
    BY <1>0, <2>1, HoldMoves DEF NoHold
  <2>3. GivenUp(h)
    BY <1>0, <2>1, <2>2, BatchUuid DEF Abandoned, HeldUuids, Past
  <2> QED BY <1>2, <2>3
<1>9. ASSUME NEW v \in wire' PROVE v.st = "cancelled" \/ GivenUp(v.uuid)'
  <2>1. ASSUME NEW a \in Attempts, Send(a), Answer(a) = "written" PROVE FALSE
    <3>1. GivenUp(LineUuid(a))
      BY <2>1, SentIsOn DEF Abandoned, On
    <3> QED BY <2>1, <3>1, SentIsNew
  <2>2. PICK w \in wire : Becomes(w, v)
    BY <1>0, <2>1, LineHistory
  <2> QED BY <1>2, <2>2 DEF Becomes, Abandoned
<1> QED BY <1>5, <1>6, <1>7, <1>8, <1>9 DEF Abandoned

\* What is given back stays given back.
LEMMA FreedStays ==
  ASSUME Lone, LoneInv, FatesTold, FreedOut, [Next]_vars, NEW m \in Messages, Freed(m)
  PROVE  /\ fate'[m] # "none" /\ arriving' = {} /\ Abandoned'
         /\ \A r \in queue' : ~Waits(r)
<1>0. /\ IInv /\ OneEach /\ BatchRows /\ StopperWaits /\ Arrivals
      /\ fate[m] # "none" /\ arriving = {} /\ Abandoned /\ m \in Phone
      /\ \A r \in queue : ~Waits(r)
  BY DEF LoneInv, FreedOut, FatesTold
<1>1. fate'[m] # "none"
  BY <1>0, StoredMoves
<1>2. arriving' = {}
  BY <1>0, EnqueueMoves DEF Lone
<1>3. Abandoned'
  BY <1>0, AbandonedStays
<1>4. ASSUME NEW x \in queue', Waits(x) PROVE FALSE
  <2>1. Origin(x)
    BY <1>0, QueueMoves
  <2>2. ~\E r \in queue : Still(x, r)
    BY <1>0, <1>4 DEF Still
  <2>3. ~JustMarked(x) /\ ~Renewed(x) /\ ~JustStored(x)
    BY <1>0 DEF JustMarked, MarkedFrom, Renewed, JustStored, Waits
  <2>4. ~SpawnFails /\ ~SettleSpawnDead
    BY <1>0 DEF Abandoned, Spent, Replied, SpawnFails, SettleSpawnDead
  <2>5. ~DropHold
    BY <1>0, DropUnread DEF Abandoned
  <2> QED BY <1>4, <2>1, <2>2, <2>3, <2>4, <2>5 DEF Origin, Reinserted
<1> QED BY <1>1, <1>2, <1>3, <1>4

\* A message is given back by the answer to the companion's question.
LEMMA FreedMoves ==
  ASSUME IInv, [Next]_vars, NEW m \in Messages, ~Freed(m), Freed(m)'
  PROVE  Withdraw(m) /\ WithdrawAnswer(queue, fate[m], m) \in GivenBack
<1> DEFINE Goal == Withdraw(m) /\ WithdrawAnswer(queue, fate[m], m) \in GivenBack
<1>0. told \in [Messages -> SUBSET Word]
  BY DEF IInv, TypeOK
<1>1. ASSUME told' = told PROVE Goal
  BY <1>1 DEF Freed
<1> USE DEF history
<1>2. CASE Intake
  <2>1. ASSUME NEW k \in Messages, Withdraw(k) PROVE Goal
    <3> DEFINE answer == WithdrawAnswer(queue, fate[k], k)
               word == IF answer \in GivenBack THEN {"freed"} ELSE {answer} \cap Word
    <3>1. told' = [told EXCEPT ![k] = @ \cup word]
      BY <2>1 DEF Withdraw
    <3>2. k = m /\ "freed" \in word
      BY <1>0, <3>1 DEF Freed
    <3>3. answer # "freed"
      BY DEF WithdrawAnswer
    <3> HIDE DEF answer
    <3>4. answer \in GivenBack
      BY <3>2, <3>3
    <3> QED BY <2>1, <3>2, <3>4 DEF answer
  <2> QED BY <1>1, <1>2, <2>1 DEF Intake, Store, Revive, ParkStale, Arrive, Relay, Retry, Delete
<1>3. ASSUME NEW a \in {"next", "mid"}, DeliverLive(a) PROVE Goal
  BY <1>1, <1>3 DEF DeliverLive, Begin, Mark, Register, SettleRefusedStopped,
                    SettleRefusedEnded, SettleRefusedGone
<1>4. ASSUME NEW a \in Attempts, Deliver(a) PROVE Goal
  BY <1>1, <1>4
    DEF Deliver, Send, LoseAnswer, SettleWritten, SettleTaking, SettleRan, SettleUnanswered,
        SettleCancelled, SettleSuperseded, SettleUnknown
<1>5. CASE Resume
  BY <1>1, <1>5 DEF Resume, Attach, NoSession, SpawnStart, SpawnFails, SpawnRefused,
                    SettleSpawnDead, ReadHold, DropHold, RecoveryEnds
<1>6. CASE Cli \/ Frames
  BY <1>1, <1>6
  DEF Cli, Take, AnswerLines, Die, Frames, ReadStart, ReadAnswer, ReadCancelled, SeeExit
<1>7. CASE Stopping \/ Restarting
  BY <1>1, <1>7 DEF Stopping, Interrupt, StopAsk, StopPeek, StopPark, StopSend, StopFails,
                    Restarting, RestartCli, Restart, Load
<1>8. CASE UNCHANGED vars
  BY <1>1, <1>8 DEF vars
<1> QED BY <1>2, <1>3, <1>4, <1>5, <1>6, <1>7, <1>8 DEF Next

\* Before anything of the message left, nothing is to be abandoned.
LEMMA NothingAbandoned ==
  ASSUME IInv, Nothing
  PROVE  Abandoned
<1>1. \A a \in Attempts : ~Past(a)
  BY DEF Nothing, Past
<1>2. att["spawn"].pc = "idle"
  <2>1. att["spawn"] \in Attempt /\ "spawn" \in Attempts /\ att["spawn"].batch = {}
    BY DEF IInv, TypeOK, Attempts, Nothing
  <2> QED BY <2>1 DEF IInv, AttemptsHold, Attempt
<1>3. "next" \in Attempts
  BY DEF Attempts
<1> QED BY <1>1, <1>2, <1>3 DEF Abandoned, Spent, Nothing, HeldUuids, NoHold

\* A pending row in no doubt is of a uuid later than whatever is out.
LEMMA SureAbandons ==
  ASSUME LoneInv, SureInv, NEW r \in queue, Sure(r), r.status = "pending"
  PROVE  Abandoned
<1> DEFINE u == r.uuid
<1>0. /\ IInv /\ OneEach /\ BatchRows /\ Numbers /\ OlderGivenUp /\ LatestGoesOut /\ Overtaken
      /\ DetachedGoing /\ SettledRan /\ {"next", "spawn"} \subseteq Attempts
      /\ att["spawn"] \in Attempt
  BY DEF LoneInv, Attempts, IInv, TypeOK
<1>1. Clear(u) /\ u # NoUuid /\ Waits(r)
  BY DEF SureInv, BackClear, Sure
<1>2. u \in Out /\ u \in Known /\ u.n \in Nat
  <2>1. u \in Out
    BY <1>1, OutParts
  <2> QED BY <1>0, <2>1, KnownTypes DEF Known
<1>3. ASSUME NEW v \in Known, v # u, v.n <= u.n \/ ~(u.n < v.n) PROVE GivenUp(v)
  <2>1. v.n \in Nat /\ v.n # u.n
    BY <1>0, <1>2, <1>3, KnownTypes DEF Numbers
  <2>2. v.n < u.n
    BY <1>2, <1>3, <2>1
  <2> QED BY <1>0, <1>2, <2>2 DEF OlderGivenUp
<1>4. ASSUME NEW a \in Attempts, Past(a) PROVE GivenUp(LineUuid(a))
  <2>1. LineUuid(a) \in Known /\ LineUuid(a) # u
    BY <1>0, <1>1, <1>4, BatchUuid DEF Known, Clear, On
  <2>2. ~(u.n < LineUuid(a).n)
    BY <1>0, <1>1, <1>4 DEF Overtaken
  <2> QED BY <1>3, <2>1, <2>2
<1>5. ASSUME NEW h \in HeldUuids PROVE GivenUp(h)
  <2>1. h \in Known /\ h # u /\ h.n <= u.n
    BY <1>0, <1>1, <1>2, <1>5 DEF Known, Clear, Absent, LatestGoesOut
  <2> QED BY <1>3, <2>1
<1>6. ASSUME NEW v \in wire, v.st # "cancelled" PROVE GivenUp(v.uuid)
  <2>1. v.uuid \in Known /\ v.uuid # u /\ v.uuid.n <= u.n
    BY <1>0, <1>1, <1>2, <1>6 DEF Known, Clear, Absent, Unread, LatestGoesOut, WireUuids
  <2> QED BY <1>3, <2>1
<1>7. Spent
  <2> SUFFICES ASSUME ~Spent PROVE FALSE
    OBVIOUS
  <2>1. Past("spawn")
    BY <1>0 DEF Spent, Past, IInv, AttemptsHold, Attempt, BatchRows
  <2>2. Agree
    BY ResumeAgrees
  <2>3. LineUuid("spawn") = u
    BY <1>0, <1>2, <2>1, <2>2, BatchUuid DEF Agree
  <2> QED BY <1>0, <1>1, <2>1, <2>3 DEF Clear, On
<1>8. ~object => ~Past("next")
  <2> SUFFICES ASSUME ~object, Past("next") PROVE FALSE
    OBVIOUS
  <2>1. Unsettled
    <3>1. ASSUME NEW k \in Messages, settled[k] # NoUuid PROVE FALSE
      <4>1. Done(settled[k])
        BY <1>0, <3>1 DEF SettledRan
      <4>2. Done(u)
        BY <1>2, <4>1, DoneAlone
      <4> QED BY <1>1, <4>2 DEF Clear, Absent, Unread, Done, Shows, Ran
    <3> QED BY <3>1 DEF Unsettled
  <2> QED BY <1>0, <1>1, <2>1 DEF DetachedGoing, AllGoing
<1> QED BY <1>4, <1>5, <1>6, <1>7, <1>8 DEF Abandoned

\* A message is given back when nothing of it waits here or is out.
LEMMA FreedNow ==
  ASSUME Lone, LoneInv, FatesTold, SureInv, [Next]_vars, NEW m \in Messages, ~Freed(m), Freed(m)'
  PROVE  /\ fate'[m] # "none" /\ arriving' = {} /\ Abandoned'
         /\ \A r \in queue' : ~Waits(r)
<1> DEFINE answer == WithdrawAnswer(queue, fate[m], m)
<1>0. /\ IInv /\ Arrivals /\ BlankStart /\ Single(queue) /\ queue \in SUBSET Row
      /\ fate \in [Messages -> Fate] /\ \A k \in Messages : k = m
  BY DEF LoneInv, OneEach, IInv, TypeOK, Lone
<1>1. Withdraw(m) /\ answer \in GivenBack /\ m \in Phone
  BY <1>0, FreedMoves DEF Withdraw
<1>2. /\ queue' = IF answer = "withdrawn" THEN {r \in queue : r.id # m} ELSE queue
      /\ fate' = CASE answer = "withdrawn" -> [fate EXCEPT ![m] = "withdrawn"]
                   [] answer = "not-received" -> [fate EXCEPT ![m] = "fenced"]
                   [] OTHER -> fate
      /\ arriving' = arriving /\ ~InRelay(m)
      /\ UNCHANGED <<object, att, hold, alive, proc, wire>>
  BY <1>1 DEF Withdraw, registry, host
<1>3. arriving' = {}
  <2>1. ASSUME NEW e \in arriving PROVE FALSE
    <3>1. e.id = m /\ e.kind \in {"web", "relay", "retry"}
      BY <1>0, <2>1 DEF IInv, TypeOK
    <3>2. e.kind = "relay"
      BY <1>0, <1>1, <2>1, <3>1 DEF Arrivals
    <3> QED BY <1>2, <2>1, <3>1, <3>2 DEF InRelay
  <2> QED BY <1>2, <2>1
<1>4. ASSUME NEW r \in queue, answer = "withdrawn" PROVE Abandoned
  <2>1. m \in Ids(queue) /\ r.id = m /\ r = CHOOSE x \in queue : x.id = m
    <3>1. r.id = m
      BY <1>0 DEF Row
    <3>2. (CHOOSE x \in queue : x.id = m) \in queue
      BY <3>1
    <3> QED BY <1>0, <3>1, <3>2 DEF Single, Ids
  <2>2. r.status = "pending" /\ ~r.doubt
    <3>1. r.status \in {"pending", "processing", "parked"}
      BY <1>0 DEF Row, Status
    <3> HIDE DEF answer
    <3>2. answer = CASE r.status = "processing" -> "delivering"
                     [] r.status = "parked" -> IF r.reason = "stop" THEN "stopped" ELSE "parked"
                     [] r.status = "pending" /\ r.doubt -> "delivering"
                     [] r.status = "pending" /\ ~r.doubt /\ EarlierQueued(queue, r.ord) -> "behind"
                     [] OTHER -> "withdrawn"
      BY <2>1 DEF answer, WithdrawAnswer
    <3> QED BY <1>4, <3>1, <3>2
  <2>3. CASE r.uuid = NoUuid
    BY <1>0, <2>2, <2>3, NothingAbandoned DEF BlankStart, Waits
  <2>4. CASE r.uuid # NoUuid
    <3>1. Sure(r)
      BY <1>1, <2>1, <2>2, <2>4 DEF Sure, Waits
    <3> QED BY <2>2, <3>1, SureAbandons
  <2> QED BY <2>3, <2>4
<1>5. CASE m \notin Ids(queue)
  <2>1. fate[m] \notin {"withdrawn", "fenced"}
    BY DEF FatesTold
  <2>2. fate[m] = "none" /\ answer = "not-received"
    <3>1. fate[m] \in {"none", "taken", "removed"}
      BY <1>0, <2>1 DEF Fate
    <3>2. fate[m] = "taken" => answer = "delivered"
      BY <1>5 DEF WithdrawAnswer
    <3>3. fate[m] = "removed" => answer = "removed"
      BY <1>5 DEF WithdrawAnswer
    <3>4. fate[m] = "none" => answer \in {"behind", "not-received"}
      BY <1>5 DEF WithdrawAnswer
    <3> HIDE DEF answer
    <3> QED BY <1>1, <3>1, <3>2, <3>3, <3>4 DEF GivenBack
  <2>3. stored = {}
    BY <1>0, <1>1, <2>2 DEF Arrivals, IInv, TypeOK
  <2>4. queue = {} /\ Abandoned
    BY <1>0, <2>3, NothingAbandoned DEF BlankStart
  <2>5. fate'[m] = "fenced" /\ queue' = {}
    BY <1>0, <1>2, <2>2, <2>4
  <2> QED BY <1>2, <1>3, <2>4, <2>5
         DEF Abandoned, Spent, Replied, Past, LineUuid, GivenUp, Live, HeldUuids
<1>6. CASE m \in Ids(queue)
  <2>1. PICK r \in queue : r.id = m
    BY <1>6 DEF Ids
  <2>2. answer = "withdrawn"
    <3>1. answer # "not-received"
      BY <1>6 DEF WithdrawAnswer
    <3> HIDE DEF answer
    <3> QED BY <1>1, <3>1 DEF GivenBack
  <2>3. Abandoned
    BY <1>4, <2>1, <2>2
  <2>4. fate'[m] = "withdrawn" /\ queue' = {}
    <3> HIDE DEF answer
    <3>1. fate' = [fate EXCEPT ![m] = "withdrawn"] /\ queue' = {x \in queue : x.id # m}
      BY <1>2, <2>2
    <3> QED BY <1>0, <3>1 DEF Row
  <2> QED BY <1>2, <1>3, <2>3, <2>4
         DEF Abandoned, Spent, Replied, Past, LineUuid, GivenUp, Live, HeldUuids
<1> QED BY <1>5, <1>6

\* What was given back stays out, and what is given back now is out.
LEMMA FreedOutStep ==
  ASSUME Lone, LoneInv, FatesTold, SureInv, [Next]_vars
  PROVE  FreedOut'
<1> SUFFICES ASSUME NEW m \in Messages, Freed(m)'
             PROVE  /\ fate'[m] # "none" /\ arriving' = {} /\ Abandoned'
                    /\ \A r \in queue' : ~Waits(r)
  BY DEF FreedOut
<1>1. FreedOut
  BY DEF SureInv
<1> QED BY <1>1, FreedStays, FreedNow

\* Nothing was given back, and nothing is out, at first.
LEMMA BackInit ==
  ASSUME Init
  PROVE  BackInv
<1>1. /\ queue = {} /\ arriving = {} /\ hold = NoHold /\ wire = {} /\ stored = {}
      /\ \A a \in Attempts : att[a] = Idle
      /\ fate = [m \in Messages |-> "none"] /\ told = [m \in Messages |-> {}]
  BY DEF Init
<1>2. {"next", "spawn"} \subseteq Attempts /\ hold.rows = {}
      /\ \A a \in Attempts : att[a].pc = "idle" /\ att[a].batch = {}
  BY <1>1 DEF Attempts, Idle, NoHold
<1>3. SpawnSees /\ HoldSees /\ PipedHere /\ RelaysFirst /\ FatesTold
  BY <1>1, <1>2 DEF SpawnSees, HoldSees, PipedHere, RelaysFirst, FatesTold, Freed
<1>4. SureInv
  BY <1>1, <1>2 DEF SureInv, OneCarrier, BackClear, UnsentAbsent, HeldAlone, CopiesUnread, Kept,
                    FreedOut, Freed
<1> QED BY <1>3, <1>4, LoneInit DEF BackInv

\* Every step keeps what holds of a message that is alone and not deleted.
LEMMA BackStep ==
  ASSUME Lone, BackInv, [Next]_vars
  PROVE  BackInv'
<1>0. LoneInv /\ SpawnSees /\ HoldSees /\ PipedHere /\ RelaysFirst /\ FatesTold
  BY DEF BackInv
<1>1. LoneInv'
  BY <1>0, LoneStep
<1>2. SpawnSees' /\ HoldSees' /\ PipedHere' /\ RelaysFirst' /\ FatesTold'
  BY <1>0, SpawnSeesStep, HoldSeesStep, PipedHereStep, RelaysFirstStep, FatesToldStep
<1>3. ASSUME discarded' = {} PROVE SureInv'
  <2>1. discarded = {}
    <3>1. IInv /\ discarded \subseteq Messages
      BY <1>0 DEF LoneInv, IInv, TypeOK
    <3> QED BY <1>3, <3>1, HistoryGrows
  <2>2. SureInv /\ Kept
    BY <2>1 DEF BackInv, SureInv
  <2>3. OneCarrier' /\ BackClear' /\ UnsentAbsent' /\ HeldAlone'
    BY <1>0, <2>2, OneCarrierStep, BackClearStep, UnsentAbsentStep, HeldAloneStep
  <2>4. CopiesUnread' /\ FreedOut'
    BY <1>0, <2>2, CopiesUnreadStep, FreedOutStep
  <2>5. Kept'
    BY <1>0, <1>3, <2>2, KeptStep
  <2> QED BY <2>3, <2>4, <2>5 DEF SureInv
<1> QED BY <1>1, <1>2, <1>3 DEF BackInv

\* What a process died with is neither answered nor in a running CLI.
LEMMA BackOut ==
  ASSUME BackInv, discarded = {}
  PROVE  FreedStaysOut
<1>0. LoneInv /\ Distinct /\ FreedOut
  BY DEF BackInv, SureInv, LoneInv
<1> SUFFICES ASSUME NEW m \in Messages, Freed(m)
             PROVE  /\ \A r \in queue : r.status = "parked"
                    /\ \A v \in wire : v.st \notin {"answered", "stopped"}
                    /\ \A v \in wire : ~(Live(v) /\ v.st \in {"piped", "started"})
  BY DEF FreedStaysOut, Freed, Carried
<1>1. \A r \in queue : r.status = "parked"
  BY <1>0 DEF FreedOut, Waits
<1>2. ASSUME NEW v \in wire PROVE v.st = "cancelled" \/ (v.st = "started" /\ ~Live(v))
  <2>1. v.st = "cancelled" \/ GivenUp(v.uuid)
    BY <1>0 DEF FreedOut, Abandoned
  <2> QED BY <1>0, <2>1 DEF GivenUp, Distinct
<1> QED BY <1>1, <1>2

\* FreedStaysOut: a phone message that is alone in its session, that nobody
\* retries, deletes or cancels, neither waits, nor was answered, nor is in a running
\* CLI once the companion got it back, however its deliveries, its resumes, its
\* stops and the server's restarts fall, and whatever answers are lost.
THEOREM AloneFreedStaysOut ==
  ASSUME Lone
  PROVE  Spec => [](discarded = {} => FreedStaysOut)
<1>1. Init => BackInv
  BY BackInit
<1>2. BackInv /\ [Next]_vars => BackInv'
  BY BackStep
<1>3. BackInv => (discarded = {} => FreedStaysOut)
  BY BackOut
<1> QED BY <1>1, <1>2, <1>3, PTL DEF Spec
=============================================================================
