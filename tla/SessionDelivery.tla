------------------------- MODULE SessionDelivery -------------------------
(***************************************************************************)
(* How the messages queued for one session reach its CLI.                 *)
(*                                                                        *)
(* A message enters the durable queue (Arrive, Store), a delivery attempt *)
(* marks rows as the next line (Begin, Mark), registers the line, writes  *)
(* it through the daemon (Register, Send) and settles what the daemon     *)
(* answered (the Settle actions). The CLI takes, answers, or dies on a    *)
(* line; the server learns of it from frames it reads later, or never.    *)
(* Meanwhile a person stops, retries, deletes or interrupts, the phone's  *)
(* companion asks for its messages back, and the server restarts.         *)
(*                                                                        *)
(* Three attempts may be in progress: `next' (processNextNow), `mid'      *)
(* (injectMidTurn) and `spawn' (a --resume and its first line, which      *)
(* processNextNow leaves running when it returns).                        *)
(***************************************************************************)
EXTENDS SessionQueueOps

CONSTANTS
  MaxEnq,         \* places handed out in the queue
  MaxFresh,       \* random uuids drawn
  MaxStops,       \* stops asked for
  MaxProcs,       \* CLI processes
  MaxRestarts,    \* server restarts
  MaxRetries,     \* Retry presses
  MaxLosses,      \* answers of the daemon that are lost
  Stale,          \* BOOLEAN: rows grow older than the delivery age limit
  HardRestarts,   \* BOOLEAN: a person restarts the CLI
  EarlySends,     \* BOOLEAN: a send starts a delivery before loadQueue ran
  SettleWaits     \* BOOLEAN: the frames of an ended process are read within
                  \* RESUME_LINE_SETTLE_MS of its exit

ASSUME BoundsAssumption ==
  /\ {MaxEnq, MaxFresh, MaxStops, MaxProcs, MaxRestarts, MaxRetries,
      MaxLosses} \subseteq Nat
  /\ {Stale, HardRestarts, EarlySends, SettleWaits} \subseteq BOOLEAN

VARIABLES
  queue,          \* the session's rows on disk
  fate,           \* a phone message's fate, in the same file
  settled,        \* the uuid of the line each removed row went out in
  stop,           \* the session record's stopRequest
  stopper,        \* the coordinator's stop in progress: it holds `serial'
  arriving,       \* enqueues and Retries that read the fence, not written yet
  att,            \* the delivery attempts
  untaken,        \* registry: lines written, not taken by the CLI yet
  answering,      \* registry: lines taken, not answered yet
  hold,           \* the first line of a resume, until its process reads it
  object,         \* the server holds a ClaudeCodeSession for the session
  view,           \* the process that object believes it has (0: none)
  loaded,         \* loadQueue ran since the server started
  alive, proc,    \* the CLI process: is it running, and which one it is
  wire,           \* lines in a CLI's stdin or transcript
  used,           \* what is bounded: places, random uuids, restarts, ...
  told, discarded, stored   \* history, for the properties only

queueFile == <<queue, fate, settled>>
stopState == <<stop, stopper>>
registry == <<untaken, answering, hold>>
host == <<alive, proc, wire>>
history == <<told, discarded, stored>>
vars == <<queueFile, stopState, arriving, att, registry, object, view, loaded,
          host, used, history>>

-----------------------------------------------------------------------------
(* Values *)

Attempts == {"next", "mid", "spawn"}

Reply == {"none", "written", "waiting", "taking", "ran", "unanswered",
          "cancelled", "refused", "superseded", "unknown"}

Attempt == [pc : {"idle", "begun", "marked", "registered", "replied"},
            fence : Nat, batch : SUBSET Row, pid : Nat, reply : Reply,
            stopped : BOOLEAN]

Idle == [pc |-> "idle", fence |-> 0, batch |-> {}, pid |-> 0,
         reply |-> "none", stopped |-> FALSE]

Line == [uuid : Uuid, ids : SUBSET Messages, pid : Nat]

\* "skipped": the CLI's transcript held the uuid already, nothing ran.
WireLine == [uuid : Uuid, ids : SUBSET Messages, pid : Nat,
             st : {"piped", "started", "answered", "stopped", "skipped",
                   "cancelled"}]

NoHold == [rows |-> {}, pid |-> 0]

NoStop == [id |-> 0, st |-> "none"]

AtEase == [pc |-> "idle", peek |-> {}]

\* The companion's answers the properties are about.
Word == {"freed", "stopped", "removed", "delivered"}

LineUuid(a) == Earliest(att[a].batch).uuid

LineOf(a, pid) == [uuid |-> LineUuid(a), ids |-> Ids(att[a].batch), pid |-> pid]

TypeOK ==
  /\ queue \subseteq Row
  /\ fate \in [Messages -> Fate]
  /\ settled \in [Messages -> Uuid]
  /\ stop \in [id : Nat, st : {"none", "pending", "confirmed", "failed"}]
  /\ stopper \in [pc : {"idle", "peek", "park", "send"}, peek : SUBSET Row]
  /\ arriving \subseteq [id : Messages, ord : Nat, fence : Nat,
                         kind : {"web", "relay", "retry"}, uuid : Uuid]
  /\ att \in [Attempts -> Attempt]
  /\ untaken \subseteq Line
  /\ answering \subseteq Line
  /\ hold \in [rows : SUBSET Row, pid : Nat]
  /\ object \in BOOLEAN
  /\ view \in Nat
  /\ loaded \in BOOLEAN
  /\ alive \in BOOLEAN
  /\ proc \in Nat
  /\ wire \subseteq WireLine
  /\ used \in [enq : Nat, fresh : Nat, restarts : Nat, retries : Nat,
               losses : Nat]
  /\ told \in [Messages -> SUBSET Word]
  /\ discarded \subseteq Messages
  /\ stored \subseteq Messages

Init ==
  /\ queue = {}
  /\ fate = [m \in Messages |-> "none"]
  /\ settled = [m \in Messages |-> NoUuid]
  /\ stop = NoStop
  /\ stopper = AtEase
  /\ arriving = {}
  /\ att = [a \in Attempts |-> Idle]
  /\ untaken = {}
  /\ answering = {}
  /\ hold = NoHold
  /\ object = FALSE
  /\ view = 0
  /\ loaded = TRUE
  /\ alive = FALSE
  /\ proc = 0
  /\ wire = {}
  /\ used = [enq |-> 0, fresh |-> 0, restarts |-> 0, retries |-> 0, losses |-> 0]
  /\ told = [m \in Messages |-> {}]
  /\ discarded = {}
  /\ stored = {}

-----------------------------------------------------------------------------
(* What enters the queue *)

\* Mutant: any confirmed stop will do.
NoStopPending(f) == stop.st # "pending"

\* sessionStops.dispatch: the delivery's fence is the session's latest.
FenceHolds(f) == stop.st # "pending" /\ stop.id = f

Queued(m) == m \in Ids(queue)

\* enqueueMessage up to its write: the fence and the settled uuid are read.
\* A client sends a message again under its id only when the first send was
\* answered and its row left the queue.
Arrive(m) ==
  /\ m \notin Phone
  /\ stop.st # "pending"
  /\ used.enq < MaxEnq
  /\ ~Queued(m) /\ (m \in stored => settled[m] # NoUuid)
  /\ m \notin {e.id : e \in arriving}
  /\ arriving' = arriving \cup {[id |-> m, ord |-> used.enq + 1,
                                 fence |-> stop.id, kind |-> "web",
                                 uuid |-> settled[m]]}
  /\ used' = [used EXCEPT !.enq = @ + 1]
  /\ UNCHANGED <<object, queueFile, stopState, att, registry, view, loaded, host, history>>

InRelay(m) == \E w \in arriving : w.id = m /\ w.kind = "relay"

\* enqueueRelayedMessage: a fate already recorded answers without an enqueue,
\* and the phone's fence must be the session's. One relay or withdraw of a
\* message at a time (withMobileMessageLock).
Relay(m) ==
  /\ m \in Phone /\ fate[m] = "none" /\ ~InRelay(m)
  /\ stop.st # "pending"
  /\ used.enq < MaxEnq
  /\ arriving' = arriving \cup {[id |-> m, ord |-> used.enq + 1,
                                 fence |-> stop.id, kind |-> "relay",
                                 uuid |-> settled[m]]}
  /\ used' = [used EXCEPT !.enq = @ + 1]
  /\ UNCHANGED <<object, queueFile, stopState, att, registry, view, loaded, host, history>>

NewRow(w) ==
  [id |-> w.id, ord |-> w.ord, status |-> "pending", reason |-> "none",
   uuid |-> w.uuid, tries |-> IF w.uuid = NoUuid THEN 0 ELSE 1,
   doubt |-> FALSE, resent |-> FALSE, fence |-> w.fence]

\* enqueueMessage's write: the row, unless one of its id is queued, and with a
\* relayed row its fate.
Store ==
  \E w \in arriving :
    /\ w.kind # "retry"
    /\ queue' = IF Queued(w.id) THEN queue ELSE queue \cup {NewRow(w)}
    /\ fate' = IF w.kind = "relay" THEN [fate EXCEPT ![w.id] = "taken"] ELSE fate
    /\ stored' = stored \cup {w.id}
    /\ arriving' = arriving \ {w}
    /\ UNCHANGED <<object, settled, stopState, att, registry, view, loaded, host, used,
                   told, discarded>>

\* unparkMessage up to its write: a person presses Retry.
Retry(m) ==
  /\ used.retries < MaxRetries
  /\ stop.st # "pending"
  /\ \E r \in queue : r.id = m /\ r.status = "parked"
  /\ arriving' = arriving \cup {[id |-> m, ord |-> 0, fence |-> stop.id,
                                 kind |-> "retry", uuid |-> NoUuid]}
  /\ used' = [used EXCEPT !.retries = @ + 1]
  /\ UNCHANGED <<object, queueFile, stopState, att, registry, view, loaded, host, history>>

\* unparkMessage's write.
Revive ==
  \E w \in arriving :
    /\ w.kind = "retry"
    /\ used.fresh < MaxFresh
    /\ queue' = Unpark(queue, w.id, w.fence, used.fresh + 1)
    /\ used' = [used EXCEPT !.fresh =
                  IF \E r \in queue' : r.uuid = FreshUuid(@ + 1) THEN @ + 1 ELSE @]
    /\ arriving' = arriving \ {w}
    /\ UNCHANGED <<object, fate, settled, stopState, att, registry, view, loaded, host,
                   history>>

\* Mutant: a row being delivered is deleted too.
DeleteAny(m) ==
  /\ Queued(m)
  /\ queue' = {r \in queue : r.id # m}
  /\ fate' = IF fate[m] # "none" \/ m \in Phone
               THEN [fate EXCEPT ![m] = "removed"] ELSE fate
  /\ discarded' = discarded \cup {m}
  /\ UNCHANGED <<object, settled, stopState, arriving, att, registry, view, loaded, host,
                 used, told, stored>>

\* deleteMessage: not while it is being delivered.
Delete(m) ==
  /\ \E r \in queue : r.id = m /\ r.status # "processing"
  /\ queue' = {r \in queue : r.id # m}
  /\ fate' = IF fate[m] # "none" \/ m \in Phone
               THEN [fate EXCEPT ![m] = "removed"] ELSE fate
  /\ discarded' = discarded \cup {m}
  /\ UNCHANGED <<object, settled, stopState, arriving, att, registry, view, loaded, host,
                 used, told, stored>>

\* The companion's question (withdrawRelayedMessage), in one durable write.
Withdraw(m) ==
  LET answer == WithdrawAnswer(queue, fate[m], m)
      word == IF answer \in GivenBack THEN {"freed"} ELSE {answer} \cap Word
  IN /\ m \in Phone /\ ~InRelay(m)
     /\ queue' = IF answer = "withdrawn" THEN {r \in queue : r.id # m} ELSE queue
     /\ fate' = CASE answer = "withdrawn" -> [fate EXCEPT ![m] = "withdrawn"]
                  [] answer = "not-received" -> [fate EXCEPT ![m] = "fenced"]
                  [] OTHER -> fate
     /\ told' = [told EXCEPT ![m] = @ \cup word]
     /\ UNCHANGED <<object, settled, stopState, arriving, att, registry, view, loaded,
                    host, used, discarded, stored>>

\* parkStalePending: pending rows past the age limit, in place.
ParkStale ==
  /\ Stale
  /\ \E m \in Ids(Pending(queue)) :
       queue' = ParkIfQueued(queue, {m}, "failed")
  /\ UNCHANGED <<object, fate, settled, stopState, arriving, att, registry, view, loaded,
                 host, used, history>>

-----------------------------------------------------------------------------
(* A delivery attempt *)

\* An answer of the daemon is on its way. The connection carries answers and
\* exits in order, `serial' is held until the answer is in, and a session's
\* writes wait for one another (writeChain).
AnswerDue ==
  \E a \in Attempts :
    att[a].pc = "replied" /\ att[a].reply \notin {"unknown", "superseded"}

Set(a, v) == att' = [att EXCEPT ![a] = v]

\* processNextNow and injectMidTurn up to markProcessing: the fence is read.
\* injectMidTurn needs a session object.
Begin(a) ==
  /\ att[a].pc = "idle"
  /\ loaded \/ EarlySends
  /\ a = "mid" => object
  /\ stop.st # "pending"
  /\ Pending(queue) # {}
  /\ Set(a, [Idle EXCEPT !.pc = "begun", !.fence = stop.id])
  /\ UNCHANGED <<object, queueFile, stopState, arriving, registry, view, loaded, host,
                 used, history>>

\* markProcessing. processNextNow waits for a mid-turn write (midTurnWrites).
Mark(a) ==
  LET batch == MarkedBatch(queue, att[a].fence)
  IN /\ att[a].pc = "begun"
     /\ a = "next" => att["mid"].pc \in {"idle", "begun"}
     /\ queue' = MarkProcessing(queue, att[a].fence)
     /\ Set(a, IF batch = {} THEN Idle
               ELSE [att[a] EXCEPT !.pc = "marked", !.batch = batch])
     /\ UNCHANGED <<object, fate, settled, stopState, arriving, registry, view, loaded,
                    host, used, history>>

\* ClaudeCodeSession.writeMessage up to the transport's write, once no spawn is
\* in progress (awaitSpawn): the line is registered before it is written.
Register(a) ==
  /\ att[a].pc = "marked" /\ att["spawn"].pc = "idle" /\ object
  /\ Set(a, [att[a] EXCEPT !.pc = "registered", !.pid = view])
  /\ untaken' = {l \in untaken : l.uuid # LineUuid(a)} \cup {LineOf(a, view)}
  /\ UNCHANGED <<object, queueFile, stopState, arriving, answering, hold, view, loaded,
                 host, used, history>>

\* attachToExisting: the runner's init after a restart, or processNextNow that
\* found no session object, attaches to the live process ...
Attach ==
  /\ ~object /\ alive
  /\ object' = TRUE /\ view' = proc
  /\ UNCHANGED <<queueFile, stopState, arriving, att, registry, loaded, host,
                 used, history>>

\* ... and with no live process a delivery goes straight to a resume.
NoSession ==
  /\ att["next"].pc = "marked" /\ att["spawn"].pc = "idle" /\ ~object /\ ~alive
  /\ object' = TRUE
  /\ att' = [att EXCEPT !["next"] = Idle,
                        !["spawn"] = [att["next"] EXCEPT !.pc = "begun"]]
  /\ UNCHANGED <<queueFile, stopState, arriving, registry, view, loaded, host,
                 used, history>>

\* Mutant: a line the running process is answering counts as unanswered.
VerdictTooSoon(uuid) ==
  LET In(states) == \E w \in wire : w.uuid = uuid /\ w.st \in states
  IN IF In({"answered", "stopped", "skipped"}) THEN "ran"
     ELSE IF In({"started"}) THEN "unanswered"
     ELSE IF In({"cancelled"}) THEN "cancelled"
     ELSE IF In({"piped"}) THEN "waiting"
     ELSE "write"

\* lineFateVerdict: what the stream and the write records prove of a uuid.
Verdict(uuid) ==
  LET In(states) == \E w \in wire : w.uuid = uuid /\ w.st \in states
      here == \E w \in wire : w.uuid = uuid /\ w.st = "started" /\ w.pid = proc
  IN IF In({"answered", "stopped", "skipped"}) THEN "ran"
     ELSE IF In({"started"})
            THEN IF alive /\ here THEN "taking" ELSE "unanswered"
     ELSE IF In({"cancelled"}) THEN "cancelled"
     ELSE IF In({"piped"}) THEN "waiting"
     ELSE "write"

\* A line that went out before (lineTries > 1) is asked about first, and so is
\* the deferred first line of every start.
Dedupes(a) == a = "spawn" \/ Earliest(att[a].batch).tries > 1

\* sessionStops.dispatch and the daemon's `send', as one step: the coordinator
\* is free, the fence is read again under its lock, and the daemon writes the
\* line, refuses it (nothing reads the pipe), or says what became of it.
Answer(a) ==
  LET verdict == IF Dedupes(a) THEN Verdict(LineUuid(a)) ELSE "write"
  IN IF ~FenceHolds(att[a].fence) THEN "superseded"
     ELSE IF verdict # "write" THEN verdict
     ELSE IF alive THEN "written" ELSE "refused"

PipedLine(a) == [uuid |-> LineUuid(a), ids |-> Ids(att[a].batch),
                 pid |-> proc, st |-> "piped"]

Send(a) ==
  /\ att[a].pc = "registered" /\ stopper.pc = "idle" /\ ~AnswerDue
  /\ Set(a, [att[a] EXCEPT !.pc = "replied", !.reply = Answer(a)])
  /\ wire' = IF Answer(a) = "written" THEN wire \cup {PipedLine(a)} ELSE wire
  /\ view' = IF Answer(a) = "written" THEN proc ELSE view
  /\ UNCHANGED <<object, queueFile, stopState, arriving, registry, loaded, alive, proc,
                 used, history>>

\* The answer is lost (SendOutcomeUnknownError), or nothing was sent at all
\* (SendHeldError): the same to the caller.
LoseAnswer(a) ==
  /\ used.losses < MaxLosses
  /\ \/ att[a].pc = "replied" /\ att[a].reply \notin {"unknown", "superseded"}
     \/ att[a].pc = "registered" /\ stopper.pc = "idle" /\ FenceHolds(att[a].fence)
  /\ Set(a, [att[a] EXCEPT !.pc = "replied", !.reply = "unknown"])
  /\ used' = [used EXCEPT !.losses = @ + 1]
  /\ UNCHANGED <<object, queueFile, stopState, arriving, registry, view, loaded, host,
                 history>>

-----------------------------------------------------------------------------
(* Settling what the daemon answered *)

Batch(a) == att[a].batch

BatchIds(a) == Ids(att[a].batch)

Replied(a, r) == att[a].pc = "replied" /\ att[a].reply = r

\* takeLine and dropLine.
Untracked(uuid) == {l \in untaken : l.uuid # uuid}

\* releaseLineRows for a line that ran: its rows leave, whatever their status.
ReleaseRan(ids) ==
  LET gone == {r \in queue : r.id \in ids}
  IN /\ queue' = RemoveTaken(queue, ids)
     /\ settled' = [m \in Messages |->
          IF \E r \in gone : r.id = m /\ r.uuid # NoUuid
            THEN (CHOOSE r \in gone : r.id = m).uuid ELSE settled[m]]
     /\ fate' = [m \in Messages |->
          IF m \in Ids(gone) THEN DeliveredFate(fate[m], m) ELSE fate[m]]

\* Mutant: a cancelled line counts as delivered.
ReleaseAsRan(ids) ==
  LET gone == {r \in queue : r.id \in ids}
  IN /\ queue' = RemoveTaken(queue, ids)
     /\ fate' = [m \in Messages |->
          IF m \in Ids(gone) THEN DeliveredFate(fate[m], m) ELSE fate[m]]
     /\ discarded' = discarded \cup Ids(gone)

\* releaseLineRows for a cancelled line: it never ran.
ReleaseCancelled(ids) ==
  LET gone == {r \in queue : r.id \in ids}
  IN /\ queue' = RemoveTaken(queue, ids)
     /\ fate' = [m \in Messages |->
          IF m \in Ids(gone) /\ (fate[m] # "none" \/ m \in Phone)
            THEN "removed" ELSE fate[m]]
     /\ discarded' = discarded \cup Ids(gone)

\* Written, or waiting in a live process: the rows wait for the CLI's word. A
\* resume's first line is held until its process reads it.
SettleWritten(a) ==
  /\ Replied(a, "written") \/ Replied(a, "waiting")
  /\ Set(a, Idle)
  /\ hold' = IF a = "spawn" THEN [rows |-> Batch(a), pid |-> att[a].pid] ELSE hold
  /\ UNCHANGED <<object, queueFile, stopState, arriving, untaken, answering, view, loaded,
                 host, used, history>>

\* The running process took it: the rows wait for its answer.
SettleTaking(a) ==
  /\ Replied(a, "taking")
  /\ Set(a, Idle)
  /\ untaken' = Untracked(LineUuid(a))
  /\ answering' = {l \in answering : l.uuid # LineUuid(a)} \cup {LineOf(a, view)}
  /\ UNCHANGED <<object, queueFile, stopState, arriving, hold, view, loaded, host, used,
                 history>>

SettleRan(a) ==
  /\ Replied(a, "ran")
  /\ Set(a, Idle)
  /\ untaken' = Untracked(LineUuid(a))
  /\ ReleaseRan(BatchIds(a))
  /\ UNCHANGED <<object, stopState, arriving, answering, hold, view, loaded, host, used,
                 history>>

\* resendUnanswered: once more under a new uuid, the second time parked.
SettleUnanswered(a) ==
  LET n == used.fresh
      spent == Ids(Exhausted(queue, BatchIds(a), LineUuid(a)))
  IN /\ Replied(a, "unanswered")
     /\ n + 2 <= MaxFresh
     /\ Set(a, Idle)
     /\ untaken' = Untracked(LineUuid(a))
     /\ answering' = {l \in answering : l.uuid # LineUuid(a)}
     /\ queue' = ParkForFreshLine(
                   RequeueUnanswered(queue, BatchIds(a), LineUuid(a), n + 1),
                   spent, "failed", n + 2)
     /\ used' = [used EXCEPT !.fresh = n + 2]
     /\ UNCHANGED <<object, fate, settled, stopState, arriving, hold, view, loaded, host,
                    history>>

SettleCancelled(a) ==
  /\ Replied(a, "cancelled")
  /\ Set(a, Idle)
  /\ untaken' = Untracked(LineUuid(a))
  /\ ReleaseCancelled(BatchIds(a))
  /\ UNCHANGED <<object, settled, stopState, arriving, answering, hold, view, loaded, host,
                 used, told, stored>>

\* A stop came first, which classifyDeliveryFailure calls permanent.
SettleSuperseded(a) ==
  /\ Replied(a, "superseded")
  /\ Set(a, Idle)
  /\ untaken' = Untracked(LineUuid(a))
  /\ queue' = ParkMessages(queue, Batch(a), "failed")
  /\ UNCHANGED <<object, fate, settled, stopState, arriving, answering, hold, view, loaded,
                 host, used, history>>

\* Mutant: a lost answer is taken for a delivery.
UnknownDropped(a) ==
  /\ Replied(a, "unknown")
  /\ Set(a, Idle)
  /\ queue' = RemoveTaken(queue, BatchIds(a))
  /\ UNCHANGED <<object, fate, settled, stopState, arriving, registry, view, loaded, host,
                 used, history>>

\* settleUnansweredLine: the line may be in the CLI, so it stays registered. A
\* spawn that went unanswered settles the same way (settleResumeFailure).
SettleUnknown(a) ==
  /\ Replied(a, "unknown")
  /\ Set(a, Idle)
  /\ queue' = IF a # "spawn" /\ att[a].stopped
                THEN ParkIfQueued(queue, BatchIds(a), "stop")
                ELSE RevertIfQueued(queue, BatchIds(a))
  /\ UNCHANGED <<object, fate, settled, stopState, arriving, registry, view, loaded, host,
                 used, history>>

\* reclaimUntakenLines: the lines of an ended process go back to the queue.
LinesOf(lines, pid) == {l \in lines : l.pid \in {0, pid}}

\* Mutant: lines the process took and did not answer are forgotten.
HandedBackUntaken(pid) == UNION {l.ids : l \in LinesOf(untaken, pid)}

HandedBack(pid) ==
  UNION {l.ids : l \in LinesOf(untaken, pid) \cup LinesOf(answering, pid)}

\* The refusal is the exit of the process the server believes in, unless it saw
\* that exit before or has started another process since.
Believed(a) == view # 0 /\ att[a].pid = view

\* Refused, and the user stopped the turn meanwhile: parked, not resumed.
SettleRefusedStopped(a) ==
  /\ a # "spawn" /\ Replied(a, "refused") /\ att[a].stopped
  /\ Set(a, Idle)
  /\ IF ~Believed(a)
       THEN /\ untaken' = Untracked(LineUuid(a))
            /\ queue' = ParkIfQueued(queue, BatchIds(a), "stop")
            /\ UNCHANGED <<answering, view>>
       ELSE /\ untaken' = untaken \ LinesOf(untaken, view)
            /\ answering' = answering \ LinesOf(answering, view)
            /\ queue' = ParkIfQueued(RevertIfQueued(queue, HandedBack(view)),
                                     BatchIds(a), "stop")
            /\ view' = 0
  /\ UNCHANGED <<object, fate, settled, stopState, arriving, hold, loaded, host, used,
                 history>>

\* Refused by a process the server still believed in: its exit is handled now,
\* and the delivery starts over with the lines that hands back.
SettleRefusedEnded(a) ==
  /\ a # "spawn" /\ Replied(a, "refused") /\ ~att[a].stopped
  /\ Believed(a)
  /\ Set(a, Idle)
  /\ untaken' = untaken \ LinesOf(untaken, view)
  /\ answering' = answering \ LinesOf(answering, view)
  /\ queue' = RevertIfQueued(queue, HandedBack(view) \cup BatchIds(a))
  /\ view' = 0
  /\ UNCHANGED <<object, fate, settled, stopState, arriving, hold, loaded, host, used,
                 history>>

\* Refused, the exit already known: injectMidTurn and a delivery whose lines
\* were handed back meanwhile start over, any other resumes the session. send()
\* hands back every line the replaced process took and did not answer.
SettleRefusedGone(a) ==
  /\ a # "spawn" /\ Replied(a, "refused") /\ ~att[a].stopped
  /\ ~Believed(a)
  /\ untaken' = Untracked(LineUuid(a))
  /\ IF a = "mid" \/ att[a].pid # 0
       THEN /\ Set(a, Idle)
            /\ queue' = RevertIfQueued(queue, BatchIds(a))
            /\ UNCHANGED answering
       ELSE /\ att' = [att EXCEPT !["next"] = Idle,
                         !["spawn"] = [att["next"] EXCEPT !.pc = "begun",
                                                          !.reply = "none"]]
            /\ queue' = RevertIfQueued(queue, UNION {l.ids : l \in answering})
            /\ answering' = {}
  /\ UNCHANGED <<object, fate, settled, stopState, arriving, hold, view, loaded,
                 host, used, history>>

-----------------------------------------------------------------------------
(* Resuming the session in a new process *)

\* The start is dispatched like a write. A live process the server had lost
\* sight of is adopted.
SpawnStart ==
  /\ att["spawn"].pc = "begun" /\ stopper.pc = "idle" /\ ~AnswerDue /\ hold = NoHold
  /\ FenceHolds(att["spawn"].fence)
  /\ IF alive THEN UNCHANGED proc ELSE proc < MaxProcs /\ proc' = proc + 1
  /\ alive' = TRUE
  /\ view' = proc'
  /\ Set("spawn", [att["spawn"] EXCEPT !.pc = "registered", !.pid = proc'])
  /\ UNCHANGED <<object, queueFile, stopState, arriving, registry, loaded, wire, used,
                 history>>

\* settleResumeFailure: a passing failure reverts the rows, and the process may
\* have started all the same when only the answer was lost.
SpawnFails ==
  /\ att["spawn"].pc = "begun" /\ stopper.pc = "idle"
  /\ FenceHolds(att["spawn"].fence)
  /\ used.losses < MaxLosses
  /\ used' = [used EXCEPT !.losses = @ + 1]
  /\ \/ UNCHANGED <<alive, proc>>
     \/ ~alive /\ proc < MaxProcs /\ alive' = TRUE /\ proc' = proc + 1
  /\ Set("spawn", Idle)
  /\ queue' = RevertToPending(queue, Batch("spawn"))
  /\ UNCHANGED <<object, fate, settled, stopState, arriving, registry, view, loaded, wire,
                 history>>

\* A failure no Retry can mend, or a stop that came first, parks them.
SpawnRefused ==
  /\ att["spawn"].pc = "begun" /\ stopper.pc = "idle"
  /\ Set("spawn", Idle)
  /\ queue' = ParkMessages(queue, Batch("spawn"), "failed")
  /\ UNCHANGED <<object, fate, settled, stopState, arriving, registry, view, loaded, host,
                 used, history>>

\* The process ended before its first line was written. The refusal is its exit
\* too, unless that was seen before.
SettleSpawnDead ==
  LET seen == IF view = att["spawn"].pid THEN view ELSE 0
      lines == IF seen = 0 THEN {} ELSE LinesOf(untaken \cup answering, seen)
  IN /\ Replied("spawn", "refused")
     /\ Set("spawn", Idle)
     /\ untaken' = untaken \ lines
     /\ answering' = answering \ lines
     /\ view' = IF seen = 0 THEN view ELSE 0
     /\ queue' = RevertToPending(
                   RevertIfQueued(queue, UNION {l.ids : l \in lines}),
                   Batch("spawn"))
     /\ UNCHANGED <<object, fate, settled, stopState, arriving, hold, loaded,
                    host, used, history>>

HoldUuid == Earliest(hold.rows).uuid

HoldStarted ==
  \E w \in wire : w.uuid = HoldUuid /\ w.st \notin {"piped", "cancelled"}

\* releaseResumeLine: the process named its first line started.
ReadHold ==
  /\ hold # NoHold /\ HoldStarted
  /\ hold' = NoHold
  /\ IF view = hold.pid
       THEN /\ answering' = {l \in answering : l.uuid # HoldUuid} \cup
                 {[uuid |-> HoldUuid, ids |-> Ids(hold.rows), pid |-> hold.pid]}
            /\ UNCHANGED queue
       ELSE /\ queue' = RevertIfQueued(queue, Ids(hold.rows))
            /\ UNCHANGED answering
  /\ UNCHANGED <<object, fate, settled, stopState, arriving, att, untaken, view, loaded,
                 host, used, history>>

\* parkUnreadResumeLine: the process ended before it read its first line.
\* Restart recovery takes the rows, or they are parked.
DropHold ==
  /\ hold # NoHold /\ view # hold.pid
  /\ SettleWaits => ~HoldStarted
  /\ hold' = NoHold
  /\ \/ queue' = HoldForStartRecovery(queue, hold.rows)
     \/ queue' = ParkIfQueued(queue, Ids(hold.rows), "failed")
  /\ UNCHANGED <<object, fate, settled, stopState, arriving, att, untaken, answering, view,
                 loaded, host, used, history>>

\* settleStartRecoveryHeld.
RecoveryEnds ==
  /\ HeldForRecovery(queue) # {}
  /\ queue' \in {ReleaseHeld(queue), GiveUpHeld(queue)}
  /\ UNCHANGED <<object, fate, settled, stopState, arriving, att, registry, view, loaded,
                 host, used, history>>

-----------------------------------------------------------------------------
(* The CLI process *)

Live(w) == alive /\ w.pid = proc

InTranscript(uuid) ==
  \E w \in wire : w.uuid = uuid /\ w.st \notin {"piped", "cancelled"}

\* The CLI reads a line: it starts it, or skips a uuid its transcript holds.
Take ==
  /\ \E w \in wire :
       /\ Live(w) /\ w.st = "piped"
       /\ wire' = (wire \ {w}) \cup
            {[w EXCEPT !.st = IF InTranscript(w.uuid) THEN "skipped" ELSE "started"]}
  /\ UNCHANGED <<object, queueFile, stopState, arriving, att, registry, view, loaded,
                 alive, proc, used, history>>

Started == {w \in wire : Live(w) /\ w.st = "started"}

\* An answer answers every line taken before it.
AnswerLines ==
  /\ Started # {}
  /\ wire' = (wire \ Started) \cup {[w EXCEPT !.st = "answered"] : w \in Started}
  /\ UNCHANGED <<object, queueFile, stopState, arriving, att, registry, view, loaded,
                 alive, proc, used, history>>

\* What the pipe held dies with the process.
Die ==
  /\ alive
  /\ alive' = FALSE
  /\ wire' = {w \in wire : w.st # "piped"}
  /\ UNCHANGED <<object, queueFile, stopState, arriving, att, registry, view, loaded, proc,
                 used, history>>

-----------------------------------------------------------------------------
(* What the server reads of it, and when *)

Shows(uuid, states) == \E w \in wire : w.uuid = uuid /\ w.st \in states

\* A `started' frame of a registered line.
ReadStart ==
  /\ \E l \in untaken :
       /\ Shows(l.uuid, {"started", "answered", "stopped"})
       /\ untaken' = untaken \ {l}
       /\ answering' = {k \in answering : k.uuid # l.uuid} \cup {[l EXCEPT !.pid = view]}
  /\ UNCHANGED <<object, queueFile, stopState, arriving, att, hold, view, loaded, host,
                 used, history>>

\* The answer to a line the server holds rows for, or its `completed'.
ReadAnswer ==
  /\ \/ \E l \in answering :
          /\ Shows(l.uuid, {"answered", "stopped", "skipped"})
          /\ answering' = answering \ {l}
          /\ ReleaseRan(l.ids)
          /\ UNCHANGED untaken
     \/ \E l \in untaken :
          /\ Shows(l.uuid, {"skipped"})
          /\ untaken' = untaken \ {l}
          /\ ReleaseRan(l.ids)
          /\ UNCHANGED answering
  /\ UNCHANGED <<object, stopState, arriving, att, hold, view, loaded, host, used, history>>

\* A `cancelled' frame, or the interrupt's receipt.
ReadCancelled ==
  /\ \E l \in untaken :
       /\ Verdict(l.uuid) = "cancelled"
       /\ untaken' = untaken \ {l}
       /\ ReleaseCancelled(l.ids)
  /\ UNCHANGED <<object, settled, stopState, arriving, att, answering, hold, view, loaded,
                 host, used, told, stored>>

\* The exit of the process the server believed in.
SeeExit ==
  /\ view # 0 /\ (view # proc \/ ~alive)
  /\ ~AnswerDue
  /\ view' = 0
  /\ untaken' = untaken \ LinesOf(untaken, view)
  /\ answering' = answering \ LinesOf(answering, view)
  /\ queue' = RevertIfQueued(queue, HandedBack(view))
  /\ UNCHANGED <<object, fate, settled, stopState, arriving, att, hold, loaded, host, used,
                 history>>

-----------------------------------------------------------------------------
(* Stopping *)

\* interrupt(): the turn ends in place, queued lines are cancelled with it.
Interrupt ==
  /\ alive /\ view = proc
  /\ \/ \E w \in wire : Live(w) /\ w.st \in {"piped", "started"}
     \/ \E a \in Attempts : att[a].pc = "registered" /\ ~att[a].stopped
  /\ wire' = {IF Live(w) /\ w.st = "piped" THEN [w EXCEPT !.st = "cancelled"]
              ELSE IF Live(w) /\ w.st = "started" THEN [w EXCEPT !.st = "stopped"]
              ELSE w : w \in wire}
  /\ att' = [a \in Attempts |-> IF att[a].pc \in {"registered", "replied"}
                                  THEN [att[a] EXCEPT !.stopped = TRUE] ELSE att[a]]
  /\ UNCHANGED <<object, queueFile, stopState, arriving, registry, view, loaded, alive,
                 proc, used, history>>

\* SessionStopCoordinator.request: a new stop, or the pending one again.
StopAsk ==
  /\ stopper.pc = "idle" /\ ~AnswerDue
  /\ stop.st = "pending" \/ stop.id < MaxStops
  /\ stop' = IF stop.st = "pending" THEN stop
             ELSE [id |-> stop.id + 1, st |-> "pending"]
  /\ stopper' = [AtEase EXCEPT !.pc = "peek"]
  /\ UNCHANGED <<object, queueFile, arriving, att, registry, view, loaded, host, used,
                 history>>

\* deliver: deps.park reads the queue, ...
StopPeek ==
  /\ stopper.pc = "peek"
  /\ stopper' = [pc |-> "park", peek |-> {r \in queue : r.status # "parked"}]
  /\ UNCHANGED <<object, queueFile, stop, arriving, att, registry, view, loaded, host, used,
                 history>>

\* ... parks what it read, ...
StopPark ==
  /\ stopper.pc = "park"
  /\ queue' = ParkMessages(queue, stopper.peek, "stop")
  /\ stopper' = [AtEase EXCEPT !.pc = "send"]
  /\ UNCHANGED <<object, fate, settled, stop, arriving, att, registry, view, loaded, host,
                 used, history>>

\* ... and the host confirms the stop, or its answer does not come.
StopSend ==
  /\ stopper.pc = "send"
  /\ stopper' = AtEase
  /\ \/ /\ stop' = [stop EXCEPT !.st = "confirmed"]
        /\ alive' = FALSE
        /\ wire' = {w \in wire : w.st # "piped"}
     \/ /\ alive' = FALSE
        /\ wire' = {w \in wire : w.st # "piped"}
        /\ UNCHANGED stop
     \/ UNCHANGED <<stop, alive, wire>>
  /\ UNCHANGED <<object, queueFile, arriving, att, registry, view, loaded, proc, used,
                 history>>

\* fail: the tries are used up, the session takes messages again.
StopFails ==
  /\ stopper.pc = "idle" /\ stop.st = "pending"
  /\ stop' = [stop EXCEPT !.st = "failed"]
  /\ UNCHANGED <<object, queueFile, stopper, arriving, att, registry, view, loaded, host,
                 used, history>>

-----------------------------------------------------------------------------
(* Restarts *)

\* restartSession: every row being delivered is put back, then the process is
\* stopped (Die) and started again.
RestartCli ==
  /\ HardRestarts /\ used.restarts < MaxRestarts
  /\ stop.st # "pending"
  /\ used' = [used EXCEPT !.restarts = @ + 1]
  /\ queue' = RevertToPending(queue, {r \in queue : r.status = "processing"})
  /\ UNCHANGED <<object, fate, settled, stopState, arriving, att, registry, view, loaded,
                 host, history>>

\* The server dies and starts again: what is not on disk is gone.
Restart ==
  /\ used.restarts < MaxRestarts
  /\ used' = [used EXCEPT !.restarts = @ + 1]
  /\ stopper' = AtEase
  /\ arriving' = {}
  /\ att' = [a \in Attempts |-> Idle]
  /\ untaken' = {} /\ answering' = {} /\ hold' = NoHold
  /\ object' = FALSE /\ view' = 0
  /\ loaded' = FALSE
  /\ UNCHANGED <<queueFile, stop, host, history>>

\* startupRecovery's loadQueue. Deliveries may have begun before it.
Load ==
  /\ ~loaded
  /\ loaded' = TRUE
  /\ queue' = LoadQueue(queue)
  /\ UNCHANGED <<object, fate, settled, stopState, arriving, att, registry, view, host,
                 used, history>>

-----------------------------------------------------------------------------
(* The specification *)

Intake == Store \/ Revive \/ ParkStale
            \/ \E m \in Messages : Arrive(m) \/ Relay(m) \/ Retry(m)
                                    \/ Delete(m) \/ Withdraw(m)

Deliver(a) ==
  \/ Send(a) \/ LoseAnswer(a) \/ SettleWritten(a) \/ SettleTaking(a)
  \/ SettleRan(a) \/ SettleUnanswered(a) \/ SettleCancelled(a)
  \/ SettleSuperseded(a) \/ SettleUnknown(a)

DeliverLive(a) ==
  \/ Begin(a) \/ Mark(a) \/ Register(a)
  \/ SettleRefusedStopped(a) \/ SettleRefusedEnded(a) \/ SettleRefusedGone(a)

Resume == Attach \/ NoSession \/ SpawnStart \/ SpawnFails \/ SpawnRefused
            \/ SettleSpawnDead \/ ReadHold \/ DropHold \/ RecoveryEnds

Cli == Take \/ AnswerLines \/ Die

Frames == ReadStart \/ ReadAnswer \/ ReadCancelled \/ SeeExit

Stopping == Interrupt \/ StopAsk \/ StopPeek \/ StopPark \/ StopSend \/ StopFails

Restarting == RestartCli \/ Restart \/ Load

Next ==
  \/ Intake
  \/ \E a \in Attempts : Deliver(a)
  \/ \E a \in {"next", "mid"} : DeliverLive(a)
  \/ Resume \/ Cli \/ Frames \/ Stopping \/ Restarting

Spec == Init /\ [][Next]_vars

-----------------------------------------------------------------------------
(* Properties *)

Carried(m, states) == \E w \in wire : m \in w.ids /\ w.st \in states

\* What becomes of a line a CLI took from its pipe.
Took == {"started", "answered", "stopped", "skipped"}

\* A message is answered in one line only, however often its row goes out
\* again after lost answers, exits and restarts (batch-uuid.ts, line-fate-core.ts).
AnsweredOnce ==
  \A v, w \in wire :
    v.st = "answered" /\ w.st = "answered" /\ v.ids \cap w.ids # {} => v = w

\* A phone message given back to the companion neither waits here, nor was
\* answered here, nor is in a running CLI: otherwise it runs twice, here and by
\* the companion's hand (relay-fates.ts). A dead process may have taken it.
FreedStaysOut ==
  \A m \in Messages : "freed" \in told[m] =>
    /\ ~\E r \in queue : r.id = m /\ r.status # "parked"
    /\ ~Carried(m, {"answered", "stopped"})
    /\ ~\E l \in wire : m \in l.ids /\ Live(l) /\ l.st \in {"piped", "started"}

\* The companion hears "delivered" only of a message a CLI took.
DeliveredWasTaken ==
  \A m \in Messages : "delivered" \in told[m] =>
    Carried(m, Took)

\* A message recorded as removed never comes back in line, though attempts that
\* hold copies of its row may fail after it left.
RemovedStaysOut ==
  \A r \in queue : fate[r.id] = "removed" => r.status = "parked"

\* relay-fates.ts says of the answer "removed": it will not run anywhere.
RemovedNeverRuns ==
  \A m \in Messages : "removed" \in told[m] =>
    ~Carried(m, {"started", "answered"})

\* A stored message is in the queue until a CLI took it, a person discarded it
\* or the companion got it back.
NothingLost ==
  \A m \in stored :
    \/ Queued(m) \/ m \in discarded \/ "freed" \in told[m]
    \/ Carried(m, Took)

\* batch-uuid.ts says that a batch of other rows never shares a line's uuid: of
\* what goes out under the uuid of a line a CLI took, that line held every
\* message. A Retry of one row of a line whose rows were parked breaks it.
OneBatchPerUuid ==
  \A w \in wire : w.st \in Took =>
    /\ \A a \in Attempts :
         att[a].batch # {} /\ LineUuid(a) = w.uuid => BatchIds(a) \subseteq w.ids
    /\ \A l \in untaken \cup answering : l.uuid = w.uuid => l.ids \subseteq w.ids

\* A row being delivered has someone who will settle it: an attempt, a line the
\* server waits on, a resume's hold, or the loadQueue of a server start.
NoStrandedRow ==
  \A r \in queue : r.status = "processing" =>
    \/ ~loaded
    \/ \E a \in Attempts : r.id \in Ids(att[a].batch)
    \/ \E l \in untaken \cup answering : r.id \in l.ids
    \/ r.id \in Ids(hold.rows)

\* session-queue-store.ts says that the rows of one line share its uuid: while
\* rows of a uuid are being delivered, whatever goes out, waits or is held under
\* that uuid carries all of them. A Retry of one row of a line breaks it too.
RowsGoTogether ==
  \A r \in queue : r.status = "processing" =>
    /\ \A a \in Attempts :
         att[a].batch # {} /\ LineUuid(a) = r.uuid => r.id \in BatchIds(a)
    /\ \A l \in untaken \cup answering : l.uuid = r.uuid => r.id \in l.ids
    /\ hold # NoHold /\ HoldUuid = r.uuid => r.id \in Ids(hold.rows)

\* A line is written only under the latest stop, and no stop pending, for rows
\* queued (or retried by a person) after that stop.
WrittenUnderLatestStop ==
  \A a \in Attempts :
    att[a].pc = "registered" /\ att'[a].reply = "written" =>
      /\ stop.st # "pending"
      /\ \A r \in att[a].batch : r.fence = stop.id

StopsHold == [][WrittenUnderLatestStop]_vars
=============================================================================
