# Verification of open-walnut

open-walnut is a server (`src/src`) that runs coding agents: it keeps tasks,
notes and sessions, starts Claude Code and other CLIs on this and on remote
machines through a daemon, and lets a person reach those sessions from the web,
a desktop app and a phone. This directory holds TLA+ models of the parts of it
where messages, processes and people interleave, the TLC runs that check them
and the TLAPS proofs about them.

## 1. The system

### Components

| Component | Code | State it keeps | Operations | What makes it correct |
|---|---|---|---|---|
| Session message queue | `core/session-message-queue.ts`, `session-queue-*.ts`, `relay-fates.ts` | rows per session (pending, processing, parked), the fates of phone messages, the uuids lines went out under; one JSON file | enqueue, mark, remove, revert, park, unpark, delete, withdraw, load | no message is lost, run twice, or given away while it may run here |
| Queue file | `core/session-queue-store.ts`, `utils/fs.ts` | a cache in each process, and the file | locked read-modify-write, fresh read, sync | what a caller was told is stored is on disk, whoever writes next and whatever loses power |
| Line registry, line fate | `providers/line-consumption.ts`, `line-fate-core.ts`, `batch-uuid.ts` | lines written and not taken, lines taken and not answered | register, take, answer, hand back; verdict over the stream file | each line is settled once, by evidence |
| Session delivery | `providers/claude-code-session.ts`, `remote-session-manager.ts` | attempts in progress, the hold of a resume, the process believed in | processNext, mid-turn injection, resume, settle, read frames and exits | see the queue; no row is left with nobody to settle it |
| Stop coordinator | `core/sessions/session-stop.ts` | the session record's stopRequest, a lock per session | request, deliver, settle, retry, fail, fence, dispatch | nothing is written past a stop; every stop ends |
| Phone relay, companion | `core/sessions/mobile-relay-ledger.ts`, `providers/daemon-connection.ts` | a lock per message | relay, withdraw | a message takes one path |
| Session lifecycle | `core/sessions/session-lifecycle.ts` | session records | restart, retry, archive, fork | queue operations survive the respawn |
| Daemon | `providers/daemon-core.ts`, `daemon-standalone.ts`, `daemon-source.ts`, `cli-owner-core.ts` | CLI processes, stream files, write records | start, send, stop, attach, reap | a line is written at most once into one process |
| File locks, JSON files | `utils/file-lock.ts`, `utils/user-file-lock.ts`, `utils/fs.ts` | lock files, temporary files | lock, steal when stale, atomic write | mutual exclusion across processes and crashes |
| Personal-AI turn queue | `web/agent-turn-queue.ts`, `core/turn-slot.ts` | queued turns, the agent's slot | enqueue, start, give the slot up for a wait and take it back, end | one turn works at a time; a turn that waited comes before new ones |
| Personal-AI lane turns | `core/sessions/lane-turn.ts`, `lane-turn-gate.ts` | a listener per turn, a gate per lane | wait at the gate, send, take a result, stall, watch for the late answer, drain | a turn gets its own answer; none is sent into another |
| Routines | `core/cron/*` | jobs, run state, clock owner | arm, fire, hand over | a due run fires once, on one machine |
| Replication | `core/host-replica*.ts`, `replica/*`, `core/stream/*` | copies of record kinds on other hosts | push, pull, overlay, conflict | copies converge, own writes are not lost |
| Offline journal | `providers/offline-journal-core.ts`, `core/companion-journal*.ts`, `core/offline-handover.ts` | writes made while apart | journal, drain, hand over | each write is applied once |
| Leader and takeover | `core/leader/*`, `providers/leader-core.ts` | each host's leader book, what the companion leads | describe, claim, witness, take over, take back, fence a command | no command of an old lead is carried out; the lead comes back to the Mac |
| Approvals, human inbox | `core/approvals/*`, `core/human-inbox/*` | letters, decisions | file, answer, settle, expire | one decision per letter |
| Task manager, tracker | `core/task-manager.ts`, `core/session-tracker.ts`, `core/phase.ts` | tasks, session records | create, update, move phase | records and sessions agree |
| Sync with outside trackers | `core/sync-*.ts`, `integrations/*` | retry schedule, mappings | push, pull, reconcile | no task is duplicated |
| Event bus, timers, instance lock | `core/event-bus.ts`, `core/periodic-task.ts`, `core/instance-lock.ts` | subscribers, timers, a lock file | emit, tick, lock | no overlapping ticks, one server |
| Memory, notes, search | `core/memory*`, `core/notes-*` | files and indexes | write, index, query | mostly data |
| Web routes, UI, iOS, desktop, plugins, model layer | `web/`, `ios*`, `desktop*`, `plugin-store/`, `model/` | views | | I/O and presentation |

### How they interact

A message comes from the web (`enqueueMessage`) or from a phone through a
companion host and the daemon connection (`enqueueRelayedMessage`). It becomes a
row of the queue file. The runner marks a batch of rows as the next *line*,
gives it a uuid, and writes it through the daemon into the CLI's stdin. What
becomes of the line is learned from five sources that can arrive in any order:
the daemon's answer to the write, the CLI's `command_lifecycle` frames in its
stream file, a turn's result, the exit of the process, and the daemon's verdict
when the line is offered again. In between, a person can stop the session,
interrupt a turn, delete, retry or restart; the companion can ask for a phone
message back to run it by another path; the server can crash and start again.

The queue file has two writers, the server and `walnut start`, each with a cache
of its own. Each mutation is a read, a change and a write under the file lock.

Each host's daemon keeps a leader book. The Mac describes the Walnut to it when it
connects; the cloud companion listens to the Mac's heartbeat, asks the hosts what they
heard when it falls silent, claims the lead of those that heard nothing, and gives
commands under the number of its lead. The Mac takes the lead back when it returns.

A turn of the Personal AI is a task of its agent's turn queue. Its task sends one
message to the lane's CLI session, through the queue above, and listens on the event
bus for the result. A CLI that falls silent ends the turn but not the CLI's
work: the lane's gate then keeps later turns away until the late answer came.

### What is hard

* Answers are lost, so a line may or may not be in a CLI.
* Rows are copied into attempts, holds and stops, and the copies are written
  back later (`revertToPending`, `parkMessages` and `holdForStartRecovery` insert
  a row again that left the queue).
* The fence of a stop is read when a delivery begins and matters when it writes.
* A session has two deliveries (`processNext` and the mid-turn injection) and a
  resume that outlives the delivery that started it.
* The registries live in memory only; the rows, their uuids and the doubt about
  their lines are all that survives a crash.
* A mutation of the queue file can fail before or after the rename, and a power loss
  can undo a rename that was not synced; what callers were told must not change.
* The companion decides on reports that age while it waits for others, and its claims and
  commands arrive whenever the network has them arrive.
* Results of a CLI carry a turn number but no message; which turn a message was
  delivered in is reported later, and maybe after the result.

`PROJECT.json` lists these hazards at their lines, with the properties that
cover them.

## 2. Modules

| Module | Models | Extends |
|---|---|---|
| `SessionQueueOps` | the queue's operations as functions on one session's rows, the companion's question, the uuid of a batch | |
| `SessionDelivery` | the delivery of one session's messages: intake, attempts, answers, resume, CLI, frames, stops, restarts | `SessionQueueOps` |
| `SessionQueueProofs` | lemmas about the operations | `SessionQueueOps` |
| `SessionDeliveryProofs` | type correctness; nothing is written past a stop; what is lost, told delivered or stranded, and by what alone; the lines of one uuid, and of a message that is alone, are answered once; given back, it stays out | `SessionDelivery`, `SessionQueueProofs` |
| `FileLock` | `withFileLock`: one action per file-system call, the exit hook, the processes | |
| `ExclusiveLock` | what `withFileLock` promises its callers | |
| `FileLockProofs` | mutual exclusion, the holder keeps its lock, a release takes only its own, `FileLock` implements `ExclusiveLock` | `FileLock` |
| `SessionStop` | how a stop ends: requests, tries, timers, reconnects, restarts, failed writes | |
| `SessionStopProofs` | type correctness; the result of a stop stands; a pending stop is watched and fails for a cause; by what it comes by the timer of another | `SessionStop` |
| `QueueStore` | `getStore` and `mutateStore`: the queue file, its two writers, their caches and chains, failures, crashes, power losses; the file lock is an instance of `ExclusiveLock` | |
| `AtomicStore` | what the store promises: each mutation is one atomic step | |
| `QueueStoreProofs` | answers stay true, mutations land in order, a process reads its own writes but for a load that one of them overtook, `QueueStore` implements `AtomicStore` | `QueueStore` |
| `LeaderTakeover` | the hosts' leader books, the Mac's side, the companion's decision round, claims and commands on the way | |
| `FencedLead` | what a host promises about who leads it | |
| `LeaderTakeoverProofs` | leads are real, old ones are fenced, `LeaderTakeover` implements `FencedLead` | `LeaderTakeover` |
| `TurnQueue` | the slot of one agent: turns, and the waits that give it up and take it back | |
| `TurnQueueProofs` | one turn works at a time, a turn that waited comes first | `TurnQueue` |
| `LaneTurn` | the turns on one lane, its gate, its CLI | `TurnQueue` |
| `LaneTurnProofs` | a lane uses the queue as `TurnQueue` has it; one answer each, and its own; turns are sent in line, none into another | `LaneTurn`, `TurnQueueProofs` |
| `MC...` | model values and the small instances | |

Modules meet where one uses what another promises. `FileLock` implements
`ExclusiveLock`; `QueueStore` knows the lock only as `ExclusiveLock` and implements
`AtomicStore`; `SessionDelivery` takes a mutation of the queue file as the
one durable step that `AtomicStore` makes of it. `LaneTurn` extends `TurnQueue`: each of its
steps is a step of the queue or leaves it alone. `SessionDelivery` lets a
pending stop be tried and fail at any time; `SessionStop` says when that is.

### The session's messages: `SessionQueueOps` and `SessionDelivery`

A queue is an array the code keeps sorted by enqueue order; here it is the set of
its rows, each with its place `ord`. Text, timestamps and senders are left out; a
line's uuid is the pair-set of the ids it hashes, a message's own uuid, or the
n-th random one.

| State | Code |
|---|---|
| `queue`, `fate`, `settled` | the queue file: rows, `relayFates`, the uuid each removed row went out under |
| `stop`, `stopper` | the session record's `stopRequest`; the coordinator's run under its lock |
| `arriving` | calls of `enqueueMessage`, `enqueueRelayedMessage` and Retry that read the fence and have not written |
| `att` | `processNextNow`, `injectMidTurn`, and the resume that `processNextNow` leaves running |
| `untaken`, `answering`, `hold` | the registries of `line-consumption.ts`; the first line of a resume |
| `object`, `view` | the `ClaudeCodeSession` in memory and the process it believes in |
| `alive`, `proc`, `wire` | the CLI: external, modelled as the server sees it |
| `told`, `discarded`, `stored` | history that only properties read |

Everything but the queue file, `stop` and the CLI is lost in `Restart`. The action
groups at the end of the module (`Intake`, `Deliver`, `Resume`, `Cli`, `Frames`,
`Stopping`, `Restarting`) follow the code's call sites; `PROJECT.json` maps each
action to its lines. A delivery is `Begin` (read the fence), `Mark` (one
mutation of the file), `Register` (the line registry), `Send` or `LoseAnswer`
(the write), and one `Settle...` per answer, in any interleaving with all else.
`Send` and the daemon's check of the fence are one step, and no stop is asked for
until its answer is settled, because `sessionStops.dispatch` holds the session's
lock around both (`session-stop.ts:78-89`).

### The file lock: `FileLock` and `ExclusiveLock`

| State | Code |
|---|---|
| `here`, `entry`, `claims`, `pidFile`, `aged` | the directory on the lock's path: its owner entries with the token in each, the `.claim-<token>` folders, the pid file, whether its mtime is older than `STALE_AGE_MS` |
| `pc`, `at` | where each call of `withFileLock` is, and the entry it looks into or claims |
| `made`, `taking` | `mine.made` and the exit hook's set |
| `proc` | each process: up, in its exit hook, exited, killed |
| `elderHolds` | a process of an older build, which knows only the pid file |
| `chain` | auxiliary: the tokens reachable from `owner` |

A call stands for its token. Each action is one file-system call, so what a call
read can be out of date when it acts. `Follow`, `Unclaimed`, `EndOfChain`, `List`,
`ReadPid` and `ReadMtime` are `findHolder`, entry by entry; `Prepare` and
`Rename` are `claim`; `ClaimFails` is a claim the file system refuses, or one that
landed and whose reply was lost; `Check` is the walk after a takeover; `GiveBack`
is `releaseHeldLocksSync` for one lock. A process that exits stops running its
calls, but a file-system call in flight still lands (`Goto` ends the call).
The sync and async variants run the same generator, so one model stands for both.

To its callers (`StageOf`: new, waiting, in, over) the protocol must be
`ExclusiveLock`. That is the refinement `IsALock`.

### The stop coordinator: `SessionStop`

| State | Code |
|---|---|
| `rec` | the session record's `stopRequest`: the number of the stop, its state, its last error |
| `late` | whether `STOP_OFFLINE_MAX_MS` passed since it was asked for |
| `watch` | the session's entry of `retries`: none, a retry or the deadline with its timer set, or `fired` (`armed` is false: its job is in line) |
| `jobs`, `pc`, `answer` | the chain of promises of `serial`, and where its head is in `deliver` |
| `online` | the daemon connection to the host |
| `resume`, `seen` | `resumeDeadlines` at startup, and the stop it read as pending |
| `tried` | history: the number of tries of this stop, and whether the host answered one |

A job is `BeginAsk` (`request`), `BeginRetry` (the timer's job), `BeginFlush`
(`flush`) or `RunFail` (`fail`). All but the last go on with `Park`, `Send`, and
`Confirm` or `NotConfirmed`; the latter ends in `Rearm`, which is `settle`: keep
the timer that is set, try later, give up, or wait for an offline host. Timers fire between
any two of these steps and put their job at the end of the line. `Breaks` is
a write that fails, `ConfirmBreaks` one that `deliver` catches and takes for
an answer of the host. The times of the retries are left out: a timer that is
set fires at some time, the deadline once `late` holds.

The module has no model values, so its runs use it directly.

### The queue file: `QueueStore` and `AtomicStore`

| State | Code |
|---|---|
| `file`, `kept` | the contents of the queue file, and those a power loss may leave in it (a rename that was not synced may be undone) |
| `cache` | `store` of each process, `NONE` before the first load |
| `line` | the chain of promises `writeLock`: the mutations of one process, first come first served |
| `stage` | where each call is with the file lock |
| `pc`, `op`, `seen` | where it is in `mutateStore`, what it was asked to do, and what it read under the lock |
| `peek`, `got` | where each reader is in `getStore`, and what it read; `old` once its process wrote the file since |
| `promised`, `behind` | history: what strict answers said of each row; the processes whose cache was read before their last write |

`Ask` requests the lock and `Enter` is its grant, `Read` is the read under the lock, `Land` the rename of
`writeJsonFile`, `Finish` the rest of a mutation that succeeded. `Fail` stands for each
failure (the lock, the write, the sync): a strict mutation throws (`Throw`), any other
keeps its change in the cache and is *excused* (`Apply`). If there is no cache it
loads one first, with the file lock given back and its turn on the chain kept (`FallBack`,
`Reread`, `Excuse`).

`getStore` is three steps: it finds no cache (`Peek`), reads the file without the lock
(`Look`), and makes what it read the cache (`Load`), without looking whether there is one
by then (`session-queue-store.ts:160-163`). Mutations, crashes and other readers come between them.
A reader has one call at a time; two calls at once are two readers. What runs
when a promise settles, with nothing else to wait for, is part of the step that settles it.
A row's contents are only in or out and taken or not; `Change` gives each kind of
mutation its effect on one row. `take` and `mark` are the best-effort and the strict way
to take one (`markProcessing` is strict under a stop's fence).

### Who leads: `LeaderTakeover` and `FencedLead`

| State | Code |
|---|---|
| `rec`, `silent` | a daemon's record of this Walnut (number, holder, whether the user lets the companion lead), and whether `takeoverMs` passed since it heard the Mac |
| `awake`, `allowed`, `link`, `bound`, `todo`, `told` | the Mac: up, its setting, its connection to each host, whether the host knows whose connection that is, and where `primary-leader.ts` is on it |
| `quiet`, `notice` | the companion: the heartbeat is late; the Mac announced a restart |
| `leading` | the companion's book: its number at each host |
| `tick`, `quietThen`, `reports`, `claims`, `waiting`, `answer` | its decision round: witnesses asked, what they reported, the claims that follow, one at a time |
| `flight`, `sent` | claims it gave up on and commands, which arrive at any time or never |
| `obeyed`, `ended` | history: leads a command was carried out under, and leads the Mac took back |

Time is two kinds of flag: a window may pass as soon as nothing is heard, in any order
between the hosts and the companion, so clocks need not agree. `Decide` is
`decideTakeover` over the reports as they were when each came in.

### An agent's turns: `TurnQueue` and `LaneTurn`

| State | Code |
|---|---|
| `resumers`, `fresh` | `queue`: waits that want the slot back stand before new turns |
| `active`, `granted` | the counter, and the entries started whose promise has not run on |
| `flow`, `held`, `wait` | where each turn is, its `held` flag, where each call of `releaseWhile` is |
| `gate`, `atGate`, `verdict` | `lane-turn-gate.ts`: the lane's state, its waiters and what each was answered |
| `mode`, `told`, `answer`, `reported`, `early` | one run of `runLaneTurn`: its `mode`, how its promise was settled, with which result, the generation of the delivery report, and `heldResults` |
| `row` | the turn's message in the session's queue |
| `cli`, `inTurn`, `pipe` | the lane's CLI: external, seen by the events it causes |
| `contents`, `ungated`, `behind`, `loose`, `line` | history that only properties read |

An action is what runs between two awaits. In `LaneTurn` each wait at the gate is a
call of `releaseWhile`, so a turn that waits there holds no slot. `Tick` is the check of a
silent CLI (`Stall`, `StallUnread`, `StallUndelivered`, `DeadSeen` by what the record
says). A message written while the CLI works joins that turn or waits
in the pipe, whichever the CLI chose; `Outside` is somebody typing into the lane.

## 3. Runs

All bounds are constants named in the modules and used only in guards.

| Run | Instance | Shows |
|---|---|---|
| `Dlv_lost` | one phone message, 2 processes, 1 lost answer, 1 stop, 1 server restart, rows that grow stale | answered once, not lost, not stranded, never given away while it may run here, "delivered" only of what a CLI took |
| `Dlv_two` | a phone and a web message, 2 processes | messages that share a line, split, are deleted or withdrawn are answered once, what was removed before a write stays out, and the two conditions of the theorems on batches (`OneBatchPerUuid`, `RowsGoTogether`) hold |
| `Dlv_person` | one web message, a restart of CLI or server, a stop, a Retry | answered once and nothing written past a stop, across what a person does by hand |
| `Lck_live` | two processes over a path that is free, abandoned or an older build's; kills, exits, timeouts, one failed claim | mutual exclusion, releases take only their own lock, the refinement, and every call of a process that stays up ends, but for a lock left held as described below |
| `Qst_store` | three mutations over two rows: the server puts a row in and works on it, the command sends that row again or another; a reader of the server's cache; 1 failure, 1 crash or power loss | what was answered stays true, a process sees its own writes but after a load they overtook, the refinement, and every call ends |
| `Stp_ends` | one stop, three retries, a host that comes back twice and leaves at any moment, 2 server restarts, 1 failed write | the stop is never forgotten, ends, fails only when its time or its tries are up, and its result stands |
| `Ldr_lead` | one host; the Mac is away twice, 2 mishaps, 1 command of the companion | leads are real, old leads are not obeyed, the refinement, and the lead comes back to the Mac |
| `Trn_slot` | four turns of one agent, one with two waits at once, one with one; each may end and leave its wait to a helper | one turn works at a time, a turn that waited comes first, every turn ends |
| `Lan_two` | two turns on a lane and one beside it, 2 turns of the CLI, 1 death | each turn is answered by the CLI turn that had its message, and ends |
| `Lan_three` | three turns on a lane, 2 turns of the CLI, 1 death | no result answers two turns, those who wait go in line, none is written into an earlier one's |
| `Stp_leftover`, `Dlv_split` | three stops; two web messages of one line and two Retries | the disagreements below |

Why this is enough to be interesting: every action fires in the passing runs; two
processes are needed for a line of a dead process to meet its successor, and a
third adds only another of the same; one lost answer makes a line ambiguous, and
the second attempt resolves it. Each fence of `Dlv_lost` and `Dlv_person` is the first
stop's; a fence that is neither the delivery's nor the first is covered by the
theorem `NothingWrittenPastAStop`, for every number of stops. For the lock, two
live calls show each race on the way in; a third, the late reader whose directory
was released and made again, is covered by the theorems, for every number of calls. For the stop, three
retries differ from the code's four only in number; a reconnect can meet each of
them and the deadline, and the second one meets what the first left; more than one
stop is the subject of `Stp_leftover`. For the queue file, a third mutation finds what the first two left,
in the file, in the other's cache, and after a power loss. One reader of the process that has
two of them loads the cache before, between and after them; the theorem covers any number. Hosts meet only in the companion's
round, which decides on those it reaches; with one host the round still meets every
order of claim, answer, absence and command, and the theorems cover any number.
On a lane, the first turn stalls, the second waits behind it and the third behind
that, so a gate that opens, drains or shuts again has somebody to answer each time.
Each property of each run is violated by a mutant of the code
(`PROJECT.json`), so none holds by the shape of the model.

`CHECK_DEADLOCK FALSE`: when the bounds are used up and every call has ended,
the systems stop.

### Fairness

`FairSpec` of `SessionStop` has weak fairness on the work in line (the event loop
runs it; `conn.send` has a timeout of 10 s, so each try gets an answer), on each
kind of timer, on the passing of time, and on `resumeDeadlines`, which startup
schedules. It has none on the host, on requests, restarts or failed writes. Reconnects are
bounded: each one starts the tries over, so a host that comes and goes forever
keeps a stop pending forever.

`FairSpec` of `FileLock` has weak fairness on the steps of each call
that began (the event loop runs them; a blocked `fn` would block others, so `fn`
is taken to return), on each lock of the exit hook and the end of the exit, on the
end of an older build's work, and on `Age` (time passes). Nothing is fair about
deaths, exits, failures or timeouts: nothing forces a call to give up, so each
ends without that. `EveryCallEnds` excepts a lock that a live process keeps for
a call that timed out, whose claim had landed and reported failure
(`LeftHeld`; below).

`FairSpec` of `QueueStore` has weak fairness on the next step of each call: chained
promises run on, file-system calls return, and the lock is granted to who waits
for it, which `EveryCallEnds` of `FileLock` gives (with its exception). Failures and ends of processes are bounded.

`FairSpec` of `LeaderTakeover` has weak fairness on the Mac (it wakes, connects,
sends heartbeats and does what a connection has to do) and on the companion's round: both run on
timers. A lost message, a restart, a nap, a passing window and a command are owed by
nobody. `LeadReturns` is thus about a Mac that is away, or loses a link, finitely often.

`QFairness` of `TurnQueue` takes a task to end and what a turn waits for to be
over. `Fairness` of `LaneTurn` has it on the flow of each turn, on the delivery report
of a message that was taken, and on the tick that finds a silent CLI. The CLI owes nothing: it may never take the
message, never answer, and never die. A CLI that forever makes signs of life and never
ends its turn is the one case left out; there the code waits as well.

### Disagreements found

Each of these is a run that TLC finds violated, with the lines in `PROJECT.json`:

* `Stp_leftover`: a stop fails while another try of it, begun by a second request or
  a reconnect, has just set a retry timer. The next stop takes that timer for its
  own (`settle` sees it armed) and sets none; the timer's job sees another id and
  clears the entry. The new stop stays pending, its session refusing messages, until its host
  reconnects. For the same reason the new stop can inherit the old one's
  number of tries and fail after its first.
* `Dlv_split`: rows that went out as one line keep that line's uuid when they are parked,
  and a Retry gives one of them back alone (`session-queue-park.ts:187` draws a new
  uuid only for a row that has none). It goes out under the uuid of both. The Retry of the
  other row then first asks about that uuid, hears that it was answered, and the row leaves
  the queue as delivered though no CLI ever had it. `OneBatchPerUuid` is the condition this
  breaks, and the theorems below say that nothing else loses a message.

These can be reproduced with the modules, by a configuration with the constants given and
the property named, but are not part of the runs:

* a turn stalls while the lane's record cannot be read, or its host is
  unreachable. The gate stays open (`lane-turn.ts:417` shuts it only when the
  record says running; `lane-turn-gate.ts:11` opens it "only when the earlier turn has
  provably ENDED"), and the next turn is sent into the CLI's running turn, whose glued
  result then answers it (`NeverIntoATurn`, with two turns on the lane);
* a message runs twice (`AnsweredOnce`, with two messages, `MaxProcs = 2`, `MaxFresh = 6`,
  `MaxStops = 1`, `MaxRetries = 2`): a delivery that holds a copy of a row is
  refused by a stop; before it parks its rows, a Retry of that row is sent, found
  unanswered, sent again under a new uuid, answered, and removed; then
  the park inserts the old copy again, with the old uuid, and a second Retry runs it.
  In the code the delivery has only a promise to continue between the
  refusal and the park (`claude-code-session.ts`, the superseded branch), so the window is
  narrow; `AnsweredOnce` is thus checked with one message, or with two and no Retry;
* deleting a pending row whose line may be in the CLI is reported as "removed: it
  will not run anywhere", and the line runs (`RemovedNeverRuns`, with
  `MaxLosses = 1`, `MaxStops = 0`);
* a stop's park inserts a row again that the companion took back between its read
  and its write, and a Retry then runs it here too (`FreedStaysOut`, with
  `MaxStops = 1`, `MaxRetries = 1`, `MaxFresh = 3`);
* a message the companion was given runs here without a stop or a Retry too (`FreedStaysOut`,
  with one phone message, `MaxFresh = 4`, `MaxStops = 0`, `MaxProcs = 4`, `MaxRestarts = 1`,
  `MaxRetries = 0`, `MaxLosses = 3`, 46 steps): `revertIfQueued` goes by the row's id, so a lost answer of
  an earlier line makes the row pending while a resume carries it under its new uuid; the
  person deletes it; the start of the resume fails, and `revertToPending` inserts the resume's copy
  again, with no doubt on its line; the companion gets it back, and a mid-turn write that
  still holds it writes it. While the message is neither deleted nor cancelled there is no such behaviour, at any
  bounds (`AloneFreedStaysOut`);
* `restartSession` puts rows back without the doubt on their line, and the
  companion is given a message that is running (`FreedStaysOut`, with
  `HardRestarts = TRUE`);
* a mutation whose write failed "re-persists with the next successful mutation"
  (`session-queue-store.ts:201-203`), but the next one reads the file and
  replaces the cache, and with it what was only there (`ExcusedIsKept`, with
  `Asks <- AsksAdd`);
* "the cache is refreshed to the persisted result" (`session-queue-store.ts:175`), but a
  read that a reader began before the write, when there was no cache, is assigned over it
  afterwards (`session-queue-store.ts:160-163`, no second look at `store`). Until the process's next
  mutation its readers then miss a row that it was told is stored, such as the one `pendingTaskRouting`,
  `findQueuedMessage` and `getAllSessionsWithPending` look for (`AlwaysReadsItsWrites` with
  the constants of `Qst_store`, 10 states). The file is right, since mutations do not write from
  the cache; `ReadsItsWrites` says that nothing else hides a row;
* a change of the user's permission reaches a host "at once, not on the next
  reconnect" (`primary-leader.ts:94-96`), except one that comes while a connection's
  round is telling the host the old value: the end of that round marks the host as told
  (`daemon-connection.ts:1651`; `SettingReaches`);
* one host that still hears the Mac is enough to wait (`takeover.ts:10-12`), but
  the companion passes over the hosts it leads already (`takeover.ts:111`; `OneHearingHostIsEnough`
  with two hosts).

More were seen while modelling, where no property says so:

* a stop parks a row whose line the CLI already took, and the companion is told
  "stopped: it never runs" (`session-stop.ts:265`);
* a row held by a resume and deleted after a stop parked it is inserted again by
  `holdForStartRecovery` and released by start recovery
  (`session-queue-park.ts:211`);
* a claim of the file lock that landed and reported failure, and then the deadline: the call
  throws "the lock was not had" and its token holds the lock until its process
  ends (`file-lock.ts:545`), which `EveryCallEnds` has to except;
* a process that exits between its mkdir and the next line of `attempt` leaves an
  empty directory the exit hook does not know (`file-lock.ts:129`), which
  `Lck_live` shows others get past by its age;
* a try of a stop whose `park` cannot write the queue file ends without being settled: the
  entry stays in `retries` with no timer, and every flush passes over it
  (`session-stop.ts:141`, `:190`). The properties of `SessionStop` are about runs
  whose writes succeed;
* a queue file that exists and cannot be read for once is taken for an empty queue,
  and the next mutation persists that (`fs.ts:116-122`);
* the refusal of an old lead's command makes the companion drop the newer lead it
  holds by then (`backup-gateway.ts:95`); the next round claims again;
* a session error ends a lane's turn as dead while its message is still queued, and
  it may run with the next turn; so may that of a turn that stalled undelivered
  (`behind` in the properties of `LaneTurn`); a turn also never hears that its
  message could not be delivered;
* a message written into the middle of somebody else's turn may be answered with
  that turn's result (`loose`).

## 4. Proofs

TLAPS proves, for every value of the constants that satisfies their assumptions:

| Theorem | Says | Rests on |
|---|---|---|
| `TypeCorrect` | `SessionDelivery` keeps `TypeOK` | `IInv` |
| `NothingWrittenPastAStop` | `StopsHold`: a line is written only under the session's latest stop, none pending, for rows queued or retried after it | `IInv` |
| `LostOnlyBySplitting`, `DeliveredIsTrue` | `NothingLost` and `DeliveredWasTaken`, of every behaviour that keeps `OneBatchPerUuid` | `Keeping` |
| `RowsHaveOwners` | `NoStrandedRow`, of every behaviour that keeps `RowsGoTogether` | `Owned`, `OneResume` |
| `AloneIsSafe` | all three with no condition, of a session with one message | `LinesFull` |
| `UuidRunsOnce`, `UnansweredIsFinal` | of the lines of one uuid one at most is answered, and none once the uuid was judged unanswered | `OneTurn`, `GivenUp` |
| `AloneAnsweredOnce` | `AnsweredOnce` of a session with one message, where nobody presses Retry or restarts the CLI by hand, deliveries begin after `loadQueue`, and the frames of an ended process are read before its resume is judged (`Lone`) | `LoneInv` |
| `AloneFreedStaysOut` | `FreedStaysOut` of such a message, for as long as it is neither deleted nor cancelled | `BackInv` |
| `StopTypes`, `ResultIsFinal` | `SessionStop` keeps `TypeOK`; `ResultStands`: a confirmed or failed stop is only followed by a new one | `SessionStopProofs!IInv` |
| `StopsAreWatched`, `StopsFailForCause` | `Watched` and `FailsForCause`, while no timer of an earlier stop is set (`OwnTimer`) | `SInv`, `Ending` |
| `FirstStopEndsWell` | both with no condition, of a session's first stop | the same |
| `OnlyTheEndedLeave` | `OwnTimer` ends by two kinds of step only: a stop begins over what an ended one left (`Inherits`), or `resumeDeadlines` sets the deadline of one that ended after its read (`ArmsStale`) | `SInv`, `Tidy` |
| `Exclusive` | `MutualExclusion` | `FileLockProofs!IInv` |
| `HolderKeeps`, `ReleaseIsOwn` | `HolderKeepsIt`, `ReleasesItsOwn` | the same |
| `IsExclusiveLock` | `FileLock` implements `ExclusiveLock` | the same, step by step |
| `AnswersStay` | `AnsweredStays`: what a strict mutation answered is true of the file and of all a power loss may leave | `QueueStoreProofs!IInv` |
| `LandsInOrder` | a process's mutations land in the order it asked for them | the same |
| `WritesAreRead` | `ReadsItsWrites`: a row a process was told is stored is in its cache until somebody takes it out, unless a load whose read came before a write of the process made the cache older than that | the same, `Fetched` and `Written` |
| `ImplementsAtomicStore` | `QueueStore` implements `AtomicStore` | the same, step by step |
| `LeadsAreReal`, `OldLeadsAreFenced` | `LeadIsReal`, `NoOldLead` | `LeaderTakeoverProofs!IInv` |
| `ImplementsFencedLead` | `LeaderTakeover` implements `FencedLead` | the same, step by step |
| `WorksOneAtATime`, `WantedBackFirst` | `OneAtATime`, `ComesBackFirst` | `TurnQueueProofs!IInv` |
| `UsesTheQueue` | `LaneTurn` implements `TurnQueue` | step by step |
| `LaneWorksOneAtATime`, `AnswersOnce`, `LaneWaits` | `OneAtATime` of a lane's agent, `OneAnswerEach`, `WaitsForItsTurn` | `LInv` |
| `AnswersAreOwn` | `AnswersItsOwn`: a result given to a turn closes a turn of the CLI that had its message | `LInv`, `Closing` |
| `SentInLine` | `InLine`: turns that waited at the gate are sent in the order they came | `LInv`, `Lining` |

`FileLockProofs`, `QueueStoreProofs` and `LeaderTakeoverProofs` also have the type
invariant of their module, `TypesHold`, and `LaneTurnProofs` has `LaneTypesHold`.

Assumptions: `MessagesAssumption` and `BoundsAssumption` (phone and asked messages
are messages, bounds are naturals); `CallsAssumption` and `FlagsAssumption` (names
are distinct, each call belongs to one process that is not the older build's);
`StopsAssumption` (bounds are naturals); `StoreAssumption`, `LeaderAssumption`,
`QueueAssumption`, `LaneAssumption` (bounds are naturals, each call has one process, each
wait one turn, waits are not turns, a lane's turns are turns); the two
`NoneAssumption`s (`NONE` is no other value). The number of
messages, calls, processes, stops, tries, restarts, rows, hosts, turns, waits and
failures is arbitrary.

**Delivery.** `StopsHold` is about the rows a `Send` writes, which `Mark` copied
some steps before. The invariant carries it over: `AttemptsHold` (the batch of a
marked attempt is not empty, its rows are rows under the attempt's own fence) and
`HoldHasRows`. `FenceHolds` at the write then gives the latest fence. The lemmas in
`SessionQueueProofs` say what each queue operation returns; that the head of a
batch exists rests on `NatMin`, from the library's well-foundedness of `<`.

A message leaves the queue on an answer about a *uuid*, and `NothingLost` is about the
*message*. `Keeping` joins them: an answer "it ran" is of a line some transcript shows
(`RanShown`), and what a transcript shows it keeps (`TookStays`). That the answered line
held each row settled by it is `OneBatchPerUuid`, which `Dlv_split` shows the code does
not guarantee; it is thus the hypothesis of `LostOnlyBySplitting`, a property of
behaviours and not of constants, and `Dlv_two` shows it of two messages with no Retry. In
the same way `NoStrandedRow` needs an owner for each row under the row's own uuid (`Owned`),
since a settled line releases all rows of its uuid. One owner hands a row to
another: an attempt to the registry, `next` to the resume it leaves running, the resume to the
hold. The last two would overwrite each other, but for `OneResume`. `RowsGoTogether`, the
hypothesis of `RowsHaveOwners`, says that nothing goes out under a uuid without the
rows of that uuid that are being delivered; a Retry of one row of a line breaks it too.
With one message both hold since no line is empty (`LinesFull`), which gives
`AloneIsSafe`, for every number of stops, retries, restarts, processes and losses.

`AnsweredOnce` has two halves that hold always. A CLI skips a line whose uuid its
transcript holds, so no uuid has two turns (`OneTurn`); and a row gets a new uuid only when
the old one was judged unanswered, which is final, for the process that took the line is
dead (`GivenUp`). A message is thus answered twice only when a copy of its row, under a uuid
that was given up, is still about and comes back after the row went out under the next one.
`AloneAnsweredOnce` shows that with one message no such copy is written. `LoneInv` numbers the
uuids in the order they were drawn and says of them:

* what went out, or is held, is no newer than what may still go out (`LatestGoesOut`), and
  every uuid but the newest that anyone knows was given up (`OlderGivenUp`), so two answered
  lines have one uuid, and that uuid one line (`Distinct`);
* all that may go out is of one uuid, unless there is no process and nobody is about to
  start one (`OneUuid`): the copies that a new uuid leaves behind are of attempts that a dead
  process refuses, or that a stop overtook, and the row of the latter is parked (`Overtaken`,
  `FencesBehind`);
* a uuid that was given up, or was just drawn, while there is a process to write to, is all
  there is: no hold, no other attempt, no registered line of another uuid (`CleanResend`);
* what the daemon answered is still true when the answer is settled (`AnswersTrue`,
  `ResumeUnwritten`), and a line that goes out unasked was never written (`Unwritten`,
  `FirstAlone`).

The hypotheses of `Lone` are needed: TLC breaks `AnsweredOnce` with a Retry (of one message, with
`EarlySends`) and with `HardRestarts`. `SettleWaits` is `RESUME_LINE_SETTLE_MS`. `Dlv_lost` is an
instance of `Lone`, and TLC found each conjunct of `LoneInv` to hold on it and on larger
ones before it was proved. The number of stops, uuids, processes, server restarts and lost
answers is arbitrary, and a stop, a resume and a mid-turn write may hold copies at once.

`FreedStaysOut` rests on one bit of a row, `doubt`: the companion is given a pending row only
when its line is not in doubt. `AloneFreedStaysOut` shows that the bit is right. `BackInv` adds
to `LoneInv` what a phone message's row with no doubt on its line (`Sure`) says of that line's
uuid:

* one attempt at most carries it (`OneCarrier`); while that attempt did not send it, no process
  can read it, and none was started with it (`UnsentAbsent`);
* of a row that is pending, or held for restart recovery, it is nowhere at all (`BackClear`), so
  everything else that is out was given up, by `LatestGoesOut` and `Overtaken`;
* a hold of it is of the process that was started for it, which the server watches while it runs
  (`HeldAlone`, `SpawnSees`, `HoldSees`), so a hold is dropped only when its line died unread;
* the copy a resume starts with, and may put back, was not written (`CopiesUnread`).

A row that left the queue ran, or was given back (`Kept`), so no copy comes back in its place;
and of a message given back all that is out is what a process died with, no row waits, and no
resume is about to write (`FreedOut`), which every later step keeps. The hypothesis that nothing
was deleted or cancelled is what `Kept` needs, and the 46-step behaviour above shows that it
cannot be left out: a deleted row is put back from a copy. TLC found each conjunct of `BackInv`
to hold, on instances of up to 16.7 million states, before it was proved.

**File lock.** Mutual exclusion is not inductive: a call that is about to claim
`owner-<d>` may have read a directory that is gone. The invariant says
what such a reader may still rely on:

* `GoneIsEmpty`, `ChainIsLinked`: off the path there are no entries, and every
  token on the chain but the last has an heir on it, so the chain has one end
  (lemma `OneHolder`);
* `HeirsOfTheDead`, `ClaimsOfTheDead`: an entry `owner-<d>`, and a call about to
  claim one, exist only for a `d` whose process is dead, so a chain never grows
  past a live holder;
* `WalkFindsTheHolder`: a second walk that ends at the call's own token walked the
  chain;
* `ReleasedOnce`, `InsideHolds`: a call that is inside holds the end of the chain,
  and the exit hook no longer knows a call that releases;
* `ElderIsHonoured`: while an older build's live process holds, there is no owner
  entry and no claim.

From this each theorem is a few lines. The refinement then maps each step to
`Ask`, `Enter`, `Leave`, `Die` or a stutter of `ExclusiveLock`.

**Stop.** `ResultStands` needs `InProgress`: while a job is between its first step
and its last, the session's stop is pending. Each job checks that before its
first step, and `serial` keeps every other writer of the record out until the last.
The theorem covers many stops, where the run has one.

`Watched` and `FailsForCause` need the timer's bookkeeping: an entry of `retries` whose timer
ran has one job in line that is its own (`Timer`), which tries again, decides
the failure or finds the stop over (`Covered`); a failure in line was decided for a cause
(`FailJobs`), for no entry is further in the row of delays than there were tries
(`Counted`). None of it holds of an entry that an earlier stop left, the
disagreement of `Stp_leftover`. `OwnTimer` excludes just that: the theorems say nothing
else makes a stop forgotten, and `FirstStopEndsWell` that a first stop is safe.

`OnlyTheEndedLeave` lists, with no condition, every way a pending stop comes by an entry that is
not its own. A failed stop leaves its entry (`RunFail` does not touch `retries`). A confirmed one
does not, for `Confirm` deletes it; but `resumeDeadlines` awaits between its read of the
pending stops and its loop (`session-stop.ts:170-172`), and a stop that is confirmed in
between gets a deadline all the same, which the next stop finds. If that next stop began
before the loop, the loop arms the deadline of the earlier one over it. TLC finds a behaviour for each of
the three, and the theorem says there is no other. `StaleReads` is TRUE in the code and in
`Stp_ends`; only `Stp_leftover` has it FALSE, to show that the failed stop alone is enough.

**Queue file.** A call that writes could write back what it read before another's
change. `InHand` excludes it: the one call inside the lock is the first of its
process's chain, what it read is what the file holds, and once it landed
the file is the change of that. `AnsweredStays` speaks of each contents in `kept`, so
it is inductive beside it: a write adds one to `kept`, a sync removes all others.

`ReadsItsWrites` is of the cache, which may be replaced by what a reader or a mutation that
fell back has read: `Written` says that the row is in the file, in the cache, and in all
that is on its way to it, but for the reads that a write of the process came after. `Fetched`
gives the case of the write itself: once it has landed, what its process's
readers have is the file as it left it, or `old`.

**Leadership.** All follows from one fact about a step, `BookMoves`: a host's number and
holder stay as they are, or the number grows. What ended stays past, and what the
companion was granted, and has heard of or not (`Granted`), can only be outgrown.

**Turn queue.** `Fits` says that the counter, the queue, the flows and the waits fit
together: one entry at most holds or was granted the slot and is counted (`OneSlot`),
each entry is queued once, where its wait or turn says (`InPlace`), and a turn at work
holds the slot or has a wait that brings it back (`Flowing`). It is an operator on values, for most actions end
with a pump: what a pump leaves fits if what it was given did.

**Lane.** `LInv` adds to it `AtOne` (a turn on its way to the CLI works with the gate open, one
whose late answer is watched for has it shut), `Past` (results held back or given are of
turns of the CLI that are over, each with one turn) and `Streaming` (whose message is
with the CLI still listens, unless the gate drains or the turn was given up in a way
the property excepts). `AtOne` needs the agent's slot, which is why a lane's proof
stands on the queue's.

`AnswersItsOwn` looks back from a result to the message: `Closing` follows a message
from its delivery to the result that ends the CLI's turn, through reports and
results that come in either order. `InLine` looks back from a turn that is sent to one that
is not: `Lining` carries the order of two waits through the gate's list, the queue of those that
want the slot back, and the slot (`Behind`). A turn that waits a second time, since the gate
was shut again while it came back for its slot, goes to the end of the gate's list; with
four turns it may thus be passed, which `InLine` excepts (`WaitedAgain`).

Model-checked only:

* `AnsweredOnce` of several messages, where a Retry breaks it (see the disagreements);
* `FreedStaysOut` of several messages, or of one that was deleted, and `RemovedStaysOut`: a deleted
  row that is inserted again, stops with a Retry, `HardRestarts` and `EarlySends` break them in
  the ways listed there;
* `OneBatchPerUuid` and `RowsGoTogether`, which several messages with a Retry break;
* all liveness (`EveryCallEnds`, `EveryStopEnds`, `EveryTurnEnds`, `LeadReturns`), since
  liveness under fairness is out of the prover's reach.

## 5. What is left out

*Delivery.* Only CLIs that report the lifecycle of a line, under daemons that
judge a repeated line. Left out are:

* the `seen` word cache and the counting of answers; prompt holds, quiet turns and
  `AFTER_TURN` holds; cut copies and the lost-line probe; ACP sessions;
  `migrateSessionQueue`; `editMessage`; `removeStartRecoveryRows`; budget gates;
* what triggers `processNext`: any attempt may begin at any time, so nothing is said
  about the order in which messages run, nor about the order in which the CLI
  reads its pipe;
* a graceful stop before a respawn, and with it the exits that are expected
  (`_expectedTeardown`, `claude-code-session.ts:4729-4732` and `:5201-5205`), which park the
  rows of a line rather than make them pending; an idle process that is initialised again, a
  failed attach to a live process, the link to cloud sessions;
* the lifecycle states `discarded` and `refused` of a line (`claude-code-session.ts:8660-8664`) and
  the fate `dropped` (`:4797`): `ReadCancelled` is the state `cancelled` only;
* the uuid of each row parked for a fresh line: `ParkForFreshLine` gives one to all rows
  it parks, where the code draws one per row (`session-queue-park.ts:107-111`). No run
  gets as far as to park two rows that way;
* caps: 24 hours and 2000 fates, 256 settled uuids, 64 lines;
* the queue file as such: a mutation is one durable step that does not fail
  (`QueueStore` has the file, and what a failure does).

`RestartCli` stops the old process by `Die`; the rows it puts back are read and
written in one step. Rows with no tries left are parked in the step that puts the
others back. `SettleWaits` assumes that the frames of a process that ended are read
within `RESUME_LINE_SETTLE_MS` (2 s) of its exit.

*File lock.* Left out are `sweepGraves` and what happens to a released directory
after its rename (it is no longer a lock), a release whose rename fails, foreign
things at the path, `MAX_CHAIN`, the back-off, reuse of a pid, and an older build that starts
while the model runs.

*Stops.* `SessionStop` leaves out the dispatch jobs that take turns with a
session's stops (they change nothing of it, and are taken to end), reads that
fail, and the `save` of a request that fails (it changes nothing).

*Queue file.* A read that fails (of a mutation or of a reader) or a file that does not parse, a sync of the directory
that the file system does not know, and rows of several sessions (a mutation changes one row,
or all of them as `load` does).

*Leadership.* `importLegacy`, several Walnuts on one host, a book whose write fails
(`leader-core.ts:92-102` goes on without it), a companion that does not know its Walnut yet,
what a command does once the fence lets it in. An announced restart is taken to be heard.

*Lanes.* The creation of a lane, `redeliverIfStranded`, the time limit of a caller
(`timeoutMs`), results of teams, CLIs that give no turn generations. A `session:error`
other than `delivery_failed` is taken to mean that the CLI is dead (`Die`); the code ends
the turn, and the drain, on any (`lane-turn.ts:338-351`, `lane-turn-gate.ts:159-163`), so an
error of a CLI that works on opens the gate too. So does a lane whose record is missing
(`lane-turn-gate.ts:176`); here the gate opens once the CLI is not running (`DrainEnds`). `Outside` types a message at most as often as the CLI has turns.

The components with status `not_modelled` in `PROJECT.json` have the reason there.

## 6. Plan

Done: `SessionQueueOps`, `SessionDelivery`; `FileLock`, `ExclusiveLock`; `SessionStop`;
`QueueStore`, `AtomicStore`; `LeaderTakeover`, `FencedLead`; `TurnQueue`, `LaneTurn`; and
their first theorems. Next, in this order:

1. `LineFate`: the verdict over a stream file (`line-fate-core.ts`) against a
   reference definition.
2. `CompanionSend`: the abstract promise "a message takes one path", implemented by
   `SessionDelivery`.
3. The stop's end composed with `SessionDelivery`'s rows.
4. Replication of one kind, the handover of routines, the offline journal.

Theorems next: `AnsweredOnce` of several messages with no Retry. `OneBatchPerUuid` and `RowsGoTogether` are
not consequences of having no Retry alone: TLC breaks them with `HardRestarts` or
`EarlySends`, where a row is deleted or grows stale while an attempt holds a copy of its line.
