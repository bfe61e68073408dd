----------------------------- MODULE SessionStop -----------------------------
(***************************************************************************)
(* src/src/core/sessions/session-stop.ts: what becomes of a stop a person  *)
(* asked for, for one session. The stop is a record on disk; the tries, the*)
(* timers and the lock per session are in memory. SessionDelivery models   *)
(* what a pending stop does to the session's messages; here is how it ends.*)
(*                                                                         *)
(* Every piece of work on a session runs in `serial', first come first     *)
(* served: `jobs' is that line, its head the one in progress, and `pc' the *)
(* step the head is at. The deliveries that take turns with them (dispatch)*)
(* change nothing here and are left out.                                   *)
(***************************************************************************)
EXTENDS Naturals, Sequences

CONSTANTS
  Tries,        \* Len(STOP_RETRY_DELAYS_MS)
  MaxAsks,      \* bound: requests by a person or an archive
  MaxReturns,   \* bound: times the host comes back
  MaxRestarts,  \* bound: server restarts
  MaxFaults,    \* bound: failed writes of the queue file or of the record
  StaleReads    \* BOOLEAN: a stop may end between resumeDeadlines' read of the
                \* pending stops and its loop over them

ASSUME StopsAssumption ==
  /\ {Tries, MaxAsks, MaxReturns, MaxRestarts, MaxFaults} \subseteq Nat
  /\ StaleReads \in BOOLEAN

VARIABLES
  rec,      \* the session record's stopRequest
  late,     \* STOP_OFFLINE_MAX_MS passed since it was asked for
  watch,    \* the session's entry of `retries'
  jobs, pc,
  answer,   \* what the try in progress learned
  online,   \* the daemon connection to the session's host
  resume,   \* resumeDeadlines: due, read (it has the pending stops), done
  seen,     \* the stop it read as pending
  used,     \* what is bounded
  tried     \* auxiliary: the tries of this stop, and whether the host answered one

memory == <<watch, jobs, pc, answer>>
startup == <<resume, seen>>
vars == <<rec, late, memory, online, startup, used, tried>>

\* "fired": its timer ran, and a job with the entry is in line.
Watch == [kind : {"none", "retry", "deadline", "fired"}, attempt : 0..Tries, id : Nat]

NoWatch == [kind |-> "none", attempt |-> 0, id |-> 0]

\* `own': the entry in `retries' is still the one this retry was scheduled with.
Job == [kind : {"ask", "retry", "flush", "fail"}, id : Nat, own : BOOLEAN]

Untried == [count |-> 0, answered |-> FALSE]

\* Every variable has its type, and no try has a number past the last delay.
TypeOK ==
  /\ rec \in [id : Nat, st : {"none", "pending", "confirmed", "failed"},
              err : {"none", "offline", "refused"}]
  /\ late \in BOOLEAN
  /\ watch \in Watch
  /\ jobs \in Seq(Job)
  /\ pc \in {"idle", "park", "send", "record"}
  /\ answer \in {"none", "stopped", "offline", "refused"}
  /\ online \in BOOLEAN
  /\ resume \in {"due", "read", "done"} /\ seen \in Nat
  /\ used \in [asks : Nat, returns : Nat, restarts : Nat, faults : Nat]
  /\ tried \in [count : Nat, answered : BOOLEAN]

Init ==
  /\ rec = [id |-> 0, st |-> "none", err |-> "none"]
  /\ late = FALSE
  /\ watch = NoWatch /\ jobs = <<>> /\ pc = "idle" /\ answer = "none"
  /\ online \in BOOLEAN
  /\ resume = "done" /\ seen = 0
  /\ used = [asks |-> 0, returns |-> 0, restarts |-> 0, faults |-> 0]
  /\ tried = Untried

-----------------------------------------------------------------------------
(* The line of work *)

Line(kind, id) == Append(jobs, [kind |-> kind, id |-> id, own |-> TRUE])

\* The entry of `retries' is replaced or deleted: a retry in line lost it.
Disowned(line) == [i \in DOMAIN line |-> [line[i] EXCEPT !.own = FALSE]]

Working(kind) == pc = "idle" /\ jobs # <<>> /\ Head(jobs).kind = kind

JobDone == pc' = "idle" /\ answer' = "none"

\* The record changes while resumeDeadlines holds what it read.
MayChange == StaleReads \/ resume # "read"

Ask ==
  /\ used.asks < MaxAsks
  /\ used' = [used EXCEPT !.asks = @ + 1]
  /\ jobs' = Line("ask", 0)
  /\ UNCHANGED <<rec, late, watch, pc, answer, online, startup, tried>>

\* request: a stop still pending is delivered again, else a new one begins.
BeginAsk ==
  /\ Working("ask") /\ MayChange
  /\ pc' = "park"
  /\ IF rec.st = "pending" THEN UNCHANGED <<rec, late, tried>>
     ELSE /\ rec' = [id |-> rec.id + 1, st |-> "pending", err |-> "none"]
          /\ late' = FALSE /\ tried' = Untried
  /\ UNCHANGED <<watch, jobs, answer, online, startup, used>>

\* A retry whose turn came: the stop it was scheduled for, if still pending.
BeginRetry ==
  /\ Working("retry")
  /\ IF rec.st = "pending" /\ rec.id = Head(jobs).id
       THEN pc' = "park" /\ UNCHANGED <<watch, jobs, answer>>
       ELSE /\ watch' = IF Head(jobs).own THEN NoWatch ELSE watch
            /\ jobs' = Tail(jobs) /\ JobDone
  /\ UNCHANGED <<rec, late, online, startup, used, tried>>

\* The host is back: the tries start over, unless one is in line already.
BeginFlush ==
  /\ Working("flush")
  /\ IF rec.st = "pending" /\ watch.kind # "fired"
       THEN pc' = "park" /\ watch' = NoWatch /\ UNCHANGED <<jobs, answer>>
       ELSE jobs' = Tail(jobs) /\ JobDone /\ UNCHANGED watch
  /\ UNCHANGED <<rec, late, online, startup, used, tried>>

\* Mutant of RunFail: a decided failure is written whatever became of the stop.
RunFailBlind ==
  /\ Working("fail") /\ MayChange
  /\ rec' = [rec EXCEPT !.st = "failed"]
  /\ jobs' = Tail(jobs) /\ JobDone
  /\ UNCHANGED <<late, watch, online, startup, used, tried>>

\* fail: the stop it was decided for, if still pending.
RunFail ==
  /\ Working("fail") /\ MayChange
  /\ rec' = IF rec.st = "pending" /\ rec.id = Head(jobs).id
              THEN [rec EXCEPT !.st = "failed"] ELSE rec
  /\ jobs' = Tail(jobs) /\ JobDone
  /\ UNCHANGED <<late, watch, online, startup, used, tried>>

-----------------------------------------------------------------------------
(* One try *)

Park ==
  /\ pc = "park"
  /\ pc' = "send"
  /\ UNCHANGED <<rec, late, watch, jobs, answer, online, startup, used, tried>>

\* The host stops the session, refuses or does not answer in time, or there is
\* no connection to it.
Send ==
  /\ pc = "send"
  /\ answer' \in IF online THEN {"stopped", "refused"} ELSE {"offline"}
  /\ tried' = [count |-> IF tried.count > Tries THEN tried.count ELSE tried.count + 1,
               answered |-> tried.answered \/ online]
  /\ pc' = "record"
  /\ UNCHANGED <<rec, late, watch, jobs, online, startup, used>>

\* settle, for a stop that is still pending after a try: the timer of an earlier
\* try stands, ...
TimerSet == watch.kind \in {"retry", "deadline"}

KeepTimer ==
  /\ TimerSet
  /\ jobs' = Tail(jobs)
  /\ UNCHANGED watch

\* Mutant of TryLater: one more try than there are delays.
TryLaterAlways ==
  /\ ~TimerSet
  /\ watch' = [kind |-> "retry", attempt |-> watch.attempt + 1, id |-> rec.id]
  /\ jobs' = Disowned(Tail(jobs))

\* ... or the next try is scheduled, ...
TryLater ==
  /\ ~TimerSet /\ watch.attempt < Tries
  /\ watch' = [kind |-> "retry", attempt |-> watch.attempt + 1, id |-> rec.id]
  /\ jobs' = Disowned(Tail(jobs))

\* Mutant of GiveUp: an offline host fails the stop like one that answers.
GiveUpOffline ==
  /\ ~TimerSet /\ watch.attempt >= Tries
  /\ watch' = NoWatch
  /\ jobs' = Append(Disowned(Tail(jobs)),
                    [kind |-> "fail", id |-> rec.id, own |-> TRUE])

\* ... or a host that answered the last one fails the stop, in a job of its own, ...
GiveUp ==
  /\ ~TimerSet /\ watch.attempt >= Tries /\ answer = "refused"
  /\ watch' = NoWatch
  /\ jobs' = Append(Disowned(Tail(jobs)),
                    [kind |-> "fail", id |-> rec.id, own |-> TRUE])

\* Mutant of ArmOffline: an offline host has for ever.
ArmOfflineNot ==
  /\ ~TimerSet /\ watch.attempt >= Tries /\ answer = "offline"
  /\ watch' = NoWatch
  /\ jobs' = Disowned(Tail(jobs))

\* ... or one that is offline has until the deadline.
ArmOffline ==
  /\ ~TimerSet /\ watch.attempt >= Tries /\ answer = "offline"
  /\ watch' = [watch EXCEPT !.kind = "deadline", !.id = rec.id]
  /\ jobs' = Disowned(Tail(jobs))

Rearm == KeepTimer \/ TryLater \/ GiveUp \/ ArmOffline

\* The try's result is stored, and settled.
Confirm ==
  /\ pc = "record" /\ answer = "stopped" /\ MayChange
  /\ rec' = [rec EXCEPT !.st = "confirmed", !.err = "none"]
  /\ watch' = NoWatch
  /\ jobs' = Disowned(Tail(jobs)) /\ JobDone
  /\ UNCHANGED <<late, online, startup, used, tried>>

NotConfirmed ==
  /\ pc = "record" /\ answer # "stopped"
  /\ rec' = [rec EXCEPT !.err = answer]
  /\ Rearm /\ JobDone
  /\ UNCHANGED <<late, online, startup, used, tried>>

\* The queue file (park) or the record (NotConfirmed, fail) cannot be written: the
\* job ends there and nothing is settled.
Breaks ==
  /\ used.faults < MaxFaults
  /\ pc = "park" \/ Working("fail") \/ (pc = "record" /\ answer # "stopped")
  /\ used' = [used EXCEPT !.faults = @ + 1]
  /\ jobs' = Tail(jobs) /\ JobDone
  /\ UNCHANGED <<rec, late, watch, online, startup, tried>>

\* The confirmation cannot be written: deliver takes that for an answer of the host.
ConfirmBreaks ==
  /\ used.faults < MaxFaults
  /\ pc = "record" /\ answer = "stopped"
  /\ used' = [used EXCEPT !.faults = @ + 1]
  /\ answer' = "refused"
  /\ UNCHANGED <<rec, late, watch, jobs, pc, online, startup, tried>>

-----------------------------------------------------------------------------
(* Timers, the host, restarts *)

RetryFires ==
  /\ watch.kind = "retry"
  /\ watch' = [watch EXCEPT !.kind = "fired"]
  /\ jobs' = Line("retry", watch.id)
  /\ UNCHANGED <<rec, late, pc, answer, online, startup, used, tried>>

\* The deadline of armOfflineDeadline, counted from the ask.
DeadlineFires ==
  /\ watch.kind = "deadline" /\ (late \/ watch.id # rec.id)
  /\ watch' = NoWatch
  /\ jobs' = Line("fail", watch.id)
  /\ UNCHANGED <<rec, late, pc, answer, online, startup, used, tried>>

TimePasses ==
  /\ rec.st = "pending" /\ ~late
  /\ late' = TRUE
  /\ UNCHANGED <<rec, memory, online, startup, used, tried>>

\* redeliverPendingForHost: flush, when a stop is pending.
HostReturns ==
  /\ ~online /\ used.returns < MaxReturns
  /\ online' = TRUE
  /\ used' = [used EXCEPT !.returns = @ + 1]
  /\ jobs' = IF rec.st = "pending" THEN Line("flush", 0) ELSE jobs
  /\ UNCHANGED <<rec, late, watch, pc, answer, startup, tried>>

HostLeaves ==
  /\ online
  /\ online' = FALSE
  /\ UNCHANGED <<rec, late, memory, startup, used, tried>>

\* The server dies: what is in memory is gone.
Restart ==
  /\ used.restarts < MaxRestarts
  /\ used' = [used EXCEPT !.restarts = @ + 1]
  /\ watch' = NoWatch /\ jobs' = <<>> /\ JobDone
  /\ online' = FALSE
  /\ resume' = "due" /\ seen' = 0
  /\ UNCHANGED <<rec, late, tried>>

\* resumeDeadlines reads the pending stops, ...
ReadPending ==
  /\ resume = "due"
  /\ resume' = "read"
  /\ seen' = IF rec.st = "pending" THEN rec.id ELSE 0
  /\ UNCHANGED <<rec, late, memory, online, used, tried>>

\* Mutant of ArmDeadlines: a stop pending over a restart is left to its host.
ArmDeadlinesNot ==
  /\ resume = "read"
  /\ resume' = "done" /\ seen' = 0
  /\ UNCHANGED <<rec, late, memory, online, used, tried>>

\* ... and sets the deadline of each that has no entry.
ArmDeadlines ==
  /\ resume = "read"
  /\ resume' = "done" /\ seen' = 0
  /\ watch' = IF seen # 0 /\ watch.kind = "none"
                THEN [kind |-> "deadline", attempt |-> Tries, id |-> seen] ELSE watch
  /\ UNCHANGED <<rec, late, jobs, pc, answer, online, used, tried>>

-----------------------------------------------------------------------------
(* The specification *)

Work == BeginAsk \/ BeginRetry \/ BeginFlush \/ RunFail
          \/ Park \/ Send \/ Confirm \/ NotConfirmed

Timers == RetryFires \/ DeadlineFires

Startup == ReadPending \/ ArmDeadlines

Next ==
  \/ Ask \/ Work \/ Breaks \/ ConfirmBreaks \/ Timers \/ TimePasses
  \/ HostReturns \/ HostLeaves \/ Restart \/ Startup

Spec == Init /\ [][Next]_vars

\* Jobs run, a connection answers or times out, timers fire, time passes.
FairSpec ==
  /\ Spec
  /\ WF_vars(Work) /\ WF_vars(RetryFires) /\ WF_vars(DeadlineFires)
  /\ WF_vars(TimePasses) /\ WF_vars(Startup)

-----------------------------------------------------------------------------
(* Properties *)

Settles(j) ==
  \/ j.kind = "ask"
  \/ j.kind = "flush" /\ watch.kind # "fired"
  \/ j.kind \in {"retry", "fail"} /\ j.id = rec.id

\* A pending stop is never forgotten while writes succeed: work in line will
\* settle it, a timer of its own is set (settle, armOfflineDeadline), or the server
\* that just started is about to set one (resumeDeadlines).
Watched ==
  rec.st = "pending" /\ used.faults = 0 =>
    \/ \E i \in DOMAIN jobs : Settles(jobs[i])
    \/ watch.kind \in {"retry", "deadline"} /\ watch.id = rec.id
    \/ resume = "due"
    \/ resume = "read" /\ seen = rec.id

\* The result of a stop stands: no late try, timer or restart changes it, only
\* a new stop follows it (the id and state checks of the record's writes).
ResultStands ==
  [][rec.st \in {"confirmed", "failed"} =>
       rec' = rec \/ (rec'.id = rec.id + 1 /\ rec'.st = "pending")]_vars

\* A stop fails when its time is up, or after the last of its tries if the host
\* answered one of them: a host that is only offline never fails it early.
FailsForCause ==
  rec.st = "failed" => late \/ (tried.answered /\ tried.count > Tries)

\* Every stop ends with a result while writes succeed, whatever the host does:
\* offline, refusing, coming and going (the promise of STOP_OFFLINE_MAX_MS).
EveryStopEnds == rec.st = "pending" ~> (rec.st # "pending" \/ used.faults > 0)
=============================================================================
