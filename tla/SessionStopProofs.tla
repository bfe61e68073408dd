-------------------------- MODULE SessionStopProofs --------------------------
(***************************************************************************)
(* The types of SessionStop, that the result of a stop stands, and that a  *)
(* pending stop is not forgotten and fails for a cause only, for any number*)
(* of requests, reconnects, restarts and failed writes.                    *)
(*                                                                         *)
(* The fact the first two rest on is InProgress: while a job is at one of  *)
(* its steps there is such a job, and the session's stop is pending.       *)
(* `serial' gives it: a job checks the state before its first step, and    *)
(* until its last no other writes the record. How a stop ends rests on     *)
(* Timer too: an entry of `retries' whose timer ran has its one job in     *)
(* line. It holds as far as the entry is the pending stop's own (OwnTimer),*)
(* which it is in a session's first stop; that in a later one it is not,   *)
(* only an earlier stop brings about that has ended (OnlyTheEndedLeave).   *)
(***************************************************************************)
EXTENDS SessionStop, SequenceTheorems, TLAPS

\* The bounded counters (used).
Counters == [asks : Nat, returns : Nat, restarts : Nat, faults : Nat]

InProgress == pc # "idle" => jobs # <<>> /\ rec.st = "pending"

IInv == TypeOK /\ InProgress

\* A job put in line, and a line whose retries lost their entry, are lines of jobs.
LEMMA LineType ==
  ASSUME TypeOK, NEW kind \in {"ask", "retry", "flush", "fail"}, NEW id \in Nat
  PROVE  Line(kind, id) \in Seq(Job) /\ Line(kind, id) # <<>>
PROOF
<1>1. [kind |-> kind, id |-> id, own |-> TRUE] \in Job
  BY DEF Job
<1> QED BY <1>1 DEF TypeOK, Line

LEMMA DisownedType ==
  ASSUME NEW line \in Seq(Job)
  PROVE  Disowned(line) \in Seq(Job)
PROOF
<1>1. Len(line) \in Nat /\ DOMAIN line = 1..Len(line)
  BY LenProperties
<1>2. \A i \in 1..Len(line) : [line[i] EXCEPT !.own = FALSE] \in Job
  <2>1. \A j \in Job : [j EXCEPT !.own = FALSE] \in Job
    BY DEF Job
  <2> QED BY <2>1, ElementOfSeq
<1>3. Disowned(line) \in [1..Len(line) -> Job]
  BY <1>1, <1>2 DEF Disowned
<1> QED BY <1>1, <1>3

\* The head of a line of jobs is one, and the rest is a line.
LEMMA TailType ==
  ASSUME NEW line \in Seq(Job), line # <<>>
  PROVE  Tail(line) \in Seq(Job) /\ Head(line) \in Job
PROOF OBVIOUS

\* The answer of settle, whatever it decides, keeps the types.
LEMMA RearmType ==
  ASSUME IInv, pc = "record", Rearm
  PROVE  watch' \in Watch /\ jobs' \in Seq(Job)
PROOF
<1>. DEFINE line == Tail(jobs)
<1>1. /\ Tries \in Nat /\ jobs \in Seq(Job) /\ jobs # <<>>
      /\ watch \in Watch /\ rec.id \in Nat
  BY StopsAssumption DEF IInv, TypeOK, InProgress
<1>2. line \in Seq(Job) /\ Disowned(line) \in Seq(Job)
  BY <1>1, TailType, DisownedType
<1>3. [kind |-> "fail", id |-> rec.id, own |-> TRUE] \in Job
  BY <1>1 DEF Job
<1>4. CASE KeepTimer
  BY <1>1, <1>2, <1>4 DEF KeepTimer
<1>5. CASE TryLater
  <2>1. watch.attempt + 1 \in 0..Tries
    BY <1>1, <1>5 DEF TryLater, Watch
  <2> QED BY <1>1, <1>2, <1>5, <2>1 DEF TryLater, Watch
<1>6. CASE GiveUp
  <2>1. NoWatch \in Watch
    BY <1>1 DEF NoWatch, Watch
  <2> QED BY <1>2, <1>3, <1>6, <2>1 DEF GiveUp
<1>7. CASE ArmOffline
  BY <1>1, <1>2, <1>7 DEF ArmOffline, Watch
<1> QED BY <1>4, <1>5, <1>6, <1>7 DEF Rearm

-----------------------------------------------------------------------------

LEMMA InitIInv == Init => IInv
PROOF
<1>1. NoWatch \in Watch /\ Untried \in [count : Nat, answered : BOOLEAN]
  BY StopsAssumption DEF NoWatch, Watch, Untried
<1>2. <<>> \in Seq(Job)
  BY EmptySeq
<1>3. [id |-> 0, st |-> "none", err |-> "none"] \in
        [id : Nat, st : {"none", "pending", "confirmed", "failed"},
         err : {"none", "offline", "refused"}]
  OBVIOUS
<1>4. [asks |-> 0, returns |-> 0, restarts |-> 0, faults |-> 0] \in
        [asks : Nat, returns : Nat, restarts : Nat, faults : Nat]
  OBVIOUS
<1> QED BY <1>1, <1>2, <1>3, <1>4 DEF Init, IInv, TypeOK, InProgress

LEMMA StepIInv == IInv /\ [Next]_vars => IInv'
PROOF
<1>. SUFFICES ASSUME IInv, [Next]_vars PROVE IInv'
  OBVIOUS
<1>. USE DEF IInv, startup, memory, JobDone
<1>0. /\ Tries \in Nat /\ NoWatch \in Watch
      /\ Untried \in [count : Nat, answered : BOOLEAN]
  BY StopsAssumption DEF NoWatch, Watch, Untried
<1>1. CASE Ask
  <2>1. Line("ask", 0) \in Seq(Job) /\ Line("ask", 0) # <<>>
    BY LineType
  <2>2. used' \in Counters
    BY <1>1 DEF Ask, TypeOK, Counters
  <2>3. jobs' = Line("ask", 0)
        /\ UNCHANGED <<rec, late, watch, pc, answer, online, startup, tried>>
    BY <1>1 DEF Ask
  <2> QED BY <2>1, <2>2, <2>3 DEF TypeOK, InProgress, Counters
<1>2. CASE BeginAsk
  <2>1. rec' \in [id : Nat, st : {"none", "pending", "confirmed", "failed"},
                  err : {"none", "offline", "refused"}] /\ rec'.st = "pending"
    BY <1>2 DEF BeginAsk, TypeOK
  <2> QED BY <1>0, <1>2, <2>1 DEF BeginAsk, Working, TypeOK, InProgress
<1>3. CASE BeginRetry
  BY <1>0, <1>3, TailType DEF BeginRetry, Working, TypeOK, InProgress
<1>4. CASE BeginFlush
  BY <1>0, <1>4, TailType DEF BeginFlush, Working, TypeOK, InProgress
<1>5. CASE RunFail
  BY <1>5, TailType DEF RunFail, Working, TypeOK, InProgress
<1>6. CASE Park
  BY <1>6 DEF Park, TypeOK, InProgress
<1>7. CASE Send
  BY <1>7 DEF Send, TypeOK, InProgress
<1>8. CASE Confirm
  BY <1>0, <1>8, TailType, DisownedType DEF Confirm, TypeOK, InProgress
<1>9. CASE NotConfirmed
  BY <1>9, RearmType DEF NotConfirmed, TypeOK, InProgress
<1>10. CASE Breaks
  <2>1. jobs # <<>>
    BY <1>10 DEF Breaks, Working, InProgress
  <2>2. Tail(jobs) \in Seq(Job)
    BY <2>1, TailType DEF TypeOK
  <2>3. /\ jobs' = Tail(jobs) /\ pc' = "idle" /\ answer' = "none"
        /\ used' = [used EXCEPT !.faults = @ + 1]
        /\ UNCHANGED <<rec, late, watch, online, startup, tried>>
    BY <1>10 DEF Breaks
  <2> QED BY <2>2, <2>3 DEF TypeOK, InProgress
<1>11. CASE ConfirmBreaks
  BY <1>11 DEF ConfirmBreaks, TypeOK, InProgress
<1>12. CASE RetryFires
  <2>1. watch.id \in Nat
    BY DEF TypeOK, Watch
  <2>2. Line("retry", watch.id) \in Seq(Job) /\ Line("retry", watch.id) # <<>>
    BY <2>1, LineType
  <2>3. watch' \in Watch
    BY <1>12 DEF RetryFires, TypeOK, Watch
  <2> QED BY <1>12, <2>2, <2>3 DEF RetryFires, TypeOK, InProgress
<1>13. CASE DeadlineFires
  <2>1. watch.id \in Nat
    BY DEF TypeOK, Watch
  <2>2. Line("fail", watch.id) \in Seq(Job) /\ Line("fail", watch.id) # <<>>
    BY <2>1, LineType
  <2> QED BY <1>0, <1>13, <2>2 DEF DeadlineFires, TypeOK, InProgress
<1>14. CASE TimePasses
  BY <1>14 DEF TimePasses, TypeOK, InProgress
<1>15. CASE HostReturns
  <2>1. Line("flush", 0) \in Seq(Job) /\ Line("flush", 0) # <<>>
    BY LineType
  <2>2. used' \in Counters
    BY <1>15 DEF HostReturns, TypeOK, Counters
  <2>3. /\ jobs' = Line("flush", 0) \/ jobs' = jobs
        /\ online' = TRUE
        /\ UNCHANGED <<rec, late, watch, pc, answer, startup, tried>>
    BY <1>15 DEF HostReturns
  <2> QED BY <2>1, <2>2, <2>3 DEF TypeOK, InProgress, Counters
<1>16. CASE HostLeaves
  BY <1>16 DEF HostLeaves, TypeOK, InProgress
<1>17. CASE Restart
  <2>1. <<>> \in Seq(Job)
    BY EmptySeq
  <2>2. used' \in Counters
    BY <1>17 DEF Restart, TypeOK, Counters
  <2>3. /\ watch' = NoWatch /\ jobs' = <<>> /\ pc' = "idle" /\ answer' = "none"
        /\ online' = FALSE /\ resume' = "due" /\ seen' = 0
        /\ UNCHANGED <<rec, late, tried>>
    BY <1>17 DEF Restart
  <2> QED BY <1>0, <2>1, <2>2, <2>3 DEF TypeOK, InProgress, Counters
<1>18. CASE ReadPending
  BY <1>18 DEF ReadPending, TypeOK, InProgress
<1>19. CASE ArmDeadlines
  BY <1>0, <1>19 DEF ArmDeadlines, TypeOK, InProgress, Watch
<1>20. CASE UNCHANGED vars
  BY <1>20 DEF vars, TypeOK, InProgress
<1> QED
  BY <1>1, <1>2, <1>3, <1>4, <1>5, <1>6, <1>7, <1>8, <1>9, <1>10, <1>11, <1>12,
     <1>13, <1>14, <1>15, <1>16, <1>17, <1>18, <1>19, <1>20
  DEF Next, Work, Timers, Startup

\* The variables of the coordinator keep their types: no try has a number past the
\* last delay of STOP_RETRY_DELAYS_MS.
THEOREM StopTypes == Spec => []TypeOK
PROOF
<1>1. IInv => TypeOK
  BY DEF IInv
<1> QED BY InitIInv, StepIInv, <1>1, PTL DEF Spec

\* A step leaves a confirmed or failed stop as it is, or begins the next one.
LEMMA StepResult ==
  ASSUME IInv, [Next]_vars, rec.st \in {"confirmed", "failed"}
  PROVE  rec' = rec \/ (rec'.id = rec.id + 1 /\ rec'.st = "pending")
PROOF
<1>. USE DEF startup, memory
<1>1. pc = "idle"
  BY DEF IInv, InProgress
<1>2. CASE BeginAsk
  BY <1>2 DEF BeginAsk
<1>3. CASE RunFail
  BY <1>3 DEF RunFail
<1>4. CASE Confirm \/ NotConfirmed
  BY <1>1, <1>4 DEF Confirm, NotConfirmed
<1>5. CASE ~(BeginAsk \/ RunFail \/ Confirm \/ NotConfirmed)
  BY <1>5 DEF Next, Work, Timers, Startup, vars, Ask, BeginRetry, BeginFlush, Park, Send,
       Breaks, ConfirmBreaks, RetryFires, DeadlineFires, TimePasses, HostReturns,
       HostLeaves, Restart, ReadPending, ArmDeadlines
<1> QED BY <1>2, <1>3, <1>4, <1>5

\* The result of a stop stands (ResultStands): whatever timers, tries and restarts
\* are still to come, only a new request follows it.
THEOREM ResultIsFinal == Spec => ResultStands
PROOF
<1>1. IInv /\ [Next]_vars =>
        [rec.st \in {"confirmed", "failed"} =>
           rec' = rec \/ (rec'.id = rec.id + 1 /\ rec'.st = "pending")]_vars
  BY StepResult
<1> QED BY InitIInv, StepIInv, <1>1, PTL DEF Spec, ResultStands
-----------------------------------------------------------------------------
(* The line of work and the entry of `retries'. *)

Of(line) == {line[i] : i \in DOMAIN line}

\* The job of the entry, and that a line has one at most.
Mine(j) == j.kind = "retry" /\ j.own

Lone(line) == \A i, k \in DOMAIN line : Mine(line[i]) /\ Mine(line[k]) => i = k

LEMMA TailOf ==
  ASSUME NEW line \in Seq(Job), line # <<>>
  PROVE  /\ Of(line) = Of(Tail(line)) \cup {Head(line)}
         /\ Lone(line) => /\ Lone(Tail(line))
                          /\ Mine(Head(line)) => \A j \in Of(Tail(line)) : ~Mine(j)
PROOF
<1>. DEFINE rest == Tail(line)
<1>1. /\ Len(line) \in Nat /\ Len(line) >= 1 /\ Head(line) = line[1]
      /\ Len(rest) = Len(line) - 1 /\ DOMAIN line = 1..Len(line) /\ DOMAIN rest = 1..Len(rest)
      /\ \A i \in 1..Len(rest) : rest[i] = line[i + 1]
  BY HeadTailProperties, EmptySeq, LenProperties
<1>. HIDE DEF rest
<1>2. \A i \in DOMAIN rest : i + 1 \in DOMAIN line /\ i + 1 # 1 /\ rest[i] = line[i + 1]
  BY <1>1
<1>3. \A i \in DOMAIN line : i # 1 => i - 1 \in DOMAIN rest /\ rest[i - 1] = line[i]
  BY <1>1
<1>4. 1 \in DOMAIN line
  BY <1>1
<1>5. Of(line) = Of(rest) \cup {Head(line)}
  BY <1>1, <1>2, <1>3, <1>4 DEF Of
<1>6. ASSUME Lone(line)  PROVE Lone(rest)
  <2> SUFFICES ASSUME NEW i \in DOMAIN rest, NEW k \in DOMAIN rest, Mine(rest[i]), Mine(rest[k])
               PROVE  i = k
    BY DEF Lone
  <2>1. i + 1 = k + 1
    BY <1>2, <1>6 DEF Lone
  <2> QED BY <1>1, <2>1
<1>7. ASSUME Lone(line), Mine(Head(line))  PROVE \A j \in Of(rest) : ~Mine(j)
  BY <1>1, <1>2, <1>4, <1>7 DEF Lone, Of
<1> QED BY <1>5, <1>6, <1>7 DEF rest

LEMMA AppendOf ==
  ASSUME NEW line \in Seq(Job), NEW job \in Job
  PROVE  /\ Of(Append(line, job)) = Of(line) \cup {job}
         /\ Lone(line) /\ (Mine(job) => \A j \in Of(line) : ~Mine(j)) => Lone(Append(line, job))
PROOF
<1>. DEFINE more == Append(line, job)
            n == Len(line)
<1>1. /\ n \in Nat /\ more[n + 1] = job
      /\ DOMAIN line = 1..n /\ DOMAIN more = 1..(n + 1)
      /\ \A i \in 1..n : more[i] = line[i]
  BY AppendProperties, LenProperties
<1>. HIDE DEF more, n
<1>2. /\ \A i \in 1..(n + 1) : i \in 1..n \/ i = n + 1
      /\ \A i \in 1..n : i \in 1..(n + 1)
      /\ n + 1 \in 1..(n + 1)
  BY <1>1
<1>3. Of(more) = Of(line) \cup {job}
  BY <1>1, <1>2 DEF Of
<1>4. ASSUME Lone(line), Mine(job) => \A j \in Of(line) : ~Mine(j)  PROVE Lone(more)
  BY <1>1, <1>2, <1>4 DEF Lone, Of
<1> QED BY <1>3, <1>4 DEF more

LEMMA DisownedOf ==
  ASSUME NEW line \in Seq(Job)
  PROVE  /\ \A j \in Of(Disowned(line)) :
              /\ ~Mine(j)
              /\ \E k \in Of(line) : j.kind = k.kind /\ j.id = k.id
         /\ Lone(Disowned(line))
PROOF
<1>1. DOMAIN Disowned(line) = DOMAIN line
  BY DEF Disowned
<1>2. \A i \in DOMAIN line : line[i] \in Job
  BY ElementOfSeq, LenProperties
<1>3. \A i \in DOMAIN line : /\ Disowned(line)[i].own = FALSE
                            /\ Disowned(line)[i].kind = line[i].kind
                            /\ Disowned(line)[i].id = line[i].id
  BY <1>2 DEF Disowned, Job
<1> QED BY <1>1, <1>3 DEF Of, Lone, Mine

\* What an action puts in line.
LineJob(kind, id) == [kind |-> kind, id |-> id, own |-> TRUE]

LEMMA LineOf ==
  ASSUME TypeOK, NEW kind \in {"ask", "retry", "flush", "fail"}, NEW id \in Nat
  PROVE  /\ Of(Line(kind, id)) = Of(jobs) \cup {LineJob(kind, id)}
         /\ LineJob(kind, id).kind = kind /\ LineJob(kind, id).id = id
         /\ Mine(LineJob(kind, id)) <=> kind = "retry"
         /\ Lone(jobs) /\ (kind = "retry" => \A j \in Of(jobs) : ~Mine(j)) => Lone(Line(kind, id))
PROOF
<1>. DEFINE job == LineJob(kind, id)
<1>1. job \in Job /\ (Mine(job) <=> kind = "retry") /\ jobs \in Seq(Job) /\ job.kind = kind /\ job.id = id
  BY DEF Job, Mine, TypeOK, LineJob
<1>2. Line(kind, id) = Append(jobs, job)
  BY DEF Line, LineJob
<1>. HIDE DEF job
<1> QED BY <1>1, <1>2, AppendOf DEF job

LEMMA OfJobs ==
  ASSUME NEW line \in Seq(Job)
  PROVE  Of(line) \subseteq Job
PROOF
<1> QED BY ElementOfSeq, LenProperties DEF Of

-----------------------------------------------------------------------------
(* What the result of a stop rests on. *)

\* The numbers of stops in memory are of this stop or of earlier ones.
Ids ==
  /\ watch.kind = "none" => watch.attempt = 0
  /\ watch.kind # "none" => watch.id \in 1..rec.id
  /\ seen \in 0..rec.id
  /\ \A j \in Of(jobs) : j.id <= rec.id
  /\ rec.id = 0 => rec.st = "none"

\* An entry whose timer ran has its job in line, unless a write failed.
Timer ==
  /\ Lone(jobs)
  /\ \A j \in Of(jobs) : Mine(j) => watch.kind = "fired" /\ watch.id = j.id
  /\ watch.kind = "fired" /\ used.faults = 0 => \E j \in Of(jobs) : Mine(j)

SInv == IInv /\ Ids /\ Timer

\* What NotConfirmed does to the entry and to the line.
LEMMA RearmLine ==
  ASSUME SInv, pc = "record", Rearm
  PROVE  /\ jobs \in Seq(Job) /\ jobs # <<>> /\ Tail(jobs) \in Seq(Job)
         /\ \/ TimerSet /\ watch' = watch /\ jobs' = Tail(jobs)
            \/ /\ ~TimerSet /\ jobs' = Disowned(Tail(jobs)) /\ watch'.id = rec.id
               /\ \/ watch.attempt < Tries /\ watch'.kind = "retry"
                     /\ watch'.attempt = watch.attempt + 1
                  \/ watch'.kind = "deadline"
            \/ /\ ~TimerSet /\ watch.attempt >= Tries /\ answer = "refused"
               /\ watch' = NoWatch
               /\ Of(jobs') = Of(Disowned(Tail(jobs)))
                                \cup {LineJob("fail", rec.id)}
               /\ Lone(jobs')
PROOF
<1>1. /\ jobs \in Seq(Job) /\ jobs # <<>> /\ Tail(jobs) \in Seq(Job)
      /\ watch \in Watch /\ rec.id \in Nat
  BY TailType DEF SInv, IInv, TypeOK, InProgress
<1>2. CASE KeepTimer
  BY <1>1, <1>2 DEF KeepTimer
<1>3. CASE TryLater
  BY <1>1, <1>3 DEF TryLater
<1>4. CASE ArmOffline
  BY <1>1, <1>4 DEF ArmOffline, Watch
<1>5. CASE GiveUp
  <2>. DEFINE job == LineJob("fail", rec.id)
  <2>1. job \in Job /\ ~Mine(job) /\ Disowned(Tail(jobs)) \in Seq(Job)
    BY <1>1, DisownedType DEF Job, Mine, LineJob
  <2>2. /\ jobs' = Append(Disowned(Tail(jobs)), job)
        /\ ~TimerSet /\ watch.attempt >= Tries /\ answer = "refused" /\ watch' = NoWatch
    BY <1>5 DEF GiveUp, LineJob
  <2>3. Lone(Disowned(Tail(jobs)))
    BY <1>1, DisownedOf
  <2>. HIDE DEF job
  <2>4. Of(jobs') = Of(Disowned(Tail(jobs))) \cup {job} /\ Lone(jobs')
    BY <2>1, <2>2, <2>3, AppendOf
  <2> QED BY <1>1, <2>2, <2>4 DEF job
<1> QED BY <1>1, <1>2, <1>3, <1>4, <1>5 DEF Rearm

\* The actions that leave the line or take its head off.
Quiet == Park \/ Send \/ ConfirmBreaks \/ TimePasses \/ HostLeaves \/ ReadPending

LEMMA StepIds ==
  ASSUME SInv, [Next]_vars
  PROVE  Ids'
PROOF
<1>. USE DEF startup, memory, JobDone
<1>0. /\ TypeOK /\ Ids /\ jobs \in Seq(Job) /\ rec.id \in Nat /\ watch \in Watch
      /\ InProgress /\ seen \in Nat /\ NoWatch.kind = "none" /\ NoWatch.attempt = 0
  BY DEF SInv, IInv, TypeOK, NoWatch
<1>1. ASSUME jobs # <<>>  PROVE \A j \in Of(Tail(jobs)) : j \in Of(jobs)
  BY <1>0, <1>1, TailOf
<1>2. CASE Quiet \/ UNCHANGED vars
  BY <1>0, <1>2 DEF Quiet, Park, Send, ConfirmBreaks, TimePasses, HostLeaves, ReadPending, vars, Ids
<1>3. CASE Ask
  <2>1. jobs' = Line("ask", 0) /\ UNCHANGED <<rec, watch, seen>> /\ 0 \in Nat
    BY <1>3 DEF Ask
  <2>2. Of(jobs') = Of(jobs) \cup {LineJob("ask", 0)}
    BY <1>0, <2>1, LineOf
  <2> QED BY <1>0, <2>1, <2>2 DEF Ids, LineJob
<1>4. CASE BeginAsk
  <2>1. /\ rec'.id \in {rec.id, rec.id + 1} /\ UNCHANGED <<watch, jobs, seen>>
        /\ rec'.id = 0 => rec'.st = "none"
    BY <1>0, <1>4 DEF BeginAsk, TypeOK, Ids
  <2>2. \A j \in Of(jobs) : j.id \in Nat
    BY <1>0, OfJobs DEF Job
  <2>3. rec'.id \in Nat /\ rec.id <= rec'.id
    BY <1>0, <2>1
  <2>4. \A j \in Of(jobs') : j.id <= rec'.id
    BY <1>0, <2>1, <2>2, <2>3 DEF Ids
  <2>5. /\ seen' \in 0..rec'.id
        /\ watch'.kind # "none" => watch'.id \in 1..rec'.id
    BY <1>0, <2>1, <2>3 DEF Ids
  <2> QED BY <1>0, <2>1, <2>4, <2>5 DEF Ids
<1>5. CASE BeginRetry \/ BeginFlush
  <2>1. jobs # <<>> /\ (jobs' = jobs \/ jobs' = Tail(jobs)) /\ UNCHANGED <<rec, seen>>
        /\ (watch' = watch \/ watch' = NoWatch)
    BY <1>5 DEF BeginRetry, BeginFlush, Working
  <2>2. \A j \in Of(jobs') : j \in Of(jobs)
    BY <1>1, <2>1
  <2> QED BY <1>0, <2>1, <2>2 DEF Ids
<1>6. CASE RunFail
  <2>1. /\ jobs # <<>> /\ jobs' = Tail(jobs) /\ UNCHANGED <<watch, seen>> /\ rec'.id = rec.id
        /\ rec'.id = 0 => rec'.st = "none"
    BY <1>0, <1>6 DEF RunFail, Working, TypeOK, Ids
  <2>2. \A j \in Of(jobs') : j.id <= rec'.id
    BY <1>0, <1>1, <2>1 DEF Ids
  <2> QED BY <1>0, <2>1, <2>2 DEF Ids
<1>7. CASE Confirm
  <2>1. jobs # <<>> /\ jobs' = Disowned(Tail(jobs)) /\ watch' = NoWatch /\ seen' = seen
        /\ rec'.id = rec.id /\ rec.st = "pending" /\ Tail(jobs) \in Seq(Job)
    BY <1>0, <1>7, TailType DEF Confirm, InProgress, TypeOK
  <2>2. \A j \in Of(jobs') : j.id <= rec.id
    BY <1>0, <1>1, <2>1, DisownedOf DEF Ids
  <2> QED BY <1>0, <2>1, <2>2 DEF Ids
<1>8. CASE NotConfirmed
  <2>1. pc = "record" /\ Rearm /\ rec'.id = rec.id /\ rec'.st = rec.st /\ seen' = seen
        /\ rec.st = "pending" /\ rec.id \in 1..rec.id
    BY <1>0, <1>8 DEF NotConfirmed, InProgress, TypeOK, Ids
  <2>2. \A j \in Of(Disowned(Tail(jobs))) : j.id <= rec.id
    BY <1>0, <1>1, <2>1, RearmLine, DisownedOf DEF Ids
  <2>3. \A j \in Of(jobs') : j.id <= rec.id
    <3>1. \A j \in Of(Tail(jobs)) : j.id <= rec.id
      BY <1>0, <1>1, <2>1, RearmLine DEF Ids
    <3>2. LineJob("fail", rec.id).id <= rec.id
      BY <1>0, LineOf
    <3> QED BY <2>1, <2>2, <3>1, <3>2, RearmLine
  <2>4. /\ watch'.kind = "none" => watch'.attempt = 0
        /\ watch'.kind # "none" => watch'.id \in 1..rec.id
    BY <1>0, <2>1, RearmLine DEF Ids
  <2> QED BY <1>0, <2>1, <2>3, <2>4 DEF Ids
<1>9. CASE Breaks
  <2>1. jobs # <<>> /\ jobs' = Tail(jobs) /\ UNCHANGED <<rec, watch, seen>>
    BY <1>0, <1>9 DEF Breaks, Working, InProgress
  <2> QED BY <1>0, <1>1, <2>1 DEF Ids
<1>10. CASE RetryFires
  <2>1. /\ jobs' = Line("retry", watch.id) /\ UNCHANGED <<rec, seen>> /\ watch.id \in 1..rec.id
        /\ watch'.kind = "fired" /\ watch'.id = watch.id
    BY <1>0, <1>10 DEF RetryFires, Watch, Ids
  <2>2. Of(jobs') = Of(jobs) \cup {LineJob("retry", watch.id)}
    BY <1>0, <2>1, LineOf DEF Watch
  <2> QED BY <1>0, <2>1, <2>2 DEF Ids, LineJob
<1>11. CASE DeadlineFires
  <2>1. /\ jobs' = Line("fail", watch.id) /\ UNCHANGED <<rec, seen>> /\ watch.id \in 1..rec.id
        /\ watch' = NoWatch
    BY <1>0, <1>11 DEF DeadlineFires, Ids
  <2>2. Of(jobs') = Of(jobs) \cup {LineJob("fail", watch.id)}
    BY <1>0, <2>1, LineOf DEF Watch
  <2> QED BY <1>0, <2>1, <2>2 DEF Ids, LineJob
<1>12. CASE HostReturns
  <2>1. (jobs' = Line("flush", 0) \/ jobs' = jobs) /\ UNCHANGED <<rec, watch, seen>>
    BY <1>12 DEF HostReturns
  <2>0. 0 \in Nat
    OBVIOUS
  <2>2. Of(Line("flush", 0)) = Of(jobs) \cup {LineJob("flush", 0)}
    BY <1>0, <2>0, LineOf
  <2>3. LineJob("flush", 0).id = 0
    BY DEF LineJob
  <2> QED BY <1>0, <2>1, <2>2, <2>3 DEF Ids
<1>13. CASE Restart
  <2>1. jobs' = <<>> /\ watch' = NoWatch /\ rec' = rec /\ seen' = 0
    BY <1>13 DEF Restart
  <2> QED BY <1>0, <2>1 DEF Ids, Of
<1>14. CASE ArmDeadlines
  <2>1. /\ UNCHANGED <<jobs, rec>> /\ seen' = 0
        /\ \/ watch' = watch
           \/ seen # 0 /\ watch'.kind = "deadline" /\ watch'.id = seen
    BY <1>14 DEF ArmDeadlines
  <2> QED BY <1>0, <2>1 DEF Ids
<1> QED
  BY <1>2, <1>3, <1>4, <1>5, <1>6, <1>7, <1>8, <1>9, <1>10, <1>11, <1>12, <1>13, <1>14
  DEF Next, Work, Timers, Startup, Quiet

LEMMA StepTimer ==
  ASSUME SInv, [Next]_vars
  PROVE  Timer'
PROOF
<1>. USE DEF startup, memory, JobDone
<1>0. /\ TypeOK /\ Timer /\ jobs \in Seq(Job) /\ watch \in Watch /\ InProgress
      /\ NoWatch.kind = "none" /\ used.faults \in Nat
  BY DEF SInv, IInv, TypeOK, NoWatch
<1>1. ASSUME jobs # <<>>
      PROVE  /\ Of(jobs) = Of(Tail(jobs)) \cup {Head(jobs)} /\ Lone(Tail(jobs))
             /\ Mine(Head(jobs)) => \A j \in Of(Tail(jobs)) : ~Mine(j)
             /\ Head(jobs) \in Job /\ Tail(jobs) \in Seq(Job)
  BY <1>0, <1>1, TailOf, TailType DEF Timer
<1>2. CASE \/ Quiet \/ UNCHANGED vars \/ BeginAsk
  <2>1. UNCHANGED <<jobs, watch>> /\ (used'.faults = 0 => used.faults = 0)
    BY <1>0, <1>2 DEF Quiet, Park, Send, ConfirmBreaks, TimePasses, HostLeaves, ReadPending,
                      vars, BeginAsk, TypeOK
  <2> QED BY <1>0, <2>1 DEF Timer
<1>3. CASE Ask \/ HostReturns
  <2>1. /\ jobs' \in {jobs, Line("ask", 0), Line("flush", 0)} /\ watch' = watch
        /\ used'.faults = used.faults
    BY <1>0, <1>3 DEF Ask, HostReturns, TypeOK
  <2>2. ASSUME NEW kind \in {"ask", "flush"}, jobs' = Line(kind, 0)  PROVE Timer'
    <3>1. /\ Of(jobs') = Of(jobs) \cup {LineJob(kind, 0)}
          /\ Lone(jobs')
      BY <1>0, <2>2, LineOf DEF Timer
    <3> QED BY <1>0, <2>1, <3>1 DEF Timer, Mine, LineJob
  <2> QED BY <1>0, <2>1, <2>2 DEF Timer
<1>4. CASE BeginRetry
  <2>1. jobs # <<>> /\ used' = used /\ Head(jobs).kind = "retry"
    BY <1>4 DEF BeginRetry, Working
  <2>2. CASE UNCHANGED <<watch, jobs>>
    BY <1>0, <2>1, <2>2 DEF Timer
  <2>3. CASE watch' = (IF Head(jobs).own THEN NoWatch ELSE watch) /\ jobs' = Tail(jobs)
    <3>1. Mine(Head(jobs)) <=> Head(jobs).own
      BY <2>1 DEF Mine
    <3> QED BY <1>0, <1>1, <2>1, <2>3, <3>1 DEF Timer
  <2> QED BY <1>4, <2>2, <2>3 DEF BeginRetry
<1>5. CASE BeginFlush
  <2>1. jobs # <<>> /\ used' = used /\ ~Mine(Head(jobs))
    BY <1>5 DEF BeginFlush, Working, Mine
  <2>2. CASE watch.kind # "fired" /\ watch' = NoWatch /\ jobs' = jobs
    BY <1>0, <2>1, <2>2 DEF Timer
  <2>3. CASE watch' = watch /\ jobs' = Tail(jobs)
    BY <1>0, <1>1, <2>1, <2>3 DEF Timer
  <2> QED BY <1>5, <2>2, <2>3 DEF BeginFlush
<1>6. CASE RunFail
  <2>1. jobs # <<>> /\ UNCHANGED <<used, watch>> /\ ~Mine(Head(jobs)) /\ jobs' = Tail(jobs)
    BY <1>6 DEF RunFail, Working, Mine
  <2> QED BY <1>0, <1>1, <2>1 DEF Timer
<1>7. CASE Confirm
  <2>1. jobs # <<>> /\ jobs' = Disowned(Tail(jobs)) /\ watch' = NoWatch
    BY <1>0, <1>7 DEF Confirm, InProgress
  <2> QED BY <1>0, <1>1, <2>1, DisownedOf DEF Timer
<1>8. CASE NotConfirmed
  <2>1. pc = "record" /\ Rearm /\ used' = used
    BY <1>8 DEF NotConfirmed
  <2>2. CASE TimerSet /\ watch' = watch /\ jobs' = Tail(jobs)
    <3>1. jobs # <<>>
      BY <2>1, RearmLine
    <3> QED BY <1>0, <1>1, <2>2, <3>1 DEF Timer, TimerSet
  <2>3. CASE jobs' = Disowned(Tail(jobs)) /\ watch'.kind \in {"retry", "deadline"}
    BY <1>0, <2>1, <2>3, RearmLine, DisownedOf DEF Timer
  <2>4. CASE /\ watch' = NoWatch /\ Lone(jobs')
             /\ Of(jobs') = Of(Disowned(Tail(jobs)))
                              \cup {LineJob("fail", rec.id)}
    <3>1. ~Mine(LineJob("fail", rec.id))
      BY DEF LineJob, Mine
    <3>2. \A j \in Of(jobs') : ~Mine(j)
      BY <2>1, <2>4, <3>1, RearmLine, DisownedOf
    <3> QED BY <1>0, <2>4, <3>2 DEF Timer
  <2> QED BY <2>1, <2>2, <2>3, <2>4, RearmLine
<1>9. CASE Breaks
  <2>1. jobs # <<>> /\ jobs' = Tail(jobs) /\ watch' = watch /\ used'.faults # 0
    BY <1>0, <1>9 DEF Breaks, Working, InProgress, TypeOK
  <2> QED BY <1>0, <1>1, <2>1 DEF Timer
<1>10. CASE RetryFires
  <2>1. /\ jobs' = Line("retry", watch.id) /\ watch.kind = "retry" /\ watch.id \in Nat
        /\ watch'.kind = "fired" /\ watch'.id = watch.id /\ used' = used
    BY <1>0, <1>10 DEF RetryFires, Watch
  <2>2. \A j \in Of(jobs) : ~Mine(j)
    BY <1>0, <2>1 DEF Timer
  <2>3. /\ Of(jobs') = Of(jobs) \cup {LineJob("retry", watch.id)}
        /\ Lone(jobs')
    BY <1>0, <2>1, <2>2, LineOf DEF Timer
  <2>4. ~Mine(LineJob("retry", watch.id)) \/ LineJob("retry", watch.id).id = watch.id
    BY DEF LineJob
  <2>5. Mine(LineJob("retry", watch.id))
    BY DEF LineJob, Mine
  <2> QED BY <2>1, <2>2, <2>3, <2>4, <2>5 DEF Timer
<1>11. CASE DeadlineFires
  <2>1. /\ jobs' = Line("fail", watch.id) /\ watch.kind = "deadline" /\ watch.id \in Nat
        /\ watch' = NoWatch /\ used' = used
    BY <1>0, <1>11 DEF DeadlineFires, Watch
  <2>2. /\ Of(jobs') = Of(jobs) \cup {LineJob("fail", watch.id)}
        /\ Lone(jobs')
    BY <1>0, <2>1, LineOf DEF Timer
  <2> QED BY <1>0, <2>1, <2>2 DEF Timer, Mine, LineJob
<1>12. CASE Restart
  <2>1. jobs' = <<>> /\ watch' = NoWatch
    BY <1>12 DEF Restart
  <2> QED BY <1>0, <2>1 DEF Timer, Of, Lone
<1>13. CASE ArmDeadlines
  <2>1. /\ jobs' = jobs /\ used' = used
        /\ watch' = watch \/ (watch.kind = "none" /\ watch'.kind = "deadline")
    BY <1>13 DEF ArmDeadlines
  <2> QED BY <1>0, <2>1 DEF Timer
<1> QED
  BY <1>2, <1>3, <1>4, <1>5, <1>6, <1>7, <1>8, <1>9, <1>10, <1>11, <1>12, <1>13
  DEF Next, Work, Timers, Startup, Quiet

LEMMA InitSInv == Init => SInv
PROOF
<1> SUFFICES ASSUME Init PROVE SInv
  OBVIOUS
<1>1. rec.id = 0 /\ rec.st = "none" /\ watch.kind = "none" /\ watch.attempt = 0
      /\ seen = 0 /\ jobs = <<>>
  BY DEF Init, NoWatch
<1>2. Ids /\ Timer
  BY <1>1 DEF Ids, Timer, Of, Lone
<1> QED BY <1>2, InitIInv DEF SInv

LEMMA StepSInv == SInv /\ [Next]_vars => SInv'
PROOF
<1> QED BY StepIInv, StepIds, StepTimer DEF SInv
-----------------------------------------------------------------------------
(* How a stop ends. *)

\* The entry of a pending stop is its own: none is left of an earlier stop.
OwnTimer == rec.st = "pending" /\ watch.kind # "none" => watch.id = rec.id

Cause == late \/ (tried.answered /\ tried.count > Tries)

\* No try is later in the row of delays than the tries there were.
Counted ==
  /\ tried.count <= Tries + 1
  /\ rec.st = "pending" /\ watch.kind \in {"retry", "fired"} => watch.attempt <= tried.count
  /\ pc = "record" =>
       /\ tried.count > 0
       /\ watch.kind # "deadline" => watch.attempt < tried.count
       /\ answer \in {"stopped", "refused"} => tried.answered

\* A failure is decided for a cause.
FailJobs == \A j \in Of(jobs) : j.kind = "fail" /\ j.id = rec.id => Cause

LEMMA StepCounted ==
  ASSUME SInv, Counted, OwnTimer', [Next]_vars
  PROVE  Counted'
PROOF
<1>. USE DEF startup, memory, JobDone
<1>0. /\ TypeOK /\ Ids /\ InProgress /\ watch \in Watch /\ tried.count \in Nat /\ Tries \in Nat
      /\ rec.id \in Nat /\ watch.attempt \in 0..Tries
      /\ NoWatch.kind = "none" /\ NoWatch.attempt = 0
  BY StopsAssumption DEF SInv, IInv, TypeOK, NoWatch, Watch
<1>1. CASE \/ Ask \/ Park \/ TimePasses \/ HostReturns \/ HostLeaves \/ ReadPending \/ UNCHANGED vars
  <2>1. /\ UNCHANGED <<rec, watch, tried>>
        /\ UNCHANGED <<pc, answer>> \/ pc' # "record"
    BY <1>1 DEF Ask, Park, TimePasses, HostReturns, HostLeaves, ReadPending, vars
  <2> QED BY <2>1 DEF Counted
<1>2. CASE BeginAsk
  <2>1. pc' = "park" /\ watch' = watch
    BY <1>2 DEF BeginAsk
  <2>2. CASE UNCHANGED <<rec, tried>>
    BY <2>1, <2>2 DEF Counted
  <2>3. CASE rec' = [id |-> rec.id + 1, st |-> "pending", err |-> "none"] /\ tried' = Untried
    <3>1. watch.kind = "none"
      BY <1>0, <2>1, <2>3 DEF OwnTimer, Ids
    <3> QED BY <1>0, <2>1, <2>3, <3>1 DEF Counted, Untried
  <2> QED BY <1>2, <2>2, <2>3 DEF BeginAsk
<1>3. CASE BeginRetry \/ BeginFlush
  <2>1. /\ UNCHANGED <<rec, tried>> /\ pc' # "record"
        /\ watch' \in {watch, NoWatch}
    BY <1>3 DEF BeginRetry, BeginFlush
  <2> QED BY <1>0, <2>1 DEF Counted
<1>4. CASE RunFail
  <2>1. /\ UNCHANGED <<watch, tried>> /\ pc' # "record"
        /\ rec'.st = "pending" => rec.st = "pending"
    BY <1>4 DEF RunFail
  <2> QED BY <2>1 DEF Counted
<1>5. CASE Send
  <2>1. /\ UNCHANGED <<rec, watch>> /\ rec.st = "pending"
        /\ tried'.count = (IF tried.count > Tries THEN tried.count ELSE tried.count + 1)
        /\ tried'.answered = (tried.answered \/ online)
        /\ answer' \in {"stopped", "refused"} => online
    BY <1>0, <1>5 DEF Send, InProgress
  <2>2. /\ tried'.count <= Tries + 1 /\ tried'.count > 0 /\ tried.count <= tried'.count
        /\ tried.count < tried'.count \/ tried'.count > Tries
    BY <1>0, <2>1 DEF Counted
  <2>3. watch.kind # "deadline" => watch.attempt < tried'.count
    BY <1>0, <2>1, <2>2 DEF Counted, Ids, Watch
  <2>4. watch.kind \in {"retry", "fired"} => watch.attempt <= tried'.count
    BY <1>0, <2>1, <2>2 DEF Counted
  <2> QED BY <2>1, <2>2, <2>3, <2>4 DEF Counted
<1>6. CASE Confirm \/ Restart
  <2>1. pc' = "idle" /\ watch' = NoWatch /\ tried' = tried
    BY <1>6 DEF Confirm, Restart
  <2> QED BY <1>0, <2>1 DEF Counted
<1>7. CASE NotConfirmed
  <2>1. pc' = "idle" /\ pc = "record" /\ tried' = tried /\ Rearm /\ rec.st = "pending"
    BY <1>0, <1>7 DEF NotConfirmed, InProgress
  <2>2. CASE watch' = watch
    BY <2>1, <2>2 DEF Counted
  <2>3. CASE ~TimerSet /\ watch'.attempt = watch.attempt + 1
    BY <1>0, <2>1, <2>3 DEF Counted, TimerSet
  <2>4. CASE watch'.kind = "deadline" \/ watch' = NoWatch
    BY <1>0, <2>1, <2>4 DEF Counted
  <2> QED BY <2>1, <2>2, <2>3, <2>4, RearmLine
<1>8. CASE Breaks
  <2>1. pc' = "idle" /\ UNCHANGED <<rec, watch, tried>>
    BY <1>8 DEF Breaks
  <2> QED BY <2>1 DEF Counted
<1>9. CASE ConfirmBreaks
  BY <1>9 DEF ConfirmBreaks, Counted
<1>10. CASE RetryFires
  <2>1. /\ watch.kind = "retry" /\ watch'.kind = "fired" /\ watch'.attempt = watch.attempt
        /\ UNCHANGED <<rec, pc, answer, tried>>
    BY <1>0, <1>10 DEF RetryFires, Watch
  <2> QED BY <2>1 DEF Counted
<1>11. CASE DeadlineFires
  <2>1. /\ watch' = NoWatch /\ UNCHANGED <<rec, pc, answer, tried>>
    BY <1>11 DEF DeadlineFires
  <2> QED BY <1>0, <2>1 DEF Counted
<1>12. CASE ArmDeadlines
  <2>1. UNCHANGED <<rec, pc, answer, tried>> /\ (watch' = watch \/ watch'.kind = "deadline")
    BY <1>12 DEF ArmDeadlines
  <2> QED BY <2>1 DEF Counted
<1> QED
  BY <1>1, <1>2, <1>3, <1>4, <1>5, <1>6, <1>7, <1>8, <1>9, <1>10, <1>11, <1>12
  DEF Next, Work, Timers, Startup

\* What a stop has for a failure it keeps.
LEMMA CauseStays ==
  ASSUME SInv, [Next]_vars, Cause
  PROVE  Cause' \/ rec'.id # rec.id
PROOF
<1>. USE DEF startup, memory
<1>0. tried.count \in Nat /\ Tries \in Nat /\ rec.id \in Nat
  BY StopsAssumption DEF SInv, IInv, TypeOK
<1>1. CASE Send
  BY <1>0, <1>1 DEF Send, Cause
<1>2. CASE BeginAsk
  BY <1>0, <1>2 DEF BeginAsk, Cause
<1>3. CASE ~(Send \/ BeginAsk)
  <2>1. tried' = tried /\ (late => late')
    BY <1>3 DEF Next, Work, Timers, Startup, vars, Ask, BeginRetry, BeginFlush, RunFail, Park,
         Confirm, NotConfirmed, Breaks, ConfirmBreaks, RetryFires, DeadlineFires, TimePasses,
         HostReturns, HostLeaves, Restart, ReadPending, ArmDeadlines
  <2> QED BY <2>1 DEF Cause
<1> QED BY <1>1, <1>2, <1>3

\* Every job that fails the stop has its cause, and so has a stop that failed.
LEMMA StepFails ==
  ASSUME SInv, Counted, FailJobs, FailsForCause, [Next]_vars
  PROVE  FailJobs' /\ FailsForCause'
PROOF
<1>. USE DEF startup, memory, JobDone
<1>0. /\ TypeOK /\ Ids /\ InProgress /\ jobs \in Seq(Job) /\ watch \in Watch /\ rec.id \in Nat
      /\ (FailsForCause <=> (rec.st = "failed" => Cause))
  BY DEF SInv, IInv, TypeOK, FailsForCause, Cause
<1>1. ASSUME jobs # <<>>
      PROVE  /\ \A j \in Of(Tail(jobs)) : j \in Of(jobs)
             /\ \A j \in Of(Disowned(Tail(jobs))) :
                  \E k \in Of(jobs) : j.kind = k.kind /\ j.id = k.id
  <2>1. Tail(jobs) \in Seq(Job) /\ \A j \in Of(Tail(jobs)) : j \in Of(jobs)
    BY <1>0, <1>1, TailOf, TailType
  <2> QED BY <2>1, DisownedOf
<1>2. ASSUME rec'.id = rec.id, rec'.st = "failed" => Cause,
             \A j \in Of(jobs') : j.kind = "fail" =>
               \/ \E k \in Of(jobs) : k.kind = "fail" /\ j.id = k.id
               \/ j.id = rec.id => Cause
      PROVE  FailJobs' /\ FailsForCause'
  <2>1. Cause => Cause'
    BY <1>2, CauseStays
  <2>2. \A j \in Of(jobs') : j.kind = "fail" /\ j.id = rec'.id => Cause
    BY <1>2 DEF FailJobs
  <2> QED BY <1>2, <2>1, <2>2 DEF FailJobs, FailsForCause, Cause
<1>3. ASSUME rec'.id = rec.id, rec'.st = "failed" => Cause,
             \/ jobs' \in {jobs, <<>>}
             \/ jobs # <<>> /\ jobs' \in {Tail(jobs), Disowned(Tail(jobs))}
      PROVE  FailJobs' /\ FailsForCause'
  <2>1. \A j \in Of(<<>>) : FALSE
    BY DEF Of
  <2>2. \A j \in Of(jobs') : \E k \in Of(jobs) : j.kind = k.kind /\ j.id = k.id
    BY <1>1, <1>3, <2>1
  <2> QED BY <1>2, <1>3, <2>2
<1>4. ASSUME NEW kind \in {"ask", "flush", "retry", "fail"}, NEW id \in Nat,
             jobs' = Line(kind, id), rec' = rec, kind = "fail" /\ id = rec.id => late
      PROVE  FailJobs' /\ FailsForCause'
  <2>1. /\ Of(jobs') = Of(jobs) \cup {LineJob(kind, id)}
        /\ LineJob(kind, id).kind = kind /\ LineJob(kind, id).id = id
    BY <1>0, <1>4, LineOf
  <2> QED BY <1>0, <1>2, <1>4, <2>1 DEF Cause
<1>5. CASE BeginAsk
  <2>1. CASE rec' = rec
    BY <1>0, <1>3, <1>5, <2>1 DEF BeginAsk
  <2>2. CASE rec'.id = rec.id + 1 /\ rec'.st = "pending"
    <3>1. jobs' = jobs
      BY <1>5 DEF BeginAsk
    <3>2. \A j \in Of(jobs) : j.id \in Nat /\ j.id <= rec.id
      BY <1>0, OfJobs DEF Job, Ids
    <3>3. \A j \in Of(jobs') : j.id # rec'.id
      BY <1>0, <2>2, <3>1, <3>2
    <3> QED BY <2>2, <3>3 DEF FailJobs, FailsForCause
  <2> QED BY <1>5, <2>1, <2>2 DEF BeginAsk
<1>6. CASE Quiet \/ ArmDeadlines \/ UNCHANGED vars \/ Restart
  <2>1. rec' = rec /\ jobs' \in {jobs, <<>>}
    BY <1>6 DEF Quiet, Park, Send, ConfirmBreaks, TimePasses, HostLeaves, ReadPending,
                ArmDeadlines, vars, Restart
  <2> QED BY <1>0, <1>3, <2>1
<1>7. CASE Ask \/ HostReturns
  <2>1. rec' = rec /\ jobs' \in {jobs, Line("ask", 0), Line("flush", 0)}
    BY <1>7 DEF Ask, HostReturns
  <2> QED BY <1>0, <1>3, <1>4, <2>1
<1>8. CASE BeginRetry \/ BeginFlush \/ Breaks
  <2>1. jobs # <<>> /\ rec' = rec /\ jobs' \in {jobs, Tail(jobs)}
    BY <1>0, <1>8 DEF BeginRetry, BeginFlush, Breaks, Working, InProgress
  <2> QED BY <1>0, <1>3, <2>1
<1>9. CASE RunFail
  <2>1. /\ jobs # <<>> /\ jobs' = Tail(jobs) /\ Head(jobs).kind = "fail" /\ rec'.id = rec.id
        /\ rec'.st = "failed" => rec.st = "failed" \/ rec.id = Head(jobs).id
    BY <1>0, <1>9 DEF RunFail, Working
  <2>2. Head(jobs) \in Of(jobs)
    BY <1>0, <2>1, TailOf
  <2> QED BY <1>0, <1>3, <2>1, <2>2 DEF FailJobs
<1>10. CASE Confirm
  <2>1. /\ jobs # <<>> /\ jobs' = Disowned(Tail(jobs)) /\ rec'.id = rec.id
        /\ rec'.st = "confirmed"
    BY <1>0, <1>10 DEF Confirm, InProgress, TypeOK
  <2> QED BY <1>3, <2>1
<1>11. CASE NotConfirmed
  <2>1. /\ pc = "record" /\ Rearm /\ rec'.id = rec.id /\ rec'.st = rec.st
        /\ rec.st = "pending" /\ jobs # <<>>
    BY <1>0, <1>11 DEF NotConfirmed, InProgress, TypeOK
  <2>2. CASE jobs' \in {Tail(jobs), Disowned(Tail(jobs))}
    BY <1>3, <2>1, <2>2
  <2>3. CASE /\ ~TimerSet /\ watch.attempt >= Tries /\ answer = "refused"
             /\ Of(jobs') = Of(Disowned(Tail(jobs))) \cup {LineJob("fail", rec.id)}
    <3>1. tried.count > Tries /\ tried.answered
      BY <1>0, <2>1, <2>3, StopsAssumption DEF Counted, TimerSet, TypeOK, Watch
    <3>2. Cause
      BY <3>1 DEF Cause
    <3> QED BY <1>1, <1>2, <2>1, <2>3, <3>2 DEF LineJob
  <2> QED BY <2>1, <2>2, <2>3, RearmLine
<1>12. CASE RetryFires
  BY <1>0, <1>4, <1>12 DEF RetryFires, Watch
<1>13. CASE DeadlineFires
  <2>1. /\ jobs' = Line("fail", watch.id) /\ rec' = rec /\ watch.id \in Nat
        /\ watch.id = rec.id => late
    BY <1>0, <1>13 DEF DeadlineFires, Watch
  <2> QED BY <1>4, <2>1
<1> QED
  BY <1>5, <1>6, <1>7, <1>8, <1>9, <1>10, <1>11, <1>12, <1>13
  DEF Next, Work, Timers, Startup, Quiet

\* Watched, over the jobs as a set.
Covered ==
  rec.st = "pending" /\ used.faults = 0 =>
    \/ \E j \in Of(jobs) : Settles(j)
    \/ watch.kind \in {"retry", "deadline"} /\ watch.id = rec.id
    \/ resume = "due"
    \/ resume = "read" /\ seen = rec.id

LEMMA CoveredIsWatched == Covered <=> Watched
PROOF
<1> QED BY DEF Covered, Watched, Of

LEMMA StepCovered ==
  ASSUME SInv, Covered, OwnTimer, [Next]_vars
  PROVE  Covered'
PROOF
<1>. USE DEF startup, memory, JobDone
<1>0. /\ TypeOK /\ Ids /\ Timer /\ InProgress /\ jobs \in Seq(Job) /\ watch \in Watch
      /\ rec.id \in Nat /\ used.faults \in Nat /\ NoWatch.kind = "none"
  BY DEF SInv, IInv, TypeOK, NoWatch
<1>. SUFFICES ASSUME rec'.st = "pending", used'.faults = 0
              PROVE  \/ \E j \in Of(jobs') : Settles(j)'
                     \/ watch'.kind \in {"retry", "deadline"} /\ watch'.id = rec'.id
                     \/ resume' = "due"
                     \/ resume' = "read" /\ seen' = rec'.id
  BY DEF Covered
<1>1. used.faults = 0
  <2>1. used'.faults \in {used.faults, used.faults + 1}
    BY <1>0 DEF Next, Work, Timers, Startup, vars, Ask, BeginAsk, BeginRetry, BeginFlush, RunFail,
       Park, Send, Confirm, NotConfirmed, Breaks, ConfirmBreaks, RetryFires, DeadlineFires,
       TimePasses, HostReturns, HostLeaves, Restart, ReadPending, ArmDeadlines, TypeOK
  <2> QED BY <1>0, <2>1
<1>2. ASSUME jobs # <<>>
      PROVE  Of(jobs) = Of(Tail(jobs)) \cup {Head(jobs)}
  BY <1>0, <1>2, TailOf
\* An entry whose timer ran has its job in line, and it is this stop's.
<1>3. ASSUME watch.kind = "fired", rec.st = "pending"
      PROVE  \E j \in Of(jobs) : j.kind = "retry" /\ j.id = rec.id
  BY <1>0, <1>1, <1>3 DEF Timer, Mine, OwnTimer
\* Nothing was taken away.
<1>4. ASSUME UNCHANGED <<rec, watch, resume, seen>>, Of(jobs) \subseteq Of(jobs')
      PROVE  \/ \E j \in Of(jobs') : Settles(j)'
             \/ watch'.kind \in {"retry", "deadline"} /\ watch'.id = rec'.id
             \/ resume' = "due"
             \/ resume' = "read" /\ seen' = rec'.id
  BY <1>1, <1>4 DEF Covered, Settles
<1>5. CASE Park \/ Send \/ TimePasses \/ HostLeaves \/ UNCHANGED vars
  <2>1. UNCHANGED <<rec, watch, resume, seen, jobs>>
    BY <1>5 DEF Park, Send, TimePasses, HostLeaves, vars
  <2> QED BY <1>4, <2>1
<1>6. CASE Breaks \/ ConfirmBreaks
  BY <1>0, <1>6 DEF Breaks, ConfirmBreaks, TypeOK
<1>7. CASE Ask \/ HostReturns
  <2>1. /\ UNCHANGED <<rec, watch, resume, seen>>
        /\ jobs' \in {jobs, Line("ask", 0), Line("flush", 0)}
    BY <1>7 DEF Ask, HostReturns
  <2>2. \A kind \in {"ask", "flush"} : Of(jobs) \subseteq Of(Line(kind, 0))
    BY <1>0, LineOf
  <2> QED BY <1>4, <2>1, <2>2
<1>8. CASE BeginAsk
  <2>1. jobs # <<>> /\ Head(jobs).kind = "ask" /\ jobs' = jobs
    BY <1>8 DEF BeginAsk, Working
  <2> QED BY <1>2, <2>1 DEF Settles
<1>9. CASE BeginRetry
  <2>1. /\ jobs # <<>> /\ Head(jobs).kind = "retry" /\ UNCHANGED <<rec, resume, seen>>
        /\ \/ rec.id = Head(jobs).id /\ UNCHANGED <<jobs, watch>>
           \/ /\ rec.id # Head(jobs).id /\ jobs' = Tail(jobs)
              /\ watch' = IF Head(jobs).own THEN NoWatch ELSE watch
    BY <1>9 DEF BeginRetry, Working
  <2>2. CASE UNCHANGED <<jobs, watch>>
    BY <1>4, <2>1, <2>2
  <2>3. CASE rec.id # Head(jobs).id /\ jobs' = Tail(jobs)
    <3>1. ~Settles(Head(jobs))
      BY <2>1, <2>3 DEF Settles
    <3>2. ~Mine(Head(jobs))
      BY <1>0, <1>2, <2>1, <2>3 DEF Timer, OwnTimer
    <3>3. watch' = watch
      BY <2>1, <2>3, <3>2 DEF Mine
    <3> QED BY <1>1, <1>2, <2>1, <2>3, <3>1, <3>3 DEF Covered, Settles
  <2> QED BY <2>1, <2>2, <2>3
<1>10. CASE BeginFlush
  <2>1. /\ jobs # <<>> /\ Head(jobs).kind = "flush" /\ UNCHANGED <<rec, resume, seen>>
        /\ \/ watch' = NoWatch /\ jobs' = jobs
           \/ watch.kind = "fired" /\ jobs' = Tail(jobs) /\ watch' = watch
    BY <1>10 DEF BeginFlush, Working
  <2>2. CASE watch' = NoWatch /\ jobs' = jobs
    BY <1>0, <1>2, <2>1, <2>2 DEF Settles
  <2>3. CASE watch.kind = "fired" /\ jobs' = Tail(jobs)
    <3>1. PICK j \in Of(jobs) : j.kind = "retry" /\ j.id = rec.id
      BY <1>3, <2>1, <2>3
    <3>2. j \in Of(jobs')
      BY <1>2, <2>1, <2>3, <3>1
    <3> QED BY <2>1, <3>1, <3>2 DEF Settles
  <2> QED BY <2>1, <2>2, <2>3
<1>11. CASE RunFail
  <2>1. /\ jobs # <<>> /\ jobs' = Tail(jobs) /\ Head(jobs).kind = "fail"
        /\ UNCHANGED <<watch, resume, seen>> /\ rec.id # Head(jobs).id /\ rec' = rec
    BY <1>0, <1>11 DEF RunFail, Working, TypeOK
  <2>2. ~Settles(Head(jobs))
    BY <2>1 DEF Settles
  <2> QED BY <1>1, <1>2, <2>1, <2>2 DEF Covered, Settles
<1>12. CASE Confirm
  BY <1>0, <1>12 DEF Confirm, TypeOK
<1>13. CASE NotConfirmed
  <2>1. pc = "record" /\ Rearm /\ rec'.id = rec.id /\ rec'.st = rec.st
    BY <1>0, <1>13 DEF NotConfirmed, TypeOK
  <2>2. CASE TimerSet /\ watch' = watch
    BY <2>1, <2>2 DEF TimerSet, OwnTimer
  <2>3. CASE watch'.kind \in {"retry", "deadline"} /\ watch'.id = rec.id
    BY <2>1, <2>3
  <2>4. CASE LineJob("fail", rec.id) \in Of(jobs')
    BY <2>1, <2>4 DEF Settles, LineJob
  <2> QED BY <2>1, <2>2, <2>3, <2>4, RearmLine
<1>14. CASE RetryFires \/ DeadlineFires
  <2>1. /\ UNCHANGED rec /\ watch.kind # "none" /\ watch.id \in Nat
        /\ \/ jobs' = Line("retry", watch.id)
           \/ jobs' = Line("fail", watch.id)
    BY <1>0, <1>14 DEF RetryFires, DeadlineFires, Watch
  <2>2. watch.id = rec.id
    BY <2>1 DEF OwnTimer
  <2>3. ASSUME NEW kind \in {"retry", "fail"}, jobs' = Line(kind, watch.id)
        PROVE  \E j \in Of(jobs') : Settles(j)'
    BY <1>0, <2>1, <2>2, <2>3, LineOf DEF Settles
  <2> QED BY <2>1, <2>3
<1>15. CASE Restart
  BY <1>15 DEF Restart
<1>16. CASE ReadPending
  BY <1>16 DEF ReadPending
<1>17. CASE ArmDeadlines
  <2>1. /\ UNCHANGED <<rec, jobs>> /\ resume = "read"
        /\ watch' = IF seen # 0 /\ watch.kind = "none"
                      THEN [kind |-> "deadline", attempt |-> Tries, id |-> seen] ELSE watch
    BY <1>17 DEF ArmDeadlines
  <2>2. CASE \E j \in Of(jobs) : Settles(j)
    <3>1. watch.kind # "fired" => watch'.kind # "fired"
      BY <2>1
    <3> QED BY <2>1, <2>2, <3>1 DEF Settles
  <2>3. CASE watch.kind = "none" /\ seen = rec.id
    <3>1. seen # 0
      BY <1>0, <2>1, <2>3 DEF Ids
    <3> QED BY <2>1, <2>3, <3>1
  <2>4. CASE watch.kind \in {"retry", "deadline"}
    <3>1. watch' = watch /\ watch.id = rec.id
      BY <2>1, <2>4 DEF OwnTimer
    <3> QED BY <2>1, <2>4, <3>1
  <2>5. CASE watch.kind = "fired"
    BY <1>3, <2>1, <2>5 DEF Settles
  <2> QED BY <1>0, <1>1, <2>1, <2>2, <2>3, <2>4, <2>5 DEF Covered, Watch
<1> QED
  BY <1>5, <1>6, <1>7, <1>8, <1>9, <1>10, <1>11, <1>12, <1>13, <1>14, <1>15, <1>16, <1>17
  DEF Next, Work, Timers, Startup

Ending == Counted /\ FailJobs /\ FailsForCause /\ Covered

LEMMA InitEnding == Init => Ending
PROOF
<1> SUFFICES ASSUME Init PROVE Ending
  OBVIOUS
<1>1. rec.st = "none" /\ jobs = <<>> /\ pc = "idle" /\ tried.count = 0 /\ Tries \in Nat
  BY StopsAssumption DEF Init, Untried
<1> QED BY <1>1 DEF Ending, Counted, FailJobs, FailsForCause, Covered, Of

LEMMA StepEnding == SInv /\ Ending /\ OwnTimer /\ OwnTimer' /\ [Next]_vars => Ending'
PROOF
<1> QED BY StepCounted, StepFails, StepCovered DEF Ending

\* A pending stop is never forgotten while writes succeed (Watched), for any number
\* of stops, tries, reconnects and restarts, as long as no timer of an earlier stop
\* is set: that is all that can make it forgotten.
THEOREM StopsAreWatched == Spec /\ []OwnTimer => []Watched
PROOF
<1>1. Ending => Watched
  BY CoveredIsWatched DEF Ending
<1> QED BY InitSInv, StepSInv, InitEnding, StepEnding, <1>1, PTL DEF Spec

\* A stop fails when its time is up, or after the last of its tries if the host
\* answered one (FailsForCause), under the same condition.
THEOREM StopsFailForCause == Spec /\ []OwnTimer => []FailsForCause
PROOF
<1>1. Ending => FailsForCause
  BY DEF Ending
<1> QED BY InitSInv, StepSInv, InitEnding, StepEnding, <1>1, PTL DEF Spec

\* The first stop of a session has no earlier one: it is never forgotten and fails
\* for a cause, whatever is asked, fails to be written, returns or restarts.
THEOREM FirstStopEndsWell == Spec => [](rec.id <= 1 => Watched /\ FailsForCause)
PROOF
<1>. DEFINE First == rec.id <= 1 => Ending
<1>1. SInv /\ rec.id <= 1 => OwnTimer
  <2> SUFFICES ASSUME SInv, rec.id <= 1, watch.kind # "none", rec.st = "pending"
               PROVE  watch.id = rec.id
    BY DEF OwnTimer
  <2>1. watch.id \in 1..rec.id /\ rec.id \in Nat
    BY DEF SInv, Ids, IInv, TypeOK
  <2> QED BY <2>1
<1>2. SInv /\ [Next]_vars /\ rec'.id <= 1 => rec.id <= 1
  <2> SUFFICES ASSUME SInv, [Next]_vars PROVE rec'.id \in {rec.id, rec.id + 1}
    BY DEF SInv, IInv, TypeOK
  <2>1. rec.id \in Nat /\ TypeOK
    BY DEF SInv, IInv, TypeOK
  <2>2. CASE BeginAsk
    BY <2>1, <2>2 DEF BeginAsk
  <2>3. CASE RunFail \/ Confirm \/ NotConfirmed
    BY <2>1, <2>3 DEF RunFail, Confirm, NotConfirmed, TypeOK
  <2>4. CASE ~(BeginAsk \/ RunFail \/ Confirm \/ NotConfirmed)
    <3>1. rec' = rec
      BY <2>4 DEF Next, Work, Timers, Startup, vars, Ask, BeginRetry, BeginFlush, Park, Send,
         Breaks, ConfirmBreaks, RetryFires, DeadlineFires, TimePasses, HostReturns,
         HostLeaves, Restart, ReadPending, ArmDeadlines
    <3> QED BY <3>1
  <2> QED BY <2>2, <2>3, <2>4
<1>3. Init => First
  BY InitEnding
<1>4. SInv /\ First /\ [Next]_vars => First'
  <2> SUFFICES ASSUME SInv, First, [Next]_vars, rec'.id <= 1 PROVE Ending'
    OBVIOUS
  <2>1. rec.id <= 1 /\ SInv'
    BY <1>2, StepSInv
  <2>2. OwnTimer
    BY <1>1, <2>1
  <2>3. OwnTimer'
    <3> SUFFICES ASSUME watch'.kind # "none", rec'.st = "pending" PROVE watch'.id = rec'.id
      BY DEF OwnTimer
    <3>1. watch'.id \in 1..rec'.id /\ rec'.id \in Nat
      BY <2>1 DEF SInv, Ids, IInv, TypeOK
    <3> QED BY <3>1
  <2> QED BY <2>1, <2>2, <2>3, StepEnding
<1>5. First => (rec.id <= 1 => Watched /\ FailsForCause)
  BY CoveredIsWatched DEF Ending
<1> QED BY InitSInv, StepSInv, <1>3, <1>4, <1>5, PTL DEF Spec

\* How a pending stop comes by an entry that is not its own: it begins when one that
\* failed left its own, or one that was confirmed a deadline that resumeDeadlines set
\* for it afterwards, ...
Inherits ==
  /\ BeginAsk /\ watch.kind # "none"
  /\ rec.st = "failed" \/ (rec.st = "confirmed" /\ watch.kind = "deadline")

\* ... or resumeDeadlines sets the deadline of an earlier stop, which ended after it read
\* the pending ones.
ArmsStale == ArmDeadlines /\ seen \in 1..(rec.id - 1)

\* A session without a stop has had none, and what a confirmed stop leaves is such a
\* deadline.
Tidy ==
  /\ rec.st = "none" => rec.id = 0
  /\ rec.st = "confirmed" => watch.kind \in {"none", "deadline"}

\* Tidy is kept by every step.
LEMMA StepTidy ==
  ASSUME SInv, Tidy, [Next]_vars
  PROVE  Tidy'
PROOF
<1>. USE DEF startup, memory, JobDone
<1>0. /\ TypeOK /\ InProgress /\ watch \in Watch /\ rec.id \in Nat
      /\ NoWatch.kind = "none" /\ Tidy
  BY DEF SInv, IInv, TypeOK, NoWatch
<1>1. CASE \/ Ask \/ BeginRetry \/ BeginFlush \/ Park \/ Send \/ Breaks \/ ConfirmBreaks
           \/ TimePasses \/ HostReturns \/ HostLeaves \/ DeadlineFires \/ Restart
           \/ ReadPending \/ UNCHANGED vars
  <2>1. UNCHANGED rec /\ watch' \in {watch, NoWatch}
    BY <1>1 DEF Ask, BeginRetry, BeginFlush, Park, Send, Breaks, ConfirmBreaks, TimePasses,
                HostReturns, HostLeaves, DeadlineFires, Restart, ReadPending, vars
  <2> QED BY <1>0, <2>1 DEF Tidy
<1>2. CASE BeginAsk
  <2>1. rec'.st = "pending"
    BY <1>2 DEF BeginAsk
  <2> QED BY <2>1 DEF Tidy
<1>3. CASE RunFail
  <2>1. UNCHANGED watch /\ (rec' = rec \/ rec'.st = "failed")
    BY <1>0, <1>3 DEF RunFail, TypeOK
  <2> QED BY <1>0, <2>1 DEF Tidy
<1>4. CASE Confirm
  <2>1. watch' = NoWatch /\ rec'.st = "confirmed"
    BY <1>0, <1>4 DEF Confirm, TypeOK
  <2> QED BY <1>0, <2>1 DEF Tidy
<1>5. CASE NotConfirmed
  <2>1. rec'.st = "pending"
    BY <1>0, <1>5 DEF NotConfirmed, InProgress, TypeOK
  <2> QED BY <2>1 DEF Tidy
<1>6. CASE RetryFires
  <2>1. UNCHANGED rec /\ watch.kind = "retry"
    BY <1>6 DEF RetryFires
  <2> QED BY <1>0, <2>1 DEF Tidy
<1>7. CASE ArmDeadlines
  <2>1. UNCHANGED rec /\ (watch' = watch \/ watch'.kind = "deadline")
    BY <1>7 DEF ArmDeadlines
  <2> QED BY <1>0, <2>1 DEF Tidy
<1> QED
  BY <1>1, <1>2, <1>3, <1>4, <1>5, <1>6, <1>7 DEF Next, Work, Timers, Startup

\* A pending stop whose entry is its own, or that has none, keeps it so: only a stop that
\* begins over what an ended one left, and the loop of resumeDeadlines over what it read
\* before, give it the entry of another (retries, keyed by the session alone).
THEOREM OnlyTheEndedLeave ==
  Spec => [][OwnTimer /\ ~OwnTimer' => Inherits \/ ArmsStale]_vars
PROOF
<1>1. Init => Tidy
  BY DEF Init, Tidy, NoWatch
<1>2. ASSUME SInv, Tidy, OwnTimer, ~OwnTimer', [Next]_vars
      PROVE  Inherits \/ ArmsStale
  <2>. USE DEF startup, memory, JobDone
  <2>0. /\ TypeOK /\ Ids /\ InProgress /\ watch \in Watch /\ rec.id \in Nat
        /\ NoWatch.kind = "none"
        /\ rec'.st = "pending" /\ watch'.kind # "none" /\ watch'.id # rec'.id
    BY <1>2 DEF SInv, IInv, TypeOK, NoWatch, OwnTimer
  <2>1. CASE \/ Ask \/ BeginRetry \/ BeginFlush \/ Park \/ Send \/ Breaks \/ ConfirmBreaks
             \/ TimePasses \/ HostReturns \/ HostLeaves \/ DeadlineFires \/ Restart
             \/ ReadPending \/ UNCHANGED vars
    <3>1. UNCHANGED rec /\ watch' \in {watch, NoWatch}
      BY <2>1 DEF Ask, BeginRetry, BeginFlush, Park, Send, Breaks, ConfirmBreaks, TimePasses,
                  HostReturns, HostLeaves, DeadlineFires, Restart, ReadPending, vars
    <3> QED BY <1>2, <2>0, <3>1 DEF OwnTimer
  <2>2. CASE BeginAsk
    <3>1. UNCHANGED watch
      BY <2>2 DEF BeginAsk
    <3>2. rec.st # "pending"
      BY <1>2, <2>0, <2>2, <3>1 DEF BeginAsk, OwnTimer
    <3>3. rec.st # "none"
      BY <1>2, <2>0, <3>1 DEF Tidy, Ids
    <3> QED BY <1>2, <2>0, <2>2, <3>1, <3>2, <3>3 DEF Inherits, Tidy, TypeOK
  <2>3. CASE RunFail \/ Confirm
    <3>1. rec' = rec /\ watch' = watch
      BY <2>0, <2>3 DEF RunFail, Confirm, TypeOK
    <3> QED BY <1>2, <2>0, <3>1 DEF OwnTimer
  <2>4. CASE NotConfirmed
    <3>1. /\ rec'.id = rec.id /\ rec.st = "pending" /\ pc = "record" /\ Rearm
      BY <2>0, <2>4 DEF NotConfirmed, InProgress, TypeOK
    <3>2. watch' \in {watch, NoWatch} \/ watch'.id = rec.id
      BY <1>2, <3>1, RearmLine
    <3> QED BY <1>2, <2>0, <3>1, <3>2 DEF OwnTimer
  <2>5. CASE RetryFires
    <3>1. /\ UNCHANGED rec /\ watch.kind = "retry" /\ watch'.id = watch.id
      BY <2>0, <2>5 DEF RetryFires, Watch
    <3> QED BY <1>2, <2>0, <3>1 DEF OwnTimer
  <2>6. CASE ArmDeadlines
    <3>1. /\ UNCHANGED rec
          /\ \/ watch' = watch
             \/ seen # 0 /\ watch'.id = seen
      BY <2>6 DEF ArmDeadlines
    <3>2. seen # 0 /\ seen # rec.id
      BY <1>2, <2>0, <3>1 DEF OwnTimer
    <3>3. seen \in 1..(rec.id - 1)
      BY <2>0, <3>2 DEF Ids
    <3> QED BY <2>6, <3>3 DEF ArmsStale
  <2> QED
    BY <1>2, <2>1, <2>2, <2>3, <2>4, <2>5, <2>6 DEF Next, Work, Timers, Startup
<1>3. SInv /\ Tidy /\ [Next]_vars => Tidy'
  BY StepTidy
<1>4. SInv /\ Tidy /\ [Next]_vars => [OwnTimer /\ ~OwnTimer' => Inherits \/ ArmsStale]_vars
  BY <1>2
<1> QED BY InitSInv, StepSInv, <1>1, <1>3, <1>4, PTL DEF Spec
=============================================================================
