------------------------------ MODULE FileLock ------------------------------
(***************************************************************************)
(* src/src/utils/file-lock.ts: the lock every store file of Walnut is      *)
(* written under, shared by processes that have nothing but a file system  *)
(* in common. The lock of a file is a directory. Who made it only begins a *)
(* claim: the holder is the one whose prepared folder was renamed to       *)
(* `owner' inside it, or, when that holder's process died, to              *)
(* `owner-<its token>', and so on along the chain.                         *)
(*                                                                         *)
(* A call is one withFileLock, and stands for its token too. Each action   *)
(* is one file-system call, so everything a call read may be out of date   *)
(* when it acts on it.                                                     *)
(***************************************************************************)
EXTENDS Naturals

CONSTANTS
  Call,        \* the calls of withFileLock, each with a token of its own
  Process,
  PidOf,       \* the process that makes a call
  Elder,       \* a process of an older build, which only knows the pid file
  NONE,
  OWNER,       \* the name `owner'; a call c as a name is `owner-<c>'
  Leftovers,   \* a lock may already be on its path at the start
  Dead,        \* a call whose process died holding it before (NONE: none)
  MayExit,     \* bound: the processes that may exit ...
  MayDie,      \* ... and that may be killed
  Timeouts,    \* calls may give up waiting (TIMEOUT_MS)
  MaxFaults    \* bound: claims that report a failure the protocol did not cause

ASSUME CallsAssumption ==
  /\ NONE \notin Call /\ NONE \notin Process
  /\ OWNER \notin Call /\ OWNER # NONE
  /\ PidOf \in [Call -> Process \ {Elder}]
  /\ Elder \in Process

ASSUME FlagsAssumption ==
  /\ Leftovers \in BOOLEAN /\ Timeouts \in BOOLEAN
  /\ MaxFaults \in Nat
  /\ Dead \in Call \cup {NONE}
  /\ Leftovers => Dead = NONE
  /\ MayExit \subseteq Process \ {Elder} /\ MayDie \subseteq Process

Entry == Call \cup {OWNER}

VARIABLES
  here,        \* the directory is on the lock's path
  entry,       \* the token inside each of its owner entries
  claims,      \* the `.claim-<token>' folders being prepared in it
  pidFile,     \* the process its pid file names
  aged,        \* its mtime is more than STALE_AGE_MS ago
  pc,          \* what each call does next
  at,          \* the entry a call looks into or claims
  made,        \* calls whose empty directory is not claimed yet (mine.made)
  taking,      \* the exit hook's list of calls
  proc,        \* each process: up, exiting, exited or killed
  elderHolds,  \* the older build's process is inside
  faults,
  chain        \* auxiliary: the tokens on the chain from `owner'

dir == <<here, entry, claims, pidFile, aged, chain>>
calls == <<pc, at, made, taking>>
world == <<proc, elderHolds, faults>>
vars == <<dir, calls, world>>

Ended == {"done", "timeout", "error", "cut"}

Steps == {"idle", "mkdir", "again", "made", "look", "list", "pid", "mtime",
          "prepare", "rename", "undoRetry", "undoError", "check",
          "stamp", "critical", "release"} \cup Ended

TypeOK ==
  /\ here \in BOOLEAN /\ aged \in BOOLEAN
  /\ entry \in [Entry -> Call \cup {NONE}]
  /\ claims \in SUBSET Call /\ chain \in SUBSET Call
  /\ pidFile \in Process \cup {NONE}
  /\ pc \in [Call -> Steps] /\ at \in [Call -> Entry]
  /\ made \in SUBSET Call /\ taking \in SUBSET Call
  /\ proc \in [Process -> {"up", "exiting", "exited", "killed"}]
  /\ elderHolds \in BOOLEAN /\ faults \in Nat

NoEntry == [e \in Entry |-> NONE]

\* What is on the path: nothing, an empty directory whose maker was killed, the
\* lock of an older build's process, or one whose holder died.
Init ==
  /\ elderHolds \in (IF Leftovers THEN BOOLEAN ELSE {FALSE})
  /\ here \in (IF Leftovers /\ ~elderHolds THEN BOOLEAN ELSE {elderHolds \/ Dead # NONE})
  /\ pidFile = (IF elderHolds THEN Elder ELSE NONE)
  /\ entry = [NoEntry EXCEPT ![OWNER] = Dead]
  /\ chain = {Dead} \ {NONE}
  /\ claims = {} /\ aged = FALSE
  /\ pc = [c \in Call |-> IF c = Dead THEN "cut" ELSE "idle"]
  /\ at = [c \in Call |-> OWNER]
  /\ made = {} /\ taking = {} /\ faults = 0
  /\ proc = [p \in Process |->
               IF Dead # NONE /\ p = PidOf[Dead] THEN "killed" ELSE "up"]

-----------------------------------------------------------------------------
(* The directory *)

Up(c) == proc[PidOf[c]] = "up"

\* isPidAlive.
Alive(p) == proc[p] \in {"up", "exiting"}

\* findHolder's answer, for a directory that is not changing.
Holds(c) == c \in chain /\ entry[c] = NONE

\* The directory leaves its path, with everything in it.
TakeOff ==
  /\ here' = FALSE /\ entry' = NoEntry /\ claims' = {} /\ pidFile' = NONE
  /\ aged' = FALSE /\ chain' = {}

Empty == entry = NoEntry /\ claims = {} /\ pidFile = NONE

\* Mutant: what the failed claim takes back is removed with everything in it.
RemoveAny == IF here THEN TakeOff ELSE UNCHANGED dir

\* rmdir: an empty folder only.
RemoveEmpty == IF here /\ Empty THEN TakeOff ELSE UNCHANGED dir

\* When the process is exiting, a file-system call in flight still lands, but
\* the call that made it never continues.
Goto(c, step) == pc' = [pc EXCEPT ![c] = IF Up(c) THEN step ELSE "cut"]

Look(c, e) == at' = [at EXCEPT ![c] = e]

\* One attempt ended without the lock (mine.made = false).
TryAgain(c) == Goto(c, "again") /\ made' = made \ {c}

-----------------------------------------------------------------------------
(* One attempt *)

\* withFileLock begins: the exit hook knows the call from here on.
Begin(c) ==
  /\ pc[c] = "idle" /\ Up(c)
  /\ Goto(c, "mkdir")
  /\ taking' = taking \cup {c}
  /\ UNCHANGED <<dir, at, made, world>>

MakeDir(c) ==
  /\ pc[c] \in {"mkdir", "again"} /\ Alive(PidOf[c])
  /\ IF here
       THEN Goto(c, "look") /\ UNCHANGED <<here, aged>>
       ELSE Goto(c, "made") /\ here' = TRUE /\ aged' = FALSE
  /\ Look(c, OWNER)
  /\ UNCHANGED <<entry, claims, pidFile, chain, made, taking, world>>

\* The maker learns that the directory is its own, and starts its claim.
SeeMade(c) ==
  /\ pc[c] = "made" /\ Up(c)
  /\ made' = made \cup {c}
  /\ Goto(c, "prepare")
  /\ UNCHANGED <<dir, at, taking, world>>

\* findHolder: the entries are read one by one, along the chain.
Follow(c) ==
  /\ pc[c] = "look" /\ Up(c) /\ entry[at[c]] # NONE
  /\ Look(c, entry[at[c]])
  /\ UNCHANGED <<dir, pc, made, taking, world>>

Unclaimed(c) ==
  /\ pc[c] = "look" /\ Up(c) /\ at[c] = OWNER /\ entry[OWNER] = NONE
  /\ Goto(c, "list")
  /\ UNCHANGED <<dir, at, made, taking, world>>

\* The end of the chain: our own token (a claim that reported failure but
\* landed), a live process, or a dead one whose lock is claimed in place.
EndOfChain(c) ==
  /\ pc[c] = "look" /\ Up(c) /\ at[c] # OWNER /\ entry[at[c]] = NONE
  /\ \/ at[c] = c /\ Goto(c, "stamp") /\ made' = made \ {c}
     \/ at[c] # c /\ Alive(PidOf[at[c]]) /\ TryAgain(c)
     \/ at[c] # c /\ ~Alive(PidOf[at[c]]) /\ Goto(c, "prepare") /\ UNCHANGED made
  /\ UNCHANGED <<dir, at, taking, world>>

\* Mutant: an unclaimed directory is judged by its age alone.
ListByAge(c) ==
  /\ pc[c] = "list" /\ Up(c)
  /\ IF here THEN Goto(c, "mtime") /\ UNCHANGED made ELSE TryAgain(c)
  /\ UNCHANGED <<dir, at, taking, world>>

\* An unclaimed directory: just made, abandoned, or an older build's.
List(c) ==
  /\ pc[c] = "list" /\ Up(c)
  /\ \/ ~here /\ TryAgain(c)
     \/ here /\ pidFile # NONE /\ Goto(c, "pid") /\ UNCHANGED made
     \/ here /\ pidFile = NONE /\ Goto(c, "mtime") /\ UNCHANGED made
  /\ UNCHANGED <<dir, at, taking, world>>

ReadPid(c) ==
  /\ pc[c] = "pid" /\ Up(c)
  /\ \/ pidFile = NONE /\ Goto(c, "mtime") /\ UNCHANGED made
     \/ pidFile # NONE /\ Alive(pidFile) /\ TryAgain(c)
     \/ pidFile # NONE /\ ~Alive(pidFile) /\ Goto(c, "prepare") /\ UNCHANGED made
  /\ UNCHANGED <<dir, at, taking, world>>

\* Mutant: an unclaimed directory is never judged stale.
ReadMtimeWaits(c) ==
  /\ pc[c] = "mtime" /\ Up(c)
  /\ TryAgain(c)
  /\ UNCHANGED <<dir, at, taking, world>>

ReadMtime(c) ==
  /\ pc[c] = "mtime" /\ Up(c)
  /\ IF here /\ aged THEN Goto(c, "prepare") /\ UNCHANGED made ELSE TryAgain(c)
  /\ UNCHANGED <<dir, at, taking, world>>

\* `claim': a folder is prepared inside the directory ...
Prepare(c) ==
  /\ pc[c] = "prepare" /\ Alive(PidOf[c])
  /\ IF here
       THEN /\ claims' = claims \cup {c} /\ aged' = FALSE
            /\ Goto(c, "rename") /\ UNCHANGED made
       ELSE TryAgain(c) /\ UNCHANGED <<claims, aged>>
  /\ UNCHANGED <<here, entry, pidFile, chain, at, taking, world>>

\* The rename onto an entry that is free.
Land(c) ==
  /\ entry' = [entry EXCEPT ![at[c]] = c]
  /\ chain' = IF at[c] \in chain \cup {OWNER} THEN chain \cup {c} ELSE chain

\* Mutant: the rename replaces an entry that has content.
CanLandOver(c) == c \in claims

CanLand(c) == c \in claims /\ entry[at[c]] = NONE

\* ... and renamed to the entry. `owner' is the lock; an `owner-<token>' only
\* joins the chain that token is on, so it is checked.
Rename(c) ==
  /\ pc[c] = "rename" /\ Alive(PidOf[c])
  /\ claims' = claims \ {c}
  /\ IF CanLand(c)
       THEN /\ Land(c) /\ aged' = FALSE
            /\ IF at[c] = OWNER
                 THEN Goto(c, "stamp") /\ made' = made \ {c} /\ UNCHANGED at
                 ELSE Goto(c, "check") /\ Look(c, OWNER) /\ UNCHANGED made
       ELSE TryAgain(c) /\ UNCHANGED <<entry, chain, aged, at>>
  /\ UNCHANGED <<here, pidFile, taking, world>>

\* The file system fails the claim, or reports a failure of one that landed.
\* On a directory the call made itself, it takes it back while it is empty.
ClaimFails(c) ==
  /\ pc[c] = "rename" /\ Up(c) /\ faults < MaxFaults
  /\ faults' = faults + 1
  /\ claims' = claims \ {c} /\ aged' = FALSE
  /\ \E landed \in {FALSE, CanLand(c)}, never \in BOOLEAN :
       /\ landed => ~never
       /\ IF landed THEN Land(c) ELSE UNCHANGED <<entry, chain>>
       /\ IF c \in made
            THEN Goto(c, IF never THEN "undoError" ELSE "undoRetry") /\ UNCHANGED <<made, taking>>
            ELSE IF never
              THEN Goto(c, "error") /\ taking' = taking \ {c} /\ UNCHANGED made
              ELSE TryAgain(c) /\ UNCHANGED taking
  /\ UNCHANGED <<here, pidFile, at, proc, elderHolds>>

Undo(c) ==
  /\ pc[c] \in {"undoRetry", "undoError"} /\ Alive(PidOf[c])
  /\ RemoveEmpty
  /\ IF pc[c] = "undoRetry"
       THEN TryAgain(c) /\ UNCHANGED taking
       ELSE /\ Goto(c, "error") /\ made' = made \ {c}
            /\ taking' = IF Up(c) THEN taking \ {c} ELSE taking
  /\ UNCHANGED <<at, world>>

\* The chain is read again: the lock is held only by the token at its end.
Check(c) ==
  /\ pc[c] = "check" /\ Up(c)
  /\ \/ entry[at[c]] # NONE /\ Look(c, entry[at[c]]) /\ UNCHANGED <<pc, made>>
     \/ entry[at[c]] = NONE /\ at[c] = c /\ Goto(c, "stamp") /\ UNCHANGED <<at, made>>
     \/ entry[at[c]] = NONE /\ at[c] # c /\ TryAgain(c) /\ UNCHANGED at
  /\ UNCHANGED <<dir, taking, world>>

\* FileLockTimeoutError, after one attempt at least.
GiveUp(c) ==
  /\ Timeouts /\ pc[c] = "again" /\ Up(c)
  /\ Goto(c, "timeout")
  /\ taking' = taking \ {c}
  /\ UNCHANGED <<dir, at, made, world>>

-----------------------------------------------------------------------------
(* Holding and releasing *)

\* The pid is written for older builds, by path: wherever it lands.
Stamp(c) ==
  /\ pc[c] = "stamp" /\ Alive(PidOf[c])
  /\ IF here THEN pidFile' = PidOf[c] /\ aged' = FALSE ELSE UNCHANGED <<pidFile, aged>>
  /\ Goto(c, "critical")
  /\ UNCHANGED <<here, entry, claims, chain, at, made, taking, world>>

\* Mutant: the exit hook still knows a call that is releasing.
FinishTracked(c) ==
  /\ pc[c] = "critical" /\ Up(c)
  /\ Goto(c, "release")
  /\ UNCHANGED <<dir, at, made, taking, world>>

\* fn returned; from here the exit hook leaves the lock to the release.
Finish(c) ==
  /\ pc[c] = "critical" /\ Up(c)
  /\ Goto(c, "release")
  /\ taking' = taking \ {c}
  /\ UNCHANGED <<dir, at, made, world>>

\* The directory is renamed off the path, whatever directory is there.
Release(c) ==
  /\ pc[c] = "release" /\ Alive(PidOf[c])
  /\ TakeOff
  /\ Goto(c, "done")
  /\ UNCHANGED <<at, made, taking, world>>

-----------------------------------------------------------------------------
(* Processes *)

Exit(p) ==
  /\ proc[p] = "up" /\ p \in MayExit
  /\ proc' = [proc EXCEPT ![p] = "exiting"]
  /\ UNCHANGED <<dir, calls, elderHolds, faults>>

\* Another live process wrote its pid into the lock.
StampedByOther(c) == pidFile \notin {NONE, PidOf[c]} /\ Alive(pidFile)

\* releaseHeldLocksSync, for one call: its claim folder, then the lock it holds
\* (unless another live process stamped it), or the empty directory it made.
GiveBack(c) ==
  /\ proc[PidOf[c]] = "exiting" /\ c \in taking
  /\ taking' = taking \ {c}
  /\ IF \/ Holds(c) /\ ~StampedByOther(c)
        \/ ~Holds(c) /\ c \in made /\ here
             /\ entry = NoEntry /\ claims \subseteq {c} /\ pidFile = NONE
       THEN TakeOff
       ELSE /\ claims' = claims \ {c}
            /\ UNCHANGED <<here, entry, pidFile, aged, chain>>
  /\ UNCHANGED <<pc, at, made, world>>

Exited(p) ==
  /\ proc[p] = "exiting" /\ \A c \in taking : PidOf[c] # p
  /\ proc' = [proc EXCEPT ![p] = "exited"]
  /\ UNCHANGED <<dir, calls, elderHolds, faults>>

\* No hook runs.
Kill(p) ==
  /\ Alive(p) /\ p \in MayDie
  /\ proc' = [proc EXCEPT ![p] = "killed"]
  /\ UNCHANGED <<dir, calls, elderHolds, faults>>

\* The older build's process removes its lock.
ElderEnds ==
  /\ elderHolds /\ Alive(Elder)
  /\ elderHolds' = FALSE
  /\ TakeOff
  /\ UNCHANGED <<calls, proc, faults>>

Age ==
  /\ here /\ ~aged
  /\ aged' = TRUE
  /\ UNCHANGED <<here, entry, claims, pidFile, chain, calls, world>>

-----------------------------------------------------------------------------
(* The specification *)

Search(c) == MakeDir(c) \/ SeeMade(c) \/ Follow(c) \/ Unclaimed(c) \/ EndOfChain(c)
               \/ List(c) \/ ReadPid(c) \/ ReadMtime(c)

Claim(c) == Prepare(c) \/ Rename(c) \/ Undo(c) \/ Check(c)

Hold(c) == Stamp(c) \/ Finish(c) \/ Release(c)

Next ==
  \/ \E c \in Call : Begin(c) \/ Search(c) \/ Claim(c) \/ ClaimFails(c) \/ GiveUp(c)
                       \/ Hold(c) \/ GiveBack(c)
  \/ \E p \in Process : Exit(p) \/ Exited(p) \/ Kill(p)
  \/ ElderEnds \/ Age

Spec == Init /\ [][Next]_vars

\* A call that began is run by its event loop, fn returns, time passes, and an
\* older build's process ends its own work.
Fairness ==
  /\ \A c \in Call : WF_vars(Search(c) \/ Claim(c) \/ Hold(c)) /\ WF_vars(GiveBack(c))
  /\ \A p \in Process : WF_vars(Exited(p))
  /\ WF_vars(ElderEnds) /\ WF_vars(Age)

FairSpec == Spec /\ Fairness

-----------------------------------------------------------------------------
(* What the calls see of it *)

Inside(c) == pc[c] \in {"stamp", "critical", "release"} /\ Up(c)

StageOf(c) ==
  IF ~Up(c) \/ pc[c] \in Ended THEN "over"
  ELSE IF pc[c] = "idle" THEN "new"
  ELSE IF Inside(c) THEN "in" ELSE "waiting"

Stage == [c \in Call |-> StageOf(c)]

Lock == INSTANCE ExclusiveLock WITH stage <- Stage

-----------------------------------------------------------------------------
(* Properties *)

\* Two calls never run inside the lock at once, and none runs inside while an
\* older build's live process does, whatever died, exited, was judged stale or
\* taken over meanwhile (withFileLock, attempt).
MutualExclusion ==
  /\ \A c, d \in Call : Inside(c) /\ Inside(d) => c = d
  /\ \A c \in Call : Inside(c) => ~(elderHolds /\ Alive(Elder))

\* The directory stays on its path, with the chain ending at the holder's token,
\* for as long as a live holder is inside: nobody but the holder removes it.
HolderKeepsIt == \A c \in Call : Inside(c) => here /\ Holds(c)

\* What a release takes off the path is the releasing call's own lock, also when
\* its process is already exiting (release renames whatever is at the path).
ReleasesItsOwn ==
  \A c \in Call : pc[c] = "release" /\ Alive(PidOf[c]) => Holds(c)

\* The protocol implements a lock: to its callers it is ExclusiveLock, in which a
\* function runs alone and at most once.
IsALock == Lock!Spec

\* A live process keeps a lock nobody is inside: of a call that timed out, with a
\* claim that landed and whose reply was lost (file-lock.ts:545).
LeftHeld == \E c \in Call : pc[c] = "timeout" /\ Up(c) /\ Holds(c)

\* Whatever dies and wherever, a call that waits and whose process stays up ends,
\* without its timeout: no directory, entry or claim that anyone left behind
\* keeps others out, but for a lock that stays LeftHeld.
EveryCallEnds ==
  \/ <>[]LeftHeld
  \/ \A c \in Call : pc[c] \notin {"idle"} \cup Ended ~> pc[c] \in Ended \/ ~Up(c)
=============================================================================
