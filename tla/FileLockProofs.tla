--------------------------- MODULE FileLockProofs ---------------------------
(***************************************************************************)
(* FileLock is exclusive, for every number of calls and processes, whatever*)
(* dies or exits and whatever the file system reports.                     *)
(***************************************************************************)
EXTENDS FileLock, TLAPS

(* Why it is exclusive: the inductive invariant *)

\* A directory off its path holds nothing.
GoneIsEmpty == ~here => entry = NoEntry /\ claims = {}

\* The chain from `owner' is what `chain' says, and has one end.
ChainIsLinked ==
  /\ IF entry[OWNER] = NONE THEN chain = {} ELSE entry[OWNER] \in chain
  /\ \A t \in chain : entry[t] # NONE => entry[t] \in chain
  /\ \A s, t \in chain : entry[s] = NONE /\ entry[t] = NONE => s = t

\* `owner-<token>' is claimed only after that token's process died.
HeirsOfTheDead == \A t \in Call : entry[t] # NONE => ~Alive(PidOf[t])

ClaimsOfTheDead(c) ==
  /\ pc[c] \in {"prepare", "rename"} /\ at[c] # OWNER => ~Alive(PidOf[at[c]])
  /\ pc[c] \in {"made", "list", "pid", "mtime"} => at[c] = OWNER

\* A call that reads its own token at the end of the chain holds the lock: a
\* claim of its own that sits on no chain is never reached from where it reads.
WalkFindsTheHolder(c) ==
  pc[c] \in {"look", "check"} /\ Up(c) =>
    /\ at[c] = c => Holds(c)
    /\ (\E y \in Call : entry[y] = c) /\ ~Holds(c) => at[c] \in chain \cup {OWNER}

\* The exit hook does not give back what a release is taking off the path.
ReleasedOnce(c) == pc[c] = "release" => c \notin taking

InsideHolds(c) ==
  /\ Inside(c) => Holds(c)
  /\ pc[c] = "release" /\ Alive(PidOf[c]) => Holds(c)

Sound(c) ==
  ClaimsOfTheDead(c) /\ WalkFindsTheHolder(c) /\ ReleasedOnce(c) /\ InsideHolds(c)

InOrder == GoneIsEmpty /\ ChainIsLinked /\ HeirsOfTheDead

BeforeClaiming == {"idle", "mkdir", "again", "look", "list", "pid"} \cup Ended

\* While an older build's process holds the lock, no call claims it.
ElderIsHonoured ==
  elderHolds /\ Alive(Elder) =>
    /\ here /\ pidFile = Elder /\ entry = NoEntry /\ made = {}
    /\ \A c \in Call : pc[c] \in BeforeClaiming /\ (pc[c] = "look" => at[c] = OWNER)

IInv == TypeOK /\ InOrder /\ (\A c \in Call : Sound(c)) /\ ElderIsHonoured

-----------------------------------------------------------------------------
(* Types *)

LEMMA InitType == Init => TypeOK
<1> SUFFICES ASSUME Init PROVE TypeOK
  OBVIOUS
<1>1. entry \in [Entry -> Call \cup {NONE}]
  BY CallsAssumption, FlagsAssumption DEF Init, NoEntry, Entry
<1>2. pidFile \in Process \cup {NONE} /\ chain \in SUBSET Call
  BY CallsAssumption, FlagsAssumption DEF Init
<1>3. here \in BOOLEAN /\ aged \in BOOLEAN /\ elderHolds \in BOOLEAN /\ faults \in Nat
  BY FlagsAssumption DEF Init
<1>4. pc \in [Call -> Steps] /\ at \in [Call -> Entry]
  BY DEF Init, Steps, Ended, Entry
<1>5. proc \in [Process -> {"up", "exiting", "exited", "killed"}]
  BY DEF Init
<1> QED
  BY <1>1, <1>2, <1>3, <1>4, <1>5 DEF TypeOK, Init

LEMMA GotoType ==
  ASSUME TypeOK, NEW c \in Call, NEW step \in Steps, Goto(c, step)
  PROVE  pc' \in [Call -> Steps]
BY DEF TypeOK, Goto, Steps, Ended

LEMMA TryAgainType ==
  ASSUME TypeOK, NEW c \in Call, TryAgain(c)
  PROVE  pc' \in [Call -> Steps] /\ made' \in SUBSET Call
BY GotoType DEF TypeOK, TryAgain, Steps, Ended

LEMMA LookType ==
  ASSUME TypeOK, NEW c \in Call, NEW e \in Entry, Look(c, e)
  PROVE  at' \in [Call -> Entry]
BY DEF TypeOK, Look

LEMMA TakeOffType ==
  ASSUME TypeOK, TakeOff
  PROVE  /\ here' \in BOOLEAN /\ aged' \in BOOLEAN
         /\ entry' \in [Entry -> Call \cup {NONE}]
         /\ claims' \in SUBSET Call /\ chain' \in SUBSET Call
         /\ pidFile' \in Process \cup {NONE}
BY DEF TypeOK, TakeOff, NoEntry

LEMMA LandType ==
  ASSUME TypeOK, NEW c \in Call, Land(c)
  PROVE  entry' \in [Entry -> Call \cup {NONE}] /\ chain' \in SUBSET Call
BY DEF TypeOK, Land

LEMMA StepNames ==
  /\ "again" \in Steps /\ "mkdir" \in Steps /\ "made" \in Steps /\ "look" \in Steps
  /\ "list" \in Steps /\ "pid" \in Steps /\ "mtime" \in Steps /\ "prepare" \in Steps
  /\ "rename" \in Steps /\ "undoRetry" \in Steps /\ "undoError" \in Steps
  /\ "check" \in Steps /\ "stamp" \in Steps /\ "critical" \in Steps
  /\ "release" \in Steps /\ "done" \in Steps /\ "timeout" \in Steps
  /\ "error" \in Steps /\ "cut" \in Steps
BY DEF Steps, Ended

LEMMA SearchType ==
  ASSUME TypeOK, NEW c \in Call, Begin(c) \/ Search(c) \/ GiveUp(c)
  PROVE  TypeOK'
<1> USE StepNames, GotoType, TryAgainType
<1>1. CASE Begin(c) \/ SeeMade(c) \/ Unclaimed(c) \/ GiveUp(c)
  BY <1>1 DEF TypeOK, Begin, SeeMade, Unclaimed, GiveUp, dir, world
<1>2. CASE MakeDir(c)
  <2>1. at' \in [Call -> Entry]
    BY <1>2, LookType DEF MakeDir, Entry
  <2> QED
    BY <1>2, <2>1 DEF TypeOK, MakeDir, world
<1>3. CASE Follow(c)
  <2>1. at' \in [Call -> Entry]
    BY <1>3 DEF TypeOK, Follow, Look, Entry
  <2> QED
    BY <1>3, <2>1 DEF TypeOK, Follow, dir, world
<1>4. CASE EndOfChain(c)
  BY <1>4 DEF TypeOK, EndOfChain, dir, world
<1>5. CASE List(c) \/ ReadPid(c) \/ ReadMtime(c)
  BY <1>5 DEF TypeOK, List, ReadPid, ReadMtime, dir, world
<1> QED
  BY <1>1, <1>2, <1>3, <1>4, <1>5 DEF Search

LEMMA ClaimType ==
  ASSUME TypeOK, NEW c \in Call, Claim(c) \/ ClaimFails(c)
  PROVE  TypeOK'
<1> USE StepNames, GotoType, TryAgainType
<1>1. CASE Prepare(c)
  BY <1>1 DEF TypeOK, Prepare, world
<1>2. CASE Rename(c)
  <2>1. at' \in [Call -> Entry]
    BY <1>2, LookType DEF TypeOK, Rename, Entry
  <2>2. entry' \in [Entry -> Call \cup {NONE}] /\ chain' \in SUBSET Call
    BY <1>2, LandType DEF TypeOK, Rename
  <2>3. pc' \in [Call -> Steps] /\ made' \in SUBSET Call
    BY <1>2 DEF TypeOK, Rename
  <2> QED
    BY <1>2, <2>1, <2>2, <2>3 DEF TypeOK, Rename, world
<1>3. CASE Undo(c)
  <2>1. pc' \in [Call -> Steps] /\ made' \in SUBSET Call /\ taking' \in SUBSET Call
    BY <1>3 DEF TypeOK, Undo
  <2> QED
    BY <1>3, <2>1, TakeOffType DEF TypeOK, Undo, RemoveEmpty, dir, world
<1>4. CASE Check(c)
  <2>1. at' \in [Call -> Entry]
    BY <1>4 DEF TypeOK, Check, Look, Entry
  <2> QED
    BY <1>4, <2>1 DEF TypeOK, Check, dir, world
<1>5. CASE ClaimFails(c)
  <2>1. entry' \in [Entry -> Call \cup {NONE}] /\ chain' \in SUBSET Call
    BY <1>5, LandType DEF TypeOK, ClaimFails
  <2>2. pc' \in [Call -> Steps] /\ made' \in SUBSET Call /\ taking' \in SUBSET Call
    BY <1>5 DEF TypeOK, ClaimFails
  <2>3. faults' = faults + 1 /\ claims' = claims \ {c} /\ aged' = FALSE
    BY <1>5 DEF ClaimFails
  <2>4. UNCHANGED <<here, pidFile, at, proc, elderHolds>>
    BY <1>5 DEF ClaimFails
  <2>5. faults' \in Nat
    BY <2>3 DEF TypeOK
  <2>6. claims' \in SUBSET Call /\ aged' \in BOOLEAN
    BY <2>3 DEF TypeOK
  <2> QED
    BY <2>1, <2>2, <2>4, <2>5, <2>6 DEF TypeOK
<1> QED
  BY <1>1, <1>2, <1>3, <1>4, <1>5 DEF Claim

LEMMA HoldType ==
  ASSUME TypeOK, NEW c \in Call, Hold(c) \/ GiveBack(c)
  PROVE  TypeOK'
<1> USE StepNames, GotoType
<1>1. CASE Stamp(c)
  <2>1. pidFile' \in Process \cup {NONE}
    BY <1>1, CallsAssumption DEF TypeOK, Stamp
  <2> QED
    BY <1>1, <2>1 DEF TypeOK, Stamp, world
<1>2. CASE Finish(c)
  BY <1>2 DEF TypeOK, Finish, dir, world
<1>3. CASE Release(c)
  BY <1>3, TakeOffType DEF TypeOK, Release, world
<1>4. CASE GiveBack(c)
  BY <1>4, TakeOffType DEF TypeOK, GiveBack, world
<1> QED
  BY <1>1, <1>2, <1>3, <1>4 DEF Hold

LEMMA ProcessType ==
  ASSUME TypeOK, \/ \E p \in Process : Exit(p) \/ Exited(p) \/ Kill(p)
                 \/ ElderEnds \/ Age
  PROVE  TypeOK'
<1>1. CASE \E p \in Process : Exit(p) \/ Exited(p) \/ Kill(p)
  BY <1>1 DEF TypeOK, Exit, Exited, Kill, dir, calls
<1>2. CASE ElderEnds
  BY <1>2, TakeOffType DEF TypeOK, ElderEnds, calls
<1>3. CASE Age
  BY <1>3 DEF TypeOK, Age, calls, world
<1> QED
  BY <1>1, <1>2, <1>3

\* Every variable keeps its type under every step.
LEMMA TypeStep == TypeOK /\ [Next]_vars => TypeOK'
<1> SUFFICES ASSUME TypeOK, [Next]_vars PROVE TypeOK'
  OBVIOUS
<1>1. CASE UNCHANGED vars
  BY <1>1 DEF TypeOK, vars, dir, calls, world
<1>2. CASE Next
  BY <1>2, SearchType, ClaimType, HoldType, ProcessType DEF Next
<1> QED
  BY <1>1, <1>2

-----------------------------------------------------------------------------
(* The invariant at the start, and what it says of the holder *)

LEMMA InitIInv == Init => IInv
<1> SUFFICES ASSUME Init PROVE IInv
  OBVIOUS
<1>1. TypeOK
  BY InitType
<1>2. (\A t \in Call : entry[t] = NONE) /\ entry[OWNER] = Dead
  BY CallsAssumption DEF Init, NoEntry, Entry
<1>3. GoneIsEmpty
  <2>1. ~here => Dead = NONE
    BY FlagsAssumption DEF Init
  <2>2. Dead = NONE => entry = NoEntry /\ claims = {}
    BY DEF Init, NoEntry, Entry
  <2> QED
    BY <2>1, <2>2 DEF GoneIsEmpty
<1>4. ChainIsLinked /\ HeirsOfTheDead
  BY <1>2, FlagsAssumption, CallsAssumption DEF ChainIsLinked, HeirsOfTheDead, Init
<1>5. \A c \in Call : pc[c] \in {"idle", "cut"}
  BY DEF Init
<1>6. \A c \in Call : Sound(c)
  BY <1>5 DEF Sound, ClaimsOfTheDead, WalkFindsTheHolder, ReleasedOnce, InsideHolds, Inside
<1>7. ElderIsHonoured
  <2> SUFFICES ASSUME elderHolds PROVE ElderIsHonoured
    BY DEF ElderIsHonoured
  <2>1. Leftovers /\ Dead = NONE
    BY FlagsAssumption DEF Init
  <2>2. here /\ pidFile = Elder /\ made = {}
    BY <2>1 DEF Init
  <2>3. entry = NoEntry
    BY <2>1 DEF Init, NoEntry, Entry
  <2> QED
    BY <2>2, <2>3, <1>5 DEF ElderIsHonoured, BeforeClaiming, Ended
<1> QED
  BY <1>1, <1>3, <1>4, <1>6, <1>7 DEF IInv, InOrder

\* One token at most is at the end of the chain, and only of a lock that is here.
LEMMA OneHolder ==
  ASSUME IInv
  PROVE  /\ \A c, d \in Call : Holds(c) /\ Holds(d) => c = d
         /\ \A c \in Call : Holds(c) => entry[OWNER] # NONE /\ entry # NoEntry /\ here
<1>1. \A c, d \in Call : Holds(c) /\ Holds(d) => c = d
  BY DEF IInv, InOrder, ChainIsLinked, Holds
<1>2. \A c \in Call : Holds(c) => entry[OWNER] # NONE
  BY DEF IInv, InOrder, ChainIsLinked, Holds
<1>3. entry[OWNER] # NONE => here /\ entry # NoEntry
  BY DEF IInv, InOrder, GoneIsEmpty, NoEntry, Entry
<1> QED
  BY <1>1, <1>2, <1>3

-----------------------------------------------------------------------------
(* The three ways the directory changes *)

\* No entry changes.
Calm == UNCHANGED <<entry, chain>> /\ (here' \/ (here' = here /\ claims' \subseteq claims))

\* The calls other than c do not move.
OthersStill(c) ==
  \A d \in Call \ {c} : /\ pc'[d] = pc[d] /\ at'[d] = at[d]
                        /\ d \in taking' => d \in taking

LEMMA CalmOrder ==
  ASSUME IInv, Calm, UNCHANGED proc
  PROVE  InOrder'
BY DEF IInv, InOrder, GoneIsEmpty, ChainIsLinked, HeirsOfTheDead, Calm, Alive

LEMMA CalmSound ==
  ASSUME IInv, Calm, UNCHANGED proc, NEW c \in Call, OthersStill(c), NEW d \in Call \ {c}
  PROVE  Sound(d)'
BY DEF IInv, Sound, ClaimsOfTheDead, WalkFindsTheHolder, ReleasedOnce, InsideHolds,
   Inside, Holds, Up, Alive, Calm, OthersStill

\* The directory leaves the path, and no other live call holds it.
LEMMA TakenOff ==
  ASSUME IInv, TakeOff, UNCHANGED proc, NEW c \in Call,
         \A d \in Call \ {c} : Holds(d) => ~Alive(PidOf[d])
  PROVE  /\ InOrder'
         /\ OthersStill(c) => \A d \in Call \ {c} : Sound(d)'
<1>1. \A e \in Entry : entry'[e] = NONE
  BY DEF TakeOff, NoEntry
<1>2. InOrder'
  BY <1>1 DEF InOrder, GoneIsEmpty, ChainIsLinked, HeirsOfTheDead, TakeOff, Entry, NoEntry
<1>3. ASSUME OthersStill(c), NEW d \in Call \ {c} PROVE Sound(d)'
  <2>1. ClaimsOfTheDead(d)' /\ ReleasedOnce(d)'
    BY <1>3 DEF IInv, Sound, ClaimsOfTheDead, ReleasedOnce, Alive, OthersStill
  <2>2. ~\E y \in Call : entry'[y] = d
    BY <1>1, CallsAssumption DEF Entry
  <2>3. Holds(d) => ~Alive(PidOf[d]) /\ ~Up(d)
    BY DEF Alive, Up
  <2>4. WalkFindsTheHolder(d)'
    BY <1>3, <2>2, <2>3 DEF IInv, Sound, WalkFindsTheHolder, Up, OthersStill
  <2>5. InsideHolds(d)'
    BY <1>3, <2>3 DEF IInv, Sound, InsideHolds, Inside, Up, Alive, OthersStill
  <2> QED
    BY <2>1, <2>4, <2>5 DEF Sound
<1> QED
  BY <1>2, <1>3

\* A claim lands on the entry of a dead token, or as the first.
LEMMA Landed ==
  ASSUME IInv, TypeOK', NEW c \in Call, pc[c] = "rename", Alive(PidOf[c]),
         CanLand(c), Land(c), here, UNCHANGED <<here, proc>>
  PROVE  /\ InOrder'
         /\ at[c] \in chain \cup {OWNER} => Holds(c)'
         /\ OthersStill(c) => \A d \in Call \ {c} : Sound(d)'
<1>1. at[c] \in Entry /\ at[c] # c /\ entry[c] = NONE
  BY CallsAssumption DEF IInv, TypeOK, InOrder, HeirsOfTheDead, Sound, ClaimsOfTheDead
<1>2. /\ entry'[at[c]] = c /\ entry[at[c]] = NONE
      /\ \A e \in Entry \ {at[c]} : entry'[e] = entry[e]
  BY <1>1 DEF IInv, TypeOK, Land, CanLand
<1>3. entry'[c] = NONE
  BY <1>1, <1>2, CallsAssumption DEF Entry
<1>4. at[c] # OWNER => at[c] \in Call /\ ~Alive(PidOf[at[c]])
  BY <1>1 DEF IInv, Sound, ClaimsOfTheDead, Entry
<1>5. HeirsOfTheDead'
  <2> SUFFICES ASSUME NEW t \in Call, entry'[t] # NONE PROVE ~Alive(PidOf[t])
    BY DEF HeirsOfTheDead, Alive
  <2>1. CASE t = at[c]
    BY <2>1, <1>4, CallsAssumption
  <2>2. CASE t # at[c]
    BY <2>2, <1>2 DEF IInv, InOrder, HeirsOfTheDead, Entry
  <2> QED
    BY <2>1, <2>2
<1>6. ChainIsLinked' /\ (at[c] \in chain \cup {OWNER} => Holds(c)')
  <2>1. CASE at[c] = OWNER
    <3>1. chain = {} /\ chain' = {c}
      BY <1>2, <2>1 DEF IInv, InOrder, ChainIsLinked, Land
    <3> QED
      BY <3>1, <1>2, <1>3, <2>1, CallsAssumption DEF ChainIsLinked, Holds
  <2>2. CASE at[c] \in chain
    <3>1. chain' = chain \cup {c} /\ chain \subseteq Call /\ OWNER \notin chain
      BY <2>2, CallsAssumption DEF Land, IInv, TypeOK
    <3>2. entry'[OWNER] = entry[OWNER] /\ entry[OWNER] # NONE
      BY <3>1, <1>2, <2>2 DEF IInv, InOrder, ChainIsLinked, Entry
    <3>3. \A t \in chain' : entry'[t] # NONE => entry'[t] \in chain'
      BY <3>1, <1>2, <1>3, <2>2 DEF IInv, InOrder, ChainIsLinked, Entry
    <3>4. \A t \in chain : t # at[c] => entry'[t] # NONE
      BY <3>1, <1>2, <2>2 DEF IInv, InOrder, ChainIsLinked, Entry
    <3>5. \A s, t \in chain' : entry'[s] = NONE /\ entry'[t] = NONE => s = t
      BY <3>1, <3>4, <1>2, CallsAssumption
    <3>6. entry'[OWNER] \in chain'
      BY <3>1, <3>2 DEF IInv, InOrder, ChainIsLinked
    <3> QED
      BY <3>1, <3>2, <3>3, <3>5, <3>6, <1>3 DEF ChainIsLinked, Holds
  <2>3. CASE at[c] \notin chain \cup {OWNER}
    <3>1. chain' = chain /\ chain \subseteq Call
      BY <2>3 DEF Land, IInv, TypeOK
    <3>2. entry'[OWNER] = entry[OWNER] /\ \A t \in chain : entry'[t] = entry[t]
      BY <2>3, <3>1, <1>2 DEF Entry
    <3> QED
      BY <2>3, <3>1, <3>2 DEF IInv, InOrder, ChainIsLinked
  <2> QED
    BY <2>1, <2>2, <2>3
<1>7. ASSUME NEW d \in Call \ {c}, Alive(PidOf[d]), Holds(d) PROVE Holds(d)'
  <2>1. at[c] # d
    BY <1>4, <1>7, CallsAssumption DEF Entry
  <2> QED
    BY <1>7, <1>2, <2>1 DEF Holds, Land, Entry
<1>8. ASSUME OthersStill(c), NEW d \in Call \ {c} PROVE Sound(d)'
  <2>1. Alive(PidOf[d])' = Alive(PidOf[d]) /\ Up(d)' = Up(d) /\ (Up(d) => Alive(PidOf[d]))
    BY DEF Alive, Up
  <2>2. ClaimsOfTheDead(d)' /\ ReleasedOnce(d)'
    BY <1>8 DEF IInv, Sound, ClaimsOfTheDead, ReleasedOnce, Alive, OthersStill
  <2>3. InsideHolds(d)'
    BY <1>7, <1>8, <2>1 DEF IInv, Sound, InsideHolds, Inside, OthersStill
  <2>4. \A y \in Call : entry'[y] = d => entry[y] = d
    BY <1>2 DEF Entry
  <2>5. chain \subseteq chain'
    BY DEF Land
  <2>6. WalkFindsTheHolder(d)'
    BY <1>7, <1>8, <2>1, <2>4, <2>5 DEF IInv, Sound, WalkFindsTheHolder, OthersStill
  <2> QED
    BY <2>2, <2>3, <2>6 DEF Sound
<1>9. GoneIsEmpty'
  BY DEF GoneIsEmpty
<1> QED
  BY <1>5, <1>6, <1>8, <1>9 DEF InOrder

-----------------------------------------------------------------------------
(* Every step keeps it *)

LEMMA GotoEffect ==
  ASSUME TypeOK, NEW c \in Call, NEW step, Goto(c, step)
  PROVE  /\ \A d \in Call \ {c} : pc'[d] = pc[d]
         /\ Up(c) => pc'[c] = step
         /\ pc'[c] \in {step, "cut"}
BY DEF TypeOK, Goto

LEMMA LookEffect ==
  ASSUME TypeOK, NEW c \in Call, NEW e, Look(c, e)
  PROVE  at'[c] = e /\ \A d \in Call \ {c} : at'[d] = at[d]
BY DEF TypeOK, Look

\* The steps at which a call neither reads an entry, claims, nor is inside.
Idling == {"mkdir", "again", "undoRetry", "undoError"} \cup Ended

LEMMA IdlingIsSound ==
  ASSUME NEW c \in Call, pc'[c] \in Idling PROVE Sound(c)'
BY DEF Idling, Ended, Sound, ClaimsOfTheDead, WalkFindsTheHolder, ReleasedOnce,
   InsideHolds, Inside

LEMMA TryAgainIsSound ==
  ASSUME TypeOK, NEW c \in Call, TryAgain(c) PROVE Sound(c)'
BY GotoEffect, IdlingIsSound DEF TryAgain, Idling, Ended

\* A search changes no entry: only what its call does next.
LEMMA SearchStep ==
  ASSUME IInv, NEW c \in Call, Begin(c) \/ Search(c) \/ GiveUp(c)
  PROVE  InOrder' /\ \A d \in Call : Sound(d)'
<1> USE DEF IInv
<1>1. Calm /\ UNCHANGED proc
  BY DEF Begin, Search, GiveUp, MakeDir, SeeMade, Follow, Unclaimed, EndOfChain, List,
     ReadPid, ReadMtime, Calm, dir, world
<1>2. OthersStill(c)
  BY GotoEffect, LookEffect DEF Begin, Search, GiveUp, MakeDir, SeeMade, Follow, Unclaimed,
     EndOfChain, List, ReadPid, ReadMtime, TryAgain, OthersStill
<1>3. Sound(c)'
  <2>1. CASE Begin(c) \/ GiveUp(c)
    BY <2>1, GotoEffect, IdlingIsSound DEF Begin, GiveUp, Idling, Ended
  <2>2. CASE MakeDir(c)
    <3>1. at'[c] = OWNER /\ pc'[c] \in {"look", "made", "cut"}
      BY <2>2, GotoEffect, LookEffect DEF MakeDir
    <3> QED
      BY <3>1, CallsAssumption DEF Sound, ClaimsOfTheDead, WalkFindsTheHolder, ReleasedOnce,
         InsideHolds, Inside
  <2>3. CASE SeeMade(c) \/ Unclaimed(c)
    <3>1. at'[c] = OWNER /\ pc'[c] \in {"prepare", "list"}
      BY <2>3, GotoEffect DEF SeeMade, Unclaimed, Sound, ClaimsOfTheDead
    <3> QED
      BY <3>1 DEF Sound, ClaimsOfTheDead, WalkFindsTheHolder, ReleasedOnce, InsideHolds, Inside
  <2>4. CASE List(c) \/ ReadPid(c) \/ ReadMtime(c)
    <3>1. TryAgain(c) \/ (at'[c] = OWNER /\ pc'[c] \in {"pid", "mtime", "prepare"})
      <4>1. at'[c] = OWNER /\ Up(c)
        BY <2>4 DEF List, ReadPid, ReadMtime, Sound, ClaimsOfTheDead
      <4>2. TryAgain(c) \/ Goto(c, "pid") \/ Goto(c, "mtime") \/ Goto(c, "prepare")
        BY <2>4 DEF List, ReadPid, ReadMtime
      <4>3. /\ Goto(c, "pid") => pc'[c] = "pid"
            /\ Goto(c, "mtime") => pc'[c] = "mtime"
            /\ Goto(c, "prepare") => pc'[c] = "prepare"
        BY <4>1, GotoEffect
      <4> QED
        BY <4>1, <4>2, <4>3
    <3> QED
      BY <3>1, TryAgainIsSound DEF Sound, ClaimsOfTheDead, WalkFindsTheHolder, ReleasedOnce,
         InsideHolds, Inside
  <2>5. CASE Follow(c)
    <3>1. at'[c] = entry[at[c]] /\ pc'[c] = "look" /\ entry[at[c]] \in Call
      BY <2>5, LookEffect DEF Follow, TypeOK
    <3>2. UNCHANGED <<entry, chain, proc>> /\ Up(c)
      BY <2>5 DEF Follow, dir, world
    <3>3. WalkFindsTheHolder(c)'
      BY <3>1, <3>2, <2>5, CallsAssumption DEF Follow, WalkFindsTheHolder, Sound, Holds, Up,
         InOrder, ChainIsLinked, HeirsOfTheDead, Alive, TypeOK, Entry
    <3> QED
      BY <3>1, <3>3 DEF Sound, ClaimsOfTheDead, ReleasedOnce, InsideHolds, Inside
  <2>6. CASE EndOfChain(c)
    <3>1. UNCHANGED <<entry, chain, proc, at>> /\ Up(c)
      BY <2>6 DEF EndOfChain, dir, world
    <3>2. CASE at[c] = c /\ Goto(c, "stamp")
      BY <3>1, <3>2, <2>6, GotoEffect, CallsAssumption DEF EndOfChain, Sound, WalkFindsTheHolder, Holds,
         ClaimsOfTheDead, ReleasedOnce, InsideHolds, Inside, Up
    <3>3. CASE ~Alive(PidOf[at[c]]) /\ Goto(c, "prepare")
      BY <3>1, <3>3, GotoEffect DEF Sound, WalkFindsTheHolder, ClaimsOfTheDead,
         ReleasedOnce, InsideHolds, Inside, Alive
    <3> QED
      BY <2>6, <3>2, <3>3, TryAgainIsSound DEF EndOfChain
  <2> QED
    BY <2>1, <2>2, <2>3, <2>4, <2>5, <2>6 DEF Search
<1> QED
  BY <1>1, <1>2, <1>3, CalmOrder, CalmSound

LEMMA ClaimStep ==
  ASSUME IInv, TypeOK', NEW c \in Call, Claim(c) \/ ClaimFails(c)
  PROVE  InOrder' /\ \A d \in Call : Sound(d)'
<1> USE DEF IInv
<1>1. OthersStill(c)
  BY GotoEffect, LookEffect DEF Claim, ClaimFails, Prepare, Rename, Undo, Check, TryAgain,
     OthersStill
<1>2. CASE Prepare(c)
  <2>1. Calm /\ UNCHANGED proc
    <3>1. UNCHANGED <<here, entry, chain, proc>>
      BY <1>2 DEF Prepare, world
    <3>2. here \/ claims' = claims
      BY <1>2 DEF Prepare
    <3>3. here' \/ claims' \subseteq claims
      BY <3>1, <3>2 DEF TypeOK
    <3> QED
      BY <3>1, <3>3 DEF Calm
  <2>2. Sound(c)'
    <3>1. CASE Goto(c, "rename")
      BY <1>2, <3>1, GotoEffect DEF Prepare, Sound, ClaimsOfTheDead, WalkFindsTheHolder,
         ReleasedOnce, InsideHolds, Inside, Alive, world
    <3> QED
      BY <1>2, <3>1, TryAgainIsSound DEF Prepare
  <2> QED
    BY <1>1, <2>1, <2>2, CalmOrder, CalmSound
<1>3. CASE Rename(c)
  <2>1. UNCHANGED <<here, proc>> /\ Alive(PidOf[c])
    BY <1>3 DEF Rename, world
  <2>2. CASE CanLand(c)
    <3>1. here
      BY <2>2 DEF CanLand, InOrder, GoneIsEmpty
    <3>2. InOrder' /\ (\A d \in Call \ {c} : Sound(d)') /\ (at[c] = OWNER => Holds(c)')
      BY <1>1, <1>3, <2>1, <2>2, <3>1, Landed DEF Rename
    <3>3. CASE at[c] = OWNER
      BY <1>3, <2>2, <3>2, <3>3, GotoEffect
         DEF Rename, Sound, ClaimsOfTheDead, WalkFindsTheHolder, ReleasedOnce, InsideHolds,
             Inside, Up
    <3>4. CASE at[c] # OWNER
      <4>1. at'[c] = OWNER /\ pc'[c] \in {"check", "cut"}
        BY <1>3, <2>2, <3>4, GotoEffect, LookEffect DEF Rename
      <4> QED
        BY <3>2, <4>1, CallsAssumption DEF Sound, ClaimsOfTheDead, WalkFindsTheHolder,
           ReleasedOnce, InsideHolds, Inside
    <3> QED
      BY <3>2, <3>3, <3>4
  <2>3. CASE ~CanLand(c)
    BY <1>1, <1>3, <2>1, <2>3, CalmOrder, CalmSound, TryAgainIsSound DEF Rename, Calm
  <2> QED
    BY <2>2, <2>3
<1>4. CASE Undo(c)
  <2>1. Sound(c)'
    BY <1>4, GotoEffect, IdlingIsSound, TryAgainIsSound DEF Undo, Idling, Ended
  <2>2. CASE TakeOff /\ entry = NoEntry
    BY <1>1, <1>4, <2>1, <2>2, OneHolder, TakenOff DEF Undo, world
  <2>3. CASE UNCHANGED dir
    BY <1>1, <1>4, <2>1, <2>3, CalmOrder, CalmSound DEF Undo, dir, world, Calm
  <2> QED
    BY <1>4, <2>2, <2>3 DEF Undo, RemoveEmpty, Empty
<1>5. CASE Check(c)
  <2>1. Calm /\ UNCHANGED proc /\ Up(c)
    BY <1>5 DEF Check, Calm, dir, world
  <2>2. Sound(c)'
    <3>1. CASE entry[at[c]] # NONE
      <4>1. at'[c] = entry[at[c]] /\ pc'[c] = "check" /\ entry[at[c]] \in Call
        BY <1>5, <3>1, LookEffect DEF Check, TypeOK
      <4>2. WalkFindsTheHolder(c)'
        BY <4>1, <2>1, <1>5, CallsAssumption DEF Check, Calm, WalkFindsTheHolder, Sound, Holds,
           Up, InOrder, ChainIsLinked, HeirsOfTheDead, Alive, TypeOK, Entry
      <4> QED
        BY <4>1, <4>2 DEF Sound, ClaimsOfTheDead, ReleasedOnce, InsideHolds, Inside
    <3>2. CASE entry[at[c]] = NONE /\ at[c] = c
      BY <2>1, <3>2, <1>5, GotoEffect, CallsAssumption
         DEF Check, Calm, Sound, WalkFindsTheHolder, Holds, ClaimsOfTheDead, ReleasedOnce,
             InsideHolds, Inside, Up
    <3> QED
      BY <1>5, <3>1, <3>2, TryAgainIsSound DEF Check
  <2> QED
    BY <1>1, <2>1, <2>2, CalmOrder, CalmSound
<1>6. CASE ClaimFails(c)
  <2>1. Sound(c)'
    <3>1. TryAgain(c) \/ \E s \in {"undoError", "undoRetry", "error"} : Goto(c, s)
      BY <1>6 DEF ClaimFails
    <3> QED
      BY <3>1, GotoEffect, IdlingIsSound, TryAgainIsSound DEF Idling, Ended
  <2>2. UNCHANGED <<here, proc>> /\ Up(c) /\ pc[c] = "rename" /\ claims' \subseteq claims
    BY <1>6 DEF ClaimFails
  <2>3. CASE CanLand(c) /\ Land(c)
    <3>1. here
      BY <2>3 DEF CanLand, InOrder, GoneIsEmpty
    <3> QED
      BY <1>1, <2>1, <2>2, <2>3, <3>1, Landed DEF Up, Alive
  <2>4. CASE UNCHANGED <<entry, chain>>
    BY <1>1, <2>1, <2>2, <2>4, CalmOrder, CalmSound DEF Calm
  <2> QED
    BY <1>6, <2>3, <2>4 DEF ClaimFails
<1> QED
  BY <1>2, <1>3, <1>4, <1>5, <1>6 DEF Claim

LEMMA HoldStep ==
  ASSUME IInv, NEW c \in Call, Hold(c) \/ GiveBack(c)
  PROVE  InOrder' /\ \A d \in Call : Sound(d)'
<1> USE DEF IInv
<1>1. OthersStill(c)
  BY GotoEffect DEF Hold, Stamp, Finish, Release, GiveBack, OthersStill
<1>2. CASE Stamp(c) \/ Finish(c)
  <2>1. Calm /\ UNCHANGED proc
    BY <1>2 DEF Stamp, Finish, Calm, dir, world
  <2>2. Sound(c)'
    <3>1. CASE Stamp(c)
      <4>1. pc'[c] = "cut" \/ (pc'[c] = "critical" /\ Up(c))
        BY <3>1, GotoEffect DEF Stamp, Goto, TypeOK
      <4> QED
        BY <2>1, <3>1, <4>1 DEF Stamp, Calm, Sound, ClaimsOfTheDead, WalkFindsTheHolder,
           ReleasedOnce, InsideHolds, Inside, Holds, Up
    <3>2. CASE Finish(c)
      <4>1. pc'[c] = "release" /\ Inside(c) /\ c \notin taking'
        BY <3>2, GotoEffect DEF Finish, Inside
      <4> QED
        BY <2>1, <4>1 DEF Calm, Sound, ClaimsOfTheDead, WalkFindsTheHolder,
           ReleasedOnce, InsideHolds, Inside, Holds, Up
    <3> QED
      BY <1>2, <3>1, <3>2
  <2> QED
    BY <1>1, <2>1, <2>2, CalmOrder, CalmSound
<1>3. CASE Release(c)
  <2>1. Sound(c)'
    BY <1>3, GotoEffect, IdlingIsSound DEF Release, Idling, Ended
  <2>2. Holds(c)
    BY <1>3 DEF Release, Sound, InsideHolds
  <2> QED
    BY <1>1, <1>3, <2>1, <2>2, OneHolder, TakenOff DEF Release, world
<1>4. CASE GiveBack(c)
  <2>1. UNCHANGED <<pc, at, proc>> /\ ~Up(c) /\ c \in taking /\ taking' \subseteq taking
    BY <1>4 DEF GiveBack, Up, world
  <2>2. pc[c] # "release"
    BY <2>1 DEF Sound, ReleasedOnce
  <2>3. Sound(c)'
    BY <2>1, <2>2 DEF Sound, ClaimsOfTheDead, WalkFindsTheHolder, ReleasedOnce, InsideHolds,
       Inside, Up, Alive
  <2>4. CASE TakeOff /\ (Holds(c) \/ entry = NoEntry)
    BY <1>1, <2>1, <2>3, <2>4, OneHolder, TakenOff
  <2>5. CASE UNCHANGED <<here, entry, chain>> /\ claims' = claims \ {c}
    BY <1>1, <2>1, <2>3, <2>5, CalmOrder, CalmSound DEF Calm
  <2> QED
    BY <1>4, <2>4, <2>5 DEF GiveBack
<1> QED
  BY <1>2, <1>3, <1>4 DEF Hold

\* A process that exits or is killed takes nothing with it: what it was doing
\* stays on the path.
LEMMA ProcessStep ==
  ASSUME IInv, NEW p \in Process, Exit(p) \/ Exited(p) \/ Kill(p)
  PROVE  InOrder' /\ \A d \in Call : Sound(d)'
<1>1. UNCHANGED <<dir, calls>>
  BY DEF Exit, Exited, Kill
<1>2. \A q \in Process : (Alive(q)' => Alive(q)) /\ (proc'[q] = "up" => proc[q] = "up")
  BY DEF Exit, Exited, Kill, Alive, IInv, TypeOK
<1>3. \A d \in Call : PidOf[d] \in Process
  BY CallsAssumption
<1>4. InOrder'
  BY <1>1, <1>2, <1>3 DEF IInv, InOrder, GoneIsEmpty, ChainIsLinked, HeirsOfTheDead, dir
<1>5. ASSUME NEW d \in Call PROVE Sound(d)'
  <2>1. (Alive(PidOf[d])' => Alive(PidOf[d])) /\ (Up(d)' => Up(d)) /\ Holds(d)' = Holds(d)
    BY <1>1, <1>2, <1>3 DEF Up, Holds, dir
  <2>2. at[d] # OWNER => PidOf[at[d]] \in Process
    BY <1>3 DEF IInv, TypeOK, Entry
  <2>3. ClaimsOfTheDead(d)'
    BY <1>1, <1>2, <2>2 DEF IInv, Sound, ClaimsOfTheDead, calls
  <2>4. WalkFindsTheHolder(d)' /\ ReleasedOnce(d)'
    BY <1>1, <2>1 DEF IInv, Sound, WalkFindsTheHolder, ReleasedOnce, dir, calls
  <2>5. InsideHolds(d)'
    BY <1>1, <2>1 DEF IInv, Sound, InsideHolds, Inside, calls
  <2> QED
    BY <2>3, <2>4, <2>5 DEF Sound
<1> QED
  BY <1>4, <1>5

\* The older build's process removes its own lock: no call claimed it.
LEMMA ElderStep ==
  ASSUME IInv, ElderEnds
  PROVE  InOrder' /\ \A d \in Call : Sound(d)'
<1>1. ASSUME NEW d \in Call PROVE ~Holds(d)
  BY OneHolder DEF IInv, ElderIsHonoured, ElderEnds
<1>2. InOrder'
  <2>1. \A e \in Entry : entry'[e] = NONE
    BY DEF ElderEnds, TakeOff, NoEntry
  <2> QED
    BY <2>1 DEF InOrder, GoneIsEmpty, ChainIsLinked, HeirsOfTheDead, ElderEnds, TakeOff,
       Entry, NoEntry
<1>3. ASSUME NEW d \in Call PROVE Sound(d)'
  <2>1. \A y \in Call : entry'[y] = NONE
    BY DEF ElderEnds, TakeOff, NoEntry, Entry
  <2>2. UNCHANGED <<pc, at, taking, proc>>
    BY DEF ElderEnds, calls
  <2> QED
    BY <1>1, <2>1, <2>2, CallsAssumption DEF IInv, Sound, ClaimsOfTheDead, WalkFindsTheHolder,
       ReleasedOnce, InsideHolds, Inside, Up, Alive
<1> QED
  BY <1>2, <1>3

LEMMA AgeStep ==
  ASSUME IInv, Age \/ UNCHANGED vars
  PROVE  InOrder' /\ \A d \in Call : Sound(d)'
<1>1. UNCHANGED <<here, entry, claims, chain, proc, pc, at, taking>>
  BY DEF Age, vars, dir, calls, world
<1>2. InOrder'
  BY <1>1 DEF IInv, InOrder, GoneIsEmpty, ChainIsLinked, HeirsOfTheDead, Alive
<1>3. ASSUME NEW d \in Call PROVE Sound(d)'
  BY <1>1 DEF IInv, Sound, ClaimsOfTheDead, WalkFindsTheHolder, ReleasedOnce, InsideHolds,
     Inside, Holds, Up, Alive
<1> QED
  BY <1>2, <1>3

-----------------------------------------------------------------------------
(* The older build's lock *)

\* While it holds the lock, what a call does next keeps it from claiming.
LEMMA HonouredByCalls ==
  ASSUME IInv, elderHolds, Alive(Elder), NEW c \in Call,
         \/ Begin(c) \/ Search(c) \/ GiveUp(c) \/ Claim(c) \/ ClaimFails(c)
         \/ Hold(c) \/ GiveBack(c)
  PROVE  ElderIsHonoured'
<1> USE DEF IInv
<1>1. /\ here /\ pidFile = Elder /\ entry = NoEntry /\ made = {}
      /\ \A d \in Call : pc[d] \in BeforeClaiming /\ (pc[d] = "look" => at[d] = OWNER)
  BY DEF ElderIsHonoured
<1>2. \A d \in Call : ~Holds(d) /\ entry[d] = NONE
  BY <1>1, OneHolder DEF NoEntry, Entry
<1>3. entry[OWNER] = NONE /\ Elder # NONE
  BY <1>1, CallsAssumption DEF NoEntry, Entry
<1>4. pc[c] \notin {"made", "mtime", "prepare", "rename", "undoRetry", "undoError", "check",
                  "stamp", "critical", "release"}
  BY <1>1 DEF BeforeClaiming, Ended
<1>5. ASSUME UNCHANGED <<here, pidFile, entry, made>>, OthersStill(c),
             pc'[c] \in BeforeClaiming /\ (pc'[c] = "look" => at'[c] = OWNER)
      PROVE  ElderIsHonoured'
  BY <1>1, <1>5 DEF ElderIsHonoured, OthersStill, NoEntry
<1>6. CASE Begin(c) \/ GiveUp(c)
  BY <1>5, <1>6, GotoEffect DEF Begin, GiveUp, BeforeClaiming, Ended, OthersStill, dir
<1>7. CASE MakeDir(c)
  <2>1. pc'[c] \in {"look", "cut"} /\ at'[c] = OWNER /\ OthersStill(c)
    BY <1>1, <1>7, GotoEffect, LookEffect DEF MakeDir, OthersStill
  <2>2. UNCHANGED <<here, pidFile, entry, made>>
    BY <1>1, <1>7 DEF MakeDir
  <2> QED
    BY <1>5, <2>1, <2>2 DEF BeforeClaiming, Ended
<1>8. CASE Follow(c) \/ EndOfChain(c)
  BY <1>1, <1>3, <1>8 DEF Follow, EndOfChain
<1>9. CASE Unclaimed(c)
  BY <1>5, <1>9, GotoEffect DEF Unclaimed, BeforeClaiming, Ended, OthersStill, dir
<1>10. CASE List(c)
  <2>1. Goto(c, "pid") /\ UNCHANGED <<dir, at, made, taking>>
    BY <1>1, <1>3, <1>10 DEF List
  <2> QED
    BY <1>5, <2>1, GotoEffect DEF BeforeClaiming, Ended, OthersStill, dir
<1>11. CASE ReadPid(c)
  <2>1. TryAgain(c) /\ UNCHANGED <<dir, at, taking>>
    BY <1>1, <1>3, <1>11 DEF ReadPid
  <2>2. pc'[c] \in {"again", "cut"} /\ made' = made
    BY <1>1, <2>1, GotoEffect DEF TryAgain
  <2> QED
    BY <1>5, <2>1, <2>2, GotoEffect DEF BeforeClaiming, Ended, OthersStill, TryAgain, dir
<1>12. CASE GiveBack(c)
  <2>1. UNCHANGED <<here, pidFile, entry, made, pc, at>> /\ OthersStill(c)
    <3>1. UNCHANGED <<here, entry, pidFile>> /\ UNCHANGED <<pc, at, made>>
      <4>1. ~Holds(c) /\ c \notin made
        BY <1>1, <1>2
      <4> QED
        BY <4>1, <1>12 DEF GiveBack
    <3>2. taking' \subseteq taking
      BY <1>12 DEF GiveBack
    <3> QED
      BY <3>1, <3>2 DEF OthersStill
  <2> QED
    BY <1>1, <1>5, <2>1
<1>13. CASE SeeMade(c) \/ ReadMtime(c) \/ Claim(c) \/ ClaimFails(c) \/ Hold(c)
  BY <1>4, <1>13 DEF SeeMade, ReadMtime, Claim, Prepare, Rename, Undo, Check, ClaimFails,
     Hold, Stamp, Finish, Release
<1> QED
  BY <1>6, <1>7, <1>8, <1>9, <1>10, <1>11, <1>12, <1>13 DEF Search

LEMMA HonouredStep ==
  ASSUME IInv, [Next]_vars
  PROVE  ElderIsHonoured'
<1>1. ASSUME elderHolds' /\ Alive(Elder)' PROVE elderHolds /\ Alive(Elder)
  BY <1>1, CallsAssumption DEF IInv, TypeOK, Next, Begin, Search, Claim, ClaimFails, GiveUp, Hold, GiveBack,
     MakeDir, SeeMade, Follow, Unclaimed, EndOfChain, List, ReadPid, ReadMtime, Prepare,
     Rename, Undo, Check, Stamp, Finish, Release, Exit, Exited, Kill, ElderEnds, Age, Alive,
     vars, world
<1>2. CASE ~(elderHolds /\ Alive(Elder))
  BY <1>1, <1>2 DEF ElderIsHonoured
<1>3. CASE elderHolds /\ Alive(Elder)
  <2>1. CASE \E p \in Process : Exit(p) \/ Exited(p) \/ Kill(p)
    <3>1. UNCHANGED <<here, pidFile, entry, made, pc, at>>
      BY <2>1 DEF Exit, Exited, Kill, dir, calls
    <3> QED
      BY <1>3, <3>1 DEF IInv, ElderIsHonoured, NoEntry
  <2>2. CASE ElderEnds
    BY <2>2 DEF ElderEnds, ElderIsHonoured
  <2>3. CASE Age \/ UNCHANGED vars
    BY <1>3, <2>3 DEF IInv, ElderIsHonoured, Age, vars, dir, calls, NoEntry
  <2> QED
    BY <1>3, <2>1, <2>2, <2>3, HonouredByCalls DEF Next
<1> QED
  BY <1>2, <1>3

-----------------------------------------------------------------------------
(* The theorems *)

LEMMA IInvStep == IInv /\ [Next]_vars => IInv'
<1> SUFFICES ASSUME IInv, [Next]_vars PROVE IInv'
  OBVIOUS
<1>1. TypeOK'
  BY TypeStep DEF IInv
<1>2. InOrder' /\ \A d \in Call : Sound(d)'
  BY <1>1, SearchStep, ClaimStep, HoldStep, ProcessStep, ElderStep, AgeStep DEF Next
<1> QED
  BY <1>1, <1>2, HonouredStep DEF IInv

LEMMA IInvHolds == Spec => []IInv
<1> QED
  BY InitIInv, IInvStep, PTL DEF Spec

\* Calls, files, links and processes keep their types: no step of the walk, the
\* claim or the release leaves a name that is not a lock, or a chain that is not
\* one of calls.
THEOREM TypesHold == Spec => []TypeOK
<1>1. IInv => TypeOK
  BY DEF IInv
<1> QED
  BY <1>1, IInvHolds, PTL

\* Whatever process dies or exits, and at whatever file-system call, no two
\* calls are inside the lock at once, nor a call and an older build's process.
THEOREM Exclusive == Spec => []MutualExclusion
<1>1. IInv => MutualExclusion
  <2> SUFFICES ASSUME IInv PROVE MutualExclusion
    OBVIOUS
  <2>1. \A c, d \in Call : Inside(c) /\ Inside(d) => c = d
    BY OneHolder DEF IInv, Sound, InsideHolds
  <2>2. \A c \in Call : Inside(c) => ~(elderHolds /\ Alive(Elder))
    BY DEF IInv, ElderIsHonoured, Inside, BeforeClaiming, Ended
  <2> QED
    BY <2>1, <2>2 DEF MutualExclusion
<1> QED
  BY <1>1, IInvHolds, PTL

\* The lock of a live holder stays on its path with that holder at the end of
\* its chain.
THEOREM HolderKeeps == Spec => []HolderKeepsIt
<1>1. IInv => HolderKeepsIt
  BY OneHolder DEF IInv, Sound, InsideHolds, HolderKeepsIt
<1> QED
  BY <1>1, IInvHolds, PTL

\* A release, also one in flight while its process exits, only ever takes its
\* own call's lock off the path.
THEOREM ReleaseIsOwn == Spec => []ReleasesItsOwn
<1>1. IInv => ReleasesItsOwn
  BY DEF IInv, Sound, InsideHolds, ReleasesItsOwn
<1> QED
  BY <1>1, IInvHolds, PTL

-----------------------------------------------------------------------------
(* To its callers it is a lock *)

\* A step of one call changes what that call sees, and nothing for the others.
LEMMA OneStage ==
  ASSUME NEW c \in Call, UNCHANGED proc, OthersStill(c)
  PROVE  Stage' = [Stage EXCEPT ![c] = StageOf(c)']
<1>1. \A d \in Call \ {c} : StageOf(d)' = StageOf(d)
  BY DEF StageOf, OthersStill, Up, Inside
<1>2. Stage' = [d \in Call |-> StageOf(d)'] /\ Stage = [d \in Call |-> StageOf(d)]
  BY DEF Stage
<1> QED
  BY <1>1, <1>2

\* One step of a call that stays where it is, asks, enters, or is over.
LEMMA OneCall ==
  ASSUME NEW c \in Call, UNCHANGED proc, OthersStill(c),
         \/ StageOf(c)' = StageOf(c)
         \/ StageOf(c) = "new" /\ StageOf(c)' = "waiting"
         \/ /\ StageOf(c) = "waiting" /\ StageOf(c)' = "in"
            /\ \A d \in Call : StageOf(d) # "in"
         \/ StageOf(c) \in {"waiting", "in"} /\ StageOf(c)' = "over"
  PROVE  [Lock!Next]_Stage
<1>1. Stage' = [Stage EXCEPT ![c] = StageOf(c)'] /\ \A d \in Call : Stage[d] = StageOf(d)
  BY OneStage DEF Stage
<1>2. StageOf(c)' = StageOf(c) => Stage' = Stage
  BY <1>1 DEF Stage
<1>3. CASE StageOf(c) = "new" /\ StageOf(c)' = "waiting"
  BY <1>1, <1>3 DEF Lock!Next, Lock!Ask
<1>4. CASE /\ StageOf(c) = "waiting" /\ StageOf(c)' = "in"
           /\ \A d \in Call : StageOf(d) # "in"
  BY <1>1, <1>4 DEF Lock!Next, Lock!Enter
<1>5. CASE StageOf(c) \in {"waiting", "in"} /\ StageOf(c)' = "over"
  BY <1>1, <1>5 DEF Lock!Next, Lock!Leave
<1> QED
  BY <1>2, <1>3, <1>4, <1>5

\* A process that ends takes all its calls with it.
LEMMA OneProcess ==
  ASSUME TypeOK, NEW p \in Process, Exit(p) \/ Exited(p) \/ Kill(p)
  PROVE  [Lock!Next]_Stage
<1> DEFINE S == {c \in Call : ~Up(c)'}
<1>1. pc' = pc
  BY DEF Exit, Exited, Kill, calls
<1>2. \A c \in Call : Up(c)' => Up(c)
  BY CallsAssumption DEF Exit, Exited, Kill, Up, TypeOK
<1>3. \A c \in Call : StageOf(c)' = IF c \in S THEN "over" ELSE StageOf(c)
  BY <1>1, <1>2 DEF StageOf, Inside
<1>4. Stage' = [c \in Call |-> IF c \in S THEN "over" ELSE Stage[c]]
  BY <1>3 DEF Stage
<1> QED
  BY <1>4 DEF Lock!Next, Lock!Die

\* Nobody is inside when a call learns that the lock is its own.
LEMMA NobodyInside ==
  ASSUME IInv, NEW c \in Call, Up(c), pc[c] \notin {"stamp", "critical", "release"},
         Holds(c) \/ entry[OWNER] = NONE
  PROVE  \A d \in Call : StageOf(d) # "in"
<1>1. \A d \in Call : Inside(d) => Holds(d)
  BY DEF IInv, Sound, InsideHolds
<1>2. \A d \in Call : ~Inside(d)
  BY <1>1, OneHolder DEF Inside
<1> QED
  BY <1>2 DEF StageOf

Waits == {"mkdir", "again", "made", "look", "list", "pid", "mtime", "prepare", "rename",
          "undoRetry", "undoError", "check"}

LEMMA StageByStep ==
  ASSUME NEW c \in Call, Up(c), UNCHANGED proc
  PROVE  /\ pc[c] \in Waits => StageOf(c) = "waiting"
         /\ pc'[c] \in Waits => StageOf(c)' = "waiting"
         /\ pc'[c] \in Ended => StageOf(c)' = "over"
         /\ pc[c] \in {"stamp", "critical", "release"} => StageOf(c) = "in"
         /\ pc'[c] \in {"stamp", "critical", "release"} => StageOf(c)' = "in"
BY DEF StageOf, Inside, Up, Waits, Ended

LEMMA CallStep ==
  ASSUME IInv, NEW c \in Call,
         \/ Begin(c) \/ Search(c) \/ GiveUp(c) \/ Claim(c) \/ ClaimFails(c)
         \/ Hold(c) \/ GiveBack(c)
  PROVE  [Lock!Next]_Stage
<1> USE DEF IInv
<1>1. OthersStill(c)
  BY GotoEffect, LookEffect DEF Begin, Search, GiveUp, MakeDir, SeeMade, Follow, Unclaimed,
     EndOfChain, List, ReadPid, ReadMtime, Claim, ClaimFails, Prepare, Rename, Undo, Check,
     Hold, Stamp, Finish, Release, GiveBack, TryAgain, OthersStill
<1>2. UNCHANGED proc
  BY DEF Begin, Search, GiveUp, MakeDir, SeeMade, Follow, Unclaimed, EndOfChain, List,
     ReadPid, ReadMtime, Claim, ClaimFails, Prepare, Rename, Undo, Check, Hold, Stamp,
     Finish, Release, GiveBack, world
<1>3. CASE ~Up(c)
  BY <1>1, <1>2, <1>3, OneCall DEF StageOf, Up
<1>4. CASE Up(c)
  <2>1. ASSUME pc[c] \in Waits, pc'[c] \in Waits PROVE [Lock!Next]_Stage
    BY <1>1, <1>2, <1>4, <2>1, OneCall, StageByStep
  <2>2. ASSUME pc[c] \in Waits, TryAgain(c) PROVE [Lock!Next]_Stage
    BY <1>4, <2>1, <2>2, GotoEffect DEF TryAgain, Waits
  <2>3. ASSUME pc[c] \in Waits, Goto(c, "stamp"), Holds(c) \/ entry[OWNER] = NONE
        PROVE  [Lock!Next]_Stage
    <3>1. pc'[c] = "stamp" /\ pc[c] \notin {"stamp", "critical", "release"}
      BY <1>4, <2>3, GotoEffect DEF Waits
    <3>2. \A d \in Call : StageOf(d) # "in"
      BY <1>4, <2>3, <3>1, NobodyInside
    <3>3. StageOf(c) = "waiting" /\ StageOf(c)' = "in"
      BY <1>2, <1>4, <2>3, <3>1, StageByStep
    <3> QED
      BY <1>1, <1>2, <3>2, <3>3, OneCall
  <2>4. ASSUME pc[c] \in Waits \cup {"stamp", "critical", "release"}, pc'[c] \in Ended
        PROVE  [Lock!Next]_Stage
    <3>1. StageOf(c) \in {"waiting", "in"} /\ StageOf(c)' = "over"
      BY <1>2, <1>4, <2>4, StageByStep
    <3> QED
      BY <1>1, <1>2, <3>1, OneCall
  <2>5. CASE Begin(c)
    <3>1. StageOf(c) = "new" /\ StageOf(c)' = "waiting"
      BY <1>2, <1>4, <2>5, GotoEffect DEF Begin, StageOf, Inside, Up, Ended
    <3> QED
      BY <1>1, <1>2, <3>1, OneCall
  <2>6. CASE MakeDir(c) \/ SeeMade(c) \/ Follow(c) \/ Unclaimed(c)
    BY <1>4, <2>1, <2>6, GotoEffect DEF MakeDir, SeeMade, Follow, Unclaimed, Waits
  <2>7. CASE List(c) \/ ReadPid(c) \/ ReadMtime(c)
    <3>1. TryAgain(c) \/ Goto(c, "pid") \/ Goto(c, "mtime") \/ Goto(c, "prepare")
      BY <2>7 DEF List, ReadPid, ReadMtime
    <3>2. pc[c] \in Waits
      BY <2>7 DEF List, ReadPid, ReadMtime, Waits
    <3>3. CASE Goto(c, "pid") \/ Goto(c, "mtime") \/ Goto(c, "prepare")
      BY <1>4, <2>1, <3>2, <3>3, GotoEffect DEF Waits
    <3> QED
      BY <2>2, <3>1, <3>2, <3>3
  <2>8. CASE EndOfChain(c)
    <3>1. pc[c] = "look" /\ (at[c] = c => Holds(c))
      BY <1>4, <2>8 DEF EndOfChain, Sound, WalkFindsTheHolder
    <3>2. pc[c] \in Waits
      BY <3>1 DEF Waits
    <3>3. CASE Goto(c, "prepare")
      BY <1>4, <2>1, <3>2, <3>3, GotoEffect DEF Waits
    <3> QED
      BY <2>2, <2>3, <2>8, <3>1, <3>2, <3>3 DEF EndOfChain
  <2>9. CASE GiveUp(c)
    BY <1>4, <2>4, <2>9, GotoEffect DEF GiveUp, Waits, Ended
  <2>10. CASE Prepare(c)
    <3>1. pc[c] \in Waits /\ (Goto(c, "rename") \/ TryAgain(c))
      BY <2>10 DEF Prepare, Waits
    <3> QED
      BY <1>4, <2>1, <2>2, <3>1, GotoEffect DEF Waits
  <2>11. CASE Rename(c)
    <3>1. pc[c] \in Waits
      BY <2>11 DEF Rename, Waits
    <3>2. \/ Goto(c, "stamp") /\ entry[OWNER] = NONE
          \/ Goto(c, "check")
          \/ TryAgain(c)
      BY <2>11 DEF Rename, CanLand
    <3>3. CASE Goto(c, "check")
      BY <1>4, <2>1, <3>1, <3>3, GotoEffect DEF Waits
    <3> QED
      BY <2>2, <2>3, <3>1, <3>2, <3>3
  <2>12. CASE Undo(c)
    <3>1. pc[c] \in Waits /\ (Goto(c, "error") \/ TryAgain(c))
      BY <2>12 DEF Undo, Waits
    <3> QED
      BY <1>4, <2>2, <2>4, <3>1, GotoEffect DEF Ended
  <2>13. CASE Check(c)
    <3>1. pc[c] \in Waits
      BY <2>13 DEF Check, Waits
    <3>2. CASE pc' = pc
      BY <2>1, <3>1, <3>2
    <3>3. CASE at[c] = c /\ Goto(c, "stamp")
      <4>1. Holds(c)
        BY <1>4, <2>13, <3>3 DEF Check, Sound, WalkFindsTheHolder
      <4> QED
        BY <2>3, <3>1, <3>3, <4>1
    <3> QED
      BY <2>2, <2>13, <3>1, <3>2, <3>3 DEF Check
  <2>14. CASE ClaimFails(c)
    <3>1. pc[c] \in Waits
      BY <2>14 DEF ClaimFails, Waits
    <3>2. \/ Goto(c, "undoError") \/ Goto(c, "undoRetry")
          \/ Goto(c, "error") \/ TryAgain(c)
      BY <2>14 DEF ClaimFails
    <3>3. CASE Goto(c, "undoError") \/ Goto(c, "undoRetry")
      BY <1>4, <2>1, <3>1, <3>3, GotoEffect DEF Waits
    <3>4. CASE Goto(c, "error")
      BY <1>4, <2>4, <3>1, <3>4, GotoEffect DEF Ended
    <3> QED
      BY <2>2, <3>1, <3>2, <3>3, <3>4
  <2>15. CASE Stamp(c) \/ Finish(c)
    <3>1. StageOf(c) = "in" /\ StageOf(c)' = "in"
      BY <1>2, <1>4, <2>15, GotoEffect, StageByStep DEF Stamp, Finish
    <3> QED
      BY <1>1, <1>2, <3>1, OneCall
  <2>16. CASE Release(c)
    BY <1>4, <2>4, <2>16, GotoEffect DEF Release, Ended
  <2>17. CASE GiveBack(c)
    BY <1>4, <2>17 DEF GiveBack, Up
  <2> QED
    BY <2>5, <2>6, <2>7, <2>8, <2>9, <2>10, <2>11, <2>12, <2>13, <2>14, <2>15, <2>16, <2>17
       DEF Search, Claim, Hold
<1> QED
  BY <1>3, <1>4

\* Every step of the protocol is a step of ExclusiveLock, or changes nothing there.
LEMMA LockStep == IInv /\ [Next]_vars => [Lock!Next]_Stage
<1> SUFFICES ASSUME IInv, [Next]_vars PROVE [Lock!Next]_Stage
  OBVIOUS
<1>1. ASSUME UNCHANGED <<pc, proc>> PROVE [Lock!Next]_Stage
  BY <1>1 DEF Stage, StageOf, Inside, Up
<1>2. CASE ElderEnds \/ Age \/ UNCHANGED vars
  BY <1>1, <1>2 DEF ElderEnds, Age, vars, calls, world
<1>3. CASE \E p \in Process : Exit(p) \/ Exited(p) \/ Kill(p)
  BY <1>3, OneProcess DEF IInv
<1> QED
  BY <1>2, <1>3, CallStep DEF Next

\* The protocol implements a lock: to its callers it is ExclusiveLock, in which
\* a function runs alone and at most once.
THEOREM IsExclusiveLock == Spec => IsALock
<1>1. Init => Lock!Init
  <2> SUFFICES ASSUME Init PROVE Lock!Init
    OBVIOUS
  <2>1. \A c \in Call : StageOf(c) \in {"new", "over"}
    BY DEF Init, StageOf, Ended
  <2> QED
    BY <2>1 DEF Lock!Init, Stage
<1> QED
  BY <1>1, LockStep, IInvHolds, PTL DEF Spec, IsALock, Lock!Spec
=============================================================================
