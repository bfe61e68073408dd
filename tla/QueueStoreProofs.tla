-------------------------- MODULE QueueStoreProofs --------------------------
(***************************************************************************)
(* For any number of processes, calls, rows, failures and power losses:    *)
(* what a strict mutation answered of a row stays true, mutations land in  *)
(* the order they were asked for, and QueueStore implements AtomicStore.   *)
(*                                                                         *)
(* The argument is InHand: the one call inside the file lock is the first  *)
(* of its process's chain, and what it read is still what the file holds.  *)
(* So a write never takes back another's, and AnsweredStays, which speaks  *)
(* of every contents a power loss may leave, is inductive beside it.       *)
(* What a process was told it enqueued its readers see because the row is  *)
(* in the file, in the cache, and in all that a load on its way will put   *)
(* there, but for a read its own write came after (Fetched, Written).      *)
(***************************************************************************)
EXTENDS QueueStore, SequenceTheorems, TLAPS

\* A call is in the lock while it works, and only the first of a chain asks for it,
\* or falls back to the cache.
Holding ==
  \A c \in Call :
    /\ pc[c] \in {"read", "landed"} => stage[c] = "in"
    /\ stage[c] \in {"waiting", "in"} => pc[c] \in Running /\ Turn(c)
    /\ pc[c] \in FallenBack => stage[c] = "over" /\ Turn(c)
    /\ pc[c] # "idle" => op[c] \in Op
    /\ pc[c] = "idle" => stage[c] = "new"

Alone == \A c, d \in Call : stage[c] = "in" /\ stage[d] = "in" => c = d

InHand ==
  \A c \in Call :
    /\ pc[c] = "read" => seen[c] = file
    /\ pc[c] = "landed" => file = Change(op[c], seen[c])

IInv == TypeOK /\ Holding /\ Alone /\ InHand /\ file \in kept /\ AnsweredStays

LEMMA ChangeType ==
  ASSUME NEW o \in Op, NEW s \in Contents
  PROVE  Change(o, s) \in Contents
BY DEF Op, Kinds, Contents, Change, In

\* A relayed row is in afterwards, and a change to a row is a change of its own.
LEMMA ChangeRelay ==
  ASSUME NEW o \in Op, o.kind = "relay", NEW s \in Contents
  PROVE  In(Change(o, s), o.row)
BY DEF Op, Kinds, Contents, Change, In

LEMMA InitIInv == Init => IInv
PROOF
<1>1. Empty \in Contents
  BY DEF Empty, Contents
<1>2. \A p \in Process : <<>> \in Seq(Call)
  OBVIOUS
<1>3. ASSUME Init PROVE TypeOK
  BY <1>1, <1>2, <1>3 DEF Init, TypeOK
<1>4. ASSUME Init PROVE Holding /\ Alone /\ InHand /\ file \in kept /\ AnsweredStays
  BY <1>4 DEF Init, Holding, Alone, InHand, AnsweredStays, FallenBack
<1> QED BY <1>3, <1>4 DEF IInv

\* The other process's call is not touched by what ends one.
LEMMA TurnsApart ==
  ASSUME NEW c \in Call, NEW d \in Call, Turn(c), Turn(d), c # d
  PROVE  PidOf[c] # PidOf[d]
BY DEF Turn

-----------------------------------------------------------------------------

LEMMA InvokeStep ==
  ASSUME IInv, NEW c \in Call, NEW o \in Op, Invoke(c, o)
  PROVE  IInv'
PROOF
<1>. DEFINE p == PidOf[c]
<1>0. p \in Process
  BY StoreAssumption
<1>1. TypeOK'
  <2>1. line' \in [Process -> Seq(Call)]
    <3>1. Append(line[p], c) \in Seq(Call)
      BY <1>0 DEF IInv, TypeOK
    <3> QED BY <1>0, <3>1 DEF IInv, TypeOK, Invoke
  <2>2. cache' \in [Process -> Contents \cup {NONE}]
    BY DEF IInv, TypeOK, Invoke, Keep
  <2> QED BY <2>1, <2>2 DEF IInv, TypeOK, Invoke, Running, FallenBack, disk, peeks
<1>2. Holding'
  <2>1. \A d \in Call : Turn(d) => Turn(d)'
    <3> SUFFICES ASSUME NEW d \in Call, Turn(d) PROVE Turn(d)'
      OBVIOUS
    <3>1. PidOf[d] \in Process
      BY StoreAssumption
    <3>2. line[PidOf[d]] \in Seq(Call) /\ line[PidOf[d]] # <<>>
      BY <3>1 DEF IInv, TypeOK, Turn
    <3>3. Append(line[PidOf[d]], c) # <<>> /\ Head(Append(line[PidOf[d]], c)) = Head(line[PidOf[d]])
      BY <3>2
    <3> QED BY <3>1, <3>2, <3>3, <1>0 DEF IInv, TypeOK, Turn, Invoke
  <2> QED BY <2>1 DEF IInv, TypeOK, Holding, Invoke, Running, FallenBack
<1>3. (Alone /\ InHand /\ file \in kept /\ AnsweredStays)'
  BY DEF IInv, TypeOK, Alone, InHand, AnsweredStays, Invoke, disk
<1> QED BY <1>1, <1>2, <1>3 DEF IInv

LEMMA AskStep ==
  ASSUME IInv, NEW c \in Call, Ask(c)
  PROVE  IInv'
PROOF
<1>1. TypeOK'
  BY DEF IInv, TypeOK, Ask, Lock!Ask, disk, memory, peeks
<1>2. Holding'
  BY DEF IInv, TypeOK, Holding, Ask, Lock!Ask, Turn, Running, FallenBack
<1>3. (Alone /\ InHand /\ file \in kept /\ AnsweredStays)'
  BY DEF IInv, TypeOK, Alone, InHand, AnsweredStays, Ask, Lock!Ask, disk
<1> QED BY <1>1, <1>2, <1>3 DEF IInv

LEMMA EnterStep ==
  ASSUME IInv, NEW c \in Call, Enter(c)
  PROVE  IInv'
PROOF
<1>1. TypeOK'
  BY DEF IInv, TypeOK, Enter, Lock!Enter, disk, memory, peeks
<1>2. Holding'
  BY DEF IInv, TypeOK, Holding, Enter, Lock!Enter, Turn, Running, FallenBack
<1>3. (Alone /\ InHand /\ file \in kept /\ AnsweredStays)'
  BY DEF IInv, TypeOK, Alone, InHand, AnsweredStays, Enter, Lock!Enter, disk
<1> QED BY <1>1, <1>2, <1>3 DEF IInv

LEMMA ReadStep ==
  ASSUME IInv, NEW c \in Call, Read(c)
  PROVE  IInv'
PROOF
<1>1. TypeOK'
  BY DEF IInv, TypeOK, Read, Fresh, disk, memory, peeks, Running
<1>2. Holding'
  BY DEF IInv, TypeOK, Holding, Read, Turn, Running, FallenBack
<1>3. (Alone /\ InHand /\ file \in kept /\ AnsweredStays)'
  BY DEF IInv, TypeOK, Alone, InHand, AnsweredStays, Read, Fresh, disk
<1> QED BY <1>1, <1>2, <1>3 DEF IInv

LEMMA LandStep ==
  ASSUME IInv, NEW c \in Call, Land(c)
  PROVE  IInv'
PROOF
<1>1. /\ op[c] \in Op /\ seen[c] = file /\ file \in Contents
      /\ stage[c] = "in" /\ PidOf[c] \in Process
  BY StoreAssumption DEF IInv, TypeOK, Holding, InHand, Land
<1>2. file' = Change(op[c], file) /\ file' \in Contents
  BY <1>1, ChangeType DEF Land
<1>3. promised' \in [Row -> {"in", "out", "unsaid"}]
  BY DEF IInv, TypeOK, Land, Unsaid
<1>4. TypeOK'
  <2>1. peek' \in [Reader -> {"none", "asked", "read", "old"}]
    BY DEF IInv, TypeOK, Land, Outdate
  <2> QED BY <1>1, <1>2, <1>3, <2>1 DEF IInv, TypeOK, Land, Running, memory
<1>5. (Holding /\ Alone)'
  BY DEF IInv, TypeOK, Holding, Alone, Land, Turn, Running, FallenBack
<1>6. InHand'
  <2> SUFFICES ASSUME NEW d \in Call
               PROVE  /\ pc'[d] = "read" => seen'[d] = file'
                      /\ pc'[d] = "landed" => file' = Change(op'[d], seen'[d])
    BY DEF InHand
  <2>1. CASE d = c
    BY <2>1 DEF IInv, TypeOK, Land
  <2>2. CASE d # c
    BY <1>1, <2>2 DEF IInv, TypeOK, Holding, Alone, Land
  <2> QED BY <2>1, <2>2
<1>7. (file \in kept)' /\ AnsweredStays'
  <2> SUFFICES ASSUME NEW r \in Row, NEW s \in kept \cup {file'}
               PROVE  /\ promised'[r] = "in" => In(s, r)
                      /\ promised'[r] = "out" => ~In(s, r)
    BY DEF Land, AnsweredStays
  <2>1. \/ promised'[r] = "unsaid"
        \/ promised'[r] = promised[r] /\ (In(file, r) <=> In(file', r))
    BY <1>1, <1>2 DEF Land, Unsaid
  <2>2. /\ promised[r] = "in" => In(file, r) /\ (s \in kept => In(s, r))
        /\ promised[r] = "out" => ~In(file, r) /\ (s \in kept => ~In(s, r))
    BY DEF IInv, AnsweredStays
  <2> QED BY <2>1, <2>2
<1> QED BY <1>4, <1>5, <1>6, <1>7 DEF IInv

\* A call that ends leaves its chain to the next, and the other chains alone.
LEMMA TurnEnds ==
  ASSUME IInv, NEW c \in Call, Turn(c), line' = [line EXCEPT ![PidOf[c]] = Tail(@)]
  PROVE  /\ line' \in [Process -> Seq(Call)]
         /\ \A d \in Call : d # c /\ Turn(d) => Turn(d)'
PROOF
<1>. DEFINE p == PidOf[c]
<1>0. p \in Process
  BY StoreAssumption
<1>1. line[p] \in Seq(Call) /\ line[p] # <<>> /\ Tail(line[p]) \in Seq(Call)
  BY <1>0 DEF IInv, TypeOK, Turn
<1>2. line' \in [Process -> Seq(Call)]
  BY <1>1 DEF IInv, TypeOK
<1>3. ASSUME NEW d \in Call, d # c, Turn(d) PROVE Turn(d)'
  <2>1. PidOf[d] # p
    BY <1>3, TurnsApart
  <2>2. line'[PidOf[d]] = line[PidOf[d]]
    BY <2>1, StoreAssumption DEF IInv, TypeOK
  <2> QED BY <1>3, <2>2 DEF Turn
<1> QED BY <1>2, <1>3

\* One call moves on, and only what it was alone in may change.
LEMMA MovesOn ==
  ASSUME IInv, NEW c \in Call, NEW to \in FallenBack \cup Ended,
         pc' = [pc EXCEPT ![c] = to], stage' \in {stage, [stage EXCEPT ![c] = "over"]},
         stage'[c] = "over", pc[c] # "idle",
         to \in FallenBack => Turn(c)',
         \A d \in Call : d # c /\ Turn(d) => Turn(d)',
         op' = op, file' = file, \A d \in Call \ {c} : seen'[d] = seen[d]
  PROVE  /\ stage' \in [Call -> {"new", "waiting", "in", "over"}]
         /\ pc' \in [Call -> {"idle"} \cup Running \cup Ended]
         /\ Holding' /\ Alone' /\ InHand'
PROOF
<1>1. /\ stage' \in [Call -> {"new", "waiting", "in", "over"}]
      /\ pc' \in [Call -> {"idle"} \cup Running \cup Ended]
      /\ pc'[c] = to /\ \A d \in Call \ {c} : pc'[d] = pc[d] /\ stage'[d] = stage[d]
  BY DEF IInv, TypeOK, Running
<1>2. to \notin {"idle", "read", "landed"}
  BY DEF FallenBack, Ended
<1>3. Holding'
  <2> SUFFICES ASSUME NEW d \in Call
               PROVE  /\ pc'[d] \in {"read", "landed"} => stage'[d] = "in"
                      /\ stage'[d] \in {"waiting", "in"} => pc'[d] \in Running /\ Turn(d)'
                      /\ pc'[d] \in FallenBack => stage'[d] = "over" /\ Turn(d)'
                      /\ pc'[d] # "idle" => op'[d] \in Op
                      /\ pc'[d] = "idle" => stage'[d] = "new"
    BY DEF Holding
  <2>1. CASE d = c
    BY <1>1, <1>2, <2>1 DEF IInv, Holding, Running, FallenBack, Ended
  <2>2. CASE d # c
    BY <1>1, <2>2 DEF IInv, Holding
  <2> QED BY <2>1, <2>2
<1>4. Alone'
  BY <1>1 DEF IInv, Alone
<1>5. InHand'
  BY <1>1, <1>2 DEF IInv, InHand
<1> QED BY <1>1, <1>3, <1>4, <1>5

\* What ends a call ends its turn and its hold of the lock, and no other's.
LEMMA DoneStep ==
  ASSUME IInv, NEW c \in Call, NEW how \in Ended, pc[c] \in Running,
         stage[c] \in {"waiting", "in"}, Done(c, how), op' = op, seen' = seen, file' = file
  PROVE  /\ line' \in [Process -> Seq(Call)]
         /\ stage' \in [Call -> {"new", "waiting", "in", "over"}]
         /\ pc' \in [Call -> {"idle"} \cup Running \cup Ended]
         /\ Holding' /\ Alone' /\ InHand'
PROOF
<1>1. /\ Turn(c) /\ line' = [line EXCEPT ![PidOf[c]] = Tail(@)]
      /\ pc' = [pc EXCEPT ![c] = how] /\ stage' = [stage EXCEPT ![c] = "over"]
      /\ stage'[c] = "over" /\ pc[c] # "idle"
  BY DEF IInv, TypeOK, Holding, Done, Lock!Leave, Running, FallenBack
<1>2. how \notin FallenBack
  BY DEF FallenBack, Ended
<1> QED BY <1>1, <1>2, TurnEnds, MovesOn

LEMMA FinishStep ==
  ASSUME IInv, NEW c \in Call, Finish(c)
  PROVE  IInv'
PROOF
<1>1. /\ op[c] \in Op /\ seen[c] \in Contents /\ file = Change(op[c], seen[c])
      /\ stage[c] = "in" /\ PidOf[c] \in Process /\ file \in Contents
      /\ pc[c] \in Running /\ "yes" \in Ended
  BY StoreAssumption DEF IInv, TypeOK, Holding, InHand, Finish, Running, Ended
<1>2. /\ line' \in [Process -> Seq(Call)]
      /\ stage' \in [Call -> {"new", "waiting", "in", "over"}]
      /\ pc' \in [Call -> {"idle"} \cup Running \cup Ended]
      /\ Holding' /\ Alone' /\ InHand'
  BY <1>1, DoneStep DEF Finish
<1>3. cache' \in [Process -> Contents \cup {NONE}] /\ behind' \in SUBSET Process
  BY <1>1 DEF IInv, TypeOK, Finish, Refresh, Keep
<1>4. kept' \in SUBSET Contents /\ file' \in kept'
  BY <1>1 DEF IInv, TypeOK, Finish, Synced
<1>5. promised' \in [Row -> {"in", "out", "unsaid"}]
  BY <1>1 DEF IInv, TypeOK, Finish, Said
<1>6. TypeOK'
  BY <1>2, <1>3, <1>4, <1>5 DEF IInv, TypeOK, Finish, peeks
<1>7. AnsweredStays'
  <2> SUFFICES ASSUME NEW r \in Row, NEW s \in kept' \cup {file}
               PROVE  /\ promised'[r] = "in" => In(s, r)
                      /\ promised'[r] = "out" => ~In(s, r)
    BY DEF Finish, AnsweredStays
  <2>1. s \in kept \cup {file}
    BY DEF Finish, Synced
  <2>2. CASE promised'[r] = promised[r]
    BY <2>1, <2>2 DEF IInv, AnsweredStays
  <2>3. CASE promised'[r] # promised[r]
    <3>1. /\ op[c].kind \in {"relay", "withdraw"} /\ r = op[c].row
          /\ op[c].kind = "relay" => promised'[r] = "in"
          /\ op[c].kind = "withdraw" => promised'[r] = "out" /\ file[r] = "none"
      BY <2>3, <1>1 DEF IInv, TypeOK, Finish, Said
    <3>2. s = file
      BY <3>1, <1>1 DEF Finish, Synced, Durable
    <3>3. op[c].kind = "relay" => In(file, r)
      BY <3>1, <1>1, ChangeRelay
    <3> QED BY <3>1, <3>2, <3>3 DEF In
  <2> QED BY <2>2, <2>3
<1> QED BY <1>2, <1>4, <1>6, <1>7 DEF IInv, Finish

LEMMA FailStep ==
  ASSUME IInv, NEW c \in Call, Fail(c)
  PROVE  IInv'
PROOF
<1>1. /\ op[c] \in Op /\ PidOf[c] \in Process /\ file \in Contents
      /\ stage[c] \in {"waiting", "in"} /\ pc[c] \in Running /\ Turn(c)
      /\ "no" \in Ended /\ "excused" \in Ended /\ pc[c] # "idle"
  BY StoreAssumption DEF IInv, TypeOK, Holding, Fail, MayFail, Running, FallenBack, Ended
<1>2. /\ line' \in [Process -> Seq(Call)]
      /\ stage' \in [Call -> {"new", "waiting", "in", "over"}]
      /\ pc' \in [Call -> {"idle"} \cup Running \cup Ended]
      /\ Holding' /\ Alone' /\ InHand'
  <2>1. CASE Throw(c) \/ Apply(c)
    BY <1>1, <2>1, DoneStep DEF Fail, Throw, Apply, disk
  <2>2. CASE FallBack(c)
    <3>1. /\ pc' = [pc EXCEPT ![c] = "soft"] /\ "soft" \in FallenBack \cup Ended
          /\ stage' = [stage EXCEPT ![c] = "over"] /\ stage'[c] = "over"
          /\ line' = line /\ op' = op /\ seen' = seen /\ file' = file
      BY <2>2 DEF Fail, FallBack, Lock!Leave, FallenBack, disk, IInv, TypeOK
    <3>2. \A d \in Call : Turn(d) => Turn(d)'
      BY <3>1 DEF Turn
    <3>3. line' \in [Process -> Seq(Call)]
      BY <3>1 DEF IInv, TypeOK
    <3> QED BY <1>1, <3>1, <3>2, <3>3, MovesOn
  <2> QED BY <2>1, <2>2 DEF Fail
<1>3. cache' \in [Process -> Contents \cup {NONE}]
  <2>1. \A s \in Contents : Change(op[c], s) \in Contents
    BY <1>1, ChangeType
  <2> QED BY <1>1, <2>1 DEF IInv, TypeOK, Fail, Throw, Apply, FallBack, Keep
<1>4. TypeOK'
  BY <1>2, <1>3 DEF IInv, TypeOK, Fail, disk, peeks
<1> QED BY <1>2, <1>4 DEF IInv, Fail, disk, AnsweredStays, In

LEMMA RereadStep ==
  ASSUME IInv, NEW c \in Call, Reread(c)
  PROVE  IInv'
PROOF
<1>2. TypeOK'
  BY DEF IInv, TypeOK, Reread, Running, FallenBack, disk, memory, peeks
<1>3. Holding'
  BY DEF IInv, TypeOK, Holding, Reread, Turn, Running, FallenBack
<1>4. (Alone /\ InHand /\ file \in kept /\ AnsweredStays)'
  BY DEF IInv, TypeOK, Alone, InHand, AnsweredStays, Reread, disk
<1> QED BY <1>2, <1>3, <1>4 DEF IInv

LEMMA ExcuseStep ==
  ASSUME IInv, NEW c \in Call, Excuse(c)
  PROVE  IInv'
PROOF
<1>1. /\ op[c] \in Op /\ seen[c] \in Contents /\ PidOf[c] \in Process
      /\ Turn(c) /\ pc[c] # "idle" /\ "excused" \in Ended \ FallenBack
      /\ stage' = stage /\ op' = op /\ seen' = seen /\ file' = file
  BY StoreAssumption DEF IInv, TypeOK, Holding, Excuse, FallenBack, Ended, disk
<1>2. stage[c] = "over"
  BY DEF IInv, Holding, Excuse, FallenBack
<1>3. /\ line' \in [Process -> Seq(Call)]
      /\ \A d \in Call : d # c /\ Turn(d) => Turn(d)'
  BY <1>1, TurnEnds DEF Excuse
<1>4. /\ stage' \in [Call -> {"new", "waiting", "in", "over"}]
      /\ pc' \in [Call -> {"idle"} \cup Running \cup Ended]
      /\ Holding' /\ Alone' /\ InHand'
  BY <1>1, <1>2, <1>3, MovesOn DEF Excuse
<1>5. cache' \in [Process -> Contents \cup {NONE}] /\ behind' \in SUBSET Process
  BY <1>1, ChangeType DEF IInv, TypeOK, Excuse, Refresh, Keep
<1>6. TypeOK'
  BY <1>3, <1>4, <1>5 DEF IInv, TypeOK, Excuse, disk, peeks
<1> QED BY <1>4, <1>6 DEF IInv, Excuse, disk, AnsweredStays, In

LEMMA VisitStep ==
  ASSUME IInv, NEW x \in Reader, Visit(x)
  PROVE  IInv'
PROOF
<1>0. HomeOf[x] \in Process /\ file \in Contents /\ got[x] \in Contents /\ Empty \in Contents
  BY StoreAssumption DEF IInv, TypeOK, Empty, Contents
<1>1. /\ cache' \in [Process -> Contents \cup {NONE}] /\ behind' \in SUBSET Process
      /\ peek' \in [Reader -> {"none", "asked", "read", "old"}] /\ got' \in [Reader -> Contents]
  BY <1>0 DEF IInv, TypeOK, Visit, Peek, Look, Load, Keep, memory
<1>2. UNCHANGED <<disk, up, calls, faults, ends>>
  BY DEF Visit, Peek, Look, Load
<1> QED BY <1>1, <1>2 DEF IInv, TypeOK, Holding, Alone, InHand, AnsweredStays, Turn, In, disk, calls

LEMMA StartStep ==
  ASSUME IInv, NEW p \in Process, Start(p)
  PROVE  IInv'
BY DEF IInv, TypeOK, Holding, Alone, InHand, AnsweredStays, Turn, In,
     Start, disk, memory, peeks, calls

\* The processes of S end: none of their calls is at work any more.
LEMMA GoneStep ==
  ASSUME IInv, NEW S \in SUBSET Process, Gone(S), op' = op, seen' = seen, faults' = faults,
         pc' \in [Call -> {"idle"} \cup Running \cup Ended],
         \A c \in Call : /\ pc'[c] = pc[c] \/ pc'[c] = "lost"
                         /\ pc[c] = "idle" => pc'[c] = "idle"
                         /\ PidOf[c] \in S => pc'[c] \notin Running
                         /\ PidOf[c] \notin S => pc'[c] = pc[c],
         file' \in Contents, kept' \in SUBSET Contents, promised' = promised,
         file' = file \/ S = Process
  PROVE  (TypeOK /\ Holding /\ Alone /\ InHand)'
PROOF
<1>1. /\ line' \in [Process -> Seq(Call)] /\ cache' \in [Process -> Contents \cup {NONE}]
      /\ behind' \in SUBSET Process
      /\ peek' \in [Reader -> {"none", "asked", "read", "old"}] /\ got' \in [Reader -> Contents]
  BY DEF IInv, TypeOK, Gone, Empty, Contents
<1>2. stage' \in [Call -> {"new", "waiting", "in", "over"}]
  BY DEF IInv, TypeOK, Gone, Lock!Die
<1>3. up' \in SUBSET Process /\ ends' \in Nat
  BY DEF IInv, TypeOK, Gone
<1>4. TypeOK'
  BY <1>1, <1>2, <1>3 DEF IInv, TypeOK
<1>5. ASSUME NEW c \in Call
      PROVE  /\ pc[c] = "idle" => stage'[c] = "new"
             /\ pc'[c] \in Running => /\ pc'[c] = pc[c] /\ PidOf[c] \notin S
                                      /\ stage'[c] = stage[c]
             /\ stage'[c] \in {"waiting", "in"} => /\ stage'[c] = stage[c] /\ PidOf[c] \notin S
                                                   /\ pc'[c] = pc[c]
  <2>1. stage'[c] = IF PidOf[c] \in S /\ pc[c] # "idle" THEN "over" ELSE stage[c]
    BY DEF Gone, Lock!Die
  <2>2. "lost" \notin Running
    BY DEF Running, FallenBack
  <2>3. stage[c] \in {"waiting", "in"} => pc[c] \in Running
    BY DEF IInv, Holding
  <2>4. pc[c] = "idle" => stage[c] = "new"
    BY DEF IInv, Holding
  <2> QED BY <2>1, <2>2, <2>3, <2>4 DEF Running, FallenBack
<1>6. Holding'
  <2> SUFFICES ASSUME NEW c \in Call
               PROVE  /\ pc'[c] \in {"read", "landed"} => stage'[c] = "in"
                      /\ stage'[c] \in {"waiting", "in"} => pc'[c] \in Running /\ Turn(c)'
                      /\ pc'[c] \in FallenBack => stage'[c] = "over" /\ Turn(c)'
                      /\ pc'[c] # "idle" => op'[c] \in Op
                      /\ pc'[c] = "idle" => stage'[c] = "new"
    BY DEF Holding
  <2>1. pc'[c] \in {"read", "landed"} => stage'[c] = "in"
    BY <1>5 DEF IInv, Holding, Running, FallenBack
  <2>2. ASSUME stage'[c] \in {"waiting", "in"} \/ pc'[c] \in FallenBack
        PROVE  /\ pc'[c] \in Running /\ Turn(c)'
               /\ pc'[c] \in FallenBack => stage'[c] = "over"
    <3>1. /\ PidOf[c] \in Process \ S /\ pc[c] \in Running /\ Turn(c) /\ pc'[c] = pc[c]
          /\ pc[c] \in FallenBack => stage'[c] = "over"
      BY <1>5, <2>2, StoreAssumption DEF IInv, Holding, Running
    <3> QED BY <1>5, <2>2, <3>1 DEF Turn, Gone
  <2>3. pc'[c] # "idle" => op'[c] \in Op
    BY DEF IInv, Holding
  <2>4. pc'[c] = "idle" => stage'[c] = "new"
    BY <1>5
  <2> QED BY <2>1, <2>2, <2>3, <2>4
<1>7. Alone'
  BY <1>5 DEF IInv, Alone
<1>8. InHand'
  <2> SUFFICES ASSUME NEW c \in Call, pc'[c] \in {"read", "landed"}
               PROVE  /\ pc'[c] = "read" => seen'[c] = file'
                      /\ pc'[c] = "landed" => file' = Change(op'[c], seen'[c])
    BY DEF InHand
  <2>1. pc[c] = pc'[c] /\ PidOf[c] \notin S
    BY <1>5 DEF Running, FallenBack
  <2>2. file' = file
    BY <2>1, StoreAssumption
  <2> QED BY <2>1, <2>2 DEF IInv, InHand
<1> QED BY <1>4, <1>6, <1>7, <1>8

LEMMA CrashStep ==
  ASSUME IInv, NEW p \in Process, Crash(p)
  PROVE  IInv'
PROOF
<1>1. pc' \in [Call -> {"idle"} \cup Running \cup Ended]
  BY DEF IInv, TypeOK, Crash, Ended
<1>2. \A c \in Call : /\ pc'[c] = pc[c] \/ pc'[c] = "lost"
                      /\ pc[c] = "idle" => pc'[c] = "idle"
                      /\ PidOf[c] \in {p} => pc'[c] \notin Running
                      /\ PidOf[c] \notin {p} => pc'[c] = pc[c]
  BY DEF Crash, Running, FallenBack
<1>3. Gone({p}) /\ UNCHANGED <<disk, op, seen, faults>>
  BY DEF Crash
<1>4. (TypeOK /\ Holding /\ Alone /\ InHand)'
  BY <1>1, <1>2, <1>3, GoneStep DEF disk, IInv, TypeOK
<1> QED BY <1>3, <1>4 DEF IInv, disk, AnsweredStays, In

LEMMA PowerLossStep ==
  ASSUME IInv, PowerLoss
  PROVE  IInv'
PROOF
<1>1. pc' \in [Call -> {"idle"} \cup Running \cup Ended]
  BY DEF IInv, TypeOK, PowerLoss, Ended
<1>2. \A c \in Call : /\ pc'[c] = pc[c] \/ pc'[c] = "lost"
                      /\ pc[c] = "idle" => pc'[c] = "idle"
                      /\ PidOf[c] \in Process => pc'[c] \notin Running
                      /\ PidOf[c] \notin Process => pc'[c] = pc[c]
  BY StoreAssumption DEF PowerLoss, Running, FallenBack
<1>3. /\ Gone(Process) /\ UNCHANGED <<promised, op, seen, faults>>
      /\ file' \in kept /\ kept' = {file'}
  BY DEF PowerLoss
<1>4. (TypeOK /\ Holding /\ Alone /\ InHand)'
  BY <1>1, <1>2, <1>3, GoneStep DEF IInv, TypeOK
<1> QED BY <1>3, <1>4 DEF IInv, AnsweredStays, In

-----------------------------------------------------------------------------

LEMMA StepIInv ==
  ASSUME IInv, [Next]_vars
  PROVE  IInv'
PROOF
<1>1. CASE UNCHANGED vars
  BY <1>1 DEF IInv, TypeOK, Holding, Alone, InHand, AnsweredStays, Turn, In, vars, disk, memory, peeks, calls
<1>2. CASE Next
  BY <1>2, InvokeStep, AskStep, EnterStep, ReadStep, LandStep, FinishStep,
     FailStep, RereadStep, ExcuseStep, VisitStep, StartStep, CrashStep, PowerLossStep
     DEF Next, Step
<1> QED BY <1>1, <1>2

THEOREM InvHolds == Spec => []IInv
PROOF
<1>1. Init => IInv
  BY InitIInv
<1>2. IInv /\ [Next]_vars => IInv'
  BY StepIInv
<1> QED BY <1>1, <1>2, PTL DEF Spec

-----------------------------------------------------------------------------
(* What a process's readers see *)

\* What a reader of a process has, when a mutation of it has landed, is as new.
Fetched ==
  \A x \in Reader, c \in Call :
    pc[c] = "landed" /\ HomeOf[x] = PidOf[c] /\ peek[x] = "read" => got[x] = file

\* The row is in the file and in all that the cache may be loaded from but for
\* readers whose read the process's own write came after.
Has(p, r) ==
  /\ In(file, r)
  /\ cache[p] # NONE /\ p \notin behind => In(cache[p], r)
  /\ \A x \in Reader : HomeOf[x] = p /\ peek[x] = "read" => In(got[x], r)
  /\ \A d \in Call : PidOf[d] = p /\ pc[d] = "reread" => In(seen[d], r)

\* ReadsItsWrites is not inductive without the file and the loads on their way.
Written ==
  \A c \in Call, r \in Row :
    /\ pc[c] = "yes" /\ op[c].kind \in {"enqueue", "relay"} /\ op[c].row = r
    /\ ~ TakenOut(r)
    => Has(PidOf[c], r)

\* Only what takes a row out does.
LEMMA ChangeKeeps ==
  ASSUME NEW o \in Op, NEW s \in Contents, NEW r \in Row, In(s, r),
         ~ (o.row = r /\ o.kind \in {"settle", "delete", "withdraw"})
  PROVE  In(Change(o, s), r)
BY DEF Op, Kinds, Contents, Change, In

\* A row that is put in is in afterwards.
LEMMA ChangeAdds ==
  ASSUME NEW o \in Op, o.kind \in {"enqueue", "relay"}, NEW s \in Contents
  PROVE  In(Change(o, s), o.row)
BY DEF Op, Kinds, Contents, Change, In

\* What was asked stays asked.
LEMMA AskedStays ==
  ASSUME IInv, [Next]_vars, NEW d \in Call, pc[d] # "idle"
  PROVE  pc'[d] # "idle" /\ op'[d] = op[d]
PROOF
<1>1. CASE UNCHANGED vars
  BY <1>1 DEF vars, calls
<1>2. CASE \E c \in Call, o \in Op : Invoke(c, o)
  BY <1>2 DEF Invoke, IInv, TypeOK
<1>3. CASE \E c \in Call : Step(c) \/ Fail(c)
  BY <1>3 DEF Step, Fail, Throw, Apply, FallBack, Ask, Enter, Read, Land, Finish, Reread,
     Excuse, Done, disk, IInv, TypeOK
<1>4. CASE (\E x \in Reader : Visit(x)) \/ (\E p \in Process : Crash(p) \/ Start(p))
  BY <1>4 DEF Visit, Peek, Look, Load, Crash, Start, calls
<1>5. CASE PowerLoss
  BY <1>5 DEF PowerLoss
<1> QED BY <1>1, <1>2, <1>3, <1>4, <1>5 DEF Next

\* A process's cache is emptied, refreshed to the file, changed by its own mutation
\* that failed, or replaced by what a load has read.
LEMMA CacheMoves ==
  ASSUME IInv, [Next]_vars, NEW p \in Process
  PROVE  \/ cache'[p] = cache[p] /\ (p \in behind => p \in behind')
         \/ cache'[p] = NONE
         \/ cache'[p] = file' /\ file' = file
         \/ \E d \in Call : /\ pc[d] # "idle" /\ PidOf[d] = p /\ cache[p] # NONE
                            /\ cache'[p] = Change(op[d], cache[p]) /\ behind' = behind
         \/ \E d \in Call : /\ pc[d] = "reread" /\ PidOf[d] = p
                            /\ cache'[p] = Change(op[d], seen[d])
         \/ \E x \in Reader : /\ peek[x] = "read" /\ HomeOf[x] = p
                              /\ cache'[p] = got[x]
         \/ p \in behind'
PROOF
<1>1. CASE UNCHANGED vars
  BY <1>1 DEF vars, memory
<1>2. CASE \E c \in Call, o \in Op : Invoke(c, o)
  BY <1>2 DEF Invoke, Keep, IInv, TypeOK
<1>3. CASE \E c \in Call : Ask(c) \/ Enter(c) \/ Read(c) \/ Land(c) \/ Reread(c)
  BY <1>3 DEF Ask, Enter, Read, Land, Reread, memory
<1>4. CASE \E c \in Call : Finish(c)
  <2>1. PICK c \in Call : Finish(c)
    BY <1>4
  <2>2. cache' = [cache EXCEPT ![PidOf[c]] = file] /\ file' = file
    BY <2>1 DEF Finish, Refresh, Keep, IInv, InHand
  <2>3. CASE PidOf[c] = p
    BY <2>2, <2>3 DEF IInv, TypeOK
  <2>4. CASE PidOf[c] # p
    BY <2>1, <2>2, <2>4 DEF IInv, TypeOK, Finish
  <2> QED BY <2>3, <2>4
<1>5. CASE \E c \in Call : Fail(c)
  <2>1. PICK c \in Call : Fail(c)
    BY <1>5
  <2>2. pc[c] # "idle" /\ behind' = behind
    BY <2>1 DEF Fail, MayFail
  <2>3. CASE Throw(c) \/ FallBack(c)
    BY <2>2, <2>3 DEF Throw, FallBack
  <2>4. CASE Apply(c)
    BY <2>2, <2>4 DEF Apply, Keep, IInv, TypeOK
  <2> QED BY <2>1, <2>3, <2>4 DEF Fail
<1>6. CASE \E c \in Call : Excuse(c)
  <2>1. PICK c \in Call : Excuse(c)
    BY <1>6
  <2>2. CASE PidOf[c] = p
    BY <2>1, <2>2 DEF Excuse, Refresh, Keep, IInv, TypeOK
  <2>3. CASE PidOf[c] # p
    BY <2>1, <2>3 DEF Excuse, Refresh, Keep, IInv, TypeOK
  <2> QED BY <2>2, <2>3
<1>7. CASE \E x \in Reader : Visit(x)
  <2>1. PICK x \in Reader : Visit(x)
    BY <1>7
  <2>2. CASE Peek(x) \/ Look(x)
    BY <2>2 DEF Peek, Look, memory
  <2>3. CASE Load(x)
    <3>1. /\ cache' = [cache EXCEPT ![HomeOf[x]] = got[x]]
          /\ peek[x] = "read" \/ behind' = behind \cup {HomeOf[x]}
          /\ behind \ {HomeOf[x]} \subseteq behind'
      BY <2>3 DEF Load, Keep
    <3>2. CASE HomeOf[x] = p
      BY <3>1, <3>2 DEF IInv, TypeOK
    <3>3. CASE HomeOf[x] # p
      BY <3>1, <3>3 DEF IInv, TypeOK
    <3> QED BY <3>2, <3>3
  <2> QED BY <2>1, <2>2, <2>3 DEF Visit
<1>8. CASE \E q \in Process : Crash(q) \/ Start(q)
  BY <1>8 DEF Crash, Start, Gone, memory, IInv, TypeOK
<1>9. CASE PowerLoss
  BY <1>9 DEF PowerLoss, Gone
<1> QED BY <1>1, <1>2, <1>3, <1>4, <1>5, <1>6, <1>7, <1>8, <1>9 DEF Next, Step

\* The file is changed by a mutation, after which what its process's readers have is
\* old, or rolled back by a power loss, which leaves nothing confirmed.
LEMMA FileMoves ==
  ASSUME IInv, [Next]_vars
  PROVE  \/ file' = file
         \/ \E d \in Call : Land(d) /\ file' = Change(op[d], file)
         \/ \A c \in Call : pc'[c] # "yes"
PROOF
<1>1. CASE UNCHANGED vars
  BY <1>1 DEF vars, disk
<1>2. CASE \E c \in Call : Land(c)
  BY <1>2 DEF Land, IInv, InHand
<1>3. CASE PowerLoss
  BY <1>3 DEF PowerLoss
<1>4. CASE \/ \E c \in Call, o \in Op : Invoke(c, o)
           \/ \E c \in Call : \/ Ask(c) \/ Enter(c) \/ Read(c) \/ Finish(c) \/ Fail(c)
                              \/ Reread(c) \/ Excuse(c)
           \/ \E x \in Reader : Visit(x)
           \/ \E p \in Process : Crash(p) \/ Start(p)
  BY <1>4 DEF Invoke, Ask, Enter, Read, Finish, Fail, Reread, Excuse, Visit, Peek, Look, Load,
     Crash, Start, disk
<1> QED BY <1>1, <1>2, <1>3, <1>4 DEF Next, Step

\* A reader that has what is not old had it, or has the file.
LEMMA ReaderMoves ==
  ASSUME IInv, [Next]_vars, NEW x \in Reader, peek'[x] = "read"
  PROVE  \/ peek[x] = "read" /\ got'[x] = got[x]
         \/ got'[x] = file /\ file' = file
PROOF
<1>1. CASE UNCHANGED vars
  BY <1>1 DEF vars, peeks
<1>2. CASE \/ \E c \in Call, o \in Op : Invoke(c, o)
           \/ \E c \in Call : \/ Ask(c) \/ Enter(c) \/ Read(c) \/ Finish(c) \/ Fail(c)
                              \/ Reread(c) \/ Excuse(c)
           \/ \E p \in Process : Start(p)
  BY <1>2 DEF Invoke, Ask, Enter, Read, Finish, Fail, Reread, Excuse, Start, peeks
<1>3. CASE \E c \in Call : Land(c)
  BY <1>3 DEF Land, Outdate
<1>4. CASE \E y \in Reader : Visit(y)
  BY <1>4 DEF Visit, Peek, Look, Load, disk, IInv, TypeOK
<1>5. CASE (\E p \in Process : Crash(p)) \/ PowerLoss
  BY <1>5 DEF Crash, PowerLoss, Gone
<1> QED BY <1>1, <1>2, <1>3, <1>4, <1>5 DEF Next, Step

\* A call that fell back has what it read, or the file.
LEMMA FallenMoves ==
  ASSUME IInv, [Next]_vars, NEW d \in Call, pc'[d] = "reread"
  PROVE  \/ pc[d] = "reread" /\ seen'[d] = seen[d]
         \/ seen'[d] = file /\ file' = file
PROOF
<1>1. CASE UNCHANGED vars
  BY <1>1 DEF vars, calls
<1>2. CASE \E c \in Call, o \in Op : Invoke(c, o)
  BY <1>2 DEF Invoke, IInv, TypeOK
<1>3. CASE \E c \in Call : Step(c)
  BY <1>3 DEF Step, Ask, Enter, Read, Fresh, Land, Finish, Reread, Excuse, Done, disk, IInv, TypeOK
<1>4. CASE \E c \in Call : Fail(c)
  BY <1>4 DEF Fail, Throw, Apply, FallBack, Done, IInv, TypeOK
<1>5. CASE (\E x \in Reader : Visit(x)) \/ (\E p \in Process : Crash(p) \/ Start(p))
  BY <1>5 DEF Visit, Peek, Look, Load, Crash, Start, calls, IInv, TypeOK
<1>6. CASE PowerLoss
  BY <1>6 DEF PowerLoss, IInv, TypeOK
<1> QED BY <1>1, <1>2, <1>3, <1>4, <1>5, <1>6 DEF Next

\* Only a mutation that landed is confirmed, and only one that read under the lock lands.
LEMMA ConfirmedLanded ==
  ASSUME IInv, [Next]_vars, NEW c \in Call
  PROVE  /\ pc'[c] = "yes" => pc[c] = "yes" \/ Finish(c)
         /\ pc'[c] = "landed" => pc[c] = "landed" \/ Land(c)
PROOF
<1>1. CASE UNCHANGED vars
  BY <1>1 DEF vars, calls
<1>2. CASE \E d \in Call, o \in Op : Invoke(d, o)
  BY <1>2 DEF Invoke, IInv, TypeOK
<1>3. CASE \E d \in Call : Step(d)
  BY <1>3 DEF Step, Ask, Enter, Read, Land, Finish, Reread, Excuse, Done, IInv, TypeOK
<1>4. CASE \E d \in Call : Fail(d)
  BY <1>4 DEF Fail, Throw, Apply, FallBack, Done, IInv, TypeOK
<1>5. CASE (\E x \in Reader : Visit(x)) \/ (\E p \in Process : Crash(p) \/ Start(p))
  BY <1>5 DEF Visit, Peek, Look, Load, Crash, Start, calls
<1>6. CASE PowerLoss
  BY <1>6 DEF PowerLoss
<1> QED BY <1>1, <1>2, <1>3, <1>4, <1>5, <1>6 DEF Next

LEMMA FetchedStep ==
  ASSUME IInv, Fetched, [Next]_vars
  PROVE  Fetched'
PROOF
<1> SUFFICES ASSUME NEW x \in Reader, NEW c \in Call, pc'[c] = "landed",
                    HomeOf[x] = PidOf[c], peek'[x] = "read"
             PROVE  got'[x] = file'
  BY DEF Fetched
<1>1. CASE Land(c)
  BY <1>1 DEF Land, Outdate
<1>2. CASE pc[c] = "landed"
  <2>1. file' = file
    <3>1. ASSUME NEW d \in Call, Land(d)  PROVE FALSE
      BY <1>2, <3>1 DEF Land, IInv, Holding, Alone
    <3>2. CASE PowerLoss
      BY <3>2 DEF PowerLoss
    <3>3. CASE UNCHANGED vars
      BY <3>3 DEF vars, disk
    <3>4. CASE \/ \E d \in Call, o \in Op : Invoke(d, o)
               \/ \E d \in Call : \/ Ask(d) \/ Enter(d) \/ Read(d) \/ Finish(d) \/ Fail(d)
                                  \/ Reread(d) \/ Excuse(d)
               \/ \E y \in Reader : Visit(y)
               \/ \E p \in Process : Crash(p) \/ Start(p)
      BY <3>4 DEF Invoke, Ask, Enter, Read, Finish, Fail, Reread, Excuse, Visit, Peek, Look,
         Load, Crash, Start, disk
    <3> QED BY <3>1, <3>2, <3>3, <3>4 DEF Next, Step
  <2> QED BY <1>2, <2>1, ReaderMoves DEF Fetched
<1> QED BY <1>1, <1>2, ConfirmedLanded

LEMMA WrittenStep ==
  ASSUME IInv, Fetched, Written, [Next]_vars
  PROVE  Written'
PROOF
<1> SUFFICES ASSUME NEW c \in Call, NEW r \in Row, pc'[c] = "yes",
                    op'[c].kind \in {"enqueue", "relay"}, op'[c].row = r, ~ TakenOut(r)'
             PROVE  Has(PidOf[c], r)'
  BY DEF Written
<1>. DEFINE p == PidOf[c]
<1>1. p \in Process /\ pc[c] # "idle" /\ op'[c] = op[c] /\ op[c] \in Op /\ op[c].row = r
  <2>1. pc[c] # "idle"
    BY ConfirmedLanded DEF Finish
  <2> QED BY <2>1, AskedStays, StoreAssumption DEF IInv, Holding, Op
<1>2. ~ TakenOut(r)
  BY AskedStays DEF TakenOut
<1>3. ASSUME NEW d \in Call, pc[d] # "idle"
      PROVE  \A s \in Contents : In(s, r) => In(Change(op[d], s), r)
  <2>1. op[d] \in Op /\ ~ (op[d].row = r /\ op[d].kind \in {"settle", "delete", "withdraw"})
    BY <1>2, <1>3 DEF TakenOut, IInv, Holding
  <2> QED BY <1>1, <2>1, ChangeKeeps
<1>4. /\ file \in Contents /\ (cache[p] # NONE => cache[p] \in Contents)
      /\ \A d \in Call : seen[d] \in Contents
  BY <1>1 DEF IInv, TypeOK
<1>5. CASE Finish(c)
  <2>1. /\ pc[c] = "landed" /\ Turn(c) /\ file' = file
        /\ file = Change(op[c], seen[c]) /\ seen[c] \in Contents
    BY <1>5 DEF Finish, IInv, Holding, InHand, TypeOK
  <2>2. In(file, r)
    BY <1>1, <2>1, ChangeAdds
  <2>3. cache'[p] = file
    BY <1>1, <1>5, <2>1 DEF Finish, Refresh, Keep, IInv, TypeOK
  <2>4. ASSUME NEW x \in Reader, HomeOf[x] = p, peek'[x] = "read"
        PROVE  In(got'[x], r)
    BY <1>5, <2>1, <2>2, <2>4 DEF Fetched, Finish, peeks
  <2>5. ASSUME NEW d \in Call, PidOf[d] = p, pc'[d] = "reread"
        PROVE  FALSE
    <3>1. d # c /\ pc[d] = "reread"
      BY <1>5, <2>5 DEF Finish, Done, IInv, TypeOK
    <3>2. Turn(d)
      BY <3>1 DEF IInv, Holding, FallenBack
    <3> QED BY <2>1, <2>5, <3>1, <3>2, TurnsApart
  <2> QED BY <1>1, <2>1, <2>2, <2>3, <2>4, <2>5 DEF Has
<1>6. CASE pc[c] = "yes"
  <2>1. Has(p, r)
    BY <1>1, <1>2, <1>6 DEF Written
  <2>2. In(file', r)
    BY <1>3, <1>4, <2>1, FileMoves DEF Has, Land
  <2>3. cache'[p] # NONE /\ p \notin behind' => In(cache'[p], r)
    <3> SUFFICES ASSUME cache'[p] # NONE, p \notin behind'  PROVE In(cache'[p], r)
      OBVIOUS
    <3>1. CASE cache'[p] = cache[p] /\ p \notin behind
      BY <2>1, <3>1 DEF Has
    <3>2. CASE cache'[p] = file'
      BY <2>2, <3>2
    <3>3. ASSUME NEW d \in Call, pc[d] # "idle", PidOf[d] = p, cache[p] # NONE,
                 cache'[p] = Change(op[d], cache[p]), behind' = behind
          PROVE  In(cache'[p], r)
      BY <1>3, <1>4, <2>1, <3>3 DEF Has
    <3>4. ASSUME NEW d \in Call, pc[d] = "reread", PidOf[d] = p,
                 cache'[p] = Change(op[d], seen[d])
          PROVE  In(cache'[p], r)
      BY <1>3, <1>4, <2>1, <3>4 DEF Has
    <3>5. ASSUME NEW x \in Reader, peek[x] = "read", HomeOf[x] = p, cache'[p] = got[x]
          PROVE  In(cache'[p], r)
      BY <2>1, <3>5 DEF Has
    <3> QED BY <1>1, <3>1, <3>2, <3>3, <3>4, <3>5, CacheMoves
  <2>4. ASSUME NEW x \in Reader, HomeOf[x] = p, peek'[x] = "read"
        PROVE  In(got'[x], r)
    BY <2>1, <2>4, ReaderMoves DEF Has
  <2>5. ASSUME NEW d \in Call, PidOf[d] = p, pc'[d] = "reread"
        PROVE  In(seen'[d], r)
    BY <2>1, <2>5, FallenMoves DEF Has
  <2> QED BY <1>1, <2>2, <2>3, <2>4, <2>5 DEF Has
<1> QED BY <1>5, <1>6, ConfirmedLanded

-----------------------------------------------------------------------------
(* Theorems *)

\* The state of the store is always well typed.
THEOREM TypesHold == Spec => []TypeOK
BY InvHolds, PTL DEF IInv

\* A phone message the companion was told is stored stays stored, and a
\* withdrawn one withdrawn, whatever the other process writes, whichever write
\* fails and whenever the power goes.
THEOREM AnswersStay == Spec => []AnsweredStays
BY InvHolds, PTL DEF IInv

\* A process's mutations reach the file in the order it asked for them.
THEOREM LandsInOrder == Spec => InOrder
PROOF
<1>1. ASSUME IInv, [Next]_vars
      PROVE  [\A c \in Call : pc[c] = "read" /\ pc'[c] = "landed" => line[PidOf[c]][1] = c]_vars
  <2> SUFFICES ASSUME NEW c \in Call, pc[c] = "read", pc'[c] = "landed"
               PROVE  line[PidOf[c]][1] = c
    OBVIOUS
  <2>1. Turn(c)
    BY <1>1 DEF IInv, Holding
  <2> QED BY <2>1 DEF Turn
<1>2. IInv /\ [Next]_vars =>
        [\A c \in Call : pc[c] = "read" /\ pc'[c] = "landed" => line[PidOf[c]][1] = c]_vars
  BY <1>1
<1>3. Spec => []IInv
  BY InvHolds
<1> QED BY <1>2, <1>3, PTL DEF Spec, InOrder

\* What a process was told it enqueued, its readers see, unless something was
\* asked to take it out, or a reader of the process put what it read before that
\* write into the cache after it: whichever process wrote last, whichever mutation
\* failed, and across crashes and power losses.
THEOREM WritesAreRead == Spec => []ReadsItsWrites
PROOF
<1>1. Init => Fetched /\ Written
  BY DEF Init, Fetched, Written
<1>2. IInv /\ Fetched /\ Written /\ [Next]_vars => Fetched' /\ Written'
  BY FetchedStep, WrittenStep
<1>3. IInv /\ Written => ReadsItsWrites
  BY DEF IInv, Holding, Op, Written, Has, Sees, ReadsItsWrites
<1>4. Spec => []IInv
  BY InvHolds
<1> QED BY <1>1, <1>2, <1>3, <1>4, PTL DEF Spec

-----------------------------------------------------------------------------
(* The refinement *)

\* A call that moves takes no other with it.
LEMMA StateMoves ==
  ASSUME IInv, NEW c \in Call, NEW to \in Running \cup Ended,
         pc' = [pc EXCEPT ![c] = to]
  PROVE  State' = [State EXCEPT ![c] = CASE to \in {"chained", "read"} -> "asked"
                                         [] to = "landed" -> "applied"
                                         [] to \in FallenBack -> "excused"
                                         [] OTHER -> to]
BY DEF IInv, TypeOK, State, Running, FallenBack, Ended

\* Each step of a call is one of AtomicStore's, or none.
LEMMA CallSteps ==
  ASSUME IInv, NEW c \in Call,
         (\E o \in Op : Invoke(c, o)) \/ Step(c) \/ Fail(c)
  PROVE  [Store!Next]_(Store!vars)
PROOF
<1>1. CASE \E o \in Op : Invoke(c, o)
  <2>1. PICK o \in Op : Invoke(c, o)
    BY <1>1
  <2>2. State[c] = "new" /\ State' = [State EXCEPT ![c] = "asked"]
    BY <2>1, StateMoves DEF Invoke, State, Running, FallenBack
  <2>3. Store!Ask(c, o)
    BY <2>1, <2>2 DEF Invoke, disk, Store!Ask, Store!Goto
  <2> QED BY <2>3 DEF Store!Next
<1>2. CASE Ask(c) \/ Enter(c)
  <2>1. State' = State /\ UNCHANGED <<file, kept, op>>
    BY <1>2 DEF Ask, Enter, State, disk
  <2> QED BY <2>1 DEF Store!vars
<1>3. CASE Read(c)
  <2>1. pc[c] = "chained" /\ State' = [State EXCEPT ![c] = "asked"]
    BY <1>3, StateMoves DEF Read, Running, FallenBack
  <2>2. State' = State
    BY <2>1 DEF State, FallenBack
  <2> QED BY <1>3, <2>2 DEF Read, disk, Store!vars
<1>4. CASE Land(c)
  <2>1. State[c] = "asked" /\ State' = [State EXCEPT ![c] = "applied"]
    BY <1>4, StateMoves DEF Land, State, Running, FallenBack
  <2>2. file' = Change(op[c], file)
    BY <1>4 DEF Land, IInv, InHand
  <2>3. Store!Commit(c)
    BY <1>4, <2>1, <2>2 DEF Land, Store!Commit, Store!Goto
  <2> QED BY <2>3 DEF Store!Next
<1>5. CASE Finish(c)
  <2>1. State[c] = "applied" /\ State' = [State EXCEPT ![c] = "yes"]
    BY <1>5, StateMoves DEF Finish, Done, State, Ended, Running, FallenBack
  <2>2. Store!Confirm(c)
    BY <1>5, <2>1 DEF Finish, Synced, Store!Confirm, Store!Goto
  <2> QED BY <2>2 DEF Store!Next
<1>6. CASE Fail(c)
  <2>1. State[c] \in {"asked", "applied"}
    BY <1>6 DEF Fail, MayFail, State, FallenBack
  <2>2. CASE Throw(c)
    <3>1. State' = [State EXCEPT ![c] = "no"]
      BY <2>2, StateMoves DEF Throw, Done, Ended, FallenBack
    <3>2. Store!Refuse(c)
      BY <1>6, <2>1, <3>1 DEF Fail, disk, Store!Refuse, Store!Goto
    <3> QED BY <3>2 DEF Store!Next
  <2>3. CASE Apply(c) \/ FallBack(c)
    <3>1. State' = [State EXCEPT ![c] = "excused"]
      <4>1. CASE Apply(c)
        BY <4>1, StateMoves DEF Apply, Done, Ended, FallenBack
      <4>2. CASE FallBack(c)
        BY <4>2, StateMoves DEF FallBack, Running, FallenBack
      <4> QED BY <2>3, <4>1, <4>2
    <3>2. Store!Excuse(c)
      BY <1>6, <2>1, <2>3, <3>1 DEF Fail, Apply, FallBack, disk, Store!Excuse, Store!Goto
    <3> QED BY <3>2 DEF Store!Next
  <2> QED BY <1>6, <2>2, <2>3 DEF Fail
<1>7. CASE Reread(c) \/ Excuse(c)
  <2>1. /\ pc[c] \in FallenBack
        /\ pc' = [pc EXCEPT ![c] = "reread"] \/ pc' = [pc EXCEPT ![c] = "excused"]
    BY <1>7 DEF Reread, Excuse, FallenBack
  <2>2. State' = [State EXCEPT ![c] = "excused"] /\ State[c] = "excused"
    BY <2>1, StateMoves DEF State, Running, FallenBack, Ended
  <2>3. State' = State
    BY <2>2 DEF State
  <2> QED BY <1>7, <2>3 DEF Reread, Excuse, disk, Store!vars
<1> QED BY <1>1, <1>2, <1>3, <1>4, <1>5, <1>6, <1>7 DEF Step

\* A reader is none, and the end of a process is one too.
LEMMA EndSteps ==
  ASSUME IInv, \/ \E x \in Reader : Visit(x)
               \/ \E p \in Process : Crash(p) \/ Start(p)
               \/ PowerLoss
  PROVE  [Store!Next]_(Store!vars)
PROOF
<1>1. CASE (\E x \in Reader : Visit(x)) \/ (\E p \in Process : Start(p))
  BY <1>1 DEF Visit, Peek, Look, Load, Start, disk, calls, State, Store!vars
<1>2. CASE \E p \in Process : Crash(p)
  <2>1. PICK p \in Process : Crash(p)
    BY <1>2
  <2>. DEFINE S == {c \in Call : PidOf[c] = p /\ pc[c] # "idle"}
  <2>2. State' = [c \in Call |-> IF c \in S /\ State[c] # "yes" THEN "lost" ELSE State[c]]
    BY <2>1 DEF Crash, State, IInv, TypeOK, Running, FallenBack, Ended
  <2>3. Store!Die(S)
    BY <2>1, <2>2 DEF Crash, disk, Store!Die
  <2> QED BY <2>3 DEF Store!Next
<1>3. CASE PowerLoss
  <2>. DEFINE S == {c \in Call : pc[c] # "idle"}
  <2>2. State' = [c \in Call |-> IF c \in S THEN "lost" ELSE State[c]]
    BY <1>3 DEF PowerLoss, State, FallenBack
  <2>3. Store!PowerLoss(S)
    BY <1>3, <2>2 DEF PowerLoss, Store!PowerLoss
  <2> QED BY <2>3 DEF Store!Next
<1> QED BY <1>1, <1>2, <1>3

\* Two processes that each cache the file and write it under the lock are, to
\* whoever reads the file, one atomic store.
THEOREM ImplementsAtomicStore == Spec => IsAStore
PROOF
<1>1. Init => Store!Init
  BY DEF Init, State, FallenBack, Store!Init
<1>2. IInv /\ [Next]_vars => [Store!Next]_(Store!vars)
  <2>1. CASE UNCHANGED vars
    BY <2>1 DEF vars, disk, memory, peeks, calls, State, Store!vars
  <2> QED BY <2>1, CallSteps, EndSteps DEF Next
<1>3. Spec => []IInv
  BY InvHolds
<1> QED BY <1>1, <1>2, <1>3, PTL DEF Spec, IsAStore, Store!Spec
=============================================================================
