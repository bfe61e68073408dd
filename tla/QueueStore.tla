---------------------------- MODULE QueueStore ----------------------------
(***************************************************************************)
(* src/src/core/session-queue-store.ts and the file helpers it stands on   *)
(* (src/src/utils/fs.ts): the one file every queued message lives in. Two  *)
(* processes write it, the server and the `walnut start' command. Each     *)
(* keeps the rows in a cache its readers load and use, lines its own       *)
(* mutations up on a promise chain, and runs each on a fresh read under    *)
(* the file lock, of which it only needs what ExclusiveLock says (FileLock *)
(* implements that).                                                       *)
(***************************************************************************)
EXTENDS Naturals, Sequences

CONSTANTS
  Call,        \* the mutations that may be asked for
  Process,
  PidOf,       \* the process that asks for one
  Asks,        \* the operations a call may be
  Reader,      \* those that read the cache (getStore), one call each at a time
  HomeOf,      \* the process each is in
  Row,
  NONE,        \* a cache that was not loaded
  MaxFaults,   \* bound: failed locks, writes and syncs
  MaxEnds      \* bound: processes that end, and power losses

\* "take" and "mark" are markNextProcessing, and markProcessing under a stop's fence.
Kinds == {"enqueue", "relay", "take", "mark", "settle", "delete", "withdraw", "load"}
Op == [kind : Kinds, row : Row]

ASSUME StoreAssumption ==
  /\ PidOf \in [Call -> Process]
  /\ Asks \in [Call -> SUBSET Op]
  /\ HomeOf \in [Reader -> Process]
  /\ MaxFaults \in Nat /\ MaxEnds \in Nat

\* mutateStore's strict and durable flags, as its callers give them.
Strict == {o \in Op : o.kind \in {"relay", "withdraw", "mark"}}
Durable == {o \in Op : o.kind \in {"relay", "withdraw", "delete"}}

Contents == [Row -> {"none", "pending", "processing"}]
Empty == [r \in Row |-> "none"]

ASSUME NoneAssumption == NONE \notin Contents

VARIABLES
  file,      \* the queue file
  kept,      \* the contents a power loss may leave in it
  cache,     \* each process's `store'
  peek,      \* where each reader is in getStore, and ...
  got,       \* ... what it read; "old": its process wrote the file since
  up,        \* the processes that run
  line,      \* each process's writeLock chain
  stage,     \* the file lock
  pc,        \* where each call is in mutateStore
  op,        \* what it was asked to do
  seen,      \* what it read under the lock
  faults, ends,
  promised,  \* auxiliary: the rows a strict answer says are in, and out
  behind     \* auxiliary: the processes whose cache was read before their last write

disk == <<file, kept, promised>>
memory == <<cache, behind>>
peeks == <<peek, got>>
calls == <<line, stage, pc, op, seen>>
vars == <<disk, memory, peeks, up, calls, faults, ends>>

Lock == INSTANCE ExclusiveLock

\* A call that failed and reads the file for the cache it will change instead.
FallenBack == {"soft", "reread"}
Running == {"chained", "read", "landed"} \cup FallenBack
Ended == {"yes", "excused", "no", "lost"}

TypeOK ==
  /\ file \in Contents /\ kept \in SUBSET Contents
  /\ cache \in [Process -> Contents \cup {NONE}]
  /\ peek \in [Reader -> {"none", "asked", "read", "old"}]
  /\ got \in [Reader -> Contents]
  /\ up \in SUBSET Process /\ behind \in SUBSET Process
  /\ line \in [Process -> Seq(Call)]
  /\ stage \in [Call -> {"new", "waiting", "in", "over"}]
  /\ pc \in [Call -> {"idle"} \cup Running \cup Ended]
  /\ op \in [Call -> Op \cup {NONE}]
  /\ seen \in [Call -> Contents]
  /\ faults \in Nat /\ ends \in Nat
  /\ promised \in [Row -> {"in", "out", "unsaid"}]

Init ==
  /\ file = Empty /\ kept = {Empty}
  /\ cache = [p \in Process |-> NONE] /\ up = Process /\ behind = {}
  /\ peek = [x \in Reader |-> "none"] /\ got = [x \in Reader |-> Empty]
  /\ line = [p \in Process |-> <<>>]
  /\ stage = [c \in Call |-> "new"]
  /\ pc = [c \in Call |-> "idle"]
  /\ op = [c \in Call |-> NONE]
  /\ seen = [c \in Call |-> Empty]
  /\ faults = 0 /\ ends = 0
  /\ promised = [r \in Row |-> "unsaid"]

-----------------------------------------------------------------------------
(* What a mutation does *)

In(s, r) == s[r] # "none"

\* enqueueMessage is idempotent by id; markNextProcessing and markProcessing take
\* a row; removeTaken drops one in any state, deleteMessage and withdrawIn leave one a
\* delivery holds; loadQueue puts back the rows a dead server had taken.
Change(o, s) ==
  [r \in Row |->
     IF o.kind = "load" THEN IF s[r] = "processing" THEN "pending" ELSE s[r]
     ELSE IF o.row # r THEN s[r]
     ELSE CASE o.kind \in {"enqueue", "relay"} -> IF In(s, r) THEN s[r] ELSE "pending"
            [] o.kind \in {"take", "mark"} -> IF In(s, r) THEN "processing" ELSE "none"
            [] o.kind = "settle" -> "none"
            [] OTHER -> IF s[r] = "pending" THEN "none" ELSE s[r]]

\* The in-process order of mutations (`await prev').
Turn(c) == line[PidOf[c]] # <<>> /\ Head(line[PidOf[c]]) = c

Done(c, how) ==
  /\ pc' = [pc EXCEPT ![c] = how]
  /\ line' = [line EXCEPT ![PidOf[c]] = Tail(@)]
  /\ Lock!Leave(c)

Keep(p, s) == cache' = [cache EXCEPT ![p] = s]

\* Mutant: the cache becomes what the mutation returned.
KeepResult(c) == Keep(PidOf[c], op[c])

\* Mutant: the cache becomes the contents before the change.
KeepRead(c) == Keep(PidOf[c], seen[c])

\* The cache is refreshed to the persisted result.
Refresh(c) == Keep(PidOf[c], Change(op[c], seen[c]))

\* A row that changes takes back what was answered of it.
Unsaid(o) ==
  [r \in Row |-> IF In(file, r) # In(Change(o, file), r) THEN "unsaid" ELSE promised[r]]

\* A relayed row is in, a withdrawn one out.
Said(o) ==
  CASE o.kind = "relay" -> [promised EXCEPT ![o.row] = "in"]
    [] o.kind = "withdraw" /\ file[o.row] = "none" -> [promised EXCEPT ![o.row] = "out"]
    [] OTHER -> promised

-----------------------------------------------------------------------------
(* mutateStore *)

Asked(c) == pc[c] \in Running

Invoke(c, o) ==
  /\ pc[c] = "idle" /\ PidOf[c] \in up /\ o \in Asks[c]
  /\ pc' = [pc EXCEPT ![c] = "chained"]
  /\ op' = [op EXCEPT ![c] = o]
  /\ line' = [line EXCEPT ![PidOf[c]] = Append(@, c)]
  /\ IF o.kind = "load" THEN Keep(PidOf[c], NONE) ELSE UNCHANGED cache
  /\ UNCHANGED <<disk, behind, peeks, up, stage, seen, faults, ends>>

\* Its turn on the chain: it asks for the file lock.
Ask(c) ==
  /\ pc[c] = "chained" /\ Turn(c)
  /\ Lock!Ask(c)
  /\ UNCHANGED <<disk, memory, peeks, up, line, pc, op, seen, faults, ends>>

Enter(c) ==
  /\ Lock!Enter(c)
  /\ UNCHANGED <<disk, memory, peeks, up, line, pc, op, seen, faults, ends>>

\* Mutant: the cache is written back instead of a fresh read.
FreshCached(c) ==
  seen' = [seen EXCEPT ![c] = IF cache[PidOf[c]] = NONE THEN file ELSE cache[PidOf[c]]]

\* updateJsonFile reads a fresh copy; a read that fails is left out.
Fresh(c) == seen' = [seen EXCEPT ![c] = file]

Read(c) ==
  /\ pc[c] = "chained" /\ stage[c] = "in"
  /\ Fresh(c)
  /\ pc' = [pc EXCEPT ![c] = "read"]
  /\ UNCHANGED <<disk, memory, peeks, up, line, stage, op, faults, ends>>

\* What the readers of a process have read is older than its write.
Outdate(p) ==
  peek' = [x \in Reader |-> IF HomeOf[x] = p /\ peek[x] = "read" THEN "old" ELSE peek[x]]

\* writeJsonFile's rename.
Land(c) ==
  /\ pc[c] = "read"
  /\ file' = Change(op[c], seen[c])
  /\ kept' = kept \cup {file'}
  /\ promised' = Unsaid(op[c])
  /\ pc' = [pc EXCEPT ![c] = "landed"]
  /\ Outdate(PidOf[c])
  /\ UNCHANGED <<memory, got, up, line, stage, op, seen, faults, ends>>

\* The bytes and the rename of a durable write reach the disk.
Synced(c) == kept' = IF op[c] \in Durable THEN {file} ELSE kept

Finish(c) ==
  /\ pc[c] = "landed"
  /\ Synced(c)
  /\ promised' = Said(op[c])
  /\ Refresh(c) /\ behind' = behind \ {PidOf[c]}
  /\ Done(c, "yes")
  /\ UNCHANGED <<file, peeks, up, op, seen, faults, ends>>

\* What of a mutation can fail: its wait for the lock, its write, and, for a
\* durable one, opening the directory to sync it.
MayFail(c) ==
  /\ faults < MaxFaults
  /\ \/ pc[c] = "chained" /\ stage[c] = "waiting"
     \/ pc[c] = "read"
     \/ pc[c] = "landed" /\ op[c] \in Durable

\* Mutant: a strict mutation stays in memory as well.
ThrowNot(c) ==
  /\ op[c] \in Strict
  /\ Done(c, "excused") /\ UNCHANGED cache

\* Mutant: a strict mutation that fails does not release the chain.
ThrowHolding(c) ==
  /\ op[c] \in Strict
  /\ pc' = [pc EXCEPT ![c] = "no"]
  /\ Lock!Leave(c) /\ UNCHANGED <<line, cache>>

\* The catch: a strict mutation throws, ...
Throw(c) ==
  /\ op[c] \in Strict
  /\ Done(c, "no") /\ UNCHANGED cache

\* ... any other is applied to the cache, ...
Apply(c) ==
  /\ op[c] \notin Strict /\ cache[PidOf[c]] # NONE
  /\ Done(c, "excused")
  /\ Keep(PidOf[c], Change(op[c], cache[PidOf[c]]))

\* ... which it has to load if there is none, out of the lock but still in its turn.
FallBack(c) ==
  /\ op[c] \notin Strict /\ cache[PidOf[c]] = NONE
  /\ pc' = [pc EXCEPT ![c] = "soft"]
  /\ Lock!Leave(c) /\ UNCHANGED <<line, cache>>

Fail(c) ==
  /\ MayFail(c)
  /\ faults' = faults + 1
  /\ Throw(c) \/ Apply(c) \/ FallBack(c)
  /\ UNCHANGED <<disk, behind, peeks, up, op, seen, ends>>

Reread(c) ==
  /\ pc[c] = "soft"
  /\ seen' = [seen EXCEPT ![c] = file]
  /\ pc' = [pc EXCEPT ![c] = "reread"]
  /\ UNCHANGED <<disk, memory, peeks, up, line, stage, op, faults, ends>>

Excuse(c) ==
  /\ pc[c] = "reread"
  /\ pc' = [pc EXCEPT ![c] = "excused"]
  /\ line' = [line EXCEPT ![PidOf[c]] = Tail(@)]
  /\ Refresh(c) /\ behind' = behind \ {PidOf[c]}
  /\ UNCHANGED <<disk, peeks, up, stage, op, seen, faults, ends>>

-----------------------------------------------------------------------------
(* getStore *)

\* A reader finds no cache, ...
Peek(x) ==
  /\ HomeOf[x] \in up /\ cache[HomeOf[x]] = NONE /\ peek[x] = "none"
  /\ peek' = [peek EXCEPT ![x] = "asked"]
  /\ UNCHANGED <<disk, memory, got, up, calls, faults, ends>>

\* ... reads the file, without the lock, ...
Look(x) ==
  /\ peek[x] = "asked"
  /\ peek' = [peek EXCEPT ![x] = "read"]
  /\ got' = [got EXCEPT ![x] = file]
  /\ UNCHANGED <<disk, memory, up, calls, faults, ends>>

\* ... and what it read becomes the cache, whatever that is by now.
Load(x) ==
  LET p == HomeOf[x]
  IN /\ peek[x] \in {"read", "old"}
     /\ peek' = [peek EXCEPT ![x] = "none"]
     /\ Keep(p, got[x])
     /\ behind' = IF peek[x] = "old" THEN behind \cup {p} ELSE behind \ {p}
     /\ got' = [got EXCEPT ![x] = Empty]
     /\ UNCHANGED <<disk, up, calls, faults, ends>>

-----------------------------------------------------------------------------
(* Processes *)

\* What the processes of S had in memory is gone, and their calls end. Their
\* file locks fall to the next who asks (file-lock.ts).
Gone(S) ==
  /\ up' = up \ S
  /\ cache' = [p \in Process |-> IF p \in S THEN NONE ELSE cache[p]]
  /\ behind' = behind \ S
  /\ peek' = [x \in Reader |-> IF HomeOf[x] \in S THEN "none" ELSE peek[x]]
  /\ got' = [x \in Reader |-> IF HomeOf[x] \in S THEN Empty ELSE got[x]]
  /\ line' = [p \in Process |-> IF p \in S THEN <<>> ELSE line[p]]
  /\ Lock!Die({c \in Call : PidOf[c] \in S /\ pc[c] # "idle"})
  /\ ends < MaxEnds /\ ends' = ends + 1

Crash(p) ==
  /\ p \in up
  /\ Gone({p})
  /\ pc' = [c \in Call |-> IF PidOf[c] = p /\ pc[c] \notin {"idle", "yes"}
                             THEN "lost" ELSE pc[c]]
  /\ UNCHANGED <<disk, op, seen, faults>>

PowerLoss ==
  /\ Gone(Process)
  /\ pc' = [c \in Call |-> IF pc[c] = "idle" THEN "idle" ELSE "lost"]
  /\ file' \in kept /\ kept' = {file'}
  /\ UNCHANGED <<promised, op, seen, faults>>

Start(p) ==
  /\ p \notin up /\ up' = up \cup {p}
  /\ UNCHANGED <<disk, memory, peeks, calls, faults, ends>>

Step(c) == Ask(c) \/ Enter(c) \/ Read(c) \/ Land(c) \/ Finish(c) \/ Reread(c) \/ Excuse(c)

Visit(x) == Peek(x) \/ Look(x) \/ Load(x)

Next ==
  \/ \E c \in Call, o \in Op : Invoke(c, o)
  \/ \E c \in Call : Step(c) \/ Fail(c)
  \/ \E x \in Reader : Visit(x)
  \/ \E p \in Process : Crash(p) \/ Start(p)
  \/ PowerLoss

Spec == Init /\ [][Next]_vars

\* Every call goes on until it is over: the promises resolve, and a free lock
\* is taken by one of those that wait for it.
FairSpec == Spec /\ \A c \in Call : WF_vars(Step(c))

-----------------------------------------------------------------------------
(* Properties *)

\* Of a phone message the companion was told is stored, the row is in the
\* file, and in whatever a power loss may leave of it, until something takes
\* it out; of one it was told is withdrawn, none is, until one is put in:
\* whatever the other process wrote meanwhile (QueueNotStoredError).
AnsweredStays ==
  \A r \in Row : \A s \in kept \cup {file} :
    /\ promised[r] = "in" => In(s, r)
    /\ promised[r] = "out" => ~In(s, r)

\* Something was asked to take the row out.
TakenOut(r) ==
  \E d \in Call : pc[d] # "idle" /\ op[d].row = r
    /\ op[d].kind \in {"settle", "delete", "withdraw"}

\* The cache of c's process has the row c was told is stored.
Sees(c) ==
  LET p == PidOf[c]
  IN pc[c] = "yes" /\ op[c].kind \in {"enqueue", "relay"} /\ p \in up /\ cache[p] # NONE =>
       In(cache[p], op[c].row) \/ TakenOut(op[c].row)

\* What a process was told it enqueued, its readers see: neither the other process,
\* nor a failed mutation, nor loadQueue hides it (`the cache is refreshed to the
\* persisted result'). Only a reader whose read of the file came before the write
\* does, when it puts what it read into the cache after it, and then only until the
\* process's next mutation is through.
ReadsItsWrites == \A c \in Call : Sees(c) \/ PidOf[c] \in behind

\* The same of every cache, which getStore does not give: it assigns what it read
\* without looking at the cache again (session-queue-store.ts:160).
AlwaysReadsItsWrites == \A c \in Call : Sees(c)

\* A process's mutations reach the file in the order it asked for them
\* (writeLock keeps them FIFO, which the file lock's polling would not).
InOrder ==
  [][\A c \in Call : pc[c] = "read" /\ pc'[c] = "landed" => line[PidOf[c]][1] = c]_vars

\* A call's state as AtomicStore has it.
State == [c \in Call |-> CASE pc[c] = "idle" -> "new"
                          [] pc[c] \in {"chained", "read"} -> "asked"
                          [] pc[c] = "landed" -> "applied"
                          [] pc[c] \in FallenBack -> "excused"
                          [] OTHER -> pc[c]]

Store == INSTANCE AtomicStore WITH contents <- file, state <- State

\* No writer reverts another, a strict mutation is confirmed only when it was
\* applied, and no power loss undoes a confirmed durable one: the store
\* implements AtomicStore.
IsAStore == Store!Spec

\* What the code says of a mutation whose write failed: it is not lost while
\* the process runs, and persists again with the next that succeeds
\* (session-queue-store.ts:202).
ExcusedIsKept ==
  \A c \in Call :
    LET p == PidOf[c]  r == op[c].row
    IN pc[c] = "excused" /\ op[c].kind = "enqueue" /\ cache[p] # NONE =>
         In(cache[p], r) \/ In(file, r) \/ TakenOut(r)

\* Every mutation ends, whichever way.
EveryCallEnds == \A c \in Call : pc[c] = "chained" ~> pc[c] \in Ended
=============================================================================
