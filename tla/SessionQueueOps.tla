------------------------- MODULE SessionQueueOps -------------------------
(***************************************************************************)
(* The operations of the durable session message queue, as functions from *)
(* the rows of one session's queue to the rows after the operation. Every *)
(* operation runs inside one locked read-modify-write of the queue file   *)
(* (session-queue-store.ts mutateStore), so each is one step.             *)
(*                                                                        *)
(* A queue is an array the code keeps sorted by enqueue order. Here it is *)
(* the set of its rows, each with its place `ord' in that order. The text *)
(* of a message, its timestamps and its sender are left out.              *)
(***************************************************************************)
EXTENDS Naturals, FiniteSets

CONSTANTS
  Messages,       \* message ids
  Phone,          \* the ids the phone relay mints (qm-mobile-*)
  Asked           \* the ids sent with a pre-assigned user-line uuid

ASSUME MessagesAssumption == Phone \subseteq Messages /\ Asked \subseteq Messages

Status == {"pending", "processing", "parked"}

\* Why a row is parked. "stop" is STOP_PARKED_REASON, "recovery" is
\* START_RECOVERY_HELD_REASON, "failed" stands for every other reason.
Reason == {"none", "stop", "recovery", "failed"}

Fate == {"none", "taken", "removed", "withdrawn", "fenced"}

\* The uuid of a stdin line. A derived uuid hashes the batch's ids in queue
\* order; the order is kept as the set of pairs (earlier id, later id).
Uuid == [kind : {"none", "line", "user", "fresh"},
         key : SUBSET (Messages \X Messages), n : Nat]

NoUuid == [kind |-> "none", key |-> {}, n |-> 0]

UserUuid(m) == [kind |-> "user", key |-> {<<m, m>>}, n |-> 0]

\* randomUUID(): the n-th one drawn.
FreshUuid(n) == [kind |-> "fresh", key |-> {}, n |-> n]

\* `tries' is counted up to 2: the code only asks whether it is above one.
Row == [id : Messages, ord : Nat, status : Status, reason : Reason,
        uuid : Uuid, tries : 0..2, doubt : BOOLEAN, resent : BOOLEAN,
        fence : Nat]

Ids(rows) == {r.id : r \in rows}

Pending(rows) == {r \in rows : r.status = "pending"}

Earliest(rows) == CHOOSE r \in rows : \A x \in rows : r.ord <= x.ord

Latest(rows) == CHOOSE r \in rows : \A x \in rows : x.ord <= r.ord

UpTo(rows, r) == {x \in rows : x.ord < r.ord \/ x = r}

-----------------------------------------------------------------------------
(* Picking a line *)

\* batch-uuid.ts lineUuidFor: the last pre-assigned uuid, else the hash.
LineUuidFor(batch) ==
  LET asked == {r \in batch : r.id \in Asked}
  IN IF asked # {} THEN UserUuid(Latest(asked).id)
     ELSE [kind |-> "line",
           key |-> {<<p[1].id, p[2].id>> :
                      p \in {q \in batch \X batch : q[1].ord <= q[2].ord}},
           n |-> 0]

\* batch-uuid.ts splitBatchAtUuid: a pre-assigned uuid goes alone.
SplitBatchAtUuid(run) ==
  IF Earliest(run).id \in Asked THEN {Earliest(run)}
  ELSE {r \in run : \A x \in UpTo(run, r) : x.id \notin Asked}

\* Mutant: a row joins the head's line whatever line it had.
HeadRunAny(rows) == Pending(rows)

\* Mutant: the rows of a line that went out before go out one by one.
HeadRunAlone(rows) ==
  IF Earliest(Pending(rows)).uuid = NoUuid
    THEN {r \in Pending(rows) : \A x \in UpTo(Pending(rows), r) : x.uuid = NoUuid}
    ELSE {Earliest(Pending(rows))}

\* The leading pending rows that share the head's line.
HeadRun(rows) ==
  {r \in Pending(rows) :
     \A x \in UpTo(Pending(rows), r) :
        x.uuid = Earliest(Pending(rows)).uuid}

PickBatch(rows) ==
  IF Pending(rows) = {} THEN {}
  ELSE IF Earliest(Pending(rows)).uuid # NoUuid THEN HeadRun(rows)
       ELSE SplitBatchAtUuid(HeadRun(rows))

Park(r, why) == [r EXCEPT !.status = "parked", !.reason = why]

\* Rows queued under another fence than the delivery's are set aside first.
SetAsideOlder(rows, fence) ==
  {IF r.status = "pending" /\ r.fence # fence THEN Park(r, "stop") ELSE r :
     r \in rows}

\* Mutant: a row's second line is named by its new batch.
MarkedRenamed(rows, fence) ==
  LET batch == PickBatch(SetAsideOlder(rows, fence))
  IN {[r EXCEPT !.status = "processing", !.uuid = LineUuidFor(batch),
                !.tries = IF r.tries = 0 THEN 1 ELSE 2] : r \in batch}

\* Mutant: the tries are counted without end.
MarkedUncapped(rows, fence) ==
  LET batch == PickBatch(SetAsideOlder(rows, fence))
      head == Earliest(batch)
      uuid == IF head.uuid # NoUuid THEN head.uuid ELSE LineUuidFor(batch)
  IN {[r EXCEPT !.status = "processing", !.uuid = uuid,
                !.tries = r.tries + 1] : r \in batch}

\* markProcessing: the rows that go out now, as they are written.
MarkedBatch(rows, fence) ==
  LET batch == PickBatch(SetAsideOlder(rows, fence))
      head == Earliest(batch)
      uuid == IF head.uuid # NoUuid THEN head.uuid ELSE LineUuidFor(batch)
  IN {[r EXCEPT !.status = "processing", !.uuid = uuid,
                !.tries = IF r.tries = 0 THEN 1 ELSE 2] : r \in batch}

MarkProcessing(rows, fence) ==
  {r \in SetAsideOlder(rows, fence) : r.id \notin Ids(MarkedBatch(rows, fence))}
    \cup MarkedBatch(rows, fence)

-----------------------------------------------------------------------------
(* What a delivery's outcome does to its rows *)

\* removeTaken: whatever their status.
RemoveTaken(rows, ids) == {r \in rows : r.id \notin ids}

\* Mutant: the doubt about the line is not recorded.
RevertWithoutDoubt(rows, ids) ==
  {IF r.id \in ids /\ r.status = "processing"
     THEN [r EXCEPT !.status = "pending"] ELSE r : r \in rows}

\* revertIfQueued: back to pending in place, the line in doubt.
RevertIfQueued(rows, ids) ==
  {IF r.id \in ids /\ r.status = "processing"
     THEN [r EXCEPT !.status = "pending",
                    !.doubt = IF r.uuid # NoUuid THEN TRUE ELSE r.doubt]
     ELSE r : r \in rows}

\* revertToPending: back to pending, a row that is gone inserted again.
RevertToPending(rows, copies) ==
  {IF r.id \in Ids(copies) /\ r.status = "processing"
     THEN [r EXCEPT !.status = "pending"] ELSE r : r \in rows}
  \cup {IF c.status = "processing" THEN [c EXCEPT !.status = "pending"] ELSE c :
          c \in {d \in copies : d.id \notin Ids(rows)}}

\* requeueUnanswered: the rows of line `uuid' it sends once more, ...
Resendable(rows, ids, uuid) ==
  {r \in rows : /\ r.id \in ids /\ r.status # "parked"
                /\ (r.uuid = NoUuid \/ r.uuid = uuid)
                /\ ~r.resent}

\* ... the ones already sent once more, ...
Exhausted(rows, ids, uuid) ==
  {r \in rows : /\ r.id \in ids /\ r.status # "parked"
                /\ (r.uuid = NoUuid \/ r.uuid = uuid)
                /\ r.resent}

\* ... and the queue after it, the n-th random uuid drawn for the line.
RequeueUnanswered(rows, ids, uuid, n) ==
  {IF r \in Resendable(rows, ids, uuid)
     THEN [r EXCEPT !.status = "pending", !.uuid = FreshUuid(n), !.tries = 0,
                    !.resent = TRUE, !.doubt = FALSE]
     ELSE r : r \in rows}

\* loadQueue: a server start.
LoadQueue(rows) == RevertIfQueued(rows, Messages)

-----------------------------------------------------------------------------
(* The dead-letter half *)

\* parkMessages: parks each row, one that is gone inserted again.
ParkMessages(rows, copies, why) ==
  {IF r.id \in Ids(copies) /\ r.status # "parked" THEN Park(r, why) ELSE r :
     r \in rows}
  \cup {IF c.status # "parked" THEN Park(c, why) ELSE c :
          c \in {d \in copies : d.id \notin Ids(rows)}}

\* parkIfQueued: parks the rows still here.
ParkIfQueued(rows, ids, why) ==
  {IF r.id \in ids /\ r.status # "parked" THEN Park(r, why) ELSE r : r \in rows}

\* parkIfQueued with freshLine and transcribed: a Retry is a new line.
ParkForFreshLine(rows, ids, why, n) ==
  {IF r.id \in ids /\ r.status # "parked"
     THEN [Park(r, why) EXCEPT !.uuid = FreshUuid(n), !.tries = 0,
                               !.doubt = FALSE]
     ELSE r : r \in rows}

\* Mutant: a Retry always draws a new uuid.
UnparkRenamed(rows, m, fence, n) ==
  {IF r.id = m /\ r.status = "parked"
     THEN [r EXCEPT !.status = "pending", !.reason = "none", !.fence = fence,
                    !.resent = FALSE, !.uuid = FreshUuid(n), !.tries = 0]
     ELSE r : r \in rows}

\* unparkMessage: a person's Retry, under the session's latest fence.
Unpark(rows, m, fence, n) ==
  {IF r.id = m /\ r.status = "parked"
     THEN [r EXCEPT !.status = "pending", !.reason = "none", !.fence = fence,
                    !.resent = FALSE,
                    !.uuid = IF r.uuid = NoUuid /\ r.id \notin Asked
                               THEN FreshUuid(n) ELSE r.uuid,
                    !.tries = IF r.uuid = NoUuid /\ r.id \notin Asked
                                THEN 0 ELSE r.tries]
     ELSE r : r \in rows}

\* holdForStartRecovery: rows a started process never read wait, parked.
HoldForStartRecovery(rows, copies) ==
  {IF r.id \in Ids(copies) /\ ~(r.status = "parked" /\ r.reason # "recovery")
     THEN Park(r, "recovery") ELSE r : r \in rows}
  \cup {IF c.status = "parked" /\ c.reason # "recovery"
          THEN c ELSE Park(c, "recovery") :
          c \in {d \in copies : d.id \notin Ids(rows)}}

HeldForRecovery(rows) ==
  {r \in rows : r.status = "parked" /\ r.reason = "recovery"}

\* settleStartRecoveryHeld, both ways.
ReleaseHeld(rows) ==
  {IF r \in HeldForRecovery(rows)
     THEN [r EXCEPT !.status = "pending", !.reason = "none"] ELSE r : r \in rows}

GiveUpHeld(rows) ==
  {IF r \in HeldForRecovery(rows) THEN Park(r, "failed") ELSE r : r \in rows}

-----------------------------------------------------------------------------
(* The companion's question (relay-fates.ts withdrawIn) *)

\* May a row here still run ahead of the place `ord'?
EarlierQueued(rows, ord) ==
  \E r \in rows : r.ord < ord /\ r.status \in {"pending", "processing"}

WithdrawAnswer(rows, fate, m) ==
  IF m \in Ids(rows)
    THEN LET r == CHOOSE x \in rows : x.id = m
         IN CASE r.status = "processing" -> "delivering"
              [] r.status = "parked" -> IF r.reason = "stop" THEN "stopped" ELSE "parked"
              [] r.status = "pending" /\ r.doubt -> "delivering"
              [] r.status = "pending" /\ ~r.doubt /\ EarlierQueued(rows, r.ord) -> "behind"
              [] OTHER -> "withdrawn"
    ELSE CASE fate = "taken" -> "delivered"
           [] fate = "removed" -> "removed"
           [] fate = "withdrawn" -> "withdrawn"
           [] fate = "fenced" -> "not-received"
           [] OTHER -> IF \E r \in rows : r.status \in {"pending", "processing"}
                         THEN "behind" ELSE "not-received"

\* The two answers that leave the message to the companion.
GivenBack == {"withdrawn", "not-received"}

\* noteDelivered: what a phone message that ran here has as its fate.
DeliveredFate(fate, m) ==
  IF fate = "taken" \/ (fate = "none" /\ m \in Phone) THEN "taken" ELSE fate
=============================================================================
