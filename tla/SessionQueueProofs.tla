------------------------ MODULE SessionQueueProofs ------------------------
(***************************************************************************)
(* Facts about the operations of the session queue, for every set of      *)
(* messages: each operation keeps rows rows, a batch that goes out is made*)
(* of pending rows of the delivery's own fence, and a row being delivered *)
(* stays so but where an operation says what becomes of it. Of a queue of *)
(* one row: what becomes of that row, or of a copy of it that is put back.*)
(***************************************************************************)
EXTENDS SessionQueueOps, WellFoundedInduction, TLAPS

\* A nonempty set of naturals has a least element.
LEMMA NatMin ==
  ASSUME NEW S \in SUBSET Nat, S # {}
  PROVE  \E n \in S : \A k \in S : n <= k
<1> DEFINE R == {ss \in Nat \X Nat : ss[1] < ss[2]}
<1>1. IsWellFoundedOn(R, Nat)
  BY NatLessThanWellFounded DEF OpToRel
<1>2. \E x \in S : \A y \in S : ~ (<<y, x>> \in R)
  <2> HIDE DEF R
  <2> QED BY <1>1, WFMin
<1>3. ASSUME NEW x \in S, NEW y \in S, ~(<<y, x>> \in R) PROVE x <= y
  BY <1>3
<1> QED BY <1>2, <1>3

\* A nonempty set of rows has an earliest one, and Earliest is it.
LEMMA EarliestIn ==
  ASSUME NEW rows \in SUBSET Row, rows # {}
  PROVE  /\ Earliest(rows) \in rows
         /\ \A x \in rows : Earliest(rows).ord <= x.ord
<1> DEFINE places == {r.ord : r \in rows}
<1>1. places \in SUBSET Nat /\ places # {}
  BY DEF Row
<1>2. PICK n \in places : \A k \in places : n <= k
  <2> HIDE DEF places
  <2> QED BY <1>1, NatMin
<1>3. PICK r \in rows : \A x \in rows : r.ord <= x.ord
  BY <1>2
<1> QED BY <1>3 DEF Earliest

\* The uuid a line is known by is a uuid.
LEMMA EarliestUuid ==
  ASSUME NEW rows \in SUBSET Row, rows # {}
  PROVE  Earliest(rows).uuid \in Uuid
<1>1. Earliest(rows) \in Row
  BY EarliestIn
<1> QED BY <1>1 DEF Row

\* The uuids the queue makes are uuids.
LEMMA UuidTypes ==
  /\ NoUuid \in Uuid
  /\ \A m \in Messages : UserUuid(m) \in Uuid
  /\ \A n \in Nat : FreshUuid(n) \in Uuid
BY DEF Uuid, NoUuid, UserUuid, FreshUuid

-----------------------------------------------------------------------------
(* The batch that goes out *)

\* Setting older rows aside keeps rows rows (markProcessing).
LEMMA SetAsideType ==
  ASSUME NEW rows \in SUBSET Row, NEW f \in Nat
  PROVE  SetAsideOlder(rows, f) \in SUBSET Row
<1>1. \A r \in rows : Park(r, "stop") \in Row
  BY DEF Park, Row, Status, Reason
<1> QED BY <1>1 DEF SetAsideOlder

\* After it, every pending row has the delivery's own fence.
LEMMA SetAsideFence ==
  ASSUME NEW rows \in SUBSET Row, NEW f \in Nat,
         NEW r \in SetAsideOlder(rows, f), r.status = "pending"
  PROVE  r.fence = f
<1>1. \A x \in rows : Park(x, "stop").status = "parked"
  BY DEF Park, Row
<1> QED BY <1>1 DEF SetAsideOlder

\* The leading run is made of pending rows, and has one if there are any.
LEMMA HeadRunPending ==
  ASSUME NEW rows \in SUBSET Row, Pending(rows) # {}
  PROVE  HeadRun(rows) \subseteq Pending(rows) /\ HeadRun(rows) # {}
<1> DEFINE head == Earliest(Pending(rows))
<1>1. Pending(rows) \in SUBSET Row
  BY DEF Pending
<1>2. head \in Pending(rows) /\ \A x \in Pending(rows) : head.ord <= x.ord
  BY <1>1, EarliestIn
<1>3. UpTo(Pending(rows), head) = {head}
  BY <1>1, <1>2 DEF UpTo, Row
<1> QED BY <1>2, <1>3 DEF HeadRun

\* A batch split at its first pre-assigned uuid keeps at least its first row.
LEMMA SplitKeepsSome ==
  ASSUME NEW run \in SUBSET Row, run # {}
  PROVE  SplitBatchAtUuid(run) \subseteq run /\ SplitBatchAtUuid(run) # {}
<1>1. Earliest(run) \in run /\ \A x \in run : Earliest(run).ord <= x.ord
  BY EarliestIn
<1>2. UpTo(run, Earliest(run)) = {Earliest(run)}
  BY <1>1 DEF UpTo, Row
<1> QED BY <1>1, <1>2 DEF SplitBatchAtUuid

\* A batch is made of pending rows (markProcessing, splitBatchAtUuid).
LEMMA PickBatchPending ==
  ASSUME NEW rows \in SUBSET Row
  PROVE  PickBatch(rows) \subseteq Pending(rows)
<1>1. CASE Pending(rows) = {}
  BY <1>1 DEF PickBatch
<1>2. CASE Pending(rows) # {}
  <2>1. HeadRun(rows) \subseteq Pending(rows) /\ HeadRun(rows) # {}
    BY <1>2, HeadRunPending
  <2>2. HeadRun(rows) \in SUBSET Row
    BY <2>1 DEF Pending
  <2>3. SplitBatchAtUuid(HeadRun(rows)) \subseteq HeadRun(rows)
    BY <2>1, <2>2, SplitKeepsSome
  <2> QED BY <1>2, <2>1, <2>3 DEF PickBatch
<1> QED BY <1>1, <1>2

\* The uuid a batch goes out under is a uuid: what was picked has one already,
\* or it is one pre-assigned message, or it holds no such message.
LEMMA LineUuidType ==
  ASSUME NEW rows \in SUBSET Row, PickBatch(rows) # {},
         Earliest(PickBatch(rows)).uuid = NoUuid
  PROVE  LineUuidFor(PickBatch(rows)) \in Uuid
<1> DEFINE batch == PickBatch(rows)
           asked == {r \in batch : r.id \in Asked}
<1>1. batch \in SUBSET Row
  BY PickBatchPending DEF Pending
<1>2. CASE asked = {}
  <2>1. \A q \in batch \X batch : <<q[1].id, q[2].id>> \in Messages \X Messages
    BY <1>1 DEF Row
  <2> DEFINE key == {<<p[1].id, p[2].id>> :
                       p \in {q \in batch \X batch : q[1].ord <= q[2].ord}}
  <2>2. key \in SUBSET (Messages \X Messages)
    BY <2>1
  <2>3. LineUuidFor(batch) = [kind |-> "line", key |-> key, n |-> 0]
    BY <1>2 DEF LineUuidFor
  <2> HIDE DEF key
  <2> QED BY <2>2, <2>3 DEF Uuid
<1>3. CASE asked # {}
  <2> DEFINE run == HeadRun(rows)
  <2>1. Pending(rows) # {} /\ run \in SUBSET Row /\ run # {}
    BY HeadRunPending DEF PickBatch, Pending
  <2>2. \A r \in run : r.uuid = Earliest(Pending(rows)).uuid
    BY DEF HeadRun, UpTo
  <2>3. Earliest(run) \in run
    BY <2>1, EarliestIn
  <2>4. Earliest(Pending(rows)).uuid = NoUuid
    BY <2>1, <2>2, <2>3 DEF PickBatch
  <2>5. batch = SplitBatchAtUuid(run)
    BY <2>1, <2>4 DEF PickBatch
  <2>6. Earliest(run).id \in Asked
    BY <1>3, <2>5 DEF SplitBatchAtUuid, UpTo
  <2>7. asked = {Earliest(run)}
    BY <2>5, <2>6 DEF SplitBatchAtUuid
  <2>8. Latest(asked) = Earliest(run)
    <3>1. \A x \in {Earliest(run)} : x.ord <= Earliest(run).ord
      BY <2>1, <2>3 DEF Row
    <3> HIDE DEF run, batch, asked
    <3> QED BY <2>7, <3>1 DEF Latest
  <2>9. LineUuidFor(batch) = UserUuid(Earliest(run).id)
    BY <1>3, <2>8 DEF LineUuidFor
  <2> QED BY <2>6, <2>9, UuidTypes, MessagesAssumption
<1> QED BY <1>2, <1>3

\* What markProcessing writes into a row keeps it a row.
LEMMA MarkedRowType ==
  \A r \in Row : \A s \in Status : \A u \in Uuid : \A t \in 0..2 :
    [r EXCEPT !.status = s, !.uuid = u, !.tries = t] \in Row
BY DEF Row

\* markProcessing sends out rows of the delivery's own fence, all of them
\* being delivered now, and leaves rows in the queue.
LEMMA MarkedBatchFacts ==
  ASSUME NEW rows \in SUBSET Row, NEW f \in Nat
  PROVE  /\ MarkedBatch(rows, f) \in SUBSET Row
         /\ \A r \in MarkedBatch(rows, f) : r.fence = f
         /\ MarkProcessing(rows, f) \in SUBSET Row
<1> DEFINE aside == SetAsideOlder(rows, f)
           batch == PickBatch(aside)
           head == Earliest(batch)
           uuid == IF head.uuid # NoUuid THEN head.uuid ELSE LineUuidFor(batch)
<1>1. aside \in SUBSET Row
  BY SetAsideType
<1>2. batch \subseteq Pending(aside)
  BY <1>1, PickBatchPending
<1>3. batch \in SUBSET Row /\ \A r \in batch : r.fence = f
  BY <1>1, <1>2, SetAsideFence DEF Pending
<1>4. ASSUME batch # {} PROVE uuid \in Uuid
  <2>1. CASE head.uuid # NoUuid
    BY <1>3, <1>4, <2>1, EarliestUuid
  <2>2. CASE head.uuid = NoUuid
    BY <1>1, <1>4, <2>2, LineUuidType
  <2> QED BY <2>1, <2>2
<1>5. ASSUME NEW r \in batch
      PROVE  LET s == [r EXCEPT !.status = "processing", !.uuid = uuid,
                                !.tries = IF r.tries = 0 THEN 1 ELSE 2]
             IN s \in Row /\ s.fence = f
  <2> DEFINE tries == IF r.tries = 0 THEN 1 ELSE 2
             sent == [r EXCEPT !.status = "processing", !.uuid = uuid, !.tries = tries]
  <2>1. uuid \in Uuid /\ r \in Row /\ r.fence = f
    BY <1>3, <1>4
  <2>2. tries \in 0..2 /\ "processing" \in Status
    BY DEF Status
  <2>3. sent \in Row
    BY <2>1, <2>2, MarkedRowType, Zenon
  <2>4. sent.fence = r.fence
    <3> HIDE DEF uuid, tries
    <3> QED BY <2>1 DEF Row
  <2> QED BY <2>1, <2>3, <2>4
<1>6. MarkedBatch(rows, f) =
        {[r EXCEPT !.status = "processing", !.uuid = uuid,
                   !.tries = IF r.tries = 0 THEN 1 ELSE 2] : r \in batch}
  BY DEF MarkedBatch
<1>7. /\ MarkedBatch(rows, f) \in SUBSET Row
      /\ \A r \in MarkedBatch(rows, f) : r.fence = f
  <2> HIDE DEF uuid, batch
  <2> QED BY <1>5, <1>6
<1>8. MarkProcessing(rows, f) \in SUBSET Row
  BY <1>1, <1>7 DEF MarkProcessing
<1> QED BY <1>7, <1>8

-----------------------------------------------------------------------------
(* Every other operation keeps rows rows *)

\* revertIfQueued, and loadQueue with it.
LEMMA RevertIfQueuedType ==
  ASSUME NEW rows \in SUBSET Row, NEW ids
  PROVE  RevertIfQueued(rows, ids) \in SUBSET Row
<1>1. \A r \in rows :
        [r EXCEPT !.status = "pending",
                  !.doubt = IF r.uuid # NoUuid THEN TRUE ELSE r.doubt] \in Row
  BY DEF Row, Status
<1> QED BY <1>1 DEF RevertIfQueued

\* revertToPending, with the copies a delivery kept.
LEMMA RevertToPendingType ==
  ASSUME NEW rows \in SUBSET Row, NEW copies \in SUBSET Row
  PROVE  RevertToPending(rows, copies) \in SUBSET Row
<1>1. \A r \in Row : [r EXCEPT !.status = "pending"] \in Row
  BY DEF Row, Status
<1> QED BY <1>1 DEF RevertToPending

\* requeueUnanswered: a second line under a new uuid.
LEMMA RequeueUnansweredType ==
  ASSUME NEW rows \in SUBSET Row, NEW ids, NEW uuid, NEW n \in Nat
  PROVE  RequeueUnanswered(rows, ids, uuid, n) \in SUBSET Row
<1>1. \A r \in Row : \A u \in Uuid : \A t \in 0..2 :
        [r EXCEPT !.status = "pending", !.uuid = u, !.tries = t,
                  !.resent = TRUE, !.doubt = FALSE] \in Row
  BY DEF Row, Status
<1>2. FreshUuid(n) \in Uuid /\ 0 \in 0..2
  BY UuidTypes
<1>3. \A r \in Row :
        [r EXCEPT !.status = "pending", !.uuid = FreshUuid(n), !.tries = 0,
                  !.resent = TRUE, !.doubt = FALSE] \in Row
  BY <1>1, <1>2, Zenon
<1> QED BY <1>3 DEF RequeueUnanswered

\* Parking a row keeps it a row.
LEMMA ParkType ==
  ASSUME NEW r \in Row, NEW why \in Reason
  PROVE  Park(r, why) \in Row
BY DEF Park, Row, Status

\* parkMessages, with the copies its caller read.
LEMMA ParkMessagesType ==
  ASSUME NEW rows \in SUBSET Row, NEW copies \in SUBSET Row, NEW why \in Reason
  PROVE  ParkMessages(rows, copies, why) \in SUBSET Row
<1>1. \A r \in Row : Park(r, why) \in Row
  BY ParkType
<1> QED BY <1>1 DEF ParkMessages

\* parkIfQueued.
LEMMA ParkIfQueuedType ==
  ASSUME NEW rows \in SUBSET Row, NEW ids, NEW why \in Reason
  PROVE  ParkIfQueued(rows, ids, why) \in SUBSET Row
<1>1. \A r \in Row : Park(r, why) \in Row
  BY ParkType
<1> QED BY <1>1 DEF ParkIfQueued

\* parkIfQueued for a message whose Retry is a new line.
LEMMA ParkForFreshLineType ==
  ASSUME NEW rows \in SUBSET Row, NEW ids, NEW why \in Reason, NEW n \in Nat
  PROVE  ParkForFreshLine(rows, ids, why, n) \in SUBSET Row
<1>1. \A r \in Row : \A u \in Uuid : \A t \in 0..2 :
        [r EXCEPT !.uuid = u, !.tries = t, !.doubt = FALSE] \in Row
  BY DEF Row
<1>2. FreshUuid(n) \in Uuid /\ 0 \in 0..2
  BY UuidTypes
<1>3. \A r \in Row : Park(r, why) \in Row
  BY ParkType
<1>4. \A r \in Row :
        [Park(r, why) EXCEPT !.uuid = FreshUuid(n), !.tries = 0, !.doubt = FALSE]
          \in Row
  BY <1>1, <1>2, <1>3, Zenon
<1> QED BY <1>4 DEF ParkForFreshLine

\* unparkMessage.
LEMMA UnparkType ==
  ASSUME NEW rows \in SUBSET Row, NEW m, NEW f \in Nat, NEW n \in Nat
  PROVE  Unpark(rows, m, f, n) \in SUBSET Row
<1> DEFINE uuid(r) == IF r.uuid = NoUuid /\ r.id \notin Asked
                        THEN FreshUuid(n) ELSE r.uuid
           tries(r) == IF r.uuid = NoUuid /\ r.id \notin Asked
                         THEN 0 ELSE r.tries
           revived(r) == [r EXCEPT !.status = "pending", !.reason = "none",
                                   !.fence = f, !.resent = FALSE,
                                   !.uuid = uuid(r), !.tries = tries(r)]
<1>1. \A r \in Row : \A u \in Uuid : \A t \in 0..2 :
        [r EXCEPT !.status = "pending", !.reason = "none", !.fence = f,
                  !.resent = FALSE, !.uuid = u, !.tries = t] \in Row
  BY DEF Row, Status, Reason
<1>2. \A r \in Row : uuid(r) \in Uuid /\ tries(r) \in 0..2
  BY UuidTypes DEF Row
<1>3. \A r \in Row : revived(r) \in Row
  BY <1>1, <1>2, Zenon
<1>4. Unpark(rows, m, f, n) =
        {IF r.id = m /\ r.status = "parked" THEN revived(r) ELSE r : r \in rows}
  BY DEF Unpark
<1> HIDE DEF revived
<1> QED BY <1>3, <1>4

\* holdForStartRecovery, with the rows the hold kept.
LEMMA HoldForStartRecoveryType ==
  ASSUME NEW rows \in SUBSET Row, NEW copies \in SUBSET Row
  PROVE  HoldForStartRecovery(rows, copies) \in SUBSET Row
<1>1. \A r \in Row : Park(r, "recovery") \in Row
  BY ParkType DEF Reason
<1> QED BY <1>1 DEF HoldForStartRecovery

\* settleStartRecoveryHeld, both ways.
LEMMA SettleHeldType ==
  ASSUME NEW rows \in SUBSET Row
  PROVE  ReleaseHeld(rows) \in SUBSET Row /\ GiveUpHeld(rows) \in SUBSET Row
<1>1. \A r \in Row : Park(r, "failed") \in Row
  BY ParkType DEF Reason
<1>2. \A r \in Row : [r EXCEPT !.status = "pending", !.reason = "none"] \in Row
  BY DEF Row, Status, Reason
<1> QED BY <1>1, <1>2 DEF ReleaseHeld, GiveUpHeld

-----------------------------------------------------------------------------
(* Nothing but a removal takes a row out of the queue *)

\* markProcessing rewrites rows and drops none.
LEMMA MarkKeepsIds ==
  ASSUME NEW rows \in SUBSET Row, NEW f
  PROVE  Ids(rows) \subseteq Ids(MarkProcessing(rows, f))
<1>1. \A r \in rows : Park(r, "stop").id = r.id
  BY DEF Park, Row
<1>2. Ids(rows) \subseteq Ids(SetAsideOlder(rows, f))
  BY <1>1 DEF Ids, SetAsideOlder
<1>3. Ids(SetAsideOlder(rows, f)) \subseteq Ids(MarkProcessing(rows, f))
  BY DEF Ids, MarkProcessing
<1> QED BY <1>2, <1>3

\* Neither does putting rows back in line (revertIfQueued, revertToPending).
LEMMA RevertKeepsIds ==
  ASSUME NEW rows \in SUBSET Row
  PROVE  /\ \A ids : Ids(rows) \subseteq Ids(RevertIfQueued(rows, ids))
         /\ \A copies : Ids(rows) \subseteq Ids(RevertToPending(rows, copies))
         /\ Ids(rows) \subseteq Ids(LoadQueue(rows))
<1> DEFINE back(r) == [r EXCEPT !.status = "pending",
                !.doubt = IF r.uuid # NoUuid THEN TRUE ELSE r.doubt]
<1>1. \A r \in rows : back(r).id = r.id
  BY DEF Row
<1>2. \A r \in rows : [r EXCEPT !.status = "pending"].id = r.id
  BY DEF Row
<1>3. ASSUME NEW ids PROVE Ids(rows) \subseteq Ids(RevertIfQueued(rows, ids))
  <2>1. RevertIfQueued(rows, ids) =
          {IF r.id \in ids /\ r.status = "processing" THEN back(r) ELSE r : r \in rows}
    BY DEF RevertIfQueued
  <2> HIDE DEF back
  <2> QED BY <1>1, <2>1 DEF Ids
<1>4. \A copies : Ids(rows) \subseteq Ids(RevertToPending(rows, copies))
  BY <1>2 DEF Ids, RevertToPending
<1> QED BY <1>3, <1>4 DEF LoadQueue

\* Neither does parking them (parkMessages, parkIfQueued, holdForStartRecovery).
LEMMA ParkKeepsIds ==
  ASSUME NEW rows \in SUBSET Row
  PROVE  /\ \A copies, why : Ids(rows) \subseteq Ids(ParkMessages(rows, copies, why))
         /\ \A ids, why : Ids(rows) \subseteq Ids(ParkIfQueued(rows, ids, why))
         /\ \A copies : Ids(rows) \subseteq Ids(HoldForStartRecovery(rows, copies))
         /\ Ids(rows) \subseteq Ids(ReleaseHeld(rows))
         /\ Ids(rows) \subseteq Ids(GiveUpHeld(rows))
<1>1. \A why : \A r \in rows : Park(r, why).id = r.id
  BY DEF Park, Row
<1>2. \A r \in rows : [r EXCEPT !.status = "pending", !.reason = "none"].id = r.id
  BY DEF Row
<1>3. \A copies, why : Ids(rows) \subseteq Ids(ParkMessages(rows, copies, why))
  BY <1>1 DEF Ids, ParkMessages
<1>4. \A ids, why : Ids(rows) \subseteq Ids(ParkIfQueued(rows, ids, why))
  BY <1>1 DEF Ids, ParkIfQueued
<1>5. \A copies : Ids(rows) \subseteq Ids(HoldForStartRecovery(rows, copies))
  BY <1>1 DEF Ids, HoldForStartRecovery
<1>6. Ids(rows) \subseteq Ids(ReleaseHeld(rows))
  BY <1>2 DEF Ids, ReleaseHeld
<1>7. Ids(rows) \subseteq Ids(GiveUpHeld(rows))
  BY <1>1 DEF Ids, GiveUpHeld
<1> QED BY <1>3, <1>4, <1>5, <1>6, <1>7

\* Neither does a new line for them (requeueUnanswered, parkIfQueued freshLine,
\* unparkMessage).
LEMMA FreshLineKeepsIds ==
  ASSUME NEW rows \in SUBSET Row
  PROVE  /\ \A ids, u, n : Ids(rows) \subseteq Ids(RequeueUnanswered(rows, ids, u, n))
         /\ \A ids, why, n : Ids(rows) \subseteq Ids(ParkForFreshLine(rows, ids, why, n))
         /\ \A m, f, n : Ids(rows) \subseteq Ids(Unpark(rows, m, f, n))
<1>1. ASSUME NEW ids, NEW u, NEW n
      PROVE  Ids(rows) \subseteq Ids(RequeueUnanswered(rows, ids, u, n))
  <2> DEFINE again(r) == [r EXCEPT !.status = "pending", !.uuid = FreshUuid(n),
                            !.tries = 0, !.resent = TRUE, !.doubt = FALSE]
  <2>1. \A r \in rows : again(r).id = r.id
    BY DEF Row
  <2>2. RequeueUnanswered(rows, ids, u, n) =
          {IF r \in Resendable(rows, ids, u) THEN again(r) ELSE r : r \in rows}
    BY DEF RequeueUnanswered
  <2> HIDE DEF again
  <2> QED BY <2>1, <2>2 DEF Ids
<1>2. ASSUME NEW ids, NEW why, NEW n
      PROVE  Ids(rows) \subseteq Ids(ParkForFreshLine(rows, ids, why, n))
  <2> DEFINE aside(r) == [Park(r, why) EXCEPT !.uuid = FreshUuid(n), !.tries = 0,
                                              !.doubt = FALSE]
  <2>1. \A r \in rows : aside(r).id = r.id
    BY DEF Row, Park
  <2>2. ParkForFreshLine(rows, ids, why, n) =
          {IF r.id \in ids /\ r.status # "parked" THEN aside(r) ELSE r : r \in rows}
    BY DEF ParkForFreshLine
  <2> HIDE DEF aside
  <2> QED BY <2>1, <2>2 DEF Ids
<1>3. ASSUME NEW m, NEW f, NEW n
      PROVE  Ids(rows) \subseteq Ids(Unpark(rows, m, f, n))
  <2> DEFINE uuid(r) == IF r.uuid = NoUuid /\ r.id \notin Asked
                          THEN FreshUuid(n) ELSE r.uuid
             tries(r) == IF r.uuid = NoUuid /\ r.id \notin Asked
                           THEN 0 ELSE r.tries
             revived(r) == [r EXCEPT !.status = "pending", !.reason = "none",
                                     !.fence = f, !.resent = FALSE,
                                     !.uuid = uuid(r), !.tries = tries(r)]
  <2>1. \A r \in rows : revived(r).id = r.id
    <3> HIDE DEF uuid, tries
    <3> QED BY DEF Row
  <2>2. Unpark(rows, m, f, n) =
          {IF r.id = m /\ r.status = "parked" THEN revived(r) ELSE r : r \in rows}
    BY DEF Unpark
  <2> HIDE DEF revived
  <2> QED BY <2>1, <2>2 DEF Ids
<1> QED BY <1>1, <1>2, <1>3

-----------------------------------------------------------------------------
(* Nothing but markProcessing starts a delivery of a row *)

Delivering(rows) == {r \in rows : r.status = "processing"}

\* The rows of a batch share the uuid of its first row (markProcessing).
LEMMA MarkedTogether ==
  ASSUME NEW rows \in SUBSET Row, NEW f \in Nat
  PROVE  \A r, x \in MarkedBatch(rows, f) : r.uuid = x.uuid
<1> DEFINE batch == PickBatch(SetAsideOlder(rows, f))
           head == Earliest(batch)
           uuid == IF head.uuid # NoUuid THEN head.uuid ELSE LineUuidFor(batch)
           sent(r) == [r EXCEPT !.status = "processing", !.uuid = uuid,
                                !.tries = IF r.tries = 0 THEN 1 ELSE 2]
<1>1. batch \in SUBSET Row
  BY SetAsideType, PickBatchPending DEF Pending
<1>2. ASSUME NEW r \in batch PROVE sent(r).uuid = uuid
  <2> HIDE DEF uuid
  <2>1. r \in Row
    BY <1>1
  <2> QED BY <2>1 DEF Row
<1>3. MarkedBatch(rows, f) = {sent(r) : r \in batch}
  BY DEF MarkedBatch
<1> HIDE DEF sent, batch, uuid
<1> QED BY <1>2, <1>3

\* markProcessing delivers its batch, beside what was being delivered.
LEMMA MarkDelivers ==
  ASSUME NEW rows \in SUBSET Row, NEW f \in Nat
  PROVE  Delivering(MarkProcessing(rows, f))
           \subseteq Delivering(rows) \cup MarkedBatch(rows, f)
<1>1. \A r \in rows : Park(r, "stop").status = "parked"
  BY DEF Park, Row
<1>2. Delivering(SetAsideOlder(rows, f)) \subseteq Delivering(rows)
  BY <1>1 DEF Delivering, SetAsideOlder
<1> QED BY <1>2 DEF Delivering, MarkProcessing

\* What puts rows back in line ends their delivery and starts none.
LEMMA RevertEndsDelivery ==
  ASSUME NEW rows \in SUBSET Row
  PROVE  /\ \A ids : Delivering(RevertIfQueued(rows, ids))
                       \subseteq {r \in Delivering(rows) : r.id \notin ids}
         /\ \A copies \in SUBSET Row :
              Delivering(RevertToPending(rows, copies))
                \subseteq {r \in Delivering(rows) : r.id \notin Ids(copies)}
         /\ Delivering(LoadQueue(rows)) = {}
<1> DEFINE back(r) == [r EXCEPT !.status = "pending",
                !.doubt = IF r.uuid # NoUuid THEN TRUE ELSE r.doubt]
<1>1. \A r \in rows : back(r).status = "pending"
  BY DEF Row
<1>2. \A r \in Row : [r EXCEPT !.status = "pending"].status = "pending"
  BY DEF Row
<1>3. ASSUME NEW ids
      PROVE  Delivering(RevertIfQueued(rows, ids))
               \subseteq {r \in Delivering(rows) : r.id \notin ids}
  <2>1. RevertIfQueued(rows, ids) =
          {IF r.id \in ids /\ r.status = "processing" THEN back(r) ELSE r : r \in rows}
    BY DEF RevertIfQueued
  <2> HIDE DEF back
  <2> QED BY <1>1, <2>1 DEF Delivering
<1>4. \A copies \in SUBSET Row :
        Delivering(RevertToPending(rows, copies))
          \subseteq {r \in Delivering(rows) : r.id \notin Ids(copies)}
  BY <1>2 DEF Delivering, RevertToPending
<1>5. Delivering(LoadQueue(rows)) = {}
  BY <1>3 DEF LoadQueue, Row, Delivering
<1> HIDE DEF back
<1> QED BY <1>3, <1>4, <1>5

\* So does parking them.
LEMMA ParkEndsDelivery ==
  ASSUME NEW rows \in SUBSET Row
  PROVE  /\ \A copies \in SUBSET Row : \A why :
              Delivering(ParkMessages(rows, copies, why))
                \subseteq {r \in Delivering(rows) : r.id \notin Ids(copies)}
         /\ \A ids, why : Delivering(ParkIfQueued(rows, ids, why))
                            \subseteq {r \in Delivering(rows) : r.id \notin ids}
         /\ \A copies \in SUBSET Row :
              Delivering(HoldForStartRecovery(rows, copies))
                \subseteq {r \in Delivering(rows) : r.id \notin Ids(copies)}
         /\ Delivering(ReleaseHeld(rows)) \subseteq Delivering(rows)
         /\ Delivering(GiveUpHeld(rows)) \subseteq Delivering(rows)
<1>1. \A why : \A r \in Row : Park(r, why).status = "parked"
  BY DEF Park, Row
<1>2. \A r \in rows : [r EXCEPT !.status = "pending", !.reason = "none"].status = "pending"
  BY DEF Row
<1>3. \A copies \in SUBSET Row : \A why :
        Delivering(ParkMessages(rows, copies, why))
          \subseteq {r \in Delivering(rows) : r.id \notin Ids(copies)}
  BY <1>1 DEF Delivering, ParkMessages
<1>4. \A ids, why : Delivering(ParkIfQueued(rows, ids, why))
                      \subseteq {r \in Delivering(rows) : r.id \notin ids}
  BY <1>1 DEF Delivering, ParkIfQueued
<1>5. \A copies \in SUBSET Row :
        Delivering(HoldForStartRecovery(rows, copies))
          \subseteq {r \in Delivering(rows) : r.id \notin Ids(copies)}
  BY <1>1 DEF Delivering, HoldForStartRecovery
<1>6. Delivering(ReleaseHeld(rows)) \subseteq Delivering(rows)
  BY <1>2 DEF Delivering, ReleaseHeld
<1>7. Delivering(GiveUpHeld(rows)) \subseteq Delivering(rows)
  BY <1>1 DEF Delivering, GiveUpHeld
<1> QED BY <1>3, <1>4, <1>5, <1>6, <1>7

\* And so does a new line for them.
LEMMA FreshLineEndsDelivery ==
  ASSUME NEW rows \in SUBSET Row
  PROVE  /\ \A ids, u, n : Delivering(RequeueUnanswered(rows, ids, u, n))
                             \subseteq Delivering(rows) \ Resendable(rows, ids, u)
         /\ \A ids, why, n : Delivering(ParkForFreshLine(rows, ids, why, n))
                               \subseteq {r \in Delivering(rows) : r.id \notin ids}
         /\ \A m, f, n : Delivering(Unpark(rows, m, f, n)) \subseteq Delivering(rows)
<1>1. ASSUME NEW ids, NEW u, NEW n
      PROVE  Delivering(RequeueUnanswered(rows, ids, u, n))
               \subseteq Delivering(rows) \ Resendable(rows, ids, u)
  <2> DEFINE again(r) == [r EXCEPT !.status = "pending", !.uuid = FreshUuid(n),
                            !.tries = 0, !.resent = TRUE, !.doubt = FALSE]
  <2>1. \A r \in rows : again(r).status = "pending"
    BY DEF Row
  <2>2. RequeueUnanswered(rows, ids, u, n) =
          {IF r \in Resendable(rows, ids, u) THEN again(r) ELSE r : r \in rows}
    BY DEF RequeueUnanswered
  <2> HIDE DEF again
  <2> QED BY <2>1, <2>2 DEF Delivering
<1>2. ASSUME NEW ids, NEW why, NEW n
      PROVE  Delivering(ParkForFreshLine(rows, ids, why, n))
               \subseteq {r \in Delivering(rows) : r.id \notin ids}
  <2> DEFINE aside(r) == [Park(r, why) EXCEPT !.uuid = FreshUuid(n), !.tries = 0,
                                              !.doubt = FALSE]
  <2>1. \A r \in rows : aside(r).status = "parked"
    BY DEF Row, Park
  <2>2. ParkForFreshLine(rows, ids, why, n) =
          {IF r.id \in ids /\ r.status # "parked" THEN aside(r) ELSE r : r \in rows}
    BY DEF ParkForFreshLine
  <2> HIDE DEF aside
  <2> QED BY <2>1, <2>2 DEF Delivering
<1>3. ASSUME NEW m, NEW f, NEW n
      PROVE  Delivering(Unpark(rows, m, f, n)) \subseteq Delivering(rows)
  <2> DEFINE uuid(r) == IF r.uuid = NoUuid /\ r.id \notin Asked
                          THEN FreshUuid(n) ELSE r.uuid
             tries(r) == IF r.uuid = NoUuid /\ r.id \notin Asked
                           THEN 0 ELSE r.tries
             revived(r) == [r EXCEPT !.status = "pending", !.reason = "none",
                                     !.fence = f, !.resent = FALSE,
                                     !.uuid = uuid(r), !.tries = tries(r)]
  <2>1. \A r \in rows : revived(r).status = "pending"
    <3> HIDE DEF uuid, tries
    <3> QED BY DEF Row
  <2>2. Unpark(rows, m, f, n) =
          {IF r.id = m /\ r.status = "parked" THEN revived(r) ELSE r : r \in rows}
    BY DEF Unpark
  <2> HIDE DEF revived
  <2> QED BY <2>1, <2>2 DEF Delivering
<1> QED BY <1>1, <1>2, <1>3

-----------------------------------------------------------------------------
(* A queue of one row. *)

Single(rows) == \A x, y \in rows : x = y

\* The row may still go out without a person's Retry.
Waits(r) == r.status # "parked" \/ r.reason = "recovery"

\* Row x is what became of row r: its line is the same, and neither did it come
\* back in line nor did its delivery begin.
Still(x, r) ==
  /\ x.uuid = r.uuid /\ x.fence = r.fence /\ x.tries = r.tries
  /\ Waits(x) => Waits(r)
  /\ x.status = "processing" => r.status = "processing"

\* Row x is copy c put back into a queue that lost it.
BackFrom(x, c) == x.uuid = c.uuid /\ x.fence = c.fence /\ x.tries = c.tries

\* A row left alone is what it was, and so is what becomes of what became of it.
LEMMA StillOn ==
  /\ \A r : Still(r, r)
  /\ \A x, y, r : Still(x, y) /\ Still(y, r) => Still(x, r)
BY DEF Still

\* Putting a row back in line, or parking it, leaves its line to it
\* (revertIfQueued, revertToPending, settleStartRecoveryHeld).
LEMMA BackInLine ==
  ASSUME NEW r \in Row
  PROVE  /\ \A d \in BOOLEAN :
              /\ BackFrom([r EXCEPT !.status = "pending", !.doubt = d], r)
              /\ [r EXCEPT !.status = "pending", !.doubt = d].status = "pending"
         /\ BackFrom([r EXCEPT !.status = "pending"], r)
         /\ [r EXCEPT !.status = "pending"].status = "pending"
         /\ BackFrom([r EXCEPT !.status = "pending", !.reason = "none"], r)
         /\ [r EXCEPT !.status = "pending", !.reason = "none"].status = "pending"
BY DEF Row, BackFrom

\* ... and parkMessages, parkIfQueued, holdForStartRecovery.
LEMMA SetAside ==
  ASSUME NEW r \in Row, NEW why
  PROVE  /\ BackFrom(Park(r, why), r)
         /\ Park(r, why).status = "parked"
         /\ Park(r, why).reason = why
BY DEF Row, BackFrom, Park

\* A row put back in line is what it was (revertIfQueued).
LEMMA RevertIfQueuedAlone ==
  ASSUME NEW rows \in SUBSET Row, Single(rows), NEW ids
  PROVE  /\ Single(RevertIfQueued(rows, ids))
         /\ \A x \in RevertIfQueued(rows, ids) : \E r \in rows : Still(x, r)
<1> DEFINE back(r) == [r EXCEPT !.status = "pending",
                !.doubt = IF r.uuid # NoUuid THEN TRUE ELSE r.doubt]
<1>1. ASSUME NEW r \in rows, r.status = "processing" PROVE Still(back(r), r)
  <2> DEFINE d == IF r.uuid # NoUuid THEN TRUE ELSE r.doubt
  <2>1. d \in BOOLEAN /\ r \in Row
    BY DEF Row
  <2> HIDE DEF d
  <2>2. [r EXCEPT !.status = "pending", !.doubt = d].status = "pending"
        /\ BackFrom([r EXCEPT !.status = "pending", !.doubt = d], r)
    BY <2>1, BackInLine
  <2> QED BY <1>1, <2>2 DEF Still, BackFrom, Waits, d
<1>2. RevertIfQueued(rows, ids) =
        {IF r.id \in ids /\ r.status = "processing" THEN back(r) ELSE r : r \in rows}
  BY DEF RevertIfQueued
<1> HIDE DEF back
<1>3. \A r \in rows : Still(r, r)
  BY DEF Still
<1> QED BY <1>1, <1>2, <1>3 DEF Single

\* revertToPending: the row, or the copy of a row that is gone.
LEMMA RevertToPendingAlone ==
  ASSUME NEW rows \in SUBSET Row, NEW copies \in SUBSET Row,
         Single(rows), Single(copies), \A r \in rows, c \in copies : r.id = c.id
  PROVE  /\ Single(RevertToPending(rows, copies))
         /\ \A x \in RevertToPending(rows, copies) :
              \/ \E r \in rows : Still(x, r)
              \/ rows = {} /\ \E c \in copies :
                   BackFrom(x, c) /\ (c.status = "processing" => x.status = "pending")
<1> DEFINE back(r) == [r EXCEPT !.status = "pending"]
<1>1. \A r \in Row : back(r).status = "pending" /\ BackFrom(back(r), r)
  BY BackInLine
<1>2. RevertToPending(rows, copies) =
        {IF r.id \in Ids(copies) /\ r.status = "processing" THEN back(r) ELSE r : r \in rows}
        \cup {IF c.status = "processing" THEN back(c) ELSE c :
                c \in {d \in copies : d.id \notin Ids(rows)}}
  BY DEF RevertToPending
<1>3. {d \in copies : d.id \notin Ids(rows)} = IF rows = {} THEN copies ELSE {}
  BY DEF Ids
<1> HIDE DEF back
<1>4. \A r \in rows : Still(r, r)
  BY DEF Still
<1>5. \A r \in rows : r.status = "processing" => Still(back(r), r)
  BY <1>1 DEF Still, BackFrom, Waits
<1>6. \A c \in copies : BackFrom(c, c)
  BY DEF BackFrom
<1>7. CASE rows = {}
  BY <1>1, <1>2, <1>3, <1>6, <1>7 DEF Single
<1>8. CASE rows # {}
  BY <1>2, <1>3, <1>4, <1>5, <1>8 DEF Single
<1> QED BY <1>7, <1>8

\* parkMessages, with the copies its caller read of rows not parked yet.
LEMMA ParkMessagesAlone ==
  ASSUME NEW rows \in SUBSET Row, NEW copies \in SUBSET Row, NEW why, why # "recovery",
         Single(rows), Single(copies), \A r \in rows, c \in copies : r.id = c.id,
         \A c \in copies : c.status # "parked"
  PROVE  /\ Single(ParkMessages(rows, copies, why))
         /\ \A x \in ParkMessages(rows, copies, why) :
              \/ x \in rows
              \/ ~Waits(x) /\ \E r \in rows : Still(x, r)
              \/ ~Waits(x) /\ rows = {} /\ \E c \in copies : BackFrom(x, c)
<1>1. \A r \in Row : /\ Park(r, why).status = "parked" /\ Park(r, why).reason = why
                     /\ BackFrom(Park(r, why), r)
  BY SetAside
<1>2. {d \in copies : d.id \notin Ids(rows)} = IF rows = {} THEN copies ELSE {}
  BY DEF Ids
<1>3. \A r \in rows : Still(Park(r, why), r) /\ ~Waits(Park(r, why))
  BY <1>1 DEF Still, BackFrom, Waits
<1>5. CASE rows = {}
  BY <1>1, <1>2, <1>5 DEF Single, ParkMessages, Waits
<1>6. CASE rows # {}
  BY <1>2, <1>3, <1>6 DEF Single, ParkMessages
<1> QED BY <1>5, <1>6

\* parkIfQueued.
LEMMA ParkIfQueuedAlone ==
  ASSUME NEW rows \in SUBSET Row, Single(rows), NEW ids, NEW why, why # "recovery"
  PROVE  /\ Single(ParkIfQueued(rows, ids, why))
         /\ \A x \in ParkIfQueued(rows, ids, why) :
              \/ x \in rows
              \/ ~Waits(x) /\ \E r \in rows : Still(x, r)
<1>1. \A r \in Row : /\ Park(r, why).status = "parked" /\ Park(r, why).reason = why
                     /\ BackFrom(Park(r, why), r)
  BY SetAside
<1>2. \A r \in rows : Still(Park(r, why), r) /\ ~Waits(Park(r, why))
  BY <1>1 DEF Still, BackFrom, Waits
<1> QED BY <1>2 DEF Single, ParkIfQueued

\* holdForStartRecovery, with the rows the hold kept.
LEMMA HoldForStartRecoveryAlone ==
  ASSUME NEW rows \in SUBSET Row, NEW copies \in SUBSET Row,
         Single(rows), Single(copies), \A r \in rows, c \in copies : r.id = c.id
  PROVE  /\ Single(HoldForStartRecovery(rows, copies))
         /\ \A x \in HoldForStartRecovery(rows, copies) :
              \/ \E r \in rows : Still(x, r)
              \/ rows = {} /\ x.status = "parked" /\ \E c \in copies : BackFrom(x, c)
<1>1. \A r \in Row : /\ Park(r, "recovery").status = "parked"
                     /\ BackFrom(Park(r, "recovery"), r)
  BY SetAside
<1>2. {d \in copies : d.id \notin Ids(rows)} = IF rows = {} THEN copies ELSE {}
  BY DEF Ids
<1>3. \A r \in rows : Still(r, r) /\ (Waits(r) => Still(Park(r, "recovery"), r))
  BY <1>1 DEF Still, BackFrom, Waits
<1>4. \A c \in copies : BackFrom(c, c)
  BY DEF BackFrom
<1>5. CASE rows = {}
  BY <1>1, <1>2, <1>4, <1>5 DEF Single, HoldForStartRecovery
<1>6. CASE rows # {}
  BY <1>2, <1>3, <1>6 DEF Single, HoldForStartRecovery, Waits
<1> QED BY <1>5, <1>6

\* settleStartRecoveryHeld, both ways.
LEMMA SettleHeldAlone ==
  ASSUME NEW rows \in SUBSET Row, Single(rows), NEW new \in {ReleaseHeld(rows), GiveUpHeld(rows)}
  PROVE  /\ Single(new)
         /\ \A x \in new : \E r \in rows : Still(x, r)
<1>1. ASSUME NEW r \in rows PROVE Still(r, r) /\ Still(Park(r, "failed"), r)
  BY <1>1, SetAside DEF Still, BackFrom, Waits
<1> DEFINE back(r) == [r EXCEPT !.status = "pending", !.reason = "none"]
<1>2. ASSUME NEW r \in HeldForRecovery(rows) PROVE Still(back(r), r)
  <2>1. r \in Row /\ Waits(r)
    BY DEF HeldForRecovery, Waits
  <2>2. BackFrom(back(r), r) /\ back(r).status = "pending"
    BY <2>1, BackInLine
  <2> QED BY <2>1, <2>2 DEF Still, BackFrom
<1>3. ReleaseHeld(rows) = {IF r \in HeldForRecovery(rows) THEN back(r) ELSE r : r \in rows}
  BY DEF ReleaseHeld
<1> HIDE DEF back
<1> QED BY <1>1, <1>2, <1>3 DEF Single, GiveUpHeld

\* A batch that is one row.
LEMMA OneRow ==
  ASSUME NEW rows, Single(rows), NEW r \in rows
  PROVE  rows = {r} /\ Earliest(rows) = r
<1>1. rows = {r}
  BY DEF Single
<1>2. \A x \in rows : Earliest(rows) = x
  BY <1>1 DEF Earliest
<1> QED BY <1>1, <1>2

\* markProcessing of one row, which goes out under the uuid it has, or one it
\* was never known by.
LEMMA MarkAlone ==
  ASSUME NEW rows \in SUBSET Row, Single(rows), NEW f \in Nat
  PROVE  \/ /\ MarkedBatch(rows, f) = {}
            /\ Single(MarkProcessing(rows, f))
            /\ \A x \in MarkProcessing(rows, f) :
                 (\E r \in rows : Still(x, r)) /\ (x \in rows \/ ~Waits(x))
         \/ \E r \in rows, b \in Row :
              /\ MarkedBatch(rows, f) = {b} /\ MarkProcessing(rows, f) = {b}
              /\ r.status = "pending" /\ r.fence = f
              /\ b.status = "processing" /\ b.fence = f
              /\ b.uuid # NoUuid
              /\ b.uuid = r.uuid \/ (r.uuid = NoUuid /\ b.uuid.n = 0)
              /\ b.tries = IF r.tries = 0 THEN 1 ELSE 2
              /\ b.doubt = r.doubt
<1> DEFINE aside == SetAsideOlder(rows, f)
           batch == PickBatch(aside)
           uuid == IF Earliest(batch).uuid # NoUuid THEN Earliest(batch).uuid
                   ELSE LineUuidFor(batch)
           mark(r) == [r EXCEPT !.status = "processing", !.uuid = uuid,
                                !.tries = IF r.tries = 0 THEN 1 ELSE 2]
<1>1. aside \in SUBSET Row
  BY SetAsideType
<1>2. ASSUME NEW x \in aside
      PROVE  \E r \in rows : /\ Still(x, r) /\ (x = r \/ ~Waits(x))
                             /\ x.status = "pending" => x = r /\ r.fence = f
  <2>1. PICK r \in rows :
          x = IF r.status = "pending" /\ r.fence # f THEN Park(r, "stop") ELSE r
    BY DEF SetAsideOlder
  <2>2. Park(r, "stop").status = "parked" /\ Park(r, "stop").reason = "stop"
        /\ BackFrom(Park(r, "stop"), r)
    BY SetAside
  <2>3. Still(r, r) /\ Still(Park(r, "stop"), r) /\ ~Waits(Park(r, "stop"))
    BY <2>2 DEF Still, BackFrom, Waits
  <2> QED BY <2>1, <2>2, <2>3
<1>3. Single(aside)
  BY DEF Single, SetAsideOlder
<1>4. batch \subseteq Pending(aside)
  BY <1>1, PickBatchPending
<1>5. MarkedBatch(rows, f) = {mark(r) : r \in batch}
  BY DEF MarkedBatch
<1>6. MarkProcessing(rows, f) =
        {r \in aside : r.id \notin Ids(MarkedBatch(rows, f))} \cup MarkedBatch(rows, f)
  BY DEF MarkProcessing
<1>7. CASE batch = {}
  <2>1. MarkedBatch(rows, f) = {}
    BY <1>5, <1>7
  <2>2. MarkProcessing(rows, f) = aside
    BY <1>6, <2>1 DEF Ids
  <2> QED BY <1>2, <1>3, <2>1, <2>2
<1>8. CASE batch # {}
  <2>1. PICK x \in batch : TRUE
    BY <1>8
  <2>2. x \in aside /\ x.status = "pending" /\ x \in Row
    BY <1>1, <1>4 DEF Pending
  <2>3. x \in rows /\ x.fence = f
    BY <1>2, <2>2
  <2>4. batch = {x} /\ Earliest(batch) = x
    <3>1. Single(batch)
      BY <1>3, <1>4 DEF Single, Pending
    <3> HIDE DEF batch
    <3> QED BY <3>1, OneRow
  <2>5. /\ uuid \in Uuid /\ uuid # NoUuid
        /\ uuid = x.uuid \/ (x.uuid = NoUuid /\ uuid.n = 0)
    <3>1. CASE x.uuid # NoUuid
      BY <2>2, <2>4, <3>1 DEF Row
    <3>2. CASE x.uuid = NoUuid
      <4>1. uuid = LineUuidFor(batch)
        BY <2>4, <3>2
      <4>2. LineUuidFor(batch) \in Uuid
        BY <1>1, <1>8, <2>4, <3>2, LineUuidType
      <4>3. LineUuidFor(batch).n = 0 /\ LineUuidFor(batch).kind # "none"
        BY DEF LineUuidFor, UserUuid
      <4> HIDE DEF batch
      <4> QED BY <3>2, <4>1, <4>2, <4>3 DEF NoUuid
    <3> QED BY <3>1, <3>2
  <2> DEFINE t == IF x.tries = 0 THEN 1 ELSE 2
             b == [x EXCEPT !.status = "processing", !.uuid = uuid, !.tries = t]
  <2>6. t \in 0..2 /\ "processing" \in Status
    BY DEF Status
  <2>7. b \in Row
    BY <2>2, <2>5, <2>6, MarkedRowType, Zenon
  <2>8. mark(x) = b
    OBVIOUS
  <2>9. b.status = "processing" /\ b.uuid = uuid /\ b.tries = t /\ b.fence = x.fence /\ b.id = x.id
        /\ b.doubt = x.doubt
    <3> HIDE DEF uuid, t
    <3> QED BY <2>2 DEF Row
  <2>10. MarkedBatch(rows, f) = {b}
    <3> HIDE DEF batch, mark, b
    <3> QED BY <1>5, <2>4, <2>8
  <2>11. aside = {x}
    BY <1>3, <2>2 DEF Single
  <2>12. MarkProcessing(rows, f) = {b}
    <3> HIDE DEF aside, batch, b
    <3> QED BY <1>6, <2>9, <2>10, <2>11 DEF Ids
  <2> HIDE DEF b, uuid, batch, aside
  <2> QED BY <2>2, <2>3, <2>5, <2>7, <2>9, <2>10, <2>12
<1> QED BY <1>7, <1>8

\* With no pending row markProcessing does nothing.
LEMMA MarkNothing ==
  ASSUME NEW rows \in SUBSET Row, NEW f \in Nat, Pending(rows) = {}
  PROVE  MarkedBatch(rows, f) = {} /\ MarkProcessing(rows, f) = rows
<1>1. SetAsideOlder(rows, f) = rows
  BY DEF SetAsideOlder, Pending
<1>2. PickBatch(rows) = {}
  BY DEF PickBatch
<1>3. MarkedBatch(rows, f) = {}
  BY <1>1, <1>2 DEF MarkedBatch
<1> QED BY <1>1, <1>3 DEF MarkProcessing, Ids

\* resendUnanswered: the queue after it, n uuids drawn before.
Resent(rows, ids, uuid, n) ==
  ParkForFreshLine(RequeueUnanswered(rows, ids, uuid, n + 1),
                   Ids(Exhausted(rows, ids, uuid)), "failed", n + 2)

\* With one row: it draws a new uuid only if it could still go
\* out under the old one.
LEMMA ResendAlone ==
  ASSUME NEW rows \in SUBSET Row, Single(rows), NEW ids, NEW uuid, NEW n \in Nat
  PROVE  /\ Single(Resent(rows, ids, uuid, n))
         /\ \A x \in Resent(rows, ids, uuid, n) : \E r \in rows :
              \/ x = r
              \/ /\ r.status # "parked" /\ r.uuid \in {NoUuid, uuid}
                 /\ x.uuid \in {FreshUuid(n + 1), FreshUuid(n + 2)}
                 /\ x.tries = 0 /\ x.fence = r.fence /\ x.status # "processing"
<1> DEFINE new == Resent(rows, ids, uuid, n)
           again(r) == [r EXCEPT !.status = "pending", !.uuid = FreshUuid(n + 1),
                                 !.tries = 0, !.resent = TRUE, !.doubt = FALSE]
           over(r) == [Park(r, "failed") EXCEPT !.uuid = FreshUuid(n + 2), !.tries = 0,
                                                !.doubt = FALSE]
           spent == Ids(Exhausted(rows, ids, uuid))
           between == RequeueUnanswered(rows, ids, uuid, n + 1)
           Sent(x, r) == /\ r.status # "parked" /\ r.uuid \in {NoUuid, uuid}
                         /\ x.uuid \in {FreshUuid(n + 1), FreshUuid(n + 2)}
                         /\ x.tries = 0 /\ x.fence = r.fence /\ x.status # "processing"
<1>1. \A r \in Row : /\ again(r).uuid = FreshUuid(n + 1) /\ again(r).tries = 0
                     /\ again(r).fence = r.fence /\ again(r).status = "pending"
                     /\ over(r).uuid = FreshUuid(n + 2) /\ over(r).tries = 0
                     /\ over(r).fence = r.fence /\ over(r).status = "parked"
  BY DEF Row, Park
<1>2. between = {IF r \in Resendable(rows, ids, uuid) THEN again(r) ELSE r : r \in rows}
  BY DEF RequeueUnanswered
<1>3. new = {IF r.id \in spent /\ r.status # "parked" THEN over(r) ELSE r : r \in between}
  BY DEF ParkForFreshLine, Resent
<1> HIDE DEF again, over, between, new
<1>4. ASSUME NEW x \in new
      PROVE  \E r \in rows : x = r \/ Sent(x, r)
  <2>1. PICK y \in between : x = IF y.id \in spent /\ y.status # "parked" THEN over(y) ELSE y
    BY <1>3
  <2>2. PICK r \in rows : y = IF r \in Resendable(rows, ids, uuid) THEN again(r) ELSE r
    BY <1>2
  <2>3. CASE r \in Resendable(rows, ids, uuid)
    <3>1. Exhausted(rows, ids, uuid) = {}
      BY <2>3 DEF Exhausted, Resendable, Single
    <3>2. x = again(r)
      BY <2>1, <2>2, <2>3, <3>1 DEF Ids
    <3> QED BY <1>1, <2>3, <3>2 DEF Resendable
  <2>4. CASE r \notin Resendable(rows, ids, uuid)
    <3>1. CASE x = r
      BY <3>1
    <3>2. CASE x # r
      <4>1. x = over(r) /\ r.id \in spent
        BY <2>1, <2>2, <2>4, <3>2
      <4>2. r \in Exhausted(rows, ids, uuid)
        BY <4>1 DEF Ids, Exhausted, Single
      <4> QED BY <1>1, <4>1, <4>2 DEF Exhausted
    <3> QED BY <3>1, <3>2
  <2> QED BY <2>3, <2>4
<1>5. Single(new)
  BY <1>2, <1>3 DEF Single
<1> QED BY <1>4, <1>5 DEF new

-----------------------------------------------------------------------------
(* A phone message whose line is not in doubt *)

\* Such a row may be given back to the companion once it is pending.
Sure(r) == r.id \in Phone /\ Waits(r) /\ ~r.doubt /\ r.uuid # NoUuid

\* revertIfQueued puts the line in doubt.
LEMMA RevertIfQueuedSure ==
  ASSUME NEW rows \in SUBSET Row, NEW ids, NEW x \in RevertIfQueued(rows, ids), Sure(x)
  PROVE  x \in rows
<1> DEFINE back(r) == [r EXCEPT !.status = "pending",
                !.doubt = IF r.uuid # NoUuid THEN TRUE ELSE r.doubt]
<1>1. PICK r \in rows : x = IF r.id \in ids /\ r.status = "processing" THEN back(r) ELSE r
  BY DEF RevertIfQueued
<1>2. r.uuid = NoUuid \/ back(r).doubt
  BY DEF Row
<1>3. back(r).uuid = r.uuid
  BY DEF Row
<1> HIDE DEF back
<1> QED BY <1>1, <1>2, <1>3 DEF Sure

\* revertToPending does not.
LEMMA RevertToPendingSure ==
  ASSUME NEW rows \in SUBSET Row, NEW copies \in SUBSET Row,
         \A r \in rows, c \in copies : r.id = c.id,
         NEW x \in RevertToPending(rows, copies), Sure(x)
  PROVE  \/ x \in rows
         \/ \E r \in rows : Sure(r) /\ r.uuid = x.uuid /\ x.status = "pending"
         \/ rows = {} /\ \E c \in copies : ~c.doubt /\ c.id = x.id /\ c.uuid = x.uuid
<1> DEFINE back(r) == [r EXCEPT !.status = "pending"]
<1>1. \A r \in Row : /\ back(r).status = "pending" /\ back(r).uuid = r.uuid
                     /\ back(r).doubt = r.doubt /\ back(r).id = r.id
  BY DEF Row
<1>2. RevertToPending(rows, copies) =
        {IF r.id \in Ids(copies) /\ r.status = "processing" THEN back(r) ELSE r : r \in rows}
        \cup {IF c.status = "processing" THEN back(c) ELSE c :
                c \in {d \in copies : d.id \notin Ids(rows)}}
  BY DEF RevertToPending
<1>3. {d \in copies : d.id \notin Ids(rows)} = IF rows = {} THEN copies ELSE {}
  BY DEF Ids
<1> HIDE DEF back
<1> QED BY <1>1, <1>2, <1>3 DEF Sure, Waits

\* Nor does holdForStartRecovery.
LEMMA HoldForStartRecoverySure ==
  ASSUME NEW rows \in SUBSET Row, NEW copies \in SUBSET Row,
         \A r \in rows, c \in copies : r.id = c.id,
         NEW x \in HoldForStartRecovery(rows, copies), Sure(x)
  PROVE  \/ x \in rows
         \/ \E r \in rows : Sure(r) /\ r.uuid = x.uuid /\ x.status = "parked"
         \/ rows = {}
<1>1. \A r \in Row : /\ Park(r, "recovery").status = "parked"
                     /\ Park(r, "recovery").uuid = r.uuid
                     /\ Park(r, "recovery").doubt = r.doubt
                     /\ Park(r, "recovery").id = r.id
  BY DEF Row, Park
<1>2. {d \in copies : d.id \notin Ids(rows)} = IF rows = {} THEN copies ELSE {}
  BY DEF Ids
<1> QED BY <1>1, <1>2 DEF Sure, Waits, HoldForStartRecovery

\* Nor settleStartRecoveryHeld, of rows that are not being delivered.
LEMMA SettleHeldSure ==
  ASSUME NEW rows \in SUBSET Row, NEW new \in {ReleaseHeld(rows), GiveUpHeld(rows)},
         NEW x \in new, Sure(x)
  PROVE  \/ x \in rows
         \/ \E r \in rows : /\ Sure(r) /\ r.uuid = x.uuid /\ r.status = "parked"
                            /\ x.status = "pending"
<1> DEFINE back(r) == [r EXCEPT !.status = "pending", !.reason = "none"]
<1>1. \A r \in Row : /\ back(r).status = "pending" /\ back(r).uuid = r.uuid
                     /\ back(r).doubt = r.doubt /\ back(r).id = r.id
  BY DEF Row
<1>2. \A r \in Row : ~Waits(Park(r, "failed"))
  BY SetAside DEF Waits
<1>3. ReleaseHeld(rows) = {IF r \in HeldForRecovery(rows) THEN back(r) ELSE r : r \in rows}
  BY DEF ReleaseHeld
<1> HIDE DEF back
<1>4. CASE x \in ReleaseHeld(rows)
  <2>1. PICK r \in rows : x = IF r \in HeldForRecovery(rows) THEN back(r) ELSE r
    BY <1>3, <1>4
  <2> QED BY <1>1, <2>1 DEF Sure, HeldForRecovery, Waits
<1>5. CASE x \in GiveUpHeld(rows)
  BY <1>2, <1>5 DEF Sure, GiveUpHeld
<1> QED BY <1>4, <1>5
=============================================================================
