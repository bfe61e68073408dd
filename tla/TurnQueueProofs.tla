--------------------------- MODULE TurnQueueProofs ---------------------------
(***************************************************************************)
(* The agent's slot in TurnQueue, for any turns and waits: one turn works  *)
(* at a time, and a turn that wants its slot back comes first.             *)
(*                                                                         *)
(* The inductive invariant says that the counter, the queue, the turns'    *)
(* flows and their waits fit together. It is stated over the values a pump *)
(* is given as well as over the variables, for a pump is what most actions *)
(* end with, and what it leaves fits when what it was given did.           *)
(***************************************************************************)
EXTENDS TurnQueue, SequenceTheorems, TLAPS

In(x, s) == \E i \in 1..Len(s) : s[i] = x

Once(s) == \A i, j \in 1..Len(s) : s[i] = s[j] => i = j

Typed(rs, fs, n, gs, h, f, wt) ==
  /\ rs \in Seq(Wait) /\ fs \in Seq(Turn) /\ n \in 0..1
  /\ gs \in SUBSET (Turn \cup Wait)
  /\ f \in [Turn -> {"new", "queued", "working", "waiting", "over"}]
  /\ h \in SUBSET Turn
  /\ wt \in [Wait -> {"new", "plain", "away", "back", "over"}]

\* One entry at most holds the slot or was granted it, and it is counted.
OneSlot(n, gs, h) ==
  /\ \A x, y \in h \cup gs : x = y
  /\ h \cup gs # {} => n = 1

\* The queue has each entry once, and what is queued or granted asked for it.
InPlace(rs, fs, gs, f, wt) ==
  /\ Once(rs) /\ Once(fs)
  /\ \A x \in gs : ~In(x, rs) /\ ~In(x, fs)
  /\ \A t \in Turn : t \in gs \/ In(t, fs) => f[t] = "queued"
  /\ \A w \in Wait : w \in gs \/ In(w, rs) <=> wt[w] = "back"

\* Whose turn is at work has the slot, and who lost it has a wait that brings
\* it back.
Flowing(h, f, wt) ==
  /\ \A t \in h : f[t] \in {"working", "waiting"}
  /\ \A t \in Turn : f[t] = "working" => t \in h
  /\ \A w \in Wait : wt[w] # "new" => f[OwnerOf[w]] \notin {"new", "queued"}
  /\ \A t \in Turn : f[t] = "waiting" /\ t \notin h =>
       \E w \in Wait : OwnerOf[w] = t /\ wt[w] \in {"away", "back"}

Fits(rs, fs, n, gs, h, f, wt) ==
  /\ Typed(rs, fs, n, gs, h, f, wt)
  /\ OneSlot(n, gs, h)
  /\ InPlace(rs, fs, gs, f, wt)
  /\ Flowing(h, f, wt)

IInv == Fits(resumers, fresh, active, granted, held, flow, wait)

-----------------------------------------------------------------------------
(* Sequences *)

LEMMA InTail ==
  ASSUME NEW S, NEW s \in Seq(S), s # <<>>
  PROVE  /\ Tail(s) \in Seq(S) /\ Head(s) \in S /\ In(Head(s), s)
         /\ \A x : In(x, Tail(s)) => In(x, s)
         /\ \A x : In(x, s) => In(x, Tail(s)) \/ x = Head(s)
         /\ Once(s) => Once(Tail(s)) /\ ~In(Head(s), Tail(s))
PROOF
<1>1. /\ Tail(s) \in Seq(S) /\ Head(s) \in S /\ Head(s) = s[1]
      /\ Len(s) \in Nat /\ Len(s) >= 1 /\ Len(Tail(s)) = Len(s) - 1
      /\ \A i \in 1..Len(Tail(s)) : Tail(s)[i] = s[i + 1]
  BY HeadTailProperties, EmptySeq, LenProperties
<1>2. In(Head(s), s)
  BY <1>1 DEF In
<1>3. ASSUME NEW x, In(x, Tail(s))  PROVE In(x, s)
  <2>1. PICK i \in 1..Len(Tail(s)) : Tail(s)[i] = x
    BY <1>3 DEF In
  <2>2. i + 1 \in 1..Len(s) /\ s[i + 1] = x
    BY <1>1, <2>1
  <2> QED BY <2>2 DEF In
<1>4. ASSUME NEW x, In(x, s), x # Head(s)  PROVE In(x, Tail(s))
  <2>1. PICK i \in 1..Len(s) : s[i] = x
    BY <1>4 DEF In
  <2>2. i - 1 \in 1..Len(Tail(s)) /\ Tail(s)[i - 1] = x
    BY <1>1, <1>4, <2>1
  <2> QED BY <2>2 DEF In
<1>5. ASSUME Once(s)  PROVE Once(Tail(s)) /\ ~In(Head(s), Tail(s))
  <2>1. \A i \in 1..Len(Tail(s)) : i + 1 \in 1..Len(s) /\ Tail(s)[i] = s[i + 1]
    BY <1>1
  <2>2. Once(Tail(s))
    BY <1>5, <1>1, <2>1 DEF Once
  <2>3. ~In(Head(s), Tail(s))
    BY <1>5, <1>1, <2>1 DEF Once, In
  <2> QED BY <2>2, <2>3
<1> QED BY <1>1, <1>2, <1>3, <1>4, <1>5

LEMMA InAppend ==
  ASSUME NEW S, NEW s \in Seq(S), NEW y \in S
  PROVE  /\ Append(s, y) \in Seq(S) /\ Append(s, y) # <<>>
         /\ \A x : In(x, Append(s, y)) <=> In(x, s) \/ x = y
         /\ Once(s) /\ ~In(y, s) => Once(Append(s, y))
PROOF
<1>. DEFINE q == Append(s, y)
<1>1. /\ q \in Seq(S) /\ q # <<>> /\ Len(s) \in Nat
      /\ Len(q) = Len(s) + 1
      /\ \A i \in 1..Len(s) : q[i] = s[i]
      /\ q[Len(s) + 1] = y
  BY AppendProperties, LenProperties
<1>. HIDE DEF q
<1>2. ASSUME NEW x  PROVE In(x, q) <=> In(x, s) \/ x = y
  <2>1. ASSUME In(x, s)  PROVE In(x, q)
    BY <1>1, <2>1 DEF In
  <2>2. ASSUME x = y  PROVE In(x, q)
    BY <1>1, <2>2 DEF In
  <2>3. ASSUME In(x, q), x # y  PROVE In(x, s)
    BY <1>1, <2>3 DEF In
  <2> QED BY <2>1, <2>2, <2>3
<1>3. ASSUME Once(s), ~In(y, s)  PROVE Once(q)
  BY <1>1, <1>3 DEF Once, In
<1> QED BY <1>1, <1>2, <1>3 DEF q

-----------------------------------------------------------------------------
(* A pump keeps the fit. *)

\* The slot is not free: nothing starts.
LEMMA PumpTaken ==
  ASSUME NEW rs, NEW fs, NEW n, NEW gs,
         Fits(rs, fs, n, gs, held', flow', wait'), Pump(rs, fs, n, gs), n = 1
  PROVE  IInv'
PROOF
<1>1. resumers' = rs /\ fresh' = fs /\ active' = n /\ granted' = gs
  BY DEF Pump, Free
<1> QED BY <1>1 DEF IInv

\* The slot is free: the first wait that wants it back starts.
LEMMA PumpResumer ==
  ASSUME NEW rs, NEW fs, NEW n, NEW gs,
         Fits(rs, fs, n, gs, held', flow', wait'), Pump(rs, fs, n, gs),
         n = 0, rs # <<>>
  PROVE  IInv'
PROOF
<1>1. /\ resumers' = Tail(rs) /\ fresh' = fs /\ active' = 1
      /\ granted' = gs \cup {Head(rs)}
  BY DEF Pump, Free
<1>2. gs = {} /\ held' = {}
  BY DEF Fits, OneSlot
<1>3. rs \in Seq(Wait) /\ fs \in Seq(Turn) /\ Once(rs)
  BY DEF Fits, Typed, InPlace
<1>4. /\ Tail(rs) \in Seq(Wait) /\ Head(rs) \in Wait /\ In(Head(rs), rs)
      /\ \A x : In(x, Tail(rs)) => In(x, rs)
      /\ \A x : In(x, rs) => In(x, Tail(rs)) \/ x = Head(rs)
      /\ Once(Tail(rs)) /\ ~In(Head(rs), Tail(rs))
  BY <1>3, InTail
<1>5. Head(rs) \notin Turn /\ ~In(Head(rs), fs)
  <2>1. Head(rs) \notin Turn
    BY <1>4, QueueAssumption
  <2>2. \A i \in 1..Len(fs) : fs[i] \in Turn
    BY <1>3, ElementOfSeq
  <2> QED BY <2>1, <2>2 DEF In
<1>6. Typed(resumers', fresh', active', granted', held', flow', wait')
  BY <1>1, <1>2, <1>4 DEF Fits, Typed
<1>7. OneSlot(active', granted', held')
  BY <1>1, <1>2 DEF OneSlot
<1>8. InPlace(resumers', fresh', granted', flow', wait')
  <2>1. InPlace(rs, fs, gs, flow', wait')
    BY DEF Fits
  <2>2. \A t \in Turn : t \in granted' \/ In(t, fs) => flow'[t] = "queued"
    BY <1>1, <1>2, <1>5, <2>1 DEF InPlace
  <2>3. \A w \in Wait : w \in granted' \/ In(w, Tail(rs)) <=> wait'[w] = "back"
    BY <1>1, <1>2, <1>4, <2>1 DEF InPlace
  <2> QED BY <1>1, <1>2, <1>4, <1>5, <2>1, <2>2, <2>3 DEF InPlace
<1> QED BY <1>6, <1>7, <1>8 DEF Fits, IInv

\* The slot is free and nothing wants it back: the first new turn starts.
LEMMA PumpFresh ==
  ASSUME NEW rs, NEW fs, NEW n, NEW gs,
         Fits(rs, fs, n, gs, held', flow', wait'), Pump(rs, fs, n, gs),
         n = 0, rs = <<>>
  PROVE  IInv'
PROOF
<1>2. gs = {} /\ held' = {}
  BY DEF Fits, OneSlot
<1>3. rs \in Seq(Wait) /\ fs \in Seq(Turn) /\ Once(fs)
  BY DEF Fits, Typed, InPlace
<1>4. CASE fs = <<>>
  <2>1. resumers' = rs /\ fresh' = fs /\ active' = n /\ granted' = gs
    BY <1>4 DEF Pump, Free
  <2> QED BY <2>1 DEF IInv
<1>5. CASE fs # <<>>
  <2>1. /\ resumers' = rs /\ fresh' = Tail(fs) /\ active' = 1
        /\ granted' = gs \cup {Head(fs)}
    BY <1>5 DEF Pump, Free
  <2>2. /\ Tail(fs) \in Seq(Turn) /\ Head(fs) \in Turn /\ In(Head(fs), fs)
        /\ \A x : In(x, Tail(fs)) => In(x, fs)
        /\ Once(Tail(fs)) /\ ~In(Head(fs), Tail(fs))
    BY <1>3, <1>5, InTail
  <2>3. Head(fs) \notin Wait /\ ~In(Head(fs), rs)
    BY <2>2, QueueAssumption DEF In
  <2>4. Typed(resumers', fresh', active', granted', held', flow', wait')
    BY <1>2, <2>1, <2>2 DEF Fits, Typed
  <2>5. OneSlot(active', granted', held')
    BY <1>2, <2>1 DEF OneSlot
  <2>6. InPlace(resumers', fresh', granted', flow', wait')
    <3>1. InPlace(rs, fs, gs, flow', wait')
      BY DEF Fits
    <3>2. \A t \in Turn : t \in granted' \/ In(t, Tail(fs)) => flow'[t] = "queued"
      BY <1>2, <2>1, <2>2, <3>1 DEF InPlace
    <3>3. \A w \in Wait : w \in granted' \/ In(w, rs) <=> wait'[w] = "back"
      BY <1>2, <2>1, <2>3, <3>1 DEF InPlace
    <3> QED BY <1>2, <2>1, <2>2, <2>3, <3>1, <3>2, <3>3 DEF InPlace
  <2> QED BY <2>4, <2>5, <2>6 DEF Fits, IInv
<1> QED BY <1>4, <1>5

LEMMA PumpFits ==
  ASSUME NEW rs, NEW fs, NEW n, NEW gs,
         Fits(rs, fs, n, gs, held', flow', wait'), Pump(rs, fs, n, gs)
  PROVE  IInv'
PROOF
<1>1. n = 0 \/ n = 1
  BY DEF Fits, Typed
<1> QED BY <1>1, PumpTaken, PumpResumer, PumpFresh

-----------------------------------------------------------------------------
(* Each action keeps the invariant. *)

LEMMA EnqueueFits ==
  ASSUME IInv, NEW t \in Turn, Enqueue(t)
  PROVE  IInv'
PROOF
<1>. DEFINE fs == Append(fresh, t)
<1>1. /\ Typed(resumers, fresh, active, granted, held, flow, wait)
      /\ OneSlot(active, granted, held)
      /\ InPlace(resumers, fresh, granted, flow, wait)
      /\ Flowing(held, flow, wait)
  BY DEF IInv, Fits
<1>2. /\ flow[t] = "new" /\ flow' = [flow EXCEPT ![t] = "queued"]
      /\ held' = held /\ wait' = wait /\ Pump(resumers, fs, active, granted)
  BY DEF Enqueue, Goto
<1>3. t \notin granted /\ ~In(t, fresh) /\ t \notin held /\ t \notin Wait
  BY <1>1, <1>2, QueueAssumption DEF InPlace, Flowing
<1>4. /\ fs \in Seq(Turn) /\ \A x : In(x, fs) <=> In(x, fresh) \/ x = t
      /\ Once(fs)
  BY <1>1, <1>3, InAppend DEF Typed, InPlace
<1>5. ~In(t, resumers)
  <2>1. \A i \in 1..Len(resumers) : resumers[i] \in Wait
    BY <1>1, ElementOfSeq DEF Typed
  <2> QED BY <1>3, <2>1 DEF In
<1>. HIDE DEF fs
<1>6. Typed(resumers, fs, active, granted, held', flow', wait')
  BY <1>1, <1>2, <1>4 DEF Typed
<1>7. OneSlot(active, granted, held')
  BY <1>1, <1>2 DEF OneSlot
<1>8. InPlace(resumers, fs, granted, flow', wait')
  <2>1. \A u \in Turn : u \in granted \/ In(u, fs) => flow'[u] = "queued"
    BY <1>1, <1>2, <1>4 DEF InPlace, Typed
  <2> QED BY <1>1, <1>2, <1>3, <1>4, <2>1 DEF InPlace
<1>9. Flowing(held', flow', wait')
  BY <1>1, <1>2, <1>3, QueueAssumption DEF Flowing, Typed
<1> QED BY <1>2, <1>6, <1>7, <1>8, <1>9, PumpFits DEF Fits

LEMMA BeginFits ==
  ASSUME IInv, NEW t \in Turn, Begin(t)
  PROVE  IInv'
PROOF
<1>1. /\ Typed(resumers, fresh, active, granted, held, flow, wait)
      /\ OneSlot(active, granted, held)
      /\ InPlace(resumers, fresh, granted, flow, wait)
      /\ Flowing(held, flow, wait)
  BY DEF IInv, Fits
<1>2. /\ t \in granted /\ granted' = granted \ {t} /\ held' = held \cup {t}
      /\ flow' = [flow EXCEPT ![t] = "working"]
      /\ UNCHANGED <<resumers, fresh, active, wait>>
  BY DEF Begin, Goto
<1>3. t \notin Wait /\ flow[t] = "queued" /\ ~In(t, fresh)
  BY <1>1, <1>2, QueueAssumption DEF InPlace
<1>4. Typed(resumers', fresh', active', granted', held', flow', wait')
  BY <1>1, <1>2 DEF Typed
<1>5. OneSlot(active', granted', held')
  BY <1>1, <1>2 DEF OneSlot
<1>6. InPlace(resumers', fresh', granted', flow', wait')
  BY <1>1, <1>2, <1>3 DEF InPlace, Typed
<1>7. Flowing(held', flow', wait')
  BY <1>1, <1>2, <1>3, QueueAssumption DEF Flowing, Typed
<1> QED BY <1>4, <1>5, <1>6, <1>7 DEF IInv, Fits

\* The first wait of a turn at work gives its slot up.
LEMMA ReleaseFits ==
  ASSUME IInv, NEW w \in Wait, Release(w)
  PROVE  IInv'
PROOF
<1>. DEFINE t == OwnerOf[w]
<1>0. t \in Turn
  BY QueueAssumption
<1>1. /\ Typed(resumers, fresh, active, granted, held, flow, wait)
      /\ OneSlot(active, granted, held)
      /\ InPlace(resumers, fresh, granted, flow, wait)
      /\ Flowing(held, flow, wait)
  BY DEF IInv, Fits
<1>2. /\ wait[w] = "new" /\ flow[t] \in {"working", "waiting"}
      /\ flow' = [flow EXCEPT ![t] = "waiting"]
  BY DEF Release, Goto
<1>3. CASE t \in held
  <2>1. /\ wait' = [wait EXCEPT ![w] = "away"] /\ held' = held \ {t}
        /\ Pump(resumers, fresh, active - 1, granted)
    BY <1>3 DEF Release, MayGive, Move, Give
  <2>2. active = 1 /\ granted = {} /\ held' = {}
    BY <1>0, <1>1, <1>2, <1>3, <2>1 DEF OneSlot, InPlace
  <2>3. Typed(resumers, fresh, active - 1, granted, held', flow', wait')
    BY <1>0, <1>1, <1>2, <2>1, <2>2 DEF Typed
  <2>4. OneSlot(active - 1, granted, held')
    BY <2>2 DEF OneSlot
  <2>5. InPlace(resumers, fresh, granted, flow', wait')
    BY <1>0, <1>1, <1>2, <2>1 DEF InPlace, Typed
  <2>6. Flowing(held', flow', wait')
    <3>1. wait'[w] = "away" /\ \A v \in Wait : v # w => wait'[v] = wait[v]
      BY <1>1, <2>1 DEF Typed
    <3>2. flow'[t] = "waiting" /\ \A u \in Turn : u # t => flow'[u] = flow[u]
      BY <1>0, <1>1, <1>2 DEF Typed
    <3> QED BY <1>0, <1>1, <1>2, <2>2, <3>1, <3>2, <1>3, QueueAssumption DEF Flowing, OneSlot
  <2> QED BY <2>1, <2>3, <2>4, <2>5, <2>6, PumpFits DEF Fits
<1>4. CASE t \notin held
  <2>1. wait' = [wait EXCEPT ![w] = "plain"] /\ UNCHANGED <<slot, held>>
    BY <1>4 DEF Release, MayGive, Move
  <2>2. flow' = flow
    BY <1>0, <1>1, <1>2, <1>4 DEF Typed, Flowing
  <2>3. Typed(resumers', fresh', active', granted', held', flow', wait')
    BY <1>1, <2>1, <2>2 DEF Typed, slot
  <2>4. InPlace(resumers', fresh', granted', flow', wait')
    BY <1>1, <1>2, <2>1, <2>2 DEF InPlace, Typed, slot
  <2>5. Flowing(held', flow', wait')
    BY <1>0, <1>1, <1>2, <2>1, <2>2 DEF Flowing, Typed
  <2>6. OneSlot(active', granted', held')
    BY <1>1, <2>1 DEF OneSlot, slot
  <2> QED BY <2>3, <2>4, <2>5, <2>6 DEF IInv, Fits
<1> QED BY <1>3, <1>4

\* The waits that gave no slot up leave it alone.
LEMMA PlainFits ==
  ASSUME IInv, NEW w \in Wait, ReleaseLate(w) \/ PlainOver(w)
  PROVE  IInv'
PROOF
<1>1. /\ Typed(resumers, fresh, active, granted, held, flow, wait)
      /\ OneSlot(active, granted, held)
      /\ InPlace(resumers, fresh, granted, flow, wait)
      /\ Flowing(held, flow, wait)
  BY DEF IInv, Fits
<1>2. /\ UNCHANGED <<resumers, fresh, active, granted, flow, held>>
      /\ \/ wait[w] = "new" /\ flow[OwnerOf[w]] = "over" /\ wait' = [wait EXCEPT ![w] = "plain"]
         \/ wait[w] = "plain" /\ wait' = [wait EXCEPT ![w] = "over"]
  BY DEF ReleaseLate, PlainOver, Move, slot
<1>3. Typed(resumers', fresh', active', granted', held', flow', wait')
  BY <1>1, <1>2 DEF Typed
<1>4. InPlace(resumers', fresh', granted', flow', wait')
  BY <1>1, <1>2 DEF InPlace, Typed
<1>5. Flowing(held', flow', wait')
  BY <1>1, <1>2 DEF Flowing, Typed
<1>6. OneSlot(active', granted', held')
  BY <1>1, <1>2 DEF OneSlot
<1> QED BY <1>3, <1>4, <1>5, <1>6 DEF IInv, Fits

LEMMA RetakeFits ==
  ASSUME IInv, NEW w \in Wait, Retake(w)
  PROVE  IInv'
PROOF
<1>. DEFINE rs == Append(resumers, w)
<1>1. /\ Typed(resumers, fresh, active, granted, held, flow, wait)
      /\ OneSlot(active, granted, held)
      /\ InPlace(resumers, fresh, granted, flow, wait)
      /\ Flowing(held, flow, wait)
  BY DEF IInv, Fits
<1>2. /\ wait[w] = "away" /\ wait' = [wait EXCEPT ![w] = "back"]
      /\ flow' = flow /\ held' = held /\ Pump(rs, fresh, active, granted)
  BY DEF Retake, Move, ComeBack
<1>3. w \notin granted /\ ~In(w, resumers) /\ w \notin Turn
  BY <1>1, <1>2, QueueAssumption DEF InPlace
<1>4. /\ rs \in Seq(Wait) /\ \A x : In(x, rs) <=> In(x, resumers) \/ x = w
      /\ Once(rs)
  BY <1>1, <1>3, InAppend DEF Typed, InPlace
<1>. HIDE DEF rs
<1>6. Typed(rs, fresh, active, granted, held', flow', wait')
  BY <1>1, <1>2, <1>4 DEF Typed
<1>7. OneSlot(active, granted, held')
  BY <1>1, <1>2 DEF OneSlot
<1>8. InPlace(rs, fresh, granted, flow', wait')
  BY <1>1, <1>2, <1>3, <1>4 DEF InPlace, Typed
<1>9. Flowing(held', flow', wait')
  BY <1>1, <1>2 DEF Flowing, Typed
<1> QED BY <1>2, <1>6, <1>7, <1>8, <1>9, PumpFits DEF Fits

LEMMA ResumeFits ==
  ASSUME IInv, NEW w \in Wait, Resume(w)
  PROVE  IInv'
PROOF
<1>. DEFINE t == OwnerOf[w]
<1>0. t \in Turn /\ w \notin Turn
  BY QueueAssumption
<1>1. /\ Typed(resumers, fresh, active, granted, held, flow, wait)
      /\ OneSlot(active, granted, held)
      /\ InPlace(resumers, fresh, granted, flow, wait)
      /\ Flowing(held, flow, wait)
  BY DEF IInv, Fits
<1>2. /\ w \in granted /\ wait' = [wait EXCEPT ![w] = "over"] /\ flow' = flow
  BY DEF Resume, Move
<1>3. /\ active = 1 /\ granted = {w} /\ held = {} /\ wait[w] = "back"
      /\ ~In(w, resumers) /\ flow[t] \notin {"new", "queued"}
  BY <1>0, <1>1, <1>2 DEF OneSlot, InPlace, Flowing, Typed
<1>4. /\ wait'[w] = "over" /\ \A v \in Wait : v # w => wait'[v] = wait[v]
      /\ wait' \in [Wait -> {"new", "plain", "away", "back", "over"}]
  BY <1>1, <1>2 DEF Typed
<1>5. CASE flow[t] = "over"
  <2>1. held' = held /\ Pump(resumers, fresh, active - 1, granted \ {w})
    BY <1>2, <1>5 DEF Resume, HandOn, Give
  <2>2. Typed(resumers, fresh, active - 1, granted \ {w}, held', flow', wait')
    BY <1>1, <1>2, <1>3, <1>4, <2>1 DEF Typed
  <2>3. OneSlot(active - 1, granted \ {w}, held')
    BY <1>3, <2>1 DEF OneSlot
  <2>4. InPlace(resumers, fresh, granted \ {w}, flow', wait')
    BY <1>0, <1>1, <1>2, <1>3, <1>4 DEF InPlace
  <2>5. Flowing(held', flow', wait')
    BY <1>0, <1>1, <1>2, <1>3, <1>4, <1>5, <2>1 DEF Flowing
  <2> QED BY <2>1, <2>2, <2>3, <2>4, <2>5, PumpFits DEF Fits
<1>6. CASE flow[t] # "over"
  <2>1. /\ held' = held \cup {t} /\ granted' = granted \ {w}
        /\ UNCHANGED <<resumers, fresh, active>>
    BY <1>2, <1>6 DEF Resume, HandOn
  <2>2. Typed(resumers', fresh', active', granted', held', flow', wait')
    BY <1>0, <1>1, <1>2, <1>4, <2>1 DEF Typed
  <2>3. OneSlot(active', granted', held')
    BY <1>3, <2>1 DEF OneSlot
  <2>4. InPlace(resumers', fresh', granted', flow', wait')
    BY <1>0, <1>1, <1>2, <1>3, <1>4, <2>1 DEF InPlace
  <2>5. flow[t] \in {"working", "waiting"}
    BY <1>0, <1>1, <1>3, <1>6 DEF Typed
  <2>6. Flowing(held', flow', wait')
    BY <1>0, <1>1, <1>2, <1>3, <1>4, <2>1, <2>5 DEF Flowing
  <2> QED BY <2>2, <2>3, <2>4, <2>6 DEF IInv, Fits
<1> QED BY <1>5, <1>6

\* A turn whose waits are over has its slot.
LEMMA GoOnFits ==
  ASSUME IInv, NEW t \in Turn, GoOn(t)
  PROVE  IInv'
PROOF
<1>1. /\ Typed(resumers, fresh, active, granted, held, flow, wait)
      /\ OneSlot(active, granted, held)
      /\ InPlace(resumers, fresh, granted, flow, wait)
      /\ Flowing(held, flow, wait)
  BY DEF IInv, Fits
<1>2. /\ flow[t] = "waiting" /\ flow' = [flow EXCEPT ![t] = "working"]
      /\ UNCHANGED <<resumers, fresh, active, granted, held, wait>>
      /\ \A w \in Wait : OwnerOf[w] = t => wait[w] \in {"new", "over"}
  BY DEF GoOn, Goto, slot
<1>3. t \in held
  BY <1>1, <1>2 DEF Flowing
<1>4. Typed(resumers', fresh', active', granted', held', flow', wait')
  BY <1>1, <1>2 DEF Typed
<1>5. InPlace(resumers', fresh', granted', flow', wait')
  BY <1>1, <1>2 DEF InPlace, Typed
<1>6. Flowing(held', flow', wait')
  BY <1>1, <1>2, <1>3, QueueAssumption DEF Flowing, Typed
<1>7. OneSlot(active', granted', held')
  BY <1>1, <1>2 DEF OneSlot
<1> QED BY <1>4, <1>5, <1>6, <1>7 DEF IInv, Fits

LEMMA EndFits ==
  ASSUME IInv, NEW t \in Turn, Finish(t) \/ LeaveBehind(t)
  PROVE  IInv'
PROOF
<1>1. /\ Typed(resumers, fresh, active, granted, held, flow, wait)
      /\ OneSlot(active, granted, held)
      /\ InPlace(resumers, fresh, granted, flow, wait)
      /\ Flowing(held, flow, wait)
  BY DEF IInv, Fits
<1>2. /\ flow[t] \in {"working", "waiting"} /\ flow' = [flow EXCEPT ![t] = "over"]
      /\ held' = held \ {t} /\ wait' = wait
      /\ IF t \in held THEN Give(granted) ELSE UNCHANGED slot
  BY DEF Finish, LeaveBehind, End, Goto
<1>3. Flowing(held', flow', wait')
  BY <1>1, <1>2, QueueAssumption DEF Flowing, Typed
<1>4. InPlace(resumers, fresh, granted, flow', wait')
  BY <1>1, <1>2 DEF InPlace, Typed
<1>5. CASE t \in held
  <2>1. Pump(resumers, fresh, active - 1, granted)
    BY <1>2, <1>5 DEF Give
  <2>2. active = 1 /\ granted = {} /\ held' = {}
    BY <1>1, <1>2, <1>5 DEF OneSlot, InPlace
  <2>3. Typed(resumers, fresh, active - 1, granted, held', flow', wait')
    BY <1>1, <1>2, <2>2 DEF Typed
  <2>4. OneSlot(active - 1, granted, held')
    BY <2>2 DEF OneSlot
  <2> QED BY <1>3, <1>4, <2>1, <2>3, <2>4, PumpFits DEF Fits
<1>6. CASE t \notin held
  <2>1. UNCHANGED <<resumers, fresh, active, granted>>
    BY <1>2, <1>6 DEF slot
  <2>2. Typed(resumers', fresh', active', granted', held', flow', wait')
    BY <1>1, <1>2, <2>1 DEF Typed
  <2>3. OneSlot(active', granted', held')
    BY <1>1, <1>2, <1>6, <2>1 DEF OneSlot
  <2> QED BY <1>3, <1>4, <2>1, <2>2, <2>3 DEF IInv, Fits, InPlace
<1> QED BY <1>5, <1>6

-----------------------------------------------------------------------------

LEMMA InitFits == QInit => IInv
PROOF
<1> SUFFICES ASSUME QInit PROVE IInv
  OBVIOUS
<1>1. Typed(resumers, fresh, active, granted, held, flow, wait)
  BY DEF QInit, Typed
<1>2. InPlace(resumers, fresh, granted, flow, wait)
  BY DEF QInit, InPlace, In, Once
<1>3. Flowing(held, flow, wait)
  BY DEF QInit, Flowing
<1>4. OneSlot(active, granted, held)
  BY DEF QInit, OneSlot
<1> QED BY <1>1, <1>2, <1>3, <1>4 DEF IInv, Fits

LEMMA StepFits == IInv /\ [QNext]_qvars => IInv'
PROOF
<1> SUFFICES ASSUME IInv, [QNext]_qvars PROVE IInv'
  OBVIOUS
<1>1. ASSUME NEW t \in Turn, Enqueue(t) \/ Begin(t) \/ GoOn(t) \/ Finish(t) \/ LeaveBehind(t)
      PROVE  IInv'
  BY <1>1, EnqueueFits, BeginFits, GoOnFits, EndFits
<1>2. ASSUME NEW w \in Wait,
             Release(w) \/ ReleaseLate(w) \/ PlainOver(w) \/ Retake(w) \/ Resume(w)
      PROVE  IInv'
  BY <1>2, ReleaseFits, PlainFits, RetakeFits, ResumeFits
<1>3. CASE UNCHANGED qvars
  BY <1>3 DEF IInv, Fits, Typed, OneSlot, InPlace, Flowing, qvars, slot
<1> QED BY <1>1, <1>2, <1>3 DEF QNext

\* The counter, the queue, the flows and the waits fit together throughout.
THEOREM InvHolds == QSpec => []IInv
PROOF
<1> QED BY InitFits, StepFits, PTL DEF QSpec

\* The variables keep their types: the counter never passes one.
THEOREM TypesHold == QSpec => []TypeOK
PROOF
<1>1. IInv => TypeOK
  BY DEF IInv, Fits, Typed, TypeOK
<1> QED BY <1>1, InvHolds, PTL

\* An agent works on one turn at a time.
THEOREM WorksOneAtATime == QSpec => []OneAtATime
PROOF
<1>1. IInv => OneAtATime
  <2> SUFFICES ASSUME IInv, NEW t \in Turn, flow[t] = "working"
      PROVE  /\ t \in held /\ granted = {}
             /\ \A u \in Turn : flow[u] = "working" => u = t
    BY DEF OneAtATime
  <2>1. OneSlot(active, granted, held) /\ Flowing(held, flow, wait)
        /\ InPlace(resumers, fresh, granted, flow, wait)
    BY DEF IInv, Fits
  <2>2. t \in held /\ \A u \in Turn : flow[u] = "working" => u \in held
    BY <2>1 DEF Flowing
  <2>3. t \notin granted
    BY <2>1 DEF InPlace
  <2> QED BY <2>1, <2>2, <2>3 DEF OneSlot
<1> QED BY <1>1, InvHolds, PTL

-----------------------------------------------------------------------------

\* What an action grants beyond what it was given comes from the head of the
\* waits that want the slot back, while there is one.
LEMMA PumpResumersFirst ==
  ASSUME NEW rs \in Seq(Wait), NEW fs, NEW n, NEW gs, Pump(rs, fs, n, gs),
         rs # <<>>, NEW t \in Turn, t \notin gs
  PROVE  t \notin granted'
PROOF
<1>1. Head(rs) \in Wait
  BY InTail
<1>2. granted' \subseteq gs \cup {Head(rs)}
  BY DEF Pump
<1> QED BY <1>1, <1>2, QueueAssumption

LEMMA StepComesBackFirst ==
  ASSUME IInv, [QNext]_qvars, NEW w \in Wait, NEW t \in Turn,
         wait[w] = "back", w \notin granted, t \notin granted
  PROVE  t \notin granted'
PROOF
<1>1. resumers \in Seq(Wait) /\ fresh \in Seq(Turn)
  BY DEF IInv, Fits, Typed
<1>2. resumers # <<>>
  <2>1. In(w, resumers)
    BY DEF IInv, Fits, InPlace
  <2> QED BY <2>1 DEF In
<1>3. ASSUME NEW u \in Turn, Enqueue(u)  PROVE t \notin granted'
  BY <1>1, <1>2, <1>3, PumpResumersFirst DEF Enqueue
<1>4. ASSUME NEW v \in Wait, Retake(v)  PROVE t \notin granted'
  <2>1. Append(resumers, v) \in Seq(Wait) /\ Append(resumers, v) # <<>>
    BY <1>1, InAppend
  <2> QED BY <1>4, <2>1, PumpResumersFirst DEF Retake, ComeBack
<1>5. ASSUME NEW v \in Wait, Release(v)  PROVE t \notin granted'
  BY <1>1, <1>2, <1>5, PumpResumersFirst DEF Release, Give, slot
<1>6. ASSUME NEW v \in Wait, Resume(v)  PROVE t \notin granted'
  BY <1>1, <1>2, <1>6, PumpResumersFirst DEF Resume, HandOn, Give
<1>7. ASSUME NEW u \in Turn, Finish(u) \/ LeaveBehind(u)  PROVE t \notin granted'
  BY <1>1, <1>2, <1>7, PumpResumersFirst DEF Finish, LeaveBehind, End, Give, slot
<1>8. ASSUME NEW u \in Turn, Begin(u) \/ GoOn(u)  PROVE t \notin granted'
  BY <1>8 DEF Begin, GoOn, slot
<1>9. ASSUME NEW v \in Wait, ReleaseLate(v) \/ PlainOver(v)  PROVE t \notin granted'
  BY <1>9 DEF ReleaseLate, PlainOver, slot
<1>10. CASE UNCHANGED qvars
  BY <1>10 DEF qvars, slot
<1> QED BY <1>3, <1>4, <1>5, <1>6, <1>7, <1>8, <1>9, <1>10 DEF QNext

\* While a turn that gave its slot up wants it back, no new turn is started.
THEOREM WantedBackFirst == QSpec => ComesBackFirst
PROOF
<1>1. IInv /\ [QNext]_qvars =>
        [\A w \in Wait, t \in Turn :
           wait[w] = "back" /\ w \notin granted /\ t \notin granted => t \notin granted']_qvars
  BY StepComesBackFirst
<1> QED BY <1>1, InvHolds, PTL DEF QSpec, ComesBackFirst
=============================================================================
