--------------------------- MODULE SpscRingProofs ---------------------------
(***************************************************************************)
(* What holds of SpscRing for every capacity and every set of data: its    *)
(* types, that the two sides never meet in a slot, and that the ring       *)
(* implements the bounded queue Fifo.                                      *)
(*                                                                         *)
(* The inductive invariant relates the two positions (a write in progress  *)
(* counts as one more element, a clear in progress has not gone past the   *)
(* head) and says which halves of an element are already copied.           *)
(***************************************************************************)
EXTENDS SpscRing, SequenceTheorems, TLAPS

RoomOK == Used(head, tail) + (IF Writing THEN 1 ELSE 0) <= Capacity

FrontOK ==
    /\ Reading => Used(head, tail) > 0
    /\ consumer.pc = "clear" => Used(head, consumer.seen) <= Used(head, tail)

CopiedIn ==
    /\ Writing => producer.elem \in Data
    /\ producer.pc \in {"second", "publish"} =>
          storage[Slot(head)].lo = producer.elem
    /\ producer.pc = "publish" => storage[Slot(head)].hi = producer.elem

CopiedOut ==
    /\ consumer.pc \in {"second", "drop"} =>
          consumer.copy.lo = storage[Slot(tail)].lo
    /\ consumer.pc = "drop" => consumer.copy.hi = storage[Slot(tail)].hi

RingInv == TypeOK /\ RoomOK /\ FrontOK /\ CopiedIn /\ CopiedOut

(***************************************************************************)
(* Positions run over two laps of the slots.                               *)
(***************************************************************************)
LEMMA PositionsOK ==
    ASSUME NEW h \in Positions, NEW t \in Positions
    PROVE  /\ Capacity \in Nat \ {0}
           /\ Used(h, t) \in 0 .. 2 * Capacity - 1
           /\ NextPosition(h) \in Positions
           /\ Slot(h) \in Slots
           /\ Used(h, t) = 0 <=> h = t
  BY CapacityAssumption DEF Positions, Slots, Used, NextPosition, Slot

\* Two positions less than a lap apart, and not equal, have their own slots.
LEMMA SlotsApart ==
    ASSUME NEW h \in Positions, NEW t \in Positions,
           Used(h, t) \in 1 .. Capacity - 1
    PROVE  Slot(h) # Slot(t)
  BY CapacityAssumption DEF Positions, Used, Slot

LEMMA Pushed ==
    ASSUME NEW h \in Positions, NEW t \in Positions, Used(h, t) < Capacity
    PROVE  Used(NextPosition(h), t) = Used(h, t) + 1
  BY CapacityAssumption DEF Positions, Used, NextPosition

LEMMA Popped ==
    ASSUME NEW h \in Positions, NEW t \in Positions, Used(h, t) > 0
    PROVE  Used(h, NextPosition(t)) = Used(h, t) - 1
  BY CapacityAssumption DEF Positions, Used, NextPosition

(***************************************************************************)
(* The slot being written is not the one being read.                       *)
(***************************************************************************)
LEMMA InvNoDataRace == RingInv => NoDataRace
<1> SUFFICES ASSUME RingInv, Writing, Reading PROVE Slot(head) # Slot(tail)
  BY DEF NoDataRace
<1>1. head \in Positions /\ tail \in Positions
  BY DEF RingInv, TypeOK
<1>2. Used(head, tail) \in 0 .. 2 * Capacity - 1
  BY <1>1, PositionsOK
<1>3. Used(head, tail) \in 1 .. Capacity - 1
  BY <1>2, CapacityAssumption DEF RingInv, RoomOK, FrontOK
<1> QED
  BY <1>1, <1>3, SlotsApart

LEMMA InitOK == Init => RingInv
<1> SUFFICES ASSUME Init PROVE RingInv
  OBVIOUS
<1>1. TypeOK
  BY CapacityAssumption DEF Init, TypeOK, Slots, Positions, Pair, Parts, Whole
<1>2. RoomOK /\ FrontOK /\ CopiedIn /\ CopiedOut
  BY CapacityAssumption DEF Init, RoomOK, FrontOK, CopiedIn, CopiedOut, Writing,
     Reading, Used
<1> QED
  BY <1>1, <1>2 DEF RingInv

(***************************************************************************)
(* The steps.                                                              *)
(***************************************************************************)
LEMMA PushLoadOK == ASSUME NEW d \in Data PROVE RingInv /\ PushLoad(d) => RingInv'
<1> SUFFICES ASSUME RingInv, PushLoad(d) PROVE RingInv'
  OBVIOUS
<1>1. TypeOK'
  BY DEF RingInv, TypeOK, PushLoad, Parts
<1>2. RoomOK'
  BY CapacityAssumption DEF RingInv, TypeOK, RoomOK, PushLoad, Writing, Used, Positions
<1>3. FrontOK'
  BY DEF RingInv, FrontOK, PushLoad, Reading
<1>4. CopiedIn' /\ CopiedOut'
  BY DEF RingInv, TypeOK, CopiedIn, CopiedOut, PushLoad, Writing
<1> QED
  BY <1>1, <1>2, <1>3, <1>4 DEF RingInv

\* Writing a half of an element leaves every other slot alone.
LEMMA PushCopyOK == RingInv /\ (PushFirst \/ PushSecond) => RingInv'
<1> SUFFICES ASSUME RingInv, PushFirst \/ PushSecond PROVE RingInv'
  OBVIOUS
<1>1. /\ head \in Positions /\ tail \in Positions
      /\ Slot(head) \in Slots /\ Slot(tail) \in Slots
  BY PositionsOK DEF RingInv, TypeOK
<1>2. Writing /\ producer.elem \in Parts
  BY DEF PushFirst, PushSecond, Writing, RingInv, TypeOK
<1>3. TypeOK'
  BY SMTT(30), <1>1, <1>2 DEF RingInv, TypeOK, PushFirst, PushSecond, Pair
<1>4. RoomOK' /\ FrontOK'
  BY <1>2 DEF RingInv, TypeOK, RoomOK, FrontOK, PushFirst, PushSecond, Writing, Reading
<1>5. CopiedIn'
  BY <1>1, <1>2 DEF RingInv, TypeOK, CopiedIn, PushFirst, PushSecond, Writing, Pair
<1>6. Reading => Slot(head) # Slot(tail)
  BY <1>2, InvNoDataRace DEF NoDataRace
<1>7. CopiedOut'
  BY <1>1, <1>6 DEF RingInv, TypeOK, CopiedOut, PushFirst, PushSecond, Reading
<1> QED
  BY <1>3, <1>4, <1>5, <1>7 DEF RingInv

LEMMA PushPublishOK == RingInv /\ PushPublish => RingInv'
<1> SUFFICES ASSUME RingInv, PushPublish PROVE RingInv'
  OBVIOUS
<1>1. /\ head \in Positions /\ tail \in Positions /\ consumer.seen \in Positions
      /\ Writing
  BY DEF RingInv, TypeOK, PushPublish, Writing
<1>2. /\ Used(head, tail) \in 0 .. 2 * Capacity - 1
      /\ Used(head, consumer.seen) \in 0 .. 2 * Capacity - 1
      /\ NextPosition(head) \in Positions
  BY <1>1, PositionsOK
<1>3. Used(head, tail) < Capacity
  BY <1>1, <1>2, CapacityAssumption DEF RingInv, RoomOK
<1>4. Used(head', tail) = Used(head, tail) + 1
  BY <1>1, <1>3, Pushed DEF PushPublish
<1>5. TypeOK'
  BY <1>2 DEF RingInv, TypeOK, PushPublish
<1>6. RoomOK'
  BY <1>1, <1>2, <1>4, CapacityAssumption
     DEF RingInv, TypeOK, RoomOK, PushPublish, Writing
<1>7. FrontOK'
  <2>1. Reading' => Used(head', tail') > 0
    BY <1>2, <1>4 DEF PushPublish
  <2>2. ASSUME consumer'.pc = "clear" PROVE Used(head', consumer'.seen) <= Used(head', tail')
    <3>1. Used(head, consumer.seen) <= Used(head, tail)
      BY <2>2 DEF RingInv, FrontOK, PushPublish
    <3>2. Used(head, consumer.seen) < Capacity
      BY <1>2, <1>3, <3>1, CapacityAssumption
    <3>3. Used(head', consumer.seen) = Used(head, consumer.seen) + 1
      BY <1>1, <3>2, Pushed DEF PushPublish
    <3> QED
      BY <1>2, <1>4, <3>1, <3>3 DEF PushPublish
  <2> QED
    BY <2>1, <2>2 DEF FrontOK
<1>8. CopiedIn' /\ CopiedOut'
  BY DEF RingInv, TypeOK, CopiedIn, CopiedOut, PushPublish, Writing
<1> QED
  BY <1>5, <1>6, <1>7, <1>8 DEF RingInv

LEMMA PopPeekOK == RingInv /\ PopPeek => RingInv'
<1> SUFFICES ASSUME RingInv, PopPeek PROVE RingInv'
  OBVIOUS
<1>1. Used(head, tail) > 0
  <2>1. head \in Positions /\ tail \in Positions /\ head # tail
    BY DEF RingInv, TypeOK, PopPeek
  <2>2. Used(head, tail) # 0 /\ Used(head, tail) \in 0 .. 2 * Capacity - 1
    BY <2>1, PositionsOK
  <2> QED
    BY <2>2
<1>2. TypeOK' /\ FrontOK'
  <2>1. TypeOK' /\ consumer'.pc = "first"
    BY DEF RingInv, TypeOK, PopPeek
  <2> QED
    BY <1>1, <2>1 DEF FrontOK, PopPeek
<1>3. RoomOK' /\ CopiedIn' /\ CopiedOut'
  BY DEF RingInv, TypeOK, RoomOK, CopiedIn, CopiedOut, PopPeek, Writing
<1> QED
  BY <1>2, <1>3 DEF RingInv

LEMMA PopCopyOK == RingInv /\ (PopFirst \/ PopSecond) => RingInv'
<1> SUFFICES ASSUME RingInv, PopFirst \/ PopSecond PROVE RingInv'
  OBVIOUS
<1>1. Slot(tail) \in Slots
  BY PositionsOK DEF RingInv, TypeOK
<1>2. storage[Slot(tail)] \in Pair
  BY <1>1 DEF RingInv, TypeOK
<1>3. TypeOK' /\ CopiedOut'
  <2>1. CASE PopFirst
    <3> DEFINE copy == [consumer.copy EXCEPT !.lo = storage[Slot(tail)].lo]
    <3>1. copy \in Pair /\ copy.lo = storage[Slot(tail)].lo
      BY <1>2 DEF RingInv, TypeOK, Pair
    <3>2. consumer' = [consumer EXCEPT !.pc = "second", !.copy = copy]
      BY <2>1 DEF PopFirst, RingInv, TypeOK
    <3> QED
      BY <2>1, <3>1, <3>2 DEF PopFirst, RingInv, TypeOK, CopiedOut
  <2>2. CASE PopSecond
    <3> DEFINE copy == [consumer.copy EXCEPT !.hi = storage[Slot(tail)].hi]
    <3>1. /\ copy \in Pair /\ copy.hi = storage[Slot(tail)].hi
          /\ copy.lo = consumer.copy.lo
      BY <1>2 DEF RingInv, TypeOK, Pair
    <3>2. consumer' = [consumer EXCEPT !.pc = "drop", !.copy = copy]
      BY <2>2 DEF PopSecond, RingInv, TypeOK
    <3> QED
      BY <2>2, <3>1, <3>2 DEF PopSecond, RingInv, TypeOK, CopiedOut
  <2> QED
    BY <2>1, <2>2
<1>4. RoomOK' /\ FrontOK' /\ CopiedIn'
  BY DEF RingInv, RoomOK, FrontOK, CopiedIn, PopFirst, PopSecond, TypeOK, Writing, Reading
<1> QED
  BY <1>3, <1>4 DEF RingInv

LEMMA PopDropOK == RingInv /\ PopDrop => RingInv'
<1> SUFFICES ASSUME RingInv, PopDrop PROVE RingInv'
  OBVIOUS
<1>1. head \in Positions /\ tail \in Positions
  BY DEF RingInv, TypeOK
<1>2. NextPosition(tail) \in Positions /\ Used(head, tail) \in 0 .. 2 * Capacity - 1
  BY <1>1, PositionsOK
<1>3. Used(head, tail') = Used(head, tail) - 1
  BY <1>1, Popped DEF RingInv, FrontOK, PopDrop, Reading
<1>4. TypeOK'
  BY <1>2 DEF RingInv, TypeOK, PopDrop
<1>5. RoomOK'
  BY <1>2, <1>3, CapacityAssumption DEF RingInv, RoomOK, PopDrop, Writing
<1>6. FrontOK' /\ CopiedIn' /\ CopiedOut'
  BY DEF RingInv, TypeOK, FrontOK, CopiedIn, CopiedOut, PopDrop, Reading, Writing
<1> QED
  BY <1>4, <1>5, <1>6 DEF RingInv

\* What was pushed behind the loaded head is at most what was queued.
LEMMA ClearOK == RingInv /\ (ClearLoad \/ ClearStore) => RingInv'
<1> SUFFICES ASSUME RingInv, ClearLoad \/ ClearStore PROVE RingInv'
  OBVIOUS
<1>1. head \in Positions /\ tail \in Positions /\ consumer.seen \in Positions
  BY DEF RingInv, TypeOK
<1>2. /\ Used(head, tail) \in 0 .. 2 * Capacity - 1
      /\ Used(head, consumer.seen) \in 0 .. 2 * Capacity - 1
      /\ Used(head, head) = 0
  BY <1>1, PositionsOK
<1>3. TypeOK'
  BY DEF RingInv, TypeOK, ClearLoad, ClearStore
<1>4. RoomOK'
  BY <1>2, CapacityAssumption
     DEF RingInv, RoomOK, FrontOK, ClearLoad, ClearStore, Writing
<1>5. FrontOK'
  <2>1. ~Reading'
    BY DEF RingInv, TypeOK, ClearLoad, ClearStore, Reading
  <2>2. CASE ClearLoad
    <3>1. head' = head /\ tail' = tail /\ consumer'.seen = head
      BY <2>2 DEF RingInv, TypeOK, ClearLoad
    <3> QED
      BY <1>2, <2>1, <3>1 DEF FrontOK
  <2>3. CASE ClearStore
    <3>1. consumer'.pc = "idle"
      BY <2>3 DEF RingInv, TypeOK, ClearStore
    <3> QED
      BY <2>1, <3>1 DEF FrontOK
  <2> QED
    BY <2>2, <2>3
<1>6. CopiedIn' /\ CopiedOut'
  BY DEF RingInv, TypeOK, CopiedIn, CopiedOut, ClearLoad, ClearStore, Writing
<1> QED
  BY <1>3, <1>4, <1>5, <1>6 DEF RingInv

LEMMA RingStepOK == RingInv /\ [Next]_vars => RingInv'
<1> SUFFICES ASSUME RingInv, [Next]_vars PROVE RingInv'
  OBVIOUS
<1>1. CASE UNCHANGED vars
  BY <1>1 DEF vars, RingInv, TypeOK, RoomOK, FrontOK, CopiedIn, CopiedOut, Writing, Reading
<1> QED
  BY <1>1, PushLoadOK, PushCopyOK, PushPublishOK, PopPeekOK, PopCopyOK, PopDropOK,
     ClearOK DEF Next

THEOREM RingInvariance == Spec => []RingInv
  BY InitOK, RingStepOK, PTL DEF Spec

\* Positions and copies keep their type, whatever the capacity.
THEOREM TypeCorrect == Spec => []TypeOK
<1>1. RingInv => TypeOK
  BY DEF RingInv
<1> QED
  BY <1>1, RingInvariance, PTL

\* jh_spsc_ring_push and jh_spsc_ring_pop never touch the same slot at the
\* same time.
THEOREM SlotsNeverShared == Spec => []NoDataRace
  BY InvNoDataRace, RingInvariance, PTL

(***************************************************************************)
(* The queue that the positions delimit.                                   *)
(***************************************************************************)
LEMMA AheadOK ==
    ASSUME NEW h \in Positions, NEW t \in Positions, NEW n \in Nat,
           n < Used(h, t)
    PROVE  /\ Ahead(t, n) \in Positions
           /\ Used(h, Ahead(t, n)) = Used(h, t) - n
  BY CapacityAssumption DEF Positions, Used, Ahead

LEMMA AheadNext ==
    ASSUME NEW t \in Positions, NEW n \in Nat, n + 1 < 2 * Capacity
    PROVE  Ahead(NextPosition(t), n) = Ahead(t, n + 1)
  BY CapacityAssumption DEF Positions, NextPosition, Ahead

LEMMA AheadHead ==
    ASSUME NEW h \in Positions, NEW t \in Positions
    PROVE  Ahead(t, Used(h, t)) = h
  BY CapacityAssumption DEF Positions, Used, Ahead

\* What the invariant says of the front of the queue.
LEMMA FrontUsed ==
    ASSUME RingInv
    PROVE  /\ head \in Positions /\ tail \in Positions /\ Front \in Positions
           /\ Used(head, Front) \in 0 .. Capacity
           /\ Writing => Used(head, Front) < Capacity
<1>1. head \in Positions /\ tail \in Positions /\ Front \in Positions
  BY DEF RingInv, TypeOK, Front
<1>2. /\ Used(head, Front) \in 0 .. 2 * Capacity - 1
      /\ Used(head, tail) \in 0 .. 2 * Capacity - 1
  BY <1>1, PositionsOK
<1>3. Used(head, Front) <= Used(head, tail)
  BY <1>2 DEF RingInv, FrontOK, Front
<1> QED
  BY <1>1, <1>2, <1>3, CapacityAssumption DEF RingInv, RoomOK

LEMMA QueueOK ==
    ASSUME RingInv
    PROVE  /\ Queue \in Seq(Pair)
           /\ Len(Queue) = Used(head, Front)
           /\ \A i \in 1 .. Used(head, Front) :
                 Queue[i] = storage[Slot(Ahead(Front, i - 1))]
<1>1. /\ head \in Positions /\ Front \in Positions
      /\ Used(head, Front) \in Nat
  BY FrontUsed
<1>2. ASSUME NEW i \in 1 .. Used(head, Front)
      PROVE  storage[Slot(Ahead(Front, i - 1))] \in Pair
  <2>1. i - 1 \in Nat /\ i - 1 < Used(head, Front)
    BY <1>1
  <2>2. Ahead(Front, i - 1) \in Positions
    BY <1>1, <2>1, AheadOK
  <2> QED
    BY <2>2, PositionsOK DEF RingInv, TypeOK
<1>3. Queue \in [1 .. Used(head, Front) -> Pair]
  BY <1>2 DEF Queue
<1>4. Queue \in Seq(Pair) /\ Len(Queue) = Used(head, Front)
  <2>1. Queue \in Seq(Pair)
    BY <1>1, <1>3
  <2>2. DOMAIN Queue = 1 .. Len(Queue) /\ Len(Queue) \in Nat
    BY <2>1, LenProperties
  <2>3. DOMAIN Queue = 1 .. Used(head, Front)
    BY <1>3
  <2> QED
    BY <1>1, <2>1, <2>2, <2>3
<1> QED
  BY <1>4 DEF Queue

(***************************************************************************)
(* Steps that leave the positions alone change nothing in the queue: the   *)
(* slot a producer writes is outside it.                                   *)
(***************************************************************************)
LEMMA WritesOutside ==
    ASSUME RingInv, Writing, NEW i \in 1 .. Used(head, Front)
    PROVE  Slot(Ahead(Front, i - 1)) # Slot(head)
<1>1. /\ head \in Positions /\ Front \in Positions
      /\ Used(head, Front) \in Nat /\ Used(head, Front) < Capacity
  BY FrontUsed
<1>2. i - 1 \in Nat /\ i - 1 < Used(head, Front)
  BY <1>1
<1>3. /\ Ahead(Front, i - 1) \in Positions
      /\ Used(head, Ahead(Front, i - 1)) = Used(head, Front) - (i - 1)
  BY <1>1, <1>2, AheadOK
<1>4. Used(head, Ahead(Front, i - 1)) \in 1 .. Capacity - 1
  BY <1>1, <1>2, <1>3, CapacityAssumption
<1> QED
  BY <1>1, <1>3, <1>4, SlotsApart

LEMMA CopyStutters ==
    ASSUME RingInv, PushFirst \/ PushSecond
    PROVE  Queue' = Queue
<1>1. Writing /\ head' = head /\ Front' = Front
  BY DEF PushFirst, PushSecond, Writing, Front
<1>2. Used(head', Front') = Used(head, Front)
  BY <1>1
<1>3. ASSUME NEW i \in 1 .. Used(head, Front)
      PROVE  storage'[Slot(Ahead(Front, i - 1))] = storage[Slot(Ahead(Front, i - 1))]
  <2>1. Slot(Ahead(Front, i - 1)) # Slot(head)
    BY <1>1, WritesOutside
  <2>2. i - 1 \in Nat /\ i - 1 < Used(head, Front)
    BY FrontUsed
  <2>3. Slot(Ahead(Front, i - 1)) \in Slots
    BY <2>2, FrontUsed, AheadOK, PositionsOK
  <2> QED
    BY <2>1, <2>3 DEF PushFirst, PushSecond, RingInv, TypeOK
<1> QED
  BY <1>1, <1>2, <1>3 DEF Queue

LEMMA OthersStutter ==
    ASSUME RingInv,
           \/ \E d \in Data : PushLoad(d)
           \/ PopPeek \/ PopFirst \/ PopSecond \/ ClearStore
           \/ UNCHANGED vars
    PROVE  Queue' = Queue /\ out' = out
<1>1. storage' = storage /\ head' = head /\ out' = out
  BY DEF PushLoad, PopPeek, PopFirst, PopSecond, ClearStore, vars
<1>2. Front' = Front
  BY DEF PushLoad, PopPeek, PopFirst, PopSecond, ClearStore, vars, Front, RingInv, TypeOK
<1> QED
  BY <1>1, <1>2 DEF Queue

\* Publishing the head appends the element that was copied in.
LEMMA PublishPuts ==
    ASSUME RingInv, PushPublish
    PROVE  \E e \in {Whole(d) : d \in Data} : Implements!Put(e)
<1> DEFINE n == Used(head, Front)
           e == Whole(producer.elem)
<1>1. /\ Writing /\ producer.elem \in Data
      /\ head' = NextPosition(head) /\ Front' = Front
      /\ storage' = storage /\ out' = out
  BY DEF RingInv, TypeOK, CopiedIn, PushPublish, Writing, Front
<1>2. /\ head \in Positions /\ Front \in Positions /\ n \in Nat /\ n < Capacity
  BY <1>1, FrontUsed
<1>3. Used(head', Front') = n + 1
  BY <1>1, <1>2, Pushed
<1>4. /\ Queue \in Seq(Pair) /\ Len(Queue) = n
      /\ \A i \in 1 .. n : Queue[i] = storage[Slot(Ahead(Front, i - 1))]
  BY QueueOK
<1>5. storage[Slot(head)] = e
  <2>1. storage[Slot(head)] \in Pair
    BY <1>2, PositionsOK DEF RingInv, TypeOK
  <2>2. /\ storage[Slot(head)].lo = producer.elem
        /\ storage[Slot(head)].hi = producer.elem
    BY DEF RingInv, CopiedIn, PushPublish
  <2> QED
    BY <2>1, <2>2 DEF Pair, Whole
<1>6. Queue' = [i \in 1 .. n + 1 |-> storage[Slot(Ahead(Front, i - 1))]]
  BY <1>1, <1>3 DEF Queue
<1>7. Append(Queue, e) = [i \in 1 .. n + 1 |-> IF i = n + 1 THEN e ELSE Queue[i]]
  BY <1>2, <1>4
<1>8. ASSUME NEW i \in 1 .. n + 1
      PROVE  storage[Slot(Ahead(Front, i - 1))] = IF i = n + 1 THEN e ELSE Queue[i]
  <2>1. CASE i = n + 1
    BY <1>2, <1>5, <2>1, AheadHead
  <2>2. CASE i # n + 1
    <3>1. i \in 1 .. n
      BY <1>2, <2>2
    <3> QED
      BY <1>4, <2>2, <3>1
  <2> QED
    BY <2>1, <2>2
<1>9. Queue' = Append(Queue, e)
  <2> HIDE DEF n, e
  <2> QED
    BY <1>6, <1>7, <1>8
<1>10. Implements!Put(e)
  BY <1>1, <1>2, <1>4, <1>9 DEF Implements!Put
<1> QED
  BY <1>1, <1>10

\* Dropping the tail takes the head of the queue, which was copied out.
LEMMA DropTakes ==
    ASSUME RingInv, PopDrop
    PROVE  Implements!Take
<1> DEFINE n == Used(head, tail)
<1>1. /\ Reading /\ Front = tail /\ Front' = NextPosition(tail)
      /\ head' = head /\ storage' = storage /\ out' = consumer.copy
  BY DEF RingInv, TypeOK, PopDrop, Reading, Front
<1>2. /\ head \in Positions /\ tail \in Positions /\ n \in Nat /\ n > 0 /\ n <= Capacity
  BY <1>1, FrontUsed DEF RingInv, FrontOK
<1>3. Used(head', Front') = n - 1
  BY <1>1, <1>2, Popped
<1>4. /\ Queue \in Seq(Pair) /\ Len(Queue) = n
      /\ \A i \in 1 .. n : Queue[i] = storage[Slot(Ahead(tail, i - 1))]
  BY <1>1, QueueOK
<1>5. Head(Queue) = consumer.copy
  <2>1. Ahead(tail, 0) = tail
    BY <1>2, CapacityAssumption DEF Positions, Ahead
  <2>2. Queue[1] = storage[Slot(tail)]
    BY <1>2, <1>4, <2>1
  <2>3. storage[Slot(tail)] \in Pair /\ consumer.copy \in Pair
    BY <1>2, PositionsOK DEF RingInv, TypeOK
  <2>4. /\ consumer.copy.lo = storage[Slot(tail)].lo
        /\ consumer.copy.hi = storage[Slot(tail)].hi
    BY DEF RingInv, CopiedOut, PopDrop
  <2>5. consumer.copy = storage[Slot(tail)]
    BY <2>3, <2>4 DEF Pair
  <2> QED
    BY <1>2, <1>4, <2>2, <2>5
<1>6. Queue' = [i \in 1 .. n - 1 |-> storage[Slot(Ahead(NextPosition(tail), i - 1))]]
  BY <1>1, <1>3 DEF Queue
<1>7. Tail(Queue) = [i \in 1 .. n - 1 |-> Queue[i + 1]]
  <2>1. /\ Queue # << >> /\ Tail(Queue) \in Seq(Pair)
        /\ Len(Tail(Queue)) = n - 1
        /\ \A i \in 1 .. n - 1 : Tail(Queue)[i] = Queue[i + 1]
    BY <1>2, <1>4, HeadTailProperties
  <2>2. Tail(Queue) \in [1 .. Len(Tail(Queue)) -> Pair]
    BY <2>1, LenProperties
  <2> HIDE DEF n
  <2> QED
    BY <2>1, <2>2
<1>8. ASSUME NEW i \in 1 .. n - 1
      PROVE  storage[Slot(Ahead(NextPosition(tail), i - 1))] = Queue[i + 1]
  <2>1. i - 1 \in Nat /\ (i - 1) + 1 < 2 * Capacity /\ (i - 1) + 1 = (i + 1) - 1
    BY <1>2, CapacityAssumption
  <2>2. Ahead(NextPosition(tail), i - 1) = Ahead(tail, (i - 1) + 1)
    BY <1>2, <2>1, AheadNext
  <2>3. i + 1 \in 1 .. n
    BY <1>2
  <2> QED
    BY <1>4, <2>1, <2>2, <2>3
<1>9. Queue' = Tail(Queue)
  <2> HIDE DEF n
  <2> QED
    BY <1>6, <1>7, <1>8
<1> QED
  BY <1>1, <1>2, <1>4, <1>5, <1>9 DEF Implements!Take

\* A clear takes effect when it loads the head.
LEMMA LoadClears ==
    ASSUME RingInv, ClearLoad
    PROVE  Implements!Clear
<1>1. head' = head /\ Front' = head /\ out' = out
  BY DEF RingInv, TypeOK, ClearLoad, Front
<1>2. Used(head', Front') = 0
  BY <1>1, PositionsOK DEF RingInv, TypeOK
<1>3. Queue' = << >>
  BY <1>2 DEF Queue
<1> QED
  BY <1>1, <1>3 DEF Implements!Clear

LEMMA InitImplements == Init => Implements!Init
<1> SUFFICES ASSUME Init PROVE Implements!Init
  OBVIOUS
<1>1. Used(head, Front) = 0 /\ out = Whole(NoData)
  BY CapacityAssumption DEF Init, Front, Used
<1>2. Queue = << >>
  BY <1>1 DEF Queue
<1> QED
  BY <1>1, <1>2 DEF Implements!Init

LEMMA StepImplements ==
    RingInv /\ [Next]_vars => [Implements!Next]_<<Queue, out>>
<1> SUFFICES ASSUME RingInv, [Next]_vars
             PROVE  Implements!Next \/ (Queue' = Queue /\ out' = out)
  OBVIOUS
<1>1. CASE PushPublish
  BY <1>1, PublishPuts DEF Implements!Next
<1>2. CASE PopDrop
  BY <1>2, DropTakes DEF Implements!Next
<1>3. CASE ClearLoad
  BY <1>3, LoadClears DEF Implements!Next
<1>4. CASE PushFirst \/ PushSecond
  BY <1>4, CopyStutters DEF PushFirst, PushSecond
<1>5. CASE \/ \E d \in Data : PushLoad(d)
           \/ PopPeek \/ PopFirst \/ PopSecond \/ ClearStore
           \/ UNCHANGED vars
  BY <1>5, OthersStutter
<1> QED
  BY <1>1, <1>2, <1>3, <1>4, <1>5 DEF Next

\* The ring is a bounded first-in first-out queue, for every capacity and
\* every interleaving of its two sides.
THEOREM RingIsFifo == Spec => ImplementsFifo
  BY InitImplements, StepImplements, RingInvariance, PTL
     DEF Spec, ImplementsFifo, Implements!Spec
=============================================================================
