------------------------------ MODULE SpscRing ------------------------------
(***************************************************************************)
(* jh_spsc_ring.h: the lock-free queue that hands data from an interrupt,  *)
(* or the other core, to a task.  One producer writes head, one consumer   *)
(* writes tail, and every load, store and half of a copy is a step of its  *)
(* own.  The acquire loads and release stores of the code order them as    *)
(* written here.                                                           *)
(*                                                                         *)
(* An element is copied with memcpy: it has two parts, written one after   *)
(* the other, so that a consumer that reads a slot too early or a producer *)
(* that overwrites one too early leaves parts of two elements in it.  A    *)
(* push into a full ring and a pop from an empty one change nothing.       *)
(***************************************************************************)
EXTENDS Naturals, Sequences

CONSTANTS
    Data,       \* what the caller queues
    Capacity,   \* slots of the ring
    NoData      \* what a slot holds before it is first written

ASSUME CapacityAssumption == Capacity \in Nat \ {0}
ASSUME NoDataAssumption == NoData \notin Data

VARIABLES
    storage,    \* slot -> its two parts
    head,       \* push position, written by the producer only
    tail,       \* pop position, written by the consumer only
    producer,   \* pc, and the element of the push in progress
    consumer,   \* pc, the head it loaded, and the parts it has copied
    out         \* the element the last pop returned

vars == <<storage, head, tail, producer, consumer, out>>

Slots == 0 .. Capacity - 1
Positions == 0 .. 2 * Capacity - 1
Parts == Data \cup {NoData}
Pair == [lo : Parts, hi : Parts]
Whole(d) == [lo |-> d, hi |-> d]

Used(h, t) == IF h >= t THEN h - t ELSE h + 2 * Capacity - t
(* A mutant of NextPosition: a position that wraps after a single lap, as  *)
(* an index into the slots would.                                          *)
NextPositionOneLap(p) == IF p + 1 = Capacity THEN 0 ELSE p + 1

NextPosition(p) == IF p + 1 = 2 * Capacity THEN 0 ELSE p + 1
Slot(p) == IF p < Capacity THEN p ELSE p - Capacity

TypeOK ==
    /\ storage \in [Slots -> Pair]
    /\ head \in Positions
    /\ tail \in Positions
    /\ producer \in [pc : {"idle", "first", "second", "publish"}, elem : Parts]
    /\ consumer \in [pc : {"idle", "first", "second", "drop", "clear"},
                     seen : Positions, copy : Pair]
    /\ out \in Pair

(***************************************************************************)
(* Attaching the storage empties the ring; it is not concurrent with use.  *)
(***************************************************************************)
Init ==
    /\ storage = [s \in Slots |-> Whole(NoData)]
    /\ head = 0
    /\ tail = 0
    /\ producer = [pc |-> "idle", elem |-> NoData]
    /\ consumer = [pc |-> "idle", seen |-> 0, copy |-> Whole(NoData)]
    /\ out = Whole(NoData)

(* A mutant of PushLoad: a full ring has room for one more.                *)
PushLoadFull(d) ==
    /\ producer.pc = "idle"
    /\ Used(head, tail) <= Capacity
    /\ producer' = [pc |-> "first", elem |-> d]
    /\ UNCHANGED <<storage, head, tail, consumer, out>>

(***************************************************************************)
(* jh_spsc_ring_push: test for room with the tail of this moment, copy the *)
(* element in, publish it.                                                 *)
(***************************************************************************)
PushLoad(d) ==
    /\ producer.pc = "idle"
    /\ Used(head, tail) < Capacity
    /\ producer' = [pc |-> "first", elem |-> d]
    /\ UNCHANGED <<storage, head, tail, consumer, out>>

PushFirst ==
    /\ producer.pc = "first"
    /\ storage' = [storage EXCEPT ![Slot(head)].lo = producer.elem]
    /\ producer' = [producer EXCEPT !.pc = "second"]
    /\ UNCHANGED <<head, tail, consumer, out>>

PushSecond ==
    /\ producer.pc = "second"
    /\ storage' = [storage EXCEPT ![Slot(head)].hi = producer.elem]
    /\ producer' = [producer EXCEPT !.pc = "publish"]
    /\ UNCHANGED <<head, tail, consumer, out>>

PushPublish ==
    /\ producer.pc = "publish"
    /\ head' = NextPosition(head)
    /\ producer' = [producer EXCEPT !.pc = "idle"]
    /\ UNCHANGED <<storage, tail, consumer, out>>

(***************************************************************************)
(* jh_spsc_ring_pop: jh_spsc_ring_peek finds the oldest element, it is     *)
(* copied out, jh_spsc_ring_drop gives the slot back.  The callers that    *)
(* use peek and drop themselves take the same steps.                       *)
(***************************************************************************)
PopPeek ==
    /\ consumer.pc = "idle"
    /\ head # tail
    /\ consumer' = [consumer EXCEPT !.pc = "first"]
    /\ UNCHANGED <<storage, head, tail, producer, out>>

PopFirst ==
    /\ consumer.pc = "first"
    /\ consumer' = [consumer EXCEPT !.pc = "second",
                                    !.copy.lo = storage[Slot(tail)].lo]
    /\ UNCHANGED <<storage, head, tail, producer, out>>

PopSecond ==
    /\ consumer.pc = "second"
    /\ consumer' = [consumer EXCEPT !.pc = "drop",
                                    !.copy.hi = storage[Slot(tail)].hi]
    /\ UNCHANGED <<storage, head, tail, producer, out>>

PopDrop ==
    /\ consumer.pc = "drop"
    /\ tail' = NextPosition(tail)
    /\ out' = consumer.copy
    /\ consumer' = [consumer EXCEPT !.pc = "idle"]
    /\ UNCHANGED <<storage, head, producer>>

(***************************************************************************)
(* jh_spsc_ring_clear: the head is loaded first and stored as the tail     *)
(* later; what is pushed in between stays queued.                          *)
(***************************************************************************)
ClearLoad ==
    /\ consumer.pc = "idle"
    /\ consumer' = [consumer EXCEPT !.pc = "clear", !.seen = head]
    /\ UNCHANGED <<storage, head, tail, producer, out>>

ClearStore ==
    /\ consumer.pc = "clear"
    /\ tail' = consumer.seen
    /\ consumer' = [consumer EXCEPT !.pc = "idle"]
    /\ UNCHANGED <<storage, head, producer, out>>

Next ==
    \/ \E d \in Data : PushLoad(d)
    \/ PushFirst
    \/ PushSecond
    \/ PushPublish
    \/ PopPeek
    \/ PopFirst
    \/ PopSecond
    \/ PopDrop
    \/ ClearLoad
    \/ ClearStore

Spec == Init /\ [][Next]_vars

-----------------------------------------------------------------------------
Writing == producer.pc \in {"first", "second", "publish"}
Reading == consumer.pc \in {"first", "second", "drop"}

(***************************************************************************)
(* The slot that jh_spsc_ring_push is copying into is never the one that   *)
(* jh_spsc_ring_pop is copying out of, although both compute it from       *)
(* positions the other side may be moving.                                 *)
(***************************************************************************)
NoDataRace == Writing /\ Reading => Slot(head) # Slot(tail)

(***************************************************************************)
(* The ring is a bounded queue: what it holds runs from the tail, or from  *)
(* where a clear in progress will put the tail, to the head.  No element   *)
(* is lost, repeated, reordered or returned in parts, and no more than     *)
(* Capacity are queued, at any interleaving of the two sides.              *)
(***************************************************************************)
Front == IF consumer.pc = "clear" THEN consumer.seen ELSE tail
Ahead(p, n) == IF p + n < 2 * Capacity THEN p + n ELSE p + n - 2 * Capacity
Queue == [i \in 1 .. Used(head, Front) |-> storage[Slot(Ahead(Front, i - 1))]]

Implements == INSTANCE Fifo WITH
    Elems <- {Whole(d) : d \in Data}, NoElem <- Whole(NoData), queue <- Queue

ImplementsFifo == Implements!Spec
=============================================================================
