-------------------------------- MODULE Fifo --------------------------------
(***************************************************************************)
(* What a bounded queue between one producer and one consumer promises:    *)
(* elements leave in the order they entered, once each and unchanged, and  *)
(* a clear drops what is queued at that moment and nothing else.           *)
(***************************************************************************)
EXTENDS Naturals, Sequences

CONSTANTS
    Elems,      \* what can be queued
    Capacity,   \* how many fit
    NoElem      \* the result before anything was taken

VARIABLES
    queue,      \* the elements queued, oldest first
    out         \* the element taken last

Init ==
    /\ queue = << >>
    /\ out = NoElem

Put(e) ==
    /\ Len(queue) < Capacity
    /\ queue' = Append(queue, e)
    /\ UNCHANGED out

Take ==
    /\ queue # << >>
    /\ out' = Head(queue)
    /\ queue' = Tail(queue)

Clear ==
    /\ queue' = << >>
    /\ UNCHANGED out

Next ==
    \/ \E e \in Elems : Put(e)
    \/ Take
    \/ Clear

Spec == Init /\ [][Next]_<<queue, out>>
=============================================================================
