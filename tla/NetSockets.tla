------------------------------ MODULE NetSockets ------------------------------
(***************************************************************************)
(* The public sockets of hal_tcp.cpp and hal_udp.cpp over the handle pool  *)
(* of jh_handle_pool.cpp.  A socket is an object of the network backend;   *)
(* the application holds a handle, a slot number with the generation of    *)
(* the slot.  Each call takes the facade mutex to look at the pool and     *)
(* gives it back before it calls the backend, so that between the two any  *)
(* other task may close the socket, reset the network or open a new one.   *)
(* An operation therefore holds a lease on its slot.                       *)
(*                                                                         *)
(* One step is what a call does under the mutex, or one call of the        *)
(* backend.  The backend gives out a token, the address of its object,     *)
(* again once it was closed; `life' counts how often, so that properties   *)
(* can tell the objects apart where the code cannot.  Sockets, listeners   *)
(* and datagram sockets have a pool each with the same code: the module is *)
(* one of them, and an accept is an operation on one pool followed by an   *)
(* open on the other.                                                      *)
(***************************************************************************)
EXTENDS Naturals, FiniteSets

CONSTANTS
    Tasks,          \* tasks and cores that call the facade
    Capacity,       \* slots of the pool
    Tokens,         \* objects the backend has room for
    MaxOpens,       \* bound: opens of each token
    NoToken         \* a null token

ASSUME TasksAssumption == IsFiniteSet(Tasks)
ASSUME CapacityAssumption == Capacity \in Nat \ {0}
ASSUME TokensAssumption == IsFiniteSet(Tokens) /\ NoToken \notin Tokens
ASSUME MaxOpensAssumption == MaxOpens \in Nat

VARIABLES
    slots,      \* slot -> token, generation, active_operations, in_use, closing
    task,       \* task -> where it is, its lease, the tokens it has to close
    open,       \* backend: the tokens whose object exists
    life,       \* history: token -> how many objects it has named
    issued      \* history: the handles given out, each with its object

vars == <<slots, task, open, life, issued>>

Slots == 1 .. Capacity
Object(t) == <<t, life[t]>>
Objects == Tokens \X (1 .. MaxOpens)

(***************************************************************************)
(* The generation is 19 bits wide on a 32-bit core and comes back to a     *)
(* slot after 2^19 - 1 reuses; every slot together sees at most one reuse  *)
(* for each open, and the bound on opens stays far below that.             *)
(***************************************************************************)
Generations == Nat
Handles == [slot : Slots, generation : Generations, object : Objects]

Leases == [slot : Slots, generation : Generations, token : Tokens, object : Objects]
NoLease == [slot |-> 0]

Slot == [token : Tokens \cup {NoToken}, generation : Generations,
         active : Nat, in_use : BOOLEAN, closing : BOOLEAN]

Work == [pc : {"idle", "opened", "using", "closing"},
         lease : Leases \cup {NoLease},
         close : SUBSET Tokens]

TypeOK ==
    /\ slots \in [Slots -> Slot]
    /\ task \in [Tasks -> Work]
    /\ open \subseteq Tokens
    /\ life \in [Tokens -> 0 .. MaxOpens]
    /\ issued \subseteq Handles

Idle == [pc |-> "idle", lease |-> NoLease, close |-> {}]
Closing(tokens) ==
    IF tokens = {} THEN Idle
                   ELSE [pc |-> "closing", lease |-> NoLease, close |-> tokens]

Init ==
    /\ slots = [s \in Slots |-> [token |-> NoToken, generation |-> 0,
                                 active |-> 0, in_use |-> FALSE,
                                 closing |-> FALSE]]
    /\ task = [k \in Tasks |-> Idle]
    /\ open = {}
    /\ life = [t \in Tokens |-> 0]
    /\ issued = {}

-----------------------------------------------------------------------------
(***************************************************************************)
(* The handle pool: what its functions do to one slot.  An allocation      *)
(* takes the first slot that is free; a handle is good while its slot is   *)
(* in use and still has the generation the handle was made with; a close   *)
(* gives up the token when no operation runs, and leaves it to the last    *)
(* operation otherwise.                                                    *)
(***************************************************************************)
Free(s) ==
    /\ ~slots[s].in_use
    /\ ~slots[s].closing
    /\ slots[s].active = 0
    /\ slots[s].token = NoToken

Allocated(slot, t) == [slot EXCEPT !.generation = @ + 1, !.token = t,
                                   !.in_use = TRUE]

Resolves(h) ==
    /\ slots[h.slot].in_use
    /\ slots[h.slot].generation = h.generation
    /\ slots[h.slot].token # NoToken

Acquired(slot) == [slot EXCEPT !.active = @ + 1]

(* A mutant of Released: the token stays in the slot.                      *)
ReleasedKeeps(slot) == [slot EXCEPT !.closing = FALSE]

Released(slot) == [slot EXCEPT !.token = NoToken, !.closing = FALSE]

(* A mutant of BeginClose: operations in progress are not waited for.      *)
BeginCloseNow(slot) == Released([slot EXCEPT !.in_use = FALSE])

BeginClose(slot) ==
    LET closing == [slot EXCEPT !.in_use = FALSE, !.closing = TRUE]
    IN  IF slot.active = 0 THEN Released(closing) ELSE closing

EndOperation(slot) ==
    LET ended == [slot EXCEPT !.active = @ - 1]
    IN  IF slot.closing /\ ended.active = 0 THEN Released(ended) ELSE ended

(* The token that a function hands to its caller, to be closed outside the *)
(* mutex, is the one it took out of the slot.                              *)
TakenOut(before, after) == {before.token} \ {after.token}

-----------------------------------------------------------------------------
(***************************************************************************)
(* Open and accept: the backend opens an object, then the pool makes a     *)
(* handle for it; without a free slot the object is closed again.          *)
(***************************************************************************)
OpenObject(k) ==
    /\ task[k] = Idle
    /\ \E t \in Tokens \ open :
         /\ life[t] < MaxOpens
         /\ open' = open \cup {t}
         /\ life' = [life EXCEPT ![t] = @ + 1]
         /\ task' = [task EXCEPT ![k] = [Idle EXCEPT !.pc = "opened",
                                                     !.close = {t}]]
    /\ UNCHANGED <<slots, issued>>

FirstFree(s) == Free(s) /\ \A r \in Slots : Free(r) => s <= r

Published(k, t) ==
    /\ task[k].pc = "opened"
    /\ t \in task[k].close
    /\ \E s \in Slots :
         /\ FirstFree(s)
         /\ slots' = [slots EXCEPT ![s] = Allocated(@, t)]
         /\ issued' = issued \cup
              {[slot |-> s, generation |-> slots[s].generation + 1,
                object |-> Object(t)]}
    /\ task' = [task EXCEPT ![k] = Idle]
    /\ UNCHANGED <<open, life>>

(* A mutant of Refused: the object is forgotten when no slot is free.      *)
RefusedLeaks(k) ==
    /\ task[k].pc = "opened"
    /\ \A s \in Slots : ~Free(s)
    /\ task' = [task EXCEPT ![k] = Idle]
    /\ UNCHANGED <<slots, open, life, issued>>

Refused(k) ==
    /\ task[k].pc = "opened"
    /\ \A s \in Slots : ~Free(s)
    /\ task' = [task EXCEPT ![k] = Closing(task[k].close)]
    /\ UNCHANGED <<slots, open, life, issued>>

MakeHandle(k) == Refused(k) \/ \E t \in Tokens : Published(k, t)

(***************************************************************************)
(* Connect, send, receive, shutdown and the queries: a lease, one call of  *)
(* the backend while the task is "using" its token, and the end of the     *)
(* lease, which may leave the token to close.  The application may use a   *)
(* handle long after it was closed; one that does not resolve is refused   *)
(* and changes nothing.                                                    *)
(***************************************************************************)
Operate(k) ==
    /\ task[k] = Idle
    /\ \E h \in issued :
         /\ Resolves(h)
         /\ task' = [task EXCEPT ![k] =
                [pc |-> "using", close |-> {},
                 lease |-> [slot |-> h.slot, generation |-> slots[h.slot].generation,
                            token |-> slots[h.slot].token, object |-> h.object]]]
         /\ slots' = [slots EXCEPT ![h.slot] = Acquired(@)]
    /\ UNCHANGED <<open, life, issued>>

FinishOperation(k) ==
    /\ task[k].pc = "using"
    /\ LET lease == task[k].lease
           slot == slots[lease.slot]
           good == /\ slot.generation = lease.generation
                   /\ slot.token = lease.token
                   /\ slot.active # 0
           after == IF good THEN EndOperation(slot) ELSE slot
       IN  /\ slots' = [slots EXCEPT ![lease.slot] = after]
           /\ task' = [task EXCEPT ![k] = Closing(TakenOut(slot, after))]
    /\ UNCHANGED <<open, life, issued>>

(***************************************************************************)
(* Close, and the reset of all sockets when the network goes down: the     *)
(* tokens taken out under the mutex are closed behind it, one by one.      *)
(***************************************************************************)
Close(k) ==
    /\ task[k] = Idle
    /\ \E h \in issued :
         /\ Resolves(h)
         /\ slots' = [slots EXCEPT ![h.slot] = BeginClose(@)]
         /\ task' = [task EXCEPT ![k] =
                        Closing(TakenOut(slots[h.slot], slots'[h.slot]))]
    /\ UNCHANGED <<open, life, issued>>

ResetAll(k) ==
    /\ task[k] = Idle
    /\ slots' = [s \in Slots |-> IF slots[s].in_use THEN BeginClose(slots[s])
                                                    ELSE slots[s]]
    /\ task' = [task EXCEPT ![k] =
            Closing(UNION {TakenOut(slots[s], slots'[s]) : s \in Slots})]
    /\ UNCHANGED <<open, life, issued>>

CloseObject(k) ==
    /\ task[k].pc = "closing"
    /\ \E t \in task[k].close :
         /\ open' = open \ {t}
         /\ task' = [task EXCEPT ![k] = Closing(task[k].close \ {t})]
    /\ UNCHANGED <<slots, life, issued>>

GoOn(k) == MakeHandle(k) \/ FinishOperation(k) \/ CloseObject(k)

Next ==
    \E k \in Tasks :
        \/ OpenObject(k) \/ Operate(k) \/ Close(k) \/ ResetAll(k)
        \/ GoOn(k)

Spec == Init /\ [][Next]_vars

(***************************************************************************)
(* A call of the backend returns (it has a timeout of its own), and a task *)
(* inside a facade call goes on.                                           *)
(***************************************************************************)
FairSpec == Spec /\ \A k \in Tasks : WF_vars(GoOn(k))

-----------------------------------------------------------------------------
(***************************************************************************)
(* A task that is inside the backend uses an object that exists and is the *)
(* one its handle was made for: not one that was closed under it, nor one  *)
(* that got the token or the slot afterwards.                              *)
(***************************************************************************)
LeaseHolds ==
    \A k \in Tasks :
        task[k].pc = "using" =>
            /\ task[k].lease.token \in open
            /\ Object(task[k].lease.token) = task[k].lease.object

(***************************************************************************)
(* An object that exists is in exactly one place: in a slot, where an      *)
(* application handle or the last operation finds it, or in the hands of   *)
(* one task that publishes or closes it.  So none leaks, whichever call    *)
(* fails, and none is closed twice, nor closed after its token was reused. *)
(***************************************************************************)
Places(t) == {<<"slot", s>> : s \in {r \in Slots : slots[r].token = t}}
             \cup {<<"task", k>> : k \in {j \in Tasks : t \in task[j].close}}

OnePlace ==
    \A t \in Tokens : Cardinality(Places(t)) = (IF t \in open THEN 1 ELSE 0)

(***************************************************************************)
(* A slot that was closed while operations ran on it is given back once    *)
(* they have ended: no new operation can keep it busy.                     *)
(***************************************************************************)
ClosesFinish == \A s \in Slots : slots[s].closing ~> Free(s)
=============================================================================
