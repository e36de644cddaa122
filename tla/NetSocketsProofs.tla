--------------------------- MODULE NetSocketsProofs ---------------------------
(* Proofs about NetSockets, for every number of tasks, slots and objects.    *)
(*                                                                           *)
(* That a lease holds does not follow from itself: a slot must stay closed   *)
(* to new handles exactly while tasks work on it (Counted), its token must   *)
(* be the one its leases name (Leased), and a stale handle must be told from *)
(* a good one by its generation (Known).                                     *)
EXTENDS NetSockets, FiniteSetTheorems, TLAPS

Using(k) == task[k].pc = "using"
Users(s) == {k \in Tasks : Using(k) /\ task[k].lease.slot = s}

\* What a task holds in each of its places.
Shaped ==
    \A k \in Tasks :
        /\ task[k].pc = "idle" => task[k].close = {}
        /\ task[k].pc = "opened" => \E t \in Tokens : task[k].close = {t}
        /\ Using(k) => task[k].lease \in Leases /\ task[k].close = {}

\* A slot counts the leases on it.
Counted == \A s \in Slots : slots[s].active = Cardinality(Users(s))

\* A slot has a token while it is in use or being closed; only operations in
\* progress delay a close.
Slotted ==
    \A s \in Slots :
        /\ slots[s].token # NoToken <=> slots[s].in_use \/ slots[s].closing
        /\ slots[s].closing => ~slots[s].in_use /\ slots[s].active # 0

\* A lease is on a slot that still has the token and the generation.
Leased ==
    \A k \in Tasks : Using(k) =>
        LET lease == task[k].lease
        IN  /\ slots[lease.slot].generation = lease.generation
            /\ slots[lease.slot].token = lease.token
            /\ Object(lease.token) = lease.object

\* Nobody has a token that somebody else has, and only open ones are had.
Held ==
    /\ \A s \in Slots : slots[s].token # NoToken =>
          /\ slots[s].token \in open
          /\ \A r \in Slots : slots[r].token = slots[s].token => r = s
          /\ \A k \in Tasks : slots[s].token \notin task[k].close
    /\ \A k \in Tasks :
          /\ task[k].close \subseteq open
          /\ \A j \in Tasks : j # k => task[j].close \cap task[k].close = {}

\* Every open object is somewhere.
Somewhere ==
    \A t \in open :
        /\ life[t] # 0
        /\ \/ \E s \in Slots : slots[s].token = t
           \/ \E k \in Tasks : t \in task[k].close

\* A handle with the generation of its slot names the object in it.
Known ==
    \A h \in issued :
        /\ h.generation <= slots[h.slot].generation
        /\ h.generation = slots[h.slot].generation /\ slots[h.slot].token # NoToken
              => Object(slots[h.slot].token) = h.object

IInv == TypeOK /\ Shaped /\ Counted /\ Slotted /\ Leased /\ Held /\ Somewhere /\ Known

-----------------------------------------------------------------------------
(* What the functions of the pool do to one slot. *)

LEMMA IdleTyped == Idle \in Work /\ Idle.pc = "idle" /\ Idle.close = {}
  BY DEF Idle, Work

LEMMA ClosingTyped ==
    ASSUME NEW c \in SUBSET Tokens
    PROVE  /\ Closing(c) \in Work
           /\ Closing(c).pc \in {"idle", "closing"}
           /\ Closing(c).close = c
  BY DEF Closing, Idle, Work

LEMMA AllocatedDoes ==
    ASSUME NEW x \in Slot, NEW t \in Tokens
    PROVE  /\ Allocated(x, t) \in Slot
           /\ Allocated(x, t).token = t
           /\ Allocated(x, t).in_use
           /\ Allocated(x, t).closing = x.closing
           /\ Allocated(x, t).active = x.active
           /\ Allocated(x, t).generation = x.generation + 1
<1> USE DEF Slot, Generations
<1>1. x.generation + 1 \in Nat
  OBVIOUS
<1> QED
  BY <1>1 DEF Allocated

LEMMA AcquiredDoes ==
    ASSUME NEW x \in Slot
    PROVE  /\ Acquired(x) \in Slot
           /\ Acquired(x).token = x.token
           /\ Acquired(x).in_use = x.in_use
           /\ Acquired(x).closing = x.closing
           /\ Acquired(x).active = x.active + 1
           /\ Acquired(x).generation = x.generation
  BY DEF Acquired, Slot, Generations

LEMMA BeginCloseDoes ==
    ASSUME NEW x \in Slot
    PROVE  /\ BeginClose(x) \in Slot
           /\ BeginClose(x).token = IF x.active = 0 THEN NoToken ELSE x.token
           /\ ~BeginClose(x).in_use
           /\ BeginClose(x).closing <=> x.active # 0
           /\ BeginClose(x).active = x.active
           /\ BeginClose(x).generation = x.generation
  BY DEF BeginClose, Released, Slot

LEMMA EndOperationDoes ==
    ASSUME NEW x \in Slot, x.active # 0
    PROVE  LET last == x.closing /\ x.active = 1
           IN  /\ EndOperation(x) \in Slot
               /\ EndOperation(x).token = IF last THEN NoToken ELSE x.token
               /\ EndOperation(x).in_use = x.in_use
               /\ EndOperation(x).closing <=> x.closing /\ ~last
               /\ EndOperation(x).active = x.active - 1
               /\ EndOperation(x).generation = x.generation
<1> DEFINE y == [x EXCEPT !.active = @ - 1]
<1>1. /\ y \in Slot /\ y.token = x.token /\ y.in_use = x.in_use
      /\ y.closing = x.closing /\ y.generation = x.generation
      /\ y.active = x.active - 1
  BY DEF Slot
<1>2. EndOperation(x) = IF x.closing /\ x.active = 1 THEN Released(y) ELSE y
  BY <1>1 DEF EndOperation, Slot
<1>3. /\ Released(y) \in Slot /\ Released(y).token = NoToken
      /\ Released(y).in_use = y.in_use /\ ~Released(y).closing
      /\ Released(y).generation = y.generation
      /\ Released(y).active = y.active
  BY <1>1 DEF Released, Slot
<1> QED
  BY <1>1, <1>2, <1>3 DEF Slot

-----------------------------------------------------------------------------
(* What a lease and a good handle rest on. *)

LEMMA UsersFinite == \A s \in Slots : IsFiniteSet(Users(s))
  BY TasksAssumption, FS_Subset DEF Users

LEMMA LeaseFacts ==
    ASSUME IInv, NEW k \in Tasks, Using(k)
    PROVE  LET lease == task[k].lease
           IN  /\ lease \in Leases /\ lease.slot \in Slots
               /\ lease.token \in Tokens /\ lease.token \in open
               /\ slots[lease.slot].generation = lease.generation
               /\ slots[lease.slot].token = lease.token
               /\ slots[lease.slot].active # 0
               /\ task[k].close = {}
<1> DEFINE lease == task[k].lease
<1>1. /\ lease \in Leases /\ lease.slot \in Slots /\ lease.token \in Tokens
      /\ task[k].close = {}
  BY DEF IInv, Shaped, Leases
<1>2. /\ slots[lease.slot].generation = lease.generation
      /\ slots[lease.slot].token = lease.token
  BY DEF IInv, Leased
<1>3. lease.token \in open
  BY <1>1, <1>2, TokensAssumption DEF IInv, Held
<1>4. slots[lease.slot].active # 0
  <2>1. k \in Users(lease.slot)
    BY DEF Users
  <2>2. Cardinality(Users(lease.slot)) # 0
    BY <1>1, <2>1, UsersFinite, FS_EmptySet
  <2> QED
    BY <1>1, <2>2 DEF IInv, Counted
<1> QED
  BY <1>1, <1>2, <1>3, <1>4

-----------------------------------------------------------------------------
(* The steps. *)

LEMMA OpenObjectKeeps ==
    ASSUME IInv, NEW k \in Tasks, OpenObject(k)
    PROVE  IInv'
<1> USE DEF Using
<1>1. PICK t \in Tokens \ open :
        /\ life[t] < MaxOpens
        /\ open' = open \cup {t}
        /\ life' = [life EXCEPT ![t] = @ + 1]
        /\ task' = [task EXCEPT ![k] = [Idle EXCEPT !.pc = "opened", !.close = {t}]]
  BY DEF OpenObject
<1>2. slots' = slots /\ issued' = issued /\ task[k] = Idle
  BY DEF OpenObject
<1> DEFINE w == [Idle EXCEPT !.pc = "opened", !.close = {t}]
<1>3. w \in Work /\ w.pc = "opened" /\ w.close = {t}
  BY DEF Idle, Work
<1>4. /\ task'[k] = w
      /\ \A j \in Tasks : j # k => task'[j] = task[j]
      /\ task[k].pc = "idle" /\ task[k].close = {}
  BY <1>1, <1>2, IdleTyped DEF IInv, TypeOK
<1>5. /\ life' \in [Tokens -> 0 .. MaxOpens] /\ life'[t] # 0
      /\ \A u \in Tokens : u # t => life'[u] = life[u]
  BY <1>1, MaxOpensAssumption DEF IInv, TypeOK
<1> HIDE DEF w
<1>6. TypeOK'
  BY <1>1, <1>2, <1>3, <1>4, <1>5 DEF IInv, TypeOK, Handles, Objects, Slots
<1>7. Shaped'
  BY <1>3, <1>4 DEF IInv, Shaped
<1>8. Counted'
  BY <1>2, <1>3, <1>4 DEF IInv, Counted, Users
<1>9. Slotted'
  BY <1>2 DEF IInv, Slotted
<1>10. Leased'
  <2> SUFFICES ASSUME NEW j \in Tasks, Using(j)'
               PROVE  LET lease == task[j].lease
                      IN  /\ slots[lease.slot].generation = lease.generation
                          /\ slots[lease.slot].token = lease.token
                          /\ Object(lease.token)' = lease.object
                          /\ task'[j] = task[j]
    BY <1>2 DEF Leased, Object
  <2>1. j # k /\ Using(j) /\ task'[j] = task[j]
    BY <1>3, <1>4
  <2>2. task[j].lease.token # t /\ task[j].lease.token \in Tokens
    BY <1>1, <2>1, LeaseFacts
  <2> QED
    BY <1>5, <2>1, <2>2 DEF IInv, Leased, Object
<1>11. Held'
  BY <1>1, <1>2, <1>3, <1>4 DEF IInv, Held
<1>12. Somewhere'
  BY <1>1, <1>2, <1>3, <1>4, <1>5 DEF IInv, TypeOK, Somewhere
<1>13. Known'
  <2> SUFFICES ASSUME NEW h \in issued, h.generation = slots[h.slot].generation,
                      slots[h.slot].token # NoToken
               PROVE  Object(slots[h.slot].token)' = h.object
    BY <1>2 DEF Known, IInv
  <2>1. h.slot \in Slots
    BY DEF IInv, TypeOK, Handles
  <2>2. slots[h.slot].token \in open
    BY <2>1 DEF IInv, Held
  <2>3. slots[h.slot].token # t /\ slots[h.slot].token \in Tokens
    BY <1>1, <2>2 DEF IInv, TypeOK
  <2> QED
    BY <1>2, <1>5, <2>3 DEF IInv, Known, Object
<1> QED
  BY <1>6, <1>7, <1>8, <1>9, <1>10, <1>11, <1>12, <1>13 DEF IInv

LEMMA PublishedKeeps ==
    ASSUME IInv, NEW k \in Tasks, NEW t \in Tokens, Published(k, t)
    PROVE  IInv'
<1> USE DEF Using
<1>1. PICK s \in Slots :
        /\ Free(s)
        /\ slots' = [slots EXCEPT ![s] = Allocated(@, t)]
        /\ issued' = issued \cup
             {[slot |-> s, generation |-> slots[s].generation + 1,
               object |-> Object(t)]}
  BY DEF Published, FirstFree
<1>2. /\ task' = [task EXCEPT ![k] = Idle]
      /\ task[k].pc = "opened" /\ task[k].close = {t} /\ t \in open
      /\ open' = open /\ life' = life
  BY DEF Published, IInv, Shaped, Held
<1>3. /\ task'[k] = Idle
      /\ \A j \in Tasks : j # k => task'[j] = task[j]
  BY <1>2 DEF IInv, TypeOK
<1>4. /\ slots[s] \in Slot /\ slots[s].generation \in Nat
      /\ slots'[s] = Allocated(slots[s], t)
      /\ \A r \in Slots : r # s => slots'[r] = slots[r]
      /\ ~slots[s].closing /\ slots[s].active = 0 /\ slots[s].token = NoToken
  BY <1>1 DEF IInv, TypeOK, Free, Slot, Generations
<1>5. /\ slots'[s] \in Slot /\ slots'[s].token = t /\ slots'[s].in_use
      /\ ~slots'[s].closing /\ slots'[s].active = 0
      /\ slots'[s].generation = slots[s].generation + 1
  BY <1>4, AllocatedDoes
<1>6. \A j \in Tasks : Using(j) => task[j].lease.slot # s
  BY <1>4, LeaseFacts
<1>7. TypeOK'
  <2>1. life[t] # 0
    BY <1>2 DEF IInv, Somewhere
  <2>2. Object(t) \in Objects
    BY <2>1, MaxOpensAssumption DEF IInv, TypeOK, Object, Objects
  <2>3. issued' \subseteq Handles
    BY <1>1, <1>4, <2>2 DEF IInv, TypeOK, Handles, Generations
  <2>4. slots' \in [Slots -> Slot]
    BY <1>1, <1>4, <1>5 DEF IInv, TypeOK
  <2> QED
    BY <1>2, <2>3, <2>4, IdleTyped DEF IInv, TypeOK
<1>8. Shaped'
  BY <1>3, IdleTyped DEF IInv, Shaped
<1>9. Counted'
  <2>1. \A r \in Slots : Users(r)' = Users(r)
    BY <1>2, <1>3, IdleTyped DEF Users
  <2> QED
    BY <1>4, <1>5, <2>1 DEF IInv, Counted
<1>10. Slotted'
  BY <1>4, <1>5, TokensAssumption DEF IInv, Slotted
<1>11. Leased'
  BY <1>2, <1>3, <1>4, <1>6, IdleTyped, LeaseFacts DEF IInv, Leased, Object
<1>12. Held'
  BY <1>2, <1>3, <1>4, <1>5, IdleTyped DEF IInv, Held
<1>13. Somewhere'
  BY <1>2, <1>3, <1>4, <1>5, IdleTyped, TokensAssumption DEF IInv, TypeOK, Somewhere
<1>14. Known'
  <2> SUFFICES ASSUME NEW h \in issued'
               PROVE  /\ h.generation <= slots'[h.slot].generation
                      /\ h.generation = slots'[h.slot].generation
                         /\ slots'[h.slot].token # NoToken
                           => Object(slots'[h.slot].token) = h.object
    BY <1>2 DEF Known, Object
  <2>1. CASE h \in issued
    <3>1. h.slot \in Slots /\ h.generation \in Nat
      BY <2>1 DEF IInv, TypeOK, Handles, Generations
    <3>2. CASE h.slot = s
      BY <1>4, <1>5, <2>1, <3>1, <3>2 DEF IInv, Known
    <3>3. CASE h.slot # s
      BY <1>4, <2>1, <3>1, <3>3 DEF IInv, Known
    <3> QED
      BY <3>2, <3>3
  <2>2. CASE h \notin issued
    <3>1. h.slot = s /\ h.generation = slots[s].generation + 1 /\ h.object = Object(t)
      BY <1>1, <2>2
    <3> QED
      BY <1>4, <1>5, <3>1
  <2> QED
    BY <2>1, <2>2
<1> QED
  BY <1>7, <1>8, <1>9, <1>10, <1>11, <1>12, <1>13, <1>14 DEF IInv

LEMMA RefusedKeeps ==
    ASSUME IInv, NEW k \in Tasks, Refused(k)
    PROVE  IInv'
<1> USE DEF Using
<1> DEFINE w == Closing(task[k].close)
<1>1. /\ task' = [task EXCEPT ![k] = w] /\ task[k].pc = "opened"
      /\ slots' = slots /\ open' = open /\ life' = life /\ issued' = issued
  BY DEF Refused
<1>2. task[k].close \in SUBSET Tokens
  BY DEF IInv, TypeOK, Work
<1>3. w \in Work /\ w.pc \in {"idle", "closing"} /\ w.close = task[k].close
      /\ (w.pc = "idle" => w.close = {})
  BY <1>2, ClosingTyped, IdleTyped DEF Closing
<1> HIDE DEF w
<1>4. task'[k] = w /\ \A j \in Tasks : j # k => task'[j] = task[j]
  BY <1>1 DEF IInv, TypeOK
<1>5. TypeOK'
  BY <1>1, <1>3 DEF IInv, TypeOK
<1>6. Shaped'
  BY <1>3, <1>4 DEF IInv, Shaped
<1>7. Counted'
  BY <1>1, <1>3, <1>4 DEF IInv, Counted, Users
<1>8. Slotted'
  BY <1>1 DEF IInv, Slotted
<1>9. Leased'
  BY <1>1, <1>3, <1>4 DEF IInv, Leased, Object
<1>10. Held'
  BY <1>1, <1>3, <1>4 DEF IInv, Held
<1>11. Somewhere'
  BY <1>1, <1>3, <1>4 DEF IInv, Somewhere
<1>12. Known'
  BY <1>1 DEF IInv, Known, Object
<1> QED
  BY <1>5, <1>6, <1>7, <1>8, <1>9, <1>10, <1>11, <1>12 DEF IInv

LEMMA OperateKeeps ==
    ASSUME IInv, NEW k \in Tasks, Operate(k)
    PROVE  IInv'
<1> USE DEF Using
<1>1. PICK h \in issued :
        /\ Resolves(h)
        /\ task' = [task EXCEPT ![k] =
             [pc |-> "using", close |-> {},
              lease |-> [slot |-> h.slot, generation |-> slots[h.slot].generation,
                         token |-> slots[h.slot].token, object |-> h.object]]]
        /\ slots' = [slots EXCEPT ![h.slot] = Acquired(@)]
  BY DEF Operate
<1> DEFINE s == h.slot
           l == [slot |-> s, generation |-> slots[s].generation,
                 token |-> slots[s].token, object |-> h.object]
           w == [pc |-> "using", close |-> {}, lease |-> l]
<1>2. /\ open' = open /\ life' = life /\ issued' = issued
      /\ task[k].pc = "idle" /\ task[k].close = {}
  BY IdleTyped DEF Operate
<1>3. /\ s \in Slots /\ h.object \in Objects
      /\ slots[s] \in Slot /\ slots[s].token \in Tokens
      /\ slots[s].generation \in Generations /\ slots[s].active \in Nat
      /\ slots[s].generation = h.generation /\ slots[s].in_use
  BY <1>1 DEF IInv, TypeOK, Handles, Resolves, Slot
<1>4. /\ l \in Leases /\ l.slot = s /\ l.generation = slots[s].generation
      /\ l.token = slots[s].token /\ l.object = h.object
  BY <1>3 DEF Leases
<1>5. w \in Work /\ w.pc = "using" /\ w.lease = l /\ w.close = {}
  BY <1>4 DEF Work
<1>6. task' = [task EXCEPT ![k] = w]
  BY <1>1
<1> HIDE DEF w, l
<1>7. task'[k] = w /\ \A j \in Tasks : j # k => task'[j] = task[j]
  BY <1>6 DEF IInv, TypeOK
<1>8. /\ slots'[s] = Acquired(slots[s])
      /\ \A r \in Slots : r # s => slots'[r] = slots[r]
  BY <1>1, <1>3 DEF IInv, TypeOK
<1>9. /\ slots'[s] \in Slot /\ slots'[s].token = slots[s].token
      /\ slots'[s].in_use = slots[s].in_use
      /\ slots'[s].closing = slots[s].closing
      /\ slots'[s].active = slots[s].active + 1
      /\ slots'[s].generation = slots[s].generation
  BY ZenonT(40), <1>3, <1>8, AcquiredDoes
<1>10. TypeOK'
  <2>1. slots' \in [Slots -> Slot]
    BY <1>1, <1>8, <1>9 DEF IInv, TypeOK
  <2> QED
    BY <1>2, <1>5, <1>6, <2>1 DEF IInv, TypeOK
<1>11. Shaped'
  BY <1>4, <1>5, <1>7 DEF IInv, Shaped
<1>12. Counted'
  <2>1. Users(s)' = Users(s) \cup {k} /\ k \notin Users(s)
    BY <1>2, <1>4, <1>5, <1>7 DEF Users
  <2>2. Cardinality(Users(s)') = Cardinality(Users(s)) + 1
    BY <1>3, <2>1, UsersFinite, FS_AddElement
  <2>3. \A r \in Slots : r # s => Users(r)' = Users(r)
    BY <1>2, <1>4, <1>5, <1>7 DEF Users
  <2> QED
    BY <1>3, <1>8, <1>9, <2>2, <2>3 DEF IInv, Counted
<1>13. Slotted'
  BY ZenonT(40), <1>3, <1>8, <1>9 DEF IInv, Slotted
<1>14. Leased'
  <2>1. Object(l.token) = l.object
    BY <1>1, <1>3, <1>4, TokensAssumption DEF IInv, Known
  <2>2. ASSUME NEW j \in Tasks, j # k, Using(j)'
        PROVE  LET lease == task'[j].lease
               IN  /\ slots'[lease.slot].generation = lease.generation
                   /\ slots'[lease.slot].token = lease.token
                   /\ Object(lease.token) = lease.object
    <3>1. Using(j) /\ task'[j] = task[j]
      BY <1>7, <2>2
    <3>2. /\ task[j].lease.slot \in Slots
          /\ slots[task[j].lease.slot].generation = task[j].lease.generation
          /\ slots[task[j].lease.slot].token = task[j].lease.token
          /\ Object(task[j].lease.token) = task[j].lease.object
      BY <3>1, LeaseFacts DEF IInv, Leased
    <3>3. \A r \in Slots : /\ slots'[r].generation = slots[r].generation
                           /\ slots'[r].token = slots[r].token
      BY <1>8, <1>9
    <3> QED
      BY <3>1, <3>2, <3>3
  <2> QED
    BY <1>2, <1>4, <1>5, <1>7, <1>9, <2>1, <2>2 DEF Leased, Object
<1>15. Held'
  BY <1>2, <1>5, <1>7, <1>8, <1>9 DEF IInv, Held
<1>16. Somewhere'
  BY <1>2, <1>5, <1>7, <1>8, <1>9 DEF IInv, Somewhere
<1>17. Known'
  BY <1>2, <1>8, <1>9 DEF IInv, TypeOK, Handles, Known, Object
<1> QED
  BY <1>10, <1>11, <1>12, <1>13, <1>14, <1>15, <1>16, <1>17 DEF IInv

LEMMA FinishOperationKeeps ==
    ASSUME IInv, NEW k \in Tasks, FinishOperation(k)
    PROVE  IInv'
<1> USE DEF Using
<1>0. Using(k) /\ task[k].lease.slot \in Slots
  BY LeaseFacts DEF FinishOperation
<1> PICK s \in Slots : s = task[k].lease.slot
  BY <1>0
<1> DEFINE lease == task[k].lease
           last == slots[s].closing /\ slots[s].active = 1
           after == EndOperation(slots[s])
           c == TakenOut(slots[s], after)
           w == Closing(c)
<1>1. /\ Using(k) /\ slots[s].token = lease.token
      /\ slots[s].token \in Tokens /\ slots[s].token \in open
      /\ slots[s].generation = lease.generation
      /\ slots[s].active # 0 /\ task[k].close = {}
  BY LeaseFacts DEF FinishOperation
<1>2. /\ slots' = [slots EXCEPT ![s] = after] /\ task' = [task EXCEPT ![k] = w]
      /\ open' = open /\ life' = life /\ issued' = issued
  BY <1>1 DEF FinishOperation
<1>3. slots[s] \in Slot /\ slots[s].active \in Nat
  BY <1>1 DEF IInv, TypeOK, Slot
<1>4. /\ after \in Slot
      /\ after.token = IF last THEN NoToken ELSE slots[s].token
      /\ after.in_use = slots[s].in_use
      /\ after.closing <=> slots[s].closing /\ ~last
      /\ after.active = slots[s].active - 1
      /\ after.generation = slots[s].generation
  BY <1>1, <1>3, EndOperationDoes
<1> HIDE DEF after
<1>5. c = IF last THEN {slots[s].token} ELSE {}
  BY ZenonT(40), <1>1, <1>4, TokensAssumption DEF TakenOut
<1> HIDE DEF c
<1>6. /\ w \in Work /\ w.pc \in {"idle", "closing"} /\ w.close = c
      /\ (w.pc = "idle" => w.close = {})
  BY ZenonT(40), <1>1, <1>5, ClosingTyped, IdleTyped DEF Closing
<1> HIDE DEF w
<1>7. /\ task'[k] = w /\ \A j \in Tasks : j # k => task'[j] = task[j]
      /\ slots'[s] = after /\ \A r \in Slots : r # s => slots'[r] = slots[r]
  BY <1>1, <1>2 DEF IInv, TypeOK
<1>0a. \A r \in Slots :
         /\ slots'[r].generation = slots[r].generation
         /\ ~(r = s /\ last) => slots'[r].token = slots[r].token
         /\ r = s /\ last => slots'[r].token = NoToken
  <2> HIDE DEF last
  <2> QED
    BY <1>4, <1>7
<1>8. TypeOK'
  BY <1>2, <1>4, <1>6 DEF IInv, TypeOK
<1>9. Shaped'
  BY <1>6, <1>7 DEF IInv, Shaped
<1>10. Cardinality(Users(s)') = slots[s].active - 1
  <2>1. Users(s)' = Users(s) \ {k} /\ k \in Users(s)
    BY <1>1, <1>6, <1>7 DEF Users
  <2> QED
    BY <1>1, <2>1, UsersFinite, FS_RemoveElement DEF IInv, Counted
<1>11. \A r \in Slots : r # s => Users(r)' = Users(r)
  BY <1>1, <1>6, <1>7 DEF Users
<1>12. Counted'
  BY <1>4, <1>7, <1>10, <1>11 DEF IInv, Counted
<1>13. Slotted'
  <2>1. /\ slots[s].token # NoToken
        /\ slots[s].closing => ~slots[s].in_use
        /\ slots[s].in_use \/ slots[s].closing
    BY <1>1, TokensAssumption DEF IInv, Slotted
  <2>2. /\ after.token # NoToken <=> after.in_use \/ after.closing
        /\ after.closing => ~after.in_use /\ after.active # 0
    <3>1. after.closing => slots[s].active # 1
      BY <1>4
    <3>2. after.closing => after.active # 0
      BY <1>3, <1>4, <3>1
    <3>3. slots[s].closing => ~slots[s].in_use
      BY DEF IInv, Slotted
    <3>4. CASE last
      BY <1>4, <3>2, <3>3, <3>4, Zenon
    <3>5. CASE ~last
      <4> HIDE DEF last
      <4> QED
        BY <1>1, <1>4, <2>1, <3>2, <3>3, <3>5, Zenon
    <3> QED
      BY <3>4, <3>5
  <2> QED
    BY <1>7, <2>2 DEF IInv, Slotted
<1>14. Leased'
  <2> SUFFICES ASSUME NEW j \in Tasks, Using(j)'
               PROVE  LET l == task'[j].lease
                      IN  /\ slots'[l.slot].generation = l.generation
                          /\ slots'[l.slot].token = l.token
                          /\ Object(l.token) = l.object
    BY <1>2 DEF Leased, Object
  <2>1. j # k /\ Using(j) /\ task'[j] = task[j]
    BY <1>6, <1>7
  <2>2. task[j].lease.slot = s => ~last
    <3> SUFFICES ASSUME task[j].lease.slot = s, slots[s].active = 1 PROVE FALSE
      OBVIOUS
    <3>1. {j, k} \subseteq Users(s)
      BY <1>1, <2>1 DEF Users
    <3>2. Cardinality(Users(s)') = 0 /\ j \in Users(s)' /\ IsFiniteSet(Users(s)')
      <4>1. Users(s)' = Users(s) \ {k}
        BY <1>1, <1>6, <1>7 DEF Users
      <4> QED
        BY <1>1, <1>10, <2>1, <3>1, <4>1, UsersFinite, FS_RemoveElement
    <3> QED
      BY <3>2, FS_EmptySet
  <2>3. /\ task[j].lease.slot \in Slots
        /\ slots[task[j].lease.slot].generation = task[j].lease.generation
        /\ slots[task[j].lease.slot].token = task[j].lease.token
        /\ Object(task[j].lease.token) = task[j].lease.object
    BY <2>1, LeaseFacts DEF IInv, Leased
  <2> HIDE DEF last
  <2> QED
    BY <1>0a, <2>1, <2>2, <2>3
<1>15. Held'
  <2>1. \A r \in Slots : slots'[r].token # NoToken =>
          slots'[r].token = slots[r].token /\ slots[r].token \notin c
    <3> SUFFICES ASSUME NEW r \in Slots, slots'[r].token # NoToken
                 PROVE  slots'[r].token = slots[r].token /\ slots[r].token \notin c
      OBVIOUS
    <3>1. /\ slots'[r].token = slots[r].token /\ slots[r].token # NoToken
          /\ last => r # s
      <4> HIDE DEF last
      <4> QED
        BY <1>0a
    <3>2. r # s => slots[s].token # slots[r].token
      BY <3>1 DEF IInv, Held
    <3> QED
      BY <1>5, <3>1, <3>2
  <2>2. c \subseteq open /\ \A j \in Tasks : c \cap task[j].close = {}
    <3>1. slots[s].token \in open /\ slots[s].token # NoToken
      BY <1>1, TokensAssumption
    <3>2. \A j \in Tasks : slots[s].token \notin task[j].close
      BY <3>1 DEF IInv, Held
    <3> HIDE DEF last
    <3> QED
      BY <1>5, <3>1, <3>2
  <2>3. /\ \A r \in Slots : slots'[r].token # NoToken =>
             /\ slots'[r].token \in open'
             /\ \A q \in Slots : slots'[q].token = slots'[r].token => q = r
    BY <1>2, <2>1 DEF IInv, Held
  <2>4. \A r \in Slots, j \in Tasks : slots'[r].token # NoToken =>
             slots'[r].token \notin task'[j].close
    BY <1>6, <1>7, <2>1 DEF IInv, Held
  <2>5. \A j \in Tasks :
          /\ task'[j].close \subseteq open'
          /\ \A i \in Tasks : i # j => task'[i].close \cap task'[j].close = {}
    BY <1>2, <1>6, <1>7, <2>2 DEF IInv, Held
  <2> QED
    BY <2>3, <2>4, <2>5 DEF Held
<1>16. Somewhere'
  <2> SUFFICES ASSUME NEW t \in open
               PROVE  \/ \E r \in Slots : slots'[r].token = t
                      \/ \E j \in Tasks : t \in task'[j].close
    BY <1>2 DEF IInv, Somewhere
  <2>1. CASE \E r \in Slots : slots[r].token = t
    <3> PICK r \in Slots : slots[r].token = t
      BY <2>1
    <3>1. CASE r = s /\ last
      <4>1. t \in c
        BY <1>5, <3>1
      <4> QED
        BY <1>6, <1>7, <4>1
    <3>2. CASE ~(r = s /\ last)
      <4> HIDE DEF last
      <4> QED
        BY <1>0a, <3>2
    <3> QED
      BY <3>1, <3>2
  <2>2. CASE \E j \in Tasks : t \in task[j].close
    BY <1>1, <1>7, <2>2
  <2> QED
    BY <2>1, <2>2 DEF IInv, Somewhere
<1>17. Known'
  <2> HIDE DEF last
  <2>1. \A h \in issued : h.slot \in Slots
    BY DEF IInv, TypeOK, Handles
  <2>2. ASSUME NEW h \in issued
        PROVE  /\ h.generation <= slots'[h.slot].generation
               /\ h.generation = slots'[h.slot].generation
                     /\ slots'[h.slot].token # NoToken
                     => Object(slots'[h.slot].token) = h.object
    <3> PICK r \in Slots : r = h.slot
      BY <2>1, <2>2
    <3>1. slots'[r].generation = slots[r].generation
      BY <1>0a
    <3>2. slots'[r].token # NoToken => slots'[r].token = slots[r].token
      BY <1>0a
    <3>3. /\ h.generation <= slots[r].generation
          /\ h.generation = slots[r].generation /\ slots[r].token # NoToken
                => Object(slots[r].token) = h.object
      BY <2>2 DEF IInv, Known
    <3> QED
      BY <3>1, <3>2, <3>3
  <2>3. issued' = issued /\ life' = life
    BY <1>2
  <2> QED
    BY <2>2, <2>3 DEF Known, Object
<1> QED
  BY <1>8, <1>9, <1>12, <1>13, <1>14, <1>15, <1>16, <1>17 DEF IInv

\* Close and reset take out the slots S under the mutex: those nobody works
\* on give up their tokens c, which the task closes behind it.
LEMMA TakingOutKeeps ==
    ASSUME IInv, NEW k \in Tasks, task[k] = Idle,
           NEW S \in SUBSET Slots, \A s \in S : slots[s].in_use,
           slots' \in [Slots -> Slot],
           \A s \in S : slots'[s] = BeginClose(slots[s]),
           \A s \in Slots \ S : slots'[s] = slots[s],
           NEW c, c = {slots[s].token : s \in {r \in S : slots[r].active = 0}},
           task' = [task EXCEPT ![k] = Closing(c)],
           UNCHANGED <<open, life, issued>>
    PROVE  IInv'
<1> USE DEF Using
<1> DEFINE w == Closing(c)
<1>1. task[k].pc = "idle" /\ task[k].close = {}
  BY IdleTyped
<1>2. \A s \in S :
        /\ slots'[s].token = IF slots[s].active = 0 THEN NoToken ELSE slots[s].token
        /\ ~slots'[s].in_use
        /\ slots'[s].closing <=> slots[s].active # 0
        /\ slots'[s].active = slots[s].active
        /\ slots'[s].generation = slots[s].generation
  BY BeginCloseDoes DEF IInv, TypeOK
<1>3. \A s \in S : slots[s].token \in Tokens /\ slots[s].token # NoToken
  BY DEF IInv, TypeOK, Slotted, Slot
<1>4. \A s \in Slots : slots'[s].active = slots[s].active
                       /\ slots'[s].generation = slots[s].generation
  BY <1>2
<1>5. c \in SUBSET Tokens
  BY <1>3
<1>6. /\ w \in Work /\ w.pc \in {"idle", "closing"} /\ w.close = c
      /\ (w.pc = "idle" => w.close = {})
  BY <1>5, ClosingTyped, IdleTyped DEF Closing
<1> HIDE DEF w
<1>7. task'[k] = w /\ \A j \in Tasks : j # k => task'[j] = task[j]
  BY DEF IInv, TypeOK, w
<1>8. TypeOK'
  BY <1>6 DEF IInv, TypeOK, w
<1>9. Shaped'
  BY ZenonT(40), <1>6, <1>7 DEF IInv, Shaped
<1>10. Counted'
  <2>1. \A s \in Slots : Users(s)' = Users(s)
    BY <1>1, <1>6, <1>7 DEF Users
  <2> QED
    BY <1>4, <2>1 DEF IInv, Counted
<1>11. Slotted'
  BY <1>2, <1>3 DEF IInv, Slotted
<1>12. Leased'
  <2> SUFFICES ASSUME NEW j \in Tasks, Using(j)'
               PROVE  LET l == task'[j].lease
                      IN  /\ slots'[l.slot].generation = l.generation
                          /\ slots'[l.slot].token = l.token
                          /\ Object(l.token) = l.object
    BY DEF Leased, Object
  <2>1. Using(j) /\ task'[j] = task[j]
    BY <1>6, <1>7
  <2>2. task[j].lease.slot \in Slots /\ slots[task[j].lease.slot].active # 0
    BY <2>1, LeaseFacts
  <2>3. slots'[task[j].lease.slot].token = slots[task[j].lease.slot].token
    BY <1>2, <2>2
  <2>4. /\ slots[task[j].lease.slot].generation = task[j].lease.generation
        /\ slots[task[j].lease.slot].token = task[j].lease.token
        /\ Object(task[j].lease.token) = task[j].lease.object
    BY <2>1 DEF IInv, Leased
  <2> QED
    BY <1>4, <2>1, <2>2, <2>3, <2>4
<1>13. Held'
  <2>1. \A s \in Slots : slots'[s].token # NoToken =>
          slots'[s].token = slots[s].token /\ slots[s].token \notin c
    BY <1>2, <1>3 DEF IInv, Held
  <2>2. \A s \in Slots : slots[s].token \in c =>
          slots[s].token \in open /\ \A j \in Tasks : slots[s].token \notin task[j].close
    BY <1>3, <1>5, TokensAssumption DEF IInv, Held
  <2>3. c \subseteq open /\ \A j \in Tasks : c \cap task[j].close = {}
    BY <2>2
  <2>4. \A r \in Slots : slots'[r].token # NoToken =>
             /\ slots'[r].token \in open'
             /\ \A q \in Slots : slots'[q].token = slots'[r].token => q = r
    BY <2>1 DEF IInv, Held
  <2>5. \A r \in Slots, j \in Tasks : slots'[r].token # NoToken =>
             slots'[r].token \notin task'[j].close
    BY <1>6, <1>7, <2>1 DEF IInv, Held
  <2>6. \A j \in Tasks :
          /\ task'[j].close \subseteq open'
          /\ \A i \in Tasks : i # j => task'[i].close \cap task'[j].close = {}
    <3>1. \A j \in Tasks : task'[j].close \subseteq open'
      BY <1>6, <1>7, <2>3 DEF IInv, Held
    <3>2. ASSUME NEW j \in Tasks, NEW i \in Tasks, i # j
          PROVE  task'[i].close \cap task'[j].close = {}
      <4>1. CASE i # k /\ j # k
        BY <1>7, <3>2, <4>1 DEF IInv, Held
      <4>2. task'[k].close = c
        BY <1>6, <1>7
      <4>3. CASE i = k
        BY <1>7, <2>3, <3>2, <4>2, <4>3
      <4>4. CASE j = k
        BY <1>7, <2>3, <3>2, <4>2, <4>4
      <4> QED
        BY <4>1, <4>3, <4>4
    <3> QED
      BY <3>1, <3>2
  <2> QED
    BY <2>4, <2>5, <2>6 DEF Held
<1>14. Somewhere'
  <2> SUFFICES ASSUME NEW t \in open
               PROVE  \/ \E r \in Slots : slots'[r].token = t
                      \/ \E j \in Tasks : t \in task'[j].close
    BY DEF IInv, Somewhere
  <2>1. ASSUME NEW r \in Slots, slots[r].token = t
        PROVE  slots'[r].token = t \/ t \in task'[k].close
    <3> USE <2>1
    <3>1. CASE r \in S /\ slots[r].active = 0
      BY <1>6, <1>7, <2>1, <3>1
    <3>2. CASE r \notin S \/ slots[r].active # 0
      BY <1>2, <2>1, <3>2
    <3> QED
      BY <3>1, <3>2
  <2>2. CASE \E j \in Tasks : t \in task[j].close
    BY <1>1, <1>7, <2>2
  <2> QED
    BY <2>1, <2>2 DEF IInv, Somewhere
<1>15. Known'
  <2>1. \A s \in Slots : slots'[s].token # NoToken => slots'[s].token = slots[s].token
    BY <1>2
  <2> QED
    BY <1>4, <2>1 DEF IInv, TypeOK, Handles, Known, Object
<1> QED
  BY <1>8, <1>9, <1>10, <1>11, <1>12, <1>13, <1>14, <1>15 DEF IInv

LEMMA CloseKeeps ==
    ASSUME IInv, NEW k \in Tasks, Close(k)
    PROVE  IInv'
<1>1. PICK h \in issued :
        /\ Resolves(h)
        /\ slots' = [slots EXCEPT ![h.slot] = BeginClose(@)]
        /\ task' = [task EXCEPT ![k] = Closing(TakenOut(slots[h.slot], slots'[h.slot]))]
  BY DEF Close
<1> PICK s \in Slots : s = h.slot
  BY DEF IInv, TypeOK, Handles
<1> DEFINE c == {slots[r].token : r \in {q \in {s} : slots[q].active = 0}}
<1>2. /\ task[k] = Idle /\ UNCHANGED <<open, life, issued>>
      /\ slots[s] \in Slot /\ slots[s].in_use /\ slots[s].token # NoToken
  BY <1>1 DEF Close, Resolves, IInv, TypeOK
<1>3. slots'[s] = BeginClose(slots[s])
      /\ \A r \in Slots \ {s} : slots'[r] = slots[r]
  BY <1>1 DEF IInv, TypeOK
<1>4. slots'[s] \in Slot
      /\ slots'[s].token = IF slots[s].active = 0 THEN NoToken ELSE slots[s].token
  BY <1>2, <1>3, BeginCloseDoes
<1>5. slots' \in [Slots -> Slot]
  BY <1>1, <1>3, <1>4 DEF IInv, TypeOK
<1>6. TakenOut(slots[s], slots'[s]) = c
  BY <1>2, <1>4 DEF TakenOut
<1>7. task' = [task EXCEPT ![k] = Closing(c)]
  BY <1>1, <1>6
<1>8. {s} \in SUBSET Slots /\ (\A r \in {s} : slots[r].in_use)
      /\ \A r \in {s} : slots'[r] = BeginClose(slots[r])
  BY <1>2, <1>3
<1> HIDE DEF c
<1> QED
  BY <1>2, <1>3, <1>5, <1>7, <1>8, TakingOutKeeps DEF c

LEMMA ResetAllKeeps ==
    ASSUME IInv, NEW k \in Tasks, ResetAll(k)
    PROVE  IInv'
<1>1. PICK S \in SUBSET Slots : S = {s \in Slots : slots[s].in_use}
  OBVIOUS
<1> DEFINE c == {slots[r].token : r \in {q \in S : slots[q].active = 0}}
<1>2. /\ task[k] = Idle /\ UNCHANGED <<open, life, issued>>
      /\ slots' = [s \in Slots |-> IF slots[s].in_use THEN BeginClose(slots[s])
                                                     ELSE slots[s]]
      /\ task' = [task EXCEPT ![k] =
             Closing(UNION {TakenOut(slots[s], slots'[s]) : s \in Slots})]
  BY DEF ResetAll
<1>3. /\ \A s \in S : slots[s].in_use /\ slots'[s] = BeginClose(slots[s])
      /\ \A s \in Slots \ S : slots'[s] = slots[s]
  BY <1>1, <1>2
<1>4. \A s \in S :
        /\ slots'[s] \in Slot /\ slots[s].token # NoToken
        /\ slots'[s].token = IF slots[s].active = 0 THEN NoToken ELSE slots[s].token
  BY <1>3, BeginCloseDoes DEF IInv, TypeOK, Slotted
<1>5. slots' \in [Slots -> Slot]
  BY <1>2, <1>3, <1>4 DEF IInv, TypeOK
<1>6. UNION {TakenOut(slots[s], slots'[s]) : s \in Slots} = c
  <2>1. \A s \in Slots : TakenOut(slots[s], slots'[s]) =
          IF s \in S /\ slots[s].active = 0 THEN {slots[s].token} ELSE {}
    BY <1>3, <1>4 DEF TakenOut
  <2> QED
    BY <2>1
<1>7. task' = [task EXCEPT ![k] = Closing(c)]
  BY <1>2, <1>6
<1>8. /\ \A s \in S : slots[s].in_use
      /\ \A s \in S : slots'[s] = BeginClose(slots[s])
  BY <1>3
<1>9. \A s \in Slots \ S : slots'[s] = slots[s]
  BY <1>3
<1>10. task[k] = Idle /\ UNCHANGED <<open, life, issued>>
  BY <1>2
<1> HIDE DEF c
<1> QED
  BY <1>5, <1>7, <1>8, <1>9, <1>10, TakingOutKeeps DEF c

LEMMA CloseObjectKeeps ==
    ASSUME IInv, NEW k \in Tasks, CloseObject(k)
    PROVE  IInv'
<1> USE DEF Using
<1>1. PICK t \in task[k].close :
        /\ open' = open \ {t}
        /\ task' = [task EXCEPT ![k] = Closing(task[k].close \ {t})]
  BY DEF CloseObject
<1> DEFINE w == Closing(task[k].close \ {t})
<1>2. /\ task[k].pc = "closing"
      /\ slots' = slots /\ life' = life /\ issued' = issued
  BY DEF CloseObject
<1>3. task[k].close \ {t} \in SUBSET Tokens
  BY DEF IInv, TypeOK, Work
<1>4. /\ w \in Work /\ w.pc \in {"idle", "closing"}
      /\ w.close = task[k].close \ {t}
      /\ (w.pc = "idle" => w.close = {})
  BY <1>3, ClosingTyped, IdleTyped DEF Closing
<1>5. task' = [task EXCEPT ![k] = w]
  BY <1>1
<1> HIDE DEF w
<1>6. task'[k] = w /\ \A j \in Tasks : j # k => task'[j] = task[j]
  BY <1>5 DEF IInv, TypeOK
<1>7. \A j \in Tasks : task'[j].close = task[j].close \ {t}
  BY <1>4, <1>6 DEF IInv, Held
<1>8. TypeOK'
  BY <1>1, <1>2, <1>4, <1>5 DEF IInv, TypeOK
<1>9. Shaped'
  BY <1>4, <1>6 DEF IInv, Shaped
<1>10. Counted'
  BY <1>2, <1>4, <1>6 DEF IInv, Counted, Users
<1>11. Slotted'
  BY <1>2 DEF IInv, Slotted
<1>12. Leased'
  BY <1>2, <1>4, <1>6 DEF IInv, Leased, Object
<1>13. Held'
  <2>1. \A s \in Slots : slots[s].token # NoToken => slots[s].token # t
    BY DEF IInv, Held
  <2> QED
    BY ZenonT(40), <1>1, <1>2, <1>7, <2>1 DEF IInv, Held
<1>14. Somewhere'
  BY <1>1, <1>2, <1>7 DEF IInv, Somewhere
<1>15. Known'
  BY <1>2 DEF IInv, Known, Object
<1> QED
  BY <1>8, <1>9, <1>10, <1>11, <1>12, <1>13, <1>14, <1>15 DEF IInv

-----------------------------------------------------------------------------
(* The theorems. *)

LEMMA InitOK == Init => IInv
<1> SUFFICES ASSUME Init PROVE IInv
  OBVIOUS
<1> DEFINE x == [token |-> NoToken, generation |-> 0, active |-> 0,
                 in_use |-> FALSE, closing |-> FALSE]
<1>1. x \in Slot /\ \A s \in Slots : slots[s] = x
  BY DEF Init, Slot, Generations
<1>2. /\ \A k \in Tasks : task[k] = Idle /\ task[k].pc = "idle" /\ task[k].close = {}
      /\ open = {} /\ issued = {}
  BY IdleTyped DEF Init
<1>3. TypeOK
  BY <1>1, IdleTyped, MaxOpensAssumption DEF Init, TypeOK
<1>4. Shaped /\ Leased /\ Somewhere /\ Known
  BY <1>2 DEF Shaped, Leased, Somewhere, Known, Using
<1>5. Counted
  <2>1. \A s \in Slots : Users(s) = {}
    BY <1>2 DEF Users, Using
  <2> QED
    BY <1>1, <2>1, FS_EmptySet DEF Counted
<1>6. Slotted /\ Held
  BY <1>1, <1>2 DEF Slotted, Held
<1> QED
  BY <1>3, <1>4, <1>5, <1>6 DEF IInv

LEMMA StepOK == IInv /\ [Next]_vars => IInv'
<1> SUFFICES ASSUME IInv, [Next]_vars PROVE IInv'
  OBVIOUS
<1>1. ASSUME NEW k \in Tasks,
             OpenObject(k) \/ Operate(k) \/ Close(k) \/ ResetAll(k) \/ GoOn(k)
      PROVE  IInv'
  BY <1>1, OpenObjectKeeps, OperateKeeps, CloseKeeps, ResetAllKeeps,
     PublishedKeeps, RefusedKeeps, FinishOperationKeeps, CloseObjectKeeps
     DEF GoOn, MakeHandle
<1>2. CASE UNCHANGED vars
  BY SMTT(30), <1>2 DEF vars, IInv, TypeOK, Shaped, Counted, Users, Using, Slotted,
     Leased, Held, Somewhere, Known, Object
<1> QED
  BY <1>1, <1>2 DEF Next

LEMMA Always == Spec => []IInv
<1> QED
  BY InitOK, StepOK, PTL DEF Spec

LEMMA InvLeaseHolds == IInv => LeaseHolds
<1> SUFFICES ASSUME IInv, NEW k \in Tasks, task[k].pc = "using"
             PROVE  /\ task[k].lease.token \in open
                    /\ Object(task[k].lease.token) = task[k].lease.object
  BY DEF LeaseHolds
<1> QED
  BY LeaseFacts DEF IInv, Leased, Using

\* The places of an object are one slot or one task, never both.
LEMMA InvOnePlace == IInv => OnePlace
<1> SUFFICES ASSUME IInv, NEW t \in Tokens
             PROVE  Cardinality(Places(t)) = IF t \in open THEN 1 ELSE 0
  BY DEF OnePlace
<1>1. CASE t \notin open
  <2>1. Places(t) = {}
    BY <1>1, TokensAssumption DEF IInv, Held, Places
  <2> QED
    BY <1>1, <2>1, FS_EmptySet
<1>2. CASE t \in open
  <2>1. \E p : Places(t) = {p}
    <3>1. ASSUME NEW s \in Slots, slots[s].token = t
          PROVE  Places(t) = {<<"slot", s>>}
      <4>1. {r \in Slots : slots[r].token = t} = {s}
        BY <3>1, TokensAssumption DEF IInv, Held
      <4>2. {j \in Tasks : t \in task[j].close} = {}
        BY <3>1, TokensAssumption DEF IInv, Held
      <4> QED
        BY <4>1, <4>2 DEF Places
    <3>2. ASSUME NEW k \in Tasks, t \in task[k].close
          PROVE  Places(t) = {<<"task", k>>}
      <4>1. {r \in Slots : slots[r].token = t} = {}
        BY <3>2, TokensAssumption DEF IInv, Held
      <4>2. {j \in Tasks : t \in task[j].close} = {k}
        BY <3>2 DEF IInv, Held
      <4> QED
        BY <4>1, <4>2 DEF Places
    <3> QED
      BY <1>2, <3>1, <3>2 DEF IInv, Somewhere
  <2> QED
    BY <1>2, <2>1, FS_Singleton
<1> QED
  BY <1>1, <1>2

\* Slots, tasks, objects and handles keep their types, whichever calls meet:
\* no lease is ended that was not begun, and no generation is given twice.
THEOREM TypeCorrect == Spec => []TypeOK
<1>1. IInv => TypeOK
  BY DEF IInv
<1> QED
  BY <1>1, Always, PTL

\* An operation inside the backend works on the object its handle was made
\* for, however many tasks close, reset and open meanwhile.
THEOREM LeasesHold == Spec => []LeaseHolds
<1> QED
  BY InvLeaseHolds, Always, PTL

\* An open object is in one slot or in the hands of one task: it is closed
\* once, and never lost, whatever fails.
THEOREM ObjectsHaveOnePlace == Spec => []OnePlace
<1> QED
  BY InvOnePlace, Always, PTL
===============================================================================
