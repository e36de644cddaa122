------------------------- MODULE BluetoothHostProofs ------------------------
(* Proofs about the radio and about the Bluetooth host that shares it, for   *)
(* every set of tasks and of profiles and every bound.                       *)
(*                                                                           *)
(* The radio first.  What the runs check of it is not inductive.  Three      *)
(* things have to be added: which steps are taken with the stack mutex and   *)
(* which with an entered context (Places), what a start or a stop finds at   *)
(* each of its steps (Phases), and that nobody is inside of a service that   *)
(* is stopped (Contexts).                                                    *)
(*                                                                           *)
(* The host moves the radio only by the radio's own steps, so what is proved *)
(* of every use of the radio holds of the host's, for any number of Wi-Fi    *)
(* tasks.  Its own invariant says where its call is, what it has posted and  *)
(* what BTstack is by then, and that whoever takes the chip away under a     *)
(* reference has told it (Warned).                                           *)
EXTENDS BluetoothHost, FiniteSetTheorems, TLAPS

Starting == {"start", "abandon", "serve", "commit"}
Stopping == {"trystop", "bounce", "warn", "lock", "halt", "off", "broken"}
Entered == {"pass", "verify", "unwind"}
Holding == Entered \union {"admit", "letgo", "halt"}

Referenced == \E c \in Client : refs[c] # 0

\* Steps, stack mutex and entered context agree, task by task.
Places ==
    \A t \in Task :
        /\ pc[t] \in Holding => stack = t
        /\ stack = t => pc[t] \in Holding \/ Inside(t)
        /\ Inside(t) => /\ stack = t
                         /\ pc[t] \notin {"wait", "admit", "letgo"}
        /\ pc[t] \in Entered => depth = 1 /\ owner = t
        /\ pc[t] = "enter" /\ owner = t => depth < MaxDepth

\* Somebody is entered exactly while the context is owned, and only while
\* the service runs, which it does on a chip that is up.
Contexts ==
    /\ depth = 0 <=> owner = None
    /\ ~running => depth = 0
    /\ running => ready

\* What a start or a stop finds at each step.
Phases ==
    \A t \in Task :
        /\ pc[t] = "acquire" => job[t].kind = "acquire"
        /\ pc[t] \in Starting =>
              /\ state = "STARTING"
              /\ job[t].kind \in {"acquire", "restart"}
              /\ job[t].kind = "restart" => Referenced
        /\ pc[t] \in Stopping =>
              /\ state = "STOPPING"
              /\ Referenced
              /\ job[t].kind \in {"release", "restart"}
              /\ job[t].kind = "release" => refs[Other(job[t].client)] = 0
        /\ pc[t] \in {"commit", "trystop", "bounce"} => running
        /\ pc[t] \in Transition \ {"commit", "trystop", "bounce"} => ~running
        /\ pc[t] \in {"serve", "warn", "lock", "halt"} => ready
        /\ pc[t] \in {"start", "abandon", "off", "broken"} => ~ready

\* The operations that count: only while the service runs, finitely many.
Current == {t \in Task : op[t] = "current"}

Operations == /\ IsFiniteSet(Current)
              /\ pending = Cardinality(Current)
              /\ Current # {} => running

IInv == TypeOK /\ Places /\ Contexts /\ Phases /\ Settled /\ Operations

-----------------------------------------------------------------------------
(* The steps. *)

Steps == Transition \union {"idle", "snapshot", "publish", "acquire", "tell",
                            "enter", "wait", "admit", "pass", "verify",
                            "unwind", "letgo"}

\* TypeOK in two parts: the calls, and what they work on.
CallTypes == /\ pc \in [Task -> Steps]
             /\ job \in [Task -> [kind : Kinds, client : Client]]
             /\ ok \in [Task -> BOOLEAN]
             /\ seen \in [Task -> States]

StateTypes == /\ state \in States
              /\ refs \in [Client -> 0..MaxReferences]
              /\ running \in BOOLEAN
              /\ owner \in Task \union {None}
              /\ depth \in 0..MaxDepth
              /\ pending \in Nat
              /\ ready \in BOOLEAN
              /\ stack \in Task \union {None}
              /\ capability \in {"INACTIVE", "AVAILABLE", "FAILED"}
              /\ op \in [Task -> {"none", "current", "stale"}]

LEMMA GotoTyped ==
    ASSUME CallTypes, NEW t \in Task, NEW where \in Steps, Goto(t, where)
    PROVE  CallTypes'
  BY DEF CallTypes, Goto, NoJob, Steps, Kinds, Client

LEMMA CallTyped ==
    ASSUME CallTypes, NEW t \in Task, NEW kind \in Kinds, NEW c \in Client, NEW where \in Steps,
           Call(t, kind, c, where)
    PROVE  CallTypes'
  BY DEF CallTypes, Call, NoJob, Steps, Kinds, Client

LEMMA ReturnTyped ==
    ASSUME CallTypes, NEW t \in Task, NEW good \in BOOLEAN, Return(t, good)
    PROVE  CallTypes'
  BY DEF CallTypes, Return, NoJob, Steps, Kinds, Client

LEMMA DoneTyped ==
    ASSUME CallTypes, NEW t \in Task, NEW good \in BOOLEAN, Done(t, good)
    PROVE  CallTypes'
  BY DEF CallTypes, Done, NoJob, Steps, Kinds, Client

-----------------------------------------------------------------------------
(* Calls that end, and what they publish. *)

LEMMA SnapshotKeeps ==
    ASSUME IInv, NEW t \in Task, Snapshot(t)
    PROVE  IInv'
<1>1. TypeOK'
  <2>1. CallTypes /\ StateTypes
    BY DEF IInv, TypeOK, CallTypes, StateTypes, Steps
  <2>2. CallTypes'
    BY <2>1, ReturnTyped DEF Snapshot, radio, context, service, chip, NoJob,
       CallTypes, StateTypes, Steps, Transition, Kinds, Client, States
  <2>3. StateTypes'
    BY <2>1, RadioAssumption DEF IInv, Places, Entered, Contexts,
       StateTypes, States, Client, Snapshot, Return, radio, context, service,
       chip, NoJob
  <2> QED
    BY <2>2, <2>3 DEF TypeOK, CallTypes, StateTypes, Steps
<1>2. Places'
  BY DEF IInv, Places, Holding, Entered, Inside, TypeOK, Snapshot, Return,
     radio, context, service, chip, NoJob
<1>3. Contexts'
  BY DEF IInv, Contexts, TypeOK, Snapshot, Return, radio, context, service,
     chip, NoJob
<1>4. Phases'
  BY DEF IInv, Phases, Starting, Stopping, Transition, Referenced, TypeOK,
     Snapshot, Return, radio, context, service, chip, NoJob
<1>5. Settled'
  BY SMTT(30) DEF IInv, Settled, Transition, TypeOK, Snapshot, Return, radio,
     context, service, chip, NoJob
<1>6. Operations'
  BY DEF IInv, Operations, Current, Snapshot, Return, radio, context,
     service, chip, NoJob
<1> QED
  BY <1>1, <1>2, <1>3, <1>4, <1>5, <1>6 DEF IInv

LEMMA PublishKeeps ==
    ASSUME IInv, NEW t \in Task, Publish(t)
    PROVE  IInv'
<1>1. TypeOK'
  BY DEF IInv, TypeOK, Kinds, Client, States, Transition, Publish, radio,
     context, service, chip
<1>2. Places'
  BY DEF IInv, Places, Holding, Entered, Inside, TypeOK, Publish, radio,
     context, service, chip
<1>3. Contexts'
  BY DEF IInv, Contexts, TypeOK, Publish, radio, context, service, chip
<1>4. Phases'
  BY DEF IInv, Phases, Starting, Stopping, Transition, Referenced, TypeOK,
     Publish, radio, context, service, chip
<1>5. Settled'
  BY DEF IInv, Settled, Transition, TypeOK, Publish, radio, context,
     service, chip
<1>6. Operations'
  BY DEF IInv, Operations, Current, Publish, radio, context, service, chip
<1> QED
  BY <1>1, <1>2, <1>3, <1>4, <1>5, <1>6 DEF IInv

-----------------------------------------------------------------------------
(* Acquire and start. *)

LEMMA AcquireKeeps ==
    ASSUME IInv, NEW t \in Task, NEW c \in Client, Acquire(t, c)
    PROVE  IInv'
<1>1. TypeOK'
  <2>1. CallTypes /\ StateTypes
    BY DEF IInv, TypeOK, CallTypes, StateTypes, Steps
  <2>2. CallTypes'
    BY <2>1, CallTyped, ReturnTyped DEF Acquire, radio, context, service,
       chip, NoJob, CallTypes, StateTypes, Steps, Transition, Kinds, Client,
       States
  <2>3. StateTypes'
    BY <2>1, RadioAssumption DEF IInv, Places, Entered, Contexts,
       StateTypes, States, Client, Acquire, Return, Call, radio, context,
       service, chip, NoJob
  <2> QED
    BY <2>2, <2>3 DEF TypeOK, CallTypes, StateTypes, Steps
<1>2. Places'
  BY DEF IInv, Places, Holding, Entered, Inside, TypeOK, Acquire, Return,
     Call, radio, context, service, chip, NoJob
<1>3. Contexts'
  BY DEF IInv, Contexts, TypeOK, Acquire, Return, Call, radio, context,
     service, chip, NoJob
<1>4. Phases'
  BY DEF IInv, Phases, Starting, Stopping, Transition, Referenced, TypeOK,
     Acquire, Return, Call, radio, context, service, chip, NoJob
<1>5. Settled'
  BY DEF IInv, Settled, Transition, TypeOK, Acquire, Return, Call, radio,
     context, service, chip, NoJob
<1>6. Operations'
  BY DEF IInv, Operations, Current, Acquire, Return, Call, radio, context,
     service, chip, NoJob
<1> QED
  BY <1>1, <1>2, <1>3, <1>4, <1>5, <1>6 DEF IInv

LEMMA AcquireReferenceKeeps ==
    ASSUME IInv, NEW t \in Task, AcquireReference(t)
    PROVE  IInv'
<1>1. TypeOK'
  <2>1. CallTypes /\ StateTypes
    BY DEF IInv, TypeOK, CallTypes, StateTypes, Steps
  <2>2. CallTypes'
    BY <2>1, GotoTyped, DoneTyped DEF AcquireReference, radio, context,
       service, chip, NoJob, CallTypes, StateTypes, Steps, Transition, Kinds,
       Client, States
  <2>3. StateTypes'
    BY <2>1, RadioAssumption DEF IInv, Places, Entered, Contexts,
       StateTypes, States, Client, AcquireReference, Goto, Done, radio,
       context, service, chip, NoJob
  <2> QED
    BY <2>2, <2>3 DEF TypeOK, CallTypes, StateTypes, Steps
<1>2. Places'
  BY DEF IInv, Places, Holding, Entered, Inside, TypeOK, AcquireReference,
     Goto, Done, radio, context, service, chip, NoJob
<1>3. Contexts'
  BY DEF IInv, Contexts, TypeOK, AcquireReference, Goto, Done, radio,
     context, service, chip, NoJob
<1>4. Phases'
  BY RadioAssumption DEF IInv, Phases, Starting, Stopping, Transition,
     Referenced, TypeOK, Settled, Client, Contexts, Places, Holding, Entered,
     Inside, Other, AcquireReference, Goto, Done, radio, context, service,
     chip, NoJob
<1>5. Settled'
  BY DEF IInv, Settled, Transition, TypeOK, AcquireReference, Goto, Done,
     radio, context, service, chip, NoJob
<1>6. Operations'
  BY DEF IInv, Operations, Current, AcquireReference, Goto, Done, radio,
     context, service, chip, NoJob
<1> QED
  BY <1>1, <1>2, <1>3, <1>4, <1>5, <1>6 DEF IInv

LEMMA StartChipKeeps ==
    ASSUME IInv, NEW t \in Task, StartChip(t)
    PROVE  IInv'
<1>1. TypeOK'
  BY ZenonT(40) DEF IInv, TypeOK, Kinds, Client, States, Transition, StartChip, Goto,
     radio, context, service
<1>2. Places'
  BY DEF IInv, Places, Holding, Entered, Inside, TypeOK, StartChip, Goto,
     radio, context, service
<1>3. Contexts'
  BY DEF IInv, Contexts, TypeOK, StartChip, Goto, radio, context, service
<1>4. Phases'
  BY RadioAssumption DEF IInv, Phases, Starting, Stopping, Transition,
     Referenced, TypeOK, Settled, Client, StartChip, Goto, radio, context,
     service
<1>5. Settled'
  BY DEF IInv, Settled, Transition, TypeOK, StartChip, Goto, radio, context,
     service
<1>6. Operations'
  BY DEF IInv, Operations, Current, StartChip, Goto, radio, context, service
<1> QED
  BY <1>1, <1>2, <1>3, <1>4, <1>5, <1>6 DEF IInv

LEMMA AbandonKeeps ==
    ASSUME IInv, NEW t \in Task, Abandon(t)
    PROVE  IInv'
<1>1. TypeOK'
  BY DEF IInv, TypeOK, Kinds, Client, States, Transition, Abandon, Done,
     context, service, NoJob
<1>2. Places'
  BY DEF IInv, Places, Holding, Entered, Inside, TypeOK, Abandon, Done,
     context, service, NoJob
<1>3. Contexts'
  BY RadioAssumption DEF IInv, Contexts, TypeOK, Phases, Transition,
     Abandon, Done, context, service, NoJob
<1>4. Phases'
  BY RadioAssumption DEF IInv, Phases, Starting, Stopping, Transition,
     Referenced, TypeOK, Settled, Client, Abandon, Done, context, service,
     NoJob
<1>5. Settled'
  BY RadioAssumption DEF IInv, Settled, Transition, TypeOK, Phases,
     Starting, Stopping, Referenced, Client, Abandon, Done, context, service,
     NoJob
<1>6. Operations'
  BY DEF IInv, Operations, Current, Abandon, Done, context, service, NoJob
<1> QED
  BY <1>1, <1>2, <1>3, <1>4, <1>5, <1>6 DEF IInv

LEMMA StartServiceKeeps ==
    ASSUME IInv, NEW t \in Task, StartService(t)
    PROVE  IInv'
<1>1. TypeOK'
  BY DEF IInv, TypeOK, Kinds, Client, States, Transition, StartService,
     Goto, NextGeneration, radio, chip
<1>2. Places'
  BY RadioAssumption DEF IInv, Places, Holding, Entered, Inside, TypeOK,
     Contexts, StartService, Goto, NextGeneration, radio, chip
<1>3. Contexts'
  BY RadioAssumption DEF IInv, Contexts, TypeOK, Phases, Transition,
     StartService, Goto, NextGeneration, radio, chip
<1>4. Phases'
  BY RadioAssumption DEF IInv, Phases, Starting, Stopping, Transition,
     Referenced, TypeOK, Settled, Client, StartService, Goto, NextGeneration,
     radio, chip
<1>5. Settled'
  BY DEF IInv, Settled, Transition, TypeOK, StartService, Goto,
     NextGeneration, radio, chip
<1>6. Operations'
  <2>1. Current' = {} /\ pending' = 0
    BY DEF IInv, TypeOK, Current, StartService, Goto, NextGeneration, radio,
       chip
  <2> QED
    BY <2>1, FS_EmptySet DEF Operations
<1> QED
  BY <1>1, <1>2, <1>3, <1>4, <1>5, <1>6 DEF IInv

LEMMA CommitKeeps ==
    ASSUME IInv, NEW t \in Task, Commit(t)
    PROVE  IInv'
<1>1. TypeOK'
  BY RadioAssumption DEF IInv, TypeOK, Kinds, Client, States, Transition,
     Places, Entered, Contexts, Commit, Done, context, service, chip, NoJob
<1>2. Places'
  BY DEF IInv, Places, Holding, Entered, Inside, TypeOK, Commit, Done,
     context, service, chip, NoJob
<1>3. Contexts'
  BY DEF IInv, Contexts, TypeOK, Commit, Done, context, service, chip, NoJob
<1>4. Phases'
  BY RadioAssumption DEF IInv, Phases, Starting, Stopping, Transition,
     Referenced, TypeOK, Settled, Client, Commit, Done, context, service, chip,
     NoJob
<1>5. Settled'
  BY RadioAssumption DEF IInv, Settled, Transition, TypeOK, Phases,
     Starting, Stopping, Referenced, Client, Contexts, Places, Holding,
     Entered, Inside, Other, Commit, Done, context, service, chip, NoJob
<1>6. Operations'
  BY DEF IInv, Operations, Current, Commit, Done, context, service, chip,
     NoJob
<1> QED
  BY <1>1, <1>2, <1>3, <1>4, <1>5, <1>6 DEF IInv

-----------------------------------------------------------------------------
(* Release, restart and stop. *)

LEMMA ReleaseKeeps ==
    ASSUME IInv, NEW t \in Task, NEW c \in Client, Release(t, c)
    PROVE  IInv'
<1>1. TypeOK'
  <2>1. CallTypes /\ StateTypes
    BY DEF IInv, TypeOK, CallTypes, StateTypes, Steps
  <2>2. CallTypes'
    BY <2>1, CallTyped, DoneTyped DEF Release, LastReference, radio,
       context, service, chip, NoJob, Other, CallTypes, StateTypes, Steps,
       Transition, Kinds, Client, States
  <2>3. StateTypes'
    BY <2>1, RadioAssumption DEF IInv, Places, Entered, Contexts,
       StateTypes, States, Client, Release, Done, Call, LastReference, radio,
       context, service, chip, NoJob, Other
  <2> QED
    BY <2>2, <2>3 DEF TypeOK, CallTypes, StateTypes, Steps
<1>2. Places'
  BY DEF IInv, Places, Holding, Entered, Inside, TypeOK, Release, Done,
     Call, LastReference, radio, context, service, chip, NoJob, Other
<1>3. Contexts'
  BY DEF IInv, Contexts, TypeOK, Release, Done, Call, LastReference, radio,
     context, service, chip, NoJob, Other
<1>4. Phases'
  BY RadioAssumption DEF IInv, Phases, Starting, Stopping, Transition,
     Referenced, TypeOK, Settled, Client, Release, Done, Call, LastReference,
     radio, context, service, chip, NoJob, Other
<1>5. Settled'
  BY RadioAssumption DEF IInv, Settled, Transition, TypeOK, Phases,
     Starting, Stopping, Referenced, Client, Release, Done, Call,
     LastReference, radio, context, service, chip, NoJob, Other
<1>6. Operations'
  BY DEF IInv, Operations, Current, Release, Done, Call, LastReference,
     radio, context, service, chip, NoJob, Other
<1> QED
  BY <1>1, <1>2, <1>3, <1>4, <1>5, <1>6 DEF IInv

LEMMA RestartKeeps ==
    ASSUME IInv, NEW t \in Task, Restart(t)
    PROVE  IInv'
<1>1. TypeOK'
  <2>1. CallTypes /\ StateTypes
    BY DEF IInv, TypeOK, CallTypes, StateTypes, Steps
  <2>2. CallTypes'
    BY <2>1, CallTyped, DoneTyped DEF Restart, context, service, chip,
       NoJob, CallTypes, StateTypes, Steps, Transition, Kinds, Client, States
  <2>3. StateTypes'
    BY <2>1, RadioAssumption DEF IInv, Places, Entered, Contexts,
       StateTypes, States, Client, Restart, Done, Call, context, service, chip,
       NoJob
  <2> QED
    BY <2>2, <2>3 DEF TypeOK, CallTypes, StateTypes, Steps
<1>2. Places'
  BY DEF IInv, Places, Holding, Entered, Inside, TypeOK, Restart, Done,
     Call, context, service, chip, NoJob
<1>3. Contexts'
  BY DEF IInv, Contexts, TypeOK, Restart, Done, Call, context, service,
     chip, NoJob
<1>4. Phases'
  BY SMTT(30), RadioAssumption DEF IInv, Phases, Starting, Stopping, Transition,
     Referenced, TypeOK, Settled, Client, Restart, Done, Call, context,
     service, chip, NoJob
<1>5. Settled'
  BY DEF IInv, Settled, Transition, TypeOK, Restart, Done, Call, context,
     service, chip, NoJob
<1>6. Operations'
  BY DEF IInv, Operations, Current, Restart, Done, Call, context, service,
     chip, NoJob
<1> QED
  BY <1>1, <1>2, <1>3, <1>4, <1>5, <1>6 DEF IInv

LEMMA TryStopKeeps ==
    ASSUME IInv, NEW t \in Task, TryStop(t)
    PROVE  IInv'
<1>1. TypeOK'
  <2>1. CallTypes /\ StateTypes
    BY DEF IInv, TypeOK, CallTypes, StateTypes, Steps
  <2>2. CallTypes'
    BY <2>1, GotoTyped DEF TryStop, NextGeneration, radio, context, service,
       chip, CallTypes, StateTypes, Steps, Transition, Kinds, Client, States
  <2>3. StateTypes'
    <3>1. op' \in [Task -> {"none", "current", "stale"}] /\ pending' \in Nat
      BY <2>1 DEF StateTypes, TryStop, NextGeneration, service
    <3> QED
      BY <2>1, <3>1 DEF StateTypes, TryStop, radio, context, service, chip
  <2> QED
    BY <2>2, <2>3 DEF TypeOK, CallTypes, StateTypes, Steps
<1>2. Places'
  BY DEF IInv, Places, Holding, Entered, Inside, TypeOK, TryStop, Goto,
     NextGeneration, radio, context, service, chip
<1>3. Contexts'
  BY DEF IInv, Contexts, TypeOK, TryStop, Goto, NextGeneration, radio,
     context, service, chip
<1>4. Phases'
  BY RadioAssumption DEF IInv, Phases, Starting, Stopping, Transition,
     Referenced, TypeOK, Settled, Client, Contexts, Places, Holding, Entered,
     Inside, Other, TryStop, Goto, NextGeneration, radio, context, service,
     chip
<1>5. Settled'
  BY SMTT(30) DEF IInv, Settled, Transition, TypeOK, TryStop, Goto, NextGeneration,
     radio, context, service, chip
<1>6. Operations'
  <2>1. CASE depth # 0
    BY <2>1 DEF IInv, Operations, Current, TypeOK, Phases, Transition,
       TryStop, Goto, NextGeneration, radio, context, service, chip
  <2>2. CASE depth = 0
    <3>1. Current' = {} /\ pending' = 0
      BY <2>2 DEF IInv, TypeOK, Current, TryStop, Goto, NextGeneration,
         radio, context, service, chip
    <3> QED
      BY <3>1, FS_EmptySet DEF Operations
  <2> QED
    BY <2>1, <2>2
<1> QED
  BY <1>1, <1>2, <1>3, <1>4, <1>5, <1>6 DEF IInv

LEMMA BounceKeeps ==
    ASSUME IInv, NEW t \in Task, Bounce(t)
    PROVE  IInv'
<1>1. TypeOK'
  BY DEF IInv, TypeOK, Kinds, Client, States, Transition, Bounce, Done,
     context, service, chip, NoJob
<1>2. Places'
  BY DEF IInv, Places, Holding, Entered, Inside, TypeOK, Bounce, Done,
     context, service, chip, NoJob
<1>3. Contexts'
  BY DEF IInv, Contexts, TypeOK, Bounce, Done, context, service, chip, NoJob
<1>4. Phases'
  BY RadioAssumption DEF IInv, Phases, Starting, Stopping, Transition,
     Referenced, TypeOK, Settled, Client, Bounce, Done, context, service, chip,
     NoJob
<1>5. Settled'
  BY RadioAssumption DEF IInv, Settled, Transition, TypeOK, Phases,
     Starting, Stopping, Referenced, Client, Contexts, Places, Holding,
     Entered, Inside, Other, Bounce, Done, context, service, chip, NoJob
<1>6. Operations'
  BY DEF IInv, Operations, Current, Bounce, Done, context, service, chip,
     NoJob
<1> QED
  BY <1>1, <1>2, <1>3, <1>4, <1>5, <1>6 DEF IInv

LEMMA WarnKeeps ==
    ASSUME IInv, NEW t \in Task, Warn(t)
    PROVE  IInv'
<1>1. TypeOK'
  BY DEF IInv, TypeOK, Kinds, Client, States, Transition, Warn, Goto, radio,
     context, service, chip
<1>2. Places'
  BY DEF IInv, Places, Holding, Entered, Inside, TypeOK, Warn, Goto, radio,
     context, service, chip
<1>3. Contexts'
  BY DEF IInv, Contexts, TypeOK, Warn, Goto, radio, context, service, chip
<1>4. Phases'
  BY DEF IInv, Phases, Starting, Stopping, Transition, Referenced, TypeOK,
     Warn, Goto, radio, context, service, chip
<1>5. Settled'
  BY DEF IInv, Settled, Transition, TypeOK, Warn, Goto, radio, context,
     service, chip
<1>6. Operations'
  BY DEF IInv, Operations, Current, Warn, Goto, radio, context, service,
     chip
<1> QED
  BY <1>1, <1>2, <1>3, <1>4, <1>5, <1>6 DEF IInv

LEMMA TellKeeps ==
    ASSUME IInv, NEW t \in Task, Tell(t)
    PROVE  IInv'
<1>1. TypeOK'
  BY DEF IInv, TypeOK, Kinds, Client, States, Transition, Tell, Done, radio,
     context, service, chip, NoJob
<1>2. Places'
  BY DEF IInv, Places, Holding, Entered, Inside, TypeOK, Tell, Done, radio,
     context, service, chip, NoJob
<1>3. Contexts'
  BY DEF IInv, Contexts, TypeOK, Tell, Done, radio, context, service, chip,
     NoJob
<1>4. Phases'
  BY DEF IInv, Phases, Starting, Stopping, Transition, Referenced, TypeOK,
     Tell, Done, radio, context, service, chip, NoJob
<1>5. Settled'
  BY DEF IInv, Settled, Transition, TypeOK, Tell, Done, radio, context,
     service, chip, NoJob
<1>6. Operations'
  BY DEF IInv, Operations, Current, Tell, Done, radio, context, service,
     chip, NoJob
<1> QED
  BY <1>1, <1>2, <1>3, <1>4, <1>5, <1>6 DEF IInv

LEMMA LockToStopKeeps ==
    ASSUME IInv, NEW t \in Task, LockToStop(t)
    PROVE  IInv'
<1>1. TypeOK'
  BY DEF IInv, TypeOK, Kinds, Client, States, Transition, LockToStop, Goto,
     radio, context, service
<1>2. Places'
  BY RadioAssumption DEF IInv, Places, Holding, Entered, Inside, TypeOK,
     Contexts, LockToStop, Goto, radio, context, service
<1>3. Contexts'
  BY DEF IInv, Contexts, TypeOK, LockToStop, Goto, radio, context, service
<1>4. Phases'
  BY DEF IInv, Phases, Starting, Stopping, Transition, Referenced, TypeOK,
     LockToStop, Goto, radio, context, service
<1>5. Settled'
  BY DEF IInv, Settled, Transition, TypeOK, LockToStop, Goto, radio,
     context, service
<1>6. Operations'
  BY DEF IInv, Operations, Current, LockToStop, Goto, radio, context,
     service
<1> QED
  BY <1>1, <1>2, <1>3, <1>4, <1>5, <1>6 DEF IInv

LEMMA StopChipKeeps ==
    ASSUME IInv, NEW t \in Task, StopChip(t)
    PROVE  IInv'
<1>1. TypeOK'
  BY DEF IInv, TypeOK, Kinds, Client, States, Transition, StopChip, Goto,
     radio, context, service
<1>2. Places'
  BY RadioAssumption DEF IInv, Places, Holding, Entered, Inside, TypeOK,
     Contexts, Phases, Transition, Settled, Starting, Stopping, StopChip, Goto,
     radio, context, service
<1>3. Contexts'
  BY RadioAssumption DEF IInv, Contexts, TypeOK, Phases, Transition,
     StopChip, Goto, radio, context, service
<1>4. Phases'
  BY RadioAssumption DEF IInv, Phases, Starting, Stopping, Transition,
     Referenced, TypeOK, Settled, Client, StopChip, Goto, radio, context,
     service
<1>5. Settled'
  BY DEF IInv, Settled, Transition, TypeOK, StopChip, Goto, radio, context,
     service
<1>6. Operations'
  BY DEF IInv, Operations, Current, StopChip, Goto, radio, context, service
<1> QED
  BY <1>1, <1>2, <1>3, <1>4, <1>5, <1>6 DEF IInv

LEMMA StoppedKeeps ==
    ASSUME IInv, NEW t \in Task, Stopped(t)
    PROVE  IInv'
<1>1. TypeOK'
  <2>1. CallTypes /\ StateTypes
    BY DEF IInv, TypeOK, CallTypes, StateTypes, Steps
  <2>2. CallTypes'
    BY <2>1, GotoTyped, DoneTyped DEF Stopped, DropReference, context,
       service, chip, NoJob, CallTypes, StateTypes, Steps, Transition, Kinds,
       Client, States
  <2>3. StateTypes'
    <3>1. DropReference(t) \in [Client -> 0..MaxReferences]
      BY <2>1, RadioAssumption DEF CallTypes, StateTypes, DropReference
    <3> QED
      BY <2>1, <3>1 DEF StateTypes, States, Stopped, context, service, chip
  <2> QED
    BY <2>2, <2>3 DEF TypeOK, CallTypes, StateTypes, Steps
<1>2. Places'
  BY DEF IInv, Places, Holding, Entered, Inside, TypeOK, Stopped, Goto,
     Done, DropReference, context, service, chip, NoJob
<1>3. Contexts'
  BY DEF IInv, Contexts, TypeOK, Stopped, Goto, Done, DropReference,
     context, service, chip, NoJob
<1>4. Phases'
  BY RadioAssumption DEF IInv, Phases, Starting, Stopping, Transition,
     Referenced, TypeOK, Settled, Client, Stopped, Goto, Done, DropReference,
     context, service, chip, NoJob
<1>5. Settled'
  BY RadioAssumption DEF IInv, Settled, Transition, TypeOK, Phases,
     Starting, Stopping, Referenced, Client, Contexts, Places, Holding,
     Entered, Inside, Other, Stopped, Goto, Done, DropReference, context,
     service, chip, NoJob
<1>6. Operations'
  BY DEF IInv, Operations, Current, Stopped, Goto, Done, DropReference,
     context, service, chip, NoJob
<1> QED
  BY <1>1, <1>2, <1>3, <1>4, <1>5, <1>6 DEF IInv

LEMMA BrokenKeeps ==
    ASSUME IInv, NEW t \in Task, Broken(t)
    PROVE  IInv'
<1>1. TypeOK'
  BY RadioAssumption DEF IInv, TypeOK, Kinds, Client, States, Transition,
     Places, Entered, Contexts, Broken, Done, DropReference, context, service,
     chip, NoJob
<1>2. Places'
  BY DEF IInv, Places, Holding, Entered, Inside, TypeOK, Broken, Done,
     DropReference, context, service, chip, NoJob
<1>3. Contexts'
  BY DEF IInv, Contexts, TypeOK, Broken, Done, DropReference, context,
     service, chip, NoJob
<1>4. Phases'
  BY RadioAssumption DEF IInv, Phases, Starting, Stopping, Transition,
     Referenced, TypeOK, Settled, Client, Broken, Done, DropReference, context,
     service, chip, NoJob
<1>5. Settled'
  BY RadioAssumption DEF IInv, Settled, Transition, TypeOK, Phases,
     Starting, Stopping, Referenced, Client, Broken, Done, DropReference,
     context, service, chip, NoJob
<1>6. Operations'
  BY DEF IInv, Operations, Current, Broken, Done, DropReference, context,
     service, chip, NoJob
<1> QED
  BY <1>1, <1>2, <1>3, <1>4, <1>5, <1>6 DEF IInv

-----------------------------------------------------------------------------
(* Enter and leave. *)

LEMMA EnterKeeps ==
    ASSUME IInv, NEW t \in Task, NEW c \in Client, Enter(t, c)
    PROVE  IInv'
<1>1. TypeOK'
  <2>1. CallTypes /\ StateTypes
    BY DEF IInv, TypeOK, CallTypes, StateTypes, Steps
  <2>2. CallTypes'
    BY <2>1, CallTyped, ReturnTyped DEF Enter, radio, context, service,
       chip, NoJob, CallTypes, StateTypes, Steps, Transition, Kinds, Client,
       States
  <2>3. StateTypes'
    BY <2>1, RadioAssumption DEF IInv, Places, Entered, Contexts,
       StateTypes, States, Client, Enter, Return, Call, radio, context,
       service, chip, NoJob
  <2> QED
    BY <2>2, <2>3 DEF TypeOK, CallTypes, StateTypes, Steps
<1>2. Places'
  BY DEF IInv, Places, Holding, Entered, Inside, TypeOK, Enter, Return,
     Call, radio, context, service, chip, NoJob
<1>3. Contexts'
  BY DEF IInv, Contexts, TypeOK, Enter, Return, Call, radio, context,
     service, chip, NoJob
<1>4. Phases'
  BY DEF IInv, Phases, Starting, Stopping, Transition, Referenced, TypeOK,
     Enter, Return, Call, radio, context, service, chip, NoJob
<1>5. Settled'
  BY DEF IInv, Settled, Transition, TypeOK, Enter, Return, Call, radio,
     context, service, chip, NoJob
<1>6. Operations'
  BY DEF IInv, Operations, Current, Enter, Return, Call, radio, context,
     service, chip, NoJob
<1> QED
  BY <1>1, <1>2, <1>3, <1>4, <1>5, <1>6 DEF IInv

LEMMA EnterServiceKeeps ==
    ASSUME IInv, NEW t \in Task, EnterService(t)
    PROVE  IInv'
<1>1. TypeOK'
  <2>1. CallTypes /\ StateTypes
    BY DEF IInv, TypeOK, CallTypes, StateTypes, Steps
  <2>2. CallTypes'
    BY <2>1, GotoTyped, ReturnTyped DEF EnterService, radio, service, chip,
       NoJob, CallTypes, StateTypes, Steps, Transition, Kinds, Client, States
  <2>3. StateTypes'
    BY <2>1, RadioAssumption DEF IInv, Places, Entered, Contexts,
       StateTypes, States, Client, EnterService, Goto, Return, radio, service,
       chip, NoJob
  <2> QED
    BY <2>2, <2>3 DEF TypeOK, CallTypes, StateTypes, Steps
<1>2. Places'
  BY DEF IInv, Places, Holding, Entered, Inside, TypeOK, EnterService, Goto,
     Return, radio, service, chip, NoJob
<1>3. Contexts'
  BY DEF IInv, Contexts, TypeOK, EnterService, Goto, Return, radio, service,
     chip, NoJob
<1>4. Phases'
  BY DEF IInv, Phases, Starting, Stopping, Transition, Referenced, TypeOK,
     EnterService, Goto, Return, radio, service, chip, NoJob
<1>5. Settled'
  BY RadioAssumption DEF IInv, Settled, Transition, TypeOK, Phases,
     Starting, Stopping, Referenced, Client, EnterService, Goto, Return, radio,
     service, chip, NoJob
<1>6. Operations'
  BY DEF IInv, Operations, Current, EnterService, Goto, Return, radio,
     service, chip, NoJob
<1> QED
  BY <1>1, <1>2, <1>3, <1>4, <1>5, <1>6 DEF IInv

LEMMA TakeStackKeeps ==
    ASSUME IInv, NEW t \in Task, TakeStack(t)
    PROVE  IInv'
<1>1. TypeOK'
  <2>1. CallTypes /\ StateTypes
    BY DEF IInv, TypeOK, CallTypes, StateTypes, Steps
  <2>2. CallTypes'
    BY <2>1, GotoTyped, ReturnTyped DEF TakeStack, radio, context, service,
       NoJob, CallTypes, StateTypes, Steps, Transition, Kinds, Client, States
  <2>3. StateTypes'
    BY <2>1, RadioAssumption DEF IInv, Places, Entered, Contexts,
       StateTypes, States, Client, TakeStack, Goto, Return, radio, context,
       service, NoJob
  <2> QED
    BY <2>2, <2>3 DEF TypeOK, CallTypes, StateTypes, Steps
<1>2. Places'
  BY RadioAssumption DEF IInv, Places, Holding, Entered, Inside, TypeOK,
     Contexts, TakeStack, Goto, Return, radio, context, service, NoJob
<1>3. Contexts'
  BY DEF IInv, Contexts, TypeOK, TakeStack, Goto, Return, radio, context,
     service, NoJob
<1>4. Phases'
  BY DEF IInv, Phases, Starting, Stopping, Transition, Referenced, TypeOK,
     TakeStack, Goto, Return, radio, context, service, NoJob
<1>5. Settled'
  BY SMTT(30) DEF IInv, Settled, Transition, TypeOK, TakeStack, Goto, Return, radio,
     context, service, NoJob
<1>6. Operations'
  BY DEF IInv, Operations, Current, TakeStack, Goto, Return, radio, context,
     service, NoJob
<1> QED
  BY <1>1, <1>2, <1>3, <1>4, <1>5, <1>6 DEF IInv

LEMMA AdmitKeeps ==
    ASSUME IInv, NEW t \in Task, Admit(t)
    PROVE  IInv'
<1>1. TypeOK'
  <2>1. CallTypes /\ StateTypes
    BY DEF IInv, TypeOK, CallTypes, StateTypes, Steps
  <2>2. CallTypes'
    BY <2>1, GotoTyped, ReturnTyped DEF Admit, radio, context, service,
       NoJob, CallTypes, StateTypes, Steps, Transition, Kinds, Client, States
  <2>3. StateTypes'
    BY <2>1, RadioAssumption DEF IInv, Places, Entered, Contexts,
       StateTypes, States, Client, Admit, Goto, Return, radio, context,
       service, NoJob
  <2> QED
    BY <2>2, <2>3 DEF TypeOK, CallTypes, StateTypes, Steps
<1>2. Places'
  BY RadioAssumption DEF IInv, Places, Holding, Entered, Inside, TypeOK,
     Contexts, Admit, Goto, Return, radio, context, service, NoJob
<1>3. Contexts'
  BY RadioAssumption DEF IInv, Contexts, TypeOK, Phases, Transition, Admit,
     Goto, Return, radio, context, service, NoJob
<1>4. Phases'
  BY DEF IInv, Phases, Starting, Stopping, Transition, Referenced, TypeOK,
     Admit, Goto, Return, radio, context, service, NoJob
<1>5. Settled'
  BY DEF IInv, Settled, Transition, TypeOK, Admit, Goto, Return, radio,
     context, service, NoJob
<1>6. Operations'
  BY DEF IInv, Operations, Current, Admit, Goto, Return, radio, context,
     service, NoJob
<1> QED
  BY <1>1, <1>2, <1>3, <1>4, <1>5, <1>6 DEF IInv

LEMMA PassKeeps ==
    ASSUME IInv, NEW t \in Task, NEW good \in BOOLEAN, Pass(t, good)
    PROVE  IInv'
<1>1. TypeOK'
  BY DEF IInv, TypeOK, Kinds, Client, States, Transition, Pass, Goto, radio,
     context, service, chip
<1>2. Places'
  BY DEF IInv, Places, Holding, Entered, Inside, TypeOK, Pass, Goto, radio,
     context, service, chip
<1>3. Contexts'
  BY DEF IInv, Contexts, TypeOK, Pass, Goto, radio, context, service, chip
<1>4. Phases'
  BY DEF IInv, Phases, Starting, Stopping, Transition, Referenced, TypeOK,
     Pass, Goto, radio, context, service, chip
<1>5. Settled'
  BY DEF IInv, Settled, Transition, TypeOK, Pass, Goto, radio, context,
     service, chip
<1>6. Operations'
  BY DEF IInv, Operations, Current, Pass, Goto, radio, context, service,
     chip
<1> QED
  BY <1>1, <1>2, <1>3, <1>4, <1>5, <1>6 DEF IInv

LEMMA VerifyKeeps ==
    ASSUME IInv, NEW t \in Task, Verify(t)
    PROVE  IInv'
<1>1. TypeOK'
  <2>1. CallTypes /\ StateTypes
    BY DEF IInv, TypeOK, CallTypes, StateTypes, Steps
  <2>2. CallTypes'
    BY <2>1, GotoTyped, ReturnTyped DEF Verify, radio, context, service,
       chip, NoJob, CallTypes, StateTypes, Steps, Transition, Kinds, Client,
       States
  <2>3. StateTypes'
    BY <2>1, RadioAssumption DEF IInv, Places, Entered, Contexts,
       StateTypes, States, Client, Verify, Goto, Return, radio, context,
       service, chip, NoJob
  <2> QED
    BY <2>2, <2>3 DEF TypeOK, CallTypes, StateTypes, Steps
<1>2. Places'
  BY DEF IInv, Places, Holding, Entered, Inside, TypeOK, Verify, Goto,
     Return, radio, context, service, chip, NoJob
<1>3. Contexts'
  BY DEF IInv, Contexts, TypeOK, Verify, Goto, Return, radio, context,
     service, chip, NoJob
<1>4. Phases'
  BY DEF IInv, Phases, Starting, Stopping, Transition, Referenced, TypeOK,
     Verify, Goto, Return, radio, context, service, chip, NoJob
<1>5. Settled'
  BY RadioAssumption DEF IInv, Settled, Transition, TypeOK, Phases,
     Starting, Stopping, Referenced, Client, Verify, Goto, Return, radio,
     context, service, chip, NoJob
<1>6. Operations'
  BY DEF IInv, Operations, Current, Verify, Goto, Return, radio, context,
     service, chip, NoJob
<1> QED
  BY <1>1, <1>2, <1>3, <1>4, <1>5, <1>6 DEF IInv

LEMMA UnwindKeeps ==
    ASSUME IInv, NEW t \in Task, Unwind(t)
    PROVE  IInv'
<1>1. TypeOK'
  BY RadioAssumption DEF IInv, TypeOK, Kinds, Client, States, Transition,
     Places, Entered, Contexts, Unwind, GiveUp, radio, service, chip
<1>2. Places'
  BY RadioAssumption DEF IInv, Places, Holding, Entered, Inside, TypeOK,
     Contexts, Unwind, GiveUp, radio, service, chip
<1>3. Contexts'
  BY RadioAssumption DEF IInv, Contexts, TypeOK, Phases, Transition, Places,
     Holding, Entered, Inside, Settled, Starting, Stopping, Unwind, GiveUp,
     radio, service, chip
<1>4. Phases'
  BY DEF IInv, Phases, Starting, Stopping, Transition, Referenced, TypeOK,
     Unwind, GiveUp, radio, service, chip
<1>5. Settled'
  BY DEF IInv, Settled, Transition, TypeOK, Unwind, GiveUp, radio, service,
     chip
<1>6. Operations'
  BY DEF IInv, Operations, Current, Unwind, GiveUp, radio, service, chip
<1> QED
  BY <1>1, <1>2, <1>3, <1>4, <1>5, <1>6 DEF IInv

LEMMA LeaveKeeps ==
    ASSUME IInv, NEW t \in Task, Leave(t)
    PROVE  IInv'
<1>1. TypeOK'
  BY RadioAssumption DEF IInv, TypeOK, Kinds, Client, States, Transition,
     Places, Entered, Contexts, Leave, GiveUp, radio, service, chip
<1>2. Places'
  BY RadioAssumption DEF IInv, Places, Holding, Entered, Inside, TypeOK,
     Contexts, Leave, GiveUp, radio, service, chip
<1>3. Contexts'
  BY DEF IInv, Contexts, TypeOK, Leave, GiveUp, radio, service, chip
<1>4. Phases'
  BY DEF IInv, Phases, Starting, Stopping, Transition, Referenced, TypeOK,
     Leave, GiveUp, radio, service, chip
<1>5. Settled'
  BY DEF IInv, Settled, Transition, TypeOK, Leave, GiveUp, radio, service,
     chip
<1>6. Operations'
  BY DEF IInv, Operations, Current, Leave, GiveUp, radio, service, chip
<1> QED
  BY <1>1, <1>2, <1>3, <1>4, <1>5, <1>6 DEF IInv

LEMMA LetGoKeeps ==
    ASSUME IInv, NEW t \in Task, LetGo(t)
    PROVE  IInv'
<1>1. TypeOK'
  BY DEF IInv, TypeOK, Kinds, Client, States, Transition, LetGo, Return,
     radio, context, service, NoJob
<1>2. Places'
  BY RadioAssumption DEF IInv, Places, Holding, Entered, Inside, TypeOK,
     Contexts, LetGo, Return, radio, context, service, NoJob
<1>3. Contexts'
  BY DEF IInv, Contexts, TypeOK, LetGo, Return, radio, context, service,
     NoJob
<1>4. Phases'
  BY DEF IInv, Phases, Starting, Stopping, Transition, Referenced, TypeOK,
     LetGo, Return, radio, context, service, NoJob
<1>5. Settled'
  BY DEF IInv, Settled, Transition, TypeOK, LetGo, Return, radio, context,
     service, NoJob
<1>6. Operations'
  BY DEF IInv, Operations, Current, LetGo, Return, radio, context, service,
     NoJob
<1> QED
  BY <1>1, <1>2, <1>3, <1>4, <1>5, <1>6 DEF IInv

-----------------------------------------------------------------------------
(* Operations. *)

LEMMA BeginOperationKeeps ==
    ASSUME IInv, NEW t \in Task, BeginOperation(t)
    PROVE  IInv'
<1>1. TypeOK'
  BY DEF IInv, TypeOK, Kinds, Client, States, Transition, BeginOperation,
     radio, context, chip, call
<1>2. Places'
  BY DEF IInv, Places, Holding, Entered, Inside, TypeOK, BeginOperation,
     radio, context, chip, call
<1>3. Contexts'
  BY DEF IInv, Contexts, TypeOK, BeginOperation, radio, context, chip, call
<1>4. Phases'
  BY DEF IInv, Phases, Starting, Stopping, Transition, Referenced, TypeOK,
     BeginOperation, radio, context, chip, call
<1>5. Settled'
  BY DEF IInv, Settled, Transition, TypeOK, BeginOperation, radio, context,
     chip, call
<1>6. Operations'
  <2>1. Current' = Current \union {t} /\ t \notin Current
    BY DEF IInv, TypeOK, Current, BeginOperation
  <2>2. IsFiniteSet(Current) /\ pending = Cardinality(Current)
    BY DEF IInv, Operations
  <2> QED
    BY <2>1, <2>2, FS_AddElement DEF Operations, BeginOperation
<1> QED
  BY <1>1, <1>2, <1>3, <1>4, <1>5, <1>6 DEF IInv

LEMMA FinishOperationKeeps ==
    ASSUME IInv, NEW t \in Task, FinishOperation(t)
    PROVE  IInv'
<1>1. TypeOK'
  BY DEF IInv, TypeOK, Kinds, Client, States, Transition, FinishOperation,
     radio, context, chip, call
<1>2. Places'
  BY DEF IInv, Places, Holding, Entered, Inside, TypeOK, FinishOperation,
     radio, context, chip, call
<1>3. Contexts'
  BY DEF IInv, Contexts, TypeOK, FinishOperation, radio, context, chip, call
<1>4. Phases'
  BY DEF IInv, Phases, Starting, Stopping, Transition, Referenced, TypeOK,
     FinishOperation, radio, context, chip, call
<1>5. Settled'
  BY DEF IInv, Settled, Transition, TypeOK, FinishOperation, radio, context,
     chip, call
<1>6. Operations'
  <2>1. IsFiniteSet(Current) /\ pending = Cardinality(Current)
        /\ (Current # {} => running)
    BY DEF IInv, Operations
  <2>2. CASE op[t] = "current"
    <3>1. Current' = Current \ {t} /\ t \in Current
      BY <2>2 DEF IInv, TypeOK, Current, FinishOperation
    <3>2. Cardinality(Current) \in Nat /\ Cardinality(Current) # 0
      BY <2>1, <3>1, FS_CardinalityType, FS_EmptySet
    <3>3. pending' = pending - 1 /\ running' = running
      BY <2>1, <2>2, <3>1, <3>2 DEF FinishOperation
    <3>4. IsFiniteSet(Current') /\ Cardinality(Current') = Cardinality(Current) - 1
      BY <2>1, <3>1, FS_RemoveElement
    <3> QED
      BY <2>1, <3>1, <3>3, <3>4 DEF Operations
  <2>3. CASE op[t] # "current"
    <3>1. Current' = Current /\ pending' = pending /\ running' = running
      BY <2>3 DEF IInv, TypeOK, Current, FinishOperation
    <3> QED
      BY <2>1, <3>1 DEF Operations
  <2> QED
    BY <2>2, <2>3
<1> QED
  BY <1>1, <1>2, <1>3, <1>4, <1>5, <1>6 DEF IInv

-----------------------------------------------------------------------------
(* The theorems. *)

LEMMA InitOK == Init => IInv
<1> SUFFICES ASSUME Init PROVE IInv
  OBVIOUS
<1>1. TypeOK
  <2>1. CallTypes
    BY DEF Init, CallTypes, Steps, NoJob, Kinds, Client, States
  <2>2. StateTypes
    <3>1. 0 \in 0..MaxReferences /\ 0 \in 0..MaxDepth
      BY RadioAssumption
    <3>2. refs \in [Client -> 0..MaxReferences]
      BY <3>1 DEF Init
    <3>3. op \in [Task -> {"none", "current", "stale"}]
      BY DEF Init
    <3> QED
      BY <3>1, <3>2, <3>3 DEF Init, StateTypes, States
  <2> QED
    BY <2>1, <2>2 DEF TypeOK, CallTypes, StateTypes, Steps
<1>2. Places /\ Contexts /\ Phases /\ Settled
  BY RadioAssumption DEF Init, Places, Holding, Entered, Inside, Contexts,
     Phases, Starting, Stopping, Settled, Transition
<1>3. Operations
  <2>1. Current = {} /\ pending = 0
    BY DEF Init, Current
  <2> QED
    BY <2>1, FS_EmptySet DEF Operations
<1> QED
  BY <1>1, <1>2, <1>3 DEF IInv

LEMMA StepOK == IInv /\ [Next]_vars => IInv'
<1> SUFFICES ASSUME IInv, [Next]_vars PROVE IInv'
  OBVIOUS
<1>1. ASSUME NEW t \in Task, Begin(t) PROVE IInv'
  BY <1>1, AcquireKeeps, ReleaseKeeps, EnterKeeps, RestartKeeps, LeaveKeeps
     DEF Begin
<1>2. ASSUME NEW t \in Task, Step(t) PROVE IInv'
  <2>1. CASE Snapshot(t) \/ Publish(t)
    BY <2>1, SnapshotKeeps, PublishKeeps
  <2>2. CASE AcquireReference(t) \/ StartChip(t) \/ Abandon(t)
    BY <2>2, AcquireReferenceKeeps, StartChipKeeps, AbandonKeeps
  <2>3. CASE StartService(t) \/ Commit(t)
    BY <2>3, StartServiceKeeps, CommitKeeps
  <2>4. CASE TryStop(t) \/ Bounce(t) \/ Warn(t) \/ Tell(t)
    BY <2>4, TryStopKeeps, BounceKeeps, WarnKeeps, TellKeeps
  <2>5. CASE LockToStop(t) \/ StopChip(t) \/ Stopped(t) \/ Broken(t)
    BY <2>5, LockToStopKeeps, StopChipKeeps, StoppedKeeps, BrokenKeeps
  <2>6. CASE EnterService(t) \/ TakeStack(t) \/ Admit(t)
    BY <2>6, EnterServiceKeeps, TakeStackKeeps, AdmitKeeps
  <2>7. CASE \E good \in BOOLEAN : Pass(t, good)
    BY <2>7, PassKeeps
  <2>8. CASE Verify(t) \/ Unwind(t) \/ LetGo(t)
    BY <2>8, VerifyKeeps, UnwindKeeps, LetGoKeeps
  <2> QED
    BY <1>2, <2>1, <2>2, <2>3, <2>4, <2>5, <2>6, <2>7, <2>8 DEF Step
<1>3. ASSUME NEW t \in Task, BeginOperation(t) \/ FinishOperation(t)
      PROVE  IInv'
  BY <1>3, BeginOperationKeeps, FinishOperationKeeps
<1>4. CASE UNCHANGED vars
  BY <1>4 DEF vars, IInv, TypeOK, Places, Inside, Contexts, Phases, Referenced,
     Settled, Operations, Current
<1> QED
  BY <1>1, <1>2, <1>3, <1>4 DEF Next

LEMMA Always == Spec => []IInv
<1> QED
  BY InitOK, StepOK, PTL DEF Spec

\* Whoever is inside has the stack to itself, and nobody starts or stops the
\* radio meanwhile: a start or a stop runs while the service does not, except
\* where it is refused or already done.
LEMMA InvStackQuiet == IInv => StackQuiet
<1> SUFFICES ASSUME IInv, NEW t \in Task, Inside(t)
             PROVE  /\ stack = t /\ running /\ ready
                    /\ \A u \in Task :
                         pc[u] \notin Transition \ {"trystop", "bounce", "commit"}
  BY DEF StackQuiet
<1>1. stack = t
  BY DEF IInv, Places
<1>2. running /\ ready
  BY DEF IInv, Contexts, Inside
<1>3. ASSUME NEW u \in Task
      PROVE  pc[u] \notin Transition \ {"trystop", "bounce", "commit"}
  BY <1>2 DEF IInv, Phases
<1> QED
  BY <1>1, <1>2, <1>3

\* The holder of the stack is at a step that does not wait: "lock" comes after
\* the service was stopped, with nobody inside.
LEMMA InvNoHoldAndWait == IInv => NoHoldAndWait
<1> SUFFICES ASSUME IInv, NEW t \in Task, stack = t
             PROVE  pc[t] \notin {"wait", "lock"}
  BY DEF NoHoldAndWait
<1>1. CASE pc[t] \in Holding
  BY <1>1 DEF Holding, Entered
<1>2. CASE Inside(t)
  <2>1. pc[t] # "wait" /\ running
    BY <1>2 DEF IInv, Places, Contexts, Inside
  <2>2. pc[t] # "lock"
    BY <2>1 DEF IInv, Phases, Transition
  <2> QED
    BY <2>1, <2>2
<1> QED
  BY <1>1, <1>2 DEF IInv, Places

\* Every variable keeps its type; depth and the references keep within their
\* bounds although they are tested in one section and changed in another.
THEOREM TypeCorrect == Spec => []TypeOK
<1> QED
  BY Always, PTL DEF IInv

\* However the calls of any number of tasks interleave, a task that
\* jh_network_service_enter let in is alone on a chip that stays up.
THEOREM StackIsQuiet == Spec => []StackQuiet
<1> QED
  BY Always, InvStackQuiet, PTL

\* Restart and release from inside, and nested entries, never make the holder
\* of the stack mutex wait for a mutex.
THEOREM HolderNeverWaits == Spec => []NoHoldAndWait
<1> QED
  BY Always, InvNoHoldAndWait, PTL

\* The state the runtime keeps, the references, the service and the chip agree
\* between calls, and one call at a time moves them.
THEOREM RadioSettles == Spec => []Settled
<1> QED
  BY Always, PTL DEF IInv

\* jh_network_service_operation_begin and _finish: across stops and restarts
\* the counter is the number of operations of this generation.
THEOREM PendingIsExact == Spec => []PendingCounts
<1>1. IInv => PendingCounts
  BY DEF IInv, Operations, Current, PendingCounts
<1> QED
  BY <1>1, Always, PTL
-----------------------------------------------------------------------------
(* The host uses the radio. *)

\* A step of a call or of a pass is a step of the radio or leaves it alone.
LEMMA TaskStepIsRadio ==
    ASSUME NEW t \in Task, TaskStep(t)
    PROVE  [Next]_vars
<1>1. CASE PassDriver(t)
  BY <1>1 DEF PassDriver, QuietRadio, Next, Step
<1>2. CASE Handler(t)
  BY <1>2 DEF Handler, Next, Step
<1>3. CASE RunTransition(t)
  BY <1>3 DEF RunTransition, QuietRadio
<1>4. CASE ClearTransition(t)
  <2>1. (pass[t] = "ran") \in BOOLEAN
    OBVIOUS
  <2> QED
    BY <1>4, <2>1 DEF ClearTransition, Next, Step
<1>5. CASE WarnHost(t)
  BY <1>5 DEF WarnHost, Next, Step
<1>6. CASE HaltChip(t)
  BY <1>6 DEF HaltChip, Next, Step
<1>7. CASE RadioStep(t)
  BY <1>7 DEF RadioStep, Next, Step
<1> QED
  BY <1>1, <1>2, <1>3, <1>4, <1>5, <1>6, <1>7 DEF TaskStep

LEMMA HostStepIsRadio ==
    ASSUME HostCall \/ HostStep
    PROVE  [Next]_vars
<1>1. Bluetooth \in Task /\ "bluetooth" \in Client
  BY HostAssumption DEF Client
<1>2. CASE HostCall
  <2>1. CASE \E p \in Profile : AcquireHost(p) \/ ReleaseHost(p)
    BY <2>1 DEF AcquireHost, ReleaseHost, QuietRadio
  <2>2. CASE Poll
    BY <1>1, <2>2 DEF Poll, b, Next, Begin
  <2> QED
    BY <1>2, <2>1, <2>2 DEF HostCall
<1>3. CASE Attach
  BY <1>1, <1>3 DEF Attach, QuietRadio, b, Next, Begin
<1>4. CASE Execute
  BY <1>1, <1>4 DEF Execute, b, Next, Begin
<1>5. CASE Served
  BY <1>1, <1>5 DEF Served, QuietRadio, b, Next, Begin
<1>6. CASE Detach
  BY <1>1, <1>6 DEF Detach, b, Next, Begin
<1>7. CASE Attached \/ Acquired \/ Undo \/ Removed \/ Detached
  BY <1>7 DEF Attached, Acquired, Undo, Removed, Detached, Withdraw, Reset,
     QuietRadio
<1> QED
  BY <1>2, <1>3, <1>4, <1>5, <1>6, <1>7 DEF HostStep

LEMMA WifiCallIsRadio ==
    ASSUME NEW t \in Task, WifiCall(t)
    PROVE  [Next]_vars
<1>1. "wifi" \in Client
  BY DEF Client
<1> QED
  BY <1>1 DEF WifiCall, Next, Begin

\* The host, its profiles and any number of Wi-Fi tasks together use the radio
\* as its specification has it (jh_bluetooth_controller_cyw43.c).
THEOREM HostUsesRadio == HostSpec => Spec
<1>1. HostInit => Init
  BY DEF HostInit
<1>2. [HostNext]_allVars => [Next]_vars
  <2> SUFFICES ASSUME [HostNext]_allVars PROVE [Next]_vars
    OBVIOUS
  <2>1. ASSUME NEW t \in Task \ {Bluetooth}, WifiCall(t) PROVE [Next]_vars
    BY <2>1, WifiCallIsRadio
  <2>2. CASE HostCall \/ HostStep
    BY <2>2, HostStepIsRadio
  <2>3. ASSUME NEW t \in Task, TaskStep(t) PROVE [Next]_vars
    BY <2>3, TaskStepIsRadio
  <2>4. CASE UNCHANGED allVars
    BY <2>4 DEF allVars
  <2> QED
    BY <2>1, <2>2, <2>3, <2>4 DEF HostNext
<1> QED
  BY <1>1, <1>2, PTL DEF HostSpec, Spec

\* Transitions that any task's pass may run, restarts in the middle of an
\* acquire, releases that are turned away: the stack stays quiet throughout.
THEOREM HostKeepsStackQuiet == HostSpec => []StackQuiet
<1> QED
  BY HostUsesRadio, StackIsQuiet, PTL

\* ... nobody who has the stack waits for it or for the other mutex, ...
THEOREM HostNeverWaits == HostSpec => []NoHoldAndWait
<1> QED
  BY HostUsesRadio, HolderNeverWaits, PTL

\* ... and the radio's parts agree between calls.
THEOREM HostSettles == HostSpec => []Settled
<1> QED
  BY HostUsesRadio, RadioSettles, PTL

-----------------------------------------------------------------------------
(* The host's references.  Only the Bluetooth task changes the reference     *)
(* that the radio counts, and only while its call is at "attaching" or       *)
(* "detaching": the host's own flags follow it from there.                   *)

Ref == refs["bluetooth"]

\* The steps of a call that enters the stack or leaves it.
Entering == {"idle", "enter", "wait", "admit", "pass", "verify", "unwind",
             "letgo"}

HostTypes ==
    /\ transition \in {"NONE", "START", "ADD", "REMOVE", "STOP"}
    /\ verdict \in {"NONE", "OK", "BAD"}
    /\ target \in Profile
    /\ started \in BOOLEAN /\ failed \in BOOLEAN /\ stopping \in BOOLEAN
    /\ attached \in BOOLEAN /\ prepared \in BOOLEAN
    /\ on \in [Profile -> BOOLEAN]
    /\ reference \in [Profile -> {"none", "current", "stale"}]
    /\ base \in {"down", "up", "orphan"}
    /\ live \subseteq Profile
    /\ hooked \in BOOLEAN /\ strayed \in BOOLEAN
    /\ host \in [at: {"idle", "attach", "attaching", "undo", "execute",
                      "serving", "judge", "detaching"},
                 kind: {"none", "acquire", "release"},
                 first: BOOLEAN, good: BOOLEAN]
    /\ pass \in [Task -> {"none", "handler", "ran", "refused"}]

\* Where the Bluetooth task's call of the radio is, and what it is about.
HostPlaces ==
    /\ \A t \in Task \ {b} : job[t].client = "wifi"
    /\ \A t \in Task : pass[t] # "none" => pc[t] = "pass"
    /\ host.at \in {"attach", "undo", "execute"} => pc[b] = "idle"
    /\ host.at \in {"idle", "serving"} => pc[b] \in Entering
    /\ At("judge") => pc[b] \in {"idle", "letgo"}
    /\ At("attaching") =>
          /\ pc[b] \in {"idle", "acquire", "snapshot", "publish"}
                          \union Starting
          /\ pc[b] \in {"acquire"} \union Starting =>
                job[b].kind = "acquire" /\ job[b].client = "bluetooth"
    /\ At("detaching") =>
          /\ pc[b] \in {"idle", "tell", "snapshot", "publish"}
                          \union Stopping
          /\ pc[b] \in Stopping =>
                job[b].kind = "release" /\ job[b].client = "bluetooth"

\* The call of the host: what it posted, and for which profile.
HostPhases ==
    /\ stopping <=> At("detaching")
    /\ At("idle") => transition \in {"NONE", "REMOVE"}
    /\ transition = "REMOVE" => target \notin Held
    /\ ~At("idle") =>
          /\ target \notin Held
          /\ host.first <=> Held = {}
          /\ host.kind \in {"acquire", "release"}
          /\ transition \in
                {"NONE", IF host.kind = "acquire"
                         THEN IF host.first THEN "START" ELSE "ADD"
                         ELSE IF host.first THEN "STOP" ELSE "REMOVE"}
    /\ host.at \in {"attach", "attaching", "undo"} =>
          host.kind = "acquire" /\ host.first
    /\ At("detaching") => host.first

\* The one reference of Bluetooth's, and the handlers that go with it.
HostReference ==
    /\ Ref \in {0, 1}
    /\ Ref = 1 => hooked
    /\ hooked => Ref = 1 \/ host.at \in {"attaching", "detaching"}
    /\ attached /\ ~At("detaching") => Ref = 1
    /\ host.at \in {"attach", "attaching", "undo"} => ~attached
    /\ host.at \in {"execute", "serving", "judge"} \/ Held # {} => attached
    /\ At("idle") /\ attached => Held # {}
    /\ At("attaching") =>
          /\ hooked
          /\ IF pc[b] \in {"acquire"} \union Starting THEN Ref = 0
             ELSE ok[b] <=> Ref = 1

\* A reference that the host counts on, and is not giving back.
Fresh == /\ Ref = 1
         /\ At("attaching") \/ attached
         /\ ~At("detaching")

\* Whoever takes the chip away under a fresh reference has told the host.
Warned == Fresh => \A t \in Task : pc[t] \in {"lock", "halt"} => failed

\* What the held references stand on, unless the host was told.
Backed ==
    /\ Held # {} => started
    /\ Held # {} /\ ~failed => base = "up" /\ Held \subseteq live
    /\ host.at \in {"serving", "judge"} /\ host.kind = "acquire"
          /\ verdict = "OK" /\ ~failed =>
             base = "up" /\ target \in live

\* BTstack, its profiles and the slots are those of the profiles S.
Has(S) == /\ live = S
          /\ base # "down" <=> S # {}
          /\ prepared <=> S # {}
          /\ \A p \in Profile : on[p] <=> p \in S

Before == IF host.kind = "acquire" THEN Held ELSE Held \union {target}
After == IF host.kind = "acquire" THEN Held \union {target} ELSE Held

\* As long as nothing strayed, only the Bluetooth task runs a transition, in
\* its own pass: where its call is says what has been done.
Rolled ==
    ~strayed =>
        /\ At("idle") => Has(Held) /\ transition = "NONE"
        /\ host.at \in {"attach", "attaching", "undo", "detaching"} => Has({})
        /\ host.at \in {"attach", "undo"} => Ref = 0
        /\ At("idle") /\ Held = {} => Ref = 0
        /\ At("execute") => Has(Before)
        /\ host.at \in {"serving", "judge"} =>
              /\ verdict = "NONE" => Has(Before)
              /\ verdict = "OK" => Has(After)
              /\ verdict = "BAD" => Has(Before) /\ host.kind = "acquire"
              /\ verdict # "NONE" =>
                    transition = "NONE" \/ pass[b] \in {"ran", "refused"}
              /\ pass[b] \in {"ran", "refused"} => verdict # "NONE"
        /\ At("judge") =>
              /\ host.kind = "acquire" /\ verdict = "OK" => host.good
              /\ host.kind = "release" => verdict # "NONE"

HInv == /\ HostTypes /\ HostPlaces /\ HostPhases /\ HostReference
        /\ Warned /\ Backed /\ Rolled

LEMMA HostInitOK == HostInit => HInv
<1> SUFFICES ASSUME HostInit PROVE HInv
  OBVIOUS
<1> USE DEF HostInit, NoCall
<1>1. HostTypes
  <2>1. target \in Profile
    BY HostAssumption
  <2> QED
    BY <2>1 DEF HostTypes
<1>2. Held = {}
  BY DEF Held
<1>3. b \in Task /\ Ref = 0 /\ pc[b] = "idle"
  BY HostAssumption DEF b, Ref, Init, Client
<1>4. HostPlaces
  BY <1>3 DEF HostPlaces, At, Init, NoJob, Entering
<1>5. HostPhases /\ HostReference /\ Warned /\ Backed
  BY <1>2, <1>3 DEF HostPhases, HostReference, Warned, Fresh, Backed, At
<1>6. Rolled
  BY <1>2, <1>3 DEF Rolled, Has, At
<1> QED
  BY <1>1, <1>4, <1>5, <1>6 DEF HInv

-----------------------------------------------------------------------------
(* The steps of the radio, seen from the host. *)

\* A step of one task leaves the calls of the others where they are.
Alone(t) == \A u \in Task \ {t} :
               pc'[u] = pc[u] /\ job'[u] = job[u] /\ ok'[u] = ok[u]

LEMMA StepsAlone ==
    ASSUME IInv, NEW t \in Task,
           \/ Begin(t) \/ Step(t) \/ BeginOperation(t) \/ FinishOperation(t)
    PROVE  Alone(t)
<1>0. /\ pc \in [Task -> Steps]
      /\ job \in [Task -> [kind : Kinds, client : Client]]
      /\ ok \in [Task -> BOOLEAN]
  BY DEF IInv, TypeOK, Steps
<1>1. ASSUME NEW w, Goto(t, w) PROVE Alone(t)
  BY <1>1, <1>0 DEF Goto, Alone
<1>2. ASSUME NEW k, NEW c, NEW w, Call(t, k, c, w) PROVE Alone(t)
  BY <1>2, <1>0 DEF Call, Alone
<1>3. ASSUME NEW g, Return(t, g) \/ Done(t, g) PROVE Alone(t)
  BY <1>3, <1>0 DEF Return, Done, Alone
<1>4. CASE \E c \in Client : Acquire(t, c) \/ Release(t, c) \/ Enter(t, c)
  BY <1>4, <1>2, <1>3 DEF Acquire, Release, Enter
<1>5. CASE Restart(t)
  BY <1>5, <1>2, <1>3 DEF Restart
<1>6. CASE Leave(t) \/ Unwind(t)
  BY <1>6, <1>0 DEF Leave, Unwind, Alone
<1>7. CASE Snapshot(t) \/ Publish(t)
  BY <1>7, <1>3, <1>0 DEF Snapshot, Publish, Alone
<1>8. CASE AcquireReference(t)
  BY <1>8, <1>1, <1>3 DEF AcquireReference
<1>9. CASE StartChip(t) \/ Abandon(t) \/ StartService(t) \/ Commit(t)
  BY <1>9, <1>1, <1>3 DEF StartChip, Abandon, StartService, Commit
<1>10. CASE TryStop(t) \/ Bounce(t) \/ Warn(t) \/ Tell(t) \/ LockToStop(t)
  BY <1>10, <1>1, <1>3 DEF TryStop, Bounce, Warn, Tell, LockToStop
<1>11. CASE StopChip(t) \/ Stopped(t) \/ Broken(t)
  BY <1>11, <1>1, <1>3 DEF StopChip, Stopped, Broken
<1>12. CASE EnterService(t) \/ TakeStack(t) \/ Admit(t)
  BY <1>12, <1>1, <1>3 DEF EnterService, TakeStack, Admit
<1>13. CASE \E good \in BOOLEAN : Pass(t, good)
  BY <1>13, <1>1 DEF Pass
<1>14. CASE Verify(t) \/ LetGo(t)
  BY <1>14, <1>1, <1>3 DEF Verify, LetGo
<1>15. CASE BeginOperation(t) \/ FinishOperation(t)
  BY <1>15 DEF BeginOperation, FinishOperation, call, Alone
<1> QED
  BY <1>4, <1>5, <1>6, <1>7, <1>8, <1>9, <1>10, <1>11, <1>12, <1>13, <1>14,
     <1>15 DEF Begin, Step

\* A task whose call is about Wi-Fi does not touch Bluetooth's reference, and
\* only by a stop that was announced does it come to take the chip.
LEMMA WifiLeavesRef ==
    ASSUME IInv, NEW t \in Task, job[t].client = "wifi",
           WifiCall(t) \/ RadioStep(t) \/ Warn(t) \/ StopChip(t)
              \/ \E good \in BOOLEAN : Pass(t, good)
    PROVE  /\ Ref' = Ref
           /\ job'[t].client = "wifi"
           /\ pc'[t] \in {"lock", "halt"} =>
                 pc[t] \in {"lock", "halt"} \/ Warn(t)
           /\ pc[t] = "pass" /\ pc'[t] # "pass" =>
                 \E good \in BOOLEAN : Pass(t, good)
<1>0. /\ pc \in [Task -> Steps]
      /\ job \in [Task -> [kind : Kinds, client : Client]]
      /\ refs \in [Client -> 0..MaxReferences]
      /\ "wifi" \in Client /\ "bluetooth" \in Client
  BY DEF IInv, TypeOK, Steps, Client
<1>1. CASE WifiCall(t)
  BY <1>1, <1>0 DEF WifiCall, Acquire, Release, Enter, Restart, Leave, radio,
     BeginOperation, FinishOperation, Call, Return, Done, NoJob, Ref, call
<1>2. CASE Snapshot(t) \/ Publish(t)
  BY <1>2, <1>0 DEF Snapshot, Publish, Return, NoJob, radio, Ref
<1>3. CASE AcquireReference(t)
  BY <1>3, <1>0 DEF AcquireReference, Done, Goto, NoJob, radio, Ref
<1>4. CASE StartChip(t) \/ Abandon(t) \/ StartService(t) \/ Commit(t)
  BY <1>4, <1>0 DEF StartChip, Abandon, StartService, Commit, Done, Goto,
     NoJob, radio, Ref
<1>5. CASE TryStop(t) \/ Bounce(t) \/ Tell(t) \/ LockToStop(t)
  BY <1>5, <1>0 DEF TryStop, Bounce, Tell, LockToStop, Done, Goto, NoJob,
     radio, Ref
<1>6. CASE Warn(t) \/ StopChip(t)
  BY <1>6, <1>0 DEF Warn, StopChip, Goto, radio, Ref
<1>7. CASE Stopped(t) \/ Broken(t)
  BY <1>7, <1>0 DEF Stopped, Broken, Done, Goto, NoJob, DropReference, Ref
<1>8. CASE EnterService(t) \/ TakeStack(t) \/ Admit(t)
  BY <1>8, <1>0 DEF EnterService, TakeStack, Admit, Return, Goto, NoJob,
     radio, Ref
<1>9. CASE Verify(t) \/ Unwind(t) \/ LetGo(t)
  BY <1>9, <1>0 DEF Verify, Unwind, LetGo, Return, Goto, NoJob, radio, Ref
<1>10. CASE \E good \in BOOLEAN : Pass(t, good)
  BY <1>10, <1>0 DEF Pass, Goto, radio, Ref
<1> QED
  BY <1>1, <1>2, <1>3, <1>4, <1>5, <1>6, <1>7, <1>8, <1>9, <1>10 DEF RadioStep

Ran == {"ran", "refused"}

\* What has to be looked at when the host does nothing itself: it may be told
\* of a restart, lose the chip, and have a transition that ran cleared.
LEMMA HostRests ==
    ASSUME HInv,
           UNCHANGED <<verdict, target, started, stopping, attached>>,
           UNCHANGED <<prepared, on, live, hooked, host, strayed>>,
           failed' \in BOOLEAN, failed => failed', Held' = Held,
           reference' \in [Profile -> {"none", "current", "stale"}],
           \/ base' = base
           \/ base = "up" /\ base' = "orphan" /\ (Fresh => failed'),
           transition' \in {transition, "NONE"},
           pass' \in [Task -> {"none", "handler", "ran", "refused"}],
           pass'[b] \in Ran => pass[b] \in Ran,
           pass[b] \in Ran => pass'[b] \in Ran \/ transition' = "NONE",
           HostPlaces', HostReference', Warned',
           Ref' = Ref \/ host.at \in {"attaching", "detaching"}
    PROVE  HInv'
<1>1. HostTypes'
  BY DEF HInv, HostTypes
<1>2. HostPhases'
  BY DEF HInv, HostTypes, HostPhases, At
<1>3. Backed'
  <2>1. Held # {} => Fresh
    BY DEF HInv, HostPhases, HostReference, HostTypes, Fresh, At
  <2>2. host.at \in {"serving", "judge"} => Fresh
    BY DEF HInv, HostReference, Fresh, At
  <2> QED
    BY <2>1, <2>2 DEF HInv, Backed
<1>4. Rolled'
  <2>1. ASSUME NEW S, Has(S) PROVE Has(S)'
    BY <2>1 DEF Has
  <2>2. Before' = Before /\ After' = After
    BY DEF Before, After
  <2>3. ASSUME ~strayed, At("idle") PROVE Has(Held)' /\ transition' = "NONE"
    BY <2>1, <2>3 DEF HInv, Rolled, Has, At
  <2>4. ASSUME ~strayed, host.at \in {"serving", "judge"}
        PROVE  /\ verdict = "NONE" => Has(Before)'
               /\ verdict = "OK" => Has(After)'
               /\ verdict = "BAD" => Has(Before)' /\ host.kind = "acquire"
    BY <2>1, <2>2, <2>4 DEF HInv, Rolled, Has
  <2>5. ASSUME ~strayed, At("execute") PROVE Has(Before)'
    BY <2>1, <2>2, <2>5 DEF HInv, Rolled, Has
  <2>6. ASSUME ~strayed, host.at \in {"attach", "attaching", "undo", "detaching"}
        PROVE  Has({})'
    BY <2>1, <2>6 DEF HInv, Rolled
  <2> QED
    BY <2>3, <2>4, <2>5, <2>6 DEF HInv, Rolled, At, Ran, b
<1> QED
  BY <1>1, <1>2, <1>3, <1>4 DEF HInv

\* A Wi-Fi task moves the radio: the host sees it by what it is told.
LEMMA WifiMoves ==
    ASSUME IInv, HInv, NEW t \in Task \ {b},
           UNCHANGED <<host, hooked, attached>>, Held' = Held,
           failed => failed', Warn(t) /\ Fresh => failed',
           \A u \in Task : pass'[u] # "none" => pc'[u] = "pass",
           WifiCall(t) \/ RadioStep(t) \/ Warn(t) \/ StopChip(t)
              \/ \E good \in BOOLEAN : Pass(t, good)
    PROVE  HostPlaces' /\ HostReference' /\ Warned' /\ Ref' = Ref
<1>1. b \in Task /\ t \in Task /\ t # b /\ job[t].client = "wifi"
  BY HostAssumption DEF b, HInv, HostPlaces
<1>2. Begin(t) \/ Step(t) \/ BeginOperation(t) \/ FinishOperation(t)
  <2>1. "wifi" \in Client
    BY DEF Client
  <2> QED
    BY <2>1 DEF WifiCall, RadioStep, Begin, Step
<1>3. Alone(t)
  BY <1>1, <1>2, StepsAlone
<1>4. /\ Ref' = Ref /\ job'[t].client = "wifi"
      /\ pc'[t] \in {"lock", "halt"} => pc[t] \in {"lock", "halt"} \/ Warn(t)
  BY <1>1, WifiLeavesRef
<1>6. pc'[b] = pc[b] /\ job'[b] = job[b] /\ ok'[b] = ok[b]
  BY <1>1, <1>3 DEF Alone
<1>7. HostPlaces'
  <2>1. \A u \in Task \ {b} : job'[u].client = "wifi"
    BY <1>1, <1>3, <1>4 DEF Alone, HInv, HostPlaces
  <2> QED
    BY <2>1, <1>6 DEF HInv, HostPlaces, At, b
<1>8. HostReference'
  BY <1>4, <1>6 DEF HInv, HostReference, At, b, Ref
<1>9. Warned'
  <2>1. ASSUME NEW u \in Task, pc'[u] \in {"lock", "halt"}
        PROVE  pc[u] \in {"lock", "halt"} \/ Warn(t)
    BY <2>1, <1>1, <1>3, <1>4 DEF Alone
  <2>2. Fresh' => Fresh
    BY <1>4 DEF Fresh, At
  <2> QED
    BY <2>1, <2>2 DEF HInv, Warned
<1> QED
  BY <1>4, <1>7, <1>8, <1>9

-----------------------------------------------------------------------------
(* The Bluetooth task's own call of the radio, step by step. *)

\* While it enters or leaves.
LEMMA EnteringMoves ==
    ASSUME IInv, HInv, UNCHANGED <<host, hooked, attached, failed, reference>>,
           \A u \in Task : pass'[u] # "none" => pc'[u] = "pass",
           \/ EnterService(b) \/ TakeStack(b) \/ Admit(b)
           \/ \E good \in BOOLEAN : Pass(b, good)
           \/ Verify(b) \/ Unwind(b) \/ LetGo(b)
    PROVE  HostPlaces' /\ HostReference' /\ Warned' /\ Ref' = Ref
<1>0. /\ pc \in [Task -> Steps] /\ ok \in [Task -> BOOLEAN]
      /\ b \in Task
  BY HostAssumption DEF IInv, TypeOK, Steps, b
<1>1. Alone(b)
  BY <1>0, StepsAlone DEF Step
<1>2. /\ refs' = refs
      /\ pc[b] \in {"enter", "wait", "admit", "pass", "verify", "unwind",
                    "letgo"}
      /\ pc'[b] \in Entering
      /\ pc[b] = "letgo" => pc'[b] = "idle"
  BY <1>0 DEF EnterService, TakeStack, Admit, Pass, Verify, Unwind, LetGo,
     Return, Goto, radio, Entering
<1>4. host.at \in {"idle", "serving", "judge"}
  BY <1>2 DEF HInv, HostTypes, HostPlaces, At, Starting, Stopping
<1>5. HostPlaces'
  BY <1>0, <1>1, <1>2, <1>4
     DEF HInv, HostPlaces, At, b, Alone, Entering
<1>6. HostReference'
  BY <1>2, <1>4 DEF HInv, HostReference, At, b, Held, Ref
<1>7. Warned'
  BY <1>0, <1>1, <1>2
     DEF HInv, Warned, Fresh, At, Alone, Ref, Entering
<1> QED
  BY <1>2, <1>5, <1>6, <1>7 DEF Ref

\* While it ends a call.
LEMMA EndingMoves ==
    ASSUME IInv, HInv,
           UNCHANGED <<host, pass, hooked, attached, failed, reference>>,
           Snapshot(b) \/ Publish(b) \/ Tell(b)
    PROVE  /\ HostPlaces' /\ HostReference' /\ Warned'
           /\ Ref' = Ref \/ host.at \in {"attaching", "detaching"}
<1>0. /\ pc \in [Task -> Steps] /\ ok \in [Task -> BOOLEAN]
      /\ b \in Task
  BY HostAssumption DEF IInv, TypeOK, Steps, b
<1>1. Alone(b)
  BY <1>0, StepsAlone DEF Step
<1>2. /\ refs' = refs
      /\ pc[b] \in {"snapshot", "publish", "tell"}
      /\ pc'[b] \in {"snapshot", "publish", "idle"}
      /\ pc[b] # "tell" => ok'[b] = ok[b]
  BY <1>0 DEF Snapshot, Publish, Tell, Return, Done, call, radio
<1>4. /\ host.at \in {"attaching", "detaching"}
      /\ pc[b] = "tell" => At("detaching")
  BY <1>2 DEF HInv, HostTypes, HostPlaces, At, Entering, Starting, Stopping
<1>5. HostPlaces'
  BY <1>0, <1>1, <1>2, <1>4
     DEF HInv, HostPlaces, At, b, Alone, Starting, Stopping
<1>6. HostReference'
  BY <1>2, <1>4 DEF HInv, HostReference, At, b, Held, Ref, Starting
<1>7. Warned'
  BY <1>0, <1>1, <1>2
     DEF HInv, Warned, Fresh, At, Alone, Ref
<1> QED
  BY <1>2, <1>5, <1>6, <1>7 DEF Ref

\* While it starts the radio.
LEMMA AttachingMoves ==
    ASSUME IInv, HInv,
           UNCHANGED <<host, pass, hooked, attached, failed, reference>>,
           \/ AcquireReference(b) \/ StartChip(b) \/ Abandon(b)
           \/ StartService(b) \/ Commit(b)
    PROVE  /\ HostPlaces' /\ HostReference' /\ Warned'
           /\ Ref' = Ref \/ host.at \in {"attaching", "detaching"}
<1>0. /\ pc \in [Task -> Steps] /\ ok \in [Task -> BOOLEAN]
      /\ job \in [Task -> [kind : Kinds, client : Client]]
      /\ refs \in [Client -> 0..MaxReferences] /\ "bluetooth" \in Client
      /\ MaxReferences \in Nat \ {0}
      /\ b \in Task
  BY HostAssumption, RadioAssumption DEF IInv, TypeOK, Steps, b, Client
<1>1. Alone(b)
  BY <1>0, StepsAlone DEF Step
<1>2. pc[b] \in {"acquire"} \union Starting
  BY DEF AcquireReference, StartChip, Abandon, StartService, Commit, Starting
<1>4. /\ At("attaching") /\ Ref = 0 /\ ~attached
      /\ job[b].kind = "acquire" /\ job[b].client = "bluetooth"
  BY <1>2 DEF HInv, HostTypes, HostPlaces, HostReference, At, Entering,
     Starting, Stopping
<1>5. \/ /\ pc'[b] \in Starting /\ Ref' = Ref /\ job'[b] = job[b]
      \/ /\ pc'[b] = "snapshot"
         /\ \/ ok'[b] /\ Ref' = 1
               /\ (state = "READY" \/ pc[b] \in Transition)
            \/ ~ok'[b] /\ Ref' = 0
  <2>1. CASE AcquireReference(b)
    BY <2>1, <1>0, <1>4 DEF AcquireReference, Done, Goto, radio, Ref, Starting
  <2>2. CASE StartChip(b) \/ StartService(b)
    BY <2>2, <1>0, <1>4 DEF StartChip, StartService, Goto, radio, Ref, Starting
  <2>3. CASE Abandon(b) \/ Commit(b)
    BY <2>3, <1>0, <1>4 DEF Abandon, Commit, Done, Ref, Transition
  <2> QED
    BY <2>1, <2>2, <2>3
<1>6. HostPlaces'
  BY <1>0, <1>1, <1>4, <1>5
     DEF HInv, HostPlaces, At, b, Alone, Starting
<1>7. HostReference'
  BY <1>0, <1>4, <1>5
     DEF HInv, HostReference, At, b, Held, Ref, Starting
<1>8. Warned'
  <2>1. CASE Ref' = 0
    BY <2>1 DEF Warned, Fresh
  <2>2. CASE Ref' # 0
    <3>1. \A u \in Task : pc[u] \notin {"lock", "halt"}
      BY <2>2, <1>0, <1>2, <1>4, <1>5
         DEF IInv, Settled, Transition, Starting
    <3>2. \A u \in Task : pc'[u] \notin {"lock", "halt"}
      BY <3>1, <2>2, <1>0, <1>1, <1>5, <1>4 DEF Alone
    <3> QED
      BY <3>2 DEF Warned
  <2> QED
    BY <2>1, <2>2
<1> QED
  BY <1>4, <1>6, <1>7, <1>8 DEF At

\* While it stops the radio: the reference may go, and is not counted on.
LEMMA DetachingMoves ==
    ASSUME IInv, HInv,
           UNCHANGED <<host, pass, hooked, attached, failed, reference>>,
           \/ TryStop(b) \/ Bounce(b) \/ Warn(b) \/ LockToStop(b)
           \/ StopChip(b) \/ Stopped(b) \/ Broken(b)
    PROVE  /\ HostPlaces' /\ HostReference' /\ Warned'
           /\ Ref' = Ref \/ host.at \in {"attaching", "detaching"}
<1>0. /\ pc \in [Task -> Steps] /\ ok \in [Task -> BOOLEAN]
      /\ job \in [Task -> [kind : Kinds, client : Client]]
      /\ refs \in [Client -> 0..MaxReferences] /\ "bluetooth" \in Client
      /\ b \in Task
  BY HostAssumption DEF IInv, TypeOK, Steps, b, Client
<1>1. Alone(b)
  BY <1>0, StepsAlone DEF Step
<1>2. pc[b] \in Stopping
  BY DEF TryStop, Bounce, Warn, LockToStop, StopChip, Stopped, Broken, Stopping
<1>4. /\ At("detaching")
      /\ job[b].kind = "release" /\ job[b].client = "bluetooth"
  BY <1>2 DEF HInv, HostTypes, HostPlaces, At, Entering, Starting, Stopping
<1>5. /\ \/ pc'[b] \in Stopping /\ job'[b] = job[b]
         \/ pc'[b] = "snapshot"
      /\ Ref' \in {Ref, 0}
  <2>1. CASE TryStop(b) \/ Bounce(b) \/ Warn(b) \/ LockToStop(b)
    BY <2>1, <1>0 DEF TryStop, Bounce, Warn, LockToStop, Goto, Done, radio, Ref,
       Stopping
  <2>2. CASE StopChip(b)
    BY <2>2, <1>0 DEF StopChip, Goto, radio, Ref, Stopping
  <2>3. CASE Stopped(b) \/ Broken(b)
    BY <2>3, <1>0, <1>4 DEF Stopped, Broken, Done, Ref, DropReference
  <2> QED
    BY <2>1, <2>2, <2>3
<1>6. HostPlaces'
  BY <1>0, <1>1, <1>4, <1>5
     DEF HInv, HostPlaces, At, b, Alone, Stopping
<1>7. HostReference'
  BY <1>0, <1>4, <1>5 DEF HInv, HostReference, At, b, Held, Ref
<1>8. Warned'
  BY <1>4 DEF Warned, Fresh, At
<1> QED
  BY <1>4, <1>6, <1>7, <1>8 DEF At

-----------------------------------------------------------------------------
(* The steps of a call, of a pass and of the radio, one by one. *)

\* Whoever warns with a fresh reference under it tells the host: a release of
\* Wi-Fi's would not stop the radio, and the host itself is not stopping.
LEMMA WarnHostKeeps ==
    ASSUME IInv, HInv, NEW t \in Task, WarnHost(t)
    PROVE  HInv'
<1>0. /\ Warn(t) /\ pc[t] = "warn" /\ b \in Task
      /\ UNCHANGED <<transition, verdict, target, started, stopping, attached,
                     prepared, on, base, live, hooked, host, pass, strayed>>
  BY HostAssumption DEF WarnHost, Warn, mailbox, btstack, b
<1>1. /\ pc'[t] = "lock" /\ refs' = refs
      /\ \A u \in Task \ {t} : pc'[u] = pc[u]
  BY <1>0 DEF IInv, TypeOK, Warn, Goto, radio
<1>2. /\ failed' \in BOOLEAN
      /\ failed => failed'
      /\ reference' \in [Profile -> {"none", "current", "stale"}]
      /\ Held' = Held
      /\ reference' # reference => ~stopping
      /\ failed' # failed => ~stopping
  BY DEF WarnHost, HInv, HostTypes, Held
<1>3. Fresh => failed'
  <2> SUFFICES ASSUME Fresh PROVE failed'
    OBVIOUS
  <2>1. hooked /\ ~stopping /\ Ref # 0
    BY DEF HInv, HostPhases, HostReference, Fresh
  <2>2. job[t].kind # "release"
    <3>1. job[t].kind = "release" => refs[Other(job[t].client)] = 0
      BY <1>0 DEF IInv, Phases, Stopping
    <3>2. t = b => job[t].kind = "release" /\ At("detaching")
      BY <1>0 DEF HInv, HostTypes, HostPlaces, At, Entering, Starting, Stopping
    <3>3. t # b => job[t].client = "wifi"
      BY DEF HInv, HostPlaces
    <3> QED
      BY <3>1, <3>2, <3>3, <2>1 DEF Other, Ref, Fresh
  <2>3. job[t].kind = "restart"
    BY <1>0, <2>2 DEF IInv, Phases, Stopping
  <2> QED
    BY <2>1, <2>3 DEF WarnHost, RestartTold, Ref
<1>4. \A u \in Task : pass'[u] # "none" => pc'[u] = "pass"
  BY <1>0, <1>1 DEF HInv, HostPlaces
<1>5. /\ HostPlaces' /\ HostReference' /\ Warned'
      /\ Ref' = Ref \/ host.at \in {"attaching", "detaching"}
  <2>1. CASE t # b
    <3>1. UNCHANGED <<host, hooked, attached>> /\ t \in Task \ {b}
      BY <2>1, <1>0
    <3>2. \/ WifiCall(t) \/ RadioStep(t) \/ Warn(t) \/ StopChip(t)
          \/ \E good \in BOOLEAN : Pass(t, good)
      BY <1>0
    <3>3. (failed => failed') /\ (Warn(t) /\ Fresh => failed') /\ Held' = Held
      BY <1>2, <1>3
    <3> QED
      BY <3>1, <3>2, <3>3, <1>4, WifiMoves
  <2>2. CASE t = b
    <3>1. stopping
      BY <2>2, <1>0 DEF HInv, HostTypes, HostPlaces, HostPhases, At, Entering,
         Starting, Stopping
    <3> QED
      BY <3>1, <2>2, <1>0, <1>2, DetachingMoves
  <2> QED
    BY <2>1, <2>2
<1>6. pass' \in [Task -> {"none", "handler", "ran", "refused"}]
  BY <1>0 DEF HInv, HostTypes
<1>7. /\ UNCHANGED <<verdict, target, started, stopping, attached>>
      /\ UNCHANGED <<prepared, on, live, hooked, host, strayed>>
      /\ base' = base /\ transition' \in {transition, "NONE"}
      /\ pass' = pass
  BY <1>0
<1> QED
  BY <1>2, <1>5, <1>6, <1>7, HostRests

\* BTstack is orphaned under a host that was told, or that gives it up.
LEMMA HaltChipKeeps ==
    ASSUME IInv, HInv, NEW t \in Task, HaltChip(t)
    PROVE  HInv'
<1>0. /\ StopChip(t) /\ pc[t] = "halt" /\ b \in Task
      /\ UNCHANGED <<transition, verdict, target, started, failed, stopping>>
      /\ UNCHANGED <<attached, prepared, on, reference, live, hooked, host>>
      /\ UNCHANGED <<pass, strayed>>
      /\ \/ base' = base
         \/ base = "up" /\ base' = "orphan"
  BY HostAssumption DEF HaltChip, StopChip, mailbox, flags, b
<1>1. Held' = Held
  BY <1>0 DEF Held
<1>2. Fresh => failed'
  BY <1>0 DEF HInv, Warned
<1>3. \A u \in Task : pass'[u] # "none" => pc'[u] = "pass"
  BY <1>0 DEF HInv, HostPlaces, StopChip, Goto, IInv, TypeOK
<1>4. /\ HostPlaces' /\ HostReference' /\ Warned'
      /\ Ref' = Ref \/ host.at \in {"attaching", "detaching"}
  <2>1. CASE t # b
    BY <2>1, <1>0, <1>1, <1>3, WifiMoves DEF Warn
  <2>2. CASE t = b
    BY <2>2, <1>0, DetachingMoves
  <2> QED
    BY <2>1, <2>2
<1>5. /\ failed' \in BOOLEAN
      /\ reference' \in [Profile -> {"none", "current", "stale"}]
      /\ pass' \in [Task -> {"none", "handler", "ran", "refused"}]
  BY <1>0 DEF HInv, HostTypes
<1> QED
  BY <1>0, <1>1, <1>2, <1>4, <1>5, HostRests

\* Every other step of the radio, and a call of Wi-Fi's.
LEMMA RadioKeeps ==
    ASSUME IInv, HInv, NEW t \in Task,
           \/ RadioStep(t)
           \/ t # b /\ WifiCall(t)
    PROVE  HInv'
<1>0. /\ UNCHANGED <<transition, verdict, target, started, failed, stopping>>
      /\ UNCHANGED <<attached, prepared, on, reference, base, live, hooked>>
      /\ UNCHANGED <<host, pass, strayed>>
      /\ b \in Task
  BY HostAssumption DEF RadioStep, WifiCall, hostVars, b
<1>1. Held' = Held
  BY <1>0 DEF Held
<1>2. Alone(t) /\ pc \in [Task -> Steps]
  <2>1. "wifi" \in Client
    BY DEF Client
  <2> QED
    BY <2>1, StepsAlone DEF RadioStep, WifiCall, Begin, Step, IInv, TypeOK,
       Steps
<1>3. \A u \in Task : pass'[u] # "none" => pc'[u] = "pass"
  <2>1. pc[t] # "pass" \/ pc'[t] = pc[t]
    BY <1>2 DEF RadioStep, Snapshot, Publish, AcquireReference,
       StartChip, Abandon, StartService, Commit, TryStop, Bounce, Tell,
       LockToStop, Stopped, Broken, EnterService, TakeStack, Admit, Verify,
       Unwind, LetGo, WifiCall, Acquire, Release, Enter, Restart, Leave,
       BeginOperation, FinishOperation
  <2> QED
    BY <1>0, <1>2, <2>1 DEF HInv, HostPlaces, Alone
<1>4. /\ HostPlaces' /\ HostReference' /\ Warned'
      /\ Ref' = Ref \/ host.at \in {"attaching", "detaching"}
  <2>1. CASE t # b
    <3>1. ~Warn(t)
      BY <1>2 DEF RadioStep, Snapshot, Publish, AcquireReference,
         StartChip, Abandon, StartService, Commit, TryStop, Bounce, Tell,
         LockToStop, Stopped, Broken, EnterService, TakeStack, Admit, Verify,
         Unwind, LetGo, WifiCall, Acquire, Release, Enter, Restart, Leave,
         BeginOperation, FinishOperation, Warn
    <3> QED
      BY <2>1, <3>1, <1>0, <1>1, <1>3, WifiMoves
  <2>2. CASE t = b
    BY <2>2, <1>0, <1>3, EnteringMoves, EndingMoves, AttachingMoves,
       DetachingMoves DEF RadioStep
  <2> QED
    BY <2>1, <2>2
<1>5. /\ failed' \in BOOLEAN
      /\ reference' \in [Profile -> {"none", "current", "stale"}]
      /\ pass' \in [Task -> {"none", "handler", "ran", "refused"}]
  BY <1>0 DEF HInv, HostTypes
<1> QED
  BY <1>0, <1>1, <1>4, <1>5, HostRests

\* A pass: the driver, and a handler that only clears or looks.
LEMMA PassMoves ==
    ASSUME IInv, HInv, NEW t \in Task,
           UNCHANGED <<host, hooked, attached, failed, reference>>,
           \A u \in Task : pass'[u] # "none" => pc'[u] = "pass",
           \E good \in BOOLEAN : Pass(t, good)
    PROVE  HostPlaces' /\ HostReference' /\ Warned' /\ Ref' = Ref
<1>1. CASE t # b
  <2>1. ~Warn(t)
    BY DEF Pass, Warn
  <2>2. Held' = Held /\ t \in Task \ {b}
    BY <1>1 DEF Held
  <2> QED
    BY <2>1, <2>2, WifiMoves
<1>2. CASE t = b
  BY <1>2, EnteringMoves
<1> QED
  BY <1>1, <1>2

LEMMA ServicePassKeeps ==
    ASSUME IInv, HInv, NEW t \in Task,
           PassDriver(t) \/ Handler(t) \/ ClearTransition(t)
    PROVE  HInv'
<1>0. /\ UNCHANGED <<verdict, target, started, stopping, attached>>
      /\ UNCHANGED <<prepared, on, live, hooked, host, strayed>>
      /\ UNCHANGED <<failed, reference, base>>
      /\ b \in Task
      /\ failed \in BOOLEAN
      /\ reference \in [Profile -> {"none", "current", "stale"}]
      /\ pass \in [Task -> {"none", "handler", "ran", "refused"}]
  BY HostAssumption DEF PassDriver, Handler, ClearTransition, mailbox, flags,
     btstack, b, HInv, HostTypes
<1>1. Held' = Held
  BY <1>0 DEF Held
<1>2. /\ pc[t] = "pass"
      /\ \/ UNCHANGED vars /\ pass' = [pass EXCEPT ![t] = "handler"]
            /\ transition' = transition /\ pass[t] = "none"
         \/ /\ \E good \in BOOLEAN : Pass(t, good)
            /\ \/ /\ pass[t] \in {"none", "handler"}
                  /\ transition' = transition
               \/ transition' = "NONE"
            /\ pass' = [pass EXCEPT ![t] = "none"]
  <2>1. CASE PassDriver(t)
    <3>1. pass[t] = "none" => pass = [pass EXCEPT ![t] = "none"]
      BY <1>0
    <3> QED
      BY <2>1, <3>1 DEF PassDriver, QuietRadio, PassTo, mailbox
  <2>2. CASE Handler(t)
    BY <2>2 DEF Handler, PassTo, mailbox, Pass
  <2>3. CASE ClearTransition(t)
    <3>1. (pass[t] = "ran") \in BOOLEAN
      OBVIOUS
    <3> QED
      BY <2>3, <3>1 DEF ClearTransition, PassTo, Pass
  <2> QED
    BY <2>1, <2>2, <2>3
<1>3. Alone(t)
  BY <1>2, StepsAlone DEF Step, vars, Alone
<1>4. \A u \in Task : pass'[u] # "none" => pc'[u] = "pass"
  BY <1>0, <1>2, <1>3 DEF HInv, HostPlaces, Alone, vars
<1>5. /\ HostPlaces' /\ HostReference' /\ Warned'
      /\ Ref' = Ref
  <2>1. CASE UNCHANGED vars
    <3>1. /\ HostPlaces'
      BY <2>1, <1>0, <1>4 DEF HInv, HostPlaces, vars, At, b
    <3>2. HostReference' /\ Warned' /\ Ref' = Ref
      BY <2>1, <1>0, <1>1 DEF HInv, HostReference, Warned, Fresh, Ref, vars, At,
         b
    <3> QED
      BY <3>1, <3>2
  <2>2. CASE \E good \in BOOLEAN : Pass(t, good)
    BY <2>2, <1>0, <1>4, PassMoves
  <2> QED
    BY <1>2, <2>1, <2>2
<1>6. /\ pass' \in [Task -> {"none", "handler", "ran", "refused"}]
      /\ transition' \in {transition, "NONE"}
      /\ pass'[b] \in Ran => pass[b] \in Ran
      /\ pass[b] \in Ran => pass'[b] \in Ran \/ transition' = "NONE"
  BY <1>0, <1>2 DEF Ran
<1> QED
  BY <1>0, <1>1, <1>5, <1>6, HostRests

\* A transition: what it leaves behind, as far as the parts above care.
LEMMA RunTransitionKeeps ==
    ASSUME IInv, HInv, NEW t \in Task, RunTransition(t)
    PROVE  HInv'
<1>0. /\ UNCHANGED <<transition, target, started, failed, stopping, attached>>
      /\ UNCHANGED <<reference, hooked, host>>
      /\ UNCHANGED <<pc, job, ok, refs>>
      /\ pass[t] = "handler" /\ transition # "NONE"
      /\ strayed' = (strayed \/ t # b)
      /\ b \in Task /\ HostTypes
  BY HostAssumption DEF RunTransition, QuietRadio, vars, b, HInv
<1>1. PICK good \in BOOLEAN :
         /\ CASE transition = "START" -> StartHost(good)
              [] transition = "ADD" -> AddProfile(good)
              [] transition = "REMOVE" -> RemoveProfile(good)
              [] transition = "STOP" -> StopHost(good)
         /\ verdict' = IF good THEN "OK" ELSE "BAD"
         /\ PassTo(t, IF good THEN "ran" ELSE "refused")
  BY DEF RunTransition
<1>2. /\ Held' = Held /\ Ref' = Ref
      /\ verdict' \in {"OK", "BAD"}
      /\ pass' = [pass EXCEPT ![t] = IF good THEN "ran" ELSE "refused"]
      /\ pass' \in [Task -> {"none", "handler", "ran", "refused"}]
  BY <1>0, <1>1 DEF Held, Ref, PassTo, HostTypes
<1>3. transition \in {"START", "ADD", "REMOVE", "STOP"}
  BY <1>0 DEF HostTypes
<1>4. ASSUME transition = "START" PROVE StartHost(good)
  BY <1>1, <1>4
<1>5. ASSUME transition = "ADD" PROVE AddProfile(good)
  BY <1>1, <1>5
<1>6. ASSUME transition = "REMOVE" PROVE RemoveProfile(good)
  BY <1>1, <1>6
<1>7. ASSUME transition = "STOP" PROVE StopHost(good)
  BY <1>1, <1>7
<1>8. /\ on' \in [Profile -> BOOLEAN] /\ prepared' \in BOOLEAN
      /\ live' \subseteq Profile /\ base' \in {"down", "up", "orphan"}
  BY <1>0, <1>3, <1>4, <1>5, <1>6, <1>7
     DEF StartHost, AddProfile, RemoveProfile, StopHost, HostTypes
<1>9. HostTypes'
  BY <1>0, <1>2, <1>8 DEF HostTypes
<1>10. /\ HostPlaces' /\ HostPhases' /\ HostReference' /\ Warned'
  <2>1. HostPlaces'
    BY <1>0, <1>2 DEF HInv, HostPlaces, At, b
  <2>2. HostPhases'
    BY <1>0, <1>2 DEF HInv, HostPhases, At
  <2>3. HostReference' /\ Warned'
    BY <1>0, <1>2 DEF HInv, HostReference, Warned, Fresh, At, b
  <2> QED
    BY <2>1, <2>2, <2>3
<1>11. transition = "REMOVE" => target \notin Held
  BY DEF HInv, HostPhases
<1>12. transition # "REMOVE" =>
         /\ ~At("idle") /\ target \notin Held /\ (host.first <=> Held = {})
         /\ transition =
               IF host.kind = "acquire"
               THEN IF host.first THEN "START" ELSE "ADD"
               ELSE IF host.first THEN "STOP" ELSE "REMOVE"
  BY <1>0, <1>3 DEF HInv, HostPhases
<1>13. Backed'
  <2>1. Held # {} /\ ~failed => base' = "up" /\ Held \subseteq live'
    BY <1>0, <1>3, <1>4, <1>5, <1>6, <1>7, <1>11, <1>12
       DEF HInv, Backed, StartHost, AddProfile, RemoveProfile, StopHost
  <2>2. ASSUME host.at \in {"serving", "judge"}, host.kind = "acquire",
               verdict' = "OK", ~failed
        PROVE  base' = "up" /\ target \in live'
    <3>1. good /\ ~At("idle")
      BY <1>1, <2>2 DEF At
    <3>2. /\ ~(transition \in {"REMOVE", "STOP"})
          /\ transition = "ADD" => Held # {}
      BY <1>0, <1>3, <2>2, <3>1 DEF HInv, HostPhases
    <3> QED
      BY <1>3, <1>4, <1>5, <2>1, <2>2, <3>1, <3>2 DEF StartHost, AddProfile
  <2> QED
    BY <2>1, <2>2, <1>0, <1>2 DEF HInv, Backed
<1>14. Rolled'
  <2> SUFFICES ASSUME ~strayed' PROVE Rolled'
    BY DEF Rolled
  <2>1. t = b /\ ~strayed
    BY <1>0
  <2>2. host.at = "serving" /\ verdict = "NONE"
    <3>1. pc[b] = "pass"
      BY <2>1, <1>0 DEF HInv, HostPlaces
    <3>2. ~At("idle")
      BY <2>1, <1>0 DEF HInv, Rolled
    <3>3. host.at = "serving"
      BY <3>1, <3>2, <1>0 DEF HInv, HostPlaces, HostTypes, At, Starting,
         Stopping
    <3> QED
      BY <3>3, <2>1, <1>0 DEF HInv, Rolled, HostTypes
  <2>3. /\ Has(Before) /\ target \notin Held /\ (host.first <=> Held = {})
        /\ host.kind \in {"acquire", "release"}
        /\ transition =
              IF host.kind = "acquire"
              THEN IF host.first THEN "START" ELSE "ADD"
              ELSE IF host.first THEN "STOP" ELSE "REMOVE"
    BY <2>1, <2>2, <1>0 DEF HInv, Rolled, HostPhases, At
  <2>4. Before' = Before /\ After' = After
    BY <1>0, <1>2 DEF Before, After
  <2>5. IF good THEN Has(After)'
                ELSE Has(Before)' /\ host.kind = "acquire"
    <3>1. CASE transition = "START"
      <4>1. Held = {} /\ Before = {} /\ After = {target}
            /\ host.kind = "acquire"
        BY <3>1, <2>3 DEF Before, After
      <4> QED
        BY <3>1, <4>1, <2>3, <2>4, <1>0, <1>4 DEF StartHost, Has, HostTypes
    <3>2. CASE transition = "ADD"
      <4>1. /\ Held # {} /\ Before = Held /\ After = Held \union {target}
            /\ host.kind = "acquire"
        BY <3>2, <2>3 DEF Before, After
      <4> QED
        BY <3>2, <4>1, <2>3, <2>4, <1>0, <1>5 DEF AddProfile, Has, HostTypes
    <3>3. CASE transition = "REMOVE"
      <4>1. /\ Held # {} /\ After = Held /\ Before = Held \union {target}
        BY <3>3, <2>3 DEF Before, After
      <4> QED
        BY <3>3, <4>1, <2>3, <2>4, <1>0, <1>6 DEF RemoveProfile, Has, HostTypes
    <3>4. CASE transition = "STOP"
      <4>1. /\ Held = {} /\ After = {} /\ Before = {target}
        BY <3>4, <2>3 DEF Before, After
      <4> QED
        BY <3>4, <4>1, <2>3, <2>4, <1>0, <1>7 DEF StopHost, Has, HostTypes
    <3> QED
      BY <1>3, <3>1, <3>2, <3>3, <3>4
  <2>6. /\ good => verdict' = "OK"
        /\ ~good => verdict' = "BAD"
        /\ pass'[b] \in {"ran", "refused"}
        /\ host' = host
    BY <1>0, <1>1, <1>2, <2>1
  <2> QED
    BY <2>2, <2>5, <2>6 DEF Rolled, At, b
<1> QED
  BY <1>9, <1>10, <1>13, <1>14 DEF HInv

-----------------------------------------------------------------------------
(* The steps of the host's own call. *)

LEMMA AcquireHostKeeps ==
    ASSUME IInv, HInv, NEW p \in Profile, AcquireHost(p)
    PROVE  HInv'
<1>0. /\ UNCHANGED vars /\ pc[b] = "idle" /\ At("idle")
      /\ reference[p] = "none" /\ ~failed /\ transition = "NONE"
      /\ UNCHANGED <<verdict, started, failed, stopping, attached, prepared,
                     on, reference, base, live, hooked, pass, strayed>>
      /\ target' = p
      /\ transition' = IF Held = {} THEN "START" ELSE "ADD"
      /\ host' = [at |-> IF Held = {} THEN "attach" ELSE "execute",
                  kind |-> "acquire", first |-> Held = {}, good |-> FALSE]
  BY DEF AcquireHost, QuietRadio, flags, btstack
<1>1. /\ host'.at = IF Held = {} THEN "attach" ELSE "execute"
      /\ host'.kind = "acquire" /\ (host'.first <=> Held = {})
      /\ host' \in [at: {"idle", "attach", "attaching", "undo", "execute",
                         "serving", "judge", "detaching"},
                    kind: {"none", "acquire", "release"},
                    first: BOOLEAN, good: BOOLEAN]
  <2>1. (Held = {}) \in BOOLEAN
    OBVIOUS
  <2> QED
    BY <1>0, <2>1
<1>2. /\ Held' = Held /\ Ref' = Ref /\ p \notin Held
      /\ UNCHANGED <<pc, job, ok, pass>>
  BY <1>0 DEF Held, Ref, vars
<1>3. HostTypes'
  BY <1>0, <1>1 DEF HInv, HostTypes
<1>4. HostPlaces'
  BY <1>0, <1>1, <1>2 DEF HInv, HostPlaces, At, b
<1>5. HostPhases'
  BY <1>0, <1>1, <1>2 DEF HInv, HostPhases, At
<1>6. HostReference' /\ Warned'
  BY <1>0, <1>1, <1>2 DEF HInv, HostReference, Warned, Fresh, At, b
<1>7. Backed'
  BY <1>0, <1>1, <1>2 DEF HInv, Backed
<1>8. Rolled'
  <2>1. Has(Held)' <=> Has(Held)
    BY <1>0, <1>2 DEF Has
  <2>2. Before' = Held
    BY <1>1, <1>2 DEF Before
  <2> QED
    BY <2>1, <2>2, <1>0, <1>1, <1>2 DEF HInv, Rolled, Has, At
<1> QED
  BY <1>3, <1>4, <1>5, <1>6, <1>7, <1>8 DEF HInv

LEMMA ReleaseHostKeeps ==
    ASSUME IInv, HInv, NEW p \in Profile, ReleaseHost(p)
    PROVE  HInv'
<1>0. /\ UNCHANGED vars /\ pc[b] = "idle" /\ At("idle")
      /\ reference[p] # "none"
      /\ UNCHANGED <<verdict, started, failed, stopping, attached, prepared,
                     on, base, live, hooked, pass, strayed>>
      /\ target' = p
      /\ reference' = [reference EXCEPT ![p] = "none"]
      /\ transition' = IF Held = {p} THEN "STOP" ELSE "REMOVE"
      /\ host' = [at |-> "execute", kind |-> "release", first |-> Held = {p},
                  good |-> FALSE]
  BY DEF ReleaseHost, QuietRadio, flags, btstack
<1>1. /\ host'.at = "execute"
      /\ host'.kind = "release" /\ (host'.first <=> Held = {p})
      /\ host' \in [at: {"idle", "attach", "attaching", "undo", "execute",
                         "serving", "judge", "detaching"},
                    kind: {"none", "acquire", "release"},
                    first: BOOLEAN, good: BOOLEAN]
  <2>1. (Held = {p}) \in BOOLEAN
    OBVIOUS
  <2> QED
    BY <1>0, <2>1
<1>2. /\ Held' = Held \ {p} /\ Ref' = Ref /\ p \in Held
      /\ UNCHANGED <<pc, job, ok, pass>>
  BY <1>0 DEF Held, Ref, vars, HInv, HostTypes
<1>h. (Held = {p}) <=> (Held' = {})
  BY <1>2
<1>3. HostTypes'
  BY <1>0, <1>1 DEF HInv, HostTypes
<1>4. HostPlaces'
  BY <1>0, <1>1, <1>2 DEF HInv, HostPlaces, At, b
<1>5. HostPhases'
  BY <1>0, <1>1, <1>2, <1>h DEF HInv, HostPhases, At
<1>6. HostReference' /\ Warned'
  BY <1>0, <1>1, <1>2 DEF HInv, HostReference, Warned, Fresh, At, b
<1>7. Backed'
  BY <1>0, <1>1, <1>2 DEF HInv, Backed
<1>8. Rolled'
  <2>1. Before' = Held
    BY <1>0, <1>1, <1>2 DEF Before
  <2>2. Has(Before)' <=> Has(Held)
    BY <1>0, <2>1 DEF Has
  <2> QED
    BY <2>2, <1>0, <1>1, <1>2 DEF HInv, Rolled, At
<1> QED
  BY <1>3, <1>4, <1>5, <1>6, <1>7, <1>8 DEF HInv

LEMMA PollKeeps ==
    ASSUME IInv, HInv, Poll
    PROVE  HInv'
<1>0. /\ UNCHANGED <<transition, verdict, target, started, failed, stopping>>
      /\ UNCHANGED <<attached, prepared, on, reference, base, live, hooked>>
      /\ UNCHANGED <<host, pass, strayed>>
      /\ At("idle") /\ pc[b] = "idle" /\ b \in Task
      /\ Leave(b) \/ Enter(b, "bluetooth")
  BY HostAssumption DEF Poll, hostVars, b
<1>1. Held' = Held
  BY <1>0 DEF Held
<1>2. /\ pc'[b] \in {"idle", "letgo", "enter"}
      /\ \A u \in Task \ {b} : pc'[u] = pc[u] /\ job'[u] = job[u]
      /\ Ref' = Ref
  BY <1>0 DEF IInv, TypeOK, Leave, Enter, Call, Return, radio, Ref
<1>3. HostPlaces'
  BY <1>0, <1>2 DEF HInv, HostPlaces, At, b, Entering
<1>4. HostReference' /\ Warned'
  BY <1>0, <1>1, <1>2 DEF HInv, HostReference, Warned, Fresh, At
<1>5. /\ failed' \in BOOLEAN
      /\ reference' \in [Profile -> {"none", "current", "stale"}]
      /\ pass' \in [Task -> {"none", "handler", "ran", "refused"}]
  BY <1>0 DEF HInv, HostTypes
<1> QED
  BY <1>0, <1>1, <1>2, <1>3, <1>4, <1>5, HostRests

\* The call of the host moves on, and keeps what it is.
LEMMA HostGoes ==
    ASSUME HostTypes, NEW where, HostTo(where),
           where \in {"idle", "attach", "attaching", "undo", "execute",
                     "serving", "judge", "detaching"}
    PROVE  /\ host'.at = where /\ host'.kind = host.kind
           /\ (host'.first <=> host.first) /\ (host'.good <=> host.good)
           /\ host' \in [at: {"idle", "attach", "attaching", "undo", "execute",
                              "serving", "judge", "detaching"},
                         kind: {"none", "acquire", "release"},
                         first: BOOLEAN, good: BOOLEAN]
BY DEF HostTypes, HostTo

LEMMA AttachKeeps ==
    ASSUME IInv, HInv, Attach
    PROVE  HInv'
<1>0. /\ At("attach") /\ b \in Task /\ pc[b] = "idle"
      /\ UNCHANGED <<transition, verdict, target, started, failed, stopping>>
      /\ UNCHANGED <<attached, prepared, on, reference, base, live>>
      /\ UNCHANGED <<pass, strayed>>
      /\ Held' = Held
  BY HostAssumption DEF Attach, mailbox, flags, btstack, b, Held, HInv,
     HostPlaces, At
<1>1. \/ /\ UNCHANGED vars /\ hooked' = hooked /\ Ref # 0 /\ Ref' = Ref
         /\ HostTo("undo")
      \/ /\ hooked' /\ Ref = 0 /\ Ref' = 0 /\ HostTo("attaching")
         /\ hooked' \in BOOLEAN
         /\ \A u \in Task \ {b} : pc'[u] = pc[u] /\ job'[u] = job[u]
         /\ \/ pc'[b] = "idle" /\ ~ok'[b]
            \/ /\ pc'[b] = "acquire" /\ job'[b].kind = "acquire"
               /\ job'[b].client = "bluetooth"
  <2>1. CASE Ref # 0
    BY <2>1, <1>0 DEF Attach, QuietRadio, Ref, vars
  <2>2. CASE Ref = 0
    <3>1. hooked' = TRUE /\ Acquire(b, "bluetooth") /\ HostTo("attaching")
      BY <2>2 DEF Attach, Ref
    <3>2. /\ Ref' = 0
          /\ \A u \in Task \ {b} : pc'[u] = pc[u] /\ job'[u] = job[u]
          /\ \/ pc'[b] = "idle" /\ ~ok'[b]
             \/ /\ pc'[b] = "acquire" /\ job'[b].kind = "acquire"
                /\ job'[b].client = "bluetooth"
      BY <3>1, <2>2, <1>0 DEF Acquire, Return, Call, radio, Ref, IInv, TypeOK
    <3> QED
      BY <3>1, <3>2, <2>2
  <2> QED
    BY <2>1, <2>2
<1>2. /\ host'.at \in {"undo", "attaching"} /\ host'.kind = host.kind
      /\ (host'.first <=> host.first)
      /\ host' \in [at: {"idle", "attach", "attaching", "undo", "execute",
                         "serving", "judge", "detaching"},
                    kind: {"none", "acquire", "release"},
                    first: BOOLEAN, good: BOOLEAN]
      /\ host'.at = "undo" <=> HostTo("undo")
      /\ host'.at = "attaching" <=> HostTo("attaching")
  BY <1>1, HostGoes DEF HInv
<1>3. HostTypes'
  BY <1>0, <1>1, <1>2 DEF HInv, HostTypes
<1>4. HostPlaces'
  BY <1>0, <1>1, <1>2 DEF HInv, HostPlaces, At, b, vars, Starting
<1>5. HostPhases'
  BY <1>0, <1>2 DEF HInv, HostPhases, At
<1>6. HostReference'
  BY <1>0, <1>1, <1>2 DEF HInv, HostReference, At, b, Starting
<1>7. Warned'
  BY <1>0, <1>1, <1>2 DEF HInv, Warned, Fresh, At, HostReference
<1>8. Backed'
  BY <1>0, <1>2 DEF HInv, Backed, At
<1>9. Rolled'
  <2>1. Has({})' <=> Has({})
    BY <1>0 DEF Has
  <2> QED
    BY <2>1, <1>0, <1>1, <1>2 DEF HInv, Rolled, At
<1> QED
  BY <1>3, <1>4, <1>5, <1>6, <1>7, <1>8, <1>9 DEF HInv

LEMMA AttachedKeeps ==
    ASSUME IInv, HInv, Attached
    PROVE  HInv'
<1>0. /\ At("attaching") /\ b \in Task /\ pc[b] = "idle" /\ UNCHANGED vars
      /\ UNCHANGED <<transition, verdict, target, started, failed, stopping>>
      /\ UNCHANGED <<prepared, on, reference, base, live>>
      /\ UNCHANGED <<pass, strayed>>
      /\ Held' = Held /\ Ref' = Ref
      /\ UNCHANGED <<pc, job, ok>>
  BY HostAssumption DEF Attached, mailbox, btstack, b, Held, Ref, QuietRadio,
     vars
<1>1. /\ ok[b] <=> Ref = 1
      /\ Ref \in {0, 1} /\ ok[b] \in BOOLEAN
  BY <1>0 DEF HInv, HostReference, IInv, TypeOK, Starting
<1>2. /\ hooked' \in BOOLEAN /\ attached' \in BOOLEAN
      /\ hooked' <=> Ref = 1
      /\ attached' <=> Ref = 1
      /\ HostTo(IF ok[b] THEN "execute" ELSE "undo")
  BY <1>0, <1>1 DEF Attached, Ref
<1>3. /\ host'.at = IF Ref = 1 THEN "execute" ELSE "undo"
      /\ host'.kind = host.kind
      /\ (host'.first <=> host.first)
      /\ host' \in [at: {"idle", "attach", "attaching", "undo", "execute",
                         "serving", "judge", "detaching"},
                    kind: {"none", "acquire", "release"},
                    first: BOOLEAN, good: BOOLEAN]
  BY <1>1, <1>2, HostGoes DEF HInv
<1>4. HostTypes'
  BY <1>0, <1>2, <1>3 DEF HInv, HostTypes
<1>5. HostPlaces'
  BY <1>0, <1>3 DEF HInv, HostPlaces, At, b
<1>6. HostPhases'
  BY <1>0, <1>3 DEF HInv, HostPhases, At
<1>7. HostReference' /\ Warned'
  BY <1>0, <1>1, <1>2, <1>3 DEF HInv, HostReference, Warned, Fresh, At, HostPhases
<1>8. Backed'
  BY <1>0, <1>3 DEF HInv, Backed, At
<1>9. Rolled'
  <2>1. Has({})' <=> Has({})
    BY <1>0 DEF Has
  <2>2. Before' = {}
    BY <1>0, <1>3 DEF Before, HInv, HostPhases, At
  <2> QED
    BY <2>1, <2>2, <1>0, <1>1, <1>3 DEF HInv, Rolled, At
<1> QED
  BY <1>4, <1>5, <1>6, <1>7, <1>8, <1>9 DEF HInv

LEMMA ExecuteKeeps ==
    ASSUME IInv, HInv, Execute
    PROVE  HInv'
<1>0. /\ At("execute") /\ b \in Task /\ pc[b] = "idle"
      /\ UNCHANGED <<transition, target, started, failed, stopping, attached>>
      /\ UNCHANGED <<prepared, on, reference, base, live, hooked>>
      /\ UNCHANGED <<pass, strayed>>
      /\ verdict' = "NONE"
      /\ Held' = Held
  BY HostAssumption DEF Execute, flags, btstack, b, Held, HInv, HostPlaces, At
<1>1. /\ pc'[b] \in {"idle", "enter"} /\ Ref' = Ref
      /\ \A u \in Task \ {b} : pc'[u] = pc[u] /\ job'[u] = job[u]
  BY <1>0 DEF IInv, TypeOK, Execute, Enter, Call, Return, radio, Ref
<1>2. /\ host'.at = "serving" /\ host'.kind = host.kind
      /\ (host'.first <=> host.first)
      /\ host' \in [at: {"idle", "attach", "attaching", "undo", "execute",
                         "serving", "judge", "detaching"},
                    kind: {"none", "acquire", "release"},
                    first: BOOLEAN, good: BOOLEAN]
  BY HostGoes DEF Execute, HInv
<1>3. HostTypes'
  BY <1>0, <1>2 DEF HInv, HostTypes
<1>4. HostPlaces'
  BY <1>0, <1>1, <1>2 DEF HInv, HostPlaces, At, b, Entering
<1>5. HostPhases'
  BY <1>0, <1>2 DEF HInv, HostPhases, At
<1>6. HostReference' /\ Warned'
  BY <1>0, <1>1, <1>2 DEF HInv, HostReference, Warned, Fresh, At
<1>7. Backed'
  BY <1>0, <1>2 DEF HInv, Backed
<1>8. Rolled'
  <2>1. Has(Before)' <=> Has(Before)
    BY <1>0, <1>2 DEF Has, Before
  <2>2. pass'[b] = "none"
    BY <1>0 DEF HInv, HostPlaces
  <2> QED
    BY <2>1, <2>2, <1>0, <1>2 DEF HInv, Rolled, At, b
<1> QED
  BY <1>3, <1>4, <1>5, <1>6, <1>7, <1>8 DEF HInv

LEMMA ServedKeeps ==
    ASSUME IInv, HInv, Served
    PROVE  HInv'
<1>0. /\ At("serving") /\ b \in Task /\ pc[b] = "idle"
      /\ UNCHANGED <<transition, verdict, target, started, failed, stopping>>
      /\ UNCHANGED <<attached, prepared, on, reference, base, live, hooked>>
      /\ UNCHANGED pass
      /\ strayed' \in BOOLEAN /\ (~strayed' => ~strayed /\ ~Unexpected)
      /\ Held' = Held
  BY HostAssumption DEF Served, mailbox, flags, btstack, b, Held, HInv, HostTypes
<1>1. /\ pc'[b] \in {"idle", "letgo"} /\ Ref' = Ref
      /\ \A u \in Task \ {b} : pc'[u] = pc[u] /\ job'[u] = job[u]
  BY <1>0 DEF IInv, TypeOK, Served, Leave, QuietRadio, vars, radio, Ref
<1>2. /\ host'.at = "judge" /\ host'.kind = host.kind
      /\ (host'.first <=> host.first)
      /\ (host'.good <=> ok[b])
      /\ host' \in [at: {"idle", "attach", "attaching", "undo", "execute",
                         "serving", "judge", "detaching"},
                    kind: {"none", "acquire", "release"},
                    first: BOOLEAN, good: BOOLEAN]
  BY <1>0 DEF Served, HInv, HostTypes, IInv, TypeOK
<1>3. HostTypes'
  BY <1>0, <1>2 DEF HInv, HostTypes
<1>4. HostPlaces'
  BY <1>0, <1>1, <1>2 DEF HInv, HostPlaces, At, b
<1>5. HostPhases'
  BY <1>0, <1>2 DEF HInv, HostPhases, At
<1>6. HostReference' /\ Warned'
  BY <1>0, <1>1, <1>2 DEF HInv, HostReference, Warned, Fresh, At
<1>7. Backed'
  BY <1>0, <1>2 DEF HInv, Backed, At
<1>8. Rolled'
  <2>1. (Has(Before)' <=> Has(Before)) /\ (Has(After)' <=> Has(After))
    BY <1>0, <1>2 DEF Has, Before, After
  <2>2. host.kind \in {"acquire", "release"}
    BY <1>0 DEF HInv, HostPhases, At
  <2>3. ~strayed' =>
          /\ ~strayed
          /\ host.kind = "acquire" /\ verdict = "OK" => ok[b]
          /\ host.kind = "release" => verdict # "NONE"
    BY <1>0, <2>2 DEF Unexpected
  <2> QED
    BY <2>1, <2>3, <1>0, <1>2 DEF HInv, Rolled, At, b
<1> QED
  BY <1>3, <1>4, <1>5, <1>6, <1>7, <1>8 DEF HInv

\* What an acquire that is judged has to show for itself, and a release.
LEMMA Verdicts ==
    ASSUME HInv, Judged
    PROVE  /\ b \in Task /\ pc[b] = "idle" /\ At("judge") /\ pass[b] = "none"
           /\ attached /\ Ref = 1 /\ hooked
           /\ target \notin Held /\ (host.first <=> Held = {})
           /\ ~strayed /\ host.kind = "acquire" /\ Good => Has(After)
           /\ ~strayed /\ host.kind = "acquire" /\ ~Good => Has(Before)
           /\ ~strayed /\ host.kind = "release" =>
                 Has(After) /\ transition = "NONE"
<1>1. b \in Task /\ pc[b] = "idle" /\ At("judge") /\ pass[b] = "none"
  BY HostAssumption DEF Judged, b, HInv, HostPlaces, HostTypes
<1>2. /\ attached /\ Ref = 1 /\ hooked
      /\ target \notin Held /\ (host.first <=> Held = {})
  BY <1>1 DEF HInv, HostReference, HostPhases, At
<1>3. verdict \in {"NONE", "OK", "BAD"}
  BY DEF HInv, HostTypes
<1>4. ASSUME ~strayed
      PROVE  /\ verdict = "NONE" => Has(Before)
             /\ verdict = "OK" => Has(After)
             /\ verdict = "BAD" => Has(Before) /\ host.kind = "acquire"
             /\ verdict # "NONE" => transition = "NONE"
             /\ host.kind = "acquire" /\ verdict = "OK" => host.good
             /\ host.kind = "release" => verdict # "NONE"
  BY <1>1, <1>4 DEF HInv, Rolled, At
<1> QED
  BY <1>1, <1>2, <1>3, <1>4 DEF Good

LEMMA AcquiredKeeps ==
    ASSUME IInv, HInv, Acquired
    PROVE  HInv'
<1>0. /\ Judged /\ host.kind = "acquire" /\ Good /\ UNCHANGED vars
      /\ UNCHANGED <<transition, verdict, target, failed, stopping, attached>>
      /\ UNCHANGED <<prepared, on, base, live, hooked, pass, strayed>>
      /\ started' \in BOOLEAN
      /\ started \/ host.first => started'
      /\ reference' = [reference EXCEPT ![target] = "current"]
      /\ host' = NoCall /\ HostTypes
  BY DEF Acquired, mailbox, btstack, QuietRadio, HInv, HostTypes
<1>1. /\ b \in Task /\ pc[b] = "idle" /\ At("judge") /\ pass[b] = "none"
      /\ attached /\ Ref = 1 /\ hooked
      /\ target \notin Held /\ (host.first <=> Held = {})
      /\ ~strayed => Has(After)
  BY <1>0, Verdicts
<1>2. /\ Held' = Held \union {target} /\ Ref' = Ref
      /\ UNCHANGED <<pc, job, ok>>
      /\ host'.at = "idle" /\ host'.kind = "none"
      /\ host' \in [at: {"idle", "attach", "attaching", "undo", "execute",
                         "serving", "judge", "detaching"},
                    kind: {"none", "acquire", "release"},
                    first: BOOLEAN, good: BOOLEAN]
  BY <1>0 DEF Held, Ref, vars, HostTypes, NoCall
<1>3. HostTypes'
  BY <1>0, <1>2 DEF HostTypes
<1>4. HostPlaces'
  BY <1>0, <1>1, <1>2 DEF HInv, HostPlaces, At, b, Entering
<1>5. HostPhases'
  BY <1>0, <1>1, <1>2 DEF HInv, HostPhases, At, Good
<1>6. HostReference' /\ Warned'
  BY <1>0, <1>1, <1>2 DEF HInv, HostReference, Warned, Fresh, At
<1>7. Backed'
  BY <1>0, <1>1, <1>2 DEF HInv, Backed, At, Good
<1>8. Rolled'
  <2>1. ~strayed => Has(Held)'
    BY <1>0, <1>1, <1>2 DEF Has, After
  <2> QED
    BY <2>1, <1>0, <1>1, <1>2 DEF Rolled, At, Good
<1> QED
  BY <1>3, <1>4, <1>5, <1>6, <1>7, <1>8 DEF HInv

LEMMA UndoKeeps ==
    ASSUME IInv, HInv, Undo
    PROVE  HInv'
<1>0. /\ UNCHANGED vars
      /\ UNCHANGED <<verdict, target, started, failed, stopping, reference>>
      /\ UNCHANGED <<base, live, hooked, pass, strayed>>
      /\ transition' = "NONE"
      /\ on' = [on EXCEPT ![target] = FALSE]
      /\ host' = NoCall /\ HostTypes
      /\ attached' = (attached /\ ~host.first)
      /\ prepared' = (prepared /\ ~host.first)
      /\ Held' = Held
  BY DEF Undo, Withdraw, btstack, QuietRadio, HInv, Held
<1>1. /\ pc[b] = "idle" /\ host.at \in {"undo", "judge"}
      /\ target \notin Held /\ (host.first <=> Held = {})
      /\ \/ /\ ~attached /\ host.first
            /\ ~strayed => Has({}) /\ Ref = 0
         \/ /\ attached /\ ~host.first /\ Ref = 1
            /\ ~strayed => Has(Held)
  <2>1. CASE At("undo")
    BY <2>1 DEF HInv, HostPlaces, HostPhases, HostReference, Rolled, At
  <2>2. CASE Judged /\ host.kind = "acquire" /\ ~Good /\ ~host.first
    <3>1. ~strayed => Has(Held)
      BY <2>2, Verdicts DEF Before
    <3> QED
      BY <2>2, <3>1, Verdicts DEF At
  <2> QED
    BY <2>1, <2>2 DEF Undo
<1>2. /\ Ref' = Ref
      /\ UNCHANGED <<pc, job, ok>>
      /\ host'.at = "idle"
      /\ host' \in [at: {"idle", "attach", "attaching", "undo", "execute",
                         "serving", "judge", "detaching"},
                    kind: {"none", "acquire", "release"},
                    first: BOOLEAN, good: BOOLEAN]
  BY <1>0 DEF Ref, vars, HostTypes, NoCall
<1>3. /\ attached' \in BOOLEAN /\ prepared' \in BOOLEAN
      /\ (attached' <=> ~host.first)
      /\ (prepared' <=> prepared /\ ~host.first)
  BY <1>0, <1>1 DEF HostTypes
<1>4. HostTypes'
  BY <1>0, <1>2, <1>3 DEF HostTypes
<1>5. HostPlaces'
  BY <1>0, <1>1, <1>2 DEF HInv, HostPlaces, At, b, Entering
<1>6. HostPhases'
  BY <1>0, <1>1, <1>2 DEF HInv, HostPhases, At
<1>7. HostReference'
  BY <1>0, <1>1, <1>2, <1>3 DEF HInv, HostReference, HostPhases, At
<1>8. Warned'
  BY <1>0, <1>1, <1>2, <1>3 DEF HInv, Warned, Fresh, At
<1>9. Backed'
  BY <1>0, <1>2 DEF HInv, Backed, At
<1>10. Rolled'
  <2>1. ~strayed => Has(Held)'
    BY <1>0, <1>1, <1>3 DEF Has, HostTypes
  <2> QED
    BY <2>1, <1>0, <1>1, <1>2 DEF Rolled, At
<1> QED
  BY <1>4, <1>5, <1>6, <1>7, <1>8, <1>9, <1>10 DEF HInv

LEMMA RemovedKeeps ==
    ASSUME IInv, HInv, Removed
    PROVE  HInv'
<1>0. /\ Judged /\ host.kind = "release" /\ ~host.first /\ UNCHANGED vars
      /\ UNCHANGED <<transition, verdict, target, started, failed, stopping>>
      /\ UNCHANGED <<attached, prepared, reference, base, live, hooked>>
      /\ UNCHANGED <<pass, strayed>>
      /\ on' = [on EXCEPT ![target] = FALSE]
      /\ host' = NoCall /\ HostTypes /\ Held' = Held
  BY DEF Removed, mailbox, flags, btstack, QuietRadio, HInv, Held
<1>1. /\ b \in Task /\ pc[b] = "idle" /\ At("judge")
      /\ attached /\ Ref = 1 /\ hooked
      /\ target \notin Held /\ Held # {}
      /\ ~strayed => Has(After) /\ transition = "NONE"
  BY <1>0, Verdicts
<1>2. /\ Ref' = Ref
      /\ UNCHANGED <<pc, job, ok>>
      /\ host'.at = "idle"
      /\ host' \in [at: {"idle", "attach", "attaching", "undo", "execute",
                         "serving", "judge", "detaching"},
                    kind: {"none", "acquire", "release"},
                    first: BOOLEAN, good: BOOLEAN]
  BY <1>0 DEF Ref, vars, HostTypes, NoCall
<1>3. HostTypes'
  BY <1>0, <1>2 DEF HostTypes
<1>4. HostPlaces'
  BY <1>0, <1>1, <1>2 DEF HInv, HostPlaces, At, b, Entering
<1>5. HostPhases'
  BY <1>0, <1>1, <1>2 DEF HInv, HostPhases, At
<1>6. HostReference' /\ Warned'
  BY <1>0, <1>1, <1>2 DEF HInv, HostReference, Warned, Fresh, At
<1>7. Backed'
  BY <1>0, <1>1, <1>2 DEF HInv, Backed, At
<1>8. Rolled'
  <2>1. ~strayed => Has(Held)'
    BY <1>0, <1>1 DEF Has, After, HostTypes
  <2> QED
    BY <2>1, <1>0, <1>1, <1>2 DEF Rolled, At
<1> QED
  BY <1>3, <1>4, <1>5, <1>6, <1>7, <1>8 DEF HInv

LEMMA DetachKeeps ==
    ASSUME IInv, HInv, Detach
    PROVE  HInv'
<1>0. /\ Judged /\ host.first /\ (host.kind = "acquire" => ~Good)
      /\ UNCHANGED <<transition, verdict, target, started, failed, attached>>
      /\ UNCHANGED <<prepared, on, reference, base, live, hooked>>
      /\ UNCHANGED <<pass, strayed>>
      /\ stopping' = TRUE
      /\ HostTypes /\ Held' = Held
  BY DEF Detach, mailbox, btstack, HInv, Held
<1>1. /\ b \in Task /\ pc[b] = "idle" /\ At("judge") /\ pass[b] = "none"
      /\ attached /\ Ref = 1 /\ hooked
      /\ target \notin Held /\ Held = {}
      /\ host.kind \in {"acquire", "release"}
      /\ ~strayed => Has({})
  <2>1. host.kind \in {"acquire", "release"}
    BY <1>0 DEF HInv, HostPhases, Judged, At
  <2>2. host.kind = "acquire" => Before = Held
    BY DEF Before
  <2>3. host.kind = "release" => After = Held
    BY DEF After
  <2> QED
    BY <1>0, <2>1, <2>2, <2>3, Verdicts
<1>2. /\ pc'[b] \in {"snapshot", "tell", "trystop"}
      /\ pc'[b] = "trystop" =>
            job'[b].kind = "release" /\ job'[b].client = "bluetooth"
      /\ Ref' \in {0, 1}
      /\ \A u \in Task \ {b} : pc'[u] = pc[u] /\ job'[u] = job[u]
  <2>1. Release(b, "bluetooth") /\ "bluetooth" \in Client
    BY DEF Detach, Client
  <2> QED
    BY <2>1, <1>1 DEF Release, Done, Call, radio, Ref, IInv, TypeOK
<1>3. /\ host'.at = "detaching" /\ host'.kind = host.kind
      /\ (host'.first <=> host.first)
      /\ host' \in [at: {"idle", "attach", "attaching", "undo", "execute",
                         "serving", "judge", "detaching"},
                    kind: {"none", "acquire", "release"},
                    first: BOOLEAN, good: BOOLEAN]
  BY <1>0, HostGoes DEF Detach
<1>4. HostTypes'
  BY <1>0, <1>3 DEF HostTypes
<1>5. HostPlaces'
  BY <1>0, <1>1, <1>2, <1>3 DEF HInv, HostPlaces, At, b, Stopping
<1>6. HostPhases'
  BY <1>0, <1>1, <1>3 DEF HInv, HostPhases, At
<1>7. HostReference' /\ Warned'
  BY <1>0, <1>1, <1>2, <1>3 DEF HInv, HostReference, Warned, Fresh, At
<1>8. Backed'
  BY <1>0, <1>1, <1>3 DEF HInv, Backed, At
<1>9. Rolled'
  <2>1. ~strayed => Has({})'
    BY <1>0, <1>1 DEF Has
  <2> QED
    BY <2>1, <1>0, <1>3 DEF Rolled, At
<1> QED
  BY <1>4, <1>5, <1>6, <1>7, <1>8, <1>9 DEF HInv

LEMMA DetachedKeeps ==
    ASSUME IInv, HInv, Detached
    PROVE  HInv'
<1>0. /\ At("detaching") /\ pc[b] = "idle" /\ UNCHANGED vars
      /\ UNCHANGED <<target, reference, base, live, pass>>
      /\ stopping' = FALSE /\ attached' = FALSE /\ prepared' = FALSE
      /\ hooked' = (hooked /\ Ref # 0)
      /\ strayed' = (strayed \/ Ref # 0)
      /\ transition' = "NONE" /\ verdict' \in {verdict, "NONE"}
      /\ started' \in {started, FALSE} /\ failed' \in {failed, FALSE}
      /\ on' \in {[on EXCEPT ![target] = FALSE], [p \in Profile |-> FALSE]}
      /\ host' = NoCall /\ HostTypes
      /\ Held' = Held
  BY DEF Detached, Withdraw, Reset, btstack, QuietRadio, HInv, Held, Ref
<1>1. /\ Held = {} /\ Ref \in {0, 1} /\ (Ref = 1 => hooked)
      /\ ~strayed => Has({})
  BY <1>0 DEF HInv, HostPhases, HostReference, Rolled, At
<1>2. /\ Ref' = Ref
      /\ UNCHANGED <<pc, job, ok>>
      /\ host'.at = "idle"
      /\ host' \in [at: {"idle", "attach", "attaching", "undo", "execute",
                         "serving", "judge", "detaching"},
                    kind: {"none", "acquire", "release"},
                    first: BOOLEAN, good: BOOLEAN]
  BY <1>0 DEF Ref, vars, HostTypes, NoCall
<1>3. /\ hooked' \in BOOLEAN /\ strayed' \in BOOLEAN
      /\ (hooked' <=> Ref = 1)
      /\ ~strayed' => ~strayed /\ Ref = 0
      /\ on' \in [Profile -> BOOLEAN]
  <2>1. on' \in [Profile -> BOOLEAN]
    BY <1>0 DEF HostTypes
  <2>2. CASE Ref = 0
    BY <2>1, <2>2, <1>0 DEF HostTypes
  <2>3. CASE Ref = 1
    <3>1. (hooked /\ Ref # 0) \in BOOLEAN /\ (strayed \/ Ref # 0) \in BOOLEAN
      OBVIOUS
    <3>2. hooked' \in BOOLEAN /\ strayed' \in BOOLEAN
      BY <3>1, <1>0
    <3>3. hooked' /\ strayed'
      <4>1. hooked /\ Ref # 0
        BY <2>3, <1>1
      <4> QED
        BY <4>1, <1>0, Zenon
    <3> QED
      BY <2>1, <2>3, <3>2, <3>3
  <2> QED
    BY <1>1, <2>2, <2>3
<1>4. HostTypes'
  BY <1>0, <1>2, <1>3 DEF HostTypes
<1>5. HostPlaces'
  BY <1>0, <1>2 DEF HInv, HostPlaces, At, b, Entering
<1>6. HostPhases'
  BY <1>0, <1>2 DEF HInv, HostPhases, At
<1>7. HostReference' /\ Warned'
  BY <1>0, <1>1, <1>2, <1>3 DEF HostReference, Warned, Fresh, At
<1>8. Backed'
  BY <1>0, <1>1, <1>2 DEF Backed
<1>9. Rolled'
  <2>1. ~strayed => Has(Held)'
    BY <1>0, <1>1 DEF Has, HostTypes
  <2> QED
    BY <2>1, <1>0, <1>2, <1>3 DEF Rolled, At
<1> QED
  BY <1>4, <1>5, <1>6, <1>7, <1>8, <1>9 DEF HInv

-----------------------------------------------------------------------------

LEMMA HostStepOK == IInv /\ HInv /\ [HostNext]_allVars => HInv'
<1> SUFFICES ASSUME IInv, HInv, [HostNext]_allVars PROVE HInv'
  OBVIOUS
<1>1. ASSUME NEW t \in Task \ {Bluetooth}, WifiCall(t) PROVE HInv'
  BY <1>1, RadioKeeps DEF b
<1>2. CASE HostCall
  BY <1>2, AcquireHostKeeps, ReleaseHostKeeps, PollKeeps DEF HostCall
<1>3. CASE HostStep
  BY <1>3, AttachKeeps, AttachedKeeps, ExecuteKeeps, ServedKeeps,
     AcquiredKeeps, UndoKeeps, RemovedKeeps, DetachKeeps, DetachedKeeps
     DEF HostStep
<1>4. ASSUME NEW t \in Task, TaskStep(t) PROVE HInv'
  <2>1. CASE PassDriver(t) \/ Handler(t) \/ ClearTransition(t)
    BY <2>1, ServicePassKeeps
  <2>2. CASE RunTransition(t)
    BY <2>2, RunTransitionKeeps
  <2>3. CASE WarnHost(t) \/ HaltChip(t)
    BY <2>3, WarnHostKeeps, HaltChipKeeps
  <2>4. CASE RadioStep(t)
    BY <2>4, RadioKeeps
  <2> QED
    BY <1>4, <2>1, <2>2, <2>3, <2>4 DEF TaskStep
<1>5. CASE UNCHANGED allVars
  <2>1. UNCHANGED <<vars, hostVars>>
    BY <1>5 DEF allVars
  <2>2. /\ UNCHANGED <<transition, verdict, target, started, failed, stopping>>
        /\ UNCHANGED <<attached, prepared, on, reference, base, live, hooked>>
        /\ UNCHANGED <<host, pass, strayed, pc, job, ok, refs>>
        /\ Held' = Held
    BY <2>1 DEF vars, hostVars, Held
  <2>3. HostPlaces' /\ HostReference' /\ Warned' /\ Ref' = Ref
    BY <2>2 DEF HInv, HostPlaces, HostReference, Warned, Fresh, Ref, At, b
  <2>4. /\ failed' \in BOOLEAN
        /\ reference' \in [Profile -> {"none", "current", "stale"}]
        /\ pass' \in [Task -> {"none", "handler", "ran", "refused"}]
    BY <2>2 DEF HInv, HostTypes
  <2> QED
    BY <2>2, <2>3, <2>4, HostRests
<1> QED
  BY <1>1, <1>2, <1>3, <1>4, <1>5 DEF HostNext

LEMMA HostAlways == HostSpec => []HInv
<1>1. HostSpec => []IInv
  BY HostUsesRadio, Always, PTL
<1> QED
  BY <1>1, HostInitOK, HostStepOK, PTL DEF HostSpec

\* A reference the application may use has all it needs under it, whoever
\* starts, stops or restarts the radio meanwhile
\* (jh_bluetooth_host_reference_is_current).
THEOREM ReferencesAreBacked == HostSpec => []ReferenceIsBacked
<1>1. HInv => ReferenceIsBacked
  <2> SUFFICES ASSUME HInv, NEW p \in Profile, IsCurrent(p)
               PROVE  base = "up" /\ p \in live /\ hooked /\ attached /\ Ref = 1
    BY DEF ReferenceIsBacked, Ref
  <2>1. p \in Held /\ ~failed
    BY DEF IsCurrent, Held
  <2>2. attached /\ ~At("detaching")
    BY <2>1 DEF HInv, HostReference, HostPhases, At
  <2> QED
    BY <2>1, <2>2 DEF HInv, HostReference, Backed
<1> QED
  BY <1>1, HostAlways, PTL

\* What fails is rolled back, for any number of profiles and of Wi-Fi tasks
\* (jh_bluetooth_host_runtime_acquire, jh_bluetooth_host_runtime_release).
THEOREM FailuresAreRolledBack == HostSpec => []RolledBack
<1>1. HInv => RolledBack
  BY DEF HInv, HostReference, Rolled, Has, RolledBack, Ref, At
<1> QED
  BY <1>1, HostAlways, PTL
=============================================================================
