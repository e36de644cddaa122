---------------------------- MODULE RadioRuntime ----------------------------
(* The lifecycle of the CYW43 radio that Wi-Fi and Bluetooth share           *)
(* (jh_cyw43_radio_runtime.cpp and its wrappers in jh_cyw43_radio.cpp) and   *)
(* the network service whose context a task enters to use it                 *)
(* (jh_network_service.cpp), over the two mutexes of the platform            *)
(* (rp2040_cyw43_platform.cpp).                                              *)
(*                                                                           *)
(* A section under the state mutex is one step.  Between the sections        *)
(* nothing is held: the chip is started without any lock, stopped under the  *)
(* stack mutex, and a task that was let in by one section takes the stack    *)
(* mutex only later.                                                         *)
EXTENDS Integers, FiniteSets

CONSTANTS
    Task,           \* whoever calls: a task, or a core without an RTOS
    None,           \* no task
    MaxReferences,  \* UINT16_MAX: the references a client can hold
    MaxDepth        \* how deep entries are nested, at most

ASSUME RadioAssumption == /\ None \notin Task
                          /\ MaxReferences \in Nat \ {0}
                          /\ MaxDepth \in Nat \ {0}

Client == {"wifi", "bluetooth"}
Other(c) == IF c = "wifi" THEN "bluetooth" ELSE "wifi"
States == {"OFF", "STARTING", "READY", "STOPPING", "FAILED"}
Kinds == {"none", "acquire", "release", "restart", "enter"}

VARIABLES
    state,       \* the state of the radio
    refs,        \* the references of each client
    running,     \* the network service; stopping is its complement
    owner,       \* the task whose context is entered
    depth,       \* how often it has entered
    pending,     \* operations in flight in this generation
    ready,       \* the driver of the chip is up
    stack,       \* the holder of the stack mutex
    capability,  \* the radio as the board publishes it
    pc,          \* where a call of the task is
    job,         \* its kind and its client
    ok,          \* what the last call returned
    seen,        \* the state its snapshot shows
    op           \* the operation the task began: of this generation or not

radio == <<state, refs>>
context == <<owner, depth>>
service == <<running, pending, op>>
chip == <<ready, stack>>
call == <<pc, job, ok, seen>>
vars == <<state, refs, running, owner, depth, pending, ready, stack,
          capability, pc, job, ok, seen, op>>

NoJob == [kind |-> "none", client |-> "wifi"]

Init == /\ state = "OFF"
        /\ refs = [c \in Client |-> 0]
        /\ running = FALSE
        /\ owner = None
        /\ depth = 0
        /\ pending = 0
        /\ ready = FALSE
        /\ stack = None
        /\ capability = "INACTIVE"
        /\ pc = [t \in Task |-> "idle"]
        /\ job = [t \in Task |-> NoJob]
        /\ ok = [t \in Task |-> TRUE]
        /\ seen = [t \in Task |-> "OFF"]
        /\ op = [t \in Task |-> "none"]

-----------------------------------------------------------------------------
(* The steps of a call.  Each of them sets all of `call'. *)

Goto(t, where) == /\ pc' = [pc EXCEPT ![t] = where]
                  /\ UNCHANGED <<job, ok, seen>>

Call(t, kind, c, where) ==
    /\ job' = [job EXCEPT ![t] = [kind |-> kind, client |-> c]]
    /\ pc' = [pc EXCEPT ![t] = where]
    /\ UNCHANGED <<ok, seen>>

Return(t, good) == /\ pc' = [pc EXCEPT ![t] = "idle"]
                   /\ job' = [job EXCEPT ![t] = NoJob]
                   /\ ok' = [ok EXCEPT ![t] = good]
                   /\ UNCHANGED seen

\* Acquire, release and restart publish the state they find when they end.
Done(t, good) == /\ pc' = [pc EXCEPT ![t] = "snapshot"]
                 /\ ok' = [ok EXCEPT ![t] = good]
                 /\ job' = [job EXCEPT ![t] = NoJob]
                 /\ UNCHANGED seen

Snapshot(t) ==
    /\ pc[t] = "snapshot"
    /\ IF state \in {"READY", "FAILED", "OFF"}
       THEN /\ pc' = [pc EXCEPT ![t] = "publish"]
            /\ seen' = [seen EXCEPT ![t] = state]
            /\ UNCHANGED <<job, ok>>
       ELSE Return(t, ok[t])
    /\ UNCHANGED <<radio, context, service, chip, capability>>

Publish(t) ==
    /\ pc[t] = "publish"
    /\ capability' = CASE seen[t] = "READY" -> "AVAILABLE"
                       [] seen[t] = "FAILED" -> "FAILED"
                       [] OTHER -> "INACTIVE"
    /\ pc' = [pc EXCEPT ![t] = "idle"]
    /\ seen' = [seen EXCEPT ![t] = "OFF"]
    /\ UNCHANGED <<radio, context, service, chip, job, ok>>

-----------------------------------------------------------------------------
(* Acquire: the first reference starts the chip, without any lock. *)

\* A generation is a number that is counted up and never 0; all that matters
\* of it is whether an operation has the service's or an earlier one.
NextGeneration ==
    /\ pending' = 0
    /\ op' = [t \in Task |-> IF op[t] = "none" THEN "none" ELSE "stale"]

\* The board's capability is asked before the runtime is.
Acquire(t, c) ==
    /\ pc[t] = "idle"
    /\ IF capability = "FAILED" THEN Return(t, FALSE)
                                ELSE Call(t, "acquire", c, "acquire")
    /\ UNCHANGED <<radio, context, service, chip, capability>>

AcquireReference(t) ==
    /\ pc[t] = "acquire"
    /\ LET c == job[t].client
       IN  \/ /\ state = "READY" /\ refs[c] < MaxReferences
              /\ refs' = [refs EXCEPT ![c] = @ + 1]
              /\ Done(t, TRUE)
              /\ UNCHANGED state
           \/ /\ \/ state \in {"FAILED", "STARTING", "STOPPING"}
                 \/ state = "READY" /\ refs[c] = MaxReferences
              /\ Done(t, FALSE)
              /\ UNCHANGED radio
           \/ /\ state = "OFF"
              /\ state' = "STARTING"
              /\ Goto(t, "start")
              /\ UNCHANGED refs
    /\ UNCHANGED <<context, service, chip, capability>>

StartChip(t) ==
    /\ pc[t] = "start"
    /\ \/ ready' = TRUE /\ Goto(t, "serve")
       \/ UNCHANGED ready /\ Goto(t, "abandon")
    /\ UNCHANGED <<radio, context, service, stack, capability>>

\* A start that failed leaves the radio failed for good.
Abandon(t) ==
    /\ pc[t] = "abandon"
    /\ state' = "FAILED"
    /\ ready' = FALSE
    /\ Done(t, FALSE)
    /\ UNCHANGED <<refs, context, service, stack, capability>>

\* The code refuses an entered context and a running service here; the
\* guard says that neither can be (StackQuiet and Settled below).
StartService(t) ==
    /\ pc[t] = "serve"
    /\ depth = 0 /\ ~running
    /\ running' = TRUE
    /\ NextGeneration
    /\ owner' = None
    /\ Goto(t, "commit")
    /\ UNCHANGED <<radio, depth, chip, capability>>

Commit(t) ==
    /\ pc[t] = "commit"
    /\ state' = "READY"
    /\ refs' = IF job[t].kind = "acquire"
               THEN [refs EXCEPT ![job[t].client] = 1] ELSE refs
    /\ Done(t, TRUE)
    /\ UNCHANGED <<context, service, chip, capability>>

-----------------------------------------------------------------------------
(* Release and restart: a radio nobody is inside of is stopped. *)

LastReference(c) == refs[c] = 1 /\ refs[Other(c)] = 0

Release(t, c) ==
    /\ pc[t] = "idle"
    /\ \/ /\ state # "READY" \/ refs[c] = 0
          /\ Done(t, FALSE)
          /\ UNCHANGED radio
       \/ /\ state = "READY" /\ refs[c] # 0 /\ ~LastReference(c)
          /\ refs' = [refs EXCEPT ![c] = @ - 1]
          /\ IF refs[c] = 1 THEN Call(t, "release", c, "tell")
                            ELSE Done(t, TRUE)
          /\ UNCHANGED state
       \/ /\ state = "READY" /\ LastReference(c)
          /\ state' = "STOPPING"
          /\ Call(t, "release", c, "trystop")
          /\ UNCHANGED refs
    /\ UNCHANGED <<context, service, chip, capability>>

Restart(t) ==
    /\ pc[t] = "idle"
    /\ IF state = "READY" /\ \E c \in Client : refs[c] # 0
       THEN state' = "STOPPING" /\ Call(t, "restart", "wifi", "trystop")
       ELSE Done(t, FALSE) /\ UNCHANGED state
    /\ UNCHANGED <<refs, context, service, chip, capability>>

\* jh_network_service_try_stop.
TryStop(t) ==
    /\ pc[t] = "trystop"
    /\ IF depth # 0
       THEN Goto(t, "bounce") /\ UNCHANGED service
       ELSE /\ running' = FALSE
            /\ NextGeneration
            /\ Goto(t, "warn")
    /\ UNCHANGED <<radio, context, chip, capability>>

\* Somebody is inside: the radio is as it was.
Bounce(t) ==
    /\ pc[t] = "bounce"
    /\ state' = "READY"
    /\ Done(t, FALSE)
    /\ UNCHANGED <<refs, context, service, chip, capability>>

\* The clients are told, outside the locks, before the chip stops ...
Warn(t) ==
    /\ pc[t] = "warn"
    /\ Goto(t, "lock")
    /\ UNCHANGED <<radio, context, service, chip, capability>>

\* ... and a client that gave its last reference back while the other stays.
Tell(t) ==
    /\ pc[t] = "tell"
    /\ Done(t, TRUE)
    /\ UNCHANGED <<radio, context, service, chip, capability>>

LockToStop(t) ==
    /\ pc[t] = "lock"
    /\ stack = None /\ ready
    /\ stack' = t
    /\ Goto(t, "halt")
    /\ UNCHANGED <<radio, context, service, ready, capability>>

\* The driver is down whatever detaching its wake line returns.
StopChip(t) ==
    /\ pc[t] = "halt"
    /\ ready' = FALSE
    /\ stack' = None
    /\ \/ Goto(t, "off")
       \/ Goto(t, "broken")
    /\ UNCHANGED <<radio, context, service, capability>>

DropReference(t) == IF job[t].kind = "release"
                    THEN [refs EXCEPT ![job[t].client] = 0] ELSE refs

Stopped(t) ==
    /\ pc[t] = "off"
    /\ refs' = DropReference(t)
    /\ IF job[t].kind = "release" THEN state' = "OFF" /\ Done(t, TRUE)
                                  ELSE state' = "STARTING" /\ Goto(t, "start")
    /\ UNCHANGED <<context, service, chip, capability>>

Broken(t) ==
    /\ pc[t] = "broken"
    /\ refs' = DropReference(t)
    /\ state' = "FAILED"
    /\ Done(t, FALSE)
    /\ UNCHANGED <<context, service, chip, capability>>

-----------------------------------------------------------------------------
(* Enter and leave: a task takes the stack for itself and serves it once.    *)

\* jh_cyw43_radio_runtime_enter looks at the state and the references and
\* lets go of the mutex before it enters the service.
Enter(t, c) ==
    /\ pc[t] = "idle"
    /\ owner = t => depth < MaxDepth
    /\ IF state = "READY" /\ refs[c] # 0 THEN Call(t, "enter", c, "enter")
                                         ELSE Return(t, FALSE)
    /\ UNCHANGED <<radio, context, service, chip, capability>>

\* (mutant: a task that is inside takes the mutex again)
EnterServiceTwice(t) ==
    /\ pc[t] = "enter"
    /\ IF running THEN Goto(t, "wait") ELSE Return(t, FALSE)
    /\ UNCHANGED <<radio, context, service, chip, capability>>

EnterService(t) ==
    /\ pc[t] = "enter"
    /\ \/ ~running /\ Return(t, FALSE) /\ UNCHANGED depth
       \/ /\ running /\ depth # 0 /\ owner = t
          /\ \/ depth' = depth + 1 /\ Return(t, TRUE)
             \/ UNCHANGED depth /\ Return(t, FALSE)     \* no IPv4 address
       \/ /\ running /\ (depth = 0 \/ owner # t)
          /\ Goto(t, "wait")
          /\ UNCHANGED depth
    /\ UNCHANGED <<radio, owner, service, chip, capability>>

\* The platform gives the mutex back when the driver is down.
TakeStack(t) ==
    /\ pc[t] = "wait"
    /\ stack = None
    /\ IF ready THEN stack' = t /\ Goto(t, "admit")
                ELSE Return(t, FALSE) /\ UNCHANGED stack
    /\ UNCHANGED <<radio, context, service, ready, capability>>

\* (mutant: the service was running when it was looked at)
AdmitUnchecked(t) ==
    /\ pc[t] = "admit"
    /\ owner' = t
    /\ depth' = 1
    /\ Goto(t, "pass")
    /\ UNCHANGED <<radio, service, chip, capability>>

\* The service may have stopped, or stopped and started, since it was seen
\* running.  Whoever holds the stack finds nobody entered (StackQuiet), so the
\* code's refusal of an entered context is left out.
Admit(t) ==
    /\ pc[t] = "admit"
    /\ IF running
       THEN /\ depth = 0
            /\ owner' = t
            /\ depth' = 1
            /\ Goto(t, "pass")
            /\ UNCHANGED stack
       ELSE /\ stack' = None
            /\ Return(t, FALSE)
            /\ UNCHANGED context
    /\ UNCHANGED <<radio, service, ready, capability>>

\* One service pass: the driver, the clients' handlers, the timeouts.
Pass(t, good) ==
    /\ pc[t] = "pass"
    /\ Goto(t, IF good THEN "verify" ELSE "unwind")
    /\ UNCHANGED <<radio, context, service, chip, capability>>

Verify(t) ==
    /\ pc[t] = "verify"
    /\ \/ running /\ depth # 0 /\ owner = t /\ Return(t, TRUE)
       \/ Goto(t, "unwind")                             \* no IPv4 address
    /\ UNCHANGED <<radio, context, service, chip, capability>>

\* jh_network_service_leave, by the application or by a failed entry.
GiveUp(t) == /\ depth' = depth - 1
             /\ owner' = IF depth = 1 THEN None ELSE owner

Unwind(t) ==
    /\ pc[t] = "unwind"
    /\ GiveUp(t)
    /\ pc' = [pc EXCEPT ![t] = "letgo"]
    /\ ok' = [ok EXCEPT ![t] = FALSE]
    /\ UNCHANGED <<radio, service, chip, capability, job, seen>>

Leave(t) ==
    /\ pc[t] = "idle"
    /\ depth # 0 /\ owner = t
    /\ GiveUp(t)
    /\ pc' = [pc EXCEPT ![t] = IF depth = 1 THEN "letgo" ELSE "idle"]
    /\ ok' = [ok EXCEPT ![t] = TRUE]
    /\ UNCHANGED <<radio, service, chip, capability, job, seen>>

LetGo(t) ==
    /\ pc[t] = "letgo"
    /\ stack' = None
    /\ Return(t, ok[t])
    /\ UNCHANGED <<radio, context, service, ready, capability>>

-----------------------------------------------------------------------------
(* Operations that outlive the call that began them. *)

BeginOperation(t) ==
    /\ pc[t] = "idle" /\ op[t] = "none"
    /\ running
    /\ pending' = pending + 1
    /\ op' = [op EXCEPT ![t] = "current"]
    /\ UNCHANGED <<radio, context, running, chip, capability, call>>

\* Complete and cancel are the same: only the result's name differs.
FinishOperation(t) ==
    /\ pc[t] = "idle" /\ op[t] # "none"
    /\ pending' = IF op[t] = "current" /\ running /\ pending > 0
                  THEN pending - 1 ELSE pending
    /\ op' = [op EXCEPT ![t] = "none"]
    /\ UNCHANGED <<radio, context, running, chip, capability, call>>

-----------------------------------------------------------------------------
Begin(t) == \/ \E c \in Client : Acquire(t, c) \/ Release(t, c) \/ Enter(t, c)
            \/ Restart(t)
            \/ Leave(t)

\* What a call that has begun does next; nothing but a mutex holds it up.
Step(t) == \/ Snapshot(t) \/ Publish(t)
           \/ AcquireReference(t) \/ StartChip(t) \/ Abandon(t)
           \/ StartService(t) \/ Commit(t)
           \/ TryStop(t) \/ Bounce(t) \/ Warn(t) \/ Tell(t)
           \/ LockToStop(t) \/ StopChip(t) \/ Stopped(t) \/ Broken(t)
           \/ EnterService(t) \/ TakeStack(t) \/ Admit(t)
           \/ \E good \in BOOLEAN : Pass(t, good)
           \/ Verify(t) \/ Unwind(t) \/ LetGo(t)

Next == \E t \in Task : \/ Begin(t)
                        \/ Step(t)
                        \/ BeginOperation(t)
                        \/ FinishOperation(t)

Spec == Init /\ [][Next]_vars
-----------------------------------------------------------------------------
\* Where a task is while it starts or stops the radio.
Transition == {"start", "abandon", "serve", "commit", "trystop", "bounce",
               "warn", "lock", "halt", "off", "broken"}

Inside(t) == depth # 0 /\ owner = t

TypeOK ==
    /\ state \in States
    /\ refs \in [Client -> 0..MaxReferences]
    /\ running \in BOOLEAN
    /\ owner \in Task \union {None}
    /\ depth \in 0..MaxDepth
    /\ pending \in Nat
    /\ ready \in BOOLEAN
    /\ stack \in Task \union {None}
    /\ capability \in {"INACTIVE", "AVAILABLE", "FAILED"}
    /\ pc \in [Task -> Transition \union
                       {"idle", "snapshot", "publish", "acquire", "tell",
                        "enter", "wait", "admit", "pass", "verify", "unwind",
                        "letgo"}]
    /\ job \in [Task -> [kind : Kinds, client : Client]]
    /\ ok \in [Task -> BOOLEAN]
    /\ seen \in [Task -> States]
    /\ op \in [Task -> {"none", "current", "stale"}]

\* A task that was let in has the stack to itself and a chip that is up, and
\* the radio is neither being started nor stopped under it: the state it was
\* let in by is checked long before it takes the stack
\* (jh_network_service_enter, jh_network_service_try_stop).
StackQuiet ==
    \A t \in Task : Inside(t) =>
        /\ stack = t
        /\ running /\ ready
        /\ \A u \in Task :
             pc[u] \notin Transition \ {"trystop", "bounce", "commit"}

\* Whoever has the stack mutex waits for no mutex: a task that is inside and
\* restarts or releases the radio is turned away before it takes the mutex
\* that it has (jh_network_service_try_stop), and one that enters again does
\* not take it twice (jh_network_service_enter).
NoHoldAndWait ==
    \A t \in Task : stack = t => pc[t] \notin {"wait", "lock"}

\* Between calls the parts agree: a ready radio runs and is referenced, a
\* radio that is off does not run and is not, a failed one never runs; and a
\* radio on its way from one to the other has one task that takes it there.
Settled ==
    /\ state = "READY" => running /\ ready /\ \E c \in Client : refs[c] # 0
    /\ state = "OFF" => ~running /\ ~ready /\ \A c \in Client : refs[c] = 0
    /\ state = "FAILED" => ~running
    /\ state \in {"STARTING", "STOPPING"} <=>
         \E t \in Task : pc[t] \in Transition
    /\ \A t, u \in Task :
         pc[t] \in Transition /\ pc[u] \in Transition => t = u

\* pending counts exactly the operations of this generation: an operation
\* that a stop or a restart outdated neither counts nor is counted down for.
PendingCounts ==
    pending = Cardinality({t \in Task : op[t] = "current"})
=============================================================================
