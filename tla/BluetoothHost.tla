---------------------------- MODULE BluetoothHost ---------------------------
(* The Bluetooth host (jh_bluetooth_host_runtime.c, jh_btstack_host.c) over  *)
(* the controller (jh_bluetooth_controller_cyw43.c) and the radio it shares  *)
(* with Wi-Fi.                                                               *)
(*                                                                           *)
(* BTstack may only be touched under the stack mutex, so a call that starts  *)
(* or stops something posts a transition and then makes a service pass of    *)
(* its own to have it run.  The runtime itself has no lock, and the handler  *)
(* runs in every pass while Bluetooth holds a reference: a pass of a Wi-Fi   *)
(* task may run the transition first.                                        *)
(*                                                                           *)
(* One task makes the Bluetooth calls, as the manual asks; the others use    *)
(* Wi-Fi.                                                                    *)
EXTENDS RadioRuntime

CONSTANTS
    Bluetooth,   \* the task that makes the Bluetooth calls
    Profile      \* the profiles that share the host: BLE and Classic

ASSUME HostAssumption == Bluetooth \in Task /\ Profile # {}

VARIABLES
    transition,  \* what the host waits to have run
    verdict,     \* transition_status: what running it gave
    target,      \* pending_profile
    started,     \* the host's own flags
    failed,
    stopping,
    attached,    \* controller_started
    prepared,    \* base_prepared
    on,          \* the slots' started flags
    reference,   \* each profile's reference to the host
    base,        \* BTstack itself: down, up, or orphaned by a stop of the chip
    live,        \* the profiles that are started in BTstack
    hooked,      \* the handlers are registered with the radio
    host,        \* where the Bluetooth task's call is
    pass,        \* where each task's service pass is
    strayed      \* something was not done where its caller believes it was

flags == <<started, failed, stopping, attached, prepared>>
mailbox == <<transition, verdict, target>>
btstack == <<base, live>>
hostVars == <<transition, verdict, target, started, failed, stopping, attached,
              prepared, on, reference, base, live, hooked, host, pass, strayed>>
allVars == <<vars, hostVars>>

NoCall == [at |-> "idle", kind |-> "none", first |-> FALSE, good |-> FALSE]

HostInit ==
    /\ Init
    /\ transition = "NONE" /\ verdict = "NONE"
    /\ target = CHOOSE p \in Profile : TRUE
    /\ started = FALSE /\ failed = FALSE /\ stopping = FALSE
    /\ attached = FALSE /\ prepared = FALSE
    /\ on = [p \in Profile |-> FALSE]
    /\ reference = [p \in Profile |-> "none"]
    /\ base = "down"
    /\ live = {}
    /\ hooked = FALSE
    /\ host = NoCall
    /\ pass = [t \in Task |-> "none"]
    /\ strayed = FALSE

b == Bluetooth
Held == {p \in Profile : reference[p] # "none"}
At(where) == host.at = where
HostTo(where) == host' = [host EXCEPT !.at = where]

\* Nothing of the radio moves, nothing of the host but its call.
QuietRadio == UNCHANGED vars

-----------------------------------------------------------------------------
(* Acquire and release post a transition.  Each backend keeps one reference  *)
(* object, so a profile that is held is refused.                             *)

AcquireHost(p) ==
    /\ At("idle") /\ pc[b] = "idle" /\ ~Inside(b)
    /\ reference[p] = "none"
    /\ ~failed /\ transition = "NONE"
    /\ LET first == Held = {}
       IN  /\ transition' = IF first THEN "START" ELSE "ADD"
           /\ host' = [at |-> IF first THEN "attach" ELSE "execute",
                       kind |-> "acquire", first |-> first, good |-> FALSE]
    /\ target' = p
    /\ QuietRadio
    /\ UNCHANGED <<verdict, flags, on, reference, btstack, hooked, pass, strayed>>

\* The last reference stops the host, another one only its profile.
ReleaseHost(p) ==
    /\ At("idle") /\ pc[b] = "idle" /\ ~Inside(b)
    /\ reference[p] # "none"
    /\ reference' = [reference EXCEPT ![p] = "none"]
    /\ target' = p
    /\ LET last == Held = {p}
       IN  /\ transition' = IF last THEN "STOP" ELSE "REMOVE"
           /\ host' = [at |-> "execute", kind |-> "release", first |-> last,
                       good |-> FALSE]
    /\ QuietRadio
    /\ UNCHANGED <<verdict, flags, on, btstack, hooked, pass, strayed>>

\* controller_start: the handlers, then the radio.  The handlers can only be
\* set while Bluetooth has no reference.
Attach ==
    /\ At("attach")
    /\ IF refs["bluetooth"] # 0
       THEN HostTo("undo") /\ QuietRadio /\ UNCHANGED hooked
       ELSE hooked' = TRUE /\ Acquire(b, "bluetooth") /\ HostTo("attaching")
    /\ UNCHANGED <<mailbox, flags, on, reference, btstack, pass, strayed>>

Attached ==
    /\ At("attaching") /\ pc[b] = "idle"
    /\ attached' = ok[b]
    /\ hooked' = (ok[b] \/ refs["bluetooth"] # 0)
    /\ HostTo(IF ok[b] THEN "execute" ELSE "undo")
    /\ QuietRadio
    /\ UNCHANGED <<mailbox, started, failed, stopping, prepared, on, reference,
                   btstack, pass, strayed>>

\* execute_transition: clear the verdict, make a pass, look at the verdict.
Execute ==
    /\ At("execute")
    /\ verdict' = "NONE"
    /\ Enter(b, "bluetooth")
    /\ HostTo("serving")
    /\ UNCHANGED <<transition, target, flags, on, reference, btstack, hooked,
                   pass, strayed>>

\* An acquire takes a transition whose pass failed for not done, a release
\* takes every transition for done.
Unexpected == IF host.kind = "acquire" THEN ~ok[b] /\ verdict = "OK"
                                       ELSE verdict = "NONE"

Served ==
    /\ At("serving") /\ pc[b] = "idle"
    /\ host' = [host EXCEPT !.at = "judge", !.good = ok[b]]
    /\ strayed' = (strayed \/ Unexpected)
    /\ IF ok[b] THEN Leave(b) ELSE QuietRadio
    /\ UNCHANGED <<mailbox, flags, on, reference, btstack, hooked, pass>>

Judged == At("judge") /\ pc[b] = "idle"
Good == host.good /\ transition = "NONE" /\ verdict = "OK"

\* A profile is in use, ...
Acquired ==
    /\ Judged /\ host.kind = "acquire" /\ Good
    /\ started' = (started \/ host.first)
    /\ reference' = [reference EXCEPT ![target] = "current"]
    /\ host' = NoCall
    /\ QuietRadio
    /\ UNCHANGED <<mailbox, failed, stopping, attached, prepared, on, btstack,
                   hooked, pass, strayed>>

\* ... or its slot is cleared and what was posted is withdrawn.
Withdraw ==
    /\ transition' = "NONE"
    /\ on' = [on EXCEPT ![target] = FALSE]
    /\ host' = NoCall
    /\ QuietRadio
    /\ UNCHANGED <<verdict, target, started, failed, reference, btstack, pass>>

Undo ==
    /\ \/ At("undo")
       \/ Judged /\ host.kind = "acquire" /\ ~Good /\ ~host.first
    /\ Withdraw
    /\ attached' = (attached /\ ~host.first)
    /\ prepared' = (prepared /\ ~host.first)
    /\ UNCHANGED <<stopping, hooked, strayed>>

\* A release that was not the last clears its slot, whatever came of it.
Removed ==
    /\ Judged /\ host.kind = "release" /\ ~host.first
    /\ on' = [on EXCEPT ![target] = FALSE]
    /\ host' = NoCall
    /\ QuietRadio
    /\ UNCHANGED <<mailbox, flags, reference, btstack, hooked, pass, strayed>>

\* controller_stop: give the radio back, then clear the handlers, which is
\* refused while Bluetooth still has a reference.
Detach ==
    /\ Judged /\ host.first /\ (host.kind = "acquire" => ~Good)
    /\ stopping' = TRUE
    /\ Release(b, "bluetooth")
    /\ HostTo("detaching")
    /\ UNCHANGED <<mailbox, started, failed, attached, prepared, on, reference,
                   btstack, hooked, pass, strayed>>

\* reset_stopped_runtime.
Reset ==
    /\ transition' = "NONE" /\ verdict' = "NONE"
    /\ started' = FALSE /\ failed' = FALSE
    /\ on' = [p \in Profile |-> FALSE]
    /\ host' = NoCall
    /\ QuietRadio
    /\ UNCHANGED <<target, reference, btstack, pass>>

Detached ==
    /\ At("detaching") /\ pc[b] = "idle"
    /\ stopping' = FALSE
    /\ hooked' = (hooked /\ refs["bluetooth"] # 0)
    /\ attached' = FALSE /\ prepared' = FALSE
    /\ strayed' = (strayed \/ refs["bluetooth"] # 0)
    /\ \/ host.kind = "acquire" /\ Withdraw
       \/ host.kind = "release" /\ Reset

\* A pass of the application's own, with a reference that is current.
Poll == /\ At("idle") /\ pc[b] = "idle"
        /\ IF Inside(b)
           THEN Leave(b)
           ELSE /\ started /\ ~failed
                /\ \E p \in Profile : reference[p] = "current"
                /\ Enter(b, "bluetooth")
        /\ UNCHANGED hostVars

-----------------------------------------------------------------------------
(* A service pass of any task: the driver, then the handler that was copied  *)
(* under the state mutex.  The handler runs outside it, inside the stack.    *)

PassTo(t, where) == pass' = [pass EXCEPT ![t] = where]

PassDriver(t) ==
    /\ pc[t] = "pass" /\ pass[t] = "none"
    /\ \/ Pass(t, FALSE) /\ UNCHANGED pass
       \/ /\ state = "READY" /\ refs["bluetooth"] # 0 /\ hooked
          /\ PassTo(t, "handler")
          /\ QuietRadio
       \/ /\ ~(state = "READY" /\ refs["bluetooth"] # 0 /\ hooked)
          /\ Pass(t, TRUE)
          /\ UNCHANGED pass
    /\ UNCHANGED <<mailbox, flags, on, reference, btstack, hooked, host, strayed>>

\* service_under_radio_lock, without a transition: the run loop refuses when
\* BTstack is down, and a profile's own service may fail.
Handler(t) ==
    /\ pass[t] = "handler" /\ transition = "NONE"
    /\ \E good \in BOOLEAN : /\ good => started /\ ~failed /\ base # "down"
                             /\ Pass(t, good)
    /\ PassTo(t, "none")
    /\ UNCHANGED <<mailbox, flags, on, reference, btstack, hooked, host, strayed>>

\* (mutant: a start that fails leaves BTstack as far as it came)
StartHostKeeps(good) ==
    /\ good => base = "down"
    /\ base' = "up"
    /\ live' = IF good THEN {target} ELSE {}
    /\ on' = [on EXCEPT ![target] = good]
    /\ prepared' = good

\* start_host_under_lock: BTstack that is still up is refused, and taken down.
StartHost(good) ==
    /\ good => base = "down"
    /\ base' = IF good THEN "up" ELSE "down"
    /\ live' = IF good THEN {target} ELSE {}
    /\ on' = [on EXCEPT ![target] = good]
    /\ prepared' = good

AddProfile(good) ==
    /\ live' = IF good THEN live \union {target} ELSE live \ {target}
    /\ on' = [on EXCEPT ![target] = good \/ @]
    /\ UNCHANGED <<base, prepared>>

RemoveProfile(good) ==
    /\ good
    /\ live' = IF on[target] THEN live \ {target} ELSE live
    /\ on' = [on EXCEPT ![target] = FALSE]
    /\ UNCHANGED <<base, prepared>>

\* BTstack goes down only if the host knows that it is up.
StopHost(good) ==
    /\ good
    /\ base' = IF prepared THEN "down" ELSE base
    /\ live' = IF prepared THEN {} ELSE
               IF on[target] THEN live \ {target} ELSE live
    /\ on' = [on EXCEPT ![target] = FALSE]
    /\ prepared' = FALSE

\* run_transition_under_lock: do it and note the verdict, then clear it.
RunTransition(t) ==
    /\ pass[t] = "handler" /\ transition # "NONE"
    /\ \E good \in BOOLEAN :
          /\ CASE transition = "START" -> StartHost(good)
               [] transition = "ADD" -> AddProfile(good)
               [] transition = "REMOVE" -> RemoveProfile(good)
               [] transition = "STOP" -> StopHost(good)
          /\ verdict' = IF good THEN "OK" ELSE "BAD"
          /\ PassTo(t, IF good THEN "ran" ELSE "refused")
    /\ strayed' = (strayed \/ t # b)
    /\ QuietRadio
    /\ UNCHANGED <<transition, target, started, failed, stopping, attached,
                   reference, hooked, host>>

ClearTransition(t) ==
    /\ pass[t] \in {"ran", "refused"}
    /\ transition' = "NONE"
    /\ Pass(t, pass[t] = "ran")
    /\ PassTo(t, "none")
    /\ UNCHANGED <<verdict, target, flags, on, reference, btstack, hooked, host,
                   strayed>>

-----------------------------------------------------------------------------
(* The radio's steps.  A restart tells the host, in the task that restarts:  *)
(* its references are stale and its handler refuses every pass from then on. *)

RestartTold(t) == job[t].kind = "restart" /\ refs["bluetooth"] # 0 /\ hooked

\* (mutant: the host is not told)
WarnHostNot(t) == Warn(t) /\ UNCHANGED hostVars

WarnHost(t) ==
    /\ Warn(t)
    /\ IF RestartTold(t) /\ ~stopping
       THEN /\ failed' = TRUE
            /\ reference' = [p \in Profile |->
                                IF reference[p] = "none" THEN "none"
                                                         ELSE "stale"]
       ELSE UNCHANGED <<failed, reference>>
    /\ UNCHANGED <<mailbox, started, stopping, attached, prepared, on, btstack,
                   hooked, host, pass, strayed>>

\* The chip is reset under whatever BTstack was doing with it.
HaltChip(t) ==
    /\ StopChip(t)
    /\ base' = IF base = "up" THEN "orphan" ELSE base
    /\ UNCHANGED <<mailbox, flags, on, reference, live, hooked, host, pass,
                   strayed>>

\* Every other step of a call, a pass apart.
RadioStep(t) ==
    /\ \/ Snapshot(t) \/ Publish(t)
       \/ AcquireReference(t) \/ StartChip(t) \/ Abandon(t)
       \/ StartService(t) \/ Commit(t)
       \/ TryStop(t) \/ Bounce(t) \/ Tell(t)
       \/ LockToStop(t) \/ Stopped(t) \/ Broken(t)
       \/ EnterService(t) \/ TakeStack(t) \/ Admit(t)
       \/ Verify(t) \/ Unwind(t) \/ LetGo(t)
    /\ UNCHANGED hostVars

WifiCall(t) ==
    /\ \/ Acquire(t, "wifi") \/ Release(t, "wifi") \/ Enter(t, "wifi")
       \/ Restart(t) \/ Leave(t) \/ BeginOperation(t) \/ FinishOperation(t)
    /\ UNCHANGED hostVars

HostCall == \/ \E p \in Profile : AcquireHost(p) \/ ReleaseHost(p)
            \/ Poll

HostStep == \/ Attach \/ Attached \/ Execute \/ Served
            \/ Acquired \/ Undo \/ Removed \/ Detach \/ Detached

TaskStep(t) == \/ PassDriver(t) \/ Handler(t) \/ RunTransition(t)
               \/ ClearTransition(t) \/ WarnHost(t) \/ HaltChip(t)
               \/ RadioStep(t)

HostNext == \/ \E t \in Task \ {Bluetooth} : WifiCall(t)
            \/ HostCall \/ HostStep
            \/ \E t \in Task : TaskStep(t)

HostSpec == HostInit /\ [][HostNext]_allVars
-----------------------------------------------------------------------------
IsCurrent(p) == reference[p] = "current" /\ started /\ ~failed

\* A reference the application may use (jh_bluetooth_host_reference_is_current)
\* has all it needs under it: BTstack was brought up on this run of the chip,
\* its profile is started, the handler is registered, and Bluetooth holds the
\* one reference that keeps the radio on.
ReferenceIsBacked ==
    \A p \in Profile : IsCurrent(p) =>
        base = "up" /\ p \in live /\ hooked /\ attached /\ refs["bluetooth"] = 1

\* Unless a transition ran where its caller does not take it to have run, or
\* the radio refused to take its reference back, a call that fails is rolled
\* back completely: between calls BTstack, its profiles, the handlers and the
\* radio's reference are exactly what the references that are held call for
\* (jh_bluetooth_host_runtime_acquire, jh_bluetooth_host_runtime_release).
RolledBack ==
    At("idle") /\ ~strayed =>
        /\ base # "down" <=> Held # {}
        /\ live = Held
        /\ hooked <=> Held # {}
        /\ refs["bluetooth"] = IF Held = {} THEN 0 ELSE 1
=============================================================================
