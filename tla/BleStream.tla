------------------------------ MODULE BleStream -----------------------------
(* The Bluetooth LE stream: authenticated sessions over one GATT service     *)
(* (hal_ble_stream.cpp, jh_ble_stream_session.c), the runtime that forwards  *)
(* the backend's events to it (hal_ble.cpp), and the backend that holds one  *)
(* notification at a time (jh_ble_btstack_backend.c).                        *)
(*                                                                           *)
(* Each of the three has its mutex, and an event goes from one to the next   *)
(* with none held.  BTstack itself runs in a service pass of the radio, one  *)
(* at a time, in whichever task makes it; one task makes the BLE calls, and  *)
(* another the calls of the stream.                                          *)
(*                                                                           *)
(* Lengths and the MTU are left out: a frame or a payload that does not fit  *)
(* is refused before anything changes.  The client is anyone in range: it    *)
(* may send a right proof or a wrong one, and a frame sealed or forged.      *)
EXTENDS Integers, Sequences

CONSTANTS
    None,          \* no frame
    MaxCounter,    \* UINT64_MAX - 1: the last counter of a session
    QueueDepth,    \* HAL_BLE_STREAM_RX_QUEUE_DEPTH and _TX_QUEUE_DEPTH
    AttemptLimit,  \* HAL_BLE_STREAM_AUTH_ATTEMPT_LIMIT
    MaxSessions,   \* how many sessions are begun, at most
    MaxGenerations \* the generations of BLE that come to an end

ASSUME StreamAssumption == /\ MaxCounter \in Nat \ {0}
                           /\ QueueDepth \in Nat \ {0}
                           /\ AttemptLimit \in Nat \ {0}
                           /\ MaxSessions \in Nat
                           /\ MaxGenerations \in Nat

VARIABLES
    ble,      \* hal_ble: its state, its generation, whether it has a connection
    back,     \* the backend: the link, the service and the one notification
    stream,   \* the stream runtime and its session
    pass,     \* where the service pass is, and the event it carries
    task,     \* where the BLE task is
    app,      \* where the stream's task is, and the generation it read
    begun,    \* how many sessions have begun
    nonces,   \* the counters this session's data frames went out with
    forgotten \* a second initialize forgot a frame that was on its way

vars == <<ble, back, stream, pass, task, app, begun, nonces, forgotten>>

\* What the client writes.
Frames == {"hello", "auth", "data", "forged", "close", "junk"}
NoEvent == [type |-> "none", arg |-> "none"]
Idle == [at |-> "idle", event |-> NoEvent]

Init ==
    /\ ble = [state |-> "down", generation |-> 0, connected |-> FALSE]
    /\ back = [started |-> FALSE, linked |-> FALSE, published |-> FALSE,
               subscribed |-> FALSE, staged |-> None, sending |-> FALSE,
               waiting |-> FALSE, dispatching |-> FALSE]
    /\ stream = [initialized |-> FALSE, active |-> FALSE,
                 state |-> "UNINITIALIZED", subscribed |-> FALSE,
                 attached |-> FALSE, generation |-> 0, secret |-> FALSE,
                 attempts |-> 0, pending |-> FALSE, control |-> FALSE,
                 session |-> "IDLE", id |-> 0, txCounter |-> 0,
                 rxCounter |-> 0, sent |-> 0, tx |-> <<>>, rx |-> <<>>,
                 overflow |-> FALSE]
    /\ pass = Idle
    /\ task = "idle"
    /\ app = [at |-> "idle", generation |-> 0]
    /\ begun = 0
    /\ nonces = {}
    /\ forgotten = FALSE

-----------------------------------------------------------------------------
(* The backend's own state.  What it has of a notification goes when the     *)
(* link, the subscription or the service goes.                               *)

Dropped == [back EXCEPT !.subscribed = FALSE, !.staged = None,
                        !.sending = FALSE, !.waiting = FALSE,
                        !.dispatching = FALSE]

NotifyStatus(s, k) ==
    IF ~(k.started /\ k.linked /\ s.attached) THEN "ENOENT"
    ELSE IF ~k.subscribed THEN "ESTATE"
    ELSE IF k.staged # None THEN "EAGAIN" ELSE "OK"

DiscardStatus(s, k) ==
    IF ~(k.started /\ k.linked /\ s.attached) THEN "ENOENT"
    ELSE IF k.sending \/ k.dispatching THEN "EBUSY" ELSE "OK"

-----------------------------------------------------------------------------
(* The stream, under its mutex, as operators from its state s and the        *)
(* backend's state k.                                                        *)

Usable == stream.initialized /\ ~stream.active

Resting(s) == IF s.subscribed THEN "SUBSCRIBED" ELSE "IDLE"

ClearQueues(s) == [s EXCEPT !.tx = <<>>, !.rx = <<>>, !.overflow = FALSE,
                            !.sent = 0]

Cut(s) == [ClearQueues(s) EXCEPT !.session = "IDLE", !.id = 0, !.txCounter = 0,
                                 !.rxCounter = 0, !.control = FALSE]

\* (mutant: a close lifts the backoff)
ClosedToRest(s) == [Cut(s) EXCEPT !.state = Resting(s)]

\* close_session_locked: what the backend holds stays, and so does a backoff.
Closed(s) == [Cut(s) EXCEPT !.state = IF @ = "BACKOFF" THEN @ ELSE Resting(s)]

\* (mutant: what was handed over is still waited for)
DetachedPending(s) == Closed([s EXCEPT !.subscribed = FALSE,
                                       !.attached = FALSE])

Detached(s) == Closed([s EXCEPT !.subscribed = FALSE, !.attached = FALSE,
                                !.pending = FALSE])

\* Something to send, and nothing on its way.
Ready(s) == /\ ~s.pending
            /\ \/ s.control
               \/ s.tx # <<>> /\ s.session = "AUTHENTICATED"

Exhausted(s) == ~s.control /\ s.txCounter = MaxCounter

Hands(s, k) == Ready(s) /\ ~Exhausted(s) /\ NotifyStatus(s, k) = "OK"

\* flush_tx_locked.  A data frame is sealed before it is offered, with the
\* next counter; refused for now, the counter goes back to the last one sent.
Flushed(s, k) ==
    CASE ~Ready(s) -> s
      [] Hands(s, k) ->
            IF s.control THEN [s EXCEPT !.control = FALSE, !.pending = TRUE]
            ELSE [s EXCEPT !.tx = Tail(@), !.pending = TRUE,
                           !.txCounter = @ + 1, !.sent = s.txCounter + 1]
      [] Ready(s) /\ ~Exhausted(s) /\ NotifyStatus(s, k) = "EAGAIN" ->
            IF s.control THEN s ELSE [s EXCEPT !.txCounter = s.sent]
      [] OTHER -> Closed(s)

FrameOf(s) ==
    IF s.control THEN [kind |-> "control", of |-> s.id, counter |-> 0]
                 ELSE [kind |-> "data", of |-> s.id, counter |-> s.txCounter + 1]

\* What a flush of s leaves in the backend, and the counters that are used.
Staged(s, k) == IF Hands(s, k) THEN [k EXCEPT !.staged = FrameOf(s)] ELSE k

Used(s, k, n) ==
    IF s.session # "AUTHENTICATED" THEN {}
    ELSE n \union IF Hands(s, k) /\ ~s.control THEN {s.txCounter + 1} ELSE {}

Hand(s, k) == back' = Staged(s, k) /\ nonces' = Used(s, k, nonces)

Flush(s) == stream' = Flushed(s, back) /\ Hand(s, back)
Set(s) == stream' = s /\ UNCHANGED <<back, nonces>>

-----------------------------------------------------------------------------
(* The service pass: one BTstack callback, or one notification, at a time.   *)
(* The backend's part first, then hal_ble's, then the stream's.              *)

Serving == pass.at = "idle" /\ back.started

To(type, arg) == pass' = [at |-> "ble", event |-> [type |-> type, arg |-> arg]]

QuietStream == UNCHANGED <<stream, begun, nonces>>
QuietTasks == UNCHANGED <<task, app, forgotten>>

Connect == /\ Serving /\ ~back.linked
           /\ back' = [Dropped EXCEPT !.linked = TRUE]
           /\ To("connected", "none")
           /\ QuietStream /\ QuietTasks /\ UNCHANGED ble

Disconnect == /\ Serving /\ back.linked
              /\ back' = [Dropped EXCEPT !.linked = FALSE]
              /\ To("disconnected", "none")
              /\ QuietStream /\ QuietTasks /\ UNCHANGED ble

\* att_write_callback, for the client's configuration ...
Subscribe(on) ==
    /\ Serving /\ back.linked /\ back.published
    /\ back' = IF on THEN [back EXCEPT !.subscribed = TRUE] ELSE Dropped
    /\ To("subscription", IF on THEN "on" ELSE "off")
    /\ QuietStream /\ QuietTasks /\ UNCHANGED ble

\* ... and for a frame.
Write(f) ==
    /\ Serving /\ back.linked /\ back.published
    /\ f = "hello" => begun < MaxSessions
    /\ To("write", f)
    /\ QuietStream /\ QuietTasks /\ UNCHANGED <<ble, back>>

CanSendNow == /\ Serving /\ back.waiting
              /\ back' = [back EXCEPT !.waiting = FALSE]
              /\ QuietStream /\ QuietTasks /\ UNCHANGED <<ble, pass>>

\* service_stream_notification_under_radio_lock: the frame is copied, ...
TakeFrame ==
    /\ Serving /\ back.linked /\ back.subscribed /\ back.staged # None
    /\ ~back.waiting /\ ~back.sending
    /\ back' = [back EXCEPT !.sending = TRUE]
    /\ pass' = [at |-> "notify", event |-> NoEvent]
    /\ QuietStream /\ QuietTasks /\ UNCHANGED ble

\* ... and handed to L2CAP with no mutex held.  Without room it stays; its
\* completion is told only if nobody has withdrawn it meanwhile.
NoRoom ==
    /\ pass.at = "notify"
    /\ back' = IF back.sending
               THEN [back EXCEPT !.waiting = TRUE, !.sending = FALSE] ELSE back
    /\ pass' = Idle
    /\ QuietStream /\ QuietTasks /\ UNCHANGED ble

Notified(good) ==
    /\ pass.at = "notify"
    /\ IF back.sending
       THEN /\ back' = [back EXCEPT !.staged = None, !.waiting = FALSE,
                                    !.sending = FALSE, !.dispatching = TRUE]
            /\ To("cansend", IF good THEN "sent" ELSE "failed")
       ELSE pass' = Idle /\ UNCHANGED back
    /\ QuietStream /\ QuietTasks /\ UNCHANGED ble

\* Back in the backend; a notification has a last step to make.
EventOver == pass' = IF pass.event.type = "cansend"
                     THEN [pass EXCEPT !.at = "after"] ELSE Idle

\* backend_event: a connection of hal_ble's own, and nothing once it failed.
Known == \/ pass.event.type = "connected"
         \/ ble.connected

Forward ==
    /\ pass.at = "ble"
    /\ IF ble.state # "up" \/ ~Known
       THEN EventOver /\ UNCHANGED ble
       ELSE CASE pass.event.type = "connected" ->
                    /\ ble' = [ble EXCEPT !.connected = TRUE]
                    /\ pass' = Idle
              [] pass.event.type = "disconnected" ->
                    /\ ble' = [ble EXCEPT !.connected = FALSE]
                    /\ pass' = [at |-> "lost",
                                event |-> [type |-> "lost",
                                           arg |-> ble.generation]]
              [] OTHER -> /\ pass' = [pass EXCEPT !.at = "stream"]
                          /\ UNCHANGED ble
    /\ QuietStream /\ QuietTasks /\ UNCHANGED back

\* The end of the notification's part: a discard may be had again.
AfterEvent ==
    /\ pass.at = "after"
    /\ back' = [back EXCEPT !.dispatching = FALSE]
    /\ pass' = Idle
    /\ QuietStream /\ QuietTasks /\ UNCHANGED ble

-----------------------------------------------------------------------------
(* jh_ble_stream_on_backend_event.                                           *)

Handling(type) == pass.at = "stream" /\ pass.event.type = type

Handled == EventOver /\ QuietTasks /\ UNCHANGED ble

\* During an operation the stream hears nothing.
Unheard ==
    /\ pass.at = "stream" /\ ~Usable
    /\ Handled /\ QuietStream /\ UNCHANGED back

OnSubscription ==
    /\ Handling("subscription") /\ Usable
    /\ LET s == [stream EXCEPT !.subscribed = (pass.event.arg = "on"),
                               !.attached = TRUE]
       IN  IF s.subscribed
           THEN Set([s EXCEPT !.state = IF @ = "IDLE" THEN "SUBSCRIBED" ELSE @])
           ELSE Set(Closed([s EXCEPT !.pending = FALSE]))
    /\ Handled /\ UNCHANGED begun

OnCanSend ==
    /\ Handling("cansend") /\ Usable
    /\ LET s == [stream EXCEPT !.pending = FALSE]
       IN  IF pass.event.arg = "sent" THEN Flush(s) ELSE Set(Closed(s))
    /\ Handled /\ UNCHANGED begun

\* (mutant: a proof is taken again from a session that has begun)
AcceptedTwice(s, f) == \/ f = "hello" /\ s.secret
                       \/ f = "auth" /\ s.session # "IDLE"
                       \/ /\ f = "data" /\ s.session = "AUTHENTICATED"
                          /\ s.rxCounter < MaxCounter

\* jh_ble_stream_session_handle_frame, as to whether a frame is accepted and,
\* if it is not, whether it counts as a failed authentication.
Accepted(s, f) == \/ f = "hello" /\ s.secret
                  \/ f = "auth" /\ s.session = "HANDSHAKING"
                  \/ /\ f = "data" /\ s.session = "AUTHENTICATED"
                     /\ s.rxCounter < MaxCounter

Denied(s, f) == \/ f = "hello" /\ ~s.secret
                \/ f = "data" /\ s.session # "AUTHENTICATED"
                \/ f = "forged"

Failure(s) == [s EXCEPT !.attempts = @ + 1,
                        !.state = IF s.attempts + 1 >= AttemptLimit
                                  THEN "BACKOFF" ELSE @]

\* The backoff is over: the deadline was reached.
Lapsed(s) == [s EXCEPT !.attempts = 0, !.state = Resting(s)]
Backoff(s) == {s} \union IF s.state = "BACKOFF" THEN {Lapsed(s)} ELSE {}

\* The state of the stream is that of its session, if it has one still.
Follow(s) == CASE s.session = "AUTHENTICATED" ->
                    [s EXCEPT !.state = "AUTHENTICATED", !.attempts = 0]
               [] s.session = "HANDSHAKING" ->
                    [s EXCEPT !.state = "HANDSHAKING"]
               [] OTHER -> s

\* (mutant: what was queued before it stays queued)
HelloKeeps(s, id) == [s EXCEPT !.session = "HANDSHAKING", !.id = id,
                               !.txCounter = 0, !.rxCounter = 0,
                               !.control = TRUE]

\* A HELLO opens a new session, with new keys and empty queues, ...
Hello(s, id) == [ClearQueues(s) EXCEPT !.session = "HANDSHAKING", !.id = id,
                                       !.txCounter = 0, !.rxCounter = 0,
                                       !.control = TRUE]

Authenticated(s) == [s EXCEPT !.session = "AUTHENTICATED", !.txCounter = 0,
                              !.rxCounter = 0, !.control = TRUE]

Payload(s) == IF Len(s.rx) = QueueDepth
              THEN [s EXCEPT !.rxCounter = @ + 1, !.overflow = TRUE]
              ELSE [s EXCEPT !.rxCounter = @ + 1, !.rx = Append(@, s.id)]

\* What is answered is flushed before the state follows.
Answers(s, k) == stream' = Follow(Flushed(s, k)) /\ Hand(s, k)
Takes(s, k) == stream' = s /\ back' = k /\ UNCHANGED nonces

Receives(s, k, f) ==
    \/ Accepted(s, f) /\ f = "hello" /\ Answers(Hello(s, begun + 1), k)
    \/ Accepted(s, f) /\ f = "auth" /\ Answers(Authenticated(s), k)
    \/ Accepted(s, f) /\ f = "data" /\ Takes(Follow(Payload(s)), k)
    \/ Denied(s, f) /\ Takes(Closed(Failure(s)), k)
    \/ ~Accepted(s, f) /\ ~Denied(s, f) /\ Takes(Closed(s), k)

\* (mutant: what was handed to the backend goes out)
WithdrawsNot(s, f) == FALSE

\* A HELLO first withdraws the frame that was handed to the backend.
Withdraws(s, f) == f = "hello" /\ s.pending

\* A frame is dropped during a backoff, or while an answer waits.
OnWrite ==
    /\ Handling("write") /\ Usable
    /\ \E s \in Backoff(stream) :
          LET f == pass.event.arg
              withdraw == Withdraws(s, f)
              discarded == DiscardStatus(s, back)
              heard == /\ s.state # "BACKOFF" /\ ~s.control
                       /\ withdraw => discarded = "OK"
          IN  /\ CASE heard /\ withdraw ->
                         Receives([s EXCEPT !.pending = FALSE],
                                  [back EXCEPT !.staged = None], f)
                   [] heard /\ ~withdraw -> Receives(s, back, f)
                   [] OTHER ->
                         Set(IF /\ s.state # "BACKOFF" /\ ~s.control
                                /\ discarded # "EBUSY"
                             THEN Closed(s) ELSE s)
              /\ begun' = IF heard /\ f = "hello" /\ Accepted(s, f)
                          THEN begun + 1 ELSE begun
    /\ Handled

\* jh_ble_stream_on_link_lost, even during an operation.
LinkLost(generation) ==
    IF stream.initialized
    THEN Set(Detached([stream EXCEPT !.generation = generation]))
    ELSE Set(stream)

OnDisconnected == /\ pass.at = "lost"
                  /\ LinkLost(pass.event.arg)
                  /\ pass' = Idle
                  /\ QuietTasks /\ UNCHANGED <<ble, begun>>

-----------------------------------------------------------------------------
(* The BLE task: hal_ble_initialize, hal_ble_deinitialize, hal_ble_poll.  A  *)
(* start or a stop of the backend is made in a service pass.                 *)

TaskOnly == UNCHANGED <<pass, app, begun, forgotten>>

BleStart ==
    /\ task = "idle" /\ ble.state = "down" /\ pass.at = "idle"
    /\ ble' = [state |-> "up", generation |-> ble.generation + 1,
               connected |-> FALSE]
    /\ back' = [back EXCEPT !.started = TRUE]
    /\ TaskOnly /\ UNCHANGED <<stream, task, nonces>>

\* ble_profile_stop: the service stays published.
StopBackend ==
    /\ task = "idle" /\ ble.state # "down" /\ pass.at = "idle"
    /\ ble.state = "up" => ble.generation < MaxGenerations
    /\ back' = [Dropped EXCEPT !.started = FALSE, !.linked = FALSE]
    /\ task' = "stopped"
    /\ TaskOnly /\ UNCHANGED <<ble, stream, nonces>>

Lose(state) == ble' = [state |-> state, generation |-> ble.generation + 1,
                       connected |-> FALSE]

BleStopped ==
    /\ task = "stopped"
    /\ Lose("down")
    /\ task' = "lost"
    /\ TaskOnly /\ UNCHANGED <<back, stream, nonces>>

\* fail_runtime_locked: the pass of a poll found the radio broken.
BleFailed ==
    /\ task = "idle" /\ ble.state = "up"
    /\ ble.generation < MaxGenerations
    /\ Lose("failed")
    /\ task' = "lost"
    /\ TaskOnly /\ UNCHANGED <<back, stream, nonces>>

\* (mutant: the stream is not told)
TellNobody == /\ task = "lost"
              /\ task' = "idle"
              /\ TaskOnly /\ UNCHANGED <<ble, back, stream, nonces>>

TellStream == /\ task = "lost"
              /\ LinkLost(ble.generation)
              /\ task' = "idle"
              /\ TaskOnly /\ UNCHANGED ble

\* jh_ble_stream_on_poll: a backoff or a session may have timed out.
Poll ==
    /\ task = "idle" /\ ble.state = "up" /\ Usable
    /\ \E s \in Backoff(stream) :
          \/ Flush(s)
          \/ s.state = "AUTHENTICATED" /\ Set(Closed(s))
    /\ TaskOnly /\ UNCHANGED <<ble, task>>

-----------------------------------------------------------------------------
(* The stream's task.                                                        *)

AtApp(where) == app.at = where
AppTo(where) == app' = [app EXCEPT !.at = where]
AppOnly == UNCHANGED <<ble, pass, task, begun, forgotten>>
Calls == AtApp("idle") /\ Usable

\* stream_send; a queue that is full refuses.
Send ==
    /\ Calls /\ stream.state = "AUTHENTICATED" /\ Len(stream.tx) < QueueDepth
    /\ Flush([stream EXCEPT !.tx = Append(@, stream.id)])
    /\ AppOnly /\ UNCHANGED app

\* stream_receive: an overflow is told first.
Receive ==
    /\ Calls /\ (stream.overflow \/ stream.rx # <<>>)
    /\ Set(IF stream.overflow THEN [stream EXCEPT !.overflow = FALSE]
                              ELSE [stream EXCEPT !.rx = Tail(@)])
    /\ AppOnly /\ UNCHANGED app

SetSecret ==
    /\ Calls /\ Set([Closed(stream) EXCEPT !.secret = TRUE])
    /\ AppOnly /\ UNCHANGED app

ClearSecret ==
    /\ Calls /\ Set([Closed(stream) EXCEPT !.secret = FALSE])
    /\ AppOnly /\ UNCHANGED app

CloseSession ==
    /\ Calls /\ Set(Closed(stream))
    /\ AppOnly /\ UNCHANGED app

\* hal_ble_stream_initialize reads hal_ble's state, ...
Look ==
    /\ AtApp("idle") /\ ble.state = "up"
    /\ app' = [at |-> "looked", generation |-> ble.generation]
    /\ AppOnly /\ UNCHANGED <<back, stream, nonces>>

\* ... follows a new run of it if the stream is in use, forgetting a frame that
\* is on its way, ...
Rebind ==
    /\ AtApp("looked") /\ stream.initialized
    /\ IF stream.generation = app.generation
       THEN Set(stream) /\ UNCHANGED forgotten
       ELSE /\ Set(Detached([stream EXCEPT !.generation = app.generation]))
            /\ forgotten' = (forgotten \/ stream.pending)
    /\ AppTo("idle")
    /\ UNCHANGED <<ble, pass, task, begun>>

Begin ==
    /\ AtApp("looked") /\ ~stream.initialized
    /\ Set([stream EXCEPT !.active = TRUE])
    /\ AppTo("publish")
    /\ AppOnly

\* ... publishes the service, ...
Publish ==
    /\ AtApp("publish")
    /\ IF back.started /\ back.staged = None /\ ~back.sending
          /\ ~back.dispatching
       THEN back' = [back EXCEPT !.published = TRUE] /\ AppTo("commit")
       ELSE AppTo("withdraw") /\ UNCHANGED back
    /\ AppOnly /\ UNCHANGED <<stream, nonces>>

\* ... and looks again before it takes what it read for true.
Current == ble.state = "up" /\ ble.generation = app.generation

Emptied(initialized, state, generation) ==
    [Cut(stream) EXCEPT !.initialized = initialized, !.active = FALSE,
                        !.state = state, !.generation = generation,
                        !.subscribed = FALSE, !.attached = FALSE,
                        !.pending = FALSE, !.secret = FALSE, !.attempts = 0]

Commit ==
    /\ AtApp("commit")
    /\ IF Current
       THEN Set(Emptied(TRUE, "IDLE", app.generation)) /\ AppTo("idle")
       ELSE Set(stream) /\ AppTo("withdraw")
    /\ AppOnly

Unpublish ==
    /\ AtApp("withdraw")
    /\ back' = [Dropped EXCEPT !.published = FALSE]
    /\ AppTo("clear")
    /\ AppOnly /\ UNCHANGED <<stream, nonces>>

Clear == /\ AtApp("clear")
         /\ Set(Emptied(FALSE, "UNINITIALIZED", stream.generation))
         /\ AppTo("idle")
         /\ AppOnly

\* hal_ble_stream_deinitialize takes the service down, then the stream.
Deinitialize ==
    /\ Calls
    /\ Set([stream EXCEPT !.active = TRUE])
    /\ AppTo("withdraw")
    /\ AppOnly

-----------------------------------------------------------------------------
Callback == \/ Connect \/ Disconnect \/ CanSendNow
            \/ \E on \in BOOLEAN : Subscribe(on)
            \/ \E f \in Frames : Write(f)

Service == \/ TakeFrame \/ NoRoom \/ Forward \/ AfterEvent
           \/ \E good \in BOOLEAN : Notified(good)
           \/ Unheard \/ OnSubscription \/ OnCanSend \/ OnWrite
           \/ OnDisconnected

Bluetooth == \/ BleStart \/ StopBackend \/ BleStopped \/ BleFailed
             \/ TellStream \/ Poll

Application == \/ Send \/ Receive \/ SetSecret \/ ClearSecret \/ CloseSession
               \/ Look \/ Rebind \/ Begin \/ Publish \/ Commit
               \/ Unpublish \/ Clear \/ Deinitialize

Next == Callback \/ Service \/ Bluetooth \/ Application

Spec == Init /\ [][Next]_vars

-----------------------------------------------------------------------------
Event == [type: {"none", "connected", "disconnected", "subscription",
                 "cansend"}, arg: {"none", "on", "off", "sent", "failed"}]
            \union [type: {"write"}, arg: Frames]
            \union [type: {"lost"}, arg: Nat]

Stream == [initialized: BOOLEAN, active: BOOLEAN,
           state: {"UNINITIALIZED", "IDLE", "SUBSCRIBED", "HANDSHAKING",
                   "AUTHENTICATED", "BACKOFF"},
           subscribed: BOOLEAN, attached: BOOLEAN, generation: Nat,
           secret: BOOLEAN, attempts: Nat, pending: BOOLEAN,
           control: BOOLEAN, session: {"IDLE", "HANDSHAKING", "AUTHENTICATED"},
           id: Nat, txCounter: 0 .. MaxCounter, rxCounter: 0 .. MaxCounter,
           sent: 0 .. MaxCounter, tx: Seq(Nat), rx: Seq(Nat),
           overflow: BOOLEAN]

Frame == [kind: {"control", "data"}, of: Nat, counter: Nat]

\* Nothing to send is told from whatever is sent.
ASSUME NoneIsNoFrame == None \notin Frame

Backend == [started: BOOLEAN, linked: BOOLEAN, published: BOOLEAN,
            subscribed: BOOLEAN, staged: Frame \union {None},
            sending: BOOLEAN, waiting: BOOLEAN, dispatching: BOOLEAN]

\* The types of the variables.
TypeOK ==
    /\ ble \in [state: {"down", "up", "failed"}, generation: Nat,
               connected: BOOLEAN]
    /\ back \in Backend
    /\ stream \in Stream
    /\ pass \in [at: {"idle", "notify", "ble", "stream", "lost", "after"},
                event: Event]
    /\ pass.at = "lost" => pass.event.arg \in Nat
    /\ task \in {"idle", "stopped", "lost"}
    /\ app \in [at: {"idle", "looked", "publish", "commit", "withdraw",
                    "clear"}, generation: Nat]
    /\ begun \in Nat
    /\ nonces \subseteq Nat
    /\ forgotten \in BOOLEAN

\* Application payloads belong to exactly one authenticated session
\* (clear_payload_queues_locked): what is queued, in either direction, was
\* queued in the session that is there now.
PayloadsStay ==
    /\ stream.session # "AUTHENTICATED" => stream.tx = <<>> /\ stream.rx = <<>>
    /\ \A i \in DOMAIN stream.tx : stream.tx[i] = stream.id
    /\ \A i \in DOMAIN stream.rx : stream.rx[i] = stream.id

\* No frame of a session goes out in the next one, whose HELLO withdraws it
\* (jh_ble_stream_on_backend_event): what the backend has still to send once a
\* session has begun is of that session, unless a second initialize forgot a
\* frame that was on its way.
FramesStay ==
    stream.session # "IDLE" /\ back.staged # None /\ ~forgotten =>
        back.staged.of = stream.id

\* No two data frames of a session go out with the same counter, which is the
\* nonce of its key (jh_ble_stream_session_build_data): the counter goes back
\* only for a frame that the backend did not take.
NonceOnce ==
    [][back'.staged \notin {back.staged, None} /\ back'.staged.kind = "data" =>
          back'.staged.counter \notin nonces]_vars

Between == pass = Idle /\ task = "idle" /\ app.at = "idle"

\* A stream that waits for a notification has one on its way: otherwise
\* nothing would ever tell it to go on, and no frame would be sent again.
PendingIsReal == Between /\ stream.pending => back.staged # None

\* No session outlives its link: whichever of the disconnection, the failure,
\* the stop of BLE and the calls of the stream come last.
NoneOutlivesLink ==
    Between /\ (ble.state # "up" \/ ~back.linked) =>
        stream.session = "IDLE"

\* Whoever failed too often waits for the deadline: closing the session,
\* losing the link or a new secret does not let it in before.
BackoffHolds ==
    stream.initialized /\ stream.attempts >= AttemptLimit =>
        stream.state = "BACKOFF" /\ stream.session = "IDLE"
=============================================================================
