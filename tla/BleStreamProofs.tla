--------------------------- MODULE BleStreamProofs --------------------------
(* Proofs about BleStream.                                                   *)
EXTENDS BleStream, TLAPS

-----------------------------------------------------------------------------
(* What holds of the stream's record s with the used counters n, each part   *)
(* by itself, so that it can be followed through the operators.              *)

Held(s) == s.initialized /\ s.attempts >= AttemptLimit =>
              s.state = "BACKOFF" /\ s.session = "IDLE"

Own(s) == /\ s.session # "AUTHENTICATED" => s.tx = <<>> /\ s.rx = <<>>
          /\ \A i \in DOMAIN s.tx : s.tx[i] = s.id
          /\ \A i \in DOMAIN s.rx : s.rx[i] = s.id

Counted(s, n) == /\ n \subseteq Nat
                 /\ s.session = "AUTHENTICATED" =>
                       s.sent = s.txCounter /\ \A c \in n : c <= s.txCounter
                 /\ s.session = "HANDSHAKING" => s.sent = 0

Fresh(s, n) == s.session = "HANDSHAKING" => n = {}

Agree(s) == s.state = "AUTHENTICATED" => s.session = "AUTHENTICATED"

Core(s, n) == s \in Stream /\ Held(s) /\ Own(s) /\ Counted(s, n)

Good(s, n) == Core(s, n) /\ Fresh(s, n) /\ Agree(s)

\* A close makes a stream good, if only the backoff is right before it.
LEMMA ClosedIsGood ==
    ASSUME NEW s \in Stream, NEW n \in SUBSET Nat,
           s.initialized /\ s.attempts >= AttemptLimit => s.state = "BACKOFF"
    PROVE  Good(Closed(s), n) /\ Closed(s).session = "IDLE"
<1>0. 0 \in 0 .. MaxCounter /\ <<>> \in Seq(Nat)
  BY StreamAssumption
<1>a. ClearQueues(s) \in Stream
  BY <1>0 DEF ClearQueues, Stream
<1>b. Cut(s) \in Stream
  BY <1>0, <1>a DEF Cut, Stream
<1>1. Closed(s) \in Stream
  BY <1>b DEF Closed, Resting, Stream
<1>2. /\ Closed(s).session = "IDLE"
      /\ Closed(s).tx = <<>> /\ Closed(s).rx = <<>>
      /\ Closed(s).initialized = s.initialized
      /\ Closed(s).attempts = s.attempts
      /\ Closed(s).state = IF s.state = "BACKOFF" THEN s.state ELSE Resting(s)
  BY DEF Closed, Cut, ClearQueues, Resting, Stream
<1>3. Resting(s) # "AUTHENTICATED"
  BY DEF Resting
<1> QED
  BY <1>1, <1>2, <1>3 DEF Good, Core, Held, Own, Counted, Fresh, Agree

LEMMA DetachedIsGood ==
    ASSUME NEW s \in Stream, NEW n \in SUBSET Nat,
           s.initialized /\ s.attempts >= AttemptLimit => s.state = "BACKOFF"
    PROVE  Good(Detached(s), n)
<1> DEFINE t == [s EXCEPT !.subscribed = FALSE, !.attached = FALSE,
                          !.pending = FALSE]
<1>1. t \in Stream /\ t.initialized = s.initialized /\ t.attempts = s.attempts
      /\ t.state = s.state
  BY DEF Stream
<1>2. Good(Closed(t), n)
  BY <1>1, ClosedIsGood
<1> QED
  BY <1>2 DEF Detached

\* A flush keeps a stream good, and clears the counters of a new session.
LEMMA FlushedIsGood ==
    ASSUME NEW s, NEW k, NEW n, Core(s, n)
    PROVE  /\ Core(Flushed(s, k), Used(s, k, n))
           /\ Fresh(Flushed(s, k), Used(s, k, n))
           /\ Agree(s) => Agree(Flushed(s, k))
           /\ Flushed(s, k).session = "IDLE" /\ s.session # "IDLE" =>
                 Agree(Flushed(s, k))
           /\ Flushed(s, k).initialized = s.initialized
<1> DEFINE f == Flushed(s, k)
           u == Used(s, k, n)
<1>0. s \in Stream /\ n \subseteq Nat /\ Held(s) /\ Own(s) /\ Counted(s, n)
  BY DEF Core, Counted
<1>t. s.txCounter \in Nat
  BY <1>0, StreamAssumption DEF Stream
<1>a. s.session # "AUTHENTICATED" => u = {}
  BY DEF Used
<1>b. u \subseteq n \union {s.txCounter + 1}
  BY DEF Used
<1>c. ~(Hands(s, k) /\ ~s.control) => u \subseteq n
  BY DEF Used
<1>n. /\ u \in SUBSET Nat
      /\ s.session # "AUTHENTICATED" => u = {}
      /\ ~Hands(s, k) \/ s.control => u \subseteq n
  <2>1. s.txCounter + 1 \in Nat
    BY <1>t
  <2>2. u \in SUBSET Nat
    BY <2>1, <1>0, <1>b
  <2> QED
    BY <2>2, <1>a, <1>c, Zenon
<1>1. CASE ~Ready(s)
  <2>1. f = s /\ ~Hands(s, k)
    BY <1>1 DEF Flushed, Hands
  <2> QED
    BY <2>1, <1>0, <1>n DEF Core, Fresh, Counted
<1>2. CASE Hands(s, k) /\ s.control
  <2>1. f = [s EXCEPT !.control = FALSE, !.pending = TRUE]
    BY <1>2 DEF Flushed, Hands
  <2>2. /\ f \in Stream
        /\ \A g \in {"initialized", "attempts", "state", "session", "tx", "rx",
                     "id", "txCounter", "sent"} : f[g] = s[g]
    BY ZenonT(40), <2>1, <1>0 DEF Stream
  <2> QED
    BY <2>2, <1>0, <1>n, <1>2 DEF Core, Fresh, Counted, Held, Own, Agree
<1>3. CASE Hands(s, k) /\ ~s.control
  <2>1. /\ f = [s EXCEPT !.tx = Tail(@), !.pending = TRUE,
                         !.txCounter = @ + 1, !.sent = s.txCounter + 1]
        /\ s.tx # <<>> /\ s.session = "AUTHENTICATED"
        /\ s.txCounter # MaxCounter
    BY <1>3 DEF Flushed, Hands, Ready, Exhausted
  <2>2. /\ s.txCounter + 1 \in 0 .. MaxCounter
        /\ s.txCounter \in Nat
    BY SMTT(30), <2>1, <1>0, StreamAssumption DEF Stream
  <2>3. Tail(s.tx) \in Seq(Nat) /\ \A i \in DOMAIN Tail(s.tx) : Tail(s.tx)[i] = s.id
    <3>1. s.tx \in Seq(Nat)
      BY <1>0 DEF Stream
    <3>2. \A i \in DOMAIN s.tx : s.tx[i] = s.id
      BY <1>0 DEF Own
    <3> QED
      BY <3>1, <3>2, <2>1
  <2>4. f \in Stream
    BY ZenonT(40), <2>1, <2>2, <2>3, <1>0 DEF Stream
  <2>5. /\ f.tx = Tail(s.tx) /\ f.txCounter = s.txCounter + 1
        /\ f.sent = s.txCounter + 1
        /\ \A g \in {"initialized", "attempts", "state", "session", "rx", "id"} :
              f[g] = s[g]
    BY <2>1, <1>0 DEF Stream
  <2>6. u = n \union {s.txCounter + 1}
    BY <2>1, <1>3 DEF Used
  <2>7. Counted(f, u)
    BY <2>1, <2>2, <2>5, <2>6, <1>0 DEF Counted
  <2>8. Own(f) /\ Held(f) /\ Fresh(f, u) /\ (Agree(s) => Agree(f))
    BY <2>1, <2>3, <2>5, <1>0 DEF Own, Held, Fresh, Agree
  <2> QED
    BY <2>1, <2>4, <2>5, <2>7, <2>8 DEF Core
<1>4. CASE Ready(s) /\ ~Hands(s, k) /\ ~Exhausted(s)
           /\ NotifyStatus(s, k) = "EAGAIN"
  <2>1. f = IF s.control THEN s ELSE [s EXCEPT !.txCounter = s.sent]
    BY <1>4 DEF Flushed
  <2>2. ~s.control => s.session = "AUTHENTICATED"
    BY <1>4 DEF Ready
  <2>3. s.session = "AUTHENTICATED" => [s EXCEPT !.txCounter = s.sent] = s
    BY <1>0 DEF Stream, Counted
  <2> QED
    BY <2>1, <2>2, <2>3, <1>0, <1>n, <1>4 DEF Core, Fresh, Counted
<1>5. CASE /\ Ready(s) /\ ~Hands(s, k)
           /\ ~(~Exhausted(s) /\ NotifyStatus(s, k) = "EAGAIN")
  <2>1. f = Closed(s)
    BY <1>5 DEF Flushed
  <2>2. Good(f, u) /\ f.session = "IDLE"
    BY <2>1, <1>0, <1>n, ClosedIsGood DEF Held
  <2>3. f.initialized = s.initialized
    BY <2>1, <1>0 DEF Closed, Cut, ClearQueues, Stream
  <2> QED
    BY <2>2, <2>3 DEF Good
<1> QED
  BY <1>1, <1>2, <1>3, <1>4, <1>5

\* The state follows the session.
LEMMA FollowIsGood ==
    ASSUME NEW s, NEW n, Core(s, n), Fresh(s, n), s.initialized,
           s.session = "IDLE" => Agree(s)
    PROVE  Good(Follow(s), n)
<1>0. s \in Stream /\ Held(s) /\ Own(s) /\ Counted(s, n)
  BY DEF Core
<1>1. CASE s.session = "AUTHENTICATED"
  <2>1. Follow(s) = [s EXCEPT !.state = "AUTHENTICATED", !.attempts = 0]
    BY <1>1 DEF Follow
  <2>0. 0 \in Nat
    OBVIOUS
  <2>3. Follow(s) \in Stream
    BY ZenonT(40), <2>0, <2>1, <1>0 DEF Stream
  <2>2. /\ Follow(s) \in Stream /\ Follow(s).attempts = 0
        /\ Follow(s).state = "AUTHENTICATED"
        /\ Follow(s).initialized = s.initialized /\ Follow(s).id = s.id
        /\ Follow(s).session = s.session /\ Follow(s).tx = s.tx
        /\ Follow(s).rx = s.rx /\ Follow(s).txCounter = s.txCounter
        /\ Follow(s).sent = s.sent
    BY <2>1, <2>3, <1>0 DEF Stream
  <2> QED
    BY <2>2, <1>0, <1>1, StreamAssumption
       DEF Good, Core, Held, Own, Counted, Fresh, Agree
<1>2. CASE s.session = "HANDSHAKING"
  <2>1. Follow(s) = [s EXCEPT !.state = "HANDSHAKING"]
    BY <1>2 DEF Follow
  <2>2. /\ Follow(s) \in Stream /\ Follow(s).state = "HANDSHAKING"
        /\ \A g \in {"initialized", "session", "tx", "rx", "id", "txCounter",
                     "sent", "attempts"} : Follow(s)[g] = s[g]
    BY ZenonT(40), <2>1, <1>0 DEF Stream
  <2> QED
    BY <2>2, <1>0, <1>2 DEF Good, Core, Held, Own, Counted, Fresh, Agree
<1>3. CASE s.session = "IDLE"
  <2>1. Follow(s) = s
    BY <1>3 DEF Follow
  <2> QED
    BY <2>1, <1>3 DEF Good
<1> QED
  BY <1>0, <1>1, <1>2, <1>3 DEF Stream

-----------------------------------------------------------------------------
(* The invariant.                                                            *)

IInv == TypeOK /\ Good(stream, nonces)

LEMMA InitIsGood == Init => IInv
<1> SUFFICES ASSUME Init PROVE IInv
  OBVIOUS
<1>0. 0 \in 0 .. MaxCounter /\ <<>> \in Seq(Nat) /\ 0 \in Nat
  BY StreamAssumption
<1>1. stream \in Stream
  BY <1>0 DEF Init, Stream
<1>2. TypeOK
  BY <1>0, <1>1 DEF Init, TypeOK, Idle, NoEvent, Event, Backend
<1>3. Good(stream, nonces)
  BY <1>1 DEF Init, Good, Core, Held, Own, Counted, Fresh, Agree
<1> QED
  BY <1>2, <1>3 DEF IInv

\* A close, a flush or an answer of the stream as it is.
LEMMA CloseStep ==
    ASSUME IInv, NEW s \in Stream, s.initialized = stream.initialized,
           s.attempts = stream.attempts, s.state = stream.state
    PROVE  Good(Closed(s), nonces) /\ Good(Detached(s), nonces)
<1>1. nonces \in SUBSET Nat
  BY DEF IInv, TypeOK
<1>2. s.initialized /\ s.attempts >= AttemptLimit => s.state = "BACKOFF"
  BY DEF IInv, Good, Core, Held
<1> QED
  BY <1>1, <1>2, ClosedIsGood, DetachedIsGood

\* The stream once a backoff may have lapsed.
LEMMA BackoffIsGood ==
    ASSUME IInv, NEW s \in Backoff(stream)
    PROVE  /\ Good(s, nonces) /\ s \in Stream
           /\ s.initialized = stream.initialized
           /\ s.initialized /\ s.attempts >= AttemptLimit =>
                 s.state = "BACKOFF" /\ s.session = "IDLE"
<1>0. stream \in Stream /\ Good(stream, nonces)
  BY DEF IInv, TypeOK
<1>1. CASE s = stream
  BY <1>0, <1>1 DEF Good, Core, Held
<1>2. CASE s = Lapsed(stream)
  <2>1. s = [stream EXCEPT !.attempts = 0, !.state = Resting(stream)]
    BY <1>2 DEF Lapsed
  <2>2. Resting(stream) \in {"SUBSCRIBED", "IDLE"} /\ 0 \in Nat
    BY DEF Resting
  <2>3. s \in Stream
    BY <1>0, <2>1, <2>2 DEF Stream
  <2>4. /\ s.attempts = 0 /\ s.state \in {"SUBSCRIBED", "IDLE"}
        /\ s.initialized = stream.initialized /\ s.session = stream.session
        /\ s.tx = stream.tx /\ s.rx = stream.rx /\ s.id = stream.id
        /\ s.txCounter = stream.txCounter /\ s.sent = stream.sent
    BY <1>0, <2>1, <2>2 DEF Stream
  <2> QED
    BY <1>0, <2>3, <2>4, StreamAssumption
       DEF Good, Core, Held, Own, Counted, Fresh, Agree
<1> QED
  BY <1>1, <1>2 DEF Backoff

LEMMA FlushStep ==
    ASSUME NEW s, Good(s, nonces), Flush(s)
    PROVE  Good(stream', nonces')
<1>1. Core(s, nonces) /\ Agree(s)
  BY DEF Good
<1>2. stream' = Flushed(s, back) /\ nonces' = Used(s, back, nonces)
  BY DEF Flush, Hand
<1>3. Good(Flushed(s, back), Used(s, back, nonces))
  BY <1>1, FlushedIsGood DEF Good
<1> QED
  BY <1>2, <1>3

\* What a frame does to a stream that hears it.
LEMMA ReceiveStep ==
    ASSUME NEW s, NEW k, NEW f, Good(s, nonces), s.initialized,
           s.state # "BACKOFF", begun \in Nat, Receives(s, k, f)
    PROVE  Good(stream', nonces')
<1>0. /\ s \in Stream /\ nonces \in SUBSET Nat /\ Held(s) /\ Own(s)
      /\ Counted(s, nonces) /\ Fresh(s, nonces) /\ Agree(s)
      /\ s.attempts < AttemptLimit
  BY StreamAssumption DEF Good, Core, Held, Counted, Stream
<1>z. 0 \in 0 .. MaxCounter /\ 0 \in Nat /\ <<>> \in Seq(Nat)
  BY StreamAssumption
<1>a. ASSUME NEW t, Core(t, nonces), t.session # "IDLE", t.initialized,
             Answers(t, k)
      PROVE  Good(stream', nonces')
  <2>1. stream' = Follow(Flushed(t, k)) /\ nonces' = Used(t, k, nonces)
    BY <1>a DEF Answers, Hand
  <2>2. /\ Core(Flushed(t, k), Used(t, k, nonces))
        /\ Fresh(Flushed(t, k), Used(t, k, nonces))
        /\ Flushed(t, k).session = "IDLE" => Agree(Flushed(t, k))
        /\ Flushed(t, k).initialized
    BY <1>a, FlushedIsGood
  <2>3. Good(Follow(Flushed(t, k)), Used(t, k, nonces))
    BY <2>2, FollowIsGood
  <2> QED
    BY <2>1, <2>3
<1>1. CASE f = "hello" /\ Answers(Hello(s, begun + 1), k)
  <2> DEFINE t == Hello(s, begun + 1)
  <2>2. begun + 1 \in Nat
    OBVIOUS
  <2>3. ClearQueues(s) \in Stream
    BY <1>0, <1>z DEF ClearQueues, Stream
  <2>4. t \in Stream
    BY <2>2, <2>3, <1>z DEF Hello, Stream
  <2>5. /\ t.session = "HANDSHAKING" /\ t.tx = <<>> /\ t.rx = <<>>
        /\ t.sent = 0 /\ t.attempts = s.attempts
        /\ t.initialized = s.initialized
    BY <1>0 DEF Hello, ClearQueues, Stream
  <2>6. Core(t, nonces)
    <3>1. Held(t)
      BY <2>4, <2>5, <1>0, StreamAssumption DEF Held, Stream
    <3>2. Own(t) /\ Counted(t, nonces)
      BY <2>5, <1>0 DEF Own, Counted
    <3> QED
      BY <2>4, <3>1, <3>2 DEF Core
  <2> QED
    BY <1>1, <2>5, <2>6, <1>0, <1>a
<1>2. CASE Accepted(s, f) /\ f = "auth" /\ Answers(Authenticated(s), k)
  <2> DEFINE t == Authenticated(s)
  <2>2. s.session = "HANDSHAKING"
    BY <1>2 DEF Accepted
  <2>3. t \in Stream
    BY <1>0, <1>z DEF Authenticated, Stream
  <2>4. /\ t.session = "AUTHENTICATED" /\ t.tx = s.tx /\ t.rx = s.rx
        /\ t.sent = s.sent /\ t.txCounter = 0 /\ t.attempts = s.attempts
        /\ t.initialized = s.initialized /\ t.id = s.id
    BY <1>0 DEF Authenticated, Stream
  <2>5. s.tx = <<>> /\ s.rx = <<>> /\ s.sent = 0 /\ nonces = {}
    BY <2>2, <1>0 DEF Own, Counted, Fresh
  <2>6. Core(t, nonces)
    BY <2>3, <2>4, <2>5, <1>0, StreamAssumption
       DEF Core, Held, Own, Counted, Stream
  <2> QED
    BY <1>2, <2>4, <2>6, <1>a
<1>3. CASE Accepted(s, f) /\ f = "data" /\ Takes(Follow(Payload(s)), k)
  <2> DEFINE t == Payload(s)
  <2>1. stream' = Follow(t) /\ nonces' = nonces
    BY <1>3 DEF Takes
  <2>2. s.session = "AUTHENTICATED" /\ s.rxCounter < MaxCounter
    BY <1>3 DEF Accepted
  <2>3. s.rxCounter + 1 \in 0 .. MaxCounter
    BY <2>2, <1>0, StreamAssumption DEF Stream
  <2>4. /\ s.rx \in Seq(Nat) /\ s.id \in Nat
        /\ \A i \in DOMAIN s.rx : s.rx[i] = s.id
    BY <1>0 DEF Stream, Own
  <2>5. /\ Append(s.rx, s.id) \in Seq(Nat)
        /\ \A i \in DOMAIN Append(s.rx, s.id) : Append(s.rx, s.id)[i] = s.id
    BY <2>4
  <2>6. t \in Stream
    BY <2>3, <2>5, <1>0 DEF Payload, Stream
  <2>7. /\ t.rx = s.rx \/ t.rx = Append(s.rx, s.id)
        /\ t.session = s.session /\ t.tx = s.tx /\ t.id = s.id
        /\ t.sent = s.sent /\ t.txCounter = s.txCounter
        /\ t.attempts = s.attempts /\ t.initialized = s.initialized
    BY <1>0 DEF Payload, Stream
  <2>8. Core(t, nonces) /\ Fresh(t, nonces)
    <3>1. Held(t)
      BY <2>6, <2>7, <1>0, StreamAssumption DEF Held, Stream
    <3>2. Own(t)
      BY ZenonT(40), <2>2, <2>4, <2>5, <2>7, <1>0 DEF Own
    <3>3. Counted(t, nonces) /\ Fresh(t, nonces)
      BY <2>2, <2>7, <1>0 DEF Counted, Fresh
    <3> QED
      BY <2>6, <3>1, <3>2, <3>3 DEF Core
  <2>9. Good(Follow(t), nonces)
    BY <2>2, <2>7, <2>8, FollowIsGood
  <2> QED
    BY <2>1, <2>9
<1>4. CASE Takes(Closed(Failure(s)), k)
  <2>3. s.attempts + 1 \in Nat
    BY <1>0 DEF Stream
  <2>4. Failure(s) \in Stream
    BY <1>0, <2>3 DEF Failure, Stream
  <2>5. Failure(s).attempts >= AttemptLimit => Failure(s).state = "BACKOFF"
    BY <1>0, <2>3 DEF Failure, Stream
  <2>1. /\ Failure(s) \in Stream
        /\ Failure(s).attempts >= AttemptLimit => Failure(s).state = "BACKOFF"
    BY <2>4, <2>5
  <2>2. Good(Closed(Failure(s)), nonces)
    BY <2>1, <1>0, ClosedIsGood
  <2> QED
    BY <2>2, <1>4 DEF Takes
<1>5. CASE Takes(Closed(s), k)
  <2>1. Good(Closed(s), nonces)
    BY <1>0, ClosedIsGood DEF Held
  <2> QED
    BY <2>1, <1>5 DEF Takes
<1> QED
  BY <1>1, <1>2, <1>3, <1>4, <1>5 DEF Receives

-----------------------------------------------------------------------------
(* One step.  The stream first, then the rest of the types.                  *)

Untouched == \/ Callback
             \/ TakeFrame \/ NoRoom \/ Forward \/ AfterEvent \/ Unheard
             \/ \E good \in BOOLEAN : Notified(good)
             \/ BleStart \/ StopBackend \/ BleStopped \/ BleFailed
             \/ Look \/ Publish \/ Unpublish

LEMMA UntouchedStep == Untouched => UNCHANGED <<stream, nonces>>
<1>1. Callback => UNCHANGED <<stream, nonces>>
  BY DEF Callback, Connect, Disconnect, CanSendNow, Subscribe, Write,
         QuietStream
<1>2. TakeFrame \/ NoRoom \/ Forward \/ AfterEvent \/ Unheard
      \/ (\E good \in BOOLEAN : Notified(good)) => UNCHANGED <<stream, nonces>>
  BY DEF TakeFrame, NoRoom, Forward, AfterEvent, Unheard, Notified, QuietStream
<1>3. BleStart \/ StopBackend \/ BleStopped \/ BleFailed =>
         UNCHANGED <<stream, nonces>>
  BY DEF BleStart, StopBackend, BleStopped, BleFailed
<1>4. Look \/ Publish \/ Unpublish => UNCHANGED <<stream, nonces>>
  BY DEF Look, Publish, Unpublish
<1> QED
  BY <1>1, <1>2, <1>3, <1>4 DEF Untouched

\* An operation begins or ends.
LEMMA EmptiedIsGood ==
    ASSUME IInv, NEW i \in BOOLEAN, NEW st \in {"UNINITIALIZED", "IDLE"},
           NEW g \in Nat
    PROVE  Good(Emptied(i, st, g), nonces)
<1> DEFINE e == Emptied(i, st, g)
<1>0. stream \in Stream /\ nonces \subseteq Nat
  BY DEF IInv, TypeOK
<1>z. 0 \in 0 .. MaxCounter /\ 0 \in Nat /\ <<>> \in Seq(Nat)
  BY StreamAssumption
<1>1. ClearQueues(stream) \in Stream
  BY <1>0, <1>z DEF ClearQueues, Stream
<1>2. Cut(stream) \in Stream
  BY <1>1, <1>z DEF Cut, Stream
<1>3. e \in Stream
  BY ZenonT(40), <1>2, <1>z DEF Emptied, Stream
<1>4. /\ Cut(stream).session = "IDLE"
      /\ Cut(stream).tx = <<>> /\ Cut(stream).rx = <<>>
  BY <1>0 DEF Cut, ClearQueues, Stream
<1>5. /\ e.session = "IDLE" /\ e.tx = <<>> /\ e.rx = <<>>
      /\ e.attempts = 0 /\ e.state = st
  BY <1>2, <1>4 DEF Emptied, Stream
<1>6. Held(e)
  BY <1>5, StreamAssumption DEF Held
<1> QED
  BY <1>0, <1>3, <1>5, <1>6 DEF Good, Core, Own, Counted, Fresh, Agree

LEMMA StreamStep ==
    ASSUME IInv, [Next]_vars
    PROVE  Good(stream', nonces')
<1>0. /\ stream \in Stream /\ Good(stream, nonces) /\ nonces \in SUBSET Nat
      /\ begun \in Nat /\ app.generation \in Nat /\ ble.generation \in Nat
      /\ pass.at = "lost" => pass.event.arg \in Nat
  BY DEF IInv, TypeOK
<1>h. stream.initialized /\ stream.attempts >= AttemptLimit =>
         stream.state = "BACKOFF"
  BY <1>0 DEF Good, Core, Held
<1>c. Good(Closed(stream), nonces) /\ Closed(stream) \in Stream
  BY <1>0, CloseStep DEF Good, Core
<1>l. ASSUME NEW g \in Nat, LinkLost(g)
      PROVE  Good(stream', nonces')
  <2> DEFINE s == [stream EXCEPT !.generation = g]
  <2>1. /\ s \in Stream /\ s.initialized = stream.initialized
        /\ s.attempts = stream.attempts /\ s.state = stream.state
    BY <1>0 DEF Stream
  <2>2. Good(Detached(s), nonces)
    BY <2>1, CloseStep
  <2> QED
    BY <2>2, <1>0, <1>l DEF LinkLost, Set
<1>s. ASSUME NEW s, Good(s, nonces), NEW t \in Stream,
             t.initialized = s.initialized, t.attempts = s.attempts,
             t.state = s.state, t.session = s.session, t.id = s.id,
             t.tx = s.tx, t.rx = s.rx, t.txCounter = s.txCounter,
             t.sent = s.sent
      PROVE  Good(t, nonces)
  BY <1>s DEF Good, Core, Held, Own, Counted, Fresh, Agree
<1>1. CASE Untouched
  BY <1>1, <1>0, UntouchedStep
<1>2. CASE OnSubscription
  <2> DEFINE on == pass.event.arg = "on"
             s == [stream EXCEPT !.subscribed = on, !.attached = TRUE]
             t == [s EXCEPT !.state = IF @ = "IDLE" THEN "SUBSCRIBED" ELSE @]
             u == [s EXCEPT !.pending = FALSE]
  <2>1. /\ s \in Stream /\ s.initialized = stream.initialized
        /\ s.attempts = stream.attempts /\ s.state = stream.state
        /\ s.session = stream.session /\ s.id = stream.id
        /\ s.tx = stream.tx /\ s.rx = stream.rx /\ s.sent = stream.sent
        /\ s.txCounter = stream.txCounter
    BY <1>0 DEF Stream
  <2>2. Good(s, nonces)
    BY <2>1, <1>0, <1>s
  <2>3. Good(t, nonces)
    <3>1. CASE s.state = "IDLE"
      <4>1. t = [s EXCEPT !.state = "SUBSCRIBED"]
        BY <3>1
      <4> HIDE DEF s
      <4>2. t \in Stream
        BY <4>1, <2>1 DEF Stream
      <4>3. /\ t.state = "SUBSCRIBED" /\ t.initialized = s.initialized
            /\ t.attempts = s.attempts /\ t.session = s.session /\ t.id = s.id
            /\ t.tx = s.tx /\ t.rx = s.rx /\ t.sent = s.sent
            /\ t.txCounter = s.txCounter
        BY <4>1, <2>1 DEF Stream
      <4> HIDE DEF t
      <4> QED
        BY <4>2, <4>3, <3>1, <2>2
           DEF Good, Core, Held, Own, Counted, Fresh, Agree
    <3>2. CASE s.state # "IDLE"
      <4>1. t = s
        BY <3>2, <2>1 DEF Stream
      <4> QED
        BY <4>1, <2>2
    <3> QED
      BY <3>1, <3>2
  <2>4. Good(Closed(u), nonces)
    <3>1. /\ u \in Stream /\ u.initialized = stream.initialized
          /\ u.attempts = stream.attempts /\ u.state = stream.state
      <4> HIDE DEF s
      <4> QED
        BY <2>1 DEF Stream
    <3> QED
      BY <3>1, CloseStep
  <2>5. nonces' = nonces /\ (stream' = t \/ stream' = Closed(u))
    BY <1>2 DEF OnSubscription, Set
  <2> QED
    BY <2>3, <2>4, <2>5
<1>3. CASE OnCanSend
  <2> DEFINE s == [stream EXCEPT !.pending = FALSE]
  <2>1. /\ s \in Stream /\ s.initialized = stream.initialized
        /\ s.attempts = stream.attempts /\ s.state = stream.state
        /\ s.session = stream.session /\ s.id = stream.id
        /\ s.tx = stream.tx /\ s.rx = stream.rx /\ s.sent = stream.sent
        /\ s.txCounter = stream.txCounter
    BY <1>0 DEF Stream
  <2>2. Good(s, nonces) /\ Good(Closed(s), nonces)
    BY <2>1, <1>0, <1>s, CloseStep
  <2>3. Flush(s) \/ Set(Closed(s))
    BY <1>3 DEF OnCanSend
  <2> QED
    BY <2>2, <2>3, FlushStep DEF Set
<1>4. CASE OnWrite
  <2> DEFINE f == pass.event.arg
  <2>1. PICK s \in Backoff(stream) :
           \/ /\ s.state # "BACKOFF"
              /\ \/ Receives([s EXCEPT !.pending = FALSE],
                             [back EXCEPT !.staged = None], f)
                 \/ Receives(s, back, f)
           \/ Set(s) \/ Set(Closed(s))
    BY <1>4 DEF OnWrite
  <2>2. /\ Good(s, nonces) /\ s \in Stream /\ s.initialized
        /\ s.initialized /\ s.attempts >= AttemptLimit => s.state = "BACKOFF"
    BY <1>4, BackoffIsGood DEF OnWrite, Usable
  <2>3. Good(Closed(s), nonces)
    BY <2>2, <1>0, ClosedIsGood
  <2> DEFINE t == [s EXCEPT !.pending = FALSE]
  <2>4. /\ t \in Stream /\ t.initialized = s.initialized
        /\ t.attempts = s.attempts /\ t.state = s.state
        /\ t.session = s.session /\ t.id = s.id
        /\ t.tx = s.tx /\ t.rx = s.rx /\ t.sent = s.sent
        /\ t.txCounter = s.txCounter
    BY <2>2 DEF Stream
  <2>5. Good(t, nonces)
    BY <2>2, <2>4, <1>s
  <2>6. CASE s.state # "BACKOFF"
             /\ Receives(t, [back EXCEPT !.staged = None], f)
    BY <2>6, <2>2, <2>4, <2>5, <1>0, ReceiveStep
  <2>7. CASE s.state # "BACKOFF" /\ Receives(s, back, f)
    BY <2>7, <2>2, <1>0, ReceiveStep
  <2>8. CASE Set(s) \/ Set(Closed(s))
    BY <2>8, <2>2, <2>3 DEF Set
  <2> QED
    BY <2>1, <2>6, <2>7, <2>8
<1>5. CASE OnDisconnected
  BY <1>5, <1>0, <1>l DEF OnDisconnected
<1>6. CASE TellStream
  BY <1>6, <1>0, <1>l DEF TellStream
<1>7. CASE Poll
  <2>1. PICK s \in Backoff(stream) : Flush(s) \/ Set(Closed(s))
    BY <1>7 DEF Poll
  <2>2. Good(s, nonces) /\ Good(Closed(s), nonces)
    BY <1>0, BackoffIsGood, ClosedIsGood
  <2> QED
    BY <2>1, <2>2, FlushStep DEF Set
<1>8. CASE Send
  <2> DEFINE s == [stream EXCEPT !.tx = Append(@, stream.id)]
  <2>1. Flush(s) /\ stream.session = "AUTHENTICATED"
    BY <1>8, <1>0 DEF Send, Good, Agree
  <2>2. /\ stream.tx \in Seq(Nat) /\ stream.id \in Nat
        /\ \A i \in DOMAIN stream.tx : stream.tx[i] = stream.id
    BY <1>0 DEF Stream, Good, Core, Own
  <2>3. /\ Append(stream.tx, stream.id) \in Seq(Nat)
        /\ \A i \in DOMAIN Append(stream.tx, stream.id) :
              Append(stream.tx, stream.id)[i] = stream.id
    BY <2>2
  <2>4. /\ s \in Stream /\ s.tx = Append(stream.tx, stream.id)
        /\ s.initialized = stream.initialized /\ s.attempts = stream.attempts
        /\ s.state = stream.state /\ s.session = stream.session
        /\ s.id = stream.id /\ s.rx = stream.rx /\ s.sent = stream.sent
        /\ s.txCounter = stream.txCounter
    BY <2>3, <1>0 DEF Stream
  <2>5. Good(s, nonces)
    BY <2>1, <2>3, <2>4, <1>0
       DEF Good, Core, Held, Own, Counted, Fresh, Agree
  <2> QED
    BY <2>1, <2>5, FlushStep
<1>9. CASE Receive
  <2> DEFINE s == [stream EXCEPT !.overflow = FALSE]
             t == [stream EXCEPT !.rx = Tail(@)]
  <2>1. nonces' = nonces /\ (stream' = s \/ (stream.rx # <<>> /\ stream' = t))
    BY <1>9 DEF Receive, Set
  <2>2. /\ s \in Stream /\ s.initialized = stream.initialized
        /\ s.attempts = stream.attempts /\ s.state = stream.state
        /\ s.session = stream.session /\ s.id = stream.id
        /\ s.tx = stream.tx /\ s.rx = stream.rx /\ s.sent = stream.sent
        /\ s.txCounter = stream.txCounter
    BY <1>0 DEF Stream
  <2>3. Good(s, nonces)
    BY <2>2, <1>0, <1>s
  <2>4. ASSUME stream.rx # <<>> PROVE Good(t, nonces)
    <3>1. /\ stream.rx \in Seq(Nat) /\ stream.session = "AUTHENTICATED"
          /\ \A i \in DOMAIN stream.rx : stream.rx[i] = stream.id
      BY <2>4, <1>0 DEF Stream, Good, Core, Own
    <3>2. /\ Tail(stream.rx) \in Seq(Nat)
          /\ \A i \in DOMAIN Tail(stream.rx) : Tail(stream.rx)[i] = stream.id
      BY <2>4, <3>1
    <3>3. /\ t \in Stream /\ t.rx = Tail(stream.rx)
          /\ t.initialized = stream.initialized
          /\ t.attempts = stream.attempts /\ t.state = stream.state
          /\ t.session = stream.session /\ t.id = stream.id
          /\ t.tx = stream.tx /\ t.sent = stream.sent
          /\ t.txCounter = stream.txCounter
      BY <3>2, <1>0 DEF Stream
    <3> QED
      BY <3>1, <3>2, <3>3, <1>0
         DEF Good, Core, Held, Own, Counted, Fresh, Agree
  <2> QED
    BY <2>1, <2>3, <2>4
<1>10. CASE SetSecret \/ ClearSecret \/ CloseSession
  <2> DEFINE c == Closed(stream)
  <2>1. ASSUME NEW v \in BOOLEAN
        PROVE  Good([c EXCEPT !.secret = v], nonces)
    <3> DEFINE t == [c EXCEPT !.secret = v]
    <3>1. /\ t \in Stream /\ t.initialized = c.initialized
          /\ t.attempts = c.attempts /\ t.state = c.state
          /\ t.session = c.session /\ t.id = c.id
          /\ t.tx = c.tx /\ t.rx = c.rx /\ t.sent = c.sent
          /\ t.txCounter = c.txCounter
      BY <1>c DEF Stream
    <3> QED
      BY <3>1, <1>c, <1>s
  <2> QED
    BY <2>1, <1>c, <1>10 DEF SetSecret, ClearSecret, CloseSession, Set
<1>11. CASE Rebind
  <2> DEFINE s == [stream EXCEPT !.generation = app.generation]
  <2>1. /\ s \in Stream /\ s.initialized = stream.initialized
        /\ s.attempts = stream.attempts /\ s.state = stream.state
    BY <1>0 DEF Stream
  <2>2. Good(Detached(s), nonces)
    BY <2>1, CloseStep
  <2> QED
    BY <2>2, <1>0, <1>11 DEF Rebind, Set
<1>12. CASE Begin \/ Deinitialize
  <2> DEFINE s == [stream EXCEPT !.active = TRUE]
  <2>1. stream' = s /\ nonces' = nonces
    BY <1>12 DEF Begin, Deinitialize, Set
  <2>2. /\ s \in Stream /\ s.initialized = stream.initialized
        /\ s.attempts = stream.attempts /\ s.state = stream.state
        /\ s.session = stream.session /\ s.id = stream.id
        /\ s.tx = stream.tx /\ s.rx = stream.rx /\ s.sent = stream.sent
        /\ s.txCounter = stream.txCounter
    BY <1>0 DEF Stream
  <2> QED
    BY <2>1, <2>2, <1>0, <1>s
<1>13. CASE Commit \/ Clear
  <2>1. /\ Good(Emptied(TRUE, "IDLE", app.generation), nonces)
        /\ Good(Emptied(FALSE, "UNINITIALIZED", stream.generation), nonces)
    BY <1>0, EmptiedIsGood DEF Stream
  <2> QED
    BY <2>1, <1>0, <1>13 DEF Commit, Clear, Set
<1>14. CASE UNCHANGED vars
  BY <1>14, <1>0 DEF vars
<1> QED
  BY <1>1, <1>2, <1>3, <1>4, <1>5, <1>6, <1>7, <1>8, <1>9, <1>10, <1>11,
     <1>12, <1>13, <1>14
     DEF Next, Service, Bluetooth, Application, Untouched

\* What a step leaves in the backend: a frame that is newly there and carries
\* data has a counter that was not used before.
New(frame) == \/ frame \in {back.staged, None}
              \/ frame.kind = "data" => frame.counter \notin nonces

LEMMA HandStep ==
    ASSUME NEW s, Core(s, nonces), NEW k \in Backend,
           k.staged \in {back.staged, None}
    PROVE  Staged(s, k) \in Backend /\ New(Staged(s, k).staged)
<1>1. CASE ~Hands(s, k)
  BY <1>1 DEF Staged, New
<1>2. CASE Hands(s, k)
  <2>0. s \in Stream /\ Counted(s, nonces)
    BY DEF Core
  <2>1. s.id \in Nat /\ s.txCounter \in Nat /\ 0 \in Nat
    BY <2>0, StreamAssumption DEF Stream
  <2>2. FrameOf(s) \in Frame
    BY <2>1 DEF FrameOf, Frame
  <2>3. Staged(s, k) = [k EXCEPT !.staged = FrameOf(s)]
    BY <1>2 DEF Staged
  <2> HIDE DEF FrameOf
  <2>4. Staged(s, k) \in Backend /\ Staged(s, k).staged = FrameOf(s)
    BY <2>2, <2>3 DEF Backend
  <2>5. CASE s.control
    <3>1. FrameOf(s).kind = "control"
      BY <2>5 DEF FrameOf
    <3> QED
      BY <3>1, <2>4 DEF New
  <2>6. CASE ~s.control
    <3>1. FrameOf(s).counter = s.txCounter + 1
      BY <2>6 DEF FrameOf
    <3>2. s.session = "AUTHENTICATED"
      BY <2>6, <1>2 DEF Hands, Ready
    <3>3. \A c \in nonces : c <= s.txCounter
      BY <3>2, <2>0 DEF Counted
    <3>4. nonces \subseteq Nat
      BY <2>0 DEF Counted
    <3>5. s.txCounter + 1 \notin nonces
      BY <3>3, <3>4, <2>1
    <3> QED
      BY <3>1, <3>5, <2>4 DEF New
  <2> QED
    BY <2>5, <2>6
<1> QED
  BY <1>1, <1>2

LEMMA DroppedIsBackend ==
    ASSUME IInv
    PROVE  /\ Dropped \in Backend /\ Dropped.staged = None
           /\ \A p \in BOOLEAN :
                 /\ [Dropped EXCEPT !.linked = p] \in Backend
                 /\ [Dropped EXCEPT !.linked = p].staged = None
                 /\ [Dropped EXCEPT !.published = p] \in Backend
                 /\ [Dropped EXCEPT !.published = p].staged = None
           /\ [Dropped EXCEPT !.started = FALSE, !.linked = FALSE] \in Backend
           /\ [Dropped EXCEPT !.started = FALSE, !.linked = FALSE].staged = None
<1>1. back \in Backend
  BY DEF IInv, TypeOK
<1>2. Dropped \in Backend /\ Dropped.staged = None
  BY <1>1 DEF Dropped, Backend
<1> QED
  BY <1>2 DEF Backend

\* A frame that is written: what is answered to it.
LEMMA ReceiveBackend ==
    ASSUME NEW s, NEW k \in Backend, NEW f, Good(s, nonces), begun \in Nat,
           k.staged \in {back.staged, None}, Receives(s, k, f)
    PROVE  back' \in Backend /\ New(back'.staged)
<1>0. s \in Stream
  BY DEF Good, Core
<1>z. 0 \in 0 .. MaxCounter /\ 0 \in Nat /\ <<>> \in Seq(Nat)
  BY StreamAssumption
<1>1. ASSUME NEW t \in Stream, t.control, Answers(t, k)
      PROVE  back' \in Backend /\ New(back'.staged)
  <2>1. back' = IF Hands(t, k) THEN [k EXCEPT !.staged = FrameOf(t)] ELSE k
    BY <1>1 DEF Answers, Hand, Staged
  <2>2. FrameOf(t) \in Frame /\ FrameOf(t).kind = "control"
    <3>1. t.id \in Nat
      BY DEF Stream
    <3> QED
      BY <3>1, <1>1 DEF FrameOf, Frame
  <2> DEFINE fr == FrameOf(t)
  <2> HIDE DEF fr
  <2>3. /\ [k EXCEPT !.staged = fr] \in Backend
        /\ [k EXCEPT !.staged = fr].staged = fr
    BY <2>2 DEF Backend, fr
  <2> QED
    BY <2>1, <2>2, <2>3 DEF New, fr
<1>2. CASE Answers(Hello(s, begun + 1), k)
  <2>1. ClearQueues(s) \in Stream
    BY <1>0, <1>z DEF ClearQueues, Stream
  <2>2. begun + 1 \in Nat
    BY <1>0
  <2> DEFINE t == Hello(s, begun + 1)
  <2>3. t \in Stream /\ t.control
    BY <2>1, <2>2, <1>z DEF Hello, Stream
  <2>4. Answers(t, k)
    BY <1>2
  <2> HIDE DEF t
  <2> QED
    BY <2>3, <2>4, <1>1
<1>3. CASE Answers(Authenticated(s), k)
  <2>2. Authenticated(s) \in Stream /\ Authenticated(s).control
    BY <1>0, <1>z DEF Authenticated, Stream
  <2> QED
    BY <2>2, <1>1, <1>3
<1>4. CASE back' = k
  BY <1>4 DEF New
<1>5. \/ Answers(Hello(s, begun + 1), k) \/ Answers(Authenticated(s), k)
      \/ back' = k
  BY Zenon DEF Receives, Takes
<1> QED
  BY <1>2, <1>3, <1>4, <1>5

LEMMA BackendStep ==
    ASSUME IInv, [Next]_vars
    PROVE  back' \in Backend /\ New(back'.staged)
<1>0. /\ back \in Backend /\ stream \in Stream /\ Good(stream, nonces)
      /\ begun \in Nat
  BY DEF IInv, TypeOK
<1>n. /\ New(back.staged) /\ New(None)
  BY DEF New
<1>f. ASSUME NEW s, Core(s, nonces), Flush(s)
      PROVE  back' \in Backend /\ New(back'.staged)
  BY <1>f, <1>0, HandStep DEF Flush, Hand
<1>1. CASE Connect \/ Disconnect \/ StopBackend \/ Unpublish
           \/ \E on \in BOOLEAN : Subscribe(on)
  <2>1. \/ \E p \in BOOLEAN : \/ back' = [Dropped EXCEPT !.linked = p]
                              \/ back' = [Dropped EXCEPT !.published = p]
        \/ back' = [Dropped EXCEPT !.started = FALSE, !.linked = FALSE]
        \/ back' = Dropped
        \/ back' = [back EXCEPT !.subscribed = TRUE]
    BY <1>1 DEF Connect, Disconnect, StopBackend, Unpublish, Subscribe
  <2>2. /\ [back EXCEPT !.subscribed = TRUE] \in Backend
        /\ [back EXCEPT !.subscribed = TRUE].staged = back.staged
    BY <1>0 DEF Backend
  <2> QED
    BY <2>1, <2>2, <1>n, DroppedIsBackend
<1>2. CASE CanSendNow \/ TakeFrame \/ NoRoom \/ AfterEvent \/ BleStart
           \/ Publish
  <2>1. \/ back' = back
        \/ back' = [back EXCEPT !.waiting = FALSE]
        \/ back' = [back EXCEPT !.sending = TRUE]
        \/ back' = [back EXCEPT !.waiting = TRUE, !.sending = FALSE]
        \/ back' = [back EXCEPT !.dispatching = FALSE]
        \/ back' = [back EXCEPT !.started = TRUE]
        \/ back' = [back EXCEPT !.published = TRUE]
    BY <1>2 DEF CanSendNow, TakeFrame, NoRoom, AfterEvent, BleStart, Publish
  <2>2. back' \in Backend /\ back'.staged = back.staged
    BY <2>1, <1>0 DEF Backend
  <2> QED
    BY <2>2, <1>n
<1>3. CASE \E good \in BOOLEAN : Notified(good)
  <2>1. \/ back' = back
        \/ back' = [back EXCEPT !.staged = None, !.waiting = FALSE,
                                !.sending = FALSE, !.dispatching = TRUE]
    BY <1>3 DEF Notified
  <2>2. back' \in Backend /\ back'.staged \in {back.staged, None}
    BY <2>1, <1>0 DEF Backend
  <2> QED
    BY <2>2, <1>n
<1>4. CASE OnSubscription \/ OnDisconnected \/ TellStream \/ Rebind
           \/ Begin \/ Deinitialize \/ Commit \/ Clear \/ Receive
           \/ SetSecret \/ ClearSecret \/ CloseSession
  <2>1. back' = back
    BY <1>4 DEF OnSubscription, OnDisconnected, TellStream, LinkLost, Rebind,
                Begin, Deinitialize, Commit, Clear, Receive, SetSecret,
                ClearSecret, CloseSession, Set
  <2> QED
    BY <2>1, <1>0, <1>n
<1>5. CASE \/ \E f \in Frames : Write(f)
           \/ Forward \/ Unheard \/ BleStopped \/ BleFailed \/ Look
  <2>1. back' = back
    BY <1>5 DEF Write, Forward, Unheard, BleStopped, BleFailed, Look
  <2> QED
    BY <2>1, <1>0, <1>n
<1>6. CASE OnCanSend
  <2> DEFINE s == [stream EXCEPT !.pending = FALSE]
  <2>1. /\ s \in Stream /\ s.initialized = stream.initialized
        /\ s.attempts = stream.attempts /\ s.state = stream.state
        /\ s.session = stream.session /\ s.id = stream.id
        /\ s.tx = stream.tx /\ s.rx = stream.rx /\ s.sent = stream.sent
        /\ s.txCounter = stream.txCounter
    BY <1>0 DEF Stream
  <2>2. Core(s, nonces)
    BY <2>1, <1>0 DEF Good, Core, Held, Own, Counted
  <2>3. Flush(s) \/ back' = back
    BY <1>6 DEF OnCanSend, Set
  <2> HIDE DEF s
  <2> QED
    BY <2>2, <2>3, <1>f, <1>0, <1>n
<1>7. CASE OnWrite
  <2> DEFINE f == pass.event.arg
  <2>1. PICK s \in Backoff(stream) :
           \/ Receives([s EXCEPT !.pending = FALSE],
                       [back EXCEPT !.staged = None], f)
           \/ Receives(s, back, f)
           \/ back' = back
    BY <1>7 DEF OnWrite, Set
  <2>2. Good(s, nonces) /\ s \in Stream
    BY BackoffIsGood
  <2> DEFINE t == [s EXCEPT !.pending = FALSE]
             k == [back EXCEPT !.staged = None]
  <2>3. /\ t \in Stream /\ t.initialized = s.initialized
        /\ t.attempts = s.attempts /\ t.state = s.state
        /\ t.session = s.session /\ t.id = s.id
        /\ t.tx = s.tx /\ t.rx = s.rx /\ t.txCounter = s.txCounter
        /\ t.sent = s.sent
    BY <2>2 DEF Stream
  <2>4. Good(t, nonces)
    BY <2>2, <2>3 DEF Good, Core, Held, Own, Counted, Fresh, Agree
  <2>5. k \in Backend /\ k.staged = None
    BY <1>0 DEF Backend
  <2>6. Receives(t, k, f) \/ Receives(s, back, f) \/ back' = back
    BY <2>1
  <2> HIDE DEF t, k, f
  <2> QED
    BY <2>2, <2>4, <2>5, <2>6, <1>0, <1>n, ReceiveBackend
<1>8. CASE Poll
  <2>1. PICK s \in Backoff(stream) : Flush(s) \/ back' = back
    BY <1>8 DEF Poll, Set
  <2>2. Core(s, nonces)
    BY BackoffIsGood DEF Good
  <2> QED
    BY <2>1, <2>2, <1>f, <1>0, <1>n
<1>9. CASE Send
  <2> DEFINE s == [stream EXCEPT !.tx = Append(@, stream.id)]
  <2>1. Flush(s) /\ stream.session = "AUTHENTICATED"
    BY <1>9, <1>0 DEF Send, Good, Agree
  <2>2. /\ stream.tx \in Seq(Nat) /\ stream.id \in Nat
        /\ \A i \in DOMAIN stream.tx : stream.tx[i] = stream.id
    BY <1>0 DEF Stream, Good, Core, Own
  <2>3. /\ Append(stream.tx, stream.id) \in Seq(Nat)
        /\ \A i \in DOMAIN Append(stream.tx, stream.id) :
              Append(stream.tx, stream.id)[i] = stream.id
    BY <2>2
  <2>4. /\ s \in Stream /\ s.tx = Append(stream.tx, stream.id)
        /\ s.initialized = stream.initialized /\ s.attempts = stream.attempts
        /\ s.state = stream.state /\ s.session = stream.session
        /\ s.id = stream.id /\ s.rx = stream.rx /\ s.sent = stream.sent
        /\ s.txCounter = stream.txCounter
    BY <2>3, <1>0 DEF Stream
  <2>5. Core(s, nonces)
    BY <2>1, <2>3, <2>4, <1>0 DEF Good, Core, Held, Own, Counted
  <2> HIDE DEF s
  <2> QED
    BY <2>1, <2>5, <1>f
<1>10. CASE UNCHANGED vars
  BY <1>10, <1>0, <1>n DEF vars
<1> QED
  BY <1>1, <1>2, <1>3, <1>4, <1>5, <1>6, <1>7, <1>8, <1>9, <1>10
     DEF Next, Callback, Service, Bluetooth, Application

LEMMA PassStep ==
    ASSUME IInv, [Next]_vars
    PROVE  /\ pass' \in [at: {"idle", "notify", "ble", "stream", "lost",
                              "after"}, event: Event]
           /\ pass'.at = "lost" => pass'.event.arg \in Nat
<1> DEFINE Places == {"idle", "notify", "ble", "stream", "lost", "after"}
           Right(p) == /\ p \in [at: Places, event: Event]
                       /\ p.at = "lost" => p.event.arg \in Nat
<1>0. Right(pass) /\ ble.generation \in Nat
  BY DEF IInv, TypeOK
<1>1. NoEvent \in Event /\ Right(Idle)
  BY DEF NoEvent, Event, Idle
<1>2. ASSUME NEW at \in Places \ {"lost"}
      PROVE  Right([pass EXCEPT !.at = at])
  BY <1>0
<1>3. ASSUME NEW type, NEW arg, To(type, arg),
             [type |-> type, arg |-> arg] \in Event
      PROVE  Right(pass')
  BY <1>3 DEF To
<1>4. EventOver => Right(pass')
  BY <1>1, <1>2 DEF EventOver
<1>5. UNCHANGED pass => Right(pass')
  BY <1>0
<1>6. CASE Callback
  <2>1. CASE Connect
    BY <2>1, <1>3 DEF Connect, Event
  <2>2. CASE Disconnect
    BY <2>2, <1>3 DEF Disconnect, Event
  <2>3. CASE CanSendNow
    BY <2>3, <1>5 DEF CanSendNow
  <2>4. ASSUME NEW on \in BOOLEAN, Subscribe(on) PROVE Right(pass')
    <3>1. /\ To("subscription", IF on THEN "on" ELSE "off")
          /\ [type |-> "subscription", arg |-> IF on THEN "on" ELSE "off"]
                \in Event
      BY <2>4 DEF Subscribe, Event
    <3> QED
      BY <3>1, <1>3
  <2>5. ASSUME NEW f \in Frames, Write(f) PROVE Right(pass')
    <3>1. To("write", f) /\ [type |-> "write", arg |-> f] \in Event
      BY <2>5 DEF Write, Event
    <3> QED
      BY <3>1, <1>3
  <2> QED
    BY <1>6, <2>1, <2>2, <2>3, <2>4, <2>5 DEF Callback
<1>7. CASE TakeFrame
  BY <1>7, <1>1 DEF TakeFrame
<1>8. CASE NoRoom \/ AfterEvent \/ OnDisconnected
  BY <1>8, <1>1 DEF NoRoom, AfterEvent, OnDisconnected
<1>9. ASSUME NEW good \in BOOLEAN, Notified(good) PROVE Right(pass')
  <2>1. \/ pass' = Idle
        \/ To("cansend", IF good THEN "sent" ELSE "failed")
    BY <1>9 DEF Notified
  <2>2. [type |-> "cansend", arg |-> IF good THEN "sent" ELSE "failed"]
           \in Event
    BY DEF Event
  <2> QED
    BY <2>1, <2>2, <1>1, <1>3
<1>10. CASE Forward
  <2>1. \/ EventOver
        \/ pass' = Idle
        \/ pass' = [at |-> "lost",
                    event |-> [type |-> "lost", arg |-> ble.generation]]
        \/ pass' = [pass EXCEPT !.at = "stream"]
    BY <1>10 DEF Forward
  <2>2. [type |-> "lost", arg |-> ble.generation] \in Event
    BY <1>0 DEF Event
  <2>3. Right([pass EXCEPT !.at = "stream"])
    BY <1>2
  <2>4. CASE pass' = [at |-> "lost",
                      event |-> [type |-> "lost", arg |-> ble.generation]]
    BY <2>2, <2>4, <1>0
  <2> QED
    BY <2>1, <2>3, <2>4, <1>1, <1>4
<1>11. CASE Unheard \/ OnSubscription \/ OnCanSend \/ OnWrite
  BY <1>11, <1>4 DEF Unheard, OnSubscription, OnCanSend, OnWrite, Handled
<1>12. CASE Bluetooth
  BY <1>12, <1>5 DEF Bluetooth, BleStart, StopBackend, BleStopped, BleFailed,
                     TellStream, Poll, TaskOnly
<1>13. CASE Application
  BY <1>13, <1>5 DEF Application, Send, Receive, SetSecret, ClearSecret,
                     CloseSession, Look, Rebind, Begin, Publish, Commit,
                     Unpublish, Clear, Deinitialize, AppOnly
<1>14. CASE UNCHANGED vars
  BY <1>14, <1>5 DEF vars
<1> QED
  BY <1>6, <1>7, <1>8, <1>9, <1>10, <1>11, <1>12, <1>13, <1>14
     DEF Next, Service

\* What else has a type: the states of hal_ble and of the two tasks.
LEMMA RestStep ==
    ASSUME IInv, [Next]_vars
    PROVE  /\ ble' \in [state: {"down", "up", "failed"}, generation: Nat,
                         connected: BOOLEAN]
           /\ task' \in {"idle", "stopped", "lost"}
           /\ app' \in [at: {"idle", "looked", "publish", "commit",
                              "withdraw", "clear"}, generation: Nat]
           /\ begun' \in Nat /\ forgotten' \in BOOLEAN
<1> DEFINE Right == /\ ble' \in [state: {"down", "up", "failed"},
                                  generation: Nat, connected: BOOLEAN]
                    /\ task' \in {"idle", "stopped", "lost"}
                    /\ app' \in [at: {"idle", "looked", "publish", "commit",
                                       "withdraw", "clear"}, generation: Nat]
                    /\ begun' \in Nat /\ forgotten' \in BOOLEAN
<1>0. /\ ble \in [state: {"down", "up", "failed"}, generation: Nat,
                   connected: BOOLEAN]
      /\ task \in {"idle", "stopped", "lost"}
      /\ app \in [at: {"idle", "looked", "publish", "commit", "withdraw",
                        "clear"}, generation: Nat]
      /\ begun \in Nat /\ forgotten \in BOOLEAN
      /\ stream \in Stream
  BY DEF IInv, TypeOK
<1>1. CASE Callback
  BY <1>0, <1>1 DEF Callback, Connect, Disconnect, CanSendNow, Subscribe,
                    Write, QuietStream, QuietTasks
<1>2. CASE TakeFrame \/ NoRoom \/ AfterEvent \/ Unheard
           \/ \E good \in BOOLEAN : Notified(good)
  BY <1>0, <1>2 DEF TakeFrame, NoRoom, AfterEvent, Unheard, Notified,
                    Handled, QuietStream, QuietTasks
<1>3. CASE Forward
  <2>1. \/ ble' = ble
        \/ ble' = [ble EXCEPT !.connected = TRUE]
        \/ ble' = [ble EXCEPT !.connected = FALSE]
    BY <1>3 DEF Forward
  <2>2. UNCHANGED <<task, app, begun, forgotten>>
    BY <1>3 DEF Forward, QuietStream, QuietTasks
  <2> QED
    BY <2>1, <2>2, <1>0
<1>4. CASE OnSubscription \/ OnCanSend \/ OnDisconnected
  BY <1>0, <1>4 DEF OnSubscription, OnCanSend, OnDisconnected, Handled,
                    QuietTasks
<1>5. CASE OnWrite
  <2>1. begun' = begun \/ begun' = begun + 1
    BY <1>5 DEF OnWrite
  <2>2. UNCHANGED <<ble, task, app, forgotten>>
    BY <1>5 DEF OnWrite, Handled, QuietTasks
  <2> QED
    BY <2>1, <2>2, <1>0
<1>6. CASE Bluetooth
  <2>1. UNCHANGED <<app, begun, forgotten>>
    BY <1>6 DEF Bluetooth, BleStart, StopBackend, BleStopped, BleFailed,
                TellStream, Poll, TaskOnly
  <2>2. task' \in {task, "idle", "stopped", "lost"}
    BY <1>6 DEF Bluetooth, BleStart, StopBackend, BleStopped, BleFailed,
                TellStream, Poll
  <2>3. \/ ble' = ble
        \/ \E st \in {"down", "up", "failed"} :
              ble' = [state |-> st, generation |-> ble.generation + 1,
                      connected |-> FALSE]
    BY <1>6 DEF Bluetooth, BleStart, StopBackend, BleStopped, BleFailed,
                TellStream, Poll, Lose
  <2>4. ble.generation + 1 \in Nat
    BY <1>0
  <2>5. ble' \in [state: {"down", "up", "failed"}, generation: Nat,
                  connected: BOOLEAN]
    <3>1. CASE ble' = ble
      BY <3>1, <1>0
    <3>2. ASSUME NEW st \in {"down", "up", "failed"},
                 ble' = [state |-> st, generation |-> ble.generation + 1,
                         connected |-> FALSE]
          PROVE  ble' \in [state: {"down", "up", "failed"}, generation: Nat,
                           connected: BOOLEAN]
      <4> DEFINE g == ble.generation + 1
      <4>1. g \in Nat /\ FALSE \in BOOLEAN
        BY <2>4
      <4> HIDE DEF g
      <4> QED
        BY <3>2, <4>1 DEF g
    <3> QED
      BY <3>1, <3>2, <2>3
  <2>6. /\ task' \in {"idle", "stopped", "lost"}
        /\ app' = app /\ begun' = begun /\ forgotten' = forgotten
    BY <2>1, <2>2, <1>0
  <2> QED
    BY <2>5, <2>6, <1>0, Zenon
<1>7. CASE Rebind
  <2>1. /\ app' = [app EXCEPT !.at = "idle"] /\ UNCHANGED <<ble, task, begun>>
        /\ forgotten' = forgotten \/ forgotten' = (forgotten \/ stream.pending)
    BY <1>7 DEF Rebind, AppTo
  <2> QED
    BY <2>1, <1>0 DEF Stream
<1>8. CASE Application /\ ~Rebind
  <2>1. UNCHANGED <<ble, task, begun, forgotten>>
    BY <1>8 DEF Application, Send, Receive, SetSecret, ClearSecret,
                CloseSession, Look, Begin, Publish, Commit, Unpublish, Clear,
                Deinitialize, AppOnly
  <2>2. \/ app' = app
        \/ app' = [at |-> "looked", generation |-> ble.generation]
        \/ \E at \in {"idle", "publish", "commit", "withdraw", "clear"} :
              app' = [app EXCEPT !.at = at]
    BY <1>8 DEF Application, Send, Receive, SetSecret, ClearSecret,
                CloseSession, Look, Begin, Publish, Commit, Unpublish, Clear,
                Deinitialize, AppTo
  <2> QED
    BY <2>1, <2>2, <1>0
<1>9. CASE UNCHANGED vars
  BY <1>0, <1>9 DEF vars
<1> QED
  BY <1>1, <1>2, <1>3, <1>4, <1>5, <1>6, <1>7, <1>8, <1>9
     DEF Next, Service

LEMMA InvariantStep ==
    ASSUME IInv, [Next]_vars
    PROVE  IInv'
<1>1. Good(stream', nonces')
  BY StreamStep
<1>2. stream' \in Stream /\ nonces' \subseteq Nat
  BY <1>1 DEF Good, Core, Counted
<1>3. back' \in Backend
  BY BackendStep
<1>4. TypeOK'
  BY <1>2, <1>3, PassStep, RestStep DEF TypeOK
<1> QED
  BY <1>1, <1>4 DEF IInv

LEMMA Invariance == Spec => []IInv
<1>1. Init => IInv
  BY InitIsGood
<1>2. IInv /\ [Next]_vars => IInv'
  BY InvariantStep
<1> QED
  BY <1>1, <1>2, PTL DEF Spec

-----------------------------------------------------------------------------

\* The variables have their types: in particular the counters of a session,
\* whatever it sends and receives, never pass the last one.
THEOREM TypeCorrect == Spec => []TypeOK
<1>1. IInv => TypeOK
  BY DEF IInv
<1> QED
  BY <1>1, Invariance, PTL

\* No payload crosses from one session to the next (clear_payload_queues_locked
\* and its callers), for any depth of the queues.
THEOREM PayloadsStayHome == Spec => []PayloadsStay
<1>1. IInv => PayloadsStay
  BY DEF IInv, Good, Core, Own, PayloadsStay
<1> QED
  BY <1>1, Invariance, PTL

\* Nothing lets a client in whose attempts are used up, before the deadline
\* (register_auth_failure_locked, close_session_locked).
THEOREM BackoffIsHeld == Spec => []BackoffHolds
<1>1. IInv => BackoffHolds
  BY DEF IInv, Good, Core, Held, BackoffHolds
<1> QED
  BY <1>1, Invariance, PTL

\* A counter is used for one data frame of a session
\* (jh_ble_stream_session_build_data, flush_tx_locked): those that went out
\* are at most the session's counter, and the next one is above it.
THEOREM NonceIsUsedOnce == Spec => NonceOnce
<1>1. IInv /\ [Next]_vars =>
         [back'.staged \notin {back.staged, None}
             /\ back'.staged.kind = "data" =>
                   back'.staged.counter \notin nonces]_vars
  BY BackendStep DEF New
<1> QED
  BY <1>1, Invariance, PTL DEF Spec, NonceOnce

-----------------------------------------------------------------------------
(* What ties the stream to its link: the stream, the backend, the event that *)
(* the service pass carries and what the two tasks are in the middle of.     *)

Told(type) == pass.at \in {"ble", "stream"} /\ pass.event.type = type
Parted == pass.at = "ble" /\ pass.event.type = "disconnected"
OffTold == Told("subscription") /\ pass.event.arg # "on"

\* What is on its way to the stream, and will make it go on.
News == Parted \/ Told("cansend") \/ OffTold

Heard == ble.state = "up" /\ ble.connected

Busy == {"publish", "commit", "withdraw", "clear"}

\* A session, a subscription and a frame in flight are of a stream in use.
Owned ==
    /\ stream.session # "IDLE" => stream.attached
    /\ stream.attached \/ stream.pending => stream.initialized
    /\ stream.control => stream.session # "IDLE"
    /\ stream.active <=> app.at \in Busy
    /\ app.at \in {"publish", "commit"} => ~stream.initialized
    /\ app.at \in {"commit", "clear"} => back.staged = None

\* The backend holds a frame for a subscribed link only, and an event tells
\* the truth about the link it came from.
Placed ==
    /\ back.staged # None => back.linked /\ back.subscribed
    /\ back.linked \/ pass.at # "idle" => back.started
    /\ back.started => ble.state # "down" /\ task # "stopped"
    /\ task = "lost" => ble.state # "up"
    /\ back.sending => pass.at = "notify" /\ back.staged # None
    /\ Told("subscription") \/ Told("write") => back.linked
    /\ OffTold => ~back.subscribed
    /\ Told("disconnected") \/ pass.at = "lost" => ~back.linked

\* A session has its link, unless the stream is about to be told.
SessionHasLink ==
    stream.session # "IDLE" /\ task = "idle" /\ pass.at # "lost" =>
        Heard /\ (back.linked \/ Parted)

\* So does a frame of the client's that is about to be heard.
WriteHasLink ==
    pass.at = "stream" /\ pass.event.type = "write" /\ stream.attached
       /\ task = "idle" =>
        Heard

\* A stream that waits has a frame in the backend, or is about to be told
\* what became of it.
PendingHasNews ==
    stream.pending /\ task = "idle" /\ app.at \notin {"withdraw", "clear"}
       /\ pass.at # "lost" =>
        Heard /\ (back.staged # None \/ News)

\* The other way round, but for a frame that was forgotten.
StagedIsPending ==
    ~forgotten /\ back.staged # None /\ (ble.state = "up" \/ task # "idle") =>
        stream.pending

\* Nothing is handed over while a completion is on its way.
OneAtATime ==
    ~forgotten /\ Told("cansend") =>
        back.staged = None /\ (stream.pending \/ stream.session = "IDLE")

Link == /\ Owned /\ Placed /\ SessionHasLink /\ WriteHasLink
        /\ PendingHasNews /\ StagedIsPending /\ OneAtATime /\ FramesStay

LEMMA InitIsLinked == Init => Link
BY DEF Init, Link, Owned, Placed, SessionHasLink, WriteHasLink, PendingHasNews,
       StagedIsPending, OneAtATime, FramesStay, Told, Parted, OffTold, News,
       Heard, Busy, Idle, NoEvent

-----------------------------------------------------------------------------
(* The fields of a stream that the link is about, through the operators.     *)

\* The stream t is s with its session closed, as far as the link goes.
Shut(t, s) ==
    /\ t.session = "IDLE" /\ ~t.control /\ t.pending = s.pending
    /\ t.initialized = s.initialized /\ t.active = s.active
    /\ t.attached = s.attached

\* The stream t is s.
Same(t, s) ==
    /\ t.session = s.session /\ t.id = s.id /\ t.control = s.control
    /\ t.pending = s.pending /\ t.initialized = s.initialized
    /\ t.active = s.active /\ t.attached = s.attached

LEMMA ClosedShuts ==
    ASSUME NEW s \in Stream
    PROVE  Shut(Closed(s), s)
<1>1. ClearQueues(s) = [s EXCEPT !.tx = <<>>, !.rx = <<>>, !.overflow = FALSE,
                                 !.sent = 0]
  BY DEF ClearQueues
<1>2. Cut(s) = [ClearQueues(s) EXCEPT !.session = "IDLE", !.id = 0,
                     !.txCounter = 0, !.rxCounter = 0, !.control = FALSE]
  BY DEF Cut
<1> QED
  BY <1>1, <1>2 DEF Closed, Shut, Stream

LEMMA DetachedShuts ==
    ASSUME NEW s \in Stream
    PROVE  /\ Detached(s).session = "IDLE" /\ ~Detached(s).control
           /\ ~Detached(s).pending /\ ~Detached(s).attached
           /\ Detached(s).initialized = s.initialized
           /\ Detached(s).active = s.active
<1> DEFINE t == [s EXCEPT !.subscribed = FALSE, !.attached = FALSE,
                          !.pending = FALSE]
<1>1. /\ t \in Stream /\ t.initialized = s.initialized /\ t.active = s.active
      /\ ~t.attached /\ ~t.pending
  BY DEF Stream
<1>2. Shut(Closed(t), t)
  BY <1>1, ClosedShuts
<1> QED
  BY <1>1, <1>2 DEF Detached, Shut

LEMMA EmptiedShuts ==
    ASSUME stream \in Stream, NEW i \in BOOLEAN, NEW st, NEW g
    PROVE  LET e == Emptied(i, st, g)
           IN  /\ e.session = "IDLE" /\ ~e.control /\ ~e.pending /\ ~e.attached
               /\ e.initialized = i /\ ~e.active
<1>1. ClearQueues(stream) =
         [stream EXCEPT !.tx = <<>>, !.rx = <<>>, !.overflow = FALSE,
                        !.sent = 0]
  BY DEF ClearQueues
<1>2. Cut(stream) =
         [ClearQueues(stream) EXCEPT !.session = "IDLE", !.id = 0,
              !.txCounter = 0, !.rxCounter = 0, !.control = FALSE]
  BY DEF Cut
<1> QED
  BY <1>1, <1>2 DEF Emptied, Stream

\* What a flush of s on the backend k leaves: t and b.
Flows(t, b, s, k) ==
    /\ t.initialized = s.initialized /\ t.active = s.active
    /\ t.attached = s.attached
    /\ t.control => t.session # "IDLE"
    /\ t.session # "IDLE" => t.session = s.session /\ t.id = s.id
    /\ \/ /\ b = k /\ t.pending = s.pending
          /\ t.session # "IDLE" => ~Ready(s) \/ s.attached
       \/ /\ ~s.pending /\ t.pending /\ s.session # "IDLE" /\ s.attached
          /\ t.session # "IDLE"
          /\ k.staged = None /\ k.linked /\ k.subscribed
          /\ b.staged # None /\ b.staged.of = s.id
          /\ b.started = k.started /\ b.linked = k.linked
          /\ b.subscribed = k.subscribed /\ b.sending = k.sending

LEMMA FlushedFlows ==
    ASSUME NEW s \in Stream, NEW k \in Backend, s.control => s.session # "IDLE"
    PROVE  Flows(Flushed(s, k), Staged(s, k), s, k)
<1> DEFINE f == Flushed(s, k)
           b == Staged(s, k)
<1>1. CASE ~Ready(s)
  <2>1. f = s /\ b = k
    BY <1>1 DEF Flushed, Staged, Hands
  <2> QED
    BY <2>1, <1>1 DEF Flows
<1>2. CASE Hands(s, k)
  <2>1. /\ s.session # "IDLE" /\ ~s.pending /\ s.attached
        /\ k.staged = None /\ k.linked /\ k.subscribed
    BY <1>2 DEF Hands, Ready, NotifyStatus
  <2>2. /\ f.initialized = s.initialized /\ f.active = s.active
        /\ f.attached = s.attached /\ f.pending
        /\ f.session = s.session /\ f.id = s.id
    <3>1. CASE s.control
      <4>1. f = [s EXCEPT !.control = FALSE, !.pending = TRUE]
        BY <1>2, <3>1 DEF Flushed, Hands
      <4> QED
        BY <4>1 DEF Stream
    <3>2. CASE ~s.control
      <4>1. f = [s EXCEPT !.tx = Tail(@), !.pending = TRUE,
                          !.txCounter = @ + 1, !.sent = s.txCounter + 1]
        BY <1>2, <3>2 DEF Flushed, Hands
      <4> QED
        BY <4>1 DEF Stream
    <3> QED
      BY <3>1, <3>2
  <2>3. FrameOf(s) # None /\ FrameOf(s).of = s.id
    <3>1. s.id \in Nat /\ s.txCounter \in Nat
      BY StreamAssumption DEF Stream
    <3>2. FrameOf(s) \in Frame /\ FrameOf(s).of = s.id
      BY <3>1 DEF FrameOf, Frame
    <3> QED
      BY <3>2, NoneIsNoFrame
  <2>4. /\ b.staged = FrameOf(s) /\ b.started = k.started
        /\ b.linked = k.linked /\ b.subscribed = k.subscribed
        /\ b.sending = k.sending
    BY <1>2 DEF Staged, Backend
  <2> QED
    BY <2>1, <2>2, <2>3, <2>4 DEF Flows
<1>3. CASE Ready(s) /\ ~Hands(s, k)
  <2>1. b = k
    BY <1>3 DEF Staged
  <2>2. CASE ~Exhausted(s) /\ NotifyStatus(s, k) = "EAGAIN"
    <3>1. f = IF s.control THEN s ELSE [s EXCEPT !.txCounter = s.sent]
      BY <1>3, <2>2 DEF Flushed
    <3>2. s.attached
      BY <2>2 DEF NotifyStatus
    <3>3. Same(f, s)
      BY <3>1 DEF Same, Stream
    <3> QED
      BY <2>1, <3>2, <3>3 DEF Flows, Same
  <2>3. CASE ~(~Exhausted(s) /\ NotifyStatus(s, k) = "EAGAIN")
    <3>1. f = Closed(s)
      BY <1>3, <2>3 DEF Flushed
    <3> QED
      BY <2>1, <3>1, ClosedShuts DEF Flows, Shut
  <2> QED
    BY <2>2, <2>3
<1> QED
  BY <1>1, <1>2, <1>3 DEF Hands

LEMMA FollowsSame ==
    ASSUME NEW s \in Stream
    PROVE  Same(Follow(s), s)
BY DEF Follow, Same, Stream

-----------------------------------------------------------------------------
(* One step, of the backend first: what a callback or the pass does to it.   *)

LEMMA DroppedFields ==
    ASSUME back \in Backend
    PROVE  /\ Dropped \in Backend
           /\ Dropped.started = back.started /\ Dropped.linked = back.linked
           /\ ~Dropped.subscribed /\ Dropped.staged = None /\ ~Dropped.sending
BY DEF Dropped, Backend

LEMMA CallbackLink ==
    ASSUME IInv, Link, Callback
    PROVE  Link'
<1> USE DEF Link, Owned, Placed, SessionHasLink, WriteHasLink, PendingHasNews,
            StagedIsPending, OneAtATime, FramesStay, Told, Parted, OffTold,
            News, Heard, Busy
<1>0. back \in Backend /\ stream \in Stream /\ Serving
  BY DEF IInv, TypeOK, Callback, Connect, Disconnect, CanSendNow, Subscribe,
         Write
<1>q. pass.at = "idle" /\ back.started /\ UNCHANGED <<stream, ble, task, app, forgotten>>
  BY <1>0 DEF Serving, Callback, Connect, Disconnect, CanSendNow, Subscribe,
         Write, QuietStream, QuietTasks
<1>1. CASE Connect
  <2>1. /\ pass'.at = "ble" /\ pass'.event.type = "connected" /\ ~back.linked
    BY <1>1 DEF Connect, To
  <2>2. /\ back'.linked /\ back'.started /\ ~back'.sending
        /\ back'.staged = None
    BY <1>1, <1>q, <1>0, DroppedFields DEF Connect, Backend
  <2> QED
    BY <2>1, <2>2, <1>q
<1>2. CASE Disconnect
  <2>1. pass'.at = "ble" /\ pass'.event.type = "disconnected" /\ back.linked
    BY <1>2 DEF Disconnect, To
  <2>2. /\ ~back'.linked /\ back'.started /\ ~back'.sending
        /\ back'.staged = None
    BY <1>2, <1>q, <1>0, DroppedFields DEF Disconnect, Backend
  <2> QED
    BY <2>1, <2>2, <1>q
<1>3. ASSUME NEW on \in BOOLEAN, Subscribe(on) PROVE Link'
  <2>1. /\ pass'.at = "ble" /\ pass'.event.type = "subscription"
        /\ pass'.event.arg = IF on THEN "on" ELSE "off"
        /\ back.linked
    BY <1>3 DEF Subscribe, To
  <2>2. CASE on
    <3>1. /\ back'.linked /\ back'.started /\ back'.sending = back.sending
          /\ back'.staged = back.staged /\ back'.subscribed
      BY <1>3, <2>1, <2>2, <1>q, <1>0 DEF Subscribe, Backend
    <3> QED
      BY <2>1, <2>2, <3>1, <1>q
  <2>3. CASE ~on
    <3>1. /\ back'.linked /\ back'.started /\ ~back'.sending
          /\ back'.staged = None /\ ~back'.subscribed
      BY <1>3, <2>1, <2>3, <1>q, <1>0, DroppedFields DEF Subscribe
    <3> QED
      BY <2>1, <2>3, <3>1, <1>q
  <2> QED
    BY <2>2, <2>3
<1>4. ASSUME NEW f \in Frames, Write(f) PROVE Link'
  <2>1. /\ pass'.at = "ble" /\ pass'.event.type = "write"
        /\ back.linked /\ back' = back
    BY <1>4 DEF Write, To
  <2> QED
    BY <2>1, <1>q
<1>5. CASE CanSendNow
  <2>1. /\ back'.linked = back.linked /\ back'.started = back.started
        /\ back'.sending = back.sending /\ back'.staged = back.staged
        /\ back'.subscribed = back.subscribed /\ pass' = pass
    BY <1>5, <1>0 DEF CanSendNow, Backend
  <2> QED
    BY <2>1, <1>q
<1> QED
  BY <1>1, <1>2, <1>3, <1>4, <1>5 DEF Callback

\* The pass, up to where the event is handed to the stream.
LEMMA PassLink ==
    ASSUME IInv, Link,
           \/ TakeFrame \/ NoRoom \/ Forward \/ AfterEvent \/ Unheard
           \/ \E good \in BOOLEAN : Notified(good)
    PROVE  Link'
<1>0. back \in Backend /\ stream \in Stream
  BY DEF IInv, TypeOK
<1>q. UNCHANGED <<stream, task, app, forgotten>>
  BY DEF TakeFrame, NoRoom, Forward, AfterEvent, Unheard, Notified, Handled,
         QuietStream, QuietTasks
<1>e. EventOver => pass'.at \in {"idle", "after"}
  BY DEF EventOver, Idle, IInv, TypeOK
<1>1. ASSUME TakeFrame
      PROVE  /\ pass'.at = "notify" /\ pass.at = "idle"
             /\ back.staged # None /\ back.started
             /\ back'.linked = back.linked /\ back'.started = back.started
             /\ back'.sending /\ back'.staged = back.staged
             /\ back'.subscribed = back.subscribed /\ ble' = ble
  <2>1. back' = [back EXCEPT !.sending = TRUE]
    BY <1>1 DEF TakeFrame
  <2>2. /\ back'.linked = back.linked /\ back'.started = back.started
        /\ back'.sending /\ back'.staged = back.staged
        /\ back'.subscribed = back.subscribed
    BY <2>1, <1>0 DEF Backend
  <2> QED
    BY <2>2, <1>1 DEF TakeFrame, Serving
<1>2. ASSUME NoRoom
      PROVE  /\ pass.at = "notify" /\ pass'.at = "idle"
             /\ back'.linked = back.linked /\ back'.started = back.started
             /\ ~back'.sending /\ back'.staged = back.staged
             /\ back'.subscribed = back.subscribed /\ ble' = ble
  BY <1>2, <1>0 DEF NoRoom, Idle, Backend
<1>3. ASSUME NEW good \in BOOLEAN, Notified(good)
      PROVE  /\ pass.at = "notify" /\ ble' = ble
             /\ \/ /\ back.sending
                   /\ pass'.at = "ble" /\ pass'.event.type = "cansend"
                   /\ back'.linked = back.linked
                   /\ back'.started = back.started
                   /\ ~back'.sending /\ back'.staged = None
                \/ pass'.at = "idle" /\ back' = back /\ ~back.sending
  <2>1. CASE back.sending
    <3>1. back' = [back EXCEPT !.staged = None, !.waiting = FALSE,
                               !.sending = FALSE, !.dispatching = TRUE]
      BY <1>3, <2>1 DEF Notified
    <3>2. /\ back'.linked = back.linked /\ back'.started = back.started
          /\ ~back'.sending /\ back'.staged = None
      BY <3>1, <1>0 DEF Backend
    <3>3. pass'.at = "ble" /\ pass'.event.type = "cansend"
      BY <1>3, <2>1 DEF Notified, To
    <3> QED
      BY <3>2, <3>3, <2>1, <1>3 DEF Notified
  <2>2. CASE ~back.sending
    BY <1>3, <2>2 DEF Notified, Idle
  <2> QED
    BY <2>1, <2>2
<1>4. ASSUME AfterEvent
      PROVE  /\ pass.at = "after" /\ pass'.at = "idle"
             /\ back'.linked = back.linked /\ back'.started = back.started
             /\ back'.sending = back.sending /\ back'.staged = back.staged
             /\ back'.subscribed = back.subscribed /\ ble' = ble
  BY <1>4, <1>0 DEF AfterEvent, Idle, Backend
<1>5. ASSUME Unheard
      PROVE  /\ pass.at = "stream" /\ back' = back /\ ble' = ble
             /\ pass'.at \in {"idle", "after"}
             /\ ~stream.initialized \/ stream.active
  BY <1>5, <1>e DEF Unheard, Handled, Usable
<1>6. ASSUME Forward
      PROVE  /\ pass.at = "ble" /\ back' = back
             /\ \/ /\ ble' = ble /\ pass'.at \in {"idle", "after"}
                   /\ ble.state # "up" \/ ~ble.connected
                \/ /\ ble.state = "up" /\ pass.event.type = "connected"
                   /\ ble'.connected /\ ble'.state = ble.state
                   /\ pass'.at = "idle"
                \/ /\ ble.state = "up" /\ pass.event.type = "disconnected"
                   /\ ble'.state = ble.state /\ pass'.at = "lost"
                \/ /\ ble.state = "up" /\ ble.connected /\ ble' = ble
                   /\ pass.event.type \notin {"connected", "disconnected"}
                   /\ pass'.at = "stream" /\ pass'.event = pass.event
  <2>1. CASE ble.state # "up" \/ ~Known
    BY <1>6, <2>1, <1>e DEF Forward, Known
  <2>2. CASE ble.state = "up" /\ Known /\ pass.event.type = "connected"
    BY <1>6, <2>2 DEF Forward, Idle, IInv, TypeOK
  <2>3. CASE ble.state = "up" /\ Known /\ pass.event.type = "disconnected"
    BY <1>6, <2>3 DEF Forward, IInv, TypeOK
  <2>4. CASE /\ ble.state = "up" /\ Known
             /\ pass.event.type \notin {"connected", "disconnected"}
    BY <1>6, <2>4 DEF Forward, Known, IInv, TypeOK
  <2> QED
    BY <2>1, <2>2, <2>3, <2>4, <1>6 DEF Forward
<1> USE DEF Link, Owned, Placed, SessionHasLink, WriteHasLink, PendingHasNews,
            StagedIsPending, OneAtATime, FramesStay, Told, Parted, OffTold,
            News, Heard, Busy
<1>7. CASE TakeFrame
  BY <1>7, <1>1, <1>q
<1>8. CASE NoRoom
  BY <1>8, <1>2, <1>q
<1>9. ASSUME NEW good \in BOOLEAN, Notified(good) PROVE Link'
  BY <1>9, <1>3, <1>q
<1>10. CASE AfterEvent
  BY <1>10, <1>4, <1>q
<1>11. CASE Unheard
  BY <1>11, <1>5, <1>q
<1>12. CASE Forward
  BY <1>12, <1>6, <1>q
<1> QED
  BY <1>7, <1>8, <1>9, <1>10, <1>11, <1>12

-----------------------------------------------------------------------------
(* What the stream makes of an event.                                        *)

\* The stream t and the backend b after a frame of the client's was answered
\* by s, on the backend k.
Answered(t, b, s, k) ==
    /\ t.initialized = s.initialized /\ t.active = s.active
    /\ t.attached = s.attached
    /\ t.control => t.session # "IDLE"
    /\ t.session # "IDLE" => s.attached \/ s.session # "IDLE"
    /\ \/ ~s.pending
       \/ t.session # "IDLE" => s.session # "IDLE" /\ t.id = s.id
    /\ \/ b = k /\ t.pending = s.pending
       \/ /\ t.pending /\ t.session # "IDLE" /\ k.linked /\ k.subscribed
          /\ b.staged # None /\ b.staged.of = t.id
          /\ b.started = k.started /\ b.linked = k.linked
          /\ b.subscribed = k.subscribed /\ b.sending = k.sending

LEMMA FlushedIsStream ==
    ASSUME NEW s \in Stream, NEW k
    PROVE  Flushed(s, k) \in Stream
<1> DEFINE f == Flushed(s, k)
<1>z. 0 \in 0 .. MaxCounter /\ 0 \in Nat /\ <<>> \in Seq(Nat)
  BY StreamAssumption
<1>1. CASE ~Ready(s)
  BY <1>1 DEF Flushed, Hands
<1>2. CASE Hands(s, k) /\ s.control
  <2>1. f = [s EXCEPT !.control = FALSE, !.pending = TRUE]
    BY <1>2 DEF Flushed, Hands
  <2> QED
    BY <2>1 DEF Stream
<1>3. CASE Hands(s, k) /\ ~s.control
  <2>1. /\ f = [s EXCEPT !.tx = Tail(@), !.pending = TRUE,
                         !.txCounter = @ + 1, !.sent = s.txCounter + 1]
        /\ s.tx # <<>> /\ s.txCounter # MaxCounter
    BY <1>3 DEF Flushed, Hands, Ready, Exhausted
  <2>c. s.txCounter \in 0 .. MaxCounter
    BY DEF Stream
  <2>2. s.txCounter + 1 \in 0 .. MaxCounter
    BY <2>1, <2>c, StreamAssumption
  <2>3. Tail(s.tx) \in Seq(Nat)
    BY <2>1 DEF Stream
  <2> QED
    BY ZenonT(40), <2>1, <2>2, <2>3 DEF Stream
<1>4. CASE Ready(s) /\ ~Hands(s, k)
  <2>1. /\ s \in Stream /\ [s EXCEPT !.txCounter = s.sent] \in Stream
    BY DEF Stream
  <2>2. ClearQueues(s) \in Stream
    BY <1>z DEF ClearQueues, Stream
  <2>3. Cut(s) \in Stream
    BY <1>z, <2>2 DEF Cut, Stream
  <2>4. Closed(s) \in Stream
    BY <2>3 DEF Closed, Resting, Stream
  <2>5. f \in {s, [s EXCEPT !.txCounter = s.sent], Closed(s)}
    BY <1>4 DEF Flushed
  <2> QED
    BY <2>1, <2>4, <2>5
<1> QED
  BY <1>1, <1>2, <1>3, <1>4 DEF Hands

LEMMA AnswersLink ==
    ASSUME NEW s \in Stream, NEW k \in Backend, NEW h \in Stream,
           h.control, h.session # "IDLE", h.pending = s.pending,
           h.initialized = s.initialized, h.active = s.active,
           h.attached = s.attached,
           ~s.pending \/ (s.session # "IDLE" /\ h.id = s.id),
           Answers(h, k)
    PROVE  Answered(stream', back', s, k)
<1>1. /\ stream' = Follow(Flushed(h, k)) /\ back' = Staged(h, k)
  BY DEF Answers, Hand
<1>2. Flows(Flushed(h, k), Staged(h, k), h, k)
  BY FlushedFlows
<1>3. Same(stream', Flushed(h, k))
  BY <1>1, FlushedIsStream, FollowsSame
<1>4. ~h.pending => Ready(h)
  BY DEF Ready
<1> QED
  BY <1>1, <1>2, <1>3, <1>4 DEF Flows, Same, Answered

LEMMA ReceivesLink ==
    ASSUME NEW s \in Stream, NEW k \in Backend, NEW f, Good(s, nonces),
           s.initialized, s.state # "BACKOFF", begun \in Nat,
           f = "hello" => ~s.pending, Receives(s, k, f)
    PROVE  \/ back' = k /\ (Shut(stream', s) \/ Same(stream', s))
           \/ Answered(stream', back', s, k)
<1>z. 0 \in 0 .. MaxCounter /\ 0 \in Nat /\ <<>> \in Seq(Nat)
  BY StreamAssumption
<1>1. CASE f = "hello" /\ Answers(Hello(s, begun + 1), k)
  <2> DEFINE h == Hello(s, begun + 1)
  <2>1. ClearQueues(s) \in Stream
    BY <1>z DEF ClearQueues, Stream
  <2>n. begun + 1 \in Nat
    OBVIOUS
  <2>2. h \in Stream
    BY <2>1, <2>n, <1>z DEF Hello, Stream
  <2>3. /\ h.control /\ h.session # "IDLE" /\ h.pending = s.pending
        /\ h.initialized = s.initialized /\ h.active = s.active
        /\ h.attached = s.attached
    BY DEF Hello, ClearQueues, Stream
  <2>4. Answers(h, k) /\ ~s.pending
    BY <1>1
  <2> HIDE DEF h
  <2> QED
    BY <2>2, <2>3, <2>4, AnswersLink
<1>2. CASE f = "auth" /\ Accepted(s, f) /\ Answers(Authenticated(s), k)
  <2> DEFINE h == Authenticated(s)
  <2>1. h \in Stream
    BY <1>z DEF Authenticated, Stream
  <2>2. /\ h.control /\ h.session # "IDLE" /\ h.pending = s.pending
        /\ h.initialized = s.initialized /\ h.active = s.active
        /\ h.attached = s.attached /\ h.id = s.id
    BY DEF Authenticated, Stream
  <2>3. Answers(h, k) /\ s.session # "IDLE"
    BY <1>2 DEF Accepted
  <2> HIDE DEF h
  <2> QED
    BY <2>1, <2>2, <2>3, AnswersLink
<1>3. CASE /\ Accepted(s, f) /\ f = "data"
           /\ Takes(Follow(Payload(s)), k)
  <2>1. s.rxCounter + 1 \in 0 .. MaxCounter
    BY <1>3, StreamAssumption DEF Accepted, Stream
  <2>2. Append(s.rx, s.id) \in Seq(Nat)
    BY DEF Stream
  <2>3. Payload(s) \in Stream
    BY <2>1, <2>2 DEF Payload, Stream
  <2>4. Same(Payload(s), s)
    BY DEF Payload, Same, Stream
  <2>5. Same(Follow(Payload(s)), Payload(s))
    BY <2>3, FollowsSame
  <2> QED
    BY <1>3, <2>4, <2>5 DEF Takes, Same
<1>4. CASE Takes(Closed(Failure(s)), k)
  <2>1. s.attempts + 1 \in Nat
    BY DEF Stream
  <2>2. Failure(s) \in Stream
    BY <2>1 DEF Failure, Stream
  <2>3. Same(Failure(s), s)
    BY DEF Failure, Same, Stream
  <2>4. Shut(Closed(Failure(s)), Failure(s))
    BY <2>2, ClosedShuts
  <2> QED
    BY <1>4, <2>3, <2>4 DEF Takes, Same, Shut
<1>5. CASE Takes(Closed(s), k)
  BY <1>5, ClosedShuts DEF Takes
<1> QED
  BY <1>1, <1>2, <1>3, <1>4, <1>5 DEF Receives

LEMMA EventLink ==
    ASSUME IInv, Link, OnSubscription \/ OnCanSend \/ OnWrite
    PROVE  Link'
<1>0. /\ back \in Backend /\ stream \in Stream /\ Good(stream, nonces)
      /\ begun \in Nat
  BY DEF IInv, TypeOK
<1>q. /\ pass.at = "stream" /\ UNCHANGED <<ble, task, app, forgotten>>
      /\ pass'.at \in {"idle", "after"}
      /\ stream.initialized /\ ~stream.active
  BY DEF OnSubscription, OnCanSend, OnWrite, Handling, Usable, Handled,
         QuietTasks, EventOver, Idle, IInv, TypeOK
<1>1. ASSUME OnSubscription
      PROVE  /\ pass.event.type = "subscription" /\ back' = back
             /\ stream'.initialized /\ ~stream'.active /\ stream'.attached
             /\ \/ /\ pass.event.arg = "on"
                   /\ stream'.session = stream.session
                   /\ stream'.id = stream.id
                   /\ stream'.control = stream.control
                   /\ stream'.pending = stream.pending
                \/ /\ pass.event.arg # "on" /\ stream'.session = "IDLE"
                   /\ ~stream'.control /\ ~stream'.pending
  <2> DEFINE s == [stream EXCEPT !.subscribed = (pass.event.arg = "on"),
                                 !.attached = TRUE]
             t == [s EXCEPT !.state = IF @ = "IDLE" THEN "SUBSCRIBED" ELSE @]
             u == [s EXCEPT !.pending = FALSE]
  <2>1. /\ s \in Stream /\ s.session = stream.session /\ s.id = stream.id
        /\ s.control = stream.control /\ s.pending = stream.pending
        /\ s.initialized = stream.initialized /\ s.active = stream.active
        /\ s.attached /\ s.subscribed = (pass.event.arg = "on")
    BY <1>0 DEF Stream
  <2>2. /\ pass.event.type = "subscription" /\ back' = back
        /\ stream' = IF s.subscribed THEN t ELSE Closed(u)
    BY <1>1 DEF OnSubscription, Handling, Set
  <2> HIDE DEF s
  <2>3. Same(t, s)
    BY <2>1 DEF Same, Stream
  <2>4. /\ u \in Stream /\ ~u.pending /\ u.initialized = s.initialized
        /\ u.active = s.active /\ u.attached = s.attached
    BY <2>1 DEF Stream
  <2> HIDE DEF t, u
  <2>5. Shut(Closed(u), u)
    BY <2>4, ClosedShuts
  <2> QED
    BY <2>1, <2>2, <2>3, <2>4, <2>5, <1>q DEF Same, Shut
<1>2. ASSUME OnCanSend
      PROVE  /\ pass.event.type = "cansend"
             /\ stream'.initialized /\ ~stream'.active
             /\ stream'.attached = stream.attached
             /\ stream'.control => stream'.session # "IDLE"
             /\ stream'.session # "IDLE" =>
                   stream'.session = stream.session /\ stream'.id = stream.id
             /\ \/ back' = back /\ ~stream'.pending
                \/ /\ stream'.pending /\ stream'.session # "IDLE"
                   /\ back.linked /\ back.subscribed
                   /\ back'.staged # None /\ back'.staged.of = stream.id
                   /\ back'.started = back.started
                   /\ back'.linked = back.linked
                   /\ back'.subscribed = back.subscribed
                   /\ back'.sending = back.sending
  <2> DEFINE s == [stream EXCEPT !.pending = FALSE]
  <2>1. /\ s \in Stream /\ s.session = stream.session /\ s.id = stream.id
        /\ s.control = stream.control /\ ~s.pending
        /\ s.initialized = stream.initialized /\ s.active = stream.active
        /\ s.attached = stream.attached
    BY <1>0 DEF Stream
  <2>2. /\ pass.event.type = "cansend"
        /\ Flush(s) \/ (stream' = Closed(s) /\ back' = back)
    BY <1>2 DEF OnCanSend, Handling, Set
  <2>3. s.control => s.session # "IDLE"
    BY <2>1 DEF Link, Owned
  <2> HIDE DEF s
  <2>4. CASE Flush(s)
    <3>1. Flows(stream', back', s, back)
      BY <2>4, <2>1, <2>3, <1>0, FlushedFlows DEF Flush, Hand
    <3> QED
      BY <3>1, <2>1, <2>2, <1>q DEF Flows
  <2>5. CASE stream' = Closed(s) /\ back' = back
    BY <2>5, <2>1, <2>2, <1>q, ClosedShuts DEF Shut
  <2> QED
    BY <2>2, <2>4, <2>5
<1>3. ASSUME OnWrite
      PROVE  /\ pass.event.type = "write" /\ pass'.at = "idle"
             /\ \E s \in Stream, k \in Backend :
                   /\ s.session = stream.session /\ s.id = stream.id
                   /\ s.control = stream.control
                   /\ s.initialized = stream.initialized
                   /\ s.active = stream.active
                   /\ s.attached = stream.attached
                   /\ k.started = back.started /\ k.linked = back.linked
                   /\ k.subscribed = back.subscribed
                   /\ k.sending = back.sending
                   /\ \/ k.staged = back.staged /\ s.pending = stream.pending
                      \/ k.staged = None /\ ~s.pending /\ ~back.sending
                   /\ \/ back' = k /\ (Shut(stream', s) \/ Same(stream', s))
                      \/ Answered(stream', back', s, k)
  <2> DEFINE f == pass.event.arg
  <2>1. pass.event.type = "write" /\ pass'.at = "idle"
    BY <1>3 DEF OnWrite, Handling, Handled, EventOver, Idle
  <2>2. PICK s \in Backoff(stream) :
           \/ /\ s.state # "BACKOFF" /\ DiscardStatus(s, back) = "OK"
              /\ Receives([s EXCEPT !.pending = FALSE],
                          [back EXCEPT !.staged = None], f)
           \/ /\ s.state # "BACKOFF" /\ ~(f = "hello" /\ s.pending)
              /\ Receives(s, back, f)
           \/ Set(s) \/ Set(Closed(s))
    BY <1>3 DEF OnWrite, Withdraws
  <2>3. Good(s, nonces) /\ s \in Stream
    BY BackoffIsGood
  <2>4. Same(s, stream)
    <3>1. s \in {stream, [stream EXCEPT !.attempts = 0,
                                        !.state = Resting(stream)]}
      BY DEF Backoff, Lapsed
    <3> QED
      BY <3>1, <1>0 DEF Same, Stream
  <2>5. CASE /\ s.state # "BACKOFF" /\ DiscardStatus(s, back) = "OK"
             /\ Receives([s EXCEPT !.pending = FALSE],
                         [back EXCEPT !.staged = None], f)
    <3> DEFINE t == [s EXCEPT !.pending = FALSE]
               k == [back EXCEPT !.staged = None]
    <3>1. /\ t \in Stream /\ ~t.pending /\ t.state = s.state
          /\ t.attempts = s.attempts /\ t.session = s.session /\ t.id = s.id
          /\ t.control = s.control /\ t.initialized = s.initialized
          /\ t.active = s.active /\ t.attached = s.attached
          /\ t.tx = s.tx /\ t.rx = s.rx /\ t.txCounter = s.txCounter
          /\ t.sent = s.sent
      BY <2>3 DEF Stream
    <3>2. Good(t, nonces)
      BY <2>3, <3>1 DEF Good, Core, Held, Own, Counted, Fresh, Agree
    <3>3. /\ k \in Backend /\ k.staged = None
          /\ k.started = back.started /\ k.linked = back.linked
          /\ k.subscribed = back.subscribed /\ k.sending = back.sending
      BY <1>0 DEF Backend
    <3>4. ~back.sending
      BY <2>5 DEF DiscardStatus
    <3>5. Receives(t, k, f) /\ t.state # "BACKOFF" /\ t.initialized
      BY <2>5, <3>1, <2>4, <1>q DEF Same
    <3> HIDE DEF t, k
    <3>6. \/ back' = k /\ (Shut(stream', t) \/ Same(stream', t))
          \/ Answered(stream', back', t, k)
      BY <3>1, <3>2, <3>3, <3>5, <1>0, ReceivesLink
    <3>7. /\ t.session = stream.session /\ t.id = stream.id
          /\ t.control = stream.control
          /\ t.initialized = stream.initialized
          /\ t.active = stream.active
          /\ t.attached = stream.attached
      BY <3>1, <2>4 DEF Same
    <3> QED
      BY <2>1, <3>1, <3>3, <3>4, <3>6, <3>7
  <2>6. CASE /\ s.state # "BACKOFF" /\ ~(f = "hello" /\ s.pending)
             /\ Receives(s, back, f)
    <3>1. \/ back' = back /\ (Shut(stream', s) \/ Same(stream', s))
          \/ Answered(stream', back', s, back)
      BY <2>3, <2>4, <2>6, <1>0, <1>q, ReceivesLink DEF Same
    <3> QED
      BY <2>1, <2>3, <2>4, <3>1, <1>0 DEF Same
  <2>7. CASE Set(s) \/ Set(Closed(s))
    <3>1. back' = back /\ (Shut(stream', s) \/ Same(stream', s))
      BY <2>3, <2>7, ClosedShuts DEF Set, Same
    <3> QED
      BY <2>1, <2>3, <2>4, <3>1, <1>0 DEF Same
  <2> QED
    BY <2>2, <2>5, <2>6, <2>7
<1> USE DEF Link, Owned, Placed, SessionHasLink, WriteHasLink, PendingHasNews,
            StagedIsPending, OneAtATime, FramesStay, Told, Parted, OffTold,
            News, Heard, Busy
<1>4. CASE OnSubscription
  BY <1>4, <1>1, <1>q
<1>5. CASE OnCanSend
  BY <1>5, <1>2, <1>q
<1>6. CASE OnWrite
  <2>1. PICK s \in Stream, k \in Backend :
                   /\ s.session = stream.session /\ s.id = stream.id
                   /\ s.control = stream.control
                   /\ s.initialized = stream.initialized
                   /\ s.active = stream.active
                   /\ s.attached = stream.attached
                   /\ k.started = back.started /\ k.linked = back.linked
                   /\ k.subscribed = back.subscribed
                   /\ k.sending = back.sending
                   /\ \/ k.staged = back.staged /\ s.pending = stream.pending
                      \/ k.staged = None /\ ~s.pending /\ ~back.sending
                   /\ \/ back' = k /\ (Shut(stream', s) \/ Same(stream', s))
                      \/ Answered(stream', back', s, k)
    BY <1>6, <1>3
  <2>2. pass.event.type = "write" /\ pass'.at = "idle"
    BY <1>6, <1>3
  <2>3. CASE back' = k /\ Shut(stream', s)
    BY <2>1, <2>2, <2>3, <1>q DEF Shut
  <2>4. CASE back' = k /\ Same(stream', s)
    BY <2>1, <2>2, <2>4, <1>q DEF Same
  <2>5. CASE Answered(stream', back', s, k)
    BY <2>1, <2>2, <2>5, <1>q DEF Answered
  <2> QED
    BY <2>1, <2>3, <2>4, <2>5
<1> QED
  BY <1>4, <1>5, <1>6

-----------------------------------------------------------------------------
(* The two tasks.                                                            *)

\* The loss of a link, told to the stream.
LEMMA LinkLostShuts ==
    ASSUME stream \in Stream, Owned, NEW g \in Nat, LinkLost(g)
    PROVE  /\ stream'.session = "IDLE" /\ ~stream'.control
           /\ ~stream'.pending /\ ~stream'.attached
           /\ stream'.initialized = stream.initialized
           /\ stream'.active = stream.active
           /\ back' = back
<1> DEFINE s == [stream EXCEPT !.generation = g]
<1>1. CASE stream.initialized
  <2>1. stream' = Detached(s) /\ back' = back
    BY <1>1 DEF LinkLost, Set
  <2>2. /\ s \in Stream /\ s.initialized = stream.initialized
        /\ s.active = stream.active
    BY DEF Stream
  <2> QED
    BY <2>1, <2>2, DetachedShuts
<1>2. CASE ~stream.initialized
  BY <1>2 DEF LinkLost, Set, Owned
<1> QED
  BY <1>1, <1>2

LEMMA BluetoothLink ==
    ASSUME IInv, Link, Bluetooth \/ OnDisconnected
    PROVE  Link'
<1>0. /\ back \in Backend /\ stream \in Stream /\ Good(stream, nonces)
      /\ Owned /\ ble.generation \in Nat
      /\ pass.at = "lost" => pass.event.arg \in Nat
  BY DEF IInv, TypeOK, Link
<1>1. ASSUME BleStart
      PROVE  /\ task = "idle" /\ ble.state = "down" /\ pass.at = "idle"
             /\ ble'.state = "up"
             /\ back'.started /\ back'.linked = back.linked
             /\ back'.subscribed = back.subscribed
             /\ back'.staged = back.staged /\ back'.sending = back.sending
             /\ UNCHANGED <<stream, pass, task, app, forgotten>>
  BY <1>1, <1>0 DEF BleStart, TaskOnly, Backend
<1>2. ASSUME StopBackend
      PROVE  /\ ble.state # "down" /\ pass.at = "idle" /\ task' = "stopped"
             /\ ~back'.started /\ ~back'.linked /\ back'.staged = None
             /\ ~back'.sending
             /\ UNCHANGED <<ble, stream, pass, app, forgotten>>
  BY <1>2, <1>0, DroppedFields DEF StopBackend, TaskOnly, Backend
<1>3. ASSUME BleStopped
      PROVE  /\ task = "stopped" /\ task' = "lost" /\ ble'.state = "down"
             /\ UNCHANGED <<back, stream, pass, app, forgotten>>
  BY <1>3 DEF BleStopped, TaskOnly, Lose
<1>4. ASSUME BleFailed
      PROVE  /\ task = "idle" /\ ble.state = "up" /\ task' = "lost"
             /\ ble'.state = "failed"
             /\ UNCHANGED <<back, stream, pass, app, forgotten>>
  BY <1>4 DEF BleFailed, TaskOnly, Lose
<1>5. ASSUME TellStream
      PROVE  /\ task = "lost" /\ task' = "idle"
             /\ stream'.session = "IDLE" /\ ~stream'.control
             /\ ~stream'.pending /\ ~stream'.attached
             /\ stream'.initialized = stream.initialized
             /\ stream'.active = stream.active
             /\ UNCHANGED <<ble, back, pass, app, forgotten>>
  BY <1>5, <1>0, LinkLostShuts DEF TellStream, TaskOnly
<1>6. ASSUME OnDisconnected
      PROVE  /\ pass.at = "lost" /\ pass'.at = "idle"
             /\ stream'.session = "IDLE" /\ ~stream'.control
             /\ ~stream'.pending /\ ~stream'.attached
             /\ stream'.initialized = stream.initialized
             /\ stream'.active = stream.active
             /\ UNCHANGED <<ble, back, task, app, forgotten>>
  BY <1>6, <1>0, LinkLostShuts DEF OnDisconnected, QuietTasks, Idle
<1>7. ASSUME Poll
      PROVE  /\ UNCHANGED <<ble, task, pass, app, forgotten>>
             /\ ~stream.active
             /\ \/ Flows(stream', back', stream, back)
                \/ Shut(stream', stream) /\ back' = back
  <2>1. PICK s \in Backoff(stream) :
           Flush(s) \/ (stream' = Closed(s) /\ back' = back)
    BY <1>7 DEF Poll, Set
  <2>2. s \in Stream
    BY BackoffIsGood
  <2>3. Same(s, stream)
    <3>1. s \in {stream, [stream EXCEPT !.attempts = 0,
                                        !.state = Resting(stream)]}
      BY DEF Backoff, Lapsed
    <3> QED
      BY <3>1, <1>0 DEF Same, Stream
  <2>4. s.control => s.session # "IDLE"
    BY <2>3, <1>0 DEF Same, Owned
  <2>5. Flush(s) => Flows(stream', back', s, back)
    BY <2>2, <2>4, <1>0, FlushedFlows DEF Flush, Hand
  <2>6. Flush(s) => Flows(stream', back', stream, back)
    <3>1. Ready(stream) => Ready(s) \/ s.session # stream.session
                                     \/ s.tx # stream.tx
      BY <2>3 DEF Ready, Same
    <3>2. s.tx = stream.tx
      <4>1. s \in {stream, [stream EXCEPT !.attempts = 0,
                                          !.state = Resting(stream)]}
        BY DEF Backoff, Lapsed
      <4> QED
        BY <4>1, <1>0 DEF Stream
    <3> QED
      BY <3>1, <3>2, <2>3, <2>5 DEF Flows, Same
  <2>7. stream' = Closed(s) => Shut(stream', stream)
    BY <2>2, <2>3, ClosedShuts DEF Same, Shut
  <2> QED
    BY <2>1, <2>6, <2>7, <1>7 DEF Poll, TaskOnly, Usable
<1> USE DEF Link, Owned, Placed, SessionHasLink, WriteHasLink, PendingHasNews,
            StagedIsPending, OneAtATime, FramesStay, Told, Parted, OffTold,
            News, Heard, Busy
<1>8. CASE BleStart
  BY <1>8, <1>1
<1>9. CASE StopBackend
  BY <1>9, <1>2
<1>10. CASE BleStopped
  BY <1>10, <1>3
<1>11. CASE BleFailed
  BY <1>11, <1>4
<1>12. CASE TellStream
  BY <1>12, <1>5
<1>13. CASE OnDisconnected
  BY <1>13, <1>6
<1>14. CASE Poll
  BY <1>14, <1>7 DEF Flows, Shut
<1> QED
  BY <1>8, <1>9, <1>10, <1>11, <1>12, <1>13, <1>14 DEF Bluetooth

LEMMA ApplicationLink ==
    ASSUME IInv, Link, Application
    PROVE  Link'
<1>0. /\ back \in Backend /\ stream \in Stream /\ Good(stream, nonces)
      /\ Owned /\ forgotten \in BOOLEAN
      /\ app \in [at: {"idle", "looked", "publish", "commit", "withdraw",
                       "clear"}, generation: Nat]
  BY DEF IInv, TypeOK, Link
<1>q. UNCHANGED <<ble, pass, task>>
  BY DEF Application, Send, Receive, SetSecret, ClearSecret, CloseSession,
         Look, Rebind, Begin, Publish, Commit, Unpublish, Clear, Deinitialize,
         AppOnly
<1>t. ASSUME NEW at, AppTo(at) PROVE app'.at = at
  BY <1>t, <1>0 DEF AppTo
<1>1. ASSUME Send
      PROVE  /\ app' = app /\ forgotten' = forgotten
             /\ stream.session # "IDLE" /\ app.at = "idle"
             /\ stream.initialized /\ ~stream.active
             /\ Flows(stream', back', stream, back)
  <2> DEFINE s == [stream EXCEPT !.tx = Append(@, stream.id)]
  <2>1. /\ Flush(s) /\ stream.session = "AUTHENTICATED"
        /\ app' = app /\ forgotten' = forgotten
    BY <1>1, <1>0 DEF Send, Good, Agree, AppOnly
  <2>2. Append(stream.tx, stream.id) \in Seq(Nat)
    BY <1>0 DEF Stream
  <2>3. s \in Stream /\ Same(s, stream)
    BY <2>2, <1>0 DEF Stream, Same
  <2> HIDE DEF s
  <2>4. Flows(stream', back', s, back)
    BY <2>1, <2>3, <1>0, FlushedFlows DEF Flush, Hand, Same, Owned
  <2>5. stream.attached
    BY <2>1, <1>0 DEF Owned
  <2>6. app.at = "idle" /\ stream.initialized /\ ~stream.active
    BY <1>1 DEF Send, Calls, Usable, AtApp
  <2> QED
    BY <2>1, <2>3, <2>4, <2>5, <2>6 DEF Flows, Same
<1>2. ASSUME Receive
      PROVE  /\ app' = app /\ forgotten' = forgotten /\ back' = back
             /\ Same(stream', stream)
  BY <1>2, <1>0 DEF Receive, Set, AppOnly, Same, Stream
<1>3. ASSUME SetSecret \/ ClearSecret \/ CloseSession
      PROVE  /\ app' = app /\ forgotten' = forgotten /\ back' = back
             /\ Shut(stream', stream)
  <2> DEFINE c == Closed(stream)
  <2>1. Shut(c, stream) /\ c \in Stream
    <3>1. nonces \in SUBSET Nat
      BY DEF IInv, TypeOK
    <3> QED
      BY <3>1, <1>0, ClosedShuts, ClosedIsGood DEF Good, Core, Held
  <2> HIDE DEF c
  <2>2. /\ stream' \in {c, [c EXCEPT !.secret = TRUE],
                        [c EXCEPT !.secret = FALSE]}
        /\ app' = app /\ forgotten' = forgotten /\ back' = back
    BY <1>3 DEF SetSecret, ClearSecret, CloseSession, Set, AppOnly, c
  <2> QED
    BY <2>1, <2>2 DEF Shut, Stream
<1>4. ASSUME Look
      PROVE  /\ app.at = "idle" /\ app'.at = "looked"
             /\ UNCHANGED <<stream, back, forgotten>>
  BY <1>4 DEF Look, AtApp, AppOnly
<1>5. ASSUME Rebind
      PROVE  /\ app.at = "looked" /\ app'.at = "idle" /\ back' = back
             /\ \/ UNCHANGED <<stream, forgotten>>
                \/ /\ forgotten \/ stream.pending => forgotten'
                   /\ stream'.session = "IDLE" /\ ~stream'.control
                   /\ ~stream'.pending /\ ~stream'.attached
                   /\ stream'.initialized = stream.initialized
                   /\ stream'.active = stream.active
  <2>1. app.at = "looked" /\ app'.at = "idle" /\ stream.initialized
    BY <1>5, <1>t DEF Rebind, AtApp
  <2>2. CASE stream.generation = app.generation
    BY <1>5, <2>1, <2>2 DEF Rebind, Set
  <2>3. CASE stream.generation # app.generation
    <3>1. /\ LinkLost(app.generation)
          /\ forgotten' = (forgotten \/ stream.pending)
      BY <1>5, <2>1, <2>3 DEF Rebind, LinkLost
    <3>2. forgotten \/ stream.pending => forgotten'
      BY <3>1, Zenon
    <3> QED
      BY <2>1, <3>1, <3>2, <1>0, LinkLostShuts
  <2> QED
    BY <2>2, <2>3
<1>6. ASSUME Begin \/ Deinitialize
      PROVE  /\ back' = back /\ forgotten' = forgotten
             /\ stream'.session = stream.session /\ stream'.id = stream.id
             /\ stream'.control = stream.control
             /\ stream'.pending = stream.pending
             /\ stream'.initialized = stream.initialized
             /\ stream'.attached = stream.attached /\ stream'.active
             /\ \/ app'.at = "publish" /\ ~stream.initialized
                \/ app'.at = "withdraw"
  BY <1>6, <1>0, <1>t DEF Begin, Deinitialize, Set, AppOnly, Stream
<1>7. ASSUME Publish
      PROVE  /\ app.at = "publish" /\ UNCHANGED <<stream, forgotten>>
             /\ \/ app'.at = "withdraw" /\ back' = back
                \/ /\ app'.at = "commit" /\ back.staged = None
                   /\ back'.staged = None /\ back'.started = back.started
                   /\ back'.linked = back.linked
                   /\ back'.subscribed = back.subscribed
                   /\ back'.sending = back.sending
  BY <1>7, <1>0, <1>t DEF Publish, AtApp, AppOnly, Backend
<1>8. ASSUME Commit \/ Clear
      PROVE  /\ app.at \in {"commit", "clear"} /\ back' = back
             /\ forgotten' = forgotten
             /\ \/ /\ app'.at = "idle"
                   /\ stream'.session = "IDLE" /\ ~stream'.control
                   /\ ~stream'.pending /\ ~stream'.attached
                   /\ ~stream'.active
                \/ app'.at = "withdraw" /\ stream' = stream
  <2>2. /\ app.at \in {"commit", "clear"} /\ back' = back
        /\ forgotten' = forgotten
        /\ \/ app'.at = "withdraw" /\ stream' = stream
           \/ /\ app'.at = "idle"
              /\ \/ stream' = Emptied(TRUE, "IDLE", app.generation)
                 \/ stream' =
                       Emptied(FALSE, "UNINITIALIZED", stream.generation)
    BY <1>8, <1>t DEF Commit, Clear, Set, AtApp, AppOnly
  <2>3. ASSUME NEW i \in BOOLEAN, NEW st, NEW g, stream' = Emptied(i, st, g)
        PROVE  /\ stream'.session = "IDLE" /\ ~stream'.control
               /\ ~stream'.pending /\ ~stream'.attached
               /\ ~stream'.active
    BY <2>3, <1>0, EmptiedShuts
  <2> QED
    BY <2>2, <2>3
<1>9. ASSUME Unpublish
      PROVE  /\ app.at = "withdraw" /\ app'.at = "clear"
             /\ UNCHANGED <<stream, forgotten>>
             /\ back'.staged = None /\ back'.started = back.started
             /\ back'.linked = back.linked /\ ~back'.subscribed
             /\ ~back'.sending
  BY <1>9, <1>0, <1>t, DroppedFields DEF Unpublish, AtApp, AppOnly, Backend
<1> USE DEF Link, Owned, Placed, SessionHasLink, WriteHasLink, PendingHasNews,
            StagedIsPending, OneAtATime, FramesStay, Told, Parted, OffTold,
            News, Heard, Busy
<1>10. CASE Send
  <2>1. CASE back' = back /\ stream'.pending = stream.pending
    BY <2>1, <1>10, <1>1, <1>q DEF Flows
  <2>2. CASE ~(back' = back /\ stream'.pending = stream.pending)
    BY <2>2, <1>10, <1>1, <1>q DEF Flows
  <2> QED
    BY <2>1, <2>2
<1>11. CASE Receive
  BY <1>11, <1>2, <1>q DEF Same
<1>12. CASE SetSecret \/ ClearSecret \/ CloseSession
  BY <1>12, <1>3, <1>q DEF Shut
<1>13. CASE Look
  BY <1>13, <1>4, <1>q
<1>14. CASE Rebind
  BY <1>14, <1>5, <1>q
<1>15. CASE Begin \/ Deinitialize
  BY <1>15, <1>6, <1>q
<1>16. CASE Publish
  BY <1>16, <1>7, <1>q
<1>17. CASE Commit \/ Clear
  BY <1>17, <1>8, <1>q
<1>18. CASE Unpublish
  BY <1>18, <1>9, <1>q
<1> QED
  BY <1>10, <1>11, <1>12, <1>13, <1>14, <1>15, <1>16, <1>17, <1>18
     DEF Application

LEMMA LinkStep ==
    ASSUME IInv, Link, [Next]_vars
    PROVE  Link'
<1>1. CASE UNCHANGED vars
  BY <1>1 DEF vars, Link, Owned, Placed, SessionHasLink, WriteHasLink,
              PendingHasNews, StagedIsPending, OneAtATime, FramesStay, Told,
              Parted, OffTold, News, Heard, Busy
<1> QED
  BY <1>1, CallbackLink, PassLink, EventLink, BluetoothLink, ApplicationLink
     DEF Next, Service

LEMMA Linked == Spec => []Link
<1>1. Init => Link
  BY InitIsLinked
<1>2. IInv /\ Link /\ [Next]_vars => Link'
  BY LinkStep
<1> QED
  BY <1>1, <1>2, Invariance, PTL DEF Spec

\* No frame of a session goes out in the next one
\* (jh_ble_stream_on_backend_event withdraws it, or the link it belonged to is
\* gone), but for one that a second initialize forgot.
THEOREM FramesStayHome == Spec => []FramesStay
<1>1. Link => FramesStay
  BY DEF Link
<1> QED
  BY <1>1, Linked, PTL

\* A stream that waits for a notification is told what became of it: whenever
\* nothing is under way, the backend still holds the frame.
THEOREM PendingIsBacked == Spec => []PendingIsReal
<1>1. Link => PendingIsReal
  BY DEF Link, PendingHasNews, PendingIsReal, Between, Idle, NoEvent, News,
         Told, Parted, OffTold
<1> QED
  BY <1>1, Linked, PTL

\* No session outlives its link, whichever of the disconnection, the failure,
\* the stop of BLE and the calls of the stream come last.
THEOREM NoneOutlives == Spec => []NoneOutlivesLink
<1>1. Link => NoneOutlivesLink
  BY DEF Link, SessionHasLink, NoneOutlivesLink, Between, Idle, NoEvent,
         Heard, Parted
<1> QED
  BY <1>1, Linked, PTL
=============================================================================
