------------------------------ MODULE LoraLink ------------------------------
(***************************************************************************)
(* Reliable messages between the nodes of a half-duplex LoRa channel:      *)
(* src/src/hal/radio/hal_lora_link.cpp on top of hal_lora_radio.cpp.       *)
(* One step is one call of the link API on one node (a mutex makes each    *)
(* call atomic), a frame leaving the air, or a deadline passing.  A frame  *)
(* that leaves the air is heard, garbled or lost by every listening node   *)
(* separately, so collisions and half-duplex deafness are covered.         *)
(*                                                                         *)
(* A message is the pair of its sender and its number; a fragment carries  *)
(* its message (CRC-32 and AEAD never accept what differs).  The port, the *)
(* lengths and the diagnostics counters are left out.                      *)
(***************************************************************************)
EXTENDS Integers, FiniteSets

CONSTANTS
    Node,          \* local addresses
    Broadcast,     \* HAL_LORA_LINK_ADDRESS_BROADCAST
    None,          \* an empty buffer, an idle transmitter
    Garbled,       \* what the radio reports with a CRC or header error
    Sends,         \* Sends[n]: how many messages n's application starts
    To,            \* To[n]: the destinations it sends to
    MaxFragments,  \* the largest message, in fragments
    MaxRetries,    \* config.max_retries
    Backoff,       \* config.retry_backoff_ms is not zero
    MaxPeers,      \* HAL_LORA_LINK_MAX_PEERS
    Window,        \* sequences a peer's received_window remembers (32)
    SeqMod,        \* sequence numbers (2^32)
    FirstSeq,      \* config.initial_sequence
    MaxTakes,      \* bound: sequence numbers one session takes
    MaxSessions,   \* bound: links one node creates
    Encrypted,     \* config.security is CHACHA20_POLY1305
    RadioFails     \* the radio's provider may report errors

ASSUME NodesAssumption ==
    /\ IsFiniteSet(Node) /\ Broadcast \notin Node
    /\ Sends \in [Node -> Nat]
    /\ To \in [Node -> SUBSET (Node \union {Broadcast})]
    /\ \A n \in Node : n \notin To[n]
    /\ Encrypted \in BOOLEAN /\ RadioFails \in BOOLEAN /\ Backoff \in BOOLEAN
    /\ MaxFragments \in Nat \ {0} /\ MaxRetries \in Nat
    /\ MaxPeers \in Nat \ {0} /\ MaxSessions \in Nat \ {0}

\* Sequence numbers are compared over half of their range.
ASSUME SequenceAssumption ==
    /\ SeqMod \in Nat /\ Window \in Nat \ {0} /\ MaxTakes \in Nat
    /\ 2 * Window <= SeqMod /\ 2 * MaxTakes <= SeqMod
    /\ FirstSeq \in 0 .. SeqMod - 1

VARIABLES
    link,       \* link[n]: jh_lora_link_context_t of n and its radio
    sent,       \* sent[n]: messages n's application has started
    aired,      \* history: every frame given to a radio
    delivered   \* history: <<receiver, its session, message>> made readable

vars == <<link, sent, aired, delivered>>

LinkStates == {"RECEIVING", "TRANSMITTING", "WAITING_ACKNOWLEDGEMENT",
               "RETRY_WAIT", "SENDING_ACKNOWLEDGEMENT", "ERROR"}

\* "rx" is a continuous receive, "rx1" one that ends with the first frame.
RadioStates == {"standby", "rx", "rx1", "tx", "error"}

Results == {"IDLE", "IN_PROGRESS", "SUCCEEDED", "FAILED", "TIMED_OUT",
            "CANCELLED"}

Messages == {m \in Node \X Nat : m[2] \in 1 .. Sends[m[1]]}
Keys == Node \X (1 .. MaxSessions)          \* who a peer window is kept for
Sequences == 0 .. SeqMod - 1

\* A message made readable is not the empty buffer.
ASSUME NoneIsNoMessage ==
    \A S \in SUBSET (0 .. MaxFragments - 1) :
       None \notin [source : Node, session : 1 .. MaxSessions,
                   seq : Sequences, parts : [S -> Messages]]

-----------------------------------------------------------------------------
(* Sequence numbers and the windows of the peers. *)

\* The number the counter stands at after k numbers were taken.
Seq(k) == (FirstSeq + k) % SeqMod

\* With AEAD the link stops after UINT32_MAX instead of wrapping.
Exhausted(c) == Encrypted /\ FirstSeq + c.taken >= SeqMod

\* How far sequence a is ahead of sequence b.
Ahead(a, b) == (a - b) % SeqMod
Newer(a, b) == Ahead(a, b) # 0 /\ 2 * Ahead(a, b) < SeqMod

\* received_window holds the distances below newest that have been received.
Seen(peers, key, seq) ==
    /\ key \in DOMAIN peers
    /\ LET p == peers[key] IN
         /\ ~Newer(seq, p.newest)
         /\ Ahead(p.newest, seq) >= Window \/ Ahead(p.newest, seq) \in p.got

\* (mutant: the newest sequence is left where it was)
MarkedInPlace(p, seq) ==
    [p EXCEPT !.got = @ \union {0}]

Marked(p, seq) ==
    IF Newer(seq, p.newest)
    THEN LET d == Ahead(seq, p.newest) IN
         [p EXCEPT !.newest = seq,
                   !.got = {0} \union {g + d : g \in {h \in p.got :
                                                       h + d < Window}}]
    ELSE [p EXCEPT !.got = @ \union ({Ahead(p.newest, seq)}
                                       \intersect (0 .. Window - 1))]

\* age counts the peers used more recently; a full table forgets the oldest.
Kept(peers, key) ==
    IF key \in DOMAIN peers \/ Cardinality(DOMAIN peers) < MaxPeers
    THEN DOMAIN peers
    ELSE {k \in DOMAIN peers : peers[k].age < MaxPeers - 1}

\* The table after key was used, its window being w.
Used(peers, key, w) ==
    LET was == IF key \in DOMAIN peers THEN peers[key].age ELSE MaxPeers
    IN  [k \in Kept(peers, key) \union {key} |->
           IF k = key THEN [w EXCEPT !.age = 0]
           ELSE IF peers[k].age < was THEN [peers[k] EXCEPT !.age = @ + 1]
           ELSE peers[k]]

\* last_seen_ms of a known peer is refreshed by every duplicate.
Touched(peers, key) == Used(peers, key, peers[key])

Remembered(peers, key, seq) ==
    Used(peers, key, IF key \in DOMAIN peers
                     THEN Marked(peers[key], seq)
                     ELSE [newest |-> seq, got |-> {0}, age |-> 0])

-----------------------------------------------------------------------------
(* The frames. *)

DataFrame(n, c) ==
    [type |-> "data", source |-> n, to |-> c.tx.to, session |-> c.session,
     seq |-> c.tx.seq, index |-> c.tx.index, count |-> c.tx.count,
     ack |-> c.tx.acked, body |-> c.tx.msg]

\* (mutant: an acknowledgement repeats the sequence it acknowledges)
AckFrameEchoes(n, c, f) ==
    [type |-> "ack", source |-> n, to |-> f.source, session |-> c.session,
     seq |-> f.seq, index |-> 0, count |-> 1, ack |-> FALSE,
     body |-> <<f.session, f.seq>>]

\* Numbered like a message; its body names the session and sequence received.
AckFrame(n, c, f) ==
    [type |-> "ack", source |-> n, to |-> f.source, session |-> c.session,
     seq |-> Seq(c.taken), index |-> 0, count |-> 1, ack |-> FALSE,
     body |-> <<f.session, f.seq>>]

IsLast(f) == f.index + 1 = f.count

\* A plaintext fragment carries the CRC-32 of its whole message.
Integrity(f) == IF Encrypted THEN None ELSE f.body

-----------------------------------------------------------------------------
(* The radio, as the link uses it.  Each operator is the set of contexts a *)
(* call may leave.                                                         *)

\* A failing call leaves the radio in error; one that times out, in standby.
Failures == IF RadioFails
            THEN {[radio |-> "error", result |-> "FAILED"],
                  [radio |-> "standby", result |-> "TIMED_OUT"]}
            ELSE {}

\* The link's deadline and what the radio heard do not outlive an operation.
Quiet(c, radio) == [c EXCEPT !.radio = radio, !.air = None,
                             !.heard = None, !.late = FALSE]

\* Receiving needs a radio that is idle, or in error and back in standby.
StartReceive(c) ==
    IF c.radio \in {"standby", "error"}
    THEN {[Quiet(c, "rx") EXCEPT !.state = "RECEIVING"]}
           \union {[Quiet(c, x.radio) EXCEPT !.state = "ERROR"] : x \in Failures}
    ELSE {[Quiet(c, c.radio) EXCEPT !.state = "ERROR"]}

\* (mutant: the radio goes on with what it did)
StoppedLater(c) == Quiet(c, c.radio)

\* stop_radio_operation: cancel what runs, or bring the radio out of error.
\* When that fails, the frame on the air goes on.
Stopped(c) == Quiet(c, "standby")
StopFails(c) == {[c EXCEPT !.radio = "error", !.heard = None] :
                   x \in {y \in Failures : c.radio # "standby"}}

FinishSend(c, result) ==
    StartReceive([c EXCEPT !.tx.active = FALSE, !.tx.result = result])

\* The radio starts only from standby; the send ends when it does not start.
Started(c, radio) == {Quiet(d, radio) : d \in {e \in {c} : e.radio = "standby"}}

StartFails(c) ==
    IF c.radio # "standby" THEN FinishSend(c, "FAILED")
    ELSE UNION {FinishSend(Quiet(c, x.radio), x.result) : x \in Failures}

\* start_data_fragment
SendFragment(n, c) ==
    {[d EXCEPT !.state = "TRANSMITTING", !.air = DataFrame(n, c)] :
       d \in Started(c, "tx")}
      \union StartFails(c)

StartAckWait(c) ==
    {[d EXCEPT !.state = "WAITING_ACKNOWLEDGEMENT"] : d \in Started(c, "rx1")}
      \union StartFails(c)

\* (mutant: retries that are not counted)
ScheduleRetryForever(n, c) ==
    {[c EXCEPT !.tx.index = 0, !.state = "RETRY_WAIT", !.late = FALSE]}

ScheduleRetry(n, c) ==
    IF c.tx.tries > MaxRetries THEN FinishSend(c, "TIMED_OUT")
    ELSE LET again == [c EXCEPT !.tx.tries = @ + 1, !.tx.index = 0,
                                !.state = "RETRY_WAIT", !.late = FALSE]
         IN  IF Backoff THEN {again} ELSE SendFragment(n, again)

\* What is left of the wait after a frame that does not count.
RestartAckWait(n, c) ==
    IF c.late THEN ScheduleRetry(n, c)
    ELSE {[c EXCEPT !.radio = "rx1", !.heard = None]}
           \union UNION {IF x.result = "TIMED_OUT" THEN ScheduleRetry(n, c)
                         ELSE FinishSend(Quiet(c, x.radio), x.result) :
                           x \in Failures}

-----------------------------------------------------------------------------
(* Receiving. *)

\* start_acknowledgement
Acknowledge(n, c, f) ==
    IF Exhausted(c) THEN {c}
    ELSE IF c.taken = MaxTakes THEN {}      \* the bound, not the code
    ELSE LET t == [Stopped(c) EXCEPT !.taken = @ + 1]
         IN  {[t EXCEPT !.state = "SENDING_ACKNOWLEDGEMENT", !.radio = "tx",
                        !.air = AckFrame(n, c, f)]}
               \union StopFails(c)
               \union UNION {StartReceive(Quiet(t, x.radio)) : x \in Failures}

\* The reassembly a frame opens; parts holds the fragments received.
Opened(f) ==
    [source |-> f.source, to |-> f.to, session |-> f.session, seq |-> f.seq,
     count |-> f.count, ack |-> f.ack, integrity |-> Integrity(f),
     parts |-> [i \in {} |-> f.body]]

\* (mutant: fragments are told apart without their source)
SameReassemblyAnySource(a, f) ==
    a # None /\ [a EXCEPT !.parts = Opened(f).parts, !.source = f.source] = Opened(f)

SameReassembly(a, f) ==
    /\ a # None
    /\ [a EXCEPT !.parts = Opened(f).parts] = Opened(f)

WithPart(a, f) ==
    [a EXCEPT !.parts = [i \in DOMAIN a.parts \union {f.index} |->
                           IF i = f.index THEN f.body ELSE a.parts[i]]]

Complete(a) == DOMAIN a.parts = 0 .. a.count - 1

\* The CRC-32 over the reassembled message; AEAD has checked each fragment.
Intact(a) == Encrypted \/ \A i \in DOMAIN a.parts : a.parts[i] = a.integrity

\* The message is remembered, made readable and, at its end, acknowledged.
Deliver(n, c, a, f) ==
    LET d == [c EXCEPT !.asm = None,
                       !.rx = [source |-> a.source, session |-> a.session,
                               seq |-> a.seq, parts |-> a.parts],
                       !.peers = Remembered(c.peers, <<a.source, a.session>>,
                                            a.seq)]
    IN  IF f.ack /\ IsLast(f) THEN Acknowledge(n, d, f) ELSE {d}

\* accept_data_frame
Accept(n, c, f) ==
    LET key == <<f.source, f.session>>
        known == [c EXCEPT !.peers = Touched(c.peers, key)]
        other == ~SameReassembly(c.asm, f)
        a == IF other THEN Opened(f) ELSE c.asm
        b == WithPart(a, f)
    IN  IF Seen(c.peers, key, f.seq)
        THEN IF IsLast(f) /\ f.ack THEN Acknowledge(n, known, f) ELSE {known}
        ELSE IF c.rx # None THEN {c}
        ELSE IF other /\ c.asm # None /\ f.index # 0 THEN {c}
        ELSE IF f.index \in DOMAIN a.parts THEN {[c EXCEPT !.asm = a]}
        ELSE IF ~Complete(b) THEN {[c EXCEPT !.asm = b]}
        ELSE IF ~Intact(b) THEN {[c EXCEPT !.asm = None]}
        ELSE Deliver(n, c, b, f)

\* A listening link ignores acknowledgements and what others are sent.
ForMe(n, f) == f # Garbled /\ f.type = "data" /\ f.to \in {n, Broadcast}

\* (mutant: acknowledgements to an earlier session count too)
AcknowledgementOfAnySession(n, c, f) ==
    /\ f # Garbled
    /\ f.type = "ack" /\ f.source = c.tx.to /\ f.to = n
    /\ f.body[2] = c.tx.seq

AcknowledgementMatches(n, c, f) ==
    /\ f # Garbled
    /\ f.type = "ack" /\ f.source = c.tx.to /\ f.to = n
    /\ f.body = <<c.session, c.tx.seq>>

-----------------------------------------------------------------------------
(* The handlers of hal_lora_link_process, by the state of the link. *)

\* expire_reassembly runs first; when five seconds have passed is left open.
Expired(c) == {c, [c EXCEPT !.asm = None]}

\* process_receive.  Nothing restarts a continuous receive that failed.
Received(n, c) ==
    IF c.heard # None
    THEN LET t == [c EXCEPT !.heard = None]
         IN  IF ForMe(n, c.heard) THEN Accept(n, t, c.heard) ELSE {t}
    ELSE {c} \union {Quiet(c, x.radio) : x \in {y \in Failures : c.radio = "rx"}}

\* (mutant: no receive behind an acknowledgement)
AfterTransmitIdle(n, c, result) ==
    IF c.state = "SENDING_ACKNOWLEDGEMENT" THEN {c}
    ELSE IF result # "SUCCEEDED" THEN FinishSend(c, result)
    ELSE IF c.tx.index + 1 < c.tx.count
         THEN SendFragment(n, [c EXCEPT !.tx.index = @ + 1])
    ELSE IF c.tx.acked THEN StartAckWait(c)
    ELSE FinishSend(c, result)

AfterTransmit(n, c, result) ==
    IF c.state = "SENDING_ACKNOWLEDGEMENT" THEN StartReceive(c)
    ELSE IF result # "SUCCEEDED" THEN FinishSend(c, result)
    ELSE IF c.tx.index + 1 < c.tx.count
         THEN SendFragment(n, [c EXCEPT !.tx.index = @ + 1])
    ELSE IF c.tx.acked THEN StartAckWait(c)
    ELSE FinishSend(c, result)

\* process_transmit: the radio is done once the frame has left the air.
Transmitted(n, c) ==
    IF c.radio # "tx" THEN {c}
    ELSE (IF c.air # None THEN {c}
          ELSE AfterTransmit(n, Quiet(c, "standby"), "SUCCEEDED"))
           \union UNION {AfterTransmit(n, Quiet(c, x.radio), x.result) :
                           x \in Failures}

\* process_ack_wait: any other frame costs nothing but the wait it used.
AckWaited(n, c) ==
    LET t == [c EXCEPT !.heard = None, !.radio = "standby"]
    IN  IF c.radio # "rx1" THEN FinishSend(c, "FAILED")
        ELSE IF c.heard # None
        THEN IF AcknowledgementMatches(n, c, c.heard)
             THEN FinishSend(t, "SUCCEEDED")
             ELSE RestartAckWait(n, t)
        ELSE (IF c.late THEN ScheduleRetry(n, t) ELSE {c})
               \union UNION {FinishSend(Quiet(c, x.radio), x.result) :
                               x \in {y \in Failures : y.result = "FAILED"}}

RetryWaited(n, c) == IF c.late THEN SendFragment(n, c) ELSE {c}

-----------------------------------------------------------------------------
(* The steps. *)

NoSend == [active |-> FALSE, result |-> "IDLE", msg |-> None, to |-> None,
           seq |-> 0, index |-> 0, count |-> 1, acked |-> FALSE, tries |-> 0]

\* A context hal_lora_link_create has just set up on a standby radio.
Created(session) ==
    [state |-> "ERROR", radio |-> "standby", air |-> None, heard |-> None,
     late |-> FALSE, session |-> session, taken |-> 0, tx |-> NoSend,
     rx |-> None, asm |-> None, peers |-> [k \in {} |-> None]]

Init ==
    /\ link = [n \in Node |-> [Created(1) EXCEPT !.state = "RECEIVING",
                                                 !.radio = "rx"]]
    /\ sent = [n \in Node |-> 0]
    /\ aired = {}
    /\ delivered = {}

\* Node n's context becomes c; the histories follow.
Becomes(n, c) ==
    /\ link' = [link EXCEPT ![n] = c]
    /\ aired' = aired \union {f \in {c.air} : f # None}
    /\ delivered' = delivered \union
         {<<n, c.session, r.parts[0]>> :
            r \in {x \in {c.rx} : x # None /\ link[n].rx = None}}

\* One of a call's outcomes, which starts no message of the application.
Continues(n, outcomes) ==
    /\ \E c \in outcomes : Becomes(n, c)
    /\ UNCHANGED sent

\* hal_lora_link_process
ProcessReceive(n) ==
    /\ link[n].state = "RECEIVING"
    /\ \E c \in Expired(link[n]) : Continues(n, Received(n, c))

ProcessTransmit(n) ==
    /\ link[n].state \in {"TRANSMITTING", "SENDING_ACKNOWLEDGEMENT"}
    /\ \E c \in Expired(link[n]) : Continues(n, Transmitted(n, c))

ProcessAckWait(n) ==
    /\ link[n].state = "WAITING_ACKNOWLEDGEMENT"
    /\ \E c \in Expired(link[n]) : Continues(n, AckWaited(n, c))

ProcessRetryWait(n) ==
    /\ link[n].state = "RETRY_WAIT"
    /\ \E c \in Expired(link[n]) : Continues(n, RetryWaited(n, c))

\* A link in error does nothing more until it is created again.
ProcessError(n) ==
    /\ link[n].state = "ERROR"
    /\ Continues(n, Expired(link[n]))

\* hal_lora_link_send_start of the application's next message.
SendStart(n) ==
    LET c == link[n] IN
    /\ c.state = "RECEIVING" /\ ~c.tx.active /\ ~Exhausted(c)
    /\ sent[n] < Sends[n] /\ c.taken < MaxTakes
    /\ \/ \E to \in To[n], count \in 1 .. MaxFragments, acked \in BOOLEAN :
            /\ acked => to # Broadcast
            /\ \E d \in SendFragment(n,
                   [Stopped(c) EXCEPT
                      !.taken = @ + 1,
                      !.tx = [active |-> TRUE, result |-> "IN_PROGRESS",
                              msg |-> <<n, sent[n] + 1>>, to |-> to,
                              seq |-> Seq(c.taken), index |-> 0,
                              count |-> count, acked |-> acked,
                              tries |-> 1]]) : Becomes(n, d)
            /\ sent' = [sent EXCEPT ![n] = @ + 1]
       \/ Continues(n, StopFails(c))

\* hal_lora_link_receive; a buffer that is too small also consumes.
Receive(n) ==
    /\ link[n].rx # None
    /\ Continues(n, {[link[n] EXCEPT !.rx = None]})

\* hal_lora_link_cancel; when the radio refuses, the send goes on.
Cancel(n) ==
    LET c == link[n] IN
    /\ c.tx.active
    /\ Continues(n, FinishSend(Stopped(c), "CANCELLED") \union StopFails(c))

\* hal_lora_link_destroy, then hal_lora_link_create with a fresh session.
Recreate(n) ==
    LET c == link[n] IN
    /\ c.session < MaxSessions
    /\ Continues(n, StartReceive(Created(c.session + 1)) \union StopFails(c))

-----------------------------------------------------------------------------
(* The channel and the clock. *)

Listening(m) == /\ link[m].radio \in {"rx", "rx1"}
                /\ link[m].radio = "rx1" => link[m].heard = None

\* n's frame leaves the air: each listener hears it, garbles it or misses it.
FrameEnds(n) ==
    /\ link[n].air # None
    /\ \E h \in [{m \in Node \ {n} : Listening(m)} ->
                   {link[n].air, Garbled, None}] :
         link' = [m \in Node |->
                    IF m = n THEN [link[n] EXCEPT !.air = None]
                    ELSE IF m \in DOMAIN h /\ h[m] # None
                    THEN [link[m] EXCEPT !.heard = h[m]]
                    ELSE link[m]]
    /\ UNCHANGED <<sent, aired, delivered>>

\* The acknowledgement timeout or the retry backoff has elapsed.
Deadline(n) ==
    /\ link[n].state \in {"WAITING_ACKNOWLEDGEMENT", "RETRY_WAIT"}
    /\ ~link[n].late
    /\ link' = [link EXCEPT ![n].late = TRUE]
    /\ UNCHANGED <<sent, aired, delivered>>

ProcessNode(n) == ProcessReceive(n) \/ ProcessTransmit(n) \/ ProcessAckWait(n)
                    \/ ProcessRetryWait(n) \/ ProcessError(n)

Next == \E n \in Node : \/ ProcessNode(n) \/ SendStart(n) \/ Receive(n)
                        \/ Cancel(n) \/ Recreate(n)
                        \/ FrameEnds(n) \/ Deadline(n)

Spec == Init /\ [][Next]_vars

\* The owner keeps calling process(); frames end and time passes.
Fairness == \A n \in Node : /\ WF_vars(ProcessNode(n))
                            /\ WF_vars(FrameEnds(n)) /\ WF_vars(Deadline(n))

FairSpec == Spec /\ Fairness

-----------------------------------------------------------------------------
(* Properties. *)

Frames ==
    [type : {"data"}, source : Node, to : Node \union {Broadcast},
     session : 1 .. MaxSessions, seq : Sequences, index : 0 .. MaxFragments - 1,
     count : 1 .. MaxFragments, ack : BOOLEAN, body : Messages]
    \union
    [type : {"ack"}, source : Node, to : Node, session : 1 .. MaxSessions,
     seq : Sequences, index : {0}, count : {1}, ack : {FALSE},
     body : (1 .. MaxSessions) \X Sequences]

PartsOK(parts) == /\ DOMAIN parts \subseteq 0 .. MaxFragments - 1
                  /\ \A i \in DOMAIN parts : parts[i] \in Messages

TxOK(tx) ==
    /\ tx.active \in BOOLEAN /\ tx.result \in Results
    /\ tx.result # "IDLE" => /\ tx.msg \in Messages
                             /\ tx.to \in Node \union {Broadcast}
    /\ tx.seq \in Sequences /\ tx.index \in 0 .. tx.count - 1
    /\ tx.count \in 1 .. MaxFragments /\ tx.acked \in BOOLEAN
    /\ tx.tries \in 0 .. MaxRetries + 1

PeersOK(peers) ==
    /\ DOMAIN peers \subseteq Keys /\ Cardinality(DOMAIN peers) <= MaxPeers
    /\ \A k \in DOMAIN peers :
         /\ peers[k].newest \in Sequences
         /\ peers[k].got \subseteq 0 .. Window - 1
         /\ peers[k].age \in 0 .. MaxPeers - 1

\* The link retries at most max_retries times and remembers at most MaxPeers
\* peers; every field keeps its type.
TypeOK ==
    /\ sent \in [Node -> Nat]
    /\ aired \subseteq Frames
    /\ delivered \subseteq Node \X (1 .. MaxSessions) \X Messages
    /\ \A n \in Node : LET c == link[n] IN
         /\ c.state \in LinkStates /\ c.radio \in RadioStates
         /\ c.air \in Frames \union {None}
         /\ c.heard \in Frames \union {Garbled, None}
         /\ c.late \in BOOLEAN /\ c.session \in 1 .. MaxSessions
         /\ c.taken \in 0 .. MaxTakes
         /\ TxOK(c.tx) /\ PeersOK(c.peers)
         /\ c.asm # None => /\ c.asm.count \in 1 .. MaxFragments
                            /\ PartsOK(c.asm.parts)
         /\ c.rx # None => PartsOK(c.rx.parts)

\* What accept_data_frame hands to the application is every fragment of one
\* message its source sent to this node, whatever was displaced, repeated or
\* lost on the way.
WholeMessages ==
    \A n \in Node : link[n].rx # None =>
      LET r == link[n].rx IN
        \E f \in aired :
          /\ f.type = "data" /\ f.to \in {n, Broadcast}
          /\ f.source = r.source /\ f.session = r.session /\ f.seq = r.seq
          /\ DOMAIN r.parts = 0 .. f.count - 1
          /\ \A i \in DOMAIN r.parts : r.parts[i] = f.body

\* finish_send(HAL_OK) of an acknowledged message means its destination made
\* the message readable: no stale, foreign or repeated acknowledgement counts.
AckMeansDelivered ==
    \A n \in Node : LET tx == link[n].tx IN
      tx.acked /\ tx.result = "SUCCEEDED" =>
        \E s \in 1 .. MaxSessions : <<tx.to, s, tx.msg>> \in delivered

\* "every nonce of a session is used once" (22_lora_link.md): the session and
\* address of the sender, the sequence, the fragment and the type fix a frame.
NonceOnce ==
    \A f, g \in aired :
      /\ f.source = g.source /\ f.session = g.session /\ f.seq = g.seq
      /\ f.index = g.index /\ f.type = g.type
      => f = g

\* Unless its radio fails, a link is never left in error, and a link that
\* says RECEIVING listens: no handler starts a radio that is still busy.  The
\* fields of every link keep their types meanwhile.
LinkListens ==
  /\ TypeOK
  /\ \A n \in Node : LET c == link[n] IN
      /\ c.tx.active <=> c.state \in {"TRANSMITTING", "RETRY_WAIT",
                                      "WAITING_ACKNOWLEDGEMENT"}
      /\ ~RadioFails => /\ c.state # "ERROR"
                        /\ c.state = "RECEIVING" => c.radio = "rx"

\* accept_data_frame makes a source's messages readable once, and in the
\* order the source started them, however often they are retried.
InOrderOnce ==
    [][\A n \in Node : link[n].rx = None /\ link'[n].rx # None =>
         LET m == link'[n].rx.parts[0] IN
           \A d \in delivered :
             d[1] = n /\ d[2] = link'[n].session /\ d[3][1] = m[1]
               => d[3][2] < m[2]]_vars

\* A failed cancel leaves the link in TRANSMITTING and its radio in error:
\* process() then waits for a transmission that nobody ends.
CancelFailed(n) == link[n].state = "TRANSMITTING" /\ link[n].radio = "error"

\* Every send ends (bounded retries), unless a cancel fails under it.
SendEnds ==
    \A n \in Node : link[n].tx.active ~> ~link[n].tx.active \/ CancelFailed(n)

\* Half-duplex nodes that transmit, wait and acknowledge across each other
\* all come back to listening, again and again (with radios that work).
ListensAgain == \A n \in Node : []<>(link[n].state = "RECEIVING")

=============================================================================
