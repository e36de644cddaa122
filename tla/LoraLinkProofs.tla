--------------------------- MODULE LoraLinkProofs ---------------------------
(* Proofs about the LoRa link, for every set of nodes, every number of       *)
(* fragments, retries, peers and sessions, with radios that fail or do not.  *)
(*                                                                           *)
(* The link is proved in two layers.  The first says what one call makes of  *)
(* one context: every handler either goes on with the send it found, ends    *)
(* it, acknowledges a frame, or accepts one (Goes, Rests, Acks, Takes).  The *)
(* second follows what all the nodes have aired and delivered: what a number *)
(* of a session stands for (Numbered), that the newest sequence of a peer    *)
(* was made readable (Known), and that a frame still to be handled is no     *)
(* older than that (HeardInOrder), so that a repetition is acknowledged only *)
(* for the message that was delivered.                                       *)
(* On top of both, Order follows the messages of one source, which are       *)
(* delivered once and in the order they were started while the table has     *)
(* room for its peers: the latest that was made readable is the newest its   *)
(* window remembers (Recalls), and what is heard is no earlier (Hears).      *)
EXTENDS LoraLink, FiniteSetTheorems, TLAPS

\* Which number of its session a sequence is.
Number(q) == Ahead(q, FirstSeq)

Parts == UNION {[S -> Messages] : S \in SUBSET (0 .. MaxFragments - 1)}

Transfers ==
    [active : BOOLEAN, result : Results, msg : Messages \union {None},
     to : Node \union {Broadcast, None}, seq : Sequences,
     index : 0 .. MaxFragments - 1, count : 1 .. MaxFragments,
     acked : BOOLEAN, tries : 0 .. MaxRetries + 1]

Assemblies ==
    [source : Node, to : Node \union {Broadcast}, session : 1 .. MaxSessions,
     seq : Sequences, count : 1 .. MaxFragments, ack : BOOLEAN,
     integrity : Messages \union {None}, parts : Parts]

Readable == [source : Node, session : 1 .. MaxSessions, seq : Sequences,
             parts : Parts]

Peer == [newest : Sequences, got : SUBSET (0 .. Window - 1),
         age : 0 .. MaxPeers - 1]
Tables == UNION {[S -> Peer] : S \in SUBSET Keys}

Contexts ==
    [state : LinkStates, radio : RadioStates, air : Frames \union {None},
     heard : Frames \union {Garbled, None}, late : BOOLEAN,
     session : 1 .. MaxSessions, taken : 0 .. MaxTakes, tx : Transfers,
     rx : Readable \union {None}, asm : Assemblies \union {None},
     peers : Tables]

Sending == {"TRANSMITTING", "RETRY_WAIT", "WAITING_ACKNOWLEDGEMENT"}

\* Without failures the state of a link says what its radio does.
Poised(c) ==
    ~RadioFails =>
       /\ c.state # "ERROR"
       /\ c.state = "RECEIVING" => c.radio = "rx"
       /\ c.state \in {"TRANSMITTING", "SENDING_ACKNOWLEDGEMENT"} =>
             c.radio = "tx"
       /\ c.state = "WAITING_ACKNOWLEDGEMENT" => c.radio = "rx1"
       /\ c.state = "RETRY_WAIT" => c.radio = "standby"

\* The message of a send that was started, and what its state says of it.
Bound(c) ==
    /\ c.tx.active <=> c.state \in Sending
    /\ c.tx.active => c.tx.result = "IN_PROGRESS"
    /\ c.tx.index < c.tx.count
    /\ c.tx.result # "IDLE" => /\ c.tx.msg \in Messages
                               /\ c.tx.to \in Node \union {Broadcast}

\* The frame that fragment i of n's send is.
Fragment(n, c, i) ==
    [type |-> "data", source |-> n, to |-> c.tx.to, session |-> c.session,
     seq |-> c.tx.seq, index |-> i, count |-> c.tx.count,
     ack |-> c.tx.acked, body |-> c.tx.msg]

-----------------------------------------------------------------------------
(* What a handler that ends no reassembly leaves of a context. *)

\* The radio is free, unless it failed.
Ready(c) == ~RadioFails => c.radio = "standby"

\* A context in the middle of a send.
Carries(c) ==
    /\ c \in Contexts
    /\ c.tx.active /\ c.tx.result = "IN_PROGRESS"
    /\ c.tx.index < c.tx.count
    /\ c.tx.msg \in Messages /\ c.tx.to \in Node \union {Broadcast}

\* Nothing was received, and no number was taken.
Same(c, d) ==
    /\ d.session = c.session /\ d.taken = c.taken
    /\ d.rx = c.rx /\ d.asm = c.asm /\ d.peers = c.peers

SameSend(c, d) ==
    /\ d.tx.msg = c.tx.msg /\ d.tx.to = c.tx.to /\ d.tx.seq = c.tx.seq
    /\ d.tx.count = c.tx.count /\ d.tx.acked = c.tx.acked

Quieter(c, d) == /\ d.air = None \/ d.air = c.air
                 /\ d.heard = None \/ d.heard = c.heard

\* d goes on with the send of c, or ends it with one of the results.
Goes(n, c, d, ends) ==
    /\ d \in Contexts
    /\ Same(c, d) /\ SameSend(c, d) /\ d.tx.index < d.tx.count
    /\ d.heard = None \/ d.heard = c.heard
    /\ d.air = None \/ d.air = c.air \/ d.air = Fragment(n, c, d.tx.index)
    /\ \/ d.tx.active /\ d.state \in Sending /\ d.tx.result = "IN_PROGRESS"
       \/ ~d.tx.active /\ d.state \notin Sending /\ d.tx.result \in ends
    /\ Poised(d)

\* The numbers of a session are apart: 2 * MaxTakes <= SeqMod.
LEMMA SmallMod ==
    ASSUME NEW M \in Nat \ {0}, NEW x \in 0 .. M - 1
    PROVE  /\ x % M = x /\ (x - M) % M = x /\ (x + M) % M = x
  <1>1. x % M = x
    OBVIOUS
  <1>2. (x - M) % M = x
    OBVIOUS
  <1>3. (x + M) % M = x
    OBVIOUS
  <1> QED BY <1>1, <1>2, <1>3

LEMMA SeqWraps ==
    ASSUME NEW k \in 0 .. SeqMod - 1
    PROVE  /\ Seq(k) \in Sequences
           /\ \/ Seq(k) = FirstSeq + k
              \/ Seq(k) = FirstSeq + k - SeqMod
  <1>1. SeqMod \in Nat \ {0} /\ FirstSeq \in 0 .. SeqMod - 1
    BY SequenceAssumption
  <1>2. CASE FirstSeq + k < SeqMod
    <2>1. FirstSeq + k \in 0 .. SeqMod - 1
      BY <1>1, <1>2
    <2>2. Seq(k) = FirstSeq + k
      BY <1>1, <2>1, SmallMod DEF Seq
    <2> QED BY <2>1, <2>2 DEF Sequences
  <1>3. CASE FirstSeq + k >= SeqMod
    <2> DEFINE r == FirstSeq + k - SeqMod
    <2>1. r \in 0 .. SeqMod - 1 /\ r + SeqMod = FirstSeq + k
      BY <1>1, <1>3
    <2>2. (r + SeqMod) % SeqMod = r
      BY <1>1, <2>1, SmallMod
    <2>3. Seq(k) = r
      BY <2>1, <2>2 DEF Seq
    <2> QED BY <2>1, <2>3 DEF Sequences
  <1> QED BY <1>1, <1>2, <1>3

LEMMA NumberOfSeq ==
    ASSUME NEW k \in 0 .. SeqMod - 1
    PROVE  Seq(k) \in Sequences /\ Number(Seq(k)) = k
  <1>1. SeqMod \in Nat \ {0} /\ FirstSeq \in 0 .. SeqMod - 1
    BY SequenceAssumption
  <1>2. Seq(k) - FirstSeq = k \/ Seq(k) - FirstSeq = k - SeqMod
    <2>1. CASE Seq(k) = FirstSeq + k
      BY <2>1, <1>1
    <2>2. CASE Seq(k) = FirstSeq + k - SeqMod
      BY <2>2, <1>1
    <2> QED BY <2>1, <2>2, SeqWraps
  <1>3. k % SeqMod = k /\ (k - SeqMod) % SeqMod = k
    BY <1>1, SmallMod
  <1> QED BY <1>2, <1>3, SeqWraps DEF Number, Ahead

LEMMA SeqOfNumber ==
    ASSUME NEW q \in Sequences
    PROVE  Number(q) \in 0 .. SeqMod - 1 /\ Seq(Number(q)) = q
  <1>1. SeqMod \in Nat \ {0} /\ FirstSeq \in 0 .. SeqMod - 1
    BY SequenceAssumption
  <1>2. CASE q >= FirstSeq
    <2>1. Number(q) = q - FirstSeq
      BY <1>1, <1>2, SmallMod, q - FirstSeq \in 0 .. SeqMod - 1
      DEF Number, Ahead, Sequences
    <2>2. Seq(Number(q)) = q % SeqMod
      BY <1>1, <2>1, FirstSeq + (q - FirstSeq) = q DEF Seq, Sequences
    <2> QED BY <1>1, <1>2, <2>1, <2>2, SmallMod DEF Sequences
  <1>3. CASE q < FirstSeq
    <2> DEFINE r == q - FirstSeq + SeqMod
    <2>1. r \in 0 .. SeqMod - 1 /\ r - SeqMod = q - FirstSeq
      BY <1>1, <1>3 DEF Sequences
    <2>2. (r - SeqMod) % SeqMod = r
      BY <1>1, <2>1, SmallMod
    <2>3. Number(q) = r
      BY <2>1, <2>2 DEF Number, Ahead
    <2>4. Seq(Number(q)) = (q + SeqMod) % SeqMod
      <3>1. FirstSeq + r = q + SeqMod
        BY <1>1 DEF Sequences
      <3> QED BY <3>1, <2>3 DEF Seq
    <2> QED BY <1>1, <2>1, <2>3, <2>4, SmallMod DEF Sequences
  <1> QED BY <1>1, <1>2, <1>3 DEF Sequences

LEMMA SameNumber ==
    ASSUME NEW p \in Sequences, NEW q \in Sequences, Number(p) = Number(q)
    PROVE  p = q
  BY SeqOfNumber

\* Newer compares the numbers of one session.
LEMMA NewerIsLater ==
    ASSUME NEW p \in Sequences, NEW q \in Sequences,
           Number(p) < MaxTakes, Number(q) < MaxTakes,
           Number(p) > Number(q)
    PROVE  Newer(p, q)
  <1> DEFINE d == Number(p) - Number(q)
  <1>1. /\ SeqMod \in Nat \ {0} /\ FirstSeq \in 0 .. SeqMod - 1
        /\ MaxTakes \in Nat /\ 2 * MaxTakes <= SeqMod
    BY SequenceAssumption
  <1>2. Number(p) \in 0 .. SeqMod - 1 /\ Number(q) \in 0 .. SeqMod - 1
    BY SeqOfNumber
  <1>3. d \in 1 .. SeqMod - 1 /\ 2 * d < SeqMod
    BY <1>1, <1>2
  <1>4. p - q = d \/ p - q = d - SeqMod
    <2>1. \/ p = FirstSeq + Number(p)
          \/ p = FirstSeq + Number(p) - SeqMod
      BY <1>2, SeqOfNumber, SeqWraps
    <2>2. \/ q = FirstSeq + Number(q)
          \/ q = FirstSeq + Number(q) - SeqMod
      BY <1>2, SeqOfNumber, SeqWraps
    <2>3. p \in 0 .. SeqMod - 1 /\ q \in 0 .. SeqMod - 1
      BY DEF Sequences
    <2>4. CASE p = FirstSeq + Number(p) - SeqMod /\ q = FirstSeq + Number(q)
      BY <2>4, <1>1, <1>2
    <2>5. CASE p = FirstSeq + Number(p) /\ q = FirstSeq + Number(q)
      BY <2>5, <1>1, <1>2
    <2>6. CASE /\ p = FirstSeq + Number(p) - SeqMod
               /\ q = FirstSeq + Number(q) - SeqMod
      BY <2>6, <1>1, <1>2
    <2>7. ~(p = FirstSeq + Number(p) /\ q = FirstSeq + Number(q) - SeqMod)
      BY <2>3, <1>1, <1>2
    <2> QED BY <2>1, <2>2, <2>4, <2>5, <2>6, <2>7
  <1>5. Ahead(p, q) = d
    <2>1. d % SeqMod = d /\ (d - SeqMod) % SeqMod = d
      BY <1>1, <1>3, SmallMod, d \in 0 .. SeqMod - 1
    <2> QED BY <1>4, <2>1 DEF Ahead
  <1> QED BY <1>3, <1>5 DEF Newer

\* A failing provider names its error, and leaves one of two radio states.
LEMMA FailureKinds ==
    ASSUME NEW x \in Failures
    PROVE  /\ RadioFails
           /\ x.radio \in {"error", "standby"} /\ x.radio \in RadioStates
           /\ x.result \in {"FAILED", "TIMED_OUT"}
           /\ x.radio = "error" <=> x.result = "FAILED"
  BY DEF Failures, RadioStates

LEMMA QuietKeeps ==
    ASSUME NEW c \in Contexts, NEW r \in RadioStates
    PROVE  /\ Quiet(c, r) \in Contexts
           /\ Same(c, Quiet(c, r)) /\ Quiet(c, r).tx = c.tx
           /\ Quiet(c, r).state = c.state /\ Quiet(c, r).radio = r
           /\ Quiet(c, r).air = None /\ Quiet(c, r).heard = None
           /\ Quiet(c, r).late = FALSE
  <1>1. Quiet(c, r) \in Contexts
    BY DEF Quiet, Contexts
  <1>2. /\ Same(c, Quiet(c, r)) /\ Quiet(c, r).tx = c.tx
        /\ Quiet(c, r).state = c.state /\ Quiet(c, r).radio = r
        /\ Quiet(c, r).air = None /\ Quiet(c, r).heard = None
        /\ Quiet(c, r).late = FALSE
    BY DEF Quiet, Contexts, Same
  <1> QED BY <1>1, <1>2

LEMMA StateContext ==
    ASSUME NEW c \in Contexts, NEW s \in LinkStates
    PROVE  LET d == [c EXCEPT !.state = s] IN
           /\ d \in Contexts /\ Same(c, d) /\ d.tx = c.tx
           /\ d.state = s /\ d.radio = c.radio
           /\ d.air = c.air /\ d.heard = c.heard /\ d.late = c.late
  BY DEF Contexts, Same

\* start_receive listens, or leaves the link in error.
LEMMA ReceiveStarts ==
    ASSUME NEW c \in Contexts, Ready(c), NEW d \in StartReceive(c)
    PROVE  /\ d \in Contexts /\ Same(c, d) /\ d.tx = c.tx
           /\ d.air = None /\ d.heard = None
           /\ d.state \in {"RECEIVING", "ERROR"}
           /\ Poised(d)
  <1>1. "RECEIVING" \in LinkStates /\ "ERROR" \in LinkStates
        /\ "rx" \in RadioStates /\ c.radio \in RadioStates
    BY DEF LinkStates, RadioStates, Contexts
  <1>2. CASE d = [Quiet(c, "rx") EXCEPT !.state = "RECEIVING"]
    <2>1. Quiet(c, "rx") \in Contexts
      BY <1>1, QuietKeeps
    <2>2. /\ d \in Contexts /\ d.tx = Quiet(c, "rx").tx
          /\ d.air = Quiet(c, "rx").air /\ d.heard = Quiet(c, "rx").heard
          /\ d.state = "RECEIVING" /\ d.radio = Quiet(c, "rx").radio
          /\ Same(Quiet(c, "rx"), d)
      BY <1>1, <1>2, <2>1, StateContext
    <2> QED BY <1>1, <2>2, QuietKeeps DEF Same, Poised
  <1>3. ASSUME NEW r \in RadioStates, RadioFails,
               d = [Quiet(c, r) EXCEPT !.state = "ERROR"]
        PROVE  /\ d \in Contexts /\ Same(c, d) /\ d.tx = c.tx
               /\ d.air = None /\ d.heard = None
               /\ d.state \in {"RECEIVING", "ERROR"}
               /\ Poised(d)
    <2>1. Quiet(c, r) \in Contexts
      BY QuietKeeps
    <2>2. /\ d \in Contexts /\ d.tx = Quiet(c, r).tx
          /\ d.air = Quiet(c, r).air /\ d.heard = Quiet(c, r).heard
          /\ d.state = "ERROR" /\ Same(Quiet(c, r), d)
      BY <1>1, <1>3, <2>1, StateContext
    <2>3. /\ Same(c, Quiet(c, r)) /\ Quiet(c, r).tx = c.tx
          /\ Quiet(c, r).air = None /\ Quiet(c, r).heard = None
      BY QuietKeeps
    <2>4. Same(c, d)
      BY <2>2, <2>3 DEF Same
    <2>5. Poised(d)
      BY <1>3 DEF Poised
    <2> QED BY <2>2, <2>3, <2>4, <2>5
  <1>4. CASE c.radio \in {"standby", "error"}
    <2>1. \/ d = [Quiet(c, "rx") EXCEPT !.state = "RECEIVING"]
          \/ \E x \in Failures : d = [Quiet(c, x.radio) EXCEPT !.state = "ERROR"]
      BY <1>4 DEF StartReceive
    <2> QED BY <1>2, <1>3, <2>1, FailureKinds
  <1>5. CASE c.radio \notin {"standby", "error"}
    <2>1. d = [Quiet(c, c.radio) EXCEPT !.state = "ERROR"]
      BY <1>5 DEF StartReceive
    <2>2. RadioFails
      BY <1>5 DEF Ready
    <2> QED BY <1>1, <1>3, <2>1, <2>2
  <1> QED BY <1>4, <1>5

\* finish_send: the send is over, whatever it was.
LEMMA SendFinishes ==
    ASSUME NEW n, NEW c, Carries(c), Ready(c),
           NEW result \in Results, NEW d \in FinishSend(c, result)
    PROVE  Goes(n, c, d, {result})
  <1> DEFINE e == [c EXCEPT !.tx.active = FALSE, !.tx.result = result]
  <1>1. /\ e \in Contexts /\ Same(c, e) /\ SameSend(c, e)
        /\ e.tx.index = c.tx.index /\ e.tx.active = FALSE
        /\ e.tx.result = result /\ e.radio = c.radio
    BY DEF Carries, Contexts, Transfers, Same, SameSend
  <1>2. Ready(e) /\ d \in StartReceive(e)
    BY <1>1 DEF Ready, FinishSend
  <1>3. /\ d \in Contexts /\ Same(e, d) /\ d.tx = e.tx
        /\ d.air = None /\ d.heard = None
        /\ d.state \in {"RECEIVING", "ERROR"} /\ Poised(d)
    BY <1>1, <1>2, ReceiveStarts
  <1> QED BY <1>1, <1>3 DEF Goes, Same, SameSend, Sending, Carries

\* What is done from a context with the same message is done with c's.
LEMMA GoesFrom ==
    ASSUME NEW n, NEW c, NEW b, NEW d, NEW ends, NEW more,
           Same(c, b), SameSend(c, b), Quieter(c, b),
           Goes(n, b, d, ends), ends \subseteq more
    PROVE  Goes(n, c, d, more)
  <1>1. Fragment(n, b, d.tx.index) = Fragment(n, c, d.tx.index)
    BY DEF Fragment, Same, SameSend
  <1>2. d.air = None \/ d.air = c.air \/ d.air = Fragment(n, c, d.tx.index)
    BY <1>1 DEF Goes, Quieter
  <1>3. d.heard = None \/ d.heard = c.heard
    BY DEF Goes, Quieter
  <1>4. Same(c, d) /\ SameSend(c, d)
    BY DEF Goes, Same, SameSend
  <1>5. \/ d.tx.active /\ d.state \in Sending /\ d.tx.result = "IN_PROGRESS"
        \/ ~d.tx.active /\ d.state \notin Sending /\ d.tx.result \in more
    BY DEF Goes
  <1> QED BY <1>2, <1>3, <1>4, <1>5 DEF Goes

\* A radio that is quieted in the middle of a send.
LEMMA QuietCarries ==
    ASSUME NEW c, Carries(c), NEW r \in RadioStates
    PROVE  /\ Carries(Quiet(c, r)) /\ Quiet(c, r).radio = r
           /\ Same(c, Quiet(c, r)) /\ SameSend(c, Quiet(c, r))
           /\ Quieter(c, Quiet(c, r)) /\ Quiet(c, r).tx = c.tx
  <1>1. c \in Contexts
    BY DEF Carries
  <1> QED BY <1>1, QuietKeeps DEF Carries, SameSend, Quieter

\* A send whose radio does not start is over.
LEMMA StartFailing ==
    ASSUME NEW n, NEW c, Carries(c), Ready(c), NEW d \in StartFails(c)
    PROVE  Goes(n, c, d, {"FAILED", "TIMED_OUT"})
  <1>1. "FAILED" \in Results /\ "TIMED_OUT" \in Results
    BY DEF Results
  <1>2. CASE c.radio # "standby"
    <2>1. Goes(n, c, d, {"FAILED"})
      BY <1>1, <1>2, SendFinishes DEF StartFails
    <2> QED BY <2>1 DEF Goes
  <1>3. CASE c.radio = "standby"
    <2>1. PICK x \in Failures : d \in FinishSend(Quiet(c, x.radio), x.result)
      BY <1>3 DEF StartFails
    <2> DEFINE b == Quiet(c, x.radio)
    <2>2. x.radio \in RadioStates /\ x.result \in {"FAILED", "TIMED_OUT"}
          /\ RadioFails
      BY FailureKinds
    <2>3. /\ Carries(b) /\ Same(c, b) /\ SameSend(c, b) /\ Quieter(c, b)
      BY <2>2, QuietCarries
    <2>4. Ready(b)
      BY <2>2 DEF Ready
    <2> HIDE DEF b
    <2>5. Goes(n, b, d, {x.result})
      BY <1>1, <2>1, <2>2, <2>3, <2>4, SendFinishes DEF b
    <2> QED BY <2>2, <2>3, <2>5, GoesFrom
  <1> QED BY <1>2, <1>3

\* start_data_fragment: the frame is on the air, or the send is over.
LEMMA FragmentSent ==
    ASSUME NEW n \in Node, NEW c, Carries(c), Ready(c),
           NEW d \in SendFragment(n, c)
    PROVE  Goes(n, c, d, {"FAILED", "TIMED_OUT"})
  <1>1. CASE d \in StartFails(c)
    BY <1>1, StartFailing
  <1>2. ASSUME NEW e \in Started(c, "tx"),
               d = [e EXCEPT !.state = "TRANSMITTING", !.air = DataFrame(n, c)]
        PROVE  Goes(n, c, d, {"FAILED", "TIMED_OUT"})
    <2>1. e = Quiet(c, "tx")
      BY DEF Started
    <2>2. "tx" \in RadioStates /\ "TRANSMITTING" \in LinkStates
      BY DEF RadioStates, LinkStates
    <2>3. /\ Carries(e) /\ e.radio = "tx" /\ Same(c, e) /\ e.tx = c.tx
          /\ e.air = None /\ e.heard = None
      BY <2>1, <2>2, QuietCarries, QuietKeeps DEF Carries
    <2>4. DataFrame(n, c) \in Frames
      BY DEF DataFrame, Carries, Contexts, Transfers, Frames
    <2>5. /\ d \in Contexts /\ d.state = "TRANSMITTING" /\ d.radio = "tx"
          /\ d.air = DataFrame(n, c) /\ d.heard = None /\ d.tx = c.tx
          /\ Same(c, d)
      BY <1>2, <2>2, <2>3, <2>4 DEF Contexts, Same, Carries
    <2>6. d.air = Fragment(n, c, d.tx.index)
      BY <2>5 DEF DataFrame, Fragment
    <2>7. Poised(d)
      BY <2>5 DEF Poised
    <2> QED BY <2>5, <2>6, <2>7 DEF Goes, SameSend, Carries, Sending
  <1> QED BY <1>1, <1>2 DEF SendFragment

\* start_ack_wait
LEMMA AckWaitStarted ==
    ASSUME NEW n, NEW c, Carries(c), Ready(c), NEW d \in StartAckWait(c)
    PROVE  Goes(n, c, d, {"FAILED", "TIMED_OUT"})
  <1>1. CASE d \in StartFails(c)
    BY <1>1, StartFailing
  <1>2. ASSUME NEW e \in Started(c, "rx1"),
               d = [e EXCEPT !.state = "WAITING_ACKNOWLEDGEMENT"]
        PROVE  Goes(n, c, d, {"FAILED", "TIMED_OUT"})
    <2>1. e = Quiet(c, "rx1")
      BY DEF Started
    <2>2. "rx1" \in RadioStates /\ "WAITING_ACKNOWLEDGEMENT" \in LinkStates
      BY DEF RadioStates, LinkStates
    <2>3. /\ Carries(e) /\ e.radio = "rx1" /\ Same(c, e) /\ e.tx = c.tx
          /\ e.air = None /\ e.heard = None /\ e \in Contexts
      BY <2>1, <2>2, QuietCarries, QuietKeeps DEF Carries
    <2>4. /\ d \in Contexts /\ d.state = "WAITING_ACKNOWLEDGEMENT"
          /\ d.radio = "rx1" /\ d.air = None /\ d.heard = None
          /\ d.tx = c.tx /\ Same(e, d)
      BY <1>2, <2>2, <2>3, StateContext
    <2>5. Poised(d) /\ Same(c, d)
      BY <2>3, <2>4 DEF Poised, Same
    <2> QED BY <2>4, <2>5 DEF Goes, SameSend, Carries, Sending
  <1> QED BY <1>1, <1>2 DEF StartAckWait

\* schedule_retry: the retries are used up, or the message starts again.
LEMMA RetryScheduled ==
    ASSUME NEW n \in Node, NEW c, Carries(c), Ready(c),
           NEW d \in ScheduleRetry(n, c)
    PROVE  Goes(n, c, d, {"FAILED", "TIMED_OUT"})
  <1>1. CASE c.tx.tries > MaxRetries
    <2>1. "TIMED_OUT" \in Results /\ d \in FinishSend(c, "TIMED_OUT")
      BY <1>1 DEF Results, ScheduleRetry
    <2>2. Goes(n, c, d, {"TIMED_OUT"})
      BY <2>1, SendFinishes
    <2> QED BY <2>2 DEF Goes
  <1>2. CASE ~(c.tx.tries > MaxRetries)
    <2> DEFINE b == [c EXCEPT !.tx.tries = @ + 1, !.tx.index = 0,
                              !.state = "RETRY_WAIT", !.late = FALSE]
    <2>1. /\ c \in Contexts /\ MaxRetries \in Nat /\ MaxFragments \in Nat \ {0}
          /\ c.tx.tries + 1 \in 0 .. MaxRetries + 1
          /\ 0 \in 0 .. MaxFragments - 1 /\ "RETRY_WAIT" \in LinkStates
      BY <1>2, NodesAssumption DEF Carries, Contexts, Transfers, LinkStates
    <2>2. [c.tx EXCEPT !.tries = @ + 1, !.index = 0] \in Transfers
      BY <2>1 DEF Contexts, Transfers
    <2>3. b = [c EXCEPT !.tx = [c.tx EXCEPT !.tries = @ + 1, !.index = 0],
                        !.state = "RETRY_WAIT", !.late = FALSE]
      BY <2>1 DEF Contexts, Transfers
    <2>4. b \in Contexts /\ Same(c, b)
      BY <2>1, <2>2, <2>3 DEF Contexts, Same
    <2>5. /\ SameSend(c, b) /\ b.tx.active = c.tx.active
          /\ b.tx.result = c.tx.result /\ b.tx.index = 0
          /\ b.state = "RETRY_WAIT" /\ b.radio = c.radio
          /\ b.air = c.air /\ b.heard = c.heard
      BY <2>1 DEF Contexts, Transfers, SameSend
    <2>6. 0 < c.tx.count
      BY <2>1 DEF Contexts, Transfers
    <2>7. Carries(b) /\ Ready(b) /\ Quieter(c, b)
      BY <2>4, <2>5, <2>6 DEF Carries, Ready, Quieter, SameSend
    <2>8. d = b \/ d \in SendFragment(n, b)
      BY <1>2 DEF ScheduleRetry
    <2> HIDE DEF b
    <2>9. CASE d \in SendFragment(n, b)
      <3>1. Goes(n, b, d, {"FAILED", "TIMED_OUT"})
        BY <2>7, <2>9, FragmentSent
      <3> QED BY <3>1, <2>4, <2>5, <2>7, GoesFrom
    <2>10. CASE d = b
      <3>1. Poised(d)
        BY <2>5, <2>7, <2>10 DEF Poised, Ready
      <3> QED BY <2>10, <2>4, <2>5, <2>6, <2>7, <3>1
              DEF Goes, Carries, Sending, SameSend
    <2> QED BY <2>8, <2>9, <2>10
  <1> QED BY <1>1, <1>2

\* restart_ack_wait
LEMMA AckWaitRestarted ==
    ASSUME NEW n \in Node, NEW c, Carries(c), Ready(c),
           c.state = "WAITING_ACKNOWLEDGEMENT",
           NEW d \in RestartAckWait(n, c)
    PROVE  Goes(n, c, d, {"FAILED", "TIMED_OUT"})
  <1>1. CASE d \in ScheduleRetry(n, c)
    BY <1>1, RetryScheduled
  <1>2. CASE d = [c EXCEPT !.radio = "rx1", !.heard = None]
    <2>1. c \in Contexts /\ "rx1" \in RadioStates
      BY DEF Carries, RadioStates
    <2>2. /\ d \in Contexts /\ Same(c, d) /\ d.tx = c.tx /\ d.air = c.air
          /\ d.heard = None /\ d.state = c.state /\ d.radio = "rx1"
      BY <1>2, <2>1 DEF Contexts, Same
    <2> QED BY <2>2 DEF Goes, SameSend, Carries, Sending, Poised
  <1>3. ASSUME NEW x \in Failures, d \in FinishSend(Quiet(c, x.radio), x.result)
        PROVE  Goes(n, c, d, {"FAILED", "TIMED_OUT"})
    <2> DEFINE b == Quiet(c, x.radio)
    <2>1. x.radio \in RadioStates /\ x.result \in {"FAILED", "TIMED_OUT"}
          /\ RadioFails /\ x.result \in Results
      BY FailureKinds DEF Results
    <2>2. Carries(b) /\ Same(c, b) /\ SameSend(c, b) /\ Quieter(c, b)
      BY <2>1, QuietCarries
    <2>3. Ready(b)
      BY <2>1 DEF Ready
    <2> HIDE DEF b
    <2>4. Goes(n, b, d, {x.result})
      BY <1>3, <2>1, <2>2, <2>3, SendFinishes DEF b
    <2> QED BY <2>1, <2>2, <2>4, GoesFrom
  <1>4. CASE c.late
    BY <1>1, <1>4 DEF RestartAckWait
  <1>5. CASE ~c.late
    <2>1. \/ d = [c EXCEPT !.radio = "rx1", !.heard = None]
          \/ \E x \in Failures : \/ d \in ScheduleRetry(n, c)
                                 \/ d \in FinishSend(Quiet(c, x.radio), x.result)
      BY <1>5 DEF RestartAckWait
    <2> QED BY <2>1, <1>1, <1>2, <1>3
  <1> QED BY <1>4, <1>5

\* How a send ends that no acknowledgement ended.
Unconfirmed(c) == {r \in {"SUCCEEDED", "FAILED", "TIMED_OUT"} :
                     r = "SUCCEEDED" => ~c.tx.acked}

\* d does what c did before, without a send.
Rests(c, d) ==
    /\ d \in Contexts /\ Same(c, d) /\ d.tx = c.tx /\ Quieter(c, d)
    /\ d.state \notin Sending /\ Poised(d)

LEMMA StaysSending ==
    ASSUME NEW n, NEW c, Carries(c), Poised(c), c.state \in Sending, NEW ends
    PROVE  Goes(n, c, c, ends)
  BY DEF Goes, Carries, Same, SameSend

\* The end of a fragment: the next one, the wait, or the end of the send.
LEMMA AfterFragment ==
    ASSUME NEW n \in Node, NEW c, Carries(c), Ready(c),
           c.state = "TRANSMITTING",
           NEW result \in {"SUCCEEDED", "FAILED", "TIMED_OUT"},
           NEW d \in AfterTransmit(n, c, result)
    PROVE  Goes(n, c, d, Unconfirmed(c))
  <1>1. result \in Results
    BY DEF Results
  <1>2. {"FAILED", "TIMED_OUT"} \subseteq Unconfirmed(c)
    BY DEF Unconfirmed
  <1>3. /\ Same(c, c) /\ SameSend(c, c) /\ Quieter(c, c)
    BY DEF Same, SameSend, Quieter
  <1>4. CASE d \in FinishSend(c, result) /\ result \in Unconfirmed(c)
    <2>1. Goes(n, c, d, {result})
      BY <1>1, <1>4, SendFinishes
    <2> QED BY <1>3, <1>4, <2>1, GoesFrom
  <1>5. CASE c.tx.index + 1 < c.tx.count
             /\ d \in SendFragment(n, [c EXCEPT !.tx.index = @ + 1])
    <2> DEFINE b == [c EXCEPT !.tx.index = @ + 1]
    <2>1. c \in Contexts /\ MaxFragments \in Nat \ {0}
      BY NodesAssumption DEF Carries
    <2>2. c.tx \in Transfers /\ c.tx.index + 1 \in 0 .. MaxFragments - 1
      BY <1>5, <2>1 DEF Contexts, Transfers
    <2>3. [c.tx EXCEPT !.index = @ + 1] \in Transfers
      BY <2>2 DEF Transfers
    <2>4. b = [c EXCEPT !.tx = [c.tx EXCEPT !.index = @ + 1]]
      BY <2>1 DEF Contexts
    <2>5. b \in Contexts /\ Same(c, b)
      BY <2>1, <2>3, <2>4 DEF Contexts, Same
    <2>6. /\ SameSend(c, b) /\ b.tx.active = c.tx.active
          /\ b.tx.result = c.tx.result /\ b.tx.index = c.tx.index + 1
          /\ b.state = c.state /\ b.radio = c.radio
          /\ b.air = c.air /\ b.heard = c.heard
      BY <2>1 DEF Contexts, Transfers, SameSend
    <2>7. Carries(b) /\ Ready(b) /\ Quieter(c, b)
      BY <1>5, <2>5, <2>6 DEF Carries, Ready, Quieter, SameSend
    <2> HIDE DEF b
    <2>8. Goes(n, b, d, {"FAILED", "TIMED_OUT"})
      BY <1>5, <2>7, FragmentSent DEF b
    <2> QED BY <1>2, <2>5, <2>6, <2>7, <2>8, GoesFrom
  <1>6. CASE d \in StartAckWait(c)
    <2>1. Goes(n, c, d, {"FAILED", "TIMED_OUT"})
      BY <1>6, AckWaitStarted
    <2> QED BY <1>2, <1>3, <2>1, GoesFrom
  <1>7. \/ d \in FinishSend(c, result) /\ result \in Unconfirmed(c)
        \/ c.tx.index + 1 < c.tx.count
             /\ d \in SendFragment(n, [c EXCEPT !.tx.index = @ + 1])
        \/ d \in StartAckWait(c)
    BY DEF AfterTransmit, Unconfirmed
  <1> QED BY <1>4, <1>5, <1>6, <1>7

\* process_transmit of a message
LEMMA MessageTransmitted ==
    ASSUME NEW n \in Node, NEW c, Carries(c), Poised(c),
           c.state = "TRANSMITTING", NEW d \in Transmitted(n, c)
    PROVE  Goes(n, c, d, Unconfirmed(c))
  <1>1. CASE d = c
    BY <1>1, StaysSending DEF Sending
  <1>2. ASSUME NEW r \in RadioStates, RadioFails \/ r = "standby",
               NEW result \in {"SUCCEEDED", "FAILED", "TIMED_OUT"},
               d \in AfterTransmit(n, Quiet(c, r), result)
        PROVE  Goes(n, c, d, Unconfirmed(c))
    <2> DEFINE b == Quiet(c, r)
    <2>1. /\ Carries(b) /\ b.radio = r /\ Same(c, b) /\ SameSend(c, b)
          /\ Quieter(c, b) /\ b.state = c.state /\ b.tx = c.tx
      BY QuietCarries, QuietKeeps DEF Carries
    <2>2. Ready(b) /\ Unconfirmed(b) = Unconfirmed(c)
      BY <1>2, <2>1 DEF Ready, Unconfirmed
    <2>3. d \in AfterTransmit(n, b, result)
      BY <1>2
    <2> HIDE DEF b
    <2>4. Goes(n, b, d, Unconfirmed(b))
      BY <2>1, <2>2, <2>3, AfterFragment
    <2> QED BY <2>1, <2>2, <2>4, GoesFrom
  <1>3. \/ d = c
        \/ d \in AfterTransmit(n, Quiet(c, "standby"), "SUCCEEDED")
        \/ \E x \in Failures :
              d \in AfterTransmit(n, Quiet(c, x.radio), x.result)
    BY DEF Transmitted
  <1>4. "standby" \in RadioStates
    BY DEF RadioStates
  <1> QED BY <1>1, <1>2, <1>3, <1>4, FailureKinds

\* process_transmit of an acknowledgement: the link listens again.
LEMMA AcknowledgementTransmitted ==
    ASSUME NEW n, NEW c \in Contexts, Poised(c),
           c.state = "SENDING_ACKNOWLEDGEMENT", NEW d \in Transmitted(n, c)
    PROVE  Rests(c, d)
  <1>1. CASE d = c
    BY <1>1 DEF Rests, Same, Quieter, Sending
  <1>2. ASSUME NEW r \in RadioStates, RadioFails \/ r = "standby",
               d \in StartReceive(Quiet(c, r))
        PROVE  Rests(c, d)
    <2> DEFINE b == Quiet(c, r)
    <2>1. /\ b \in Contexts /\ b.radio = r /\ Same(c, b) /\ b.tx = c.tx
      BY QuietKeeps
    <2>2. Ready(b) /\ d \in StartReceive(b)
      BY <1>2, <2>1 DEF Ready
    <2> HIDE DEF b
    <2>3. /\ d \in Contexts /\ Same(b, d) /\ d.tx = b.tx
          /\ d.air = None /\ d.heard = None
          /\ d.state \in {"RECEIVING", "ERROR"} /\ Poised(d)
      BY <2>1, <2>2, ReceiveStarts
    <2> QED BY <2>1, <2>3 DEF Rests, Same, Quieter, Sending
  <1>3. ASSUME NEW r \in RadioStates, NEW result
        PROVE  AfterTransmit(n, Quiet(c, r), result) = StartReceive(Quiet(c, r))
    BY QuietKeeps DEF AfterTransmit
  <1>4. \/ d = c
        \/ d \in AfterTransmit(n, Quiet(c, "standby"), "SUCCEEDED")
        \/ \E x \in Failures :
              d \in AfterTransmit(n, Quiet(c, x.radio), x.result)
    BY DEF Transmitted
  <1>5. "standby" \in RadioStates
    BY DEF RadioStates
  <1> QED BY <1>1, <1>2, <1>3, <1>4, <1>5, FailureKinds

\* process_ack_wait: only the acknowledgement that matches ends it well.
LEMMA AckWaitEnds ==
    ASSUME NEW n \in Node, NEW c, Carries(c), Poised(c),
           c.state = "WAITING_ACKNOWLEDGEMENT", NEW d \in AckWaited(n, c)
    PROVE  \/ Goes(n, c, d, {"FAILED", "TIMED_OUT"})
           \/ /\ c.heard # None /\ AcknowledgementMatches(n, c, c.heard)
              /\ Goes(n, c, d, {"SUCCEEDED"})
  <1> DEFINE t == [c EXCEPT !.heard = None, !.radio = "standby"]
  <1>1. c \in Contexts /\ "standby" \in RadioStates
    BY DEF Carries, RadioStates
  <1>2. /\ t \in Contexts /\ Same(c, t) /\ t.tx = c.tx /\ t.air = c.air
        /\ t.heard = None /\ t.state = c.state /\ t.radio = "standby"
    BY <1>1 DEF Contexts, Same
  <1>3. Carries(t) /\ Ready(t) /\ SameSend(c, t) /\ Quieter(c, t)
    BY <1>2 DEF Carries, Ready, SameSend, Quieter
  <1>4. \/ c.radio # "rx1" /\ d \in FinishSend(c, "FAILED")
        \/ /\ c.heard # None /\ AcknowledgementMatches(n, c, c.heard)
           /\ d \in FinishSend(t, "SUCCEEDED")
        \/ d \in RestartAckWait(n, t)
        \/ d \in ScheduleRetry(n, t)
        \/ d = c
        \/ \E x \in Failures : x.result = "FAILED"
                /\ d \in FinishSend(Quiet(c, x.radio), x.result)
    BY DEF AckWaited
  <1> HIDE DEF t
  <1>5. CASE c.radio # "rx1" /\ d \in FinishSend(c, "FAILED")
    <2>1. "FAILED" \in Results /\ Ready(c)
      BY <1>5 DEF Results, Poised, Ready
    <2>2. Goes(n, c, d, {"FAILED"})
      BY <1>5, <2>1, SendFinishes
    <2> QED BY <2>2 DEF Goes
  <1>6. CASE /\ c.heard # None /\ AcknowledgementMatches(n, c, c.heard)
             /\ d \in FinishSend(t, "SUCCEEDED")
    <2>1. "SUCCEEDED" \in Results
      BY DEF Results
    <2>2. Goes(n, t, d, {"SUCCEEDED"})
      BY <1>3, <1>6, <2>1, SendFinishes
    <2> QED BY <1>2, <1>3, <1>6, <2>2, GoesFrom
  <1>7. CASE d \in RestartAckWait(n, t)
    <2>1. Goes(n, t, d, {"FAILED", "TIMED_OUT"})
      BY <1>2, <1>3, <1>7, AckWaitRestarted
    <2> QED BY <1>2, <1>3, <2>1, GoesFrom
  <1>8. CASE d \in ScheduleRetry(n, t)
    <2>1. Goes(n, t, d, {"FAILED", "TIMED_OUT"})
      BY <1>3, <1>8, RetryScheduled
    <2> QED BY <1>2, <1>3, <2>1, GoesFrom
  <1>9. CASE d = c
    BY <1>9, StaysSending DEF Sending
  <1>10. ASSUME NEW x \in Failures,
                d \in FinishSend(Quiet(c, x.radio), x.result)
         PROVE  Goes(n, c, d, {"FAILED", "TIMED_OUT"})
    <2> DEFINE b == Quiet(c, x.radio)
    <2>1. x.radio \in RadioStates /\ x.result \in {"FAILED", "TIMED_OUT"}
          /\ RadioFails /\ x.result \in Results
      BY FailureKinds DEF Results
    <2>2. Carries(b) /\ Same(c, b) /\ SameSend(c, b) /\ Quieter(c, b)
      BY <2>1, QuietCarries
    <2>3. Ready(b)
      BY <2>1 DEF Ready
    <2> HIDE DEF b
    <2>4. Goes(n, b, d, {x.result})
      BY <1>10, <2>1, <2>2, <2>3, SendFinishes DEF b
    <2> QED BY <2>1, <2>2, <2>4, GoesFrom
  <1> QED BY <1>4, <1>5, <1>6, <1>7, <1>8, <1>9, <1>10

LEMMA RetryWaitEnds ==
    ASSUME NEW n \in Node, NEW c, Carries(c), Poised(c),
           c.state = "RETRY_WAIT", NEW d \in RetryWaited(n, c)
    PROVE  Goes(n, c, d, {"FAILED", "TIMED_OUT"})
  <1>1. Ready(c)
    BY DEF Poised, Ready
  <1>2. CASE d = c
    BY <1>2, StaysSending DEF Sending
  <1>3. CASE d \in SendFragment(n, c)
    BY <1>1, <1>3, FragmentSent
  <1> QED BY <1>2, <1>3 DEF RetryWaited

-----------------------------------------------------------------------------
(* The table of the peers. *)

\* The ages of a table number its peers from 0, and each has received the
\* newest sequence it remembers.
Aged(peers) ==
    /\ \A j, k \in DOMAIN peers : peers[j].age = peers[k].age => j = k
    /\ \A k \in DOMAIN peers : \A a \in 0 .. peers[k].age :
          \E j \in DOMAIN peers : peers[j].age = a
    /\ \A k \in DOMAIN peers : 0 \in peers[k].got

LEMMA TableShape ==
    ASSUME NEW p \in Tables
    PROVE  /\ DOMAIN p \subseteq Keys /\ p \in [DOMAIN p -> Peer]
           /\ IsFiniteSet(DOMAIN p)
  <1>1. PICK S \in SUBSET Keys : p \in [S -> Peer]
    BY DEF Tables
  <1>2. IsFiniteSet(Keys)
    <2>1. IsFiniteSet(1 .. MaxSessions) /\ IsFiniteSet(Node)
      BY FS_Interval, NodesAssumption
    <2> QED BY <2>1, FS_Product DEF Keys
  <1> QED BY <1>1, <1>2, FS_Subset

\* The table never overflows: no two peers have one age.
LEMMA TableFits ==
    ASSUME NEW p \in Tables, Aged(p)
    PROVE  Cardinality(DOMAIN p) \in Nat /\ Cardinality(DOMAIN p) <= MaxPeers
  <1> DEFINE S == DOMAIN p
             T == 0 .. MaxPeers - 1
             f == [k \in S |-> p[k].age]
  <1>1. MaxPeers \in Nat \ {0}
    BY NodesAssumption
  <1>2. IsFiniteSet(T) /\ Cardinality(T) = MaxPeers
    BY <1>1, FS_Interval
  <1>3. f \in [S -> T]
    BY TableShape DEF Peer
  <1>4. f \in Injection(S, T)
    BY <1>3 DEF Injection, IsInjective, Aged
  <1> HIDE DEF f, T
  <1> QED BY <1>2, <1>4, FS_Injection, FS_CardinalityType

\* A table that is not full leaves the greatest age free.
LEMMA RoomForOne ==
    ASSUME NEW p \in Tables, Aged(p), Cardinality(DOMAIN p) < MaxPeers,
           NEW k \in DOMAIN p
    PROVE  p[k].age < MaxPeers - 1
  <1> DEFINE S == DOMAIN p
             T == 0 .. MaxPeers - 1
             f == [j \in S |-> p[j].age]
  <1>1. MaxPeers \in Nat \ {0}
    BY NodesAssumption
  <1>2. IsFiniteSet(T) /\ Cardinality(T) = MaxPeers
    BY <1>1, FS_Interval
  <1>3. f \in [S -> T]
    BY TableShape DEF Peer
  <1> SUFFICES ASSUME p[k].age = MaxPeers - 1 PROVE FALSE
    BY <1>1, TableShape DEF Peer
  <1>4. \A a \in T : \E j \in S : f[j] = a
    BY DEF Aged
  <1>5. f \in Surjection(S, T)
    BY <1>3, <1>4 DEF Surjection
  <1>6. IsFiniteSet(S)
    BY TableShape
  <1> HIDE DEF f, T
  <1>7. Cardinality(T) <= Cardinality(S)
    BY <1>5, <1>6, FS_Surjection
  <1> QED BY <1>1, <1>2, <1>6, <1>7, FS_CardinalityType

\* The table after a peer was used: its window is w, the others' are theirs.
LEMMA UsedTable ==
    ASSUME NEW p \in Tables, Aged(p), NEW key \in Keys,
           NEW w \in Peer, 0 \in w.got
    PROVE  LET q == Used(p, key, w) IN
           /\ q \in Tables /\ Aged(q)
           /\ DOMAIN q = Kept(p, key) \union {key}
           /\ q[key].newest = w.newest /\ q[key].got = w.got
           /\ \A k \in DOMAIN q \ {key} : /\ k \in DOMAIN p
                                          /\ q[k].newest = p[k].newest
                                          /\ q[k].got = p[k].got
  <1> DEFINE was == IF key \in DOMAIN p THEN p[key].age ELSE MaxPeers
             K == Kept(p, key)
             q == Used(p, key, w)
  <1>1. MaxPeers \in Nat \ {0}
    BY NodesAssumption
  <1>2. /\ DOMAIN p \subseteq Keys /\ p \in [DOMAIN p -> Peer]
        /\ \A k \in DOMAIN p : p[k] \in Peer /\ p[k].age \in 0 .. MaxPeers - 1
    BY TableShape DEF Peer
  <1>3. K \subseteq DOMAIN p
    BY DEF Kept
  <1>4. \A k \in K : k # key /\ p[k].age < was =>
                        p[k].age + 1 \in 0 .. MaxPeers - 1
    <2> SUFFICES ASSUME NEW k \in K, k # key, p[k].age < was
                 PROVE  p[k].age + 1 \in 0 .. MaxPeers - 1
      OBVIOUS
    <2>1. CASE key \in DOMAIN p
      BY <2>1, <1>1, <1>2, <1>3
    <2>2. CASE key \notin DOMAIN p /\ Cardinality(DOMAIN p) < MaxPeers
      <3>1. p[k].age < MaxPeers - 1
        BY <2>2, <1>3, RoomForOne
      <3> QED BY <3>1, <1>1, <1>2, <1>3
    <2>3. CASE key \notin DOMAIN p /\ ~(Cardinality(DOMAIN p) < MaxPeers)
      <3>1. p[k].age < MaxPeers - 1
        BY <2>3 DEF Kept
      <3> QED BY <3>1, <1>1, <1>2, <1>3
    <2> QED BY <2>1, <2>2, <2>3
  <1>5. q = [k \in K \union {key} |->
               IF k = key THEN [w EXCEPT !.age = 0]
               ELSE IF p[k].age < was THEN [p[k] EXCEPT !.age = @ + 1]
               ELSE p[k]]
    BY DEF Used
  <1>6. /\ q[key] = [w EXCEPT !.age = 0]
        /\ [w EXCEPT !.age = 0] \in Peer
        /\ q[key].newest = w.newest /\ q[key].got = w.got /\ q[key].age = 0
    BY <1>1, <1>5 DEF Peer
  <1>7. ASSUME NEW k \in K, k # key
        PROVE  /\ q[k] \in Peer /\ q[k].newest = p[k].newest
               /\ q[k].got = p[k].got
               /\ q[k].age = IF p[k].age < was THEN p[k].age + 1 ELSE p[k].age
    <2>1. p[k] \in Peer
      BY <1>2, <1>3
    <2>2. CASE p[k].age < was
      <3>1. q[k] = [p[k] EXCEPT !.age = @ + 1]
        BY <1>5, <1>7, <2>2
      <3>2. p[k].age + 1 \in 0 .. MaxPeers - 1
        BY <1>4, <1>7, <2>2
      <3> QED BY <2>1, <2>2, <3>1, <3>2 DEF Peer
    <2>3. CASE ~(p[k].age < was)
      <3>1. q[k] = p[k]
        BY <1>5, <1>7, <2>3
      <3> QED BY <2>1, <2>3, <3>1
    <2> QED BY <2>2, <2>3
  <1>8. DOMAIN q = K \union {key}
    BY <1>5
  <1>9. q \in Tables
    <2>1. K \union {key} \in SUBSET Keys
      BY <1>2, <1>3
    <2>2. \A k \in K \union {key} : q[k] \in Peer
      BY <1>6, <1>7
    <2>3. q \in [K \union {key} -> Peer]
      BY <1>5, <2>2
    <2> HIDE DEF q, K
    <2> QED BY <2>1, <2>3 DEF Tables
  <1>10. was \in Nat
    BY <1>1, <1>2
  <1>11. ASSUME NEW j \in DOMAIN q, NEW k \in DOMAIN q, q[j].age = q[k].age
         PROVE  j = k
    <2>1. \A i \in K : i # key => /\ p[i].age \in 0 .. MaxPeers - 1
                                  /\ key \in DOMAIN p => p[i].age # was
      BY <1>2, <1>3 DEF Aged
    <2>2. \A i \in K : i # key => q[i].age # 0
      <3> SUFFICES ASSUME NEW i \in K, i # key PROVE q[i].age # 0
        OBVIOUS
      <3>1. key \notin DOMAIN p => p[i].age < was
        BY <1>1, <2>1
      <3> QED BY <3>1, <1>7, <1>10, <2>1
    <2>3. CASE j = key \/ k = key
      BY <1>6, <1>8, <1>11, <2>2, <2>3
    <2>4. CASE j # key /\ k # key
      <3>1. j \in K /\ k \in K
        BY <1>8, <2>4
      <3>2. key \notin DOMAIN p => p[j].age < was /\ p[k].age < was
        BY <1>1, <2>1, <2>4, <3>1
      <3>3. p[j].age = p[k].age
        BY <1>7, <1>10, <1>11, <2>1, <2>4, <3>1, <3>2
      <3> QED BY <1>3, <3>1, <3>3 DEF Aged
    <2> QED BY <2>3, <2>4
  <1>12. ASSUME NEW k \in DOMAIN q, NEW a \in 0 .. q[k].age
         PROVE  \E j \in DOMAIN q : q[j].age = a
    <2>1. CASE a = 0
      BY <1>6, <1>8, <2>1
    <2>2. CASE a # 0
      <3>1. k \in K /\ k # key
        <4>1. q[key].age = 0 => \A b \in 0 .. q[key].age : b = 0
          OBVIOUS
        <4>2. k # key
          BY <1>6, <1>12, <2>2, <4>1
        <4> QED BY <1>8, <1>12, <4>2
      <3>2. p[k].age \in 0 .. MaxPeers - 1 /\ p[k].age # was
        BY <1>1, <1>2, <1>3, <3>1 DEF Aged
      <3>3. CASE a - 1 < was /\ (p[k].age < was \/ key \in DOMAIN p)
        <4>1. a - 1 \in 0 .. p[k].age \/ a - 1 \in 0 .. was
          BY <1>7, <1>10, <1>12, <2>2, <3>1, <3>2, <3>3
        <4>2. PICK j \in DOMAIN p : p[j].age = a - 1
          <5>1. CASE a - 1 \in 0 .. p[k].age
            BY <1>3, <3>1, <5>1 DEF Aged
          <5>2. CASE a - 1 \in 0 .. was /\ key \in DOMAIN p
            BY <5>2 DEF Aged
          <5>3. a - 1 \in 0 .. was /\ key \notin DOMAIN p =>
                   a - 1 \in 0 .. p[k].age
            BY <1>7, <1>10, <1>12, <2>2, <3>1, <3>2, <3>3
          <5> QED BY <4>1, <5>1, <5>2, <5>3
        <4>3. j # key
          BY <1>2, <3>3, <4>2
        <4>4. j \in K
          <5>1. CASE key \in DOMAIN p
            BY <5>1 DEF Kept
          <5>2. CASE key \notin DOMAIN p
            <6>1. q[k].age \in 0 .. MaxPeers - 1
              BY <1>7, <3>1 DEF Peer
            <6>2. a - 1 < MaxPeers - 1
              BY <1>1, <1>12, <6>1
            <6> QED BY <4>2, <5>2, <6>2 DEF Kept
          <5> QED BY <5>1, <5>2
        <4>5. q[j].age = a
          BY <1>7, <1>12, <2>2, <3>3, <4>2, <4>3, <4>4
        <4> QED BY <1>8, <4>4, <4>5
      <3>4. CASE ~(a - 1 < was) /\ key \in DOMAIN p
        <4>1. a \in 0 .. p[k].age /\ was \in 0 .. MaxPeers - 1 /\ a > was
          BY <1>2, <1>7, <1>12, <2>2, <3>1, <3>2, <3>4
        <4>2. PICK j \in DOMAIN p : p[j].age = a
          BY <1>3, <3>1, <4>1 DEF Aged
        <4>3. j # key /\ j \in K
          BY <3>4, <4>1, <4>2 DEF Kept
        <4>4. q[j].age = a
          BY <1>7, <4>1, <4>2, <4>3
        <4> QED BY <1>8, <4>3, <4>4
      <3>5. key \notin DOMAIN p => p[k].age < was /\ a - 1 < was
        BY <1>1, <1>7, <1>12, <2>2, <3>1, <3>2
      <3> QED BY <3>3, <3>4, <3>5
    <2> QED BY <2>1, <2>2
  <1>13. \A k \in DOMAIN q : 0 \in q[k].got
    BY <1>3, <1>6, <1>7, <1>8 DEF Aged
  <1>14. Aged(q)
    BY <1>11, <1>12, <1>13 DEF Aged
  <1>15. \A k \in DOMAIN q \ {key} : /\ k \in DOMAIN p
                                     /\ q[k].newest = p[k].newest
                                     /\ q[k].got = p[k].got
    BY <1>3, <1>7, <1>8
  <1> QED BY <1>6, <1>8, <1>9, <1>14, <1>15

-----------------------------------------------------------------------------
(* What a handler that received a frame leaves of a context. *)

LEMMA DataFields ==
    ASSUME NEW f \in Frames, f.type = "data"
    PROVE  /\ f.source \in Node /\ f.to \in Node \union {Broadcast}
           /\ f.session \in 1 .. MaxSessions /\ f.seq \in Sequences
           /\ f.index \in 0 .. MaxFragments - 1
           /\ f.count \in 1 .. MaxFragments /\ f.ack \in BOOLEAN
           /\ f.body \in Messages
  BY DEF Frames

\* stop_radio_operation that fails: only a failing radio refuses.
LEMMA StopFailing ==
    ASSUME NEW c \in Contexts, NEW d \in StopFails(c)
    PROVE  /\ RadioFails /\ d \in Contexts /\ Same(c, d) /\ d.tx = c.tx
           /\ d.state = c.state /\ d.air = c.air /\ d.heard = None
           /\ d.late = c.late
  <1>1. RadioFails /\ d = [c EXCEPT !.radio = "error", !.heard = None]
    BY DEF StopFails, Failures
  <1> QED BY <1>1 DEF Contexts, RadioStates, Same

\* The radio after start_acknowledgement, or what it did before.
Acks(n, c, d, f) ==
    /\ d \in Contexts /\ d.tx = c.tx
    /\ d.session = c.session /\ d.rx = c.rx
    /\ d.asm = c.asm /\ d.peers = c.peers
    /\ d.heard = None \/ d.heard = c.heard
    /\ d.state \notin Sending /\ Poised(d)
    /\ \/ d.taken = c.taken /\ (d.air = None \/ d.air = c.air)
       \/ /\ d.taken = c.taken + 1 /\ c.taken < MaxTakes
          /\ d.air = None \/ d.air = AckFrame(n, c, f)

LEMMA Acknowledges ==
    ASSUME NEW n \in Node, NEW c \in Contexts, Poised(c),
           c.state = "RECEIVING", NEW f \in Frames, f.type = "data",
           NEW d \in Acknowledge(n, c, f)
    PROVE  Acks(n, c, d, f)
  <1> DEFINE t == [Stopped(c) EXCEPT !.taken = @ + 1]
  <1>1. CASE d = c
    BY <1>1 DEF Acks, Sending
  <1>2. CASE d # c
    <2>1. /\ c.taken # MaxTakes
          /\ \/ d = [t EXCEPT !.state = "SENDING_ACKNOWLEDGEMENT",
                              !.radio = "tx", !.air = AckFrame(n, c, f)]
             \/ d \in StopFails(c)
             \/ \E x \in Failures : d \in StartReceive(Quiet(t, x.radio))
      BY <1>2 DEF Acknowledge
    <2>2. c.taken + 1 \in 0 .. MaxTakes /\ c.taken < MaxTakes
      BY <2>1, SequenceAssumption DEF Contexts
    <2>3. /\ "standby" \in RadioStates /\ "tx" \in RadioStates
          /\ "SENDING_ACKNOWLEDGEMENT" \in LinkStates
      BY DEF RadioStates, LinkStates
    <2>4. /\ Stopped(c) \in Contexts /\ Same(c, Stopped(c))
          /\ Stopped(c).tx = c.tx /\ Stopped(c).radio = "standby"
          /\ Stopped(c).air = None /\ Stopped(c).heard = None
      BY <2>3, QuietKeeps DEF Stopped
    <2>5. /\ t \in Contexts /\ t.taken = c.taken + 1 /\ t.tx = c.tx
          /\ t.session = c.session /\ t.rx = c.rx /\ t.asm = c.asm
          /\ t.peers = c.peers /\ t.radio = "standby"
          /\ t.air = None /\ t.heard = None
      <3>1. t \in Contexts
        BY <2>2, <2>4 DEF Contexts, Same
      <3>2. /\ t.taken = c.taken + 1 /\ t.tx = c.tx
            /\ t.session = c.session /\ t.rx = c.rx /\ t.asm = c.asm
            /\ t.peers = c.peers /\ t.radio = "standby"
            /\ t.air = None /\ t.heard = None
        BY <2>4 DEF Contexts, Same
      <3> QED BY <3>1, <3>2
    <2> HIDE DEF t
    <2>6. CASE d = [t EXCEPT !.state = "SENDING_ACKNOWLEDGEMENT",
                             !.radio = "tx", !.air = AckFrame(n, c, f)]
      <3>1. AckFrame(n, c, f) \in Frames
        <4>1. c.taken \in 0 .. SeqMod - 1
          BY <2>2, SequenceAssumption DEF Contexts
        <4>2. Seq(c.taken) \in Sequences
          BY <4>1, NumberOfSeq
        <4>3. /\ f.source \in Node /\ f.session \in 1 .. MaxSessions
              /\ f.seq \in Sequences /\ c.session \in 1 .. MaxSessions
          BY DataFields DEF Contexts
        <4> QED BY <4>2, <4>3 DEF AckFrame, Frames
      <3>2. d \in Contexts
        BY <2>3, <2>5, <2>6, <3>1 DEF Contexts
      <3>3. /\ d.tx = c.tx /\ d.session = c.session /\ d.rx = c.rx
            /\ d.asm = c.asm /\ d.peers = c.peers /\ d.heard = None
            /\ d.taken = c.taken + 1 /\ d.air = AckFrame(n, c, f)
            /\ d.state = "SENDING_ACKNOWLEDGEMENT" /\ d.radio = "tx"
        BY <2>5, <2>6 DEF Contexts
      <3> QED BY <2>2, <3>2, <3>3 DEF Acks, Poised, Sending
    <2>7. CASE d \in StopFails(c)
      <3>1. /\ RadioFails /\ d \in Contexts /\ Same(c, d) /\ d.tx = c.tx
            /\ d.state = c.state /\ d.air = c.air /\ d.heard = None
        BY <2>7, StopFailing
      <3> QED BY <3>1 DEF Acks, Same, Poised, Sending
    <2>8. ASSUME NEW x \in Failures, d \in StartReceive(Quiet(t, x.radio))
          PROVE  Acks(n, c, d, f)
      <3> DEFINE b == Quiet(t, x.radio)
      <3>1. x.radio \in RadioStates /\ RadioFails
        BY FailureKinds
      <3>2. b \in Contexts /\ Same(t, b) /\ b.tx = t.tx /\ Ready(b)
        BY <2>5, <3>1, QuietKeeps DEF Ready
      <3> HIDE DEF b
      <3>3. /\ d \in Contexts /\ Same(b, d) /\ d.tx = b.tx
            /\ d.air = None /\ d.heard = None
            /\ d.state \in {"RECEIVING", "ERROR"} /\ Poised(d)
        BY <2>8, <3>2, ReceiveStarts DEF b
      <3> QED BY <2>2, <2>5, <3>2, <3>3 DEF Acks, Same, Sending
    <2> QED BY <2>1, <2>6, <2>7, <2>8
  <1> QED BY <1>1, <1>2

\* The reassembly a fragment belongs to.
Held(c, f) == IF SameReassembly(c.asm, f) THEN c.asm ELSE Opened(f)

\* a reassembles what f is a fragment of.
Fits(a, f) ==
    /\ a \in Assemblies
    /\ a.source = f.source /\ a.to = f.to /\ a.session = f.session
    /\ a.seq = f.seq /\ a.count = f.count

LEMMA PartsShape ==
    ASSUME NEW p \in Parts
    PROVE  /\ DOMAIN p \subseteq 0 .. MaxFragments - 1
           /\ p \in [DOMAIN p -> Messages]
  BY DEF Parts

LEMMA OpenedFits ==
    ASSUME NEW f \in Frames, f.type = "data"
    PROVE  Fits(Opened(f), f) /\ DOMAIN Opened(f).parts = {}
  <1> DEFINE e == [i \in {} |-> f.body]
  <1>1. e \in [{} -> Messages] /\ {} \in SUBSET (0 .. MaxFragments - 1)
    OBVIOUS
  <1>2. e \in Parts
    BY <1>1 DEF Parts
  <1> HIDE DEF e
  <1>3. Integrity(f) \in Messages \union {None}
    BY DataFields DEF Integrity
  <1>4. Opened(f) = [source |-> f.source, to |-> f.to, session |-> f.session,
                     seq |-> f.seq, count |-> f.count, ack |-> f.ack,
                     integrity |-> Integrity(f), parts |-> e]
    BY DEF Opened, e
  <1>5. DOMAIN e = {}
    BY DEF e
  <1> QED BY <1>2, <1>3, <1>4, <1>5, DataFields DEF Fits, Assemblies

LEMMA HeldFits ==
    ASSUME NEW c \in Contexts, NEW f \in Frames, f.type = "data"
    PROVE  /\ Fits(Held(c, f), f)
           /\ \/ Held(c, f) = c.asm /\ c.asm # None
              \/ Held(c, f) = Opened(f)
  <1>1. CASE SameReassembly(c.asm, f)
    <2>1. c.asm \in Assemblies
      BY <1>1 DEF Contexts, SameReassembly
    <2>2. [c.asm EXCEPT !.parts = Opened(f).parts] = Opened(f)
      BY <1>1 DEF SameReassembly
    <2>3. /\ c.asm.source = Opened(f).source /\ c.asm.to = Opened(f).to
          /\ c.asm.session = Opened(f).session /\ c.asm.seq = Opened(f).seq
          /\ c.asm.count = Opened(f).count
      BY <2>1, <2>2 DEF Assemblies
    <2> QED BY <1>1, <2>1, <2>3, OpenedFits DEF Fits, Held, SameReassembly
  <1>2. CASE ~SameReassembly(c.asm, f)
    BY <1>2, OpenedFits DEF Held
  <1> QED BY <1>1, <1>2

LEMMA PartFits ==
    ASSUME NEW a, NEW f \in Frames, f.type = "data", Fits(a, f)
    PROVE  /\ Fits(WithPart(a, f), f)
           /\ DOMAIN WithPart(a, f).parts = DOMAIN a.parts \union {f.index}
           /\ WithPart(a, f).parts[f.index] = f.body
           /\ \A i \in DOMAIN a.parts \ {f.index} :
                 WithPart(a, f).parts[i] = a.parts[i]
  <1> DEFINE p == [i \in DOMAIN a.parts \union {f.index} |->
                     IF i = f.index THEN f.body ELSE a.parts[i]]
  <1>1. a \in Assemblies /\ a.parts \in Parts
    BY DEF Fits, Assemblies
  <1>2. /\ DOMAIN a.parts \subseteq 0 .. MaxFragments - 1
        /\ a.parts \in [DOMAIN a.parts -> Messages]
    BY <1>1, PartsShape
  <1>3. f.index \in 0 .. MaxFragments - 1 /\ f.body \in Messages
    BY DataFields
  <1>4. p \in [DOMAIN a.parts \union {f.index} -> Messages]
    BY <1>2, <1>3
  <1>5. p \in Parts
    BY <1>2, <1>3, <1>4 DEF Parts
  <1>6. /\ DOMAIN p = DOMAIN a.parts \union {f.index}
        /\ p[f.index] = f.body
        /\ \A i \in DOMAIN a.parts \ {f.index} : p[i] = a.parts[i]
    OBVIOUS
  <1> HIDE DEF p
  <1>7. WithPart(a, f) = [a EXCEPT !.parts = p]
    BY DEF WithPart, p
  <1>8. WithPart(a, f).parts = p /\ WithPart(a, f) \in Assemblies
    BY <1>1, <1>5, <1>7 DEF Assemblies
  <1>9. Fits(WithPart(a, f), f)
    BY <1>1, <1>7, <1>8 DEF Fits, Assemblies
  <1> QED BY <1>6, <1>8, <1>9

LEMMA MarkedPeer ==
    ASSUME NEW p \in Peer, 0 \in p.got, NEW q \in Sequences
    PROVE  /\ Marked(p, q) \in Peer /\ 0 \in Marked(p, q).got
           /\ Marked(p, q).newest = IF Newer(q, p.newest) THEN q ELSE p.newest
  <1>1. Window \in Nat \ {0} /\ SeqMod \in Nat \ {0}
    BY SequenceAssumption
  <1>2. CASE Newer(q, p.newest)
    <2> DEFINE s == Ahead(q, p.newest)
               got == {0} \union {g + s : g \in {h \in p.got : h + s < Window}}
    <2>1. s \in Nat
      BY <1>1 DEF Ahead, Peer, Sequences
    <2>2. \A h \in p.got : h \in Nat
      BY <1>1 DEF Peer
    <2>3. got \subseteq 0 .. Window - 1
      BY <1>1, <2>1, <2>2
    <2>4. Marked(p, q) = [p EXCEPT !.newest = q, !.got = got]
      BY <1>2 DEF Marked
    <2> HIDE DEF s
    <2>5. 0 \in got
      OBVIOUS
    <2> HIDE DEF got
    <2> QED BY <1>2, <2>3, <2>4, <2>5 DEF Peer
  <1>3. CASE ~Newer(q, p.newest)
    <2> DEFINE got == p.got \union ({Ahead(p.newest, q)}
                                      \intersect (0 .. Window - 1))
    <2>1. got \subseteq 0 .. Window - 1 /\ 0 \in got
      BY DEF Peer
    <2>2. Marked(p, q) = [p EXCEPT !.got = got]
      BY <1>3 DEF Marked, Peer
    <2> HIDE DEF got
    <2> QED BY <1>3, <2>1, <2>2 DEF Peer
  <1> QED BY <1>2, <1>3

FrameKey(f) == <<f.source, f.session>>

\* f was received before, and only its peer's age changes.
Repeats(c, d, f) ==
    /\ Seen(c.peers, FrameKey(f), f.seq)
    /\ d.rx = c.rx /\ d.asm = c.asm
    /\ DOMAIN d.peers = DOMAIN c.peers
    /\ \A k \in DOMAIN c.peers : /\ d.peers[k].newest = c.peers[k].newest
                                 /\ d.peers[k].got = c.peers[k].got

\* f is put into the reassembly, or dropped.
Collects(c, d, f) ==
    /\ d.rx = c.rx /\ d.peers = c.peers
    /\ \/ d.asm = None \/ d.asm = c.asm \/ d.asm = Opened(f)
       \/ d.asm = WithPart(Held(c, f), f)

\* f completes its message, which is remembered and made readable.
Reads(c, d, f) ==
    LET w == WithPart(Held(c, f), f) IN
    /\ ~Seen(c.peers, FrameKey(f), f.seq)
    /\ c.rx = None /\ Complete(w)
    /\ d.asm = None
    /\ d.rx = [source |-> w.source, session |-> w.session, seq |-> w.seq,
               parts |-> w.parts]
    /\ DOMAIN d.peers = Kept(c.peers, FrameKey(f)) \union {FrameKey(f)}
    /\ \A k \in DOMAIN d.peers \ {FrameKey(f)} :
          k \in DOMAIN c.peers /\ d.peers[k].newest = c.peers[k].newest
    /\ d.peers[FrameKey(f)].newest =
          IF /\ FrameKey(f) \in DOMAIN c.peers
             /\ ~Newer(f.seq, c.peers[FrameKey(f)].newest)
          THEN c.peers[FrameKey(f)].newest ELSE f.seq

\* What process_receive makes of a frame for this node.
Takes(n, c, d, f) ==
    /\ d \in Contexts /\ Aged(d.peers) /\ d.tx = c.tx
    /\ d.session = c.session /\ d.heard = None
    /\ d.state \notin Sending /\ Poised(d)
    /\ \/ d.taken = c.taken /\ (d.air = None \/ d.air = c.air)
       \/ /\ d.taken = c.taken + 1 /\ c.taken < MaxTakes
          /\ d.air = None \/ d.air = AckFrame(n, c, f)
          /\ Repeats(c, d, f) \/ Reads(c, d, f)
    /\ Repeats(c, d, f) \/ Collects(c, d, f) \/ Reads(c, d, f)

LEMMA AckFrameOf ==
    ASSUME NEW n, NEW c, NEW b, NEW f, b.session = c.session, b.taken = c.taken
    PROVE  AckFrame(n, b, f) = AckFrame(n, c, f)
  BY DEF AckFrame

\* accept_data_frame of a frame that was received before
LEMMA AcceptsRepetition ==
    ASSUME NEW n \in Node, NEW c \in Contexts, Aged(c.peers), Poised(c),
           c.state = "RECEIVING", c.heard = None,
           NEW f \in Frames, f.type = "data",
           Seen(c.peers, FrameKey(f), f.seq),
           NEW d \in Accept(n, c, f)
    PROVE  Takes(n, c, d, f)
  <1> DEFINE key == FrameKey(f)
             p == Touched(c.peers, key)
             b == [c EXCEPT !.peers = p]
  <1>1. c.peers \in Tables /\ key \in DOMAIN c.peers /\ key \in Keys
    BY DataFields DEF Contexts, Seen, Keys, FrameKey
  <1>2. c.peers[key] \in Peer /\ 0 \in c.peers[key].got
    BY <1>1, TableShape DEF Aged
  <1>3. Kept(c.peers, key) = DOMAIN c.peers
    BY <1>1 DEF Kept
  <1>4. p = Used(c.peers, key, c.peers[key])
    BY DEF Touched
  <1>5. /\ p \in Tables /\ Aged(p) /\ DOMAIN p = DOMAIN c.peers
        /\ \A k \in DOMAIN c.peers : /\ p[k].newest = c.peers[k].newest
                                     /\ p[k].got = c.peers[k].got
    <2> HIDE DEF p, key
    <2>1. LET q == Used(c.peers, key, c.peers[key]) IN
             /\ q \in Tables /\ Aged(q)
             /\ DOMAIN q = Kept(c.peers, key) \union {key}
             /\ q[key].newest = c.peers[key].newest
             /\ q[key].got = c.peers[key].got
             /\ \A k \in DOMAIN q \ {key} :
                   /\ k \in DOMAIN c.peers
                   /\ q[k].newest = c.peers[k].newest
                   /\ q[k].got = c.peers[k].got
      BY <1>1, <1>2, UsedTable
    <2> QED BY <1>1, <1>3, <1>4, <2>1
  <1>6. d = b \/ d \in Acknowledge(n, b, f)
    BY DEF Accept, FrameKey
  <1> HIDE DEF p
  <1>7. /\ b \in Contexts /\ b.peers = p /\ b.tx = c.tx /\ b.rx = c.rx
        /\ b.asm = c.asm /\ b.session = c.session /\ b.taken = c.taken
        /\ b.heard = None /\ b.air = c.air /\ b.state = c.state
        /\ b.radio = c.radio
    BY <1>5 DEF Contexts
  <1>8. Poised(b)
    BY <1>7 DEF Poised
  <1> HIDE DEF b
  <1>9. Acks(n, b, d, f)
    <2>1. CASE d = b
      BY <1>7, <1>8, <2>1 DEF Acks, Sending
    <2>2. CASE d \in Acknowledge(n, b, f)
      BY <1>7, <1>8, <2>2, Acknowledges
    <2> QED BY <1>6, <2>1, <2>2
  <1>10. Repeats(c, d, f)
    BY <1>5, <1>7, <1>9 DEF Repeats, Acks
  <1>11. AckFrame(n, b, f) = AckFrame(n, c, f)
    BY <1>7, AckFrameOf
  <1> QED BY <1>5, <1>7, <1>9, <1>10, <1>11 DEF Takes, Acks

\* accept_data_frame of a fragment that completes its message
LEMMA AcceptsMessage ==
    ASSUME NEW n \in Node, NEW c \in Contexts, Aged(c.peers), Poised(c),
           c.state = "RECEIVING", c.heard = None, c.rx = None,
           NEW f \in Frames, f.type = "data",
           ~Seen(c.peers, FrameKey(f), f.seq),
           Complete(WithPart(Held(c, f), f)),
           NEW d \in Deliver(n, c, WithPart(Held(c, f), f), f)
    PROVE  Takes(n, c, d, f)
  <1> DEFINE w == WithPart(Held(c, f), f)
             key == FrameKey(f)
             p == Remembered(c.peers, key, f.seq)
             r == [source |-> w.source, session |-> w.session, seq |-> w.seq,
                   parts |-> w.parts]
             b == [c EXCEPT !.asm = None, !.rx = r, !.peers = p]
  <1>1. Fits(w, f)
    BY HeldFits, PartFits
  <1>2. w.source = f.source /\ w.session = f.session /\ w.seq = f.seq
        /\ r \in Readable
    BY <1>1 DEF Fits, Assemblies, Readable
  <1>3. c.peers \in Tables /\ key \in Keys /\ f.seq \in Sequences
    BY DataFields DEF Contexts, Keys, FrameKey
  <1>4. /\ p \in Tables /\ Aged(p) /\ DOMAIN p = Kept(c.peers, key) \union {key}
        /\ \A k \in DOMAIN p \ {key} :
              k \in DOMAIN c.peers /\ p[k].newest = c.peers[k].newest
        /\ p[key].newest =
              IF key \in DOMAIN c.peers /\ ~Newer(f.seq, c.peers[key].newest)
              THEN c.peers[key].newest ELSE f.seq
    <2>1. CASE key \in DOMAIN c.peers
      <3>1. c.peers[key] \in Peer /\ 0 \in c.peers[key].got
        BY <1>3, <2>1, TableShape DEF Aged
      <3>2. /\ Marked(c.peers[key], f.seq) \in Peer
            /\ 0 \in Marked(c.peers[key], f.seq).got
            /\ Marked(c.peers[key], f.seq).newest =
                 IF Newer(f.seq, c.peers[key].newest)
                 THEN f.seq ELSE c.peers[key].newest
        BY <1>3, <3>1, MarkedPeer
      <3>3. p = Used(c.peers, key, Marked(c.peers[key], f.seq))
        BY <2>1 DEF Remembered
      <3> HIDE DEF p, key
      <3>4. LET q == Used(c.peers, key, Marked(c.peers[key], f.seq)) IN
               /\ q \in Tables /\ Aged(q)
               /\ DOMAIN q = Kept(c.peers, key) \union {key}
               /\ q[key].newest = Marked(c.peers[key], f.seq).newest
               /\ q[key].got = Marked(c.peers[key], f.seq).got
               /\ \A k \in DOMAIN q \ {key} :
                     /\ k \in DOMAIN c.peers
                     /\ q[k].newest = c.peers[k].newest
                     /\ q[k].got = c.peers[k].got
        BY <1>3, <3>2, UsedTable
      <3> QED BY <2>1, <3>2, <3>3, <3>4
    <2>2. CASE key \notin DOMAIN c.peers
      <3> DEFINE v == [newest |-> f.seq, got |-> {0}, age |-> 0]
      <3>1. v \in Peer /\ 0 \in v.got /\ v.newest = f.seq
        BY <1>3, NodesAssumption, SequenceAssumption DEF Peer
      <3>2. p = Used(c.peers, key, v)
        BY <2>2 DEF Remembered
      <3> HIDE DEF p, key, v
      <3>4. LET q == Used(c.peers, key, v) IN
               /\ q \in Tables /\ Aged(q)
               /\ DOMAIN q = Kept(c.peers, key) \union {key}
               /\ q[key].newest = v.newest
               /\ q[key].got = v.got
               /\ \A k \in DOMAIN q \ {key} :
                     /\ k \in DOMAIN c.peers
                     /\ q[k].newest = c.peers[k].newest
                     /\ q[k].got = c.peers[k].got
        BY <1>3, <3>1, UsedTable
      <3> QED BY <2>2, <3>1, <3>2, <3>4
    <2> QED BY <2>1, <2>2
  <1>5. d = b \/ d \in Acknowledge(n, b, f)
    BY <1>2 DEF Deliver, FrameKey
  <1> HIDE DEF p, r, key
  <1>6. /\ b \in Contexts /\ b.peers = p /\ b.tx = c.tx /\ b.rx = r
        /\ b.asm = None /\ b.session = c.session /\ b.taken = c.taken
        /\ b.heard = None /\ b.air = c.air /\ b.state = c.state
        /\ b.radio = c.radio
    BY <1>2, <1>4 DEF Contexts
  <1>7. Poised(b)
    BY <1>6 DEF Poised
  <1> HIDE DEF b
  <1>8. Acks(n, b, d, f)
    <2>1. CASE d = b
      BY <1>6, <1>7, <2>1 DEF Acks, Sending
    <2>2. CASE d \in Acknowledge(n, b, f)
      BY <1>6, <1>7, <2>2, Acknowledges
    <2> QED BY <1>5, <2>1, <2>2
  <1>9. d.asm = None /\ d.rx = r /\ d.peers = p
    BY <1>6, <1>8 DEF Acks
  <1>10. Reads(c, d, f)
    BY <1>4, <1>9 DEF Reads, r, key
  <1>11. AckFrame(n, b, f) = AckFrame(n, c, f)
    BY <1>6, AckFrameOf
  <1> QED BY <1>4, <1>6, <1>8, <1>9, <1>10, <1>11 DEF Takes, Acks

\* accept_data_frame
LEMMA Accepts ==
    ASSUME NEW n \in Node, NEW c \in Contexts, Aged(c.peers), Poised(c),
           c.state = "RECEIVING", c.heard = None,
           NEW f \in Frames, f.type = "data", NEW d \in Accept(n, c, f)
    PROVE  Takes(n, c, d, f)
  <1> DEFINE other == ~SameReassembly(c.asm, f)
             a == IF other THEN Opened(f) ELSE c.asm
             b == WithPart(a, f)
  <1>1. CASE Seen(c.peers, FrameKey(f), f.seq)
    BY <1>1, AcceptsRepetition
  <1>2. CASE ~Seen(c.peers, FrameKey(f), f.seq)
    <2>1. a = Held(c, f) /\ b = WithPart(Held(c, f), f)
      BY DEF Held
    <2>2. Fits(a, f) /\ Fits(b, f)
      BY <2>1, HeldFits, PartFits
    <2>3. a \in Assemblies /\ b \in Assemblies
      BY <2>2 DEF Fits
    <2>4. \/ d = c
          \/ d = [c EXCEPT !.asm = a]
          \/ d = [c EXCEPT !.asm = b]
          \/ d = [c EXCEPT !.asm = None]
          \/ c.rx = None /\ Complete(b) /\ d \in Deliver(n, c, b, f)
      BY <1>2 DEF Accept, FrameKey
    <2> HIDE DEF a, b
    <2>5. ASSUME NEW x \in Assemblies \union {None},
                 x = None \/ x = c.asm \/ x = Opened(f)
                   \/ x = WithPart(Held(c, f), f),
                 d = [c EXCEPT !.asm = x]
          PROVE  Takes(n, c, d, f)
      <3>1. /\ d \in Contexts /\ d.tx = c.tx /\ d.rx = c.rx
            /\ d.asm = x /\ d.session = c.session /\ d.taken = c.taken
            /\ d.heard = None /\ d.air = c.air /\ d.state = c.state
            /\ d.radio = c.radio /\ d.peers = c.peers
        BY <2>5 DEF Contexts
      <3>2. Poised(d) /\ Collects(c, d, f)
        BY <2>5, <3>1 DEF Poised, Collects
      <3> QED BY <3>1, <3>2 DEF Takes, Sending
    <2>6. a = c.asm \/ a = Opened(f)
      BY <2>1, HeldFits
    <2>7. d = c => c.asm \in Assemblies \union {None}
                     /\ d = [c EXCEPT !.asm = c.asm]
      BY DEF Contexts
    <2>8. CASE c.rx = None /\ Complete(b) /\ d \in Deliver(n, c, b, f)
      BY <1>2, <2>1, <2>8, AcceptsMessage
    <2> QED BY <2>1, <2>3, <2>4, <2>5, <2>6, <2>7, <2>8
  <1> QED BY <1>1, <1>2

\* expire_reassembly may have dropped what was collected.
Expires(c, e) ==
    /\ e \in Contexts /\ e.state = c.state /\ e.radio = c.radio
    /\ e.air = c.air /\ e.heard = c.heard /\ e.session = c.session
    /\ e.taken = c.taken /\ e.tx = c.tx /\ e.rx = c.rx
    /\ e.peers = c.peers
    /\ e.asm = None \/ e.asm = c.asm

LEMMA ExpiredOne ==
    ASSUME NEW c \in Contexts, NEW e \in Expired(c)
    PROVE  Expires(c, e)
  <1>1. CASE e = c
    BY <1>1 DEF Expires
  <1>2. CASE e = [c EXCEPT !.asm = None]
    BY <1>2 DEF Expires, Contexts
  <1> QED BY <1>1, <1>2 DEF Expired

\* What is handled is the frame the radio had heard.
LEMMA TakesHeard ==
    ASSUME NEW n, NEW c \in Contexts, NEW f, NEW d,
           Takes(n, [c EXCEPT !.heard = None], d, f)
    PROVE  Takes(n, c, d, f)
  <1> DEFINE t == [c EXCEPT !.heard = None]
  <1>1. /\ t.tx = c.tx /\ t.session = c.session /\ t.taken = c.taken
        /\ t.air = c.air /\ t.peers = c.peers /\ t.rx = c.rx
        /\ t.asm = c.asm
    BY DEF Contexts
  <1>2. Takes(n, t, d, f)
    OBVIOUS
  <1> HIDE DEF t
  <1>3. Held(t, f) = Held(c, f) /\ AckFrame(n, t, f) = AckFrame(n, c, f)
    BY <1>1 DEF Held, AckFrame
  <1>4. /\ Repeats(t, d, f) => Repeats(c, d, f)
        /\ Collects(t, d, f) => Collects(c, d, f)
        /\ Reads(t, d, f) => Reads(c, d, f)
    BY <1>1, <1>3 DEF Repeats, Collects, Reads
  <1> QED BY <1>1, <1>2, <1>3, <1>4 DEF Takes

\* process_receive
LEMMA Receives ==
    ASSUME NEW n \in Node, NEW c \in Contexts, Aged(c.peers), Poised(c),
           c.state = "RECEIVING", NEW d \in Received(n, c)
    PROVE  \/ Rests(c, d)
           \/ /\ c.heard \in Frames /\ c.heard # None /\ ForMe(n, c.heard)
              /\ Takes(n, c, d, c.heard)
  <1> DEFINE t == [c EXCEPT !.heard = None]
  <1>1. /\ t \in Contexts /\ t.tx = c.tx /\ t.session = c.session
        /\ t.taken = c.taken /\ t.air = c.air /\ t.peers = c.peers
        /\ t.rx = c.rx /\ t.asm = c.asm /\ t.heard = None
        /\ t.state = c.state /\ t.radio = c.radio
    BY DEF Contexts
  <1>2. Poised(t) /\ Aged(t.peers)
    BY <1>1 DEF Poised
  <1>3. CASE d = c
    BY <1>3 DEF Rests, Same, Quieter, Sending
  <1>4. CASE d = t
    BY <1>1, <1>2, <1>4 DEF Rests, Same, Quieter, Sending
  <1>5. CASE c.heard # None /\ ForMe(n, c.heard) /\ d \in Accept(n, t, c.heard)
    <2>1. c.heard \in Frames /\ c.heard.type = "data"
      BY <1>5 DEF Contexts, ForMe
    <2>2. t.state = "RECEIVING" /\ t.heard = None /\ d \in Accept(n, t, c.heard)
      BY <1>1, <1>5
    <2>3. Takes(n, t, d, c.heard)
      <3> HIDE DEF t
      <3> QED BY <1>1, <1>2, <2>1, <2>2, Accepts
    <2> QED BY <1>5, <2>1, <2>3, TakesHeard
  <1>6. ASSUME NEW x \in Failures, d = Quiet(c, x.radio)
        PROVE  Rests(c, d)
    <2>1. x.radio \in RadioStates /\ RadioFails
      BY FailureKinds
    <2> QED BY <1>6, <2>1, QuietKeeps DEF Rests, Quieter, Poised, Sending
  <1>7. \/ d = c
        \/ d = t
        \/ c.heard # None /\ ForMe(n, c.heard) /\ d \in Accept(n, t, c.heard)
        \/ \E x \in Failures : d = Quiet(c, x.radio)
    BY DEF Received
  <1> QED BY <1>3, <1>4, <1>5, <1>6, <1>7

-----------------------------------------------------------------------------
(* All the nodes. *)

\* A context between two calls.
Sound(c) ==
    /\ c \in Contexts /\ Aged(c.peers) /\ Bound(c) /\ Poised(c)
    /\ c.tx.result # "IDLE" => Number(c.tx.seq) < c.taken

Shapes ==
    /\ link \in [Node -> Contexts]
    /\ \A n \in Node : Sound(link[n])
    /\ sent \in [Node -> Nat] /\ aired \subseteq Frames
    /\ delivered \subseteq Node \X (1 .. MaxSessions) \X Messages

\* What a node has on the air is its own, and what it has heard was aired.
OnAir(n, c, frames) ==
    /\ c.air # None =>
          /\ c.air \in frames
          /\ c.air.source = n /\ c.air.session = c.session
          /\ c.air.type = "data" => c.air.seq = c.tx.seq
    /\ c.heard \in frames \union {Garbled, None}

Airs == \A n \in Node : OnAir(n, link[n], aired)

\* What a number of a session stands for: a fragment with the number of the
\* send its node is in is of that send, and earlier sends have earlier ones.
NumberIn(f, c) ==
    /\ f.index < f.count
    /\ f.session <= c.session
    /\ Number(f.seq) < MaxTakes
    /\ f.session = c.session =>
          /\ Number(f.seq) < c.taken
          /\ c.tx.result # "IDLE" /\ f.seq = c.tx.seq =>
                f = Fragment(f.source, c, f.index)
          /\ f.type = "data" =>
                c.tx.result # "IDLE" /\ Number(f.seq) <= Number(c.tx.seq)

Numbered == \A f \in aired : NumberIn(f, link[f.source])

\* A number is one message or one acknowledgement.
NumberOnce ==
    \A f, g \in aired :
       f.source = g.source /\ f.session = g.session /\ f.seq = g.seq =>
          f = [g EXCEPT !.index = f.index]

\* Fragment i of what a reassembles was aired with this body.
Came(a, i, body, frames) ==
    \E f \in frames :
       /\ f.type = "data" /\ f.to = a.to /\ f.source = a.source
       /\ f.session = a.session /\ f.seq = a.seq /\ f.count = a.count
       /\ f.index = i /\ f.body = body

Gathered(n, a, frames) ==
    /\ a.to \in {n, Broadcast}
    /\ DOMAIN a.parts \subseteq 0 .. a.count - 1
    /\ \A i \in DOMAIN a.parts : Came(a, i, a.parts[i], frames)

Collected(n, a, frames) == a # None => Gathered(n, a, frames)

Assembled == \A n \in Node : Collected(n, link[n].asm, aired)

\* n made the message of that sender, session and sequence readable.
Made(n, source, session, seq, frames, made) ==
    \E f \in frames :
       /\ f.type = "data" /\ f.source = source
       /\ f.session = session /\ f.seq = seq
       /\ \E s \in 1 .. MaxSessions : <<n, s, f.body>> \in made

\* Only a message that was made readable is acknowledged ...
Confirmed ==
    \A f \in aired : f.type = "ack" =>
       Made(f.source, f.to, f.body[1], f.body[2], aired, delivered)

\* ... because the newest sequence of a peer was ...
KnownBy(n, peers, frames, made) ==
    \A k \in DOMAIN peers :
       Made(n, k[1], k[2], peers[k].newest, frames, made)

Known == \A n \in Node : KnownBy(n, link[n].peers, aired, delivered)

\* ... and what is heard is no older than it.
InOrder(c) ==
    /\ c.heard \notin {Garbled, None} /\ c.heard.type = "data"
    /\ FrameKey(c.heard) \in DOMAIN c.peers
    => Number(c.peers[FrameKey(c.heard)].newest) <= Number(c.heard.seq)

HeardInOrder == \A n \in Node : InOrder(link[n])

\* A message that was made readable is whole.
Whole(n, r, frames) ==
    r # None =>
      \E f \in frames :
          /\ f.type = "data" /\ f.to \in {n, Broadcast}
          /\ f.source = r.source /\ f.session = r.session /\ f.seq = r.seq
          /\ DOMAIN r.parts = 0 .. f.count - 1
          /\ \A i \in DOMAIN r.parts : r.parts[i] = f.body

\* A send that was acknowledged was delivered.
Answered(tx, made) ==
    tx.acked /\ tx.result = "SUCCEEDED" =>
        \E s \in 1 .. MaxSessions : <<tx.to, s, tx.msg>> \in made

Inv == /\ Shapes /\ Airs /\ Numbered /\ NumberOnce /\ Assembled
       /\ WholeMessages /\ Confirmed /\ Known /\ HeardInOrder
       /\ AckMeansDelivered

\* A call that accepts no frame: the send goes on, or ends.
Advances(n, c, d) ==
    /\ d \in Contexts /\ Bound(d) /\ Poised(d)
    /\ d.session = c.session /\ d.taken = c.taken /\ d.peers = c.peers
    /\ d.rx = None \/ d.rx = c.rx
    /\ d.asm = None \/ d.asm = c.asm
    /\ SameSend(c, d)
    /\ d.tx.result = "IDLE" <=> c.tx.result = "IDLE"
    /\ d.heard = None \/ d.heard = c.heard
    /\ \/ d.air = None \/ d.air = c.air
       \/ c.tx.result # "IDLE" /\ d.air = Fragment(n, c, d.tx.index)
    /\ d.tx.acked /\ d.tx.result = "SUCCEEDED" =>
          \/ c.tx.result = "SUCCEEDED"
          \/ c.heard # None /\ AcknowledgementMatches(n, c, c.heard)

\* A frame was accepted.
Receipt(n, c, d) ==
    \E e : /\ Expires(c, e) /\ c.state = "RECEIVING"
           /\ c.heard \in Frames /\ c.heard # None /\ ForMe(n, c.heard)
           /\ Takes(n, e, d, c.heard)

-----------------------------------------------------------------------------
(* Every step of a node but the start of a send, its creation and the end  *)
(* of its frame advances it or is a receipt.                               *)

LEMMA SoundCarries ==
    ASSUME NEW c, Sound(c), c.state \in Sending \/ c.tx.active
    PROVE  Carries(c) /\ c.state \in Sending
  <1>1. c.tx.active /\ c.tx.result = "IN_PROGRESS" /\ c.state \in Sending
    BY DEF Sound, Bound
  <1> QED BY <1>1 DEF Sound, Bound, Carries

LEMMA ExpiresSound ==
    ASSUME NEW c, Sound(c), NEW e, Expires(c, e)
    PROVE  Sound(e)
  BY DEF Sound, Expires, Bound, Poised

LEMMA GoesAdvance ==
    ASSUME NEW n, NEW c, Sound(c), NEW e, Expires(c, e), Carries(e),
           NEW d, NEW ends, Goes(n, e, d, ends), "IDLE" \notin ends,
           "SUCCEEDED" \in ends =>
              \/ ~e.tx.acked
              \/ e.heard # None /\ AcknowledgementMatches(n, e, e.heard)
    PROVE  Advances(n, c, d)
  <1>1. Fragment(n, e, d.tx.index) = Fragment(n, c, d.tx.index)
    BY DEF Fragment, Expires
  <1>2. AcknowledgementMatches(n, e, e.heard) =
           AcknowledgementMatches(n, c, c.heard)
    BY DEF AcknowledgementMatches, Expires
  <1>3. /\ c.tx.result # "IDLE" /\ d.tx.result # "IDLE"
        /\ d.tx.msg \in Messages /\ d.tx.to \in Node \union {Broadcast}
    BY DEF Expires, Carries, Goes, SameSend
  <1>4. Bound(d)
    BY <1>3 DEF Goes, Bound
  <1>5. /\ d.session = c.session /\ d.taken = c.taken /\ d.peers = c.peers
        /\ d.rx = c.rx /\ SameSend(c, d)
        /\ d.asm = None \/ d.asm = c.asm
        /\ d.heard = None \/ d.heard = c.heard
    BY DEF Goes, Expires, Same, SameSend
  <1>6. \/ d.air = None \/ d.air = c.air
        \/ d.air = Fragment(n, c, d.tx.index)
    BY <1>1 DEF Goes, Expires
  <1>7. d.tx.acked /\ d.tx.result = "SUCCEEDED" =>
           c.heard # None /\ AcknowledgementMatches(n, c, c.heard)
    <2> SUFFICES ASSUME d.tx.acked, d.tx.result = "SUCCEEDED"
                 PROVE  c.heard # None /\ AcknowledgementMatches(n, c, c.heard)
      OBVIOUS
    <2>1. "SUCCEEDED" \in ends /\ e.tx.acked
      BY DEF Goes, SameSend
    <2> QED BY <1>2, <2>1 DEF Expires
  <1>8. d \in Contexts /\ Poised(d)
    BY DEF Goes
  <1> QED BY <1>3, <1>4, <1>5, <1>6, <1>7, <1>8 DEF Advances

LEMMA RestsAdvance ==
    ASSUME NEW n, NEW c, Sound(c), NEW e, Expires(c, e),
           c.state \notin Sending, NEW d, Rests(e, d)
    PROVE  Advances(n, c, d)
  <1>1. d.tx = c.tx /\ d.state \notin Sending
    BY DEF Rests, Expires
  <1>2. Bound(d)
    BY <1>1 DEF Sound, Bound
  <1>3. /\ d.session = c.session /\ d.taken = c.taken /\ d.peers = c.peers
        /\ d.rx = c.rx
        /\ d.asm = None \/ d.asm = c.asm
        /\ d.heard = None \/ d.heard = c.heard
        /\ d.air = None \/ d.air = c.air
    BY DEF Rests, Expires, Same, Quieter
  <1> QED BY <1>1, <1>2, <1>3 DEF Rests, Advances, SameSend

LEMMA SelfExpires ==
    ASSUME NEW c \in Contexts PROVE Expires(c, c)
  BY DEF Expires

LEMMA StopFailsAdvance ==
    ASSUME NEW n, NEW c, Sound(c), NEW d \in StopFails(c)
    PROVE  Advances(n, c, d)
  <1>1. /\ RadioFails /\ d \in Contexts /\ Same(c, d) /\ d.tx = c.tx
        /\ d.state = c.state /\ d.air = c.air /\ d.heard = None
    BY StopFailing DEF Sound
  <1>2. Bound(d) /\ Poised(d)
    BY <1>1 DEF Sound, Bound, Poised
  <1> QED BY <1>1, <1>2 DEF Advances, Same, SameSend

LEMMA ProcessReceiveKind ==
    ASSUME Shapes, NEW n \in Node, ProcessReceive(n)
    PROVE  \E d : Becomes(n, d) /\ (\/ Advances(n, link[n], d)
                                    \/ Receipt(n, link[n], d))
  <1> DEFINE c == link[n]
  <1>1. Sound(c) /\ c \in Contexts /\ c.state = "RECEIVING"
    BY DEF Shapes, Sound, ProcessReceive
  <1>2. PICK e \in Expired(c) : \E d \in Received(n, e) : Becomes(n, d)
    BY DEF ProcessReceive, Continues
  <1>3. PICK d \in Received(n, e) : Becomes(n, d)
    BY <1>2
  <1> HIDE DEF c
  <1>4. Expires(c, e)
    BY <1>1, ExpiredOne
  <1>5. Sound(e)
    BY <1>1, <1>4, ExpiresSound
  <1>6. e \in Contexts /\ Aged(e.peers) /\ Poised(e) /\ e.state = "RECEIVING"
        /\ c.heard = e.heard
    BY <1>1, <1>4, <1>5 DEF Sound, Expires
  <1>7. \/ Rests(e, d)
        \/ /\ e.heard \in Frames /\ e.heard # None /\ ForMe(n, e.heard)
           /\ Takes(n, e, d, e.heard)
    BY <1>6, Receives
  <1>8. CASE Rests(e, d)
    <2>1. c.state \notin Sending
      BY <1>1 DEF Sending
    <2>2. Advances(n, c, d)
      BY <1>1, <1>4, <1>8, <2>1, RestsAdvance
    <2> QED BY <1>3, <2>2 DEF c
  <1>9. CASE /\ e.heard \in Frames /\ e.heard # None /\ ForMe(n, e.heard)
             /\ Takes(n, e, d, e.heard)
    <2>1. Receipt(n, c, d)
      BY <1>1, <1>4, <1>6, <1>9 DEF Receipt
    <2> QED BY <1>3, <2>1 DEF c
  <1> QED BY <1>7, <1>8, <1>9

LEMMA ProcessTransmitKind ==
    ASSUME Shapes, NEW n \in Node, ProcessTransmit(n)
    PROVE  \E d : Becomes(n, d) /\ Advances(n, link[n], d)
  <1> DEFINE c == link[n]
  <1>1. /\ Sound(c) /\ c \in Contexts
        /\ c.state \in {"TRANSMITTING", "SENDING_ACKNOWLEDGEMENT"}
    BY DEF Shapes, Sound, ProcessTransmit
  <1>2. PICK e \in Expired(c) : \E d \in Transmitted(n, e) : Becomes(n, d)
    BY DEF ProcessTransmit, Continues
  <1>3. PICK d \in Transmitted(n, e) : Becomes(n, d)
    BY <1>2
  <1> HIDE DEF c
  <1>4. Expires(c, e)
    BY <1>1, ExpiredOne
  <1>5. Sound(e) /\ e.state = c.state /\ Poised(e) /\ e \in Contexts
    BY <1>1, <1>4, ExpiresSound DEF Expires, Sound
  <1>6. Advances(n, c, d)
    <2>1. CASE c.state = "TRANSMITTING"
      <3>1. Carries(e)
        BY <1>5, <2>1, SoundCarries DEF Sending
      <3>2. Goes(n, e, d, Unconfirmed(e))
        BY <1>5, <2>1, <3>1, MessageTransmitted
      <3>3. "IDLE" \notin Unconfirmed(e)
            /\ ("SUCCEEDED" \in Unconfirmed(e) => ~e.tx.acked)
        BY DEF Unconfirmed
      <3> QED BY <1>1, <1>4, <3>1, <3>2, <3>3, GoesAdvance
    <2>2. CASE c.state = "SENDING_ACKNOWLEDGEMENT"
      <3>1. Rests(e, d)
        BY <1>5, <2>2, AcknowledgementTransmitted
      <3> QED BY <1>1, <1>4, <2>2, <3>1, RestsAdvance DEF Sending
    <2> QED BY <1>1, <2>1, <2>2
  <1> QED BY <1>3, <1>6 DEF c

LEMMA ProcessAckWaitKind ==
    ASSUME Shapes, NEW n \in Node, ProcessAckWait(n)
    PROVE  \E d : Becomes(n, d) /\ Advances(n, link[n], d)
  <1> DEFINE c == link[n]
  <1>1. Sound(c) /\ c \in Contexts /\ c.state = "WAITING_ACKNOWLEDGEMENT"
    BY DEF Shapes, Sound, ProcessAckWait
  <1>2. PICK e \in Expired(c) : \E d \in AckWaited(n, e) : Becomes(n, d)
    BY DEF ProcessAckWait, Continues
  <1>3. PICK d \in AckWaited(n, e) : Becomes(n, d)
    BY <1>2
  <1> HIDE DEF c
  <1>4. Expires(c, e)
    BY <1>1, ExpiredOne
  <1>5. Sound(e) /\ e.state = c.state /\ Poised(e)
    BY <1>1, <1>4, ExpiresSound DEF Expires, Sound
  <1>6. Carries(e)
    BY <1>1, <1>5, SoundCarries DEF Sending
  <1>7. \/ Goes(n, e, d, {"FAILED", "TIMED_OUT"})
        \/ /\ e.heard # None /\ AcknowledgementMatches(n, e, e.heard)
           /\ Goes(n, e, d, {"SUCCEEDED"})
    BY <1>1, <1>5, <1>6, AckWaitEnds
  <1>8. /\ "IDLE" \notin {"FAILED", "TIMED_OUT"} /\ "IDLE" \notin {"SUCCEEDED"}
        /\ "SUCCEEDED" \notin {"FAILED", "TIMED_OUT"}
    OBVIOUS
  <1>9. Advances(n, c, d)
    BY <1>1, <1>4, <1>6, <1>7, <1>8, GoesAdvance
  <1> QED BY <1>3, <1>9 DEF c

LEMMA ProcessRetryWaitKind ==
    ASSUME Shapes, NEW n \in Node, ProcessRetryWait(n)
    PROVE  \E d : Becomes(n, d) /\ Advances(n, link[n], d)
  <1> DEFINE c == link[n]
  <1>1. Sound(c) /\ c \in Contexts /\ c.state = "RETRY_WAIT"
    BY DEF Shapes, Sound, ProcessRetryWait
  <1>2. PICK e \in Expired(c) : \E d \in RetryWaited(n, e) : Becomes(n, d)
    BY DEF ProcessRetryWait, Continues
  <1>3. PICK d \in RetryWaited(n, e) : Becomes(n, d)
    BY <1>2
  <1> HIDE DEF c
  <1>4. Expires(c, e)
    BY <1>1, ExpiredOne
  <1>5. Sound(e) /\ e.state = c.state /\ Poised(e)
    BY <1>1, <1>4, ExpiresSound DEF Expires, Sound
  <1>6. Carries(e)
    BY <1>1, <1>5, SoundCarries DEF Sending
  <1>7. Goes(n, e, d, {"FAILED", "TIMED_OUT"})
    BY <1>1, <1>5, <1>6, RetryWaitEnds
  <1>8. /\ "IDLE" \notin {"FAILED", "TIMED_OUT"}
        /\ "SUCCEEDED" \notin {"FAILED", "TIMED_OUT"}
    OBVIOUS
  <1>9. Advances(n, c, d)
    BY <1>1, <1>4, <1>6, <1>7, <1>8, GoesAdvance
  <1> QED BY <1>3, <1>9 DEF c

LEMMA ProcessErrorKind ==
    ASSUME Shapes, NEW n \in Node, ProcessError(n)
    PROVE  \E d : Becomes(n, d) /\ Advances(n, link[n], d)
  <1> DEFINE c == link[n]
  <1>1. Sound(c) /\ c \in Contexts /\ c.state = "ERROR"
    BY DEF Shapes, Sound, ProcessError
  <1>2. PICK d \in Expired(c) : Becomes(n, d)
    BY DEF ProcessError, Continues
  <1> HIDE DEF c
  <1>3. Expires(c, d)
    BY <1>1, ExpiredOne
  <1>4. Sound(d)
    BY <1>1, <1>3, ExpiresSound
  <1>5. Advances(n, c, d)
    BY <1>3, <1>4 DEF Advances, Expires, Sound, SameSend
  <1> QED BY <1>2, <1>5 DEF c

LEMMA ReceiveKind ==
    ASSUME Shapes, NEW n \in Node, Receive(n)
    PROVE  \E d : Becomes(n, d) /\ Advances(n, link[n], d)
  <1> DEFINE c == link[n]
             d == [c EXCEPT !.rx = None]
  <1>1. Sound(c) /\ c \in Contexts /\ Becomes(n, d)
    BY DEF Shapes, Sound, Receive, Continues
  <1>2. /\ d \in Contexts /\ d.state = c.state /\ d.radio = c.radio
        /\ d.air = c.air /\ d.heard = c.heard /\ d.session = c.session
        /\ d.taken = c.taken /\ d.tx = c.tx /\ d.rx = None
        /\ d.peers = c.peers /\ d.asm = c.asm
    BY <1>1 DEF Contexts
  <1> HIDE DEF d
  <1>3. Bound(d) /\ Poised(d)
    BY <1>1, <1>2 DEF Sound, Bound, Poised
  <1>4. Advances(n, c, d)
    BY <1>2, <1>3 DEF Advances, SameSend
  <1> QED BY <1>1, <1>4

LEMMA CancelKind ==
    ASSUME Shapes, NEW n \in Node, Cancel(n)
    PROVE  \E d : Becomes(n, d) /\ Advances(n, link[n], d)
  <1> DEFINE c == link[n]
  <1>1. Sound(c) /\ c \in Contexts /\ c.tx.active
    BY DEF Shapes, Sound, Cancel
  <1>2. PICK d \in FinishSend(Stopped(c), "CANCELLED") \union StopFails(c) :
           Becomes(n, d)
    BY DEF Cancel, Continues
  <1> HIDE DEF c
  <1>3. CASE d \in StopFails(c)
    BY <1>1, <1>2, <1>3, StopFailsAdvance DEF c
  <1>4. CASE d \in FinishSend(Stopped(c), "CANCELLED")
    <2> DEFINE b == Quiet(c, "standby")
    <2>1. "standby" \in RadioStates /\ "CANCELLED" \in Results
      BY DEF RadioStates, Results
    <2>2. Carries(c)
      BY <1>1, SoundCarries
    <2>3. /\ Carries(b) /\ b.radio = "standby" /\ Same(c, b)
          /\ SameSend(c, b) /\ Quieter(c, b)
      BY <2>1, <2>2, QuietCarries
    <2>4. Ready(b) /\ d \in FinishSend(b, "CANCELLED")
      BY <1>4, <2>3 DEF Ready, Stopped
    <2> HIDE DEF b
    <2>5. Goes(n, b, d, {"CANCELLED"})
      BY <2>1, <2>3, <2>4, SendFinishes
    <2>6. Goes(n, c, d, {"CANCELLED"})
      BY <2>3, <2>5, GoesFrom
    <2>7. "IDLE" \notin {"CANCELLED"} /\ "SUCCEEDED" \notin {"CANCELLED"}
      OBVIOUS
    <2>8. Advances(n, c, d)
      BY <1>1, <2>2, <2>6, <2>7, SelfExpires, GoesAdvance
    <2> QED BY <1>2, <2>8 DEF c
  <1> QED BY <1>2, <1>3, <1>4

LEMMA DeadlineKind ==
    ASSUME Shapes, Airs, NEW n \in Node, Deadline(n)
    PROVE  \E d : Becomes(n, d) /\ Advances(n, link[n], d)
  <1> DEFINE c == link[n]
             d == [c EXCEPT !.late = TRUE]
  <1>1. Sound(c) /\ c \in Contexts /\ link' = [link EXCEPT ![n] = d]
    BY DEF Shapes, Sound, Deadline
  <1>2. /\ d \in Contexts /\ d.state = c.state /\ d.radio = c.radio
        /\ d.air = c.air /\ d.heard = c.heard /\ d.session = c.session
        /\ d.taken = c.taken /\ d.tx = c.tx /\ d.rx = c.rx
        /\ d.peers = c.peers /\ d.asm = c.asm
    BY <1>1 DEF Contexts
  <1>3. aired' = aired /\ delivered' = delivered
    BY DEF Deadline
  <1>4. c.air # None => c.air \in aired
    BY DEF Airs, OnAir
  <1> HIDE DEF d
  <1>5. Becomes(n, d)
    <2>1. aired = aired \union {f \in {d.air} : f # None}
      BY <1>2, <1>4
    <2>2. {x \in {d.rx} : x # None /\ link[n].rx = None} = {}
      BY <1>2
    <2> QED BY <1>1, <1>3, <2>1, <2>2 DEF Becomes
  <1>6. Bound(d) /\ Poised(d)
    BY <1>1, <1>2 DEF Sound, Bound, Poised
  <1>7. Advances(n, c, d)
    BY <1>2, <1>6 DEF Advances, SameSend
  <1> QED BY <1>5, <1>7

-----------------------------------------------------------------------------
(* The frames that are aired, and their numbers. *)

LEMMA FrameFields ==
    ASSUME NEW f \in Frames
    PROVE  /\ f.type \in {"data", "ack"} /\ f.source \in Node
           /\ f.session \in 1 .. MaxSessions /\ f.seq \in Sequences
           /\ Number(f.seq) \in Nat /\ f.index \in Nat /\ f.count \in Nat
  <1>1. /\ f.type \in {"data", "ack"} /\ f.source \in Node
        /\ f.session \in 1 .. MaxSessions /\ f.seq \in Sequences
        /\ f.index \in 0 .. MaxFragments - 1 \/ f.index = 0
        /\ f.count \in 1 .. MaxFragments \/ f.count = 1
    BY DEF Frames
  <1>2. f.index \in Nat /\ f.count \in Nat
    BY <1>1, NodesAssumption
  <1> QED BY <1>1, <1>2, SeqOfNumber

\* What an advance and a receipt have in common: the send stays the same
\* send, and a new frame is a fragment of it or has a new number.
Carried(n, c, d) ==
    /\ d \in Contexts /\ d.session = c.session /\ SameSend(c, d)
    /\ d.tx.result = "IDLE" <=> c.tx.result = "IDLE"
    /\ d.heard = None \/ d.heard = c.heard
    /\ d.tx.index < d.tx.count
    /\ \/ /\ d.taken = c.taken
          /\ \/ d.air = None \/ d.air = c.air
             \/ c.tx.result # "IDLE" /\ d.air = Fragment(n, c, d.tx.index)
       \/ /\ d.taken = c.taken + 1 /\ c.taken < MaxTakes
          /\ \/ d.air = None \/ d.air = c.air
             \/ /\ d.air.type = "ack" /\ d.air.source = n
                /\ d.air.session = c.session /\ d.air.seq = Seq(c.taken)
                /\ d.air.index = 0 /\ d.air.count = 1

LEMMA AdvancesCarries ==
    ASSUME NEW n, NEW c, NEW d, Advances(n, c, d)
    PROVE  Carried(n, c, d)
  BY DEF Advances, Carried, Bound

LEMMA ReceiptCarries ==
    ASSUME NEW n, NEW c, Sound(c), NEW d, Receipt(n, c, d)
    PROVE  Carried(n, c, d)
  <1>1. PICK e : Expires(c, e) /\ Takes(n, e, d, c.heard)
    BY DEF Receipt
  <1>2. /\ d \in Contexts /\ d.session = c.session /\ d.tx = c.tx
        /\ d.heard = None
    BY <1>1 DEF Takes, Expires
  <1>3. d.tx.index < d.tx.count
    BY <1>2 DEF Sound, Bound
  <1>4. \/ d.taken = c.taken /\ (d.air = None \/ d.air = c.air)
        \/ /\ d.taken = c.taken + 1 /\ c.taken < MaxTakes
           /\ \/ d.air = None
              \/ d.air = AckFrame(n, e, c.heard)
    BY <1>1 DEF Takes, Expires
  <1>5. d.air = AckFrame(n, e, c.heard) =>
           /\ d.air.type = "ack" /\ d.air.source = n
           /\ d.air.session = c.session /\ d.air.seq = Seq(c.taken)
           /\ d.air.index = 0 /\ d.air.count = 1
    BY <1>1 DEF AckFrame, Expires
  <1> QED BY <1>2, <1>3, <1>4, <1>5 DEF Carried, SameSend

LEMMA CountedNumber ==
    ASSUME NEW c \in Contexts, c.taken < MaxTakes
    PROVE  /\ c.taken \in Nat /\ c.taken + 1 <= MaxTakes
           /\ Seq(c.taken) \in Sequences /\ Number(Seq(c.taken)) = c.taken
  <1>1. c.taken \in 0 .. SeqMod - 1 /\ MaxTakes \in Nat
    BY SequenceAssumption DEF Contexts
  <1> QED BY <1>1, NumberOfSeq

LEMMA TakenNumber ==
    ASSUME NEW c, Sound(c)
    PROVE  /\ c.taken \in Nat /\ c.taken <= MaxTakes /\ MaxTakes \in Nat
           /\ c.tx.seq \in Sequences /\ Number(c.tx.seq) \in Nat
           /\ c.session \in Nat
  <1>1. /\ c.taken \in 0 .. MaxTakes /\ MaxTakes \in Nat
        /\ c.tx.seq \in Sequences /\ c.session \in Nat
    BY SequenceAssumption, NodesAssumption DEF Sound, Contexts, Transfers
  <1> QED BY <1>1, SeqOfNumber

LEMMA SameFragment ==
    ASSUME NEW n, NEW c, NEW d, SameSend(c, d), d.session = c.session, NEW i
    PROVE  Fragment(n, d, i) = Fragment(n, c, i)
  BY DEF Fragment, SameSend

\* The frames there were keep their numbers.
LEMMA OldFrame ==
    ASSUME NEW n, NEW c, Sound(c), NEW d, Carried(n, c, d),
           NEW f \in Frames, f.source = n, NumberIn(f, c)
    PROVE  NumberIn(f, d)
  <1>1. /\ d.session = c.session /\ d.tx.seq = c.tx.seq
        /\ d.tx.result = "IDLE" <=> c.tx.result = "IDLE"
        /\ d.taken = c.taken \/ d.taken = c.taken + 1
        /\ Fragment(n, d, f.index) = Fragment(n, c, f.index)
    BY SameFragment DEF Carried, SameSend
  <1>2. f.session = c.session => Number(f.seq) < d.taken
    BY <1>1, FrameFields, TakenNumber DEF NumberIn
  <1> QED BY <1>1, <1>2 DEF NumberIn

\* A new frame has a number of its own, or that of the send it is part of.
LEMMA NewFrame ==
    ASSUME NEW n, NEW c, Sound(c), NEW d, Carried(n, c, d),
           d.air # c.air, d.air # None
    PROVE  NumberIn(d.air, d)
  <1>1. /\ d.session = c.session /\ d.tx.seq = c.tx.seq
        /\ d.tx.result = "IDLE" <=> c.tx.result = "IDLE"
        /\ d.tx.count = c.tx.count /\ d.tx.index < d.tx.count
    BY DEF Carried, SameSend
  <1>2. /\ c \in Contexts /\ c.taken \in Nat /\ c.taken <= MaxTakes
        /\ MaxTakes \in Nat /\ c.session \in Nat
        /\ c.tx.seq \in Sequences /\ Number(c.tx.seq) \in Nat
        /\ c.tx.result # "IDLE" => Number(c.tx.seq) < c.taken
    BY TakenNumber DEF Sound
  <1>3. CASE /\ d.taken = c.taken /\ c.tx.result # "IDLE"
             /\ d.air = Fragment(n, c, d.tx.index)
    <2>1. d.air = Fragment(n, d, d.tx.index)
      BY <1>3, SameFragment DEF Carried
    <2>2. /\ d.air.source = n /\ d.air.index = d.tx.index
          /\ d.air.count = d.tx.count /\ d.air.session = d.session
          /\ d.air.seq = d.tx.seq
      BY <2>1 DEF Fragment
    <2> QED BY <1>1, <1>2, <1>3, <2>1, <2>2 DEF NumberIn
  <1>4. CASE /\ d.taken = c.taken + 1 /\ c.taken < MaxTakes
             /\ d.air.type = "ack" /\ d.air.source = n
             /\ d.air.session = c.session /\ d.air.seq = Seq(c.taken)
             /\ d.air.index = 0 /\ d.air.count = 1
    <2>1. Number(d.air.seq) = c.taken
      BY <1>2, <1>4, CountedNumber
    <2>2. d.tx.result # "IDLE" => d.air.seq # d.tx.seq
      BY <1>1, <1>2, <2>1
    <2> QED BY <1>1, <1>2, <1>4, <2>1, <2>2 DEF NumberIn
  <1> QED BY <1>3, <1>4 DEF Carried

\* Two frames of one number are alike when one of them is new.
LEMMA NewFrameAlone ==
    ASSUME NEW n, NEW c, Sound(c), NEW d, Carried(n, c, d),
           d.air # c.air, d.air # None,
           NEW f \in Frames, f.source = n, NumberIn(f, c),
           f.session = d.air.session, f.seq = d.air.seq
    PROVE  /\ f = [d.air EXCEPT !.index = f.index]
           /\ d.air = [f EXCEPT !.index = d.air.index]
  <1>1. /\ c \in Contexts /\ c.taken \in Nat /\ Number(f.seq) \in Nat
    BY TakenNumber, FrameFields DEF Sound
  <1>2. CASE /\ d.taken = c.taken /\ c.tx.result # "IDLE"
             /\ d.air = Fragment(n, c, d.tx.index)
    <2>1. d.air.session = c.session /\ d.air.seq = c.tx.seq
      BY <1>2 DEF Fragment
    <2>2. f = Fragment(n, c, f.index)
      BY <1>2, <2>1 DEF NumberIn
    <2> QED BY <1>2, <2>2 DEF Fragment
  <1>3. CASE /\ d.taken = c.taken + 1 /\ c.taken < MaxTakes
             /\ d.air.session = c.session /\ d.air.seq = Seq(c.taken)
    <2>1. Number(f.seq) = c.taken
      BY <1>1, <1>3, CountedNumber
    <2> QED BY <1>1, <1>3, <2>1 DEF NumberIn
  <1> QED BY <1>2, <1>3 DEF Carried

-----------------------------------------------------------------------------
(* One node's context changes: the invariant follows from what is shown of *)
(* that context.                                                           *)

\* The frames of n's context d come after those of c.
Framing(n, c, d) ==
    /\ d \in Contexts
    /\ d.heard = None \/ d.heard = c.heard
    /\ \A f \in Frames : f.source = n /\ NumberIn(f, c) => NumberIn(f, d)
    /\ d.air # None =>
          /\ d.air.source = n /\ d.air.session = d.session
          /\ d.air.type = "data" => d.air.seq = d.tx.seq
          /\ \/ d.air = c.air
             \/ /\ NumberIn(d.air, d)
                /\ \A f \in Frames :
                      /\ f.source = n /\ NumberIn(f, c)
                      /\ f.session = d.air.session /\ f.seq = d.air.seq
                      => /\ f = [d.air EXCEPT !.index = f.index]
                         /\ d.air = [f EXCEPT !.index = d.air.index]

\* What the invariant says of one node.
Local(n, d, frames, made) ==
    /\ Sound(d) /\ Collected(n, d.asm, frames) /\ Whole(n, d.rx, frames)
    /\ KnownBy(n, d.peers, frames, made) /\ InOrder(d) /\ Answered(d.tx, made)
    /\ d.air # None /\ d.air.type = "ack" =>
          Made(n, d.air.to, d.air.body[1], d.air.body[2], frames, made)

LEMMA BecomesOne ==
    ASSUME link \in [Node -> Contexts], NEW n \in Node, NEW d \in Contexts,
           Becomes(n, d)
    PROVE  /\ link' \in [Node -> Contexts] /\ link'[n] = d
           /\ \A m \in Node : m # n => link'[m] = link[m]
           /\ aired \subseteq aired' /\ delivered \subseteq delivered'
           /\ d.air # None => d.air \in aired'
           /\ \A f \in aired' : f \in aired \/ (f = d.air /\ d.air # None)
           /\ \A x \in delivered' :
                 x \in delivered \/ /\ d.rx # None /\ link[n].rx = None
                                    /\ x = <<n, d.session, d.rx.parts[0]>>
           /\ d.rx # None /\ link[n].rx = None =>
                 <<n, d.session, d.rx.parts[0]>> \in delivered'
  BY DEF Becomes

LEMMA MadeGrows ==
    ASSUME NEW n, NEW source, NEW session, NEW seq, NEW F, NEW G, NEW D, NEW E,
           Made(n, source, session, seq, F, D), F \subseteq G, D \subseteq E
    PROVE  Made(n, source, session, seq, G, E)
  BY DEF Made

LEMMA LocalGrows ==
    ASSUME NEW n, NEW d, NEW F, NEW G, NEW D, NEW E,
           F \subseteq G, D \subseteq E
    PROVE  /\ Collected(n, d.asm, F) => Collected(n, d.asm, G)
           /\ Whole(n, d.rx, F) => Whole(n, d.rx, G)
           /\ KnownBy(n, d.peers, F, D) => KnownBy(n, d.peers, G, E)
           /\ Answered(d.tx, D) => Answered(d.tx, E)
  <1>1. Collected(n, d.asm, F) => Collected(n, d.asm, G)
    BY DEF Collected, Gathered, Came
  <1>2. Whole(n, d.rx, F) => Whole(n, d.rx, G)
    BY DEF Whole
  <1>3. KnownBy(n, d.peers, F, D) => KnownBy(n, d.peers, G, E)
    BY DEF KnownBy, Made
  <1>4. Answered(d.tx, D) => Answered(d.tx, E)
    BY DEF Answered
  <1> QED BY <1>1, <1>2, <1>3, <1>4

LEMMA FramesStep ==
    ASSUME Shapes, Airs, Numbered, NumberOnce, NEW n \in Node, NEW d,
           Becomes(n, d), Framing(n, link[n], d)
    PROVE  aired' \subseteq Frames /\ Airs' /\ Numbered' /\ NumberOnce'
  <1> DEFINE c == link[n]
  <1>1. link \in [Node -> Contexts] /\ aired \subseteq Frames /\ d \in Contexts
    BY DEF Shapes, Framing
  <1>2. /\ link'[n] = d
        /\ \A m \in Node : m # n => link'[m] = link[m]
        /\ aired \subseteq aired'
        /\ d.air # None => d.air \in aired'
        /\ \A f \in aired' : f \in aired \/ (f = d.air /\ d.air # None)
    BY <1>1, BecomesOne
  <1>3. aired' \subseteq Frames
    BY <1>1, <1>2 DEF Contexts
  <1>4. ASSUME NEW m \in Node PROVE OnAir(m, link'[m], aired')
    <2>1. OnAir(m, link[m], aired)
      BY DEF Airs
    <2>2. CASE m # n
      BY <1>2, <2>1, <2>2 DEF OnAir
    <2>3. CASE m = n
      <3>1. d.heard \in aired' \union {Garbled, None}
        BY <1>2, <2>1, <2>3 DEF Framing, OnAir
      <3>2. d.air # None =>
               /\ d.air \in aired'
               /\ d.air.source = n /\ d.air.session = d.session
               /\ d.air.type = "data" => d.air.seq = d.tx.seq
        BY <1>2 DEF Framing
      <3> QED BY <1>2, <2>3, <3>1, <3>2 DEF OnAir
    <2> QED BY <2>2, <2>3
  <1>5. ASSUME NEW f \in aired' PROVE NumberIn(f, link'[f.source])
    <2>1. f \in Frames /\ f.source \in Node
      BY <1>3, FrameFields
    <2>2. CASE f \in aired
      <3>1. NumberIn(f, link[f.source])
        BY <2>2 DEF Numbered
      <3>2. CASE f.source # n
        BY <1>2, <2>1, <3>1, <3>2
      <3>3. CASE f.source = n
        BY <1>2, <2>1, <3>1, <3>3 DEF Framing
      <3> QED BY <3>2, <3>3
    <2>3. CASE f \notin aired
      <3>1. f = d.air /\ d.air # None /\ f.source = n
        BY <1>2, <2>3 DEF Framing
      <3>2. d.air # c.air
        BY <2>3, <3>1 DEF Airs, OnAir
      <3>3. NumberIn(d.air, d)
        BY <3>1, <3>2 DEF Framing
      <3> QED BY <1>2, <3>1, <3>3
    <2> QED BY <2>2, <2>3
  <1>6. ASSUME NEW f \in aired', NEW g \in aired',
               f.source = g.source, f.session = g.session, f.seq = g.seq
        PROVE  f = [g EXCEPT !.index = f.index]
    <2>1. f \in Frames /\ g \in Frames
      BY <1>3
    <2>2. CASE f \in aired /\ g \in aired
      BY <1>6, <2>2 DEF NumberOnce
    <2>3. ASSUME d.air # None, d.air \notin aired, NEW h \in aired,
                 h.source = d.air.source, h.session = d.air.session,
                 h.seq = d.air.seq
          PROVE  /\ h = [d.air EXCEPT !.index = h.index]
                 /\ d.air = [h EXCEPT !.index = d.air.index]
      <3>1. d.air # c.air /\ h.source = n
        BY <2>3 DEF Airs, OnAir, Framing
      <3>2. h \in Frames /\ NumberIn(h, c)
        BY <1>1, <3>1 DEF Numbered
      <3> QED BY <2>3, <3>1, <3>2 DEF Framing
    <2>4. CASE f \in aired /\ g \notin aired
      BY <1>2, <1>6, <2>3, <2>4
    <2>5. CASE f \notin aired /\ g \in aired
      <3>1. f = d.air /\ d.air # None
        BY <1>2, <2>5
      <3> QED BY <1>6, <2>3, <2>5, <3>1
    <2>6. CASE f \notin aired /\ g \notin aired
      <3>1. f = g
        BY <1>2, <2>6
      <3> QED BY <2>1, <3>1 DEF Frames
    <2> QED BY <2>2, <2>4, <2>5, <2>6
  <1>7. Airs'
    BY <1>4 DEF Airs
  <1>8. Numbered'
    BY <1>5 DEF Numbered
  <1>9. NumberOnce'
    BY <1>6 DEF NumberOnce
  <1> QED BY <1>3, <1>7, <1>8, <1>9

\* Every step that changes one context keeps the invariant.
LEMMA NodeStep ==
    ASSUME Inv, NEW n \in Node, NEW d, Becomes(n, d),
           Framing(n, link[n], d), Local(n, d, aired', delivered'),
           sent' \in [Node -> Nat]
    PROVE  Inv'
  <1>1. /\ Shapes /\ Airs /\ Numbered /\ NumberOnce /\ Assembled
        /\ WholeMessages /\ Confirmed /\ Known /\ HeardInOrder
        /\ AckMeansDelivered
    BY DEF Inv
  <1>2. aired' \subseteq Frames /\ Airs' /\ Numbered' /\ NumberOnce'
    BY <1>1, FramesStep
  <1>3. link \in [Node -> Contexts] /\ d \in Contexts
    BY <1>1 DEF Shapes, Framing
  <1>4. /\ link' \in [Node -> Contexts] /\ link'[n] = d
        /\ \A m \in Node : m # n => link'[m] = link[m]
        /\ aired \subseteq aired' /\ delivered \subseteq delivered'
        /\ \A f \in aired' : f \in aired \/ (f = d.air /\ d.air # None)
        /\ \A x \in delivered' :
              x \in delivered \/ /\ d.rx # None
                                 /\ x = <<n, d.session, d.rx.parts[0]>>
    <2>1. /\ link' \in [Node -> Contexts] /\ link'[n] = d
          /\ \A m \in Node : m # n => link'[m] = link[m]
          /\ aired \subseteq aired' /\ delivered \subseteq delivered'
          /\ d.air # None => d.air \in aired'
          /\ \A f \in aired' : f \in aired \/ (f = d.air /\ d.air # None)
          /\ \A x \in delivered' :
                x \in delivered \/ /\ d.rx # None /\ link[n].rx = None
                                   /\ x = <<n, d.session, d.rx.parts[0]>>
          /\ d.rx # None /\ link[n].rx = None =>
                <<n, d.session, d.rx.parts[0]>> \in delivered'
      BY <1>3, BecomesOne
    <2> QED BY <2>1
  <1>5. ASSUME NEW m \in Node
        PROVE  /\ Sound(link'[m]) /\ Collected(m, link'[m].asm, aired')
               /\ Whole(m, link'[m].rx, aired')
               /\ KnownBy(m, link'[m].peers, aired', delivered')
               /\ InOrder(link'[m]) /\ Answered(link'[m].tx, delivered')
    <2>1. CASE m = n
      BY <1>4, <2>1 DEF Local
    <2>2. CASE m # n
      <3>1. /\ Sound(link[m]) /\ Collected(m, link[m].asm, aired)
            /\ InOrder(link[m])
        BY <1>1 DEF Shapes, Assembled, HeardInOrder
      <3>2. Whole(m, link[m].rx, aired)
        BY <1>1 DEF WholeMessages, Whole
      <3>3. KnownBy(m, link[m].peers, aired, delivered)
        BY <1>1 DEF Known
      <3>4. Answered(link[m].tx, delivered)
        BY <1>1 DEF AckMeansDelivered, Answered
      <3>5. /\ Collected(m, link[m].asm, aired')
            /\ Whole(m, link[m].rx, aired')
            /\ KnownBy(m, link[m].peers, aired', delivered')
            /\ Answered(link[m].tx, delivered')
        BY <1>4, <3>1, <3>2, <3>3, <3>4, LocalGrows
      <3> QED BY <1>4, <2>2, <3>1, <3>5
    <2> QED BY <2>1, <2>2
  <1>6. delivered' \subseteq Node \X (1 .. MaxSessions) \X Messages
    <2> SUFFICES ASSUME NEW x \in delivered'
                 PROVE  x \in Node \X (1 .. MaxSessions) \X Messages
      OBVIOUS
    <2>1. CASE x \in delivered
      BY <1>1, <2>1 DEF Shapes
    <2>2. CASE x \notin delivered
      <3>1. d.rx # None /\ x = <<n, d.session, d.rx.parts[0]>>
        BY <1>4, <2>2
      <3>2. PICK f \in aired' : /\ f.type = "data"
                                /\ DOMAIN d.rx.parts = 0 .. f.count - 1
                                /\ \A i \in DOMAIN d.rx.parts :
                                      d.rx.parts[i] = f.body
        BY <3>1 DEF Local, Whole
      <3>3. f.count \in 1 .. MaxFragments /\ f.body \in Messages
        BY <1>2, <3>2, DataFields
      <3>4. d.rx.parts[0] = f.body
        BY SMTT(30), <3>2, <3>3, NodesAssumption
      <3>5. d.session \in 1 .. MaxSessions
        BY <1>3 DEF Contexts
      <3> QED BY <3>1, <3>3, <3>4, <3>5
    <2> QED BY <2>1, <2>2
  <1>7. Confirmed'
    <2> SUFFICES ASSUME NEW f \in aired', f.type = "ack"
                 PROVE  Made(f.source, f.to, f.body[1], f.body[2],
                             aired', delivered')
      BY DEF Confirmed
    <2>1. CASE f \in aired
      <3>1. Made(f.source, f.to, f.body[1], f.body[2], aired, delivered)
        BY <1>1, <2>1 DEF Confirmed
      <3> QED BY <1>4, <3>1, MadeGrows
    <2>2. CASE f \notin aired
      <3>1. f = d.air /\ d.air # None /\ f.source = n
        BY <1>4, <2>2 DEF Framing
      <3> QED BY <3>1 DEF Local
    <2> QED BY <2>1, <2>2
  <1>8. Shapes'
    BY <1>2, <1>4, <1>5, <1>6 DEF Shapes
  <1>9. Assembled' /\ Known' /\ HeardInOrder'
    BY <1>5 DEF Assembled, Known, HeardInOrder
  <1>10. WholeMessages'
    BY <1>5 DEF WholeMessages, Whole
  <1>11. AckMeansDelivered'
    BY <1>5 DEF AckMeansDelivered, Answered
  <1> QED BY <1>2, <1>7, <1>8, <1>9, <1>10, <1>11 DEF Inv

-----------------------------------------------------------------------------
(* An advance keeps the invariant. *)

LEMMA CarriedFraming ==
    ASSUME NEW n \in Node, NEW c, Sound(c), NEW frames, OnAir(n, c, frames),
           NEW d, Carried(n, c, d)
    PROVE  Framing(n, c, d)
  <1>1. /\ d \in Contexts /\ d.session = c.session /\ d.tx.seq = c.tx.seq
        /\ d.heard = None \/ d.heard = c.heard
    BY DEF Carried, SameSend
  <1>2. \A f \in Frames : f.source = n /\ NumberIn(f, c) => NumberIn(f, d)
    BY OldFrame
  <1>3. d.air # None =>
           /\ d.air.source = n /\ d.air.session = d.session
           /\ d.air.type = "data" => d.air.seq = d.tx.seq
    <2> SUFFICES ASSUME d.air # None
                 PROVE  /\ d.air.source = n /\ d.air.session = d.session
                        /\ d.air.type = "data" => d.air.seq = d.tx.seq
      OBVIOUS
    <2>1. CASE d.air = c.air
      BY <1>1, <2>1 DEF OnAir
    <2>2. CASE d.air = Fragment(n, c, d.tx.index)
      BY <1>1, <2>2 DEF Fragment
    <2>3. CASE d.air.type = "ack" /\ d.air.source = n
               /\ d.air.session = c.session
      BY <1>1, <2>3
    <2> QED BY <2>1, <2>2, <2>3 DEF Carried
  <1>4. d.air # None /\ d.air # c.air =>
           /\ NumberIn(d.air, d)
           /\ \A f \in Frames :
                 /\ f.source = n /\ NumberIn(f, c)
                 /\ f.session = d.air.session /\ f.seq = d.air.seq
                 => /\ f = [d.air EXCEPT !.index = f.index]
                    /\ d.air = [f EXCEPT !.index = d.air.index]
    BY NewFrame, NewFrameAlone
  <1> QED BY <1>1, <1>2, <1>3, <1>4 DEF Framing

\* What the invariant says of a node, and of what it sees.
LEMMA InvLocal ==
    ASSUME Inv, NEW n \in Node
    PROVE  /\ link[n] \in Contexts /\ Sound(link[n]) /\ OnAir(n, link[n], aired)
           /\ Collected(n, link[n].asm, aired) /\ Whole(n, link[n].rx, aired)
           /\ KnownBy(n, link[n].peers, aired, delivered)
           /\ InOrder(link[n]) /\ Answered(link[n].tx, delivered)
           /\ link \in [Node -> Contexts] /\ aired \subseteq Frames
  <1>1. /\ link[n] \in Contexts /\ Sound(link[n]) /\ OnAir(n, link[n], aired)
        /\ Collected(n, link[n].asm, aired)
        /\ KnownBy(n, link[n].peers, aired, delivered) /\ InOrder(link[n])
        /\ link \in [Node -> Contexts] /\ aired \subseteq Frames
    BY DEF Inv, Shapes, Airs, Assembled, Known, HeardInOrder
  <1>2. Whole(n, link[n].rx, aired)
    BY DEF Inv, WholeMessages, Whole
  <1>3. Answered(link[n].tx, delivered)
    BY DEF Inv, AckMeansDelivered, Answered
  <1> QED BY <1>1, <1>2, <1>3

\* The acknowledgement a send waits for answers its message.
LEMMA MatchedIsDelivered ==
    ASSUME Inv, NEW n \in Node, link[n].heard # None,
           AcknowledgementMatches(n, link[n], link[n].heard),
           link[n].tx.result # "IDLE"
    PROVE  \E s \in 1 .. MaxSessions :
              <<link[n].tx.to, s, link[n].tx.msg>> \in delivered
  <1> DEFINE c == link[n]
             f == c.heard
  <1>1. /\ f \in aired /\ f.type = "ack" /\ f.source = c.tx.to /\ f.to = n
        /\ f.body[1] = c.session /\ f.body[2] = c.tx.seq
    BY InvLocal DEF OnAir, AcknowledgementMatches
  <1>2. Made(c.tx.to, n, c.session, c.tx.seq, aired, delivered)
    BY <1>1 DEF Inv, Confirmed
  <1>3. PICK g \in aired : /\ g.type = "data" /\ g.source = n
                           /\ g.session = c.session /\ g.seq = c.tx.seq
                           /\ \E s \in 1 .. MaxSessions :
                                 <<c.tx.to, s, g.body>> \in delivered
    BY <1>2 DEF Made
  <1>4. NumberIn(g, c)
    BY <1>3 DEF Inv, Numbered
  <1>5. g = Fragment(n, c, g.index)
    BY <1>3, <1>4 DEF NumberIn
  <1>6. g.body = c.tx.msg
    BY <1>5 DEF Fragment
  <1> QED BY <1>3, <1>6

LEMMA AdvanceStep ==
    ASSUME Inv, NEW n \in Node, NEW d, Becomes(n, d),
           Advances(n, link[n], d), sent' \in [Node -> Nat]
    PROVE  Inv'
  <1> DEFINE c == link[n]
  <1>1. /\ c \in Contexts /\ Sound(c) /\ OnAir(n, c, aired)
        /\ Collected(n, c.asm, aired) /\ Whole(n, c.rx, aired)
        /\ KnownBy(n, c.peers, aired, delivered)
        /\ InOrder(c) /\ Answered(c.tx, delivered)
        /\ link \in [Node -> Contexts]
    BY InvLocal
  <1>2. Framing(n, c, d)
    BY <1>1, AdvancesCarries, CarriedFraming
  <1>3. d \in Contexts /\ aired \subseteq aired' /\ delivered \subseteq delivered'
    BY <1>1, BecomesOne DEF Advances
  <1>4. Sound(d)
    BY <1>1 DEF Advances, Sound, SameSend
  <1>5. Collected(n, d.asm, aired') /\ Whole(n, d.rx, aired')
    <2>1. Collected(n, c.asm, aired') /\ Whole(n, c.rx, aired')
      BY <1>1, <1>3, LocalGrows
    <2>2. Collected(n, None, aired') /\ Whole(n, None, aired')
      BY DEF Collected, Whole
    <2> QED BY <2>1, <2>2 DEF Advances
  <1>6. KnownBy(n, d.peers, aired', delivered')
    BY <1>1, <1>3, LocalGrows DEF Advances
  <1>7. InOrder(d)
    BY <1>1 DEF Advances, InOrder
  <1>8. Answered(d.tx, delivered')
    <2> SUFFICES ASSUME d.tx.acked, d.tx.result = "SUCCEEDED"
                 PROVE  \E s \in 1 .. MaxSessions :
                           <<d.tx.to, s, d.tx.msg>> \in delivered'
      BY DEF Answered
    <2>1. /\ c.tx.acked /\ c.tx.result # "IDLE" /\ d.tx.to = c.tx.to
          /\ d.tx.msg = c.tx.msg
      BY DEF Advances, SameSend
    <2>2. \E s \in 1 .. MaxSessions : <<c.tx.to, s, c.tx.msg>> \in delivered
      <3>1. CASE c.tx.result = "SUCCEEDED"
        BY <1>1, <2>1, <3>1 DEF Answered
      <3>2. CASE c.heard # None /\ AcknowledgementMatches(n, c, c.heard)
        BY <2>1, <3>2, MatchedIsDelivered
      <3> QED BY <3>1, <3>2 DEF Advances
    <2> QED BY <1>3, <2>1, <2>2
  <1>9. d.air # None /\ d.air.type = "ack" =>
           Made(n, d.air.to, d.air.body[1], d.air.body[2], aired', delivered')
    <2> SUFFICES ASSUME d.air # None, d.air.type = "ack"
                 PROVE  Made(n, d.air.to, d.air.body[1], d.air.body[2],
                             aired', delivered')
      OBVIOUS
    <2>1. d.air = c.air
      BY DEF Advances, Fragment
    <2>2. c.air \in aired /\ c.air.source = n
      BY <1>1, <2>1 DEF OnAir
    <2>3. Made(n, d.air.to, d.air.body[1], d.air.body[2], aired, delivered)
      BY <2>1, <2>2 DEF Inv, Confirmed
    <2> QED BY <1>3, <2>3, MadeGrows
  <1>10. Local(n, d, aired', delivered')
    BY <1>4, <1>5, <1>6, <1>7, <1>8, <1>9 DEF Local
  <1> QED BY <1>2, <1>10, NodeStep

-----------------------------------------------------------------------------
(* A receipt keeps the invariant. *)

\* A frame that is not newer than its window is the newest of it, and no older.
LEMMA ReadIsNewest ==
    ASSUME Inv, NEW n \in Node, NEW f \in aired, f.type = "data",
           f = link[n].heard, f # None, f # Garbled,
           FrameKey(f) \in DOMAIN link[n].peers,
           ~Newer(f.seq, link[n].peers[FrameKey(f)].newest)
    PROVE  link[n].peers[FrameKey(f)].newest = f.seq
  <1> DEFINE c == link[n]
             q == c.peers[FrameKey(f)].newest
  <1>1. /\ c \in Contexts /\ InOrder(c) /\ KnownBy(n, c.peers, aired, delivered)
        /\ aired \subseteq Frames
    BY InvLocal
  <1>2. Number(q) <= Number(f.seq)
    BY <1>1 DEF InOrder
  <1>3. Made(n, f.source, f.session, q, aired, delivered)
    BY <1>1 DEF KnownBy, FrameKey
  <1>4. PICK g \in aired : g.seq = q
    BY <1>3 DEF Made
  <1>5. Number(q) < MaxTakes /\ Number(f.seq) < MaxTakes
    BY <1>4 DEF Inv, Numbered, NumberIn
  <1>6. /\ q \in Sequences /\ f.seq \in Sequences
        /\ Number(q) \in Nat /\ Number(f.seq) \in Nat
    BY <1>1, <1>4, FrameFields
  <1>7. ~(Number(f.seq) > Number(q))
    BY <1>5, <1>6, NewerIsLater
  <1> QED BY <1>2, <1>6, <1>7, SameNumber

\* A repetition is of the newest message of its source, which was made readable.
LEMMA RepeatedIsNewest ==
    ASSUME Inv, NEW n \in Node, NEW f \in aired, f.type = "data",
           f = link[n].heard, f # None, f # Garbled,
           Seen(link[n].peers, FrameKey(f), f.seq)
    PROVE  Made(n, f.source, f.session, f.seq, aired, delivered)
  <1> DEFINE c == link[n]
  <1>1. KnownBy(n, c.peers, aired, delivered)
    BY InvLocal
  <1>2. /\ FrameKey(f) \in DOMAIN c.peers
        /\ ~Newer(f.seq, c.peers[FrameKey(f)].newest)
    BY DEF Seen
  <1>3. c.peers[FrameKey(f)].newest = f.seq
    BY <1>2, ReadIsNewest
  <1> QED BY <1>1, <1>2, <1>3 DEF KnownBy, FrameKey

\* A fragment that is put into its reassembly was aired, like the others.
LEMMA PartCollected ==
    ASSUME NEW n \in Node, NEW c \in Contexts, NEW frames \in SUBSET Frames,
           Collected(n, c.asm, frames), NEW f \in frames, f.type = "data",
           f.to \in {n, Broadcast}, f.index < f.count
    PROVE  /\ Gathered(n, Opened(f), frames)
           /\ Gathered(n, WithPart(Held(c, f), f), frames)
  <1> DEFINE a == Held(c, f)
             w == WithPart(a, f)
  <1>1. f \in Frames /\ f.index \in Nat /\ f.count \in Nat
    BY FrameFields
  <1>2. /\ Fits(Opened(f), f) /\ DOMAIN Opened(f).parts = {}
    BY <1>1, OpenedFits
  <1>3. Gathered(n, Opened(f), frames)
    BY <1>2 DEF Gathered, Fits
  <1>4. /\ Fits(a, f)
        /\ \/ a = c.asm /\ c.asm # None
           \/ a = Opened(f)
    BY <1>1, HeldFits
  <1>5. /\ Fits(w, f) /\ DOMAIN w.parts = DOMAIN a.parts \union {f.index}
        /\ w.parts[f.index] = f.body
        /\ \A i \in DOMAIN a.parts \ {f.index} : w.parts[i] = a.parts[i]
    BY <1>1, <1>4, PartFits
  <1>6. /\ DOMAIN a.parts \subseteq 0 .. f.count - 1
        /\ \A i \in DOMAIN a.parts : Came(a, i, a.parts[i], frames)
    <2>1. CASE a = c.asm /\ c.asm # None
      BY <1>4, <2>1 DEF Collected, Gathered, Fits
    <2>2. CASE a = Opened(f)
      BY <1>2, <2>2
    <2> QED BY <1>4, <2>1, <2>2
  <1> HIDE DEF a, w
  <1>7. DOMAIN w.parts \subseteq 0 .. w.count - 1
    BY <1>1, <1>5, <1>6 DEF Fits
  <1>8. w.to \in {n, Broadcast}
    BY <1>5 DEF Fits
  <1>9. ASSUME NEW i \in DOMAIN w.parts
         PROVE  Came(w, i, w.parts[i], frames)
    <2>1. CASE i = f.index
      BY <1>5, <2>1 DEF Came, Fits
    <2>2. CASE i # f.index
      <3>1. Came(a, i, a.parts[i], frames) /\ w.parts[i] = a.parts[i]
        BY <1>5, <1>6, <2>2
      <3> QED BY <1>4, <1>5, <3>1 DEF Came, Fits
    <2> QED BY <2>1, <2>2
  <1>10. Gathered(n, w, frames)
    BY <1>7, <1>8, <1>9 DEF Gathered
  <1> QED BY <1>3, <1>10 DEF a, w

\* What a receipt made of a frame that was received before, or completed its
\* message: the message was made readable.
LEMMA ReceiptMakes ==
    ASSUME Inv, NEW n \in Node, NEW d \in Contexts, Becomes(n, d),
           NEW f \in aired, f.type = "data", f = link[n].heard,
           f # None, f # Garbled, f.to \in {n, Broadcast},
           NEW e, Expires(link[n], e),
           Repeats(e, d, f) \/ (Reads(e, d, f) /\ d.session = link[n].session)
    PROVE  /\ Made(n, f.source, f.session, f.seq, aired', delivered')
           /\ Whole(n, d.rx, aired')
  <1> DEFINE c == link[n]
             w == WithPart(Held(e, f), f)
  <1>1. /\ c \in Contexts /\ Collected(n, c.asm, aired)
        /\ Whole(n, c.rx, aired) /\ aired \subseteq Frames
        /\ link \in [Node -> Contexts]
    BY InvLocal
  <1>2. /\ e \in Contexts /\ e.peers = c.peers /\ e.rx = c.rx
        /\ Collected(n, e.asm, aired)
    BY <1>1 DEF Expires, Collected
  <1>3. /\ aired \subseteq aired' /\ delivered \subseteq delivered'
        /\ d.rx # None /\ c.rx = None =>
              <<n, d.session, d.rx.parts[0]>> \in delivered'
    BY <1>1, BecomesOne
  <1>4. CASE Repeats(e, d, f)
    <2>1. Made(n, f.source, f.session, f.seq, aired, delivered)
      BY <1>2, <1>4, RepeatedIsNewest DEF Repeats
    <2>2. Whole(n, d.rx, aired)
      BY <1>1, <1>2, <1>4 DEF Repeats
    <2>3. Whole(n, d.rx, aired')
      BY <1>3, <2>2 DEF Whole
    <2> QED BY <1>3, <2>1, <2>3, MadeGrows
  <1>5. CASE Reads(e, d, f) /\ d.session = c.session
    <2>1. f \in Frames /\ f.index < f.count /\ f.count \in 1 .. MaxFragments
          /\ f.source \in Node /\ f.session \in 1 .. MaxSessions
          /\ f.seq \in Sequences
      BY <1>1, DataFields DEF Inv, Numbered, NumberIn
    <2>2. Gathered(n, w, aired) /\ Fits(w, f)
      BY <1>1, <1>2, <2>1, PartCollected, HeldFits, PartFits
    <2>3. Complete(w) /\ w \in Assemblies
      BY <1>5, <2>2 DEF Reads, Fits
    <2>4. /\ w.source = f.source /\ w.session = f.session /\ w.seq = f.seq
          /\ w.count = f.count /\ w.to = f.to
      BY <2>2 DEF Fits
    <2>5. d.rx = [source |-> w.source, session |-> w.session, seq |-> w.seq,
                  parts |-> w.parts]
          /\ c.rx = None
      BY <1>2, <1>5 DEF Reads
    <2> HIDE DEF w
    <2>6. d.rx # None
      <3>1. PICK S \in SUBSET (0 .. MaxFragments - 1) :
               w.parts \in [S -> Messages]
        BY <2>3 DEF Assemblies, Parts
      <3>2. d.rx \in [source : Node, session : 1 .. MaxSessions,
                      seq : Sequences, parts : [S -> Messages]]
        BY <2>1, <2>4, <2>5, <3>1
      <3> QED BY <3>1, <3>2, NoneIsNoMessage
    <2>7. DOMAIN w.parts = 0 .. f.count - 1 /\ 0 \in DOMAIN w.parts
      BY <2>1, <2>3, <2>4, NodesAssumption DEF Complete
    <2>8. \A i \in DOMAIN w.parts : w.parts[i] = f.body
      <3> SUFFICES ASSUME NEW i \in DOMAIN w.parts
                   PROVE  w.parts[i] = f.body
        OBVIOUS
      <3>1. Came(w, i, w.parts[i], aired)
        BY <2>2 DEF Gathered
      <3>2. PICK g \in aired : /\ g.source = w.source
                               /\ g.session = w.session /\ g.seq = w.seq
                               /\ g.body = w.parts[i]
        BY <3>1 DEF Came
      <3>3. g = [f EXCEPT !.index = g.index]
        BY <2>4, <3>2 DEF Inv, NumberOnce
      <3>4. g.body = f.body
        BY <2>1, <3>3 DEF Frames
      <3> QED BY <3>2, <3>4
    <2>9. <<n, d.session, f.body>> \in delivered'
      BY <1>3, <2>5, <2>6, <2>7, <2>8
    <2>10. Made(n, f.source, f.session, f.seq, aired', delivered')
      <3>1. d.session \in 1 .. MaxSessions /\ f \in aired'
        BY <1>3 DEF Contexts
      <3> QED BY <2>9, <3>1 DEF Made
    <2>11. Whole(n, d.rx, aired')
      <3>1. /\ d.rx.source = f.source /\ d.rx.session = f.session
            /\ d.rx.seq = f.seq /\ d.rx.parts = w.parts
        BY <2>4, <2>5
      <3>2. f \in aired' /\ f.type = "data" /\ f.to \in {n, Broadcast}
        BY <1>3
      <3>3. /\ DOMAIN d.rx.parts = 0 .. f.count - 1
            /\ \A i \in DOMAIN d.rx.parts : d.rx.parts[i] = f.body
        BY <2>7, <2>8, <3>1
      <3> QED BY <3>1, <3>2, <3>3 DEF Whole
    <2> QED BY <2>10, <2>11
  <1> QED BY <1>4, <1>5

LEMMA ReceiptStep ==
    ASSUME Inv, NEW n \in Node, NEW d, Becomes(n, d),
           Receipt(n, link[n], d), sent' \in [Node -> Nat]
    PROVE  Inv'
  <1> DEFINE c == link[n]
             f == c.heard
             key == FrameKey(f)
  <1>1. /\ c \in Contexts /\ Sound(c) /\ OnAir(n, c, aired)
        /\ Collected(n, c.asm, aired) /\ Whole(n, c.rx, aired)
        /\ KnownBy(n, c.peers, aired, delivered)
        /\ InOrder(c) /\ Answered(c.tx, delivered)
        /\ link \in [Node -> Contexts] /\ aired \subseteq Frames
    BY InvLocal
  <1>2. PICK e : /\ Expires(c, e) /\ c.state = "RECEIVING"
                 /\ f \in Frames /\ f # None /\ ForMe(n, f)
                 /\ Takes(n, e, d, f)
    BY DEF Receipt
  <1>3. /\ f \in aired /\ f # Garbled /\ f.type = "data"
        /\ f.to \in {n, Broadcast}
    BY <1>1, <1>2 DEF OnAir, ForMe
  <1>4. f.index < f.count
    BY <1>3 DEF Inv, Numbered, NumberIn
  <1>5. /\ d \in Contexts /\ Aged(d.peers) /\ d.tx = c.tx
        /\ d.session = c.session /\ d.heard = None
        /\ d.state \notin Sending /\ Poised(d)
        /\ d.taken = c.taken \/ d.taken = c.taken + 1
    BY <1>2 DEF Takes, Expires
  <1>6. /\ e \in Contexts /\ e.peers = c.peers /\ e.rx = c.rx
        /\ Collected(n, e.asm, aired)
    BY <1>1, <1>2 DEF Expires, Collected
  <1>7. Framing(n, c, d)
    BY <1>1, ReceiptCarries, CarriedFraming
  <1>8. /\ aired \subseteq aired' /\ delivered \subseteq delivered'
    BY <1>1, <1>5, BecomesOne
  <1>9. Repeats(e, d, f) \/ Reads(e, d, f) =>
           /\ Made(n, f.source, f.session, f.seq, aired', delivered')
           /\ Whole(n, d.rx, aired')
    BY <1>2, <1>3, <1>5, ReceiptMakes
  <1>10. Sound(d)
    <2>1. ~c.tx.active
      BY <1>1, <1>2 DEF Sound, Bound, Sending
    <2>2. Bound(d)
      BY <1>1, <1>5, <2>1 DEF Sound, Bound
    <2>3. d.tx.result # "IDLE" => Number(d.tx.seq) < d.taken
      BY <1>1, <1>5, TakenNumber DEF Sound
    <2> QED BY <1>5, <2>2, <2>3 DEF Sound
  <1>11. Collected(n, d.asm, aired')
    <2>1. Gathered(n, Opened(f), aired)
          /\ Gathered(n, WithPart(Held(e, f), f), aired)
      BY <1>1, <1>3, <1>4, <1>6, PartCollected
    <2>2. Collected(n, d.asm, aired)
      <3>1. CASE Repeats(e, d, f)
        BY <1>6, <3>1 DEF Repeats
      <3>2. CASE Collects(e, d, f)
        BY <1>6, <2>1, <3>2 DEF Collects, Collected
      <3>3. CASE Reads(e, d, f)
        BY <3>3 DEF Reads, Collected
      <3> QED BY <1>2, <3>1, <3>2, <3>3 DEF Takes
    <2> QED BY <1>8, <2>2, LocalGrows
  <1>12. Whole(n, d.rx, aired')
    <2>1. CASE Collects(e, d, f)
      <3>1. d.rx = c.rx
        BY <1>6, <2>1 DEF Collects
      <3> QED BY <1>1, <1>8, <3>1 DEF Whole
    <2> QED BY <1>2, <1>9, <2>1 DEF Takes
  <1>13. KnownBy(n, d.peers, aired', delivered')
    <2>1. KnownBy(n, c.peers, aired', delivered')
      BY <1>1, <1>8, LocalGrows
    <2>2. CASE Repeats(e, d, f)
      BY <1>6, <2>1, <2>2 DEF Repeats, KnownBy
    <2>3. CASE Collects(e, d, f)
      BY <1>6, <2>1, <2>3 DEF Collects
    <2>4. CASE Reads(e, d, f)
      <3> SUFFICES ASSUME NEW k \in DOMAIN d.peers
                   PROVE  Made(n, k[1], k[2], d.peers[k].newest,
                               aired', delivered')
        BY DEF KnownBy
      <3>1. CASE k # key
        <4>1. k \in DOMAIN c.peers /\ d.peers[k].newest = c.peers[k].newest
          BY <1>6, <2>4, <3>1 DEF Reads
        <4> QED BY <2>1, <4>1 DEF KnownBy
      <3>2. CASE k = key
        <4>1. k[1] = f.source /\ k[2] = f.session
          BY <3>2 DEF FrameKey
        <4>2. \/ d.peers[k].newest = f.seq
              \/ /\ k \in DOMAIN c.peers
                 /\ d.peers[k].newest = c.peers[k].newest
          BY <1>6, <2>4, <3>2 DEF Reads
        <4>3. CASE d.peers[k].newest = f.seq
          BY <1>9, <2>4, <4>1, <4>3
        <4>4. CASE /\ k \in DOMAIN c.peers
                   /\ d.peers[k].newest = c.peers[k].newest
          BY <2>1, <4>4 DEF KnownBy
        <4> QED BY <4>2, <4>3, <4>4
      <3> QED BY <3>1, <3>2
    <2> QED BY <1>2, <2>2, <2>3, <2>4 DEF Takes
  <1>14. InOrder(d) /\ Answered(d.tx, delivered')
    <2>1. Answered(c.tx, delivered')
      BY <1>1, <1>8, LocalGrows
    <2> QED BY <1>5, <2>1 DEF InOrder
  <1>15. d.air # None /\ d.air.type = "ack" =>
            Made(n, d.air.to, d.air.body[1], d.air.body[2], aired', delivered')
    <2> SUFFICES ASSUME d.air # None, d.air.type = "ack"
                 PROVE  Made(n, d.air.to, d.air.body[1], d.air.body[2],
                             aired', delivered')
      OBVIOUS
    <2>1. CASE d.air = c.air
      <3>1. c.air \in aired /\ c.air.source = n
        BY <1>1, <2>1 DEF OnAir
      <3>2. Made(n, d.air.to, d.air.body[1], d.air.body[2], aired, delivered)
        BY <2>1, <3>1 DEF Inv, Confirmed
      <3> QED BY <1>8, <3>2, MadeGrows
    <2>2. CASE /\ d.air = AckFrame(n, e, f)
               /\ Repeats(e, d, f) \/ Reads(e, d, f)
      <3>1. /\ d.air.to = f.source /\ d.air.body[1] = f.session
            /\ d.air.body[2] = f.seq
        BY <2>2 DEF AckFrame
      <3> QED BY <1>9, <2>2, <3>1
    <2>3. e.air = c.air
      BY <1>2 DEF Expires
    <2> QED BY <1>2, <2>1, <2>2, <2>3 DEF Takes
  <1>16. Local(n, d, aired', delivered')
    BY <1>10, <1>11, <1>12, <1>13, <1>14, <1>15 DEF Local
  <1> QED BY <1>7, <1>16, NodeStep

-----------------------------------------------------------------------------
(* The start of a send, a new link, and the end of a frame. *)

\* The context hal_lora_link_send_start sends the first fragment from.
Starting(n, c, to, count, acked) ==
    [Stopped(c) EXCEPT
       !.taken = @ + 1,
       !.tx = [active |-> TRUE, result |-> "IN_PROGRESS",
               msg |-> <<n, sent[n] + 1>>, to |-> to,
               seq |-> Seq(c.taken), index |-> 0,
               count |-> count, acked |-> acked,
               tries |-> 1]]

\* A send that was started carries on from its first fragment, or failed.
LEMMA SendStarts ==
    ASSUME Inv, NEW n \in Node, link[n].state = "RECEIVING",
           sent[n] < Sends[n], link[n].taken < MaxTakes,
           NEW to \in To[n], NEW count \in 1 .. MaxFragments,
           NEW acked \in BOOLEAN,
           NEW d \in SendFragment(n, Starting(n, link[n], to, count, acked))
    PROVE  LET c == link[n] IN
           /\ d \in Contexts /\ d.session = c.session /\ d.rx = c.rx
           /\ d.asm = c.asm /\ d.peers = c.peers /\ d.taken = c.taken + 1
           /\ d.tx.seq = Seq(c.taken) /\ d.heard = None
           /\ d.tx.result \notin {"IDLE", "SUCCEEDED"}
           /\ d.tx.index < d.tx.count
           /\ d.tx.msg = <<n, sent[n] + 1>> /\ d.tx.msg \in Messages
           /\ d.tx.to \in Node \union {Broadcast}
           /\ Bound(d) /\ Poised(d)
           /\ d.air = None \/ d.air = Fragment(n, d, d.tx.index)
  <1> DEFINE c == link[n]
             t == [active |-> TRUE, result |-> "IN_PROGRESS",
                   msg |-> <<n, sent[n] + 1>>, to |-> to,
                   seq |-> Seq(c.taken), index |-> 0,
                   count |-> count, acked |-> acked, tries |-> 1]
             b == [Stopped(c) EXCEPT !.taken = @ + 1, !.tx = t]
  <1>0. /\ c \in Contexts /\ Sound(c) /\ sent \in [Node -> Nat]
    BY InvLocal DEF Inv, Shapes
  <1>1. /\ c.taken \in Nat /\ c.taken + 1 <= MaxTakes /\ MaxTakes \in Nat
        /\ Seq(c.taken) \in Sequences /\ Number(Seq(c.taken)) = c.taken
        /\ c.session \in Nat
    BY <1>0, CountedNumber, TakenNumber
  <1>2. /\ <<n, sent[n] + 1>> \in Messages
        /\ to \in Node \union {Broadcast}
    <2>1. Sends[n] \in Nat /\ sent[n] + 1 \in 1 .. Sends[n]
      BY <1>0, NodesAssumption
    <2> QED BY <2>1, NodesAssumption DEF Messages
  <1>3. t \in Transfers
    <2>1. 0 \in 0 .. MaxFragments - 1 /\ 1 \in 0 .. MaxRetries + 1
      BY NodesAssumption
    <2> QED BY <1>1, <1>2, <2>1 DEF Transfers, Results
  <1>4. /\ t.active = TRUE /\ t.result = "IN_PROGRESS" /\ t.index = 0
        /\ t.msg = <<n, sent[n] + 1>> /\ t.to = to /\ t.count = count
        /\ t.seq = Seq(c.taken)
    OBVIOUS
  <1> HIDE DEF t
  <1>5. /\ Stopped(c) \in Contexts /\ Same(c, Stopped(c))
        /\ Stopped(c).radio = "standby"
        /\ Stopped(c).air = None /\ Stopped(c).heard = None
    <2>1. "standby" \in RadioStates
      BY DEF RadioStates
    <2> QED BY <1>0, <2>1, QuietKeeps DEF Stopped
  <1>6. /\ b \in Contexts /\ b.tx = t /\ b.taken = c.taken + 1
        /\ b.session = c.session /\ b.rx = c.rx /\ b.asm = c.asm
        /\ b.peers = c.peers /\ b.radio = "standby" /\ b.air = None
        /\ b.heard = None
    <2>1. c.taken + 1 \in 0 .. MaxTakes
      BY <1>1
    <2>2. Stopped(c).taken = c.taken
      BY <1>5 DEF Same
    <2>3. b \in Contexts
      BY <1>3, <1>5, <2>1, <2>2 DEF Contexts
    <2>4. /\ b.tx = t /\ b.taken = c.taken + 1
          /\ b.session = c.session /\ b.rx = c.rx /\ b.asm = c.asm
          /\ b.peers = c.peers /\ b.radio = "standby" /\ b.air = None
          /\ b.heard = None
      BY <1>5, <2>2 DEF Contexts, Same
    <2> QED BY <2>3, <2>4
  <1>7. d \in SendFragment(n, b)
    BY DEF t, Starting
  <1> HIDE DEF b
  <1>8. Carries(b) /\ Ready(b)
    <2>1. 0 < count
      BY NodesAssumption
    <2> QED BY <1>2, <1>4, <1>6, <2>1 DEF Carries, Ready
  <1>9. Goes(n, b, d, {"FAILED", "TIMED_OUT"})
    BY <1>7, <1>8, FragmentSent
  <1>10. /\ d \in Contexts /\ d.session = c.session /\ d.rx = c.rx
         /\ d.asm = c.asm /\ d.peers = c.peers /\ d.taken = c.taken + 1
         /\ d.tx.seq = Seq(c.taken) /\ d.heard = None
         /\ d.tx.result \notin {"IDLE", "SUCCEEDED"}
         /\ d.tx.index < d.tx.count
         /\ d.tx.msg \in Messages /\ d.tx.to \in Node \union {Broadcast}
         /\ Poised(d)
    BY <1>2, <1>4, <1>6, <1>9 DEF Goes, Same, SameSend
  <1>11. d.air = None \/ d.air = Fragment(n, d, d.tx.index)
    <2>1. Fragment(n, b, d.tx.index) = Fragment(n, d, d.tx.index)
      BY <1>6, <1>9, <1>10, SameFragment DEF Goes
    <2> QED BY <1>6, <1>9, <2>1 DEF Goes
  <1>12. Bound(d)
    BY <1>9, <1>10 DEF Goes, Bound
  <1>13. d.tx.msg = <<n, sent[n] + 1>>
    BY <1>4, <1>6, <1>9 DEF Goes, SameSend
  <1> QED BY <1>10, <1>11, <1>12, <1>13

\* hal_lora_link_send_start: the message has a number of its own.
LEMMA StartStep ==
    ASSUME Inv, NEW n \in Node, SendStart(n)
    PROVE  Inv'
  <1> DEFINE c == link[n]
  <1>1. /\ c \in Contexts /\ Sound(c) /\ OnAir(n, c, aired)
        /\ Collected(n, c.asm, aired) /\ Whole(n, c.rx, aired)
        /\ KnownBy(n, c.peers, aired, delivered)
        /\ link \in [Node -> Contexts] /\ aired \subseteq Frames
    BY InvLocal
  <1>2. /\ c.state = "RECEIVING" /\ sent[n] < Sends[n] /\ c.taken < MaxTakes
    BY DEF SendStart
  <1>3. sent \in [Node -> Nat]
    BY DEF Inv, Shapes
  <1>4. CASE Continues(n, StopFails(c))
    <2>1. PICK d \in StopFails(c) : Becomes(n, d) /\ sent' = sent
      BY <1>4 DEF Continues
    <2>2. Advances(n, c, d)
      BY <1>1, <2>1, StopFailsAdvance
    <2> QED BY <1>3, <2>1, <2>2, AdvanceStep
  <1>5. ASSUME NEW to \in To[n], NEW count \in 1 .. MaxFragments,
               NEW acked \in BOOLEAN,
               NEW d \in SendFragment(n, Starting(n, c, to, count, acked)),
               Becomes(n, d), sent' = [sent EXCEPT ![n] = @ + 1]
        PROVE  Inv'
    <2>1. /\ c.taken \in Nat /\ c.taken + 1 <= MaxTakes /\ MaxTakes \in Nat
          /\ Seq(c.taken) \in Sequences /\ Number(Seq(c.taken)) = c.taken
          /\ c.session \in Nat
      BY <1>1, <1>2, CountedNumber, TakenNumber
    <2>2. /\ d \in Contexts /\ d.session = c.session /\ d.rx = c.rx
          /\ d.asm = c.asm /\ d.peers = c.peers /\ d.taken = c.taken + 1
          /\ d.tx.seq = Seq(c.taken) /\ d.heard = None
          /\ d.tx.result \notin {"IDLE", "SUCCEEDED"}
          /\ d.tx.index < d.tx.count
          /\ Bound(d) /\ Poised(d)
          /\ d.air = None \/ d.air = Fragment(n, d, d.tx.index)
      BY <1>2, <1>5, SendStarts
    <2>3. ASSUME NEW f \in Frames, f.source = n, NumberIn(f, c)
           PROVE  /\ NumberIn(f, d)
                  /\ ~(f.session = d.session /\ f.seq = d.tx.seq)
      <3>1. Number(f.seq) \in Nat
        BY FrameFields
      <3>2. f.session = c.session => Number(f.seq) < c.taken
        BY <2>3 DEF NumberIn
      <3>3. f.session = c.session => f.seq # d.tx.seq
        BY <2>1, <2>2, <3>1, <3>2
      <3>4. Number(d.tx.seq) = c.taken
        BY <2>1, <2>2
      <3> QED BY <2>1, <2>2, <2>3, <3>1, <3>2, <3>3, <3>4 DEF NumberIn
    <2>4. Framing(n, c, d)
      <3>1. CASE d.air = None
        BY <2>2, <2>3, <3>1 DEF Framing
      <3>2. CASE d.air = Fragment(n, d, d.tx.index)
        <4>1. /\ d.air.source = n /\ d.air.session = d.session
              /\ d.air.seq = d.tx.seq /\ d.air.index = d.tx.index
              /\ d.air.count = d.tx.count
          BY <3>2 DEF Fragment
        <4>2. NumberIn(d.air, d)
          BY <2>1, <2>2, <3>2, <4>1 DEF NumberIn
        <4> QED BY <2>2, <2>3, <4>1, <4>2 DEF Framing
      <3> QED BY <2>2, <3>1, <3>2
    <2>5. aired \subseteq aired' /\ delivered \subseteq delivered'
      BY <1>1, <1>5, <2>2, BecomesOne
    <2>6. Sound(d)
      <3>1. Number(d.tx.seq) < d.taken
        BY <2>1, <2>2
      <3> QED BY <1>1, <2>2, <3>1 DEF Sound
    <2>7. /\ Collected(n, d.asm, aired') /\ Whole(n, d.rx, aired')
           /\ KnownBy(n, d.peers, aired', delivered')
      BY <1>1, <2>2, <2>5, LocalGrows
    <2>8. InOrder(d) /\ Answered(d.tx, delivered')
      BY <2>2 DEF InOrder, Answered
    <2>9. ~(d.air # None /\ d.air.type = "ack")
      BY <2>2 DEF Fragment
    <2>10. Local(n, d, aired', delivered')
      BY <2>6, <2>7, <2>8, <2>9 DEF Local
    <2>11. sent' \in [Node -> Nat]
      BY <1>3, <1>5
    <2> QED BY <1>5, <2>4, <2>10, <2>11, NodeStep
  <1> QED BY <1>4, <1>5 DEF SendStart, Starting

LEMMA CreatedContext ==
    ASSUME NEW s \in 1 .. MaxSessions
    PROVE  /\ Created(s) \in Contexts /\ Created(s).radio = "standby"
           /\ Created(s).session = s /\ Created(s).taken = 0
           /\ Created(s).tx = NoSend /\ Created(s).rx = None
           /\ Created(s).asm = None /\ DOMAIN Created(s).peers = {}
           /\ Created(s).air = None /\ Created(s).heard = None
  <1> DEFINE e == [k \in {} |-> None]
  <1>1. e \in [{} -> Peer] /\ {} \in SUBSET Keys
    OBVIOUS
  <1>2. e \in Tables
    BY <1>1 DEF Tables
  <1>3. DOMAIN e = {}
    OBVIOUS
  <1> HIDE DEF e
  <1>4. NoSend \in Transfers
    <2>1. /\ 0 \in Sequences /\ 0 \in 0 .. MaxFragments - 1
          /\ 1 \in 1 .. MaxFragments /\ 0 \in 0 .. MaxRetries + 1
      BY NodesAssumption, SequenceAssumption DEF Sequences
    <2> QED BY <2>1 DEF NoSend, Transfers, Results
  <1>5. 0 \in 0 .. MaxTakes
    BY SequenceAssumption
  <1>6. Created(s) = [state |-> "ERROR", radio |-> "standby", air |-> None,
                      heard |-> None, late |-> FALSE, session |-> s,
                      taken |-> 0, tx |-> NoSend, rx |-> None, asm |-> None,
                      peers |-> e]
    BY DEF Created, e
  <1>7. Created(s) \in Contexts
    BY <1>2, <1>4, <1>5, <1>6 DEF Contexts, LinkStates, RadioStates
  <1> QED BY <1>3, <1>6, <1>7

\* hal_lora_link_create: the context a fresh session listens with.
LEMMA SessionStarts ==
    ASSUME NEW c \in Contexts, c.session < MaxSessions,
           NEW d \in StartReceive(Created(c.session + 1))
    PROVE  /\ d \in Contexts /\ d.session = c.session + 1
           /\ d.taken = 0 /\ d.tx = NoSend /\ d.tx.result = "IDLE"
           /\ d.rx = None /\ d.asm = None /\ DOMAIN d.peers = {}
           /\ d.air = None /\ d.heard = None
           /\ d.state \notin Sending /\ Poised(d)
  <1> DEFINE b == Created(c.session + 1)
  <1>1. c.session + 1 \in 1 .. MaxSessions
    BY NodesAssumption DEF Contexts
  <1>2. /\ b \in Contexts /\ b.radio = "standby" /\ b.session = c.session + 1
        /\ b.taken = 0 /\ b.tx = NoSend /\ b.rx = None /\ b.asm = None
        /\ DOMAIN b.peers = {} /\ b.air = None /\ b.heard = None
    BY <1>1, CreatedContext
  <1>3. Ready(b) /\ d \in StartReceive(b)
    BY <1>2 DEF Ready
  <1> HIDE DEF b
  <1>4. /\ d \in Contexts /\ Same(b, d) /\ d.tx = b.tx
        /\ d.air = None /\ d.heard = None
        /\ d.state \in {"RECEIVING", "ERROR"} /\ Poised(d)
    BY <1>2, <1>3, ReceiveStarts
  <1>5. NoSend.result = "IDLE"
    BY DEF NoSend
  <1> QED BY <1>2, <1>4, <1>5 DEF Same, Sending

\* A new session has no frames, no peers and no message.
LEMMA NewSession ==
    ASSUME NEW n, NEW d \in Contexts, d.taken = 0, d.tx = NoSend,
           d.rx = None, d.asm = None, DOMAIN d.peers = {}, d.air = None,
           d.heard = None, d.state \notin Sending, Poised(d),
           NEW frames, NEW made
    PROVE  Local(n, d, frames, made)
  <1>1. /\ ~d.tx.active /\ d.tx.result = "IDLE" /\ d.tx.index < d.tx.count
    BY DEF NoSend
  <1>2. Aged(d.peers)
    BY DEF Aged
  <1>3. Bound(d)
    BY <1>1 DEF Bound
  <1>4. Sound(d)
    BY <1>1, <1>2, <1>3 DEF Sound
  <1>5. /\ Collected(n, d.asm, frames) /\ Whole(n, d.rx, frames)
        /\ KnownBy(n, d.peers, frames, made) /\ InOrder(d)
        /\ Answered(d.tx, made)
    BY <1>1 DEF Collected, Whole, KnownBy, InOrder, Answered
  <1> QED BY <1>4, <1>5 DEF Local

\* hal_lora_link_destroy and hal_lora_link_create
LEMMA CreateStep ==
    ASSUME Inv, NEW n \in Node, Recreate(n)
    PROVE  Inv'
  <1> DEFINE c == link[n]
  <1>1. /\ c \in Contexts /\ Sound(c) /\ OnAir(n, c, aired)
    BY InvLocal
  <1>2. PICK d \in StartReceive(Created(c.session + 1)) \union StopFails(c) :
           Becomes(n, d)
    BY DEF Recreate, Continues
  <1>3. sent' \in [Node -> Nat]
    BY DEF Recreate, Continues, Inv, Shapes
  <1>4. CASE d \in StopFails(c)
    BY <1>1, <1>2, <1>3, <1>4, StopFailsAdvance, AdvanceStep
  <1>5. CASE d \in StartReceive(Created(c.session + 1))
    <2>1. c.session \in Nat /\ c.session + 1 \in 1 .. MaxSessions
      BY <1>1, NodesAssumption DEF Recreate, Contexts
    <2>2. /\ d \in Contexts /\ d.session = c.session + 1
          /\ d.taken = 0 /\ d.tx = NoSend
          /\ d.rx = None /\ d.asm = None /\ DOMAIN d.peers = {}
          /\ d.air = None /\ d.heard = None
          /\ d.state \notin Sending /\ Poised(d)
      BY <1>1, <1>5, SessionStarts DEF Recreate
    <2>3. Local(n, d, aired', delivered')
      BY <2>2, NewSession
    <2>4. \A f \in Frames : f.source = n /\ NumberIn(f, c) => NumberIn(f, d)
      <3> SUFFICES ASSUME NEW f \in Frames, NumberIn(f, c)
                   PROVE  NumberIn(f, d)
        OBVIOUS
      <3>1. f.session \in Nat /\ f.session <= c.session
        BY FrameFields DEF NumberIn
      <3>2. f.session <= d.session /\ f.session # d.session
        BY <2>1, <2>2, <3>1
      <3> QED BY <3>2 DEF NumberIn
    <2>5. Framing(n, c, d)
      BY <2>2, <2>4 DEF Framing
    <2> QED BY <1>2, <1>3, <2>3, <2>5, NodeStep
  <1> QED BY <1>2, <1>4, <1>5

\* Who hears a frame that leaves the air has it, or its ruins, in its radio.
Overhears(m, n, f, a, d) ==
    /\ d \in Contexts /\ d.state = a.state /\ d.radio = a.radio
    /\ d.session = a.session /\ d.taken = a.taken /\ d.tx = a.tx
    /\ d.rx = a.rx /\ d.asm = a.asm /\ d.peers = a.peers
    /\ d.air = None \/ d.air = a.air
    /\ \/ d.heard = a.heard \/ d.heard \in {Garbled, None}
       \/ d.heard = f /\ m # n

LEMMA FrameEndsHeard ==
    ASSUME link \in [Node -> Contexts], NEW n \in Node, FrameEnds(n)
    PROVE  /\ link' \in [Node -> Contexts]
           /\ \A m \in Node : Overhears(m, n, link[n].air, link[m], link'[m])
  <1> DEFINE f == link[n].air
  <1>1. f # None /\ f \in Frames
    BY DEF FrameEnds, Contexts
  <1>2. PICK h \in [{m \in Node \ {n} : Listening(m)} -> {f, Garbled, None}] :
           link' = [m \in Node |->
                      IF m = n THEN [link[n] EXCEPT !.air = None]
                      ELSE IF m \in DOMAIN h /\ h[m] # None
                      THEN [link[m] EXCEPT !.heard = h[m]]
                      ELSE link[m]]
    BY DEF FrameEnds
  <1>3. ASSUME NEW m \in Node
        PROVE  Overhears(m, n, f, link[m], link'[m])
    <2>1. link[m] \in Contexts
      OBVIOUS
    <2>2. CASE link'[m] = link[m]
      BY <2>1, <2>2 DEF Overhears
    <2>3. CASE m = n
      <3>1. link'[m] = [link[m] EXCEPT !.air = None]
        BY <1>2, <2>3
      <3> QED BY <2>1, <3>1 DEF Contexts, Overhears
    <2>4. CASE m # n /\ m \in DOMAIN h /\ h[m] # None
      <3>1. link'[m] = [link[m] EXCEPT !.heard = h[m]]
        BY <1>2, <2>4
      <3>2. h[m] \in {f, Garbled, None} /\ h[m] \in Frames \union {Garbled, None}
        BY <1>1, <2>4
      <3> HIDE DEF f
      <3>3. link'[m] \in Contexts
        BY <2>1, <3>1, <3>2 DEF Contexts
      <3> QED BY <2>1, <2>4, <3>1, <3>2, <3>3 DEF Contexts, Overhears
    <2> QED BY <1>2, <2>2, <2>3, <2>4
  <1>4. \A m \in Node : link'[m] \in Contexts
    BY <1>3 DEF Overhears
  <1> QED BY <1>2, <1>3, <1>4

\* A frame leaves the air: who hears it has made nothing later readable.
LEMMA FrameEndsStep ==
    ASSUME Inv, NEW n \in Node, FrameEnds(n)
    PROVE  Inv'
  <1> DEFINE c == link[n]
             f == c.air
  <1>1. /\ c \in Contexts /\ Sound(c) /\ OnAir(n, c, aired)
        /\ link \in [Node -> Contexts] /\ aired \subseteq Frames
    BY InvLocal
  <1>2. /\ f # None /\ sent' = sent /\ aired' = aired
        /\ delivered' = delivered
    BY DEF FrameEnds
  <1>3. /\ f \in aired /\ f \in Frames
        /\ f.source = n /\ f.session = c.session
        /\ f.type = "data" => f.seq = c.tx.seq
    BY <1>1, <1>2 DEF OnAir
  <1>4. /\ link' \in [Node -> Contexts]
        /\ \A m \in Node : Overhears(m, n, f, link[m], link'[m])
    <2>1. link \in [Node -> Contexts]
      BY <1>1
    <2>2. /\ link' \in [Node -> Contexts]
          /\ \A m \in Node : Overhears(m, n, link[n].air, link[m], link'[m])
      BY <2>1, FrameEndsHeard
    <2> QED BY <2>2
  <1>5. ASSUME NEW m \in Node
        PROVE  /\ Sound(link'[m]) /\ OnAir(m, link'[m], aired)
               /\ Collected(m, link'[m].asm, aired)
               /\ Whole(m, link'[m].rx, aired)
               /\ KnownBy(m, link'[m].peers, aired, delivered)
               /\ InOrder(link'[m]) /\ Answered(link'[m].tx, delivered)
    <2> DEFINE a == link[m]
               d == link'[m]
    <2>1. /\ d \in Contexts /\ d.state = a.state /\ d.radio = a.radio
          /\ d.session = a.session /\ d.taken = a.taken /\ d.tx = a.tx
          /\ d.rx = a.rx /\ d.asm = a.asm /\ d.peers = a.peers
          /\ d.air = None \/ d.air = a.air
          /\ d.heard = a.heard \/ d.heard \in {f, Garbled, None}
      BY <1>4 DEF Overhears
    <2>2. /\ Sound(a) /\ OnAir(m, a, aired) /\ Collected(m, a.asm, aired)
          /\ Whole(m, a.rx, aired) /\ KnownBy(m, a.peers, aired, delivered)
          /\ InOrder(a) /\ Answered(a.tx, delivered) /\ a \in Contexts
      BY InvLocal
    <2> HIDE DEF a, d
    <2>3. Sound(d)
      BY <2>1, <2>2 DEF Sound, Bound, Poised
    <2>4. OnAir(m, d, aired)
      BY <1>3, <2>1, <2>2 DEF OnAir
    <2>5. InOrder(d)
      <3>1. CASE d.heard # f
        BY <2>1, <2>2, <3>1 DEF InOrder
      <3>2. CASE d.heard = f
        <4> SUFFICES ASSUME f.type = "data", FrameKey(f) \in DOMAIN a.peers
                     PROVE  Number(a.peers[FrameKey(f)].newest)
                              <= Number(f.seq)
          BY <2>1, <3>2 DEF InOrder
        <4>1. Made(m, n, c.session, a.peers[FrameKey(f)].newest,
                   aired, delivered)
          <5>1. FrameKey(f)[1] = n /\ FrameKey(f)[2] = c.session
            BY <1>3 DEF FrameKey
          <5> QED BY <2>2, <5>1 DEF KnownBy
        <4>2. PICK g \in aired : /\ g.type = "data" /\ g.source = n
                                 /\ g.session = c.session
                                 /\ g.seq = a.peers[FrameKey(f)].newest
          BY <4>1 DEF Made
        <4>3. NumberIn(g, c)
          BY <4>2 DEF Inv, Numbered
        <4>4. Number(g.seq) <= Number(c.tx.seq)
          BY <4>2, <4>3 DEF NumberIn
        <4> QED BY <1>3, <4>2, <4>4
      <3> QED BY <3>1, <3>2
    <2>6. /\ Collected(m, d.asm, aired) /\ Whole(m, d.rx, aired)
          /\ KnownBy(m, d.peers, aired, delivered) /\ Answered(d.tx, delivered)
      BY <2>1, <2>2
    <2> QED BY <2>3, <2>4, <2>5, <2>6 DEF d
  <1>6. ASSUME NEW g \in aired PROVE NumberIn(g, link'[g.source])
    <2>1. g.source \in Node /\ NumberIn(g, link[g.source])
      BY <1>1, FrameFields DEF Inv, Numbered
    <2>2. /\ link'[g.source].session = link[g.source].session
          /\ link'[g.source].taken = link[g.source].taken
          /\ link'[g.source].tx = link[g.source].tx
      BY <1>4, <2>1 DEF Overhears
    <2>3. Fragment(g.source, link'[g.source], g.index) =
             Fragment(g.source, link[g.source], g.index)
      BY <2>2 DEF Fragment
    <2> QED BY <2>1, <2>2, <2>3 DEF NumberIn
  <1>7. Shapes'
    BY <1>1, <1>2, <1>4, <1>5 DEF Inv, Shapes
  <1>8. Airs' /\ Assembled' /\ Known' /\ HeardInOrder'
    BY <1>2, <1>5 DEF Airs, Assembled, Known, HeardInOrder
  <1>9. Numbered'
    BY <1>2, <1>6 DEF Numbered
  <1>10. NumberOnce' /\ Confirmed'
    BY <1>2 DEF Inv, NumberOnce, Confirmed
  <1>11. WholeMessages'
    BY <1>2, <1>5 DEF WholeMessages, Whole
  <1>12. AckMeansDelivered'
    BY <1>2, <1>5 DEF AckMeansDelivered, Answered
  <1> QED BY <1>7, <1>8, <1>9, <1>10, <1>11, <1>12 DEF Inv

-----------------------------------------------------------------------------
(* The invariant. *)

LEMMA Initially ==
    ASSUME Init
    PROVE  Inv
  <1>1. /\ sent \in [Node -> Nat] /\ aired = {} /\ delivered = {}
    BY DEF Init
  <1>2. 1 \in 1 .. MaxSessions
    BY NodesAssumption
  <1> DEFINE b == Created(1)
             d == [b EXCEPT !.state = "RECEIVING", !.radio = "rx"]
  <1>3. /\ b \in Contexts /\ b.session = 1 /\ b.taken = 0 /\ b.tx = NoSend
        /\ b.rx = None /\ b.asm = None /\ DOMAIN b.peers = {}
        /\ b.air = None /\ b.heard = None
    BY <1>2, CreatedContext
  <1>4. link = [n \in Node |-> d]
    BY DEF Init
  <1> HIDE DEF b
  <1>5. /\ d \in Contexts /\ d.state = "RECEIVING" /\ d.radio = "rx"
        /\ d.session = b.session /\ d.taken = b.taken /\ d.tx = b.tx
        /\ d.rx = b.rx /\ d.asm = b.asm /\ d.peers = b.peers
        /\ d.air = b.air /\ d.heard = b.heard
    BY <1>3 DEF Contexts, LinkStates, RadioStates
  <1> HIDE DEF d
  <1>6. d.state \notin Sending /\ Poised(d)
    BY <1>5 DEF Sending, Poised
  <1>7. ASSUME NEW n \in Node
        PROVE  Local(n, d, aired, delivered)
    BY <1>3, <1>5, <1>6, NewSession
  <1>8. Shapes
    <2>1. link \in [Node -> Contexts] /\ \A n \in Node : Sound(link[n])
      BY <1>4, <1>5, <1>7 DEF Local
    <2> QED BY <1>1, <2>1 DEF Shapes
  <1>9. Airs /\ Numbered /\ NumberOnce /\ Confirmed
    <2>1. \A n \in Node : link[n].air = None /\ link[n].heard = None
      BY <1>3, <1>4, <1>5
    <2> QED BY <1>1, <2>1 DEF Airs, OnAir, Numbered, NumberOnce, Confirmed
  <1>10. Assembled /\ Known /\ HeardInOrder
    BY <1>4, <1>7 DEF Local, Assembled, Known, HeardInOrder
  <1>11. WholeMessages
    BY <1>3, <1>4, <1>5 DEF WholeMessages
  <1>12. AckMeansDelivered
    <2>1. \A n \in Node : link[n].tx.result = "IDLE"
      BY <1>3, <1>4, <1>5 DEF NoSend
    <2> QED BY <2>1 DEF AckMeansDelivered
  <1> QED BY <1>8, <1>9, <1>10, <1>11, <1>12 DEF Inv

\* The calls that start nothing and accept nothing.
LEMMA AdvancingKinds ==
    ASSUME Inv, NEW n \in Node,
           \/ ProcessTransmit(n) \/ ProcessAckWait(n) \/ ProcessRetryWait(n)
           \/ ProcessError(n) \/ Receive(n) \/ Cancel(n) \/ Deadline(n)
    PROVE  Inv'
  <1>1. Shapes /\ Airs /\ sent \in [Node -> Nat]
    BY DEF Inv, Shapes
  <1>2. sent' = sent
    BY DEF ProcessTransmit, ProcessAckWait, ProcessRetryWait, ProcessError,
           Receive, Cancel, Deadline, Continues
  <1>3. PICK d : Becomes(n, d) /\ Advances(n, link[n], d)
    BY <1>1, ProcessTransmitKind, ProcessAckWaitKind, ProcessRetryWaitKind,
       ProcessErrorKind, ReceiveKind, CancelKind, DeadlineKind
  <1> QED BY <1>1, <1>2, <1>3, AdvanceStep

LEMMA ListeningStep ==
    ASSUME Inv, NEW n \in Node, ProcessReceive(n)
    PROVE  Inv'
  <1>1. Shapes /\ sent \in [Node -> Nat]
    BY DEF Inv, Shapes
  <1>2. sent' = sent
    BY DEF ProcessReceive, Continues
  <1>3. PICK d : Becomes(n, d) /\ (\/ Advances(n, link[n], d)
                                   \/ Receipt(n, link[n], d))
    BY <1>1, ProcessReceiveKind
  <1> QED BY <1>1, <1>2, <1>3, AdvanceStep, ReceiptStep

LEMMA EveryStep ==
    ASSUME Inv, [Next]_vars
    PROVE  Inv'
  <1>1. CASE Next
    <2>1. PICK n \in Node : \/ ProcessNode(n) \/ SendStart(n) \/ Receive(n)
                            \/ Cancel(n) \/ Recreate(n)
                            \/ FrameEnds(n) \/ Deadline(n)
      BY <1>1 DEF Next
    <2>2. CASE ProcessNode(n)
      BY <2>2, ListeningStep, AdvancingKinds DEF ProcessNode
    <2>3. CASE SendStart(n)
      BY <2>3, StartStep
    <2>4. CASE Receive(n) \/ Cancel(n) \/ Deadline(n)
      BY <2>4, AdvancingKinds
    <2>5. CASE Recreate(n)
      BY <2>5, CreateStep
    <2>6. CASE FrameEnds(n)
      BY <2>6, FrameEndsStep
    <2> QED BY <2>1, <2>2, <2>3, <2>4, <2>5, <2>6
  <1>2. CASE UNCHANGED vars
    <2>1. /\ link' = link /\ sent' = sent
          /\ aired' = aired /\ delivered' = delivered
      BY <1>2 DEF vars
    <2>2. Shapes' /\ Airs' /\ Assembled' /\ Known' /\ HeardInOrder'
      BY <2>1 DEF Inv, Shapes, Airs, Assembled, Known, HeardInOrder
    <2>3. Numbered' /\ NumberOnce' /\ Confirmed'
      BY <2>1 DEF Inv, Numbered, NumberOnce, Confirmed
    <2>4. WholeMessages' /\ AckMeansDelivered'
      BY <2>1 DEF Inv, WholeMessages, AckMeansDelivered
    <2> QED BY <2>2, <2>3, <2>4 DEF Inv
  <1> QED BY <1>1, <1>2

\* The invariant the theorems below are conjuncts or consequences of: what a
\* number of a session stands for, what is known of the peers, and that what
\* is still to be handled is no older.
THEOREM LinkInvariant == Spec => []Inv
  <1>1. Init => Inv
    BY Initially
  <1>2. Inv /\ [Next]_vars => Inv'
    BY EveryStep
  <1> QED BY <1>1, <1>2, PTL DEF Spec

\* accept_data_frame hands over every fragment of one message its source sent
\* to this node, whatever was displaced, repeated or lost on the way.
THEOREM MessagesAreWhole == Spec => []WholeMessages
  <1>1. Inv => WholeMessages
    BY DEF Inv
  <1> QED BY <1>1, LinkInvariant, PTL

\* A send that finish_send ends with HAL_OK behind an acknowledgement was
\* made readable by its destination: 2 * MaxTakes numbers fit the space.
THEOREM AcksMeanDelivered == Spec => []AckMeansDelivered
  <1>1. Inv => AckMeansDelivered
    BY DEF Inv
  <1> QED BY <1>1, LinkInvariant, PTL

\* No two frames of a session share a nonce: a retry airs the same bytes, and
\* whatever is new takes a number of its own.
THEOREM NoncesOnce == Spec => []NonceOnce
  <1>1. Inv => NonceOnce
    <2> SUFFICES ASSUME Inv, NEW f \in aired, NEW g \in aired,
                        f.source = g.source, f.session = g.session,
                        f.seq = g.seq, f.index = g.index
                 PROVE  f = g
      BY DEF NonceOnce
    <2>1. f = [g EXCEPT !.index = f.index]
      BY DEF Inv, NumberOnce
    <2>2. g \in Frames
      BY DEF Inv, Shapes
    <2>3. [g EXCEPT !.index = g.index] = g
      BY <2>2 DEF Frames
    <2> QED BY <2>1, <2>3
  <1> QED BY <1>1, LinkInvariant, PTL

LEMMA FieldsOK ==
    ASSUME NEW c \in Contexts, Sound(c)
    PROVE  /\ TxOK(c.tx) /\ PeersOK(c.peers)
           /\ c.asm # None => /\ c.asm.count \in 1 .. MaxFragments
                              /\ PartsOK(c.asm.parts)
           /\ c.rx # None => PartsOK(c.rx.parts)
  <1>1. /\ c.tx \in Transfers /\ c.peers \in Tables
        /\ c.asm # None => c.asm \in Assemblies
        /\ c.rx # None => c.rx \in Readable
    BY DEF Contexts
  <1>2. TxOK(c.tx)
    <2>1. /\ c.tx.active \in BOOLEAN /\ c.tx.result \in Results
          /\ c.tx.seq \in Sequences /\ c.tx.acked \in BOOLEAN
          /\ c.tx.index \in 0 .. MaxFragments - 1
          /\ c.tx.count \in 1 .. MaxFragments
          /\ c.tx.tries \in 0 .. MaxRetries + 1
      BY <1>1 DEF Transfers
    <2>2. c.tx.index < c.tx.count
      BY DEF Sound, Bound
    <2>3. c.tx.result # "IDLE" => /\ c.tx.msg \in Messages
                                  /\ c.tx.to \in Node \union {Broadcast}
      BY DEF Sound, Bound
    <2>4. c.tx.index \in 0 .. c.tx.count - 1
      <3> DEFINE i == c.tx.index
                 k == c.tx.count
      <3>1. i \in 0 .. MaxFragments - 1 /\ k \in 1 .. MaxFragments /\ i < k
        BY <2>1, <2>2
      <3>2. MaxFragments \in Nat
        BY NodesAssumption
      <3> HIDE DEF i, k
      <3>3. i \in 0 .. k - 1
        BY <3>1, <3>2
      <3> QED BY <3>3 DEF i, k
    <2> QED BY <2>1, <2>3, <2>4 DEF TxOK
  <1>3. PeersOK(c.peers)
    <2>1. Aged(c.peers)
      BY DEF Sound
    <2>2. Cardinality(DOMAIN c.peers) <= MaxPeers
      BY <1>1, <2>1, TableFits
    <2>3. /\ DOMAIN c.peers \subseteq Keys
          /\ \A k \in DOMAIN c.peers : c.peers[k] \in Peer
      BY <1>1, TableShape
    <2> QED BY <2>2, <2>3 DEF PeersOK, Peer
  <1>4. c.asm # None => /\ c.asm.count \in 1 .. MaxFragments
                        /\ PartsOK(c.asm.parts)
    <2>1. c.asm # None => /\ c.asm.count \in 1 .. MaxFragments
                          /\ c.asm.parts \in Parts
      BY <1>1 DEF Assemblies
    <2> QED BY <2>1, PartsShape DEF PartsOK
  <1>5. c.rx # None => PartsOK(c.rx.parts)
    <2>1. c.rx # None => c.rx.parts \in Parts
      BY <1>1 DEF Readable
    <2> QED BY <2>1, PartsShape DEF PartsOK
  <1> QED BY <1>2, <1>3, <1>4, <1>5

\* Every field keeps its type: the retries and the peers stay within bounds,
\* and every fragment index within the count of its message.  A link is in a
\* sending state exactly while its send is active.  Without radio failures it
\* is never left in error, and a link that says RECEIVING listens: no handler
\* starts a radio that is still busy.
THEOREM LinksListen == Spec => []LinkListens
  <1>1. Inv => LinkListens
    <2> SUFFICES ASSUME Inv
                 PROVE  LinkListens
      OBVIOUS
    <2>1. ASSUME NEW n \in Node
          PROVE  /\ link[n] \in Contexts /\ Sound(link[n])
                 /\ TxOK(link[n].tx) /\ PeersOK(link[n].peers)
                 /\ link[n].asm # None =>
                       /\ link[n].asm.count \in 1 .. MaxFragments
                       /\ PartsOK(link[n].asm.parts)
                 /\ link[n].rx # None => PartsOK(link[n].rx.parts)
      BY InvLocal, FieldsOK
    <2>2. TypeOK
      <3>1. /\ sent \in [Node -> Nat] /\ aired \subseteq Frames
            /\ delivered \subseteq Node \X (1 .. MaxSessions) \X Messages
        BY DEF Inv, Shapes
      <3>2. ASSUME NEW n \in Node
            PROVE  LET c == link[n] IN
                   /\ c.state \in LinkStates /\ c.radio \in RadioStates
                   /\ c.air \in Frames \union {None}
                   /\ c.heard \in Frames \union {Garbled, None}
                   /\ c.late \in BOOLEAN /\ c.session \in 1 .. MaxSessions
                   /\ c.taken \in 0 .. MaxTakes
        BY <2>1 DEF Contexts
      <3> QED BY <2>1, <3>1, <3>2 DEF TypeOK
    <2>3. ASSUME NEW n \in Node
          PROVE  LET c == link[n] IN
                 /\ c.tx.active <=> c.state \in {"TRANSMITTING", "RETRY_WAIT",
                                                 "WAITING_ACKNOWLEDGEMENT"}
                 /\ ~RadioFails => /\ c.state # "ERROR"
                                   /\ c.state = "RECEIVING" => c.radio = "rx"
      BY <2>1 DEF Sound, Bound, Poised, Sending
    <2> QED BY <2>2, <2>3 DEF LinkListens
  <1> QED BY <1>1, LinkInvariant, PTL

-----------------------------------------------------------------------------
(* Once, and in order.                                                      *)

\* The table has room for every peer, or there is one peer alone.
PeersFit == \/ Cardinality(Keys) <= MaxPeers
            \/ \E a, b \in Node : Node = {a, b}

\* A message carries its source and one of the numbers that were started, and
\* the send in progress is the last that was.
Issued ==
    /\ \A f \in aired : f.type = "data" =>
          f.body[1] = f.source /\ f.body[2] <= sent[f.source]
    /\ \A n \in Node : link[n].tx.result # "IDLE" =>
          link[n].tx.msg = <<n, sent[n]>>

\* A frame of the message c sends has the number c sends it under.
SentAs(f, c) ==
    f.type = "data" /\ c.tx.result # "IDLE" /\ f.body = c.tx.msg =>
        f.session = c.session /\ f.seq = c.tx.seq

\* A message has one number.
MessageOnce ==
    /\ \A f \in aired : SentAs(f, link[f.source])
    /\ \A f, g \in aired :
          f.type = "data" /\ g.type = "data" /\ f.body = g.body =>
             f.session = g.session /\ f.seq = g.seq

\* What was made readable had been aired, by another node.
Traced ==
    \A x \in delivered :
       /\ x[3][1] # x[1] /\ x[2] <= link[x[1]].session
       /\ \E f \in aired : f.type = "data" /\ f.body = x[3]

\* What n made readable of this source in this session is no later.
Latest(n, session, f, made) ==
    \A x \in made : x[1] = n /\ x[2] = session /\ x[3][1] = f.source =>
       x[3][2] <= f.body[2]

Hears(n, c, made) ==
    c.heard \notin {Garbled, None} =>
       /\ c.heard.source # n
       /\ c.heard.type = "data" => Latest(n, c.session, c.heard, made)

\* The latest message of each source is the newest its window remembers.
Recalls(n, c, frames, made) ==
    \A f \in frames :
       /\ f.type = "data" /\ <<n, c.session, f.body>> \in made
       /\ Latest(n, c.session, f, made)
       => /\ FrameKey(f) \in DOMAIN c.peers
          /\ c.peers[FrameKey(f)].newest = f.seq

Recalled == \A n \in Node : /\ Hears(n, link[n], delivered)
                            /\ Recalls(n, link[n], aired, delivered)

Order == Issued /\ MessageOnce /\ Traced /\ Recalled

LEMMA MessageShape ==
    ASSUME NEW m \in Messages
    PROVE  /\ m[1] \in Node /\ m[2] \in Nat /\ m = <<m[1], m[2]>>
  BY DEF Messages

\* The messages of the frames, and what was made readable.
LEMMA OrderShapes ==
    ASSUME Inv
    PROVE  /\ link \in [Node -> Contexts] /\ aired \subseteq Frames
           /\ \A f \in aired : f.type = "data" =>
                 /\ f.source \in Node /\ f.body \in Messages
                 /\ f.session \in 1 .. MaxSessions
           /\ \A x \in delivered :
                 /\ x[1] \in Node /\ x[2] \in 1 .. MaxSessions
                 /\ x[3] \in Messages /\ x = <<x[1], x[2], x[3]>>
           /\ \A n \in Node : /\ sent[n] \in Nat
                               /\ link[n].session \in 1 .. MaxSessions
  <1>1. /\ link \in [Node -> Contexts] /\ aired \subseteq Frames
        /\ sent \in [Node -> Nat]
        /\ delivered \subseteq Node \X (1 .. MaxSessions) \X Messages
    BY DEF Inv, Shapes
  <1>2. \A f \in aired : f.type = "data" =>
           /\ f.source \in Node /\ f.body \in Messages
           /\ f.session \in 1 .. MaxSessions
    BY <1>1, DataFields
  <1>3. \A n \in Node : link[n].session \in 1 .. MaxSessions
    BY <1>1 DEF Contexts
  <1> QED BY <1>1, <1>2, <1>3

\* What a step that leaves n with the context d says of its numbers.
Numbering(n, c, d) ==
    /\ d \in Contexts
    /\ sent' \in [Node -> Nat] /\ sent[n] <= sent'[n]
    /\ \A m \in Node : m # n => sent'[m] = sent[m]
    /\ d.tx.result # "IDLE" => d.tx.msg = <<n, sent'[n]>>
    /\ \A f \in aired : f.source = n => SentAs(f, d)
    /\ d.air # None /\ d.air # c.air =>
          /\ d.air.source = n
          /\ d.air.type = "data" =>
                /\ d.tx.result # "IDLE" /\ d.air.body = d.tx.msg
                /\ d.air.session = d.session /\ d.air.seq = d.tx.seq

LEMMA NumberingStep ==
    ASSUME Inv, Inv', Issued, MessageOnce, NEW n \in Node, NEW d, Becomes(n, d),
           Numbering(n, link[n], d)
    PROVE  Issued' /\ MessageOnce'
  <1> DEFINE c == link[n]
  <1>1. /\ link'[n] = d /\ \A m \in Node : m # n => link'[m] = link[m]
        /\ aired \subseteq aired'
        /\ \A f \in aired' : f \in aired \/ (f = d.air /\ d.air # None)
    BY OrderShapes, BecomesOne DEF Numbering
  <1>2. ASSUME NEW f \in aired', f.type = "data", f \notin aired
        PROVE  /\ f.source = n /\ d.tx.result # "IDLE" /\ f.body = d.tx.msg
               /\ f.session = d.session /\ f.seq = d.tx.seq
    <2>1. f = d.air /\ d.air # None
      BY <1>1, <1>2
    <2>2. d.air # c.air
      BY <1>2, <2>1 DEF Inv, Airs, OnAir
    <2> QED BY <1>2, <2>1, <2>2 DEF Numbering
  <1>3. ASSUME NEW f \in aired', f.type = "data"
        PROVE  f.body[1] = f.source /\ f.body[2] <= sent'[f.source]
    <2>1. CASE f \in aired
      <3>1. /\ f.body[1] = f.source /\ f.body[2] <= sent[f.source]
            /\ f.source \in Node /\ f.body[2] \in Nat
        BY <1>3, <2>1, OrderShapes, MessageShape DEF Issued
      <3>2. /\ sent[f.source] \in Nat /\ sent'[f.source] \in Nat
            /\ sent[f.source] <= sent'[f.source]
        BY <3>1, OrderShapes DEF Numbering
      <3> QED BY <3>1, <3>2
    <2>2. CASE f \notin aired
      <3>1. f.source = n /\ f.body = <<n, sent'[n]>>
        BY <1>2, <1>3, <2>2 DEF Numbering
      <3>2. sent'[n] \in Nat
        BY DEF Numbering
      <3> QED BY <3>1, <3>2
    <2> QED BY <2>1, <2>2
  <1>4. ASSUME NEW m \in Node, link'[m].tx.result # "IDLE"
        PROVE  link'[m].tx.msg = <<m, sent'[m]>>
    BY <1>1, <1>4 DEF Issued, Numbering
  <1>5. ASSUME NEW f \in aired', f.type = "data"
        PROVE  SentAs(f, link'[f.source])
    <2>1. f.source \in Node
      BY <1>5, OrderShapes, <1>1 DEF Inv, Shapes, Frames
    <2>2. CASE f \in aired /\ f.source # n
      BY <1>1, <2>1, <2>2 DEF MessageOnce
    <2>3. CASE f \in aired /\ f.source = n
      BY <1>1, <2>3 DEF Numbering
    <2>4. CASE f \notin aired
      BY <1>1, <1>2, <1>5, <2>4 DEF SentAs
    <2> QED BY <2>2, <2>3, <2>4
  <1>6. ASSUME NEW f \in aired', NEW g \in aired', f.type = "data",
               g.type = "data", f.body = g.body
        PROVE  f.session = g.session /\ f.seq = g.seq
    <2>1. ASSUME NEW h \in aired', NEW i \in aired', h.type = "data",
                 i.type = "data", h.body = i.body, h \notin aired
          PROVE  h.session = i.session /\ h.seq = i.seq
      <3>1. /\ h.source = n /\ d.tx.result # "IDLE" /\ h.body = d.tx.msg
            /\ h.session = d.session /\ h.seq = d.tx.seq
        BY <1>2, <2>1
      <3>2. i.source = n
        BY <1>3, <2>1, <3>1
      <3>3. SentAs(i, d)
        BY <1>1, <1>5, <2>1, <3>2
      <3> QED BY <2>1, <3>1, <3>3 DEF SentAs
    <2>2. CASE f \in aired /\ g \in aired
      BY <1>6, <2>2 DEF MessageOnce
    <2> QED BY <1>6, <2>1, <2>2
  <1>7. Issued'
    BY <1>3, <1>4 DEF Issued
  <1>8. MessageOnce'
    <2>1. \A f \in aired' : SentAs(f, link'[f.source])
      BY <1>5 DEF SentAs
    <2> QED BY <1>6, <2>1 DEF MessageOnce
  <1> QED BY <1>7, <1>8

\* A frame aired later is a repetition, as far as what was made readable goes.
LEMMA RecallsFrames ==
    ASSUME Issued', MessageOnce', Traced, NEW n, NEW c,
           Recalls(n, c, aired, delivered), aired \subseteq aired'
    PROVE  Recalls(n, c, aired', delivered)
  <1> SUFFICES ASSUME NEW f \in aired', f.type = "data",
                      <<n, c.session, f.body>> \in delivered,
                      Latest(n, c.session, f, delivered)
               PROVE  /\ FrameKey(f) \in DOMAIN c.peers
                      /\ c.peers[FrameKey(f)].newest = f.seq
    BY DEF Recalls
  <1>1. PICK g \in aired : g.type = "data" /\ g.body = f.body
    BY DEF Traced
  <1>2. f.source = g.source
    BY <1>1 DEF Issued
  <1>3. f.session = g.session /\ f.seq = g.seq
    BY <1>1 DEF MessageOnce
  <1>4. Latest(n, c.session, g, delivered)
    BY <1>1, <1>2 DEF Latest
  <1> QED BY <1>1, <1>2, <1>3, <1>4 DEF Recalls, FrameKey

LEMMA RecallsGrows ==
    ASSUME Issued', MessageOnce', Traced, NEW n, NEW c,
           Recalls(n, c, aired, delivered), aired \subseteq aired',
           delivered \subseteq delivered',
           \A x \in delivered' : x[1] = n => x \in delivered
    PROVE  Recalls(n, c, aired', delivered')
  <1>1. Recalls(n, c, aired', delivered)
    BY RecallsFrames
  <1>2. \A f : Latest(n, c.session, f, delivered') =>
              Latest(n, c.session, f, delivered)
    BY DEF Latest
  <1>3. \A m : <<n, c.session, m>> \in delivered' =>
              <<n, c.session, m>> \in delivered
    OBVIOUS
  <1> QED BY <1>1, <1>2, <1>3 DEF Recalls

\* One node's context changes: the rest is about what it hears and recalls.
LEMMA OrderNode ==
    ASSUME Inv, Inv', Order, NEW n \in Node, NEW d, Becomes(n, d),
           Numbering(n, link[n], d), link[n].session <= d.session,
           d.rx # None /\ link[n].rx = None =>
              \E f \in aired : /\ f.type = "data" /\ f.body = d.rx.parts[0]
                              /\ f.source # n,
           Hears(n, d, delivered'), Recalls(n, d, aired', delivered')
    PROVE  Order'
  <1>1. /\ link' \in [Node -> Contexts] /\ link'[n] = d
        /\ \A m \in Node : m # n => link'[m] = link[m]
        /\ aired \subseteq aired' /\ delivered \subseteq delivered'
        /\ \A x \in delivered' :
              x \in delivered \/ /\ d.rx # None /\ link[n].rx = None
                                 /\ x = <<n, d.session, d.rx.parts[0]>>
    BY OrderShapes, BecomesOne DEF Numbering
  <1>2. Issued' /\ MessageOnce'
    BY NumberingStep DEF Order
  <1>3. d.session \in 1 .. MaxSessions
    BY DEF Numbering, Contexts
  <1>4. ASSUME NEW x \in delivered'
        PROVE  /\ x[3][1] # x[1] /\ x[2] <= link'[x[1]].session
               /\ \E f \in aired' : f.type = "data" /\ f.body = x[3]
    <2>1. CASE x \in delivered
      <3>1. /\ x[3][1] # x[1] /\ x[2] <= link[x[1]].session
            /\ \E f \in aired : f.type = "data" /\ f.body = x[3]
        BY <2>1 DEF Order, Traced
      <3>2. /\ x[1] \in Node /\ x[2] \in 1 .. MaxSessions
            /\ link[x[1]].session \in 1 .. MaxSessions
        BY <2>1, OrderShapes
      <3>3. link[x[1]].session <= link'[x[1]].session
        BY <1>1, <1>3, <3>2
      <3>4. x[2] <= link'[x[1]].session
        <4>1. link'[x[1]].session \in 1 .. MaxSessions
          BY <1>1, <3>2 DEF Contexts
        <4> QED BY <3>1, <3>2, <3>3, <4>1
      <3> QED BY <1>1, <3>1, <3>4
    <2>2. CASE x \notin delivered
      <3>1. /\ x = <<n, d.session, d.rx.parts[0]>>
            /\ d.rx # None /\ link[n].rx = None
        BY <1>1, <2>2
      <3>2. PICK f \in aired : /\ f.type = "data" /\ f.body = d.rx.parts[0]
                              /\ f.source # n
        BY <3>1
      <3>3. f.body[1] # n
        BY <3>2 DEF Order, Issued
      <3> QED BY <1>1, <1>3, <3>1, <3>2, <3>3
    <2> QED BY <2>1, <2>2
  <1>5. Traced'
    BY <1>4 DEF Traced
  <1>6. ASSUME NEW m \in Node
        PROVE  /\ Hears(m, link'[m], delivered')
               /\ Recalls(m, link'[m], aired', delivered')
    <2>1. CASE m = n
      BY <1>1, <2>1
    <2>2. CASE m # n
      <3>1. \A x \in delivered' : x[1] = m => x \in delivered
        BY <1>1, <2>2
      <3>2. /\ Hears(m, link[m], delivered)
            /\ Recalls(m, link[m], aired, delivered)
        BY DEF Order, Recalled
      <3>3. Recalls(m, link[m], aired', delivered')
        BY <1>1, <1>2, <3>1, <3>2, RecallsGrows DEF Order
      <3>4. Hears(m, link[m], delivered')
        BY <3>1, <3>2 DEF Hears, Latest
      <3> QED BY <1>1, <2>2, <3>3, <3>4
    <2> QED BY <2>1, <2>2
  <1>7. Recalled'
    BY <1>6 DEF Recalled
  <1> QED BY <1>2, <1>5, <1>7 DEF Order

-----------------------------------------------------------------------------
(* The steps. *)

\* The send that goes on is the one that was started last.
LEMMA CarriedNumbers ==
    ASSUME Inv, Order, NEW n \in Node, NEW d, Carried(n, link[n], d),
           sent' = sent
    PROVE  Numbering(n, link[n], d)
  <1> DEFINE c == link[n]
  <1>1. /\ d \in Contexts /\ d.session = c.session /\ d.tx.msg = c.tx.msg
        /\ d.tx.seq = c.tx.seq
        /\ d.tx.result = "IDLE" <=> c.tx.result = "IDLE"
    BY DEF Carried, SameSend
  <1>2. sent' \in [Node -> Nat] /\ sent[n] <= sent'[n]
    BY OrderShapes DEF Inv, Shapes
  <1>3. d.tx.result # "IDLE" => d.tx.msg = <<n, sent'[n]>>
    BY <1>1 DEF Order, Issued
  <1>4. \A f \in aired : f.source = n => SentAs(f, d)
    <2>1. \A f \in aired : f.source = n => SentAs(f, c)
      BY DEF Order, MessageOnce
    <2> QED BY <1>1, <2>1 DEF SentAs
  <1>5. d.air # None /\ d.air # c.air =>
          /\ d.air.source = n
          /\ d.air.type = "data" =>
                /\ d.tx.result # "IDLE" /\ d.air.body = d.tx.msg
                /\ d.air.session = d.session /\ d.air.seq = d.tx.seq
    <2>1. CASE c.tx.result # "IDLE" /\ d.air = Fragment(n, c, d.tx.index)
      BY <1>1, <2>1 DEF Fragment
    <2>2. CASE d.air.type = "ack" /\ d.air.source = n
      BY <2>2
    <2> QED BY <2>1, <2>2 DEF Carried
  <1> QED BY <1>1, <1>2, <1>3, <1>4, <1>5 DEF Numbering

LEMMA AdvanceOrder ==
    ASSUME Inv, Inv', Order, NEW n \in Node, NEW d, Becomes(n, d),
           Advances(n, link[n], d), sent' = sent
    PROVE  Order'
  <1> DEFINE c == link[n]
  <1>1. Numbering(n, c, d)
    BY AdvancesCarries, CarriedNumbers
  <1>2. /\ d \in Contexts /\ d.session = c.session /\ d.peers = c.peers
        /\ d.rx = None \/ d.rx = c.rx
        /\ d.heard = None \/ d.heard = c.heard
    BY DEF Advances
  <1>3. ~(d.rx # None /\ c.rx = None)
    BY <1>2
  <1>4. /\ aired \subseteq aired' /\ delivered \subseteq delivered'
        /\ \A x \in delivered' : x \in delivered
    BY <1>2, <1>3, OrderShapes, BecomesOne
  <1>5. Issued' /\ MessageOnce'
    BY <1>1, NumberingStep DEF Order
  <1>6. Recalls(n, d, aired', delivered')
    <2>1. Recalls(n, c, aired, delivered)
      BY DEF Order, Recalled
    <2>2. Recalls(n, c, aired', delivered')
      BY <1>4, <1>5, <2>1, RecallsGrows DEF Order
    <2> QED BY <1>2, <2>2 DEF Recalls
  <1>7. Hears(n, d, delivered')
    <2>1. Hears(n, c, delivered)
      BY DEF Order, Recalled
    <2> QED BY <1>2, <1>4, <2>1 DEF Hears, Latest
  <1>8. c.session <= d.session
    BY <1>2, OrderShapes
  <1> QED BY <1>1, <1>3, <1>6, <1>7, <1>8, OrderNode

\* What a receipt makes readable is the message of the frame it handled.
LEMMA ReadsFrame ==
    ASSUME Inv, Inv', NEW n \in Node, NEW d, Becomes(n, d),
           NEW f \in aired, f.type = "data", NEW e \in Contexts,
           d \in Contexts, Reads(e, d, f)
    PROVE  d.rx # None /\ d.rx.parts[0] = f.body
  <1> DEFINE w == WithPart(Held(e, f), f)
  <1>1. f \in Frames /\ Fits(w, f)
    BY OrderShapes, HeldFits, PartFits
  <1>2. /\ w \in Assemblies /\ w.source = f.source
        /\ w.session = f.session /\ w.seq = f.seq
    BY <1>1 DEF Fits
  <1>3. d.rx = [source |-> w.source, session |-> w.session, seq |-> w.seq,
                parts |-> w.parts]
    BY DEF Reads
  <1> HIDE DEF w
  <1>4. d.rx # None
    <2>1. PICK S \in SUBSET (0 .. MaxFragments - 1) : w.parts \in [S -> Messages]
      BY <1>2 DEF Assemblies, Parts
    <2>2. /\ w.source \in Node /\ w.session \in 1 .. MaxSessions
          /\ w.seq \in Sequences
      BY <1>2 DEF Assemblies
    <2>3. d.rx \in [source : Node, session : 1 .. MaxSessions,
                    seq : Sequences, parts : [S -> Messages]]
      BY <1>3, <2>1, <2>2
    <2> QED BY <2>3, NoneIsNoMessage
  <1>5. link'[n] = d /\ f \in aired'
    BY OrderShapes, BecomesOne
  <1>6. PICK g \in aired' :
           /\ g.type = "data" /\ g.source = d.rx.source
           /\ g.session = d.rx.session /\ g.seq = d.rx.seq
           /\ DOMAIN d.rx.parts = 0 .. g.count - 1
           /\ \A i \in DOMAIN d.rx.parts : d.rx.parts[i] = g.body
    BY <1>4, <1>5 DEF Inv, WholeMessages
  <1>7. g = [f EXCEPT !.index = g.index]
    <2>1. g.source = f.source /\ g.session = f.session /\ g.seq = f.seq
      BY <1>2, <1>3, <1>6
    <2> QED BY <1>5, <2>1 DEF Inv, NumberOnce
  <1>8. g.body = f.body
    BY <1>1, <1>7 DEF Frames
  <1>9. 0 \in DOMAIN d.rx.parts
    <2>1. g.count \in 1 .. MaxFragments /\ MaxFragments \in Nat
      BY <1>6, DataFields, NodesAssumption DEF Inv, Shapes
    <2> QED BY <1>6, <2>1
  <1> QED BY <1>4, <1>6, <1>8, <1>9

\* A peer whose newest sequence this is has received it.
LEMMA NewestIsSeen ==
    ASSUME NEW p \in Tables, Aged(p), NEW key \in DOMAIN p
    PROVE  Seen(p, key, p[key].newest)
  <1> DEFINE q == p[key].newest
  <1>1. q \in Sequences /\ 0 \in p[key].got
    BY TableShape DEF Peer, Aged
  <1>2. SeqMod \in Nat \ {0}
    BY SequenceAssumption
  <1>3. Ahead(q, q) = 0
    <2>1. q - q = 0 /\ 0 % SeqMod = 0
      BY <1>1, <1>2 DEF Sequences
    <2> QED BY <2>1 DEF Ahead
  <1>4. ~Newer(q, q)
    BY <1>3 DEF Newer
  <1> QED BY <1>1, <1>3, <1>4 DEF Seen

\* A message that is not known to its peer's window was not made readable.
LEMMA UnseenIsLater ==
    ASSUME Inv, Order, NEW n \in Node, NEW f \in aired, f.type = "data",
           f = link[n].heard, f # None, f # Garbled,
           ~Seen(link[n].peers, FrameKey(f), f.seq),
           NEW x \in delivered, x[1] = n, x[2] = link[n].session,
           x[3][1] = f.source
    PROVE  x[3][2] < f.body[2]
  <1> DEFINE c == link[n]
  <1>1. /\ f.body \in Messages /\ f.body[1] = f.source
        /\ x[3] \in Messages /\ x = <<x[1], x[2], x[3]>>
    BY OrderShapes DEF Order, Issued
  <1>2. /\ f.body = <<f.body[1], f.body[2]>> /\ f.body[2] \in Nat
        /\ x[3] = <<x[3][1], x[3][2]>> /\ x[3][2] \in Nat
    BY <1>1, MessageShape
  <1>3. Latest(n, c.session, f, delivered)
    BY DEF Order, Recalled, Hears
  <1>4. x[3][2] <= f.body[2]
    BY <1>3 DEF Latest
  <1>5. ASSUME x[3][2] = f.body[2] PROVE FALSE
    <2>1. x[3] = f.body
      BY <1>1, <1>2, <1>5
    <2>2. <<n, c.session, f.body>> \in delivered
      BY <1>1, <2>1
    <2>3. /\ FrameKey(f) \in DOMAIN c.peers
          /\ c.peers[FrameKey(f)].newest = f.seq
      BY <1>3, <2>2 DEF Order, Recalled, Recalls
    <2>4. c.peers \in Tables /\ Aged(c.peers)
      BY InvLocal DEF Sound, Contexts
    <2> QED BY <2>3, <2>4, NewestIsSeen
  <1> QED BY <1>2, <1>4, <1>5

\* While the table has room, using one peer forgets none of another source.
LEMMA PeersStay ==
    ASSUME PeersFit, NEW p \in Tables, NEW key \in Keys, NEW k \in DOMAIN p,
           NEW n \in Node, key[1] # n, k[1] # n, k[1] # key[1]
    PROVE  k \in Kept(p, key)
  <1>1. DOMAIN p \subseteq Keys
    BY TableShape
  <1>2. CASE Cardinality(Keys) <= MaxPeers /\ key \notin DOMAIN p
    <2>1. IsFiniteSet(Keys)
      <3>1. IsFiniteSet(1 .. MaxSessions) /\ IsFiniteSet(Node)
        BY FS_Interval, NodesAssumption
      <3> QED BY <3>1, FS_Product DEF Keys
    <2>2. /\ Cardinality(DOMAIN p) <= Cardinality(Keys)
          /\ Cardinality(DOMAIN p) # Cardinality(Keys)
          /\ Cardinality(DOMAIN p) \in Nat /\ Cardinality(Keys) \in Nat
      BY <1>1, <1>2, <2>1, FS_Subset, FS_CardinalityType
    <2>3. Cardinality(DOMAIN p) < MaxPeers
      BY <1>2, <2>2, NodesAssumption
    <2> QED BY <2>3 DEF Kept
  <1>3. CASE key \in DOMAIN p
    BY <1>3 DEF Kept
  <1>4. CASE \E a, b \in Node : Node = {a, b}
    <2>1. k[1] \in Node /\ key[1] \in Node
      BY <1>1 DEF Keys
    <2> QED BY <1>4, <2>1
  <1> QED BY <1>2, <1>3, <1>4 DEF PeersFit

\* What a receipt makes readable is later than all there was.
LEMMA ReceiptLater ==
    ASSUME Inv, Inv', Order, NEW n \in Node, NEW d, Becomes(n, d),
           Receipt(n, link[n], d), d.rx # None, link[n].rx = None,
           NEW x \in delivered, x[1] = n, x[2] = link[n].session,
           x[3][1] = d.rx.parts[0][1]
    PROVE  x[3][2] < d.rx.parts[0][2]
  <1> DEFINE c == link[n]
             f == c.heard
  <1>1. PICK e : /\ Expires(c, e) /\ f # None /\ ForMe(n, f)
                 /\ Takes(n, e, d, f)
    BY DEF Receipt
  <1>2. /\ f \in aired /\ f # Garbled /\ f.type = "data"
    BY <1>1, InvLocal DEF OnAir, ForMe
  <1>3. /\ e \in Contexts /\ e.rx = c.rx /\ e.peers = c.peers
        /\ d \in Contexts
    BY <1>1 DEF Expires, Takes
  <1>4. Reads(e, d, f)
    BY <1>1, <1>3 DEF Takes, Repeats, Collects
  <1>5. d.rx.parts[0] = f.body
    BY <1>2, <1>3, <1>4, ReadsFrame
  <1>6. f.body[1] = f.source
    BY <1>2 DEF Order, Issued
  <1>7. ~Seen(c.peers, FrameKey(f), f.seq)
    BY <1>3, <1>4 DEF Reads
  <1> QED BY <1>1, <1>2, <1>5, <1>6, <1>7, UnseenIsLater

LEMMA ReceiptOrder ==
    ASSUME PeersFit, Inv, Inv', Order, NEW n \in Node, NEW d, Becomes(n, d),
           Receipt(n, link[n], d), sent' = sent
    PROVE  Order'
  <1> DEFINE c == link[n]
             f == c.heard
  <1>1. PICK e : /\ Expires(c, e) /\ f # None /\ ForMe(n, f)
                 /\ Takes(n, e, d, f)
    BY DEF Receipt
  <1>2. /\ f \in aired /\ f # Garbled /\ f.type = "data"
    BY <1>1, InvLocal DEF OnAir, ForMe
  <1>3. /\ e \in Contexts /\ e.rx = c.rx /\ e.peers = c.peers
        /\ d \in Contexts /\ d.session = c.session /\ d.heard = None
    BY <1>1 DEF Expires, Takes
  <1>4. Numbering(n, c, d)
    BY InvLocal, ReceiptCarries, CarriedNumbers
  <1>5. Issued' /\ MessageOnce'
    BY <1>4, NumberingStep DEF Order
  <1>6. /\ aired \subseteq aired' /\ delivered \subseteq delivered'
        /\ \A x \in delivered' :
              x \in delivered \/ /\ d.rx # None /\ c.rx = None
                                 /\ x = <<n, d.session, d.rx.parts[0]>>
        /\ d.rx # None /\ c.rx = None =>
              <<n, d.session, d.rx.parts[0]>> \in delivered'
    BY <1>3, OrderShapes, BecomesOne
  <1>7. /\ f.body \in Messages /\ f.source \in Node
        /\ f.session \in 1 .. MaxSessions /\ f.body[1] = f.source
        /\ f.source # n
    BY <1>1, <1>2, OrderShapes DEF Order, Issued, Recalled, Hears
  <1>8. Hears(n, d, delivered')
    BY <1>3 DEF Hears
  <1>9. Recalls(n, c, aired', delivered)
    BY <1>5, <1>6, RecallsFrames DEF Order, Recalled
  <1>10. c.session <= d.session
    BY <1>3, OrderShapes
  <1>11. CASE Repeats(e, d, f) \/ Collects(e, d, f)
    <2>1. d.rx = c.rx
      BY <1>3, <1>11 DEF Repeats, Collects
    <2>2. /\ DOMAIN d.peers = DOMAIN c.peers
          /\ \A k \in DOMAIN c.peers : d.peers[k].newest = c.peers[k].newest
      BY <1>3, <1>11 DEF Repeats, Collects
    <2>3. delivered' = delivered
      BY <1>6, <2>1
    <2>4. Recalls(n, d, aired', delivered')
      BY <1>3, <1>9, <2>2, <2>3 DEF Recalls
    <2> QED BY <1>4, <1>8, <1>10, <2>1, <2>4, OrderNode
  <1>12. CASE Reads(e, d, f)
    <2>1. d.rx # None /\ d.rx.parts[0] = f.body /\ c.rx = None
      BY <1>2, <1>3, <1>12, ReadsFrame DEF Reads
    <2>2. /\ ~Seen(c.peers, FrameKey(f), f.seq)
          /\ DOMAIN d.peers = Kept(c.peers, FrameKey(f)) \union {FrameKey(f)}
          /\ \A k \in DOMAIN d.peers \ {FrameKey(f)} :
                k \in DOMAIN c.peers /\ d.peers[k].newest = c.peers[k].newest
          /\ d.peers[FrameKey(f)].newest =
                IF /\ FrameKey(f) \in DOMAIN c.peers
                   /\ ~Newer(f.seq, c.peers[FrameKey(f)].newest)
                THEN c.peers[FrameKey(f)].newest ELSE f.seq
      BY <1>3, <1>12 DEF Reads
    <2>3. d.peers[FrameKey(f)].newest = f.seq
      BY <1>1, <1>2, <2>2, ReadIsNewest
    <2>4. /\ <<n, c.session, f.body>> \in delivered'
          /\ \A x \in delivered' :
                x \in delivered \/ x = <<n, c.session, f.body>>
      BY <1>3, <1>6, <2>1
    <2>5. ASSUME NEW g \in aired', g.type = "data",
                 <<n, d.session, g.body>> \in delivered',
                 Latest(n, d.session, g, delivered')
          PROVE  /\ FrameKey(g) \in DOMAIN d.peers
                 /\ d.peers[FrameKey(g)].newest = g.seq
      <3>1. /\ g.body \in Messages /\ g.body[1] = g.source
            /\ g.source \in Node /\ g.session \in 1 .. MaxSessions
        BY <1>5, <2>5, DataFields DEF Inv, Shapes, Issued
      <3>2. CASE g.source = f.source
        <4>1. f.body[2] <= g.body[2]
          BY <1>3, <1>7, <2>4, <2>5, <3>2 DEF Latest
        <4>2. g.body = f.body
          <5>1. ASSUME <<n, c.session, g.body>> \in delivered
                PROVE  FALSE
            <6>1. g.body[2] < f.body[2]
              BY <1>1, <1>2, <2>2, <3>1, <3>2, <5>1, UnseenIsLater
            <6>2. g.body[2] \in Nat /\ f.body[2] \in Nat
              BY <1>7, <3>1, MessageShape
            <6> QED BY <4>1, <6>1, <6>2
          <5> QED BY <1>3, <2>4, <2>5, <5>1
        <4>3. g.session = f.session /\ g.seq = f.seq
          BY <1>2, <1>5, <1>6, <2>5, <4>2 DEF MessageOnce
        <4> QED BY <2>2, <2>3, <3>2, <4>3 DEF FrameKey
      <3>3. CASE g.source # f.source
        <4>1. <<n, c.session, g.body>> \in delivered
          BY <1>3, <1>7, <2>4, <2>5, <3>1, <3>3
        <4>2. Latest(n, c.session, g, delivered)
          BY <1>3, <1>6, <2>5 DEF Latest
        <4>3. /\ FrameKey(g) \in DOMAIN c.peers
              /\ c.peers[FrameKey(g)].newest = g.seq
          BY <1>9, <2>5, <4>1, <4>2 DEF Recalls
        <4>4. g.source # n
          BY <3>1, <4>1 DEF Order, Traced
        <4>5. c.peers \in Tables /\ FrameKey(f) \in Keys
          BY <1>7, InvLocal DEF Contexts, Keys, FrameKey
        <4>6. FrameKey(g)[1] = g.source /\ FrameKey(f)[1] = f.source
          BY DEF FrameKey
        <4>7. FrameKey(g) \in Kept(c.peers, FrameKey(f))
          BY <1>7, <3>3, <4>3, <4>4, <4>5, <4>6, PeersStay
        <4>8. FrameKey(g) # FrameKey(f)
          BY <3>3, <4>6
        <4> QED BY <2>2, <4>3, <4>7, <4>8
      <3> QED BY <3>2, <3>3
    <2>6. Recalls(n, d, aired', delivered')
      BY <2>5 DEF Recalls
    <2>7. \E g \in aired : /\ g.type = "data" /\ g.body = d.rx.parts[0]
                            /\ g.source # n
      BY <1>2, <1>7, <2>1
    <2> QED BY <1>4, <1>8, <1>10, <2>6, <2>7, OrderNode
  <1> QED BY <1>1, <1>11, <1>12 DEF Takes

\* hal_lora_link_send_start numbers the message above all that were started.
LEMMA StartOrder ==
    ASSUME Inv, Inv', Order, NEW n \in Node, SendStart(n)
    PROVE  Order' /\ (link[n].rx = None => link'[n].rx = None)
  <1> DEFINE c == link[n]
  <1>1. /\ c \in Contexts /\ Sound(c) /\ sent \in [Node -> Nat]
        /\ link \in [Node -> Contexts] /\ c.session \in 1 .. MaxSessions
    BY OrderShapes, InvLocal DEF Inv, Shapes
  <1>2. c.state = "RECEIVING" /\ sent[n] < Sends[n] /\ c.taken < MaxTakes
    BY DEF SendStart
  <1>3. CASE Continues(n, StopFails(c))
    <2>1. PICK d \in StopFails(c) : Becomes(n, d) /\ sent' = sent
      BY <1>3 DEF Continues
    <2>2. Advances(n, c, d)
      BY <1>1, <2>1, StopFailsAdvance
    <2>3. link'[n] = d /\ (c.rx = None => d.rx = None)
      BY <1>1, <2>1, <2>2, BecomesOne DEF Advances
    <2> QED BY <2>1, <2>2, <2>3, AdvanceOrder
  <1>4. ASSUME NEW to \in To[n], NEW count \in 1 .. MaxFragments,
               NEW acked \in BOOLEAN,
               NEW d \in SendFragment(n, Starting(n, c, to, count, acked)),
               Becomes(n, d), sent' = [sent EXCEPT ![n] = @ + 1]
        PROVE  Order' /\ (link[n].rx = None => link'[n].rx = None)
    <2>1. /\ d \in Contexts /\ d.session = c.session /\ d.rx = c.rx
          /\ d.peers = c.peers /\ d.heard = None
          /\ d.tx.result # "IDLE" /\ d.tx.msg = <<n, sent[n] + 1>>
          /\ d.air = None \/ d.air = Fragment(n, d, d.tx.index)
      <3>1. /\ d \in Contexts /\ d.session = c.session /\ d.rx = c.rx
            /\ d.asm = c.asm /\ d.peers = c.peers /\ d.taken = c.taken + 1
            /\ d.tx.seq = Seq(c.taken) /\ d.heard = None
            /\ d.tx.result \notin {"IDLE", "SUCCEEDED"}
            /\ d.tx.index < d.tx.count
            /\ d.tx.msg = <<n, sent[n] + 1>> /\ d.tx.msg \in Messages
            /\ d.tx.to \in Node \union {Broadcast}
            /\ Bound(d) /\ Poised(d)
            /\ d.air = None \/ d.air = Fragment(n, d, d.tx.index)
        BY <1>2, <1>4, SendStarts
      <3> QED BY <3>1
    <2>2. /\ sent' \in [Node -> Nat] /\ sent'[n] = sent[n] + 1
          /\ \A m \in Node : m # n => sent'[m] = sent[m]
      BY <1>1, <1>4
    <2>3. sent[n] \in Nat /\ sent[n] <= sent'[n]
      BY <1>1, <2>2
    <2>4. \A f \in aired : f.source = n => SentAs(f, d)
      <3> SUFFICES ASSUME NEW f \in aired, f.type = "data", f.source = n,
                          f.body = d.tx.msg
                   PROVE  FALSE
        BY DEF SentAs
      <3>1. f.body[2] <= sent[n]
        BY DEF Order, Issued
      <3> QED BY <2>1, <2>3, <3>1
    <2>5. Numbering(n, c, d)
      <3>1. d.air # None =>
               /\ d.air.source = n /\ d.air.body = d.tx.msg
               /\ d.air.session = d.session /\ d.air.seq = d.tx.seq
        BY <2>1 DEF Fragment
      <3> QED BY <2>1, <2>2, <2>3, <2>4, <3>1 DEF Numbering
    <2>6. /\ aired \subseteq aired' /\ delivered \subseteq delivered'
          /\ \A x \in delivered' : x \in delivered
          /\ link'[n] = d
      <3>1. /\ link' \in [Node -> Contexts] /\ link'[n] = d
            /\ \A m \in Node : m # n => link'[m] = link[m]
            /\ aired \subseteq aired' /\ delivered \subseteq delivered'
            /\ d.air # None => d.air \in aired'
            /\ \A f \in aired' : f \in aired \/ (f = d.air /\ d.air # None)
            /\ \A x \in delivered' :
                  x \in delivered \/ /\ d.rx # None /\ link[n].rx = None
                                     /\ x = <<n, d.session, d.rx.parts[0]>>
            /\ d.rx # None /\ link[n].rx = None =>
                  <<n, d.session, d.rx.parts[0]>> \in delivered'
        BY <1>1, <1>4, <2>1, BecomesOne
      <3> QED BY <2>1, <3>1
    <2>7. Hears(n, d, delivered')
      BY <2>1 DEF Hears
    <2>8. Recalls(n, d, aired', delivered')
      <3>1. Issued' /\ MessageOnce'
        BY <1>4, <2>5, NumberingStep DEF Order
      <3>2. Recalls(n, c, aired', delivered')
        BY <2>6, <3>1, RecallsGrows DEF Order, Recalled
      <3> QED BY <2>1, <3>2 DEF Recalls
    <2>9. c.session <= d.session
      BY <1>1, <2>1
    <2> QED BY <1>4, <2>1, <2>5, <2>6, <2>7, <2>8, <2>9, OrderNode
  <1> QED BY <1>3, <1>4 DEF SendStart, Starting

\* A new session has made nothing readable.
LEMMA CreateOrder ==
    ASSUME Inv, Inv', Order, NEW n \in Node, Recreate(n)
    PROVE  Order' /\ (link[n].rx = None => link'[n].rx = None)
  <1> DEFINE c == link[n]
  <1>1. /\ c \in Contexts /\ Sound(c) /\ link \in [Node -> Contexts]
        /\ c.session \in 1 .. MaxSessions
    BY OrderShapes, InvLocal
  <1>2. PICK d \in StartReceive(Created(c.session + 1)) \union StopFails(c) :
           Becomes(n, d)
    BY DEF Recreate, Continues
  <1>3. sent' = sent /\ sent \in [Node -> Nat]
    BY DEF Recreate, Continues, Inv, Shapes
  <1>4. CASE d \in StopFails(c)
    <2>1. Advances(n, c, d)
      BY <1>1, <1>4, StopFailsAdvance
    <2>2. link'[n] = d /\ (c.rx = None => d.rx = None)
      BY <1>1, <1>2, <2>1, BecomesOne DEF Advances
    <2> QED BY <1>2, <1>3, <2>1, <2>2, AdvanceOrder
  <1>5. CASE d \in StartReceive(Created(c.session + 1))
    <2>1. /\ d \in Contexts /\ d.session = c.session + 1
          /\ d.tx.result = "IDLE" /\ d.rx = None /\ d.air = None
          /\ d.heard = None
      BY <1>1, <1>5, SessionStarts DEF Recreate
    <2>2. /\ aired \subseteq aired'
          /\ \A x \in delivered' : x \in delivered
          /\ link'[n] = d
      BY <1>1, <1>2, <2>1, BecomesOne
    <2>3. Numbering(n, c, d)
      <3>1. sent' \in [Node -> Nat] /\ sent[n] <= sent'[n]
        BY <1>3
      <3> QED BY <1>3, <2>1, <3>1 DEF Numbering, SentAs
    <2>4. Hears(n, d, delivered')
      BY <2>1 DEF Hears
    <2>5. Recalls(n, d, aired', delivered')
      <3> SUFFICES ASSUME NEW m, <<n, d.session, m>> \in delivered'
                   PROVE  FALSE
        BY DEF Recalls
      <3>1. <<n, d.session, m>> \in delivered
        BY <2>2
      <3>2. d.session <= c.session
        BY <3>1 DEF Order, Traced
      <3> QED BY <1>1, <2>1, <3>2
    <2>6. c.session <= d.session
      BY <1>1, <2>1
    <2> QED BY <1>2, <2>1, <2>2, <2>3, <2>4, <2>5, <2>6, OrderNode
  <1> QED BY <1>2, <1>4, <1>5

\* Who hears a frame hears the last message that its source started.
LEMMA FrameEndsOrder ==
    ASSUME Inv, Order, NEW n \in Node, FrameEnds(n)
    PROVE  /\ Order'
           /\ \A m \in Node : link[m].rx = None => link'[m].rx = None
  <1> DEFINE c == link[n]
             f == c.air
  <1>1. /\ c \in Contexts /\ OnAir(n, c, aired)
        /\ link \in [Node -> Contexts] /\ aired \subseteq Frames
    BY InvLocal
  <1>2. /\ f # None /\ sent' = sent /\ aired' = aired
        /\ delivered' = delivered
    BY DEF FrameEnds
  <1>3. ASSUME NEW m \in Node
        PROVE  /\ link'[m].session = link[m].session
               /\ link'[m].tx = link[m].tx /\ link'[m].rx = link[m].rx
               /\ link'[m].peers = link[m].peers
               /\ \/ link'[m].heard = link[m].heard
                  \/ link'[m].heard \in {Garbled, None}
                  \/ link'[m].heard = f /\ m # n
    BY <1>1, FrameEndsHeard DEF Overhears
  <1>4. Issued' /\ Traced'
    BY <1>2, <1>3, OrderShapes DEF Order, Issued, Traced
  <1>5. MessageOnce'
    <2>1. \A g \in aired : SentAs(g, link'[g.source])
      <3> SUFFICES ASSUME NEW g \in aired
                   PROVE  SentAs(g, link'[g.source])
        OBVIOUS
      <3>1. g.source \in Node /\ SentAs(g, link[g.source])
        BY <1>1, FrameFields DEF Order, MessageOnce
      <3> QED BY <1>3, <3>1 DEF SentAs
    <2> QED BY <1>2, <2>1 DEF Order, MessageOnce
  <1>6. f.type = "data" => \A x \in delivered : x[3][1] = f.source =>
                              x[3][2] <= f.body[2]
    <2> SUFFICES ASSUME f.type = "data", NEW x \in delivered,
                        x[3][1] = f.source
                 PROVE  x[3][2] <= f.body[2]
      OBVIOUS
    <2>1. f \in aired /\ f.source = n /\ f.session = c.session
          /\ f.seq = c.tx.seq
      BY <1>2, <1>1 DEF OnAir
    <2>2. NumberIn(f, c)
      BY <2>1 DEF Inv, Numbered
    <2>3. c.tx.result # "IDLE" /\ f = Fragment(n, c, f.index)
      BY <2>1, <2>2 DEF NumberIn
    <2>4. f.body = <<n, sent[n]>>
      BY <2>3 DEF Fragment, Order, Issued
    <2>5. PICK g \in aired : g.type = "data" /\ g.body = x[3]
      BY DEF Order, Traced
    <2>6. g.body[1] = g.source /\ g.body[2] <= sent[g.source]
      BY <2>5 DEF Order, Issued
    <2> QED BY <2>1, <2>4, <2>5, <2>6
  <1>7. ASSUME NEW m \in Node
        PROVE  /\ Hears(m, link'[m], delivered)
               /\ Recalls(m, link'[m], aired, delivered)
    <2>1. Hears(m, link[m], delivered) /\ Recalls(m, link[m], aired, delivered)
      BY DEF Order, Recalled
    <2>2. Recalls(m, link'[m], aired, delivered)
      BY <1>3, <2>1 DEF Recalls
    <2>3. Hears(m, link'[m], delivered)
      <3>1. CASE link'[m].heard = link[m].heard
        BY <1>3, <2>1, <3>1 DEF Hears
      <3>2. CASE link'[m].heard \in {Garbled, None}
        BY <3>2 DEF Hears
      <3>3. CASE link'[m].heard = f /\ m # n
        <4>1. f.source = n
          BY <1>1, <1>2 DEF OnAir
        <4> QED BY <1>6, <3>3, <4>1 DEF Hears, Latest
      <3> QED BY <1>3, <3>1, <3>2, <3>3
    <2> QED BY <2>2, <2>3
  <1>8. Recalled'
    BY <1>2, <1>7 DEF Recalled
  <1> QED BY <1>3, <1>4, <1>5, <1>8 DEF Order

LEMMA OrderInitially ==
    ASSUME Init
    PROVE  Order
  <1>1. aired = {} /\ delivered = {}
    BY DEF Init
  <1>2. \A n \in Node : link[n].heard = None /\ link[n].tx.result = "IDLE"
    <2> DEFINE b == Created(1)
           d == [b EXCEPT !.state = "RECEIVING", !.radio = "rx"]
    <2>1. b \in Contexts /\ b.tx = NoSend /\ b.heard = None
      BY CreatedContext, NodesAssumption
    <2>2. link = [n \in Node |-> d]
      BY DEF Init
    <2> HIDE DEF b
    <2>3. d.tx = b.tx /\ d.heard = b.heard
      BY <2>1 DEF Contexts
    <2> HIDE DEF d
    <2>4. NoSend.result = "IDLE"
      BY DEF NoSend
    <2> QED BY <2>1, <2>2, <2>3, <2>4
  <1> QED BY <1>1, <1>2 DEF Order, Issued, MessageOnce, Traced, Recalled,
                            Hears, Recalls

\* What a step that makes a message readable promises of it.
Later(n) ==
    link[n].rx = None /\ link'[n].rx # None =>
      \A x \in delivered :
         x[1] = n /\ x[2] = link'[n].session
           /\ x[3][1] = link'[n].rx.parts[0][1]
         => x[3][2] < link'[n].rx.parts[0][2]

LEMMA AcceptingOrder ==
    ASSUME PeersFit, Inv, Inv', Order, NEW n \in Node,
           \/ ProcessNode(n) \/ Receive(n) \/ Cancel(n) \/ Deadline(n)
    PROVE  Order' /\ Later(n) /\ \A m \in Node : m # n => link'[m] = link[m]
  <1>1. Shapes /\ Airs /\ link \in [Node -> Contexts]
    BY DEF Inv, Shapes
  <1>2. sent' = sent
    BY DEF ProcessNode, ProcessReceive, ProcessTransmit, ProcessAckWait,
           ProcessRetryWait, ProcessError, Receive, Cancel, Deadline, Continues
  <1>3. PICK d : Becomes(n, d) /\ (\/ Advances(n, link[n], d)
                                   \/ Receipt(n, link[n], d))
    BY <1>1, ProcessReceiveKind, ProcessTransmitKind, ProcessAckWaitKind,
       ProcessRetryWaitKind, ProcessErrorKind, ReceiveKind, CancelKind,
       DeadlineKind DEF ProcessNode
  <1>4. d \in Contexts
    BY <1>3 DEF Advances, Receipt, Takes
  <1>5. link'[n] = d /\ \A m \in Node : m # n => link'[m] = link[m]
    BY <1>1, <1>3, <1>4, BecomesOne
  <1>6. CASE Advances(n, link[n], d)
    <2>1. Order'
      BY <1>2, <1>3, <1>6, AdvanceOrder
    <2>2. Later(n)
      BY <1>5, <1>6 DEF Advances, Later
    <2> QED BY <1>5, <2>1, <2>2
  <1>7. CASE Receipt(n, link[n], d)
    <2>1. Order'
      BY <1>2, <1>3, <1>7, ReceiptOrder
    <2>2. d.session = link[n].session
      BY <1>7 DEF Receipt, Takes, Expires
    <2>3. Later(n)
      BY <1>3, <1>5, <1>7, <2>2, ReceiptLater DEF Later
    <2> QED BY <1>5, <2>1, <2>3
  <1> QED BY <1>3, <1>6, <1>7

LEMMA OrderStep ==
    ASSUME PeersFit, Inv, Inv', Order, [Next]_vars
    PROVE  Order' /\ \A m \in Node : Later(m)
  <1>1. CASE Next
    <2>1. PICK n \in Node : \/ ProcessNode(n) \/ SendStart(n) \/ Receive(n)
                            \/ Cancel(n) \/ Recreate(n)
                            \/ FrameEnds(n) \/ Deadline(n)
      BY <1>1 DEF Next
    <2>2. CASE ProcessNode(n) \/ Receive(n) \/ Cancel(n) \/ Deadline(n)
      <3>1. Order' /\ Later(n) /\ \A m \in Node : m # n => link'[m] = link[m]
        BY <2>2, AcceptingOrder
      <3>2. \A m \in Node : m # n => Later(m)
        BY <3>1 DEF Later
      <3> QED BY <3>1, <3>2
    <2>3. CASE SendStart(n) \/ Recreate(n)
      <3>1. Order' /\ (link[n].rx = None => link'[n].rx = None)
        BY <2>3, StartOrder, CreateOrder
      <3>2. \A m \in Node : m # n => link'[m] = link[m]
        <4>1. \E d : link' = [link EXCEPT ![n] = d]
          BY <2>3 DEF SendStart, Recreate, Continues, Becomes
        <4> QED BY <4>1 DEF Inv, Shapes
      <3> QED BY <3>1, <3>2 DEF Later
    <2>4. CASE FrameEnds(n)
      BY <2>4, FrameEndsOrder DEF Later
    <2> QED BY <2>1, <2>2, <2>3, <2>4
  <1>2. CASE UNCHANGED vars
    <2>1. /\ link' = link /\ sent' = sent
          /\ aired' = aired /\ delivered' = delivered
      BY <1>2 DEF vars
    <2>2. Issued' /\ MessageOnce' /\ Traced' /\ Recalled'
      BY <2>1 DEF Order, Issued, MessageOnce, Traced, Recalled
    <2> QED BY <2>1, <2>2 DEF Order, Later
  <1> QED BY <1>1, <1>2

\* accept_data_frame makes a source's messages readable once, and in the order
\* the source started them, however often they are retried: as long as the
\* table of the peers keeps a window for every source and session.  A link
\* whose table is smaller than that forgets a peer, and what that peer retries
\* is made readable again.
THEOREM DeliversInOrder ==
    ASSUME PeersFit
    PROVE  Spec => InOrderOnce
  <1>1. Init => Order
    BY OrderInitially
  <1>2. Inv /\ Inv' /\ Order /\ [Next]_vars => Order'
    BY OrderStep
  <1>3. Inv /\ Inv' /\ Order /\ [Next]_vars =>
           [\A n \in Node : link[n].rx = None /\ link'[n].rx # None =>
             LET m == link'[n].rx.parts[0] IN
               \A d \in delivered :
                 d[1] = n /\ d[2] = link'[n].session /\ d[3][1] = m[1]
                   => d[3][2] < m[2]]_vars
    BY OrderStep DEF Later
  <1> QED BY <1>1, <1>2, <1>3, LinkInvariant, PTL DEF Spec, InOrderOnce
=============================================================================
