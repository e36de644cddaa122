--------------------------- MODULE OtaBootProofs ---------------------------
(***************************************************************************)
(* Proofs about OtaBoot, for any number of images, sectors and boot        *)
(* attempts and any width of the sequence counter: types, the safety of    *)
(* both images, whole launches, and records that never fall back.          *)
(*                                                                         *)
(* NothingLost is not inductive as it stands.  OtaInv adds what the        *)
(* processor is about to do: a record about to be written is already true  *)
(* of the flash (Staged), a copy that waits for its mark has arrived       *)
(* (Copied), and a receiving application runs under a STABLE record.       *)
(***************************************************************************)
EXTENDS OtaBoot, TLAPS

(***************************************************************************)
(* The inductive invariant.                                                *)
(***************************************************************************)
FlashTyped ==
    /\ flash \in Flashes
    /\ upload \in [session : {"idle", "receive"}, active : BOOLEAN,
                   image : Images \cup {NoImage}, got : 0..NSectors]
    /\ tries \in 0..(MaxAttempts + 1)

\* The mode a record must have for the code to go on where it goes.
LeadsTo(then, m) ==
    \/ then = "app" /\ m \in {"TRIAL", "RECOVERY"}
    \/ then = "copy" /\ m = "ROLLBACK"
    \/ then = "tidy" /\ m \in {"TRIAL", "STABLE"}
    \/ then \in {"journal", "return"} /\ m = "STABLE"
    \/ then = "ended" /\ m = "PENDING"

ProgramWhole ==
    IF Provisioned(flash) THEN Holds(flash.program, Current(flash).prog)
                          ELSE Holds(flash.program, Factory)

\* A record about to be written.
Staged ==
    run.at = "write" =>
        /\ run \in [at : {"write"}, rec : Records,
                    then : {"app", "copy", "tidy", "journal", "return", "ended"},
                    otherwise : {"app", "off", "return", "ended"}]
        /\ RecordSound(flash, run.rec, FALSE)
        /\ Holds(flash.program, run.rec.prog)
        /\ LeadsTo(run.then, run.rec.mode)
        /\ run.otherwise # "off" => ProgramWhole
        /\ run.otherwise = "ended" => run.then \in {"journal", "ended"}
        /\ run.otherwise = "app" => Provisioned(flash) /\ Current(flash).mode # "TRIAL"
        /\ run.then = "journal" =>
              /\ ~Provisioned(flash) /\ run.otherwise = "ended"
              /\ Holds(flash.staging, upload.image) /\ upload.image \in Images
        /\ run.then # "journal" =>
              Provisioned(flash) /\ run.rec.seq = NextSeq(Current(flash).seq)
        /\ run.then = "tidy" => tries = 0 /\ run.otherwise = "off"
        /\ run.then = "app" /\ run.rec.mode = "TRIAL" =>
              tries <= run.rec.attempts /\ run.otherwise = "off"

\* A copy that waits for its mark.
Copied ==
    run.at = "mark" => \A n \in Sectors : SwapAt(flash, n) =>
        /\ flash.phase[n] = "FF" => flash.scratch = Part(Current(flash).prog, n)
        /\ flash.phase[n] = "FE" => flash.program[n] = Part(Current(flash).stag, n)
        /\ flash.phase[n] = "FC" => flash.staging[n] = Part(Current(flash).prog, n)

RunOK ==
    /\ run \in {Off, App}
               \cup {Doing(w) : w \in {"copy", "mark", "erase", "tidy", "journal"}}
       \/ run.at = "write"
    /\ run.at \in {"copy", "mark"} =>
          Provisioned(flash) /\ Current(flash).mode \in {"PENDING", "ROLLBACK"}
    /\ run.at = "erase" => Provisioned(flash) /\ Current(flash).mode = "TRIAL"
    /\ run.at = "tidy" =>
          /\ Provisioned(flash) /\ Current(flash).mode \in {"TRIAL", "STABLE"}
          /\ tries = 0
    /\ run.at = "journal" =>
          /\ Provisioned(flash) /\ Current(flash).mode = "STABLE"
          /\ Holds(flash.staging, upload.image) /\ upload.image \in Images

UploadOK ==
    upload.session = "receive" =>
        /\ run.at \in {"app", "journal"} \/ (run.at = "write" /\ run.otherwise = "ended")
        /\ run.at = "app" =>
              /\ upload.image \in Images
              /\ Provisioned(flash) => Current(flash).mode = "STABLE"

TriesOK ==
    Provisioned(flash) /\ Current(flash).mode = "TRIAL" =>
        tries <= Current(flash).attempts + 1

OtaInv ==
    /\ FlashTyped
    /\ NothingLost
    /\ Staged
    /\ Copied
    /\ RunOK
    /\ UploadOK
    /\ TriesOK
    /\ LaunchIsWhole

(***************************************************************************)
(* The two records.                                                        *)
(***************************************************************************)
LEMMA SequenceStep ==
  ASSUME NEW q \in Seqs
  PROVE  /\ NextSeq(q) \in Seqs
         /\ SequenceNewer(NextSeq(q), q)
         /\ ~SequenceNewer(q, NextSeq(q))
BY OtaAssumption DEF Seqs, NextSeq, SequenceNewer

LEMMA RecordDecodes ==
  ASSUME NEW r \in Records
  PROVE  Decodes(r) /\ r.seq \in Seqs /\ r # NoRecord
<1>1. r.mode \in Modes /\ r.seq \in Seqs
  BY DEF Records
<1>2. r.mode # "none"
  BY <1>1 DEF Modes
<1> QED
  BY <1>1, <1>2 DEF Decodes, NoRecord

LEMMA RecordFields ==
  ASSUME NEW f \in Flashes
  PROVE  /\ f.record \in [{0, 1} -> Records \cup {NoRecord}]
         /\ f.program \in [Sectors -> Contents]
         /\ f.staging \in [Sectors -> Contents]
         /\ f.scratch \in Contents
         /\ f.phase \in [Sectors -> Marks]
BY DEF Flashes

\* Only the records decide which record counts.
LEMMA SameRecords ==
  ASSUME NEW f, NEW g, f.record = g.record
  PROVE  /\ Provisioned(f) <=> Provisioned(g)
         /\ Current(f) = Current(g)
         /\ Selected(f) = Selected(g)
BY DEF Provisioned, Current, Selected

LEMMA CurrentTyped ==
  ASSUME NEW f \in Flashes, Provisioned(f)
  PROVE  /\ Selected(f) \in {0, 1}
         /\ Current(f) \in Records
         /\ f.record[Selected(f)] = Current(f)
<1>1. f.record \in [{0, 1} -> Records \cup {NoRecord}]
  BY RecordFields
<1>2. ~Decodes(NoRecord)
  BY DEF Decodes, NoRecord
<1> QED
  BY <1>1, <1>2 DEF Provisioned, Selected, Current

\* A record write touches nothing but the record that is not selected.
LEMMA StoreFields ==
  ASSUME NEW f \in Flashes, NEW r \in Records \cup {NoRecord}
  PROVE  /\ Store(f, r) \in Flashes
         /\ Target(f) \in {0, 1}
         /\ Store(f, r).record = [f.record EXCEPT ![Target(f)] = r]
         /\ Store(f, r).program = f.program
         /\ Store(f, r).staging = f.staging
         /\ Store(f, r).scratch = f.scratch
         /\ Store(f, r).phase = f.phase
<1>1. Target(f) \in {0, 1}
  BY DEF Target, Selected
<1>2. [f.record EXCEPT ![Target(f)] = r] \in [{0, 1} -> Records \cup {NoRecord}]
  BY <1>1, RecordFields
<1>3. Store(f, r) = [f EXCEPT !.record = [f.record EXCEPT ![Target(f)] = r]]
  BY DEF Store
<1> QED
  BY <1>1, <1>2, <1>3 DEF Flashes

\* A complete successor is selected.
LEMMA StoreSelects ==
  ASSUME NEW f \in Flashes, NEW r \in Records,
         Provisioned(f) => r.seq = NextSeq(Current(f).seq)
  PROVE  Provisioned(Store(f, r)) /\ Current(Store(f, r)) = r
<1> DEFINE g == Store(f, r)
           t == Target(f)
<1>1. g.record = [f.record EXCEPT ![t] = r] /\ t \in {0, 1}
  BY StoreFields
<1>2. f.record \in [{0, 1} -> Records \cup {NoRecord}]
  BY RecordFields
<1>3. g.record[t] = r /\ Decodes(r)
  BY <1>1, <1>2, RecordDecodes
<1>4. Provisioned(g)
  BY <1>1, <1>3 DEF Provisioned
<1>5. CASE ~Provisioned(f)
  <2>1. t = 0 /\ ~Decodes(f.record[1])
    BY <1>5 DEF Target, Provisioned
  <2>2. g.record[1] = f.record[1]
    BY <1>1, <1>2, <2>1
  <2>3. Selected(g) = 0
    BY <2>1, <2>2 DEF Selected
  <2> QED
    BY <1>3, <1>4, <2>1, <2>3 DEF Current
<1>6. CASE Provisioned(f)
  <2> DEFINE c == Selected(f)
  <2>1. c \in {0, 1} /\ Current(f) \in Records /\ f.record[c] = Current(f)
    BY <1>6, CurrentTyped
  <2>2. t = 1 - c
    BY <1>6 DEF Target
  <2>3. g.record[c] = Current(f)
    BY <1>1, <1>2, <2>1, <2>2
  <2>4. /\ SequenceNewer(r.seq, Current(f).seq)
        /\ ~SequenceNewer(Current(f).seq, r.seq)
    BY <1>6, <2>1, RecordDecodes, SequenceStep
  <2>5. Decodes(Current(f))
    BY <2>1, RecordDecodes
  <2>6. Selected(g) = t
    <3>1. CASE c = 0
      <4>1. t = 1 /\ g.record[1] = r /\ g.record[0] = Current(f)
        BY <3>1, <2>2, <2>3, <1>3
      <4> QED
        BY <4>1, <1>3, <2>4 DEF Selected
    <3>2. CASE c = 1
      <4>1. t = 0 /\ g.record[0] = r /\ g.record[1] = Current(f)
        BY <3>2, <2>2, <2>3, <1>3
      <4> QED
        BY <4>1, <1>3, <2>4, <2>5 DEF Selected
    <3> QED
      BY <3>1, <3>2, <2>1
  <2> QED
    BY <1>3, <1>4, <2>6 DEF Current
<1> QED
  BY <1>5, <1>6

\* A record write that is cut short leaves the selected record in charge.
LEMMA StoreCut ==
  ASSUME NEW f \in Flashes
  PROVE  /\ Provisioned(Store(f, NoRecord)) <=> Provisioned(f)
         /\ Provisioned(f) => Current(Store(f, NoRecord)) = Current(f)
<1> DEFINE g == Store(f, NoRecord)
           t == Target(f)
<1>1. g.record = [f.record EXCEPT ![t] = NoRecord] /\ t \in {0, 1}
  BY StoreFields
<1>2. f.record \in [{0, 1} -> Records \cup {NoRecord}]
  BY RecordFields
<1>3. g.record[t] = NoRecord /\ ~Decodes(NoRecord)
  BY <1>1, <1>2 DEF Decodes, NoRecord
<1>4. CASE ~Provisioned(f)
  <2>1. t = 0 /\ ~Decodes(f.record[1])
    BY <1>4 DEF Target, Provisioned
  <2>2. g.record[1] = f.record[1]
    BY <1>1, <1>2, <2>1
  <2> QED
    BY <1>3, <1>4, <2>1, <2>2 DEF Provisioned
<1>5. CASE Provisioned(f)
  <2> DEFINE c == Selected(f)
  <2>1. c \in {0, 1} /\ Current(f) \in Records /\ f.record[c] = Current(f)
    BY <1>5, CurrentTyped
  <2>2. t = 1 - c
    BY <1>5 DEF Target
  <2>3. g.record[c] = Current(f) /\ Decodes(Current(f))
    BY <1>1, <1>2, <2>1, <2>2, RecordDecodes
  <2>4. Provisioned(g)
    BY <2>1, <2>3 DEF Provisioned
  <2>5. Selected(g) = c
    <3>1. CASE c = 0
      BY <3>1, <2>2, <1>3 DEF Selected
    <3>2. CASE c = 1
      BY <3>2, <2>2, <2>3, <1>3 DEF Selected
    <3> QED
      BY <3>1, <3>2, <2>1
  <2> QED
    BY <1>5, <2>3, <2>4, <2>5 DEF Current
<1> QED
  BY <1>4, <1>5

(***************************************************************************)
(* The journal and the slots.                                              *)
(***************************************************************************)
LEMMA BlankJournal ==
  ASSUME NEW f
  PROVE  ~SwapStarted(f) => \A n \in Sectors : f.phase[n] = "FF"
BY DEF SwapStarted, Blank

\* What a record says of the flash, it says of the slots and the journal.
LEMMA SameSlots ==
  ASSUME NEW f, NEW g, NEW r, NEW c,
         f.program = g.program, f.staging = g.staging,
         f.scratch = g.scratch, f.phase = g.phase
  PROVE  RecordSound(f, r, c) <=> RecordSound(g, r, c)
BY DEF RecordSound, SwapTells, SwapStarted, Holds

LEMMA SoundUnchecked ==
  ASSUME NEW f, NEW r, NEW c \in BOOLEAN, RecordSound(f, r, c)
  PROVE  RecordSound(f, r, FALSE)
BY DEF RecordSound, SwapTells

\* Under a record that is not swapping, the journal and the scratch sector
\* are free.
LEMMA SlotsDecide ==
  ASSUME NEW f, NEW g, NEW r, NEW c, NEW d,
         r.mode \notin {"PENDING", "ROLLBACK"},
         f.program = g.program, f.staging = g.staging
  PROVE  RecordSound(f, r, c) <=> RecordSound(g, r, d)
BY DEF RecordSound, Holds

\* The place of a swap is unique, and only there is a sector between marks.
LEMMA SwapPlace ==
  ASSUME NEW f, NEW p, NEW s, NEW c, SwapTells(f, p, s, c),
         NEW n \in Sectors, SwapAt(f, n), NEW k \in Sectors, k # n
  PROVE  ~SwapAt(f, k) /\ f.phase[k] \notin {"FE", "FC"}
<1>1. n \in Nat /\ k \in Nat /\ n \in 1..NSectors /\ k \in 1..NSectors
  BY OtaAssumption DEF Sectors
<1>2. CASE k < n
  <2>1. k \in 1..(n - 1)
    BY <1>1, <1>2
  <2> QED
    BY <2>1 DEF SwapAt
<1>3. CASE n < k
  <2>1. n \in 1..(k - 1)
    BY <1>1, <1>3
  <2>2. f.phase[n] # "F8"
    BY DEF SwapAt
  <2> QED
    BY <2>1, <2>2 DEF SwapAt, SwapTells
<1> QED
  BY <1>1, <1>2, <1>3

LEMMA CopyFields ==
  ASSUME NEW f \in Flashes, NEW n \in Sectors, f.phase[n] \in {"FF", "FE", "FC"},
         NEW g \in {Copy(f, n, f.phase[n]), CopyTorn(f, n, f.phase[n])}
  PROVE  /\ g \in Flashes /\ g.record = f.record /\ g.phase = f.phase
         /\ f.phase[n] # "FF" => g.scratch = f.scratch
         /\ f.phase[n] # "FE" => g.program = f.program
         /\ f.phase[n] # "FC" => g.staging = f.staging
         /\ \A k \in Sectors \ {n} : g.program[k] = f.program[k] /\ g.staging[k] = f.staging[k]
<1>1. Junk \in Contents /\ f.program[n] \in Contents /\ f.staging[n] \in Contents
      /\ f.scratch \in Contents
  BY RecordFields DEF Contents
<1>2. CASE f.phase[n] = "FF"
  <2>1. PICK x \in Contents : g = [f EXCEPT !.scratch = x]
    BY <1>1, <1>2 DEF Copy, CopyTorn
  <2> QED
    BY <2>1, <1>2 DEF Flashes
<1>3. CASE f.phase[n] = "FE"
  <2>1. PICK x \in Contents : g = [f EXCEPT !.program[n] = x]
    BY <1>1, <1>3 DEF Copy, CopyTorn
  <2>2. g.program = [f.program EXCEPT ![n] = x] /\ g.program \in [Sectors -> Contents]
    BY <2>1, RecordFields DEF Flashes
  <2>3. \A k \in Sectors \ {n} : g.program[k] = f.program[k]
    BY <2>2, RecordFields
  <2> QED
    BY <2>1, <2>2, <2>3, <1>3 DEF Flashes
<1>4. CASE f.phase[n] = "FC"
  <2>1. PICK x \in Contents : g = [f EXCEPT !.staging[n] = x]
    BY <1>1, <1>4 DEF Copy, CopyTorn
  <2>2. g.staging = [f.staging EXCEPT ![n] = x] /\ g.staging \in [Sectors -> Contents]
    BY <2>1, RecordFields DEF Flashes
  <2>3. \A k \in Sectors \ {n} : g.staging[k] = f.staging[k]
    BY <2>2, RecordFields
  <2> QED
    BY <2>1, <2>2, <2>3, <1>4 DEF Flashes
<1> QED
  BY <1>2, <1>3, <1>4

\* A copy, whole or cut short, overwrites only what no mark counts on.
LEMMA CopyKeeps ==
  ASSUME NEW f \in Flashes, NEW p, NEW s, NEW c, SwapTells(f, p, s, c),
         NEW n \in Sectors, SwapAt(f, n), f.phase[n] # "bad",
         NEW g \in {Copy(f, n, f.phase[n]), CopyTorn(f, n, f.phase[n])}
  PROVE  SwapTells(g, p, s, c)
<1>1. f.phase[n] \in {"FF", "FE", "FC"}
  BY RecordFields DEF SwapAt, Marks
<1>2. /\ g.phase = f.phase
      /\ f.phase[n] # "FF" => g.scratch = f.scratch
      /\ f.phase[n] # "FE" => g.program = f.program
      /\ f.phase[n] # "FC" => g.staging = f.staging
      /\ \A k \in Sectors \ {n} : g.program[k] = f.program[k] /\ g.staging[k] = f.staging[k]
  BY <1>1, CopyFields
<1>3. \A k \in Sectors \ {n} : f.phase[k] \notin {"FE", "FC"}
  BY SwapPlace
<1> QED
  BY <1>1, <1>2, <1>3 DEF SwapTells

\* A copy that is whole has put the part where the next mark says it is.
LEMMA CopyArrives ==
  ASSUME NEW f \in Flashes, NEW p, NEW s, SwapTells(f, p, s, TRUE),
         NEW n \in Sectors, SwapAt(f, n), f.phase[n] # "bad"
  PROVE  LET g == Copy(f, n, f.phase[n])
         IN  /\ f.phase[n] = "FF" => g.scratch = Part(p, n)
             /\ f.phase[n] = "FE" => g.program[n] = Part(s, n)
             /\ f.phase[n] = "FC" => g.staging[n] = Part(p, n)
<1> DEFINE g == Copy(f, n, f.phase[n])
<1>1. CASE f.phase[n] = "FF"
  <2>1. g = [f EXCEPT !.scratch = f.program[n]]
    BY <1>1 DEF Copy
  <2>2. g.scratch = f.program[n]
    BY <2>1 DEF Flashes
  <2> QED
    BY <2>2, <1>1 DEF SwapTells
<1>2. CASE f.phase[n] = "FE"
  <2>1. g = [f EXCEPT !.program[n] = f.staging[n]]
    BY <1>2 DEF Copy
  <2>2. g.program = [f.program EXCEPT ![n] = f.staging[n]]
    BY <2>1 DEF Flashes
  <2>3. g.program[n] = f.staging[n]
    BY <2>2, RecordFields
  <2> QED
    BY <2>3, <1>2 DEF SwapTells
<1>3. CASE f.phase[n] = "FC"
  <2>1. g = [f EXCEPT !.staging[n] = f.scratch]
    BY <1>3 DEF Copy
  <2>2. g.staging = [f.staging EXCEPT ![n] = f.scratch]
    BY <2>1 DEF Flashes
  <2>3. g.staging[n] = f.scratch
    BY <2>2, RecordFields
  <2> QED
    BY <2>3, <1>3 DEF SwapTells
<1> QED
  BY <1>1, <1>2, <1>3

Marked(f, n) == [f EXCEPT !.phase[n] = NextMark(@)]
Arrived(f, p, s, n) ==
    /\ f.phase[n] = "FF" => f.scratch = Part(p, n)
    /\ f.phase[n] = "FE" => f.program[n] = Part(s, n)
    /\ f.phase[n] = "FC" => f.staging[n] = Part(p, n)

\* A mark behind a copy that has arrived says the truth.
LEMMA MarkKeeps ==
  ASSUME NEW f \in Flashes, NEW p, NEW s, SwapTells(f, p, s, TRUE),
         NEW n \in Sectors, SwapAt(f, n), Arrived(f, p, s, n)
  PROVE  /\ Marked(f, n) \in Flashes /\ Marked(f, n).record = f.record
         /\ SwapTells(Marked(f, n), p, s, TRUE)
<1> DEFINE g == Marked(f, n)
<1>1. f.phase[n] \in {"FF", "FE", "FC"}
  BY RecordFields DEF SwapAt, Marks, SwapTells
<1>2. NextMark(f.phase[n]) \in Marks \ {"FF", "bad"}
  BY <1>1 DEF NextMark, Marks
<1>3. g = [f EXCEPT !.phase = [f.phase EXCEPT ![n] = NextMark(f.phase[n])]]
  BY DEF Marked
<1>4. /\ g.phase = [f.phase EXCEPT ![n] = NextMark(f.phase[n])]
      /\ g.program = f.program /\ g.staging = f.staging /\ g.scratch = f.scratch
      /\ g.record = f.record
  BY <1>3 DEF Flashes
<1>5. g.phase \in [Sectors -> Marks]
  BY <1>2, <1>4, RecordFields
<1>6. g \in Flashes
  BY <1>3, <1>5 DEF Flashes
<1>7. /\ g.phase[n] = NextMark(f.phase[n])
      /\ \A k \in Sectors \ {n} : g.phase[k] = f.phase[k]
  BY <1>4, RecordFields
<1>8. \A k \in Sectors \ {n} : f.phase[k] \notin {"FE", "FC"}
  BY SwapPlace
<1>9. \A t \in 1..(n - 1) : t \in Sectors \ {n} /\ f.phase[t] = "F8"
  BY OtaAssumption DEF Sectors, SwapAt
<1>10. \A k \in Sectors : g.phase[k] # "FF" => \A t \in 1..(k - 1) : g.phase[t] = "F8"
  <2> SUFFICES ASSUME NEW k \in Sectors, g.phase[k] # "FF", NEW t \in 1..(k - 1)
               PROVE  g.phase[t] = "F8"
    OBVIOUS
  <2>1. t \in Sectors
    BY OtaAssumption DEF Sectors
  <2>2. CASE k = n
    BY <2>2, <1>7, <1>9
  <2>3. CASE k # n
    <3>1. f.phase[k] # "FF" /\ f.phase[t] = "F8"
      BY <2>3, <1>7 DEF SwapTells
    <3>2. t # n
      BY <3>1, <1>1
    <3> QED
      BY <3>1, <3>2, <2>1, <1>7
  <2> QED
    BY <2>2, <2>3
<1>11. SwapTells(g, p, s, TRUE)
  <2> SUFFICES ASSUME NEW k \in Sectors
               PROVE  /\ g.phase[k] # "bad"
                      /\ g.phase[k] = "FF" => f.program[k] = Part(p, k) /\ f.staging[k] = Part(s, k)
                      /\ g.phase[k] = "FE" => f.scratch = Part(p, k) /\ f.staging[k] = Part(s, k)
                      /\ g.phase[k] = "FC" => f.scratch = Part(p, k) /\ f.program[k] = Part(s, k)
                      /\ g.phase[k] = "F8" => f.program[k] = Part(s, k) /\ f.staging[k] = Part(p, k)
    BY <1>4, <1>10 DEF SwapTells
  <2>1. CASE k = n
    BY <2>1, <1>1, <1>7 DEF NextMark, SwapTells, Arrived
  <2>2. CASE k # n
    BY <2>2, <1>7, <1>8 DEF SwapTells
  <2> QED
    BY <2>1, <2>2
<1> QED
  BY <1>4, <1>6, <1>11

(***************************************************************************)
(* Steps.                                                                  *)
(***************************************************************************)
UploadTyped == [session : {"idle", "receive"}, active : BOOLEAN,
                image : Images \cup {NoImage}, got : 0..NSectors]

\* What the flash must hold when nothing is running.
AtRest(f) == IF Provisioned(f) THEN RecordSound(f, Current(f), FALSE)
                               ELSE Holds(f.program, Factory)

LEMMA IdleTyped == Idle \in UploadTyped /\ Idle.session = "idle"
BY OtaAssumption DEF Idle, UploadTyped

LEMMA RestsOff ==
  ASSUME flash' \in Flashes, AtRest(flash'), run' = Off,
         upload' \in UploadTyped, upload'.session = "idle",
         tries' \in 0..(MaxAttempts + 1), TriesOK'
  PROVE  OtaInv'
<1>1. run'.at = "off" /\ run' # App
  BY DEF Off, App
<1>2. FlashTyped' /\ Staged' /\ Copied' /\ UploadOK' /\ LaunchIsWhole'
  BY <1>1 DEF FlashTyped, Staged, Copied, UploadOK, LaunchIsWhole, UploadTyped
<1>3. RunOK'
  BY <1>1 DEF RunOK
<1>4. NothingLost'
  BY <1>1 DEF NothingLost, AtRest
<1> QED
  BY <1>2, <1>3, <1>4 DEF OtaInv

LEMMA RestsInApp ==
  ASSUME flash' \in Flashes, AtRest(flash'), run' = App, ProgramWhole',
         upload' \in UploadTyped,
         upload'.session = "receive" =>
            /\ upload'.image \in Images
            /\ Provisioned(flash') => Current(flash').mode = "STABLE",
         tries' \in 0..(MaxAttempts + 1), TriesOK'
  PROVE  OtaInv'
<1>1. run'.at = "app"
  BY DEF App
<1>2. FlashTyped' /\ Staged' /\ Copied' /\ UploadOK'
  BY <1>1 DEF FlashTyped, Staged, Copied, UploadOK, UploadTyped
<1>3. RunOK' /\ LaunchIsWhole'
  BY <1>1 DEF RunOK, LaunchIsWhole, ProgramWhole
<1>4. NothingLost'
  BY <1>1 DEF NothingLost, AtRest
<1> QED
  BY <1>2, <1>3, <1>4 DEF OtaInv

LEMMA InvRests == OtaInv => AtRest(flash)
BY DEF OtaInv, NothingLost, AtRest

LEMMA OtaInitOK == Init => OtaInv
<1> SUFFICES ASSUME Init PROVE OtaInv
  OBVIOUS
<1>1. /\ flash.program = [s \in Sectors |-> Part(Factory, s)]
      /\ flash.staging = [s \in Sectors |-> Junk]
      /\ flash.scratch = Junk /\ flash.phase = Blank
      /\ flash.record = [i \in {0, 1} |-> NoRecord]
  BY DEF Init
<1>2. flash \in Flashes
  BY OtaAssumption DEF Init, Flashes, Contents, Blank, Marks
<1>3. ~Provisioned(flash)
  BY <1>1 DEF Provisioned, Decodes, NoRecord
<1>4. Holds(flash.program, Factory)
  BY <1>1 DEF Holds
<1>5. run.at = "off" /\ run = Off /\ run # App
  BY DEF Init, Off, App
<1>6. upload = Idle /\ tries = 0
  BY DEF Init
<1>7. FlashTyped /\ UploadOK
  BY <1>2, <1>6, IdleTyped, OtaAssumption DEF FlashTyped, UploadTyped, UploadOK
<1> QED
  BY <1>3, <1>4, <1>5, <1>6, <1>7 DEF OtaInv, NothingLost, Staged, Copied, RunOK,
     TriesOK, LaunchIsWhole

\* Whatever is cut short, the selected record stays and stays true.
LEMMA CutKeeps ==
  ASSUME OtaInv, NEW g \in {flash} \cup Cut(flash)
  PROVE  /\ g \in Flashes
         /\ Provisioned(g) <=> Provisioned(flash)
         /\ Provisioned(flash) =>
               /\ Current(g) = Current(flash)
               /\ RecordSound(g, Current(flash), FALSE)
               /\ run.at \in {"copy", "mark"} => RecordSound(g, Current(flash), TRUE)
         /\ ~Provisioned(flash) => Holds(g.program, Factory)
         /\ run.at # "copy" \/ ~SwapStarted(flash) => g.program = flash.program
         /\ run.at \in {"copy", "mark", "write", "app"} => g.phase = flash.phase
<1>1. flash \in Flashes /\ NothingLost
  BY DEF OtaInv, FlashTyped
<1>2. CASE g = flash
  BY <1>1, <1>2 DEF NothingLost
<1>3. CASE run.at = "copy" /\ g \in Cut(flash)
  <2>1. PICK n \in Sectors : /\ SwapAt(flash, n) /\ flash.phase[n] # "bad"
                             /\ g = CopyTorn(flash, n, flash.phase[n])
    BY <1>3 DEF Cut
  <2>2. flash.phase[n] \in {"FF", "FE", "FC"}
    BY <2>1, <1>1, RecordFields DEF SwapAt, Marks
  <2>3. /\ g \in Flashes /\ g.record = flash.record /\ g.phase = flash.phase
        /\ flash.phase[n] # "FE" => g.program = flash.program
    BY <2>1, <2>2, <1>1, CopyFields
  <2>4. /\ Provisioned(flash) /\ Current(flash).mode \in {"PENDING", "ROLLBACK"}
        /\ RecordSound(flash, Current(flash), TRUE)
    BY <1>1, <1>3 DEF OtaInv, RunOK, NothingLost
  <2>5. SwapTells(flash, Current(flash).prog, Current(flash).stag, TRUE)
    BY <2>4 DEF RecordSound
  <2>6. SwapTells(g, Current(flash).prog, Current(flash).stag, TRUE)
    BY <2>1, <2>5, <1>1, CopyKeeps
  <2>7. (Provisioned(g) <=> Provisioned(flash)) /\ Current(g) = Current(flash)
    BY <2>3, SameRecords
  <2>8. RecordSound(g, Current(flash), TRUE) /\ RecordSound(g, Current(flash), FALSE)
    BY <2>4, <2>6, SoundUnchecked DEF RecordSound
  <2>9. ~SwapStarted(flash) => g.program = flash.program
    BY <2>3, BlankJournal
  <2> QED
    BY <1>3, <2>3, <2>4, <2>7, <2>8, <2>9
<1>4. CASE run.at = "write" /\ g \in Cut(flash)
  <2>1. g = Store(flash, NoRecord)
    BY <1>4 DEF Cut
  <2>2. /\ g \in Flashes /\ g.program = flash.program /\ g.staging = flash.staging
        /\ g.scratch = flash.scratch /\ g.phase = flash.phase
    BY <2>1, <1>1, StoreFields
  <2>3. /\ Provisioned(g) <=> Provisioned(flash)
        /\ Provisioned(flash) => Current(g) = Current(flash)
    BY <2>1, <1>1, StoreCut
  <2>4. Provisioned(flash) => RecordSound(flash, Current(flash), FALSE)
    BY <1>1 DEF NothingLost
  <2>5. Provisioned(flash) => RecordSound(g, Current(flash), FALSE)
    BY <2>2, <2>4, SameSlots
  <2> QED
    BY <1>1, <1>4, <2>2, <2>3, <2>5 DEF NothingLost
<1>5. CASE run.at \in {"erase", "tidy", "journal"} /\ g \in Cut(flash)
  <2>1. PICK q \in [Sectors -> Marks] : g = [flash EXCEPT !.phase = q]
    BY <1>5 DEF Cut, PhaseTorn
  <2>2. /\ g \in Flashes /\ g.program = flash.program /\ g.staging = flash.staging
        /\ g.record = flash.record
    BY <2>1, <1>1 DEF Flashes
  <2>3. Provisioned(flash) /\ Current(flash).mode \in {"TRIAL", "STABLE"}
    BY <1>5 DEF OtaInv, RunOK
  <2>4. RecordSound(flash, Current(flash), FALSE)
    BY <1>1, <1>5, <2>3 DEF NothingLost
  <2>5. RecordSound(g, Current(flash), FALSE)
    BY <2>2, <2>3, <2>4, SlotsDecide
  <2>6. (Provisioned(g) <=> Provisioned(flash)) /\ Current(g) = Current(flash)
    BY <2>2, SameRecords
  <2> QED
    BY <1>5, <2>2, <2>3, <2>5, <2>6
<1>6. CASE run.at = "app" /\ g \in Cut(flash)
  <2>1. Receiving /\ g = [flash EXCEPT !.staging[upload.got + 1] = Junk]
    BY <1>6 DEF Cut
  <2>2. g = [flash EXCEPT !.staging = [flash.staging EXCEPT ![upload.got + 1] = Junk]]
    BY <2>1
  <2>3. [flash.staging EXCEPT ![upload.got + 1] = Junk] \in [Sectors -> Contents]
    <3>1. Junk \in Contents
      BY DEF Contents
    <3> QED
      BY <3>1, <1>1, RecordFields
  <2>4. /\ g \in Flashes /\ g.program = flash.program /\ g.phase = flash.phase
        /\ g.record = flash.record
    BY <2>2, <2>3, <1>1 DEF Flashes
  <2>5. Provisioned(flash) => Current(flash).mode = "STABLE"
    BY <1>6, <2>1 DEF OtaInv, UploadOK, Receiving
  <2>6. Provisioned(flash) => RecordSound(flash, Current(flash), FALSE)
    BY <1>1, <1>6 DEF NothingLost
  <2>7. Provisioned(flash) => RecordSound(g, Current(flash), FALSE)
    <3> SUFFICES ASSUME Provisioned(flash) PROVE RecordSound(g, Current(flash), FALSE)
      OBVIOUS
    <3>1. Current(flash).mode \in {"STABLE", "RECOVERY"}
      BY <2>5
    <3>2. Holds(flash.program, Current(flash).prog)
      BY <2>6, <3>1 DEF RecordSound
    <3>3. Holds(g.program, Current(flash).prog)
      BY <2>4, <3>2
    <3> QED
      BY <3>1, <3>3 DEF RecordSound
  <2>8. (Provisioned(g) <=> Provisioned(flash)) /\ Current(g) = Current(flash)
    BY <2>4, SameRecords
  <2> QED
    BY <1>1, <1>6, <2>4, <2>7, <2>8 DEF NothingLost
<1>7. Cut(flash) = {} \/ run.at \in {"copy", "write", "erase", "tidy", "journal", "app"}
  BY DEF Cut
<1> QED
  BY <1>2, <1>3, <1>4, <1>5, <1>6, <1>7

LEMMA PowerLossOK == OtaInv /\ (PowerLoss \/ Reset) => OtaInv'
<1> SUFFICES ASSUME OtaInv, PowerLoss \/ Reset PROVE OtaInv'
  OBVIOUS
<1>1. flash' \in {flash} \cup Cut(flash) /\ run' = Off /\ upload' = Idle /\ tries' = tries
  BY DEF PowerLoss, Reset
<1>2. /\ flash' \in Flashes
      /\ Provisioned(flash') <=> Provisioned(flash)
      /\ Provisioned(flash) =>
            /\ Current(flash') = Current(flash)
            /\ RecordSound(flash', Current(flash), FALSE)
      /\ ~Provisioned(flash) => Holds(flash'.program, Factory)
  BY <1>1, CutKeeps
<1>3. AtRest(flash')
  BY <1>2 DEF AtRest
<1>4. tries' \in 0..(MaxAttempts + 1) /\ TriesOK'
  BY <1>1, <1>2 DEF OtaInv, FlashTyped, TriesOK
<1> QED
  BY <1>1, <1>2, <1>3, <1>4, IdleTyped, RestsOff

LEMMA RestsInWrite ==
  ASSUME flash' \in Flashes, AtRest(flash'), run'.at = "write", Staged',
         upload' \in UploadTyped,
         upload'.session = "receive" => run'.otherwise = "ended",
         tries' \in 0..(MaxAttempts + 1), TriesOK'
  PROVE  OtaInv'
<1>1. FlashTyped' /\ Copied' /\ UploadOK' /\ RunOK'
  BY DEF FlashTyped, Copied, UploadOK, RunOK, UploadTyped
<1>2. LaunchIsWhole'
  BY DEF LaunchIsWhole, App
<1>3. NothingLost'
  BY DEF NothingLost, AtRest
<1> QED
  BY <1>1, <1>2, <1>3 DEF OtaInv

LEMMA RestsInSwap ==
  ASSUME flash' \in Flashes, Provisioned(flash'),
         Current(flash').mode \in {"PENDING", "ROLLBACK"},
         SwapTells(flash', Current(flash').prog, Current(flash').stag, TRUE),
         run' = Doing("copy") \/ (run' = Doing("mark") /\ Copied'),
         upload' \in UploadTyped, upload'.session = "idle",
         tries' \in 0..(MaxAttempts + 1)
  PROVE  OtaInv'
<1>1. run'.at \in {"copy", "mark"} /\ run' # App /\ (run'.at = "mark" => Copied')
  BY DEF Doing, App
<1>2. FlashTyped' /\ Copied' /\ UploadOK' /\ Staged' /\ LaunchIsWhole'
  BY <1>1 DEF FlashTyped, Copied, UploadOK, Staged, LaunchIsWhole, UploadTyped
<1>3. RunOK'
  BY <1>1 DEF RunOK
<1>4. RecordSound(flash', Current(flash'), TRUE)
  BY DEF RecordSound
<1>5. NothingLost'
  BY <1>4, SoundUnchecked DEF NothingLost
<1>6. TriesOK'
  BY DEF TriesOK
<1> QED
  BY <1>2, <1>3, <1>5, <1>6 DEF OtaInv

LEMMA BecomeTyped ==
  ASSUME NEW r \in Records, NEW m \in Modes
  PROVE  /\ Become(r, m) \in Records
         /\ Become(r, m).seq = NextSeq(r.seq) /\ Become(r, m).mode = m
         /\ Become(r, m).attempts = r.attempts
         /\ Become(r, m).prog = r.prog /\ Become(r, m).stag = r.stag
<1>1. NextSeq(r.seq) \in Seqs
  BY SequenceStep DEF Records
<1>2. Become(r, m) = [r EXCEPT !.seq = NextSeq(r.seq), !.mode = m]
  BY DEF Become
<1> QED
  BY <1>1, <1>2 DEF Records

\* The boot image is not interrupted by an upload.
LEMMA BootIsIdle ==
  ASSUME OtaInv,
         run.at \notin {"app", "journal"}, run.at = "write" => run.otherwise # "ended"
  PROVE  upload \in UploadTyped /\ upload.session = "idle"
<1>1. upload \in UploadTyped
  BY DEF OtaInv, FlashTyped, UploadTyped
<1>2. upload.session \in {"idle", "receive"}
  BY <1>1 DEF UploadTyped
<1> QED
  BY <1>1, <1>2 DEF OtaInv, UploadOK

LEMMA CountsOK == OtaInv => tries \in 0..(MaxAttempts + 1) /\ flash \in Flashes /\ TriesOK
BY DEF OtaInv, FlashTyped

\* A launch counts a trial, and the trial's record leaves room for it.
LEMMA LaunchCounts ==
  ASSUME Launch, tries \in 0..(MaxAttempts + 1), flash' \in Flashes,
         Provisioned(flash') /\ Current(flash').mode = "TRIAL" =>
            tries <= Current(flash').attempts
  PROVE  run' = App /\ tries' \in 0..(MaxAttempts + 1) /\ TriesOK'
<1>1. CASE Provisioned(flash') /\ Current(flash').mode = "TRIAL"
  <2>1. tries' = tries + 1 /\ run' = App
    BY <1>1 DEF Launch
  <2>2. Current(flash').attempts \in 0..MaxAttempts
    BY <1>1, CurrentTyped DEF Records
  <2> QED
    BY <1>1, <2>1, <2>2, OtaAssumption DEF TriesOK
<1>2. CASE ~(Provisioned(flash') /\ Current(flash').mode = "TRIAL")
  BY <1>2, OtaAssumption DEF Launch, TriesOK
<1> QED
  BY <1>1, <1>2

LEMMA BootLaunchOK == OtaInv /\ BootLaunch => OtaInv'
<1> SUFFICES ASSUME OtaInv, BootLaunch PROVE OtaInv'
  OBVIOUS
<1>1. flash' = flash /\ upload' = upload /\ Launch /\ run.at = "off"
  BY DEF BootLaunch, Off
<1>2. AtRest(flash)
  BY InvRests
<1>3. Provisioned(flash) => Current(flash).mode \in {"STABLE", "RECOVERY"}
  BY DEF BootLaunch
<1>4. ProgramWhole'
  BY <1>1, <1>2, <1>3 DEF AtRest, RecordSound, ProgramWhole
<1>5. run' = App /\ tries' \in 0..(MaxAttempts + 1) /\ TriesOK'
  BY <1>1, <1>3, CountsOK, LaunchCounts
<1>6. upload \in UploadTyped /\ upload.session = "idle"
  BY <1>1, BootIsIdle
<1> QED
  BY <1>1, <1>2, <1>4, <1>5, <1>6, CountsOK, RestsInApp

LEMMA BootRollbackOK == OtaInv /\ BootRollback => OtaInv'
<1> SUFFICES ASSUME OtaInv, BootRollback PROVE OtaInv'
  OBVIOUS
<1>1. /\ flash' = flash /\ upload' = upload /\ tries' = tries /\ run.at = "off"
      /\ run' = Doing("copy") /\ Provisioned(flash) /\ Current(flash).mode = "ROLLBACK"
  BY DEF BootRollback, Off
<1>2. SwapTells(flash, Current(flash).prog, Current(flash).stag, TRUE)
  BY <1>1, InvRests DEF AtRest, RecordSound
<1> QED
  BY <1>1, <1>2, CountsOK, BootIsIdle, RestsInSwap

LEMMA BootPendingOK == OtaInv /\ BootPending => OtaInv'
<1> SUFFICES ASSUME OtaInv, BootPending PROVE OtaInv'
  OBVIOUS
<1> DEFINE c == Current(flash)
<1>1. /\ flash' = flash /\ upload' = upload /\ tries' = tries /\ run.at = "off"
      /\ Provisioned(flash) /\ c.mode = "PENDING"
  BY DEF BootPending, Off
<1>2. flash \in Flashes /\ tries \in 0..(MaxAttempts + 1) /\ TriesOK
  BY CountsOK
<1>3. upload \in UploadTyped /\ upload.session = "idle"
  BY <1>1, BootIsIdle
<1>4. SwapTells(flash, c.prog, c.stag, FALSE \/ SwapStarted(flash))
  BY <1>1, InvRests DEF AtRest, RecordSound
<1>5. CASE StagingCheck(flash)
  <2>1. SwapTells(flash, c.prog, c.stag, TRUE)
    BY <1>4, <1>5 DEF StagingCheck, SwapTells, Holds
  <2>2. run' = Doing("copy")
    BY <1>5 DEF BootPending
  <2> QED
    BY <1>1, <1>2, <1>3, <2>1, <2>2, RestsInSwap
<1>6. CASE ~StagingCheck(flash)
  <2> DEFINE r == Become(c, "RECOVERY")
  <2>1. run' = Write(r, "app", "app")
    BY <1>6 DEF BootPending
  <2>2. c \in Records /\ r \in Records /\ r.seq = NextSeq(c.seq) /\ r.mode = "RECOVERY"
        /\ r.prog = c.prog
    BY <1>1, <1>2, CurrentTyped, BecomeTyped DEF Modes
  <2>3. Holds(flash.program, c.prog)
    BY <1>4, <1>6, BlankJournal DEF StagingCheck, Holds, SwapTells
  <2>4. RecordSound(flash, r, FALSE) /\ Holds(flash.program, r.prog)
    BY <2>2, <2>3 DEF RecordSound
  <2>5. ProgramWhole
    BY <1>1, <2>3 DEF ProgramWhole
  <2>6. /\ run'.at = "write" /\ run'.rec = r /\ run'.then = "app" /\ run'.otherwise = "app"
        /\ run' \in [at : {"write"}, rec : Records,
                     then : {"app", "copy", "tidy", "journal", "return", "ended"},
                     otherwise : {"app", "off", "return", "ended"}]
    BY <2>1, <2>2 DEF Write
  <2>7. Staged'
    BY <1>1, <2>2, <2>4, <2>5, <2>6 DEF Staged, LeadsTo, ProgramWhole
  <2> QED
    BY <1>1, <1>2, <1>3, <2>6, <2>7, InvRests, RestsInWrite DEF TriesOK
<1> QED
  BY <1>5, <1>6

LEMMA WriteTyped ==
  ASSUME NEW r \in Records,
         NEW then \in {"app", "copy", "tidy", "journal", "return", "ended"},
         NEW otherwise \in {"app", "off", "return", "ended"}
  PROVE  LET w == Write(r, then, otherwise)
         IN  /\ w.at = "write" /\ w.rec = r /\ w.then = then /\ w.otherwise = otherwise
             /\ w \in [at : {"write"}, rec : Records,
                       then : {"app", "copy", "tidy", "journal", "return", "ended"},
                       otherwise : {"app", "off", "return", "ended"}]
BY DEF Write

LEMMA BootTrialOK == OtaInv /\ BootTrial => OtaInv'
<1> SUFFICES ASSUME OtaInv, BootTrial PROVE OtaInv'
  OBVIOUS
<1> DEFINE c == Current(flash)
<1>1. /\ flash' = flash /\ upload' = upload /\ tries' = tries /\ run.at = "off"
      /\ Provisioned(flash) /\ c.mode = "TRIAL"
  BY DEF BootTrial, Off
<1>2. flash \in Flashes /\ tries \in 0..(MaxAttempts + 1) /\ TriesOK
  BY CountsOK
<1>3. upload \in UploadTyped /\ upload.session = "idle"
  BY <1>1, BootIsIdle
<1>4. c \in Records /\ AtRest(flash)
  BY <1>1, <1>2, CurrentTyped, InvRests
<1>5. CASE TrialLeft(c)
  <2> DEFINE b == Become(c, "TRIAL")
             r == [b EXCEPT !.attempts = b.attempts + 1]
  <2>1. run' = Write(r, "app", "off")
    BY <1>5 DEF BootTrial
  <2>2. /\ b \in Records /\ b.seq = NextSeq(c.seq) /\ b.mode = "TRIAL"
        /\ b.attempts = c.attempts /\ b.prog = c.prog /\ b.stag = c.stag
    BY <1>4, BecomeTyped DEF Modes
  <2>3. c.attempts + 1 \in 0..MaxAttempts
    BY <1>4, <1>5, OtaAssumption DEF TrialLeft, Records
  <2>4. /\ r \in Records /\ r.seq = b.seq /\ r.mode = "TRIAL"
        /\ r.attempts = c.attempts + 1 /\ r.prog = c.prog /\ r.stag = c.stag
    BY <2>2, <2>3 DEF Records
  <2>5. RecordSound(flash, r, FALSE) /\ Holds(flash.program, r.prog)
    BY <1>1, <1>4, <2>4 DEF AtRest, RecordSound
  <2>6. /\ run'.at = "write" /\ run'.rec = r /\ run'.then = "app" /\ run'.otherwise = "off"
        /\ run' \in [at : {"write"}, rec : Records,
                     then : {"app", "copy", "tidy", "journal", "return", "ended"},
                     otherwise : {"app", "off", "return", "ended"}]
    BY <2>1, <2>4, WriteTyped
  <2>7. tries <= r.attempts
    BY <1>1, <1>2, <2>4 DEF TriesOK
  <2> HIDE DEF r
  <2>8. Staged'
    BY <1>1, <2>2, <2>4, <2>5, <2>6, <2>7 DEF Staged, LeadsTo
  <2> QED
    BY <1>1, <1>2, <1>3, <1>4, <2>6, <2>8, RestsInWrite DEF TriesOK
<1>6. CASE ~TrialLeft(c)
  <2>1. run' = Doing("erase") /\ run'.at = "erase" /\ run' # App
    BY <1>6 DEF BootTrial, Doing, App
  <2>2. FlashTyped' /\ UploadOK' /\ TriesOK'
    BY <1>1, <1>2, <1>3 DEF FlashTyped, UploadOK, TriesOK, UploadTyped
  <2>3. Staged' /\ Copied' /\ LaunchIsWhole' /\ RunOK'
    BY <1>1, <2>1 DEF Staged, Copied, LaunchIsWhole, RunOK
  <2>4. NothingLost'
    BY <1>1, <1>4, <2>1 DEF NothingLost, AtRest
  <2> QED
    BY <2>2, <2>3, <2>4 DEF OtaInv
<1> QED
  BY <1>5, <1>6

\* A blank journal.
LEMMA PhaseBlank ==
  ASSUME NEW f \in Flashes
  PROVE  LET g == [f EXCEPT !.phase = Blank]
         IN  /\ g \in Flashes /\ g.phase = Blank
             /\ g.program = f.program /\ g.staging = f.staging /\ g.record = f.record
             /\ Provisioned(g) <=> Provisioned(f)
             /\ Current(g) = Current(f)
<1> DEFINE g == [f EXCEPT !.phase = Blank]
<1>1. Blank \in [Sectors -> Marks]
  BY DEF Blank, Marks
<1>2. /\ g \in Flashes /\ g.phase = Blank
      /\ g.program = f.program /\ g.staging = f.staging /\ g.record = f.record
  BY <1>1 DEF Flashes
<1> QED
  BY <1>2, SameRecords

LEMMA EraseForRollbackOK == OtaInv /\ EraseForRollback => OtaInv'
<1> SUFFICES ASSUME OtaInv, EraseForRollback PROVE OtaInv'
  OBVIOUS
<1> DEFINE c == Current(flash)
           r == Become(c, "ROLLBACK")
<1>1. /\ flash' = [flash EXCEPT !.phase = Blank] /\ upload' = upload /\ tries' = tries
      /\ run.at = "erase" /\ run' = Write(r, "copy", "off")
  BY DEF EraseForRollback
<1>2. flash \in Flashes /\ tries \in 0..(MaxAttempts + 1) /\ TriesOK
  BY CountsOK
<1>3. Provisioned(flash) /\ c.mode = "TRIAL"
  BY <1>1 DEF OtaInv, RunOK
<1>4. upload \in UploadTyped /\ upload.session = "idle"
  BY <1>1, BootIsIdle
<1>5. /\ flash' \in Flashes /\ flash'.phase = Blank
      /\ flash'.program = flash.program /\ flash'.staging = flash.staging
      /\ Provisioned(flash') /\ Current(flash') = c
  BY <1>1, <1>2, <1>3, PhaseBlank
<1>6. Holds(flash'.program, c.prog) /\ Holds(flash'.staging, c.stag)
  BY <1>3, <1>5, InvRests DEF AtRest, RecordSound
<1>7. AtRest(flash')
  BY <1>3, <1>5, <1>6 DEF AtRest, RecordSound
<1>8. /\ r \in Records /\ r.seq = NextSeq(c.seq) /\ r.mode = "ROLLBACK"
      /\ r.prog = c.prog /\ r.stag = c.stag
  BY <1>2, <1>3, CurrentTyped, BecomeTyped DEF Modes
<1>9. RecordSound(flash', r, FALSE)
  BY <1>5, <1>6, <1>8 DEF RecordSound, SwapTells, Holds, Blank
<1>10. /\ run'.at = "write" /\ run'.rec = r /\ run'.then = "copy" /\ run'.otherwise = "off"
       /\ run' \in [at : {"write"}, rec : Records,
                    then : {"app", "copy", "tidy", "journal", "return", "ended"},
                    otherwise : {"app", "off", "return", "ended"}]
  BY <1>1, <1>8, WriteTyped
<1> HIDE DEF r
<1>11. Staged'
  BY <1>5, <1>6, <1>8, <1>9, <1>10 DEF Staged, LeadsTo
<1>12. TriesOK'
  BY <1>1, <1>2, <1>3, <1>5 DEF TriesOK
<1> QED
  BY <1>1, <1>2, <1>4, <1>5, <1>7, <1>10, <1>11, <1>12, RestsInWrite

LEMMA EraseForRollbackFailsOK == OtaInv /\ EraseForRollbackFails => OtaInv'
<1> SUFFICES ASSUME OtaInv, EraseForRollbackFails PROVE OtaInv'
  OBVIOUS
<1>1. /\ flash' \in {flash} \cup Cut(flash) /\ run' = Off /\ run.at = "erase"
      /\ upload' = upload /\ tries' = tries
  BY DEF EraseForRollbackFails
<1>2. /\ flash' \in Flashes
      /\ Provisioned(flash') <=> Provisioned(flash)
      /\ Provisioned(flash) =>
            Current(flash') = Current(flash) /\ RecordSound(flash', Current(flash), FALSE)
      /\ ~Provisioned(flash) => Holds(flash'.program, Factory)
  BY <1>1, CutKeeps
<1>3. AtRest(flash')
  BY <1>2 DEF AtRest
<1>4. tries' \in 0..(MaxAttempts + 1) /\ TriesOK'
  BY <1>1, <1>2, CountsOK DEF TriesOK
<1> QED
  BY <1>1, <1>2, <1>3, <1>4, BootIsIdle, RestsOff

\* What a running swap may count on.
LEMMA SwapContext ==
  ASSUME OtaInv, run.at \in {"copy", "mark"}
  PROVE  /\ flash \in Flashes /\ Provisioned(flash)
         /\ Current(flash) \in Records
         /\ Current(flash).mode \in {"PENDING", "ROLLBACK"}
         /\ SwapTells(flash, Current(flash).prog, Current(flash).stag, TRUE)
         /\ upload \in UploadTyped /\ upload.session = "idle"
         /\ tries \in 0..(MaxAttempts + 1)
<1>1. flash \in Flashes /\ tries \in 0..(MaxAttempts + 1)
  BY CountsOK
<1>2. Provisioned(flash) /\ Current(flash).mode \in {"PENDING", "ROLLBACK"}
  BY DEF OtaInv, RunOK
<1>3. RecordSound(flash, Current(flash), TRUE)
  BY <1>2 DEF OtaInv, NothingLost
<1> QED
  BY <1>1, <1>2, <1>3, CurrentTyped, BootIsIdle DEF RecordSound

LEMMA CopySectorOK == OtaInv /\ CopySector => OtaInv'
<1> SUFFICES ASSUME OtaInv, CopySector PROVE OtaInv'
  OBVIOUS
<1> DEFINE c == Current(flash)
<1>1. run.at = "copy" /\ run' = Doing("mark") /\ upload' = upload /\ tries' = tries
  BY DEF CopySector
<1>2. PICK n \in Sectors : /\ SwapAt(flash, n) /\ flash.phase[n] # "bad"
                           /\ flash' = Copy(flash, n, flash.phase[n])
  BY DEF CopySector
<1>3. /\ flash \in Flashes /\ Provisioned(flash) /\ c.mode \in {"PENDING", "ROLLBACK"}
      /\ SwapTells(flash, c.prog, c.stag, TRUE)
      /\ upload \in UploadTyped /\ upload.session = "idle"
      /\ tries \in 0..(MaxAttempts + 1)
  BY <1>1, SwapContext
<1>4. flash.phase[n] \in {"FF", "FE", "FC"}
  BY <1>2, <1>3, RecordFields DEF SwapAt, Marks
<1>5. flash' \in Flashes /\ flash'.record = flash.record /\ flash'.phase = flash.phase
  BY <1>2, <1>3, <1>4, CopyFields
<1>6. Provisioned(flash') /\ Current(flash') = c
  BY <1>3, <1>5, SameRecords
<1>7. SwapTells(flash', c.prog, c.stag, TRUE)
  BY <1>2, <1>3, CopyKeeps
<1>8. /\ flash.phase[n] = "FF" => flash'.scratch = Part(c.prog, n)
      /\ flash.phase[n] = "FE" => flash'.program[n] = Part(c.stag, n)
      /\ flash.phase[n] = "FC" => flash'.staging[n] = Part(c.prog, n)
  BY ZenonT(40), <1>2, <1>3, CopyArrives
<1>9. \A k \in Sectors : SwapAt(flash', k) => k = n
  <2> SUFFICES ASSUME NEW k \in Sectors, SwapAt(flash', k), k # n
               PROVE  FALSE
    OBVIOUS
  <2>1. SwapAt(flash, k)
    BY <1>5 DEF SwapAt
  <2> QED
    BY <1>2, <1>3, <2>1, SwapPlace
<1>10. Copied'
  BY <1>5, <1>6, <1>8, <1>9 DEF Copied
<1> QED
  BY <1>1, <1>3, <1>5, <1>6, <1>7, <1>10, RestsInSwap

LEMMA MarkPhaseOK == OtaInv /\ MarkPhase => OtaInv'
<1> SUFFICES ASSUME OtaInv, MarkPhase PROVE OtaInv'
  OBVIOUS
<1> DEFINE c == Current(flash)
<1>1. run.at = "mark" /\ run' = Doing("copy") /\ upload' = upload /\ tries' = tries
  BY DEF MarkPhase
<1>2. PICK n \in Sectors : /\ SwapAt(flash, n)
                           /\ flash' = [flash EXCEPT !.phase[n] = NextMark(@)]
  BY DEF MarkPhase
<1>3. /\ flash \in Flashes /\ Provisioned(flash) /\ c.mode \in {"PENDING", "ROLLBACK"}
      /\ SwapTells(flash, c.prog, c.stag, TRUE)
      /\ upload \in UploadTyped /\ upload.session = "idle"
      /\ tries \in 0..(MaxAttempts + 1)
  BY <1>1, SwapContext
<1>4. Arrived(flash, c.prog, c.stag, n)
  BY <1>1, <1>2 DEF OtaInv, Copied, Arrived
<1>5. /\ flash' \in Flashes /\ flash'.record = flash.record
      /\ SwapTells(flash', c.prog, c.stag, TRUE)
  <2>1. flash' = Marked(flash, n)
    BY <1>2 DEF Marked
  <2> HIDE DEF c
  <2>2. Marked(flash, n) \in Flashes
    BY <1>2, <1>3, <1>4, MarkKeeps
  <2>3. SwapTells(Marked(flash, n), c.prog, c.stag, TRUE)
    BY <1>2, <1>3, <1>4, MarkKeeps
  <2>4. Marked(flash, n).record = flash.record
    BY <1>2, <1>3, <1>4, MarkKeeps
  <2> QED
    BY <2>1, <2>2, <2>3, <2>4
<1>6. Provisioned(flash') /\ Current(flash') = c
  BY <1>3, <1>5, SameRecords
<1> QED
  BY <1>1, <1>3, <1>5, <1>6, RestsInSwap

LEMMA SwapFailsOK == OtaInv /\ SwapFails => OtaInv'
<1> SUFFICES ASSUME OtaInv, SwapFails PROVE OtaInv'
  OBVIOUS
<1> DEFINE c == Current(flash)
           r == Become(c, "RECOVERY")
<1>1. /\ run.at \in {"copy", "mark"} /\ flash' \in {flash} \cup Cut(flash)
      /\ run' = AfterFailedSwap(flash) /\ upload' = upload /\ tries' = tries
  BY DEF SwapFails
<1>2. /\ flash \in Flashes /\ Provisioned(flash) /\ c \in Records
      /\ c.mode \in {"PENDING", "ROLLBACK"}
      /\ SwapTells(flash, c.prog, c.stag, TRUE)
      /\ upload \in UploadTyped /\ upload.session = "idle"
      /\ tries \in 0..(MaxAttempts + 1)
  BY <1>1, SwapContext
<1>3. /\ flash' \in Flashes /\ Provisioned(flash') /\ Current(flash') = c
      /\ RecordSound(flash', c, FALSE)
      /\ ~SwapStarted(flash) => flash'.program = flash.program
  BY <1>1, <1>2, CutKeeps
<1>4. AtRest(flash') /\ TriesOK'
  BY <1>2, <1>3 DEF AtRest, TriesOK
<1>5. CASE SwapStarted(flash)
  <2>1. run' = Off
    BY <1>1, <1>5 DEF AfterFailedSwap
  <2> QED
    BY <1>1, <1>2, <1>3, <1>4, <2>1, RestsOff
<1>6. CASE ~SwapStarted(flash)
  <2>1. run' = Write(r, "app", "app")
    BY <1>1, <1>6 DEF AfterFailedSwap
  <2>2. /\ r \in Records /\ r.seq = NextSeq(c.seq) /\ r.mode = "RECOVERY"
        /\ r.prog = c.prog
    BY <1>2, BecomeTyped DEF Modes
  <2>3. Holds(flash'.program, c.prog)
    BY <1>2, <1>3, <1>6, BlankJournal DEF SwapTells, Holds
  <2>4. /\ run'.at = "write" /\ run'.rec = r /\ run'.then = "app" /\ run'.otherwise = "app"
        /\ run' \in [at : {"write"}, rec : Records,
                     then : {"app", "copy", "tidy", "journal", "return", "ended"},
                     otherwise : {"app", "off", "return", "ended"}]
    BY <2>1, <2>2, WriteTyped
  <2> HIDE DEF r
  <2>5. RecordSound(flash', r, FALSE) /\ ProgramWhole'
    BY <1>3, <2>2, <2>3 DEF RecordSound, ProgramWhole
  <2>6. Staged'
    BY <1>2, <1>3, <2>2, <2>3, <2>4, <2>5 DEF Staged, LeadsTo
  <2> QED
    BY <1>1, <1>2, <1>3, <1>4, <2>4, <2>6, RestsInWrite
<1> QED
  BY <1>5, <1>6

LEMMA SwapDoneOK == OtaInv /\ SwapDone => OtaInv'
<1> SUFFICES ASSUME OtaInv, SwapDone PROVE OtaInv'
  OBVIOUS
<1> DEFINE c == Current(flash)
           m == IF c.mode = "PENDING" THEN "TRIAL" ELSE "STABLE"
           b == Become(c, m)
           r == [b EXCEPT !.prog = c.stag, !.stag = c.prog, !.attempts = 0]
<1>1. /\ run.at = "copy" /\ flash' = flash /\ upload' = upload /\ tries' = 0
      /\ \A n \in Sectors : flash.phase[n] = "F8"
      /\ run' = Write(r, "tidy", "off")
  BY DEF SwapDone, Swapped
<1>2. /\ flash \in Flashes /\ Provisioned(flash) /\ c \in Records
      /\ c.mode \in {"PENDING", "ROLLBACK"}
      /\ SwapTells(flash, c.prog, c.stag, TRUE)
      /\ upload \in UploadTyped /\ upload.session = "idle"
  BY <1>1, SwapContext
<1>3. Holds(flash.program, c.stag) /\ Holds(flash.staging, c.prog)
  BY <1>1, <1>2 DEF SwapTells, Holds
<1>4. c.stag \in Images
  <2>1. 1 \in Sectors
    BY OtaAssumption DEF Sectors
  <2>2. Part(c.stag, 1) \in Contents
    BY <1>2, <1>3, <2>1, RecordFields DEF Holds
  <2> QED
    BY <2>2 DEF Contents, Part, Junk
<1>5. /\ b \in Records /\ b.seq = NextSeq(c.seq) /\ b.mode = m
      /\ b.attempts = c.attempts /\ b.prog = c.prog /\ b.stag = c.stag
  BY <1>2, BecomeTyped DEF Modes
<1>6. c.prog \in Images
  BY <1>2 DEF Records
<1>7. /\ r \in Records /\ r.seq = NextSeq(c.seq) /\ r.mode \in {"TRIAL", "STABLE"}
      /\ r.prog = c.stag /\ r.stag = c.prog
  <2> HIDE DEF b
  <2>1. m \in {"TRIAL", "STABLE"} /\ 0 \in 0..MaxAttempts
    BY OtaAssumption
  <2>2. /\ r.seq = b.seq /\ r.mode = b.mode /\ r.prog = c.stag /\ r.stag = c.prog
        /\ r \in Records
    BY <1>4, <1>5, <1>6, <2>1 DEF Records
  <2> QED
    BY <1>5, <2>1, <2>2
<1>8. /\ run'.at = "write" /\ run'.rec = r /\ run'.then = "tidy" /\ run'.otherwise = "off"
      /\ run' \in [at : {"write"}, rec : Records,
                   then : {"app", "copy", "tidy", "journal", "return", "ended"},
                   otherwise : {"app", "off", "return", "ended"}]
  BY <1>1, <1>7, WriteTyped
<1> HIDE DEF r
<1>9. RecordSound(flash, r, FALSE)
  BY <1>3, <1>7 DEF RecordSound
<1>10. Staged'
  BY <1>1, <1>2, <1>3, <1>7, <1>8, <1>9 DEF Staged, LeadsTo
<1>11. tries' \in 0..(MaxAttempts + 1) /\ TriesOK'
  BY <1>1, <1>2, OtaAssumption DEF TriesOK
<1> QED
  BY <1>1, <1>2, <1>8, <1>10, <1>11, InvRests, RestsInWrite

LEMMA TidyJournalOK == OtaInv /\ TidyJournal => OtaInv'
<1> SUFFICES ASSUME OtaInv, TidyJournal PROVE OtaInv'
  OBVIOUS
<1> DEFINE c == Current(flash)
<1>1. /\ run.at = "tidy" /\ upload' = upload
      /\ flash' \in {[flash EXCEPT !.phase = Blank]} \cup Cut(flash)
      /\ (run' = Off /\ tries' = tries) \/ Launch
  BY DEF TidyJournal
<1>2. flash \in Flashes /\ tries \in 0..(MaxAttempts + 1)
  BY CountsOK
<1>3. Provisioned(flash) /\ c.mode \in {"TRIAL", "STABLE"} /\ tries = 0
  BY <1>1 DEF OtaInv, RunOK
<1>4. RecordSound(flash, c, FALSE)
  BY <1>3, InvRests DEF AtRest
<1>5. /\ flash' \in Flashes /\ Provisioned(flash') /\ Current(flash') = c
      /\ RecordSound(flash', c, FALSE)
  <2>1. CASE flash' = [flash EXCEPT !.phase = Blank]
    <3>1. /\ flash' \in Flashes /\ Provisioned(flash') /\ Current(flash') = c
          /\ flash'.program = flash.program /\ flash'.staging = flash.staging
      BY <1>2, <1>3, <2>1, PhaseBlank
    <3> QED
      BY <1>3, <1>4, <3>1, SlotsDecide
  <2>2. CASE flash' \in Cut(flash)
    BY <1>3, <2>2, CutKeeps
  <2> QED
    BY <1>1, <2>1, <2>2
<1>6. AtRest(flash') /\ ProgramWhole'
  BY <1>3, <1>5 DEF AtRest, ProgramWhole, RecordSound
<1>7. upload \in UploadTyped /\ upload.session = "idle"
  BY <1>1, BootIsIdle
<1>8. c.attempts \in Nat
  BY <1>2, <1>3, CurrentTyped DEF Records
<1>9. CASE run' = Off /\ tries' = tries
  <2>1. TriesOK'
    BY <1>3, <1>5, <1>8, <1>9 DEF TriesOK
  <2> QED
    BY <1>1, <1>2, <1>5, <1>6, <1>7, <1>9, <2>1, RestsOff
<1>10. CASE Launch
  <2>1. run' = App /\ tries' \in 0..(MaxAttempts + 1) /\ TriesOK'
    BY <1>2, <1>3, <1>5, <1>8, <1>10, LaunchCounts
  <2> QED
    BY <1>1, <1>5, <1>6, <1>7, <2>1, RestsInApp
<1> QED
  BY <1>1, <1>9, <1>10

(***************************************************************************)
(* A record write.                                                         *)
(***************************************************************************)
LEMMA WriteContext ==
  ASSUME OtaInv, run.at = "write"
  PROVE  /\ flash \in Flashes /\ run.rec \in Records
         /\ RecordSound(flash, run.rec, FALSE)
         /\ Holds(flash.program, run.rec.prog)
         /\ LeadsTo(run.then, run.rec.mode)
         /\ Provisioned(flash) => run.rec.seq = NextSeq(Current(flash).seq)
         /\ run.then \in {"app", "copy", "tidy", "journal", "return", "ended"}
         /\ run.otherwise \in {"app", "off", "return", "ended"}
         /\ upload \in UploadTyped
         /\ upload.session = "receive" => run.otherwise = "ended"
<1>1. /\ run \in [at : {"write"}, rec : Records,
                  then : {"app", "copy", "tidy", "journal", "return", "ended"},
                  otherwise : {"app", "off", "return", "ended"}]
      /\ RecordSound(flash, run.rec, FALSE)
      /\ Holds(flash.program, run.rec.prog)
      /\ LeadsTo(run.then, run.rec.mode)
      /\ run.then = "journal" => ~Provisioned(flash)
      /\ run.then # "journal" => run.rec.seq = NextSeq(Current(flash).seq)
  BY DEF OtaInv, Staged
<1>2. flash \in Flashes /\ upload \in UploadTyped
  BY DEF OtaInv, FlashTyped, UploadTyped
<1>3. upload.session = "receive" => run.otherwise = "ended"
  BY DEF OtaInv, UploadOK
<1> QED
  BY <1>1, <1>2, <1>3

\* A complete write puts the record in charge, and the slots are as it says.
LEMMA WriteLands ==
  ASSUME OtaInv, run.at = "write", flash' = Store(flash, run.rec)
  PROVE  /\ flash' \in Flashes /\ Provisioned(flash') /\ Current(flash') = run.rec
         /\ RecordSound(flash', run.rec, FALSE) /\ AtRest(flash')
         /\ ProgramWhole'
         /\ flash'.staging = flash.staging
<1>1. /\ flash \in Flashes /\ run.rec \in Records
      /\ RecordSound(flash, run.rec, FALSE)
      /\ Holds(flash.program, run.rec.prog)
      /\ Provisioned(flash) => run.rec.seq = NextSeq(Current(flash).seq)
  BY WriteContext
<1>2. /\ flash' \in Flashes
      /\ flash'.program = flash.program /\ flash'.staging = flash.staging
      /\ flash'.scratch = flash.scratch /\ flash'.phase = flash.phase
  BY <1>1, StoreFields
<1>3. Provisioned(flash') /\ Current(flash') = run.rec
  BY <1>1, StoreSelects
<1>4. RecordSound(flash', run.rec, FALSE)
  BY <1>1, <1>2, SameSlots
<1> QED
  BY <1>1, <1>2, <1>3, <1>4 DEF AtRest, ProgramWhole

LEMMA RestsBetween ==
  ASSUME flash' \in Flashes, AtRest(flash'), Provisioned(flash'),
         upload' \in UploadTyped,
         \/ /\ run' = Doing("tidy") /\ Current(flash').mode \in {"TRIAL", "STABLE"}
            /\ upload'.session = "idle" /\ tries' = 0
         \/ /\ run' = Doing("journal") /\ Current(flash').mode = "STABLE"
            /\ Holds(flash'.staging, upload'.image) /\ upload'.image \in Images,
         tries' \in 0..(MaxAttempts + 1), TriesOK'
  PROVE  OtaInv'
<1>1. run'.at \in {"tidy", "journal"} /\ run' # App /\ run' = Doing(run'.at)
  BY DEF Doing, App
<1>2. FlashTyped' /\ Staged' /\ Copied' /\ LaunchIsWhole'
  BY <1>1 DEF FlashTyped, Staged, Copied, LaunchIsWhole, UploadTyped
<1>3. RunOK' /\ UploadOK'
  BY <1>1 DEF RunOK, UploadOK, Doing
<1>4. NothingLost'
  BY <1>1 DEF NothingLost, AtRest
<1> QED
  BY <1>2, <1>3, <1>4 DEF OtaInv

LEMMA WriteStateOK == OtaInv /\ WriteState => OtaInv'
<1> SUFFICES ASSUME OtaInv, WriteState PROVE OtaInv'
  OBVIOUS
<1> DEFINE r == run.rec
<1>1. run.at = "write" /\ flash' = Store(flash, r) /\ Proceed(run.then)
  BY DEF WriteState
<1>2. /\ r \in Records /\ LeadsTo(run.then, r.mode)
      /\ run.then \in {"app", "copy", "tidy", "journal", "return", "ended"}
      /\ upload \in UploadTyped
      /\ upload.session = "receive" => run.otherwise = "ended"
  BY <1>1, WriteContext
<1>3. /\ flash' \in Flashes /\ Provisioned(flash') /\ Current(flash') = r
      /\ RecordSound(flash', r, FALSE) /\ AtRest(flash') /\ ProgramWhole'
      /\ flash'.staging = flash.staging
  BY <1>1, WriteLands
<1>4. tries \in 0..(MaxAttempts + 1)
  BY CountsOK
<1>5. run.then \notin {"journal", "ended"} => upload.session = "idle"
  BY <1>1, <1>2 DEF OtaInv, Staged, UploadTyped
<1>6. r.attempts \in Nat
  BY <1>2 DEF Records
<1>7. CASE run.then = "app"
  <2>1. Launch /\ upload' = upload
    BY <1>1, <1>7 DEF Proceed
  <2>2. r.mode = "TRIAL" => tries <= r.attempts
    BY <1>1, <1>7 DEF OtaInv, Staged
  <2>3. run' = App /\ tries' \in 0..(MaxAttempts + 1) /\ TriesOK'
    BY <1>3, <1>4, <2>1, <2>2, LaunchCounts
  <2> QED
    BY <1>2, <1>3, <1>5, <1>7, <2>1, <2>3, RestsInApp
<1>8. CASE run.then = "copy"
  <2>1. run' = Doing("copy") /\ upload' = upload /\ tries' = tries
    BY <1>1, <1>8 DEF Proceed
  <2>2. r.mode = "ROLLBACK"
    BY <1>2, <1>8 DEF LeadsTo
  <2>3. SwapTells(flash', r.prog, r.stag, TRUE)
    BY <1>3, <2>2 DEF RecordSound
  <2> QED
    BY <1>2, <1>3, <1>4, <1>5, <1>8, <2>1, <2>2, <2>3, RestsInSwap
<1>9. CASE run.then = "tidy"
  <2>1. run' = Doing("tidy") /\ upload' = upload /\ tries' = tries
    BY <1>1, <1>9 DEF Proceed
  <2>2. r.mode \in {"TRIAL", "STABLE"} /\ tries = 0
    BY <1>1, <1>2, <1>9 DEF LeadsTo, OtaInv, Staged
  <2>3. TriesOK'
    BY <1>3, <1>6, <2>1, <2>2 DEF TriesOK
  <2> QED
    BY <1>2, <1>3, <1>4, <1>5, <1>9, <2>1, <2>2, <2>3, RestsBetween
<1>10. CASE run.then = "journal"
  <2>1. run' = Doing("journal") /\ upload' = upload /\ tries' = tries
    BY <1>1, <1>10 DEF Proceed
  <2>2. r.mode = "STABLE"
    BY <1>2, <1>10 DEF LeadsTo
  <2>3. Holds(flash.staging, upload.image) /\ upload.image \in Images
    BY <1>1, <1>10 DEF OtaInv, Staged
  <2>4. TriesOK'
    BY <1>3, <2>2 DEF TriesOK
  <2> QED
    BY <1>2, <1>3, <1>4, <2>1, <2>2, <2>3, <2>4, RestsBetween
<1>11. CASE run.then \in {"return", "ended"}
  <2>1. run' = App /\ tries' = tries /\ (upload' = upload \/ upload' = Idle)
        /\ (run.then = "return" => upload' = upload)
        /\ (run.then = "ended" => upload' = Idle)
    BY <1>1, <1>11 DEF Proceed
  <2>2. r.mode \in {"STABLE", "PENDING"}
    BY <1>2, <1>11 DEF LeadsTo
  <2>3. upload' \in UploadTyped /\ upload'.session = "idle"
    BY <1>2, <1>5, <1>11, <2>1, IdleTyped
  <2>4. TriesOK'
    BY <1>3, <2>2 DEF TriesOK
  <2> QED
    BY <1>3, <1>4, <2>1, <2>3, <2>4, RestsInApp
<1> QED
  BY <1>2, <1>7, <1>8, <1>9, <1>10, <1>11

LEMMA WriteStateFailsOK == OtaInv /\ WriteStateFails => OtaInv'
<1> SUFFICES ASSUME OtaInv, WriteStateFails PROVE OtaInv'
  OBVIOUS
<1> DEFINE c == Current(flash)
<1>1. /\ run.at = "write" /\ Proceed(run.otherwise)
      /\ \/ flash' \in {flash} \cup Cut(flash)
         \/ flash' = Store(flash, run.rec) /\ run.otherwise \in {"return", "ended"}
  BY DEF WriteStateFails
<1>2. /\ run.rec \in Records /\ LeadsTo(run.then, run.rec.mode)
      /\ run.then \in {"app", "copy", "tidy", "journal", "return", "ended"}
      /\ run.otherwise \in {"app", "off", "return", "ended"}
      /\ upload \in UploadTyped
      /\ upload.session = "receive" => run.otherwise = "ended"
  BY <1>1, WriteContext
<1>3. tries \in 0..(MaxAttempts + 1) /\ TriesOK
  BY CountsOK
<1>4. /\ run.otherwise # "off" => ProgramWhole
      /\ run.otherwise = "app" => Provisioned(flash) /\ c.mode # "TRIAL"
      /\ run.otherwise # "off" => run.rec.mode # "TRIAL" \/ run.then = "app"
      /\ run.then = "app" /\ run.rec.mode = "TRIAL" => run.otherwise = "off"
  BY <1>1, <1>2 DEF OtaInv, Staged, LeadsTo
<1>5. upload.session \in {"idle", "receive"}
  BY <1>2 DEF UploadTyped
<1>6. CASE flash' \in {flash} \cup Cut(flash)
  <2>1. /\ flash' \in Flashes
        /\ Provisioned(flash') <=> Provisioned(flash)
        /\ Provisioned(flash) =>
              Current(flash') = c /\ RecordSound(flash', c, FALSE)
        /\ ~Provisioned(flash) => Holds(flash'.program, Factory)
        /\ flash'.program = flash.program
    BY <1>1, <1>6, CutKeeps
  <2>2. AtRest(flash')
    BY <2>1 DEF AtRest
  <2>3. run.otherwise # "off" => ProgramWhole'
    BY <1>4, <2>1 DEF ProgramWhole
  <2>4. CASE run.otherwise = "app"
    <3>1. Launch /\ upload' = upload
      BY <1>1, <2>4 DEF Proceed
    <3>2. run' = App /\ tries' \in 0..(MaxAttempts + 1) /\ TriesOK'
      BY <1>3, <1>4, <2>1, <2>4, <3>1, LaunchCounts
    <3> QED
      BY <1>2, <1>5, <2>1, <2>2, <2>3, <2>4, <3>1, <3>2, RestsInApp
  <2>5. CASE run.otherwise # "app"
    <3>1. tries' = tries
      BY <1>1, <1>2, <2>5 DEF Proceed
    <3>2. tries' \in 0..(MaxAttempts + 1) /\ TriesOK'
      BY <1>3, <2>1, <3>1 DEF TriesOK
    <3>3. CASE run.otherwise = "off"
      <4>1. run' = Off /\ upload' = upload
        BY <1>1, <3>3 DEF Proceed
      <4> QED
        BY <1>2, <1>5, <2>1, <2>2, <3>2, <3>3, <4>1, RestsOff
    <3>4. CASE run.otherwise \in {"return", "ended"}
      <4>1. /\ run' = App
            /\ run.otherwise = "return" => upload' = upload
            /\ run.otherwise = "ended" => upload' = Idle
        BY <1>1, <3>4 DEF Proceed
      <4>2. upload' \in UploadTyped /\ upload'.session = "idle"
        BY <1>2, <1>5, <3>4, <4>1, IdleTyped
      <4> QED
        BY <2>1, <2>2, <2>3, <3>2, <3>4, <4>1, <4>2, RestsInApp
    <3> QED
      BY <1>2, <2>5, <3>3, <3>4
  <2> QED
    BY <2>4, <2>5
<1>7. CASE flash' = Store(flash, run.rec) /\ run.otherwise \in {"return", "ended"}
  <2>1. /\ flash' \in Flashes /\ Current(flash') = run.rec
        /\ AtRest(flash') /\ ProgramWhole'
    BY <1>1, <1>7, WriteLands
  <2>2. /\ run' = App /\ tries' = tries
        /\ run.otherwise = "return" => upload' = upload
        /\ run.otherwise = "ended" => upload' = Idle
    BY <1>1, <1>7 DEF Proceed
  <2>3. upload' \in UploadTyped /\ upload'.session = "idle"
    BY <1>2, <1>5, <1>7, <2>2, IdleTyped
  <2>4. TriesOK'
    BY <1>4, <1>7, <2>1 DEF TriesOK
  <2> QED
    BY <1>3, <2>1, <2>2, <2>3, <2>4, RestsInApp
<1> QED
  BY <1>1, <1>6, <1>7

(***************************************************************************)
(* Steps of the application.                                               *)
(***************************************************************************)
LEMMA AppContext ==
  ASSUME OtaInv, run = App
  PROVE  /\ run.at = "app" /\ flash \in Flashes
         /\ AtRest(flash) /\ ProgramWhole
         /\ upload \in UploadTyped
         /\ tries \in 0..(MaxAttempts + 1) /\ TriesOK
         /\ upload.session = "receive" =>
               /\ upload.image \in Images
               /\ Provisioned(flash) => Current(flash).mode = "STABLE"
<1>1. run.at = "app"
  BY DEF App
<1>2. ProgramWhole
  BY DEF OtaInv, LaunchIsWhole, ProgramWhole
<1> QED
  BY <1>1, <1>2, InvRests DEF OtaInv, FlashTyped, UploadOK, UploadTyped

LEMMA BeginTransferOK == OtaInv /\ BeginTransfer => OtaInv'
<1> SUFFICES ASSUME OtaInv, BeginTransfer PROVE OtaInv'
  OBVIOUS
<1>1. run = App /\ run' = run /\ flash' = flash /\ tries' = tries
  BY DEF BeginTransfer
<1>2. PICK i \in Images :
         upload' = IF StorageBegins
                   THEN [session |-> "receive", active |-> TRUE, image |-> i, got |-> 0]
                   ELSE Idle
  BY DEF BeginTransfer
<1>3. upload' \in UploadTyped
  BY <1>2, IdleTyped, OtaAssumption DEF UploadTyped
<1>4. upload'.session = "receive" =>
         /\ upload'.image \in Images
         /\ Provisioned(flash) => Current(flash).mode = "STABLE"
  BY <1>2, IdleTyped DEF StorageBegins
<1>5. ProgramWhole' /\ TriesOK'
  BY <1>1, AppContext DEF ProgramWhole, TriesOK
<1> QED
  BY <1>1, <1>3, <1>4, <1>5, AppContext, RestsInApp

LEMMA OtaBeginOK == OtaInv /\ OtaBegin => OtaInv'
<1> SUFFICES ASSUME OtaInv, OtaBegin PROVE OtaInv'
  OBVIOUS
<1>1. /\ run = App /\ run' = run /\ flash' = flash /\ tries' = tries
      /\ upload' = [upload EXCEPT !.session = "idle"]
  BY DEF OtaBegin
<1>2. upload' \in UploadTyped /\ upload'.session = "idle"
  BY <1>1, AppContext DEF UploadTyped
<1>3. ProgramWhole' /\ TriesOK'
  BY <1>1, AppContext DEF ProgramWhole, TriesOK
<1> QED
  BY <1>1, <1>2, <1>3, AppContext, RestsInApp

LEMMA TransferFailsOK == OtaInv /\ TransferFails => OtaInv'
<1> SUFFICES ASSUME OtaInv, TransferFails PROVE OtaInv'
  OBVIOUS
<1>1. /\ run = App /\ run' = run /\ flash' \in {flash} \cup Cut(flash)
      /\ upload' = Idle /\ tries' = tries
  BY DEF TransferFails
<1>2. /\ run.at = "app" /\ ProgramWhole
      /\ tries \in 0..(MaxAttempts + 1) /\ TriesOK
  BY <1>1, AppContext
<1>3. /\ flash' \in Flashes
      /\ Provisioned(flash') <=> Provisioned(flash)
      /\ Provisioned(flash) =>
            Current(flash') = Current(flash) /\ RecordSound(flash', Current(flash), FALSE)
      /\ ~Provisioned(flash) => Holds(flash'.program, Factory)
      /\ flash'.program = flash.program
  BY <1>1, <1>2, CutKeeps
<1>4. AtRest(flash') /\ ProgramWhole'
  BY <1>2, <1>3 DEF AtRest, ProgramWhole
<1>5. TriesOK'
  BY <1>1, <1>2, <1>3 DEF TriesOK
<1> QED
  BY <1>1, <1>2, <1>3, <1>4, <1>5, IdleTyped, RestsInApp

LEMMA ConfirmBootOK == OtaInv /\ ConfirmBoot => OtaInv'
<1> SUFFICES ASSUME OtaInv, ConfirmBoot PROVE OtaInv'
  OBVIOUS
<1> DEFINE c == Current(flash)
           b == Become(c, "STABLE")
           r == [b EXCEPT !.attempts = 0]
<1>1. /\ run = App /\ Provisioned(flash) /\ c.mode = "TRIAL"
      /\ run' = Write(r, "return", "return")
      /\ flash' = flash /\ upload' = upload /\ tries' = tries
  BY DEF ConfirmBoot
<1>2. /\ run.at = "app" /\ flash \in Flashes /\ AtRest(flash) /\ ProgramWhole
      /\ upload \in UploadTyped /\ upload.session # "receive"
      /\ tries \in 0..(MaxAttempts + 1) /\ TriesOK
  BY <1>1, AppContext
<1>3. c \in Records /\ b \in Records /\ b.seq = NextSeq(c.seq) /\ b.mode = "STABLE"
      /\ b.prog = c.prog
  BY <1>1, <1>2, CurrentTyped, BecomeTyped DEF Modes
<1>4. /\ r \in Records /\ r.seq = NextSeq(c.seq) /\ r.mode = "STABLE"
      /\ r.prog = c.prog
  <2> HIDE DEF b
  <2> QED
    BY <1>3, OtaAssumption DEF Records
<1>5. /\ run'.at = "write" /\ run'.rec = r
      /\ run'.then = "return" /\ run'.otherwise = "return"
      /\ run' \in [at : {"write"}, rec : Records,
                   then : {"app", "copy", "tidy", "journal", "return", "ended"},
                   otherwise : {"app", "off", "return", "ended"}]
  BY <1>1, <1>4, WriteTyped
<1> HIDE DEF r
<1>6. Holds(flash.program, c.prog)
  BY <1>1, <1>2 DEF ProgramWhole
<1>7. RecordSound(flash, r, FALSE) /\ Holds(flash.program, r.prog) /\ ProgramWhole'
  BY <1>1, <1>2, <1>4, <1>6 DEF RecordSound, ProgramWhole
<1>8. Staged'
  BY <1>1, <1>4, <1>5, <1>7 DEF Staged, LeadsTo
<1>9. TriesOK'
  BY <1>1, <1>2 DEF TriesOK
<1> QED
  BY <1>1, <1>2, <1>5, <1>8, <1>9, RestsInWrite

LEMMA ReceiveTransferOK == OtaInv /\ ReceiveTransfer => OtaInv'
<1> SUFFICES ASSUME OtaInv, ReceiveTransfer PROVE OtaInv'
  OBVIOUS
<1> DEFINE n == upload.got + 1
<1>1. run = App /\ Receiving /\ tries' = tries
  BY DEF ReceiveTransfer
<1>2. /\ flash \in Flashes /\ AtRest(flash) /\ ProgramWhole
      /\ upload \in UploadTyped /\ upload.session = "receive"
      /\ tries \in 0..(MaxAttempts + 1) /\ TriesOK
      /\ upload.image \in Images
      /\ Provisioned(flash) => Current(flash).mode = "STABLE"
  BY <1>1, AppContext DEF Receiving
<1>3. n \in Sectors /\ n \in 0..NSectors
  BY <1>1, <1>2, OtaAssumption DEF Receiving, Sectors, UploadTyped
<1>4. PICK part \in {Part(upload.image, n), Junk} :
         flash' = [flash EXCEPT !.staging[n] = part]
  BY DEF ReceiveTransfer
<1>5. part \in Contents
  BY <1>2, <1>3 DEF Contents
<1>6. flash' = [flash EXCEPT !.staging = [flash.staging EXCEPT ![n] = part]]
  BY <1>4
<1>7. [flash.staging EXCEPT ![n] = part] \in [Sectors -> Contents]
  BY <1>2, <1>5, RecordFields
<1>8. /\ flash' \in Flashes /\ flash'.record = flash.record
      /\ flash'.program = flash.program
  BY <1>2, <1>6, <1>7 DEF Flashes
<1>9. (Provisioned(flash') <=> Provisioned(flash)) /\ Current(flash') = Current(flash)
  BY <1>8, SameRecords
<1>10. Provisioned(flash) =>
          /\ Holds(flash.program, Current(flash).prog)
          /\ RecordSound(flash', Current(flash), FALSE)
  BY <1>2, <1>8 DEF AtRest, RecordSound, ProgramWhole
<1>11. AtRest(flash') /\ ProgramWhole' /\ TriesOK'
  BY <1>1, <1>2, <1>8, <1>9, <1>10 DEF AtRest, ProgramWhole, TriesOK
<1> DEFINE more == [upload EXCEPT !.got = n]
<1>12. /\ more \in UploadTyped /\ more.image = upload.image
       /\ more.session = "receive"
  BY <1>2, <1>3 DEF UploadTyped
<1>13. CASE n < NSectors
  <2>1. upload' = more /\ run' = App
    BY <1>13 DEF ReceiveTransfer
  <2> HIDE DEF more
  <2> QED
    BY <1>1, <1>2, <1>8, <1>9, <1>11, <1>12, <2>1, RestsInApp
<1>14. CASE ~(n < NSectors) /\ ~FinishAccepts(flash')
  <2>1. upload' = Idle /\ run' = App
    BY <1>14 DEF ReceiveTransfer
  <2> QED
    BY <1>1, <1>2, <1>8, <1>11, <2>1, IdleTyped, RestsInApp
<1>15. CASE ~(n < NSectors) /\ FinishAccepts(flash')
  <2>1. /\ upload' = more
        /\ run' = IF Provisioned(flash) THEN Doing("journal")
                  ELSE Write(FactoryRecord(flash), "journal", "ended")
    BY <1>15 DEF ReceiveTransfer
  <2>2. Holds(flash'.staging, upload.image)
    BY <1>15 DEF FinishAccepts
  <2> HIDE DEF more
  <2>3. CASE Provisioned(flash)
    BY <1>1, <1>2, <1>8, <1>9, <1>11, <1>12, <2>1, <2>2, <2>3, RestsBetween
  <2>4. CASE ~Provisioned(flash)
    <3> DEFINE r == FactoryRecord(flash)
               i == CHOOSE j \in Images : Holds(flash.program, j)
    <3>1. i \in Images /\ Holds(flash.program, i)
      BY <1>2, <2>4, OtaAssumption DEF ProgramWhole
    <3> HIDE DEF i
    <3>2. r = [seq |-> 1, mode |-> "STABLE", attempts |-> 0, prog |-> i, stag |-> NoImage]
      BY DEF FactoryRecord, Record, i
    <3>3. r \in Records /\ r.mode = "STABLE" /\ r.prog = i
      BY <3>1, <3>2, OtaAssumption DEF Records, Seqs, Modes
    <3>4. /\ run'.at = "write" /\ run'.rec = r
          /\ run'.then = "journal" /\ run'.otherwise = "ended"
          /\ run' \in [at : {"write"}, rec : Records,
                       then : {"app", "copy", "tidy", "journal", "return", "ended"},
                       otherwise : {"app", "off", "return", "ended"}]
      BY <2>1, <2>4, <3>3, WriteTyped
    <3> HIDE DEF r
    <3>5. RecordSound(flash', r, FALSE) /\ Holds(flash'.program, r.prog)
      BY <1>8, <3>1, <3>3 DEF RecordSound
    <3>6. Staged'
      BY <1>2, <1>9, <1>11, <1>12, <2>1, <2>2, <2>4, <3>3, <3>4, <3>5 DEF Staged, LeadsTo
    <3> QED
      BY <1>1, <1>2, <1>8, <1>11, <1>12, <2>1, <3>4, <3>6, RestsInWrite
  <2> QED
    BY <2>3, <2>4
<1> QED
  BY <1>13, <1>14, <1>15

LEMMA EraseForUpdateOK == OtaInv /\ EraseForUpdate => OtaInv'
<1> SUFFICES ASSUME OtaInv, EraseForUpdate PROVE OtaInv'
  OBVIOUS
<1> DEFINE c == Current(flash)
           b == Become(c, "PENDING")
           r == [b EXCEPT !.attempts = 0, !.stag = upload.image]
<1>1. /\ run.at = "journal" /\ flash' = [flash EXCEPT !.phase = Blank]
      /\ run' = Write(r, "ended", "ended") /\ upload' = upload /\ tries' = tries
  BY DEF EraseForUpdate, Pending
<1>2. /\ flash \in Flashes /\ tries \in 0..(MaxAttempts + 1) /\ TriesOK
      /\ upload \in UploadTyped
  BY CountsOK DEF OtaInv, FlashTyped, UploadTyped
<1>3. /\ Provisioned(flash) /\ c.mode = "STABLE"
      /\ Holds(flash.staging, upload.image) /\ upload.image \in Images
  BY <1>1 DEF OtaInv, RunOK
<1>4. Holds(flash.program, c.prog)
  BY <1>3, InvRests DEF AtRest, RecordSound
<1>5. /\ flash' \in Flashes /\ flash'.phase = Blank
      /\ flash'.program = flash.program /\ flash'.staging = flash.staging
      /\ Provisioned(flash') /\ Current(flash') = c
  BY <1>1, <1>2, <1>3, PhaseBlank
<1>6. AtRest(flash') /\ ProgramWhole'
  BY <1>3, <1>4, <1>5 DEF AtRest, RecordSound, ProgramWhole
<1>7. c \in Records /\ b \in Records /\ b.seq = NextSeq(c.seq) /\ b.mode = "PENDING"
      /\ b.prog = c.prog
  BY <1>2, <1>3, CurrentTyped, BecomeTyped DEF Modes
<1>8. /\ r \in Records /\ r.seq = NextSeq(c.seq) /\ r.mode = "PENDING"
      /\ r.prog = c.prog /\ r.stag = upload.image
  <2> HIDE DEF b
  <2>1. 0 \in 0..MaxAttempts
    BY OtaAssumption
  <2>2. /\ r.seq = b.seq /\ r.mode = b.mode /\ r.prog = b.prog /\ r.stag = upload.image
        /\ r \in Records
    BY <1>3, <1>7, <2>1 DEF Records
  <2> QED
    BY <1>7, <2>2
<1>9. /\ run'.at = "write" /\ run'.rec = r
      /\ run'.then = "ended" /\ run'.otherwise = "ended"
      /\ run' \in [at : {"write"}, rec : Records,
                   then : {"app", "copy", "tidy", "journal", "return", "ended"},
                   otherwise : {"app", "off", "return", "ended"}]
  BY <1>1, <1>8, WriteTyped
<1> HIDE DEF r
<1>10. RecordSound(flash', r, FALSE)
  BY <1>3, <1>4, <1>5, <1>8 DEF RecordSound, SwapTells, Holds, Blank
<1>11. Staged'
  BY <1>4, <1>5, <1>6, <1>8, <1>9, <1>10 DEF Staged, LeadsTo
<1>12. TriesOK'
  BY <1>1, <1>2, <1>3, <1>5 DEF TriesOK
<1> QED
  BY <1>1, <1>2, <1>5, <1>6, <1>9, <1>11, <1>12, RestsInWrite

LEMMA EraseForUpdateFailsOK == OtaInv /\ EraseForUpdateFails => OtaInv'
<1> SUFFICES ASSUME OtaInv, EraseForUpdateFails PROVE OtaInv'
  OBVIOUS
<1> DEFINE c == Current(flash)
<1>1. /\ run.at = "journal" /\ flash' \in {flash} \cup Cut(flash)
      /\ run' = App /\ upload' = Idle /\ tries' = tries
  BY DEF EraseForUpdateFails
<1>2. tries \in 0..(MaxAttempts + 1) /\ TriesOK
  BY CountsOK
<1>3. Provisioned(flash) /\ c.mode = "STABLE"
  BY <1>1 DEF OtaInv, RunOK
<1>4. /\ flash' \in Flashes /\ Provisioned(flash') /\ Current(flash') = c
      /\ RecordSound(flash', c, FALSE)
  BY <1>1, <1>3, CutKeeps
<1>5. AtRest(flash') /\ ProgramWhole' /\ TriesOK'
  BY <1>3, <1>4 DEF AtRest, ProgramWhole, RecordSound, TriesOK
<1> QED
  BY <1>1, <1>2, <1>4, <1>5, IdleTyped, RestsInApp

LEMMA StagingDecaysOK == OtaInv /\ StagingDecays => OtaInv'
<1> SUFFICES ASSUME OtaInv, StagingDecays PROVE OtaInv'
  OBVIOUS
<1> DEFINE c == Current(flash)
<1>1. /\ run = Off /\ run.at = "off" /\ run' = run /\ upload' = upload /\ tries' = tries
      /\ Provisioned(flash) /\ c.mode = "PENDING" /\ ~SwapStarted(flash)
  BY DEF StagingDecays, Off
<1>2. PICK n \in Sectors : flash' = [flash EXCEPT !.staging[n] = Junk]
  BY DEF StagingDecays
<1>3. flash \in Flashes /\ tries \in 0..(MaxAttempts + 1) /\ TriesOK
  BY CountsOK
<1>4. Junk \in Contents
  BY DEF Contents
<1>5. flash' = [flash EXCEPT !.staging = [flash.staging EXCEPT ![n] = Junk]]
  BY <1>2
<1>6. [flash.staging EXCEPT ![n] = Junk] \in [Sectors -> Contents]
  BY <1>3, <1>4, RecordFields
<1>7. /\ flash' \in Flashes /\ flash'.record = flash.record
      /\ flash'.program = flash.program /\ flash'.phase = flash.phase
  BY <1>3, <1>5, <1>6 DEF Flashes
<1>8. Provisioned(flash') /\ Current(flash') = c
  BY <1>1, <1>7, SameRecords
<1>9. ~SwapStarted(flash') /\ \A k \in Sectors : flash.phase[k] = "FF"
  BY <1>1, <1>7, BlankJournal DEF SwapStarted
<1>10. SwapTells(flash, c.prog, c.stag, FALSE \/ SwapStarted(flash))
  BY <1>1, InvRests DEF AtRest, RecordSound
<1>11. \A k \in Sectors : flash.program[k] = Part(c.prog, k)
  BY <1>9, <1>10 DEF SwapTells
<1>12. SwapTells(flash', c.prog, c.stag, FALSE \/ SwapStarted(flash'))
  BY <1>7, <1>9, <1>11 DEF SwapTells
<1>13. AtRest(flash')
  BY <1>1, <1>8, <1>12 DEF AtRest, RecordSound
<1>14. TriesOK'
  BY <1>1, <1>8 DEF TriesOK
<1> QED
  BY <1>1, <1>3, <1>7, <1>13, <1>14, BootIsIdle, RestsOff

LEMMA OtaStepOK == OtaInv /\ [Next]_vars => OtaInv'
<1> SUFFICES ASSUME OtaInv, [Next]_vars PROVE OtaInv'
  OBVIOUS
<1>1. CASE UNCHANGED vars
  <2>1. flash' = flash /\ run' = run /\ upload' = upload /\ tries' = tries
    BY <1>1 DEF vars
  <2>2. FlashTyped' /\ UploadOK' /\ TriesOK' /\ RunOK'
    BY <2>1 DEF OtaInv, FlashTyped, UploadOK, TriesOK, RunOK
  <2>3. NothingLost' /\ LaunchIsWhole'
    BY <2>1 DEF OtaInv, NothingLost, LaunchIsWhole
  <2>4. Staged'
    BY <2>1 DEF OtaInv, Staged, ProgramWhole
  <2>5. Copied'
    BY <2>1 DEF OtaInv, Copied
  <2> QED
    BY <2>2, <2>3, <2>4, <2>5 DEF OtaInv
<1>2. CASE BootStep
  BY <1>2, BootLaunchOK, BootPendingOK, BootTrialOK, BootRollbackOK,
     EraseForRollbackOK, CopySectorOK, MarkPhaseOK, SwapDoneOK, TidyJournalOK,
     WriteStateOK, EraseForUpdateOK DEF BootStep
<1>3. CASE AppStep
  BY <1>3, BeginTransferOK, ReceiveTransferOK, TransferFailsOK, ConfirmBootOK,
     OtaBeginOK DEF AppStep
<1>4. CASE Fault
  BY <1>4, SwapFailsOK, EraseForRollbackFailsOK, WriteStateFailsOK,
     EraseForUpdateFailsOK, PowerLossOK DEF Fault
<1>5. CASE Reset \/ StagingDecays
  BY <1>5, PowerLossOK, StagingDecaysOK
<1> QED
  BY <1>1, <1>2, <1>3, <1>4, <1>5 DEF Next

(***************************************************************************)
(* Theorems.                                                               *)
(***************************************************************************)
\* OtaInv holds in every reachable state of rp_ota_boot.cpp,
\* rp_ota_storage.cpp and the transfer part of hal_ota.cpp.
THEOREM OtaInvariance == Spec => []OtaInv
<1>1. Init => OtaInv
  BY OtaInitOK
<1>2. OtaInv /\ [Next]_vars => OtaInv'
  BY OtaStepOK
<1> QED
  BY <1>1, <1>2, PTL DEF Spec

\* The flash, the processor, the upload and the trial count keep their types:
\* no record counts past HAL_RP_OTA_MAX_BOOT_ATTEMPTS, no journal byte holds
\* anything but a mark, and the boot image only writes records that decode.
THEOREM TypeCorrect == Spec => []TypeOK
<1>1. OtaInv => TypeOK
  <2> SUFFICES ASSUME OtaInv PROVE TypeOK
    OBVIOUS
  <2>1. run.at = "write" =>
           run \in [at : {"write"}, rec : Records,
                    then : {"app", "copy", "tidy", "journal", "return", "ended"},
                    otherwise : {"app", "off", "return", "ended"}]
    BY DEF OtaInv, Staged
  <2> QED
    BY <2>1 DEF OtaInv, FlashTyped, RunOK, TypeOK
<1> QED
  BY <1>1, OtaInvariance, PTL

\* Whatever jh_ota_swap_execute, write_state or the journal erase is in the
\* middle of when power fails, the selected record and the journal account
\* for every sector of both images.
THEOREM NoImageLost == Spec => []NothingLost
<1>1. OtaInv => NothingLost
  BY DEF OtaInv
<1> QED
  BY <1>1, OtaInvariance, PTL

\* launch_application is only reached with the program slot holding, sector
\* for sector, the image the selected record names.
THEOREM WholeLaunch == Spec => []LaunchIsWhole
<1>1. OtaInv => LaunchIsWhole
  BY DEF OtaInv
<1> QED
  BY <1>1, OtaInvariance, PTL

\* A step that leaves the record in charge alone.
RecordKept ==
    /\ Provisioned(flash') <=> Provisioned(flash)
    /\ Provisioned(flash) => Current(flash') = Current(flash)

\* The write under way arrives.
RecordWritten == run.at = "write" /\ flash' = Store(flash, run.rec)

LEMMA RecordStep ==
  ASSUME OtaInv, [Next]_vars
  PROVE  \/ RecordKept
         \/ WriteState
         \/ /\ WriteStateFails /\ RecordWritten
            /\ run.otherwise \in {"return", "ended"}
<1>1. flash \in Flashes
  BY CountsOK
<1>2. ASSUME flash'.record = flash.record PROVE RecordKept
  BY <1>2, SameRecords DEF RecordKept
<1>3. CASE flash' \in {flash} \cup Cut(flash)
  BY <1>3, CutKeeps DEF RecordKept
<1>4. CASE flash' = [flash EXCEPT !.phase = Blank]
  BY <1>1, <1>2, <1>4, PhaseBlank
<1>5. CASE CopySector
  <2>1. PICK n \in Sectors : /\ SwapAt(flash, n) /\ flash.phase[n] # "bad"
                             /\ flash' = Copy(flash, n, flash.phase[n])
    BY <1>5 DEF CopySector
  <2>2. flash.phase[n] \in {"FF", "FE", "FC"}
    BY <1>1, <2>1, RecordFields DEF SwapAt, Marks
  <2> QED
    BY <1>1, <1>2, <2>1, <2>2, CopyFields
<1>6. CASE MarkPhase
  <2>1. PICK n \in Sectors : flash' = [flash EXCEPT !.phase[n] = NextMark(@)]
    BY <1>6 DEF MarkPhase
  <2> QED
    BY <1>1, <1>2, <2>1 DEF Flashes
<1>7. CASE ReceiveTransfer \/ StagingDecays
  <2>1. PICK n, part : flash' = [flash EXCEPT !.staging[n] = part]
    BY <1>7 DEF ReceiveTransfer, StagingDecays
  <2> QED
    BY <1>1, <1>2, <2>1 DEF Flashes
<1>8. CASE BootStep
  BY <1>3, <1>4, <1>5, <1>6, <1>8 DEF BootStep, BootLaunch, BootPending,
     BootTrial, BootRollback, EraseForRollback, SwapDone, TidyJournal, EraseForUpdate
<1>9. CASE AppStep
  BY <1>3, <1>7, <1>9 DEF AppStep, BeginTransfer, TransferFails, ConfirmBoot, OtaBegin
<1>10. CASE WriteStateFails
  BY <1>3, <1>10 DEF WriteStateFails, RecordWritten
<1>11. CASE Fault \/ Reset
  BY <1>3, <1>10, <1>11 DEF Fault, SwapFails, EraseForRollbackFails,
     EraseForUpdateFails, PowerLoss, Reset
<1>12. CASE UNCHANGED vars
  BY <1>3, <1>12 DEF vars
<1> QED
  BY <1>7, <1>8, <1>9, <1>11, <1>12 DEF Next

\* The selected record: a step keeps it or puts its successor in its place.
RecordAdvances ==
    Provisioned(flash) => /\ Provisioned(flash')
                          /\ \/ Current(flash') = Current(flash)
                             \/ Current(flash').seq = NextSeq(Current(flash).seq)

LEMMA RecordStepOK == OtaInv /\ [Next]_vars => RecordAdvances
<1> SUFFICES ASSUME OtaInv, [Next]_vars PROVE RecordAdvances
  OBVIOUS
<1>1. CASE RecordKept
  BY <1>1 DEF RecordKept, RecordAdvances
<1>2. CASE RecordWritten
  <2>1. Provisioned(flash') /\ Current(flash') = run.rec
    BY <1>2, WriteLands DEF RecordWritten
  <2>2. Provisioned(flash) => run.rec.seq = NextSeq(Current(flash).seq)
    BY <1>2, WriteContext DEF RecordWritten
  <2> QED
    BY <2>1, <2>2 DEF RecordAdvances
<1>3. WriteState => RecordWritten
  BY DEF WriteState, RecordWritten
<1> QED
  BY <1>1, <1>2, <1>3, RecordStep

\* write_state never touches the record that counts, so neither a torn record
\* write nor a wrapped sequence counter makes a restart go back to an older
\* state.
THEOREM RecordsOnlyAdvance == Spec => RecordsAdvance
<1>1. OtaInv /\ [Next]_vars => [RecordAdvances]_vars
  BY RecordStepOK
<1> QED
  BY <1>1, OtaInvariance, PTL DEF Spec, RecordsAdvance, RecordAdvances

(***************************************************************************)
(* The refinement: what a record write that is under way will do to the    *)
(* two slots.                                                              *)
(***************************************************************************)
\* What a write of the boot image or of the application makes of record r.
PlannedFrom(r) ==
    \/ /\ r.mode \in {"PENDING", "ROLLBACK"}
       /\ run.then = "app" /\ run.otherwise = "app"
       /\ run.rec = Become(r, "RECOVERY")
    \/ /\ r.mode = "TRIAL" /\ TrialLeft(r)
       /\ run.then = "app" /\ run.otherwise = "off"
       /\ run.rec = [Become(r, "TRIAL") EXCEPT !.attempts = @ + 1]
    \/ /\ r.mode = "TRIAL" /\ ~TrialLeft(r)
       /\ run.then = "copy" /\ run.otherwise = "off"
       /\ run.rec = Become(r, "ROLLBACK")
    \/ /\ r.mode \in {"PENDING", "ROLLBACK"}
       /\ run.then = "tidy" /\ run.otherwise = "off"
       /\ run.rec = Swapped(r, IF r.mode = "PENDING" THEN "TRIAL" ELSE "STABLE")
    \/ /\ r.mode = "TRIAL"
       /\ run.then = "return" /\ run.otherwise = "return"
       /\ run.rec = [Become(r, "STABLE") EXCEPT !.attempts = 0]
    \/ /\ r.mode = "STABLE" /\ upload.image \in Images
       /\ run.then = "ended" /\ run.otherwise = "ended"
       /\ run.rec = Pending(r, upload.image)

Planned ==
    /\ run.at = "write" =>
         IF Provisioned(flash)
         THEN PlannedFrom(Current(flash))
         ELSE /\ run.then = "journal" /\ run.otherwise = "ended"
              /\ run.rec = FactoryRecord(flash)
    /\ run.at = "erase" => ~TrialLeft(Current(flash))
    /\ run.at = "tidy" => Current(flash).attempts = 0

\* While the application runs, the program slot holds the image in use.
InUse == IF Provisioned(flash) THEN Current(flash).prog ELSE Factory

LEMMA OneImage ==
  ASSUME NEW f, NEW i \in Images, NEW j \in Images,
         Holds(f.program, i), Holds(f.program, j)
  PROVE  i = j
<1>1. 1 \in Sectors
  BY OtaAssumption DEF Sectors
<1>2. Part(i, 1) = Part(j, 1)
  BY <1>1 DEF Holds
<1> QED
  BY <1>2 DEF Part

LEMMA RunningIs ==
  OtaInv /\ InApplication => InSlot = InUse /\ InUse \in Images /\ InUse # NoImage
<1> SUFFICES ASSUME OtaInv, InApplication
             PROVE  InSlot = InUse /\ InUse \in Images /\ InUse # NoImage
  OBVIOUS
<1>1. ProgramWhole
  <2>1. CASE run.at = "app"
    <3>1. run = App
      BY <2>1 DEF OtaInv, RunOK, App, Off, Doing
    <3> QED
      BY <3>1 DEF OtaInv, LaunchIsWhole, ProgramWhole
  <2>2. CASE run.at = "journal"
    <3>1. Provisioned(flash) /\ Current(flash).mode = "STABLE"
      BY <2>2 DEF OtaInv, RunOK
    <3> QED
      BY <3>1 DEF OtaInv, NothingLost, RecordSound, ProgramWhole
  <2>3. CASE run.at = "write" /\ run.otherwise \in {"return", "ended"}
    BY <2>3 DEF OtaInv, Staged
  <2> QED
    BY <2>1, <2>2, <2>3 DEF InApplication
<1>2. Holds(flash.program, InUse) /\ InUse \in Images
  <2>1. CASE Provisioned(flash)
    <3>1. Current(flash) \in Records
      BY <2>1, CountsOK, CurrentTyped
    <3> QED
      BY <1>1, <2>1, <3>1 DEF ProgramWhole, InUse, Records
  <2>2. CASE ~Provisioned(flash)
    BY <1>1, <2>2, OtaAssumption DEF ProgramWhole, InUse
  <2> QED
    BY <2>1, <2>2
<1> HIDE DEF InUse
<1>3. InSlot = InUse
  BY <1>2, OneImage DEF InSlot
<1> QED
  BY <1>2, <1>3, OtaAssumption

LEMMA RunningNext ==
  (OtaInv /\ InApplication => InSlot = InUse /\ InUse \in Images /\ InUse # NoImage)'
BY RunningIs, PTL
(***************************************************************************)
(* Steps that keep the record.                                             *)
(***************************************************************************)
LEMMA KeptStops ==
  ASSUME RecordKept, ~InApplication'
  PROVE  Update!Stop
BY DEF RecordKept, Update!Stop

LEMMA KeptStutters ==
  ASSUME OtaInv, OtaInv', RecordKept, InApplication, InApplication'
  PROVE  UNCHANGED Update!absVars
<1>1. InUse' = InUse
  BY DEF RecordKept, InUse
<1>2. InSlot = InUse /\ InSlot' = InUse'
  BY RunningIs, RunningNext
<1> QED
  BY <1>1, <1>2 DEF RecordKept, Update!absVars

LEMMA KeptLaunches ==
  ASSUME OtaInv', RecordKept, ~InApplication, InApplication',
         Provisioned(flash) /\ Current(flash).mode = "TRIAL" =>
            Current(flash).attempts = 0
  PROVE  Update!Launch
<1>1. InUse' = InUse
  BY DEF RecordKept, InUse
<1>2. InSlot' = InUse'
  BY RunningNext
<1> QED
  BY <1>1, <1>2 DEF RecordKept, InUse, Update!Launch

\* A launch with no record written is not one of a trial that has been counted.
LEMMA LaunchUncounted ==
  ASSUME OtaInv, Planned, Next, RecordKept, ~WriteState, ~InApplication, InApplication',
         Provisioned(flash), Current(flash).mode = "TRIAL"
  PROVE  Current(flash).attempts = 0
<1>1. Current(flash') = Current(flash)
  BY DEF RecordKept
<1>2. run.at \notin {"app", "journal"}
      /\ (run.at = "write" => run.otherwise \notin {"return", "ended"})
  BY DEF InApplication
<1>3. CASE TidyJournal
  BY <1>3 DEF TidyJournal, Planned
<1>4. CASE BootStep /\ ~TidyJournal
  <2>1. run' \notin {Off, Doing("copy"), Doing("mark"), Doing("erase"), Doing("tidy")}
    BY DEF InApplication, Off, Doing
  <2>2. ASSUME NEW r, NEW t PROVE run' # Write(r, t, "app") /\ run' # Write(r, t, "off")
    BY DEF InApplication, Write
  <2> QED
    BY <1>2, <1>4, <2>1, <2>2 DEF BootStep, BootLaunch, BootPending, BootTrial,
       BootRollback, EraseForRollback, CopySector, MarkPhase, SwapDone, EraseForUpdate
<1>5. CASE WriteStateFails
  <2>1. run.at = "write" /\ run.otherwise # "off"
    BY <1>5 DEF WriteStateFails, Proceed, InApplication, Off
  <2> QED
    BY <1>2, <2>1 DEF Planned, PlannedFrom
<1>6. CASE AppStep \/ Reset \/ StagingDecays \/ (Fault /\ ~WriteStateFails)
  <2>1. run' \notin {Off}
    BY DEF InApplication, Off
  <2>2. ASSUME NEW r PROVE run' # Write(r, "app", "app")
    BY DEF InApplication, Write
  <2>3. run # App
    BY <1>2 DEF App
  <2> QED
    BY <1>2, <1>6, <2>1, <2>2, <2>3 DEF AppStep, BeginTransfer, ReceiveTransfer,
       TransferFails, ConfirmBoot, OtaBegin, Reset, StagingDecays, Fault, SwapFails,
       AfterFailedSwap, EraseForRollbackFails, EraseForUpdateFails, PowerLoss
<1> QED
  BY <1>3, <1>4, <1>5, <1>6 DEF Next

LEMMA KeptImplements ==
  ASSUME OtaInv, OtaInv', Planned, Next, RecordKept, ~WriteState
  PROVE  Update!AbsNext \/ UNCHANGED Update!absVars
<1>1. CASE ~InApplication'
  BY <1>1, KeptStops DEF Update!AbsNext
<1>2. CASE InApplication /\ InApplication'
  BY <1>2, KeptStutters
<1>3. CASE ~InApplication /\ InApplication'
  BY <1>3, KeptLaunches, LaunchUncounted DEF Update!AbsNext
<1> QED
  BY <1>1, <1>2, <1>3

(***************************************************************************)
(* Steps that write a record.                                              *)
(***************************************************************************)
\* The first record of a board says what the empty ones said.
LEMMA FirstRecord ==
  ASSUME OtaInv, Planned, RecordWritten, ~Provisioned(flash)
  PROVE  /\ run.then = "journal" /\ run.otherwise = "ended"
         /\ run.rec.mode = "STABLE" /\ run.rec.attempts = 0
         /\ run.rec.prog = Factory /\ run.rec.stag = NoImage
<1> DEFINE i == CHOOSE j \in Images : Holds(flash.program, j)
<1>1. /\ run.then = "journal" /\ run.otherwise = "ended"
      /\ run.rec = FactoryRecord(flash)
  BY DEF Planned, RecordWritten
<1>2. Holds(flash.program, Factory) /\ Factory \in Images
  BY OtaAssumption DEF OtaInv, NothingLost
<1>3. i \in Images /\ Holds(flash.program, i)
  BY <1>2
<1>4. i = Factory
  BY <1>2, <1>3, OneImage
<1>5. run.rec = [seq |-> 1, mode |-> "STABLE", attempts |-> 0, prog |-> i,
                 stag |-> NoImage]
  BY <1>1 DEF FactoryRecord, Record
<1> HIDE DEF i
<1> QED
  BY <1>1, <1>4, <1>5

LEMMA FirstRecordStutters ==
  ASSUME OtaInv, OtaInv', Planned, RecordWritten, ~Provisioned(flash),
         InApplication, InApplication'
  PROVE  UNCHANGED Update!absVars
<1>1. Provisioned(flash') /\ Current(flash') = run.rec
  BY WriteLands DEF RecordWritten
<1>2. /\ run.rec.mode = "STABLE" /\ run.rec.attempts = 0
      /\ run.rec.prog = Factory /\ run.rec.stag = NoImage
  BY FirstRecord
<1>3. InSlot = InUse /\ InSlot' = InUse'
  BY RunningIs, RunningNext
<1>4. InUse = Factory /\ InUse' = Factory
  BY <1>1, <1>2 DEF InUse
<1> QED
  BY <1>1, <1>2, <1>3, <1>4 DEF Update!absVars
\* A record of the boot image: the application is not running.
LEMMA BootWrites ==
  ASSUME OtaInv, OtaInv', Planned, WriteState, Provisioned(flash),
         run.then \notin {"return", "ended"}
  PROVE  Update!AbsNext
<1> DEFINE c == Current(flash)
           r == run.rec
<1>1. /\ run.at = "write" /\ flash' = Store(flash, r) /\ Proceed(run.then)
      /\ Provisioned(flash') /\ Current(flash') = r
  BY WriteLands DEF WriteState
<1>2. /\ c \in Records /\ c.mode \in Modes /\ c.attempts \in 0..MaxAttempts
      /\ c.prog \in Images
  BY CountsOK, CurrentTyped DEF Records
<1>3. PlannedFrom(c)
  BY <1>1 DEF Planned
<1>4. run.otherwise \in {"app", "off"} /\ run.then # "journal"
  BY <1>3 DEF PlannedFrom
<1>5. ~InApplication
  BY <1>1, <1>4 DEF InApplication
<1>6. CASE c.mode \in {"PENDING", "ROLLBACK"} /\ run.then = "app" /\ r = Become(c, "RECOVERY")
  <2>1. run' = App
    BY <1>1, <1>6 DEF Proceed, Launch
  <2>2. InApplication'
    BY <2>1 DEF InApplication, App
  <2>3. /\ r.mode = "RECOVERY" /\ r.attempts = c.attempts /\ r.prog = c.prog
        /\ r.stag = c.stag
    BY <1>2, <1>6, BecomeTyped DEF Modes
  <2>4. InSlot' = r.prog
    BY <1>1, <2>2, RunningNext DEF InUse
  <2> HIDE DEF c, r
  <2>5. Update!GiveUp
    BY <1>1, <1>5, <1>6, <2>2, <2>3, <2>4 DEF Update!GiveUp, c
  <2> QED
    BY <2>5 DEF Update!AbsNext
<1>7. CASE /\ c.mode = "TRIAL" /\ TrialLeft(c) /\ run.then = "app"
           /\ r = [Become(c, "TRIAL") EXCEPT !.attempts = @ + 1]
  <2>1. run' = App
    BY <1>1, <1>7 DEF Proceed, Launch
  <2>2. InApplication'
    BY <2>1 DEF InApplication, App
  <2>3. /\ r.mode = "TRIAL" /\ r.attempts = c.attempts + 1 /\ r.prog = c.prog
        /\ r.stag = c.stag
    <3> DEFINE b == Become(c, "TRIAL")
    <3>1. /\ b \in Records /\ b.mode = "TRIAL" /\ b.attempts = c.attempts
          /\ b.prog = c.prog /\ b.stag = c.stag
      BY <1>2, BecomeTyped DEF Modes
    <3>2. r = [b EXCEPT !.attempts = b.attempts + 1]
      BY <1>7
    <3> HIDE DEF b, r
    <3> QED
      BY <3>1, <3>2 DEF Records
  <2>4. InSlot' = r.prog
    BY <1>1, <2>2, RunningNext DEF InUse
  <2>5. c.attempts < MaxAttempts
    BY <1>7 DEF TrialLeft
  <2> HIDE DEF c, r
  <2>6. Update!TrialBoot
    BY <1>1, <1>5, <1>7, <2>2, <2>3, <2>4, <2>5 DEF Update!TrialBoot, c
  <2> QED
    BY <2>6 DEF Update!AbsNext
<1>8. CASE /\ c.mode = "TRIAL" /\ ~TrialLeft(c) /\ run.then = "copy"
           /\ r = Become(c, "ROLLBACK")
  <2>1. run' = Doing("copy")
    BY <1>1, <1>8 DEF Proceed
  <2>2. ~InApplication'
    BY <2>1 DEF InApplication, Doing
  <2>3. /\ r.mode = "ROLLBACK" /\ r.attempts = c.attempts /\ r.prog = c.prog
        /\ r.stag = c.stag
    BY <1>2, <1>8, BecomeTyped DEF Modes
  <2>4. c.attempts = MaxAttempts
    BY <1>2, <1>8, OtaAssumption DEF TrialLeft
  <2> HIDE DEF c, r
  <2>5. Update!EndTrial
    BY <1>1, <1>5, <1>8, <2>2, <2>3, <2>4 DEF Update!EndTrial, c
  <2> QED
    BY <2>5 DEF Update!AbsNext
<1>9. CASE /\ c.mode \in {"PENDING", "ROLLBACK"} /\ run.then = "tidy"
           /\ r = Swapped(c, IF c.mode = "PENDING" THEN "TRIAL" ELSE "STABLE")
  <2> DEFINE m == IF c.mode = "PENDING" THEN "TRIAL" ELSE "STABLE"
  <2>1. run' = Doing("tidy")
    BY <1>1, <1>9 DEF Proceed
  <2>2. ~InApplication'
    BY <2>1 DEF InApplication, Doing
  <2>3. /\ r.mode = m /\ r.attempts = 0 /\ r.prog = c.stag /\ r.stag = c.prog
    <3> DEFINE b == Become(c, m)
    <3>1. b \in Records /\ b.mode = m
      BY <1>2, BecomeTyped DEF Modes
    <3>2. r = [b EXCEPT !.prog = c.stag, !.stag = c.prog, !.attempts = 0]
      BY <1>9 DEF Swapped
    <3> HIDE DEF b, r, m
    <3> QED
      BY <3>1, <3>2 DEF Records
  <2> HIDE DEF c, r
  <2>4. CASE c.mode = "PENDING"
    <3>1. Update!Install
      BY <1>1, <1>5, <2>2, <2>3, <2>4 DEF Update!Install, Update!ChangePlaces, c
    <3> QED
      BY <3>1 DEF Update!AbsNext
  <2>5. CASE c.mode = "ROLLBACK"
    <3>1. Update!Restore
      BY <1>1, <1>5, <2>2, <2>3, <2>5 DEF Update!Restore, Update!ChangePlaces, c
    <3> QED
      BY <3>1 DEF Update!AbsNext
  <2> QED
    BY <1>9, <2>4, <2>5
<1> QED
  BY <1>3, <1>6, <1>7, <1>8, <1>9 DEF PlannedFrom
\* A record of the application, which goes on running.
LEMMA AppWrites ==
  ASSUME OtaInv, OtaInv', Planned, RecordWritten, Provisioned(flash),
         InApplication, InApplication'
  PROVE  Update!AbsNext
<1> DEFINE c == Current(flash)
           r == run.rec
<1>1. /\ run.at = "write" /\ Provisioned(flash') /\ Current(flash') = r
  BY WriteLands DEF RecordWritten
<1>2. c \in Records /\ 0 \in 0..MaxAttempts
  BY CountsOK, CurrentTyped, OtaAssumption
<1>3. PlannedFrom(c) /\ run.otherwise \in {"return", "ended"}
  BY <1>1 DEF Planned, InApplication
<1>4. /\ InSlot = c.prog /\ c.prog \in Images /\ c.prog # NoImage /\ InSlot' = r.prog
  BY <1>1, RunningIs, RunningNext DEF InUse
<1>5. CASE c.mode = "TRIAL" /\ r = [Become(c, "STABLE") EXCEPT !.attempts = 0]
  <2> DEFINE b == Become(c, "STABLE")
  <2>1. b \in Records /\ b.mode = "STABLE" /\ b.prog = c.prog /\ b.stag = c.stag
    BY <1>2, BecomeTyped DEF Modes
  <2>2. r = [b EXCEPT !.attempts = 0]
    BY <1>5
  <2> HIDE DEF b, r, c
  <2>3. r.mode = "STABLE" /\ r.attempts = 0 /\ r.prog = c.prog /\ r.stag = c.stag
    BY <2>1, <2>2 DEF Records
  <2>4. Update!Confirm
    BY <1>1, <1>4, <1>5, <2>3 DEF Update!Confirm, c
  <2> QED
    BY <2>4 DEF Update!AbsNext
<1>6. CASE c.mode = "STABLE" /\ upload.image \in Images /\ r = Pending(c, upload.image)
  <2> DEFINE b == Become(c, "PENDING")
  <2>1. b \in Records /\ b.mode = "PENDING" /\ b.prog = c.prog
    BY <1>2, BecomeTyped DEF Modes
  <2>2. r = [b EXCEPT !.attempts = 0, !.stag = upload.image]
    BY <1>6 DEF Pending
  <2> HIDE DEF b, r, c
  <2>3. /\ r.mode = "PENDING" /\ r.attempts = 0 /\ r.prog = c.prog
        /\ r.stag = upload.image
    BY <2>1, <2>2 DEF Records
  <2>4. Update!Accept
    BY <1>1, <1>4, <1>6, <2>3 DEF Update!Accept, c
  <2> QED
    BY <2>4 DEF Update!AbsNext
<1> QED
  BY <1>3, <1>5, <1>6 DEF PlannedFrom

LEMMA UpdateStep ==
  ASSUME OtaInv, OtaInv', Planned, [Next]_vars
  PROVE  Update!AbsNext \/ UNCHANGED Update!absVars
<1>1. CASE UNCHANGED vars
  <2>1. flash' = flash /\ run' = run
    BY <1>1 DEF vars
  <2>2. InSlot' = InSlot /\ (InApplication' <=> InApplication)
    BY <2>1 DEF InSlot, InApplication
  <2> QED
    BY <2>1, <2>2 DEF Update!absVars
<1>2. CASE Next /\ RecordKept /\ ~WriteState
  BY <1>2, KeptImplements
<1>3. CASE WriteState
  <2>1. RecordWritten /\ Proceed(run.then)
    BY <1>3 DEF WriteState, RecordWritten
  <2>2. ASSUME run.then \in {"return", "ended", "journal"} PROVE InApplication'
    BY <2>1, <2>2 DEF Proceed, InApplication, App, Doing
  <2>3. CASE ~Provisioned(flash)
    <3>1. run.then = "journal" /\ run.otherwise = "ended" /\ run.at = "write"
      BY <2>1, <2>3, FirstRecord DEF RecordWritten
    <3>2. InApplication
      BY <3>1 DEF InApplication
    <3> QED
      BY <2>1, <2>2, <2>3, <3>1, <3>2, FirstRecordStutters
  <2>4. CASE Provisioned(flash) /\ run.then \in {"return", "ended"}
    <3>1. run.at = "write" /\ run.otherwise \in {"return", "ended"}
      BY <2>1, <2>4 DEF RecordWritten, Planned, PlannedFrom
    <3>2. InApplication
      BY <3>1 DEF InApplication
    <3> QED
      BY <2>1, <2>2, <2>4, <3>2, AppWrites
  <2> QED
    BY <1>3, <2>3, <2>4, BootWrites
<1>4. CASE WriteStateFails /\ RecordWritten /\ run.otherwise \in {"return", "ended"}
  <2>1. run' = App
    BY <1>4 DEF WriteStateFails, Proceed
  <2>2. InApplication /\ InApplication'
    BY <1>4, <2>1 DEF InApplication, RecordWritten, App
  <2> QED
    BY <1>4, <2>2, FirstRecordStutters, AppWrites
<1> QED
  BY <1>1, <1>2, <1>3, <1>4, RecordStep

(***************************************************************************)
(* A write is planned from the record in charge, and nothing comes between *)
(* the plan and its end.                                                   *)
(***************************************************************************)
LEMMA PlannedElsewhere ==
  ASSUME run'.at \notin {"write", "erase", "tidy"}
  PROVE  Planned'
BY DEF Planned

LEMMA PlanMade ==
  ASSUME RecordKept, Provisioned(flash), NEW r, NEW then, NEW otherwise,
         run' = Write(r, then, otherwise),
         LET c == Current(flash) IN
         \/ /\ c.mode \in {"PENDING", "ROLLBACK"}
            /\ then = "app" /\ otherwise = "app"
            /\ r = Become(c, "RECOVERY")
         \/ /\ c.mode = "TRIAL" /\ TrialLeft(c)
            /\ then = "app" /\ otherwise = "off"
            /\ r = [Become(c, "TRIAL") EXCEPT !.attempts = @ + 1]
         \/ /\ c.mode = "TRIAL" /\ ~TrialLeft(c)
            /\ then = "copy" /\ otherwise = "off"
            /\ r = Become(c, "ROLLBACK")
         \/ /\ c.mode \in {"PENDING", "ROLLBACK"}
            /\ then = "tidy" /\ otherwise = "off"
            /\ r = Swapped(c, IF c.mode = "PENDING" THEN "TRIAL" ELSE "STABLE")
         \/ /\ c.mode = "TRIAL"
            /\ then = "return" /\ otherwise = "return"
            /\ r = [Become(c, "STABLE") EXCEPT !.attempts = 0]
         \/ /\ c.mode = "STABLE" /\ upload'.image \in Images
            /\ then = "ended" /\ otherwise = "ended"
            /\ r = Pending(c, upload'.image)
  PROVE  Planned'
<1>1. /\ run'.at = "write" /\ run'.rec = r /\ run'.then = then
      /\ run'.otherwise = otherwise
  BY DEF Write
<1>2. Provisioned(flash') /\ Current(flash') = Current(flash)
  BY DEF RecordKept
<1> QED
  BY <1>1, <1>2 DEF Planned, PlannedFrom

LEMMA PlannedBoot ==
  ASSUME OtaInv, Planned, BootPending \/ BootTrial \/ BootRollback \/ BootLaunch
  PROVE  Planned'
<1> DEFINE c == Current(flash)
<1>1. flash' = flash /\ RecordKept
  BY DEF BootPending, BootTrial, BootRollback, BootLaunch, RecordKept
<1>2. CASE BootLaunch \/ BootRollback
  BY <1>2, PlannedElsewhere DEF BootLaunch, BootRollback, Launch, App, Doing
<1>3. CASE BootPending
  <2>1. Provisioned(flash) /\ c.mode = "PENDING"
    BY <1>3 DEF BootPending
  <2>2. CASE run' = Doing("copy")
    BY <2>2, PlannedElsewhere DEF Doing
  <2>3. CASE run' = Write(Become(c, "RECOVERY"), "app", "app")
    BY <1>1, <2>1, <2>3, PlanMade
  <2> QED
    BY <1>3, <2>2, <2>3 DEF BootPending
<1>4. CASE BootTrial
  <2>1. Provisioned(flash) /\ c.mode = "TRIAL"
    BY <1>4 DEF BootTrial
  <2>2. CASE TrialLeft(c)
    <3>1. run' = Write([Become(c, "TRIAL") EXCEPT !.attempts = @ + 1], "app", "off")
      BY <1>4, <2>2 DEF BootTrial
    <3> QED
      BY <1>1, <2>1, <2>2, <3>1, PlanMade
  <2>3. CASE ~TrialLeft(c)
    <3>1. run' = Doing("erase")
      BY <1>4, <2>3 DEF BootTrial
    <3> QED
      BY <1>1, <2>3, <3>1 DEF Planned, Doing
  <2> QED
    BY <2>2, <2>3
<1> QED
  BY <1>2, <1>3, <1>4

LEMMA PlannedSwap ==
  ASSUME OtaInv, Planned, [Next]_vars,
         \/ EraseForRollback \/ CopySector \/ MarkPhase \/ SwapFails
         \/ SwapDone \/ TidyJournal
  PROVE  Planned'
<1> DEFINE c == Current(flash)
<1>1. RecordKept
  <2>1. ~RecordWritten /\ ~WriteState
    BY DEF EraseForRollback, CopySector, MarkPhase, SwapFails, SwapDone, TidyJournal,
       WriteState, RecordWritten
  <2> QED
    BY <2>1, RecordStep
<1>2. run.at \in {"copy", "mark"} =>
         Provisioned(flash) /\ c.mode \in {"PENDING", "ROLLBACK"}
  BY DEF OtaInv, RunOK
<1>3. CASE CopySector \/ MarkPhase \/ TidyJournal
  BY <1>3, PlannedElsewhere DEF CopySector, MarkPhase, TidyJournal, Launch, Doing,
     App, Off
<1>4. CASE EraseForRollback
  <2>1. Provisioned(flash) /\ c.mode = "TRIAL" /\ ~TrialLeft(c)
    BY <1>4 DEF EraseForRollback, OtaInv, RunOK, Planned
  <2>2. run' = Write(Become(c, "ROLLBACK"), "copy", "off")
    BY <1>4 DEF EraseForRollback
  <2> QED
    BY <1>1, <2>1, <2>2, PlanMade
<1>5. CASE SwapFails
  <2>1. run' = Off \/ run' = Write(Become(c, "RECOVERY"), "app", "app")
    BY <1>5 DEF SwapFails, AfterFailedSwap
  <2>2. CASE run' = Off
    BY <2>2, PlannedElsewhere DEF Off
  <2>3. CASE run' = Write(Become(c, "RECOVERY"), "app", "app")
    <3>1. Provisioned(flash) /\ c.mode \in {"PENDING", "ROLLBACK"}
      BY <1>2, <1>5 DEF SwapFails
    <3> QED
      BY <1>1, <2>3, <3>1, PlanMade
  <2> QED
    BY <2>1, <2>2, <2>3
<1>6. CASE SwapDone
  <2>1. run' = Write(Swapped(c, IF c.mode = "PENDING" THEN "TRIAL" ELSE "STABLE"),
                     "tidy", "off")
    BY <1>6 DEF SwapDone
  <2>2. Provisioned(flash) /\ c.mode \in {"PENDING", "ROLLBACK"}
    BY <1>2, <1>6 DEF SwapDone
  <2> QED
    BY <1>1, <2>1, <2>2, PlanMade
<1> QED
  BY <1>3, <1>4, <1>5, <1>6

LEMMA PlannedApp ==
  ASSUME OtaInv, Planned, [Next]_vars,
         \/ BeginTransfer \/ ReceiveTransfer \/ TransferFails \/ ConfirmBoot \/ OtaBegin
         \/ EraseForUpdate \/ EraseForUpdateFails \/ EraseForRollbackFails
         \/ Reset \/ PowerLoss \/ StagingDecays
  PROVE  Planned'
<1> DEFINE c == Current(flash)
<1>1. CASE run' \in {Off, App, Doing("journal")}
  BY <1>1, PlannedElsewhere DEF Off, App, Doing
<1>2. CASE EraseForUpdate
  <2>1. /\ Provisioned(flash) /\ c.mode = "STABLE" /\ upload.image \in Images
        /\ upload' = upload /\ flash' = [flash EXCEPT !.phase = Blank]
        /\ run' = Write(Pending(c, upload.image), "ended", "ended")
    BY <1>2 DEF EraseForUpdate, OtaInv, RunOK
  <2>2. RecordKept
    BY <2>1, CountsOK, PhaseBlank DEF RecordKept
  <2> QED
    BY <2>1, <2>2, PlanMade
<1>3. CASE ConfirmBoot
  <2>1. /\ Provisioned(flash) /\ c.mode = "TRIAL" /\ flash' = flash
        /\ run' = Write([Become(c, "STABLE") EXCEPT !.attempts = 0], "return", "return")
    BY <1>3 DEF ConfirmBoot
  <2>2. RecordKept
    BY <2>1 DEF RecordKept
  <2> QED
    BY <2>1, <2>2, PlanMade
<1>4. CASE /\ ReceiveTransfer /\ ~Provisioned(flash)
           /\ run' = Write(FactoryRecord(flash), "journal", "ended")
  <2>1. PICK n, part : flash' = [flash EXCEPT !.staging[n] = part]
    BY <1>4 DEF ReceiveTransfer
  <2>2. flash'.program = flash.program /\ flash'.record = flash.record
    BY <2>1, CountsOK DEF Flashes
  <2>3. ~Provisioned(flash')
    BY <1>4, <2>2 DEF Provisioned
  <2>4. FactoryRecord(flash') = FactoryRecord(flash)
    BY <2>2 DEF FactoryRecord, Holds
  <2> QED
    BY <1>4, <2>3, <2>4 DEF Planned, Write
<1>5. ReceiveTransfer => \/ run' \in {App, Doing("journal")}
                         \/ /\ ~Provisioned(flash)
                            /\ run' = Write(FactoryRecord(flash), "journal", "ended")
  BY DEF ReceiveTransfer
<1>6. CASE \/ BeginTransfer \/ TransferFails \/ OtaBegin \/ EraseForUpdateFails
           \/ EraseForRollbackFails \/ Reset \/ PowerLoss \/ StagingDecays
  BY <1>1, <1>6 DEF BeginTransfer, TransferFails, OtaBegin, EraseForUpdateFails,
     EraseForRollbackFails, Reset, PowerLoss, StagingDecays
<1> QED
  BY <1>1, <1>2, <1>3, <1>4, <1>5, <1>6

LEMMA PlannedWrite ==
  ASSUME OtaInv, Planned, WriteState \/ WriteStateFails
  PROVE  Planned'
<1>1. CASE run' \in {Off, App, Doing("copy"), Doing("journal")}
  BY <1>1, PlannedElsewhere DEF Off, App, Doing
<1>2. CASE WriteStateFails
  <2>1. run.otherwise \in {"app", "off", "return", "ended"} /\ Proceed(run.otherwise)
    BY <1>2, WriteContext DEF WriteStateFails
  <2> QED
    BY <1>1, <2>1 DEF Proceed, Launch
<1>3. CASE WriteState
  <2>1. run.at = "write" /\ flash' = Store(flash, run.rec) /\ Proceed(run.then)
    BY <1>3 DEF WriteState
  <2>2. run.then \in {"app", "copy", "tidy", "journal", "return", "ended"}
    BY <2>1, WriteContext
  <2>3. CASE run.then # "tidy"
    BY <1>1, <2>1, <2>2, <2>3 DEF Proceed, Launch
  <2>4. CASE run.then = "tidy"
    <3> DEFINE c == Current(flash)
               m == IF c.mode = "PENDING" THEN "TRIAL" ELSE "STABLE"
               b == Become(c, m)
    <3>1. run' = Doing("tidy") /\ Current(flash') = run.rec
      BY <2>1, <2>4, WriteLands DEF Proceed
    <3>2. Provisioned(flash) /\ run.rec = Swapped(c, m)
      BY <2>1, <2>4 DEF Planned, PlannedFrom
    <3>3. b \in Records /\ 0 \in 0..MaxAttempts
      BY <3>2, CountsOK, CurrentTyped, BecomeTyped, OtaAssumption DEF Modes
    <3>4. run.rec = [b EXCEPT !.prog = c.stag, !.stag = c.prog, !.attempts = 0]
      BY <3>2 DEF Swapped
    <3> HIDE DEF b
    <3>5. run.rec.attempts = 0
      BY <3>3, <3>4 DEF Records
    <3> QED
      BY <3>1, <3>5 DEF Planned, Doing
  <2> QED
    BY <2>3, <2>4
<1> QED
  BY <1>2, <1>3

LEMMA PlannedStep ==
  ASSUME OtaInv, Planned, [Next]_vars
  PROVE  Planned'
<1>1. CASE UNCHANGED vars
  BY <1>1 DEF vars, Planned, PlannedFrom
<1> QED
  BY <1>1, PlannedBoot, PlannedSwap, PlannedApp, PlannedWrite
     DEF Next, BootStep, AppStep, Fault

\* The boot chain: two images change places in one step, a trial is launched
\* at most as often as it is counted, and only the application ends it.
THEOREM SlotsAreTwoSlotUpdate == Spec => ImplementsTwoSlotUpdate
<1>1. Init => Planned /\ Update!AbsInit
  <2> SUFFICES ASSUME Init PROVE Planned /\ Update!AbsInit
    OBVIOUS
  <2>1. run.at = "off" /\ ~Provisioned(flash)
    BY DEF Init, Off, Provisioned, Decodes, NoRecord
  <2>2. ~InApplication
    BY <2>1 DEF InApplication
  <2> QED
    BY <2>1, <2>2 DEF Planned, Update!AbsInit
<1>2. OtaInv /\ Planned /\ [Next]_vars => Planned'
  BY PlannedStep
<1>3. OtaInv /\ OtaInv' /\ Planned /\ [Next]_vars => [Update!AbsNext]_(Update!absVars)
  BY UpdateStep
<1> QED
  BY <1>1, <1>2, <1>3, OtaInvariance, PTL
     DEF Spec, ImplementsTwoSlotUpdate, Update!AbsSpec
=============================================================================
