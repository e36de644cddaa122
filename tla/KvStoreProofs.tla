--------------------------- MODULE KvStoreProofs ---------------------------
(***************************************************************************)
(* What holds of KvStore for every choice of its constants.  The type of   *)
(* the state and the survival of a valid bank follow from one inductive    *)
(* invariant, KvInv; what a restart finds, whenever the power fails,       *)
(* follows from a stronger one, KvDeep, in the second half.                *)
(***************************************************************************)
EXTENDS KvStore, FunctionTheorems, FiniteSetTheorems, SequenceTheorems, TLAPS

(***************************************************************************)
(* The values the variables take.                                          *)
(***************************************************************************)
Puts    == [type : {"put"}, key : Keys, val : Vals]
Dels    == [type : {"delete"}, key : Keys]
Data    == Puts \cup Dels
Commits == [type : {"commit"}, batch : Nat, crc : Seq(Data)]
Rec     == Data \cup Commits
Body    == {s \in Seq(Data) : Len(s) <= BankCells}
Headers == [type : {"header"}, gen : Gens, body : Body]
Cell    == {Erased, Torn} \cup Rec \cup Headers
Bank    == [Cells -> Cell]

Ram == [img : Seq(Rec), index : [Keys -> 0..BankCells], flashEnd : 0..BankCells,
        dirty : BOOLEAN, needsPublish : BOOLEAN, active : Banks, gen : Gens]

\* A key the index knows is held by a put record of that key.
IndexSound(r) ==
    \A k \in Keys : r.index[k] # 0 =>
        /\ r.index[k] \in 1..Len(r.img)
        /\ r.img[r.index[k]] \in Puts
        /\ r.img[r.index[k]].key = k

AllData(s, from) == \A i \in from..Len(s) : s[i] \in Data

\* The image of a store that may append: committed records, then a batch.
StagedSound(r) ==
    ~r.needsPublish => r.flashEnd <= Len(r.img) /\ AllData(r.img, r.flashEnd + 1)

RamOK(r) ==
    /\ r \in Ram
    /\ Len(r.img) <= BankCells
    /\ IndexSound(r)
    /\ StagedSound(r)

\* The active bank is valid, and an append starts behind its body.
ActiveOK(m, r) ==
    /\ Valid(m[r.active])
    /\ ~r.needsPublish => Len(m[r.active][0].body) <= r.flashEnd

\* What a running call may count on.
PhaseOK ==
    /\ pc \in {"down", "idle", "append", "erase", "body", "header", "prepare"}
    /\ pc = "down" => ~ready
    /\ pc \in {"idle", "append", "prepare"} => ready
    /\ pc = "append" => /\ ~ram.needsPublish
                        /\ ram.flashEnd < Len(ram.img)
                        /\ Len(ram.img) < BankCells
    /\ Replacing => ram.needsPublish /\ AllData(ram.img, 1)
    /\ pc = "header" => \A i \in 1..Len(ram.img) : medium[Spare(ram)][i] = ram.img[i]

KvInv ==
    /\ medium \in [Banks -> Bank]
    /\ RamOK(ram)
    /\ ready \in BOOLEAN /\ readsErased \in BOOLEAN
    /\ ready => ActiveOK(medium, ram)
    /\ PhaseOK

(***************************************************************************)
(* Lemmas about numbers and banks.                                         *)
(***************************************************************************)
\* The greatest element of a set of numbers, which the CHOOSE of
\* CommittedEnd and of LastOf relies on.
LEMMA GreatestExists ==
    ASSUME NEW lo \in Nat, NEW hi \in Nat, NEW S, S \subseteq lo..hi, S # {}
    PROVE  \E g \in S : \A x \in S : x <= g
<1> DEFINE T == {n \in Nat : \E x \in S : n = hi - x}
<1>1. T \subseteq Nat /\ T # {}
  <2>1. PICK x \in S : TRUE
    OBVIOUS
  <2>2. hi - x \in Nat
    BY <2>1
  <2> QED
    BY <2>1, <2>2
<1>2. PICK n \in T : \A y \in T : ~(<<y, n>> \in OpToRel(<, Nat))
  <2> HIDE DEF T
  <2> QED
    BY <1>1, NatLessThanWellFounded, WFMin
<1>3. PICK g \in S : n = hi - g
  BY <1>2
<1>4. ASSUME NEW x \in S PROVE x <= g
  <2>1. hi - x \in T
    OBVIOUS
  <2>2. ~(hi - x < n)
    BY <1>2, <2>1 DEF OpToRel
  <2> QED
    BY <1>3, <2>2
<1> QED
  BY <1>4

LEMMA ConstantsType == BankCells \in Nat /\ 0 \in Cells /\ 0 \in Gens
  BY KvAssumption DEF Cells, Gens

\* A function on an initial interval is a sequence.
LEMMA IntervalSeq ==
    ASSUME NEW S, NEW n \in Nat, NEW f \in [1..n -> S]
    PROVE  f \in Seq(S) /\ Len(f) = n
<1>1. f \in Seq(S)
  BY SeqDef
<1>2. DOMAIN f = 1..Len(f) /\ Len(f) \in Nat
  BY <1>1, LenProperties
<1> QED
  BY <1>1, <1>2

\* The greatest offset of a record of k up to e, or 0.
LEMMA LastOfProperty ==
    ASSUME NEW c, NEW e \in Nat, NEW k
    PROVE  /\ LastOf(c, e, k) \in 0..e
           /\ LastOf(c, e, k) = 0 \/ IsOf(c[LastOf(c, e, k)], k)
           /\ \A j \in (LastOf(c, e, k) + 1)..e : ~IsOf(c[j], k)
<1> DEFINE S == {i \in 0..e : i = 0 \/ IsOf(c[i], k)}
<1>1. S \subseteq 0..e /\ 0 \in S
  OBVIOUS
<1>2. PICK g \in S : \A x \in S : x <= g
  <2> HIDE DEF S
  <2> QED
    BY <1>1, GreatestExists
<1>3. g \in 0..e /\ (g = 0 \/ IsOf(c[g], k)) /\ \A j \in (g + 1)..e : ~IsOf(c[j], k)
  BY <1>2
<1> QED
  BY <1>3 DEF LastOf

\* The committed end of a bank is the last end that LogEndsAt accepts.
LEMMA CommittedEndProperty ==
    ASSUME NEW bank, Len(bank[0].body) \in 0..BankCells
    PROVE  /\ CommittedEnd(bank) \in Len(bank[0].body)..BankCells
           /\ LogEndsAt(bank, Len(bank[0].body), CommittedEnd(bank))
           /\ \A f \in (CommittedEnd(bank) + 1)..BankCells :
                 ~LogEndsAt(bank, Len(bank[0].body), f)
<1> DEFINE body == Len(bank[0].body)
           S == {e \in body..BankCells : LogEndsAt(bank, body, e)}
<1>1. S \subseteq body..BankCells /\ body \in S /\ body \in Nat /\ BankCells \in Nat
  <2>1. body \in 0..BankCells /\ BankCells \in Nat
    BY ConstantsType
  <2> HIDE DEF body
  <2> QED
    BY <2>1 DEF LogEndsAt
<1>2. PICK g \in S : \A x \in S : x <= g
  <2> HIDE DEF S, body
  <2> QED
    BY <1>1, GreatestExists
<1>3. /\ g \in body..BankCells /\ LogEndsAt(bank, body, g)
      /\ \A f \in (g + 1)..BankCells : ~LogEndsAt(bank, body, f)
  BY <1>1, <1>2
<1> QED
  BY <1>3 DEF CommittedEnd

\* A torn write changes no cell that the whole write leaves alone.
LEMMA TornKeeps ==
    ASSUME NEW old, NEW new, NEW bank \in TornBanks(old, new),
           NEW i \in Cells, old[i] = new[i], old \in Bank, new \in Bank
    PROVE  bank[i] = old[i]
BY DEF TornBanks, Bank

LEMMA TornType ==
    ASSUME NEW old \in Bank, NEW new \in Bank, NEW bank \in TornBanks(old, new)
    PROVE  bank \in Bank
<1> Torn \in Cell
  BY DEF Cell
<1> QED
  BY DEF TornBanks, Bank

(***************************************************************************)
(* The RAM image under the operations of a call.                           *)
(***************************************************************************)
LEMMA RamFields ==
    ASSUME NEW r, RamOK(r)
    PROVE  /\ r.img \in Seq(Rec) /\ Len(r.img) \in 0..BankCells
           /\ \A i \in 1..Len(r.img) : r.img[i] \in Rec
           /\ r.index \in [Keys -> 0..BankCells] /\ r.flashEnd \in 0..BankCells
           /\ r.dirty \in BOOLEAN /\ r.needsPublish \in BOOLEAN
           /\ r.active \in Banks /\ r.gen \in Gens /\ Spare(r) \in Banks
<1>1. r.img \in Seq(Rec) /\ r.active \in Banks /\ Len(r.img) <= BankCells
  BY DEF RamOK, Ram
<1>2. Len(r.img) \in Nat /\ \A i \in 1..Len(r.img) : r.img[i] \in Rec
  BY <1>1, LenProperties, ElementOfSeq
<1>3. Len(r.img) \in 0..BankCells /\ Spare(r) \in Banks
  BY <1>1, <1>2, ConstantsType DEF Spare, Banks
<1> QED
  BY <1>1, <1>2, <1>3 DEF RamOK, Ram

LEMMA ResetOK ==
    ASSUME NEW b \in Banks
    PROVE  RamOK(Reset) /\ RamOK([Reset EXCEPT !.active = b])
<1>1. <<>> \in Seq(Rec) /\ Len(<<>>) = 0
  BY EmptySeq
<1>2. 0 \in 0..BankCells /\ 0 \in Banks /\ 0 \in Gens
  BY ConstantsType DEF Banks
<1> DEFINE r == [Reset EXCEPT !.active = b]
<1>3. Reset \in Ram
  BY <1>1, <1>2 DEF Reset, Ram
<1>4. /\ Reset.img = <<>> /\ Reset.index = [k \in Keys |-> 0] /\ Reset.flashEnd = 0
      /\ ~Reset.needsPublish
  BY DEF Reset
<1>5. /\ r \in Ram /\ r.img = Reset.img /\ r.index = Reset.index
      /\ r.flashEnd = Reset.flashEnd /\ r.needsPublish = Reset.needsPublish
  BY <1>3 DEF Ram
<1> HIDE DEF r
<1>6. IndexSound(r) /\ StagedSound(r) /\ IndexSound(Reset) /\ StagedSound(Reset)
  BY <1>1, <1>4, <1>5 DEF IndexSound, StagedSound, AllData
<1>7. Len(r.img) <= BankCells /\ Len(Reset.img) <= BankCells
  BY <1>1, <1>4, <1>5, ConstantsType
<1> QED
  BY <1>3, <1>5, <1>6, <1>7 DEF RamOK, r

LEMMA NeedingPublishOK ==
    ASSUME NEW r, RamOK(r)
    PROVE  /\ RamOK(NeedingPublish(r))
           /\ NeedingPublish(r).needsPublish
           /\ NeedingPublish(r).active = r.active
           /\ NeedingPublish(r).img = r.img
<1>1. 0 \in 0..BankCells
  BY ConstantsType
<1> QED
  BY <1>1 DEF RamOK, Ram, NeedingPublish, IndexSound, StagedSound

LEMMA LiveFinite ==
    ASSUME NEW r
    PROVE  /\ Live(r) \subseteq Keys /\ IsFiniteSet(Live(r))
           /\ Cardinality(Live(r)) \in Nat
<1>1. Live(r) \in SUBSET Keys
  BY DEF Live, Present
<1> QED
  BY <1>1, KvAssumption, FS_Subset, FS_CardinalityType

\* Distinct live keys sit at distinct offsets: the records name their keys.
LEMMA IndexInjective ==
    ASSUME NEW r, RamOK(r), NEW j \in Live(r), NEW k \in Live(r),
           r.index[j] = r.index[k]
    PROVE  j = k
BY DEF RamOK, IndexSound, Live, Present

\* So there are no more live keys than records.
LEMMA LiveFits ==
    ASSUME NEW r, RamOK(r)
    PROVE  Cardinality(Live(r)) <= BankCells
<1> DEFINE f == [k \in Live(r) |-> r.index[k]]
<1>1. \A k \in Live(r) : r.index[k] \in 1..Len(r.img)
  BY LiveFinite DEF RamOK, IndexSound, Live, Present
<1>2. f \in Injection(Live(r), 1..Len(r.img))
  BY <1>1, IndexInjective DEF Injection, IsInjective
<1>3. Len(r.img) \in Nat /\ Len(r.img) <= BankCells
  BY RamFields DEF RamOK
<1>4. IsFiniteSet(1..Len(r.img)) /\ Cardinality(1..Len(r.img)) = Len(r.img)
  BY SMTT(30), <1>3, FS_Interval
<1>5. Cardinality(Live(r)) <= Cardinality(1..Len(r.img))
  <2> HIDE DEF f
  <2> QED
    BY <1>2, <1>4, FS_Injection
<1> QED
  BY <1>3, <1>4, <1>5, LiveFinite, ConstantsType

\* The ranks of the live keys are 1..n, each taken by one key.
LEMMA RankBijective ==
    ASSUME NEW r, RamOK(r)
    PROVE  /\ \A k \in Live(r) : Rank(r, k) \in 1..Cardinality(Live(r))
           /\ \A j, k \in Live(r) : Rank(r, j) = Rank(r, k) => j = k
           /\ \A i \in 1..Cardinality(Live(r)) : \E k \in Live(r) : Rank(r, k) = i
<1> DEFINE N == Cardinality(Live(r))
           Below(k) == {j \in Live(r) : r.index[j] <= r.index[k]}
<1>1. \A k \in Live(r) : r.index[k] \in Nat
  BY LiveFinite, RamFields, ConstantsType
<1>2. ASSUME NEW k \in Live(r)
      PROVE  /\ IsFiniteSet(Below(k)) /\ Cardinality(Below(k)) \in 1..N
             /\ Rank(r, k) = Cardinality(Below(k))
  <2>1. Below(k) \in SUBSET Live(r) /\ k \in Below(k)
    BY <1>1
  <2> HIDE DEF Below
  <2>2. IsFiniteSet(Below(k)) /\ Cardinality(Below(k)) <= N /\ Cardinality(Below(k)) \in Nat
    BY <2>1, LiveFinite, FS_Subset, FS_CardinalityType
  <2>3. Cardinality(Below(k)) # 0
    BY <2>1, <2>2, FS_EmptySet
  <2>4. Rank(r, k) = Cardinality(Below(k))
    BY DEF Rank, Below
  <2> QED
    BY <2>2, <2>3, <2>4, LiveFinite
<1>3. ASSUME NEW j \in Live(r), NEW k \in Live(r), Rank(r, j) = Rank(r, k),
             r.index[j] <= r.index[k]
      PROVE  j = k
  <2>1. Below(j) \in SUBSET Below(k) /\ k \in Below(k)
    BY <1>1, <1>3
  <2>2. Cardinality(Below(k)) = Cardinality(Below(j)) /\ IsFiniteSet(Below(k))
    BY <1>2, <1>3
  <2>3. k \in Below(j)
    <3> HIDE DEF Below
    <3> QED
      BY <2>1, <2>2, FS_Subset
  <2>4. r.index[j] = r.index[k]
    BY <1>1, <1>3, <2>3
  <2> QED
    BY <2>4, IndexInjective
<1>4. \A j, k \in Live(r) : Rank(r, j) = Rank(r, k) => j = k
  BY <1>1, <1>3
<1>5. \A k \in Live(r) : Rank(r, k) \in 1..N
  BY <1>2
<1>6. \A i \in 1..N : \E k \in Live(r) : Rank(r, k) = i
  <2> DEFINE f == [k \in Live(r) |-> Rank(r, k)]
  <2>1. f \in Injection(Live(r), 1..N)
    BY <1>4, <1>5 DEF Injection, IsInjective
  <2>2. N \in Nat /\ IsFiniteSet(1..N) /\ Cardinality(1..N) = N
    BY LiveFinite, FS_Interval
  <2>3. f \in Surjection(Live(r), 1..N)
    <3> HIDE DEF f
    <3> QED
      BY <2>1, <2>2, FS_Injection
  <2> QED
    BY <2>3 DEF Surjection
<1> QED
  BY <1>4, <1>5, <1>6

\* compact_locked: sound, all puts, as many records as live keys.
LEMMA CompactOK ==
    ASSUME NEW r, RamOK(r)
    PROVE  /\ RamOK(Compact(r))
           /\ Compact(r).needsPublish /\ Compact(r).active = r.active
           /\ Len(Compact(r).img) = Cardinality(Live(r))
           /\ AllData(Compact(r).img, 1)
           /\ Compact(r).gen = r.gen
<1> DEFINE N == Cardinality(Live(r))
           Of(i) == CHOOSE k \in Live(r) : Rank(r, k) = i
           img == [i \in 1..N |-> r.img[r.index[Of(i)]]]
           index == [k \in Keys |-> IF k \in Live(r) THEN Rank(r, k) ELSE 0]
           c == Compact(r)
<1>1. N \in 0..BankCells /\ Live(r) \subseteq Keys
  BY LiveFits, LiveFinite, ConstantsType
<1>2. \A i \in 1..N : Of(i) \in Live(r) /\ Rank(r, Of(i)) = i
  BY RankBijective
<1>3. \A k \in Live(r) : r.img[r.index[k]] \in Puts /\ r.img[r.index[k]].key = k
  BY <1>1 DEF RamOK, IndexSound, Live, Present
<1>4. \A i \in 1..N : img[i] \in Puts /\ img[i].key = Of(i)
  BY <1>2, <1>3
<1>5. img \in Seq(Puts) /\ Len(img) = N
  <2>1. img \in [1..N -> Puts] /\ N \in Nat
    BY <1>1, <1>4
  <2> QED
    BY <2>1, IntervalSeq
<1>6. img \in Seq(Rec)
  <2>1. Puts \subseteq Rec
    BY DEF Rec, Data
  <2> QED
    BY <1>5, <2>1, SeqMonotonic
<1>7. index \in [Keys -> 0..BankCells]
  <2>1. \A k \in Live(r) : Rank(r, k) \in 0..BankCells
    BY <1>1, RankBijective, ConstantsType
  <2> QED
    BY <2>1, ConstantsType
<1>8. r \in Ram /\ 0 \in 0..BankCells
  BY ConstantsType DEF RamOK
<1>9. /\ c.img = img /\ c.index = index /\ c.needsPublish
      /\ c.active = r.active /\ c.gen = r.gen
  BY <1>8 DEF Compact, NeedingPublish, Ram
<1>10. c \in Ram
  <2>1. c = [r EXCEPT !.img = img, !.index = index, !.dirty = TRUE,
                      !.needsPublish = TRUE, !.flashEnd = 0]
    BY <1>8 DEF Compact, NeedingPublish, Ram
  <2> HIDE DEF img, index, c
  <2> QED
    BY <2>1, <1>6, <1>7, <1>8 DEF Ram
<1>11. ASSUME NEW k \in Keys, index[k] # 0
       PROVE  index[k] \in 1..N /\ img[index[k]] \in Puts /\ img[index[k]].key = k
  <2>1. k \in Live(r) /\ index[k] = Rank(r, k)
    BY <1>11
  <2>2. index[k] \in 1..N
    BY <2>1, RankBijective
  <2>3. Of(index[k]) = k
    BY <2>1, <2>2, <1>2, RankBijective
  <2> HIDE DEF img, Of, index
  <2> QED
    BY <2>2, <2>3, <1>4
<1>12. AllData(c.img, 1)
  <2> HIDE DEF img, c
  <2> QED
    BY <1>4, <1>5, <1>9 DEF AllData, Data
<1> HIDE DEF img, index, c
<1>13. StagedSound(c) /\ Len(c.img) = N /\ IndexSound(c)
  BY <1>5, <1>9, <1>11 DEF StagedSound, IndexSound
<1> QED
  BY <1>1, <1>9, <1>10, <1>12, <1>13 DEF RamOK, c

\* A call's later images stand on the same bank and append where it did.
Follows(r, s) ==
    /\ s.active = r.active /\ s.gen = r.gen
    /\ ~s.needsPublish => ~r.needsPublish /\ s.flashEnd = r.flashEnd

LEMMA EnsureSpaceOK ==
    ASSUME NEW r, RamOK(r), NEW k \in Keys, HasRoom(r, k)
    PROVE  /\ RamOK(EnsureSpace(r, k))
           /\ Len(EnsureSpace(r, k).img) < BankCells
           /\ Follows(r, EnsureSpace(r, k))
<1>1. CASE Fits(r)
  <2>1. EnsureSpace(r, k) = r
    BY <1>1 DEF EnsureSpace
  <2>2. Len(r.img) + 1 <= BankCells /\ Len(r.img) \in Nat
    <3>1. Len(r.img) \in Nat /\ Reserve(r) \in {0, 1}
      BY RamFields DEF Reserve
    <3>2. Len(r.img) + 1 + Reserve(r) <= BankCells
      BY <1>1 DEF Fits, Used
    <3> QED
      BY <3>1, <3>2, ConstantsType
  <2> QED
    BY <2>1, <2>2, ConstantsType DEF Follows
<1>2. CASE ~Fits(r)
  <2> DEFINE s == [r EXCEPT !.index[k] = 0]
  <2>1. /\ s \in Ram /\ s.img = r.img /\ s.active = r.active /\ s.gen = r.gen
        /\ s.index = [r.index EXCEPT ![k] = 0]
        /\ s.needsPublish = r.needsPublish /\ s.flashEnd = r.flashEnd
    <3>1. [r.index EXCEPT ![k] = 0] \in [Keys -> 0..BankCells] /\ r \in Ram
      BY ConstantsType DEF RamOK, Ram
    <3>2. s = [r EXCEPT !.index = [r.index EXCEPT ![k] = 0]]
      BY <3>1 DEF Ram
    <3> HIDE DEF s
    <3> QED
      BY <3>1, <3>2 DEF Ram
  <2>2. r.index \in [Keys -> 0..BankCells]
    BY RamFields
  <2>3. Live(s) = Live(r) \ {k}
    BY <2>1, <2>2 DEF Live, Present
  <2>4. RamOK(s)
    <3> HIDE DEF s
    <3> QED
      BY <2>1, <2>2 DEF RamOK, IndexSound, StagedSound
  <2>5. Cardinality(Live(s)) + 1 <= BankCells
    BY <1>2, <2>3 DEF HasRoom
  <2>6. EnsureSpace(r, k) = Compact(s)
    BY <1>2 DEF EnsureSpace
  <2> HIDE DEF s
  <2>7. Len(Compact(s).img) < BankCells
    BY <2>4, <2>5, CompactOK, LiveFinite, ConstantsType
  <2> QED
    BY <2>1, <2>4, <2>6, <2>7, CompactOK DEF Follows
<1> QED
  BY <1>1, <1>2

LEMMA AppendRecordOK ==
    ASSUME NEW r, RamOK(r), NEW rec \in Data, Len(r.img) < BankCells
    PROVE  RamOK(AppendRecord(r, rec)) /\ Follows(r, AppendRecord(r, rec))
<1> DEFINE s == AppendRecord(r, rec)
           n == Len(r.img)
<1>1. rec.key \in Keys /\ (rec.type # "delete" => rec \in Puts) /\ rec \in Rec
  BY DEF Data, Puts, Dels, Rec
<1>2. r.img \in Seq(Rec) /\ n \in Nat /\ n + 1 \in 0..BankCells
  BY RamFields, ConstantsType
<1>3. /\ Append(r.img, rec) \in Seq(Rec) /\ Len(Append(r.img, rec)) = n + 1
      /\ Append(r.img, rec)[n + 1] = rec
      /\ \A i \in 1..n : Append(r.img, rec)[i] = r.img[i]
  BY <1>1, <1>2, AppendProperties
<1>4. /\ s \in Ram /\ s.img = Append(r.img, rec) /\ s.active = r.active /\ s.gen = r.gen
      /\ s.index = [r.index EXCEPT ![rec.key] = IF rec.type = "delete" THEN 0 ELSE n + 1]
      /\ s.needsPublish = r.needsPublish /\ s.flashEnd = r.flashEnd
  <2>1. r \in Ram /\ 0 \in 0..BankCells
    BY ConstantsType DEF RamOK
  <2> QED
    BY <1>1, <1>2, <1>3, <2>1 DEF AppendRecord, Ram, Used
<1>5. r.index \in [Keys -> 0..BankCells]
  BY RamFields
<1> HIDE DEF s
<1>6. IndexSound(s)
  <2> SUFFICES ASSUME NEW k \in Keys, s.index[k] # 0
               PROVE  /\ s.index[k] \in 1..Len(s.img)
                      /\ s.img[s.index[k]] \in Puts /\ s.img[s.index[k]].key = k
    BY DEF IndexSound
  <2>1. CASE k = rec.key
    BY <2>1, <1>1, <1>2, <1>3, <1>4, <1>5
  <2>2. CASE k # rec.key
    <3>1. s.index[k] = r.index[k] /\ r.index[k] \in 1..n
      BY <2>2, <1>4, <1>5, <1>1 DEF RamOK, IndexSound
    <3> QED
      BY <3>1, <1>2, <1>3, <1>4 DEF RamOK, IndexSound
  <2> QED
    BY <2>1, <2>2
<1>7. StagedSound(s)
  BY <1>2, <1>3, <1>4, RamFields DEF RamOK, StagedSound, AllData
<1> QED
  BY <1>2, <1>3, <1>4, <1>6, <1>7 DEF RamOK, Follows, s

(***************************************************************************)
(* The three ways a call goes on once its change is staged.                *)
(***************************************************************************)
LEMMA FollowsActiveOK ==
    ASSUME NEW m, NEW r, NEW s, ActiveOK(m, r), Follows(r, s)
    PROVE  ActiveOK(m, s)
BY DEF ActiveOK, Follows

LEMMA BeginPublishOK ==
    ASSUME NEW r, KvInv, RamOK(r), BeginPublish(r), ready => ActiveOK(medium, r),
           UNCHANGED <<medium, ready>>
    PROVE  KvInv'
<1>1. /\ RamOK(ram') /\ ram'.needsPublish /\ ram'.active = r.active /\ ram'.gen = r.gen
      /\ AllData(ram'.img, 1)
  BY CompactOK DEF BeginPublish
<1>2. pc' \in {"erase", "body"} /\ readsErased' \in BOOLEAN
  BY DEF BeginPublish
<1>3. PhaseOK'
  BY <1>1, <1>2 DEF PhaseOK, Replacing
<1>4. ready' => ActiveOK(medium', ram')
  BY <1>1 DEF ActiveOK
<1> QED
  BY <1>1, <1>2, <1>3, <1>4 DEF KvInv

LEMMA ReturnOK ==
    ASSUME NEW r, KvInv, RamOK(r), Return(r), ready', ActiveOK(medium', r),
           medium' \in [Banks -> Bank]
    PROVE  KvInv'
<1>1. pc' = "idle" /\ ram' = r /\ readsErased' = FALSE
  BY DEF Return
<1>2. PhaseOK'
  BY <1>1 DEF PhaseOK, Replacing
<1> QED
  BY <1>1, <1>2 DEF KvInv

LEMMA CommitLockedOK ==
    ASSUME NEW r, KvInv, RamOK(r), ready, ActiveOK(medium, r), CommitLocked(r),
           UNCHANGED <<medium, ready>>
    PROVE  KvInv'
<1>1. CASE Return(r)
  BY <1>1, ReturnOK DEF KvInv
<1>2. CASE BeginPublish(r)
  BY <1>2, BeginPublishOK
<1>3. CASE Return([r EXCEPT !.dirty = FALSE])
  <2> DEFINE s == [r EXCEPT !.dirty = FALSE]
  <2>1. /\ s \in Ram /\ s.img = r.img /\ s.index = r.index /\ s.active = r.active
        /\ s.needsPublish = r.needsPublish /\ s.flashEnd = r.flashEnd
    BY DEF RamOK, Ram
  <2> HIDE DEF s
  <2>2. RamOK(s) /\ ActiveOK(medium, s)
    BY <2>1 DEF RamOK, IndexSound, StagedSound, ActiveOK
  <2>3. Return(s)
    BY <1>3 DEF s
  <2> QED
    BY <2>2, <2>3, ReturnOK DEF KvInv
<1>4. CASE /\ ~r.needsPublish /\ Used(r) # r.flashEnd
           /\ CanAppend(r) /\ BeginAppend(r)
  <2>1. pc' = "append" /\ ram' = r /\ readsErased' = readsErased
    BY <1>4 DEF BeginAppend
  <2>2. r.flashEnd < Len(r.img) /\ Len(r.img) < BankCells
    <3>1. r.flashEnd <= Len(r.img) /\ r.flashEnd # Len(r.img) /\ Len(r.img) + 1 <= BankCells
      BY <1>4 DEF CanAppend, Used, RamOK, StagedSound
    <3> QED
      BY <3>1, RamFields, ConstantsType
  <2>3. PhaseOK'
    BY <1>4, <2>1, <2>2 DEF PhaseOK, Replacing
  <2> QED
    BY <2>1, <2>3 DEF KvInv
<1> QED
  BY <1>1, <1>2, <1>3, <1>4 DEF CommitLocked

LEMMA FinishMutationOK ==
    ASSUME NEW r, KvInv, pc = "idle", RamOK(r), Follows(ram, r), FinishMutation(r),
           UNCHANGED <<medium, ready>>
    PROVE  KvInv'
<1>1. ready /\ ActiveOK(medium, ram)
  BY DEF KvInv, PhaseOK
<1>2. ActiveOK(medium, r)
  BY <1>1, FollowsActiveOK
<1> QED
  BY <1>1, <1>2, CommitLockedOK, ReturnOK DEF FinishMutation, KvInv

(***************************************************************************)
(* Recovery: the image rebuilt from a valid bank.                          *)
(***************************************************************************)
LEMMA NewestValid ==
    ASSUME NEW m, AnyValid(m)
    PROVE  Newest(m) \in Banks /\ Valid(m[Newest(m)])
BY DEF AnyValid, Newest, Banks

LEMMA BodyType ==
    ASSUME NEW bank \in Bank, Valid(bank)
    PROVE  /\ bank[0].body \in Seq(Data) /\ Len(bank[0].body) \in 0..BankCells
           /\ bank[0].gen \in Gens
           /\ \A i \in 1..Len(bank[0].body) : bank[i] \in Data
<1>1. bank[0] \in Cell /\ bank[0].type = "header"
  BY ConstantsType DEF Bank, Valid
<1>2. bank[0] \in Headers
  BY <1>1 DEF Cell, Rec, Data, Puts, Dels, Commits, Erased, Torn
<1>3. bank[0].body \in Body /\ bank[0].gen \in Gens
  BY <1>2 DEF Headers
<1>4. bank[0].body \in Seq(Data) /\ Len(bank[0].body) <= BankCells
  BY <1>3 DEF Body
<1>5. \A i \in 1..Len(bank[0].body) : bank[0].body[i] \in Data
  BY <1>4, ElementOfSeq
<1> QED
  BY <1>3, <1>4, <1>5, LenProperties, ConstantsType DEF Valid

LEMMA RecoveredOK ==
    ASSUME NEW m \in [Banks -> Bank], AnyValid(m)
    PROVE  RamOK(Recovered(m)) /\ ActiveOK(m, Recovered(m))
<1> DEFINE b == Newest(m)
           bank == m[b]
           e == CommittedEnd(bank)
           r == [img |-> Slice(bank, 1, e), index |-> IndexOf(bank, e), flashEnd |-> e,
                 dirty |-> FALSE, needsPublish |-> FALSE, active |-> b, gen |-> bank[0].gen]
<1>1. b \in Banks /\ Valid(bank) /\ bank \in Bank
  BY NewestValid
<1> HIDE DEF b
<1>2. /\ Len(bank[0].body) \in 0..BankCells /\ bank[0].gen \in Gens
      /\ \A i \in 1..Len(bank[0].body) : bank[i] \in Data
  BY <1>1, BodyType
<1>3. e \in Len(bank[0].body)..BankCells /\ LogEndsAt(bank, Len(bank[0].body), e)
  BY <1>2, CommittedEndProperty
<1> HIDE DEF e
<1>4. ASSUME NEW i \in 1..e PROVE bank[i] \in Rec
  <2>1. CASE i <= Len(bank[0].body)
    BY <1>2, <1>3, <2>1, ConstantsType DEF Rec
  <2>2. CASE i > Len(bank[0].body)
    <3>1. IsData(bank[i]) \/ bank[i].type = "commit"
      <4>1. i \in (Len(bank[0].body) + 1)..e /\ e # Len(bank[0].body)
        BY <1>2, <1>3, <2>2, ConstantsType
      <4>2. LogAccepted(bank, Len(bank[0].body), e)
        BY <1>3, <4>1 DEF LogEndsAt
      <4>3. IsData(bank[i]) \/ ClosesBatch(bank, Len(bank[0].body), i)
        BY <4>1, <4>2 DEF LogAccepted
      <4> QED
        BY <4>3 DEF ClosesBatch, Commit
    <3>2. bank[i] \in Cell
      BY <1>1, <1>2, <1>3, ConstantsType DEF Bank, Cells
    <3> QED
      BY <3>1, <3>2 DEF Cell, IsData, Erased, Torn, Headers
  <2> QED
    BY <1>2, <1>3, <2>1, <2>2, ConstantsType
<1>5. /\ Slice(bank, 1, e) \in Seq(Rec) /\ Len(Slice(bank, 1, e)) = e
      /\ \A i \in 1..e : Slice(bank, 1, e)[i] = bank[i]
  <2>1. e \in Nat
    BY <1>2, <1>3, ConstantsType
  <2>2. Slice(bank, 1, e) \in [1..e -> Rec] /\ \A i \in 1..e : Slice(bank, 1, e)[i] = bank[i]
    BY <1>4, <2>1 DEF Slice
  <2> QED
    BY <2>1, <2>2, IntervalSeq
<1>6. e \in 0..BankCells
  BY <1>2, <1>3, ConstantsType
<1>7. ASSUME NEW k \in Keys
      PROVE  /\ IndexOf(bank, e)[k] \in 0..e
             /\ IndexOf(bank, e)[k] # 0 =>
                  bank[IndexOf(bank, e)[k]] \in Puts /\ bank[IndexOf(bank, e)[k]].key = k
  <2> DEFINE i == LastOf(bank, e, k)
  <2>1. i \in 0..e /\ (i = 0 \/ IsOf(bank[i], k))
    BY <1>6, LastOfProperty
  <2>2. IndexOf(bank, e)[k] = IF i = 0 \/ bank[i].type = "delete" THEN 0 ELSE i
    BY DEF IndexOf
  <2> HIDE DEF i
  <2>3. CASE i = 0 \/ bank[i].type = "delete"
    BY <1>6, <2>2, <2>3
  <2>4. CASE ~(i = 0 \/ bank[i].type = "delete")
    <3>1. bank[i] \in Rec /\ bank[i].type = "put" /\ bank[i].key = k /\ i \in 1..e
      BY <1>4, <1>6, <2>1, <2>4 DEF IsOf, IsData
    <3>2. bank[i] \in Puts
      BY <3>1 DEF Rec, Data, Dels, Commits
    <3> QED
      BY <2>2, <2>4, <3>1, <3>2
  <2> QED
    BY <2>3, <2>4
<1>8. IndexOf(bank, e) \in [Keys -> 0..BankCells]
  <2>1. \A k \in Keys : IndexOf(bank, e)[k] \in 0..BankCells
    BY <1>6, <1>7, ConstantsType
  <2> QED
    BY <2>1 DEF IndexOf
<1>9. RamOK(r)
  <2>1. r \in Ram
    BY <1>1, <1>2, <1>5, <1>6, <1>8 DEF Ram
  <2>2. IndexSound(r)
    BY <1>5, <1>6, <1>7 DEF IndexSound
  <2>3. StagedSound(r) /\ Len(r.img) <= BankCells
    BY <1>5, <1>6 DEF StagedSound, AllData
  <2> QED
    BY <2>1, <2>2, <2>3 DEF RamOK
<1>10. ActiveOK(m, r)
  BY <1>1, <1>3, <1>6, ConstantsType DEF ActiveOK
<1>11. Recovered(m) = IF LogDamaged(bank) THEN NeedingPublish(r) ELSE r
  BY DEF Recovered, b, e
<1> HIDE DEF r
<1> QED
  BY <1>9, <1>10, <1>11, NeedingPublishOK DEF ActiveOK

(***************************************************************************)
(* The flash steps.                                                        *)
(***************************************************************************)
\* The image an append closes: the batch, then its commit record.
LEMMA ClosedOK ==
    ASSUME KvInv, pc = "append"
    PROVE  /\ Closed(ram) \in Seq(Rec) /\ Len(Closed(ram)) = Len(ram.img) + 1
           /\ \A i \in 1..Len(ram.img) : Closed(ram)[i] = ram.img[i]
           /\ \A i \in 1..(Len(ram.img) + 1) : Closed(ram)[i] \in Rec
<1> DEFINE n == Len(ram.img)
           f == ram.flashEnd
<1>1. /\ ram.img \in Seq(Rec) /\ n \in Nat /\ f \in Nat /\ f < n
      /\ AllData(ram.img, f + 1)
  BY RamFields, ConstantsType DEF KvInv, PhaseOK, RamOK, StagedSound
<1>2. Slice(ram.img, f + 1, n) \in Seq(Data)
  <2>1. n - (f + 1) + 1 \in Nat
    BY <1>1
  <2>2. Slice(ram.img, f + 1, n) \in [1..(n - (f + 1) + 1) -> Data]
    <3>1. \A i \in (f + 1)..n : ram.img[i] \in Data
      BY <1>1 DEF AllData
    <3> HIDE DEF f, n
    <3>2. \A i \in 1..(n - (f + 1) + 1) : f + 1 + i - 1 \in (f + 1)..n
      BY <1>1
    <3> QED
      BY <3>1, <3>2 DEF Slice
  <2> QED
    BY <2>1, <2>2, IntervalSeq
<1>3. Commit(f + 1, Slice(ram.img, f + 1, n)) \in Rec
  <2>1. f + 1 \in Nat
    BY <1>1
  <2> HIDE DEF f, n
  <2> QED
    BY <1>2, <2>1 DEF Commit, Rec, Commits
<1>4. Closed(ram) = Append(ram.img, Commit(f + 1, Slice(ram.img, f + 1, n)))
  BY DEF Closed, Used
<1>5. /\ Closed(ram) \in Seq(Rec) /\ Len(Closed(ram)) = n + 1
      /\ \A i \in 1..n : Closed(ram)[i] = ram.img[i]
  BY <1>1, <1>3, <1>4, AppendProperties
<1>6. \A i \in 1..(n + 1) : Closed(ram)[i] \in Rec
  BY <1>5, ElementOfSeq
<1> QED
  BY <1>5, <1>6

LEMMA WriteTargetType ==
    ASSUME KvInv, Writing
    PROVE  /\ medium[WrittenBank] \in Bank /\ WriteTarget \in Bank
           /\ WrittenBank \in Banks
<1> DEFINE old == medium[WrittenBank]
<1>1. /\ ram.img \in Seq(Rec) /\ Len(ram.img) \in 0..BankCells
      /\ ram.active \in Banks /\ ram.gen \in Gens /\ Spare(ram) \in Banks
      /\ \A i \in 1..Len(ram.img) : ram.img[i] \in Rec
  BY RamFields DEF KvInv
<1>2. WrittenBank \in Banks /\ old \in Bank
  BY <1>1 DEF WrittenBank, KvInv
<1>3. Rec \subseteq Cell /\ Erased \in Cell
  BY DEF Cell
<1> HIDE DEF old
<1>4. CASE pc \in {"erase", "prepare"}
  BY <1>2, <1>3, <1>4 DEF WriteTarget, BlankBank, Bank, old
<1>5. CASE pc = "append"
  <2>1. \A i \in 1..(Len(ram.img) + 1) : Closed(ram)[i] \in Rec
    BY <1>5, ClosedOK
  <2>2. /\ ram.flashEnd \in 0..BankCells /\ ram.flashEnd < Len(ram.img)
        /\ Len(ram.img) < BankCells
    BY <1>5, RamFields DEF KvInv, PhaseOK
  <2>3. \A i \in Cells : i \in (ram.flashEnd + 1)..(Used(ram) + 1) => Closed(ram)[i] \in Cell
    BY <1>1, <1>3, <2>1, <2>2, ConstantsType DEF Used, Cells
  <2>4. WriteTarget = [i \in Cells |-> IF i \in (ram.flashEnd + 1)..(Used(ram) + 1)
                                       THEN Closed(ram)[i] ELSE old[i]]
    BY <1>5 DEF WriteTarget, old
  <2> QED
    BY <1>2, <2>3, <2>4 DEF Bank, old
<1>6. CASE pc = "body"
  <2>1. WriteTarget = [i \in Cells |-> IF i \in 1..Used(ram) THEN ram.img[i] ELSE old[i]]
    BY <1>6 DEF WriteTarget, old
  <2> QED
    BY <1>1, <1>2, <1>3, <2>1 DEF Bank, Used, old
<1>7. CASE pc = "header"
  <2>1. ram.img \in Body
    <3>1. AllData(ram.img, 1)
      BY <1>7 DEF KvInv, PhaseOK, Replacing
    <3>2. ram.img \in [1..Len(ram.img) -> Data] /\ Len(ram.img) \in Nat
      BY <1>1, <3>1, LenProperties DEF AllData
    <3> QED
      BY <1>1, <3>2, IntervalSeq, ConstantsType DEF Body
  <2>2. NextGen(ram.gen) \in Gens
    BY <1>1, KvAssumption DEF NextGen, Gens
  <2>3. Header(NextGen(ram.gen), ram.img) \in Cell
    BY <2>1, <2>2 DEF Header, Headers, Cell
  <2>4. WriteTarget = [old EXCEPT ![0] = Header(NextGen(ram.gen), ram.img)]
    BY <1>7 DEF WriteTarget, old
  <2> QED
    BY <1>2, <2>3, <2>4 DEF Bank, old
<1> QED
  BY <1>2, <1>4, <1>5, <1>6, <1>7 DEF Writing, Replacing, old

LEMMA WriteOK ==
    ASSUME KvInv, Writing, WriteDone \/ WriteTorn
    PROVE  /\ medium' \in [Banks -> Bank]
           /\ \A b \in Banks : b # WrittenBank => medium'[b] = medium[b]
           /\ medium'[WrittenBank] \in TornBanks(medium[WrittenBank], WriteTarget)
<1>1. medium \in [Banks -> Bank]
  BY DEF KvInv
<1>2. WriteTarget \in TornBanks(medium[WrittenBank], WriteTarget)
  BY DEF TornBanks
<1>3. PICK bank \in TornBanks(medium[WrittenBank], WriteTarget) :
          medium' = [medium EXCEPT ![WrittenBank] = bank]
  BY <1>2 DEF WriteDone, WriteTorn
<1>4. bank \in Bank
  BY <1>3, WriteTargetType, TornType
<1> QED
  BY <1>1, <1>3, <1>4, WriteTargetType

\* However a write ends, the bank in use stays valid, and a log behind its
\* body stays behind its body.
LEMMA WriteActiveOK ==
    ASSUME KvInv, Writing, ready, WriteDone \/ WriteTorn
    PROVE  ActiveOK(medium', ram)
<1>1. ActiveOK(medium, ram) /\ ram.active \in Banks /\ medium[ram.active] \in Bank
  BY RamFields DEF KvInv
<1>2. CASE pc # "append"
  <2>1. WrittenBank = Spare(ram) /\ ram.active # Spare(ram)
    BY <1>1, <1>2 DEF WrittenBank, Spare, Banks
  <2>2. medium'[ram.active] = medium[ram.active]
    BY <1>1, <2>1, WriteOK
  <2> QED
    BY <1>1, <2>2 DEF ActiveOK
<1>3. CASE pc = "append"
  <2> DEFINE old == medium[ram.active]
             body == Len(old[0].body)
  <2>1. WrittenBank = ram.active
    BY <1>3 DEF WrittenBank
  <2>2. /\ body \in 0..BankCells /\ ram.flashEnd \in 0..BankCells /\ body <= ram.flashEnd
        /\ Valid(old)
    BY <1>1, <1>3, BodyType, RamFields DEF ActiveOK, KvInv, PhaseOK
  <2>3. ASSUME NEW i \in 0..body
        PROVE  i \in Cells /\ WriteTarget[i] = old[i]
    <3>1. WriteTarget = [c \in Cells |-> IF c \in (ram.flashEnd + 1)..(Used(ram) + 1)
                                         THEN Closed(ram)[c] ELSE old[c]]
      BY <1>3, <2>1 DEF WriteTarget
    <3> HIDE DEF old
    <3> QED
      BY <2>2, <3>1, ConstantsType DEF Cells
  <2>4. \A i \in 0..body : medium'[ram.active][i] = old[i]
    BY <2>1, <2>3, WriteOK, WriteTargetType, TornKeeps
  <2> HIDE DEF old
  <2>5. Valid(medium'[ram.active]) /\ medium'[ram.active][0] = old[0]
    BY <2>2, <2>4, ConstantsType DEF Valid
  <2> QED
    BY <2>2, <2>5 DEF ActiveOK
<1> QED
  BY <1>2, <1>3

(***************************************************************************)
(* Init and every step of Next keep KvInv.                                 *)
(***************************************************************************)
LEMMA KvInitOK == Init => KvInv
<1> SUFFICES ASSUME Init PROVE KvInv
  OBVIOUS
<1>2. RamOK(ram)
  BY ResetOK DEF Init, Banks
<1>1. medium \in [Banks -> Bank]
  BY DEF Init, BlankBank, Bank, Cell
<1> QED
  BY <1>1, <1>2 DEF Init, KvInv, PhaseOK, Replacing

LEMMA IdleOK ==
    ASSUME KvInv, pc = "idle"
    PROVE  RamOK(ram) /\ ready /\ ActiveOK(medium, ram)
BY DEF KvInv, PhaseOK

LEMMA StageOK ==
    ASSUME KvInv, Call, NEW k \in Keys, NEW rec \in Data, HasRoom(ram, k),
           FinishMutation(AppendRecord(EnsureSpace(ram, k), rec))
    PROVE  KvInv'
<1> DEFINE s == EnsureSpace(ram, k)
           r == AppendRecord(s, rec)
<1>1. RamOK(s) /\ Len(s.img) < BankCells /\ Follows(ram, s)
  BY EnsureSpaceOK, IdleOK DEF Call
<1> HIDE DEF s
<1>2. RamOK(r) /\ Follows(s, r)
  BY <1>1, AppendRecordOK
<1>3. Follows(ram, r)
  BY <1>1, <1>2 DEF Follows
<1>4. FinishMutation(r)
  BY DEF s
<1> HIDE DEF r
<1> QED
  BY <1>2, <1>3, <1>4, FinishMutationOK DEF Call

LEMMA SetOK ==
    ASSUME KvInv, NEW k \in Keys, NEW v \in Vals, Set(k, v)
    PROVE  KvInv'
<1>1. Put(k, v) \in Data
  BY DEF Put, Data, Puts
<1> QED
  BY <1>1, StageOK DEF Set

LEMMA DeleteOK ==
    ASSUME KvInv, NEW k \in Keys, Delete(k)
    PROVE  KvInv'
<1>1. Del(k) \in Data
  BY DEF Del, Data, Dels
<1> QED
  BY <1>1, StageOK DEF Delete

LEMMA CommitExOK == KvInv /\ CommitEx => KvInv'
  BY CommitLockedOK, IdleOK DEF CommitEx, Call

LEMMA GcOK ==
    ASSUME KvInv, Gc
    PROVE  KvInv'
<1>1. RamOK(Compact(ram)) /\ Follows(ram, Compact(ram))
  BY IdleOK, CompactOK DEF Gc, Call, Follows
<1> QED
  BY <1>1, FinishMutationOK DEF Gc, Call

LEMMA PrepareOK == KvInv /\ Prepare => KvInv'
<1> SUFFICES ASSUME KvInv, Prepare PROVE KvInv'
  OBVIOUS
<1>1. PhaseOK'
  BY DEF KvInv, PhaseOK, Prepare, Call, Replacing
<1> QED
  BY <1>1 DEF KvInv, Prepare, Call

LEMMA RecoverOK ==
    ASSUME KvInv, Recover
    PROVE  KvInv'
<1>1. RamOK(Recovered(medium)) /\ ActiveOK(medium, Recovered(medium))
  BY RecoveredOK DEF Recover, KvInv
<1>2. Return(Recovered(medium)) /\ ready'
  BY DEF Recover
<1> QED
  BY <1>1, <1>2, ReturnOK DEF Recover, KvInv

LEMMA FormatOK ==
    ASSUME KvInv, Format
    PROVE  KvInv'
<1>1. RamOK([Reset EXCEPT !.active = 1])
  BY ResetOK DEF Banks
<1>2. ~ready
  BY DEF Format, KvInv, PhaseOK
<1> QED
  BY <1>1, <1>2, BeginPublishOK DEF Format

LEMMA AppendDoneOK ==
    ASSUME KvInv, AppendDone
    PROVE  KvInv'
<1> DEFINE r == [ram EXCEPT !.img = Closed(ram), !.flashEnd = Used(ram) + 1, !.dirty = FALSE]
           n == Len(ram.img)
<1>1. /\ Closed(ram) \in Seq(Rec) /\ Len(Closed(ram)) = n + 1
      /\ \A i \in 1..n : Closed(ram)[i] = ram.img[i]
  BY ClosedOK DEF AppendDone
<1>2. /\ ram \in Ram /\ n \in Nat /\ n + 1 \in 0..BankCells /\ n < BankCells
      /\ ram.flashEnd \in 0..BankCells /\ ram.flashEnd < n
  BY RamFields, ConstantsType DEF KvInv, RamOK, AppendDone, PhaseOK
<1>3. /\ r \in Ram /\ r.img = Closed(ram) /\ r.flashEnd = n + 1
      /\ r.index = ram.index /\ r.active = ram.active /\ r.needsPublish = ram.needsPublish
  BY <1>1, <1>2 DEF Ram, Used
<1>4. Return(r)
  BY DEF AppendDone
<1> HIDE DEF r
<1>5. IndexSound(r)
  BY <1>1, <1>2, <1>3 DEF IndexSound, KvInv, RamOK
<1>6. RamOK(r)
  BY <1>1, <1>2, <1>3, <1>5, ConstantsType DEF RamOK, StagedSound, AllData
<1>7. ready /\ Writing /\ medium' \in [Banks -> Bank] /\ ActiveOK(medium', ram)
  BY WriteOK, WriteActiveOK DEF AppendDone, Writing, KvInv, PhaseOK
<1>8. ActiveOK(medium', r)
  <2>1. medium'[ram.active] \in Bank /\ Valid(medium'[ram.active])
    BY <1>7, RamFields DEF ActiveOK, KvInv
  <2>2. Len(medium'[ram.active][0].body) \in Nat
    BY <2>1, BodyType, ConstantsType
  <2>3. ~r.needsPublish => Len(medium'[ram.active][0].body) <= ram.flashEnd
    BY <1>3, <1>7 DEF ActiveOK
  <2> QED
    BY SMTT(30), <1>2, <1>3, <2>1, <2>2, <2>3, ConstantsType DEF ActiveOK
<1> QED
  BY <1>4, <1>6, <1>7, <1>8, ReturnOK DEF AppendDone

LEMMA AppendFailsOK ==
    ASSUME KvInv, AppendFails
    PROVE  KvInv'
<1>1. RamOK(ram) /\ RamOK(NeedingPublish(ram)) /\ NeedingPublish(ram).needsPublish
      /\ NeedingPublish(ram).active = ram.active
  BY NeedingPublishOK DEF KvInv
<1>2. ready /\ medium' \in [Banks -> Bank] /\ ActiveOK(medium', ram)
  BY WriteOK, WriteActiveOK DEF AppendFails, Writing, KvInv, PhaseOK
<1>3. ActiveOK(medium', NeedingPublish(ram))
  BY <1>1, <1>2 DEF ActiveOK
<1>4. Return(ram) \/ Return(NeedingPublish(ram))
  BY DEF AppendFails, Return
<1> QED
  BY <1>1, <1>2, <1>3, <1>4, ReturnOK DEF AppendFails

LEMMA AppendUnwritableOK ==
    ASSUME KvInv, AppendUnwritable
    PROVE  KvInv'
BY BeginPublishOK DEF AppendUnwritable, KvInv

LEMMA EraseDoneOK ==
    ASSUME KvInv, EraseDone
    PROVE  KvInv'
<1>1. Writing /\ medium' \in [Banks -> Bank] /\ (ready => ActiveOK(medium', ram))
  BY WriteOK, WriteActiveOK DEF EraseDone, Writing, Replacing
<1>2. PhaseOK'
  BY DEF KvInv, PhaseOK, EraseDone, Replacing
<1> QED
  BY <1>1, <1>2 DEF KvInv, EraseDone

LEMMA BodyDoneOK ==
    ASSUME KvInv, BodyDone
    PROVE  KvInv'
<1>1. Writing /\ medium' \in [Banks -> Bank] /\ (ready => ActiveOK(medium', ram))
  BY WriteOK, WriteActiveOK DEF BodyDone, Writing, Replacing
<1>2. medium'[Spare(ram)] = WriteTarget
  <2>1. WrittenBank = Spare(ram) /\ WrittenBank \in Banks
    BY <1>1, WriteTargetType DEF BodyDone, WrittenBank
  <2> QED
    BY <2>1 DEF BodyDone, WriteDone, KvInv
<1>3. Len(ram.img) \in 0..BankCells
  BY RamFields DEF KvInv
<1>4. \A i \in 1..Len(ram.img) : medium'[Spare(ram)][i] = ram.img[i]
  <2>1. WriteTarget = [i \in Cells |-> IF i \in 1..Used(ram) THEN ram.img[i]
                                       ELSE medium[WrittenBank][i]]
    BY DEF BodyDone, WriteTarget
  <2> QED
    BY <1>2, <1>3, <2>1, ConstantsType DEF Used, Cells
<1>5. PhaseOK'
  BY <1>4 DEF KvInv, PhaseOK, BodyDone, Replacing, Spare
<1> QED
  BY <1>1, <1>5 DEF KvInv, BodyDone

LEMMA HeaderDoneOK ==
    ASSUME KvInv, HeaderDone
    PROVE  KvInv'
<1> DEFINE r == Published(ram)
           new == medium'[Spare(ram)]
           n == Len(ram.img)
<1>1. /\ Writing /\ medium' \in [Banks -> Bank] /\ ready' /\ Return(r)
  BY WriteOK DEF HeaderDone, Writing, Replacing
<1>2. /\ ram \in Ram /\ RamOK(ram) /\ n \in 0..BankCells /\ n \in Nat /\ AllData(ram.img, 1)
      /\ ram.gen \in Gens /\ Spare(ram) \in Banks
      /\ \A i \in 1..n : medium[Spare(ram)][i] = ram.img[i]
  BY RamFields, ConstantsType DEF KvInv, PhaseOK, Replacing, HeaderDone, RamOK
<1>3. NextGen(ram.gen) \in Gens
  BY <1>2, KvAssumption DEF NextGen, Gens
<1>4. /\ r \in Ram /\ r.img = ram.img /\ r.flashEnd = n /\ r.index = ram.index
      /\ r.active = Spare(ram)
  BY <1>2, <1>3 DEF Published, Ram, Used
<1>5. RamOK(r)
  <2> HIDE DEF r
  <2> QED
    BY <1>2, <1>4 DEF RamOK, IndexSound, StagedSound, AllData
<1>6. new = [medium[Spare(ram)] EXCEPT ![0] = Header(NextGen(ram.gen), ram.img)]
  <2>1. WrittenBank = Spare(ram)
    BY DEF HeaderDone, WrittenBank
  <2>2. medium' = [medium EXCEPT ![Spare(ram)] = WriteTarget]
    BY <2>1 DEF HeaderDone, WriteDone
  <2>3. WriteTarget = [medium[Spare(ram)] EXCEPT ![0] = Header(NextGen(ram.gen), ram.img)]
    BY <2>1 DEF HeaderDone, WriteTarget
  <2> QED
    BY <1>2, <2>2, <2>3 DEF KvInv
<1>7. new[0] = Header(NextGen(ram.gen), ram.img) /\ \A i \in 1..n : new[i] = ram.img[i]
  <2>1. medium[Spare(ram)] \in Bank
    BY <1>2 DEF KvInv
  <2> HIDE DEF new
  <2> QED
    BY <1>2, <1>6, <2>1, ConstantsType DEF Bank, Cells
<1> HIDE DEF r
<1>8. ActiveOK(medium', r)
  <2>1. medium'[r.active] = new
    BY <1>4
  <2>2. new[0].type = "header" /\ new[0].body = ram.img
    BY <1>7 DEF Header
  <2> HIDE DEF new
  <2> QED
    BY <1>2, <1>4, <1>7, <2>1, <2>2 DEF ActiveOK, Valid
<1> QED
  BY <1>1, <1>5, <1>8, ReturnOK DEF HeaderDone, r

LEMMA PublishFailsOK ==
    ASSUME KvInv, Replacing, PublishFails, medium' \in [Banks -> Bank],
           ready => ActiveOK(medium', ram), UNCHANGED ready
    PROVE  KvInv'
<1>1. CASE ready
  BY <1>1, ReturnOK DEF PublishFails, Return, KvInv
<1>2. CASE ~ready
  <2>1. ram' = Reset /\ pc' = "down" /\ readsErased' = FALSE /\ ~ready'
    BY <1>2 DEF PublishFails
  <2>2. RamOK(ram')
    BY <2>1, ResetOK DEF Banks
  <2>3. PhaseOK'
    BY <2>1 DEF PhaseOK, Replacing
  <2> QED
    BY <2>1, <2>2, <2>3 DEF KvInv
<1> QED
  BY <1>1, <1>2

LEMMA ReplaceFailsOK ==
    ASSUME KvInv, ReplaceFails
    PROVE  KvInv'
<1>1. Writing /\ medium' \in [Banks -> Bank] /\ (ready => ActiveOK(medium', ram))
  BY WriteOK, WriteActiveOK DEF ReplaceFails, Writing
<1>2. CASE readsErased
  <2>1. /\ pc' = "erase" /\ readsErased' = FALSE
        /\ UNCHANGED <<ram, ready>> /\ Replacing
    BY <1>2 DEF ReplaceFails
  <2>2. PhaseOK'
    BY <2>1 DEF KvInv, PhaseOK, Replacing
  <2> QED
    BY <1>1, <2>1, <2>2 DEF KvInv
<1>3. CASE ~readsErased
  BY <1>1, <1>3, PublishFailsOK DEF ReplaceFails
<1> QED
  BY <1>2, <1>3

LEMMA ReplaceRefusedOK ==
    ASSUME KvInv, ReplaceRefused
    PROVE  KvInv'
BY PublishFailsOK DEF ReplaceRefused, Replacing, KvInv

LEMMA PrepareReturnsOK ==
    ASSUME KvInv, PrepareReturns
    PROVE  KvInv'
<1>1. ready /\ Writing /\ medium' \in [Banks -> Bank] /\ ActiveOK(medium', ram)
  BY WriteOK, WriteActiveOK DEF PrepareReturns, Writing, KvInv, PhaseOK
<1> QED
  BY <1>1, ReturnOK DEF PrepareReturns, KvInv

LEMMA PowerLossOK ==
    ASSUME KvInv, PowerLoss
    PROVE  KvInv'
<1>1. medium' \in [Banks -> Bank]
  BY WriteOK DEF PowerLoss, KvInv
<1>2. RamOK(ram')
  BY ResetOK DEF PowerLoss, Banks
<1>3. PhaseOK'
  BY DEF PowerLoss, PhaseOK, Replacing
<1> QED
  BY <1>1, <1>2, <1>3 DEF KvInv, PowerLoss

LEMMA KvStepOK == KvInv /\ [Next]_vars => KvInv'
<1> SUFFICES ASSUME KvInv, [Next]_vars PROVE KvInv'
  OBVIOUS
<1>1. CASE UNCHANGED vars
  BY <1>1 DEF vars, KvInv, PhaseOK, Replacing, ActiveOK
<1>2. CASE FlashStep
  BY <1>2, AppendDoneOK, AppendFailsOK, AppendUnwritableOK, EraseDoneOK, BodyDoneOK,
     HeaderDoneOK, ReplaceFailsOK, ReplaceRefusedOK, PrepareReturnsOK DEF FlashStep
<1> QED
  BY <1>1, <1>2, SetOK, DeleteOK, CommitExOK, GcOK, PrepareOK,
     RecoverOK, FormatOK, PowerLossOK DEF Next

\* hal_kv: the inductive invariant that the two theorems below rest on.
THEOREM KvInvariance == Spec => []KvInv
<1> QED
  BY KvInitOK, KvStepOK, PTL DEF Spec

\* Every variable keeps its type: above all s_used_offset never leaves the
\* bank, and s_index only names records that are there.
THEOREM TypeCorrect == Spec => []TypeOK
<1>1. ASSUME KvInv PROVE TypeOK
  <2>1. /\ Used(ram) \in 0..BankCells /\ ram.flashEnd \in 0..BankCells
        /\ ram.index \in [Keys -> 0..BankCells]
        /\ ram.dirty \in BOOLEAN /\ ram.needsPublish \in BOOLEAN
        /\ ram.active \in Banks /\ ram.gen \in Gens
    BY <1>1, RamFields DEF KvInv, Used
  <2>2. \A b \in Banks : DOMAIN medium[b] = Cells
    BY <1>1 DEF KvInv, Bank
  <2> QED
    BY <1>1, <2>1, <2>2 DEF KvInv, PhaseOK, TypeOK
<1> QED
  BY <1>1, KvInvariance, PTL

\* No step of a store, whatever it writes, tears, retries or loses power in,
\* leaves the flash without a valid bank.
THEOREM ValidBankSurvives == Spec => BankSurvives
<1>1. ASSUME KvInv, KvInv', [Next]_vars
      PROVE  [(ready \/ pc = "down") /\ AnyValid(medium) => AnyValid(medium')]_vars
  <2> SUFFICES ASSUME Next, ready \/ pc = "down", AnyValid(medium)
               PROVE  AnyValid(medium')
    BY <1>1 DEF vars
  <2>1. CASE medium' = medium
    BY <2>1
  <2>2. CASE medium' # medium
    <3>1. Writing /\ (WriteDone \/ WriteTorn)
      BY <2>2 DEF Next, FlashStep, Set, Delete, CommitEx, Gc, Prepare, Call,
         Recover, Format, AppendDone, AppendFails, AppendUnwritable, EraseDone, BodyDone,
         HeaderDone, ReplaceFails, ReplaceRefused, PrepareReturns, PowerLoss, Writing, Replacing
    <3>2. ready
      BY <3>1 DEF Writing, Replacing
    <3>3. ActiveOK(medium', ram) /\ ram.active \in Banks
      BY <1>1, <3>1, <3>2, WriteActiveOK, RamFields DEF KvInv
    <3> QED
      BY <3>3 DEF ActiveOK, AnyValid
  <2> QED
    BY <2>1, <2>2
<1> QED
  BY <1>1, KvInvariance, PTL DEF Spec, BankSurvives

(***************************************************************************)
(* What a restart finds.  KvDeep adds to KvInv what the image and the two  *)
(* banks have to do with each other: the image replays to its index, and   *)
(* it stands on the bank that a restart would pick, up to what is staged.  *)
(***************************************************************************)
\* No prefix of the records leaves more keys than there are index slots.
KeysFit(c, e) ==
    \A i \in 0..e : Cardinality(Present(IndexOf(c, i))) <= MaxKeys

\* Cells 1..e of a bank hold the first e records of an image.
Holds(bank, s, e) == \A i \in 1..e : bank[i] = s[i]

\* A restart would pick the bank of this image.
IsNewest(m, r) == Newest(m) = r.active

\* The image r is s_bank of a store on medium m.
Grounded(m, r) ==
    /\ m[r.active][0].gen = r.gen
    /\ ~IsNewest(m, r) =>
          CommittedEnd(m[Spare(r)]) = Len(m[Spare(r)][0].body)
    /\ ~r.needsPublish =>
          /\ IsNewest(m, r)
          /\ CommittedEnd(m[r.active]) = r.flashEnd
          /\ Holds(m[r.active], r.img, r.flashEnd)
          /\ ~LogDamaged(m[r.active])
          /\ Used(r) > r.flashEnd => Used(r) < BankCells
    /\ ~r.dirty =>
          /\ IsNewest(m, r)
          /\ CommittedEnd(m[r.active]) = Used(r)
          /\ Holds(m[r.active], r.img, Used(r))

ImageOK(r) == r.index = IndexOf(r.img, Used(r)) /\ KeysFit(r.img, Used(r))

BankOK(bank) == Valid(bank) => KeysFit(bank, CommittedEnd(bank))

\* What has been programmed of the bank a publish builds.
Built(r) == [i \in Cells |-> IF i \in 1..Used(r) THEN r.img[i] ELSE Erased]

BuildOK ==
    /\ pc = "append" \/ Replacing => ram.dirty
    /\ pc = "body" => medium[Spare(ram)] = BlankBank
    /\ pc = "header" => medium[Spare(ram)] = Built(ram)
    /\ Replacing /\ ~ready => ~Valid(medium[ram.active])

KvDeep ==
    /\ KvInv
    /\ ImageOK(ram)
    /\ \A b \in Banks : BankOK(medium[b])
    /\ ready => Grounded(medium, ram)
    /\ BuildOK

(***************************************************************************)
(* What a replay finds.                                                    *)
(***************************************************************************)
LEMMA LastOfIs ==
    ASSUME NEW c, NEW e \in Nat, NEW k, NEW i \in 0..e, i = 0 \/ IsOf(c[i], k),
           \A j \in (i + 1)..e : ~IsOf(c[j], k)
    PROVE  LastOf(c, e, k) = i
<1> DEFINE l == LastOf(c, e, k)
<1>1. /\ l \in 0..e /\ (l = 0 \/ IsOf(c[l], k))
      /\ \A j \in (l + 1)..e : ~IsOf(c[j], k)
  BY LastOfProperty
<1> HIDE DEF l
<1>2. ~(l < i)
  BY <1>1
<1>3. ~(i < l)
  BY <1>1
<1> QED
  BY <1>1, <1>2, <1>3 DEF l

\* A key's offset holds a record that put it there.
LEMMA IndexOfProperty ==
    ASSUME NEW c, NEW e \in Nat, NEW k \in Keys
    PROVE  /\ IndexOf(c, e)[k] \in 0..e
           /\ IndexOf(c, e)[k] # 0 =>
                IsOf(c[IndexOf(c, e)[k]], k) /\ c[IndexOf(c, e)[k]].type # "delete"
<1> DEFINE i == LastOf(c, e, k)
<1>1. i \in 0..e /\ (i = 0 \/ IsOf(c[i], k))
  BY LastOfProperty
<1>2. IndexOf(c, e)[k] = IF i = 0 \/ c[i].type = "delete" THEN 0 ELSE i
  BY DEF IndexOf
<1> HIDE DEF i
<1> QED
  BY <1>1, <1>2

\* Equal records make equal replays.
LEMMA SameReplay ==
    ASSUME NEW c, NEW d, NEW e \in Nat, \A i \in 1..e : c[i] = d[i]
    PROVE  /\ IndexOf(c, e) = IndexOf(d, e)
           /\ MapOf(c, IndexOf(c, e)) = MapOf(d, IndexOf(d, e))
<1>1. ASSUME NEW k \in Keys PROVE LastOf(c, e, k) = LastOf(d, e, k)
  <2> DEFINE i == LastOf(d, e, k)
  <2>1. /\ i \in 0..e /\ (i = 0 \/ IsOf(d[i], k))
        /\ \A j \in (i + 1)..e : ~IsOf(d[j], k)
    BY LastOfProperty
  <2> HIDE DEF i
  <2>2. /\ i = 0 \/ IsOf(c[i], k)
        /\ \A j \in (i + 1)..e : ~IsOf(c[j], k)
    BY <2>1
  <2>3. LastOf(c, e, k) = i
    BY <2>1, <2>2, LastOfIs
  <2> QED
    BY <2>3 DEF i
<1>2. ASSUME NEW k \in Keys PROVE IndexOf(c, e)[k] = IndexOf(d, e)[k]
  <2> DEFINE i == LastOf(d, e, k)
  <2>1. i \in 0..e
    BY LastOfProperty
  <2>2. LastOf(c, e, k) = i
    BY <1>1
  <2>3. /\ IndexOf(c, e)[k] = IF i = 0 \/ c[i].type = "delete" THEN 0 ELSE i
        /\ IndexOf(d, e)[k] = IF i = 0 \/ d[i].type = "delete" THEN 0 ELSE i
    BY <2>2 DEF IndexOf
  <2> HIDE DEF i
  <2>4. i # 0 => c[i] = d[i]
    BY <2>1
  <2> QED
    BY <2>3, <2>4
<1>3. IndexOf(c, e) = IndexOf(d, e)
  BY <1>2 DEF IndexOf
<1>4. ASSUME NEW k \in Keys, IndexOf(c, e)[k] # 0
      PROVE  c[IndexOf(c, e)[k]] = d[IndexOf(c, e)[k]]
  BY <1>4, IndexOfProperty
<1>5. MapOf(c, IndexOf(c, e)) = MapOf(d, IndexOf(c, e))
  <2> DEFINE x == IndexOf(c, e)
  <2> HIDE DEF x
  <2> QED
    BY <1>4 DEF MapOf, x
<1> QED
  BY <1>3, <1>5

\* One record more changes the offset of its key only.
LEMMA ReplayNext ==
    ASSUME NEW c, NEW e \in Nat
    PROVE  /\ \A k \in Keys : IndexOf(c, e + 1)[k] =
                IF ~IsOf(c[e + 1], k) THEN IndexOf(c, e)[k]
                ELSE IF c[e + 1].type = "delete" THEN 0 ELSE e + 1
           /\ (\A k \in Keys : ~IsOf(c[e + 1], k)) => IndexOf(c, e + 1) = IndexOf(c, e)
<1>1. ASSUME NEW k \in Keys
      PROVE  IndexOf(c, e + 1)[k] =
                IF ~IsOf(c[e + 1], k) THEN IndexOf(c, e)[k]
                ELSE IF c[e + 1].type = "delete" THEN 0 ELSE e + 1
  <2>1. CASE IsOf(c[e + 1], k)
    <3>1. LastOf(c, e + 1, k) = e + 1
      <4>1. e + 1 \in 0..(e + 1) /\ \A j \in (e + 1 + 1)..(e + 1) : ~IsOf(c[j], k)
        OBVIOUS
      <4> QED
        BY <2>1, <4>1, LastOfIs
    <3> QED
      BY <2>1, <3>1 DEF IndexOf
  <2>2. CASE ~IsOf(c[e + 1], k)
    <3> DEFINE i == LastOf(c, e, k)
    <3>1. /\ i \in 0..e /\ (i = 0 \/ IsOf(c[i], k))
          /\ \A j \in (i + 1)..e : ~IsOf(c[j], k)
      BY LastOfProperty
    <3> HIDE DEF i
    <3>2. i \in 0..(e + 1) /\ \A j \in (i + 1)..(e + 1) : ~IsOf(c[j], k)
      <4> SUFFICES ASSUME NEW j \in (i + 1)..(e + 1) PROVE ~IsOf(c[j], k)
        BY <3>1
      <4> QED
        BY <2>2, <3>1
    <3>3. LastOf(c, e + 1, k) = i
      BY <3>1, <3>2, LastOfIs
    <3> QED
      BY <2>2, <3>3 DEF IndexOf, i
  <2> QED
    BY <2>1, <2>2
<1>2. ASSUME \A k \in Keys : ~IsOf(c[e + 1], k)
      PROVE  IndexOf(c, e + 1) = IndexOf(c, e)
  <2>1. \A k \in Keys : IndexOf(c, e + 1)[k] = IndexOf(c, e)[k]
    BY <1>1, <1>2
  <2> QED
    BY <2>1 DEF IndexOf
<1> QED
  BY <1>1, <1>2

LEMMA ReplayNothing ==
    ASSUME NEW c
    PROVE  IndexOf(c, 0) = [k \in Keys |-> 0] /\ Present(IndexOf(c, 0)) = {}
<1>1. \A k \in Keys : IndexOf(c, 0)[k] = 0
  BY IndexOfProperty
<1> QED
  BY <1>1 DEF IndexOf, Present

LEMMA PresentFinite ==
    ASSUME NEW c, NEW e
    PROVE  /\ Present(IndexOf(c, e)) \subseteq Keys /\ IsFiniteSet(Present(IndexOf(c, e)))
           /\ Cardinality(Present(IndexOf(c, e))) \in Nat
<1>1. Present(IndexOf(c, e)) \in SUBSET Keys
  BY DEF Present
<1> QED
  BY <1>1, KvAssumption, FS_Subset, FS_CardinalityType

LEMMA EmptyFits ==
    ASSUME NEW c
    PROVE  KeysFit(c, 0)
<1>1. Present(IndexOf(c, 0)) = {}
  BY ReplayNothing
<1>2. Cardinality(Present(IndexOf(c, 0))) <= MaxKeys
  BY <1>1, FS_EmptySet, KvAssumption
<1> QED
  BY <1>2 DEF KeysFit

LEMMA SameKeysFit ==
    ASSUME NEW c, NEW d, NEW e \in Nat, \A i \in 1..e : c[i] = d[i], KeysFit(d, e)
    PROVE  KeysFit(c, e)
<1>1. ASSUME NEW i \in 0..e PROVE IndexOf(c, i) = IndexOf(d, i)
  <2>1. i \in Nat /\ \A j \in 1..i : c[j] = d[j]
    OBVIOUS
  <2> QED
    BY <2>1, SameReplay
<1> QED
  BY <1>1 DEF KeysFit

LEMMA KeysFitNext ==
    ASSUME NEW c, NEW e \in Nat, KeysFit(c, e),
           Cardinality(Present(IndexOf(c, e + 1))) <= MaxKeys
    PROVE  KeysFit(c, e + 1)
<1> SUFFICES ASSUME NEW i \in 0..(e + 1)
             PROVE  Cardinality(Present(IndexOf(c, i))) <= MaxKeys
  BY DEF KeysFit
<1>1. i \in 0..e \/ i = e + 1
  OBVIOUS
<1> QED
  BY <1>1 DEF KeysFit

(***************************************************************************)
(* The image under the operations of a call.                               *)
(***************************************************************************)
LEMMA ImageKeys ==
    ASSUME NEW r, RamOK(r), ImageOK(r)
    PROVE  Cardinality(Live(r)) <= MaxKeys
<1>1. Used(r) \in Nat
  BY RamFields, ConstantsType DEF Used
<1> QED
  BY <1>1 DEF ImageOK, KeysFit, Live

\* Record i of a compacted image is the one of the key of rank i.
LEMMA CompactRecords ==
    ASSUME NEW r, RamOK(r)
    PROVE  /\ Used(Compact(r)) = Cardinality(Live(r)) /\ Used(Compact(r)) \in Nat
           /\ Compact(r).index = [k \in Keys |-> IF k \in Live(r) THEN Rank(r, k) ELSE 0]
           /\ \A k \in Live(r) :
                /\ Rank(r, k) \in 1..Used(Compact(r))
                /\ Compact(r).img[Rank(r, k)] = r.img[r.index[k]]
                /\ r.img[r.index[k]] \in Puts /\ r.img[r.index[k]].key = k
           /\ \A i \in 1..Used(Compact(r)) : \E k \in Live(r) : Rank(r, k) = i
           /\ \A j, k \in Live(r) : Rank(r, j) = Rank(r, k) => j = k
<1> DEFINE N == Cardinality(Live(r))
           Of(i) == CHOOSE k \in Live(r) : Rank(r, k) = i
           c == Compact(r)
<1>1. N \in Nat /\ Live(r) \subseteq Keys
  BY LiveFinite
<1>2. /\ \A k \in Live(r) : Rank(r, k) \in 1..N
      /\ \A j, k \in Live(r) : Rank(r, j) = Rank(r, k) => j = k
      /\ \A i \in 1..N : \E k \in Live(r) : Rank(r, k) = i
  BY RankBijective
<1>3. Len(c.img) = N
  BY CompactOK
<1>4. /\ c.img = [i \in 1..N |-> r.img[r.index[Of(i)]]]
      /\ c.index = [k \in Keys |-> IF k \in Live(r) THEN Rank(r, k) ELSE 0]
  BY DEF Compact, NeedingPublish, RamOK, Ram
<1>5. ASSUME NEW k \in Live(r)
      PROVE  /\ c.img[Rank(r, k)] = r.img[r.index[k]]
             /\ r.img[r.index[k]] \in Puts /\ r.img[r.index[k]].key = k
  <2>1. Of(Rank(r, k)) \in Live(r) /\ Rank(r, Of(Rank(r, k))) = Rank(r, k)
    OBVIOUS
  <2> HIDE DEF Of, N, c
  <2>2. Of(Rank(r, k)) = k
    BY <1>2, <2>1
  <2>3. r.img[r.index[k]] \in Puts /\ r.img[r.index[k]].key = k
    BY <1>1 DEF RamOK, IndexSound, Live, Present
  <2> QED
    BY <1>2, <1>4, <2>2, <2>3
<1> HIDE DEF c
<1> QED
  BY <1>1, <1>2, <1>3, <1>4, <1>5 DEF c, Used

\* compact_locked leaves what a replay of its image builds, and the map.
LEMMA CompactImage ==
    ASSUME NEW r, RamOK(r)
    PROVE  /\ Compact(r).index = IndexOf(Compact(r).img, Used(Compact(r)))
           /\ LiveMap(Compact(r)) = LiveMap(r)
           /\ Live(Compact(r)) = Live(r)
           /\ Cardinality(Live(r)) <= MaxKeys => ImageOK(Compact(r))
<1> DEFINE c == Compact(r)
           n == Used(c)
<1>1. /\ n \in Nat /\ Live(r) \subseteq Keys
      /\ c.index = [k \in Keys |-> IF k \in Live(r) THEN Rank(r, k) ELSE 0]
      /\ \A k \in Live(r) : /\ Rank(r, k) \in 1..n
                            /\ c.img[Rank(r, k)] = r.img[r.index[k]]
                            /\ c.img[Rank(r, k)] \in Puts
                            /\ c.img[Rank(r, k)].key = k
      /\ \A i \in 1..n : \E k \in Live(r) : Rank(r, k) = i
      /\ \A j, k \in Live(r) : Rank(r, j) = Rank(r, k) => j = k
  BY CompactRecords, LiveFinite
<1> HIDE DEF n, c
<1>2. \A i \in 1..n, k \in Keys :
         IsOf(c.img[i], k) => k \in Live(r) /\ Rank(r, k) = i
  <2> SUFFICES ASSUME NEW i \in 1..n, NEW k \in Keys, IsOf(c.img[i], k)
               PROVE  k \in Live(r) /\ Rank(r, k) = i
    OBVIOUS
  <2>1. PICK j \in Live(r) : Rank(r, j) = i
    BY <1>1
  <2>2. c.img[i].key = j
    BY <1>1, <2>1
  <2> QED
    BY <2>1, <2>2 DEF IsOf
<1>3. ASSUME NEW k \in Keys PROVE IndexOf(c.img, n)[k] = c.index[k]
  <2>1. CASE k \in Live(r)
    <3> DEFINE i == Rank(r, k)
    <3>1. i \in 1..n /\ IsOf(c.img[i], k) /\ c.img[i].type = "put"
      BY <1>1, <2>1 DEF Puts, IsOf, IsData
    <3>2. \A j \in (i + 1)..n : ~IsOf(c.img[j], k)
      <4> SUFFICES ASSUME NEW j \in (i + 1)..n, IsOf(c.img[j], k) PROVE FALSE
        OBVIOUS
      <4> HIDE DEF i
      <4>1. j \in 1..n /\ j # i
        BY <3>1
      <4> QED
        BY <1>2, <4>1 DEF i
    <3> HIDE DEF i
    <3>3. LastOf(c.img, n, k) = i
      BY <1>1, <3>1, <3>2, LastOfIs
    <3>4. IndexOf(c.img, n)[k] = i
      BY <3>1, <3>3 DEF IndexOf
    <3> QED
      BY <1>1, <2>1, <3>4 DEF i
  <2>2. CASE k \notin Live(r)
    <3>1. \A j \in 1..n : ~IsOf(c.img[j], k)
      BY <1>2, <2>2
    <3>2. LastOf(c.img, n, k) = 0
      BY <1>1, <3>1, LastOfIs
    <3> QED
      BY <1>1, <2>2, <3>2 DEF IndexOf
  <2> QED
    BY <2>1, <2>2
<1>4. c.index = IndexOf(c.img, n)
  BY <1>1, <1>3 DEF IndexOf
<1>5. Live(c) = Live(r)
  <2>1. \A k \in Keys : c.index[k] # 0 <=> k \in Live(r)
    BY <1>1
  <2> QED
    BY <1>1, <2>1 DEF Live, Present
<1>6. LiveMap(c) = LiveMap(r)
  <2>1. ASSUME NEW k \in Keys
        PROVE  (IF c.index[k] = 0 THEN NoVal ELSE c.img[c.index[k]].val)
                  = IF r.index[k] = 0 THEN NoVal ELSE r.img[r.index[k]].val
    <3>1. r.index[k] = 0 <=> k \notin Live(r)
      BY DEF Live, Present
    <3> QED
      BY <1>1, <3>1
  <2> QED
    BY <2>1 DEF LiveMap, MapOf
<1>7. ASSUME Cardinality(Live(r)) <= MaxKeys PROVE KeysFit(c.img, n)
  <2> SUFFICES ASSUME NEW i \in 0..n
               PROVE  Cardinality(Present(IndexOf(c.img, i))) <= MaxKeys
    BY DEF KeysFit
  <2>1. Present(IndexOf(c.img, i)) \subseteq Live(r)
    <3> SUFFICES ASSUME NEW k \in Keys, IndexOf(c.img, i)[k] # 0
                 PROVE  k \in Live(r)
      BY DEF Present
    <3>1. /\ IndexOf(c.img, i)[k] \in 1..n
          /\ IsOf(c.img[IndexOf(c.img, i)[k]], k)
      BY <1>1, IndexOfProperty
    <3> QED
      BY <1>2, <3>1
  <2>2. Cardinality(Present(IndexOf(c.img, i))) <= Cardinality(Live(r))
    BY <2>1, LiveFinite, FS_Subset
  <2> QED
    BY <1>7, <2>2, LiveFinite, PresentFinite, KvAssumption
<1> QED
  BY <1>4, <1>5, <1>6, <1>7 DEF ImageOK, c, n

\* The image is the old one, or a compacted one that has to be published.
Renewed(r, s) ==
    /\ s.active = r.active /\ s.gen = r.gen
    /\ s = r \/ (s.needsPublish /\ s.dirty)

LEMMA EnsureSpaceImage ==
    ASSUME NEW r, RamOK(r), ImageOK(r), NEW k \in Keys, HasRoom(r, k)
    PROVE  LET s == EnsureSpace(r, k) IN
           /\ ImageOK(s) /\ Renewed(r, s)
           /\ Live(s) \subseteq Live(r) /\ Live(r) \subseteq Live(s) \cup {k}
           /\ \A j \in Keys \ {k} : LiveMap(s)[j] = LiveMap(r)[j]
           /\ Fits(r) => s = r
           /\ ~Fits(r) => s.needsPublish /\ s.dirty
<1>1. CASE Fits(r)
  BY <1>1 DEF EnsureSpace, Renewed
<1>2. CASE ~Fits(r)
  <2> DEFINE t == [r EXCEPT !.index[k] = 0]
  <2>1. r.index \in [Keys -> 0..BankCells] /\ r \in Ram
    BY RamFields DEF RamOK
  <2>2. [r.index EXCEPT ![k] = 0] \in [Keys -> 0..BankCells]
    BY <2>1, ConstantsType
  <2>3. /\ t \in Ram /\ t.img = r.img /\ t.active = r.active /\ t.gen = r.gen
        /\ t.index = [r.index EXCEPT ![k] = 0]
        /\ t.needsPublish = r.needsPublish /\ t.flashEnd = r.flashEnd
    <3>1. t = [r EXCEPT !.index = [r.index EXCEPT ![k] = 0]]
      BY <2>1 DEF Ram
    <3> HIDE DEF t
    <3> QED
      BY <2>1, <2>2, <3>1 DEF Ram
  <2>4. EnsureSpace(r, k) = Compact(t)
    BY <1>2 DEF EnsureSpace
  <2> HIDE DEF t
  <2>5. Live(t) = Live(r) \ {k}
    BY <2>1, <2>3 DEF Live, Present
  <2>6. RamOK(t)
    BY <2>1, <2>3 DEF RamOK, IndexSound, StagedSound
  <2>7. Cardinality(Live(t)) <= MaxKeys
    <3>1. Cardinality(Live(t)) <= Cardinality(Live(r))
      BY <2>5, LiveFinite, FS_Subset
    <3> QED
      BY <3>1, ImageKeys, LiveFinite, KvAssumption
  <2>8. /\ ImageOK(Compact(t)) /\ LiveMap(Compact(t)) = LiveMap(t)
        /\ Live(Compact(t)) = Live(t)
    BY <2>6, <2>7, CompactImage
  <2>9. ASSUME NEW j \in Keys \ {k} PROVE LiveMap(t)[j] = LiveMap(r)[j]
    BY <2>1, <2>3 DEF LiveMap, MapOf
  <2>10. Compact(t).needsPublish /\ Compact(t).dirty
         /\ Compact(t).active = t.active /\ Compact(t).gen = t.gen
    BY <2>3 DEF Compact, NeedingPublish, Ram
  <2> QED
    BY <1>2, <2>3, <2>4, <2>5, <2>8, <2>9, <2>10 DEF Renewed
<1> QED
  BY <1>1, <1>2

\* The image with one record more.
Extended(r, rec, s) ==
    /\ s.img = Append(r.img, rec) /\ s.dirty /\ Used(s) = Used(r) + 1
    /\ s.active = r.active /\ s.gen = r.gen
    /\ s.needsPublish = r.needsPublish /\ s.flashEnd = r.flashEnd
    /\ \A i \in 1..Used(r) : s.img[i] = r.img[i]
    /\ LiveMap(s) = [LiveMap(r) EXCEPT ![rec.key] =
                       IF rec \in Puts THEN rec.val ELSE NoVal]

LEMMA AppendRecordImage ==
    ASSUME NEW r, RamOK(r), ImageOK(r), NEW rec \in Data, Len(r.img) < BankCells,
           rec \in Puts => Cardinality(Live(r) \cup {rec.key}) <= MaxKeys
    PROVE  ImageOK(AppendRecord(r, rec)) /\ Extended(r, rec, AppendRecord(r, rec))
<1> DEFINE s == AppendRecord(r, rec)
           n == Used(r)
           key == rec.key
<1>1. /\ key \in Keys /\ (rec.type = "delete" <=> rec \notin Puts) /\ rec \in Rec
      /\ IsOf(rec, key) /\ \A k \in Keys : IsOf(rec, k) => k = key
  BY DEF Data, Puts, Dels, Rec, IsOf, IsData
<1>2. r.img \in Seq(Rec) /\ n \in Nat /\ n = Len(r.img) /\ r \in Ram
  BY RamFields DEF Used, RamOK
<1>3. /\ Len(Append(r.img, rec)) = n + 1 /\ Append(r.img, rec)[n + 1] = rec
      /\ \A i \in 1..n : Append(r.img, rec)[i] = r.img[i]
  BY <1>1, <1>2, AppendProperties
<1>4. /\ s.img = Append(r.img, rec) /\ s.active = r.active /\ s.gen = r.gen
      /\ s.index = [r.index EXCEPT ![key] = IF rec.type = "delete" THEN 0 ELSE n + 1]
      /\ s.needsPublish = r.needsPublish /\ s.flashEnd = r.flashEnd /\ s.dirty
  BY <1>2 DEF AppendRecord, Ram
<1>5. r.index \in [Keys -> 0..BankCells] /\ r.index = IndexOf(r.img, n)
  BY RamFields DEF ImageOK
<1> HIDE DEF s, n, key
<1>6. Used(s) = n + 1
  BY <1>3, <1>4 DEF Used
<1>7. IndexOf(s.img, n) = r.index
  <2>1. \A i \in 1..n : s.img[i] = r.img[i]
    BY <1>3, <1>4
  <2>2. IndexOf(s.img, n) = IndexOf(r.img, n)
    BY <1>2, <2>1, SameReplay
  <2> QED
    BY <1>5, <2>2
<1>8. s.index = IndexOf(s.img, n + 1)
  <2>1. ASSUME NEW k \in Keys PROVE s.index[k] = IndexOf(s.img, n + 1)[k]
    <3>1. IndexOf(s.img, n + 1)[k] =
             IF ~IsOf(s.img[n + 1], k) THEN IndexOf(s.img, n)[k]
             ELSE IF s.img[n + 1].type = "delete" THEN 0 ELSE n + 1
      BY <1>2, ReplayNext
    <3>2. s.img[n + 1] = rec /\ IndexOf(s.img, n)[k] = r.index[k]
      BY <1>3, <1>4, <1>7
    <3>3. IsOf(rec, k) <=> k = key
      BY <1>1
    <3> QED
      BY <1>1, <1>4, <1>5, <3>1, <3>2, <3>3
  <2>2. s.index = [k \in Keys |-> s.index[k]]
    BY <1>4, <1>5
  <2>3. IndexOf(s.img, n + 1) = [k \in Keys |-> IndexOf(s.img, n + 1)[k]]
    BY DEF IndexOf
  <2> QED
    BY <2>1, <2>2, <2>3
<1>9. KeysFit(s.img, n + 1)
  <2>1. KeysFit(s.img, n)
    BY <1>2, <1>3, <1>4, SameKeysFit DEF ImageOK, n
  <2>2. Cardinality(Present(s.index)) <= MaxKeys
    <3>1. Cardinality(Live(r)) <= MaxKeys /\ IsFiniteSet(Live(r))
      BY ImageKeys, LiveFinite
    <3>2. CASE rec \in Puts
      <4>1. Present(s.index) \subseteq Live(r) \cup {key}
        BY <1>1, <1>4, <1>5 DEF Present, Live
      <4>2. /\ IsFiniteSet(Live(r) \cup {key})
            /\ Cardinality(Live(r) \cup {key}) \in Nat
            /\ Cardinality(Live(r) \cup {key}) <= MaxKeys
        BY <3>1, <3>2, FS_AddElement, FS_CardinalityType DEF key
      <4> QED
        BY <4>1, <4>2, FS_Subset, FS_CardinalityType, KvAssumption
    <3>3. CASE rec \notin Puts
      <4>1. Present(s.index) \subseteq Live(r)
        BY <1>1, <1>4, <1>5, <3>3 DEF Present, Live
      <4> QED
        BY <3>1, <4>1, FS_Subset, FS_CardinalityType, KvAssumption
    <3> QED
      BY <3>2, <3>3
  <2> QED
    BY <1>2, <1>8, <2>1, <2>2, KeysFitNext
<1>10. LiveMap(s) = [LiveMap(r) EXCEPT ![key] = IF rec \in Puts THEN rec.val ELSE NoVal]
  <2>1. ASSUME NEW k \in Keys, k # key
        PROVE  LiveMap(s)[k] = LiveMap(r)[k]
    <3>1. s.index[k] = r.index[k]
      BY <1>4, <1>5, <2>1
    <3>2. r.index[k] # 0 => r.index[k] \in 1..n
      BY <1>2 DEF RamOK, IndexSound
    <3> QED
      BY <1>3, <1>4, <3>1, <3>2 DEF LiveMap, MapOf
  <2>2. LiveMap(s)[key] = IF rec \in Puts THEN rec.val ELSE NoVal
    <3>1. s.index[key] = IF rec \in Puts THEN n + 1 ELSE 0
      BY <1>1, <1>4, <1>5
    <3>2. s.img[n + 1] = rec /\ n + 1 # 0
      BY <1>2, <1>3, <1>4
    <3> QED
      BY <1>1, <3>1, <3>2 DEF LiveMap, MapOf
  <2> QED
    BY <1>1, <2>1, <2>2 DEF LiveMap, MapOf
<1>11. ImageOK(s)
  BY <1>6, <1>8, <1>9 DEF ImageOK
<1>12. \A i \in 1..n : s.img[i] = r.img[i]
  BY <1>3, <1>4
<1>13. Extended(r, rec, s)
  BY <1>4, <1>6, <1>10, <1>12 DEF Extended, n, key
<1> QED
  BY <1>11, <1>13 DEF s

(***************************************************************************)
(* The log of a bank.                                                      *)
(***************************************************************************)
LEMMA CommittedEndIs ==
    ASSUME NEW bank, NEW body \in 0..BankCells, Len(bank[0].body) = body,
           NEW e \in body..BankCells, LogEndsAt(bank, body, e),
           \A f \in (e + 1)..BankCells : ~LogEndsAt(bank, body, f)
    PROVE  CommittedEnd(bank) = e
<1> DEFINE g == CommittedEnd(bank)
<1>1. /\ g \in body..BankCells /\ LogEndsAt(bank, body, g)
      /\ \A f \in (g + 1)..BankCells : ~LogEndsAt(bank, body, f)
  BY CommittedEndProperty
<1> HIDE DEF g
<1>2. BankCells \in Nat
  BY ConstantsType
<1>3. ~(g < e) /\ ~(e < g)
  BY <1>1, <1>2
<1> QED
  BY <1>1, <1>2, <1>3 DEF g

\* The log goes no further than e when the next cell is neither a record nor
\* a commit record, or when no commit record follows.
LEMMA LogStops ==
    ASSUME NEW bank, NEW body \in 0..BankCells, Len(bank[0].body) = body,
           NEW e \in body..BankCells, LogEndsAt(bank, body, e),
           \/ e < BankCells /\ ~IsData(bank[e + 1]) /\ ~IsCommit(bank[e + 1])
           \/ \A f \in (e + 1)..BankCells : ~IsCommit(bank[f])
    PROVE  CommittedEnd(bank) = e
<1>1. BankCells \in Nat
  BY ConstantsType
<1>2. ASSUME NEW f \in (e + 1)..BankCells, LogEndsAt(bank, body, f)
      PROVE  FALSE
  <2>1. f # body /\ IsCommit(bank[f]) /\ LogAccepted(bank, body, f)
    BY <1>1, <1>2 DEF LogEndsAt
  <2>2. CASE e < BankCells /\ ~IsData(bank[e + 1]) /\ ~IsCommit(bank[e + 1])
    <3>1. e + 1 \in (body + 1)..f
      BY <1>1
    <3>2. IsData(bank[e + 1]) \/ ClosesBatch(bank, body, e + 1)
      BY <2>1, <3>1 DEF LogAccepted
    <3> QED
      BY <2>2, <3>2 DEF ClosesBatch, Commit, IsCommit
  <2>3. CASE \A i \in (e + 1)..BankCells : ~IsCommit(bank[i])
    BY <2>1, <2>3
  <2> QED
    BY <2>2, <2>3
<1> QED
  BY <1>2, CommittedEndIs

LEMMA BatchStartIs ==
    ASSUME NEW bank, NEW body \in Nat, NEW q \in Nat, NEW p \in body..(q - 1),
           p = body \/ IsCommit(bank[p]),
           \A r \in (p + 1)..(q - 1) : ~IsCommit(bank[r])
    PROVE  BatchStart(bank, body, q) = 1 + p
<1> DEFINE Starts(x) == /\ x = body \/ IsCommit(bank[x])
                        /\ \A r \in (x + 1)..(q - 1) : ~IsCommit(bank[r])
           s == CHOOSE x \in body..(q - 1) : Starts(x)
<1>1. s \in body..(q - 1) /\ Starts(s)
  <2>1. \E x \in body..(q - 1) : Starts(x)
    OBVIOUS
  <2> HIDE DEF Starts
  <2> QED
    BY <2>1
<1>2. BatchStart(bank, body, q) = 1 + s
  BY DEF BatchStart
<1> HIDE DEF s
<1>3. ~(s < p) /\ ~(p < s)
  BY <1>1
<1>4. s = p
  BY <1>1, <1>3
<1> QED
  BY <1>2, <1>4

LEMMA BatchStartExists ==
    ASSUME NEW bank, NEW body \in Nat, NEW q \in Nat, body < q
    PROVE  \E p \in body..(q - 1) :
              /\ p = body \/ IsCommit(bank[p])
              /\ \A r \in (p + 1)..(q - 1) : ~IsCommit(bank[r])
              /\ BatchStart(bank, body, q) = 1 + p
<1> DEFINE S == {p \in body..(q - 1) : p = body \/ IsCommit(bank[p])}
<1>1. q - 1 \in Nat /\ S \subseteq body..(q - 1) /\ body \in S
  OBVIOUS
<1>2. PICK g \in S : \A x \in S : x <= g
  <2> HIDE DEF S
  <2> QED
    BY <1>1, GreatestExists
<1>3. /\ g \in body..(q - 1) /\ (g = body \/ IsCommit(bank[g]))
      /\ \A r \in (g + 1)..(q - 1) : ~IsCommit(bank[r])
  BY <1>2
<1> QED
  BY <1>3, BatchStartIs

\* Whether a commit record closes its batch depends on the log up to it.
LEMMA SameBatches ==
    ASSUME NEW bank, NEW other, NEW body \in Nat, NEW e \in Nat,
           \A i \in (body + 1)..e : bank[i] = other[i],
           LogAccepted(bank, body, e)
    PROVE  LogAccepted(other, body, e)
<1> SUFFICES ASSUME NEW q \in (body + 1)..e
             PROVE  IsData(other[q]) \/ ClosesBatch(other, body, q)
  BY DEF LogAccepted
<1>1. IsData(bank[q]) \/ ClosesBatch(bank, body, q)
  BY DEF LogAccepted
<1>2. bank[q] = other[q] /\ q \in Nat /\ body < q
  OBVIOUS
<1>3. CASE ClosesBatch(bank, body, q)
  <2>1. PICK p \in body..(q - 1) :
              /\ p = body \/ IsCommit(bank[p])
              /\ \A r \in (p + 1)..(q - 1) : ~IsCommit(bank[r])
              /\ BatchStart(bank, body, q) = 1 + p
    BY <1>2, BatchStartExists
  <2>2. p # body => bank[p] = other[p]
    BY <2>1
  <2>3. \A r \in (p + 1)..(q - 1) : bank[r] = other[r]
    BY <2>1
  <2>4. BatchStart(other, body, q) = 1 + p
    <3>1. p = body \/ IsCommit(other[p])
      BY <2>1, <2>2
    <3>2. \A r \in (p + 1)..(q - 1) : ~IsCommit(other[r])
      BY <2>1, <2>3
    <3> QED
      BY <1>2, <3>1, <3>2, BatchStartIs
  <2>5. Slice(bank, 1 + p, q - 1) = Slice(other, 1 + p, q - 1)
    <3>1. \A i \in 1..(q - 1 - (1 + p) + 1) :
             bank[1 + p + i - 1] = other[1 + p + i - 1]
      BY <1>2, <2>3
    <3> QED
      BY <3>1 DEF Slice
  <2>6. 1 + p < q /\ bank[q] = Commit(1 + p, Slice(bank, 1 + p, q - 1))
    BY <1>3, <2>1 DEF ClosesBatch
  <2>7. ClosesBatch(other, body, q)
    BY <1>2, <2>4, <2>5, <2>6 DEF ClosesBatch
  <2> QED
    BY <2>7
<1> QED
  BY <1>1, <1>2, <1>3

LEMMA SameEnd ==
    ASSUME NEW bank, NEW other, NEW body \in Nat, NEW e \in Nat,
           \A i \in (body + 1)..e : bank[i] = other[i], body <= e,
           LogEndsAt(bank, body, e)
    PROVE  LogEndsAt(other, body, e)
<1>1. CASE e = body
  BY <1>1 DEF LogEndsAt
<1>2. CASE e # body
  <2>1. IsCommit(bank[e]) /\ LogAccepted(bank, body, e) /\ bank[e] = other[e]
    BY <1>2 DEF LogEndsAt
  <2> QED
    BY <2>1, SameBatches DEF LogEndsAt
<1> QED
  BY <1>1, <1>2

\* A batch behind the log, and the record that closes it.
LEMMA AppendCloses ==
    ASSUME NEW bank, NEW body \in 0..BankCells, Len(bank[0].body) = body,
           NEW e \in body..BankCells, LogEndsAt(bank, body, e),
           NEW n \in Nat, e < n, n < BankCells,
           \A i \in (e + 1)..n : IsData(bank[i]),
           bank[n + 1] = Commit(e + 1, Slice(bank, e + 1, n)),
           \A f \in (n + 2)..BankCells : ~IsCommit(bank[f])
    PROVE  CommittedEnd(bank) = n + 1
<1>1. BankCells \in Nat /\ body \in Nat /\ e \in Nat /\ body <= e
  BY ConstantsType
<1>2. IsCommit(bank[n + 1])
  BY DEF IsCommit, Commit
<1>3. \A i \in (e + 1)..n : ~IsCommit(bank[i])
  BY DEF IsCommit, IsData
<1>4. BatchStart(bank, body, n + 1) = 1 + e
  <2>1. e \in body..(n + 1 - 1) /\ n + 1 \in Nat
    BY <1>1
  <2>2. \A r \in (e + 1)..(n + 1 - 1) : ~IsCommit(bank[r])
    BY <1>3
  <2>3. e = body \/ IsCommit(bank[e])
    BY DEF LogEndsAt
  <2> QED
    BY <1>1, <2>1, <2>2, <2>3, BatchStartIs
<1>5. ClosesBatch(bank, body, n + 1)
  <2>1. 1 + e = e + 1 /\ n + 1 - 1 = n /\ e + 1 < n + 1
    BY <1>1
  <2> QED
    BY <1>4, <2>1 DEF ClosesBatch
<1>6. LogAccepted(bank, body, n + 1)
  <2> SUFFICES ASSUME NEW q \in (body + 1)..(n + 1)
               PROVE  IsData(bank[q]) \/ ClosesBatch(bank, body, q)
    BY DEF LogAccepted
  <2>1. q \in (body + 1)..e \/ q \in (e + 1)..n \/ q = n + 1
    BY <1>1
  <2>2. CASE q \in (body + 1)..e
    <3>1. LogAccepted(bank, body, e)
      BY <1>1, <2>2 DEF LogEndsAt
    <3> QED
      BY <2>2, <3>1 DEF LogAccepted
  <2> QED
    BY <1>5, <2>1, <2>2
<1>7. LogEndsAt(bank, body, n + 1)
  BY <1>2, <1>6 DEF LogEndsAt
<1>8. n + 1 \in body..BankCells /\ \A f \in (n + 1 + 1)..BankCells : ~IsCommit(bank[f])
  BY <1>1
<1> QED
  BY <1>7, <1>8, LogStops

(***************************************************************************)
(* Banks, and which of the two a restart picks.                            *)
(***************************************************************************)
LEMMA ValidEnd ==
    ASSUME NEW bank \in Bank, Valid(bank)
    PROVE  /\ Len(bank[0].body) \in 0..BankCells
           /\ CommittedEnd(bank) \in Len(bank[0].body)..BankCells
           /\ CommittedEnd(bank) \in 0..BankCells /\ CommittedEnd(bank) \in Nat
           /\ LogEndsAt(bank, Len(bank[0].body), CommittedEnd(bank))
           /\ BankMap(bank) = MapOf(bank, IndexOf(bank, CommittedEnd(bank)))
<1>1. /\ Len(bank[0].body) \in 0..BankCells
      /\ CommittedEnd(bank) \in Len(bank[0].body)..BankCells
      /\ LogEndsAt(bank, Len(bank[0].body), CommittedEnd(bank))
  BY BodyType, CommittedEndProperty
<1>2. CommittedEnd(bank) \in 0..BankCells /\ CommittedEnd(bank) \in Nat
  BY <1>1, ConstantsType
<1>3. BankMap(bank) = MapOf(bank, IndexOf(bank, CommittedEnd(bank)))
  <2> DEFINE e == CommittedEnd(bank)
  <2>1. e \in 0..BankCells
    BY <1>2
  <2>2. BankMap(bank) = [x \in 0..BankCells |-> MapOf(bank, IndexOf(bank, x))][e]
    BY DEF BankMap
  <2> HIDE DEF e
  <2> QED
    BY <2>1, <2>2 DEF e
<1> QED
  BY <1>1, <1>2, <1>3

\* A bank that keeps another's header and log, and stops where that stops.
LEMMA KeptBank ==
    ASSUME NEW old \in Bank, Valid(old), NEW bank \in Bank,
           \A i \in 0..CommittedEnd(old) : bank[i] = old[i],
           \/ /\ CommittedEnd(old) < BankCells
              /\ ~IsData(bank[CommittedEnd(old) + 1])
              /\ ~IsCommit(bank[CommittedEnd(old) + 1])
           \/ \A f \in (CommittedEnd(old) + 1)..BankCells : ~IsCommit(bank[f])
    PROVE  /\ Valid(bank) /\ bank[0] = old[0]
           /\ CommittedEnd(bank) = CommittedEnd(old)
           /\ BankMap(bank) = BankMap(old)
           /\ BankOK(old) => BankOK(bank)
<1> DEFINE e == CommittedEnd(old)
           body == Len(old[0].body)
<1>1. /\ body \in 0..BankCells /\ body \in Nat /\ e \in body..BankCells
      /\ e \in 0..BankCells /\ e \in Nat /\ LogEndsAt(old, body, e) /\ body <= e
      /\ BankMap(old) = MapOf(old, IndexOf(old, e))
  BY ValidEnd, ConstantsType
<1> HIDE DEF e
<1>2. bank[0] = old[0]
  BY <1>1 DEF e
<1>3. Valid(bank)
  <2>1. \A i \in 1..body : bank[i] = old[i]
    BY <1>1 DEF e
  <2> QED
    BY <1>2, <2>1 DEF Valid
<1>4. LogEndsAt(bank, body, e)
  <2>1. \A i \in (body + 1)..e : old[i] = bank[i]
    BY <1>1 DEF e
  <2> QED
    BY <1>1, <2>1, SameEnd
<1>5. Len(bank[0].body) = body
  BY <1>2
<1>6. CommittedEnd(bank) = e
  BY <1>1, <1>4, <1>5, LogStops DEF e
<1>7. \A i \in 1..e : bank[i] = old[i]
  BY <1>1 DEF e
<1>8. BankMap(bank) = BankMap(old)
  <2>1. BankMap(bank) = MapOf(bank, IndexOf(bank, e))
    BY <1>3, <1>6, ValidEnd
  <2>2. MapOf(bank, IndexOf(bank, e)) = MapOf(old, IndexOf(old, e))
    BY <1>1, <1>7, SameReplay
  <2> QED
    BY <1>1, <2>1, <2>2
<1>9. KeysFit(old, e) => KeysFit(bank, e)
  BY <1>1, <1>7, SameKeysFit
<1> QED
  BY <1>2, <1>3, <1>6, <1>8, <1>9 DEF BankOK, e

LEMMA DurableIs ==
    ASSUME NEW m, AnyValid(m)
    PROVE  DurableMapOf(m) = BankMap(m[Newest(m)])
<1>1. Newest(m) \in Banks
  BY NewestValid
<1> DEFINE b == Newest(m)
<1>2. DurableMapOf(m) = [x \in Banks |-> BankMap(m[x])][b]
  BY DEF DurableMapOf
<1> HIDE DEF b
<1> QED
  BY <1>1, <1>2 DEF b

LEMMA OnlyValid ==
    ASSUME NEW m, NEW a \in Banks, Valid(m[a]), ~Valid(m[1 - a])
    PROVE  Newest(m) = a
<1>1. a = 0 \/ a = 1
  BY DEF Banks
<1>2. CASE a = 0
  BY <1>2 DEF Newest
<1>3. CASE a = 1
  BY <1>3 DEF Newest
<1> QED
  BY <1>1, <1>2, <1>3

\* The pick depends on the headers of the valid banks, and a bank that is
\* picked stays so while the other keeps its header or stops being valid.
LEMMA SamePick ==
    ASSUME NEW m, NEW n,
           \A b \in Banks : Valid(n[b]) <=> Valid(m[b]),
           \A b \in Banks : Valid(m[b]) => n[b][0] = m[b][0]
    PROVE  Newest(n) = Newest(m)
<1>1. /\ Valid(n[0]) <=> Valid(m[0])
      /\ Valid(n[1]) <=> Valid(m[1])
      /\ Valid(m[0]) => n[0][0] = m[0][0]
      /\ Valid(m[1]) => n[1][0] = m[1][0]
  BY DEF Banks
<1> QED
  BY <1>1 DEF Newest

LEMMA PickStays ==
    ASSUME NEW m, NEW n, NEW a \in Banks, Newest(m) = a, Valid(m[a]),
           Valid(n[a]), n[a][0] = m[a][0],
           Valid(n[1 - a]) => Valid(m[1 - a]) /\ n[1 - a][0] = m[1 - a][0]
    PROVE  Newest(n) = a
<1>1. CASE ~Valid(n[1 - a])
  BY <1>1, OnlyValid
<1>2. CASE Valid(n[1 - a])
  <2>1. \A b \in Banks : b = a \/ b = 1 - a
    BY DEF Banks
  <2> QED
    BY <1>2, <2>1, SamePick
<1> QED
  BY <1>1, <1>2

LEMMA NextIsNewer ==
    ASSUME NEW g \in Gens
    PROVE  /\ NextGen(g) \in Gens
           /\ GenerationNewer(NextGen(g), g) /\ ~GenerationNewer(g, NextGen(g))
<1>1. GenHalf \in Nat /\ GenHalf >= 2 /\ g \in 0..(2 * GenHalf - 1)
  BY KvAssumption DEF Gens
<1>2. CASE g = 2 * GenHalf - 1
  <2>1. NextGen(g) = 0
    BY <1>2 DEF NextGen
  <2> QED
    BY <1>1, <1>2, <2>1 DEF GenerationNewer, Gens
<1>3. CASE g # 2 * GenHalf - 1
  <2>1. NextGen(g) = g + 1
    BY <1>3 DEF NextGen
  <2> QED
    BY <1>1, <1>3, <2>1 DEF GenerationNewer, Gens
<1> QED
  BY <1>2, <1>3

\* A whole publish is picked.
LEMMA PublishedIsPicked ==
    ASSUME NEW m, NEW a \in Banks, Valid(m[a]), m[a][0].gen \in Gens,
           Valid(m[1 - a]), m[1 - a][0].gen = NextGen(m[a][0].gen)
    PROVE  Newest(m) = 1 - a
<1>1. GenerationNewer(m[1 - a][0].gen, m[a][0].gen)
      /\ ~GenerationNewer(m[a][0].gen, m[1 - a][0].gen)
  BY NextIsNewer
<1>2. a = 0 \/ a = 1
  BY DEF Banks
<1>3. CASE a = 0
  BY <1>1, <1>3 DEF Newest
<1>4. CASE a = 1
  BY <1>1, <1>4 DEF Newest
<1> QED
  BY <1>2, <1>3, <1>4

\* An erase that stops half way leaves a valid bank only when it has done
\* nothing, or found an empty body below a header it has not reached.
LEMMA TornErase ==
    ASSUME NEW old \in Bank, NEW bank \in TornBanks(old, BlankBank),
           pc # "append", Valid(bank)
    PROVE  /\ Valid(old) /\ bank[0] = old[0]
           /\ bank # old => /\ Len(old[0].body) = 0
                            /\ CommittedEnd(bank) = 0
<1> DEFINE changed == {i \in Cells : old[i] # BlankBank[i]}
           rest == changed \ {0}
<1>1. /\ \A i \in Cells : BlankBank[i] = Erased
      /\ 0 \in Cells
  BY ConstantsType DEF BlankBank
<1>2. \/ bank = old \/ bank = BlankBank
      \/ bank = [i \in Cells |-> IF i \in changed THEN Torn ELSE old[i]]
      \/ bank = [i \in Cells |-> IF i \in rest THEN Torn ELSE old[i]]
  BY DEF TornBanks
<1>3. bank # BlankBank
  BY <1>1 DEF Valid, Erased
<1>4. bank # [i \in Cells |-> IF i \in changed THEN Torn ELSE old[i]]
  <2>1. CASE old[0] = Erased
    BY <1>1, <2>1 DEF Valid, Erased
  <2>2. CASE old[0] # Erased
    BY <1>1, <2>2 DEF Valid, Torn
  <2> QED
    BY <2>1, <2>2
<1>5. CASE bank = old
  BY <1>5
<1>6. CASE bank = [i \in Cells |-> IF i \in rest THEN Torn ELSE old[i]]
  <2>1. bank[0] = old[0] /\ bank \in Bank
    <3>1. Torn \in Cell
      BY DEF Cell
    <3> QED
      BY <1>1, <1>6, <3>1 DEF Bank
  <2>2. /\ Len(bank[0].body) \in 0..BankCells
        /\ \A i \in 1..Len(bank[0].body) : bank[i] \in Data
    BY <2>1, BodyType
  <2>3. \A i \in 1..BankCells : bank[i] = Torn \/ bank[i] = Erased
    <3> SUFFICES ASSUME NEW i \in 1..BankCells PROVE bank[i] = Torn \/ bank[i] = Erased
      OBVIOUS
    <3>1. i \in Cells /\ i # 0
      BY ConstantsType DEF Cells
    <3> QED
      BY <1>1, <1>6, <3>1
  <2>4. Len(bank[0].body) = 0
    <3> SUFFICES ASSUME Len(bank[0].body) # 0 PROVE FALSE
      OBVIOUS
    <3>1. 1 \in 1..Len(bank[0].body) /\ 1 \in 1..BankCells
      BY <2>2, ConstantsType
    <3>2. bank[1] \in Data
      BY <2>2, <3>1
    <3> QED
      BY <2>3, <3>1, <3>2 DEF Data, Puts, Dels, Torn, Erased
  <2>5. CommittedEnd(bank) = 0
    <3>1. \A f \in (0 + 1)..BankCells : ~IsCommit(bank[f])
      BY <2>3 DEF IsCommit, Torn, Erased
    <3>2. LogEndsAt(bank, 0, 0) /\ 0 \in 0..BankCells
      BY ConstantsType DEF LogEndsAt
    <3> QED
      BY <2>4, <3>1, <3>2, LogStops
  <2>6. Valid(old)
    BY <2>1, <2>4 DEF Valid
  <2> QED
    BY <2>1, <2>4, <2>5, <2>6
<1> QED
  BY <1>2, <1>3, <1>4, <1>5, <1>6

(***************************************************************************)
(* An append, whole and torn.                                              *)
(***************************************************************************)
LEMMA AppendContext ==
    ASSUME KvDeep, pc = "append"
    PROVE  LET old == medium[ram.active]
               f   == ram.flashEnd
               n   == Used(ram)
               new == WriteTarget
           IN  /\ ready /\ ram.active \in Banks /\ WrittenBank = ram.active
               /\ old \in Bank /\ Valid(old) /\ new \in Bank
               /\ f \in Nat /\ n \in Nat /\ f < n /\ n < BankCells /\ BankCells \in Nat
               /\ CommittedEnd(old) = f /\ Newest(medium) = ram.active
               /\ \A i \in 1..f : old[i] = ram.img[i]
               /\ \A i \in 0..f : new[i] = old[i]
               /\ \A i \in (f + 1)..(n + 1) : new[i] = Closed(ram)[i]
               /\ \A i \in (f + 1)..BankCells : old[i] = Erased
               /\ \A i \in (n + 2)..BankCells : new[i] = Erased
<1> DEFINE old == medium[ram.active]
           f   == ram.flashEnd
           n   == Used(ram)
           new == WriteTarget
<1>1. /\ ready /\ ~ram.needsPublish /\ f < n /\ n < BankCells /\ RamOK(ram)
      /\ ActiveOK(medium, ram) /\ Grounded(medium, ram)
  BY DEF KvDeep, KvInv, PhaseOK, Used
<1>2. f \in Nat /\ n \in Nat /\ BankCells \in Nat /\ ram.active \in Banks
  BY <1>1, RamFields, ConstantsType DEF Used
<1>3. WrittenBank = ram.active /\ old \in Bank /\ new \in Bank /\ Valid(old)
  BY <1>1, WriteTargetType DEF WrittenBank, Writing, KvDeep, ActiveOK
<1>4. /\ CommittedEnd(old) = f /\ Newest(medium) = ram.active
      /\ \A i \in 1..f : old[i] = ram.img[i]
      /\ \A i \in (f + 1)..BankCells : old[i] = Erased
  BY <1>1 DEF Grounded, IsNewest, Holds, LogDamaged, IsErased
<1>5. new = [i \in Cells |-> IF i \in (f + 1)..(n + 1) THEN Closed(ram)[i] ELSE old[i]]
  BY <1>3 DEF WriteTarget
<1> HIDE DEF old, f, n, new
<1>6. /\ \A i \in 0..f : new[i] = old[i]
      /\ \A i \in (f + 1)..(n + 1) : new[i] = Closed(ram)[i]
      /\ \A i \in (n + 2)..BankCells : new[i] = Erased
  <2>1. \A i \in 0..BankCells :
           new[i] = IF i \in (f + 1)..(n + 1) THEN Closed(ram)[i] ELSE old[i]
    BY <1>5 DEF Cells
  <2>2. \A i \in 0..f : i \in 0..BankCells /\ i \notin (f + 1)..(n + 1)
    BY <1>1, <1>2
  <2>3. \A i \in (f + 1)..(n + 1) : i \in 0..BankCells
    BY <1>1, <1>2
  <2>4. \A i \in (n + 2)..BankCells : /\ i \in 0..BankCells
                                      /\ i \notin (f + 1)..(n + 1)
                                      /\ i \in (f + 1)..BankCells
    BY <1>1, <1>2
  <2> QED
    BY <1>4, <2>1, <2>2, <2>3, <2>4
<1> QED
  BY <1>1, <1>2, <1>3, <1>4, <1>6 DEF old, f, n, new

\* What the append makes of the image: the staged batch, and its close.
LEMMA ClosedImage ==
    ASSUME KvDeep, pc = "append"
    PROVE  LET n == Used(ram) IN
           /\ Len(Closed(ram)) = n + 1
           /\ \A i \in 1..n : Closed(ram)[i] = ram.img[i]
           /\ \A i \in (ram.flashEnd + 1)..n : ram.img[i] \in Data
           /\ Closed(ram)[n + 1] =
                Commit(ram.flashEnd + 1, Slice(ram.img, ram.flashEnd + 1, n))
           /\ IndexOf(Closed(ram), n + 1) = ram.index
           /\ MapOf(Closed(ram), ram.index) = LiveMap(ram)
           /\ KeysFit(Closed(ram), n + 1)
<1> DEFINE n == Used(ram)
           f == ram.flashEnd
           c == Closed(ram)
<1>1. /\ n \in Nat /\ ram.img \in Seq(Rec) /\ n = Len(ram.img) /\ RamOK(ram)
      /\ ImageOK(ram)
  BY RamFields, ConstantsType DEF KvDeep, KvInv, Used
<1>2. Len(c) = n + 1 /\ \A i \in 1..n : c[i] = ram.img[i]
  BY ClosedOK DEF KvDeep, Used
<1>3. \A i \in (f + 1)..n : ram.img[i] \in Data
  BY <1>1 DEF RamOK, StagedSound, AllData, KvDeep, KvInv, PhaseOK
<1>4. c[n + 1] = Commit(f + 1, Slice(ram.img, f + 1, n))
  <2>1. c = Append(ram.img, Commit(f + 1, Slice(ram.img, f + 1, n)))
    BY DEF Closed
  <2> HIDE DEF f, n, c
  <2>2. Append(ram.img, Commit(f + 1, Slice(ram.img, f + 1, n)))[n + 1] =
           Commit(f + 1, Slice(ram.img, f + 1, n))
    BY <1>1
  <2> QED
    BY <2>1, <2>2
<1>5. IndexOf(c, n) = ram.index /\ MapOf(c, IndexOf(c, n)) = LiveMap(ram)
  <2>1. /\ IndexOf(c, n) = IndexOf(ram.img, n)
        /\ MapOf(c, IndexOf(c, n)) = MapOf(ram.img, IndexOf(ram.img, n))
    <3> HIDE DEF c, n
    <3> QED
      BY <1>1, <1>2, SameReplay
  <2> QED
    BY <1>1, <2>1 DEF ImageOK, LiveMap
<1>6. IndexOf(c, n + 1) = IndexOf(c, n)
  <2>1. \A k \in Keys : ~IsOf(c[n + 1], k)
    BY <1>4 DEF IsOf, IsData, Commit
  <2> HIDE DEF c, n
  <2> QED
    BY <1>1, <2>1, ReplayNext
<1>7. KeysFit(c, n)
  <2> HIDE DEF c
  <2> QED
    BY <1>1, <1>2, SameKeysFit DEF ImageOK
<1>8. KeysFit(c, n + 1)
  <2>1. Cardinality(Present(IndexOf(c, n))) <= MaxKeys
    <3> HIDE DEF c, n
    <3> QED
      BY <1>1, <1>7 DEF KeysFit
  <2> HIDE DEF c, n
  <2> QED
    BY <1>1, <1>6, <1>7, <2>1, KeysFitNext
<1> QED
  BY <1>2, <1>3, <1>4, <1>5, <1>6, <1>8

LEMMA AppendWhole ==
    ASSUME KvDeep, pc = "append"
    PROVE  LET old == medium[ram.active]
               n   == Used(ram)
               new == WriteTarget
           IN  /\ Valid(new) /\ new[0] = old[0]
               /\ CommittedEnd(new) = n + 1
               /\ \A i \in 1..(n + 1) : new[i] = Closed(ram)[i]
               /\ BankMap(new) = LiveMap(ram)
               /\ BankOK(new) /\ ~LogDamaged(new)
<1> DEFINE old == medium[ram.active]
           f   == ram.flashEnd
           n   == Used(ram)
           new == WriteTarget
           body == Len(old[0].body)
<1>1. /\ old \in Bank /\ Valid(old) /\ new \in Bank
      /\ f \in Nat /\ n \in Nat /\ f < n /\ n < BankCells /\ BankCells \in Nat
      /\ CommittedEnd(old) = f
      /\ \A i \in 1..f : old[i] = ram.img[i]
      /\ \A i \in 0..f : new[i] = old[i]
      /\ \A i \in (f + 1)..(n + 1) : new[i] = Closed(ram)[i]
      /\ \A i \in (n + 2)..BankCells : new[i] = Erased
  BY AppendContext
<1>2. /\ \A i \in 1..n : Closed(ram)[i] = ram.img[i]
      /\ \A i \in (f + 1)..n : ram.img[i] \in Data
      /\ Closed(ram)[n + 1] = Commit(f + 1, Slice(ram.img, f + 1, n))
      /\ IndexOf(Closed(ram), n + 1) = ram.index
      /\ MapOf(Closed(ram), ram.index) = LiveMap(ram)
      /\ KeysFit(Closed(ram), n + 1)
  BY ClosedImage
<1> HIDE DEF old, f, n, new
<1>3. /\ body \in 0..BankCells /\ body \in Nat /\ f \in body..BankCells
      /\ LogEndsAt(old, body, f) /\ body <= f
  BY <1>1, ValidEnd
<1>4. new[0] = old[0]
  BY <1>1
<1>5. Valid(new) /\ Len(new[0].body) = body
  <2>1. \A i \in 1..body : new[i] = old[i]
    BY <1>1, <1>3
  <2> QED
    BY <1>1, <1>4, <2>1 DEF Valid
<1>6. \A i \in 1..(n + 1) : new[i] = Closed(ram)[i]
  <2> SUFFICES ASSUME NEW i \in 1..(n + 1) PROVE new[i] = Closed(ram)[i]
    OBVIOUS
  <2>1. CASE i \in 1..f
    BY <1>1, <1>2, <2>1
  <2>2. CASE i \notin 1..f
    BY <1>1, <2>2
  <2> QED
    BY <2>1, <2>2
<1>7. CommittedEnd(new) = n + 1
  <2>1. LogEndsAt(new, body, f)
    <3>1. \A i \in (body + 1)..f : old[i] = new[i]
      BY <1>1, <1>3
    <3> QED
      BY <1>1, <1>3, <3>1, SameEnd
  <2>2. \A i \in (f + 1)..n : IsData(new[i])
    BY <1>1, <1>2, <1>6 DEF Data, Puts, Dels, IsData
  <2>3. Slice(new, f + 1, n) = Slice(ram.img, f + 1, n)
    <3>1. \A i \in 1..(n - (f + 1) + 1) : new[f + 1 + i - 1] = ram.img[f + 1 + i - 1]
      <4> SUFFICES ASSUME NEW i \in 1..(n - (f + 1) + 1)
                   PROVE  new[f + 1 + i - 1] = ram.img[f + 1 + i - 1]
        OBVIOUS
      <4>1. f + 1 + i - 1 \in 1..n
        BY <1>1
      <4> QED
        BY <1>1, <1>2, <1>6, <4>1
    <3> QED
      BY <3>1 DEF Slice
  <2>4. new[n + 1] = Commit(f + 1, Slice(new, f + 1, n))
    BY <1>1, <1>2, <1>6, <2>3
  <2>5. \A i \in (n + 2)..BankCells : ~IsCommit(new[i])
    BY <1>1 DEF IsCommit, Erased
  <2> QED
    BY <1>1, <1>3, <1>5, <2>1, <2>2, <2>4, <2>5, AppendCloses
<1>8. IndexOf(new, n + 1) = ram.index /\ MapOf(new, ram.index) = LiveMap(ram)
  <2>1. /\ IndexOf(new, n + 1) = IndexOf(Closed(ram), n + 1)
        /\ MapOf(new, IndexOf(new, n + 1))
             = MapOf(Closed(ram), IndexOf(Closed(ram), n + 1))
    BY <1>1, <1>6, SameReplay
  <2> QED
    BY <1>2, <2>1
<1>9. BankMap(new) = LiveMap(ram)
  BY <1>1, <1>5, <1>7, <1>8, ValidEnd
<1>10. BankOK(new)
  <2>1. KeysFit(new, n + 1)
    BY <1>1, <1>2, <1>6, SameKeysFit
  <2> QED
    BY <1>7, <2>1 DEF BankOK
<1>11. ~LogDamaged(new)
  BY <1>1, <1>7 DEF LogDamaged, IsErased
<1> QED
  BY <1>4, <1>5, <1>6, <1>7, <1>9, <1>10, <1>11 DEF old, n, new

LEMMA AppendTorn ==
    ASSUME KvDeep, pc = "append",
           NEW bank \in TornBanks(medium[ram.active], WriteTarget)
    PROVE  LET old == medium[ram.active] IN
           \/ bank = WriteTarget
           \/ /\ Valid(bank) /\ bank[0] = old[0] /\ bank \in Bank
              /\ CommittedEnd(bank) = ram.flashEnd
              /\ BankMap(bank) = BankMap(old) /\ BankOK(bank)
              /\ \A i \in 0..ram.flashEnd : bank[i] = old[i]
<1> DEFINE old == medium[ram.active]
           f   == ram.flashEnd
           n   == Used(ram)
           new == WriteTarget
           changed == {i \in Cells : old[i] # new[i]}
           first == {i \in changed : \A j \in changed : i <= j}
           last == {i \in changed : \A j \in changed : j <= i}
<1>1. /\ old \in Bank /\ Valid(old) /\ new \in Bank
      /\ f \in Nat /\ n \in Nat /\ f < n /\ n < BankCells /\ BankCells \in Nat
      /\ CommittedEnd(old) = f
      /\ \A i \in 0..f : new[i] = old[i]
      /\ \A i \in (f + 1)..(n + 1) : new[i] = Closed(ram)[i]
      /\ \A i \in (f + 1)..BankCells : old[i] = Erased
      /\ \A i \in (n + 2)..BankCells : new[i] = Erased
  BY AppendContext
<1>2. /\ \A i \in 1..n : Closed(ram)[i] = ram.img[i]
      /\ \A i \in (f + 1)..n : ram.img[i] \in Data
      /\ Closed(ram)[n + 1] = Commit(f + 1, Slice(ram.img, f + 1, n))
  BY ClosedImage
<1>3. bank \in Bank /\ BankOK(old)
  BY <1>1, TornType, AppendContext DEF KvDeep
<1>4. \/ bank = old \/ bank = new
      \/ bank = [i \in Cells |-> IF i \in changed THEN Torn ELSE old[i]]
      \/ bank = [i \in Cells |-> IF i \in changed \ {0} THEN Torn ELSE old[i]]
      \/ \E i \in first : bank = [old EXCEPT ![i] = new[i]]
      \/ \E i \in first \cup last : bank = [new EXCEPT ![i] = Torn]
  BY DEF TornBanks
<1> HIDE DEF old, f, n, new
<1>5. /\ \A i \in (f + 1)..n : new[i] \in Data
      /\ IsCommit(new[n + 1])
  <2>1. \A i \in (f + 1)..n : i \in 1..n /\ i \in (f + 1)..(n + 1)
    BY <1>1
  <2>2. n + 1 \in (f + 1)..(n + 1)
    BY <1>1
  <2> QED
    BY <1>1, <1>2, <2>1, <2>2 DEF IsCommit, Commit
<1>6. changed = (f + 1)..(n + 1)
  <2>1. \A i \in (f + 1)..(n + 1) : new[i] # Erased
    <3>1. \A i \in (f + 1)..(n + 1) : i \in (f + 1)..n \/ i = n + 1
      BY <1>1
    <3> QED
      BY <1>5, <3>1 DEF Data, Puts, Dels, Erased, IsCommit
  <2>2. ASSUME NEW i \in Cells
        PROVE  i \in changed <=> i \in (f + 1)..(n + 1)
    <3>1. i \in 0..f \/ i \in (f + 1)..(n + 1) \/ i \in (n + 2)..BankCells
      BY <1>1 DEF Cells
    <3>2. CASE i \in 0..f
      BY <1>1, <3>2
    <3>3. CASE i \in (f + 1)..(n + 1)
      <4>1. i \in (f + 1)..BankCells
        BY <1>1, <3>3
      <4> QED
        BY <1>1, <2>1, <3>3, <4>1
    <3>4. CASE i \in (n + 2)..BankCells
      <4>1. i \in (f + 1)..BankCells /\ i \notin (f + 1)..(n + 1)
        BY <1>1, <3>4
      <4> QED
        BY <1>1, <3>4, <4>1
    <3> QED
      BY <3>1, <3>2, <3>3, <3>4
  <2>3. (f + 1)..(n + 1) \subseteq Cells
    BY <1>1 DEF Cells
  <2> QED
    BY <2>2, <2>3
<1> HIDE DEF changed
<1>7. first = {f + 1} /\ last = {n + 1}
  BY <1>1, <1>6
<1> HIDE DEF first, last
<1>8. \A i \in Cells : i \in 0..f => i \notin changed
  BY <1>1, <1>6
<1>9. /\ f + 1 \in Cells /\ n + 1 \in Cells /\ 0..f \subseteq Cells
      /\ f + 1 \in changed /\ n + 1 \in changed /\ f + 1 \notin 0..f
      /\ n + 1 \notin 0..f /\ n + 1 # f + 1 /\ f + 1 # 0
  BY <1>1, <1>6 DEF Cells
<1>10. ASSUME \A i \in 0..f : bank[i] = old[i],
              \/ bank[f + 1] = Torn
              \/ \A i \in (f + 1)..BankCells : ~IsCommit(bank[i])
       PROVE  /\ Valid(bank) /\ bank[0] = old[0] /\ CommittedEnd(bank) = f
              /\ BankMap(bank) = BankMap(old) /\ BankOK(bank)
              /\ \A i \in 0..f : bank[i] = old[i]
  <2>1. f < BankCells
    BY <1>1
  <2>2. Torn # Erased /\ ~IsData(Torn) /\ ~IsCommit(Torn)
    BY DEF Torn, Erased, IsData, IsCommit
  <2> QED
    BY <1>1, <1>3, <1>10, <2>1, <2>2, KeptBank
<1>11. old \in [Cells -> Cell] /\ new \in [Cells -> Cell]
  BY <1>1 DEF Bank
<1>12. CASE bank = old
  <2>1. \A i \in (f + 1)..BankCells : ~IsCommit(bank[i])
    BY <1>1, <1>12 DEF IsCommit, Erased
  <2> QED
    BY <1>3, <1>10, <1>12, <2>1 DEF old, f
<1>13. CASE bank = [i \in Cells |-> IF i \in changed THEN Torn ELSE old[i]]
  <2>1. bank[f + 1] = Torn /\ \A i \in 0..f : bank[i] = old[i]
    BY <1>8, <1>9, <1>13
  <2> QED
    BY <1>3, <1>10, <2>1 DEF old, f
<1>14. CASE bank = [i \in Cells |-> IF i \in changed \ {0} THEN Torn ELSE old[i]]
  <2>1. bank[f + 1] = Torn /\ \A i \in 0..f : bank[i] = old[i]
    BY <1>8, <1>9, <1>14
  <2> QED
    BY <1>3, <1>10, <2>1 DEF old, f
<1>15. CASE bank = [old EXCEPT ![f + 1] = new[f + 1]]
  <2>1. \A i \in 0..f : bank[i] = old[i]
    BY <1>9, <1>11, <1>15
  <2>2. bank[f + 1] \in Data
    BY <1>1, <1>5, <1>9, <1>11, <1>15
  <2>3. ASSUME NEW i \in (f + 1)..BankCells PROVE ~IsCommit(bank[i])
    <3>1. i \in Cells /\ old[i] = Erased
      BY <1>1 DEF Cells
    <3>2. i # f + 1 => bank[i] = Erased
      BY <1>11, <1>15, <3>1
    <3> QED
      BY <2>2, <3>2 DEF IsCommit, Erased, Data, Puts, Dels
  <2> QED
    BY <1>3, <1>10, <2>1, <2>3 DEF old, f
<1>16. CASE bank = [new EXCEPT ![f + 1] = Torn]
  <2>1. \A i \in 0..f : bank[i] = old[i]
    BY <1>1, <1>9, <1>11, <1>16
  <2>2. bank[f + 1] = Torn
    BY <1>9, <1>11, <1>16
  <2> QED
    BY <1>3, <1>10, <2>1, <2>2 DEF old, f
<1>17. CASE bank = [new EXCEPT ![n + 1] = Torn]
  <2>1. \A i \in 0..f : bank[i] = old[i]
    BY <1>1, <1>9, <1>11, <1>17
  <2>2. ASSUME NEW i \in (f + 1)..BankCells PROVE ~IsCommit(bank[i])
    <3>1. i \in Cells
      BY <1>1 DEF Cells
    <3>2. i = n + 1 => bank[i] = Torn
      BY <1>9, <1>11, <1>17
    <3>3. i # n + 1 => bank[i] = new[i]
      BY <1>11, <1>17, <3>1
    <3>4. i \in (f + 1)..n \/ i = n + 1 \/ i \in (n + 2)..BankCells
      BY <1>1
    <3>5. i # n + 1 => new[i] \in Data \/ new[i] = Erased
      BY <1>1, <1>5, <3>4
    <3> QED
      BY <3>2, <3>3, <3>5 DEF IsCommit, Erased, Torn, Data, Puts, Dels
  <2> QED
    BY <1>3, <1>10, <2>1, <2>2 DEF old, f
<1>18. CASE bank = new
  BY <1>18 DEF new
<1> QED
  BY <1>4, <1>7, <1>12, <1>13, <1>14, <1>15, <1>16, <1>17, <1>18

(***************************************************************************)
(* A publish, whole and torn.                                              *)
(***************************************************************************)
LEMMA SpareContext ==
    ASSUME KvDeep, Writing, pc # "append"
    PROVE  LET old == medium[Spare(ram)] IN
           /\ WrittenBank = Spare(ram) /\ Spare(ram) \in Banks /\ ram.active \in Banks
           /\ Spare(ram) = 1 - ram.active /\ ram.active # Spare(ram)
           /\ old \in Bank /\ WriteTarget \in Bank /\ BankOK(old)
           /\ medium \in [Banks -> Bank]
           /\ pc \in {"erase", "prepare"} => WriteTarget = BlankBank
           /\ pc = "body" => /\ old = BlankBank
                             /\ WriteTarget = Built(ram)
           /\ pc = "header" => /\ old = Built(ram)
                               /\ WriteTarget = [old EXCEPT ![0] =
                                                   Header(NextGen(ram.gen), ram.img)]
<1> DEFINE old == medium[Spare(ram)]
<1>1. WrittenBank = Spare(ram)
  BY DEF WrittenBank
<1>2. /\ Spare(ram) \in Banks /\ ram.active \in Banks /\ medium \in [Banks -> Bank]
      /\ Spare(ram) = 1 - ram.active
  BY RamFields DEF KvDeep, KvInv, Spare
<1>3. old \in Bank /\ WriteTarget \in Bank /\ BankOK(old)
  BY <1>1, <1>2, WriteTargetType DEF KvDeep
<1>4. /\ pc \in {"erase", "prepare"} => WriteTarget = BlankBank
      /\ pc = "header" => WriteTarget = [old EXCEPT ![0] =
                                           Header(NextGen(ram.gen), ram.img)]
      /\ pc = "body" => WriteTarget = [i \in Cells |-> IF i \in 1..Used(ram)
                                                       THEN ram.img[i] ELSE old[i]]
  BY <1>1 DEF WriteTarget
<1>5. /\ pc = "body" => old = BlankBank
      /\ pc = "header" => old = Built(ram)
  BY DEF KvDeep, BuildOK
<1>6. pc = "body" => WriteTarget = Built(ram)
  <2> HIDE DEF old
  <2> QED
    BY <1>4, <1>5 DEF BlankBank, Built
<1>7. ram.active # Spare(ram)
  BY <1>2 DEF Banks
<1> QED
  BY <1>1, <1>2, <1>3, <1>4, <1>5, <1>6, <1>7

\* The bank a publish completes: a restart finds the image in it.
LEMMA PublishWhole ==
    ASSUME KvDeep, pc = "header"
    PROVE  LET new == WriteTarget
               n   == Used(ram)
           IN  /\ Valid(new) /\ new[0] = Header(NextGen(ram.gen), ram.img)
               /\ new[0].gen = NextGen(ram.gen) /\ Len(new[0].body) = n
               /\ CommittedEnd(new) = n /\ Holds(new, ram.img, n)
               /\ BankMap(new) = LiveMap(ram)
               /\ BankOK(new) /\ ~LogDamaged(new)
<1> DEFINE new == WriteTarget
           n   == Used(ram)
<1>1. /\ new \in Bank
      /\ new = [Built(ram) EXCEPT ![0] = Header(NextGen(ram.gen), ram.img)]
  BY SpareContext DEF Writing, Replacing
<1>2. n \in 0..BankCells /\ n = Len(ram.img) /\ BankCells \in Nat /\ ImageOK(ram)
  BY RamFields, ConstantsType DEF Used, KvDeep, KvInv
<1> HIDE DEF n, new
<1>3. /\ new[0] = Header(NextGen(ram.gen), ram.img)
      /\ \A i \in 1..n : new[i] = ram.img[i]
      /\ \A i \in (n + 1)..BankCells : new[i] = Erased
  <2>1. \A i \in 0..BankCells : Built(ram)[i] = IF i \in 1..n THEN ram.img[i] ELSE Erased
    BY DEF Built, Cells, n
  <2>2. DOMAIN Built(ram) = 0..BankCells
    BY DEF Built, Cells
  <2>3. \A i \in 1..BankCells : new[i] = Built(ram)[i]
    BY <1>1, <2>2
  <2>4. new[0] = Header(NextGen(ram.gen), ram.img)
    BY <1>1, <1>2, <2>2
  <2> QED
    BY <1>2, <2>1, <2>3, <2>4
<1>4. new[0].type = "header" /\ new[0].body = ram.img /\ new[0].gen = NextGen(ram.gen)
  BY <1>3 DEF Header
<1>5. Valid(new)
  BY <1>2, <1>3, <1>4 DEF Valid
<1>6. CommittedEnd(new) = n
  <2>1. LogEndsAt(new, n, n)
    BY DEF LogEndsAt
  <2>2. \A f \in (n + 1)..BankCells : ~IsCommit(new[f])
    BY <1>3 DEF IsCommit, Erased
  <2>3. n \in n..BankCells /\ Len(new[0].body) = n
    BY <1>2, <1>4
  <2> QED
    BY <1>2, <2>1, <2>2, <2>3, LogStops
<1>7. BankMap(new) = MapOf(new, IndexOf(new, n))
  BY <1>1, <1>5, <1>6, ValidEnd
<1>8. /\ IndexOf(new, n) = IndexOf(ram.img, n)
      /\ MapOf(new, IndexOf(new, n)) = MapOf(ram.img, IndexOf(ram.img, n))
  BY <1>2, <1>3, SameReplay
<1>9. BankMap(new) = LiveMap(ram)
  BY <1>2, <1>7, <1>8 DEF ImageOK, LiveMap, n
<1>10. KeysFit(new, n)
  <2>1. KeysFit(ram.img, n) /\ n \in Nat
    BY <1>2 DEF ImageOK, n
  <2> QED
    BY <1>3, <2>1, SameKeysFit
<1>11. BankOK(new) /\ ~LogDamaged(new)
  BY <1>3, <1>6, <1>10 DEF BankOK, LogDamaged, IsErased
<1>12. Holds(new, ram.img, n)
  BY <1>3 DEF Holds
<1> QED
  BY <1>2, <1>3, <1>4, <1>5, <1>6, <1>9, <1>11, <1>12 DEF new, n

\* What a write of the spare bank can leave there.
LEMMA SpareTorn ==
    ASSUME KvDeep, Writing, pc # "append",
           NEW bank \in TornBanks(medium[Spare(ram)], WriteTarget)
    PROVE  LET old == medium[Spare(ram)] IN
           /\ bank \in Bank /\ BankOK(bank)
           /\ \/ ~Valid(bank)
              \/ bank = old
              \/ pc = "header" /\ bank = WriteTarget
              \/ /\ Valid(old) /\ bank[0] = old[0]
                 /\ Len(old[0].body) = 0 /\ CommittedEnd(bank) = 0
<1> DEFINE old == medium[Spare(ram)]
           new == WriteTarget
           changed == {i \in Cells : old[i] # new[i]}
<1>1. /\ old \in Bank /\ new \in Bank /\ BankOK(old)
      /\ pc \in {"erase", "prepare"} => new = BlankBank
      /\ pc = "body" => old = BlankBank /\ new = Built(ram)
      /\ pc = "header" => /\ old = Built(ram)
                          /\ new = [old EXCEPT ![0] =
                                      Header(NextGen(ram.gen), ram.img)]
  BY SpareContext
<1>2. bank \in Bank
  BY <1>1, TornType
<1>3. \/ bank = old \/ bank = new
      \/ bank = [i \in Cells |-> IF i \in changed THEN Torn ELSE old[i]]
      \/ bank = [i \in Cells |-> IF i \in changed \ {0} THEN Torn ELSE old[i]]
  BY DEF TornBanks
<1>4. bank \in TornBanks(old, new)
  OBVIOUS
<1>5. 0 \in Cells /\ Used(ram) \in 0..BankCells
  BY ConstantsType, RamFields DEF KvDeep, KvInv, Used
<1> HIDE DEF old, new
<1>6. CASE pc \in {"erase", "prepare"}
  <2>1. Valid(bank) => /\ Valid(old) /\ bank[0] = old[0]
                       /\ bank # old => Len(old[0].body) = 0 /\ CommittedEnd(bank) = 0
    BY <1>1, <1>4, <1>6, TornErase
  <2>2. KeysFit(bank, 0)
    BY EmptyFits
  <2>3. BankOK(bank)
    BY <1>1, <2>1, <2>2 DEF BankOK
  <2> QED
    BY <1>2, <2>1, <2>3 DEF old
<1>7. CASE pc = "body"
  <2>1. old[0] = Erased /\ new[0] = Erased
    BY <1>1, <1>5, <1>7 DEF BlankBank, Built
  <2>2. bank[0] = Erased
    BY <1>3, <1>5, <2>1
  <2>3. ~Valid(bank)
    BY <2>2 DEF Valid, Erased
  <2> QED
    BY <1>2, <2>3 DEF BankOK
<1>8. CASE pc = "header"
  <2>1. old[0] = Erased
    BY <1>1, <1>5, <1>8 DEF Built
  <2>2. old[0] # new[0]
    <3>1. new[0] = Header(NextGen(ram.gen), ram.img)
      BY <1>1, <1>5, <1>8 DEF Bank
    <3> QED
      BY <2>1, <3>1 DEF Erased, Header
  <2>3. bank = old \/ bank = new \/ bank[0] = Torn
           \/ bank = [i \in Cells |-> IF i \in changed \ {0} THEN Torn ELSE old[i]]
    BY <1>3, <1>5, <2>2
  <2>4. CASE bank = new
    <3>1. BankOK(new)
      BY <1>8, PublishWhole DEF new
    <3> QED
      BY <1>2, <1>8, <2>4, <3>1 DEF new
  <2>5. CASE bank[0] = Torn
    <3>1. ~Valid(bank)
      BY <2>5 DEF Valid, Torn
    <3> QED
      BY <1>2, <3>1 DEF BankOK
  <2>6. CASE bank = old
    BY <1>1, <1>2, <2>6 DEF old
  <2>7. CASE bank = [i \in Cells |-> IF i \in changed \ {0} THEN Torn ELSE old[i]]
    <3>1. bank[0] = Erased
      BY <1>5, <2>1, <2>7
    <3>2. ~Valid(bank)
      BY <3>1 DEF Valid, Erased
    <3> QED
      BY <1>2, <3>2 DEF BankOK
  <2> QED
    BY <2>3, <2>4, <2>5, <2>6, <2>7
<1> QED
  BY <1>6, <1>7, <1>8 DEF Writing, Replacing

\* The flash once a write has left bank in the bank it writes.
Left(bank) == [medium EXCEPT ![WrittenBank] = bank]

\* Grounded only looks at the bank in use, at the pick and at the spare bank's
\* log.
LEMMA GroundedSame ==
    ASSUME NEW m, NEW n, NEW r, Grounded(m, r), n[r.active] = m[r.active],
           IsNewest(m, r) => IsNewest(n, r),
           ~IsNewest(n, r) =>
              CommittedEnd(n[Spare(r)]) = Len(n[Spare(r)][0].body)
    PROVE  Grounded(n, r)
BY DEF Grounded

\* Whatever a write leaves in the spare bank, the image still stands on the
\* flash, and a restart finds the map it would have found, the map of the bank
\* in use, or, behind a whole header, the map of the image.
LEMMA SpareLeft ==
    ASSUME KvDeep, Writing, pc # "append", ready,
           NEW bank \in TornBanks(medium[Spare(ram)], WriteTarget)
    PROVE  /\ Grounded(Left(bank), ram)
           /\ DurableMapOf(Left(bank)) \in
                {DurableMapOf(medium), BankMap(medium[ram.active])}
                  \cup (IF pc = "header" THEN {LiveMap(ram)} ELSE {})
<1> DEFINE old == medium[Spare(ram)]
           m == Left(bank)
           a == ram.active
<1>1. /\ WrittenBank = Spare(ram) /\ Spare(ram) \in Banks /\ a \in Banks
      /\ Spare(ram) = 1 - a /\ a # Spare(ram)
      /\ old \in Bank /\ medium \in [Banks -> Bank]
  BY SpareContext
<1>2. /\ bank \in Bank /\ BankOK(bank)
      /\ \/ ~Valid(bank)
         \/ bank = old
         \/ pc = "header" /\ bank = WriteTarget
         \/ /\ Valid(old) /\ bank[0] = old[0]
            /\ Len(old[0].body) = 0 /\ CommittedEnd(bank) = 0
  BY SpareTorn
<1>3. /\ m[Spare(ram)] = bank /\ m[a] = medium[a] /\ m \in [Banks -> Bank]
      /\ bank = old => m = medium
  BY <1>1, <1>2 DEF Left
<1>4. /\ Grounded(medium, ram) /\ Valid(medium[a]) /\ Valid(m[a])
      /\ medium[a][0].gen = ram.gen /\ ram.gen \in Gens
  BY <1>3, RamFields DEF KvDeep, KvInv, ActiveOK, Grounded
<1>5. AnyValid(m) /\ AnyValid(medium)
  BY <1>1, <1>4 DEF AnyValid
<1>6. DurableMapOf(m) = BankMap(m[Newest(m)])
  BY <1>5, DurableIs
<1> HIDE DEF m, old
<1>7. CASE ~Valid(bank)
  <2>1. Newest(m) = a
    BY <1>1, <1>3, <1>4, <1>7, OnlyValid
  <2>2. Grounded(m, ram)
    BY <1>3, <1>4, <2>1, GroundedSame DEF IsNewest, a
  <2> QED
    BY <1>3, <1>6, <2>1, <2>2 DEF m, a
<1>8. CASE bank = old
  BY <1>3, <1>4, <1>8 DEF m
<1>9. CASE pc = "header" /\ bank = WriteTarget
  <2>1. /\ Valid(bank) /\ bank[0].gen = NextGen(ram.gen)
        /\ CommittedEnd(bank) = Len(bank[0].body) /\ BankMap(bank) = LiveMap(ram)
    BY <1>9, PublishWhole
  <2>2. Newest(m) = Spare(ram)
    BY <1>1, <1>3, <1>4, <2>1, PublishedIsPicked
  <2>3. ram.needsPublish /\ ram.dirty
    BY <1>9 DEF KvDeep, KvInv, PhaseOK, BuildOK, Replacing
  <2>4. Grounded(m, ram)
    BY <1>3, <1>4, <2>1, <2>3 DEF Grounded, a
  <2> QED
    BY <1>3, <1>6, <1>9, <2>1, <2>2, <2>4 DEF m
<1>10. CASE /\ Valid(bank) /\ Valid(old) /\ bank[0] = old[0]
            /\ Len(old[0].body) = 0 /\ CommittedEnd(bank) = 0
  <2>1. Newest(m) = Newest(medium)
    <3>1. \A b \in Banks : b = a \/ b = Spare(ram)
      BY <1>1 DEF Banks
    <3>2. medium[Spare(ram)] = old
      BY DEF old
    <3>3. \A b \in Banks : Valid(m[b]) <=> Valid(medium[b])
      BY <1>3, <1>10, <3>1, <3>2
    <3>4. \A b \in Banks : Valid(medium[b]) => m[b][0] = medium[b][0]
      BY <1>3, <1>10, <3>1, <3>2
    <3> QED
      BY <3>3, <3>4, SamePick
  <2>2. Grounded(m, ram)
    BY <1>3, <1>4, <1>10, <2>1, GroundedSame DEF IsNewest, a
  <2>3. DurableMapOf(medium) = BankMap(medium[Newest(medium)])
    BY <1>5, DurableIs
  <2>4. CASE Newest(medium) = a
    BY <1>3, <1>6, <2>1, <2>2, <2>4 DEF m, a
  <2>5. CASE Newest(medium) # a
    <3>1. Newest(medium) = Spare(ram)
      <4>1. Newest(medium) \in Banks
        BY <1>5, NewestValid
      <4> QED
        BY <1>1, <2>5, <4>1 DEF Banks
    <3>2. CommittedEnd(old) = 0
      BY <1>4, <1>10, <2>5 DEF Grounded, IsNewest, old, a
    <3>3. /\ BankMap(old) = MapOf(old, IndexOf(old, 0))
          /\ BankMap(bank) = MapOf(bank, IndexOf(bank, 0))
      BY <1>1, <1>2, <1>10, <3>2, ValidEnd
    <3>4. BankMap(old) = BankMap(bank)
      <4>1. 0 \in Nat /\ \A i \in 1..0 : old[i] = bank[i]
        OBVIOUS
      <4> QED
        BY <3>3, <4>1, SameReplay
    <3>5. DurableMapOf(m) = DurableMapOf(medium)
      BY <1>3, <1>6, <2>1, <2>3, <3>1, <3>4 DEF old
    <3> QED
      BY <2>2, <3>5 DEF m
  <2> QED
    BY <2>4, <2>5
<1> QED
  BY <1>2, <1>7, <1>8, <1>9, <1>10

\* Whatever an append leaves behind: the same, or a whole batch.
LEMMA AppendLeft ==
    ASSUME KvDeep, pc = "append",
           NEW bank \in TornBanks(medium[ram.active], WriteTarget)
    PROVE  LET m == Left(bank) IN
           /\ m \in [Banks -> Bank] /\ m[ram.active] = bank
           /\ m[Spare(ram)] = medium[Spare(ram)] /\ Newest(m) = ram.active
           /\ Valid(bank) /\ bank[0] = medium[ram.active][0] /\ BankOK(bank)
           /\ DurableMapOf(medium) = BankMap(medium[ram.active])
           /\ DurableMapOf(m) = BankMap(bank)
           /\ \/ bank = WriteTarget /\ BankMap(bank) = LiveMap(ram)
              \/ /\ CommittedEnd(bank) = ram.flashEnd
                 /\ BankMap(bank) = BankMap(medium[ram.active])
                 /\ \A i \in 0..ram.flashEnd : bank[i] = medium[ram.active][i]
<1> DEFINE old == medium[ram.active]
           m == Left(bank)
           a == ram.active
<1>1. /\ a \in Banks /\ WrittenBank = a /\ Valid(old) /\ WriteTarget \in Bank
      /\ Newest(medium) = a
  BY AppendContext
<1>2. /\ Valid(WriteTarget) /\ WriteTarget[0] = old[0] /\ BankOK(WriteTarget)
      /\ BankMap(WriteTarget) = LiveMap(ram)
  BY AppendWhole
<1>3. \/ bank = WriteTarget
      \/ /\ Valid(bank) /\ bank[0] = old[0] /\ bank \in Bank
         /\ CommittedEnd(bank) = ram.flashEnd
         /\ BankMap(bank) = BankMap(old) /\ BankOK(bank)
         /\ \A i \in 0..ram.flashEnd : bank[i] = old[i]
  BY AppendTorn
<1>4. Valid(bank) /\ bank[0] = old[0] /\ BankOK(bank) /\ bank \in Bank
  BY <1>1, <1>2, <1>3
<1>5. medium \in [Banks -> Bank] /\ Spare(ram) = 1 - a /\ 1 - a \in Banks /\ 1 - a # a
  BY <1>1, RamFields DEF KvDeep, KvInv, Spare, Banks
<1>6. m \in [Banks -> Bank] /\ m[a] = bank /\ m[Spare(ram)] = medium[Spare(ram)]
  BY <1>1, <1>4, <1>5 DEF Left
<1>7. Newest(m) = a
  BY <1>1, <1>4, <1>5, <1>6, PickStays
<1>8. AnyValid(m) /\ AnyValid(medium)
  BY <1>1, <1>4, <1>6 DEF AnyValid
<1>9. DurableMapOf(m) = BankMap(bank) /\ DurableMapOf(medium) = BankMap(old)
  BY <1>1, <1>6, <1>7, <1>8, DurableIs
<1> QED
  BY <1>2, <1>3, <1>4, <1>6, <1>7, <1>9

(***************************************************************************)
(* Init and every step of Next keep KvDeep.  Each lemma also assumes KvInv *)
(* of the next state, which KvStepOK proves.                               *)
(***************************************************************************)
BanksOK(m) == \A b \in Banks : BankOK(m[b])

LEMMA CompactFields ==
    ASSUME NEW r, RamOK(r)
    PROVE  /\ Compact(r).needsPublish /\ Compact(r).dirty
           /\ Compact(r).active = r.active /\ Compact(r).gen = r.gen
BY DEF Compact, NeedingPublish, RamOK, Ram

LEMMA NeedingPublishFields ==
    ASSUME NEW r, RamOK(r)
    PROVE  /\ NeedingPublish(r).img = r.img /\ NeedingPublish(r).index = r.index
           /\ NeedingPublish(r).dirty = r.dirty /\ NeedingPublish(r).active = r.active
           /\ NeedingPublish(r).gen = r.gen /\ NeedingPublish(r).needsPublish
BY DEF NeedingPublish, RamOK, Ram

\* An image that has to be published stands on the flash with less.
LEMMA GroundedRenewed ==
    ASSUME NEW m, NEW r, NEW s, Grounded(m, r), Renewed(r, s)
    PROVE  Grounded(m, s)
BY DEF Grounded, Renewed, IsNewest, Spare

LEMMA ResetDeep ==
    ASSUME NEW b \in Banks
    PROVE  ImageOK(Reset) /\ ImageOK([Reset EXCEPT !.active = b])
<1> DEFINE r == [Reset EXCEPT !.active = b]
<1>1. /\ Reset.img = <<>> /\ Reset.index = [k \in Keys |-> 0]
      /\ r.img = <<>> /\ r.index = [k \in Keys |-> 0]
  BY DEF Reset
<1>2. Len(<<>>) = 0
  OBVIOUS
<1>3. IndexOf(<<>>, 0) = [k \in Keys |-> 0]
  BY ReplayNothing
<1>4. KeysFit(<<>>, 0)
  BY EmptyFits
<1> HIDE DEF r
<1> QED
  BY <1>1, <1>2, <1>3, <1>4 DEF ImageOK, Used, r

LEMMA ReturnDeep ==
    ASSUME NEW r, KvInv', Return(r), ImageOK(r), Grounded(medium', r), BanksOK(medium')
    PROVE  KvDeep'
<1>1. ram' = r /\ pc' = "idle"
  BY DEF Return
<1>2. BuildOK'
  BY <1>1 DEF BuildOK, Replacing
<1> QED
  BY <1>1, <1>2 DEF KvDeep, BanksOK

LEMMA BeginPublishDeep ==
    ASSUME NEW r, KvInv', RamOK(r), ImageOK(r), BeginPublish(r), BanksOK(medium),
           ready => Grounded(medium, r), ~ready => ~Valid(medium[r.active]),
           UNCHANGED <<medium, ready>>
    PROVE  KvDeep'
<1> DEFINE c == Compact(r)
<1>1. /\ c.needsPublish /\ c.dirty /\ c.active = r.active /\ c.gen = r.gen
      /\ Spare(c) = Spare(r)
  BY CompactFields DEF Spare
<1>2. ImageOK(c)
  BY CompactImage, ImageKeys
<1>3. /\ ram' = c /\ pc' \in {"body", "erase"}
      /\ pc' = "body" => medium[Spare(r)] = BlankBank
  BY DEF BeginPublish
<1> HIDE DEF c
<1>4. ready' => Grounded(medium', ram')
  BY <1>1, <1>3, GroundedRenewed DEF Renewed
<1>5. BuildOK'
  BY <1>1, <1>3 DEF BuildOK, Replacing
<1> QED
  BY <1>2, <1>3, <1>4, <1>5 DEF KvDeep, BanksOK

LEMMA CommitLockedDeep ==
    ASSUME NEW r, KvInv', RamOK(r), ImageOK(r), ready, Grounded(medium, r),
           BanksOK(medium), CommitLocked(r), UNCHANGED <<medium, ready>>
    PROVE  KvDeep'
<1>1. CASE Return(r)
  BY <1>1, ReturnDeep
<1>2. CASE BeginPublish(r)
  BY <1>2, BeginPublishDeep
<1>3. CASE ~r.needsPublish /\ Used(r) = r.flashEnd /\ Return([r EXCEPT !.dirty = FALSE])
  <2> DEFINE s == [r EXCEPT !.dirty = FALSE]
  <2>1. /\ s.img = r.img /\ s.index = r.index /\ s.active = r.active /\ s.gen = r.gen
        /\ s.needsPublish = r.needsPublish /\ s.flashEnd = r.flashEnd
        /\ Used(s) = Used(r) /\ Spare(s) = Spare(r)
    BY DEF RamOK, Ram, Used, Spare
  <2>2. Return(s)
    BY <1>3
  <2> HIDE DEF s
  <2>3. ImageOK(s)
    BY <2>1 DEF ImageOK
  <2>4. Grounded(medium, s)
    BY <1>3, <2>1 DEF Grounded, IsNewest
  <2> QED
    BY <2>2, <2>3, <2>4, ReturnDeep
<1>4. CASE r.dirty /\ BeginAppend(r)
  <2>1. pc' = "append" /\ ram' = r
    BY <1>4 DEF BeginAppend
  <2>2. BuildOK'
    BY <1>4, <2>1 DEF BuildOK, Replacing
  <2> QED
    BY <2>1, <2>2 DEF KvDeep, BanksOK
<1> QED
  BY <1>1, <1>2, <1>3, <1>4 DEF CommitLocked

LEMMA FinishMutationDeep ==
    ASSUME NEW r, KvInv', RamOK(r), ImageOK(r), ready, Grounded(medium, r),
           BanksOK(medium), FinishMutation(r), UNCHANGED <<medium, ready>>
    PROVE  KvDeep'
BY CommitLockedDeep, ReturnDeep DEF FinishMutation

LEMMA IdleDeep ==
    ASSUME KvDeep, pc \in {"idle", "append", "prepare"}
    PROVE  /\ RamOK(ram) /\ ImageOK(ram) /\ ready /\ Grounded(medium, ram)
           /\ ActiveOK(medium, ram) /\ BanksOK(medium)
BY DEF KvDeep, KvInv, PhaseOK, BanksOK

\* The image behind a set or a delete, before its commit.
LEMMA StageImage ==
    ASSUME KvDeep, Call, NEW k \in Keys, NEW rec \in Data, rec.key = k,
           HasRoom(ram, k),
           rec \in Puts => k \in Live(ram) \/ Cardinality(Live(ram)) < MaxKeys
    PROVE  LET s == EnsureSpace(ram, k)
               r == AppendRecord(s, rec)
           IN  /\ RamOK(s) /\ ImageOK(s) /\ Renewed(ram, s)
               /\ RamOK(r) /\ ImageOK(r) /\ Extended(s, rec, r)
               /\ \A j \in Keys \ {k} : LiveMap(s)[j] = LiveMap(ram)[j]
               /\ ~s.needsPublish => s.flashEnd <= Used(s) /\ Used(s) + 1 < BankCells
<1> DEFINE s == EnsureSpace(ram, k)
           r == AppendRecord(s, rec)
<1>1. RamOK(ram) /\ ImageOK(ram)
  BY IdleDeep DEF Call
<1>2. RamOK(s) /\ Len(s.img) < BankCells
  BY <1>1, EnsureSpaceOK
<1>3. /\ ImageOK(s) /\ Renewed(ram, s)
      /\ Live(s) \subseteq Live(ram) /\ Live(ram) \subseteq Live(s) \cup {k}
      /\ \A j \in Keys \ {k} : LiveMap(s)[j] = LiveMap(ram)[j]
      /\ Fits(ram) => s = ram
      /\ ~Fits(ram) => s.needsPublish /\ s.dirty
  BY <1>1, EnsureSpaceImage
<1> HIDE DEF s
<1>4. rec \in Puts => Cardinality(Live(s) \cup {rec.key}) <= MaxKeys
  <2> SUFFICES ASSUME rec \in Puts PROVE Cardinality(Live(s) \cup {k}) <= MaxKeys
    OBVIOUS
  <2>1. /\ IsFiniteSet(Live(ram)) /\ Cardinality(Live(ram)) \in Nat
        /\ Cardinality(Live(ram)) <= MaxKeys /\ MaxKeys \in Nat
    BY <1>1, LiveFinite, ImageKeys, KvAssumption
  <2>2. /\ IsFiniteSet(Live(ram) \cup {k})
        /\ Cardinality(Live(ram) \cup {k}) =
             IF k \in Live(ram) THEN Cardinality(Live(ram)) ELSE Cardinality(Live(ram)) + 1
    BY <2>1, FS_AddElement
  <2>3. Cardinality(Live(ram) \cup {k}) \in Nat
        /\ Cardinality(Live(ram) \cup {k}) <= MaxKeys
    BY <2>1, <2>2
  <2>4. /\ Cardinality(Live(s) \cup {k}) \in Nat
        /\ Cardinality(Live(s) \cup {k}) <= Cardinality(Live(ram) \cup {k})
    <3>1. Live(s) \cup {k} \subseteq Live(ram) \cup {k}
      BY <1>3
    <3> QED
      BY <2>2, <3>1, FS_Subset, FS_CardinalityType
  <2> QED
    BY <2>1, <2>3, <2>4
<1>5. RamOK(r) /\ ImageOK(r) /\ Extended(s, rec, r)
  BY <1>2, <1>3, <1>4, AppendRecordOK, AppendRecordImage
<1>6. ~s.needsPublish => s.flashEnd <= Used(s) /\ Used(s) + 1 < BankCells
  <2> SUFFICES ASSUME ~s.needsPublish
               PROVE  s.flashEnd <= Used(s) /\ Used(s) + 1 < BankCells
    OBVIOUS
  <2>1. Fits(ram) /\ s = ram
    BY <1>3
  <2>2. s.flashEnd <= Used(s)
    BY <1>2 DEF RamOK, StagedSound, Used
  <2>3. Used(s) + 1 + 1 <= BankCells
    BY <2>1 DEF Fits, Reserve
  <2> QED
    BY <1>2, <2>2, <2>3, RamFields, ConstantsType DEF Used
<1> HIDE DEF r
<1> QED
  BY <1>2, <1>3, <1>5, <1>6 DEF s, r

\* A set or a delete, up to its commit.
LEMMA StageDeep ==
    ASSUME KvDeep, KvInv', Call, NEW k \in Keys, NEW rec \in Data, rec.key = k,
           HasRoom(ram, k),
           rec \in Puts => k \in Live(ram) \/ Cardinality(Live(ram)) < MaxKeys,
           FinishMutation(AppendRecord(EnsureSpace(ram, k), rec))
    PROVE  KvDeep'
<1> DEFINE s == EnsureSpace(ram, k)
           r == AppendRecord(s, rec)
<1>1. ready /\ Grounded(medium, ram) /\ BanksOK(medium)
  BY IdleDeep DEF Call
<1>2. /\ RamOK(s) /\ ImageOK(s) /\ Renewed(ram, s)
      /\ RamOK(r) /\ ImageOK(r) /\ Extended(s, rec, r)
      /\ \A j \in Keys \ {k} : LiveMap(s)[j] = LiveMap(ram)[j]
      /\ ~s.needsPublish => s.flashEnd <= Used(s) /\ Used(s) + 1 < BankCells
  BY StageImage
<1>3. FinishMutation(r)
  OBVIOUS
<1> HIDE DEF s, r
<1>4. /\ r.dirty /\ Used(r) = Used(s) + 1 /\ r.active = s.active /\ r.gen = s.gen
      /\ r.needsPublish = s.needsPublish /\ r.flashEnd = s.flashEnd
      /\ \A i \in 1..Used(s) : r.img[i] = s.img[i]
  BY <1>2 DEF Extended
<1>5. Grounded(medium, s)
  BY <1>1, <1>2, GroundedRenewed
<1>6. Grounded(medium, r)
  <2>1. IsNewest(medium, r) <=> IsNewest(medium, s)
    BY <1>4 DEF IsNewest
  <2>2. /\ medium[r.active][0].gen = r.gen
        /\ ~IsNewest(medium, r) =>
              CommittedEnd(medium[Spare(r)]) = Len(medium[Spare(r)][0].body)
    BY <1>4, <1>5, <2>1 DEF Grounded, Spare
  <2>3. ~r.needsPublish => Holds(medium[r.active], r.img, r.flashEnd)
    <3> SUFFICES ASSUME ~r.needsPublish, NEW i \in 1..r.flashEnd
                 PROVE  medium[r.active][i] = r.img[i]
      BY DEF Holds
    <3>1. i \in 1..Used(s)
      BY <1>2, <1>4, RamFields, ConstantsType DEF Used
    <3>2. medium[s.active][i] = s.img[i]
      BY <1>4, <1>5 DEF Grounded, Holds
    <3> QED
      BY <1>4, <3>1, <3>2
  <2>4. ~r.needsPublish => /\ IsNewest(medium, r)
                           /\ CommittedEnd(medium[r.active]) = r.flashEnd
                           /\ ~LogDamaged(medium[r.active])
                           /\ Used(r) < BankCells
    BY <1>2, <1>4, <1>5, <2>1 DEF Grounded
  <2> QED
    BY <1>4, <2>2, <2>3, <2>4 DEF Grounded
<1> QED
  BY <1>1, <1>2, <1>3, <1>6, FinishMutationDeep DEF Call

LEMMA WriteLeft ==
    ASSUME KvDeep, Writing, WriteDone \/ WriteTorn
    PROVE  \E bank \in TornBanks(medium[WrittenBank], WriteTarget) : medium' = Left(bank)
<1>1. WriteTarget \in TornBanks(medium[WrittenBank], WriteTarget)
  BY DEF TornBanks
<1> QED
  BY <1>1 DEF WriteDone, WriteTorn, Left

\* A write of the spare bank, whole or torn.
LEMMA SpareWritten ==
    ASSUME KvDeep, Writing, pc # "append", WriteDone \/ WriteTorn
    PROVE  /\ BanksOK(medium') /\ medium'[ram.active] = medium[ram.active]
           /\ ready => Grounded(medium', ram)
           /\ WriteDone => medium'[Spare(ram)] = WriteTarget
<1>1. PICK bank \in TornBanks(medium[WrittenBank], WriteTarget) : medium' = Left(bank)
  BY WriteLeft
<1>2. /\ WrittenBank = Spare(ram) /\ Spare(ram) \in Banks /\ ram.active \in Banks
      /\ Spare(ram) = 1 - ram.active /\ ram.active # Spare(ram)
      /\ medium \in [Banks -> Bank]
  BY SpareContext
<1>3. BankOK(bank)
  BY <1>1, <1>2, SpareTorn
<1>4. ready => Grounded(medium', ram)
  BY <1>1, <1>2, SpareLeft
<1>5. /\ medium'[Spare(ram)] = bank /\ medium'[ram.active] = medium[ram.active]
      /\ \A b \in Banks : b = ram.active \/ b = Spare(ram)
  BY <1>1, <1>2 DEF Left, Banks
<1>6. BanksOK(medium')
  BY <1>3, <1>5 DEF BanksOK, KvDeep
<1>7. WriteDone => medium'[Spare(ram)] = WriteTarget
  BY <1>2 DEF WriteDone
<1> QED
  BY <1>4, <1>5, <1>6, <1>7

LEMMA SetDeep ==
    ASSUME KvDeep, KvInv', NEW k \in Keys, NEW v \in Vals, Set(k, v)
    PROVE  KvDeep'
<1>1. Put(k, v) \in Data /\ Put(k, v).key = k
  BY DEF Put, Data, Puts
<1> QED
  BY <1>1, StageDeep DEF Set

LEMMA DeleteDeep ==
    ASSUME KvDeep, KvInv', NEW k \in Keys, Delete(k)
    PROVE  KvDeep'
<1>1. Del(k) \in Data /\ Del(k).key = k /\ Del(k) \notin Puts
  BY DEF Del, Data, Dels, Puts
<1> QED
  BY <1>1, StageDeep DEF Delete

LEMMA CommitExDeep == KvDeep /\ KvInv' /\ CommitEx => KvDeep'
  BY CommitLockedDeep, IdleDeep DEF CommitEx, Call

LEMMA GcDeep ==
    ASSUME KvDeep, KvInv', Gc
    PROVE  KvDeep'
<1> DEFINE c == Compact(ram)
<1>1. /\ RamOK(ram) /\ ImageOK(ram) /\ ready /\ Grounded(medium, ram) /\ BanksOK(medium)
  BY IdleDeep DEF Gc, Call
<1>2. RamOK(c) /\ ImageOK(c)
  BY <1>1, CompactOK, CompactImage, ImageKeys
<1>3. Renewed(ram, c)
  BY <1>1, CompactFields DEF Renewed
<1> HIDE DEF c
<1>4. Grounded(medium, c)
  BY <1>1, <1>3, GroundedRenewed
<1>5. FinishMutation(c) /\ UNCHANGED <<medium, ready>>
  BY DEF Gc, Call, c
<1> QED
  BY <1>1, <1>2, <1>4, <1>5, FinishMutationDeep

LEMMA PrepareDeep ==
    ASSUME KvDeep, KvInv', Prepare
    PROVE  KvDeep'
<1>1. UNCHANGED <<medium, ram, ready>> /\ pc' = "prepare"
  BY DEF Prepare, Call
<1>2. BuildOK'
  BY <1>1 DEF BuildOK, Replacing
<1> QED
  BY <1>1, <1>2 DEF KvDeep

LEMMA RecoverDeep ==
    ASSUME KvDeep, KvInv', Recover
    PROVE  KvDeep'
<1> DEFINE b == Newest(medium)
           bank == medium[b]
           e == CommittedEnd(bank)
           r == [img |-> Slice(bank, 1, e), index |-> IndexOf(bank, e), flashEnd |-> e,
                 dirty |-> FALSE, needsPublish |-> FALSE, active |-> b, gen |-> bank[0].gen]
           s == Recovered(medium)
<1>1. b \in Banks /\ Valid(bank) /\ bank \in Bank
  BY NewestValid DEF Recover, KvDeep, KvInv
<1>2. e \in Nat
  BY <1>1, ValidEnd
<1>3. s = IF LogDamaged(bank) THEN NeedingPublish(r) ELSE r
  BY DEF Recovered
<1>4. RamOK(s) /\ Return(s) /\ ready' /\ medium' = medium
  BY RecoveredOK DEF Recover, KvDeep, KvInv
<1>5. /\ r.img = Slice(bank, 1, e) /\ r.index = IndexOf(bank, e) /\ r.flashEnd = e
      /\ ~r.dirty /\ ~r.needsPublish /\ r.active = b /\ r.gen = bank[0].gen
  OBVIOUS
<1>6. /\ s.img = Slice(bank, 1, e) /\ s.index = IndexOf(bank, e)
      /\ ~s.dirty /\ s.active = b /\ s.gen = bank[0].gen
      /\ ~s.needsPublish => s.flashEnd = e /\ ~LogDamaged(bank)
  <2>1. /\ NeedingPublish(r).img = r.img /\ NeedingPublish(r).index = r.index
        /\ NeedingPublish(r).dirty = r.dirty /\ NeedingPublish(r).active = r.active
        /\ NeedingPublish(r).gen = r.gen /\ NeedingPublish(r).needsPublish
    BY DEF NeedingPublish
  <2> HIDE DEF r, s, e
  <2> QED
    BY <1>3, <1>5, <2>1
<1> HIDE DEF r, s, e
<1>7. Used(s) = e /\ \A i \in 1..e : s.img[i] = bank[i]
  <2>1. Slice(bank, 1, e) = [i \in 1..e |-> bank[i]]
    <3>1. \A i \in 1..e : 1 + i - 1 = i
      OBVIOUS
    <3>2. e - 1 + 1 = e
      BY <1>2
    <3> QED
      BY <3>1, <3>2 DEF Slice
  <2>2. Len(s.img) \in Nat /\ s.img \in Seq(Rec)
    BY <1>4, RamFields, ConstantsType
  <2>3. DOMAIN s.img = 1..e
    BY <1>6, <2>1
  <2>4. Len(s.img) = e
    BY <1>2, <2>2, <2>3, LenProperties
  <2> QED
    BY <1>6, <2>1, <2>4 DEF Used
<1>8. ImageOK(s)
  <2>1. IndexOf(s.img, e) = IndexOf(bank, e)
    BY <1>2, <1>7, SameReplay
  <2>2. KeysFit(bank, e)
    BY <1>1 DEF KvDeep, BankOK, e
  <2>3. KeysFit(s.img, e)
    BY <1>2, <1>7, <2>2, SameKeysFit
  <2> QED
    BY <1>6, <1>7, <2>1, <2>3 DEF ImageOK
<1>9. Grounded(medium, s)
  <2>1. medium[s.active] = bank /\ IsNewest(medium, s)
    BY <1>6 DEF IsNewest
  <2>2. CommittedEnd(medium[s.active]) = e /\ Holds(medium[s.active], s.img, e)
    BY <1>7, <2>1 DEF Holds, e
  <2>3. ~(e > e)
    BY <1>2
  <2> QED
    BY <1>6, <1>7, <2>1, <2>2, <2>3 DEF Grounded
<1>10. BanksOK(medium')
  BY <1>4 DEF KvDeep, BanksOK
<1> QED
  BY <1>4, <1>8, <1>9, <1>10, ReturnDeep

LEMMA FormatDeep ==
    ASSUME KvDeep, KvInv', Format
    PROVE  KvDeep'
<1> DEFINE r == [Reset EXCEPT !.active = 1]
<1>1. RamOK(r) /\ ImageOK(r)
  BY ResetOK, ResetDeep DEF Banks
<1>2. ~ready /\ BanksOK(medium) /\ ~Valid(medium[r.active])
  <2>1. r.active = 1
    BY DEF Reset
  <2>2. ~Valid(medium[1])
    BY DEF Format, AnyValid, Banks
  <2> QED
    BY <2>1, <2>2 DEF Format, KvDeep, KvInv, PhaseOK, BanksOK
<1> QED
  BY <1>1, <1>2, BeginPublishDeep DEF Format

LEMMA AppendDoneDeep ==
    ASSUME KvDeep, KvInv', AppendDone
    PROVE  KvDeep'
<1> DEFINE n == Used(ram)
           a == ram.active
           new == WriteTarget
           r == [ram EXCEPT !.img = Closed(ram), !.flashEnd = n + 1, !.dirty = FALSE]
<1>1. pc = "append" /\ Return(r) /\ UNCHANGED ready
  BY DEF AppendDone
<1>2. /\ RamOK(ram) /\ ready /\ Grounded(medium, ram) /\ BanksOK(medium) /\ n \in Nat
  BY <1>1, IdleDeep, RamFields, ConstantsType DEF Used
<1>3. /\ r.img = Closed(ram) /\ r.index = ram.index /\ r.flashEnd = n + 1
      /\ r.active = a /\ r.gen = ram.gen /\ Spare(r) = Spare(ram)
  BY <1>2 DEF RamOK, Ram, Spare
<1>4. /\ Len(Closed(ram)) = n + 1 /\ IndexOf(Closed(ram), n + 1) = ram.index
      /\ KeysFit(Closed(ram), n + 1)
  BY <1>1, ClosedImage
<1>5. /\ CommittedEnd(new) = n + 1 /\ \A i \in 1..(n + 1) : new[i] = Closed(ram)[i]
      /\ ~LogDamaged(new)
  BY <1>1, AppendWhole
<1>6. WrittenBank = a /\ new \in TornBanks(medium[a], new)
  BY <1>1 DEF WrittenBank, TornBanks
<1>7. medium' = Left(new)
  BY <1>6 DEF AppendDone, WriteDone, Left
<1>8. /\ Left(new)[a] = new /\ Left(new)[Spare(ram)] = medium[Spare(ram)]
      /\ Newest(Left(new)) = a /\ new[0] = medium[a][0] /\ BankOK(new)
  BY <1>1, <1>6, AppendLeft
<1> HIDE DEF r, n, a, new
<1>9. Used(r) = n + 1 /\ ImageOK(r)
  BY <1>3, <1>4 DEF Used, ImageOK
<1>10. Grounded(medium', r)
  <2>1. IsNewest(medium', r) /\ medium'[r.active] = new
    BY <1>3, <1>7, <1>8 DEF IsNewest
  <2>2. new[0].gen = r.gen
    BY <1>2, <1>3, <1>8 DEF Grounded, a
  <2>3. Holds(new, r.img, n + 1)
    BY <1>3, <1>5 DEF Holds
  <2>4. ~(n + 1 > n + 1)
    BY <1>2
  <2> QED
    BY <1>3, <1>5, <1>9, <2>1, <2>2, <2>3, <2>4 DEF Grounded
<1>11. BanksOK(medium')
  <2>1. \A b \in Banks : b = a \/ b = Spare(ram)
    BY <1>2, RamFields DEF a, Spare, Banks
  <2> QED
    BY <1>2, <1>7, <1>8, <2>1 DEF BanksOK
<1> QED
  BY <1>1, <1>9, <1>10, <1>11, ReturnDeep

\* A batch that was torn in a tail that still reads erased left no trace.
LEMMA AppendFailsDeep ==
    ASSUME KvDeep, KvInv', AppendFails
    PROVE  KvDeep'
<1> DEFINE a == ram.active
           old == medium[a]
           f == ram.flashEnd
           n == Used(ram)
           s == NeedingPublish(ram)
           blank == IsErased(medium'[a], f + 1, n + 1)
<1>1. pc = "append" /\ UNCHANGED ready /\ Writing
  BY DEF AppendFails, Writing
<1>2. /\ RamOK(ram) /\ ImageOK(ram) /\ ready /\ Grounded(medium, ram) /\ BanksOK(medium)
      /\ ram.dirty
  BY <1>1, IdleDeep DEF KvDeep, BuildOK
<1>3. WrittenBank = a
  BY <1>1 DEF WrittenBank
<1>4. PICK bank \in TornBanks(medium[a], WriteTarget) : medium' = Left(bank)
  BY <1>1, <1>3, WriteLeft DEF AppendFails
<1>5. /\ Left(bank)[a] = bank /\ Left(bank)[Spare(ram)] = medium[Spare(ram)]
      /\ Newest(Left(bank)) = a /\ bank[0] = old[0] /\ BankOK(bank)
      /\ \/ bank = WriteTarget
         \/ /\ CommittedEnd(bank) = f
            /\ \A i \in 0..f : bank[i] = old[i]
  BY <1>1, <1>4, AppendLeft
<1>6. BanksOK(medium')
  <2>1. \A b \in Banks : b = a \/ b = Spare(ram)
    BY <1>2, RamFields DEF Spare, Banks
  <2> QED
    BY <1>2, <1>4, <1>5, <2>1 DEF BanksOK
<1>7. IsNewest(medium', ram) /\ medium'[a][0].gen = ram.gen
  BY <1>2, <1>4, <1>5 DEF IsNewest, Grounded
<1>8. IF blank THEN Return(ram) ELSE Return(s)
  BY DEF AppendFails
<1>9. CASE ~blank
  <2>1. /\ s.img = ram.img /\ s.index = ram.index /\ s.dirty = ram.dirty
        /\ s.active = ram.active /\ s.gen = ram.gen /\ s.needsPublish
    BY <1>2, NeedingPublishFields
  <2>2. Return(s)
    BY <1>8, <1>9
  <2> HIDE DEF s
  <2>3. ImageOK(s)
    BY <1>2, <2>1 DEF ImageOK, Used
  <2>4. Grounded(medium', s)
    BY <1>2, <1>7, <2>1 DEF Grounded, IsNewest
  <2> QED
    BY <1>6, <2>2, <2>3, <2>4, ReturnDeep
<1>10. CASE blank
  <2>1. /\ old \in Bank /\ WriteTarget \in Bank
        /\ f \in Nat /\ n \in Nat /\ f < n /\ n < BankCells /\ BankCells \in Nat
        /\ \A i \in 1..f : old[i] = ram.img[i]
        /\ \A i \in (f + 1)..(n + 1) : WriteTarget[i] = Closed(ram)[i]
        /\ \A i \in (f + 1)..BankCells : old[i] = Erased
        /\ \A i \in (n + 2)..BankCells : WriteTarget[i] = Erased
    BY <1>1, AppendContext
  <2>2. medium'[a] = bank
    BY <1>4, <1>5
  <2>3. \A i \in (f + 1)..(n + 1) : bank[i] = Erased
    BY <1>10, <2>2 DEF IsErased
  <2>4. bank # WriteTarget
    <3>1. Closed(ram)[n + 1] = Commit(f + 1, Slice(ram.img, f + 1, n))
      BY <1>1, ClosedImage
    <3> HIDE DEF f, n, old
    <3>2. n + 1 \in (f + 1)..(n + 1)
      BY <2>1
    <3>3. WriteTarget[n + 1] # Erased
      BY <2>1, <3>1, <3>2 DEF Commit, Erased
    <3> QED
      BY <2>3, <3>2, <3>3
  <2>5. /\ CommittedEnd(bank) = f /\ \A i \in 0..f : bank[i] = old[i]
    BY <1>5, <2>4
  <2>6. \A i \in (f + 1)..BankCells : bank[i] = Erased
    <3> SUFFICES ASSUME NEW i \in (f + 1)..BankCells PROVE bank[i] = Erased
      OBVIOUS
    <3>1. i \in (f + 1)..(n + 1) \/ i \in (n + 2)..BankCells
      BY <2>1
    <3>2. i \in Cells
      BY <2>1 DEF Cells
    <3>3. i \in (n + 2)..BankCells => bank[i] = old[i]
      <4>1. i \in (n + 2)..BankCells => old[i] = WriteTarget[i]
        BY <2>1
      <4>2. bank \in TornBanks(old, WriteTarget)
        BY <1>4
      <4> HIDE DEF old, f, n
      <4> QED
        BY <2>1, <3>2, <4>1, <4>2, TornKeeps
    <3> QED
      BY <2>1, <2>3, <3>1, <3>3
  <2>7. ~LogDamaged(bank)
    BY <2>5, <2>6 DEF LogDamaged, IsErased
  <2>8. Holds(bank, ram.img, f)
    <3>1. \A i \in 1..f : i \in 0..f
      BY <2>1
    <3> QED
      BY <2>1, <2>5, <3>1 DEF Holds
  <2>9. Grounded(medium', ram)
    BY <1>2, <1>7, <2>1, <2>2, <2>5, <2>7, <2>8 DEF Grounded
  <2> QED
    BY <1>2, <1>6, <1>8, <1>10, <2>9, ReturnDeep
<1> QED
  BY <1>9, <1>10

LEMMA AppendUnwritableDeep ==
    ASSUME KvDeep, KvInv', AppendUnwritable
    PROVE  KvDeep'
BY IdleDeep, BeginPublishDeep DEF AppendUnwritable

LEMMA EraseDoneDeep ==
    ASSUME KvDeep, KvInv', EraseDone
    PROVE  KvDeep'
<1>1. /\ pc = "erase" /\ Writing /\ Replacing /\ WriteDone
      /\ pc' = "body" /\ UNCHANGED <<ram, ready>>
  BY DEF EraseDone, Writing, Replacing
<1>2. /\ BanksOK(medium') /\ medium'[ram.active] = medium[ram.active]
      /\ ready => Grounded(medium', ram)
      /\ medium'[Spare(ram)] = WriteTarget
  BY <1>1, SpareWritten
<1>3. WriteTarget = BlankBank
  BY <1>1, SpareContext
<1>4. BuildOK'
  BY <1>1, <1>2, <1>3 DEF BuildOK, KvDeep, Replacing, Spare
<1> QED
  BY <1>1, <1>2, <1>4 DEF KvDeep, BanksOK

LEMMA BodyDoneDeep ==
    ASSUME KvDeep, KvInv', BodyDone
    PROVE  KvDeep'
<1>1. /\ pc = "body" /\ Writing /\ Replacing /\ WriteDone
      /\ pc' = "header" /\ UNCHANGED <<ram, ready>>
  BY DEF BodyDone, Writing, Replacing
<1>2. /\ BanksOK(medium') /\ medium'[ram.active] = medium[ram.active]
      /\ ready => Grounded(medium', ram)
      /\ medium'[Spare(ram)] = WriteTarget
  BY <1>1, SpareWritten
<1>3. WriteTarget = Built(ram)
  BY <1>1, SpareContext
<1>4. BuildOK'
  BY <1>1, <1>2, <1>3 DEF BuildOK, KvDeep, Replacing, Spare
<1> QED
  BY <1>1, <1>2, <1>4 DEF KvDeep, BanksOK

LEMMA HeaderDoneDeep ==
    ASSUME KvDeep, KvInv', HeaderDone
    PROVE  KvDeep'
<1> DEFINE r == Published(ram)
           n == Used(ram)
           new == WriteTarget
<1>1. /\ pc = "header" /\ Writing /\ Replacing /\ WriteDone /\ Return(r) /\ ready'
  BY DEF HeaderDone, Writing, Replacing
<1>2. /\ RamOK(ram) /\ ImageOK(ram) /\ n \in Nat
  BY RamFields, ConstantsType DEF KvDeep, KvInv, Used
<1>3. /\ BanksOK(medium') /\ medium'[ram.active] = medium[ram.active]
      /\ medium'[Spare(ram)] = new
  BY <1>1, SpareWritten
<1>4. /\ Valid(new) /\ new[0].gen = NextGen(ram.gen) /\ Len(new[0].body) = n
      /\ CommittedEnd(new) = n /\ Holds(new, ram.img, n) /\ ~LogDamaged(new)
  BY <1>1, PublishWhole
<1>5. /\ r.img = ram.img /\ r.index = ram.index /\ r.flashEnd = n /\ r.active = Spare(ram)
      /\ r.gen = NextGen(ram.gen) /\ Used(r) = n
  BY <1>2 DEF Published, RamOK, Ram, Used
<1>6. /\ ram.active \in Banks /\ Spare(ram) = 1 - ram.active /\ ram.gen \in Gens
      /\ Spare(ram) \in Banks /\ 1 - Spare(ram) = ram.active
  BY <1>2, RamFields DEF Spare, Banks
<1> HIDE DEF r, n, new
<1>7. Newest(medium') = Spare(ram)
  <2>1. CASE ready
    <3>1. Valid(medium[ram.active]) /\ medium[ram.active][0].gen = ram.gen
      BY <2>1 DEF KvDeep, KvInv, ActiveOK, Grounded
    <3> QED
      BY <1>3, <1>4, <1>6, <3>1, PublishedIsPicked
  <2>2. CASE ~ready
    <3>1. ~Valid(medium[ram.active])
      BY <1>1, <2>2 DEF KvDeep, BuildOK
    <3> QED
      BY <1>3, <1>4, <1>6, <3>1, OnlyValid
  <2> QED
    BY <2>1, <2>2
<1>8. ImageOK(r)
  BY <1>2, <1>5 DEF ImageOK, n
<1>9. Grounded(medium', r)
  <2>1. IsNewest(medium', r) /\ medium'[r.active] = new
    BY <1>3, <1>5, <1>7 DEF IsNewest
  <2>2. ~(n > n)
    BY <1>2
  <2> QED
    BY <1>4, <1>5, <2>1, <2>2 DEF Grounded
<1> QED
  BY <1>1, <1>3, <1>8, <1>9, ReturnDeep

LEMMA PublishFailsDeep ==
    ASSUME KvDeep, KvInv', Replacing, PublishFails, UNCHANGED ready, BanksOK(medium'),
           ready => Grounded(medium', ram)
    PROVE  KvDeep'
<1>1. CASE ready
  BY <1>1, ReturnDeep DEF PublishFails, Return, KvDeep
<1>2. CASE ~ready
  <2>1. ram' = Reset /\ pc' = "down" /\ ~ready'
    BY <1>2 DEF PublishFails
  <2>2. ImageOK(ram')
    BY <2>1, ResetDeep DEF Banks
  <2>3. BuildOK'
    BY <2>1 DEF BuildOK, Replacing
  <2> QED
    BY <2>1, <2>2, <2>3 DEF KvDeep, BanksOK
<1> QED
  BY <1>1, <1>2

LEMMA ReplaceFailsDeep ==
    ASSUME KvDeep, KvInv', ReplaceFails
    PROVE  KvDeep'
<1>1. Writing /\ pc # "append" /\ WriteTorn /\ Replacing /\ UNCHANGED ready
  BY DEF ReplaceFails, Writing, Replacing
<1>2. /\ BanksOK(medium') /\ medium'[ram.active] = medium[ram.active]
      /\ ready => Grounded(medium', ram)
  BY <1>1, SpareWritten
<1>3. CASE readsErased
  <2>1. pc' = "erase" /\ ram' = ram
    BY <1>3 DEF ReplaceFails
  <2>2. BuildOK'
    BY <1>1, <1>2, <2>1 DEF BuildOK, KvDeep, Replacing
  <2> QED
    BY <1>1, <1>2, <2>1, <2>2 DEF KvDeep, BanksOK
<1>4. CASE ~readsErased
  BY <1>1, <1>2, <1>4, PublishFailsDeep DEF ReplaceFails
<1> QED
  BY <1>3, <1>4

LEMMA ReplaceRefusedDeep ==
    ASSUME KvDeep, KvInv', ReplaceRefused
    PROVE  KvDeep'
<1>1. Replacing /\ PublishFails /\ UNCHANGED <<medium, ready>>
  BY DEF ReplaceRefused, Replacing
<1>2. BanksOK(medium') /\ (ready => Grounded(medium', ram))
  BY <1>1 DEF KvDeep, BanksOK
<1> QED
  BY <1>1, <1>2, PublishFailsDeep

LEMMA PrepareReturnsDeep ==
    ASSUME KvDeep, KvInv', PrepareReturns
    PROVE  KvDeep'
<1>1. /\ pc = "prepare" /\ Writing /\ (WriteDone \/ WriteTorn) /\ Return(ram)
  BY DEF PrepareReturns, Writing
<1>2. ready /\ ImageOK(ram)
  BY <1>1, IdleDeep
<1>3. BanksOK(medium') /\ Grounded(medium', ram)
  BY <1>1, <1>2, SpareWritten
<1> QED
  BY <1>1, <1>2, <1>3, ReturnDeep

LEMMA PowerLossDeep ==
    ASSUME KvDeep, KvInv', PowerLoss
    PROVE  KvDeep'
<1>1. ram' = Reset /\ pc' = "down" /\ ~ready'
  BY DEF PowerLoss
<1>2. ImageOK(ram')
  BY <1>1, ResetDeep DEF Banks
<1>3. BuildOK'
  BY <1>1 DEF BuildOK, Replacing
<1>4. BanksOK(medium')
  <2>1. CASE ~Writing
    BY <2>1 DEF PowerLoss, KvDeep, BanksOK
  <2>2. CASE Writing /\ pc # "append"
    BY <2>2, SpareWritten DEF PowerLoss
  <2>3. CASE Writing /\ pc = "append"
    <3>1. WrittenBank = ram.active /\ WriteTorn
      BY <2>3 DEF WrittenBank, PowerLoss
    <3>2. PICK bank \in TornBanks(medium[ram.active], WriteTarget) : medium' = Left(bank)
      BY <2>3, <3>1, WriteLeft
    <3>3. /\ Left(bank)[ram.active] = bank
          /\ Left(bank)[Spare(ram)] = medium[Spare(ram)] /\ BankOK(bank)
      BY <2>3, <3>2, AppendLeft
    <3>4. \A b \in Banks : b = ram.active \/ b = Spare(ram)
      BY RamFields DEF KvDeep, KvInv, Spare, Banks
    <3> QED
      BY <3>2, <3>3, <3>4 DEF KvDeep, BanksOK
  <2> QED
    BY <2>1, <2>2, <2>3
<1> QED
  BY <1>1, <1>2, <1>3, <1>4 DEF KvDeep, BanksOK

LEMMA KvInitDeep == Init => KvDeep
<1> SUFFICES ASSUME Init PROVE KvDeep
  OBVIOUS
<1>1. KvInv
  BY KvInitOK
<1>2. ImageOK(ram)
  BY ResetDeep DEF Init, Banks
<1>3. \A b \in Banks : BankOK(medium[b])
  <2>1. \A b \in Banks : medium[b][0] = Erased
    BY ConstantsType DEF Init, BlankBank
  <2> QED
    BY <2>1 DEF BankOK, Valid, Erased
<1>4. ~ready /\ BuildOK
  BY DEF Init, BuildOK, Replacing
<1> QED
  BY <1>1, <1>2, <1>3, <1>4 DEF KvDeep

LEMMA KvStepDeep == KvDeep /\ [Next]_vars => KvDeep'
<1> SUFFICES ASSUME KvDeep, [Next]_vars PROVE KvDeep'
  OBVIOUS
<1>1. KvInv'
  BY KvStepOK DEF KvDeep
<1>2. CASE UNCHANGED vars
  BY <1>1, <1>2 DEF vars, KvDeep, BuildOK, Replacing
<1>3. CASE FlashStep
  BY <1>1, <1>3, AppendDoneDeep, AppendFailsDeep, AppendUnwritableDeep, EraseDoneDeep,
     BodyDoneDeep, HeaderDoneDeep, ReplaceFailsDeep, ReplaceRefusedDeep,
     PrepareReturnsDeep DEF FlashStep
<1> QED
  BY <1>1, <1>2, <1>3, SetDeep, DeleteDeep, CommitExDeep, GcDeep, PrepareDeep,
     RecoverDeep, FormatDeep, PowerLossDeep DEF Next

\* hal_kv: the inductive invariant the five theorems below rest on.
THEOREM KvDeepInvariance == Spec => []KvDeep
<1> QED
  BY KvInitDeep, KvStepDeep, PTL DEF Spec

\* s_index, kept call by call, is what a replay of the image would build, after
\* any sequence of sets, deletes, compactions, failed commits and restarts.
THEOREM IndexAlwaysReplays == Spec => []IndexIsReplay
<1>1. KvDeep => IndexIsReplay
  BY DEF KvDeep, ImageOK, IndexIsReplay
<1> QED
  BY <1>1, KvDeepInvariance, PTL

\* An image that owes nothing is the map of its bank, which a restart finds.
LEMMA CleanImage ==
    ASSUME NEW m \in [Banks -> Bank], NEW r, RamOK(r), ImageOK(r), ActiveOK(m, r),
           Grounded(m, r), ~r.dirty
    PROVE  /\ LiveMap(r) = DurableMapOf(m)
           /\ BankMap(m[r.active]) = DurableMapOf(m)
<1> DEFINE bank == m[r.active]
           n == Used(r)
<1>1. /\ Newest(m) = r.active /\ CommittedEnd(bank) = n
      /\ \A i \in 1..n : bank[i] = r.img[i]
  BY DEF Grounded, IsNewest, Holds
<1>2. bank \in Bank /\ Valid(bank) /\ r.active \in Banks /\ n \in Nat
  BY RamFields, ConstantsType DEF ActiveOK, Used
<1>3. DurableMapOf(m) = BankMap(bank)
  BY <1>1, <1>2, DurableIs DEF AnyValid
<1> HIDE DEF bank, n
<1>4. BankMap(bank) = MapOf(bank, IndexOf(bank, n))
  BY <1>1, <1>2, ValidEnd
<1>5. MapOf(bank, IndexOf(bank, n)) = MapOf(r.img, IndexOf(r.img, n))
  BY <1>1, <1>2, SameReplay
<1> QED
  BY <1>3, <1>4, <1>5 DEF ImageOK, LiveMap, n, bank

\* A clean store has told its caller nothing that a restart would not find, and
\* reads every value at the offset where the flash holds it.
THEOREM CleanStoresAreDurable == Spec => []CleanIsDurable
<1>1. ASSUME KvDeep PROVE CleanIsDurable
  <2> SUFFICES ASSUME ready, pc = "idle", ~ram.dirty
               PROVE  /\ LiveMap(ram) = DurableMapOf(medium)
                      /\ \A k \in Live(ram) :
                           medium[ram.active][ram.index[k]] = ram.img[ram.index[k]]
    BY DEF CleanIsDurable
  <2>1. /\ RamOK(ram) /\ ImageOK(ram) /\ Grounded(medium, ram) /\ ActiveOK(medium, ram)
        /\ medium \in [Banks -> Bank]
    BY <1>1, IdleDeep DEF KvDeep, KvInv
  <2>2. LiveMap(ram) = DurableMapOf(medium)
    BY <2>1, CleanImage
  <2>3. \A i \in 1..Used(ram) : medium[ram.active][i] = ram.img[i]
    BY <2>1 DEF Grounded, Holds
  <2>4. \A k \in Live(ram) : ram.index[k] \in 1..Used(ram)
    BY <2>1 DEF RamOK, IndexSound, Live, Present, Used
  <2> QED
    BY <2>2, <2>3, <2>4
<1> QED
  BY <1>1, KvDeepInvariance, PTL

\* append_batch_locked writes behind the last batch that a restart accepts, in
\* the bank it picks, over erased cells, and with room to close the batch.
THEOREM AppendsAreSafe == Spec => []AppendIsSafe
<1>1. KvDeep => AppendIsSafe
  BY DEF KvDeep, Grounded, IsNewest, AppendIsSafe
<1> QED
  BY <1>1, KvDeepInvariance, PTL

\* hal_kv_init_ex finds an index slot for every record that it replays.
THEOREM RecoveriesFit == Spec => []RecoveryFits
<1>1. ASSUME KvDeep, AnyValid(medium)
      PROVE  LET bank == medium[Newest(medium)] IN IndexFits(bank, CommittedEnd(bank))
  <2> DEFINE bank == medium[Newest(medium)]
             e == CommittedEnd(bank)
  <2>1. Newest(medium) \in Banks /\ Valid(bank)
    BY <1>1, NewestValid
  <2>2. KeysFit(bank, e) /\ bank \in Bank
    BY <1>1, <2>1 DEF KvDeep, KvInv, BankOK
  <2>3. e \in Nat
    BY <2>1, <2>2, ValidEnd
  <2> HIDE DEF e, bank
  <2>4. IndexFits(bank, e)
    BY <2>2, <2>3 DEF KeysFit, IndexFits
  <2> QED
    BY <2>4 DEF e, bank
<1>2. KvDeep => RecoveryFits
  BY <1>1 DEF RecoveryFits
<1> QED
  BY <1>2, KvDeepInvariance, PTL

\* However a write stops, a restart finds all of the batch or none of it.
THEOREM TearsAreAtomic == Spec => []TearIsAtomic
<1>1. ASSUME KvDeep PROVE TearIsAtomic
  <2> SUFFICES ASSUME ready, Writing, NEW bank \in TornBanks(medium[WrittenBank], WriteTarget)
               PROVE  DurableMapOf(Left(bank)) \in
                        {DurableMapOf(medium), BankMap(medium[ram.active])}
                          \cup (IF pc = "prepare" THEN {} ELSE {LiveMap(ram)})
    BY DEF TearIsAtomic, Left
  <2>1. CASE pc = "append"
    <3>1. bank \in TornBanks(medium[ram.active], WriteTarget)
      BY <2>1 DEF WrittenBank
    <3>2. /\ DurableMapOf(medium) = BankMap(medium[ram.active])
          /\ DurableMapOf(Left(bank)) = BankMap(bank)
          /\ BankMap(bank) \in {LiveMap(ram), BankMap(medium[ram.active])}
      BY <1>1, <2>1, <3>1, AppendLeft
    <3> QED
      BY <2>1, <3>2
  <2>2. CASE pc # "append"
    <3>1. bank \in TornBanks(medium[Spare(ram)], WriteTarget)
      BY <2>2 DEF WrittenBank
    <3>2. DurableMapOf(Left(bank)) \in
            {DurableMapOf(medium), BankMap(medium[ram.active])}
              \cup (IF pc = "header" THEN {LiveMap(ram)} ELSE {})
      BY <1>1, <2>2, <3>1, SpareLeft
    <3>3. pc = "header" => pc # "prepare"
      OBVIOUS
    <3> QED
      BY <3>2, <3>3
  <2> QED
    BY <2>1, <2>2
<1> QED
  BY <1>1, KvDeepInvariance, PTL
(***************************************************************************)
(* The refinement.  Each call and each flash step is a step of the durable *)
(* map, or none of it shows there.                                         *)
(***************************************************************************)
\* The map callers see once a call that changes the image is under way: the
\* change is staged, and its commit may have begun.
LEMMA ChangeStaged ==
    ASSUME KvDeep, Call, NEW r, RamOK(r), r.dirty, r.active = ram.active,
           r.needsPublish \/ Used(r) # r.flashEnd, FinishMutation(r)
    PROVE  /\ LiveMap(ram') = LiveMap(r) /\ ram'.dirty /\ ram'.active = ram.active
           /\ pc' \in {"idle", "append", "erase", "body"}
           /\ UNCHANGED <<medium, ready>>
<1>1. /\ LiveMap(Compact(r)) = LiveMap(r) /\ Compact(r).dirty
      /\ Compact(r).active = r.active
  BY CompactImage, CompactFields
<1>2. UNCHANGED <<medium, ready>>
  BY DEF Call
<1>3. Return(r) \/ BeginPublish(r) \/ BeginAppend(r)
  BY DEF FinishMutation, CommitLocked
<1>4. CASE Return(r)
  BY <1>2, <1>4 DEF Return
<1>5. CASE BeginPublish(r)
  <2>1. ram' = Compact(r) /\ pc' \in {"body", "erase"}
    BY <1>5 DEF BeginPublish
  <2> QED
    BY <1>1, <1>2, <2>1
<1>6. CASE BeginAppend(r)
  BY <1>2, <1>6 DEF BeginAppend
<1> QED
  BY <1>3, <1>4, <1>5, <1>6

\* ... is one step of the durable map, whichever key it changes, or none.
LEMMA ChangeStages ==
    ASSUME KvDeep, Call, NEW r, RamOK(r), r.dirty, r.active = ram.active,
           r.needsPublish \/ Used(r) # r.flashEnd, FinishMutation(r),
           \/ LiveMap(r) = LiveMap(ram)
           \/ \E k \in Keys, v \in Vals \cup {NoVal} :
                 LiveMap(r) = [LiveMap(ram) EXCEPT ![k] = v]
    PROVE  Abs!Stage
<1>1. ready /\ pc = "idle"
  BY IdleDeep DEF Call
<1>2. /\ LiveMap(ram') = LiveMap(r) /\ ram'.dirty /\ ram'.active = ram.active
      /\ pc' \in {"idle", "append", "erase", "body"}
      /\ medium' = medium /\ ready' = ready
  BY ChangeStaged
<1>3. (IF ready THEN LiveMap(ram) ELSE NoMap) = LiveMap(ram)
      /\ (IF ready' THEN LiveMap(ram') ELSE NoMap) = LiveMap(r)
  BY <1>1, <1>2
<1> QED
  BY <1>1, <1>2, <1>3 DEF Abs!Stage
\* A set or a delete changes one key of the map.
LEMMA StageStages ==
    ASSUME KvDeep, Call, NEW k \in Keys, NEW rec \in Data, rec.key = k,
           HasRoom(ram, k),
           rec \in Puts => k \in Live(ram) \/ Cardinality(Live(ram)) < MaxKeys,
           FinishMutation(AppendRecord(EnsureSpace(ram, k), rec))
    PROVE  Abs!Stage
<1> DEFINE s == EnsureSpace(ram, k)
           r == AppendRecord(s, rec)
           v == IF rec \in Puts THEN rec.val ELSE NoVal
<1>1. /\ RamOK(s) /\ ImageOK(s) /\ Renewed(ram, s)
      /\ RamOK(r) /\ ImageOK(r) /\ Extended(s, rec, r)
      /\ \A j \in Keys \ {k} : LiveMap(s)[j] = LiveMap(ram)[j]
      /\ ~s.needsPublish => s.flashEnd <= Used(s) /\ Used(s) + 1 < BankCells
  BY StageImage
<1>2. FinishMutation(r)
  OBVIOUS
<1> HIDE DEF r, s
<1>3. /\ r.dirty /\ r.active = ram.active /\ Used(r) = Used(s) + 1
      /\ r.needsPublish = s.needsPublish /\ r.flashEnd = s.flashEnd
      /\ LiveMap(r) = [LiveMap(s) EXCEPT ![k] = v]
  BY <1>1 DEF Extended, Renewed
<1>4. r.needsPublish \/ Used(r) # r.flashEnd
  BY <1>1, <1>3, RamFields, ConstantsType DEF Used
<1>5. v \in Vals \cup {NoVal}
  BY DEF Puts
<1> HIDE DEF v
<1>6. LiveMap(r) = [LiveMap(ram) EXCEPT ![k] = v]
  <2>1. /\ LiveMap(s) = [j \in Keys |-> LiveMap(s)[j]]
        /\ LiveMap(ram) = [j \in Keys |-> LiveMap(ram)[j]]
    BY DEF LiveMap, MapOf
  <2> QED
    BY <1>1, <1>3, <2>1
<1> QED
  BY <1>1, <1>2, <1>3, <1>4, <1>5, <1>6, ChangeStages

LEMMA SetStages ==
    ASSUME KvDeep, NEW k \in Keys, NEW v \in Vals, Set(k, v)
    PROVE  Abs!Stage
<1>1. Put(k, v) \in Data /\ Put(k, v).key = k
  BY DEF Put, Data, Puts
<1> QED
  BY <1>1, StageStages DEF Set

LEMMA DeleteStages ==
    ASSUME KvDeep, NEW k \in Keys, Delete(k)
    PROVE  Abs!Stage
<1>1. Del(k) \in Data /\ Del(k).key = k /\ Del(k) \notin Puts
  BY DEF Del, Data, Dels, Puts
<1> QED
  BY <1>1, StageStages DEF Delete

LEMMA GcStages ==
    ASSUME KvDeep, Gc
    PROVE  Abs!Stage
<1> DEFINE c == Compact(ram)
<1>1. RamOK(ram) /\ Call /\ FinishMutation(c)
  BY IdleDeep DEF Gc, Call
<1>2. RamOK(c)
  BY <1>1, CompactOK
<1>3. c.dirty /\ c.needsPublish /\ c.active = ram.active /\ LiveMap(c) = LiveMap(ram)
  BY <1>1, CompactFields, CompactImage
<1> HIDE DEF c
<1> QED
  BY <1>1, <1>2, <1>3, ChangeStages
\* A call that ends with nothing owed: callers see what a restart finds.
LEMMA CleanNext ==
    ASSUME KvDeep', ready', ~ram'.dirty
    PROVE  /\ LiveMap(ram') = DurableMapOf(medium')
           /\ BankMap(medium'[ram'.active]) = DurableMapOf(medium')
<1>1. /\ medium' \in [Banks -> Bank] /\ RamOK(ram') /\ ImageOK(ram')
      /\ ActiveOK(medium', ram') /\ Grounded(medium', ram')
  BY DEF KvDeep, KvInv
<1> QED
  BY <1>1, CleanImage

LEMMA CommitExImplements ==
    ASSUME KvDeep, KvDeep', CommitEx
    PROVE  Abs!Stage \/ Abs!Recover \/ UNCHANGED Abs!absVars
<1>1. /\ RamOK(ram) /\ Call /\ CommitLocked(ram) /\ pc = "idle" /\ ready
      /\ medium' = medium /\ ready' = ready
  BY IdleDeep DEF CommitEx, Call
<1>2. CASE ~ram.dirty
  <2>1. ram' = ram /\ pc' = "idle"
    BY <1>1, <1>2 DEF CommitLocked, Return
  <2> QED
    BY <1>1, <2>1 DEF Abs!absVars
<1>3. CASE ram.dirty /\ ~ram.needsPublish /\ Used(ram) = ram.flashEnd
  <2> DEFINE r == [ram EXCEPT !.dirty = FALSE]
  <2>1. ~r.dirty /\ Return(r)
    BY <1>1, <1>3 DEF CommitLocked, RamOK, Ram
  <2> HIDE DEF r
  <2>2. ram' = r /\ pc' = "idle" /\ ~ram'.dirty
    BY <2>1 DEF Return
  <2>3. /\ LiveMap(ram') = DurableMapOf(medium')
        /\ BankMap(medium'[ram'.active]) = DurableMapOf(medium')
    BY <1>1, <2>2, CleanNext
  <2> QED
    BY <1>1, <2>2, <2>3 DEF Abs!Recover
<1>4. CASE ram.dirty /\ (ram.needsPublish \/ Used(ram) # ram.flashEnd)
  <2>1. FinishMutation(ram)
    BY <1>1 DEF FinishMutation
  <2> QED
    BY <1>1, <1>4, <2>1, ChangeStages
<1> QED
  BY <1>2, <1>3, <1>4

LEMMA RecoverRecovers ==
    ASSUME KvDeep, KvDeep', Recover
    PROVE  Abs!Recover
<1>1. /\ pc \in {"down", "idle"} /\ pc' = "idle" /\ ready' /\ medium' = medium
      /\ ram' = Recovered(medium) /\ (pc = "down" <=> ~ready)
  BY DEF Recover, Return, KvDeep, KvInv, PhaseOK
<1>2. ~ram'.dirty
  BY <1>1 DEF Recovered, NeedingPublish
<1>3. /\ LiveMap(ram') = DurableMapOf(medium')
      /\ BankMap(medium'[ram'.active]) = DurableMapOf(medium')
  BY <1>1, <1>2, CleanNext
<1> QED
  BY <1>1, <1>2, <1>3 DEF Abs!Recover

\* What a write that ended, or stopped, has made of the two maps.
LEMMA WriteLands ==
    ASSUME KvDeep, ready, Writing, WriteDone \/ WriteTorn
    PROVE  /\ DurableMapOf(medium') \in
                {DurableMapOf(medium), BankMap(medium[ram.active])}
                  \cup (IF pc = "prepare" THEN {} ELSE {LiveMap(ram)})
           /\ BankMap(medium'[ram.active]) \in
                {BankMap(medium[ram.active])}
                  \cup (IF pc = "append" THEN {LiveMap(ram)} ELSE {})
<1>1. PICK bank \in TornBanks(medium[WrittenBank], WriteTarget) : medium' = Left(bank)
  BY WriteLeft
<1>2. CASE pc = "append"
  <2>1. bank \in TornBanks(medium[ram.active], WriteTarget)
    BY <1>1, <1>2 DEF WrittenBank
  <2>2. /\ Left(bank)[ram.active] = bank
        /\ DurableMapOf(Left(bank)) = BankMap(bank)
        /\ BankMap(bank) \in {LiveMap(ram), BankMap(medium[ram.active])}
    BY <1>2, <2>1, AppendLeft
  <2> QED
    BY <1>1, <1>2, <2>2
<1>3. CASE pc # "append"
  <2>1. bank \in TornBanks(medium[Spare(ram)], WriteTarget)
    BY <1>1, <1>3 DEF WrittenBank
  <2>2. DurableMapOf(Left(bank)) \in
          {DurableMapOf(medium), BankMap(medium[ram.active])}
            \cup (IF pc = "header" THEN {LiveMap(ram)} ELSE {})
    BY <1>3, <2>1, SpareLeft
  <2>3. medium'[ram.active] = medium[ram.active]
    BY <1>3, SpareWritten
  <2>4. pc = "header" => pc # "prepare"
    OBVIOUS
  <2> QED
    BY <1>1, <1>3, <2>2, <2>3, <2>4
<1> QED
  BY <1>2, <1>3

\* A step of a commit that has not told its caller HAL_OK.
LEMMA CommitLands ==
    ASSUME KvDeep, ready, Writing, pc # "prepare", WriteDone \/ WriteTorn,
           LiveMap(ram') = LiveMap(ram), ram'.dirty = ram.dirty,
           ram'.active = ram.active, pc' \in {"idle", "erase", "body", "header"},
           UNCHANGED ready
    PROVE  Abs!Land
<1>1. /\ DurableMapOf(medium') \in
           {DurableMapOf(medium), LiveMap(ram), BankMap(medium[ram.active])}
      /\ BankMap(medium'[ram'.active]) \in {BankMap(medium[ram.active]), LiveMap(ram)}
  BY WriteLands
<1>2. pc \notin {"idle", "prepare"}
  BY DEF Writing, Replacing
<1> QED
  BY <1>1, <1>2 DEF Abs!Land
(***************************************************************************)
(* The first format publishes the empty map, and until it is done a        *)
(* restart finds the empty map as well.                                    *)
(***************************************************************************)
FormatSound ==
    Replacing /\ ~ready => LiveMap(ram) = NoMap /\ DurableMapOf(medium) = NoMap

LEMMA NothingHeld ==
    ASSUME NEW c
    PROVE  MapOf(c, IndexOf(c, 0)) = NoMap
<1>1. IndexOf(c, 0) = [k \in Keys |-> 0]
  BY ReplayNothing
<1> QED
  BY <1>1 DEF MapOf, NoMap

LEMMA FormatWrites ==
    ASSUME KvDeep, FormatSound, Replacing, ~ready, WriteDone \/ WriteTorn
    PROVE  DurableMapOf(medium') = NoMap
<1> DEFINE old == medium[Spare(ram)]
           a == ram.active
<1>1. Writing /\ pc # "append"
  BY DEF Writing, Replacing
<1>2. /\ WrittenBank = Spare(ram) /\ Spare(ram) \in Banks /\ a \in Banks
      /\ Spare(ram) = 1 - a /\ a # Spare(ram) /\ 1 - Spare(ram) = a
      /\ old \in Bank /\ medium \in [Banks -> Bank]
  BY <1>1, SpareContext DEF Banks
<1>3. PICK bank \in TornBanks(old, WriteTarget) : medium' = Left(bank)
  BY <1>1, <1>2, WriteLeft
<1>4. /\ bank \in Bank
      /\ \/ ~Valid(bank)
         \/ bank = old
         \/ pc = "header" /\ bank = WriteTarget
         \/ /\ Valid(old) /\ bank[0] = old[0]
            /\ Len(old[0].body) = 0 /\ CommittedEnd(bank) = 0
  BY <1>1, <1>3, SpareTorn
<1>5. /\ medium'[Spare(ram)] = bank /\ medium'[a] = medium[a]
      /\ bank = old => medium' = medium
  BY <1>2, <1>3 DEF Left
<1>6. ~Valid(medium[a]) /\ LiveMap(ram) = NoMap /\ DurableMapOf(medium) = NoMap
  BY DEF KvDeep, BuildOK, FormatSound
<1> HIDE DEF old, a
<1>7. CASE ~Valid(bank)
  <2>1. ~AnyValid(medium')
    BY <1>2, <1>5, <1>6, <1>7 DEF AnyValid, Banks
  <2> QED
    BY <2>1 DEF DurableMapOf
<1>8. CASE bank = old
  BY <1>5, <1>6, <1>8
<1>9. CASE Valid(bank) /\ BankMap(bank) = NoMap
  <2>1. Newest(medium') = Spare(ram)
    BY <1>2, <1>5, <1>6, <1>9, OnlyValid
  <2>2. AnyValid(medium')
    BY <1>2, <1>5, <1>9 DEF AnyValid
  <2> QED
    BY <1>5, <1>9, <2>1, <2>2, DurableIs
<1>10. pc = "header" /\ bank = WriteTarget => Valid(bank) /\ BankMap(bank) = NoMap
  BY <1>6, PublishWhole
<1>11. Valid(bank) /\ CommittedEnd(bank) = 0 => BankMap(bank) = NoMap
  BY <1>4, ValidEnd, NothingHeld
<1> QED
  BY <1>4, <1>7, <1>8, <1>9, <1>10, <1>11

LEMMA FormatStep ==
    ASSUME KvDeep, KvDeep', FormatSound, [Next]_vars
    PROVE  FormatSound'
<1> SUFFICES ASSUME Replacing', ~ready'
             PROVE  LiveMap(ram') = NoMap /\ DurableMapOf(medium') = NoMap
  BY DEF FormatSound
<1>1. CASE Format
  <2> DEFINE r == [Reset EXCEPT !.active = 1]
  <2>1. RamOK(r) /\ r.index = [k \in Keys |-> 0]
    BY ResetOK DEF Banks, Reset
  <2>2. ram' = Compact(r) /\ medium' = medium /\ ~AnyValid(medium)
    BY <1>1 DEF Format, BeginPublish
  <2> HIDE DEF r
  <2>3. LiveMap(ram') = LiveMap(r)
    BY <2>1, <2>2, CompactImage
  <2>4. LiveMap(r) = NoMap
    BY <2>1 DEF LiveMap, MapOf, NoMap
  <2> QED
    BY <2>2, <2>3, <2>4 DEF DurableMapOf
<1>2. CASE Replacing /\ ~ready /\ (WriteDone \/ WriteTorn) /\ ram' = ram
  BY <1>2, FormatWrites DEF FormatSound
<1>3. CASE UNCHANGED vars
  BY <1>3 DEF FormatSound, Replacing, vars
<1>4. Next => \/ Format
              \/ Replacing /\ ~ready /\ (WriteDone \/ WriteTorn) /\ ram' = ram
  <2>1. pc' \in {"erase", "body", "header"}
    BY DEF Replacing
  <2>2. pc \in {"idle", "append", "prepare"} => ready
    BY DEF KvDeep, KvInv, PhaseOK
  <2>3. ASSUME Next PROVE FlashStep \/ Format
    <3>1. Call => ready'
      BY <2>2 DEF Call
    <3> QED
      BY <2>1, <2>3, <3>1 DEF Next, Set, Delete, CommitEx, Gc, Prepare, Recover,
         PowerLoss, Return
  <2>4. ASSUME FlashStep
        PROVE  Replacing /\ ~ready /\ (WriteDone \/ WriteTorn) /\ ram' = ram
    BY <2>1, <2>2, <2>4 DEF FlashStep, AppendDone, AppendFails, AppendUnwritable,
       EraseDone, BodyDone, HeaderDone, ReplaceFails, ReplaceRefused, PrepareReturns,
       PublishFails, Return, Replacing
  <2> QED
    BY <2>3, <2>4
<1> QED
  BY <1>1, <1>2, <1>3, <1>4
(***************************************************************************)
(* The steps of the flash.                                                 *)
(***************************************************************************)
LEMMA PrepareStutters ==
    ASSUME Prepare
    PROVE  UNCHANGED Abs!absVars
<1>1. /\ pc = "idle" /\ pc' = "prepare" /\ medium' = medium /\ ram' = ram
      /\ ready' = ready
  BY DEF Prepare, Call
<1> QED
  BY <1>1 DEF Abs!absVars

\* While a store is not ready its callers see nothing, whatever a format does.
LEMMA NotReadyStutters ==
    ASSUME ~ready, ~ready', DurableMapOf(medium') = DurableMapOf(medium)
    PROVE  UNCHANGED Abs!absVars
BY DEF Abs!absVars

LEMMA FormatStutters ==
    ASSUME KvDeep, Format
    PROVE  UNCHANGED Abs!absVars
<1>1. ~ready /\ ~ready' /\ medium' = medium
  BY DEF Format, KvDeep, KvInv, PhaseOK
<1> QED
  BY <1>1, NotReadyStutters

LEMMA AppendDoneAcknowledges ==
    ASSUME KvDeep, KvDeep', AppendDone
    PROVE  Abs!Acknowledge
<1> DEFINE r == [ram EXCEPT !.img = Closed(ram), !.flashEnd = Used(ram) + 1,
                            !.dirty = FALSE]
<1>1. pc = "append" /\ pc' = "idle" /\ ready' = ready /\ ready /\ ram' = r
  BY IdleDeep DEF AppendDone, Return
<1>2. r.img = Closed(ram) /\ r.index = ram.index /\ ~r.dirty
  BY DEF KvDeep, KvInv, RamOK, Ram
<1> HIDE DEF r
<1>3. LiveMap(ram') = LiveMap(ram)
  <2>1. MapOf(Closed(ram), ram.index) = LiveMap(ram)
    BY <1>1, ClosedImage
  <2> QED
    BY <1>1, <1>2, <2>1 DEF LiveMap
<1>4. /\ LiveMap(ram') = DurableMapOf(medium')
      /\ BankMap(medium'[ram'.active]) = DurableMapOf(medium')
  BY <1>1, <1>2, CleanNext
<1> QED
  BY <1>1, <1>2, <1>3, <1>4 DEF Abs!Acknowledge

LEMMA AppendFailsLands ==
    ASSUME KvDeep, AppendFails
    PROVE  Abs!Land
<1>1. /\ pc = "append" /\ pc' = "idle" /\ ready /\ ready' = ready /\ Writing /\ WriteTorn
      /\ ram' = ram \/ ram' = NeedingPublish(ram)
  BY IdleDeep DEF AppendFails, Return, Writing
<1>2. /\ LiveMap(ram') = LiveMap(ram) /\ ram'.dirty = ram.dirty
      /\ ram'.active = ram.active
  BY <1>1, NeedingPublishFields DEF LiveMap, KvDeep, KvInv
<1> QED
  BY <1>1, <1>2, CommitLands

LEMMA AppendUnwritableStutters ==
    ASSUME KvDeep, AppendUnwritable
    PROVE  UNCHANGED Abs!absVars
<1>1. /\ pc = "append" /\ RamOK(ram) /\ ready /\ ready' = ready /\ medium' = medium
      /\ ram' = Compact(ram) /\ pc' \in {"body", "erase"} /\ ram.dirty
  BY IdleDeep DEF AppendUnwritable, BeginPublish, KvDeep, BuildOK
<1>2. /\ LiveMap(Compact(ram)) = LiveMap(ram) /\ Compact(ram).dirty = ram.dirty
      /\ Compact(ram).active = ram.active
  BY <1>1, CompactImage, CompactFields DEF RamOK, Ram
<1> QED
  BY <1>1, <1>2 DEF Abs!absVars

LEMMA PublishLands ==
    ASSUME KvDeep, FormatSound, EraseDone \/ BodyDone
    PROVE  Abs!Land \/ UNCHANGED Abs!absVars
<1>1. /\ Replacing /\ Writing /\ pc \notin {"append", "prepare"} /\ WriteDone
      /\ pc' \in {"body", "header"} /\ ram' = ram /\ ready' = ready
  BY DEF EraseDone, BodyDone, Writing, Replacing
<1>2. CASE ready
  BY <1>1, <1>2, CommitLands
<1>3. CASE ~ready
  BY <1>1, <1>3, FormatWrites, NotReadyStutters DEF FormatSound
<1> QED
  BY <1>2, <1>3

LEMMA HeaderDoneAcknowledges ==
    ASSUME KvDeep, KvDeep', FormatSound, HeaderDone
    PROVE  Abs!Acknowledge \/ Abs!Recover
<1>1. /\ Replacing /\ pc = "header" /\ pc' = "idle" /\ ready' /\ WriteDone
      /\ ram' = Published(ram)
  BY DEF HeaderDone, Return, Replacing
<1>2. ~ram'.dirty /\ LiveMap(ram') = LiveMap(ram)
  BY <1>1 DEF Published, LiveMap, KvDeep, KvInv, RamOK, Ram
<1>3. /\ LiveMap(ram') = DurableMapOf(medium')
      /\ BankMap(medium'[ram'.active]) = DurableMapOf(medium')
  BY <1>1, <1>2, CleanNext
<1>4. CASE ready
  BY <1>1, <1>2, <1>3, <1>4 DEF Abs!Acknowledge
<1>5. CASE ~ready
  <2>1. DurableMapOf(medium') = NoMap /\ DurableMapOf(medium) = NoMap
    BY <1>1, <1>5, FormatWrites DEF FormatSound
  <2> QED
    BY <1>1, <1>2, <1>3, <1>5, <2>1 DEF Abs!Recover
<1> QED
  BY <1>4, <1>5

LEMMA ReplaceFailsLands ==
    ASSUME KvDeep, FormatSound, ReplaceFails
    PROVE  Abs!Land \/ UNCHANGED Abs!absVars
<1>1. /\ Replacing /\ Writing /\ pc \notin {"append", "prepare"} /\ WriteTorn
      /\ ready' = ready
  BY DEF ReplaceFails, Writing, Replacing
<1>2. CASE ready
  <2>1. ram' = ram /\ pc' \in {"erase", "idle"}
    BY <1>2 DEF ReplaceFails, PublishFails
  <2> QED
    BY <1>1, <1>2, <2>1, CommitLands
<1>3. CASE ~ready
  BY <1>1, <1>3, FormatWrites, NotReadyStutters DEF FormatSound
<1> QED
  BY <1>2, <1>3

LEMMA ReplaceRefusedLands ==
    ASSUME KvDeep, ReplaceRefused
    PROVE  Abs!Land \/ UNCHANGED Abs!absVars
<1>1. /\ pc \in {"body", "erase"} /\ medium' = medium /\ ready' = ready
      /\ ready => ram' = ram /\ pc' = "idle"
  BY DEF ReplaceRefused, PublishFails
<1>2. CASE ready
  BY <1>1, <1>2 DEF Abs!Land
<1>3. CASE ~ready
  BY <1>1, <1>3, NotReadyStutters
<1> QED
  BY <1>2, <1>3

LEMMA PrepareReturnsDiscards ==
    ASSUME KvDeep, PrepareReturns
    PROVE  Abs!Discard \/ UNCHANGED Abs!absVars
<1>1. /\ pc = "prepare" /\ pc' = "idle" /\ ram' = ram /\ ready /\ ready' = ready
      /\ Writing /\ (WriteDone \/ WriteTorn)
  BY IdleDeep DEF PrepareReturns, Return, Writing
<1>2. /\ DurableMapOf(medium') \in {DurableMapOf(medium), BankMap(medium[ram.active])}
      /\ BankMap(medium'[ram'.active]) = BankMap(medium[ram.active])
  BY <1>1, WriteLands
<1>3. CASE DurableMapOf(medium') = DurableMapOf(medium)
  BY <1>1, <1>2, <1>3 DEF Abs!absVars
<1>4. CASE DurableMapOf(medium') = BankMap(medium[ram.active])
  BY <1>1, <1>2, <1>4 DEF Abs!Discard
<1> QED
  BY <1>2, <1>3, <1>4

LEMMA PowerLossLoses ==
    ASSUME KvDeep, FormatSound, PowerLoss
    PROVE  Abs!PowerLoss \/ UNCHANGED Abs!absVars
<1>1. /\ pc # "down" /\ pc' = "down" /\ ~ready' /\ ready \in BOOLEAN
      /\ IF Writing THEN WriteTorn ELSE medium' = medium
      /\ pc \in {"down", "idle", "append", "erase", "body", "header", "prepare"}
      /\ pc \in {"idle", "append", "prepare"} => ready
  BY DEF PowerLoss, KvDeep, KvInv, PhaseOK
<1>2. CASE ready
  <2>1. DurableMapOf(medium') \in
          {DurableMapOf(medium), BankMap(medium[ram.active])}
            \cup (IF pc \in {"idle", "prepare"} THEN {} ELSE {LiveMap(ram)})
    <3>1. CASE Writing
      BY <1>1, <1>2, <3>1, WriteLands DEF Writing, Replacing
    <3>2. CASE ~Writing
      BY <1>1, <3>2
    <3> QED
      BY <3>1, <3>2
  <2> QED
    BY <1>1, <1>2, <2>1 DEF Abs!PowerLoss, Abs!EmptyMap, NoMap
<1>3. CASE ~ready
  <2>1. Replacing /\ WriteTorn
    BY <1>1, <1>3 DEF Writing, Replacing
  <2> QED
    BY <1>1, <1>3, <2>1, FormatWrites, NotReadyStutters DEF FormatSound
<1> QED
  BY <1>1, <1>2, <1>3

(***************************************************************************)
(* The store implements the durable map.                                   *)
(***************************************************************************)
LEMMA InitImplements == Init => FormatSound /\ Abs!AbsInit
<1> SUFFICES ASSUME Init PROVE FormatSound /\ Abs!AbsInit
  OBVIOUS
<1>1. ~ready /\ pc = "down"
  BY DEF Init
<1>2. ~AnyValid(medium)
  <2>1. \A b \in Banks : medium[b][0] = Erased
    BY ConstantsType DEF Init, BlankBank
  <2> QED
    BY <2>1 DEF AnyValid, Valid, Erased
<1>3. DurableMapOf(medium) = NoMap
  BY <1>2 DEF DurableMapOf
<1> QED
  BY <1>1, <1>3 DEF FormatSound, Replacing, Abs!AbsInit, Abs!EmptyMap, NoMap

LEMMA StepImplements ==
    ASSUME KvDeep, KvDeep', FormatSound, [Next]_vars
    PROVE  [Abs!AbsNext]_(Abs!absVars)
<1> SUFFICES Abs!AbsNext \/ UNCHANGED Abs!absVars
  OBVIOUS
<1>1. CASE UNCHANGED vars
  BY <1>1 DEF vars, Abs!absVars
<1>2. CASE \/ \E k \in Keys, v \in Vals : Set(k, v)
           \/ \E k \in Keys : Delete(k)
           \/ Gc
  BY <1>2, SetStages, DeleteStages, GcStages DEF Abs!AbsNext
<1>3. CASE CommitEx \/ Recover
  BY <1>3, CommitExImplements, RecoverRecovers DEF Abs!AbsNext
<1>4. CASE Prepare \/ Format \/ AppendUnwritable
  BY <1>4, PrepareStutters, FormatStutters, AppendUnwritableStutters
<1>5. CASE AppendDone \/ HeaderDone
  BY <1>5, AppendDoneAcknowledges, HeaderDoneAcknowledges DEF Abs!AbsNext
<1>6. CASE AppendFails \/ EraseDone \/ BodyDone \/ ReplaceFails \/ ReplaceRefused
  BY <1>6, AppendFailsLands, PublishLands, ReplaceFailsLands, ReplaceRefusedLands
     DEF Abs!AbsNext
<1>7. CASE PrepareReturns \/ PowerLoss
  BY <1>7, PrepareReturnsDiscards, PowerLossLoses DEF Abs!AbsNext
<1> QED
  BY <1>1, <1>2, <1>3, <1>4, <1>5, <1>6, <1>7 DEF Next, FlashStep

\* hal_kv: a restart finds the last map whose commit returned HAL_OK, or one
\* whose commit was running or failed since, never a mixture of maps.
THEOREM StoreIsDurableMap == Spec => ImplementsDurableMap
<1>1. KvDeep /\ KvDeep' /\ FormatSound /\ [Next]_vars => FormatSound'
  BY FormatStep
<1>2. KvDeep /\ KvDeep' /\ FormatSound /\ [Next]_vars => [Abs!AbsNext]_(Abs!absVars)
  BY StepImplements
<1> QED
  BY <1>1, <1>2, InitImplements, KvDeepInvariance, PTL
     DEF Spec, ImplementsDurableMap, Abs!AbsSpec
=============================================================================
