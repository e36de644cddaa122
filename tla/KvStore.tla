------------------------------ MODULE KvStore ------------------------------
(***************************************************************************)
(* hal_kv: a key-value store on two banks of NOR flash, each erased as a   *)
(* whole and programmed once (src/src/hal/storage/hal_kv.cpp on the flash  *)
(* provider jh_eeprom_flash_provider.cpp).                                 *)
(*                                                                         *)
(* A bank holds a header, a compacted body that the header covers with a   *)
(* CRC, and a log of batches behind it, each closed by a commit record.    *)
(* The unit of space is one record.  A CRC is modelled by what it covers:  *)
(* the header carries its body, a commit record its batch.                 *)
(*                                                                         *)
(* The store's mutex is held for a whole call, so calls do not interleave; *)
(* a call that writes is split where the power can fail or the flash can   *)
(* refuse, and a write that stops half way leaves some cells new, one      *)
(* torn, and the rest as they were.                                        *)
(***************************************************************************)
EXTENDS Integers, FiniteSets, Sequences

CONSTANTS
    Keys,       \* keys the application uses
    Vals,       \* values (type, length and bytes together)
    NoVal,      \* no such key
    BankCells,  \* records that fit in a bank behind its header
    MaxKeys,    \* HAL_KV_MAX_KEYS
    GenHalf     \* half the range of the generation counter (2^31 in the code)

ASSUME KvAssumption ==
    /\ IsFiniteSet(Keys)
    /\ NoVal \notin Vals
    /\ BankCells \in Nat \ {0}
    /\ MaxKeys \in Nat \ {0}
    /\ GenHalf \in Nat \ {0, 1}

VARIABLES
    medium,       \* the two banks as the flash holds them
    ram,          \* s_bank up to s_used_offset, s_index and the scalars
    pc,           \* what the running call is doing to the flash
    ready,        \* s_ready
    readsErased   \* the running replace found its destination erased

vars == <<medium, ram, pc, ready, readsErased>>

Banks == {0, 1}
Cells == 0..BankCells   \* cell 0 is the header
Gens  == 0..(2 * GenHalf - 1)

(***************************************************************************)
(* Records, headers and banks.                                             *)
(***************************************************************************)
Erased       == [type |-> "erased"]
Torn         == [type |-> "torn"]
Put(k, v)    == [type |-> "put", key |-> k, val |-> v]
Del(k)       == [type |-> "delete", key |-> k]
Commit(b, c) == [type |-> "commit", batch |-> b, crc |-> c]
Header(g, b) == [type |-> "header", gen |-> g, body |-> b]

IsData(c)   == c.type \in {"put", "delete"}
IsCommit(c) == c.type = "commit"

BlankBank == [i \in Cells |-> Erased]
IsErased(bank, from, to) == \A i \in from..to : bank[i] = Erased

Slice(c, from, to) == [i \in 1..(to - from + 1) |-> c[from + i - 1]]

\* validate_bank_buffer: the header is whole and its CRC matches the body.
Valid(bank) ==
    /\ bank[0].type = "header"
    /\ \A i \in 1..Len(bank[0].body) : bank[i] = bank[0].body[i]

\* scan_log_locked: a commit record counts when it names the start of its
\* batch, right behind the commit before it, and its CRC matches the batch.
\* (mutant: every batch is expected right behind the body)
BatchStartAtBody(bank, body, q) == body + 1
BatchStart(bank, body, q) ==
    1 + CHOOSE p \in body..(q - 1) :
            /\ p = body \/ IsCommit(bank[p])
            /\ \A r \in (p + 1)..(q - 1) : ~IsCommit(bank[r])
ClosesBatch(bank, body, q) ==
    LET b == BatchStart(bank, body, q)
    IN  b < q /\ bank[q] = Commit(b, Slice(bank, b, q - 1))
LogAccepted(bank, body, e) ==
    \A q \in (body + 1)..e : IsData(bank[q]) \/ ClosesBatch(bank, body, q)

\* The log counts up to the last commit record that all batches lead to.
\* (mutant: the replay goes on to the first bad record, commit or not)
LogEndsAtUnclosed(bank, body, e) == LogAccepted(bank, body, e)
LogEndsAt(bank, body, e) ==
    e = body \/ (IsCommit(bank[e]) /\ LogAccepted(bank, body, e))
CommittedEnd(bank) ==
    LET body == Len(bank[0].body)
    IN  CHOOSE e \in body..BankCells :
            /\ LogEndsAt(bank, body, e)
            /\ \A f \in (e + 1)..BankCells : ~LogEndsAt(bank, body, f)
LogDamaged(bank) == ~IsErased(bank, CommittedEnd(bank) + 1, BankCells)

\* index_apply_range over cells 1..e: a key's offset, 0 when it is not there.
IsOf(cell, k) == IsData(cell) /\ cell.key = k
LastOf(c, e, k) ==
    CHOOSE i \in 0..e : /\ i = 0 \/ IsOf(c[i], k)
                        /\ \A j \in (i + 1)..e : ~IsOf(c[j], k)
IndexOf(c, e) ==
    [k \in Keys |->
        LET i == LastOf(c, e, k) IN IF i = 0 \/ c[i].type = "delete" THEN 0 ELSE i]
Present(index) == {k \in Keys : index[k] # 0}
MapOf(c, index) == [k \in Keys |-> IF index[k] = 0 THEN NoVal ELSE c[index[k]].val]

\* index_alloc: every record of the body and of the log finds a free slot.
IndexFits(c, e) == \A i \in 1..e :
    c[i].type = "put" => Cardinality(Present(IndexOf(c, i))) <= MaxKeys

\* generation_newer: the sign of the difference of two wrapping counters.
NextGen(g) == IF g = 2 * GenHalf - 1 THEN 0 ELSE g + 1
GenerationNewer(l, r) ==
    LET d == IF l >= r THEN l - r ELSE l - r + 2 * GenHalf IN 0 < d /\ d < GenHalf

\* hal_kv_init_ex: the bank it picks, and the map it would find there.
AnyValid(m) == \E b \in Banks : Valid(m[b])
Newest(m) ==
    IF Valid(m[0]) /\ (~Valid(m[1]) \/ ~GenerationNewer(m[1][0].gen, m[0][0].gen))
    THEN 0 ELSE 1

NoMap == [k \in Keys |-> NoVal]
BankMap(bank) ==
    LET after[e \in 0..BankCells] == MapOf(bank, IndexOf(bank, e))
    IN  after[CommittedEnd(bank)]
DurableMapOf(m) ==
    LET held[b \in Banks] == BankMap(m[b])
    IN  IF AnyValid(m) THEN held[Newest(m)] ELSE NoMap

(***************************************************************************)
(* The RAM image, s_bank and s_index, and what the calls do to it.         *)
(***************************************************************************)
Reset ==
    [img |-> <<>>, index |-> [k \in Keys |-> 0], flashEnd |-> 0, dirty |-> FALSE,
     needsPublish |-> FALSE, active |-> 0, gen |-> 0]

Used(r)    == Len(r.img)
Spare(r)   == 1 - r.active
Live(r)    == Present(r.index)
LiveMap(r) == MapOf(r.img, r.index)

\* s_needs_publish; s_flash_end means nothing until the publish sets it.
NeedingPublish(r) == [r EXCEPT !.needsPublish = TRUE, !.flashEnd = 0]

\* compact_locked: the live records move to the front in their order.
Rank(r, k) == Cardinality({j \in Live(r) : r.index[j] <= r.index[k]})
Compact(r) ==
    [NeedingPublish(r) EXCEPT
      !.img   = [i \in 1..Cardinality(Live(r)) |->
                    r.img[r.index[CHOOSE k \in Live(r) : Rank(r, k) = i]]],
      !.index = [k \in Keys |-> IF k \in Live(r) THEN Rank(r, k) ELSE 0],
      !.dirty = TRUE]

\* commit_record_reserve and ensure_space_locked.
Reserve(r)    == IF r.needsPublish THEN 0 ELSE 1
Fits(r)       == Used(r) + 1 + Reserve(r) <= BankCells
HasRoom(r, k) == Fits(r) \/ Cardinality(Live(r) \ {k}) + 1 <= BankCells
EnsureSpace(r, k) == IF Fits(r) THEN r ELSE Compact([r EXCEPT !.index[k] = 0])

\* append_record_locked, the index update and finish_mutation_locked's dirty.
\* (mutant: a delete leaves the index entry)
AppendRecordStale(r, rec) ==
    [r EXCEPT !.img = Append(r.img, rec), !.dirty = TRUE,
              !.index[rec.key] = IF rec.type = "delete" THEN @ ELSE Used(r) + 1]
AppendRecord(r, rec) ==
    [r EXCEPT !.img = Append(r.img, rec), !.dirty = TRUE,
              !.index[rec.key] = IF rec.type = "delete" THEN 0 ELSE Used(r) + 1]

(***************************************************************************)
(* Committing.  A call ends in Return; BeginAppend and BeginPublish start  *)
(* the writes that a flash step completes, tears or refuses.               *)
(***************************************************************************)
Return(r) == ram' = r /\ pc' = "idle" /\ readsErased' = FALSE

\* commit_locked's compact_locked and publish_full_locked; replace_region
\* skips the erase of a destination that reads erased.
BeginPublish(r) ==
    /\ ram' = Compact(r)
    /\ readsErased' = (medium[Spare(r)] = BlankBank)
    /\ pc' = IF medium[Spare(r)] = BlankBank THEN "body" ELSE "erase"

\* append_batch_locked has room for the commit record, and the provider's
\* append finds the range erased (HAL_ENOMEM and HAL_ESTATE otherwise).
CanAppend(r) ==
    /\ Used(r) + 1 <= BankCells
    /\ IsErased(medium[r.active], r.flashEnd + 1, Used(r) + 1)
BeginAppend(r) == ram' = r /\ pc' = "append" /\ UNCHANGED readsErased

\* commit_locked.
CommitLocked(r) ==
    IF ~r.dirty THEN Return(r)
    ELSE IF r.needsPublish THEN BeginPublish(r)
    ELSE IF Used(r) = r.flashEnd THEN Return([r EXCEPT !.dirty = FALSE])
    ELSE IF CanAppend(r) THEN BeginAppend(r) ELSE BeginPublish(r)

\* finish_mutation_locked.  The application sets s_auto_commit before any call
\* as it likes, so each call may find it set or not.
FinishMutation(r) == CommitLocked(r) \/ Return(r)

(***************************************************************************)
(* The calls.  Each holds s_kv_mutex from its first to its last step; one  *)
(* that is refused (HAL_ENOMEM) or finds nothing to do leaves no trace.    *)
(***************************************************************************)
Call == pc = "idle" /\ UNCHANGED <<medium, ready>>

\* (mutant: a new key is not refused when the index is full)
SetUnbounded(k, v) ==
    /\ Call
    /\ LiveMap(ram)[k] # v
    /\ HasRoom(ram, k)
    /\ FinishMutation(AppendRecord(EnsureSpace(ram, k), Put(k, v)))

\* set_blob_locked with a value the key does not hold.
Set(k, v) ==
    /\ Call
    /\ LiveMap(ram)[k] # v
    /\ k \in Live(ram) \/ Cardinality(Live(ram)) < MaxKeys
    /\ HasRoom(ram, k)
    /\ FinishMutation(AppendRecord(EnsureSpace(ram, k), Put(k, v)))

\* delete_locked of a key that is there.
Delete(k) ==
    /\ Call
    /\ k \in Live(ram)
    /\ HasRoom(ram, k)
    /\ FinishMutation(AppendRecord(EnsureSpace(ram, k), Del(k)))

\* hal_kv_commit_ex, and finish_no_change_locked of a set or delete that has
\* nothing to change but finds earlier changes uncommitted.
CommitEx == Call /\ CommitLocked(ram)

Gc == Call /\ FinishMutation(Compact(ram))

\* hal_kv_prepare_ex: erase the spare bank ahead of the next publish.
Prepare ==
    /\ Call
    /\ medium[Spare(ram)] # BlankBank
    /\ pc' = "prepare"
    /\ UNCHANGED <<ram, readsErased>>

\* hal_kv_init_ex on a medium that holds a valid bank.
Recovered(m) ==
    LET bank == m[Newest(m)]
        e    == CommittedEnd(bank)
        r    == [img |-> Slice(bank, 1, e), index |-> IndexOf(bank, e), flashEnd |-> e,
                 dirty |-> FALSE, needsPublish |-> FALSE,
                 active |-> Newest(m), gen |-> bank[0].gen]
    IN  IF LogDamaged(bank) THEN NeedingPublish(r) ELSE r
Recover ==
    /\ pc \in {"down", "idle"}
    /\ AnyValid(medium)
    /\ LET r == Recovered(medium) IN IndexFits(r.img, Used(r)) /\ Return(r)
    /\ ready' = TRUE
    /\ UNCHANGED medium

\* ... and on one that does not: an empty bank 0 is published, generation 1.
Format ==
    /\ pc = "down"
    /\ ~AnyValid(medium)
    /\ BeginPublish([Reset EXCEPT !.active = 1])
    /\ UNCHANGED <<medium, ready>>

(***************************************************************************)
(* The flash.  WriteTarget is the bank a write leaves when it completes;   *)
(* TornBanks are what it can leave when it does not.                       *)
(***************************************************************************)
Replacing   == pc \in {"erase", "body", "header"}
Writing     == Replacing \/ pc \in {"append", "prepare"}
\* (mutant: a publish overwrites the bank in use)
WrittenBankInUse == ram.active
WrittenBank == IF pc = "append" THEN ram.active ELSE Spare(ram)

\* The batch staged since the last commit, with the record that closes it.
Closed(r) == Append(r.img, Commit(r.flashEnd + 1, Slice(r.img, r.flashEnd + 1, Used(r))))

WriteTarget ==
    LET old == medium[WrittenBank]
    IN  CASE pc \in {"erase", "prepare"} -> BlankBank
          [] pc = "append" -> [i \in Cells |-> IF i \in (ram.flashEnd + 1)..(Used(ram) + 1)
                                               THEN Closed(ram)[i] ELSE old[i]]
          [] pc = "body"   -> [i \in Cells |-> IF i \in 1..Used(ram) THEN ram.img[i] ELSE old[i]]
          [] pc = "header" -> [old EXCEPT ![0] = Header(NextGen(ram.gen), ram.img)]

\* A write that stops half way has done nothing, everything, or left garbage,
\* with or without the header.  An append also may stop between two whole
\* records, or leave a whole commit record behind a torn batch.
TornBanks(old, new) ==
    LET changed  == {i \in Cells : old[i] # new[i]}
        garbage(S) == [i \in Cells |-> IF i \in S THEN Torn ELSE old[i]]
        first    == {i \in changed : \A j \in changed : i <= j}
        last     == {i \in changed : \A j \in changed : j <= i}
    IN  {old, new, garbage(changed), garbage(changed \ {0})}
        \cup (IF pc # "append" THEN {}
              ELSE {[old EXCEPT ![i] = new[i]] : i \in first}
                   \cup {[new EXCEPT ![i] = Torn] : i \in first \cup last})

WriteDone == medium' = [medium EXCEPT ![WrittenBank] = WriteTarget]
WriteTorn ==
    \E bank \in TornBanks(medium[WrittenBank], WriteTarget) :
        medium' = [medium EXCEPT ![WrittenBank] = bank]

\* append_region returned HAL_OK.
AppendDone ==
    /\ pc = "append"
    /\ WriteDone
    /\ Return([ram EXCEPT !.img = Closed(ram), !.flashEnd = Used(ram) + 1, !.dirty = FALSE])
    /\ UNCHANGED ready

\* (mutant: a failed append is retried in place)
AppendFailsInPlace ==
    /\ pc = "append"
    /\ WriteTorn
    /\ Return(ram)
    /\ UNCHANGED ready

\* (mutant: a failed append counts as committed)
AppendFailsClean ==
    /\ pc = "append"
    /\ WriteTorn
    /\ Return([NeedingPublish(ram) EXCEPT !.dirty = FALSE])
    /\ UNCHANGED ready

\* append_region failed: a tail that no longer reads erased is given up.
AppendFails ==
    /\ pc = "append"
    /\ WriteTorn
    /\ Return(IF IsErased(medium'[ram.active], ram.flashEnd + 1, Used(ram) + 1)
              THEN ram ELSE NeedingPublish(ram))
    /\ UNCHANGED ready

\* HAL_ESTATE: nothing was written although the range reads erased.
AppendUnwritable ==
    /\ pc = "append"
    /\ BeginPublish(ram)
    /\ UNCHANGED <<medium, ready>>

EraseDone ==
    /\ pc = "erase"
    /\ WriteDone
    /\ pc' = "body"
    /\ UNCHANGED <<ram, ready, readsErased>>

\* The body is read back before the header is programmed.
BodyDone ==
    /\ pc = "body"
    /\ WriteDone
    /\ pc' = "header"
    /\ UNCHANGED <<ram, ready, readsErased>>

\* publish_full_locked after replace_region returned HAL_OK.
Published(r) ==
    [r EXCEPT !.active = Spare(r), !.gen = NextGen(r.gen), !.flashEnd = Used(r),
              !.needsPublish = FALSE, !.dirty = FALSE]
HeaderDone ==
    /\ pc = "header"
    /\ WriteDone
    /\ Return(Published(ram))
    /\ ready' = TRUE

\* A replace that failed: the call ends, hal_kv_init_ex's in a full reset.
PublishFails ==
    /\ pc' = IF ready THEN "idle" ELSE "down"
    /\ ram' = IF ready THEN ram ELSE Reset
    /\ readsErased' = FALSE

\* (mutant: the retry does not remember that it erases first)
ReplaceFailsForever ==
    /\ Replacing
    /\ WriteTorn
    /\ IF readsErased THEN pc' = "erase" /\ UNCHANGED <<ram, readsErased>>
                      ELSE PublishFails
    /\ UNCHANGED ready

\* HAL_EIO; the provider retries, erase first, a replace it began without one.
ReplaceFails ==
    /\ Replacing
    /\ WriteTorn
    /\ IF readsErased THEN pc' = "erase" /\ readsErased' = FALSE /\ UNCHANGED ram
                      ELSE PublishFails
    /\ UNCHANGED ready

\* The prepare callback or the flash transaction refuses before any write.
ReplaceRefused ==
    /\ pc = IF readsErased THEN "body" ELSE "erase"
    /\ PublishFails
    /\ UNCHANGED <<medium, ready>>

PrepareReturns ==
    /\ pc = "prepare"
    /\ WriteDone \/ WriteTorn
    /\ Return(ram)
    /\ UNCHANGED ready

PowerLoss ==
    /\ pc # "down"
    /\ IF Writing THEN WriteTorn ELSE UNCHANGED medium
    /\ ram' = Reset
    /\ pc' = "down"
    /\ ready' = FALSE
    /\ readsErased' = FALSE

Init ==
    /\ medium = [b \in Banks |-> BlankBank]
    /\ ram = Reset
    /\ pc = "down"
    /\ ready = FALSE
    /\ readsErased = FALSE

FlashStep ==
    \/ AppendDone \/ AppendFails \/ AppendUnwritable
    \/ EraseDone \/ BodyDone \/ HeaderDone
    \/ ReplaceFails \/ ReplaceRefused \/ PrepareReturns

Next ==
    \/ \E k \in Keys, v \in Vals : Set(k, v)
    \/ \E k \in Keys : Delete(k)
    \/ CommitEx \/ Gc \/ Prepare
    \/ Recover \/ Format
    \/ FlashStep
    \/ PowerLoss

\* A call in progress runs to its end: the flash driver always returns.
Spec == Init /\ [][Next]_vars /\ WF_vars(FlashStep)

(***************************************************************************)
(* Properties.                                                             *)
(***************************************************************************)
\* The types of the state; an image never outgrows its bank.
TypeOK ==
    /\ ready \in BOOLEAN /\ readsErased \in BOOLEAN
    /\ pc \in {"down", "idle", "append", "erase", "body", "header", "prepare"}
    /\ Used(ram) \in 0..BankCells /\ ram.flashEnd \in 0..BankCells
    /\ ram.index \in [Keys -> 0..BankCells]
    /\ ram.dirty \in BOOLEAN /\ ram.needsPublish \in BOOLEAN
    /\ ram.active \in Banks /\ ram.gen \in Gens
    /\ \A b \in Banks : DOMAIN medium[b] = Cells

\* s_index is maintained call by call and rebuilt only at init: after any
\* sequence of sets, deletes, compactions and failed commits it is what a
\* replay of the image would build, so no key is lost or resurrected by a
\* restart alone.
IndexIsReplay == ram.index = IndexOf(ram.img, Used(ram))

\* !s_dirty is what read-through and commit_locked's early HAL_OK rely on: the
\* map callers see is the map a restart finds, record by record at the offset
\* the index holds.
CleanIsDurable ==
    (ready /\ pc = "idle" /\ ~ram.dirty) =>
        /\ LiveMap(ram) = DurableMapOf(medium)
        /\ \A k \in Live(ram) : medium[ram.active][ram.index[k]] = ram.img[ram.index[k]]

\* Between calls, a store that may append does so to the bank a restart would
\* pick, right behind the last batch a restart would accept, over erased cells
\* only, and with room left for the record that closes the staged batch.
AppendIsSafe ==
    (ready /\ pc = "idle" /\ ~ram.needsPublish) =>
        /\ Newest(medium) = ram.active
        /\ CommittedEnd(medium[ram.active]) = ram.flashEnd
        /\ ~LogDamaged(medium[ram.active])
        /\ Used(ram) > ram.flashEnd => Used(ram) < BankCells

\* hal_kv_init_ex never runs out of index slots (HAL_ENOMEM) on what the store
\* wrote, at any record of the replay and after a power loss at any step.
RecoveryFits ==
    pc = "down" /\ AnyValid(medium) =>
        LET bank == medium[Newest(medium)] IN IndexFits(bank, CommittedEnd(bank))

\* Wherever a write stops, a restart finds the map it would have found before
\* the write, the one of the bank in use, or the one being committed: all of
\* a batch or none of it.
TearIsAtomic ==
    (ready /\ Writing) => \A bank \in TornBanks(medium[WrittenBank], WriteTarget) :
        DurableMapOf([medium EXCEPT ![WrittenBank] = bank]) \in
            {DurableMapOf(medium), BankMap(medium[ram.active])}
                \cup (IF pc = "prepare" THEN {} ELSE {LiveMap(ram)})

\* Once a store exists no step, torn write or retry leaves the flash without a
\* valid bank; only the very first format, which has nothing to lose, may
\* erase the bank it has just written.
BankSurvives ==
    [][(ready \/ pc = "down") /\ AnyValid(medium) => AnyValid(medium')]_vars

\* A call that writes returns: the retry of a replace happens once.
CallsReturn == pc \notin {"down", "idle"} ~> pc \in {"down", "idle"}

\* The store implements the durable map: a restart finds the last map whose
\* commit returned HAL_OK, or one whose commit was running or failed since,
\* never a mixture of maps nor part of a batch.
Abs == INSTANCE DurableMap WITH
    live   <- IF ready THEN LiveMap(ram) ELSE NoMap,
    stable <- DurableMapOf(medium),
    base   <- IF ready THEN BankMap(medium[ram.active]) ELSE DurableMapOf(medium),
    dirty  <- ready /\ ram.dirty,
    phase  <- IF ~ready THEN "down"
              ELSE IF pc \in {"idle", "prepare"} THEN "idle" ELSE "commit"
ImplementsDurableMap == Abs!AbsSpec
=============================================================================
