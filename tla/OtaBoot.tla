------------------------------ MODULE OtaBoot ------------------------------
(***************************************************************************)
(* Over-the-air update of an RP board: the boot image that swaps the       *)
(* program slot with the staging slot sector by sector under a journal     *)
(* (rp_ota_boot.cpp, jh_ota_swap_engine.cpp), the storage the application  *)
(* stages an image with (rp_ota_storage.cpp) and the transfer part of the  *)
(* OTA service (hal_ota.cpp).                                              *)
(*                                                                         *)
(* A sector holds a part of an image or junk; a digest is modelled by the  *)
(* image it is the digest of.  One step is one sector copy, journal mark,  *)
(* journal erase or record write; any of them can fail and power can be    *)
(* lost in the middle of any of them.  The boot image's RAM copy of the    *)
(* state is the selected record: every path that goes on after a write     *)
(* goes on with what that write stored.                                    *)
(***************************************************************************)
EXTENDS Integers

CONSTANTS
    Images,       \* images, each named by its digest
    Factory,      \* the image programmed over USB
    NoImage,      \* "empty", the staging slot of a factory record
    NSectors,     \* sectors of a slot
    MaxAttempts,  \* HAL_RP_OTA_MAX_BOOT_ATTEMPTS
    SeqHalf       \* half the range of the sequence counter (2^31 in the code)

ASSUME OtaAssumption ==
    /\ Factory \in Images
    /\ NoImage \notin Images
    /\ NSectors \in Nat \ {0}
    /\ MaxAttempts \in Nat \ {0}
    /\ SeqHalf \in Nat \ {0, 1}

VARIABLES
    flash,    \* the OTA partitions
    run,      \* what the processor is doing
    upload,   \* s_writer and the transfer part of s_ota
    tries     \* launches of the trial since its swap (a history variable)

vars == <<flash, run, upload, tries>>

Sectors == 1..NSectors
Seqs    == 0..(2 * SeqHalf - 1)
Modes   == {"STABLE", "PENDING", "TRIAL", "ROLLBACK", "RECOVERY"}

(***************************************************************************)
(* Slots, the journal and the two state records.                           *)
(***************************************************************************)
Part(i, s) == <<i, s>>
Junk == <<NoImage, 0>>      \* a sector that was cut short, or a wrong payload
Holds(slot, i) == \A s \in Sectors : slot[s] = Part(i, s)

\* The marks of one journal byte, each one bit further from the erased 0xFF;
\* "bad" is what a torn erase can leave.
Marks == {"FF", "FE", "FC", "F8", "bad"}
\* (mutant: the second mark repeats the first)
NextMarkStuck(m) == IF m \in {"FF", "FE"} THEN "FE" ELSE "F8"
NextMark(m) == IF m = "FF" THEN "FE" ELSE IF m = "FE" THEN "FC" ELSE "F8"
Blank == [s \in Sectors |-> "FF"]
SwapStarted(f) == f.phase # Blank

Record(q, m, a, p, s) ==
    [seq |-> q, mode |-> m, attempts |-> a, prog |-> p, stag |-> s]
NoRecord == [mode |-> "none"]     \* bytes that do not decode
Decodes(r) == r.mode # "none"

NextSeq(q) == IF q = 2 * SeqHalf - 1 THEN 0 ELSE q + 1
SequenceNewer(l, r) ==
    LET d == IF l >= r THEN l - r ELSE l - r + 2 * SeqHalf IN 0 < d /\ d < SeqHalf

\* jh_ota_boot_state_select.
Provisioned(f) == Decodes(f.record[0]) \/ Decodes(f.record[1])
Selected(f) ==
    IF Decodes(f.record[1]) /\ (~Decodes(f.record[0])
                                \/ SequenceNewer(f.record[1].seq, f.record[0].seq))
    THEN 1 ELSE 0
Current(f) == f.record[Selected(f)]

\* write_state: the record that is not the current one; the first record of a
\* board goes to sector A.
\* (mutant: the current record is overwritten)
TargetCurrent(f) == Selected(f)
Target(f) == IF Provisioned(f) THEN 1 - Selected(f) ELSE 0
Store(f, r) == [f EXCEPT !.record[Target(f)] = r]

(***************************************************************************)
(* What the processor runs: nothing, the application, or a step of the     *)
(* boot image or of jh_rp_ota_storage_finish.                              *)
(***************************************************************************)
Off == [at |-> "off"]
App == [at |-> "app"]
Doing(what) == [at |-> what]
Write(r, then, otherwise) ==
    [at |-> "write", rec |-> r, then |-> then, otherwise |-> otherwise]

Idle == [session |-> "idle", active |-> FALSE, image |-> NoImage, got |-> 0]
Receiving == upload.session = "receive" /\ upload.got < NSectors

\* write_next_state: one more on the sequence, a mode, the rest as it is.
Become(r, m) == [r EXCEPT !.seq = NextSeq(@), !.mode = m]

\* A launch: trial launches are counted, any other launch ends the count.
Launch ==
    /\ run' = App
    /\ tries' = IF Provisioned(flash') /\ Current(flash').mode = "TRIAL"
                THEN tries + 1 ELSE 0

Init ==
    /\ flash = [program |-> [s \in Sectors |-> Part(Factory, s)],
                staging |-> [s \in Sectors |-> Junk],
                scratch |-> Junk,
                phase   |-> Blank,
                record  |-> [i \in {0, 1} |-> NoRecord]]
    /\ run = Off
    /\ upload = Idle
    /\ tries = 0

(***************************************************************************)
(* The boot image: main and jh_ota_boot_apply.                             *)
(***************************************************************************)
BootLaunch ==
    /\ run = Off
    /\ ~Provisioned(flash) \/ Current(flash).mode \in {"STABLE", "RECOVERY"}
    /\ UNCHANGED <<flash, upload>>
    /\ Launch

\* PENDING: the staged image is checked only while the journal is blank.
\* (mutant: the check is dropped)
SkipsStagingCheck(f) == TRUE
StagingCheck(f) == SwapStarted(f) \/ Holds(f.staging, Current(f).stag)
BootPending ==
    /\ run = Off /\ Provisioned(flash) /\ Current(flash).mode = "PENDING"
    /\ run' = IF StagingCheck(flash)
              THEN Doing("copy")
              ELSE Write(Become(Current(flash), "RECOVERY"), "app", "app")
    /\ UNCHANGED <<flash, upload, tries>>

\* TRIAL: count the attempt before launching, or go back.
TrialLeft(r) == r.attempts < MaxAttempts
BootTrial ==
    /\ run = Off /\ Provisioned(flash) /\ Current(flash).mode = "TRIAL"
    /\ LET r == Current(flash)
       IN  run' = IF TrialLeft(r)
                  THEN Write([Become(r, "TRIAL") EXCEPT !.attempts = @ + 1],
                             "app", "off")
                  ELSE Doing("erase")
    /\ UNCHANGED <<flash, upload, tries>>

BootRollback ==
    /\ run = Off /\ Provisioned(flash) /\ Current(flash).mode = "ROLLBACK"
    /\ run' = Doing("copy")
    /\ UNCHANGED <<flash, upload, tries>>

\* The journal must be blank before a record says ROLLBACK.
EraseForRollback ==
    /\ run.at = "erase"
    /\ flash' = [flash EXCEPT !.phase = Blank]
    /\ run' = Write(Become(Current(flash), "ROLLBACK"), "copy", "off")
    /\ UNCHANGED <<upload, tries>>

(***************************************************************************)
(* jh_ota_swap_execute: the first sector whose journal byte is not 0xF8    *)
(* says which copy comes next; a copy is verified, then marked.            *)
(***************************************************************************)
SwapAt(f, s) == f.phase[s] # "F8" /\ \A t \in 1..(s - 1) : f.phase[t] = "F8"

\* The copy that journal byte m asks for in sector s, and the same cut short.
Copy(f, s, m) ==
    CASE m = "FF" -> [f EXCEPT !.scratch = f.program[s]]
      [] m = "FE" -> [f EXCEPT !.program[s] = f.staging[s]]
      [] m = "FC" -> [f EXCEPT !.staging[s] = f.scratch]
CopyTorn(f, s, m) ==
    CASE m = "FF" -> [f EXCEPT !.scratch = Junk]
      [] m = "FE" -> [f EXCEPT !.program[s] = Junk]
      [] m = "FC" -> [f EXCEPT !.staging[s] = Junk]

CopySector ==
    /\ run.at = "copy"
    /\ \E s \in Sectors :
          /\ SwapAt(flash, s) /\ flash.phase[s] # "bad"
          /\ flash' = Copy(flash, s, flash.phase[s])
    /\ run' = Doing("mark")
    /\ UNCHANGED <<upload, tries>>

MarkPhase ==
    /\ run.at = "mark"
    /\ \E s \in Sectors :
          /\ SwapAt(flash, s)
          /\ flash' = [flash EXCEPT !.phase[s] = NextMark(@)]
    /\ run' = Doing("copy")
    /\ UNCHANGED <<upload, tries>>

\* complete_swap after a failed swap: retry when the journal has a mark,
\* keep the program when it has none.
\* (mutant: the retry is dropped and the program launched)
AfterFailedSwapLaunch(f) == Write(Become(Current(f), "RECOVERY"), "app", "app")
AfterFailedSwap(f) ==
    IF SwapStarted(f) THEN Off
    ELSE Write(Become(Current(f), "RECOVERY"), "app", "app")

\* What the flash holds when the running operation is cut short.
PhaseTorn(f) == {[f EXCEPT !.phase = p] :
                    p \in {q \in [Sectors -> Marks] :
                              \A s \in Sectors : q[s] \in {f.phase[s], "FF", "bad"}}}
Cut(f) ==
    CASE run.at = "copy"  -> {CopyTorn(f, s, f.phase[s]) :
                                 s \in {t \in Sectors : SwapAt(f, t) /\ f.phase[t] # "bad"}}
      [] run.at = "write" -> {Store(f, NoRecord)}
      [] run.at \in {"erase", "tidy", "journal"} -> PhaseTorn(f)
      [] run.at = "app"   -> {[f EXCEPT !.staging[upload.got + 1] = Junk] :
                                 i \in {j \in {0} : Receiving}}
      [] OTHER            -> {}

SwapFails ==
    /\ run.at \in {"copy", "mark"}
    /\ \E s \in Sectors : SwapAt(flash, s)
    /\ flash' \in {flash} \cup Cut(flash)
    /\ run' = AfterFailedSwap(flash)
    /\ UNCHANGED <<upload, tries>>

EraseForRollbackFails ==
    /\ run.at = "erase"
    /\ flash' \in {flash} \cup Cut(flash)
    /\ run' = Off
    /\ UNCHANGED <<upload, tries>>

\* complete_swap after a finished swap: the slots change roles.
Swapped(r, m) ==
    [Become(r, m) EXCEPT !.prog = r.stag, !.stag = r.prog, !.attempts = 0]
SwapDone ==
    /\ run.at = "copy"
    /\ \A s \in Sectors : flash.phase[s] = "F8"
    /\ run' = Write(Swapped(Current(flash),
                            IF Current(flash).mode = "PENDING" THEN "TRIAL" ELSE "STABLE"),
                    "tidy", "off")
    /\ tries' = 0
    /\ UNCHANGED <<flash, upload>>

\* The journal erase behind the swap: its result is ignored.  A new trial is
\* launched only when the program slot has its digest.
TidyJournal ==
    /\ run.at = "tidy"
    /\ flash' \in {[flash EXCEPT !.phase = Blank]} \cup Cut(flash)
    /\ IF Current(flash).mode = "TRIAL" /\ ~Holds(flash.program, Current(flash).prog)
       THEN run' = Off /\ UNCHANGED tries
       ELSE Launch
    /\ UNCHANGED upload

(***************************************************************************)
(* A record write, of the boot image or of the application, and where the  *)
(* code goes from there.                                                   *)
(***************************************************************************)
Proceed(to) ==
    \/ to = "app" /\ Launch /\ UNCHANGED upload
    \/ to = "off" /\ run' = Off /\ UNCHANGED <<upload, tries>>
    \/ /\ to \in {"copy", "tidy", "journal"}
       /\ run' = Doing(to) /\ UNCHANGED <<upload, tries>>
    \/ to = "return" /\ run' = App /\ UNCHANGED <<upload, tries>>
    \/ to = "ended" /\ run' = App /\ upload' = Idle /\ UNCHANGED tries

WriteState ==
    /\ run.at = "write"
    /\ flash' = Store(flash, run.rec)
    /\ Proceed(run.then)

\* In the application the flash transaction can also fail after the record
\* has been written.
WriteStateFails ==
    /\ run.at = "write"
    /\ flash' \in {flash} \cup Cut(flash)
                 \cup {Store(flash, run.rec) :
                         i \in {j \in {0} : run.otherwise \in {"return", "ended"}}}
    /\ Proceed(run.otherwise)

(***************************************************************************)
(* The application: one upload, the confirmation, and restarts.            *)
(***************************************************************************)
\* begin_transfer_no_lock and jh_rp_ota_storage_begin: staging is only given
\* up in STABLE or on a board without records; any failure ends in abort.
\* (mutant: a trial does not refuse an upload)
StorageBeginsInTrial ==
    /\ ~upload.active
    /\ ~Provisioned(flash) \/ Current(flash).mode \in {"STABLE", "TRIAL"}
StorageBegins ==
    /\ ~upload.active
    /\ ~Provisioned(flash) \/ Current(flash).mode = "STABLE"
BeginTransfer ==
    /\ run = App /\ upload.session = "idle"
    /\ \E i \in Images :
          upload' = IF StorageBegins
                    THEN [session |-> "receive", active |-> TRUE, image |-> i, got |-> 0]
                    ELSE Idle
    /\ UNCHANGED <<flash, run, tries>>

\* initialise_factory_state: the digest is taken of the running program.
FactoryRecord(f) ==
    Record(1, "STABLE", 0, CHOOSE i \in Images : Holds(f.program, i), NoImage)

\* jh_rp_ota_storage_finish up to its first write: both digests, the state.
FinishAccepts(f) ==
    /\ Holds(f.staging, upload.image)
    /\ ~Provisioned(f) \/ Current(f).mode = "STABLE"

\* receive_transfer_no_lock: a sector of payload, and the end of the upload
\* behind the last one.
ReceiveTransfer ==
    /\ run = App /\ Receiving
    /\ \E part \in {Part(upload.image, upload.got + 1), Junk} :
          flash' = [flash EXCEPT !.staging[upload.got + 1] = part]
    /\ IF upload.got + 1 < NSectors
       THEN upload' = [upload EXCEPT !.got = @ + 1] /\ run' = App
       ELSE IF ~FinishAccepts(flash') THEN upload' = Idle /\ run' = App
       ELSE /\ upload' = [upload EXCEPT !.got = @ + 1]
            /\ run' = IF Provisioned(flash) THEN Doing("journal")
                      ELSE Write(FactoryRecord(flash), "journal", "ended")
    /\ UNCHANGED tries

\* transfer_fail_no_lock: timeout, lost connection, or a refused flash write.
TransferFails ==
    /\ run = App /\ Receiving
    /\ flash' \in {flash} \cup Cut(flash)
    /\ upload' = Idle
    /\ UNCHANGED <<run, tries>>

\* The rest of jh_rp_ota_storage_finish: a blank journal, then PENDING.
Pending(r, i) == [Become(r, "PENDING") EXCEPT !.attempts = 0, !.stag = i]
EraseForUpdate ==
    /\ run.at = "journal"
    /\ flash' = [flash EXCEPT !.phase = Blank]
    /\ run' = Write(Pending(Current(flash), upload.image), "ended", "ended")
    /\ UNCHANGED <<upload, tries>>
EraseForUpdateFails ==
    /\ run.at = "journal"
    /\ flash' \in {flash} \cup Cut(flash)
    /\ run' = App /\ upload' = Idle
    /\ UNCHANGED tries

\* jh_rp_ota_storage_confirm_boot; in STABLE, and refused, it changes nothing.
ConfirmBoot ==
    /\ run = App /\ Provisioned(flash) /\ Current(flash).mode = "TRIAL"
    /\ run' = Write([Become(Current(flash), "STABLE") EXCEPT !.attempts = 0],
                    "return", "return")
    /\ UNCHANGED <<flash, upload, tries>>

\* hal_ota_begin: the transfer is dropped, the writer below it is not.
OtaBegin ==
    /\ run = App
    /\ upload' = [upload EXCEPT !.session = "idle"]
    /\ UNCHANGED <<flash, run, tries>>

(***************************************************************************)
(* Resets and the environment.                                             *)
(***************************************************************************)
\* The watchdog, the application, the user, or the reboot after an update.
Reset ==
    /\ run = App
    /\ flash' \in {flash} \cup Cut(flash)
    /\ run' = Off /\ upload' = Idle
    /\ UNCHANGED tries

PowerLoss ==
    /\ run.at \notin {"off", "app"}
    /\ flash' \in {flash} \cup Cut(flash)
    /\ run' = Off /\ upload' = Idle
    /\ UNCHANGED tries

\* A staged image goes bad before its swap starts.
StagingDecays ==
    /\ run = Off /\ Provisioned(flash)
    /\ Current(flash).mode = "PENDING" /\ ~SwapStarted(flash)
    /\ \E s \in Sectors : flash' = [flash EXCEPT !.staging[s] = Junk]
    /\ UNCHANGED <<run, upload, tries>>

\* A fault: the flash refuses, or the power fails behind the boot image.
Fault ==
    \/ SwapFails \/ EraseForRollbackFails \/ WriteStateFails
    \/ EraseForUpdateFails \/ PowerLoss

BootStep ==
    \/ BootLaunch \/ BootPending \/ BootTrial \/ BootRollback
    \/ EraseForRollback \/ CopySector \/ MarkPhase \/ SwapDone
    \/ TidyJournal \/ WriteState \/ EraseForUpdate

AppStep ==
    BeginTransfer \/ ReceiveTransfer \/ TransferFails \/ ConfirmBoot \/ OtaBegin

Next == BootStep \/ AppStep \/ Fault \/ Reset \/ StagingDecays

Spec == Init /\ [][Next]_vars

(***************************************************************************)
(* Properties.                                                             *)
(***************************************************************************)
Records == [seq : Seqs, mode : Modes, attempts : 0..MaxAttempts,
            prog : Images, stag : Images \cup {NoImage}]
Contents == {Part(i, s) : i \in Images, s \in Sectors} \cup {Junk}
Flashes == [program : [Sectors -> Contents], staging : [Sectors -> Contents],
            scratch : Contents, phase : [Sectors -> Marks],
            record : [{0, 1} -> Records \cup {NoRecord}]]

\* Every variable keeps its type; the attempts of a record never pass the
\* limit, and a trial is launched at most once more than it counts.
TypeOK ==
    /\ flash \in Flashes
    /\ run \in {Off, App}
               \cup {Doing(w) : w \in {"copy", "mark", "erase", "tidy", "journal"}}
               \cup [at : {"write"}, rec : Records,
                     then : {"app", "copy", "tidy", "journal", "return", "ended"},
                     otherwise : {"app", "off", "return", "ended"}]
    /\ upload \in [session : {"idle", "receive"}, active : BOOLEAN,
                   image : Images \cup {NoImage}, got : 0..NSectors]
    /\ tries \in 0..(MaxAttempts + 1)

\* During a swap of p with s, the journal says of every sector where both
\* parts of it are; "checked" is FALSE while the staged image is not trusted.
SwapTells(f, p, s, checked) ==
    \A n \in Sectors :
        /\ f.phase[n] # "bad"
        /\ f.phase[n] # "FF" => \A t \in 1..(n - 1) : f.phase[t] = "F8"
        /\ f.phase[n] = "FF" => f.program[n] = Part(p, n)
        /\ f.phase[n] = "FF" /\ checked => f.staging[n] = Part(s, n)
        /\ f.phase[n] = "FE" => f.scratch = Part(p, n) /\ f.staging[n] = Part(s, n)
        /\ f.phase[n] = "FC" => f.scratch = Part(p, n) /\ f.program[n] = Part(s, n)
        /\ f.phase[n] = "F8" => f.program[n] = Part(s, n) /\ f.staging[n] = Part(p, n)

\* What the flash holds when record r is the one that counts.
RecordSound(f, r, checked) ==
    CASE r.mode = "PENDING"  -> SwapTells(f, r.prog, r.stag, checked \/ SwapStarted(f))
      [] r.mode = "ROLLBACK" -> SwapTells(f, r.prog, r.stag, TRUE)
      [] r.mode = "TRIAL"    -> Holds(f.program, r.prog) /\ Holds(f.staging, r.stag)
      [] OTHER               -> Holds(f.program, r.prog)

\* No image is lost: at every instant, whatever was cut short, the record a
\* restart would select and the journal account for every sector of the
\* program and of the image it would be swapped with.
NothingLost ==
    IF Provisioned(flash)
    THEN /\ RecordSound(flash, Current(flash), FALSE)
         /\ run.at \in {"copy", "mark"} => RecordSound(flash, Current(flash), TRUE)
    ELSE Holds(flash.program, Factory)

\* The application only ever runs from a whole image, the one its record names.
LaunchIsWhole ==
    run = App =>
        IF Provisioned(flash) THEN Holds(flash.program, Current(flash).prog)
                              ELSE Holds(flash.program, Factory)

\* The two records never let a restart fall back: a step leaves the selected
\* record alone or puts its successor, or the first record, in its place.
RecordsAdvance ==
    [][Provisioned(flash) => /\ Provisioned(flash')
                             /\ \/ Current(flash') = Current(flash)
                                \/ Current(flash').seq = NextSeq(Current(flash).seq)]_vars

\* The slots, the journal and the records behave like two images that change
\* places in one step; what runs is what the program slot holds.
InApplication ==
    \/ run.at \in {"app", "journal"}
    \/ run.at = "write" /\ run.otherwise \in {"return", "ended"}
InSlot == IF \E i \in Images : Holds(flash.program, i)
          THEN CHOOSE i \in Images : Holds(flash.program, i) ELSE Junk
Update == INSTANCE TwoSlotUpdate WITH
    mode     <- IF Provisioned(flash) THEN Current(flash).mode ELSE "STABLE",
    inUse    <- IF Provisioned(flash) THEN Current(flash).prog ELSE Factory,
    spare    <- IF Provisioned(flash) THEN Current(flash).stag ELSE NoImage,
    attempts <- IF Provisioned(flash) THEN Current(flash).attempts ELSE 0,
    running  <- IF InApplication THEN InSlot ELSE NoImage
ImplementsTwoSlotUpdate == Update!AbsSpec

\* doc/en/OTAWorkflow.md: at the limit the slots are swapped again and the
\* previous image is restored as stable.
RollbackRestores ==
    [][(/\ Provisioned(flash) /\ Current(flash).mode = "ROLLBACK"
        /\ Current(flash').mode # "ROLLBACK")
         => Current(flash').mode = "STABLE"]_vars

\* Once faults stop, every reset ends in a launch.
FairSpec == Spec /\ WF_vars(BootStep) /\ <>[][~Fault]_vars
Launches == []<>(run = App)
=============================================================================
