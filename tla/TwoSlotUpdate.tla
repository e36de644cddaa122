--------------------------- MODULE TwoSlotUpdate ---------------------------
(***************************************************************************)
(* What the OTA boot chain promises: a device with two slots whose images  *)
(* change places in one step, that tries a new image a bounded number of   *)
(* times and keeps it only when the application confirms it.  Nothing is   *)
(* said of sectors, journals or records; OtaBoot is shown to implement it. *)
(***************************************************************************)
EXTENDS Integers

CONSTANTS Images, Factory, NoImage, MaxAttempts

VARIABLES
    mode,       \* jh_ota_boot_mode_t
    inUse,      \* the image a launch runs
    spare,      \* the image in the other slot
    attempts,   \* boots of the trial that have been counted
    running     \* the image that is running, or NoImage

absVars == <<mode, inUse, spare, attempts, running>>

AbsInit ==
    /\ mode = "STABLE" /\ inUse = Factory /\ spare = NoImage
    /\ attempts = 0 /\ running = NoImage

\* A complete image has been received; only a stable device takes one.
Accept ==
    /\ mode = "STABLE" /\ running # NoImage
    /\ mode' = "PENDING" /\ spare' \in Images /\ attempts' = 0
    /\ UNCHANGED <<inUse, running>>

ChangePlaces == inUse' = spare /\ spare' = inUse /\ attempts' = 0

Install ==
    /\ mode = "PENDING" /\ running = NoImage
    /\ mode' = "TRIAL" /\ ChangePlaces
    /\ UNCHANGED running

Restore ==
    /\ mode = "ROLLBACK" /\ running = NoImage
    /\ mode' = "STABLE" /\ ChangePlaces
    /\ UNCHANGED running

\* The boots behind the first one are counted, and when none is left the
\* trial is over.
TrialBoot ==
    /\ mode = "TRIAL" /\ running = NoImage
    /\ attempts < MaxAttempts
    /\ attempts' = attempts + 1 /\ running' = inUse
    /\ UNCHANGED <<mode, inUse, spare>>

EndTrial ==
    /\ mode = "TRIAL" /\ running = NoImage
    /\ attempts = MaxAttempts
    /\ mode' = "ROLLBACK"
    /\ UNCHANGED <<inUse, spare, attempts, running>>

Confirm ==
    /\ mode = "TRIAL" /\ running # NoImage
    /\ mode' = "STABLE" /\ attempts' = 0
    /\ UNCHANGED <<inUse, spare, running>>

\* A swap that cannot start leaves the device with the image it has.
GiveUp ==
    /\ mode \in {"PENDING", "ROLLBACK"} /\ running = NoImage
    /\ mode' = "RECOVERY" /\ running' = inUse
    /\ UNCHANGED <<inUse, spare, attempts>>

\* Except behind a counted boot, a trial is launched only as it begins.
Launch ==
    /\ running = NoImage
    /\ mode = "TRIAL" => attempts = 0
    /\ running' = inUse
    /\ UNCHANGED <<mode, inUse, spare, attempts>>

Stop ==
    /\ running' = NoImage
    /\ UNCHANGED <<mode, inUse, spare, attempts>>

AbsNext ==
    \/ Accept \/ Install \/ Restore \/ TrialBoot \/ EndTrial \/ Confirm
    \/ GiveUp \/ Launch \/ Stop

AbsSpec == AbsInit /\ [][AbsNext]_absVars
=============================================================================
