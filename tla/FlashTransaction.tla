--------------------------- MODULE FlashTransaction ---------------------------
(***************************************************************************)
(* The transaction that every erase and program of the RP flash runs in:   *)
(* jh_flash_transaction_engine.cpp (acquire, quiesce, execute, resume,     *)
(* release) over rp_flash_transaction.cpp, the USB half of quiesce and     *)
(* resume in hal_usb.cpp, and the mutex that its first callers create      *)
(* together (hal_mutex_once.h).                                            *)
(*                                                                         *)
(* A caller is a task, or a core without a scheduler: what                 *)
(* current_owner_token returns.  Every load and store of a shared flag is  *)
(* a step of its own unless a mutex orders it, and a wait with a timeout   *)
(* may end whenever a try finds the lock taken.  Calls from an interrupt   *)
(* or with bad arguments are refused at once and left out.                 *)
(***************************************************************************)
EXTENDS Naturals, FiniteSets

CONSTANTS
    Callers,    \* tasks or cores that run transactions
    UsbUsers,   \* tasks that use the USB stack under its mutex
    NoOwner     \* UINTPTR_MAX, and a null mutex

ASSUME NoOwnerAssumption == NoOwner \notin Callers \cup UsbUsers

\* No transaction runs under the USB mutex; a task that does both, one after
\* the other, is a caller and a user.
ASSUME RolesAssumption == Callers \cap UsbUsers = {}

VARIABLES
    call,       \* caller -> where its call is, the mutex it uses, whether it
                \*   holds the USB mutex, its result, and whether the
                \*   operation ran
    mutex,      \* s_transaction_mutex: the caller whose mutex was published
    alive,      \* callers whose mutex is created and not destroyed
    lock,       \* mutex -> who holds it
    owner,      \* s_owner
    active,     \* s_active
    usb         \* s_initialized, the holder of the USB mutex, s_flash_paused
                \*   and s_flash_pause_owner

vars == <<call, mutex, alive, lock, owner, active, usb>>

Steps == {"idle", "reenter", "acquire", "create", "publish", "lock", "locked",
          "activate", "quiesce", "usblock", "pauseowner", "pause", "execute",
          "operate", "resume", "unpause", "unowner", "usbunlock", "release",
          "disown", "unlock"}
Statuses == {"none", "OK", "ESTATE", "ENOMEM", "ETIMEOUT", "EBUSY", "EIO"}
Owners == Callers \cup {NoOwner}

TypeOK ==
    /\ call \in [Callers -> [pc : Steps, mutex : Owners, held : BOOLEAN,
                             status : Statuses, ran : BOOLEAN]]
    /\ mutex \in Owners
    /\ alive \subseteq Callers
    /\ lock \in [Callers -> Owners]
    /\ owner \in Owners
    /\ active \in BOOLEAN
    /\ usb \in [up : BOOLEAN, holder : Owners \cup UsbUsers,
                paused : BOOLEAN, pauseOwner : Owners]

Init ==
    /\ call = [c \in Callers |-> [pc |-> "idle", mutex |-> NoOwner,
                                  held |-> FALSE, status |-> "none",
                                  ran |-> FALSE]]
    /\ mutex = NoOwner
    /\ alive = {}
    /\ lock = [c \in Callers |-> NoOwner]
    /\ owner = NoOwner
    /\ active = FALSE
    /\ usb = [up |-> FALSE, holder |-> NoOwner,
              paused |-> FALSE, pauseOwner |-> NoOwner]

At(c, pc) == call[c].pc = pc
Goto(c, pc) == call' = [call EXCEPT ![c].pc = pc]

(* The call ends with a status, or goes on to pc keeping its first error.  *)
Return(c, status) == call' = [call EXCEPT ![c].pc = "idle", ![c].status = status]
First(c, status) == IF call[c].status = "OK" THEN status ELSE call[c].status
Fail(c, status, pc) ==
    call' = [call EXCEPT ![c].pc = pc, ![c].status = First(c, status)]

(***************************************************************************)
(* jh_rp_flash_transaction_execute refuses a call from inside the caller's *)
(* own operation: s_active is loaded first, s_owner later.                 *)
(***************************************************************************)
Begin(c) ==
    /\ At(c, "idle")
    /\ call' = [call EXCEPT ![c] =
                    [pc |-> IF active THEN "reenter" ELSE "acquire",
                     mutex |-> NoOwner, held |-> FALSE,
                     status |-> "OK", ran |-> FALSE]]
    /\ UNCHANGED <<mutex, alive, lock, owner, active, usb>>

CheckReentry(c) ==
    /\ At(c, "reenter")
    /\ IF owner = c THEN Return(c, "ESTATE") ELSE Goto(c, "acquire")
    /\ UNCHANGED <<mutex, alive, lock, owner, active, usb>>

(***************************************************************************)
(* acquire_transaction: the owner test again, the mutex created once, the  *)
(* lock tried until the timeout, the test of s_active under the lock, and  *)
(* the two stores that name the owner.                                     *)
(***************************************************************************)
CheckOwner(c) ==
    /\ At(c, "acquire")
    /\ IF owner = c THEN Return(c, "ESTATE") ELSE Goto(c, "create")
    /\ UNCHANGED <<mutex, alive, lock, owner, active, usb>>

FindMutex(c) ==
    /\ At(c, "create")
    /\ mutex # NoOwner
    /\ call' = [call EXCEPT ![c].pc = "lock", ![c].mutex = mutex]
    /\ UNCHANGED <<mutex, alive, lock, owner, active, usb>>

CreateMutex(c) ==
    /\ At(c, "create")
    /\ mutex = NoOwner
    /\ \/ /\ alive' = alive \cup {c}
          /\ Goto(c, "publish")
       \/ /\ Return(c, "ENOMEM")
          /\ UNCHANGED alive
    /\ UNCHANGED <<mutex, lock, owner, active, usb>>

(* A mutant of PublishMutex: a store instead of the compare-exchange.      *)
PublishMutexStore(c) ==
    /\ At(c, "publish")
    /\ mutex' = c
    /\ call' = [call EXCEPT ![c].pc = "lock", ![c].mutex = c]
    /\ UNCHANGED <<alive, lock, owner, active, usb>>

PublishMutex(c) ==
    /\ At(c, "publish")
    /\ IF mutex = NoOwner
       THEN /\ mutex' = c
            /\ UNCHANGED alive
       ELSE /\ alive' = alive \ {c}
            /\ UNCHANGED mutex
    /\ call' = [call EXCEPT ![c].pc = "lock", ![c].mutex = mutex']
    /\ UNCHANGED <<lock, owner, active, usb>>

TryLock(c) ==
    /\ At(c, "lock")
    /\ lock[call[c].mutex] = NoOwner
    /\ lock' = [lock EXCEPT ![call[c].mutex] = c]
    /\ Goto(c, "locked")
    /\ UNCHANGED <<mutex, alive, owner, active, usb>>

(* A mutant of LockTimeout: the caller blocks on the mutex.                *)
LockTimeoutNever(c) == FALSE /\ UNCHANGED vars

LockTimeout(c) ==
    /\ At(c, "lock")
    /\ lock[call[c].mutex] # NoOwner
    /\ Return(c, "ETIMEOUT")
    /\ UNCHANGED <<mutex, alive, lock, owner, active, usb>>

CheckActive(c) ==
    /\ At(c, "locked")
    /\ IF active
       THEN /\ lock' = [lock EXCEPT ![call[c].mutex] = NoOwner]
            /\ Return(c, "ESTATE")
            /\ UNCHANGED owner
       ELSE /\ owner' = c
            /\ Goto(c, "activate")
            /\ UNCHANGED lock
    /\ UNCHANGED <<mutex, alive, active, usb>>

Activate(c) ==
    /\ At(c, "activate")
    /\ active' = TRUE
    /\ Goto(c, "quiesce")
    /\ UNCHANGED <<mutex, alive, lock, owner, usb>>

(***************************************************************************)
(* jh_rp_usb_flash_quiesce: nothing to do while USB is not initialised;    *)
(* else the USB mutex is taken and the pause recorded.                     *)
(***************************************************************************)
(* A mutant of Quiesce: the pause is recorded without the USB mutex.       *)
QuiesceUnlocked(c) ==
    /\ At(c, "quiesce")
    /\ Goto(c, IF usb.up THEN "pauseowner" ELSE "execute")
    /\ UNCHANGED <<mutex, alive, lock, owner, active, usb>>

Quiesce(c) ==
    /\ At(c, "quiesce")
    /\ IF ~usb.up
       THEN Goto(c, "execute")
       ELSE IF usb.paused /\ usb.pauseOwner = c
            THEN Fail(c, "ESTATE", "release")
            ELSE Goto(c, "usblock")
    /\ UNCHANGED <<mutex, alive, lock, owner, active, usb>>

TryUsbLock(c) ==
    /\ At(c, "usblock")
    /\ usb.holder = NoOwner
    /\ usb' = [usb EXCEPT !.holder = c]
    /\ Goto(c, "pauseowner")
    /\ UNCHANGED <<mutex, alive, lock, owner, active>>

UsbLockTimeout(c) ==
    /\ At(c, "usblock")
    /\ usb.holder # NoOwner
    /\ Fail(c, "ETIMEOUT", "release")
    /\ UNCHANGED <<mutex, alive, lock, owner, active, usb>>

PauseOwner(c) ==
    /\ At(c, "pauseowner")
    /\ usb' = [usb EXCEPT !.pauseOwner = c]
    /\ Goto(c, "pause")
    /\ UNCHANGED <<mutex, alive, lock, owner, active>>

Pause(c) ==
    /\ At(c, "pause")
    /\ usb' = [usb EXCEPT !.paused = TRUE]
    /\ call' = [call EXCEPT ![c].pc = "execute", ![c].held = TRUE]
    /\ UNCHANGED <<mutex, alive, lock, owner, active>>

(***************************************************************************)
(* safe_execute: the other core may not park in time, or a DMA channel may *)
(* use the flash window; otherwise the operation runs once and says how it *)
(* went.                                                                   *)
(***************************************************************************)
(* A mutant of Execute: resume only behind an operation that ran.          *)
ExecuteNoResume(c) ==
    /\ At(c, "execute")
    /\ \/ Goto(c, "operate")
       \/ Fail(c, "ETIMEOUT", "release")
    /\ UNCHANGED <<mutex, alive, lock, owner, active, usb>>

Execute(c) ==
    /\ At(c, "execute")
    /\ \/ Goto(c, "operate")
       \/ Fail(c, "ETIMEOUT", "resume")
       \/ Fail(c, "EBUSY", "resume")
    /\ UNCHANGED <<mutex, alive, lock, owner, active, usb>>

Operate(c) ==
    /\ At(c, "operate")
    /\ \E status \in {"OK", "EIO"} :
         call' = [call EXCEPT ![c].pc = "resume", ![c].ran = TRUE,
                              ![c].status = status]
    /\ UNCHANGED <<mutex, alive, lock, owner, active, usb>>

(***************************************************************************)
(* jh_rp_usb_flash_resume: nothing without the USB mutex; else the pause   *)
(* must still be the caller's, and is taken back before the mutex.         *)
(***************************************************************************)
Resume(c) ==
    /\ At(c, "resume")
    /\ IF ~call[c].held
       THEN Goto(c, "release")
       ELSE IF ~usb.paused \/ usb.pauseOwner # c
            THEN call' = [call EXCEPT ![c].pc = "release", ![c].held = FALSE,
                                      ![c].status = First(c, "ESTATE")]
            ELSE Goto(c, "unpause")
    /\ UNCHANGED <<mutex, alive, lock, owner, active, usb>>

Unpause(c) ==
    /\ At(c, "unpause")
    /\ usb' = [usb EXCEPT !.paused = FALSE]
    /\ Goto(c, "unowner")
    /\ UNCHANGED <<mutex, alive, lock, owner, active>>

UnpauseOwner(c) ==
    /\ At(c, "unowner")
    /\ usb' = [usb EXCEPT !.pauseOwner = NoOwner]
    /\ Goto(c, "usbunlock")
    /\ UNCHANGED <<mutex, alive, lock, owner, active>>

UsbUnlock(c) ==
    /\ At(c, "usbunlock")
    /\ usb' = [usb EXCEPT !.holder = NoOwner]
    /\ call' = [call EXCEPT ![c].pc = "release", ![c].held = FALSE]
    /\ UNCHANGED <<mutex, alive, lock, owner, active>>

(***************************************************************************)
(* release_transaction: s_active, then s_owner, then the mutex.            *)
(***************************************************************************)
Release(c) ==
    /\ At(c, "release")
    /\ IF mutex = NoOwner \/ ~active
       THEN /\ Return(c, First(c, "ESTATE"))
            /\ UNCHANGED active
       ELSE /\ active' = FALSE
            /\ Goto(c, "disown")
    /\ UNCHANGED <<mutex, alive, lock, owner, usb>>

(* A mutant of Disown: the owner is not reset.                             *)
DisownNot(c) ==
    /\ At(c, "disown")
    /\ Goto(c, "unlock")
    /\ UNCHANGED <<mutex, alive, lock, owner, active, usb>>

Disown(c) ==
    /\ At(c, "disown")
    /\ owner' = NoOwner
    /\ Goto(c, "unlock")
    /\ UNCHANGED <<mutex, alive, lock, active, usb>>

Unlock(c) ==
    /\ At(c, "unlock")
    /\ lock' = [lock EXCEPT ![mutex] = NoOwner]
    /\ Return(c, call[c].status)
    /\ UNCHANGED <<mutex, alive, owner, active, usb>>

Step(c) ==
    \/ CheckReentry(c) \/ CheckOwner(c)
    \/ FindMutex(c) \/ CreateMutex(c) \/ PublishMutex(c)
    \/ TryLock(c) \/ LockTimeout(c) \/ CheckActive(c) \/ Activate(c)
    \/ Quiesce(c) \/ TryUsbLock(c) \/ UsbLockTimeout(c)
    \/ PauseOwner(c) \/ Pause(c)
    \/ Execute(c) \/ Operate(c)
    \/ Resume(c) \/ Unpause(c) \/ UnpauseOwner(c) \/ UsbUnlock(c)
    \/ Release(c) \/ Disown(c) \/ Unlock(c)

(***************************************************************************)
(* The rest of the program: hal_usb_init and hal_usb_deinit, which take    *)
(* the USB mutex around what they change, except that deinit clears        *)
(* s_initialized before it takes it; and the tasks that use the stack.     *)
(***************************************************************************)
UsbInit ==
    /\ ~usb.up
    /\ usb.holder = NoOwner
    /\ usb' = [usb EXCEPT !.up = TRUE]
    /\ UNCHANGED <<call, mutex, alive, lock, owner, active>>

UsbDeinit ==
    /\ usb.up
    /\ usb' = [usb EXCEPT !.up = FALSE]
    /\ UNCHANGED <<call, mutex, alive, lock, owner, active>>

UsbEnter(u) ==
    /\ usb.up
    /\ usb.holder = NoOwner
    /\ usb' = [usb EXCEPT !.holder = u]
    /\ UNCHANGED <<call, mutex, alive, lock, owner, active>>

UsbLeave(u) ==
    /\ usb.holder = u
    /\ usb' = [usb EXCEPT !.holder = NoOwner]
    /\ UNCHANGED <<call, mutex, alive, lock, owner, active>>

Next ==
    \/ \E c \in Callers : Begin(c) \/ Step(c)
    \/ UsbInit
    \/ UsbDeinit
    \/ \E u \in UsbUsers : UsbEnter(u) \/ UsbLeave(u)

Spec == Init /\ [][Next]_vars

(***************************************************************************)
(* Cores and tasks keep running, so a call that has begun takes its next   *)
(* step.                                                                   *)
(***************************************************************************)
FairSpec == Spec /\ \A c \in Callers : WF_vars(Step(c))

-----------------------------------------------------------------------------
InTransaction(c) ==
    call[c].pc \in {"activate", "quiesce", "usblock", "pauseowner", "pause",
                    "execute", "operate", "resume", "unpause", "unowner",
                    "usbunlock", "release", "disown"}

(***************************************************************************)
(* At most one caller is between acquire and release, although the first   *)
(* ones may each have created a mutex of their own                         *)
(* (jh_hal_mutex_publish_once).                                            *)
(***************************************************************************)
OneTransaction ==
    \A c, d \in Callers : InTransaction(c) /\ InTransaction(d) => c = d

(***************************************************************************)
(* A mutex that a caller is about to lock, holds or unlocks was not        *)
(* destroyed by the caller that lost the race to publish.                  *)
(***************************************************************************)
MutexAlive == \A c \in Callers : call[c].mutex \in alive \cup {NoOwner}

(***************************************************************************)
(* A call from outside a transaction is never taken for a recursive one,   *)
(* finds no stale s_active under the lock, and finds its own pause and its *)
(* own transaction when it takes them back: HAL_ESTATE is not a result.    *)
(***************************************************************************)
NoFalseRefusal == \A c \in Callers : call[c].status # "ESTATE"

(***************************************************************************)
(* While the operation runs its caller is the recorded owner, so that a    *)
(* recursive call is refused, and the USB stack it paused stays paused     *)
(* with nobody in it, also when USB is deinitialised meanwhile.            *)
(***************************************************************************)
SafeZone ==
    \A c \in Callers :
        At(c, "operate") =>
            /\ active
            /\ owner = c
            /\ call[c].held => /\ usb.holder = c
                               /\ usb.paused
                               /\ usb.pauseOwner = c

(***************************************************************************)
(* Whatever failed on the way, a caller that has returned holds no mutex,  *)
(* owns no transaction and no pause; and a call that returned HAL_OK ran   *)
(* its operation.                                                          *)
(***************************************************************************)
NothingLeftBehind ==
    \A c \in Callers :
        At(c, "idle") =>
            /\ \A m \in Callers : lock[m] # c
            /\ owner # c
            /\ usb.holder # c
            /\ usb.pauseOwner # c
            /\ call[c].status = "OK" => call[c].ran

(***************************************************************************)
(* Every call returns, however long other callers hold the locks.          *)
(***************************************************************************)
CallsReturn == \A c \in Callers : ~At(c, "idle") ~> At(c, "idle")
=============================================================================
