------------------------ MODULE FlashTransactionProofs ------------------------
(***************************************************************************)
(* What holds of FlashTransaction for any number of callers and USB users: *)
(* one transaction at a time, no lock of a destroyed mutex, no false       *)
(* refusal, an undisturbed safe zone, and nothing left behind.  All follow *)
(* from one inductive invariant, FlashInv, which says for each shared flag *)
(* at which steps of which call it is set.                                 *)
(***************************************************************************)
EXTENDS FlashTransaction, TLAPS

Calls == [pc : Steps, mutex : Owners, held : BOOLEAN, status : Statuses,
          ran : BOOLEAN]

(***************************************************************************)
(* What a call has, by the step it is at.                                  *)
(***************************************************************************)
Pausing == {"execute", "operate", "resume", "unpause"}
Running == {"quiesce", "usblock", "pauseowner", "pause", "unowner", "usbunlock",
            "release"} \cup Pausing
Owning == Running \cup {"activate", "disown"}
Holding == Owning \cup {"locked", "unlock"}

HasUsb(q) == q.pc \in {"pauseowner", "pause"} \/ q.held
HasPause(q) == q.pc = "pause" \/ (q.held /\ q.pc # "usbunlock")
Pauses(q) == q.held /\ q.pc \in Pausing

\* s_usb_mutex held says where the call is, and HAL_OK that it operated.
CallOK(q) ==
    /\ q.held => q.pc \in Pausing \cup {"unowner", "usbunlock"}
    /\ q.pc \in {"unpause", "unowner", "usbunlock"} => q.held
    /\ q.status # "ESTATE"
    /\ q.pc \in {"idle", "resume", "unpause", "unowner", "usbunlock", "release",
                 "disown", "unlock"}
         => (q.status = "OK" => q.ran)

\* A mutex in use is the published one, which is never destroyed.
UsesMutex(c, q) ==
    /\ q.mutex \in {NoOwner, mutex}
    /\ q.pc = "publish" => mutex # c
    /\ q.pc \in Holding \cup {"lock"} => mutex # NoOwner /\ q.mutex = mutex

MutexOK ==
    /\ mutex \in alive \cup {NoOwner}
    /\ \A c \in Callers : UsesMutex(c, call[c])
    /\ \A c \in Callers : call[c].pc = "publish" => c \in alive

LockOK ==
    /\ \A c \in Callers : call[c].pc \in Holding => lock[mutex] = c
    /\ \A m \in Callers :
          lock[m] # NoOwner => m = mutex /\ call[lock[m]].pc \in Holding

OwnerOK == \A c \in Callers : call[c].pc \in Owning <=> owner = c

ActiveOK ==
    /\ \A c \in Callers : call[c].pc \in Running => active
    /\ active => owner # NoOwner /\ call[owner].pc \in Running

UsbOK ==
    /\ \A c \in Callers : /\ HasUsb(call[c]) <=> usb.holder = c
                          /\ HasPause(call[c]) <=> usb.pauseOwner = c
                          /\ Pauses(call[c]) => usb.paused
    /\ usb.paused => usb.pauseOwner # NoOwner /\ Pauses(call[usb.pauseOwner])

FlashInv ==
    /\ TypeOK
    /\ \A c \in Callers : CallOK(call[c])
    /\ MutexOK /\ LockOK /\ OwnerOK /\ ActiveOK /\ UsbOK

LEMMA InitOK == Init => FlashInv
<1> SUFFICES ASSUME Init PROVE FlashInv
  OBVIOUS
<1>1. TypeOK
  BY DEF Init, TypeOK, Steps, Statuses, Owners
<1>2. MutexOK /\ LockOK /\ OwnerOK /\ ActiveOK
  BY NoOwnerAssumption DEF Init, MutexOK, UsesMutex, LockOK, OwnerOK, ActiveOK, Holding,
     Owning, Running, Pausing
<1>3. UsbOK /\ \A c \in Callers : CallOK(call[c])
  BY NoOwnerAssumption DEF Init, UsbOK, HasUsb, HasPause, Pauses, CallOK
<1> QED
  BY <1>1, <1>2, <1>3 DEF FlashInv

(***************************************************************************)
(* What the move of one call to the state q leaves alone.                  *)
(***************************************************************************)
Moves(c, q) == q \in Calls /\ CallOK(q) /\ call' = [call EXCEPT ![c] = q]

LEMMA Moved ==
    ASSUME FlashInv, NEW c \in Callers, NEW q, Moves(c, q)
    PROVE  /\ call' \in [Callers -> Calls]
           /\ call'[c] = q
           /\ \A d \in Callers \ {c} : call'[d] = call[d]
           /\ \A d \in Callers : CallOK(call'[d])
  BY DEF FlashInv, TypeOK, Calls, Moves

LEMMA Typed ==
    ASSUME FlashInv
    PROVE  /\ call \in [Callers -> Calls] /\ mutex \in Owners /\ alive \subseteq Callers
           /\ lock \in [Callers -> Owners] /\ owner \in Owners /\ active \in BOOLEAN
           /\ usb \in [up : BOOLEAN, holder : Owners \cup UsbUsers,
                       paused : BOOLEAN, pauseOwner : Owners]
  BY DEF FlashInv, TypeOK, Calls

LEMMA MutexFrame ==
    ASSUME FlashInv, NEW c \in Callers, NEW q, Moves(c, q),
           mutex' = mutex, alive \subseteq alive', UsesMutex(c, q),
           q.pc = "publish" => c \in alive'
    PROVE  MutexOK'
<1>1. \A d \in Callers : UsesMutex(d, call'[d])
  BY Moved DEF FlashInv, MutexOK
<1>2. \A d \in Callers : call'[d].pc = "publish" => d \in alive'
  BY Moved DEF FlashInv, MutexOK
<1>3. mutex' \in alive' \cup {NoOwner}
  BY DEF FlashInv, MutexOK
<1> QED
  BY <1>1, <1>2, <1>3 DEF MutexOK, UsesMutex

LEMMA LockFrame ==
    ASSUME FlashInv, NEW c \in Callers, NEW q, Moves(c, q),
           mutex' = mutex, lock' = lock, q.pc \in Holding <=> call[c].pc \in Holding
    PROVE  LockOK'
<1>1. \A m \in Callers : lock[m] \in Callers \cup {NoOwner}
  BY Typed DEF Owners
<1> QED
  BY <1>1, Moved DEF FlashInv, LockOK

LEMMA OwnerFrame ==
    ASSUME FlashInv, NEW c \in Callers, NEW q, Moves(c, q),
           owner' = owner, q.pc \in Owning <=> call[c].pc \in Owning
    PROVE  OwnerOK'
  BY Moved DEF FlashInv, OwnerOK

LEMMA ActiveFrame ==
    ASSUME FlashInv, NEW c \in Callers, NEW q, Moves(c, q),
           owner' = owner, active' = active, q.pc \in Running <=> call[c].pc \in Running
    PROVE  ActiveOK'
<1>1. owner \in Callers \cup {NoOwner}
  BY Typed DEF Owners
<1> QED
  BY <1>1, Moved DEF FlashInv, ActiveOK

LEMMA UsbFrame ==
    ASSUME FlashInv, NEW c \in Callers, NEW q, Moves(c, q), usb' = usb,
           HasUsb(q) <=> HasUsb(call[c]), HasPause(q) <=> HasPause(call[c]),
           Pauses(q) <=> Pauses(call[c])
    PROVE  UsbOK'
<1>1. usb.pauseOwner \in Callers \cup {NoOwner}
  BY Typed DEF Owners
<1>2. \A d \in Callers : /\ HasUsb(call'[d]) <=> HasUsb(call[d])
                         /\ HasPause(call'[d]) <=> HasPause(call[d])
                         /\ Pauses(call'[d]) <=> Pauses(call[d])
  BY Moved
<1> QED
  BY <1>1, <1>2 DEF FlashInv, UsbOK

LEMMA Assembles ==
    ASSUME FlashInv, NEW c \in Callers, NEW q, Moves(c, q),
           mutex' \in Owners, alive' \subseteq Callers, lock' \in [Callers -> Owners],
           owner' \in Owners, active' \in BOOLEAN,
           usb' \in [up : BOOLEAN, holder : Owners \cup UsbUsers,
                     paused : BOOLEAN, pauseOwner : Owners],
           MutexOK', LockOK', OwnerOK', ActiveOK', UsbOK'
    PROVE  FlashInv'
  BY Moved DEF FlashInv, TypeOK, Calls

\* A step that touches nothing shared.
LEMMA LocalStep ==
    ASSUME FlashInv, NEW c \in Callers, NEW q, Moves(c, q), UsesMutex(c, q),
           UNCHANGED <<mutex, lock, owner, active, usb>>,
           alive \subseteq alive', alive' \subseteq Callers,
           q.pc = "publish" => c \in alive',
           q.pc \in Holding <=> call[c].pc \in Holding,
           q.pc \in Owning <=> call[c].pc \in Owning,
           q.pc \in Running <=> call[c].pc \in Running,
           HasUsb(q) <=> HasUsb(call[c]), HasPause(q) <=> HasPause(call[c]),
           Pauses(q) <=> Pauses(call[c])
    PROVE  FlashInv'
<1>1. MutexOK' /\ LockOK' /\ OwnerOK' /\ ActiveOK' /\ UsbOK'
  BY MutexFrame, LockFrame, OwnerFrame, ActiveFrame, UsbFrame
<1> QED
  BY <1>1, Typed, Assembles

(***************************************************************************)
(* The invariant as the caller of a step sees it.                          *)
(***************************************************************************)
LEMMA Here ==
    ASSUME FlashInv, NEW c \in Callers
    PROVE  /\ call[c] \in Calls /\ CallOK(call[c]) /\ UsesMutex(c, call[c])
           /\ call[c].pc \in Holding => lock[mutex] = c
           /\ call[c].pc \in Owning <=> owner = c
           /\ call[c].pc \in Running => active
           /\ HasUsb(call[c]) <=> usb.holder = c
           /\ HasPause(call[c]) <=> usb.pauseOwner = c
           /\ Pauses(call[c]) => usb.paused
           /\ c # NoOwner
  BY Typed, NoOwnerAssumption DEF FlashInv, MutexOK, LockOK, OwnerOK, ActiveOK, UsbOK

\* A call that goes to another step, perhaps with another status.
GoesTo(c, pc, status) ==
    call' = [call EXCEPT ![c].pc = pc, ![c].status = status]

LEMMA GoesToCall ==
    ASSUME FlashInv, NEW c \in Callers, NEW pc \in Steps, NEW status \in Statuses,
           GoesTo(c, pc, status)
    PROVE  \E q \in Calls :
              /\ call' = [call EXCEPT ![c] = q]
              /\ q.pc = pc /\ q.status = status
              /\ q.mutex = call[c].mutex /\ q.held = call[c].held /\ q.ran = call[c].ran
<1> DEFINE q == [call[c] EXCEPT !.pc = pc, !.status = status]
<1>1. call[c] \in Calls
  BY Typed
<1>2. q \in Calls /\ q.pc = pc /\ q.status = status
      /\ q.mutex = call[c].mutex /\ q.held = call[c].held /\ q.ran = call[c].ran
  BY <1>1 DEF Calls
<1>3. call' = [call EXCEPT ![c] = q]
  BY Typed DEF GoesTo
<1> QED
  BY <1>2, <1>3

LEMMA GotoGoes ==
    ASSUME FlashInv, NEW c \in Callers, NEW pc \in Steps, NEW status \in Statuses
    PROVE  /\ Goto(c, pc) => GoesTo(c, pc, call[c].status)
           /\ Return(c, status) => GoesTo(c, "idle", status)
           /\ Fail(c, status, pc) => GoesTo(c, pc, First(c, status))
<1>1. call[c] \in Calls
  BY Typed
<1>2. [call[c] EXCEPT !.pc = pc] = [call[c] EXCEPT !.pc = pc, !.status = call[c].status]
  BY <1>1 DEF Calls
<1> QED
  BY <1>2, Typed DEF Goto, Return, Fail, GoesTo

(***************************************************************************)
(* Steps that touch nothing shared.                                        *)
(***************************************************************************)
\* The class of a step: what the shared flags say of a call that is there.
SameClass(pc, from) ==
    /\ pc \in Holding <=> from \in Holding
    /\ pc \in Owning <=> from \in Owning
    /\ pc \in Running <=> from \in Running

LEMMA LocalGo ==
    ASSUME FlashInv, NEW c \in Callers, NEW pc \in Steps, NEW status \in Statuses,
           GoesTo(c, pc, status), SameClass(pc, call[c].pc),
           UNCHANGED <<mutex, lock, owner, active, usb>>,
           alive \subseteq alive', alive' \subseteq Callers,
           status # "ESTATE",
           pc \in {"idle", "resume", "unpause", "release"} =>
               (status = "OK" => call[c].ran),
           pc \notin {"pauseowner", "pause", "unowner", "usbunlock", "disown", "unlock"},
           call[c].pc \notin {"pauseowner", "pause", "unowner", "usbunlock"},
           call[c].held => {pc, call[c].pc} \subseteq Pausing,
           pc = "unpause" => call[c].held,
           pc = "publish" => mutex # c /\ c \in alive',
           pc \in Holding \cup {"lock"} => call[c].pc \in Holding \cup {"lock"}
    PROVE  FlashInv'
<1>1. PICK q \in Calls :
          /\ call' = [call EXCEPT ![c] = q]
          /\ q.pc = pc /\ q.status = status
          /\ q.mutex = call[c].mutex /\ q.held = call[c].held /\ q.ran = call[c].ran
  BY GoesToCall
<1>2. CallOK(q)
  BY <1>1 DEF CallOK, Pausing
<1>3. Moves(c, q)
  BY <1>1, <1>2 DEF Moves
<1>4. UsesMutex(c, q)
  BY <1>1, Here DEF UsesMutex
<1>5. /\ HasUsb(q) <=> HasUsb(call[c])
      /\ HasPause(q) <=> HasPause(call[c])
      /\ Pauses(q) <=> Pauses(call[c])
  BY <1>1 DEF HasUsb, HasPause, Pauses, Pausing
<1> QED
  BY <1>1, <1>3, <1>4, <1>5, LocalStep DEF SameClass

LEMMA BeginOK == ASSUME NEW c \in Callers PROVE FlashInv /\ Begin(c) => FlashInv'
<1> SUFFICES ASSUME FlashInv, Begin(c) PROVE FlashInv'
  OBVIOUS
<1> DEFINE q == [pc |-> IF active THEN "reenter" ELSE "acquire", mutex |-> NoOwner,
                 held |-> FALSE, status |-> "OK", ran |-> FALSE]
<1>1. call[c].pc = "idle" /\ ~call[c].held
  BY Here DEF Begin, At, CallOK, Pausing
<1>2. q \in Calls /\ CallOK(q)
  BY DEF Calls, Steps, Owners, Statuses, CallOK, Pausing
<1>3. Moves(c, q)
  BY <1>2 DEF Begin, Moves
<1>4. UsesMutex(c, q)
  BY DEF UsesMutex, Holding, Owning, Running, Pausing
<1>5. /\ q.pc \in Holding <=> call[c].pc \in Holding
      /\ q.pc \in Owning <=> call[c].pc \in Owning
      /\ q.pc \in Running <=> call[c].pc \in Running
  BY <1>1 DEF Holding, Owning, Running, Pausing
<1>6. /\ HasUsb(q) <=> HasUsb(call[c])
      /\ HasPause(q) <=> HasPause(call[c])
      /\ Pauses(q) <=> Pauses(call[c])
  BY <1>1 DEF HasUsb, HasPause, Pauses
<1>7. alive \subseteq alive' /\ alive' \subseteq Callers
  BY Typed DEF Begin, FlashInv, MutexOK
<1> QED
  BY <1>3, <1>4, <1>5, <1>6, <1>7, LocalStep DEF Begin

LEMMA FindMutexOK == ASSUME NEW c \in Callers PROVE FlashInv /\ FindMutex(c) => FlashInv'
<1> SUFFICES ASSUME FlashInv, FindMutex(c) PROVE FlashInv'
  OBVIOUS
<1> DEFINE q == [call[c] EXCEPT !.pc = "lock", !.mutex = mutex]
<1>1. call[c].pc = "create" /\ ~call[c].held /\ mutex # NoOwner
  BY Here DEF FindMutex, At, CallOK, Pausing
<1>2. /\ q \in Calls /\ q.pc = "lock" /\ q.mutex = mutex
      /\ q.held = call[c].held /\ q.status = call[c].status
  BY ZenonT(40), Typed DEF Calls, Steps
<1>3. CallOK(q)
  BY <1>1, <1>2, Here DEF CallOK, Pausing
<1>4. Moves(c, q)
  BY <1>2, <1>3, Typed DEF FindMutex, Moves
<1>5. UsesMutex(c, q)
  BY <1>1, <1>2 DEF UsesMutex
<1>6. /\ q.pc \in Holding <=> call[c].pc \in Holding
      /\ q.pc \in Owning <=> call[c].pc \in Owning
      /\ q.pc \in Running <=> call[c].pc \in Running
  BY <1>1, <1>2 DEF Holding, Owning, Running, Pausing
<1>7. /\ HasUsb(q) <=> HasUsb(call[c])
      /\ HasPause(q) <=> HasPause(call[c])
      /\ Pauses(q) <=> Pauses(call[c])
  BY <1>1, <1>2 DEF HasUsb, HasPause, Pauses
<1>8. alive \subseteq alive' /\ alive' \subseteq Callers
  BY Typed DEF FindMutex, FlashInv, MutexOK
<1> HIDE DEF q
<1> QED
  BY <1>2, <1>4, <1>5, <1>6, <1>7, <1>8, LocalStep DEF FindMutex

LEMMA OperateOK == ASSUME NEW c \in Callers PROVE FlashInv /\ Operate(c) => FlashInv'
<1> SUFFICES ASSUME FlashInv, Operate(c) PROVE FlashInv'
  OBVIOUS
<1>1. PICK status \in {"OK", "EIO"} :
         call' = [call EXCEPT ![c].pc = "resume", ![c].ran = TRUE, ![c].status = status]
  BY DEF Operate
<1> DEFINE q == [call[c] EXCEPT !.pc = "resume", !.ran = TRUE, !.status = status]
<1>2. call[c].pc = "operate"
  BY DEF Operate, At
<1>3. /\ q \in Calls /\ q.pc = "resume" /\ q.mutex = call[c].mutex
      /\ q.held = call[c].held /\ q.status = status /\ q.ran
  BY ZenonT(40), Typed DEF Calls, Steps, Statuses
<1>4. CallOK(q)
  BY <1>1, <1>2, <1>3, Here DEF CallOK, Pausing
<1>5. Moves(c, q)
  BY <1>1, <1>3, <1>4, Typed DEF Moves
<1>6. UsesMutex(c, q)
  BY <1>2, <1>3, Here DEF UsesMutex, Holding, Owning, Running, Pausing
<1>7. /\ q.pc \in Holding <=> call[c].pc \in Holding
      /\ q.pc \in Owning <=> call[c].pc \in Owning
      /\ q.pc \in Running <=> call[c].pc \in Running
  BY <1>2, <1>3 DEF Holding, Owning, Running, Pausing
<1>8. /\ HasUsb(q) <=> HasUsb(call[c])
      /\ HasPause(q) <=> HasPause(call[c])
      /\ Pauses(q) <=> Pauses(call[c])
  BY <1>2, <1>3 DEF HasUsb, HasPause, Pauses, Pausing
<1>9. alive \subseteq alive' /\ alive' \subseteq Callers
  BY Typed DEF Operate, FlashInv, MutexOK
<1> HIDE DEF q
<1> QED
  BY <1>3, <1>5, <1>6, <1>7, <1>8, <1>9, LocalStep DEF Operate

\* Both re-entry tests compare the owner with a caller that owns nothing.
LEMMA CheckOwnerOK ==
    ASSUME NEW c \in Callers
    PROVE  FlashInv /\ (CheckReentry(c) \/ CheckOwner(c)) => FlashInv'
<1> SUFFICES ASSUME FlashInv, CheckReentry(c) \/ CheckOwner(c) PROVE FlashInv'
  OBVIOUS
<1> DEFINE pc == IF call[c].pc = "reenter" THEN "acquire" ELSE "create"
<1>1. call[c].pc \in {"reenter", "acquire"} /\ ~call[c].held
  BY Here DEF CheckReentry, CheckOwner, At, CallOK, Pausing
<1>2. owner # c
  BY <1>1, Here DEF Owning, Running, Pausing
<1>3. pc \in Steps /\ call[c].status \in Statuses /\ call[c].status # "ESTATE"
  BY Here DEF Steps, Calls, CallOK
<1>4. GoesTo(c, pc, call[c].status)
  BY <1>1, <1>2, <1>3, GotoGoes DEF CheckReentry, CheckOwner, At
<1>5. SameClass(pc, call[c].pc)
  BY <1>1 DEF SameClass, Holding, Owning, Running, Pausing
<1>6. /\ alive \subseteq alive' /\ alive' \subseteq Callers
      /\ UNCHANGED <<mutex, lock, owner, active, usb>>
  BY Typed DEF CheckReentry, CheckOwner, FlashInv, MutexOK
<1>7. pc \notin Holding
  BY DEF Holding, Owning, Running, Pausing
<1> HIDE DEF pc
<1>8. pc \in {"acquire", "create"}
  BY DEF pc
<1> QED
  BY <1>1, <1>3, <1>4, <1>5, <1>6, <1>7, <1>8, LocalGo

LEMMA CreateMutexOK == ASSUME NEW c \in Callers PROVE FlashInv /\ CreateMutex(c) => FlashInv'
<1> SUFFICES ASSUME FlashInv, CreateMutex(c) PROVE FlashInv'
  OBVIOUS
<1>1. call[c].pc = "create" /\ ~call[c].held /\ mutex = NoOwner /\ mutex # c
  BY Here DEF CreateMutex, At, CallOK, Pausing
<1>2. /\ alive \subseteq alive' /\ alive' \subseteq Callers
      /\ UNCHANGED <<mutex, lock, owner, active, usb>>
  BY <1>1, Typed DEF CreateMutex
<1>3. call[c].status \in Statuses /\ call[c].status # "ESTATE"
  BY Here DEF Calls, CallOK
<1>4. {"publish", "idle"} \subseteq Steps /\ "ENOMEM" \in Statuses
  BY DEF Steps, Statuses
<1>5. \/ GoesTo(c, "publish", call[c].status) /\ c \in alive'
      \/ GoesTo(c, "idle", "ENOMEM")
  BY <1>4, GotoGoes DEF CreateMutex
<1>6. \A pc \in {"publish", "idle"} :
         SameClass(pc, call[c].pc) /\ pc \notin Holding \cup {"lock"}
  BY <1>1 DEF SameClass, Holding, Owning, Running, Pausing
<1>7. CASE GoesTo(c, "publish", call[c].status) /\ c \in alive'
  BY <1>1, <1>2, <1>3, <1>4, <1>6, <1>7, LocalGo
<1>8. CASE GoesTo(c, "idle", "ENOMEM")
  BY <1>1, <1>2, <1>4, <1>6, <1>8, LocalGo
<1> QED
  BY <1>5, <1>7, <1>8

LEMMA LockTimeoutOK == ASSUME NEW c \in Callers PROVE FlashInv /\ LockTimeout(c) => FlashInv'
<1> SUFFICES ASSUME FlashInv, LockTimeout(c) PROVE FlashInv'
  OBVIOUS
<1>1. call[c].pc = "lock" /\ ~call[c].held
  BY Here DEF LockTimeout, At, CallOK, Pausing
<1>2. /\ alive \subseteq alive' /\ alive' \subseteq Callers
      /\ UNCHANGED <<mutex, lock, owner, active, usb>>
  BY Typed DEF LockTimeout, FlashInv, MutexOK
<1>3. "idle" \in Steps /\ "ETIMEOUT" \in Statuses
  BY DEF Steps, Statuses
<1>4. GoesTo(c, "idle", "ETIMEOUT")
  BY <1>3, GotoGoes DEF LockTimeout
<1>5. SameClass("idle", call[c].pc) /\ "idle" \notin Holding \cup {"lock"}
  BY <1>1 DEF SameClass, Holding, Owning, Running, Pausing
<1> QED
  BY <1>1, <1>2, <1>3, <1>4, <1>5, LocalGo

\* Inside the transaction: a status that is not HAL_OK, or HAL_OK behind the
\* operation, goes with a step of the same class.
LEMMA RunningGo ==
    ASSUME FlashInv, NEW c \in Callers, NEW pc \in Running, NEW status \in Statuses,
           GoesTo(c, pc, status), UNCHANGED <<mutex, alive, lock, owner, active, usb>>,
           call[c].pc \in Running \ {"pauseowner", "pause", "unowner", "usbunlock"},
           pc \notin {"pauseowner", "pause", "unowner", "usbunlock"},
           call[c].held => {pc, call[c].pc} \subseteq Pausing,
           pc = "unpause" => call[c].held,
           status # "ESTATE",
           pc \in {"resume", "unpause", "release"} => (status = "OK" => call[c].ran)
    PROVE  FlashInv'
<1>1. pc \in Steps /\ pc \notin {"idle", "publish", "disown", "unlock"}
  BY DEF Running, Pausing, Steps
<1>2. SameClass(pc, call[c].pc) /\ call[c].pc \in Holding
  BY DEF SameClass, Holding, Owning
<1>3. alive \subseteq alive' /\ alive' \subseteq Callers
  BY Typed DEF FlashInv, MutexOK
<1> QED
  BY <1>1, <1>2, <1>3, LocalGo

LEMMA FirstError ==
    ASSUME FlashInv, NEW c \in Callers, NEW status \in {"ETIMEOUT", "EBUSY"}
    PROVE  First(c, status) \in Statuses \ {"OK", "ESTATE"}
  BY Here DEF First, Statuses, Calls, CallOK

LEMMA QuiesceOK == ASSUME NEW c \in Callers PROVE FlashInv /\ Quiesce(c) => FlashInv'
<1> SUFFICES ASSUME FlashInv, Quiesce(c) PROVE FlashInv'
  OBVIOUS
<1>1. call[c].pc = "quiesce" /\ ~call[c].held
  BY Here DEF Quiesce, At, CallOK, Pausing
<1>2. usb.pauseOwner # c
  BY <1>1, Here DEF HasPause
<1>3. call[c].status \in Statuses /\ call[c].status # "ESTATE"
  BY Here DEF Calls, CallOK
<1>4. {"execute", "usblock"} \subseteq Running /\ {"execute", "usblock"} \subseteq Steps
  BY DEF Running, Pausing, Steps
<1>5. \E pc \in {"execute", "usblock"} : GoesTo(c, pc, call[c].status)
  BY <1>2, <1>3, <1>4, GotoGoes DEF Quiesce
<1>6. call[c].pc \in Running
  BY <1>1 DEF Running
<1> QED
  BY <1>1, <1>3, <1>4, <1>5, <1>6, RunningGo DEF Quiesce

LEMMA UsbLockTimeoutOK ==
    ASSUME NEW c \in Callers PROVE FlashInv /\ UsbLockTimeout(c) => FlashInv'
<1> SUFFICES ASSUME FlashInv, UsbLockTimeout(c) PROVE FlashInv'
  OBVIOUS
<1>1. call[c].pc = "usblock" /\ ~call[c].held
  BY Here DEF UsbLockTimeout, At, CallOK, Pausing
<1>2. First(c, "ETIMEOUT") \in Statuses \ {"OK", "ESTATE"}
  BY FirstError
<1>3. {"release", "usblock"} \subseteq Running /\ "release" \in Steps /\ "ETIMEOUT" \in Statuses
  BY DEF Running, Steps, Statuses
<1>4. GoesTo(c, "release", First(c, "ETIMEOUT"))
  BY <1>3, GotoGoes DEF UsbLockTimeout
<1> QED
  BY <1>1, <1>2, <1>3, <1>4, RunningGo DEF UsbLockTimeout

LEMMA ExecuteOK == ASSUME NEW c \in Callers PROVE FlashInv /\ Execute(c) => FlashInv'
<1> SUFFICES ASSUME FlashInv, Execute(c) PROVE FlashInv'
  OBVIOUS
<1>1. call[c].pc = "execute"
  BY DEF Execute, At
<1>2. \A status \in {"ETIMEOUT", "EBUSY"} : First(c, status) \in Statuses \ {"OK", "ESTATE"}
  BY FirstError
<1>3. /\ {"execute", "operate", "resume"} \subseteq Running \cap Pausing \cap Steps
      /\ {"ETIMEOUT", "EBUSY"} \subseteq Statuses
  BY DEF Running, Pausing, Steps, Statuses
<1>4. call[c].status \in Statuses /\ call[c].status # "ESTATE"
  BY Here DEF Calls, CallOK
<1>5. \/ GoesTo(c, "operate", call[c].status)
      \/ \E status \in {"ETIMEOUT", "EBUSY"} : GoesTo(c, "resume", First(c, status))
  BY <1>3, <1>4, GotoGoes DEF Execute
<1>6. UNCHANGED <<mutex, alive, lock, owner, active, usb>>
  BY DEF Execute
<1>7. CASE GoesTo(c, "operate", call[c].status)
  BY <1>1, <1>3, <1>4, <1>6, <1>7, RunningGo
<1>8. ASSUME NEW status \in {"ETIMEOUT", "EBUSY"}, GoesTo(c, "resume", First(c, status))
      PROVE  FlashInv'
  BY <1>1, <1>2, <1>3, <1>6, <1>8, RunningGo
<1> QED
  BY <1>5, <1>7, <1>8

\* The pause is still the caller's: jh_rp_usb_flash_resume does not refuse.
LEMMA ResumeOK == ASSUME NEW c \in Callers PROVE FlashInv /\ Resume(c) => FlashInv'
<1> SUFFICES ASSUME FlashInv, Resume(c) PROVE FlashInv'
  OBVIOUS
<1>1. call[c].pc = "resume"
  BY DEF Resume, At
<1>2. call[c].held => usb.paused /\ usb.pauseOwner = c
  BY <1>1, Here DEF HasPause, Pauses, Pausing
<1>3. {"release", "unpause", "resume"} \subseteq Running \cap Steps /\ {"unpause", "resume"} \subseteq Pausing
  BY DEF Running, Pausing, Steps
<1>4. /\ call[c].status \in Statuses /\ call[c].status # "ESTATE"
      /\ call[c].status = "OK" => call[c].ran
  BY <1>1, Here DEF Calls, CallOK
<1>5. \/ ~call[c].held /\ GoesTo(c, "release", call[c].status)
      \/ call[c].held /\ GoesTo(c, "unpause", call[c].status)
  BY <1>2, <1>3, <1>4, GotoGoes DEF Resume
<1>6. UNCHANGED <<mutex, alive, lock, owner, active, usb>>
  BY DEF Resume
<1> QED
  BY <1>1, <1>3, <1>4, <1>5, <1>6, RunningGo

(***************************************************************************)
(* Steps that create, take and give back the mutex and the transaction.    *)
(***************************************************************************)
\* Who holds the mutex holds it alone.
LEMMA Alone ==
    ASSUME FlashInv, NEW c \in Callers, NEW d \in Callers,
           call[c].pc \in Holding, call[d].pc \in Holding
    PROVE  c = d
  BY Here

\* A step of a call outside the USB part that changes its pc and status only.
LEMMA SharedGo ==
    ASSUME FlashInv, NEW c \in Callers, NEW pc \in Steps, NEW status \in Statuses,
           GoesTo(c, pc, status),
           {pc, call[c].pc} \subseteq {"idle", "lock", "locked", "activate", "quiesce",
                                       "release", "disown", "unlock"},
           status # "ESTATE",
           pc \in {"idle", "release", "disown", "unlock"} =>
               (status = "OK" => call[c].ran),
           usb' = usb, mutex' = mutex, alive' = alive,
           pc \in Holding \cup {"lock"} => call[c].pc \in Holding \cup {"lock"}
    PROVE  /\ \E q : Moves(c, q) /\ q.pc = pc
           /\ UsbOK' /\ MutexOK'
<1>1. PICK q \in Calls :
          /\ call' = [call EXCEPT ![c] = q]
          /\ q.pc = pc /\ q.status = status
          /\ q.mutex = call[c].mutex /\ q.held = call[c].held /\ q.ran = call[c].ran
  BY GoesToCall
<1>2. ~call[c].held
  BY Here DEF CallOK, Pausing
<1>3. CallOK(q)
  BY <1>1, <1>2 DEF CallOK
<1>4. Moves(c, q)
  BY <1>1, <1>3 DEF Moves
<1>5. UsesMutex(c, q)
  BY <1>1, Here DEF UsesMutex
<1>6. MutexOK'
  BY <1>1, <1>4, <1>5, MutexFrame
<1>7. /\ HasUsb(q) <=> HasUsb(call[c])
      /\ HasPause(q) <=> HasPause(call[c])
      /\ Pauses(q) <=> Pauses(call[c])
  BY <1>1, <1>2 DEF HasUsb, HasPause, Pauses
<1> QED
  BY <1>1, <1>4, <1>6, <1>7, UsbFrame

\* Of the callers that created a mutex one publishes it; a loser destroys its
\* own, which nobody else has seen.
LEMMA PublishMutexOK ==
    ASSUME NEW c \in Callers PROVE FlashInv /\ PublishMutex(c) => FlashInv'
<1> SUFFICES ASSUME FlashInv, PublishMutex(c) PROVE FlashInv'
  OBVIOUS
<1> DEFINE m == IF mutex = NoOwner THEN c ELSE mutex
           q == [call[c] EXCEPT !.pc = "lock", !.mutex = m]
<1>1. /\ call[c].pc = "publish" /\ ~call[c].held /\ mutex # c /\ c # NoOwner
      /\ mutex \in Owners /\ call[c].status # "ESTATE"
  BY Typed, Here DEF PublishMutex, At, CallOK, Pausing, UsesMutex
<1>2. /\ mutex' = m /\ m \in Callers /\ m # NoOwner
      /\ call' = [call EXCEPT ![c].pc = "lock", ![c].mutex = m]
      /\ UNCHANGED <<lock, owner, active, usb>>
  BY <1>1, NoOwnerAssumption DEF PublishMutex, Owners
<1>3. /\ q \in Calls /\ q.pc = "lock" /\ q.mutex = m
      /\ q.held = call[c].held /\ q.status = call[c].status
  BY ZenonT(40), <1>2, Typed DEF Calls, Steps, Owners
<1>4. CallOK(q)
  BY <1>1, <1>3 DEF CallOK, Pausing
<1>5. Moves(c, q)
  BY <1>2, <1>3, <1>4, Typed DEF Moves
<1>6. SameClass(q.pc, call[c].pc)
  BY <1>1, <1>3 DEF SameClass, Holding, Owning, Running, Pausing
<1>7. /\ HasUsb(q) <=> HasUsb(call[c])
      /\ HasPause(q) <=> HasPause(call[c])
      /\ Pauses(q) <=> Pauses(call[c])
  BY <1>1, <1>3 DEF HasUsb, HasPause, Pauses
<1>8. OwnerOK' /\ ActiveOK' /\ UsbOK'
  BY <1>2, <1>5, <1>6, <1>7, OwnerFrame, ActiveFrame, UsbFrame DEF SameClass
<1>9. mutex' \in alive' /\ alive' \subseteq Callers
  BY <1>1, <1>2, Typed DEF PublishMutex, FlashInv, MutexOK
<1> HIDE DEF q
<1>10. MutexOK'
  <2>1. call'[c] = q /\ \A d \in Callers \ {c} : call'[d] = call[d]
    BY <1>5, Moved
  <2>2. \A d \in Callers : UsesMutex(d, call[d]) /\ (call[d].pc = "publish" => d \in alive)
    BY DEF FlashInv, MutexOK
  <2>3. \A d \in Callers \ {c} : d \in alive => d \in alive'
    BY DEF PublishMutex
  <2>4. \A d \in Callers : call'[d].pc = "publish" => d \in alive'
    BY <1>3, <2>1, <2>2, <2>3
  <2>5. \A d \in Callers :
          /\ call'[d].mutex \in {NoOwner, mutex'}
          /\ call'[d].pc = "publish" => mutex' # d
          /\ call'[d].pc \in Holding \cup {"lock"} =>
                mutex' # NoOwner /\ call'[d].mutex = mutex'
    <3>1. CASE mutex = NoOwner
      BY <1>1, <1>2, <1>3, <2>1, <2>2, <3>1 DEF UsesMutex
    <3>2. CASE mutex # NoOwner
      BY <1>1, <1>2, <1>3, <2>1, <2>2, <3>2 DEF UsesMutex
    <3> QED
      BY <3>1, <3>2
  <2> QED
    BY <1>9, <2>4, <2>5 DEF MutexOK, UsesMutex
<1>11. LockOK'
  <2>1. call'[c] = q /\ \A d \in Callers \ {c} : call'[d] = call[d]
    BY <1>5, Moved
  <2>2. q.pc \notin Holding /\ call[c].pc \notin Holding
    BY <1>1, <1>3 DEF Holding, Owning, Running, Pausing
  <2>3. \A d \in Callers : call[d].pc \in Holding => mutex # NoOwner /\ lock[mutex] = d
    BY Here DEF UsesMutex
  <2>4. \A x \in Callers : lock[x] # NoOwner =>
            x = mutex /\ mutex = m /\ lock[x] # c /\ call[lock[x]].pc \in Holding
    BY <2>2, NoOwnerAssumption DEF FlashInv, LockOK
  <2>5. \A x \in Callers : lock[x] \in Callers \cup {NoOwner}
    BY Typed DEF Owners
  <2> HIDE DEF m
  <2>6. \A d \in Callers : call'[d].pc \in Holding => lock'[mutex'] = d
    BY <1>2, <2>1, <2>2, <2>3 DEF m
  <2>7. \A x \in Callers : lock'[x] # NoOwner => x = mutex' /\ call'[lock'[x]].pc \in Holding
    BY <1>2, <2>1, <2>4, <2>5
  <2> QED
    BY <2>6, <2>7 DEF LockOK
<1>12. mutex' \in Owners
  BY <1>2 DEF Owners
<1> QED
  BY <1>2, <1>5, <1>8, <1>9, <1>10, <1>11, <1>12, Typed, Assembles

LEMMA TryLockOK == ASSUME NEW c \in Callers PROVE FlashInv /\ TryLock(c) => FlashInv'
<1> SUFFICES ASSUME FlashInv, TryLock(c) PROVE FlashInv'
  OBVIOUS
<1>1. /\ call[c].pc = "lock" /\ call[c].mutex = mutex /\ mutex \in Callers
      /\ call[c].status \in Statuses /\ call[c].status # "ESTATE"
      /\ lock[mutex] = NoOwner /\ lock' = [lock EXCEPT ![mutex] = c]
      /\ UNCHANGED <<mutex, alive, owner, active, usb>>
  BY Typed, Here DEF TryLock, At, UsesMutex, CallOK, Calls, Owners
<1>2. "locked" \in Steps /\ GoesTo(c, "locked", call[c].status)
  BY <1>1, GotoGoes DEF TryLock, Steps
<1>3. PICK q : Moves(c, q) /\ q.pc = "locked"
  BY <1>1, <1>2, SharedGo
<1>4. UsbOK' /\ MutexOK'
  BY <1>1, <1>2, SharedGo
<1>5. /\ "locked" \in Holding /\ "locked" \notin Owning /\ "locked" \notin Running
      /\ "lock" \notin Holding /\ "lock" \notin Owning /\ "lock" \notin Running
  BY DEF Holding, Owning, Running, Pausing
<1>6. OwnerOK' /\ ActiveOK'
  BY <1>1, <1>3, <1>5, OwnerFrame, ActiveFrame
<1>7. LockOK'
  <2>1. call'[c] = q /\ \A d \in Callers \ {c} : call'[d] = call[d]
    BY <1>3, Moved
  <2>2. \A d \in Callers : call[d].pc \notin Holding
    BY <1>1, Here
  <2>3. \A x \in Callers : lock[x] = NoOwner
    BY <1>1 DEF FlashInv, LockOK
  <2> QED
    BY <1>1, <1>3, <1>5, <2>1, <2>2, <2>3, Typed DEF LockOK
<1>8. lock' \in [Callers -> Owners]
  BY <1>1, Typed DEF Owners
<1> QED
  BY <1>1, <1>3, <1>4, <1>6, <1>7, <1>8, Typed, Assembles

\* s_active is never found set under the lock: only its holder sets it.
LEMMA CheckActiveOK == ASSUME NEW c \in Callers PROVE FlashInv /\ CheckActive(c) => FlashInv'
<1> SUFFICES ASSUME FlashInv, CheckActive(c) PROVE FlashInv'
  OBVIOUS
<1>1. /\ "locked" \in Holding /\ "locked" \notin Owning /\ "locked" \notin Running
      /\ "activate" \in Holding /\ "activate" \in Owning /\ "activate" \notin Running
      /\ Running \subseteq Owning /\ Owning \subseteq Holding /\ "activate" \in Steps
  BY DEF Holding, Owning, Running, Pausing, Steps
<1>2. /\ call[c].pc = "locked" /\ call[c].status \in Statuses
      /\ call[c].status # "ESTATE"
  BY Here DEF CheckActive, At, CallOK, Calls
<1>3. \A d \in Callers : call[d].pc \notin Owning
  BY <1>1, <1>2, Alone
<1>4. ~active /\ owner \notin Callers
  <2>1. owner \in Callers \cup {NoOwner}
    BY Typed DEF Owners
  <2> QED
    BY <1>1, <1>3, <2>1 DEF FlashInv, ActiveOK, OwnerOK
<1>5. owner' = c /\ UNCHANGED <<mutex, alive, lock, active, usb>>
  BY <1>4 DEF CheckActive
<1>6. GoesTo(c, "activate", call[c].status)
  BY <1>1, <1>2, <1>4, GotoGoes DEF CheckActive
<1>7. PICK q : Moves(c, q) /\ q.pc = "activate"
  BY <1>1, <1>2, <1>5, <1>6, SharedGo
<1>8. UsbOK' /\ MutexOK'
  BY <1>1, <1>2, <1>5, <1>6, SharedGo
<1>9. LockOK'
  BY <1>1, <1>2, <1>5, <1>7, LockFrame
<1>10. call'[c] = q /\ \A d \in Callers \ {c} : call'[d] = call[d]
  BY <1>7, Moved
<1>11. OwnerOK'
  BY <1>1, <1>3, <1>5, <1>7, <1>10 DEF OwnerOK
<1>12. ActiveOK'
  BY <1>1, <1>3, <1>4, <1>5, <1>7, <1>10 DEF ActiveOK
<1>13. owner' \in Owners
  BY <1>5 DEF Owners
<1> QED
  BY <1>5, <1>7, <1>8, <1>9, <1>11, <1>12, <1>13, Typed, Assembles

LEMMA ActivateOK == ASSUME NEW c \in Callers PROVE FlashInv /\ Activate(c) => FlashInv'
<1> SUFFICES ASSUME FlashInv, Activate(c) PROVE FlashInv'
  OBVIOUS
<1>1. /\ {"activate", "quiesce"} \subseteq Holding \cap Owning \cap Steps
      /\ "activate" \notin Running /\ "quiesce" \in Running
  BY DEF Holding, Owning, Running, Pausing, Steps
<1>2. /\ call[c].pc = "activate" /\ call[c].status \in Statuses
      /\ call[c].status # "ESTATE"
      /\ active' = TRUE /\ UNCHANGED <<mutex, alive, lock, owner, usb>>
  BY Here DEF Activate, At, CallOK, Calls
<1>3. owner = c /\ c # NoOwner
  BY <1>1, <1>2, Here
<1>4. GoesTo(c, "quiesce", call[c].status)
  BY <1>1, <1>2, GotoGoes DEF Activate
<1>5. PICK q : Moves(c, q) /\ q.pc = "quiesce"
  BY <1>1, <1>2, <1>4, SharedGo
<1>6. UsbOK' /\ MutexOK'
  BY <1>1, <1>2, <1>4, SharedGo
<1>7. LockOK' /\ OwnerOK'
  BY <1>1, <1>2, <1>5, LockFrame, OwnerFrame
<1>8. call'[c] = q
  BY <1>5, Moved
<1>9. ActiveOK'
  BY <1>1, <1>2, <1>3, <1>5, <1>8 DEF ActiveOK
<1> QED
  BY <1>2, <1>5, <1>6, <1>7, <1>9, Typed, Assembles

\* release_transaction finds the mutex and its own transaction.
LEMMA ReleaseOK == ASSUME NEW c \in Callers PROVE FlashInv /\ Release(c) => FlashInv'
<1> SUFFICES ASSUME FlashInv, Release(c) PROVE FlashInv'
  OBVIOUS
<1>1. /\ {"release", "disown"} \subseteq Holding \cap Owning \cap Steps
      /\ "release" \in Running /\ "disown" \notin Running
      /\ Running \subseteq Owning /\ Owning \subseteq Holding
  BY DEF Holding, Owning, Running, Pausing, Steps
<1>2. /\ call[c].pc = "release" /\ call[c].status \in Statuses
      /\ call[c].status # "ESTATE" /\ (call[c].status = "OK" => call[c].ran)
      /\ mutex # NoOwner /\ active
  BY <1>1, Here DEF Release, At, CallOK, Calls, UsesMutex
<1>3. active' = FALSE /\ UNCHANGED <<mutex, alive, lock, owner, usb>>
  BY <1>2 DEF Release
<1>4. GoesTo(c, "disown", call[c].status)
  BY <1>1, <1>2, GotoGoes DEF Release
<1>5. PICK q : Moves(c, q) /\ q.pc = "disown"
  BY <1>1, <1>2, <1>3, <1>4, SharedGo
<1>6. UsbOK' /\ MutexOK'
  BY <1>1, <1>2, <1>3, <1>4, SharedGo
<1>7. LockOK' /\ OwnerOK'
  BY <1>1, <1>2, <1>3, <1>5, LockFrame, OwnerFrame
<1>8. call'[c] = q /\ \A d \in Callers \ {c} : call'[d] = call[d]
  BY <1>5, Moved
<1>9. \A d \in Callers \ {c} : call[d].pc \notin Running
  BY <1>1, <1>2, Alone
<1>10. ActiveOK'
  BY <1>1, <1>3, <1>5, <1>8, <1>9 DEF ActiveOK
<1> QED
  BY <1>3, <1>5, <1>6, <1>7, <1>10, Typed, Assembles

LEMMA DisownOK == ASSUME NEW c \in Callers PROVE FlashInv /\ Disown(c) => FlashInv'
<1> SUFFICES ASSUME FlashInv, Disown(c) PROVE FlashInv'
  OBVIOUS
<1>1. /\ {"disown", "unlock"} \subseteq Holding \cap Steps
      /\ "disown" \in Owning /\ "unlock" \notin Owning
      /\ {"disown", "unlock"} \cap Running = {}
      /\ Running \subseteq Owning /\ Owning \subseteq Holding
  BY DEF Holding, Owning, Running, Pausing, Steps
<1>2. /\ call[c].pc = "disown" /\ call[c].status \in Statuses
      /\ call[c].status # "ESTATE" /\ (call[c].status = "OK" => call[c].ran)
      /\ owner' = NoOwner /\ UNCHANGED <<mutex, alive, lock, active, usb>>
  BY Here DEF Disown, At, CallOK, Calls
<1>3. GoesTo(c, "unlock", call[c].status)
  BY <1>1, <1>2, GotoGoes DEF Disown
<1>4. PICK q : Moves(c, q) /\ q.pc = "unlock"
  BY <1>1, <1>2, <1>3, SharedGo
<1>5. UsbOK' /\ MutexOK'
  BY <1>1, <1>2, <1>3, SharedGo
<1>6. LockOK'
  BY <1>1, <1>2, <1>4, LockFrame
<1>7. call'[c] = q /\ \A d \in Callers \ {c} : call'[d] = call[d]
  BY <1>4, Moved
<1>8. \A d \in Callers \ {c} : call[d].pc \notin Owning
  BY <1>1, <1>2, Alone
<1>9. OwnerOK'
  BY <1>1, <1>2, <1>4, <1>7, <1>8, NoOwnerAssumption DEF OwnerOK
<1>10. ~active
  <2>1. owner = c
    BY <1>1, <1>2, Here
  <2> QED
    BY <1>1, <1>2, <2>1 DEF FlashInv, ActiveOK
<1>11. ActiveOK'
  BY <1>1, <1>2, <1>4, <1>7, <1>8, <1>10 DEF ActiveOK
<1>12. owner' \in Owners
  BY <1>2 DEF Owners
<1> QED
  BY <1>2, <1>4, <1>5, <1>6, <1>9, <1>11, <1>12, Typed, Assembles

LEMMA UnlockOK == ASSUME NEW c \in Callers PROVE FlashInv /\ Unlock(c) => FlashInv'
<1> SUFFICES ASSUME FlashInv, Unlock(c) PROVE FlashInv'
  OBVIOUS
<1>1. /\ "unlock" \in Holding /\ "idle" \notin Holding \cup {"lock"} /\ "idle" \in Steps
      /\ {"unlock", "idle"} \cap (Owning \cup Running) = {}
  BY DEF Holding, Owning, Running, Pausing, Steps
<1>2. /\ call[c].pc = "unlock" /\ call[c].status \in Statuses
      /\ call[c].status # "ESTATE" /\ (call[c].status = "OK" => call[c].ran)
      /\ lock' = [lock EXCEPT ![mutex] = NoOwner]
      /\ UNCHANGED <<mutex, alive, owner, active, usb>>
  BY Here DEF Unlock, At, CallOK, Calls
<1>3. GoesTo(c, "idle", call[c].status)
  BY <1>1, <1>2, GotoGoes DEF Unlock
<1>4. PICK q : Moves(c, q) /\ q.pc = "idle"
  BY <1>1, <1>2, <1>3, SharedGo
<1>5. UsbOK' /\ MutexOK'
  BY <1>1, <1>2, <1>3, SharedGo
<1>6. OwnerOK' /\ ActiveOK'
  BY <1>1, <1>2, <1>4, OwnerFrame, ActiveFrame
<1>7. LockOK'
  <2>1. call'[c] = q /\ \A d \in Callers \ {c} : call'[d] = call[d]
    BY <1>4, Moved
  <2>2. \A d \in Callers \ {c} : call[d].pc \notin Holding
    BY <1>1, <1>2, Alone
  <2>3. \A x \in Callers : lock'[x] = NoOwner
    BY <1>2, Typed DEF FlashInv, LockOK
  <2> QED
    BY <1>1, <1>4, <2>1, <2>2, <2>3 DEF LockOK
<1>8. lock' \in [Callers -> Owners]
  BY <1>2, Typed DEF Owners
<1> QED
  BY <1>2, <1>4, <1>5, <1>6, <1>7, <1>8, Typed, Assembles

(***************************************************************************)
(* Steps that pause USB and let it go on.                                  *)
(***************************************************************************)
UsbTypes == [up : BOOLEAN, holder : Owners \cup UsbUsers,
             paused : BOOLEAN, pauseOwner : Owners]

\* A step from pc to pc with the USB mutex flag as given, inside a transaction.
LEMMA UsbStep ==
    ASSUME FlashInv, NEW c \in Callers, NEW q, Moves(c, q),
           UNCHANGED <<mutex, alive, lock, owner, active>>, usb' \in UsbTypes,
           call[c].pc \in Running, q.pc \in Running, q.mutex = call[c].mutex,
           UsbOK'
    PROVE  FlashInv'
<1>1. Running \subseteq Owning /\ Owning \subseteq Holding /\ "publish" \notin Running
  BY DEF Holding, Owning, Running, Pausing
<1>2. UsesMutex(c, q)
  BY <1>1, Here DEF UsesMutex
<1>3. MutexOK' /\ LockOK' /\ OwnerOK' /\ ActiveOK'
  BY <1>1, <1>2, MutexFrame, LockFrame, OwnerFrame, ActiveFrame
<1> QED
  BY <1>3, Typed, Assembles DEF UsbTypes

\* The new state of the call, its pc and its USB mutex flag being given.
LEMMA UsbMoves ==
    ASSUME FlashInv, NEW c \in Callers, NEW pc \in Running, NEW held \in BOOLEAN,
           call' = [call EXCEPT ![c].pc = pc, ![c].held = held],
           held => pc \in Pausing \cup {"unowner", "usbunlock"},
           pc \in {"unpause", "unowner", "usbunlock"} => held,
           pc \in {"resume", "unpause", "unowner", "usbunlock", "release"} =>
               (call[c].status = "OK" => call[c].ran)
    PROVE  \E q : Moves(c, q) /\ q.pc = pc /\ q.held = held /\ q.mutex = call[c].mutex
<1> DEFINE q == [call[c] EXCEPT !.pc = pc, !.held = held]
<1>1. call[c] \in Calls /\ CallOK(call[c]) /\ pc \in Steps
      /\ pc \notin {"idle", "disown", "unlock"}
  BY Here DEF Running, Pausing, Steps
<1>2. /\ q \in Calls /\ q.pc = pc /\ q.held = held /\ q.mutex = call[c].mutex
      /\ q.status = call[c].status /\ q.ran = call[c].ran
  BY <1>1 DEF Calls
<1>3. call' = [call EXCEPT ![c] = q]
  BY Typed
<1> HIDE DEF q
<1>4. CallOK(q)
  BY <1>1, <1>2 DEF CallOK
<1> QED
  BY <1>2, <1>3, <1>4 DEF Moves

\* The USB part of a call decides who holds the mutex and the pause.
LEMMA UsbParts ==
    ASSUME FlashInv, NEW c \in Callers
    PROVE  /\ \A d \in Callers \ {c} :
                 /\ HasUsb(call[d]) => usb.holder = d
                 /\ HasPause(call[d]) => HasUsb(call[d]) /\ usb.pauseOwner = d
                 /\ Pauses(call[d]) => HasPause(call[d])
           /\ usb \in UsbTypes
  BY Here, Typed DEF HasUsb, HasPause, Pauses, Pausing, UsbTypes

\* With the USB mutex free or the caller's own, nobody else has a part of USB.
LEMMA UsbMine ==
    ASSUME FlashInv, NEW c \in Callers, usb.holder \in {c, NoOwner}
    PROVE  /\ \A d \in Callers \ {c} :
                  ~HasUsb(call[d]) /\ ~HasPause(call[d]) /\ ~Pauses(call[d])
           /\ usb.pauseOwner \in {c, NoOwner}
           /\ usb.paused <=> Pauses(call[c])
<1>1. \A d \in Callers \ {c} :
          ~HasUsb(call[d]) /\ ~HasPause(call[d]) /\ ~Pauses(call[d])
  BY UsbParts, NoOwnerAssumption
<1>2. usb.pauseOwner \in {c, NoOwner}
  BY <1>1, Typed DEF FlashInv, UsbOK, Owners
<1>3. usb.paused <=> Pauses(call[c])
  BY <1>2 DEF FlashInv, UsbOK
<1> QED
  BY <1>1, <1>2, <1>3

LEMMA UsbTurn ==
    ASSUME FlashInv, NEW c \in Callers, NEW q, Moves(c, q),
           {usb.holder, usb'.holder, usb'.pauseOwner} \subseteq {c, NoOwner},
           HasUsb(q) <=> usb'.holder = c,
           HasPause(q) <=> usb'.pauseOwner = c,
           Pauses(q) <=> usb'.paused,
           Pauses(q) => HasPause(q)
    PROVE  UsbOK'
<1>1. \A d \in Callers \ {c} :
          ~HasUsb(call'[d]) /\ ~HasPause(call'[d]) /\ ~Pauses(call'[d])
  BY UsbMine, Moved
<1>2. call'[c] = q
  BY Moved
<1>3. ASSUME NEW d \in Callers
      PROVE  /\ HasUsb(call'[d]) <=> usb'.holder = d
             /\ HasPause(call'[d]) <=> usb'.pauseOwner = d
             /\ Pauses(call'[d]) => usb'.paused
  BY <1>1, <1>2, NoOwnerAssumption
<1>4. usb'.paused => usb'.pauseOwner # NoOwner /\ Pauses(call'[usb'.pauseOwner])
  BY <1>2, NoOwnerAssumption
<1> QED
  BY <1>3, <1>4 DEF UsbOK

LEMMA TryUsbLockOK == ASSUME NEW c \in Callers PROVE FlashInv /\ TryUsbLock(c) => FlashInv'
<1> SUFFICES ASSUME FlashInv, TryUsbLock(c) PROVE FlashInv'
  OBVIOUS
<1>1. /\ call[c].pc = "usblock" /\ UNCHANGED <<mutex, alive, lock, owner, active>>
      /\ {"usblock", "pauseowner"} \subseteq Running
  BY DEF TryUsbLock, At, Running, Pausing
<1>2. /\ call[c].held = FALSE
      /\ call[c].pc \in {"unpause", "unowner", "usbunlock"}
             => (call[c].status = "OK" => call[c].ran)
  BY <1>1, Here DEF CallOK, Calls, Pausing
<1>3. call' = [call EXCEPT ![c].pc = "pauseowner", ![c].held = FALSE]
  BY <1>2, Typed DEF TryUsbLock, Goto, Calls
<1>4. PICK q : Moves(c, q) /\ q.pc = "pauseowner" /\ q.held = FALSE /\ q.mutex = call[c].mutex
  BY <1>1, <1>2, <1>3, UsbMoves DEF Pausing
<1>5. usb' \in UsbTypes
  BY UsbParts DEF TryUsbLock, UsbTypes, Owners
<1>6. /\ HasUsb(call[c]) <=> FALSE
      /\ HasPause(call[c]) <=> FALSE
      /\ Pauses(call[c]) <=> FALSE
      /\ HasUsb(q) <=> TRUE
      /\ HasPause(q) <=> FALSE
      /\ Pauses(q) <=> FALSE
  BY <1>1, <1>2, <1>4 DEF HasUsb, HasPause, Pauses, Pausing
<1>7. /\ usb.holder = NoOwner
      /\ usb.pauseOwner = NoOwner
      /\ usb.paused = FALSE
  BY <1>6, Here, UsbMine, UsbParts DEF TryUsbLock, UsbTypes
<1>8. /\ usb'.holder = c
      /\ usb'.pauseOwner = NoOwner
      /\ usb'.paused = FALSE
  BY <1>7, UsbParts DEF TryUsbLock, UsbTypes
<1>9. UsbOK'
  BY <1>4, <1>6, <1>7, <1>8, NoOwnerAssumption, UsbTurn
<1> QED
  BY <1>1, <1>4, <1>5, <1>9, UsbStep

LEMMA PauseOwnerOK == ASSUME NEW c \in Callers PROVE FlashInv /\ PauseOwner(c) => FlashInv'
<1> SUFFICES ASSUME FlashInv, PauseOwner(c) PROVE FlashInv'
  OBVIOUS
<1>1. /\ call[c].pc = "pauseowner" /\ UNCHANGED <<mutex, alive, lock, owner, active>>
      /\ {"pauseowner", "pause"} \subseteq Running
  BY DEF PauseOwner, At, Running, Pausing
<1>2. /\ call[c].held = FALSE
      /\ call[c].pc \in {"unpause", "unowner", "usbunlock"}
             => (call[c].status = "OK" => call[c].ran)
  BY <1>1, Here DEF CallOK, Calls, Pausing
<1>3. call' = [call EXCEPT ![c].pc = "pause", ![c].held = FALSE]
  BY <1>2, Typed DEF PauseOwner, Goto, Calls
<1>4. PICK q : Moves(c, q) /\ q.pc = "pause" /\ q.held = FALSE /\ q.mutex = call[c].mutex
  BY <1>1, <1>2, <1>3, UsbMoves DEF Pausing
<1>5. usb' \in UsbTypes
  BY UsbParts DEF PauseOwner, UsbTypes, Owners
<1>6. /\ HasUsb(call[c]) <=> TRUE
      /\ HasPause(call[c]) <=> FALSE
      /\ Pauses(call[c]) <=> FALSE
      /\ HasUsb(q) <=> TRUE
      /\ HasPause(q) <=> TRUE
      /\ Pauses(q) <=> FALSE
  BY <1>1, <1>2, <1>4 DEF HasUsb, HasPause, Pauses, Pausing
<1>7. /\ usb.holder = c
      /\ usb.pauseOwner = NoOwner
      /\ usb.paused = FALSE
  BY <1>6, Here, UsbMine, UsbParts DEF PauseOwner, UsbTypes
<1>8. /\ usb'.holder = c
      /\ usb'.pauseOwner = c
      /\ usb'.paused = FALSE
  BY <1>7, UsbParts DEF PauseOwner, UsbTypes
<1>9. UsbOK'
  BY <1>4, <1>6, <1>7, <1>8, NoOwnerAssumption, UsbTurn
<1> QED
  BY <1>1, <1>4, <1>5, <1>9, UsbStep

LEMMA PauseOK == ASSUME NEW c \in Callers PROVE FlashInv /\ Pause(c) => FlashInv'
<1> SUFFICES ASSUME FlashInv, Pause(c) PROVE FlashInv'
  OBVIOUS
<1>1. /\ call[c].pc = "pause" /\ UNCHANGED <<mutex, alive, lock, owner, active>>
      /\ {"pause", "execute"} \subseteq Running
  BY DEF Pause, At, Running, Pausing
<1>2. /\ call[c].held = FALSE
      /\ call[c].pc \in {"unpause", "unowner", "usbunlock"}
             => (call[c].status = "OK" => call[c].ran)
  BY <1>1, Here DEF CallOK, Calls, Pausing
<1>3. call' = [call EXCEPT ![c].pc = "execute", ![c].held = TRUE]
  BY <1>2, Typed DEF Pause, Goto, Calls
<1>4. PICK q : Moves(c, q) /\ q.pc = "execute" /\ q.held = TRUE /\ q.mutex = call[c].mutex
  BY ZenonT(40), <1>1, <1>2, <1>3, UsbMoves DEF Pausing
<1>5. usb' \in UsbTypes
  BY UsbParts DEF Pause, UsbTypes, Owners
<1>6. /\ HasUsb(call[c]) <=> TRUE
      /\ HasPause(call[c]) <=> TRUE
      /\ Pauses(call[c]) <=> FALSE
      /\ HasUsb(q) <=> TRUE
      /\ HasPause(q) <=> TRUE
      /\ Pauses(q) <=> TRUE
  BY <1>1, <1>2, <1>4 DEF HasUsb, HasPause, Pauses, Pausing
<1>7. /\ usb.holder = c
      /\ usb.pauseOwner = c
      /\ usb.paused = FALSE
  BY <1>6, Here, UsbMine, UsbParts DEF Pause, UsbTypes
<1>8. /\ usb'.holder = c
      /\ usb'.pauseOwner = c
      /\ usb'.paused = TRUE
  BY <1>7, UsbParts DEF Pause, UsbTypes
<1>9. UsbOK'
  BY <1>4, <1>6, <1>7, <1>8, NoOwnerAssumption, UsbTurn
<1> QED
  BY <1>1, <1>4, <1>5, <1>9, UsbStep

LEMMA UnpauseOK == ASSUME NEW c \in Callers PROVE FlashInv /\ Unpause(c) => FlashInv'
<1> SUFFICES ASSUME FlashInv, Unpause(c) PROVE FlashInv'
  OBVIOUS
<1>1. /\ call[c].pc = "unpause" /\ UNCHANGED <<mutex, alive, lock, owner, active>>
      /\ {"unpause", "unowner"} \subseteq Running
  BY DEF Unpause, At, Running, Pausing
<1>2. /\ call[c].held = TRUE
      /\ call[c].pc \in {"unpause", "unowner", "usbunlock"}
             => (call[c].status = "OK" => call[c].ran)
  BY <1>1, Here DEF CallOK, Calls, Pausing
<1>3. call' = [call EXCEPT ![c].pc = "unowner", ![c].held = TRUE]
  BY <1>2, Typed DEF Unpause, Goto, Calls
<1>4. PICK q : Moves(c, q) /\ q.pc = "unowner" /\ q.held = TRUE /\ q.mutex = call[c].mutex
  BY <1>1, <1>2, <1>3, UsbMoves DEF Pausing
<1>5. usb' \in UsbTypes
  BY UsbParts DEF Unpause, UsbTypes, Owners
<1>6. /\ HasUsb(call[c]) <=> TRUE
      /\ HasPause(call[c]) <=> TRUE
      /\ Pauses(call[c]) <=> TRUE
      /\ HasUsb(q) <=> TRUE
      /\ HasPause(q) <=> TRUE
      /\ Pauses(q) <=> FALSE
  BY <1>1, <1>2, <1>4 DEF HasUsb, HasPause, Pauses, Pausing
<1>7. /\ usb.holder = c
      /\ usb.pauseOwner = c
      /\ usb.paused = TRUE
  BY <1>6, Here, UsbMine, UsbParts DEF Unpause, UsbTypes
<1>8. /\ usb'.holder = c
      /\ usb'.pauseOwner = c
      /\ usb'.paused = FALSE
  BY <1>7, UsbParts DEF Unpause, UsbTypes
<1>9. UsbOK'
  BY <1>4, <1>6, <1>7, <1>8, NoOwnerAssumption, UsbTurn
<1> QED
  BY <1>1, <1>4, <1>5, <1>9, UsbStep

LEMMA UnpauseOwnerOK == ASSUME NEW c \in Callers PROVE FlashInv /\ UnpauseOwner(c) => FlashInv'
<1> SUFFICES ASSUME FlashInv, UnpauseOwner(c) PROVE FlashInv'
  OBVIOUS
<1>1. /\ call[c].pc = "unowner" /\ UNCHANGED <<mutex, alive, lock, owner, active>>
      /\ {"unowner", "usbunlock"} \subseteq Running
  BY DEF UnpauseOwner, At, Running, Pausing
<1>2. /\ call[c].held = TRUE
      /\ call[c].pc \in {"unpause", "unowner", "usbunlock"}
             => (call[c].status = "OK" => call[c].ran)
  BY <1>1, Here DEF CallOK, Calls, Pausing
<1>3. call' = [call EXCEPT ![c].pc = "usbunlock", ![c].held = TRUE]
  BY <1>2, Typed DEF UnpauseOwner, Goto, Calls
<1>4. PICK q : Moves(c, q) /\ q.pc = "usbunlock" /\ q.held = TRUE /\ q.mutex = call[c].mutex
  BY <1>1, <1>2, <1>3, UsbMoves DEF Pausing
<1>5. usb' \in UsbTypes
  BY UsbParts DEF UnpauseOwner, UsbTypes, Owners
<1>6. /\ HasUsb(call[c]) <=> TRUE
      /\ HasPause(call[c]) <=> TRUE
      /\ Pauses(call[c]) <=> FALSE
      /\ HasUsb(q) <=> TRUE
      /\ HasPause(q) <=> FALSE
      /\ Pauses(q) <=> FALSE
  BY <1>1, <1>2, <1>4 DEF HasUsb, HasPause, Pauses, Pausing
<1>7. /\ usb.holder = c
      /\ usb.pauseOwner = c
      /\ usb.paused = FALSE
  BY <1>6, Here, UsbMine, UsbParts DEF UnpauseOwner, UsbTypes
<1>8. /\ usb'.holder = c
      /\ usb'.pauseOwner = NoOwner
      /\ usb'.paused = FALSE
  BY <1>7, UsbParts DEF UnpauseOwner, UsbTypes
<1>9. UsbOK'
  BY <1>4, <1>6, <1>7, <1>8, NoOwnerAssumption, UsbTurn
<1> QED
  BY <1>1, <1>4, <1>5, <1>9, UsbStep

LEMMA UsbUnlockOK == ASSUME NEW c \in Callers PROVE FlashInv /\ UsbUnlock(c) => FlashInv'
<1> SUFFICES ASSUME FlashInv, UsbUnlock(c) PROVE FlashInv'
  OBVIOUS
<1>1. /\ call[c].pc = "usbunlock" /\ UNCHANGED <<mutex, alive, lock, owner, active>>
      /\ {"usbunlock", "release"} \subseteq Running
  BY DEF UsbUnlock, At, Running, Pausing
<1>2. /\ call[c].held = TRUE
      /\ call[c].pc \in {"unpause", "unowner", "usbunlock"}
             => (call[c].status = "OK" => call[c].ran)
  BY <1>1, Here DEF CallOK, Calls, Pausing
<1>3. call' = [call EXCEPT ![c].pc = "release", ![c].held = FALSE]
  BY <1>2, Typed DEF UsbUnlock, Goto, Calls
<1>4. PICK q : Moves(c, q) /\ q.pc = "release" /\ q.held = FALSE /\ q.mutex = call[c].mutex
  BY <1>1, <1>2, <1>3, UsbMoves DEF Pausing
<1>5. usb' \in UsbTypes
  BY UsbParts DEF UsbUnlock, UsbTypes, Owners
<1>6. /\ HasUsb(call[c]) <=> TRUE
      /\ HasPause(call[c]) <=> FALSE
      /\ Pauses(call[c]) <=> FALSE
      /\ HasUsb(q) <=> FALSE
      /\ HasPause(q) <=> FALSE
      /\ Pauses(q) <=> FALSE
  BY <1>1, <1>2, <1>4 DEF HasUsb, HasPause, Pauses, Pausing
<1>7. /\ usb.holder = c
      /\ usb.pauseOwner = NoOwner
      /\ usb.paused = FALSE
  BY <1>6, Here, UsbMine, UsbParts DEF UsbUnlock, UsbTypes
<1>8. /\ usb'.holder = NoOwner
      /\ usb'.pauseOwner = NoOwner
      /\ usb'.paused = FALSE
  BY <1>7, UsbParts DEF UsbUnlock, UsbTypes
<1>9. UsbOK'
  BY <1>4, <1>6, <1>7, <1>8, NoOwnerAssumption, UsbTurn
<1> QED
  BY <1>1, <1>4, <1>5, <1>9, UsbStep

(***************************************************************************)
(* Steps of the rest of the program: no call moves, and only the USB flags *)
(* change.                                                                 *)
(***************************************************************************)
LEMMA OtherStep ==
    ASSUME FlashInv, UNCHANGED <<call, mutex, alive, lock, owner, active>>,
           usb' \in UsbTypes,
           usb'.paused = usb.paused, usb'.pauseOwner = usb.pauseOwner,
           \A c \in Callers : usb'.holder = c <=> usb.holder = c
    PROVE  FlashInv'
<1>1. TypeOK'
  BY DEF FlashInv, TypeOK, UsbTypes
<1>2. \A c \in Callers : CallOK(call'[c])
  BY DEF FlashInv
<1>3. MutexOK' /\ LockOK' /\ OwnerOK' /\ ActiveOK'
  BY DEF FlashInv, MutexOK, UsesMutex, LockOK, OwnerOK, ActiveOK
<1>4. UsbOK'
  BY DEF FlashInv, UsbOK
<1> QED
  BY <1>1, <1>2, <1>3, <1>4 DEF FlashInv

LEMMA UsbInitOK == FlashInv /\ UsbInit => FlashInv'
<1> SUFFICES ASSUME FlashInv, UsbInit PROVE FlashInv'
  OBVIOUS
<1>1. usb \in UsbTypes
  BY Typed DEF UsbTypes
<1>2. /\ usb' \in UsbTypes /\ usb'.paused = usb.paused
      /\ usb'.pauseOwner = usb.pauseOwner /\ usb'.holder = usb.holder
  BY <1>1 DEF UsbInit, UsbTypes
<1> QED
  BY <1>2, OtherStep DEF UsbInit

LEMMA UsbDeinitOK == FlashInv /\ UsbDeinit => FlashInv'
<1> SUFFICES ASSUME FlashInv, UsbDeinit PROVE FlashInv'
  OBVIOUS
<1>1. usb \in UsbTypes
  BY Typed DEF UsbTypes
<1>2. /\ usb' \in UsbTypes /\ usb'.paused = usb.paused
      /\ usb'.pauseOwner = usb.pauseOwner /\ usb'.holder = usb.holder
  BY <1>1 DEF UsbDeinit, UsbTypes
<1> QED
  BY <1>2, OtherStep DEF UsbDeinit

LEMMA UsbEnterOK == ASSUME NEW u \in UsbUsers PROVE FlashInv /\ UsbEnter(u) => FlashInv'
<1> SUFFICES ASSUME FlashInv, UsbEnter(u) PROVE FlashInv'
  OBVIOUS
<1>1. usb \in UsbTypes
  BY Typed DEF UsbTypes
<1>2. /\ usb' \in UsbTypes /\ usb'.paused = usb.paused
      /\ usb'.pauseOwner = usb.pauseOwner /\ usb'.holder = u /\ usb.holder = NoOwner
  BY <1>1 DEF UsbEnter, UsbTypes
<1>3. \A c \in Callers : c # u /\ c # NoOwner
  BY RolesAssumption, NoOwnerAssumption
<1> QED
  BY <1>2, <1>3, OtherStep DEF UsbEnter

LEMMA UsbLeaveOK == ASSUME NEW u \in UsbUsers PROVE FlashInv /\ UsbLeave(u) => FlashInv'
<1> SUFFICES ASSUME FlashInv, UsbLeave(u) PROVE FlashInv'
  OBVIOUS
<1>1. usb \in UsbTypes
  BY Typed DEF UsbTypes
<1>2. /\ usb' \in UsbTypes /\ usb'.paused = usb.paused
      /\ usb'.pauseOwner = usb.pauseOwner /\ usb'.holder = NoOwner /\ usb.holder = u
  BY <1>1 DEF UsbLeave, UsbTypes, Owners
<1>3. \A c \in Callers : c # u /\ c # NoOwner
  BY RolesAssumption, NoOwnerAssumption
<1> QED
  BY <1>2, <1>3, OtherStep DEF UsbLeave

LEMMA StutterOK == FlashInv /\ UNCHANGED vars => FlashInv'
<1> SUFFICES ASSUME FlashInv, UNCHANGED vars PROVE FlashInv'
  OBVIOUS
<1> QED
  BY Typed, OtherStep DEF vars, UsbTypes

LEMMA NextOK == FlashInv /\ [Next]_vars => FlashInv'
<1> SUFFICES ASSUME FlashInv, [Next]_vars PROVE FlashInv'
  OBVIOUS
<1>1. ASSUME NEW c \in Callers, Begin(c) PROVE FlashInv'
  BY <1>1, BeginOK
<1>2. ASSUME NEW c \in Callers, Step(c) PROVE FlashInv'
  <2>1. CASE CheckReentry(c)
    BY <2>1, CheckOwnerOK
  <2>2. CASE CheckOwner(c)
    BY <2>2, CheckOwnerOK
  <2>3. CASE FindMutex(c)
    BY <2>3, FindMutexOK
  <2>4. CASE CreateMutex(c)
    BY <2>4, CreateMutexOK
  <2>5. CASE PublishMutex(c)
    BY <2>5, PublishMutexOK
  <2>6. CASE TryLock(c)
    BY <2>6, TryLockOK
  <2>7. CASE LockTimeout(c)
    BY <2>7, LockTimeoutOK
  <2>8. CASE CheckActive(c)
    BY <2>8, CheckActiveOK
  <2>9. CASE Activate(c)
    BY <2>9, ActivateOK
  <2>10. CASE Quiesce(c)
    BY <2>10, QuiesceOK
  <2>11. CASE TryUsbLock(c)
    BY <2>11, TryUsbLockOK
  <2>12. CASE UsbLockTimeout(c)
    BY <2>12, UsbLockTimeoutOK
  <2>13. CASE PauseOwner(c)
    BY <2>13, PauseOwnerOK
  <2>14. CASE Pause(c)
    BY <2>14, PauseOK
  <2>15. CASE Execute(c)
    BY <2>15, ExecuteOK
  <2>16. CASE Operate(c)
    BY <2>16, OperateOK
  <2>17. CASE Resume(c)
    BY <2>17, ResumeOK
  <2>18. CASE Unpause(c)
    BY <2>18, UnpauseOK
  <2>19. CASE UnpauseOwner(c)
    BY <2>19, UnpauseOwnerOK
  <2>20. CASE UsbUnlock(c)
    BY <2>20, UsbUnlockOK
  <2>21. CASE Release(c)
    BY <2>21, ReleaseOK
  <2>22. CASE Disown(c)
    BY <2>22, DisownOK
  <2>23. CASE Unlock(c)
    BY <2>23, UnlockOK
  <2> QED
    BY <1>2, <2>1, <2>2, <2>3, <2>4, <2>5, <2>6, <2>7, <2>8, <2>9, <2>10, <2>11, <2>12,
       <2>13, <2>14, <2>15, <2>16, <2>17, <2>18, <2>19, <2>20, <2>21, <2>22, <2>23 DEF Step
<1>3. CASE UsbInit \/ UsbDeinit
  BY <1>3, UsbInitOK, UsbDeinitOK
<1>4. ASSUME NEW u \in UsbUsers, UsbEnter(u) \/ UsbLeave(u) PROVE FlashInv'
  BY <1>4, UsbEnterOK, UsbLeaveOK
<1>5. CASE UNCHANGED vars
  BY <1>5, StutterOK
<1> QED
  BY <1>1, <1>2, <1>3, <1>4, <1>5 DEF Next

-----------------------------------------------------------------------------
(***************************************************************************)
(* Every shared flag of a flash transaction (s_active, s_owner, the mutex, *)
(* the USB pause) is set exactly while some call is at a step that owns it.*)
(***************************************************************************)
THEOREM FlashInvariance == Spec => []FlashInv
<1> QED
  BY InitOK, NextOK, PTL DEF Spec

(***************************************************************************)
(* The flags, locks and calls keep their types.                            *)
(***************************************************************************)
THEOREM TypeCorrect == Spec => []TypeOK
<1>1. FlashInv => TypeOK
  BY DEF FlashInv
<1> QED
  BY <1>1, FlashInvariance, PTL

(***************************************************************************)
(* One caller at a time is between acquire_transaction and the store that  *)
(* ends release_transaction, although the first callers may each have made *)
(* a mutex of their own.                                                   *)
(***************************************************************************)
THEOREM TransactionsExclude == Spec => []OneTransaction
<1>1. FlashInv => OneTransaction
  <2> SUFFICES ASSUME FlashInv, NEW c \in Callers, NEW d \in Callers,
                      InTransaction(c), InTransaction(d)
               PROVE  c = d
    BY DEF OneTransaction
  <2>1. call[c].pc \in Owning /\ call[d].pc \in Owning
    BY DEF InTransaction, Owning, Running, Pausing
  <2> QED
    BY <2>1, Here
<1> QED
  BY <1>1, FlashInvariance, PTL

(***************************************************************************)
(* jh_hal_mutex_publish_once: whoever lost the race to publish a mutex     *)
(* destroys only its own, which no call has looked at.                     *)
(***************************************************************************)
THEOREM MutexOutlivesItsUsers == Spec => []MutexAlive
<1>1. FlashInv => MutexAlive
  BY DEF FlashInv, MutexOK, UsesMutex, MutexAlive
<1> QED
  BY <1>1, FlashInvariance, PTL

(***************************************************************************)
(* acquire, resume and release never answer HAL_ESTATE to a caller that is *)
(* not inside its own operation.                                           *)
(***************************************************************************)
THEOREM RefusalsAreTrue == Spec => []NoFalseRefusal
<1>1. FlashInv => NoFalseRefusal
  BY DEF FlashInv, CallOK, NoFalseRefusal
<1> QED
  BY <1>1, FlashInvariance, PTL

(***************************************************************************)
(* While the operation runs its caller owns the transaction and the pause  *)
(* of USB, whatever hal_usb_deinit does meanwhile.                         *)
(***************************************************************************)
THEOREM OperationsAreSafe == Spec => []SafeZone
<1>1. FlashInv => SafeZone
  <2> SUFFICES ASSUME FlashInv, NEW c \in Callers, At(c, "operate")
               PROVE  /\ active
                      /\ owner = c
                      /\ call[c].held => /\ usb.holder = c
                                         /\ usb.paused
                                         /\ usb.pauseOwner = c
    BY DEF SafeZone
  <2>1. call[c].pc = "operate" /\ call[c].pc \in Owning /\ call[c].pc \in Running
    BY DEF At, Owning, Running, Pausing
  <2>2. call[c].held => HasUsb(call[c]) /\ HasPause(call[c]) /\ Pauses(call[c])
    BY <2>1 DEF HasUsb, HasPause, Pauses, Pausing
  <2> QED
    BY <2>1, <2>2, Here
<1> QED
  BY <1>1, FlashInvariance, PTL

(***************************************************************************)
(* Whatever failed between acquire and release, a call that has returned   *)
(* left no lock, owner or pause behind, and HAL_OK means it operated.      *)
(***************************************************************************)
THEOREM NothingIsLeft == Spec => []NothingLeftBehind
<1>1. FlashInv => NothingLeftBehind
  <2> SUFFICES ASSUME FlashInv, NEW c \in Callers, At(c, "idle")
               PROVE  /\ \A m \in Callers : lock[m] # c
                      /\ owner # c
                      /\ usb.holder # c
                      /\ usb.pauseOwner # c
                      /\ call[c].status = "OK" => call[c].ran
    BY DEF NothingLeftBehind
  <2>1. call[c].pc = "idle" /\ call[c].pc \notin Holding /\ call[c].pc \notin Owning
    BY DEF At, Holding, Owning, Running, Pausing
  <2>2. ~call[c].held /\ (call[c].status = "OK" => call[c].ran)
    BY <2>1, Here DEF CallOK, Pausing
  <2>3. ~HasUsb(call[c]) /\ ~HasPause(call[c])
    BY <2>1, <2>2 DEF HasUsb, HasPause
  <2>4. \A m \in Callers : lock[m] # c
    BY <2>1, NoOwnerAssumption DEF FlashInv, LockOK
  <2> QED
    BY <2>1, <2>2, <2>3, <2>4, Here
<1> QED
  BY <1>1, FlashInvariance, PTL

==============================================================================
