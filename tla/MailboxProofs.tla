--------------------------- MODULE MailboxProofs ---------------------------
(***************************************************************************)
(* For any number of rotations: the mailbox's type correctness, that no    *)
(* wakeup is lost, and that it implements the one-place register of        *)
(* LatestFrame (its safety; that what waits is taken is checked by TLC).   *)
(***************************************************************************)
EXTENDS Mailbox, TLAPS

(* Every variable of the mailbox keeps its type.                           *)
THEOREM TypeCorrect == Spec => []TypeOK
<1>1. Init => TypeOK
  <2> SUFFICES ASSUME Init PROVE TypeOK
    OBVIOUS
  <2>1. parked \in BOOLEAN
    BY Zenon DEF Init
  <2> QED
    BY <2>1 DEF Init, TypeOK, SubmitterPC, WorkerPC
<1>2. TypeOK /\ [Next]_vars => TypeOK'
  <2> SUFFICES ASSUME TypeOK, [Next]_vars PROVE TypeOK'
    OBVIOUS
  <2> USE DEF TypeOK, SubmitterPC, WorkerPC
  <2>1. CASE SubmitReplace
    BY <2>1 DEF SubmitReplace
  <2>2. CASE SubmitNotify
    BY <2>2 DEF SubmitNotify
  <2>3. CASE SubmitUnlock
    BY <2>3 DEF SubmitUnlock
  <2>4. CASE Worker
    BY <2>4 DEF Worker, WorkerLock, WorkerWait, WorkerRelock, WorkerTake,
       WorkerUnlock, WorkerProcess
  <2>5. CASE SpuriousWakeup
    BY <2>5 DEF SpuriousWakeup
  <2>6. CASE UNCHANGED vars
    BY <2>6 DEF vars
  <2> QED
    BY <2>1, <2>2, <2>3, <2>4, <2>5, <2>6 DEF Next
<1> QED
  BY <1>1, <1>2, PTL DEF Spec

----------------------------------------------------------------------------
(* The mutex belongs to exactly the thread that is in a critical section,  *)
(* and only a thread inside Condvar::wait is parked.  This is what makes   *)
(* NoLostWakeup inductive: the worker cannot start to wait between the     *)
(* submitter's replace and its notification.                               *)
LockDiscipline ==
  /\ spc \in {"replaced", "notified"} <=> lock = "submitter"
  /\ wpc \in {"locked", "took"} <=> lock = "worker"
  /\ parked => wpc = "waiting"

(* The rotation in the slot is the last one submitted, and newer than any  *)
(* that was taken.                                                         *)
SlotIsLatest ==
  /\ slot # NoFrame => slot = submitted /\ taken < slot
  /\ taken <= submitted

IInv == TypeOK /\ LockDiscipline /\ NoLostWakeup /\ SlotIsLatest

LEMMA IInvInit == Init => IInv
<1> SUFFICES ASSUME Init PROVE IInv
  OBVIOUS
<1>1. parked \in BOOLEAN /\ ~parked
  BY Zenon DEF Init
<1> QED
  BY <1>1 DEF Init, IInv, TypeOK, SubmitterPC, WorkerPC, LockDiscipline,
     NoLostWakeup, SlotIsLatest

LEMMA IInvNext == IInv /\ [Next]_vars => IInv'
<1> SUFFICES ASSUME IInv, [Next]_vars PROVE IInv'
  OBVIOUS
<1> USE MailboxAssumption DEF IInv, TypeOK, SubmitterPC, WorkerPC,
    LockDiscipline, NoLostWakeup, SlotIsLatest
<1>1. CASE SubmitReplace
  BY <1>1 DEF SubmitReplace
<1>2. CASE SubmitNotify
  BY <1>2 DEF SubmitNotify
<1>3. CASE SubmitUnlock
  BY <1>3 DEF SubmitUnlock
<1>4. CASE WorkerLock
  BY <1>4 DEF WorkerLock
<1>5. CASE WorkerWait
  BY <1>5 DEF WorkerWait
<1>6. CASE WorkerRelock
  BY <1>6 DEF WorkerRelock
<1>7. CASE WorkerTake
  BY <1>7 DEF WorkerTake
<1>8. CASE WorkerUnlock
  BY <1>8 DEF WorkerUnlock
<1>9. CASE WorkerProcess
  BY <1>9 DEF WorkerProcess
<1>10. CASE SpuriousWakeup
  BY <1>10 DEF SpuriousWakeup
<1>11. CASE UNCHANGED vars
  BY <1>11 DEF vars
<1> QED
  BY <1>1, <1>2, <1>3, <1>4, <1>5, <1>6, <1>7, <1>8, <1>9, <1>10, <1>11
     DEF Next, Worker

(* The worker never sleeps next to a rotation nobody is about to announce. *)
THEOREM WakeupNotLost == Spec => []NoLostWakeup
<1>1. IInv => NoLostWakeup
  BY DEF IInv
<1> QED
  BY IInvInit, IInvNext, <1>1, PTL DEF Spec

(* What the worker took last only grows, each time to the newest rotation. *)
THEOREM WorkerTakesNewest == Spec => TakesNewest
<1>1. IInv /\ [Next]_vars => [taken' > taken /\ taken' = submitted]_taken
  <2> SUFFICES ASSUME IInv, [Next]_vars, taken' # taken
               PROVE taken' > taken /\ taken' = submitted
    OBVIOUS
  <2>1. WorkerTake
    BY DEF Next, Worker, SubmitReplace, SubmitNotify, SubmitUnlock, WorkerLock,
       WorkerWait, WorkerRelock, WorkerUnlock, WorkerProcess, SpuriousWakeup, vars
  <2> QED
    BY <2>1 DEF WorkerTake, IInv, TypeOK, SlotIsLatest
<1> QED
  BY IInvInit, IInvNext, <1>1, PTL DEF Spec, TakesNewest

----------------------------------------------------------------------------
(* Every step of the mailbox is a step of the register or leaves it alone: *)
(* replacing is Submit, taking is Take, and the lock, the notification and *)
(* the wait queue are invisible.                                           *)
THEOREM MailboxImplementsRegister ==
  Spec => Register!Init /\ [][Register!Next]_<<slot, submitted, taken>>
<1>1. Init => Register!Init
  BY DEF Init, Register!Init
<1>2. [Next]_vars => [Register!Next]_<<slot, submitted, taken>>
  <2> SUFFICES ASSUME [Next]_vars
               PROVE Register!Next \/ UNCHANGED <<slot, submitted, taken>>
    OBVIOUS
  <2>1. CASE SubmitReplace
    BY <2>1 DEF SubmitReplace, Register!Next, Register!Submit
  <2>2. CASE WorkerTake
    BY <2>2 DEF WorkerTake, Register!Next, Register!Take
  <2>3. CASE ~SubmitReplace /\ ~WorkerTake
    BY <2>3 DEF Next, Worker, SubmitNotify, SubmitUnlock, WorkerLock, WorkerWait,
       WorkerRelock, WorkerUnlock, WorkerProcess, SpuriousWakeup, vars
  <2> QED
    BY <2>1, <2>2, <2>3
<1> QED
  BY <1>1, <1>2, PTL DEF Spec
=============================================================================
