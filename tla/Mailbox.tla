------------------------------ MODULE Mailbox ------------------------------
(***************************************************************************)
(* The mailbox of src/slam/worker.rs at the grain of its mutex and its     *)
(* condition variable.  One thread submits (the pipeline task), one takes  *)
(* (the worker thread).  Every step between two lock operations is an      *)
(* action of its own, and the condition variable may wake its waiter with  *)
(* no notification, as std::sync::Condvar documents.                       *)
(***************************************************************************)
EXTENDS Naturals

CONSTANTS NoFrame,          \* None in the slot
          MaxFrames         \* bound: rotations the pipeline submits

ASSUME MailboxAssumption ==
  /\ NoFrame \notin Nat
  /\ MaxFrames \in Nat

VARIABLES lock,             \* "free", or the thread that holds slot's mutex
          slot,             \* the Option<ScanFrame> the mutex protects
          parked,           \* the worker sits in ready's wait queue
          spc,              \* where the submitting thread is
          wpc,              \* where the worker thread is
          submitted,        \* rotations submitted so far; they are numbered
          taken             \* number of the rotation the worker took last

vars == <<lock, slot, parked, spc, wpc, submitted, taken>>

SubmitterPC == {"idle", "replaced", "notified"}
WorkerPC == {"idle", "locked", "waiting", "took", "busy"}

TypeOK ==
  /\ lock \in {"free", "submitter", "worker"}
  /\ slot \in Nat \cup {NoFrame}
  /\ parked \in BOOLEAN
  /\ spc \in SubmitterPC
  /\ wpc \in WorkerPC
  /\ submitted \in Nat
  /\ taken \in Nat

Init ==
  /\ lock = "free"
  /\ slot = NoFrame
  /\ parked = FALSE
  /\ spc = "idle"
  /\ wpc = "idle"
  /\ submitted = 0
  /\ taken = 0

----------------------------------------------------------------------------
(* SlamWorker::submit: lock, replace, notify, and unlock when the guard is *)
(* dropped at the end of the function.                                     *)

(* A faulty variant: a rotation that waits keeps its place and the new one *)
(* is lost.                                                                *)
SubmitKeepsWaiting ==
  /\ spc = "idle" /\ lock = "free"
  /\ submitted < MaxFrames
  /\ lock' = "submitter"
  /\ submitted' = submitted + 1
  /\ slot' = IF slot = NoFrame THEN submitted + 1 ELSE slot
  /\ spc' = "replaced"
  /\ UNCHANGED <<parked, wpc, taken>>

SubmitReplace ==
  /\ spc = "idle" /\ lock = "free"
  /\ submitted < MaxFrames
  /\ lock' = "submitter"
  /\ submitted' = submitted + 1
  /\ slot' = submitted + 1
  /\ spc' = "replaced"
  /\ UNCHANGED <<parked, wpc, taken>>

(* A faulty variant: the rotation is in the slot and nobody is told. *)
SubmitForgetsNotify ==
  /\ spc = "replaced"
  /\ spc' = "notified"
  /\ UNCHANGED <<lock, slot, parked, wpc, submitted, taken>>

SubmitNotify ==
  /\ spc = "replaced"
  /\ parked' = FALSE
  /\ spc' = "notified"
  /\ UNCHANGED <<lock, slot, wpc, submitted, taken>>

SubmitUnlock ==
  /\ spc = "notified"
  /\ lock' = "free"
  /\ spc' = "idle"
  /\ UNCHANGED <<slot, parked, wpc, submitted, taken>>

----------------------------------------------------------------------------
(* The worker's loop.  "waiting" is inside Condvar::wait: while parked the *)
(* thread sleeps, once unparked it competes for the mutex again.           *)

WorkerLock ==
  /\ wpc = "idle" /\ lock = "free"
  /\ lock' = "worker"
  /\ wpc' = "locked"
  /\ UNCHANGED <<slot, parked, spc, submitted, taken>>

WorkerWait ==
  /\ wpc = "locked" /\ slot = NoFrame
  /\ lock' = "free"
  /\ parked' = TRUE
  /\ wpc' = "waiting"
  /\ UNCHANGED <<slot, spc, submitted, taken>>

SpuriousWakeup ==
  /\ parked
  /\ parked' = FALSE
  /\ UNCHANGED <<lock, slot, spc, wpc, submitted, taken>>

WorkerRelock ==
  /\ wpc = "waiting" /\ ~parked /\ lock = "free"
  /\ lock' = "worker"
  /\ wpc' = "locked"
  /\ UNCHANGED <<slot, parked, spc, submitted, taken>>

(* A faulty variant: reads the rotation and leaves it in the slot. *)
WorkerPeeks ==
  /\ wpc = "locked" /\ slot # NoFrame
  /\ taken' = slot
  /\ wpc' = "took"
  /\ UNCHANGED <<lock, slot, parked, spc, submitted>>

(* A faulty variant: woken means there is a rotation, with no look at the  *)
(* slot.                                                                   *)
WorkerTakesUnchecked ==
  /\ wpc = "locked"
  /\ taken' = slot
  /\ slot' = NoFrame
  /\ wpc' = "took"
  /\ UNCHANGED <<lock, parked, spc, submitted>>

WorkerTake ==
  /\ wpc = "locked" /\ slot # NoFrame
  /\ taken' = slot
  /\ slot' = NoFrame
  /\ wpc' = "took"
  /\ UNCHANGED <<lock, parked, spc, submitted>>

WorkerUnlock ==
  /\ wpc = "took"
  /\ lock' = "free"
  /\ wpc' = "busy"
  /\ UNCHANGED <<slot, parked, spc, submitted, taken>>

(* The worker matches the rotation, with the mutex released, and loops. *)
WorkerProcess ==
  /\ wpc = "busy"
  /\ wpc' = "idle"
  /\ UNCHANGED <<lock, slot, parked, spc, submitted, taken>>

----------------------------------------------------------------------------
Worker ==
  \/ WorkerLock \/ WorkerWait \/ WorkerRelock
  \/ WorkerTake \/ WorkerUnlock \/ WorkerProcess

Next ==
  \/ SubmitReplace \/ SubmitNotify \/ SubmitUnlock
  \/ Worker
  \/ SpuriousWakeup

(* A thread inside submit runs on, and so does the worker whenever it can. *)
(* Nothing is assumed of how often rotations arrive or the condition       *)
(* variable wakes by itself.                                               *)
Spec ==
  /\ Init /\ [][Next]_vars
  /\ WF_vars(SubmitNotify) /\ WF_vars(SubmitUnlock)
  /\ WF_vars(Worker)

----------------------------------------------------------------------------
(* The worker never sleeps next to a rotation: when the slot is full and   *)
(* the worker waits un-notified, the submitting thread still holds the     *)
(* mutex and is about to notify (worker.rs:71-81 and 99-111).              *)
NoLostWakeup ==
  parked /\ slot # NoFrame => spc = "replaced"

(* No rotation is handed out twice or after a newer one, nor while a newer *)
(* one exists: what the worker took last only grows, each time to the      *)
(* newest rotation submitted (worker.rs:77, 110).                          *)
TakesNewest == [][taken' > taken /\ taken' = submitted]_taken

(* The mailbox implements the one-place register of LatestFrame: no        *)
(* rotation is handed out twice or after a newer one, submitting replaces  *)
(* what waits, and what waits is taken in the end (worker.rs:29, 70).      *)
Register == INSTANCE LatestFrame
              WITH slot <- slot, submitted <- submitted, taken <- taken

ImplementsRegister == Register!Spec
=============================================================================
