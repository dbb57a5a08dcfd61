---------------------------- MODULE WorkerLoop ----------------------------
(***************************************************************************)
(* The SLAM workers with the most general pipeline around them: rotations  *)
(* come at any pace and results are read at any pace.  What holds here     *)
(* holds of a worker whatever the pipeline does; OlivawHub implements this *)
(* module.                                                                 *)
(***************************************************************************)
EXTENDS SlamWorker

CONSTANT MaxRotations       \* bound: events handled

ASSUME LoopAssumption == MaxRotations \in Nat

VARIABLES rotations,        \* events handled; a rotation is named by its number
          pose              \* the rotation of the newest pose read, 0 if none

vars == <<workerVars, rotations, pose>>

Init ==
  /\ WorkerInit
  /\ rotations = 0
  /\ pose = [c \in Car |-> 0]

SpawnWorker(c) ==
  /\ ~HasWorker(c)
  /\ Spawn(c)
  /\ UNCHANGED <<rotations, pose>>

SubmitNext(c) ==
  /\ HasWorker(c)
  /\ rotations < MaxRotations
  /\ rotations' = rotations + 1
  /\ Submit(c, rotations')
  /\ UNCHANGED pose

(* A telemetry sample, a status, or a rotation whose worker did not start. *)
OtherEvent ==
  /\ rotations < MaxRotations
  /\ rotations' = rotations + 1
  /\ UNCHANGED <<workerVars, pose>>

ReadOutput ==
  /\ RecvOutput
  /\ LET o == Head(slam_rx)
     IN pose' = [c \in Car |-> IF IsTracked(o, c) THEN o.val ELSE pose[c]]
  /\ UNCHANGED rotations

Worker(c) ==
  /\ WorkerStep(c) \/ Stop(c)
  /\ UNCHANGED <<rotations, pose>>

Next ==
  \/ \E c \in Car : SpawnWorker(c) \/ SubmitNext(c) \/ Worker(c)
  \/ OtherEvent
  \/ ReadOutput

Spec == Init /\ [][Next]_vars

----------------------------------------------------------------------------
TypeOK == WorkerTypeOK /\ rotations \in Nat /\ pose \in [Car -> Nat]

(* A map is never overdue: between two maps a worker matches at most       *)
(* MapEvery rotations, although the counter that decides is a u32 that     *)
(* wraps, at a value MapEvery need not divide, and MapEvery may be 0       *)
(* (worker.rs:128, 157).                                                   *)
MapNeverOverdue ==
  \A c \in Car :
    /\ since_map[c] <= Period
    /\ since_map[c] = Period => wpc[c] \in {"render", "dead"}

(* No rotation is matched twice and none overtakes another, though the     *)
(* mailbox drops some and another thread matches them (worker.rs:77, 110,  *)
(* 144).                                                                   *)
RotationsInOrder ==
  \A c \in Car : WorkerInOrder(c) /\ AheadOf(c, pose[c]) /\ slot[c] <= rotations
=============================================================================
