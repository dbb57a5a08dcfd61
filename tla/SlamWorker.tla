---------------------------- MODULE SlamWorker ----------------------------
(***************************************************************************)
(* The SLAM workers of src/slam/worker.rs: for each car a thread that      *)
(* takes the latest rotation from its mailbox, matches it, and reports     *)
(* poses and maps to the pipeline over an unbounded channel.  The mailbox  *)
(* is the one-place register that Mailbox implements.  SLAM itself is a    *)
(* library: matching a rotation gives a pose or rejects it.                *)
(***************************************************************************)
EXTENDS Naturals, Sequences, Fleet

CONSTANTS MapEvery,         \* slam.map_every_scans
          CounterMod,       \* values of the u32 counter (2^32)
          WorkerMayStop     \* whether Slam::new or a map render can fail

ASSUME WorkerAssumption ==
  /\ MapEvery \in Nat
  /\ CounterMod \in Nat \ {0}
  /\ WorkerMayStop \in BOOLEAN

VARIABLES slot,             \* rotation in the mailbox, 0 if none
          wpc,              \* where the worker thread is
          frame,            \* rotation the worker is matching, 0 if none
          processed,        \* rotations matched, a wrapping u32
          map_version,      \* maps rendered
          since_map,        \* history: rotations matched since the last map
          slam_rx           \* results on their way to the pipeline, in order

workerVars == <<slot, wpc, frame, processed, map_version, since_map, slam_rx>>

WorkerPC == {"none", "start", "wait", "match", "render", "dead"}

SlamOutput == [kind : {"tracked", "map"}, car : Car, val : Nat]

WorkerTypeOK ==
  /\ slot \in [Car -> Nat]
  /\ wpc \in [Car -> WorkerPC]
  /\ frame \in [Car -> Nat]
  /\ processed \in [Car -> 0..(CounterMod - 1)]
  /\ map_version \in [Car -> Nat]
  /\ since_map \in [Car -> Nat]
  /\ slam_rx \in Seq(SlamOutput)

WorkerInit ==
  /\ slot = [c \in Car |-> 0]
  /\ wpc = [c \in Car |-> "none"]
  /\ frame = [c \in Car |-> 0]
  /\ processed = [c \in Car |-> 0]
  /\ map_version = [c \in Car |-> 0]
  /\ since_map = [c \in Car |-> 0]
  /\ slam_rx = <<>>

(* The pipeline's `workers`: a worker that stopped is still in it. *)
HasWorker(c) == wpc[c] # "none"

Period == IF MapEvery = 0 THEN 1 ELSE MapEvery

(* A faulty variant: no map when the counter is 0. *)
MapDueUnlessZero(n) == n # 0 /\ n % Period = 0

MapDue(n) == n % Period = 0

----------------------------------------------------------------------------
(* Called by the pipeline. *)

(* SlamWorker::spawn *)
Spawn(c) ==
  /\ wpc' = [wpc EXCEPT ![c] = "start"]
  /\ UNCHANGED <<slot, frame, processed, map_version, since_map, slam_rx>>

(* SlamWorker::submit *)
Submit(c, rotation) ==
  /\ slot' = [slot EXCEPT ![c] = rotation]
  /\ UNCHANGED <<wpc, frame, processed, map_version, since_map, slam_rx>>

(* The receiver's side of the results channel. *)
RecvOutput ==
  /\ slam_rx # <<>>
  /\ slam_rx' = Tail(slam_rx)
  /\ UNCHANGED <<slot, wpc, frame, processed, map_version, since_map>>

----------------------------------------------------------------------------
(* The worker thread: worker.rs's run. *)

(* A faulty variant: the latest result is the first to be read. *)
ReportFirst(kind, c, val) ==
  slam_rx' = <<[kind |-> kind, car |-> c, val |-> val]>> \o slam_rx

Report(kind, c, val) ==
  slam_rx' = Append(slam_rx, [kind |-> kind, car |-> c, val |-> val])

Start(c) ==
  /\ wpc[c] = "start"
  /\ wpc' = [wpc EXCEPT ![c] = "wait"]
  /\ UNCHANGED <<slot, frame, processed, map_version, since_map, slam_rx>>

(* A faulty variant: the rotation stays in the mailbox. *)
TakePeeks(c) ==
  /\ wpc[c] = "wait" /\ slot[c] # 0
  /\ frame' = [frame EXCEPT ![c] = slot[c]]
  /\ wpc' = [wpc EXCEPT ![c] = "match"]
  /\ UNCHANGED <<slot, processed, map_version, since_map, slam_rx>>

Take(c) ==
  /\ wpc[c] = "wait" /\ slot[c] # 0
  /\ frame' = [frame EXCEPT ![c] = slot[c]]
  /\ slot' = [slot EXCEPT ![c] = 0]
  /\ wpc' = [wpc EXCEPT ![c] = "match"]
  /\ UNCHANGED <<processed, map_version, since_map, slam_rx>>

(* A faulty variant: a rejected rotation ends the thread. *)
SkipReturns(c) ==
  /\ wpc[c] = "match"
  /\ frame' = [frame EXCEPT ![c] = 0]
  /\ wpc' = [wpc EXCEPT ![c] = "dead"]
  /\ UNCHANGED <<slot, processed, map_version, since_map, slam_rx>>

(* No valid point in the rotation, or process_scan rejects it. *)
Skip(c) ==
  /\ wpc[c] = "match"
  /\ frame' = [frame EXCEPT ![c] = 0]
  /\ wpc' = [wpc EXCEPT ![c] = "wait"]
  /\ UNCHANGED <<slot, processed, map_version, since_map, slam_rx>>

(* A faulty variant: the counter does not wrap. *)
TrackUnwrapped(c) ==
  /\ wpc[c] = "match"
  /\ processed' = [processed EXCEPT ![c] = @ + 1]
  /\ since_map' = [since_map EXCEPT ![c] = @ + 1]
  /\ Report("tracked", c, frame[c])
  /\ frame' = [frame EXCEPT ![c] = 0]
  /\ wpc' = [wpc EXCEPT ![c] = IF MapDue(processed'[c]) THEN "render" ELSE "wait"]
  /\ UNCHANGED <<slot, map_version>>

Track(c) ==
  /\ wpc[c] = "match"
  /\ processed' = [processed EXCEPT ![c] = (@ + 1) % CounterMod]
  /\ since_map' = [since_map EXCEPT ![c] = @ + 1]
  /\ Report("tracked", c, frame[c])
  /\ frame' = [frame EXCEPT ![c] = 0]
  /\ wpc' = [wpc EXCEPT ![c] = IF MapDue(processed'[c]) THEN "render" ELSE "wait"]
  /\ UNCHANGED <<slot, map_version>>

Render(c) ==
  /\ wpc[c] = "render"
  /\ map_version' = [map_version EXCEPT ![c] = @ + 1]
  /\ since_map' = [since_map EXCEPT ![c] = 0]
  /\ Report("map", c, map_version'[c])
  /\ wpc' = [wpc EXCEPT ![c] = "wait"]
  /\ UNCHANGED <<slot, frame, processed>>

(* Slam::new or MapSnapshot::from_grid returns an error: the thread ends,  *)
(* and nothing tells the pipeline.                                         *)
Stop(c) ==
  /\ WorkerMayStop
  /\ wpc[c] \in {"start", "render"}
  /\ wpc' = [wpc EXCEPT ![c] = "dead"]
  /\ UNCHANGED <<slot, frame, processed, map_version, since_map, slam_rx>>

WorkerStep(c) ==
  Start(c) \/ Take(c) \/ Skip(c) \/ Track(c) \/ Render(c)

----------------------------------------------------------------------------
(* The rotations of car c are in the order of their submission from the    *)
(* mailbox to the results on their way: the newest in the slot, the one    *)
(* being matched before it, those tracked before both.                     *)
IsTracked(o, c) == o.kind = "tracked" /\ o.car = c

WorkerInOrder(c) ==
  /\ slot[c] # 0 => frame[c] < slot[c]
  /\ \A i \in DOMAIN slam_rx : IsTracked(slam_rx[i], c) =>
       /\ slot[c] # 0 => slam_rx[i].val < slot[c]
       /\ frame[c] # 0 => slam_rx[i].val < frame[c]
       /\ \A j \in DOMAIN slam_rx :
            i < j /\ IsTracked(slam_rx[j], c) => slam_rx[i].val < slam_rx[j].val

(* Everything car c's worker has, or has reported, is newer than p.        *)
AheadOf(c, p) ==
  /\ slot[c] # 0 => p < slot[c]
  /\ frame[c] # 0 => p < frame[c]
  /\ \A i \in DOMAIN slam_rx : IsTracked(slam_rx[i], c) => p < slam_rx[i].val
=============================================================================
