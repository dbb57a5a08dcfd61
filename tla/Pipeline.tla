----------------------------- MODULE Pipeline -----------------------------
(***************************************************************************)
(* The pipeline task of src/pipeline.rs: a loop that selects among the     *)
(* events of every source, the results of the SLAM workers and a timer,    *)
(* and handles what it selected to the end before it selects again.  It is *)
(* the only writer of the shared state.  Each lock it takes and each event *)
(* it broadcasts is a step, since sessions and workers run in between.     *)
(***************************************************************************)
EXTENDS HubState, SlamWorker

CONSTANTS EventsCap,        \* capacity of the sources' channel (256)
          TrajectoryLen,    \* slam.trajectory_len
          MaxEvents         \* bound: events the sources send

ASSUME PipelineAssumption ==
  /\ EventsCap \in Nat \ {0}
  /\ TrajectoryLen \in Nat
  /\ MaxEvents \in Nat

VARIABLES rx,               \* the sources' channel
          arrived,          \* events sent; they are numbered and stamped so
          pc,               \* what the pipeline is doing
          cur,              \* the event or result being handled, or Nothing
          out,              \* events the handler has still to broadcast
          ticking,          \* cars whose rate the timer has still to report
          rates             \* scans_in_window, a function on cars that scanned

pipeVars == <<rx, arrived, pc, cur, out, ticking, rates>>
vars == <<hubVars, workerVars, pipeVars>>

Nothing == [kind |-> "nothing"]

CarEvent ==
  [kind : {"status"}, car : Car, at : Nat, val : Status]
    \cup [kind : {"telemetry", "scan"}, car : Car, at : Nat]

PipelinePC == {"select", "apply", "submit", "mapinfo", "emit", "tick"}

PipelineTypeOK ==
  /\ rx \in Seq(CarEvent) /\ Len(rx) <= EventsCap
  /\ arrived \in Nat
  /\ pc \in PipelinePC
  /\ cur \in CarEvent \cup SlamOutput \cup {Nothing}
  /\ out \in Seq(WsEvent)
  /\ ticking \subseteq DOMAIN rates
  /\ DOMAIN rates \subseteq Car
  /\ rates \in [DOMAIN rates -> Nat]

PipelineInit ==
  /\ rx = <<>>
  /\ arrived = 0
  /\ pc = "select"
  /\ cur = Nothing
  /\ out = <<>>
  /\ ticking = {}
  /\ rates = [c \in {} |-> 0]

----------------------------------------------------------------------------
(* The sources: tx.send(event).await waits while the channel is full.      *)

Arrive(e) ==
  /\ arrived < MaxEvents
  /\ Len(rx) < EventsCap
  /\ e.at = arrived + 1
  /\ arrived' = arrived + 1
  /\ rx' = Append(rx, e)
  /\ UNCHANGED <<hubVars, workerVars, pc, cur, out, ticking, rates>>

ArriveStatus(c, status) ==
  Arrive([kind |-> "status", car |-> c, at |-> arrived + 1, val |-> status])

ArriveTelemetry(c) ==
  Arrive([kind |-> "telemetry", car |-> c, at |-> arrived + 1])

ArriveScan(c) ==
  Arrive([kind |-> "scan", car |-> c, at |-> arrived + 1])

----------------------------------------------------------------------------
(* Broadcasting what a handler decided to, then back to the timer's loop   *)
(* or to select!.                                                          *)

ThenEmit(events) ==
  /\ out' = events
  /\ pc' = "emit"
  /\ cur' = Nothing

ThenSelect ==
  /\ pc' = "select"
  /\ cur' = Nothing
  /\ UNCHANGED out

EmitNext ==
  /\ pc = "emit"
  /\ Emit(Head(out))
  /\ out' = Tail(out)
  /\ pc' = IF Len(out) > 1 THEN "emit" ELSE IF ticking # {} THEN "tick" ELSE "select"
  /\ UNCHANGED <<cars, maps, conn, workerVars, rx, arrived, cur, ticking, rates>>

----------------------------------------------------------------------------
(* The first branch of select!: on_event. *)

RecvEvent ==
  /\ pc = "select" /\ rx # <<>>
  /\ rx' = Tail(rx)
  /\ cur' = Head(rx)
  /\ UpdateCar(cur'.car, [SnapshotOf(cur'.car) EXCEPT !.last_seen_ms = cur'.at])
  /\ pc' = "apply"
  /\ UNCHANGED <<maps, conn, unread, lagged, workerVars, arrived, out, ticking, rates>>

(* A faulty variant: the comparison the wrong way round. *)
ApplyStatusInverted ==
  /\ pc = "apply" /\ cur.kind = "status"
  /\ UpdateCar(cur.car, [SnapshotOf(cur.car) EXCEPT !.status = cur.val])
  /\ \/ /\ SnapshotOf(cur.car).status = cur.val
        /\ ThenEmit(<<Event("status", cur.car, cur.val)>>)
     \/ /\ SnapshotOf(cur.car).status # cur.val
        /\ ThenSelect
  /\ UNCHANGED <<maps, conn, unread, lagged, workerVars, rx, arrived, ticking, rates>>

ApplyStatus ==
  /\ pc = "apply" /\ cur.kind = "status"
  /\ UpdateCar(cur.car, [SnapshotOf(cur.car) EXCEPT !.status = cur.val])
  /\ \/ /\ SnapshotOf(cur.car).status # cur.val
        /\ ThenEmit(<<Event("status", cur.car, cur.val)>>)
     \/ /\ SnapshotOf(cur.car).status = cur.val
        /\ ThenSelect
  /\ UNCHANGED <<maps, conn, unread, lagged, workerVars, rx, arrived, ticking, rates>>

ApplyTelemetry ==
  /\ pc = "apply" /\ cur.kind = "telemetry"
  /\ UpdateCar(cur.car, [SnapshotOf(cur.car) EXCEPT !.telemetry = cur.at])
  /\ ThenEmit(<<Event("telemetry", cur.car, cur.at)>>)
  /\ UNCHANGED <<maps, conn, unread, lagged, workerVars, rx, arrived, ticking, rates>>

Window(c) == IF c \in DOMAIN rates THEN rates[c] ELSE 0

ApplyScan ==
  /\ pc = "apply" /\ cur.kind = "scan"
  /\ UpdateCar(cur.car, [SnapshotOf(cur.car) EXCEPT !.scans_total = @ + 1])
  /\ rates' = [c \in DOMAIN rates \cup {cur.car} |->
                 IF c = cur.car THEN Window(c) + 1 ELSE rates[c]]
  /\ pc' = "submit"
  /\ UNCHANGED <<maps, conn, unread, lagged, workerVars, rx, arrived, cur, out, ticking>>

(* A car's first rotation starts its worker; when the thread cannot be     *)
(* started the rotation is lost and the next one tries again.              *)
SpawnWorker ==
  /\ pc = "submit" /\ ~HasWorker(cur.car)
  /\ Spawn(cur.car)
  /\ UNCHANGED <<hubVars, pipeVars>>

SpawnFails ==
  /\ pc = "submit" /\ ~HasWorker(cur.car)
  /\ ThenSelect
  /\ UNCHANGED <<hubVars, workerVars, rx, arrived, ticking, rates>>

(* A faulty variant: the rotation is not marked as handed over. *)
SubmitScanAgain ==
  /\ pc = "submit" /\ HasWorker(cur.car)
  /\ Submit(cur.car, cur.at)
  /\ UNCHANGED <<hubVars, pipeVars>>

SubmitScan ==
  /\ pc = "submit" /\ HasWorker(cur.car)
  /\ Submit(cur.car, cur.at)
  /\ ThenSelect
  /\ UNCHANGED <<hubVars, rx, arrived, ticking, rates>>

----------------------------------------------------------------------------
(* The second branch: on_slam. *)

(* A faulty variant: the drain takes the new end. *)
ExtendedKeepsOldest(trajectory, pose) ==
  LET longer == Append(trajectory, pose)
  IN IF Len(longer) > TrajectoryLen THEN SubSeq(longer, 1, TrajectoryLen) ELSE longer

(* The trajectory keeps its TrajectoryLen last poses. *)
Extended(trajectory, pose) ==
  LET longer == Append(trajectory, pose)
      excess == IF Len(longer) > TrajectoryLen THEN Len(longer) - TrajectoryLen ELSE 0
  IN SubSeq(longer, excess + 1, Len(longer))

RecvTracked ==
  /\ pc = "select" /\ RecvOutput
  /\ LET o == Head(slam_rx)
         c == o.car
     IN /\ o.kind = "tracked"
        /\ UpdateCar(c, [SnapshotOf(c) EXCEPT
             !.pose = o.val,
             !.trajectory = Extended(@, o.val),
             !.scan = o.val])
        /\ ThenEmit(<<Event("pose", c, o.val), Event("scan", c, o.val)>>)
  /\ UNCHANGED <<maps, conn, unread, lagged, rx, arrived, ticking, rates>>

(* A faulty variant: the map is announced and not stored. *)
RecvMapUnstored ==
  /\ pc = "select" /\ RecvOutput
  /\ Head(slam_rx).kind = "map"
  /\ cur' = Head(slam_rx)
  /\ pc' = "mapinfo"
  /\ UNCHANGED <<cars, maps, conn, unread, lagged, rx, arrived, out, ticking, rates>>

(* The map is stored before anything says that it exists. *)
RecvMap ==
  /\ pc = "select" /\ RecvOutput
  /\ Head(slam_rx).kind = "map"
  /\ InsertMap(Head(slam_rx).car, Head(slam_rx).val)
  /\ cur' = Head(slam_rx)
  /\ pc' = "mapinfo"
  /\ UNCHANGED <<cars, conn, unread, lagged, rx, arrived, out, ticking, rates>>

PublishMapInfo ==
  /\ pc = "mapinfo"
  /\ UpdateCar(cur.car, [SnapshotOf(cur.car) EXCEPT !.map = cur.val])
  /\ ThenEmit(<<Event("map", cur.car, cur.val)>>)
  /\ UNCHANGED <<maps, conn, unread, lagged, workerVars, rx, arrived, ticking, rates>>

----------------------------------------------------------------------------
(* The third branch: the timer reports every car's rate, in the order the  *)
(* map of rates iterates.  A rate is counted in rotations per tick.        *)

Tick ==
  /\ pc = "select" /\ DOMAIN rates # {}
  /\ ticking' = DOMAIN rates
  /\ pc' = "tick"
  /\ UNCHANGED <<hubVars, workerVars, rx, arrived, cur, out, rates>>

ReportRate(c) ==
  /\ pc = "tick" /\ c \in ticking
  /\ UpdateCar(c, [SnapshotOf(c) EXCEPT !.scan_hz = rates[c]])
  /\ rates' = [rates EXCEPT ![c] = 0]
  /\ ticking' = ticking \ {c}
  /\ ThenEmit(<<Event("scan_hz", c, rates[c])>>)
  /\ UNCHANGED <<maps, conn, unread, lagged, workerVars, rx, arrived>>

----------------------------------------------------------------------------
Sources ==
  \E c \in Car :
    \/ \E status \in Status : ArriveStatus(c, status)
    \/ ArriveTelemetry(c)
    \/ ArriveScan(c)

(* What the task does once it has selected. *)
Handle ==
  \/ ApplyStatus \/ ApplyTelemetry \/ ApplyScan
  \/ SpawnWorker \/ SpawnFails \/ SubmitScan
  \/ PublishMapInfo
  \/ \E c \in Car : ReportRate(c)
  \/ EmitNext

Workers ==
  \E c \in Car : (WorkerStep(c) \/ Stop(c)) /\ UNCHANGED <<hubVars, pipeVars>>
=============================================================================
