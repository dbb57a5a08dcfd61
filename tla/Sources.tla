------------------------------ MODULE Sources ------------------------------
(***************************************************************************)
(* The event sources main starts and the bounded channel they share: the   *)
(* tasks of src/ingest/mqtt.rs, src/session/replay.rs and                  *)
(* src/sim/room.rs, and the lidar thread of src/ingest/serial.rs.  Events  *)
(* are counted; a task holds a sender of the channel until it ends.        *)
(***************************************************************************)
EXTENDS Naturals

CONSTANTS EventsCap,        \* capacity of the events channel (256)
          NumberMod,        \* a scan's number wraps at 2^32
          ScansPerSecond    \* scan_hz of the simulator, at least 1

ASSUME SourcesAssumption ==
  /\ EventsCap \in Nat \ {0}
  /\ ScansPerSecond \in Nat \ {0}
  /\ NumberMod \in Nat /\ NumberMod > ScansPerSecond

VARIABLES rx,               \* events in the channel
          receiver,         \* the receiver exists
          task,             \* what each source does next
          seq,              \* number of the simulator's next scan
          since_telemetry   \* history: its scans since the last telemetry

sourceVars == <<rx, receiver, task, seq, since_telemetry>>

Source == {"mqtt", "replay", "sim", "lidar"}
Gone == {"off", "ended"}
Living == {s \in Source : task[s] \notin Gone}

SourcesTypeOK ==
  /\ rx \in 0..EventsCap
  /\ receiver \in BOOLEAN
  /\ task \in [Source -> Gone \cup {"open", "status", "scan", "telemetry", "event"}]
  /\ seq \in 0..(NumberMod - 1)
  /\ since_telemetry \in 0..NumberMod

(* How the program of each source begins. *)
First == [mqtt |-> "event", replay |-> "event", sim |-> "status", lidar |-> "open"]

SourcesInit(started) ==
  /\ rx = 0 /\ receiver = TRUE
  /\ task = [s \in Source |-> IF s \in started THEN First[s] ELSE "off"]
  /\ seq = 0 /\ since_telemetry = 0

Goto(s, next) == task' = [task EXCEPT ![s] = next]

(* A faulty variant: a channel that takes whatever is sent.                *)
SendNow(s, next) ==
  /\ receiver
  /\ rx' = rx + 1
  /\ Goto(s, next)
  /\ UNCHANGED receiver

(* send and blocking_send wait while the channel is full; without a        *)
(* receiver they fail, which ends the task.                                *)
Send(s, next) ==
  /\ IF receiver THEN rx < EventsCap /\ rx' = rx + 1 /\ Goto(s, next)
                 ELSE UNCHANGED rx /\ Goto(s, "ended")
  /\ UNCHANGED receiver

(* mqtt goes on for ever; a replay ends with its last event. *)
Feed(s) ==
  /\ task[s] = "event"
  /\ \E next \in {"event"} \cup (IF s = "replay" THEN {"ended"} ELSE {}) :
       Send(s, next)
  /\ UNCHANGED <<seq, since_telemetry>>

----------------------------------------------------------------------------
(* sim/room.rs: run. *)

(* The one send whose failure is ignored; the next one fails as well.      *)
SimStatus ==
  /\ task["sim"] = "status"
  /\ IF receiver THEN Send("sim", "scan")
                 ELSE Goto("sim", "scan") /\ UNCHANGED <<rx, receiver>>
  /\ UNCHANGED <<seq, since_telemetry>>

(* A faulty variant: none for the number a wrapped counter starts with.    *)
TelemetryDueUnlessZero(n) == n # 0 /\ n % ScansPerSecond = 0

TelemetryDue(n) == n % ScansPerSecond = 0

SimScan ==
  /\ task["sim"] = "scan"
  /\ seq' = (seq + 1) % NumberMod
  /\ since_telemetry' = since_telemetry + 1
  /\ Send("sim", IF TelemetryDue(seq') THEN "telemetry" ELSE "scan")

SimTelemetry ==
  /\ task["sim"] = "telemetry"
  /\ Send("sim", "scan")
  /\ since_telemetry' = 0
  /\ UNCHANGED seq

----------------------------------------------------------------------------
(* ingest/serial.rs: run.  The device is external. *)

LidarSend ==
  /\ \/ task["lidar"] = "status" /\ Send("lidar", "scan")
     \/ task["lidar"] = "scan" /\ \E next \in {"telemetry", "scan"} : Send("lidar", next)
     \/ task["lidar"] = "telemetry" /\ Send("lidar", "scan")
  /\ UNCHANGED <<seq, since_telemetry>>

(* Opening works, or it or a later read of the device fails: the thread    *)
(* logs the error and ends without another status.                         *)
LidarRead ==
  /\ \/ task["lidar"] = "open" /\ Goto("lidar", "status")
     \/ task["lidar"] \in {"open", "scan"} /\ Goto("lidar", "ended")
  /\ UNCHANGED <<rx, receiver, seq, since_telemetry>>

SourceStep ==
  \/ \E s \in {"mqtt", "replay"} : Feed(s)
  \/ SimStatus \/ SimScan \/ SimTelemetry
  \/ LidarSend \/ LidarRead
=============================================================================
