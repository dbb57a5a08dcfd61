--------------------------- MODULE ProcessProofs ---------------------------
(***************************************************************************)
(* What holds of the process for any clients, capacities, scan rate and    *)
(* width of the scan's number, and whatever sources it starts.             *)
(***************************************************************************)
EXTENDS HubProcess, Integers, TLAPS

LEMMA RemainderUnique ==
  ASSUME NEW n \in Nat \ {0}, NEW q \in Nat, NEW r \in 0..(n - 1)
  PROVE  (n * q + r) % n = r
OBVIOUS

LEMMA Division ==
  ASSUME NEW a \in Nat, NEW n \in Nat \ {0}
  PROVE  /\ a \div n \in Nat
         /\ a % n \in 0..(n - 1)
         /\ a = n * (a \div n) + (a % n)
OBVIOUS

(* The scans since telemetry was last due grow by one until it is due.     *)
LEMMA NotDue ==
  ASSUME NEW a \in Nat, ~TelemetryDue(a + 1)
  PROVE  (a + 1) % ScansPerSecond = (a % ScansPerSecond) + 1
<1> DEFINE n == ScansPerSecond
           q == a \div n
           r == a % n
<1>1. n \in Nat \ {0}
  BY SourcesAssumption
<1>2. q \in Nat /\ r \in 0..(n - 1) /\ a = n * q + r
  BY <1>1, Division
<1>3. CASE r + 1 = n
  <2>1. a + 1 = n * (q + 1) + 0
    BY <1>1, <1>2, <1>3
  <2>2. (n * (q + 1) + 0) % n = 0
    BY <1>1, <1>2, RemainderUnique
  <2> QED
    BY <2>1, <2>2 DEF TelemetryDue
<1>4. CASE r + 1 # n
  <2>1. a + 1 = n * q + (r + 1)
    BY <1>1, <1>2
  <2>2. r + 1 \in 0..(n - 1)
    BY <1>1, <1>2, <1>4
  <2>3. (n * q + (r + 1)) % n = r + 1
    BY <1>1, <1>2, <2>2, RemainderUnique
  <2> QED
    BY <2>1, <2>3
<1> QED
  BY <1>3, <1>4

LEMMA ZeroIsDue == TelemetryDue(0) /\ 0 % ScansPerSecond = 0
<1>1. (ScansPerSecond * 0 + 0) % ScansPerSecond = 0
  BY SourcesAssumption, RemainderUnique
<1> QED
  BY <1>1, SourcesAssumption DEF TelemetryDue

----------------------------------------------------------------------------
(* Sources. *)

(* While the simulator scans, the scans since telemetry are at most those  *)
(* since it was last due.                                                  *)
SimInv ==
  /\ TelemetryNotOverdue
  /\ task["sim"] \in {"off", "status", "scan"} =>
       since_telemetry <= seq % ScansPerSecond

SourcesInv == SourcesTypeOK /\ SimInv

Step == Gone \cup {"open", "status", "scan", "telemetry", "event"}

LEMMA SourcesStart ==
  ASSUME NEW started \in Starts, SourcesInit(started)
  PROVE  SourcesInv
<1>1. task \in [Source -> Step]
  BY DEF SourcesInit, Source, First, Step, Gone
<1>2. seq \in 0..(NumberMod - 1) /\ since_telemetry \in 0..NumberMod /\ rx \in 0..EventsCap
  BY SourcesAssumption DEF SourcesInit
<1>3. since_telemetry <= seq % ScansPerSecond /\ since_telemetry <= ScansPerSecond
  BY SourcesAssumption, ZeroIsDue DEF SourcesInit
<1> QED
  BY <1>1, <1>2, <1>3 DEF SourcesInv, SourcesTypeOK, SimInv, TelemetryNotOverdue, SourcesInit, Step

(* What a send does, wherever the source goes next. *)
LEMMA SendKeeps ==
  ASSUME SourcesTypeOK, NEW s \in Source, NEW next \in Step, Send(s, next)
  PROVE  /\ rx' \in 0..EventsCap /\ receiver' = receiver
         /\ task' \in [Source -> Step]
         /\ task'[s] \in {next, "ended"}
         /\ \A t \in Source \ {s} : task'[t] = task[t]
<1>1. task' \in [Source -> Step] /\ task'[s] \in {next, "ended"}
      /\ \A t \in Source \ {s} : task'[t] = task[t]
  BY DEF Send, Goto, SourcesTypeOK, Step, Gone
<1>2. rx' \in 0..EventsCap /\ receiver' = receiver
  BY SourcesAssumption DEF Send, SourcesTypeOK
<1> QED
  BY <1>1, <1>2

(* A step of another source leaves the simulator alone.                    *)
LEMMA OthersKeep ==
  ASSUME SourcesInv, UNCHANGED <<receiver, seq, since_telemetry>>,
         rx' \in 0..EventsCap, task' \in [Source -> Step],
         task'["sim"] \in {task["sim"], "ended"}
  PROVE  SourcesInv' /\ UNCHANGED receiver
BY DEF SourcesInv, SourcesTypeOK, SimInv, TelemetryNotOverdue, Step

LEMMA SourcesNext ==
  ASSUME SourcesInv, SourceStep
  PROVE  SourcesInv' /\ UNCHANGED receiver
<1> USE DEF SourcesInv
<1>t. task \in [Source -> Step] /\ rx \in 0..EventsCap /\ receiver \in BOOLEAN
  BY DEF SourcesTypeOK, Step
<1>s. "sim" \in Source /\ "lidar" \in Source
  BY DEF Source
<1>1. ASSUME NEW s \in {"mqtt", "replay"}, Feed(s)
      PROVE  SourcesInv' /\ UNCHANGED receiver
  <2>1. PICK next \in {"event", "ended"} : Send(s, next)
    BY <1>1 DEF Feed
  <2>2. s \in Source \ {"sim"} /\ next \in Step
    BY DEF Source, Step, Gone
  <2>3. UNCHANGED <<receiver, seq, since_telemetry>>
    BY <1>1, <2>1 DEF Feed, Send
  <2>4. /\ rx' \in 0..EventsCap /\ task' \in [Source -> Step]
        /\ task'["sim"] = task["sim"]
    BY <1>s, <2>1, <2>2, SendKeeps
  <2> QED
    BY <2>3, <2>4, OthersKeep
<1>2. CASE LidarSend
  <2>1. PICK next \in {"telemetry", "scan"} : Send("lidar", next)
    BY <1>2 DEF LidarSend
  <2>2. "lidar" \in Source \ {"sim"} /\ next \in Step
    BY DEF Source, Step, Gone
  <2>3. UNCHANGED <<receiver, seq, since_telemetry>>
    BY <1>2, <2>1 DEF LidarSend, Send
  <2>4. /\ rx' \in 0..EventsCap /\ task' \in [Source -> Step]
        /\ task'["sim"] = task["sim"]
    BY <1>s, <2>1, <2>2, SendKeeps
  <2> QED
    BY <2>3, <2>4, OthersKeep
<1>3. CASE LidarRead
  <2>1. PICK next \in {"status", "ended"} : Goto("lidar", next)
    BY <1>3 DEF LidarRead
  <2>2. task' \in [Source -> Step] /\ task'["sim"] = task["sim"]
    BY <1>t, <2>1 DEF Goto, Source, Step, Gone
  <2> QED
    BY <1>3, <1>t, <2>2, OthersKeep DEF LidarRead
<1>4. CASE SimStatus
  <2>1. /\ rx' \in 0..EventsCap /\ receiver' = receiver
        /\ task' \in [Source -> Step] /\ task'["sim"] \in {"scan", "ended"}
    <3>1. CASE receiver
      <4>1. Send("sim", "scan") /\ "scan" \in Step
        BY <1>4, <3>1 DEF SimStatus, Step
      <4> QED
        BY <1>s, <4>1, SendKeeps
    <3>2. CASE ~receiver
      BY <1>4, <1>t, <3>2 DEF SimStatus, Goto, Source, Step, Gone
    <3> QED
      BY <3>1, <3>2
  <2>2. since_telemetry' <= seq' % ScansPerSecond
    BY <1>4 DEF SimStatus, SimInv
  <2> QED
    BY <1>4, <2>1, <2>2 DEF SimStatus, SimInv, SourcesTypeOK, TelemetryNotOverdue, Step
<1>5. CASE SimScan
  <2> DEFINE next == IF TelemetryDue(seq') THEN "telemetry" ELSE "scan"
  <2>1. Send("sim", next) /\ next \in Step
    BY <1>5 DEF SimScan, Step
  <2>2. /\ rx' \in 0..EventsCap /\ receiver' = receiver
        /\ task' \in [Source -> Step] /\ task'["sim"] \in {next, "ended"}
    BY <1>s, <2>1, SendKeeps
  <2>3. /\ seq \in Nat /\ seq < NumberMod /\ since_telemetry \in Nat
        /\ NumberMod \in Nat /\ ScansPerSecond \in Nat \ {0}
        /\ ScansPerSecond < NumberMod
    BY SourcesAssumption DEF SourcesTypeOK
  <2>4. /\ seq' \in 0..(NumberMod - 1)
        /\ seq' = IF seq + 1 = NumberMod THEN 0 ELSE seq + 1
    BY <1>5, <2>3 DEF SimScan
  <2>5. since_telemetry' = since_telemetry + 1
        /\ since_telemetry <= seq % ScansPerSecond
    BY <1>5 DEF SimScan, SimInv
  <2>6. seq % ScansPerSecond \in 0..(ScansPerSecond - 1)
    BY <2>3, Division
  <2>7. since_telemetry' \in 0..NumberMod /\ since_telemetry' <= ScansPerSecond
    BY <2>3, <2>5, <2>6
  <2>8. ~TelemetryDue(seq') => since_telemetry' <= seq' % ScansPerSecond
    <3>1. SUFFICES ASSUME ~TelemetryDue(seq')
                   PROVE  since_telemetry' <= seq' % ScansPerSecond
      OBVIOUS
    <3>2. seq' = seq + 1
      BY <2>4, <3>1, ZeroIsDue
    <3>3. seq' % ScansPerSecond = (seq % ScansPerSecond) + 1
      BY <2>3, <3>1, <3>2, NotDue
    <3> QED
      BY <2>3, <2>5, <2>6, <3>3
  <2>9. task'["sim"] = "scan" => ~TelemetryDue(seq')
    BY <2>2
  <2>10. task'["sim"] \notin {"off", "status"}
    BY <2>2
  <2>11. SourcesTypeOK'
    BY <2>2, <2>4, <2>7, <1>t DEF SourcesTypeOK, Step
  <2>12. SimInv'
    BY <2>7, <2>8, <2>9, <2>10 DEF SimInv, TelemetryNotOverdue
  <2> QED
    BY <2>2, <2>11, <2>12
<1>6. CASE SimTelemetry
  <2>1. Send("sim", "scan") /\ "scan" \in Step
    BY <1>6 DEF SimTelemetry, Step
  <2>2. /\ rx' \in 0..EventsCap /\ receiver' = receiver /\ task' \in [Source -> Step]
    BY <1>s, <2>1, SendKeeps
  <2>3. seq' = seq /\ seq \in 0..(NumberMod - 1) /\ since_telemetry' = 0
    BY <1>6 DEF SimTelemetry, SourcesTypeOK
  <2>4. 0 <= seq % ScansPerSecond
    BY <2>3, SourcesAssumption, Division
  <2>5. SourcesTypeOK'
    BY <2>2, <2>3, <1>t, SourcesAssumption DEF SourcesTypeOK, Step
  <2>6. SimInv'
    BY <2>3, <2>4, SourcesAssumption DEF SimInv, TelemetryNotOverdue
  <2> QED
    BY <2>2, <2>5, <2>6
<1> QED
  BY <1>1, <1>2, <1>3, <1>4, <1>5, <1>6 DEF SourceStep

(* The drop of a task, whose sender is gone. *)
LEMMA SourceDropped ==
  ASSUME SourcesInv, NEW s \in Source, Goto(s, "ended"),
         UNCHANGED <<rx, receiver, seq, since_telemetry>>
  PROVE  SourcesInv'
<1>1. task' \in [Source -> Step] /\ task'["sim"] \in {task["sim"], "ended"}
  BY DEF Goto, SourcesInv, SourcesTypeOK, Source, Step, Gone
<1>2. rx' \in 0..EventsCap
  BY DEF SourcesInv, SourcesTypeOK
<1> QED
  BY <1>1, <1>2, OthersKeep

----------------------------------------------------------------------------
(* Commands. *)

LEMMA CommandsStart == CommanderInit => CommanderTypeOK
BY CommanderAssumption DEF CommanderInit, CommanderTypeOK

LEMMA Queues ==
  ASSUME NEW q \in Seq(Client)
  PROVE  /\ \A c \in Client : /\ Append(q, c) \in Seq(Client)
                             /\ Len(Append(q, c)) = Len(q) + 1
         /\ q # <<>> => /\ Head(q) \in Client
                        /\ Tail(q) \in Seq(Client)
                        /\ Len(Tail(q)) = Len(q) - 1
         /\ <<>> \in Seq(Client) /\ Len(<<>>) = 0
         /\ Len(q) \in Nat
OBVIOUS

LEMMA CommandsNext ==
  ASSUME CommanderTypeOK,
         \/ \E c \in Client : Begin(c) \/ Post(c) \/ Answer(c) \/ Replied(c) \/ GiveUp(c)
         \/ Poll \/ BrokerTurns
  PROVE  CommanderTypeOK'
<1> USE CommanderAssumption
<1>q. queue \in Seq(Client) /\ Len(queue) <= QueueCap
  BY DEF CommanderTypeOK
<1>1. ASSUME NEW c \in Client, Begin(c) \/ Post(c) \/ Replied(c) \/ GiveUp(c)
      PROVE  CommanderTypeOK'
  <2>1. PICK next \in {"none", "sending", "waiting", "replying"} :
          /\ request' = [request EXCEPT ![c] = next]
          /\ UNCHANGED <<broker, link, queue, published>>
    BY <1>1 DEF Begin, Post, Replied, GiveUp
  <2> QED
    BY <2>1 DEF CommanderTypeOK
<1>2. ASSUME NEW c \in Client, Answer(c)
      PROVE  CommanderTypeOK'
  <2>1. queue' \in Seq(Client) /\ Len(queue') <= QueueCap
    BY <1>2, <1>q, Queues DEF Answer
  <2> QED
    BY <1>2, <2>1 DEF Answer, CommanderTypeOK
<1>3. CASE Connect \/ Retry \/ BrokerTurns
  BY <1>3 DEF Connect, Retry, BrokerTurns, CommanderTypeOK
<1>4. CASE Publish
  <2>1. /\ queue' \in Seq(Client) /\ Len(queue') <= QueueCap
        /\ published' \subseteq Client
    BY <1>4, <1>q, Queues DEF Publish, CommanderTypeOK
  <2> QED
    BY <1>4, <2>1 DEF Publish, CommanderTypeOK
<1>5. CASE PollError
  <2>1. queue' = queue \/ queue' = <<>>
    BY <1>5 DEF PollError
  <2>2. <<>> \in Seq(Client) /\ Len(<<>>) <= QueueCap
    BY <1>q, Queues
  <2>3. queue' \in Seq(Client) /\ Len(queue') <= QueueCap
    BY <1>q, <2>1, <2>2
  <2> QED
    BY <1>5, <2>3 DEF PollError, CommanderTypeOK
<1> QED
  BY <1>1, <1>2, <1>3, <1>4, <1>5 DEF Poll

----------------------------------------------------------------------------
(* The process. *)

(* Until main returns its sender keeps the channel open; nothing is        *)
(* recorded but by a running pipeline; and none runs on in a process that  *)
(* has exited.                                                             *)
MainInv ==
  /\ main \in {"setup", "log_only", "binding", "serving", "stopping"} => holds_tx
  /\ main = "setup" => receiver
  /\ HubOutlivesSources
  /\ main = "exited" => pipeline # "running"
  /\ dirty => pipeline = "running"

ProcessInv == ProcessTypeOK /\ SimInv /\ MainInv

LEMMA ProcessStart == ProcessInit => ProcessInv
<1> SUFFICES ASSUME ProcessInit PROVE ProcessInv
  OBVIOUS
<1>1. SourcesInv /\ receiver
  BY SourcesStart DEF ProcessInit, SourcesInit
<1>2. CommanderTypeOK
  BY CommandsStart DEF ProcessInit
<1> QED
  BY <1>1, <1>2
  DEF ProcessInit, ProcessInv, ProcessTypeOK, MainInv, SourcesInv, HubOutlivesSources

(* The invariant of main, kept by a step of main's own state. *)
MainTyped ==
  /\ main \in {"setup", "log_only", "binding", "serving", "stopping", "returned"} \cup Over
  /\ holds_tx \in BOOLEAN /\ dirty \in BOOLEAN
  /\ pipeline \in {"none", "running", "ended"}
  /\ pipeline = "running" => receiver

LEMMA Parts == ProcessInv <=> SourcesInv /\ CommanderTypeOK /\ MainTyped /\ MainInv
BY DEF ProcessInv, ProcessTypeOK, SourcesInv, MainTyped

LEMMA SourcesKept ==
  ASSUME SourcesInv, receiver' \in BOOLEAN, rx' \in 0..EventsCap,
         UNCHANGED <<task, seq, since_telemetry>>
  PROVE  SourcesInv'
BY DEF SourcesInv, SourcesTypeOK, SimInv, TelemetryNotOverdue

LEMMA CommandsKept ==
  ASSUME CommanderTypeOK, UNCHANGED commandVars
  PROVE  CommanderTypeOK'
BY DEF CommanderTypeOK, commandVars

LEMMA MainKept ==
  ASSUME MainTyped, MainInv, UNCHANGED <<procVars, receiver>>
  PROVE  MainTyped' /\ MainInv'
BY DEF MainTyped, MainInv, procVars, HubOutlivesSources, Over

LEMMA ProcessStep ==
  ASSUME ProcessInv, [ProcessNext]_process
  PROVE  ProcessInv'
<1>p. SourcesInv /\ CommanderTypeOK /\ MainTyped /\ MainInv
  BY Parts
<1>r. rx \in 0..EventsCap /\ receiver \in BOOLEAN
  BY <1>p DEF SourcesInv, SourcesTypeOK
<1>z. 0 \in 0..EventsCap
  BY SourcesAssumption
<1>m. ASSUME MainTyped', MainInv', CommanderTypeOK', SourcesInv'
      PROVE  ProcessInv'
  BY <1>m DEF ProcessInv, ProcessTypeOK, SourcesInv, MainTyped
<1>1. CASE StartFails \/ ServeEnds
  <2>1. Return /\ main \in {"setup", "binding", "stopping"}
    BY <1>1 DEF StartFails, ServeEnds
  <2>2. SourcesInv' /\ CommanderTypeOK'
    BY <1>p, <1>r, <2>1, SourcesKept, CommandsKept DEF Return
  <2>3. MainTyped' /\ MainInv'
    BY <1>p, <1>r, <2>1 DEF Return, MainTyped, MainInv, HubOutlivesSources, Over
  <2> QED
    BY <1>m, <2>2, <2>3
<1>2. CASE LogOnly \/ SpawnPipeline \/ Serve \/ CtrlC \/ Exit
  <2>1. UNCHANGED <<sourceVars, commandVars>>
    BY <1>2 DEF LogOnly, SpawnPipeline, Serve, CtrlC, Exit
  <2>2. SourcesInv' /\ CommanderTypeOK'
    BY <1>p, <1>r, <2>1, SourcesKept, CommandsKept DEF sourceVars
  <2>3. receiver' = receiver
    BY <2>1 DEF sourceVars
  <2> USE DEF MainTyped, MainInv, HubOutlivesSources, Over
  <2>4. LogOnly => MainTyped' /\ MainInv'
    BY <1>p, <2>3 DEF LogOnly
  <2>5. SpawnPipeline => MainTyped' /\ MainInv'
    BY <1>p, <2>3 DEF SpawnPipeline
  <2>6. Serve => MainTyped' /\ MainInv'
    BY <1>p, <2>3 DEF Serve
  <2>7. CtrlC => MainTyped' /\ MainInv'
    BY <1>p, <2>3 DEF CtrlC
  <2>8. Exit => MainTyped' /\ MainInv'
    BY <1>p, <2>3 DEF Exit
  <2> QED
    BY <1>2, <1>m, <2>2, <2>4, <2>5, <2>6, <2>7, <2>8
<1>3. CASE Receive
  <2>1. rx' \in 0..EventsCap
    BY <1>3, <1>r, SourcesAssumption DEF Receive
  <2>2. SourcesInv' /\ CommanderTypeOK'
    BY <1>3, <1>p, <1>r, <2>1, SourcesKept, CommandsKept DEF Receive
  <2>3. dirty' \in BOOLEAN /\ (dirty' => pipeline = "running")
    BY <1>3 DEF Receive
  <2>4. MainTyped' /\ MainInv'
    BY <1>3, <1>p, <2>3 DEF Receive, MainTyped, MainInv, HubOutlivesSources, Over
  <2> QED
    BY <1>m, <2>2, <2>4
<1>4. CASE ChannelClosed \/ DropPipeline
  <2>1. PipelineGone /\ main \notin {"setup", "binding", "serving", "stopping"}
    BY <1>4, <1>p DEF ChannelClosed, DropPipeline, MainInv, PipelineGone, MainTyped
  <2>2. SourcesInv' /\ CommanderTypeOK'
    BY <1>p, <1>z, <2>1, SourcesKept, CommandsKept DEF PipelineGone
  <2>3. MainTyped' /\ MainInv'
    BY <1>p, <2>1 DEF PipelineGone, MainTyped, MainInv, HubOutlivesSources, Over
  <2> QED
    BY <1>m, <2>2, <2>3
<1>5. ASSUME NEW s \in Source, DropSource(s) PROVE ProcessInv'
  <2>1. SourcesInv' /\ CommanderTypeOK'
    BY <1>5, <1>p, SourceDropped, CommandsKept DEF DropSource
  <2>2. MainTyped' /\ MainInv'
    BY <1>5, <1>p, MainKept DEF DropSource
  <2> QED
    BY <1>m, <2>1, <2>2
<1>6. CASE Requests \/ Commands
  <2>1. UNCHANGED <<sourceVars, procVars>>
    BY <1>6 DEF Requests, Commands
  <2>2. CommanderTypeOK'
    BY <1>6, <1>p, CommandsNext DEF Requests, Commands
  <2>3. SourcesInv' /\ MainTyped' /\ MainInv'
    BY <1>p, <1>r, <2>1, SourcesKept, MainKept DEF sourceVars
  <2> QED
    BY <1>m, <2>2, <2>3
<1>7. CASE SourceStep /\ UNCHANGED <<commandVars, procVars>>
  <2>1. SourcesInv' /\ UNCHANGED receiver
    BY <1>7, <1>p, SourcesNext
  <2> QED
    BY <1>7, <1>p, <1>m, <2>1, MainKept, CommandsKept
<1>8. CASE BrokerTurns /\ UNCHANGED <<sourceVars, procVars>>
  <2>1. CommanderTypeOK'
    BY <1>8, <1>p, CommandsNext
  <2>2. SourcesInv' /\ MainTyped' /\ MainInv'
    BY <1>8, <1>p, <1>r, SourcesKept, MainKept DEF sourceVars
  <2> QED
    BY <1>m, <2>1, <2>2
<1>9. CASE UNCHANGED process
  BY <1>9, <1>p, <1>r, <1>m, SourcesKept, CommandsKept, MainKept DEF process, sourceVars
<1> QED
  BY <1>1, <1>2, <1>3, <1>4, <1>5, <1>6, <1>7, <1>8, <1>9 DEF ProcessNext, Main, Drops

(* Every variable of the process keeps its type: channel and queue stay    *)
(* within their capacities because senders wait (serial.rs:67, room.rs:161,*)
(* mqtt.rs:79).                                                            *)
THEOREM TypeCorrect == ProcessSpec => []ProcessTypeOK
<1>1. ProcessInv => ProcessTypeOK
  BY DEF ProcessInv
<1> QED
  BY <1>1, ProcessStart, ProcessStep, PTL DEF ProcessSpec

(* Telemetry of the simulator is never overdue, although the scan's number *)
(* wraps at a value the scan rate need not divide (room.rs:159, 169).      *)
THEOREM TelemetryInTime == ProcessSpec => []TelemetryNotOverdue
<1>1. ProcessInv => TelemetryNotOverdue
  BY DEF ProcessInv, SimInv
<1> QED
  BY <1>1, ProcessStart, ProcessStep, PTL DEF ProcessSpec

(* A process that has exited has flushed its recording (main.rs:115-117).  *)
THEOREM RecordingIsClosed == ProcessSpec => []RecordingClosed
<1>1. ProcessInv => RecordingClosed
  BY DEF ProcessInv, MainInv, RecordingClosed
<1> QED
  BY <1>1, ProcessStart, ProcessStep, PTL DEF ProcessSpec

(* While the hub serves its pipeline runs, whatever sources it was started *)
(* with and whichever of them have ended (main.rs:80-98).                  *)
THEOREM PipelineOutlivesSources == ProcessSpec => []HubOutlivesSources
<1>1. ProcessInv => HubOutlivesSources
  BY DEF ProcessInv, MainInv
<1> QED
  BY <1>1, ProcessStart, ProcessStep, PTL DEF ProcessSpec
=============================================================================
