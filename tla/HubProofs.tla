----------------------------- MODULE HubProofs -----------------------------
(***************************************************************************)
(* For any cars, sessions, capacities and settings: the types of the whole *)
(* hub and what its operators return on typed states; that it implements   *)
(* WorkerLoop; and the order of rotations and trajectories.                *)
(***************************************************************************)
EXTENDS OlivawHub, SlamWorkerProofs

LEMMA PositiveLength ==
  ASSUME NEW S, NEW q \in Seq(S), Len(q) > 0
  PROVE  q # <<>>
OBVIOUS

(* What pc says of the handler's registers. *)
HandlerInv ==
  /\ pc = "submit" => cur.kind = "scan"
  /\ pc = "mapinfo" => cur.kind = "map"
  /\ pc = "emit" => out # <<>>

TypeInv == TypeOK /\ HandlerInv

----------------------------------------------------------------------------
(* The operators the actions are built from. *)

LEMMA CurTyped ==
  ASSUME PipelineTypeOK
  PROVE  /\ cur.kind = "status" => cur.car \in Car /\ cur.val \in Status
         /\ cur.kind = "telemetry" => cur.car \in Car /\ cur.at \in Nat
         /\ cur.kind = "scan" => cur.car \in Car /\ cur.at \in Nat
         /\ cur.kind = "map" => cur.car \in Car /\ cur.val \in Nat
BY DEF PipelineTypeOK, CarEvent, SlamOutput, Nothing

LEMMA NewSnapshotTyped == NewSnapshot \in CarSnapshot
BY HubAssumption DEF NewSnapshot, CarSnapshot

LEMMA SnapshotTyped ==
  ASSUME HubTypeOK, NEW c \in Car
  PROVE  SnapshotOf(c) \in CarSnapshot
BY NewSnapshotTyped DEF HubTypeOK, SnapshotOf

LEMMA UpdateTyped ==
  ASSUME HubTypeOK, NEW c \in Car, NEW r \in CarSnapshot, UpdateCar(c, r)
  PROVE  /\ DOMAIN cars' \subseteq Car
         /\ cars' \in [DOMAIN cars' -> CarSnapshot]
         /\ \A d \in Car : SnapshotOf(d)' = IF d = c THEN r ELSE SnapshotOf(d)
BY DEF HubTypeOK, UpdateCar, SnapshotOf, NewSnapshot

LEMMA StatusEventTyped ==
  ASSUME NEW c \in Car, NEW val \in Status
  PROVE  Event("status", c, val) \in WsEvent
BY DEF Event, WsEvent

LEMMA EventTyped ==
  ASSUME NEW c \in Car, NEW val \in Nat, NEW f \in LiveField \ {"status"}
  PROVE  Event(f, c, val) \in WsEvent
BY DEF Event, WsEvent

LEMMA EmitTyped ==
  ASSUME HubTypeOK, NEW e \in WsEvent, Emit(e)
  PROVE  /\ unread' \in [Client -> Seq(WsEvent)]
         /\ \A s \in Client : Len(unread'[s]) <= RingCap
         /\ lagged' \in [Client -> BOOLEAN]
<1> DEFINE Longer(s) == IF conn[s] = "off" THEN unread[s]
                        ELSE IF Len(unread[s]) < RingCap THEN Append(unread[s], e)
                        ELSE Append(Tail(unread[s]), e)
<1>0. ASSUME NEW s \in Client
      PROVE  Longer(s) \in Seq(WsEvent) /\ Len(Longer(s)) <= RingCap
  <2>1. unread[s] \in Seq(WsEvent) /\ Len(unread[s]) <= RingCap /\ Len(unread[s]) \in Nat
    BY DEF HubTypeOK
  <2>2. Len(unread[s]) < RingCap =>
          Append(unread[s], e) \in Seq(WsEvent) /\ Len(Append(unread[s], e)) <= RingCap
    BY <2>1, HubAssumption
  <2>3. Len(unread[s]) >= RingCap =>
          /\ Append(Tail(unread[s]), e) \in Seq(WsEvent)
          /\ Len(Append(Tail(unread[s]), e)) <= RingCap
    <3> SUFFICES ASSUME Len(unread[s]) >= RingCap
                 PROVE  /\ Append(Tail(unread[s]), e) \in Seq(WsEvent)
                        /\ Len(Append(Tail(unread[s]), e)) <= RingCap
      OBVIOUS
    <3>1. unread[s] # <<>>
      BY <2>1, HubAssumption
    <3>2. Tail(unread[s]) \in Seq(WsEvent) /\ Len(Tail(unread[s])) = Len(unread[s]) - 1
      BY <2>1, <3>1
    <3> QED
      BY <2>1, <3>2, HubAssumption
  <2> QED
    BY <2>1, <2>2, <2>3, HubAssumption
<1>e. unread' = [s \in Client |-> Longer(s)]
  BY DEF Emit
<1>1. unread' \in [Client -> Seq(WsEvent)]
  BY <1>0, <1>e
<1>2. ASSUME NEW s \in Client PROVE Len(unread'[s]) <= RingCap
  BY <1>0, <1>e
<1>3. lagged' \in [Client -> BOOLEAN]
  BY Zenon DEF HubTypeOK, Emit
<1> QED
  BY <1>1, <1>2, <1>3

LEMMA ExtendedTyped ==
  ASSUME NEW t \in Seq(Nat), NEW p \in Nat
  PROVE  Extended(t, p) \in Seq(Nat)
<1> DEFINE longer == Append(t, p)
<1>1. longer \in Seq(Nat)
  OBVIOUS
<1>2. \A k \in Nat : SubSeq(longer, k + 1, Len(longer)) \in Seq(Nat)
  BY <1>1
<1>3. (IF Len(longer) > TrajectoryLen THEN Len(longer) - TrajectoryLen ELSE 0) \in Nat
  BY <1>1, PipelineAssumption
<1> QED
  BY <1>2, <1>3 DEF Extended

----------------------------------------------------------------------------
(* Types, action by action. *)

LEMMA TypeInit == Init => TypeInv
<1> SUFFICES ASSUME Init PROVE TypeInv
  OBVIOUS
<1>1. HubTypeOK
  <2>1. lagged \in [Client -> BOOLEAN]
    BY Zenon DEF Init, HubInit
  <2> QED
    BY <2>1, HubAssumption DEF Init, HubInit, HubTypeOK
<1>2. WorkerTypeOK
  BY WorkerTypeInit DEF Init
<1>3. PipelineTypeOK /\ HandlerInv
  BY PipelineAssumption DEF Init, PipelineInit, PipelineTypeOK, PipelinePC, HandlerInv
<1>4. KnownFields(NewSnapshot) \in LiveView
  BY HubAssumption DEF KnownFields, NewSnapshot, LiveField, LiveView
<1> QED
  BY <1>1, <1>2, <1>3, <1>4 DEF Init, TypeInv, TypeOK

(* A step that leaves the sessions and the workers alone, and writes one   *)
(* well-typed snapshot.                                                    *)
LEMMA WriteTyped ==
  ASSUME HubTypeOK, NEW c \in Car, NEW r \in CarSnapshot, UpdateCar(c, r),
         UNCHANGED <<maps, conn, unread, lagged>>
  PROVE  HubTypeOK'
<1>1. DOMAIN cars' \subseteq Car /\ cars' \in [DOMAIN cars' -> CarSnapshot]
  BY UpdateTyped
<1> QED
  BY <1>1 DEF HubTypeOK

LEMMA ThenEmitTyped ==
  ASSUME NEW events \in Seq(WsEvent), events # <<>>, ThenEmit(events)
  PROVE  /\ pc' \in PipelinePC /\ out' \in Seq(WsEvent)
         /\ cur' \in CarEvent \cup SlamOutput \cup {Nothing}
         /\ HandlerInv'
BY DEF ThenEmit, PipelinePC, HandlerInv

LEMMA ThenSelectTyped ==
  ASSUME PipelineTypeOK, ThenSelect
  PROVE  /\ pc' \in PipelinePC /\ out' \in Seq(WsEvent)
         /\ cur' \in CarEvent \cup SlamOutput \cup {Nothing}
         /\ HandlerInv'
BY DEF ThenSelect, PipelinePC, PipelineTypeOK, HandlerInv

LEMMA RecvEventTyped ==
  ASSUME HubTypeOK, PipelineTypeOK, RecvEvent
  PROVE  HubTypeOK' /\ PipelineTypeOK' /\ HandlerInv'
<1>1. rx # <<>> /\ rx' = Tail(rx) /\ cur' = Head(rx) /\ rx \in Seq(CarEvent)
  BY DEF RecvEvent, PipelineTypeOK
<1>2. cur' \in CarEvent /\ rx' \in Seq(CarEvent) /\ Len(rx') <= Len(rx)
  BY <1>1
<1>3. cur'.car \in Car /\ cur'.at \in Nat
  BY <1>2 DEF CarEvent
<1>4. [SnapshotOf(cur'.car) EXCEPT !.last_seen_ms = cur'.at] \in CarSnapshot
  BY <1>3, SnapshotTyped DEF CarSnapshot
<1>5. HubTypeOK'
  BY <1>3, <1>4, WriteTyped DEF RecvEvent
<1>6. Len(rx') <= EventsCap
  BY <1>1, <1>2, PipelineAssumption DEF PipelineTypeOK
<1> QED
  BY <1>2, <1>5, <1>6 DEF RecvEvent, PipelineTypeOK, PipelinePC, HandlerInv

LEMMA ApplyStatusTyped ==
  ASSUME HubTypeOK, PipelineTypeOK, ApplyStatus
  PROVE  HubTypeOK' /\ PipelineTypeOK' /\ HandlerInv'
<1>1. cur.car \in Car /\ cur.val \in Status
  BY CurTyped DEF ApplyStatus
<1>2. [SnapshotOf(cur.car) EXCEPT !.status = cur.val] \in CarSnapshot
  BY <1>1, SnapshotTyped DEF CarSnapshot
<1>3. HubTypeOK'
  BY <1>1, <1>2, WriteTyped DEF ApplyStatus
<1>4. <<Event("status", cur.car, cur.val)>> \in Seq(WsEvent)
  BY <1>1, StatusEventTyped
<1>5. /\ pc' \in PipelinePC /\ out' \in Seq(WsEvent)
      /\ cur' \in CarEvent \cup SlamOutput \cup {Nothing}
      /\ HandlerInv'
  BY <1>4, ThenEmitTyped, ThenSelectTyped DEF ApplyStatus
<1> QED
  BY <1>3, <1>5 DEF ApplyStatus, PipelineTypeOK

LEMMA ApplyTelemetryTyped ==
  ASSUME HubTypeOK, PipelineTypeOK, ApplyTelemetry
  PROVE  HubTypeOK' /\ PipelineTypeOK' /\ HandlerInv'
<1>1. cur.car \in Car /\ cur.at \in Nat
  BY CurTyped DEF ApplyTelemetry
<1>2. [SnapshotOf(cur.car) EXCEPT !.telemetry = cur.at] \in CarSnapshot
  BY <1>1, SnapshotTyped DEF CarSnapshot
<1>3. HubTypeOK'
  BY <1>1, <1>2, WriteTyped DEF ApplyTelemetry
<1>4. <<Event("telemetry", cur.car, cur.at)>> \in Seq(WsEvent)
  BY <1>1, EventTyped DEF LiveField
<1> QED
  BY <1>3, <1>4, ThenEmitTyped DEF ApplyTelemetry, PipelineTypeOK

LEMMA ApplyScanTyped ==
  ASSUME HubTypeOK, PipelineTypeOK, ApplyScan
  PROVE  HubTypeOK' /\ PipelineTypeOK' /\ HandlerInv'
<1>1. cur.car \in Car /\ cur.at \in Nat
  BY CurTyped DEF ApplyScan
<1>2. [SnapshotOf(cur.car) EXCEPT !.scans_total = @ + 1] \in CarSnapshot
  <2>1. SnapshotOf(cur.car) \in CarSnapshot
    BY <1>1, SnapshotTyped
  <2>2. SnapshotOf(cur.car).scans_total + 1 \in Nat
    BY <2>1 DEF CarSnapshot
  <2> QED
    BY <2>1, <2>2 DEF CarSnapshot
<1>3. HubTypeOK'
  BY <1>1, <1>2, WriteTyped DEF ApplyScan
<1>4. /\ DOMAIN rates' \subseteq Car
      /\ rates' \in [DOMAIN rates' -> Nat]
  BY <1>1 DEF ApplyScan, Window, PipelineTypeOK
<1> QED
  BY <1>3, <1>4 DEF ApplyScan, PipelineTypeOK, PipelinePC, HandlerInv

LEMMA RecvTrackedTyped ==
  ASSUME HubTypeOK, WorkerTypeOK, PipelineTypeOK, RecvTracked
  PROVE  HubTypeOK' /\ WorkerTypeOK' /\ PipelineTypeOK' /\ HandlerInv'
<1> DEFINE o == Head(slam_rx)
           r == [SnapshotOf(o.car) EXCEPT
                   !.pose = o.val,
                   !.trajectory = Extended(@, o.val),
                   !.scan = o.val]
<1>1. WorkerTypeOK' /\ o.car \in Car /\ o.val \in Nat
  BY RecvOutputTyped DEF RecvTracked, SlamOutput
<1>2. SnapshotOf(o.car) \in CarSnapshot
  BY <1>1, SnapshotTyped
<1>3. Extended(SnapshotOf(o.car).trajectory, o.val) \in Seq(Nat)
  BY <1>1, <1>2, ExtendedTyped DEF CarSnapshot
<1>4. r \in CarSnapshot
  BY <1>1, <1>2, <1>3 DEF CarSnapshot
<1>5. HubTypeOK'
  BY <1>1, <1>4, WriteTyped DEF RecvTracked
<1>6. Event("pose", o.car, o.val) \in WsEvent /\ Event("scan", o.car, o.val) \in WsEvent
  BY <1>1, EventTyped DEF LiveField
<1>7. <<Event("pose", o.car, o.val), Event("scan", o.car, o.val)>> \in Seq(WsEvent)
  BY <1>6
<1> QED
  BY <1>1, <1>5, <1>7, ThenEmitTyped DEF RecvTracked, PipelineTypeOK

LEMMA RecvMapTyped ==
  ASSUME HubTypeOK, WorkerTypeOK, PipelineTypeOK, RecvMap
  PROVE  HubTypeOK' /\ WorkerTypeOK' /\ PipelineTypeOK' /\ HandlerInv'
<1>1. WorkerTypeOK' /\ Head(slam_rx) \in SlamOutput
  BY RecvOutputTyped DEF RecvMap
<1>2. Head(slam_rx).car \in Car /\ Head(slam_rx).val \in Nat
  BY <1>1 DEF SlamOutput
<1>3. HubTypeOK'
  BY <1>2 DEF RecvMap, InsertMap, HubTypeOK
<1> QED
  BY <1>1, <1>3 DEF RecvMap, PipelineTypeOK, PipelinePC, HandlerInv

LEMMA PublishMapInfoTyped ==
  ASSUME HubTypeOK, PipelineTypeOK, HandlerInv, PublishMapInfo
  PROVE  HubTypeOK' /\ PipelineTypeOK' /\ HandlerInv'
<1>1. cur.car \in Car /\ cur.val \in Nat
  BY CurTyped DEF PublishMapInfo, HandlerInv
<1>2. [SnapshotOf(cur.car) EXCEPT !.map = cur.val] \in CarSnapshot
  BY <1>1, SnapshotTyped DEF CarSnapshot
<1>3. HubTypeOK'
  BY <1>1, <1>2, WriteTyped DEF PublishMapInfo
<1>4. <<Event("map", cur.car, cur.val)>> \in Seq(WsEvent)
  BY <1>1, EventTyped DEF LiveField
<1> QED
  BY <1>3, <1>4, ThenEmitTyped DEF PublishMapInfo, PipelineTypeOK

LEMMA ReportRateTyped ==
  ASSUME HubTypeOK, PipelineTypeOK, NEW c \in Car, ReportRate(c)
  PROVE  HubTypeOK' /\ PipelineTypeOK' /\ HandlerInv'
<1>1. c \in DOMAIN rates /\ rates[c] \in Nat
  BY DEF ReportRate, PipelineTypeOK
<1>2. [SnapshotOf(c) EXCEPT !.scan_hz = rates[c]] \in CarSnapshot
  BY <1>1, SnapshotTyped DEF CarSnapshot
<1>3. HubTypeOK'
  BY <1>2, WriteTyped DEF ReportRate
<1>4. <<Event("scan_hz", c, rates[c])>> \in Seq(WsEvent)
  BY <1>1, EventTyped DEF LiveField
<1>5. rates' \in [DOMAIN rates' -> Nat] /\ DOMAIN rates' = DOMAIN rates
  BY DEF ReportRate, PipelineTypeOK
<1> QED
  BY <1>3, <1>4, <1>5, ThenEmitTyped DEF ReportRate, PipelineTypeOK

LEMMA TickTyped ==
  ASSUME HubTypeOK, PipelineTypeOK, Tick
  PROVE  HubTypeOK' /\ PipelineTypeOK' /\ HandlerInv'
BY DEF Tick, hubVars, HubTypeOK, PipelineTypeOK, PipelinePC, HandlerInv

LEMMA EmitNextTyped ==
  ASSUME HubTypeOK, PipelineTypeOK, HandlerInv, EmitNext
  PROVE  HubTypeOK' /\ PipelineTypeOK' /\ HandlerInv'
<1>1. out \in Seq(WsEvent) /\ out # <<>>
  BY DEF EmitNext, HandlerInv, PipelineTypeOK
<1>2. Head(out) \in WsEvent /\ Tail(out) \in Seq(WsEvent)
      /\ (Len(out) > 1 => Tail(out) # <<>>)
  <2>1. Head(out) \in WsEvent
    BY <1>1
  <2>2. Tail(out) \in Seq(WsEvent) /\ Len(Tail(out)) = Len(out) - 1
    BY <1>1
  <2>3. Len(out) \in Nat
    BY <1>1
  <2>4. ASSUME Len(out) > 1 PROVE Tail(out) # <<>>
    <3>1. Len(Tail(out)) > 0
      BY <2>2, <2>3, <2>4
    <3> QED
      BY <2>2, <3>1, PositiveLength, Zenon
  <2> QED
    BY <2>1, <2>2, <2>4
<1>3. HubTypeOK'
  BY <1>2, EmitTyped DEF EmitNext, HubTypeOK
<1> QED
  BY <1>2, <1>3 DEF EmitNext, PipelineTypeOK, PipelinePC, HandlerInv

LEMMA SubmitTypedInHub ==
  ASSUME HubTypeOK, WorkerTypeOK, PipelineTypeOK, HandlerInv,
         SpawnWorker \/ SpawnFails \/ SubmitScan
  PROVE  HubTypeOK' /\ WorkerTypeOK' /\ PipelineTypeOK' /\ HandlerInv'
<1>1. cur.car \in Car /\ cur.at \in Nat
  BY CurTyped DEF SpawnWorker, SpawnFails, SubmitScan, HandlerInv
<1>2. CASE SpawnWorker
  BY <1>1, <1>2, SpawnTyped DEF SpawnWorker, hubVars, pipeVars, HubTypeOK,
     PipelineTypeOK, HandlerInv
<1>3. CASE SpawnFails
  BY <1>3, ThenSelectTyped DEF SpawnFails, hubVars, workerVars, HubTypeOK,
     WorkerTypeOK, PipelineTypeOK
<1>4. CASE SubmitScan
  BY <1>1, <1>4, SubmitTyped, ThenSelectTyped DEF SubmitScan, hubVars, HubTypeOK,
     PipelineTypeOK
<1> QED
  BY <1>2, <1>3, <1>4

LEMMA SourcesArrive ==
  ASSUME PipelineTypeOK, Sources
  PROVE  \E e \in CarEvent : Arrive(e)
<1>1. PICK c \in Car : \/ \E status \in Status : ArriveStatus(c, status)
                       \/ ArriveTelemetry(c)
                       \/ ArriveScan(c)
  BY DEF Sources
<1>2. arrived + 1 \in Nat
  BY DEF PipelineTypeOK
<1>3. ASSUME NEW status \in Status
      PROVE  [kind |-> "status", car |-> c, at |-> arrived + 1, val |-> status] \in CarEvent
  BY <1>2 DEF CarEvent
<1>4. [kind |-> "telemetry", car |-> c, at |-> arrived + 1] \in CarEvent
  BY <1>2 DEF CarEvent
<1>5. [kind |-> "scan", car |-> c, at |-> arrived + 1] \in CarEvent
  BY <1>2 DEF CarEvent
<1> QED
  BY <1>1, <1>3, <1>4, <1>5 DEF ArriveStatus, ArriveTelemetry, ArriveScan

LEMMA SourcesTyped ==
  ASSUME HubTypeOK, WorkerTypeOK, PipelineTypeOK, HandlerInv, Sources
  PROVE  HubTypeOK' /\ WorkerTypeOK' /\ PipelineTypeOK' /\ HandlerInv'
<1>1. PICK e \in CarEvent : Arrive(e)
  BY SourcesArrive
<1>2. rx' \in Seq(CarEvent) /\ Len(rx') <= EventsCap
  BY <1>1, PipelineAssumption DEF Arrive, PipelineTypeOK
<1> QED
  BY <1>1, <1>2 DEF Arrive, hubVars, workerVars, HubTypeOK, WorkerTypeOK,
     PipelineTypeOK, HandlerInv

LEMMA WorkersTyped ==
  ASSUME HubTypeOK, WorkerTypeOK, PipelineTypeOK, HandlerInv, Workers
  PROVE  HubTypeOK' /\ WorkerTypeOK' /\ PipelineTypeOK' /\ HandlerInv'
BY WorkerStepTyped DEF Workers, hubVars, pipeVars, HubTypeOK, PipelineTypeOK, HandlerInv

LEMMA SessionsTyped == TypeInv /\ Sessions => TypeInv'
<1> SUFFICES ASSUME TypeInv, NEW s \in Client,
                    \/ Subscribe(s) \/ TakeSnapshots(s) \/ SendHello(s)
                    \/ Forward(s) \/ Disconnect(s)
             PROVE  TypeInv'
  BY DEF Sessions
<1> USE DEF TypeInv, TypeOK
<1>1. WorkerTypeOK' /\ PipelineTypeOK' /\ HandlerInv' /\ UNCHANGED <<cars, maps>>
  BY DEF Subscribe, TakeSnapshots, SendHello, Forward, Disconnect, workerVars,
     pipeVars, WorkerTypeOK, PipelineTypeOK, HandlerInv
<1>2. CASE Subscribe(s)
  BY <1>1, <1>2 DEF Subscribe, HubTypeOK
<1>3. CASE TakeSnapshots(s)
  <2>1. \A c \in Car : KnownFields(SnapshotOf(c)) \in LiveView
    BY SnapshotTyped DEF KnownFields, CarSnapshot, LiveField, LiveView
  <2> QED
    BY <1>1, <1>3, <2>1 DEF TakeSnapshots, HubTypeOK
<1>4. CASE SendHello(s)
  BY <1>1, <1>4 DEF SendHello, HubTypeOK
<1>5. CASE Forward(s)
  <2> DEFINE e == Head(unread[s])
  <2>1. unread[s] \in Seq(WsEvent) /\ unread[s] # <<>> /\ Len(unread[s]) <= RingCap
    BY <1>5 DEF Forward, HubTypeOK
  <2>2. e \in WsEvent /\ Tail(unread[s]) \in Seq(WsEvent)
        /\ Len(Tail(unread[s])) <= RingCap
    BY <2>1, HubAssumption
  <2>3. e.car \in Car
    BY <2>2 DEF WsEvent
  <2>5. [view[s][e.car] EXCEPT ![e.field] = e.val] \in LiveView
    <3>1. view[s][e.car] \in LiveView
      BY <2>3
    <3>2. CASE e.field = "status"
      <4>1. e.val \in Status
        BY <2>2, <3>2 DEF WsEvent, LiveField
      <4> QED
        BY <3>1, <3>2, <4>1 DEF LiveView
    <3>3. CASE e.field # "status"
      <4>1. e.val \in Nat /\ e.field \in LiveField
        BY <2>2, <3>3 DEF WsEvent, LiveField
      <4> QED
        BY <3>1, <3>3, <4>1 DEF LiveView, LiveField
    <3> QED
      BY <3>2, <3>3
  <2>4. view' \in [Client -> [Car -> LiveView]]
    BY <1>5, <2>3, <2>5 DEF Forward
  <2> QED
    BY <1>1, <1>5, <2>2, <2>4 DEF Forward, HubTypeOK
<1>6. CASE Disconnect(s)
  <2>1. KnownFields(NewSnapshot) \in LiveView
    BY HubAssumption DEF KnownFields, NewSnapshot, LiveField, LiveView
  <2>2. lagged' \in [Client -> BOOLEAN]
    BY <1>6, Zenon DEF Disconnect, HubTypeOK
  <2> QED
    BY <1>1, <1>6, <2>1, <2>2, HubAssumption DEF Disconnect, HubTypeOK
<1> QED
  BY <1>2, <1>3, <1>4, <1>5, <1>6

LEMMA TypeNext == TypeInv /\ [Next]_hub => TypeInv'
<1> SUFFICES ASSUME TypeInv, [Next]_hub PROVE TypeInv'
  OBVIOUS
<1>1. CASE /\ Sources \/ RecvEvent \/ RecvTracked \/ RecvMap \/ Tick \/ Handle \/ Workers
           /\ UNCHANGED view
  <2> SUFFICES HubTypeOK' /\ WorkerTypeOK' /\ PipelineTypeOK' /\ HandlerInv'
    BY <1>1 DEF TypeInv, TypeOK
  <2> USE DEF TypeInv, TypeOK
  <2>1. CASE Sources \/ RecvTracked \/ RecvMap \/ Workers
             \/ SpawnWorker \/ SpawnFails \/ SubmitScan
    BY <2>1, SourcesTyped, RecvTrackedTyped, RecvMapTyped, WorkersTyped, SubmitTypedInHub
  <2>2. CASE \/ RecvEvent \/ Tick \/ ApplyStatus \/ ApplyTelemetry \/ ApplyScan
             \/ PublishMapInfo \/ EmitNext \/ \E c \in Car : ReportRate(c)
    <3>1. UNCHANGED workerVars
      BY <2>2 DEF RecvEvent, Tick, ApplyStatus, ApplyTelemetry, ApplyScan,
         PublishMapInfo, EmitNext, ReportRate
    <3>2. WorkerTypeOK'
      BY <3>1 DEF workerVars, WorkerTypeOK
    <3> QED
      BY <2>2, <3>2, RecvEventTyped, TickTyped, ApplyStatusTyped, ApplyTelemetryTyped,
         ApplyScanTyped, PublishMapInfoTyped, EmitNextTyped, ReportRateTyped
  <2> QED
    BY <1>1, <2>1, <2>2 DEF Handle
<1>2. CASE Sessions
  BY <1>2, SessionsTyped
<1>3. CASE UNCHANGED hub
  BY <1>3 DEF hub, vars, hubVars, workerVars, pipeVars, TypeInv, TypeOK, HubTypeOK,
     WorkerTypeOK, PipelineTypeOK, HandlerInv
<1> QED
  BY <1>1, <1>2, <1>3 DEF Next

(* Every variable of the hub keeps its type.                               *)
THEOREM TypeCorrect == Spec => []TypeOK
<1>1. TypeInv => TypeOK
  BY DEF TypeInv
<1> QED
  BY TypeInit, TypeNext, <1>1, PTL DEF Spec

----------------------------------------------------------------------------
(* The hub implements WorkerLoop, so that rotations keep their order from  *)
(* the mailbox to the snapshot, and a trajectory is the recent poses,      *)
(* oldest first.                                                           *)

(* Events are numbered as they arrive, and handled in that order.          *)
Handling == IF pc \in {"apply", "submit"} THEN 1 ELSE 0

Numbered ==
  /\ Len(rx) + Handling <= arrived
  /\ arrived <= MaxEvents
  /\ \A i \in DOMAIN rx : rx[i].at = (arrived - Len(rx)) + i
  /\ Handling = 1 => cur.at = arrived - Len(rx)

LEMMA NumberedInit == Init => Numbered
BY PipelineAssumption DEF Init, PipelineInit, Numbered, Handling

LEMMA NumberedKept ==
  ASSUME TypeInv, Numbered, UNCHANGED <<rx, arrived>>,
         Handling' = 1 => Handling = 1 /\ UNCHANGED cur
  PROVE  Numbered'
<1>1. Handling \in {0, 1} /\ Handling' \in {0, 1}
  BY DEF Handling
<1>2. Len(rx) \in Nat /\ arrived \in Nat
  BY DEF TypeInv, TypeOK, PipelineTypeOK
<1> QED
  BY <1>1, <1>2 DEF Numbered

LEMMA NumberedRecv ==
  ASSUME TypeInv, Numbered, RecvEvent
  PROVE  Numbered' /\ EventsHandled' = EventsHandled
<1>1. rx \in Seq(CarEvent) /\ rx # <<>> /\ rx' = Tail(rx) /\ cur' = Head(rx)
      /\ arrived \in Nat /\ pc = "select" /\ pc' = "apply" /\ UNCHANGED arrived
  BY DEF RecvEvent, TypeInv, TypeOK, PipelineTypeOK
<1>2. Len(rx') = Len(rx) - 1 /\ Len(rx) \in Nat \ {0} /\ cur' = rx[1] /\ 1 \in DOMAIN rx
  BY <1>1
<1>3. \A i \in DOMAIN rx' : i \in Nat /\ i + 1 \in DOMAIN rx /\ rx'[i] = rx[i + 1]
  BY <1>1, TailElements
<1>4. Handling = 0 /\ Handling' = 1 /\ Len(rx) <= arrived
  BY <1>1, <1>2 DEF Handling, Numbered
<1> QED
  BY <1>1, <1>2, <1>3, <1>4 DEF Numbered, EventsHandled

LEMMA NumberedArrive ==
  ASSUME TypeInv, Numbered, NEW e \in CarEvent, Arrive(e)
  PROVE  Numbered' /\ EventsHandled' = EventsHandled
<1>1. rx \in Seq(CarEvent) /\ rx' = Append(rx, e) /\ arrived' = arrived + 1
      /\ arrived \in Nat /\ arrived < MaxEvents /\ e.at = arrived + 1 /\ UNCHANGED <<pc, cur>>
  BY DEF Arrive, TypeInv, TypeOK, PipelineTypeOK
<1>2. Len(rx') = Len(rx) + 1 /\ Len(rx) \in Nat /\ MaxEvents \in Nat
  BY <1>1, PipelineAssumption
<1>3. /\ \A i \in DOMAIN rx' : i \in DOMAIN rx \/ i = Len(rx) + 1
      /\ \A i \in DOMAIN rx : rx'[i] = rx[i]
      /\ rx'[Len(rx) + 1] = e
  BY <1>1, AppendElements
<1>4. Handling' = Handling /\ Handling \in {0, 1}
  BY <1>1 DEF Handling
<1> QED
  BY <1>1, <1>2, <1>3, <1>4 DEF Numbered, EventsHandled, Handling

----------------------------------------------------------------------------
(* Every step of the hub is a step of WorkerLoop or leaves its variables   *)
(* alone.                                                                  *)
loopVars == <<workerVars, EventsHandled, Poses>>

LEMMA PosesKept ==
  ASSUME HubTypeOK, NEW c \in Car, NEW r \in CarSnapshot, UpdateCar(c, r),
         r.pose = SnapshotOf(c).pose
  PROVE  Poses' = Poses
BY UpdateTyped DEF Poses

LEMMA HandledKept ==
  ASSUME UNCHANGED <<rx, arrived, Handling>>
  PROVE  EventsHandled' = EventsHandled
BY DEF EventsHandled, Handling

(* A handler that only writes a snapshot and broadcasts, or selects again. *)
LEMMA QuietStep ==
  ASSUME TypeInv, Numbered,
         \/ Tick \/ EmitNext \/ PublishMapInfo \/ ApplyScan
         \/ \E c \in Car : ReportRate(c)
  PROVE  Numbered' /\ UNCHANGED loopVars
<1> USE DEF TypeInv, TypeOK
<1>1. CASE Tick \/ EmitNext
  <2>1. UNCHANGED <<rx, arrived, Handling, workerVars, cars>> /\ Handling' = 0
    BY <1>1 DEF Tick, EmitNext, hubVars, Handling
  <2>2. Poses' = Poses
    BY <2>1 DEF Poses, SnapshotOf, NewSnapshot
  <2> QED
    BY <2>1, <2>2, HandledKept, NumberedKept DEF loopVars
<1>2. CASE PublishMapInfo
  <2>1. cur.car \in Car /\ cur.val \in Nat
    BY <1>2, CurTyped DEF PublishMapInfo, HandlerInv
  <2>2. [SnapshotOf(cur.car) EXCEPT !.map = cur.val] \in CarSnapshot
    BY <2>1, SnapshotTyped DEF CarSnapshot
  <2>3. Poses' = Poses
    BY <1>2, <2>1, <2>2, PosesKept, SnapshotTyped DEF PublishMapInfo, CarSnapshot
  <2>4. UNCHANGED <<rx, arrived, Handling, workerVars>> /\ Handling' = 0
    BY <1>2 DEF PublishMapInfo, ThenEmit, Handling
  <2> QED
    BY <2>3, <2>4, HandledKept, NumberedKept DEF loopVars
<1>3. CASE ApplyScan
  <2>1. cur.car \in Car
    BY <1>3, CurTyped DEF ApplyScan
  <2>2. SnapshotOf(cur.car) \in CarSnapshot
    BY <2>1, SnapshotTyped
  <2>3. [SnapshotOf(cur.car) EXCEPT !.scans_total = @ + 1] \in CarSnapshot
    <3>1. SnapshotOf(cur.car).scans_total + 1 \in Nat
      BY <2>2 DEF CarSnapshot
    <3> QED
      BY ONLY <2>2, <3>1, SMTT(30) DEF CarSnapshot
  <2>4. Poses' = Poses
    BY <1>3, <2>1, <2>2, <2>3, PosesKept DEF ApplyScan, CarSnapshot
  <2>5. UNCHANGED <<rx, arrived, Handling, workerVars, cur>>
    BY <1>3 DEF ApplyScan, Handling
  <2> QED
    BY <2>4, <2>5, HandledKept, NumberedKept DEF loopVars
<1>4. ASSUME NEW c \in Car, ReportRate(c) PROVE Numbered' /\ UNCHANGED loopVars
  <2>1. c \in DOMAIN rates /\ rates[c] \in Nat
    BY <1>4 DEF ReportRate, PipelineTypeOK
  <2>2. [SnapshotOf(c) EXCEPT !.scan_hz = rates[c]] \in CarSnapshot
    BY <2>1, SnapshotTyped DEF CarSnapshot
  <2>3. Poses' = Poses
    BY <1>4, <2>2, PosesKept, SnapshotTyped DEF ReportRate, CarSnapshot
  <2>4. UNCHANGED <<rx, arrived, Handling, workerVars>> /\ Handling' = 0
    BY <1>4 DEF ReportRate, ThenEmit, Handling
  <2> QED
    BY <2>3, <2>4, HandledKept, NumberedKept DEF loopVars
<1> QED
  BY <1>1, <1>2, <1>3, <1>4

(* The last step of an event that puts no rotation in a mailbox.           *)
LEMMA HandledNext ==
  ASSUME TypeInv, Numbered, Handling = 1, Handling' = 0, UNCHANGED <<rx, arrived>>
  PROVE  /\ Numbered'
         /\ EventsHandled \in Nat /\ EventsHandled < MaxEvents
         /\ EventsHandled' = EventsHandled + 1
         /\ cur.at = EventsHandled + 1
<1>1. Len(rx) \in Nat /\ arrived \in Nat /\ MaxEvents \in Nat
  BY PipelineAssumption DEF TypeInv, TypeOK, PipelineTypeOK
<1>2. Numbered'
  BY <1>1 DEF Numbered
<1>3. EventsHandled = (arrived - Len(rx)) - 1 /\ EventsHandled' = arrived - Len(rx)
  BY <1>1 DEF EventsHandled, Handling
<1> QED
  BY <1>1, <1>2, <1>3 DEF Numbered

LEMMA OtherStep ==
  ASSUME TypeInv, Numbered, ApplyStatus \/ ApplyTelemetry \/ SpawnFails
  PROVE  Numbered' /\ Loop!OtherEvent
<1> USE DEF TypeInv, TypeOK
<1>1. Handling = 1 /\ Handling' = 0 /\ UNCHANGED <<rx, arrived, workerVars>>
  BY DEF ApplyStatus, ApplyTelemetry, SpawnFails, ThenEmit, ThenSelect, Handling
<1>2. CASE ApplyStatus
  <2>1. cur.car \in Car /\ cur.val \in Status
    BY <1>2, CurTyped DEF ApplyStatus
  <2>2. [SnapshotOf(cur.car) EXCEPT !.status = cur.val] \in CarSnapshot
    BY <2>1, SnapshotTyped DEF CarSnapshot
  <2> QED
    BY <1>2, <2>1, <2>2, PosesKept, SnapshotTyped, <1>1, HandledNext
       DEF ApplyStatus, CarSnapshot, Loop!OtherEvent, workerVars, Loop!workerVars
<1>3. CASE ApplyTelemetry
  <2>1. cur.car \in Car /\ cur.at \in Nat
    BY <1>3, CurTyped DEF ApplyTelemetry
  <2>2. [SnapshotOf(cur.car) EXCEPT !.telemetry = cur.at] \in CarSnapshot
    BY <2>1, SnapshotTyped DEF CarSnapshot
  <2> QED
    BY <1>3, <2>1, <2>2, PosesKept, SnapshotTyped, <1>1, HandledNext
       DEF ApplyTelemetry, CarSnapshot, Loop!OtherEvent, workerVars, Loop!workerVars
<1>4. CASE SpawnFails
  <2>1. Poses' = Poses
    BY <1>4 DEF SpawnFails, hubVars, Poses, SnapshotOf, NewSnapshot
  <2> QED
    BY <2>1, <1>1, HandledNext DEF Loop!OtherEvent, workerVars, Loop!workerVars
<1> QED
  BY <1>2, <1>3, <1>4

LEMMA WorkersStep ==
  ASSUME TypeInv, Numbered, SpawnWorker \/ SubmitScan \/ Workers
  PROVE  Numbered' /\ \E c \in Car : Loop!SpawnWorker(c) \/ Loop!SubmitNext(c) \/ Loop!Worker(c)
<1> USE DEF TypeInv, TypeOK
<1>p. ASSUME UNCHANGED cars PROVE Poses' = Poses
  BY <1>p DEF Poses, SnapshotOf, NewSnapshot
<1>1. CASE SpawnWorker
  <2>1. cur.car \in Car
    BY <1>1, CurTyped DEF SpawnWorker, HandlerInv
  <2>2. Numbered' /\ EventsHandled' = EventsHandled /\ Poses' = Poses
    BY <1>1, <1>p, NumberedKept, HandledKept DEF SpawnWorker, hubVars, pipeVars, Handling
  <2> QED
    BY <1>1, <2>1, <2>2 DEF SpawnWorker, Loop!SpawnWorker, HasWorker, Loop!HasWorker,
       Spawn, Loop!Spawn
<1>2. CASE SubmitScan
  <2>1. cur.car \in Car
    BY <1>2, CurTyped DEF SubmitScan, HandlerInv
  <2>2. Handling = 1 /\ Handling' = 0 /\ UNCHANGED <<rx, arrived>>
    BY <1>2 DEF SubmitScan, ThenSelect, Handling
  <2>3. Numbered' /\ EventsHandled < MaxEvents /\ EventsHandled' = EventsHandled + 1
        /\ cur.at = EventsHandled'
    BY <2>2, HandledNext
  <2>4. Poses' = Poses
    BY <1>2, <1>p DEF SubmitScan, hubVars
  <2> QED
    BY <1>2, <2>1, <2>3, <2>4 DEF SubmitScan, Loop!SubmitNext, HasWorker, Loop!HasWorker,
       Submit, Loop!Submit
<1>3. CASE Workers
  <2>1. PICK c \in Car : (WorkerStep(c) \/ Stop(c)) /\ UNCHANGED <<hubVars, pipeVars>>
    BY <1>3 DEF Workers
  <2>2. Numbered' /\ EventsHandled' = EventsHandled /\ Poses' = Poses
    BY <2>1, <1>p, NumberedKept, HandledKept DEF hubVars, pipeVars, Handling
  <2>3. Loop!WorkerStep(c) \/ Loop!Stop(c)
    BY <2>1 DEF WorkerStep, Stop, Start, Take, Skip, Track, Render, Report, MapDue, Period,
       Loop!WorkerStep, Loop!Stop, Loop!Start, Loop!Take, Loop!Skip, Loop!Track,
       Loop!Render, Loop!Report, Loop!MapDue, Loop!Period
  <2> QED
    BY <2>2, <2>3 DEF Loop!Worker
<1> QED
  BY <1>1, <1>2, <1>3

LEMMA ReadStep ==
  ASSUME TypeInv, Numbered, RecvTracked \/ RecvMap
  PROVE  Numbered' /\ Loop!ReadOutput
<1> DEFINE o == Head(slam_rx)
<1> USE DEF TypeInv, TypeOK
<1>1. o \in SlamOutput /\ o.car \in Car /\ o.val \in Nat
  BY RecvOutputTyped DEF RecvTracked, RecvMap, SlamOutput
<1>2. Numbered' /\ EventsHandled' = EventsHandled
  <2>1. UNCHANGED <<rx, arrived, Handling>> /\ Handling' = 0
    BY DEF RecvTracked, RecvMap, ThenEmit, Handling
  <2> QED
    BY <2>1, NumberedKept, HandledKept
<1>3. Loop!RecvOutput
  BY DEF RecvTracked, RecvMap, RecvOutput, Loop!RecvOutput
<1>4. Poses' = [c \in Car |-> IF IsTracked(o, c) THEN o.val ELSE Poses[c]]
  <2>1. CASE RecvTracked
    <3> DEFINE r == [SnapshotOf(o.car) EXCEPT
                       !.pose = o.val,
                       !.trajectory = Extended(@, o.val),
                       !.scan = o.val]
    <3>1. SnapshotOf(o.car) \in CarSnapshot
      BY <1>1, SnapshotTyped
    <3>2. Extended(SnapshotOf(o.car).trajectory, o.val) \in Seq(Nat)
      BY <1>1, <3>1, ExtendedTyped DEF CarSnapshot
    <3>3. r \in CarSnapshot /\ r.pose = o.val
      BY <1>1, <3>1, <3>2 DEF CarSnapshot
    <3>4. UpdateCar(o.car, r) /\ o.kind = "tracked"
      BY <2>1 DEF RecvTracked
    <3>5. \A d \in Car : SnapshotOf(d)' = IF d = o.car THEN r ELSE SnapshotOf(d)
      BY <1>1, <3>3, <3>4, UpdateTyped
    <3> HIDE DEF r
    <3> QED
      BY <3>3, <3>4, <3>5 DEF Poses, IsTracked
  <2>2. CASE RecvMap
    <3>1. UNCHANGED cars /\ o.kind = "map"
      BY <2>2 DEF RecvMap
    <3> QED
      BY <3>1 DEF Poses, SnapshotOf, NewSnapshot, IsTracked
  <2> QED
    BY <2>1, <2>2
<1> QED
  BY <1>2, <1>3, <1>4 DEF Loop!ReadOutput, IsTracked, Loop!IsTracked

LEMMA SourceStep ==
  ASSUME TypeInv, Numbered, Sources
  PROVE  Numbered' /\ UNCHANGED loopVars
<1> USE DEF TypeInv, TypeOK
<1>1. PICK e \in CarEvent : Arrive(e)
  BY SourcesArrive
<1>2. UNCHANGED <<cars, workerVars>>
  BY <1>1 DEF Arrive, hubVars
<1>3. Poses' = Poses
  BY <1>2 DEF Poses, SnapshotOf, NewSnapshot
<1> QED
  BY <1>1, <1>2, <1>3, NumberedArrive DEF loopVars

LEMMA RecvStep ==
  ASSUME TypeInv, Numbered, RecvEvent
  PROVE  Numbered' /\ UNCHANGED loopVars
<1> USE DEF TypeInv, TypeOK
<1>1. cur' \in CarEvent
  BY DEF RecvEvent, PipelineTypeOK
<1>2. cur'.car \in Car /\ cur'.at \in Nat
  BY <1>1 DEF CarEvent
<1>3. [SnapshotOf(cur'.car) EXCEPT !.last_seen_ms = cur'.at] \in CarSnapshot
  BY <1>2, SnapshotTyped DEF CarSnapshot
<1>4. Poses' = Poses
  BY <1>2, <1>3, PosesKept, SnapshotTyped DEF RecvEvent, CarSnapshot
<1> QED
  BY <1>4, NumberedRecv DEF RecvEvent, loopVars

LEMMA Simulation == TypeInv /\ Numbered /\ [Next]_hub => Numbered' /\ [Loop!Next]_loopVars
<1> SUFFICES ASSUME TypeInv, Numbered, [Next]_hub
             PROVE  Numbered' /\ [Loop!Next]_loopVars
  OBVIOUS
<1>1. CASE Sessions \/ UNCHANGED hub
  <2>1. UNCHANGED <<cars, workerVars, pipeVars>>
    BY <1>1 DEF Sessions, Subscribe, TakeSnapshots, SendHello, Forward, Disconnect,
       hub, vars, hubVars
  <2>2. UNCHANGED <<rx, arrived, cur, Handling>> /\ Poses' = Poses
    BY <2>1 DEF pipeVars, Handling, Poses, SnapshotOf, NewSnapshot
  <2> QED
    BY <2>1, <2>2, NumberedKept, HandledKept DEF loopVars
<1>2. CASE Sources \/ RecvEvent
  BY <1>2, SourceStep, RecvStep
<1>3. CASE RecvTracked \/ RecvMap
  BY <1>3, ReadStep DEF Loop!Next
<1>4. CASE SpawnWorker \/ SubmitScan \/ Workers
  BY <1>4, WorkersStep DEF Loop!Next
<1>5. CASE ApplyStatus \/ ApplyTelemetry \/ SpawnFails
  BY <1>5, OtherStep DEF Loop!Next
<1>6. CASE \/ Tick \/ EmitNext \/ PublishMapInfo \/ ApplyScan
           \/ \E c \in Car : ReportRate(c)
  BY <1>6, QuietStep
<1> QED
  BY <1>1, <1>2, <1>3, <1>4, <1>5, <1>6 DEF Next, Handle

LEMMA LoopInit == Init => Loop!Init
<1> SUFFICES ASSUME Init PROVE Loop!Init
  OBVIOUS
<1>1. arrived = 0 /\ rx = <<>> /\ pc = "select"
  BY DEF Init, PipelineInit
<1>2. EventsHandled = 0
  <2>1. Len(rx) = 0
    BY <1>1
  <2>2. EventsHandled = arrived - Len(rx) - 0
    BY <1>1 DEF EventsHandled
  <2>3. 0 - 0 - 0 = 0
    OBVIOUS
  <2> QED
    BY <1>1, <2>1, <2>2, <2>3, Zenon
<1>3. Poses = [c \in Car |-> 0]
  BY DEF Init, HubInit, Poses, SnapshotOf, NewSnapshot
<1> QED
  BY <1>2, <1>3 DEF Init, WorkerInit, Loop!Init, Loop!WorkerInit

(* The composed hub implements WorkerLoop.                                 *)
THEOREM HubImplementsWorkerLoop == Spec => ImplementsWorkerLoop
<1>1. TypeInv /\ Numbered /\ [Next]_hub => Numbered' /\ [Loop!Next]_(Loop!vars)
  <2> SUFFICES ASSUME TypeInv, Numbered, [Next]_hub
               PROVE  Numbered' /\ [Loop!Next]_(Loop!vars)
    OBVIOUS
  <2>1. Numbered' /\ (Loop!Next \/ UNCHANGED loopVars)
    BY Simulation
  <2>2. UNCHANGED loopVars => UNCHANGED Loop!vars
    BY DEF loopVars, Loop!vars, workerVars, Loop!workerVars
  <2> QED
    BY <2>1, <2>2
<1> QED
  BY TypeInit, TypeNext, NumberedInit, LoopInit, <1>1, PTL DEF Spec, ImplementsWorkerLoop, Loop!Spec

----------------------------------------------------------------------------
(* The order of the rotations, from the lemmas on the worker's steps.      *)
HubOrdered == \A c \in Car : Ordered(c, Poses[c], EventsHandled)

LEMMA CountsTyped ==
  ASSUME TypeInv, Numbered
  PROVE  EventsHandled \in Nat /\ Poses \in [Car -> Nat]
<1>1. Len(rx) \in Nat /\ arrived \in Nat
  BY DEF TypeInv, TypeOK, PipelineTypeOK
<1>2. EventsHandled \in Nat
  BY <1>1 DEF Numbered, Handling, EventsHandled
<1>3. \A c \in Car : SnapshotOf(c).pose \in Nat
  BY SnapshotTyped DEF TypeInv, TypeOK, CarSnapshot
<1> QED
  BY <1>2, <1>3 DEF Poses

LEMMA LoopWorker ==
  ASSUME NEW c \in Car, Loop!Worker(c)
  PROVE  WorkerStep(c) \/ Stop(c)
BY DEF Loop!Worker, WorkerStep, Stop, Start, Take, Skip, Track, Render, Report,
   MapDue, Period, Loop!WorkerStep, Loop!Stop, Loop!Start, Loop!Take, Loop!Skip,
   Loop!Track, Loop!Render, Loop!Report, Loop!MapDue, Loop!Period

LEMMA HubOrderedInit == Init => HubOrdered
<1> SUFFICES ASSUME Init, NEW c \in Car PROVE Ordered(c, Poses[c], EventsHandled)
  BY DEF HubOrdered
<1>1. WorkerInit /\ Poses[c] = 0 /\ EventsHandled = 0
  BY LoopInit DEF Init, Loop!Init
<1> QED
  BY <1>1, OrderedInit

LEMMA HubOrderedNext ==
  TypeInv /\ TypeInv' /\ Numbered /\ HubOrdered /\ [Next]_hub => HubOrdered'
<1> SUFFICES ASSUME TypeInv, TypeInv', Numbered, HubOrdered, [Next]_hub, NEW d \in Car
             PROVE  Ordered(d, Poses[d], EventsHandled)'
  BY DEF HubOrdered
<1>1. PICK p \in Nat, n \in Nat : p = Poses[d] /\ n = EventsHandled
  BY CountsTyped
<1>2. WorkerTypeOK /\ WorkerTypeOK' /\ Ordered(d, p, n)
  BY <1>1 DEF TypeInv, TypeOK, HubOrdered
<1>3. ASSUME NEW c \in Car, Loop!SpawnWorker(c) PROVE Ordered(d, Poses[d], EventsHandled)'
  <2>1. Spawn(c) /\ UNCHANGED <<EventsHandled, Poses>>
    BY <1>3 DEF Loop!SpawnWorker, Loop!Spawn, Spawn
  <2> QED
    BY <1>1, <1>2, <2>1, SpawnOrdered
<1>4. ASSUME NEW c \in Car, Loop!SubmitNext(c) PROVE Ordered(d, Poses[d], EventsHandled)'
  <2>1. Submit(c, EventsHandled') /\ EventsHandled' = n + 1 /\ UNCHANGED Poses
    BY <1>1, <1>4 DEF Loop!SubmitNext, Loop!Submit, Submit
  <2> QED
    BY <1>1, <1>2, <2>1, SubmitOrdered
<1>5. ASSUME NEW c \in Car, Loop!Worker(c) PROVE Ordered(d, Poses[d], EventsHandled)'
  <2>1. WorkerStep(c) \/ Stop(c)
    BY <1>5, LoopWorker
  <2>2. UNCHANGED <<EventsHandled, Poses>>
    BY <1>5 DEF Loop!Worker
  <2> QED
    BY <1>1, <1>2, <2>1, <2>2, WorkerStepOrdered
<1>6. CASE Loop!ReadOutput
  <2>1. PICK q : q = IF IsTracked(Head(slam_rx), d) THEN Head(slam_rx).val ELSE p
    OBVIOUS
  <2>2. RecvOutput /\ Poses'[d] = q /\ EventsHandled' = n
    BY <1>1, <1>6, <2>1 DEF Loop!ReadOutput, Loop!RecvOutput, RecvOutput, Loop!IsTracked, IsTracked
  <2> QED
    BY <1>2, <2>1, <2>2, RecvOrdered
<1>7. CASE Loop!OtherEvent
  <2>1. UNCHANGED workerVars /\ EventsHandled' = n + 1 /\ UNCHANGED Poses
    BY <1>1, <1>7 DEF Loop!OtherEvent, Loop!workerVars, workerVars
  <2> QED
    BY <1>1, <1>2, <2>1, OtherOrdered
<1>8. CASE UNCHANGED loopVars
  BY <1>1, <1>2, <1>8, OtherOrdered DEF loopVars
<1> QED
  BY <1>3, <1>4, <1>5, <1>6, <1>7, <1>8, Simulation DEF Loop!Next

(* Rotations of a car keep their order, and none is used twice, from the   *)
(* mailbox to the pose.                                                    *)
THEOREM HubRotationsInOrder == Spec => []RotationsInOrder
<1>1. HubOrdered => RotationsInOrder
  BY DEF HubOrdered, Ordered, Poses, RotationsInOrder
<1>2. TypeInv /\ Numbered /\ [Next]_hub => Numbered'
  BY Simulation
<1> QED
  BY TypeInit, TypeNext, NumberedInit, <1>2, HubOrderedInit, HubOrderedNext, <1>1, PTL DEF Spec

----------------------------------------------------------------------------
(* The counters of the workers, from the lemmas on the worker's steps.     *)
HubCounted == \A c \in Car : Counted(c)

LEMMA HubCountedInit == Init => HubCounted
BY CountedInit DEF Init, HubCounted

LEMMA HubCountedNext == TypeInv /\ Numbered /\ HubCounted /\ [Next]_hub => HubCounted'
<1> SUFFICES ASSUME TypeInv, Numbered, HubCounted, [Next]_hub, NEW d \in Car
             PROVE  Counted(d)'
  BY DEF HubCounted
<1>1. WorkerTypeOK /\ Counted(d)
  BY DEF TypeInv, TypeOK, HubCounted
<1>2. ASSUME NEW c \in Car, Loop!SpawnWorker(c) PROVE Counted(d)'
  <2>1. Spawn(c) /\ ~HasWorker(c)
    BY <1>2 DEF Loop!SpawnWorker, Loop!Spawn, Loop!HasWorker, Spawn, HasWorker
  <2> QED
    BY <1>1, <2>1, SpawnCounted
<1>3. ASSUME NEW c \in Car, Loop!SubmitNext(c) PROVE Counted(d)'
  BY <1>1, <1>3, OtherCounted DEF Loop!SubmitNext, Loop!Submit
<1>4. ASSUME NEW c \in Car, Loop!Worker(c) PROVE Counted(d)'
  <2>1. WorkerStep(c) \/ Stop(c)
    BY <1>4, LoopWorker
  <2> QED
    BY <1>1, <2>1, WorkerStepCounted
<1>5. CASE Loop!ReadOutput
  BY <1>1, <1>5, OtherCounted DEF Loop!ReadOutput, Loop!RecvOutput
<1>6. CASE Loop!OtherEvent \/ UNCHANGED loopVars
  BY <1>1, <1>6, OtherCounted DEF Loop!OtherEvent, loopVars, Loop!workerVars, workerVars
<1> QED
  BY <1>2, <1>3, <1>4, <1>5, <1>6, Simulation DEF Loop!Next

(* In the whole hub, too, a worker matches at most MapEvery rotations      *)
(* between two maps, although its counter wraps.                           *)
THEOREM HubMapInTime == Spec => []Loop!MapNeverOverdue
<1>1. TypeInv /\ HubCounted => Loop!MapNeverOverdue
  BY CountedInTime DEF TypeInv, TypeOK, HubCounted, Loop!MapNeverOverdue, Loop!Period, Period
<1>2. TypeInv /\ Numbered /\ [Next]_hub => Numbered'
  BY Simulation
<1> QED
  BY TypeInit, TypeNext, NumberedInit, <1>2, HubCountedInit, HubCountedNext, <1>1, PTL DEF Spec

----------------------------------------------------------------------------
(* A trajectory t that ends at pose p: what TrajectoryOldestFirst says,    *)
(* and that nothing in it is newer than p.                                 *)
Trail(t, p) ==
  /\ Len(t) <= TrajectoryLen
  /\ \A i, j \in DOMAIN t : i < j => t[i] < t[j]
  /\ \A i \in DOMAIN t : t[i] <= p
  /\ p # 0 /\ TrajectoryLen > 0 => t # <<>> /\ t[Len(t)] = p

Trails == \A c \in Car : Trail(SnapshotOf(c).trajectory, SnapshotOf(c).pose)

LEMMA SubSeqElements ==
  ASSUME NEW S, NEW q \in Seq(S), NEW k \in 0..Len(q)
  PROVE  /\ Len(SubSeq(q, k + 1, Len(q))) = Len(q) - k
         /\ \A i \in DOMAIN SubSeq(q, k + 1, Len(q)) :
              i \in 1..(Len(q) - k) /\ SubSeq(q, k + 1, Len(q))[i] = q[k + i]
OBVIOUS

LEMMA ExcessBounds ==
  ASSUME NEW n \in Nat \ {0}, NEW m \in Nat, NEW x, x = IF n > m THEN n - m ELSE 0
  PROVE  x \in 0..n /\ n - x <= m /\ (m > 0 => n - x > 0)
OBVIOUS

LEMMA ExtendedTrail ==
  ASSUME NEW t \in Seq(Nat), NEW p \in Nat, NEW v \in Nat, Trail(t, p), p < v
  PROVE  Trail(Extended(t, v), v)
<1> DEFINE longer == Append(t, v)
           n == Len(t) + 1
           excess == IF n > TrajectoryLen THEN n - TrajectoryLen ELSE 0
           e == SubSeq(longer, excess + 1, Len(longer))
<1>1. /\ longer \in Seq(Nat) /\ Len(longer) = n /\ n \in Nat \ {0}
      /\ longer[n] = v
      /\ \A i \in 1..n : i < n => i \in DOMAIN t /\ longer[i] = t[i]
  OBVIOUS
<1>2. excess \in 0..n /\ n - excess <= TrajectoryLen /\ TrajectoryLen \in Nat
      /\ (TrajectoryLen > 0 => n - excess > 0)
  <2>1. TrajectoryLen \in Nat
    BY PipelineAssumption
  <2> HIDE DEF n
  <2> QED
    BY <1>1, <2>1, ExcessBounds
<1>3. Extended(t, v) = e
  BY <1>1 DEF Extended
<1>4. \A i, j \in 1..n : i < j => longer[i] < longer[j]
  BY <1>1 DEF Trail
<1>5. \A i \in 1..n : longer[i] <= v
  BY <1>1 DEF Trail
<1> HIDE DEF longer, excess, n
<1>6. /\ Len(e) = n - excess
      /\ \A i \in DOMAIN e : i \in 1..(n - excess) /\ e[i] = longer[excess + i]
  <2>1. excess \in 0..Len(longer) /\ longer \in Seq(Nat) /\ Len(longer) = n
    BY <1>1, <1>2
  <2>2. /\ Len(e) = Len(longer) - excess
        /\ \A i \in DOMAIN e : i \in 1..(Len(longer) - excess) /\ e[i] = longer[excess + i]
    BY <2>1, SubSeqElements
  <2> QED
    BY <2>1, <2>2
<1>s. e \in Seq(Nat)
  <2>1. excess \in Nat /\ longer \in Seq(Nat)
    BY <1>1, <1>2
  <2>2. \A k \in Nat : SubSeq(longer, k + 1, Len(longer)) \in Seq(Nat)
    BY <2>1
  <2> QED
    BY <2>1, <2>2
<1> HIDE DEF e
<1>b. \A i \in DOMAIN e : i \in Nat /\ excess + i \in 1..n /\ e[i] = longer[excess + i]
  BY <1>1, <1>2, <1>6, <1>s, SMTT(30)
<1>7. Len(e) <= TrajectoryLen
  BY <1>2, <1>6
<1>8. ASSUME NEW i \in DOMAIN e, NEW j \in DOMAIN e, i < j PROVE e[i] < e[j]
  <2>1. excess + i < excess + j
    BY <1>2, <1>8, <1>b
  <2> QED
    BY <1>4, <1>b, <2>1
<1>9. ASSUME NEW i \in DOMAIN e PROVE e[i] <= v
  BY <1>5, <1>b
<1>10. ASSUME TrajectoryLen > 0 PROVE e # <<>> /\ e[Len(e)] = v
  <2>1. Len(e) > 0 /\ Len(e) \in DOMAIN e /\ excess + Len(e) = n
    BY <1>1, <1>2, <1>6, <1>s, <1>10
  <2>2. e[Len(e)] = v
    BY <1>1, <1>6, <2>1
  <2> QED
    BY <1>s, <2>1, <2>2, PositiveLength
<1> QED
  BY <1>3, <1>7, <1>8, <1>9, <1>10 DEF Trail

LEMMA TrailsUpdated ==
  ASSUME HubTypeOK, Trails, NEW c \in Car, NEW r \in CarSnapshot, UpdateCar(c, r),
         Trail(r.trajectory, r.pose)
  PROVE  Trails'
BY UpdateTyped DEF Trails

LEMMA TrailsInit == Init => Trails
<1> SUFFICES ASSUME Init, NEW c \in Car
             PROVE  Trail(SnapshotOf(c).trajectory, SnapshotOf(c).pose)
  BY DEF Trails
<1>1. SnapshotOf(c).trajectory = <<>> /\ SnapshotOf(c).pose = 0
  BY DEF Init, HubInit, SnapshotOf, NewSnapshot
<1>2. Trail(<<>>, 0)
  BY PipelineAssumption DEF Trail
<1> QED
  BY <1>1, <1>2

(* The handlers that write a snapshot and leave its trajectory alone.      *)
LEMMA TrailsKept ==
  ASSUME TypeInv, Trails,
         \/ RecvEvent \/ ApplyStatus \/ ApplyTelemetry \/ ApplyScan \/ PublishMapInfo
         \/ \E c \in Car : ReportRate(c)
  PROVE  Trails'
<1> USE DEF TypeInv, TypeOK
<1>0. \A c \in Car : SnapshotOf(c) \in CarSnapshot
                     /\ Trail(SnapshotOf(c).trajectory, SnapshotOf(c).pose)
  BY SnapshotTyped DEF Trails
<1>1. CASE RecvEvent
  <2>1. cur' \in CarEvent
    BY <1>1 DEF RecvEvent, PipelineTypeOK
  <2> DEFINE r == [SnapshotOf(cur'.car) EXCEPT !.last_seen_ms = cur'.at]
  <2>2. cur'.car \in Car /\ cur'.at \in Nat
    BY <2>1 DEF CarEvent
  <2>3. /\ r \in CarSnapshot
        /\ r.trajectory = SnapshotOf(cur'.car).trajectory /\ r.pose = SnapshotOf(cur'.car).pose
    BY <1>0, <2>2 DEF CarSnapshot
  <2> QED
    BY <1>0, <1>1, <2>2, <2>3, TrailsUpdated DEF RecvEvent
<1>2. CASE ApplyStatus
  <2> DEFINE r == [SnapshotOf(cur.car) EXCEPT !.status = cur.val]
  <2>1. cur.car \in Car /\ cur.val \in Status
    BY <1>2, CurTyped DEF ApplyStatus
  <2>2. /\ r \in CarSnapshot
        /\ r.trajectory = SnapshotOf(cur.car).trajectory /\ r.pose = SnapshotOf(cur.car).pose
    BY <1>0, <2>1 DEF CarSnapshot
  <2> QED
    BY <1>0, <1>2, <2>1, <2>2, TrailsUpdated DEF ApplyStatus
<1>3. CASE ApplyTelemetry
  <2> DEFINE r == [SnapshotOf(cur.car) EXCEPT !.telemetry = cur.at]
  <2>1. cur.car \in Car /\ cur.at \in Nat
    BY <1>3, CurTyped DEF ApplyTelemetry
  <2>2. /\ r \in CarSnapshot
        /\ r.trajectory = SnapshotOf(cur.car).trajectory /\ r.pose = SnapshotOf(cur.car).pose
    BY <1>0, <2>1 DEF CarSnapshot
  <2> QED
    BY <1>0, <1>3, <2>1, <2>2, TrailsUpdated DEF ApplyTelemetry
<1>4. CASE ApplyScan
  <2> DEFINE r == [SnapshotOf(cur.car) EXCEPT !.scans_total = @ + 1]
  <2>1. cur.car \in Car
    BY <1>4, CurTyped DEF ApplyScan
  <2>3. SnapshotOf(cur.car).scans_total + 1 \in Nat
    BY <1>0, <2>1, SMTT(30) DEF CarSnapshot
  <2>2. /\ r \in CarSnapshot
        /\ r.trajectory = SnapshotOf(cur.car).trajectory /\ r.pose = SnapshotOf(cur.car).pose
    BY <1>0, <2>1, <2>3 DEF CarSnapshot
  <2> QED
    BY <1>0, <1>4, <2>1, <2>2, TrailsUpdated DEF ApplyScan
<1>5. CASE PublishMapInfo
  <2> DEFINE r == [SnapshotOf(cur.car) EXCEPT !.map = cur.val]
  <2>1. cur.car \in Car /\ cur.val \in Nat
    BY <1>5, CurTyped DEF PublishMapInfo, HandlerInv
  <2>2. /\ r \in CarSnapshot
        /\ r.trajectory = SnapshotOf(cur.car).trajectory /\ r.pose = SnapshotOf(cur.car).pose
    BY <1>0, <2>1 DEF CarSnapshot
  <2> QED
    BY <1>0, <1>5, <2>1, <2>2, TrailsUpdated DEF PublishMapInfo
<1>6. ASSUME NEW c \in Car, ReportRate(c) PROVE Trails'
  <2> DEFINE r == [SnapshotOf(c) EXCEPT !.scan_hz = rates[c]]
  <2>1. rates[c] \in Nat
    BY <1>6 DEF ReportRate, PipelineTypeOK
  <2>2. /\ r \in CarSnapshot
        /\ r.trajectory = SnapshotOf(c).trajectory /\ r.pose = SnapshotOf(c).pose
    BY <1>0, <2>1 DEF CarSnapshot
  <2> QED
    BY <1>0, <1>6, <2>2, TrailsUpdated DEF ReportRate
<1> QED
  BY <1>1, <1>2, <1>3, <1>4, <1>5, <1>6

LEMMA TrailsTracked ==
  ASSUME TypeInv, HubOrdered, Trails, RecvTracked
  PROVE  Trails'
<1> USE DEF TypeInv, TypeOK
<1> DEFINE o == Head(slam_rx)
           s == SnapshotOf(o.car)
           r == [s EXCEPT !.pose = o.val, !.trajectory = Extended(@, o.val), !.scan = o.val]
<1>1. o \in SlamOutput /\ o.car \in Car /\ o.val \in Nat
      /\ slam_rx # <<>> /\ slam_rx \in Seq(SlamOutput) /\ o.kind = "tracked"
  BY RecvOutputTyped DEF RecvTracked, RecvOutput, SlamOutput, WorkerTypeOK
<1>2. s \in CarSnapshot /\ Trail(s.trajectory, s.pose)
  BY <1>1, SnapshotTyped DEF Trails
<1>3. s.pose < o.val
  <2>1. 1 \in DOMAIN slam_rx /\ slam_rx[1] = o
    BY <1>1
  <2>2. IsTracked(slam_rx[1], o.car)
    BY <1>1, <2>1 DEF IsTracked
  <2>3. AheadOf(o.car, s.pose)
    BY <1>1 DEF HubOrdered, Ordered, Poses
  <2> QED
    BY <2>1, <2>2, <2>3 DEF AheadOf
<1>4. s.trajectory \in Seq(Nat) /\ s.pose \in Nat
  BY <1>2 DEF CarSnapshot
<1>5. Trail(Extended(s.trajectory, o.val), o.val) /\ Extended(s.trajectory, o.val) \in Seq(Nat)
  BY <1>1, <1>2, <1>3, <1>4, ExtendedTrail, ExtendedTyped
<1>6. r \in CarSnapshot /\ r.pose = o.val /\ r.trajectory = Extended(s.trajectory, o.val)
  BY <1>1, <1>2, <1>5 DEF CarSnapshot
<1>7. UpdateCar(o.car, r)
  BY DEF RecvTracked
<1> HIDE DEF r
<1> QED
  BY <1>1, <1>5, <1>6, <1>7, TrailsUpdated

LEMMA TrailsNext == TypeInv /\ HubOrdered /\ Trails /\ [Next]_hub => Trails'
<1> SUFFICES ASSUME TypeInv, HubOrdered, Trails, [Next]_hub PROVE Trails'
  OBVIOUS
<1>1. ASSUME UNCHANGED cars PROVE Trails'
  BY <1>1 DEF Trails, SnapshotOf, NewSnapshot
<1>2. CASE Sessions \/ UNCHANGED hub
  BY <1>1, <1>2 DEF Sessions, Subscribe, TakeSnapshots, SendHello, Forward, Disconnect,
     hub, vars, hubVars
<1>3. CASE Sources
  BY <1>1, <1>3, SourcesArrive DEF TypeInv, TypeOK, Arrive, hubVars
<1>4. CASE RecvMap \/ Tick \/ EmitNext \/ SpawnWorker \/ SpawnFails \/ SubmitScan \/ Workers
  BY <1>1, <1>4 DEF RecvMap, Tick, EmitNext, SpawnWorker, SpawnFails, SubmitScan, Workers,
     hubVars
<1>5. CASE RecvTracked
  BY <1>5, TrailsTracked
<1>6. CASE \/ RecvEvent \/ ApplyStatus \/ ApplyTelemetry \/ ApplyScan \/ PublishMapInfo
           \/ \E c \in Car : ReportRate(c)
  BY <1>6, TrailsKept
<1> QED
  BY <1>2, <1>3, <1>4, <1>5, <1>6 DEF Next, Handle

(* The trajectory is the recent poses, oldest first.                       *)
THEOREM HubTrajectoryOldestFirst == Spec => []TrajectoryOldestFirst
<1>1. Trails => TrajectoryOldestFirst
  BY DEF Trails, Trail, TrajectoryOldestFirst
<1>2. TypeInv /\ Numbered /\ [Next]_hub => Numbered'
  BY Simulation
<1> QED
  BY TypeInit, TypeNext, NumberedInit, <1>2, HubOrderedInit, HubOrderedNext,
     TrailsInit, TrailsNext, <1>1, PTL DEF Spec
=============================================================================
