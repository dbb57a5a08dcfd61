-------------------------- MODULE HubClientProofs --------------------------
(***************************************************************************)
(* For any cars, sessions, capacities and settings, what clients are given *)
(* is right: a session that does not lag loses no event, whenever it       *)
(* subscribed; a map version that anyone can know of is stored, because    *)
(* versions reach the pipeline in the order they are rendered and it       *)
(* stores a map before it tells; and a client knows of the stored map.     *)
(* Every session, also one that lags, is sent each number once and in      *)
(* order.                                                                  *)
(***************************************************************************)
EXTENDS HubProofs, SequenceTheorems

----------------------------------------------------------------------------
(* Maps are stored. *)

(* Versions on their way are rendered ones, in order, and newer than the   *)
(* one stored.                                                             *)
IsMap(o, c) == o.kind = "map" /\ o.car = c

InFlight ==
  \A c \in Car :
    /\ maps[c] <= map_version[c]
    /\ \A i \in DOMAIN slam_rx : IsMap(slam_rx[i], c) =>
         /\ maps[c] < slam_rx[i].val
         /\ slam_rx[i].val <= map_version[c]
         /\ \A j \in DOMAIN slam_rx :
              i < j /\ IsMap(slam_rx[j], c) => slam_rx[i].val < slam_rx[j].val

(* Versions in snapshots, in clients' hands, in events and in the hands of *)
(* the handler are stored.                                                 *)
AllStored(q) == \A i \in DOMAIN q : q[i].field = "map" => q[i].val <= maps[q[i].car]

Known ==
  /\ \A c \in Car : SnapshotOf(c).map <= maps[c]
  /\ \A s \in Client, c \in Car : view[s][c].map <= maps[c]
  /\ \A s \in Client : AllStored(unread[s])
  /\ AllStored(out)
  /\ pc = "mapinfo" => cur.val <= maps[cur.car]

MapInv == InFlight /\ Known

----------------------------------------------------------------------------
(* The workers' side: versions in flight. *)

LEMMA ConcatElements ==
  ASSUME NEW S, NEW a \in Seq(S), NEW b \in Seq(S), NEW i \in DOMAIN (a \o b)
  PROVE  \/ i \in DOMAIN a /\ (a \o b)[i] = a[i]
         \/ \E j \in DOMAIN b : (a \o b)[i] = b[j]
<1>1. CASE i <= Len(a)
  BY <1>1
<1>2. CASE i > Len(a)
  <2>1. i - Len(a) \in DOMAIN b /\ (a \o b)[i] = b[i - Len(a)]
    BY <1>2
  <2> QED
    BY <2>1
<1> QED
  BY <1>1, <1>2

LEMMA MapInvInit == Init => MapInv
<1> SUFFICES ASSUME Init PROVE MapInv
  OBVIOUS
<1>1. /\ \A c \in Car : maps[c] = 0 /\ map_version[c] = 0 /\ SnapshotOf(c).map = 0
      /\ \A s \in Client, c \in Car : view[s][c].map = 0
      /\ \A s \in Client : unread[s] = <<>>
      /\ slam_rx = <<>> /\ out = <<>> /\ pc = "select"
  BY DEF Init, HubInit, WorkerInit, PipelineInit, SnapshotOf, NewSnapshot,
     KnownFields, LiveField
<1> QED
  BY <1>1 DEF MapInv, InFlight, Known, AllStored

(* Nothing in flight changes, or the receiver takes the first result and   *)
(* stores no older map than that.                                          *)
LEMMA InFlightKept ==
  ASSUME InFlight, UNCHANGED <<maps, map_version, slam_rx>>
  PROVE  InFlight'
BY DEF InFlight, IsMap

LEMMA InFlightReceived ==
  ASSUME TypeInv, InFlight, RecvOutput,
         \/ UNCHANGED maps
         \/ RecvMap
  PROVE  InFlight'
<1> SUFFICES ASSUME NEW c \in Car
             PROVE  /\ maps'[c] <= map_version'[c]
                    /\ \A i \in DOMAIN slam_rx' : IsMap(slam_rx'[i], c) =>
                         /\ maps'[c] < slam_rx'[i].val
                         /\ slam_rx'[i].val <= map_version'[c]
                         /\ \A j \in DOMAIN slam_rx' :
                              i < j /\ IsMap(slam_rx'[j], c) =>
                                slam_rx'[i].val < slam_rx'[j].val
  BY DEF InFlight, IsMap
<1> DEFINE o == Head(slam_rx)
<1>1. /\ slam_rx \in Seq(SlamOutput) /\ slam_rx # <<>>
      /\ slam_rx' = Tail(slam_rx) /\ map_version' = map_version
  BY DEF RecvOutput, TypeInv, TypeOK, WorkerTypeOK
<1>2. \A i \in DOMAIN slam_rx' :
        i \in Nat /\ i + 1 \in DOMAIN slam_rx /\ slam_rx'[i] = slam_rx[i + 1]
  BY <1>1, TailElements
<1>3. 1 \in DOMAIN slam_rx /\ o = slam_rx[1]
  BY <1>1
<1>4. \A i \in DOMAIN slam_rx : IsMap(slam_rx[i], c) =>
        /\ maps[c] < slam_rx[i].val
        /\ slam_rx[i].val <= map_version[c]
        /\ \A j \in DOMAIN slam_rx :
             i < j /\ IsMap(slam_rx[j], c) => slam_rx[i].val < slam_rx[j].val
  BY DEF InFlight
<1>5. CASE maps'[c] = maps[c]
  <2>1. maps[c] <= map_version[c]
    BY DEF InFlight
  <2> QED
    BY <1>1, <1>2, <1>4, <1>5, <2>1
<1>6. CASE maps'[c] # maps[c]
  <2>1. IsMap(o, c) /\ maps'[c] = o.val
    BY <1>6 DEF RecvMap, InsertMap, IsMap, TypeInv, TypeOK, HubTypeOK
  <2> QED
    BY <1>1, <1>2, <1>3, <1>4, <2>1
<1> QED
  BY <1>5, <1>6

LEMMA InFlightReported ==
  ASSUME TypeInv, InFlight, NEW c \in Car, WorkerStep(c) \/ Stop(c), UNCHANGED maps
  PROVE  InFlight'
<1>1. CASE Render(c)
  <2> DEFINE o == [kind |-> "map", car |-> c, val |-> map_version[c] + 1]
  <2>1. /\ slam_rx \in Seq(SlamOutput) /\ o \in SlamOutput
        /\ slam_rx' = Append(slam_rx, o)
        /\ map_version' = [map_version EXCEPT ![c] = @ + 1]
        /\ map_version \in [Car -> Nat] /\ maps \in [Car -> Nat]
    BY <1>1 DEF Render, Report, TypeInv, TypeOK, WorkerTypeOK, HubTypeOK, SlamOutput
  <2>2. \A i \in DOMAIN slam_rx : slam_rx[i].val \in Nat
    BY OutputsTyped DEF TypeInv, TypeOK
  <2> SUFFICES ASSUME NEW d \in Car
               PROVE  /\ maps[d] <= map_version'[d]
                      /\ \A i \in DOMAIN slam_rx' : IsMap(slam_rx'[i], d) =>
                           /\ maps[d] < slam_rx'[i].val
                           /\ slam_rx'[i].val <= map_version'[d]
                           /\ \A j \in DOMAIN slam_rx' :
                                i < j /\ IsMap(slam_rx'[j], d) =>
                                  slam_rx'[i].val < slam_rx'[j].val
    BY DEF InFlight, IsMap
  <2>3. /\ maps[d] <= map_version[d]
        /\ \A i \in DOMAIN slam_rx : IsMap(slam_rx[i], d) =>
             /\ maps[d] < slam_rx[i].val
             /\ slam_rx[i].val <= map_version[d]
             /\ \A j \in DOMAIN slam_rx :
                  i < j /\ IsMap(slam_rx[j], d) => slam_rx[i].val < slam_rx[j].val
    BY DEF InFlight
  <2>4. CASE d = c
    <3>1. map_version'[d] = map_version[d] + 1 /\ o.val = map_version[d] + 1
      BY <2>1, <2>4
    <3> QED
      BY <2>1, <2>2, <2>3, <3>1, AppendElements
  <2>5. CASE d # c
    <3>1. map_version'[d] = map_version[d] /\ ~IsMap(o, d)
      BY <2>1, <2>5 DEF IsMap
    <3> QED
      BY <2>1, <2>2, <2>3, <3>1, AppendElements
  <2> QED
    BY <2>4, <2>5
<1>2. CASE Track(c)
  <2> DEFINE o == [kind |-> "tracked", car |-> c, val |-> frame[c]]
  <2>1. /\ slam_rx \in Seq(SlamOutput) /\ o \in SlamOutput
        /\ slam_rx' = Append(slam_rx, o) /\ map_version' = map_version
        /\ \A d \in Car : ~IsMap(o, d)
    BY <1>2 DEF Track, Report, TypeInv, TypeOK, WorkerTypeOK, SlamOutput, IsMap
  <2> QED
    BY <2>1, AppendElements DEF InFlight
<1>3. CASE Start(c) \/ Take(c) \/ Skip(c) \/ Stop(c)
  BY <1>3, InFlightKept DEF Start, Take, Skip, Stop
<1> QED
  BY <1>1, <1>2, <1>3 DEF WorkerStep

----------------------------------------------------------------------------
(* What anyone knows. *)

LEMMA StoredKept ==
  ASSUME NEW q \in Seq(WsEvent), AllStored(q), maps \in [Car -> Nat],
         maps' \in [Car -> Nat], \A c \in Car : maps[c] <= maps'[c]
  PROVE  \A i \in DOMAIN q : q[i].field = "map" => q[i].val <= maps'[q[i].car]
<1> SUFFICES ASSUME NEW i \in DOMAIN q, q[i].field = "map"
             PROVE  q[i].val <= maps'[q[i].car]
  OBVIOUS
<1>1. q[i] \in WsEvent
  OBVIOUS
<1>2. q[i].car \in Car /\ q[i].val \in Nat
  BY <1>1 DEF WsEvent
<1>3. q[i].val <= maps[q[i].car]
  BY DEF AllStored
<1> QED
  BY <1>2, <1>3

(* A handler that writes a snapshot and leaves its map alone, and has      *)
(* nothing to tell about maps, adds nothing that could be missing.         *)
LEMMA KnownWhenMapUntouched ==
  ASSUME TypeInv, Known, NEW c \in Car, NEW r \in CarSnapshot, UpdateCar(c, r),
         r.map = SnapshotOf(c).map,
         UNCHANGED <<maps, unread, view>>, pc' # "mapinfo",
         \/ UNCHANGED out
         \/ \A i \in DOMAIN out' : out'[i].field # "map"
  PROVE  Known'
<1>1. \A d \in Car : SnapshotOf(d)'.map = SnapshotOf(d).map
  BY UpdateTyped DEF TypeInv, TypeOK
<1> QED
  BY <1>1 DEF Known, AllStored

LEMMA RecvEventKnown ==
  ASSUME TypeInv, Known, RecvEvent, UNCHANGED view
  PROVE  Known'
<1> DEFINE r == [SnapshotOf(cur'.car) EXCEPT !.last_seen_ms = cur'.at]
<1>1. cur' \in CarEvent
  BY DEF RecvEvent, TypeInv, TypeOK, PipelineTypeOK
<1>2. cur'.car \in Car /\ cur'.at \in Nat
  BY <1>1 DEF CarEvent
<1>3. r \in CarSnapshot /\ r.map = SnapshotOf(cur'.car).map
  BY <1>2, SnapshotTyped DEF CarSnapshot, TypeInv, TypeOK
<1> QED
  BY <1>2, <1>3, KnownWhenMapUntouched DEF RecvEvent

LEMMA ApplyKnown ==
  ASSUME TypeInv, Known, ApplyStatus \/ ApplyTelemetry \/ ApplyScan, UNCHANGED view
  PROVE  Known'
<1> USE DEF TypeInv, TypeOK
<1>1. CASE ApplyStatus
  <2> DEFINE r == [SnapshotOf(cur.car) EXCEPT !.status = cur.val]
  <2>1. cur.car \in Car /\ cur.val \in Status
    BY <1>1, CurTyped DEF ApplyStatus
  <2>2. r \in CarSnapshot /\ r.map = SnapshotOf(cur.car).map
    BY <2>1, SnapshotTyped DEF CarSnapshot
  <2>3. \/ UNCHANGED out
        \/ \A i \in DOMAIN out' : out'[i].field # "map"
    BY <1>1 DEF ApplyStatus, ThenEmit, ThenSelect, Event
  <2>4. pc' # "mapinfo" /\ UNCHANGED <<maps, unread, view>> /\ UpdateCar(cur.car, r)
    BY <1>1 DEF ApplyStatus, ThenEmit, ThenSelect
  <2> QED
    BY <2>1, <2>2, <2>3, <2>4, KnownWhenMapUntouched
<1>2. CASE ApplyTelemetry
  <2> DEFINE r == [SnapshotOf(cur.car) EXCEPT !.telemetry = cur.at]
  <2>1. cur.car \in Car /\ cur.at \in Nat
    BY <1>2, CurTyped DEF ApplyTelemetry
  <2>2. r \in CarSnapshot /\ r.map = SnapshotOf(cur.car).map
    BY <2>1, SnapshotTyped DEF CarSnapshot
  <2>3. \A i \in DOMAIN out' : out'[i].field # "map"
    BY <1>2 DEF ApplyTelemetry, ThenEmit, Event
  <2>4. pc' # "mapinfo" /\ UNCHANGED <<maps, unread, view>> /\ UpdateCar(cur.car, r)
    BY <1>2 DEF ApplyTelemetry, ThenEmit
  <2> QED
    BY <2>1, <2>2, <2>3, <2>4, KnownWhenMapUntouched
<1>3. CASE ApplyScan
  <2> DEFINE r == [SnapshotOf(cur.car) EXCEPT !.scans_total = @ + 1]
  <2>1. cur.car \in Car
    BY <1>3, CurTyped DEF ApplyScan
  <2>2. SnapshotOf(cur.car) \in CarSnapshot
    BY <2>1, SnapshotTyped
  <2>3. SnapshotOf(cur.car).scans_total + 1 \in Nat
    BY <2>2 DEF CarSnapshot
  <2>4. r \in CarSnapshot /\ r.map = SnapshotOf(cur.car).map
    BY <2>2, <2>3 DEF CarSnapshot
  <2>5. pc' # "mapinfo" /\ UNCHANGED <<maps, unread, view, out>> /\ UpdateCar(cur.car, r)
    BY <1>3 DEF ApplyScan
  <2> QED
    BY <2>1, <2>4, <2>5, KnownWhenMapUntouched
<1> QED
  BY <1>1, <1>2, <1>3

LEMMA RecvTrackedKnown ==
  ASSUME TypeInv, Known, RecvTracked, UNCHANGED view
  PROVE  Known'
<1> DEFINE o == Head(slam_rx)
           r == [SnapshotOf(o.car) EXCEPT
                   !.pose = o.val,
                   !.trajectory = Extended(@, o.val),
                   !.scan = o.val]
<1> USE DEF TypeInv, TypeOK
<1>1. o.car \in Car /\ o.val \in Nat
  BY RecvOutputTyped DEF RecvTracked, SlamOutput
<1>2. SnapshotOf(o.car) \in CarSnapshot
  BY <1>1, SnapshotTyped
<1>3. Extended(SnapshotOf(o.car).trajectory, o.val) \in Seq(Nat)
  BY <1>1, <1>2, ExtendedTyped DEF CarSnapshot
<1>4. r \in CarSnapshot /\ r.map = SnapshotOf(o.car).map
  BY <1>1, <1>2, <1>3 DEF CarSnapshot
<1>5. \A i \in DOMAIN out' : out'[i].field # "map"
  BY DEF RecvTracked, ThenEmit, Event
<1>6. pc' # "mapinfo" /\ UNCHANGED <<maps, unread, view>> /\ UpdateCar(o.car, r)
  BY DEF RecvTracked, ThenEmit
<1> QED
  BY <1>1, <1>4, <1>5, <1>6, KnownWhenMapUntouched

LEMMA ReportRateKnown ==
  ASSUME TypeInv, Known, NEW c \in Car, ReportRate(c), UNCHANGED view
  PROVE  Known'
<1> DEFINE r == [SnapshotOf(c) EXCEPT !.scan_hz = rates[c]]
<1> USE DEF TypeInv, TypeOK
<1>1. rates[c] \in Nat
  BY DEF ReportRate, PipelineTypeOK
<1>2. r \in CarSnapshot /\ r.map = SnapshotOf(c).map
  BY <1>1, SnapshotTyped DEF CarSnapshot
<1>3. \A i \in DOMAIN out' : out'[i].field # "map"
  BY DEF ReportRate, ThenEmit, Event
<1>4. pc' # "mapinfo" /\ UNCHANGED <<maps, unread, view>> /\ UpdateCar(c, r)
  BY DEF ReportRate, ThenEmit
<1> QED
  BY <1>2, <1>3, <1>4, KnownWhenMapUntouched

(* The step that stores a map: versions in flight are no older than the    *)
(* stored one, so what was stored for anyone still is.                     *)
LEMMA RecvMapKnown ==
  ASSUME TypeInv, InFlight, Known, RecvMap, UNCHANGED view
  PROVE  Known'
<1> DEFINE o == Head(slam_rx)
<1> USE DEF TypeInv, TypeOK
<1>1. /\ maps \in [Car -> Nat] /\ o \in SlamOutput /\ o = slam_rx[1]
      /\ 1 \in DOMAIN slam_rx
  BY RecvOutputTyped DEF RecvMap, RecvOutput, HubTypeOK, WorkerTypeOK
<1>2. o.car \in Car /\ o.val \in Nat
  BY <1>1 DEF SlamOutput
<1>3. maps' = [maps EXCEPT ![o.car] = o.val]
  BY DEF RecvMap, InsertMap
<1>4. maps[o.car] < o.val
  BY <1>1, <1>2 DEF InFlight, IsMap, RecvMap
<1>5. maps' \in [Car -> Nat] /\ \A c \in Car : maps[c] <= maps'[c]
  BY <1>1, <1>2, <1>3, <1>4
<1>6. /\ UNCHANGED <<cars, view, unread, out>>
      /\ cur' = o
  BY DEF RecvMap
<1>7. \A c \in Car : SnapshotOf(c)'.map <= maps'[c]
  <2>1. \A c \in Car : SnapshotOf(c)' = SnapshotOf(c) /\ SnapshotOf(c).map \in Nat
    BY <1>6, SnapshotTyped DEF SnapshotOf, CarSnapshot
  <2> QED
    BY <1>1, <1>5, <2>1 DEF Known
<1>8. \A s \in Client, c \in Car : view'[s][c].map <= maps'[c]
  <2>1. \A s \in Client, c \in Car : view[s][c].map \in Nat
    BY DEF LiveView
  <2> QED
    BY <1>1, <1>5, <1>6, <2>1 DEF Known
<1>9. ASSUME NEW s \in Client PROVE AllStored(unread[s])'
  <2>1. unread[s] \in Seq(WsEvent) /\ AllStored(unread[s])
    BY DEF HubTypeOK, Known
  <2> QED
    BY <1>1, <1>5, <1>6, <2>1, StoredKept DEF AllStored
<1>10. AllStored(out)'
  <2>1. out \in Seq(WsEvent) /\ AllStored(out)
    BY DEF PipelineTypeOK, Known
  <2> QED
    BY <1>1, <1>5, <1>6, <2>1, StoredKept DEF AllStored
<1>11. cur'.val <= maps'[cur'.car]
  BY <1>1, <1>2, <1>3, <1>6
<1> QED
  BY <1>7, <1>8, <1>9, <1>10, <1>11 DEF Known

LEMMA PublishMapInfoKnown ==
  ASSUME TypeInv, Known, PublishMapInfo, UNCHANGED view
  PROVE  Known'
<1> DEFINE r == [SnapshotOf(cur.car) EXCEPT !.map = cur.val]
<1> USE DEF TypeInv, TypeOK
<1>1. cur.car \in Car /\ cur.val \in Nat /\ cur.val <= maps[cur.car]
  BY CurTyped DEF PublishMapInfo, HandlerInv, Known
<1>2. r \in CarSnapshot /\ r.map = cur.val
  BY <1>1, SnapshotTyped DEF CarSnapshot
<1>3. UpdateCar(cur.car, r) /\ UNCHANGED <<maps, unread, view>> /\ pc' # "mapinfo"
  BY DEF PublishMapInfo, ThenEmit
<1>4. \A d \in Car : SnapshotOf(d)' = IF d = cur.car THEN r ELSE SnapshotOf(d)
  BY <1>1, <1>2, <1>3, UpdateTyped
<1>5. \A d \in Car : SnapshotOf(d)'.map <= maps'[d]
  BY <1>1, <1>2, <1>3, <1>4 DEF Known
<1>6. AllStored(out)'
  BY <1>1, <1>3 DEF PublishMapInfo, ThenEmit, Event, AllStored
<1> QED
  BY <1>3, <1>5, <1>6 DEF Known, AllStored

LEMMA EmitNextKnown ==
  ASSUME TypeInv, Known, EmitNext, UNCHANGED view
  PROVE  Known'
<1> DEFINE e == Head(out)
<1> USE DEF TypeInv, TypeOK
<1>1. out \in Seq(WsEvent) /\ out # <<>> /\ out' = Tail(out) /\ Emit(e)
      /\ UNCHANGED <<cars, maps, view, cur>> /\ pc' # "mapinfo"
  BY DEF EmitNext, PipelineTypeOK, HandlerInv
<1>2. e = out[1] /\ 1 \in DOMAIN out /\ e \in WsEvent
  BY <1>1
<1>3. e.field = "map" => e.val <= maps[e.car]
  BY <1>2 DEF Known, AllStored
<1>4. AllStored(out)'
  <2>1. \A i \in DOMAIN out' : i + 1 \in DOMAIN out /\ out'[i] = out[i + 1]
    BY <1>1, TailElements
  <2> QED
    BY <1>1, <2>1 DEF Known, AllStored
<1>5. ASSUME NEW s \in Client PROVE AllStored(unread[s])'
  <2> DEFINE q == unread[s]
  <2>1. q \in Seq(WsEvent) /\ AllStored(q) /\ Len(q) <= RingCap /\ Len(q) \in Nat
    BY DEF HubTypeOK, Known
  <2>2. CASE unread'[s] = q
    BY <1>1, <2>1, <2>2 DEF AllStored
  <2>3. CASE unread'[s] = Append(q, e)
    BY <1>1, <1>2, <1>3, <2>1, <2>3, AppendElements DEF AllStored
  <2>4. CASE unread'[s] = Append(Tail(q), e) /\ q # <<>>
    <3>1. Tail(q) \in Seq(WsEvent)
      BY <2>1, <2>4
    <3>2. \A i \in DOMAIN Tail(q) : i + 1 \in DOMAIN q /\ Tail(q)[i] = q[i + 1]
      BY <2>1, <2>4, TailElements
    <3> QED
      BY <1>1, <1>2, <1>3, <2>1, <2>4, <3>1, <3>2, AppendElements DEF AllStored
  <2>5. Len(q) >= RingCap => q # <<>>
    BY <2>1, HubAssumption
  <2>6. unread'[s] = q \/ unread'[s] = Append(q, e)
        \/ (unread'[s] = Append(Tail(q), e) /\ Len(q) >= RingCap)
    BY <1>1, <2>1, HubAssumption DEF Emit
  <2> QED
    BY <2>2, <2>3, <2>4, <2>5, <2>6
<1>6. \A c \in Car : SnapshotOf(c)' = SnapshotOf(c)
  BY <1>1 DEF SnapshotOf
<1> QED
  BY <1>1, <1>4, <1>5, <1>6 DEF Known

LEMMA SessionsKnown == TypeInv /\ Known /\ Sessions => Known'
<1> SUFFICES ASSUME TypeInv, Known, NEW s \in Client,
                    \/ Subscribe(s) \/ TakeSnapshots(s) \/ SendHello(s)
                    \/ Forward(s) \/ Disconnect(s)
             PROVE  Known'
  BY DEF Sessions
<1> USE DEF TypeInv, TypeOK
<1>1. UNCHANGED <<cars, maps, out, pc, cur>>
  BY DEF Subscribe, TakeSnapshots, SendHello, Forward, Disconnect, pipeVars
<1>2. /\ \A c \in Car : SnapshotOf(c)'.map <= maps'[c]
      /\ AllStored(out)'
      /\ pc' = "mapinfo" => cur'.val <= maps'[cur'.car]
  BY <1>1 DEF Known, AllStored, SnapshotOf
<1>3. SUFFICES /\ \A t \in Client, c \in Car : view'[t][c].map <= maps[c]
               /\ \A t \in Client : AllStored(unread'[t])
  BY <1>1, <1>2 DEF Known, AllStored
<1>4. CASE Subscribe(s) \/ SendHello(s)
  BY <1>4 DEF Subscribe, SendHello, Known
<1>5. CASE TakeSnapshots(s)
  <2>1. UNCHANGED unread
    BY <1>5 DEF TakeSnapshots
  <2>2. \A c \in Car : KnownFields(SnapshotOf(c)).map = SnapshotOf(c).map
    BY DEF KnownFields, LiveField
  <2>3. \A t \in Client, c \in Car :
          view'[t][c] = IF t = s THEN KnownFields(SnapshotOf(c)) ELSE view[t][c]
    BY <1>5 DEF TakeSnapshots
  <2> QED
    BY <2>1, <2>2, <2>3 DEF Known
<1>6. CASE Forward(s)
  <2> DEFINE q == unread[s]
             e == Head(q)
  <2>1. q \in Seq(WsEvent) /\ q # <<>> /\ AllStored(q)
    BY <1>6 DEF Forward, HubTypeOK, Known
  <2>2. e \in WsEvent /\ e = q[1] /\ 1 \in DOMAIN q
    BY <2>1
  <2>3. e.car \in Car /\ (e.field = "map" => e.val <= maps[e.car])
    BY <2>1, <2>2 DEF AllStored, WsEvent
  <2>4. AllStored(Tail(q))
    BY <2>1, TailElements DEF AllStored
  <2>5. \A t \in Client : unread'[t] = IF t = s THEN Tail(q) ELSE unread[t]
    BY <1>6 DEF Forward, HubTypeOK
  <2>6. \A t \in Client, c \in Car :
          view'[t][c] = IF t = s /\ c = e.car THEN [view[t][c] EXCEPT ![e.field] = e.val]
                        ELSE view[t][c]
    BY <1>6, <2>3 DEF Forward
  <2>7. [view[s][e.car] EXCEPT ![e.field] = e.val].map <= maps[e.car]
    <3>1. view[s][e.car] \in LiveView /\ view[s][e.car].map <= maps[e.car]
      BY <2>3 DEF Known
    <3>2. CASE e.field = "map"
      BY <3>1, <3>2, <2>3 DEF LiveView
    <3>3. CASE e.field # "map"
      BY <3>1, <3>3 DEF LiveView
    <3> QED
      BY <3>2, <3>3
  <2>8. \A t \in Client : AllStored(unread'[t])
    BY <2>4, <2>5 DEF Known
  <2>9. ASSUME NEW t \in Client, NEW c \in Car PROVE view'[t][c].map <= maps[c]
    <3>1. view[t][c].map <= maps[c]
      BY DEF Known
    <3>2. CASE t = s /\ c = e.car
      BY <2>6, <2>7, <3>2
    <3>3. CASE ~(t = s /\ c = e.car)
      BY <2>6, <3>1, <3>3
    <3> QED
      BY <3>2, <3>3
  <2> QED
    BY <2>8, <2>9
<1>7. CASE Disconnect(s)
  <2>1. \A t \in Client : unread'[t] = IF t = s THEN <<>> ELSE unread[t]
    BY <1>7 DEF Disconnect, HubTypeOK
  <2>2. \A t \in Client, c \in Car :
          view'[t][c] = IF t = s THEN KnownFields(NewSnapshot) ELSE view[t][c]
    BY <1>7 DEF Disconnect
  <2>3. KnownFields(NewSnapshot).map = 0
    BY DEF KnownFields, LiveField, NewSnapshot
  <2>4. \A c \in Car : maps[c] \in Nat
    BY DEF HubTypeOK
  <2>5. AllStored(<<>>)
    BY DEF AllStored
  <2> QED
    BY <2>1, <2>2, <2>3, <2>4, <2>5 DEF Known
<1> QED
  BY <1>4, <1>5, <1>6, <1>7

(* The steps that tell nobody anything about maps. *)
LEMMA KnownKept ==
  ASSUME Known, UNCHANGED <<cars, maps, unread, view, out>>,
         pc' # "mapinfo" \/ UNCHANGED <<pc, cur>>
  PROVE  Known'
BY DEF Known, AllStored, SnapshotOf

----------------------------------------------------------------------------
LEMMA MapInvNext == TypeInv /\ MapInv /\ [Next]_hub => MapInv'
<1> SUFFICES ASSUME TypeInv, InFlight, Known, [Next]_hub
             PROVE  InFlight' /\ Known'
  BY DEF MapInv
<1>1. CASE Sources /\ UNCHANGED view
  BY <1>1, InFlightKept, KnownKept DEF Sources, ArriveStatus, ArriveTelemetry,
     ArriveScan, Arrive, hubVars, workerVars
<1>2. CASE (RecvEvent \/ ApplyStatus \/ ApplyTelemetry \/ ApplyScan) /\ UNCHANGED view
  <2>1. UNCHANGED <<maps, map_version, slam_rx>>
    BY <1>2 DEF RecvEvent, ApplyStatus, ApplyTelemetry, ApplyScan, workerVars
  <2> QED
    BY <1>2, <2>1, InFlightKept, RecvEventKnown, ApplyKnown
<1>3. CASE RecvTracked /\ UNCHANGED view
  BY <1>3, InFlightReceived, RecvTrackedKnown DEF RecvTracked
<1>4. CASE RecvMap /\ UNCHANGED view
  BY <1>4, InFlightReceived, RecvMapKnown DEF RecvMap
<1>5. CASE (PublishMapInfo \/ EmitNext \/ \E c \in Car : ReportRate(c)) /\ UNCHANGED view
  <2>1. UNCHANGED <<maps, map_version, slam_rx>>
    BY <1>5 DEF PublishMapInfo, EmitNext, ReportRate, workerVars
  <2> QED
    BY <1>5, <2>1, InFlightKept, PublishMapInfoKnown, EmitNextKnown, ReportRateKnown
<1>6. CASE (Tick \/ SpawnWorker \/ SpawnFails \/ SubmitScan) /\ UNCHANGED view
  BY <1>6, InFlightKept, KnownKept DEF Tick, SpawnWorker, SpawnFails, SubmitScan,
     ThenSelect, Spawn, Submit, hubVars, workerVars, pipeVars
<1>7. CASE Workers /\ UNCHANGED view
  <2>1. PICK c \in Car : (WorkerStep(c) \/ Stop(c)) /\ UNCHANGED <<hubVars, pipeVars>>
    BY <1>7 DEF Workers
  <2> QED
    BY <1>7, <2>1, InFlightReported, KnownKept DEF hubVars, pipeVars
<1>8. CASE Sessions
  <2>1. UNCHANGED <<maps, map_version, slam_rx>>
    BY <1>8 DEF Sessions, Subscribe, TakeSnapshots, SendHello, Forward, Disconnect,
       workerVars
  <2> QED
    BY <1>8, <2>1, InFlightKept, SessionsKnown
<1>9. CASE UNCHANGED hub
  BY <1>9, InFlightKept, KnownKept DEF hub, vars, hubVars, workerVars, pipeVars
<1> QED
  BY <1>1, <1>2, <1>3, <1>4, <1>5, <1>6, <1>7, <1>8, <1>9 DEF Next, Handle

(* No snapshot, hello or event ever names a map that is not stored.        *)
THEOREM MapsAreFetchable == Spec => []MapFetchable
<1>1. TypeInv /\ MapInv => MapFetchable
  <2> SUFFICES ASSUME TypeInv, Known, NEW c \in Car, NEW s \in Client,
                      NEW i \in DOMAIN Coming(s), Concerns(Coming(s)[i], c, "map")
               PROVE  Coming(s)[i].val <= maps[c]
    BY DEF MapInv, Known, MapFetchable, MapPng
  <2>1. unread[s] \in Seq(WsEvent) /\ out \in Seq(WsEvent)
    BY DEF TypeInv, TypeOK, HubTypeOK, PipelineTypeOK
  <2>2. \/ i \in DOMAIN unread[s] /\ Coming(s)[i] = unread[s][i]
        \/ \E j \in DOMAIN out : Coming(s)[i] = out[j]
    BY <2>1, ConcatElements DEF Coming
  <2> QED
    BY <2>2 DEF Known, AllStored, Concerns
<1> QED
  BY TypeInit, TypeNext, MapInvInit, MapInvNext, <1>1, PTL DEF Spec

----------------------------------------------------------------------------
(* Events are not lost. *)

(* What a sequence of events says of field f of car c: nothing, or v last. *)
Silent(q, c, f) == \A i \in DOMAIN q : ~Concerns(q[i], c, f)

Told(q, c, f, v) ==
  \E i \in DOMAIN q :
    /\ Concerns(q[i], c, f) /\ q[i].val = v
    /\ \A j \in DOMAIN q : j > i => ~Concerns(q[j], c, f)

Informed(q, known, c, f, v) ==
  /\ Silent(q, c, f) \/ Told(q, c, f, v)
  /\ Silent(q, c, f) => known = v

Greeted(s) == conn[s] \in {"greeting", "live"}

(* For a session without a hello only its events are to be right.          *)
SessionInformed(s) ==
  \A c \in Car, f \in LiveField :
    LET known == IF Greeted(s) THEN view[s][c][f] ELSE SnapshotOf(c)[f]
    IN Informed(Coming(s), known, c, f, SnapshotOf(c)[f])

(* NoEventLost is inductive once it is known of the handler's own events   *)
(* too, since a session may subscribe while they are being broadcast.      *)
EventInv ==
  /\ pc # "emit" => out = <<>>
  /\ \A c \in Car, f \in LiveField :
       Silent(out, c, f) \/ Told(out, c, f, SnapshotOf(c)[f])
  /\ \A s \in Client : conn[s] = "off" => unread[s] = <<>>
  /\ \A s \in Client : conn[s] # "off" /\ ~lagged[s] => SessionInformed(s)

----------------------------------------------------------------------------
(* Sequences of events. *)

LEMMA ConcatTells ==
  ASSUME NEW S, NEW p \in Seq(S), NEW q \in Seq(S), NEW c, NEW f, NEW v
  PROVE  /\ Silent(p \o q, c, f) <=> Silent(p, c, f) /\ Silent(q, c, f)
         /\ Told(q, c, f, v) => Told(p \o q, c, f, v)
         /\ Silent(q, c, f) /\ Told(p, c, f, v) => Told(p \o q, c, f, v)
<1> DEFINE r == p \o q
           m == Len(p)
           n == Len(q)
<1>1. /\ DOMAIN r = 1..(m + n) /\ DOMAIN p = 1..m /\ DOMAIN q = 1..n
      /\ m \in Nat /\ n \in Nat
      /\ \A i \in 1..(m + n) : r[i] = IF i <= m THEN p[i] ELSE q[i - m]
  BY ConcatProperties, LenProperties
<1> HIDE DEF r, m, n
<1>2. \A i \in 1..m : i \in 1..(m + n) /\ r[i] = p[i]
  BY <1>1
<1>3. \A i \in 1..n : m + i \in 1..(m + n) /\ r[m + i] = q[i]
  BY <1>1
<1>4. \A i \in 1..(m + n) : i \in 1..m \/ (i - m \in 1..n /\ i > m /\ r[i] = q[i - m])
  BY <1>1
<1>5. Silent(r, c, f) <=> Silent(p, c, f) /\ Silent(q, c, f)
  BY <1>1, <1>2, <1>3, <1>4 DEF Silent
<1>6. ASSUME Told(q, c, f, v) PROVE Told(r, c, f, v)
  <2>1. PICK i \in 1..n : /\ Concerns(q[i], c, f) /\ q[i].val = v
                          /\ \A j \in 1..n : j > i => ~Concerns(q[j], c, f)
    BY <1>1, <1>6 DEF Told
  <2>2. Concerns(r[m + i], c, f) /\ r[m + i].val = v /\ m + i \in DOMAIN r
    BY <1>1, <1>3, <2>1
  <2>3. ASSUME NEW j \in DOMAIN r, j > m + i PROVE ~Concerns(r[j], c, f)
    <3>1. j - m \in 1..n /\ j - m > i /\ r[j] = q[j - m]
      BY <1>1, <2>3
    <3> QED
      BY <2>1, <3>1
  <2> QED
    BY <2>2, <2>3 DEF Told
<1>7. ASSUME Silent(q, c, f), Told(p, c, f, v) PROVE Told(r, c, f, v)
  <2>1. PICK i \in 1..m : /\ Concerns(p[i], c, f) /\ p[i].val = v
                          /\ \A j \in 1..m : j > i => ~Concerns(p[j], c, f)
    BY <1>1, <1>7 DEF Told
  <2>2. Concerns(r[i], c, f) /\ r[i].val = v /\ i \in DOMAIN r
    BY <1>1, <1>2, <2>1
  <2>3. ASSUME NEW j \in DOMAIN r, j > i PROVE ~Concerns(r[j], c, f)
    BY <1>1, <1>2, <1>4, <1>7, <2>1, <2>3 DEF Silent
  <2> QED
    BY <2>2, <2>3 DEF Told
<1> QED
  BY <1>5, <1>6, <1>7 DEF r

(* The first event is no longer to come: had it been the only one, it was  *)
(* the last.                                                               *)
LEMMA TailTells ==
  ASSUME NEW S, NEW q \in Seq(S), q # <<>>, NEW c, NEW f, NEW v
  PROVE  /\ Silent(q, c, f) \/ Told(q, c, f, v) =>
              Silent(Tail(q), c, f) \/ Told(Tail(q), c, f, v)
         /\ Told(q, c, f, v) /\ Silent(Tail(q), c, f) =>
              Concerns(Head(q), c, f) /\ Head(q).val = v
         /\ Silent(Tail(q), c, f) /\ ~Concerns(Head(q), c, f) => Silent(q, c, f)
<1> DEFINE t == Tail(q)
           n == Len(q)
<1>1. /\ DOMAIN q = 1..n /\ DOMAIN t = 1..(n - 1) /\ n \in Nat \ {0}
      /\ Head(q) = q[1]
      /\ \A i \in 1..(n - 1) : t[i] = q[i + 1]
  BY HeadTailProperties, LenProperties, EmptySeq
<1> HIDE DEF t, n
<1>2. \A i \in 1..n : i = 1 \/ (i - 1 \in 1..(n - 1) /\ t[i - 1] = q[i])
  BY <1>1
<1>3. \A i \in 1..(n - 1) : i + 1 \in 1..n /\ t[i] = q[i + 1]
  BY <1>1
<1>4. Silent(q, c, f) => Silent(t, c, f)
  BY <1>1, <1>3 DEF Silent
<1>5. Silent(t, c, f) /\ ~Concerns(Head(q), c, f) => Silent(q, c, f)
  BY <1>1, <1>2 DEF Silent
<1>6. ASSUME Told(q, c, f, v)
      PROVE  \/ Told(t, c, f, v)
             \/ Silent(t, c, f) /\ Concerns(Head(q), c, f) /\ Head(q).val = v
  <2>1. PICK i \in 1..n : /\ Concerns(q[i], c, f) /\ q[i].val = v
                          /\ \A j \in 1..n : j > i => ~Concerns(q[j], c, f)
    BY <1>1, <1>6 DEF Told
  <2>2. CASE i = 1
    <3>1. \A j \in 1..(n - 1) : ~Concerns(t[j], c, f)
      BY <1>3, <2>1, <2>2
    <3> QED
      BY <1>1, <2>1, <2>2, <3>1 DEF Silent
  <2>3. CASE i # 1
    <3>1. i - 1 \in DOMAIN t /\ t[i - 1] = q[i]
      BY <1>1, <1>2, <2>3
    <3>2. ASSUME NEW j \in DOMAIN t, j > i - 1 PROVE ~Concerns(t[j], c, f)
      <4>1. j + 1 \in 1..n /\ j + 1 > i /\ t[j] = q[j + 1]
        BY <1>1, <1>3, <3>2
      <4> QED
        BY <2>1, <4>1
    <3> QED
      BY <2>1, <3>1, <3>2 DEF Told
  <2> QED
    BY <2>2, <2>3
<1>7. Told(t, c, f, v) => ~Silent(t, c, f)
  BY DEF Told, Silent
<1> QED
  BY <1>4, <1>5, <1>6, <1>7 DEF t

LEMMA AppendHead ==
  ASSUME NEW S, NEW u \in Seq(S), NEW o \in Seq(S), o # <<>>
  PROVE  Append(u, Head(o)) \o Tail(o) = u \o o
<1>1. /\ Head(o) \in S /\ Tail(o) \in Seq(S) /\ Len(Tail(o)) = Len(o) - 1
      /\ Len(o) \in Nat \ {0} /\ Len(u) \in Nat /\ Head(o) = o[1]
      /\ \A i \in 1..Len(Tail(o)) : Tail(o)[i] = o[i + 1]
  BY HeadTailProperties, EmptySeq, LenProperties
<1> DEFINE a == Append(u, Head(o))
           l == a \o Tail(o)
           r == u \o o
<1>2. /\ a \in Seq(S) /\ Len(a) = Len(u) + 1
      /\ \A i \in 1..Len(u) : a[i] = u[i]
      /\ a[Len(u) + 1] = o[1]
  BY <1>1
<1> HIDE DEF a
<1>3. /\ l \in Seq(S) /\ Len(l) = Len(a) + Len(Tail(o))
      /\ \A i \in 1..(Len(a) + Len(Tail(o))) :
           l[i] = IF i <= Len(a) THEN a[i] ELSE Tail(o)[i - Len(a)]
  BY <1>1, <1>2, ConcatProperties
<1>4. /\ r \in Seq(S) /\ Len(r) = Len(u) + Len(o)
      /\ \A i \in 1..(Len(u) + Len(o)) : r[i] = IF i <= Len(u) THEN u[i] ELSE o[i - Len(u)]
  BY ConcatProperties
<1> HIDE DEF l, r
<1>5. Len(l) = Len(r)
  BY <1>1, <1>2, <1>3, <1>4
<1>6. ASSUME NEW i \in 1..Len(l) PROVE l[i] = r[i]
  <2>0. i \in 1..(Len(a) + Len(Tail(o))) /\ i \in 1..(Len(u) + Len(o))
    BY <1>3, <1>4, <1>5, <1>6
  <2>1. CASE i <= Len(u)
    <3>1. l[i] = a[i] /\ a[i] = u[i]
      BY <1>1, <1>2, <1>3, <2>0, <2>1
    <3>2. r[i] = u[i]
      BY <1>4, <2>0, <2>1
    <3> QED
      BY <3>1, <3>2
  <2>2. CASE i = Len(u) + 1
    <3>1. l[i] = a[i] /\ a[i] = o[1]
      BY <1>1, <1>2, <1>3, <2>0, <2>2
    <3>2. r[i] = o[i - Len(u)] /\ i - Len(u) = 1
      BY <1>1, <1>4, <2>0, <2>2, SMTT(30)
    <3> QED
      BY <3>1, <3>2
  <2>3. CASE i > Len(u) + 1
    <3>1. l[i] = Tail(o)[i - (Len(u) + 1)] /\ i - (Len(u) + 1) \in 1..Len(Tail(o))
      BY <1>1, <1>2, <1>3, <1>6, <2>3
    <3>2. r[i] = o[i - Len(u)] /\ (i - (Len(u) + 1)) + 1 = i - Len(u)
      BY <1>1, <1>2, <1>3, <1>4, <1>6, <2>3
    <3> QED
      BY <1>1, <3>1, <3>2
  <2> QED
    BY <1>1, <1>6, <2>1, <2>2, <2>3
<1>7. l = r
  BY <1>3, <1>4, <1>5, <1>6, SeqEqual
<1> QED
  BY <1>7 DEF l, r, a

LEMMA TailOfConcat ==
  ASSUME NEW S, NEW u \in Seq(S), NEW o \in Seq(S), u # <<>>
  PROVE  Tail(u \o o) = Tail(u) \o o /\ Head(u \o o) = Head(u) /\ u \o o # <<>>
<1>1. /\ Tail(u) \in Seq(S) /\ Len(Tail(u)) = Len(u) - 1 /\ Len(u) \in Nat \ {0}
      /\ Len(o) \in Nat /\ Head(u) = u[1]
      /\ \A i \in 1..Len(Tail(u)) : Tail(u)[i] = u[i + 1]
  BY HeadTailProperties, EmptySeq, LenProperties
<1> DEFINE r == u \o o
           l == Tail(u) \o o
<1>2. /\ r \in Seq(S) /\ Len(r) = Len(u) + Len(o)
      /\ \A i \in 1..(Len(u) + Len(o)) : r[i] = IF i <= Len(u) THEN u[i] ELSE o[i - Len(u)]
  BY ConcatProperties
<1>3. /\ l \in Seq(S) /\ Len(l) = Len(Tail(u)) + Len(o)
      /\ \A i \in 1..(Len(Tail(u)) + Len(o)) :
           l[i] = IF i <= Len(Tail(u)) THEN Tail(u)[i] ELSE o[i - Len(Tail(u))]
  BY <1>1, ConcatProperties
<1> HIDE DEF l, r
<1>4. r # <<>> /\ Head(r) = r[1]
  BY <1>1, <1>2
<1>5. /\ Tail(r) \in Seq(S) /\ Len(Tail(r)) = Len(r) - 1
      /\ \A i \in 1..Len(Tail(r)) : Tail(r)[i] = r[i + 1]
  BY <1>2, <1>4, HeadTailProperties
<1>6. Len(Tail(r)) = Len(l)
  BY <1>1, <1>2, <1>3, <1>5
<1>7. ASSUME NEW i \in 1..Len(l) PROVE Tail(r)[i] = l[i]
  <2> DEFINE k == Len(Tail(u))
  <2>0. k \in Int /\ i \in Int
    BY <1>1, <1>7, LenProperties
  <2>1. CASE i <= k
    BY <1>1, <1>2, <1>3, <1>5, <1>6, <1>7, <2>1
  <2>2. CASE i > k
    <3>1. l[i] = o[i - Len(Tail(u))]
      BY <1>1, <1>3, <1>7, <2>2, SMTT(30)
    <3>2. Tail(r)[i] = r[i + 1] /\ r[i + 1] = o[(i + 1) - Len(u)]
      BY <1>1, <1>2, <1>3, <1>5, <1>6, <1>7, <2>2
    <3>3. (i + 1) - Len(u) = i - Len(Tail(u))
      BY <1>1, <1>7
    <3> QED
      BY <3>1, <3>2, <3>3
  <2> HIDE DEF k
  <2>3. i <= k \/ i > k
    BY <2>0
  <2> QED
    BY <2>1, <2>2, <2>3, Zenon
<1>8. Tail(r) = l
  BY <1>3, <1>5, <1>6, <1>7, SeqEqual
<1>9. Head(r) = Head(u)
  BY <1>1, <1>2, <1>4
<1> QED
  BY <1>4, <1>8, <1>9 DEF l, r

----------------------------------------------------------------------------
(* The hub's steps. *)

LEMMA EventSeqs ==
  ASSUME TypeInv
  PROVE  out \in Seq(WsEvent) /\ \A s \in Client : unread[s] \in Seq(WsEvent)
BY DEF TypeInv, TypeOK, HubTypeOK, PipelineTypeOK

LEMMA EventInit == Init => EventInv
BY DEF Init, HubInit, PipelineInit, EventInv, Silent

(* Steps after which the snapshots say the same, that neither send nor     *)
(* read an event.                                                          *)
LEMMA NothingToTell ==
  ASSUME EventInv, UNCHANGED <<conn, unread, lagged, view, out>>,
         \A c \in Car, f \in LiveField : SnapshotOf(c)[f]' = SnapshotOf(c)[f],
         pc' = "emit" => pc = "emit", pc = "emit" => pc' = "emit"
  PROVE  EventInv'
<1>1. \A c \in Car, f \in LiveField :
        (Silent(out, c, f) \/ Told(out, c, f, SnapshotOf(c)[f]))'
  BY DEF EventInv, Silent, Told
<1>2. \A s \in Client : conn'[s] # "off" /\ ~lagged'[s] => SessionInformed(s)'
  BY SMTT(30) DEF EventInv, SessionInformed, Informed, Silent, Told, Coming, Greeted
<1> QED
  BY <1>1, <1>2 DEF EventInv

(* A handler that leaves to broadcast exactly what it changed.             *)
LEMMA Announced ==
  ASSUME TypeInv, TypeInv', EventInv, pc # "emit", UNCHANGED <<conn, unread, lagged, view>>,
         pc' # "emit" => out' = <<>>,
         \A c \in Car, f \in LiveField :
           \/ Silent(out', c, f) /\ SnapshotOf(c)[f]' = SnapshotOf(c)[f]
           \/ Told(out', c, f, SnapshotOf(c)[f]')
  PROVE  EventInv'
<1>1. out = <<>>
  BY DEF EventInv
<1>2. ASSUME NEW s \in Client, conn[s] # "off", ~lagged[s],
             NEW c \in Car, NEW f \in LiveField
      PROVE  LET known == IF Greeted(s) THEN view[s][c][f] ELSE SnapshotOf(c)[f]
             IN Informed(Coming(s), known, c, f, SnapshotOf(c)[f])'
  <2> DEFINE u == unread[s]
             v == SnapshotOf(c)[f]
  <2>1. u \in Seq(WsEvent) /\ out' \in Seq(WsEvent) /\ Coming(s) = u /\ Coming(s)' = u \o out'
    <3>1. u \in Seq(WsEvent) /\ out' \in Seq(WsEvent)
      BY EventSeqs DEF TypeInv, TypeOK, PipelineTypeOK
    <3>2. u \o <<>> = u
      BY <3>1, ConcatEmptySeq
    <3> QED
      BY <1>1, <3>1, <3>2 DEF Coming
  <2>2. /\ Silent(u, c, f) \/ Told(u, c, f, v)
        /\ Silent(u, c, f) => (IF Greeted(s) THEN view[s][c][f] ELSE v) = v
    BY <1>2, <2>1 DEF EventInv, SessionInformed, Informed
  <2>3. \A w : /\ Silent(u \o out', c, f) <=> Silent(u, c, f) /\ Silent(out', c, f)
               /\ Told(out', c, f, w) => Told(u \o out', c, f, w)
               /\ Silent(out', c, f) /\ Told(u, c, f, w) => Told(u \o out', c, f, w)
    BY <2>1, ConcatTells
  <2>4. \A w : Told(out', c, f, w) => ~Silent(out', c, f)
    BY DEF Told, Silent
  <2>5. Greeted(s)' = Greeted(s) /\ view'[s][c][f] = view[s][c][f]
    BY DEF Greeted
  <2> HIDE DEF u
  <2> QED
    BY <2>1, <2>2, <2>3, <2>4, <2>5 DEF Informed
<1>3. \A c \in Car, f \in LiveField :
        (Silent(out, c, f) \/ Told(out, c, f, SnapshotOf(c)[f]))'
  BY DEF Silent, Told
<1>4. \A s \in Client : conn'[s] # "off" /\ ~lagged'[s] => SessionInformed(s)'
  BY <1>2 DEF SessionInformed
<1> QED
  BY <1>3, <1>4 DEF EventInv

LEMMA OneEventTells ==
  ASSUME NEW e, NEW c, NEW f
  PROVE  /\ Concerns(e, c, f) => Told(<<e>>, c, f, e.val)
         /\ ~Concerns(e, c, f) => Silent(<<e>>, c, f)
BY DEF Told, Silent

LEMMA TwoEventsTell ==
  ASSUME NEW d, NEW e, NEW c, NEW f
  PROVE  /\ Concerns(e, c, f) => Told(<<d, e>>, c, f, e.val)
         /\ Concerns(d, c, f) /\ ~Concerns(e, c, f) => Told(<<d, e>>, c, f, d.val)
         /\ ~Concerns(d, c, f) /\ ~Concerns(e, c, f) => Silent(<<d, e>>, c, f)
<1> DEFINE q == <<d, e>>
<1>1. DOMAIN q = {1, 2} /\ q[1] = d /\ q[2] = e
  OBVIOUS
<1> HIDE DEF q
<1>2. /\ Concerns(e, c, f) => Told(q, c, f, e.val)
      /\ Concerns(d, c, f) /\ ~Concerns(e, c, f) => Told(q, c, f, d.val)
      /\ ~Concerns(d, c, f) /\ ~Concerns(e, c, f) => Silent(q, c, f)
  BY <1>1 DEF Told, Silent
<1> QED
  BY <1>2 DEF q

LEMMA LiveUpdated ==
  ASSUME HubTypeOK, NEW c \in Car, NEW r \in CarSnapshot, UpdateCar(c, r)
  PROVE  \A d \in Car, f \in LiveField :
           SnapshotOf(d)[f]' = IF d = c THEN r[f] ELSE SnapshotOf(d)[f]
<1>1. \A d \in Car : SnapshotOf(d)' = IF d = c THEN r ELSE SnapshotOf(d)
  BY UpdateTyped
<1> QED
  BY <1>1

(* A handler that changes one live field and broadcasts it.                *)
LEMMA OneAnnounced ==
  ASSUME TypeInv, TypeInv', EventInv, pc # "emit", UNCHANGED <<conn, unread, lagged, view>>,
         NEW c \in Car, NEW r \in CarSnapshot, NEW g \in LiveField, NEW v,
         UpdateCar(c, r), ThenEmit(<<Event(g, c, v)>>),
         \A f \in LiveField : r[f] = IF f = g THEN v ELSE SnapshotOf(c)[f]
  PROVE  EventInv'
<1> DEFINE e == Event(g, c, v)
<1>1. /\ e.val = v
      /\ \A d \in Car, f \in LiveField : Concerns(e, d, f) <=> d = c /\ f = g
  BY DEF Event, Concerns
<1>2. \A d \in Car, f \in LiveField :
        SnapshotOf(d)[f]' = IF d = c /\ f = g THEN v ELSE SnapshotOf(d)[f]
  BY LiveUpdated DEF TypeInv, TypeOK
<1>3. out' = <<e>> /\ pc' = "emit"
  BY DEF ThenEmit
<1> HIDE DEF e
<1>4. \A d \in Car, f \in LiveField :
        \/ Silent(out', d, f) /\ SnapshotOf(d)[f]' = SnapshotOf(d)[f]
        \/ Told(out', d, f, SnapshotOf(d)[f]')
  BY <1>1, <1>2, <1>3, OneEventTells
<1> QED
  BY <1>3, <1>4, Announced

LEMMA StatusTells ==
  ASSUME TypeInv, TypeInv', EventInv, ApplyStatus, UNCHANGED view
  PROVE  EventInv'
<1> USE DEF TypeInv, TypeOK
<1> DEFINE c == cur.car
           r == [SnapshotOf(c) EXCEPT !.status = cur.val]
<1>1. c \in Car /\ cur.val \in Status
  BY CurTyped DEF ApplyStatus
<1>2. SnapshotOf(c) \in CarSnapshot
  BY <1>1, SnapshotTyped
<1>3. /\ r \in CarSnapshot
      /\ \A f \in LiveField : r[f] = IF f = "status" THEN cur.val ELSE SnapshotOf(c)[f]
  BY <1>1, <1>2 DEF CarSnapshot, LiveField
<1>4. UpdateCar(c, r) /\ pc = "apply" /\ UNCHANGED <<conn, unread, lagged, view>>
  BY DEF ApplyStatus
<1>5. CASE ThenEmit(<<Event("status", c, cur.val)>>)
  BY <1>1, <1>3, <1>4, <1>5, OneAnnounced DEF LiveField
<1>6. CASE SnapshotOf(c).status = cur.val /\ ThenSelect
  <2>1. \A d \in Car, f \in LiveField : SnapshotOf(d)[f]' = SnapshotOf(d)[f]
    BY <1>1, <1>3, <1>4, <1>6, LiveUpdated
  <2> QED
    BY <1>4, <1>6, <2>1, NothingToTell DEF ThenSelect
<1> QED
  BY <1>5, <1>6 DEF ApplyStatus

LEMMA TelemetryTells ==
  ASSUME TypeInv, TypeInv', EventInv, ApplyTelemetry, UNCHANGED view
  PROVE  EventInv'
<1> USE DEF TypeInv, TypeOK
<1> DEFINE c == cur.car
           r == [SnapshotOf(c) EXCEPT !.telemetry = cur.at]
<1>1. c \in Car /\ cur.at \in Nat
  BY CurTyped DEF ApplyTelemetry
<1>2. SnapshotOf(c) \in CarSnapshot
  BY <1>1, SnapshotTyped
<1>3. /\ r \in CarSnapshot
      /\ \A f \in LiveField : r[f] = IF f = "telemetry" THEN cur.at ELSE SnapshotOf(c)[f]
  BY <1>1, <1>2 DEF CarSnapshot, LiveField
<1> QED
  BY <1>1, <1>3, OneAnnounced DEF ApplyTelemetry, LiveField

LEMMA MapTells ==
  ASSUME TypeInv, TypeInv', EventInv, PublishMapInfo, UNCHANGED view
  PROVE  EventInv'
<1> USE DEF TypeInv, TypeOK
<1> DEFINE c == cur.car
           r == [SnapshotOf(c) EXCEPT !.map = cur.val]
<1>1. c \in Car /\ cur.val \in Nat
  BY CurTyped DEF PublishMapInfo, HandlerInv
<1>2. SnapshotOf(c) \in CarSnapshot
  BY <1>1, SnapshotTyped
<1>3. /\ r \in CarSnapshot
      /\ \A f \in LiveField : r[f] = IF f = "map" THEN cur.val ELSE SnapshotOf(c)[f]
  BY <1>1, <1>2 DEF CarSnapshot, LiveField
<1> QED
  BY <1>1, <1>3, OneAnnounced DEF PublishMapInfo, LiveField

LEMMA RateTells ==
  ASSUME TypeInv, TypeInv', EventInv, NEW c \in Car, ReportRate(c), UNCHANGED view
  PROVE  EventInv'
<1> USE DEF TypeInv, TypeOK
<1> DEFINE r == [SnapshotOf(c) EXCEPT !.scan_hz = rates[c]]
<1>1. rates[c] \in Nat
  BY DEF ReportRate, PipelineTypeOK
<1>2. SnapshotOf(c) \in CarSnapshot
  BY SnapshotTyped
<1>3. /\ r \in CarSnapshot
      /\ \A f \in LiveField : r[f] = IF f = "scan_hz" THEN rates[c] ELSE SnapshotOf(c)[f]
  BY <1>1, <1>2 DEF CarSnapshot, LiveField
<1> QED
  BY <1>3, OneAnnounced DEF ReportRate, LiveField

LEMMA TrackedTells ==
  ASSUME TypeInv, TypeInv', EventInv, RecvTracked, UNCHANGED view
  PROVE  EventInv'
<1> USE DEF TypeInv, TypeOK
<1> DEFINE o == Head(slam_rx)
           c == o.car
           v == o.val
           r == [SnapshotOf(c) EXCEPT !.pose = v, !.trajectory = Extended(@, v), !.scan = v]
           d == Event("pose", c, v)
           e == Event("scan", c, v)
<1>1. c \in Car /\ v \in Nat
  BY RecvOutputTyped DEF RecvTracked, SlamOutput
<1>2. SnapshotOf(c) \in CarSnapshot
  BY <1>1, SnapshotTyped
<1>3. Extended(SnapshotOf(c).trajectory, v) \in Seq(Nat)
  BY <1>1, <1>2, ExtendedTyped DEF CarSnapshot
<1>4. /\ r \in CarSnapshot
      /\ \A f \in LiveField : r[f] = IF f \in {"pose", "scan"} THEN v ELSE SnapshotOf(c)[f]
  BY <1>1, <1>2, <1>3 DEF CarSnapshot, LiveField
<1>5. UpdateCar(c, r) /\ pc = "select" /\ out' = <<d, e>> /\ pc' = "emit"
      /\ UNCHANGED <<conn, unread, lagged, view>>
  BY DEF RecvTracked, ThenEmit
<1>6. /\ d.val = v /\ e.val = v
      /\ \A a \in Car, f \in LiveField : /\ Concerns(d, a, f) <=> a = c /\ f = "pose"
                                         /\ Concerns(e, a, f) <=> a = c /\ f = "scan"
  BY DEF Event, Concerns
<1> HIDE DEF r, d, e
<1>7. \A a \in Car, f \in LiveField :
        SnapshotOf(a)[f]' = IF a = c /\ f \in {"pose", "scan"} THEN v ELSE SnapshotOf(a)[f]
  BY <1>1, <1>4, <1>5, LiveUpdated
<1>8. ASSUME NEW a \in Car, NEW f \in LiveField
      PROVE  \/ Silent(<<d, e>>, a, f) /\ SnapshotOf(a)[f]' = SnapshotOf(a)[f]
             \/ Told(<<d, e>>, a, f, SnapshotOf(a)[f]')
  <2>1. CASE a = c /\ f = "scan"
    BY <1>6, <1>7, <2>1, TwoEventsTell
  <2>2. CASE a = c /\ f = "pose"
    BY <1>6, <1>7, <2>2, TwoEventsTell
  <2>3. CASE ~(a = c /\ f \in {"pose", "scan"})
    BY <1>6, <1>7, <2>3, TwoEventsTell
  <2> QED
    BY <2>1, <2>2, <2>3
<1> QED
  BY <1>5, <1>8, Announced

(* What a source, a worker, or a handler without anything to broadcast     *)
(* does.                                                                   *)
LEMMA QuietTells ==
  ASSUME TypeInv, EventInv, UNCHANGED view,
         \/ Sources \/ RecvEvent \/ RecvMap \/ Tick \/ Workers
         \/ ApplyScan \/ SpawnWorker \/ SpawnFails \/ SubmitScan
  PROVE  EventInv'
<1> USE DEF TypeInv, TypeOK
<1>1. CASE RecvMap \/ Tick \/ Workers \/ SpawnWorker \/ SpawnFails \/ SubmitScan
  <2>1. UNCHANGED <<cars, conn, unread, lagged, view, out>> /\ (pc' = "emit" <=> pc = "emit")
    BY <1>1 DEF RecvMap, Tick, Workers, SpawnWorker, SpawnFails, SubmitScan, ThenSelect,
       hubVars, pipeVars
  <2> QED
    BY <2>1, NothingToTell DEF SnapshotOf, NewSnapshot
<1>2. CASE Sources
  <2>1. UNCHANGED <<cars, conn, unread, lagged, view, out, pc>>
    BY <1>2, SourcesArrive DEF Arrive, hubVars
  <2> QED
    BY <2>1, NothingToTell DEF SnapshotOf, NewSnapshot
<1>3. CASE RecvEvent
  <2> DEFINE c == cur'.car
             r == [SnapshotOf(c) EXCEPT !.last_seen_ms = cur'.at]
  <2>1. cur' \in CarEvent
    BY <1>3 DEF RecvEvent, PipelineTypeOK
  <2>2. c \in Car /\ cur'.at \in Nat
    BY <2>1 DEF CarEvent
  <2>3. SnapshotOf(c) \in CarSnapshot
    BY <2>2, SnapshotTyped
  <2>4. r \in CarSnapshot /\ \A f \in LiveField : r[f] = SnapshotOf(c)[f]
    BY <2>2, <2>3 DEF CarSnapshot, LiveField
  <2>5. \A d \in Car, f \in LiveField : SnapshotOf(d)[f]' = SnapshotOf(d)[f]
    <3>1. UpdateCar(c, r)
      BY <1>3 DEF RecvEvent
    <3> HIDE DEF r, c
    <3> QED
      BY <2>2, <2>4, <3>1, LiveUpdated
  <2> QED
    BY <1>3, <2>5, NothingToTell DEF RecvEvent
<1>4. CASE ApplyScan
  <2> DEFINE c == cur.car
             r == [SnapshotOf(c) EXCEPT !.scans_total = @ + 1]
  <2>1. c \in Car
    BY <1>4, CurTyped DEF ApplyScan
  <2>2. SnapshotOf(c) \in CarSnapshot
    BY <2>1, SnapshotTyped
  <2>3. SnapshotOf(c).scans_total + 1 \in Nat
    BY <2>2 DEF CarSnapshot
  <2>4. r \in CarSnapshot /\ \A f \in LiveField : r[f] = SnapshotOf(c)[f]
    BY <2>2, <2>3 DEF CarSnapshot, LiveField
  <2>5. \A d \in Car, f \in LiveField : SnapshotOf(d)[f]' = SnapshotOf(d)[f]
    BY <1>4, <2>1, <2>4, LiveUpdated DEF ApplyScan
  <2> QED
    BY <1>4, <2>5, NothingToTell DEF ApplyScan
<1> QED
  BY <1>1, <1>2, <1>3, <1>4

(* Broadcasting moves an event from the handler to every session, or makes *)
(* a session lag.                                                          *)
LEMMA EmitTells ==
  ASSUME TypeInv, EventInv, EmitNext, UNCHANGED view
  PROVE  EventInv'
<1>1. /\ out \in Seq(WsEvent) /\ out # <<>> /\ out' = Tail(out) /\ pc = "emit"
      /\ pc' = IF Len(out) > 1 THEN "emit" ELSE IF ticking # {} THEN "tick" ELSE "select"
      /\ UNCHANGED <<cars, conn, view>> /\ Emit(Head(out))
  BY DEF EmitNext, TypeInv, TypeOK, PipelineTypeOK, HandlerInv
<1>2. pc' # "emit" => out' = <<>>
  BY <1>1, HeadTailProperties, EmptySeq, LenProperties
<1>3. ASSUME NEW c \in Car, NEW f \in LiveField
      PROVE  (Silent(out, c, f) \/ Told(out, c, f, SnapshotOf(c)[f]))'
  <2> DEFINE v == SnapshotOf(c)[f]
  <2>1. Silent(out, c, f) \/ Told(out, c, f, v)
    BY DEF EventInv
  <2>2. Silent(Tail(out), c, f) \/ Told(Tail(out), c, f, v)
    BY <1>1, <2>1, TailTells
  <2>3. v' = v
    BY <1>1 DEF SnapshotOf, NewSnapshot
  <2> HIDE DEF v
  <2> QED
    BY <1>1, <2>2, <2>3 DEF v, Silent, Told
<1>4. ASSUME NEW s \in Client, conn'[s] = "off" PROVE unread'[s] = <<>>
  BY <1>1, <1>4 DEF EventInv, Emit
<1>5. ASSUME NEW s \in Client, conn'[s] # "off", ~lagged'[s] PROVE SessionInformed(s)'
  <2>1. unread'[s] = Append(unread[s], Head(out)) /\ ~lagged[s]
    <3>1. unread[s] \in Seq(WsEvent) /\ lagged' = [t \in Client |->
            lagged[t] \/ (conn[t] # "off" /\ Len(unread[t]) >= RingCap)]
      BY <1>1, EventSeqs DEF Emit
    <3>2. ~lagged[s] /\ ~(Len(unread[s]) >= RingCap)
      BY <1>1, <1>5, <3>1, Zenon
    <3>3. Len(unread[s]) < RingCap
      BY <3>1, <3>2, HubAssumption
    <3> QED
      BY <1>1, <1>5, <3>2, <3>3 DEF Emit
  <2>2. Coming(s)' = Coming(s)
    BY <1>1, <2>1, EventSeqs, AppendHead DEF Coming
  <2>3. SessionInformed(s)
    BY <1>1, <1>5, <2>1 DEF EventInv
  <2>4. UNCHANGED <<cars, conn, view>>
    BY <1>1
  <2> QED
    BY <2>2, <2>3, <2>4 DEF SessionInformed, Informed, Silent, Told, Greeted,
       SnapshotOf, NewSnapshot
<1> QED
  BY <1>2, <1>3, <1>4, <1>5 DEF EventInv

(* What a client reads is what it then knows, and the rest is still to     *)
(* come.                                                                   *)
LEMMA ForwardReads ==
  ASSUME TypeInv, NEW s \in Client, Forward(s)
  PROVE  /\ Coming(s) \in Seq(WsEvent) /\ Coming(s) # <<>>
         /\ Coming(s)' = Tail(Coming(s))
         /\ \A c \in Car, f \in LiveField :
              view'[s][c][f] = IF Concerns(Head(Coming(s)), c, f) THEN Head(Coming(s)).val
                               ELSE view[s][c][f]
         /\ \A t \in Client : t # s => Coming(t)' = Coming(t) /\ view'[t] = view[t]
<1> DEFINE u == unread[s]
           e == Head(u)
<1>1. /\ u \in Seq(WsEvent) /\ u # <<>> /\ out \in Seq(WsEvent) /\ UNCHANGED out
      /\ unread' = [unread EXCEPT ![s] = Tail(u)]
      /\ view' = [view EXCEPT ![s][e.car][e.field] = e.val]
      /\ unread \in [Client -> Seq(WsEvent)]
      /\ view \in [Client -> [Car -> LiveView]]
  BY DEF Forward, TypeInv, TypeOK, HubTypeOK, PipelineTypeOK, pipeVars
<1>2. e \in WsEvent /\ e.car \in Car /\ e.field \in LiveField
  BY <1>1 DEF WsEvent, LiveField
<1>3. \A t \in Client : t # s => unread'[t] = unread[t] /\ view'[t] = view[t]
  BY <1>1
<1>4. ASSUME NEW c \in Car, NEW f \in LiveField
      PROVE  view'[s][c][f] = IF Concerns(e, c, f) THEN e.val ELSE view[s][c][f]
  <2>1. view[s][c] \in LiveView /\ view[s] \in [Car -> LiveView]
    BY <1>1
  <2>2. view'[s] = [view[s] EXCEPT ![e.car] = [view[s][e.car] EXCEPT ![e.field] = e.val]]
    BY <1>1
  <2>3. CASE c # e.car
    BY <2>1, <2>2, <2>3 DEF Concerns
  <2>4. CASE c = e.car
    <3>1. view'[s][c] = [view[s][c] EXCEPT ![e.field] = e.val]
      BY <2>1, <2>2, <2>4, <1>2
    <3>2. f \in DOMAIN view[s][c]
      BY <2>1 DEF LiveView, LiveField
    <3> QED
      BY <2>4, <3>1, <3>2 DEF Concerns
  <2> QED
    BY <2>3, <2>4
<1>5. Tail(u \o out) = Tail(u) \o out /\ Head(u \o out) = e /\ u \o out # <<>>
  BY <1>1, TailOfConcat
<1>6. u \o out \in Seq(WsEvent)
  BY <1>1, ConcatProperties
<1>7. Coming(s) = u \o out /\ Coming(s)' = Tail(u) \o out
  BY <1>1 DEF Coming
<1>8. \A t \in Client : t # s => Coming(t)' = Coming(t)
  BY <1>1, <1>3 DEF Coming
<1> HIDE DEF u, e
<1> QED
  BY <1>3, <1>4, <1>5, <1>6, <1>7, <1>8

LEMMA ForwardTells ==
  ASSUME TypeInv, EventInv, NEW s \in Client, Forward(s)
  PROVE  EventInv'
<1> DEFINE q == Coming(s)
           e == Head(q)
<1>1. /\ q \in Seq(WsEvent) /\ q # <<>> /\ Coming(s)' = Tail(q)
      /\ \A c \in Car, f \in LiveField :
           view'[s][c][f] = IF Concerns(e, c, f) THEN e.val ELSE view[s][c][f]
      /\ \A t \in Client : t # s => Coming(t)' = Coming(t) /\ view'[t] = view[t]
  BY ForwardReads
<1>2. conn[s] = "live" /\ UNCHANGED <<cars, conn, lagged, pc, out>>
  BY DEF Forward, pipeVars
<1>3. ASSUME NEW t \in Client, conn'[t] = "off" PROVE unread'[t] = <<>>
  BY <1>2, <1>3 DEF Forward, EventInv, TypeInv, TypeOK, HubTypeOK
<1>4. \A c \in Car, f \in LiveField : SnapshotOf(c)[f]' = SnapshotOf(c)[f]
  BY <1>2 DEF SnapshotOf, NewSnapshot
<1>5. ~lagged[s] => SessionInformed(s)'
  <2> SUFFICES ASSUME ~lagged[s], NEW c \in Car, NEW f \in LiveField
               PROVE  Informed(Coming(s), view[s][c][f], c, f, SnapshotOf(c)[f])'
    BY <1>2 DEF SessionInformed, Greeted
  <2> DEFINE v == SnapshotOf(c)[f]
  <2>1. Informed(q, view[s][c][f], c, f, v)
    BY <1>2 DEF EventInv, SessionInformed, Greeted
  <2>2. /\ Silent(q, c, f) \/ Told(q, c, f, v) =>
             Silent(Tail(q), c, f) \/ Told(Tail(q), c, f, v)
        /\ Told(q, c, f, v) /\ Silent(Tail(q), c, f) => Concerns(e, c, f) /\ e.val = v
        /\ Silent(Tail(q), c, f) /\ ~Concerns(e, c, f) => Silent(q, c, f)
    BY <1>1, TailTells
  <2>3. Silent(q, c, f) => ~Concerns(e, c, f)
    BY <1>1 DEF Silent
  <2> HIDE DEF q, e
  <2> QED
    BY <1>1, <1>4, <2>1, <2>2, <2>3 DEF Informed
<1>6. ASSUME NEW t \in Client, t # s, conn[t] # "off", ~lagged[t] PROVE SessionInformed(t)'
  <2>1. SessionInformed(t) /\ Coming(t)' = Coming(t) /\ view'[t] = view[t]
        /\ UNCHANGED <<conn, cars>>
    BY <1>1, <1>2, <1>6 DEF EventInv
  <2> QED
    BY <2>1 DEF SessionInformed, Informed, Silent, Told, Greeted, SnapshotOf, NewSnapshot
<1>7. \A c \in Car, f \in LiveField :
        (Silent(out, c, f) \/ Told(out, c, f, SnapshotOf(c)[f]))'
  BY <1>2, <1>4 DEF EventInv, Silent, Told
<1> QED
  BY <1>2, <1>3, <1>5, <1>6, <1>7 DEF EventInv

(* A session comes, is greeted, or goes.                                   *)
LEMMA SessionTells ==
  ASSUME TypeInv, EventInv, NEW s \in Client,
         Subscribe(s) \/ TakeSnapshots(s) \/ SendHello(s) \/ Disconnect(s)
  PROVE  EventInv'
<1>1. UNCHANGED <<cars, pc, out>>
  BY DEF Subscribe, TakeSnapshots, SendHello, Disconnect, pipeVars
<1>2. \A c \in Car, f \in LiveField :
        (Silent(out, c, f) \/ Told(out, c, f, SnapshotOf(c)[f]))'
  BY <1>1 DEF EventInv, Silent, Told, SnapshotOf, NewSnapshot
<1>t. /\ conn \in [Client -> {"off", "subscribed", "greeting", "live"}]
      /\ unread \in [Client -> Seq(WsEvent)]
      /\ view \in [Client -> [Car -> LiveView]]
      /\ out \in Seq(WsEvent)
  BY DEF TypeInv, TypeOK, HubTypeOK, PipelineTypeOK
<1>3. ASSUME NEW t \in Client, t # s
      PROVE  conn'[t] = conn[t] /\ unread'[t] = unread[t] /\ view'[t] = view[t]
             /\ lagged'[t] = lagged[t]
  <2>1. conn'[t] = conn[t] /\ unread'[t] = unread[t] /\ view'[t] = view[t]
    BY <1>t, <1>3 DEF Subscribe, TakeSnapshots, SendHello, Disconnect
  <2>2. lagged' = lagged \/ lagged' = [lagged EXCEPT ![s] = FALSE]
    BY DEF Subscribe, TakeSnapshots, SendHello, Disconnect
  <2>3. t \in DOMAIN lagged
    BY DEF TypeInv, TypeOK, HubTypeOK
  <2>4. lagged'[t] = lagged[t]
    BY <1>3, <2>2, <2>3, Zenon
  <2> QED
    BY <2>1, <2>4
<1>4. ASSUME NEW t \in Client, t # s, conn'[t] # "off", ~lagged'[t] PROVE SessionInformed(t)'
  <2>1. conn'[t] = conn[t] /\ unread'[t] = unread[t] /\ view'[t] = view[t] /\ ~lagged[t]
    BY <1>3, <1>4
  <2>2. SessionInformed(t) /\ Coming(t)' = Coming(t)
    BY <1>1, <1>4, <2>1 DEF EventInv, Coming
  <2> QED
    BY <1>1, <2>1, <2>2 DEF SessionInformed, Informed, Silent, Told, Greeted,
       SnapshotOf, NewSnapshot
<1>5. ASSUME conn'[s] # "off", ~lagged'[s] PROVE SessionInformed(s)'
  <2>1. CASE Subscribe(s)
    <3>1. conn'[s] = "subscribed" /\ unread'[s] = <<>>
      BY <1>t, <2>1 DEF Subscribe, EventInv
    <3>2. Coming(s)' = out
      BY <1>1, <1>t, <3>1, ConcatEmptySeq DEF Coming
    <3>3. \A c \in Car, f \in LiveField :
            Silent(out, c, f) \/ Told(out, c, f, SnapshotOf(c)[f])
      BY DEF EventInv
    <3> QED
      BY <1>1, <3>1, <3>2, <3>3 DEF SessionInformed, Informed, Silent, Told, Greeted,
         SnapshotOf, NewSnapshot
  <2>2. CASE TakeSnapshots(s)
    <3>1. conn[s] # "off" /\ ~lagged[s] /\ UNCHANGED <<unread, lagged>>
      BY <1>5, <2>2 DEF TakeSnapshots
    <3>2. SessionInformed(s) /\ Coming(s)' = Coming(s)
      BY <1>1, <3>1 DEF EventInv, Coming
    <3>3. \A c \in Car, f \in LiveField : view'[s][c][f] = SnapshotOf(c)[f]
      BY <1>t, <2>2 DEF TakeSnapshots, KnownFields
    <3> QED
      BY <1>1, <3>2, <3>3 DEF SessionInformed, Informed, Silent, Told,
         SnapshotOf, NewSnapshot
  <2>3. CASE SendHello(s)
    <3>1. conn[s] = "greeting" /\ conn'[s] = "live" /\ ~lagged[s]
          /\ UNCHANGED <<unread, lagged, view>>
      BY <1>5, <1>t, <2>3 DEF SendHello
    <3>2. SessionInformed(s) /\ Coming(s)' = Coming(s)
      BY <1>1, <3>1 DEF EventInv, Coming
    <3> QED
      BY <1>1, <3>1, <3>2 DEF SessionInformed, Informed, Silent, Told, Greeted,
         SnapshotOf, NewSnapshot
  <2>4. CASE Disconnect(s)
    BY <1>5, <1>t, <2>4 DEF Disconnect
  <2> QED
    BY <2>1, <2>2, <2>3, <2>4
<1>6. ASSUME NEW t \in Client, conn'[t] = "off" PROVE unread'[t] = <<>>
  <2>1. CASE t # s
    BY <1>3, <1>6, <2>1 DEF EventInv
  <2>2. CASE t = s
    <3>1. ~(Subscribe(s) \/ TakeSnapshots(s) \/ SendHello(s))
      BY <1>6, <1>t, <2>2 DEF Subscribe, TakeSnapshots, SendHello
    <3> QED
      BY <1>t, <2>2, <3>1 DEF Disconnect
  <2> QED
    BY <2>1, <2>2
<1>7. pc' # "emit" => out' = <<>>
  BY <1>1 DEF EventInv
<1> QED
  BY <1>2, <1>4, <1>5, <1>6, <1>7 DEF EventInv

LEMMA EventNext == TypeInv /\ TypeInv' /\ EventInv /\ [Next]_hub => EventInv'
<1> SUFFICES ASSUME TypeInv, TypeInv', EventInv, [Next]_hub PROVE EventInv'
  OBVIOUS
<1>1. CASE /\ \/ Sources \/ RecvEvent \/ RecvMap \/ Tick \/ Workers
              \/ ApplyScan \/ SpawnWorker \/ SpawnFails \/ SubmitScan
           /\ UNCHANGED view
  BY <1>1, QuietTells
<1>2. CASE /\ \/ ApplyStatus \/ ApplyTelemetry \/ PublishMapInfo \/ RecvTracked
              \/ \E c \in Car : ReportRate(c)
           /\ UNCHANGED view
  BY <1>2, StatusTells, TelemetryTells, MapTells, TrackedTells, RateTells
<1>3. CASE EmitNext /\ UNCHANGED view
  BY <1>3, EmitTells
<1>4. CASE Sessions
  BY <1>4, ForwardTells, SessionTells DEF Sessions
<1>5. CASE UNCHANGED hub
  <2>1. UNCHANGED <<cars, conn, unread, lagged, view, out, pc>>
    BY <1>5 DEF hub, vars, hubVars, pipeVars
  <2> QED
    BY <2>1, NothingToTell DEF SnapshotOf, NewSnapshot
<1> QED
  BY <1>1, <1>2, <1>3, <1>4, <1>5 DEF Next, Handle

(* A session that never lagged loses nothing, whenever it subscribed.      *)
THEOREM HubNoEventLost == Spec => []NoEventLost
<1>1. TypeInv /\ EventInv => NoEventLost
  <2> SUFFICES ASSUME TypeInv, EventInv,
                      NEW s \in Client, conn[s] # "off", ~lagged[s],
                      NEW c \in Car, NEW f \in LiveField
               PROVE  LET coming == Coming(s)
                          concerning == {i \in DOMAIN coming : Concerns(coming[i], c, f)}
                      IN /\ \A i \in concerning :
                              (\A j \in concerning : j <= i) => coming[i].val = SnapshotOf(c)[f]
                         /\ conn[s] \in {"greeting", "live"} /\ concerning = {} =>
                              view[s][c][f] = SnapshotOf(c)[f]
    BY DEF NoEventLost
  <2> DEFINE q == Coming(s)
             v == SnapshotOf(c)[f]
  <2>1. Informed(q, IF Greeted(s) THEN view[s][c][f] ELSE v, c, f, v)
    BY DEF EventInv, SessionInformed
  <2>2. DOMAIN q \subseteq Nat
    <3>1. q \in Seq(WsEvent)
      BY EventSeqs, ConcatProperties DEF Coming
    <3> QED
      BY <3>1, LenProperties
  <2> HIDE DEF q, v
  <2>3. ASSUME NEW i \in DOMAIN q, Concerns(q[i], c, f),
               \A j \in DOMAIN q : Concerns(q[j], c, f) => j <= i
        PROVE  q[i].val = v
    <3>1. Told(q, c, f, v)
      BY <2>1, <2>3 DEF Informed, Silent
    <3>2. PICK k \in DOMAIN q : /\ Concerns(q[k], c, f) /\ q[k].val = v
                                /\ \A j \in DOMAIN q : j > k => ~Concerns(q[j], c, f)
      BY <3>1 DEF Told
    <3>3. k = i
      BY <2>2, <2>3, <3>2
    <3> QED
      BY <3>2, <3>3
  <2>4. Greeted(s) /\ Silent(q, c, f) => view[s][c][f] = v
    BY <2>1 DEF Informed
  <2> QED
    BY <2>3, <2>4 DEF q, v, Greeted, Silent
<1> QED
  BY TypeInit, TypeNext, EventInit, EventNext, <1>1, PTL DEF Spec

----------------------------------------------------------------------------
(* The stored map is the one the snapshot describes, except between        *)
(* storing a map and saying so; the rest of MapDescribed is what           *)
(* NoEventLost says of the field map.                                      *)
MapStored ==
  /\ pc = "mapinfo" => cur.val = maps[cur.car]
  /\ \A c \in Car : ~(pc = "mapinfo" /\ cur.car = c) => SnapshotOf(c).map = maps[c]

LEMMA MapStoredInit == Init => MapStored
BY DEF Init, HubInit, PipelineInit, MapStored, SnapshotOf, NewSnapshot

LEMMA MapStoredKept ==
  ASSUME MapStored, UNCHANGED maps, pc # "mapinfo", pc' # "mapinfo",
         \A c \in Car : SnapshotOf(c)'.map = SnapshotOf(c).map
  PROVE  MapStored'
BY DEF MapStored

LEMMA MapStoredNext == TypeInv /\ MapStored /\ [Next]_hub => MapStored'
<1> SUFFICES ASSUME TypeInv, MapStored, [Next]_hub PROVE MapStored'
  OBVIOUS
<1> USE DEF TypeInv, TypeOK
<1>0. \A c \in Car : SnapshotOf(c) \in CarSnapshot
  BY SnapshotTyped
<1>1. ASSUME UNCHANGED <<cars, maps>>, UNCHANGED <<pc, cur>> \/ (pc # "mapinfo" /\ pc' # "mapinfo")
      PROVE  MapStored'
  BY <1>1 DEF MapStored, SnapshotOf, NewSnapshot
<1>2. CASE Sessions \/ UNCHANGED hub \/ Tick \/ SpawnWorker \/ SpawnFails \/ SubmitScan
           \/ Workers \/ EmitNext
  <2>1. UNCHANGED <<cars, maps>> /\ (UNCHANGED <<pc, cur>> \/ (pc # "mapinfo" /\ pc' # "mapinfo"))
    BY <1>2 DEF Sessions, Subscribe, TakeSnapshots, SendHello, Forward, Disconnect, hub, vars,
       hubVars, pipeVars, Tick, SpawnWorker, SpawnFails, SubmitScan, ThenSelect, Workers, EmitNext
  <2> QED
    BY <1>1, <2>1
<1>3. CASE Sources
  BY <1>1, <1>3, SourcesArrive DEF Arrive, hubVars
<1>4. ASSUME NEW c \in Car, NEW r \in CarSnapshot, UpdateCar(c, r), r.map = SnapshotOf(c).map,
             UNCHANGED maps, pc # "mapinfo", pc' # "mapinfo"
      PROVE  MapStored'
  BY <1>4, UpdateTyped, MapStoredKept
<1>5. CASE RecvEvent
  <2>1. cur' \in CarEvent
    BY <1>5 DEF RecvEvent, PipelineTypeOK
  <2>2. cur'.car \in Car /\ cur'.at \in Nat
    BY <2>1 DEF CarEvent
  <2> DEFINE r == [SnapshotOf(cur'.car) EXCEPT !.last_seen_ms = cur'.at]
  <2>3. r \in CarSnapshot /\ r.map = SnapshotOf(cur'.car).map
    BY <1>0, <2>2 DEF CarSnapshot
  <2> QED
    BY <1>4, <1>5, <2>2, <2>3 DEF RecvEvent
<1>6. CASE ApplyStatus
  <2> DEFINE r == [SnapshotOf(cur.car) EXCEPT !.status = cur.val]
  <2>1. cur.car \in Car /\ cur.val \in Status
    BY <1>6, CurTyped DEF ApplyStatus
  <2>2. r \in CarSnapshot /\ r.map = SnapshotOf(cur.car).map
    BY <1>0, <2>1 DEF CarSnapshot
  <2> QED
    BY <1>4, <1>6, <2>1, <2>2 DEF ApplyStatus, ThenEmit, ThenSelect
<1>7. CASE ApplyTelemetry
  <2> DEFINE r == [SnapshotOf(cur.car) EXCEPT !.telemetry = cur.at]
  <2>1. cur.car \in Car /\ cur.at \in Nat
    BY <1>7, CurTyped DEF ApplyTelemetry
  <2>2. r \in CarSnapshot /\ r.map = SnapshotOf(cur.car).map
    BY <1>0, <2>1 DEF CarSnapshot
  <2> QED
    BY <1>4, <1>7, <2>1, <2>2 DEF ApplyTelemetry, ThenEmit
<1>8. CASE ApplyScan
  <2> DEFINE r == [SnapshotOf(cur.car) EXCEPT !.scans_total = @ + 1]
  <2>1. cur.car \in Car
    BY <1>8, CurTyped DEF ApplyScan
  <2>2. SnapshotOf(cur.car).scans_total + 1 \in Nat
    BY <1>0, <2>1 DEF CarSnapshot
  <2>3. r \in CarSnapshot /\ r.map = SnapshotOf(cur.car).map
    BY <1>0, <2>1, <2>2 DEF CarSnapshot
  <2> QED
    BY <1>4, <1>8, <2>1, <2>3 DEF ApplyScan
<1>9. ASSUME NEW c \in Car, ReportRate(c) PROVE MapStored'
  <2> DEFINE r == [SnapshotOf(c) EXCEPT !.scan_hz = rates[c]]
  <2>1. rates[c] \in Nat
    BY <1>9 DEF ReportRate, PipelineTypeOK
  <2>2. r \in CarSnapshot /\ r.map = SnapshotOf(c).map
    BY <1>0, <2>1 DEF CarSnapshot
  <2> QED
    BY <1>4, <1>9, <2>2 DEF ReportRate, ThenEmit
<1>10. CASE RecvTracked
  <2> DEFINE o == Head(slam_rx)
             r == [SnapshotOf(o.car) EXCEPT
                     !.pose = o.val, !.trajectory = Extended(@, o.val), !.scan = o.val]
  <2>1. o.car \in Car /\ o.val \in Nat
    BY <1>10, RecvOutputTyped DEF RecvTracked, SlamOutput
  <2>2. Extended(SnapshotOf(o.car).trajectory, o.val) \in Seq(Nat)
    BY <1>0, <2>1, ExtendedTyped DEF CarSnapshot
  <2>3. r \in CarSnapshot /\ r.map = SnapshotOf(o.car).map
    BY <1>0, <2>1, <2>2 DEF CarSnapshot
  <2>4. UpdateCar(o.car, r) /\ UNCHANGED maps /\ pc # "mapinfo" /\ pc' # "mapinfo"
    BY <1>10 DEF RecvTracked, ThenEmit
  <2> HIDE DEF r
  <2> QED
    BY <1>4, <2>1, <2>3, <2>4
<1>11. CASE RecvMap
  <2> DEFINE o == Head(slam_rx)
  <2>1. o.car \in Car /\ o.val \in Nat
    BY <1>11, RecvOutputTyped DEF RecvMap, SlamOutput
  <2>2. /\ maps' = [maps EXCEPT ![o.car] = o.val] /\ maps \in [Car -> Nat]
        /\ cur' = o /\ pc = "select" /\ pc' = "mapinfo" /\ UNCHANGED cars
    BY <1>11 DEF RecvMap, InsertMap, HubTypeOK
  <2> HIDE DEF o
  <2>3. \A c \in Car : SnapshotOf(c)' = SnapshotOf(c)
    BY <2>2 DEF SnapshotOf, NewSnapshot
  <2> QED
    BY <2>1, <2>2, <2>3 DEF MapStored
<1>12. CASE PublishMapInfo
  <2> DEFINE r == [SnapshotOf(cur.car) EXCEPT !.map = cur.val]
  <2>1. cur.car \in Car /\ cur.val \in Nat
    BY <1>12, CurTyped DEF PublishMapInfo, HandlerInv
  <2>2. r \in CarSnapshot /\ r.map = maps[cur.car]
    BY <1>0, <1>12, <2>1 DEF CarSnapshot, PublishMapInfo, MapStored
  <2>3. UpdateCar(cur.car, r) /\ UNCHANGED maps /\ pc = "mapinfo" /\ pc' = "emit"
    BY <1>12 DEF PublishMapInfo, ThenEmit
  <2> HIDE DEF r
  <2>4. \A c \in Car : SnapshotOf(c)' = IF c = cur.car THEN r ELSE SnapshotOf(c)
    BY <2>1, <2>2, <2>3, UpdateTyped
  <2> QED
    BY <2>2, <2>3, <2>4 DEF MapStored
<1> QED
  BY <1>2, <1>3, <1>5, <1>6, <1>7, <1>8, <1>9, <1>10, <1>11, <1>12 DEF Next, Handle

(* A map newer than its MapInfo is served only while the newer MapInfo is  *)
(* on its way.                                                             *)
THEOREM HubMapDescribed == Spec => []MapDescribed
<1>1. TypeInv /\ EventInv /\ MapStored => MapDescribed
  <2> SUFFICES ASSUME TypeInv, EventInv, MapStored, NEW c \in Car,
                      ~(pc = "mapinfo" /\ cur.car = c /\ cur.val = MapPng(c))
               PROVE  /\ SnapshotOf(c).map = MapPng(c)
                      /\ \A s \in Client : Greeted(s) /\ ~lagged[s] =>
                           \/ view[s][c].map = MapPng(c)
                           \/ \E i \in DOMAIN Coming(s) :
                                Coming(s)[i] = Event("map", c, MapPng(c))
    BY DEF MapDescribed, Greeted
  <2>1. SnapshotOf(c).map = MapPng(c)
    BY DEF MapStored, MapPng
  <2>2. ASSUME NEW s \in Client, Greeted(s), ~lagged[s]
        PROVE  \/ view[s][c].map = MapPng(c)
               \/ \E i \in DOMAIN Coming(s) : Coming(s)[i] = Event("map", c, MapPng(c))
    <3> DEFINE q == Coming(s)
               v == MapPng(c)
    <3>1. "map" \in LiveField /\ conn[s] # "off"
      BY <2>2 DEF LiveField, Greeted
    <3>2. Informed(q, view[s][c]["map"], c, "map", SnapshotOf(c)["map"])
      BY <2>2, <3>1 DEF EventInv, SessionInformed
    <3>3. q \in Seq(WsEvent)
      BY EventSeqs, ConcatProperties DEF Coming
    <3>4. \A e \in WsEvent : Concerns(e, c, "map") /\ e.val = v => e = Event("map", c, v)
      BY DEF WsEvent, Concerns, Event
    <3>5. \A i \in DOMAIN q : q[i] \in WsEvent
      BY <3>3
    <3> HIDE DEF q, v
    <3> QED
      BY <2>1, <3>2, <3>4, <3>5 DEF Informed, Told, q, v
  <2> QED
    BY <2>1, <2>2
<1> QED
  BY TypeInit, TypeNext, EventInit, EventNext, MapStoredInit, MapStoredNext, <1>1, PTL DEF Spec

----------------------------------------------------------------------------
(* Numbers only go up. *)

(* What a step does to the numbered fields: nothing, or it gives those in  *)
(* set G of car c the value v.                                             *)
NumbersKept ==
  \A d \in Car, f \in NumberedField : SnapshotOf(d)[f]' = SnapshotOf(d)[f]

Writes(c, G, v) ==
  \A d \in Car, f \in NumberedField :
    SnapshotOf(d)[f]' = IF d = c /\ f \in G THEN v ELSE SnapshotOf(d)[f]

(* A telemetry sample is one that was handled, the scan is the pose's, and *)
(* a map is described after it is stored and before the next one is.       *)
NewsInv ==
  /\ \A c \in Car : SnapshotOf(c).telemetry <= EventsHandled
  /\ \A c \in Car : SnapshotOf(c).scan = SnapshotOf(c).pose
  /\ pc = "mapinfo" => SnapshotOf(cur.car).map < cur.val

(* What has to be known of the hub for each number to be a new one.        *)
Ground == TypeInv /\ Numbered /\ HubOrdered /\ MapInv /\ MapStored /\ NewsInv

LEMMA NumbersTyped ==
  ASSUME TypeInv
  PROVE  /\ NumberedField \subseteq LiveField
         /\ \A c \in Car, f \in NumberedField : SnapshotOf(c)[f] \in Nat
         /\ \A s \in Client, c \in Car, f \in NumberedField : view[s][c][f] \in Nat
<1>1. NumberedField \subseteq LiveField
  BY DEF NumberedField, LiveField
<1>2. ASSUME NEW c \in Car, NEW f \in NumberedField PROVE SnapshotOf(c)[f] \in Nat
  <2>1. SnapshotOf(c) \in CarSnapshot
    BY SnapshotTyped DEF TypeInv, TypeOK
  <2> QED
    BY <2>1 DEF CarSnapshot, NumberedField
<1>3. ASSUME NEW s \in Client, NEW c \in Car, NEW f \in NumberedField
      PROVE  view[s][c][f] \in Nat
  <2>1. view[s][c] \in LiveView
    BY DEF TypeInv, TypeOK
  <2> QED
    BY <2>1 DEF LiveView, NumberedField
<1> QED
  BY <1>1, <1>2, <1>3

LEMMA SameCarsKeepNumbers ==
  ASSUME UNCHANGED cars
  PROVE  NumbersKept
BY DEF NumbersKept, SnapshotOf, NewSnapshot

LEMMA NumbersLeft ==
  ASSUME TypeInv, NEW c \in Car, NEW r \in CarSnapshot, UpdateCar(c, r),
         \A f \in NumberedField : r[f] = SnapshotOf(c)[f]
  PROVE  NumbersKept
<1>1. \A d \in Car, f \in LiveField :
        SnapshotOf(d)[f]' = IF d = c THEN r[f] ELSE SnapshotOf(d)[f]
  BY LiveUpdated DEF TypeInv, TypeOK
<1>2. NumberedField \subseteq LiveField
  BY NumbersTyped
<1> QED
  BY <1>1, <1>2 DEF NumbersKept

(* The three handlers that write a number.                                 *)
LEMMA TelemetryWrites ==
  ASSUME TypeInv, ApplyTelemetry
  PROVE  cur.car \in Car /\ cur.at \in Nat /\ Writes(cur.car, {"telemetry"}, cur.at)
<1> DEFINE r == [SnapshotOf(cur.car) EXCEPT !.telemetry = cur.at]
<1>1. cur.car \in Car /\ cur.at \in Nat
  BY CurTyped DEF ApplyTelemetry, TypeInv, TypeOK
<1>2. SnapshotOf(cur.car) \in CarSnapshot
  BY <1>1, SnapshotTyped DEF TypeInv, TypeOK
<1>3. /\ r \in CarSnapshot
      /\ \A f \in NumberedField :
           r[f] = IF f \in {"telemetry"} THEN cur.at ELSE SnapshotOf(cur.car)[f]
  BY <1>1, <1>2 DEF CarSnapshot, NumberedField
<1>4. UpdateCar(cur.car, r)
  BY DEF ApplyTelemetry
<1> HIDE DEF r
<1>5. \A d \in Car, f \in LiveField :
        SnapshotOf(d)[f]' = IF d = cur.car THEN r[f] ELSE SnapshotOf(d)[f]
  BY <1>1, <1>3, <1>4, LiveUpdated DEF TypeInv, TypeOK
<1> QED
  BY <1>1, <1>3, <1>5, NumbersTyped DEF Writes

LEMMA MapInfoWrites ==
  ASSUME TypeInv, PublishMapInfo
  PROVE  cur.car \in Car /\ cur.val \in Nat /\ Writes(cur.car, {"map"}, cur.val)
<1> DEFINE r == [SnapshotOf(cur.car) EXCEPT !.map = cur.val]
<1>1. cur.car \in Car /\ cur.val \in Nat
  BY CurTyped DEF PublishMapInfo, HandlerInv, TypeInv, TypeOK
<1>2. SnapshotOf(cur.car) \in CarSnapshot
  BY <1>1, SnapshotTyped DEF TypeInv, TypeOK
<1>3. /\ r \in CarSnapshot
      /\ \A f \in NumberedField :
           r[f] = IF f \in {"map"} THEN cur.val ELSE SnapshotOf(cur.car)[f]
  BY <1>1, <1>2 DEF CarSnapshot, NumberedField
<1>4. UpdateCar(cur.car, r)
  BY DEF PublishMapInfo
<1> HIDE DEF r
<1>5. \A d \in Car, f \in LiveField :
        SnapshotOf(d)[f]' = IF d = cur.car THEN r[f] ELSE SnapshotOf(d)[f]
  BY <1>1, <1>3, <1>4, LiveUpdated DEF TypeInv, TypeOK
<1> QED
  BY <1>1, <1>3, <1>5, NumbersTyped DEF Writes

LEMMA TrackedWrites ==
  ASSUME TypeInv, RecvTracked
  PROVE  /\ Head(slam_rx).car \in Car /\ Head(slam_rx).val \in Nat
         /\ Writes(Head(slam_rx).car, {"pose", "scan"}, Head(slam_rx).val)
<1> DEFINE o == Head(slam_rx)
           r == [SnapshotOf(o.car) EXCEPT
                   !.pose = o.val, !.trajectory = Extended(@, o.val), !.scan = o.val]
<1>1. o.car \in Car /\ o.val \in Nat
  BY RecvOutputTyped DEF RecvTracked, SlamOutput, TypeInv, TypeOK
<1>2. SnapshotOf(o.car) \in CarSnapshot
  BY <1>1, SnapshotTyped DEF TypeInv, TypeOK
<1>3. Extended(SnapshotOf(o.car).trajectory, o.val) \in Seq(Nat)
  BY <1>1, <1>2, ExtendedTyped DEF CarSnapshot
<1>4. /\ r \in CarSnapshot
      /\ \A f \in NumberedField :
           r[f] = IF f \in {"pose", "scan"} THEN o.val ELSE SnapshotOf(o.car)[f]
  BY <1>1, <1>2, <1>3 DEF CarSnapshot, NumberedField
<1>5. UpdateCar(o.car, r)
  BY DEF RecvTracked
<1> HIDE DEF r, o
<1>6. \A d \in Car, f \in LiveField :
        SnapshotOf(d)[f]' = IF d = o.car THEN r[f] ELSE SnapshotOf(d)[f]
  BY <1>1, <1>4, <1>5, LiveUpdated DEF TypeInv, TypeOK
<1> QED
  BY <1>1, <1>4, <1>6, NumbersTyped DEF Writes, o

(* Every other step leaves the numbers of the snapshots alone.             *)
LEMMA OthersKeepNumbers ==
  ASSUME TypeInv, [Next]_hub, ~ApplyTelemetry, ~RecvTracked, ~PublishMapInfo
  PROVE  NumbersKept
<1> USE DEF TypeInv, TypeOK
<1>0. \A c \in Car : SnapshotOf(c) \in CarSnapshot
  BY SnapshotTyped
<1>1. CASE Sessions \/ UNCHANGED hub \/ RecvMap \/ Tick \/ EmitNext
           \/ SpawnWorker \/ SpawnFails \/ SubmitScan \/ Workers
  <2>1. UNCHANGED cars
    BY <1>1 DEF Sessions, Subscribe, TakeSnapshots, SendHello, Forward, Disconnect, hub, vars,
       hubVars, RecvMap, Tick, EmitNext, SpawnWorker, SpawnFails, SubmitScan, Workers
  <2> QED
    BY <2>1, SameCarsKeepNumbers
<1>2. CASE Sources
  BY <1>2, SourcesArrive, SameCarsKeepNumbers DEF Arrive, hubVars
<1>3. CASE RecvEvent
  <2> DEFINE c == cur'.car
             r == [SnapshotOf(c) EXCEPT !.last_seen_ms = cur'.at]
  <2>1. cur' \in CarEvent
    BY <1>3 DEF RecvEvent, PipelineTypeOK
  <2>2. c \in Car /\ cur'.at \in Nat
    BY <2>1 DEF CarEvent
  <2>3. r \in CarSnapshot /\ \A f \in NumberedField : r[f] = SnapshotOf(c)[f]
    BY <1>0, <2>2 DEF CarSnapshot, NumberedField
  <2>4. UpdateCar(c, r)
    BY <1>3 DEF RecvEvent
  <2> HIDE DEF r, c
  <2> QED
    BY <2>2, <2>3, <2>4, NumbersLeft
<1>4. CASE ApplyStatus
  <2> DEFINE r == [SnapshotOf(cur.car) EXCEPT !.status = cur.val]
  <2>1. cur.car \in Car /\ cur.val \in Status
    BY <1>4, CurTyped DEF ApplyStatus
  <2>2. r \in CarSnapshot /\ \A f \in NumberedField : r[f] = SnapshotOf(cur.car)[f]
    BY <1>0, <2>1 DEF CarSnapshot, NumberedField
  <2>3. UpdateCar(cur.car, r)
    BY <1>4 DEF ApplyStatus
  <2> HIDE DEF r
  <2> QED
    BY <2>1, <2>2, <2>3, NumbersLeft
<1>5. CASE ApplyScan
  <2> DEFINE r == [SnapshotOf(cur.car) EXCEPT !.scans_total = @ + 1]
  <2>1. cur.car \in Car
    BY <1>5, CurTyped DEF ApplyScan
  <2>2. SnapshotOf(cur.car).scans_total + 1 \in Nat
    BY <1>0, <2>1 DEF CarSnapshot
  <2>3. r \in CarSnapshot /\ \A f \in NumberedField : r[f] = SnapshotOf(cur.car)[f]
    BY <1>0, <2>1, <2>2 DEF CarSnapshot, NumberedField
  <2>4. UpdateCar(cur.car, r)
    BY <1>5 DEF ApplyScan
  <2> HIDE DEF r
  <2> QED
    BY <2>1, <2>3, <2>4, NumbersLeft
<1>6. ASSUME NEW c \in Car, ReportRate(c) PROVE NumbersKept
  <2> DEFINE r == [SnapshotOf(c) EXCEPT !.scan_hz = rates[c]]
  <2>1. rates[c] \in Nat
    BY <1>6 DEF ReportRate, PipelineTypeOK
  <2>2. r \in CarSnapshot /\ \A f \in NumberedField : r[f] = SnapshotOf(c)[f]
    BY <1>0, <2>1 DEF CarSnapshot, NumberedField
  <2>3. UpdateCar(c, r)
    BY <1>6 DEF ReportRate
  <2> HIDE DEF r
  <2> QED
    BY <2>2, <2>3, NumbersLeft
<1> QED
  BY <1>1, <1>2, <1>3, <1>4, <1>5, <1>6 DEF Next, Handle

LEMMA HandledGrows ==
  ASSUME TypeInv, TypeInv', Numbered, [Next]_hub
  PROVE  EventsHandled \in Nat /\ EventsHandled' \in Nat /\ EventsHandled <= EventsHandled'
<1>1. Numbered' /\ [Loop!Next]_loopVars
  BY Simulation
<1>2. EventsHandled \in Nat
  BY CountsTyped
<1>3. EventsHandled' = EventsHandled \/ EventsHandled' = EventsHandled + 1
  BY <1>1 DEF loopVars, Loop!Next, Loop!SpawnWorker, Loop!SubmitNext, Loop!Worker,
     Loop!ReadOutput, Loop!OtherEvent
<1> QED
  BY <1>2, <1>3

LEMMA FirstResult ==
  ASSUME TypeInv, RecvOutput
  PROVE  /\ Head(slam_rx).car \in Car /\ Head(slam_rx).val \in Nat
         /\ 1 \in DOMAIN slam_rx /\ slam_rx[1] = Head(slam_rx)
<1>1. slam_rx \in Seq(SlamOutput) /\ slam_rx # <<>>
  BY DEF RecvOutput, WorkerTypeOK, TypeInv, TypeOK
<1>2. Head(slam_rx) \in SlamOutput
  BY <1>1
<1> QED
  BY <1>1, <1>2 DEF SlamOutput

(* A number is written only when it is a new one: a sample that had not    *)
(* been handled, a result that is ahead of the pose, a map that was still  *)
(* to be described.                                                        *)
LEMMA TelemetryIsNew ==
  ASSUME Ground, ApplyTelemetry
  PROVE  /\ SnapshotOf(cur.car)["telemetry"] < cur.at
         /\ EventsHandled' = cur.at
<1>1. /\ Handling = 1 /\ Handling' = 0 /\ UNCHANGED <<rx, arrived>>
  BY DEF ApplyTelemetry, ThenEmit, Handling
<1>2. /\ EventsHandled \in Nat /\ EventsHandled' = EventsHandled + 1
      /\ cur.at = EventsHandled + 1
  BY <1>1, HandledNext DEF Ground
<1>3. cur.car \in Car
  BY TelemetryWrites DEF Ground
<1>4. SnapshotOf(cur.car).telemetry <= EventsHandled
  BY <1>3 DEF Ground, NewsInv
<1>5. SnapshotOf(cur.car)["telemetry"] \in Nat
  BY <1>3, NumbersTyped DEF Ground, NumberedField
<1> QED
  BY <1>2, <1>4, <1>5

LEMMA RotationIsNew ==
  ASSUME Ground, RecvTracked
  PROVE  /\ SnapshotOf(Head(slam_rx).car)["pose"] < Head(slam_rx).val
         /\ SnapshotOf(Head(slam_rx).car)["scan"] < Head(slam_rx).val
<1> DEFINE o == Head(slam_rx)
<1>1. o.car \in Car /\ o.kind = "tracked" /\ 1 \in DOMAIN slam_rx /\ slam_rx[1] = o
  BY FirstResult DEF RecvTracked, Ground
<1>2. IsTracked(slam_rx[1], o.car)
  BY <1>1 DEF IsTracked
<1>3. AheadOf(o.car, SnapshotOf(o.car).pose)
  BY <1>1 DEF Ground, HubOrdered, Ordered, Poses
<1>4. SnapshotOf(o.car).pose < o.val
  BY <1>1, <1>2, <1>3 DEF AheadOf
<1>5. SnapshotOf(o.car).scan = SnapshotOf(o.car).pose
  BY <1>1 DEF Ground, NewsInv
<1> QED
  BY <1>4, <1>5

LEMMA MapIsNew ==
  ASSUME Ground, PublishMapInfo
  PROVE  SnapshotOf(cur.car)["map"] < cur.val
BY DEF Ground, NewsInv, PublishMapInfo

LEMMA NewsInit == Init => NewsInv
<1> SUFFICES ASSUME Init PROVE NewsInv
  OBVIOUS
<1>1. EventsHandled = 0
  BY LoopInit DEF Init, Loop!Init
<1> QED
  BY <1>1 DEF Init, HubInit, PipelineInit, NewsInv, SnapshotOf, NewSnapshot

LEMMA NewsNext == Ground /\ TypeInv' /\ [Next]_hub => NewsInv'
<1> SUFFICES ASSUME Ground, TypeInv', [Next]_hub PROVE NewsInv'
  OBVIOUS
<1> USE DEF Ground
<1>0. /\ EventsHandled \in Nat /\ EventsHandled' \in Nat /\ EventsHandled <= EventsHandled'
      /\ {"telemetry", "pose", "scan", "map"} = NumberedField
  BY HandledGrows DEF NumberedField
<1>t. \A c \in Car, f \in NumberedField :
        SnapshotOf(c)[f] \in Nat /\ SnapshotOf(c)[f]' \in Nat
  <2>1. \A c \in Car, f \in NumberedField : SnapshotOf(c)[f] \in Nat
    BY NumbersTyped
  <2>2. \A c \in Car : SnapshotOf(c)' \in CarSnapshot
    BY NewSnapshotTyped DEF TypeInv, TypeOK, HubTypeOK, SnapshotOf, NewSnapshot
  <2>3. \A c \in Car, f \in NumberedField : SnapshotOf(c)[f]' \in Nat
    BY <2>2 DEF CarSnapshot, NumberedField
  <2> QED
    BY <2>1, <2>3
<1>1. ASSUME NEW c \in Car PROVE SnapshotOf(c)["telemetry"]' <= EventsHandled'
  <2>1. SnapshotOf(c)["telemetry"] <= EventsHandled
    BY DEF NewsInv
  <2>2. SnapshotOf(c)["telemetry"]' = SnapshotOf(c)["telemetry"]
        \/ SnapshotOf(c)["telemetry"]' = EventsHandled'
    <3>1. CASE ApplyTelemetry
      BY <1>0, <3>1, TelemetryWrites, TelemetryIsNew DEF Writes
    <3>2. CASE RecvTracked
      BY <1>0, <3>2, TrackedWrites DEF Writes
    <3>3. CASE PublishMapInfo
      BY <1>0, <3>3, MapInfoWrites DEF Writes
    <3>4. CASE ~ApplyTelemetry /\ ~RecvTracked /\ ~PublishMapInfo
      BY <1>0, <3>4, OthersKeepNumbers DEF NumbersKept
    <3> QED
      BY <3>1, <3>2, <3>3, <3>4
  <2> QED
    BY <1>0, <1>t, <2>1, <2>2
<1>2. ASSUME NEW c \in Car PROVE SnapshotOf(c)["scan"]' = SnapshotOf(c)["pose"]'
  <2>1. SnapshotOf(c)["scan"] = SnapshotOf(c)["pose"]
    BY DEF NewsInv
  <2>2. CASE ApplyTelemetry
    BY <1>0, <2>1, <2>2, TelemetryWrites DEF Writes
  <2>3. CASE RecvTracked
    BY <1>0, <2>1, <2>3, TrackedWrites DEF Writes
  <2>4. CASE PublishMapInfo
    BY <1>0, <2>1, <2>4, MapInfoWrites DEF Writes
  <2>5. CASE ~ApplyTelemetry /\ ~RecvTracked /\ ~PublishMapInfo
    BY <1>0, <2>1, <2>5, OthersKeepNumbers DEF NumbersKept
  <2> QED
    BY <2>2, <2>3, <2>4, <2>5
<1>3. ASSUME pc' = "mapinfo" PROVE SnapshotOf(cur.car)["map"]' < cur.val'
  <2>1. CASE RecvMap
    <3> DEFINE o == Head(slam_rx)
    <3>1. /\ o.car \in Car /\ o.val \in Nat /\ o.kind = "map"
          /\ 1 \in DOMAIN slam_rx /\ slam_rx[1] = o
      BY <2>1, FirstResult DEF RecvMap
    <3>2. maps[o.car] < o.val
      BY <3>1 DEF MapInv, InFlight, IsMap
    <3>3. SnapshotOf(o.car).map = maps[o.car]
      BY <2>1, <3>1 DEF MapStored, RecvMap
    <3>4. cur' = o /\ UNCHANGED cars
      BY <2>1 DEF RecvMap
    <3> QED
      BY <3>2, <3>3, <3>4 DEF SnapshotOf, NewSnapshot
  <2>2. CASE ~RecvMap
    <3>1. pc = "mapinfo" /\ UNCHANGED <<cur, cars>>
      <4>1. CASE Sources
        BY <1>3, <4>1, SourcesArrive DEF Arrive, hubVars, TypeInv, TypeOK
      <4>2. CASE ~Sources
        BY <1>3, <2>2, <4>2 DEF Next, Handle, hub, vars, pipeVars, hubVars, RecvEvent, RecvTracked,
           Tick, Workers, ApplyStatus, ApplyTelemetry, ApplyScan, SpawnWorker, SpawnFails,
           SubmitScan, PublishMapInfo, ReportRate, EmitNext, ThenEmit, ThenSelect,
           Sessions, Subscribe, TakeSnapshots, SendHello, Forward, Disconnect
      <4> QED
        BY <4>1, <4>2
    <3> QED
      BY <3>1 DEF NewsInv, SnapshotOf, NewSnapshot
  <2> QED
    BY <2>1, <2>2
<1> QED
  BY <1>1, <1>2, <1>3 DEF NewsInv

LEMMA GroundInit == Init => Ground
BY TypeInit, NumberedInit, HubOrderedInit, MapInvInit, MapStoredInit, NewsInit DEF Ground

LEMMA GroundNext == Ground /\ [Next]_hub => Ground'
<1> SUFFICES ASSUME Ground, [Next]_hub PROVE Ground'
  OBVIOUS
<1>1. TypeInv /\ Numbered /\ HubOrdered /\ MapInv /\ MapStored
  BY DEF Ground
<1>2. TypeInv'
  BY <1>1, TypeNext
<1>3. Numbered'
  BY <1>1, Simulation
<1> QED
  BY <1>1, <1>2, <1>3, HubOrderedNext, MapInvNext, MapStoredNext, NewsNext DEF Ground

(* What the hub holds of a car only advances.                              *)
LEMMA NumbersAdvance ==
  ASSUME Ground, [Next]_hub, NEW c \in Car
  PROVE  \A f \in NumberedField : SnapshotOf(c)[f] <= SnapshotOf(c)[f]'
<1> USE DEF Ground
<1>0. \A d \in Car, f \in NumberedField : SnapshotOf(d)[f] \in Nat
  BY NumbersTyped
<1>1. CASE ApplyTelemetry
  BY <1>0, <1>1, TelemetryWrites, TelemetryIsNew DEF Writes
<1>2. CASE RecvTracked
  BY <1>0, <1>2, TrackedWrites, RotationIsNew DEF Writes
<1>3. CASE PublishMapInfo
  BY <1>0, <1>3, MapInfoWrites, MapIsNew DEF Writes
<1>4. CASE ~ApplyTelemetry /\ ~RecvTracked /\ ~PublishMapInfo
  BY <1>0, <1>4, OthersKeepNumbers DEF NumbersKept
<1> QED
  BY <1>1, <1>2, <1>3, <1>4

LEMMA MapsAdvance ==
  ASSUME Ground, [Next]_hub, NEW c \in Car
  PROVE  maps[c] <= maps[c]'
<1> USE DEF Ground, TypeInv, TypeOK
<1>0. maps \in [Car -> Nat]
  BY DEF HubTypeOK
<1>1. CASE RecvMap
  <2> DEFINE o == Head(slam_rx)
  <2>1. /\ o.car \in Car /\ o.val \in Nat /\ o.kind = "map"
        /\ 1 \in DOMAIN slam_rx /\ slam_rx[1] = o
    BY <1>1, FirstResult DEF RecvMap
  <2>2. maps[o.car] < o.val
    BY <2>1 DEF MapInv, InFlight, IsMap
  <2>3. maps' = [maps EXCEPT ![o.car] = o.val]
    BY <1>1 DEF RecvMap, InsertMap
  <2> HIDE DEF o
  <2> QED
    BY <1>0, <2>1, <2>2, <2>3
<1>2. CASE ~RecvMap
  <2>1. UNCHANGED maps
    <3>1. CASE Sources
      BY <3>1, SourcesArrive, SMTT(30) DEF Arrive, hubVars
    <3>2. CASE ~Sources
      BY <1>2, <3>2 DEF Next, Handle, hub, vars, hubVars, RecvEvent, RecvTracked,
         Tick, Workers, ApplyStatus, ApplyTelemetry, ApplyScan, SpawnWorker, SpawnFails,
         SubmitScan, PublishMapInfo, ReportRate, EmitNext,
         Sessions, Subscribe, TakeSnapshots, SendHello, Forward, Disconnect
    <3> QED
      BY <3>1, <3>2
  <2> QED
    BY <1>0, <2>1
<1> QED
  BY <1>1, <1>2

(* What the hub holds of a car, and the map it stores, only advance.       *)
THEOREM HubSnapshotsAdvance == Spec => SnapshotsAdvance
<1>1. Ground /\ [Next]_hub =>
        [\A c \in Car :
           /\ \A f \in NumberedField : SnapshotOf(c)[f] <= SnapshotOf(c)'[f]
           /\ MapPng(c) <= MapPng(c)']_hub
  BY NumbersAdvance, MapsAdvance DEF MapPng
<1> QED
  BY GroundInit, GroundNext, <1>1, PTL DEF Spec, SnapshotsAdvance

----------------------------------------------------------------------------
(* Numbers reach every session in order, also one that lags. *)

(* What concerns field f of car c in a sequence of events goes up, and     *)
(* ends at the value v the hub holds.                                      *)
Rising(q, c, f) ==
  \A i, j \in DOMAIN q :
    i < j /\ Concerns(q[i], c, f) /\ Concerns(q[j], c, f) => q[i].val < q[j].val

Follows(q, c, f, v) == Rising(q, c, f) /\ (Silent(q, c, f) \/ Told(q, c, f, v))

(* A client that holds w is not ahead of the hub, and what is older than w *)
(* on its way to it is followed by w.                                      *)
Reaches(q, c, f, w, v) ==
  /\ w <= v
  /\ \A i \in DOMAIN q : Concerns(q[i], c, f) /\ q[i].val < w =>
       \E j \in DOMAIN q : Concerns(q[j], c, f) /\ q[j].val = w

QueueInv ==
  \A c \in Car, f \in NumberedField :
    LET v == SnapshotOf(c)[f]
    IN /\ Follows(out, c, f, v)
       /\ \A s \in Client :
            /\ Follows(Coming(s), c, f, v)
            /\ Greeted(s) => Reaches(Coming(s), c, f, view[s][c][f], v)

(* The one event of q that concerns field f of car c says v.               *)
Only(q, c, f, v) ==
  \E i \in DOMAIN q :
    /\ Concerns(q[i], c, f) /\ q[i].val = v
    /\ \A j \in DOMAIN q : j # i => ~Concerns(q[j], c, f)

LEMMA EventNumbers ==
  ASSUME NEW q \in Seq(WsEvent), NEW c, NEW f \in NumberedField
  PROVE  /\ DOMAIN q \subseteq Nat
         /\ \A i \in DOMAIN q : Concerns(q[i], c, f) => q[i].val \in Nat
<1>1. \A i \in DOMAIN q : q[i] \in WsEvent
  OBVIOUS
<1>2. \A e \in WsEvent : Concerns(e, c, f) => e.val \in Nat
  BY DEF WsEvent, Concerns, NumberedField
<1>3. DOMAIN q \subseteq Nat
  BY LenProperties
<1> QED
  BY <1>1, <1>2, <1>3

LEMMA FollowsBounded ==
  ASSUME NEW q \in Seq(WsEvent), NEW c, NEW f \in NumberedField, NEW v \in Nat,
         Follows(q, c, f, v)
  PROVE  \A i \in DOMAIN q : Concerns(q[i], c, f) => q[i].val <= v
<1> SUFFICES ASSUME NEW i \in DOMAIN q, Concerns(q[i], c, f)
             PROVE  q[i].val <= v
  OBVIOUS
<1>1. PICK k \in DOMAIN q : /\ Concerns(q[k], c, f) /\ q[k].val = v
                            /\ \A j \in DOMAIN q : j > k => ~Concerns(q[j], c, f)
  BY DEF Follows, Silent, Told
<1>2. i \in Nat /\ k \in Nat /\ q[i].val \in Nat
  BY EventNumbers
<1>3. i = k \/ i < k
  BY <1>1, <1>2
<1>4. i < k => q[i].val < v
  BY <1>1 DEF Follows, Rising
<1> QED
  BY <1>1, <1>2, <1>3, <1>4

(* The first event goes: read by the client, or lost to a receiver that    *)
(* lags.                                                                   *)
LEMMA TailFollows ==
  ASSUME NEW q \in Seq(WsEvent), q # <<>>, NEW c, NEW f \in NumberedField, NEW v \in Nat,
         Follows(q, c, f, v)
  PROVE  Follows(Tail(q), c, f, v)
<1> DEFINE t == Tail(q)
           n == Len(q)
<1>1. /\ DOMAIN q = 1..n /\ DOMAIN t = 1..(n - 1) /\ n \in Nat \ {0}
      /\ \A i \in 1..(n - 1) : t[i] = q[i + 1]
  BY HeadTailProperties, LenProperties, EmptySeq
<1>2. Silent(t, c, f) \/ Told(t, c, f, v)
  BY TailTells DEF Follows
<1> HIDE DEF t, n
<1>3. ASSUME NEW i \in DOMAIN t, NEW j \in DOMAIN t, i < j, Concerns(t[i], c, f),
             Concerns(t[j], c, f)
      PROVE  t[i].val < t[j].val
  <2>1. i + 1 \in DOMAIN q /\ j + 1 \in DOMAIN q /\ i + 1 < j + 1
    BY <1>1, <1>3
  <2>2. t[i] = q[i + 1] /\ t[j] = q[j + 1]
    BY <1>1, <1>3
  <2> QED
    BY <1>3, <2>1, <2>2 DEF Follows, Rising
<1> QED
  BY <1>2, <1>3 DEF Follows, Rising, t

LEMMA TailReaches ==
  ASSUME NEW q \in Seq(WsEvent), q # <<>>, NEW c, NEW f \in NumberedField, NEW v \in Nat,
         NEW w \in Nat, Follows(q, c, f, v), Reaches(q, c, f, w, v)
  PROVE  Reaches(Tail(q), c, f, w, v)
<1> DEFINE t == Tail(q)
           n == Len(q)
<1>1. /\ DOMAIN q = 1..n /\ DOMAIN t = 1..(n - 1) /\ n \in Nat \ {0}
      /\ \A i \in 1..(n - 1) : t[i] = q[i + 1]
  BY HeadTailProperties, LenProperties, EmptySeq
<1> HIDE DEF t, n
<1>2. ASSUME NEW i \in DOMAIN t, Concerns(t[i], c, f), t[i].val < w
      PROVE  \E j \in DOMAIN t : Concerns(t[j], c, f) /\ t[j].val = w
  <2>1. i + 1 \in DOMAIN q /\ t[i] = q[i + 1] /\ i \in Nat \ {0}
    BY <1>1, <1>2
  <2>2. PICK k \in DOMAIN q : Concerns(q[k], c, f) /\ q[k].val = w
    BY <1>2, <2>1 DEF Reaches
  <2>3. k # 1
    <3> SUFFICES ASSUME k = 1 PROVE FALSE
      OBVIOUS
    <3>1. q[1].val < q[i + 1].val
      BY <1>2, <2>1, <2>2 DEF Follows, Rising
    <3>2. q[1].val = w /\ q[i + 1].val < w /\ q[i + 1].val \in Nat
      BY <1>2, <2>1, <2>2, EventNumbers
    <3> QED
      BY <3>1, <3>2
  <2>4. k - 1 \in DOMAIN t /\ t[k - 1] = q[k]
    BY <1>1, <2>2, <2>3
  <2> QED
    BY <2>2, <2>4
<1> QED
  BY <1>2 DEF Reaches, t

(* What the client has just read is older than all that is to come.        *)
LEMMA HeadReaches ==
  ASSUME NEW q \in Seq(WsEvent), q # <<>>, NEW c, NEW f \in NumberedField, NEW v \in Nat,
         Follows(q, c, f, v), Concerns(Head(q), c, f)
  PROVE  Reaches(Tail(q), c, f, Head(q).val, v)
<1> DEFINE t == Tail(q)
           n == Len(q)
           e == Head(q)
<1>1. /\ DOMAIN q = 1..n /\ DOMAIN t = 1..(n - 1) /\ n \in Nat \ {0} /\ e = q[1]
      /\ \A i \in 1..(n - 1) : t[i] = q[i + 1]
  BY HeadTailProperties, LenProperties, EmptySeq
<1> HIDE DEF t, n, e
<1>2. e.val <= v /\ e.val \in Nat
  BY <1>1, FollowsBounded, EventNumbers DEF e
<1>3. ASSUME NEW i \in DOMAIN t, Concerns(t[i], c, f) PROVE ~(t[i].val < e.val)
  <2>1. i + 1 \in DOMAIN q /\ 1 \in DOMAIN q /\ t[i] = q[i + 1] /\ 1 < i + 1
    BY <1>1, <1>3
  <2>2. Concerns(q[1], c, f)
    BY <1>1 DEF e
  <2>3. q[1].val < q[i + 1].val /\ q[i + 1].val \in Nat /\ q[1].val \in Nat
    BY <1>3, <2>1, <2>2, EventNumbers DEF Follows, Rising
  <2> QED
    BY <1>1, <2>1, <2>3
<1> QED
  BY <1>2, <1>3 DEF Reaches, t, e

(* A client that has just been given the snapshots.                        *)
LEMMA SnapshotReaches ==
  ASSUME NEW q \in Seq(WsEvent), NEW c, NEW f \in NumberedField, NEW v \in Nat,
         Follows(q, c, f, v)
  PROVE  Reaches(q, c, f, v, v)
BY DEF Follows, Silent, Told, Reaches

(* Events that say nothing of a field, or one number newer than all.       *)
LEMMA JoinShape ==
  ASSUME NEW u \in Seq(WsEvent), NEW o \in Seq(WsEvent)
  PROVE  /\ u \o o \in Seq(WsEvent)
         /\ \A i \in DOMAIN u : i \in DOMAIN (u \o o) /\ (u \o o)[i] = u[i]
         /\ \A i \in DOMAIN (u \o o) :
              \/ i \in DOMAIN u
              \/ /\ i > Len(u) /\ i - Len(u) \in DOMAIN o
                 /\ (u \o o)[i] = o[i - Len(u)]
         /\ \A i \in DOMAIN u : i <= Len(u)
         /\ Len(u) \in Nat /\ DOMAIN (u \o o) \subseteq Nat
<1> DEFINE r == u \o o
           m == Len(u)
           n == Len(o)
<1>1. /\ r \in Seq(WsEvent) /\ DOMAIN r = 1..(m + n) /\ DOMAIN u = 1..m /\ DOMAIN o = 1..n
      /\ m \in Nat /\ n \in Nat
      /\ \A i \in 1..(m + n) : r[i] = IF i <= m THEN u[i] ELSE o[i - m]
  BY ConcatProperties, LenProperties
<1> HIDE DEF r, m, n
<1> QED
  BY <1>1 DEF r, m

LEMMA SilentJoins ==
  ASSUME NEW u \in Seq(WsEvent), NEW o \in Seq(WsEvent), NEW c, NEW f \in NumberedField,
         NEW v \in Nat, Follows(u, c, f, v), Silent(o, c, f)
  PROVE  /\ Follows(u \o o, c, f, v)
         /\ \A w \in Nat : Reaches(u, c, f, w, v) => Reaches(u \o o, c, f, w, v)
<1> DEFINE r == u \o o
           m == Len(u)
<1>1. /\ \A i \in DOMAIN u : i \in DOMAIN r /\ r[i] = u[i]
      /\ \A i \in DOMAIN r : \/ i \in DOMAIN u
                             \/ i > m /\ i - m \in DOMAIN o /\ r[i] = o[i - m]
  BY JoinShape
<1>2. Silent(r, c, f) \/ Told(r, c, f, v)
  BY ConcatTells DEF Follows
<1> HIDE DEF r, m
<1>3. \A i \in DOMAIN r : Concerns(r[i], c, f) => i \in DOMAIN u
  BY <1>1 DEF Silent
<1>4. Rising(r, c, f)
  BY <1>1, <1>3 DEF Follows, Rising
<1>5. ASSUME NEW w \in Nat, Reaches(u, c, f, w, v) PROVE Reaches(r, c, f, w, v)
  BY <1>1, <1>3, <1>5 DEF Reaches
<1> QED
  BY <1>2, <1>4, <1>5 DEF Follows, r

LEMMA NewsJoins ==
  ASSUME NEW u \in Seq(WsEvent), NEW o \in Seq(WsEvent), NEW c, NEW f \in NumberedField,
         NEW v \in Nat, NEW n \in Nat, v < n, Follows(u, c, f, v), Only(o, c, f, n)
  PROVE  /\ Follows(u \o o, c, f, n)
         /\ \A w \in Nat : Reaches(u, c, f, w, v) => Reaches(u \o o, c, f, w, n)
<1> DEFINE r == u \o o
           m == Len(u)
<1>1. /\ \A i \in DOMAIN u : i \in DOMAIN r /\ r[i] = u[i] /\ i <= m
      /\ \A i \in DOMAIN r : \/ i \in DOMAIN u
                             \/ i > m /\ i - m \in DOMAIN o /\ r[i] = o[i - m]
      /\ m \in Nat /\ DOMAIN r \subseteq Nat
  BY JoinShape
<1>2. Told(o, c, f, n)
  <2>1. PICK k \in DOMAIN o : /\ Concerns(o[k], c, f) /\ o[k].val = n
                              /\ \A j \in DOMAIN o : j # k => ~Concerns(o[j], c, f)
    BY DEF Only
  <2>2. DOMAIN o \subseteq Nat
    BY LenProperties
  <2> QED
    BY <2>1, <2>2 DEF Told
<1>3. Told(r, c, f, n)
  BY <1>2, ConcatTells
<1>4. PICK k \in DOMAIN o : \A j \in DOMAIN o : Concerns(o[j], c, f) => j = k /\ o[j].val = n
  BY DEF Only
<1>5. \A i \in DOMAIN u : Concerns(u[i], c, f) => u[i].val <= v /\ u[i].val \in Nat
  BY FollowsBounded, EventNumbers
<1> HIDE DEF r, m
<1>6. \A i \in DOMAIN r : Concerns(r[i], c, f) =>
        \/ i \in DOMAIN u /\ r[i] = u[i] /\ r[i].val <= v /\ r[i].val \in Nat
        \/ i - m = k /\ i > m /\ r[i].val = n
  BY <1>1, <1>4, <1>5
<1>7. ASSUME NEW i \in DOMAIN r, NEW j \in DOMAIN r, i < j, Concerns(r[i], c, f),
             Concerns(r[j], c, f)
      PROVE  r[i].val < r[j].val
  <2>1. i \in Nat /\ j \in Nat
    BY <1>1
  <2>2. CASE j \in DOMAIN u
    <3>1. i \in DOMAIN u
      BY <1>1, <1>6, <1>7, <2>1, <2>2
    <3> QED
      BY <1>1, <1>7, <2>2, <3>1 DEF Follows, Rising
  <2>3. CASE j \notin DOMAIN u
    <3>1. j - m = k /\ r[j].val = n
      BY <1>6, <1>7, <2>3
    <3>2. i \in DOMAIN u /\ r[i].val <= v /\ r[i].val \in Nat
      BY <1>1, <1>6, <1>7, <2>1, <3>1
    <3> QED
      BY <3>1, <3>2
  <2> QED
    BY <2>2, <2>3
<1>8. ASSUME NEW w \in Nat, Reaches(u, c, f, w, v) PROVE Reaches(r, c, f, w, n)
  <2>1. w <= v /\ w <= n
    BY <1>8 DEF Reaches
  <2>2. ASSUME NEW i \in DOMAIN r, Concerns(r[i], c, f), r[i].val < w
        PROVE  \E j \in DOMAIN r : Concerns(r[j], c, f) /\ r[j].val = w
    <3>1. i \in DOMAIN u /\ r[i] = u[i]
      BY <1>6, <2>1, <2>2
    <3>2. PICK j \in DOMAIN u : Concerns(u[j], c, f) /\ u[j].val = w
      BY <1>8, <2>2, <3>1 DEF Reaches
    <3> QED
      BY <1>1, <3>2
  <2> QED
    BY <2>1, <2>2 DEF Reaches
<1> QED
  BY <1>3, <1>7, <1>8 DEF Follows, Rising, r

(* A handler that tells exactly what numbers it wrote.                     *)
Announces(c, f) ==
  \/ Silent(out', c, f) /\ SnapshotOf(c)[f]' = SnapshotOf(c)[f]
  \/ Only(out', c, f, SnapshotOf(c)[f]') /\ SnapshotOf(c)[f] < SnapshotOf(c)[f]'

LEMMA OnlyOfOne ==
  ASSUME NEW e, NEW c, NEW f
  PROVE  /\ Concerns(e, c, f) => Only(<<e>>, c, f, e.val)
         /\ ~Concerns(e, c, f) => Silent(<<e>>, c, f)
BY DEF Only, Silent

LEMMA OnlyOfTwo ==
  ASSUME NEW d, NEW e, NEW c, NEW f
  PROVE  /\ Concerns(d, c, f) /\ ~Concerns(e, c, f) => Only(<<d, e>>, c, f, d.val)
         /\ ~Concerns(d, c, f) /\ Concerns(e, c, f) => Only(<<d, e>>, c, f, e.val)
         /\ ~Concerns(d, c, f) /\ ~Concerns(e, c, f) => Silent(<<d, e>>, c, f)
<1> DEFINE q == <<d, e>>
<1>1. DOMAIN q = {1, 2} /\ q[1] = d /\ q[2] = e
  OBVIOUS
<1> HIDE DEF q
<1>2. /\ Concerns(d, c, f) /\ ~Concerns(e, c, f) => Only(q, c, f, d.val)
      /\ ~Concerns(d, c, f) /\ Concerns(e, c, f) => Only(q, c, f, e.val)
      /\ ~Concerns(d, c, f) /\ ~Concerns(e, c, f) => Silent(q, c, f)
  BY <1>1 DEF Only, Silent
<1> QED
  BY <1>2 DEF q

LEMMA EventConcerns ==
  ASSUME NEW g, NEW c, NEW v
  PROVE  /\ Event(g, c, v).val = v
         /\ \A d, f : Concerns(Event(g, c, v), d, f) <=> d = c /\ f = g
BY DEF Event, Concerns

LEMMA WritersAnnounce ==
  ASSUME Ground, ApplyTelemetry \/ RecvTracked \/ PublishMapInfo
  PROVE  /\ pc # "emit" /\ UNCHANGED <<conn, unread>>
         /\ \A c \in Car, f \in NumberedField : Announces(c, f)
<1> USE DEF Ground
<1>1. CASE ApplyTelemetry
  <2> DEFINE e == Event("telemetry", cur.car, cur.at)
  <2>1. /\ pc # "emit" /\ UNCHANGED <<conn, unread>> /\ out' = <<e>>
        /\ \A d \in Car, f \in NumberedField :
             SnapshotOf(d)[f]' =
               IF d = cur.car /\ f = "telemetry" THEN cur.at ELSE SnapshotOf(d)[f]
        /\ SnapshotOf(cur.car)["telemetry"] < cur.at
    BY <1>1, TelemetryWrites, TelemetryIsNew DEF ApplyTelemetry, ThenEmit, Writes
  <2>2. /\ e.val = cur.at
        /\ \A d, f : Concerns(e, d, f) <=> d = cur.car /\ f = "telemetry"
    BY EventConcerns
  <2> HIDE DEF e
  <2> QED
    BY <2>1, <2>2, OnlyOfOne DEF Announces
<1>2. CASE PublishMapInfo
  <2> DEFINE e == Event("map", cur.car, cur.val)
  <2>1. /\ pc # "emit" /\ UNCHANGED <<conn, unread>> /\ out' = <<e>>
        /\ \A d \in Car, f \in NumberedField :
             SnapshotOf(d)[f]' =
               IF d = cur.car /\ f = "map" THEN cur.val ELSE SnapshotOf(d)[f]
        /\ SnapshotOf(cur.car)["map"] < cur.val
    BY <1>2, MapInfoWrites, MapIsNew DEF PublishMapInfo, ThenEmit, Writes
  <2>2. /\ e.val = cur.val
        /\ \A d, f : Concerns(e, d, f) <=> d = cur.car /\ f = "map"
    BY EventConcerns
  <2> HIDE DEF e
  <2> QED
    BY <2>1, <2>2, OnlyOfOne DEF Announces
<1>3. CASE RecvTracked
  <2> DEFINE a == Head(slam_rx).car
             v == Head(slam_rx).val
             d == Event("pose", a, v)
             e == Event("scan", a, v)
  <2>1. /\ pc # "emit" /\ UNCHANGED <<conn, unread>> /\ out' = <<d, e>>
        /\ \A b \in Car, f \in NumberedField :
             SnapshotOf(b)[f]' =
               IF b = a /\ (f = "pose" \/ f = "scan") THEN v ELSE SnapshotOf(b)[f]
        /\ SnapshotOf(a)["pose"] < v /\ SnapshotOf(a)["scan"] < v
    BY <1>3, TrackedWrites, RotationIsNew DEF RecvTracked, ThenEmit, Writes
  <2>2. /\ d.val = v /\ e.val = v
        /\ \A b, f : Concerns(d, b, f) <=> b = a /\ f = "pose"
        /\ \A b, f : Concerns(e, b, f) <=> b = a /\ f = "scan"
    BY EventConcerns
  <2> HIDE DEF d, e, a, v
  <2>3. ASSUME NEW b \in Car, NEW f \in NumberedField PROVE Announces(b, f)
    <3>1. CASE b = a /\ f = "pose"
      <4>1. Only(<<d, e>>, b, f, v)
        BY <2>2, <3>1, OnlyOfTwo
      <4> QED
        BY <2>1, <3>1, <4>1 DEF Announces
    <3>2. CASE b = a /\ f = "scan"
      <4>1. Only(<<d, e>>, b, f, v)
        BY <2>2, <3>2, OnlyOfTwo
      <4> QED
        BY <2>1, <3>2, <4>1 DEF Announces
    <3>3. CASE ~(b = a /\ (f = "pose" \/ f = "scan"))
      <4>1. Silent(<<d, e>>, b, f)
        BY <2>2, <3>3, OnlyOfTwo
      <4> QED
        BY <2>1, <3>3, <4>1 DEF Announces
    <3> QED
      BY <3>1, <3>2, <3>3
  <2> QED
    BY <2>1, <2>3
<1> QED
  BY <1>1, <1>2, <1>3

(* Handlers that write no number broadcast none.                           *)
LEMMA OthersAnnounce ==
  ASSUME Ground, ApplyStatus \/ \E c \in Car : ReportRate(c)
  PROVE  /\ pc # "emit" /\ UNCHANGED <<conn, unread>>
         /\ UNCHANGED out \/ \A c \in Car, f \in NumberedField : Silent(out', c, f)
<1>1. CASE ApplyStatus
  <2>1. \A c \in Car, f \in NumberedField : Silent(<<Event("status", cur.car, cur.val)>>, c, f)
    BY OnlyOfOne, EventConcerns DEF NumberedField
  <2> QED
    BY <1>1, <2>1 DEF ApplyStatus, ThenEmit, ThenSelect
<1>2. ASSUME NEW d \in Car, ReportRate(d)
      PROVE  /\ pc # "emit" /\ UNCHANGED <<conn, unread>>
             /\ \A c \in Car, f \in NumberedField : Silent(out', c, f)
  <2>1. \A c \in Car, f \in NumberedField : Silent(<<Event("scan_hz", d, rates[d])>>, c, f)
    BY OnlyOfOne, EventConcerns DEF NumberedField
  <2> QED
    BY <1>2, <2>1 DEF ReportRate, ThenEmit
<1> QED
  BY <1>1, <1>2

LEMMA QueueAnnounced ==
  ASSUME TypeInv, TypeInv', EventInv, QueueInv, pc # "emit", UNCHANGED <<conn, unread, view>>,
         \A c \in Car, f \in NumberedField : Announces(c, f)
  PROVE  QueueInv'
<1> SUFFICES ASSUME NEW c \in Car, NEW f \in NumberedField
             PROVE  /\ Follows(out', c, f, SnapshotOf(c)[f]')
                    /\ \A s \in Client :
                         /\ Follows(Coming(s)', c, f, SnapshotOf(c)[f]')
                         /\ Greeted(s)' =>
                              Reaches(Coming(s)', c, f, view'[s][c][f], SnapshotOf(c)[f]')
  BY DEF QueueInv, Follows, Reaches, Rising, Silent, Told
<1> DEFINE v == SnapshotOf(c)[f]
           n == SnapshotOf(c)[f]'
<1>1. out = <<>> /\ out' \in Seq(WsEvent)
  BY DEF EventInv, TypeInv, TypeOK, PipelineTypeOK
<1>2. v \in Nat /\ n \in Nat
  <2>1. v \in Nat
    BY NumbersTyped
  <2>2. SnapshotOf(c)' \in CarSnapshot
    BY NewSnapshotTyped DEF TypeInv, TypeOK, HubTypeOK, SnapshotOf, NewSnapshot
  <2>3. n \in Nat
    BY <2>2 DEF CarSnapshot, NumberedField
  <2> QED
    BY <2>1, <2>3
<1>3. \/ Silent(out', c, f) /\ n = v
      \/ Only(out', c, f, n) /\ v < n
  BY DEF Announces
<1>4. <<>> \in Seq(WsEvent) /\ Follows(<<>>, c, f, v)
  BY DEF Follows, Rising, Silent
<1>5. <<>> \o out' = out'
  BY <1>1, ConcatEmptySeq
<1> HIDE DEF v, n
<1>6. ASSUME NEW u \in Seq(WsEvent), Follows(u, c, f, v)
      PROVE  /\ Follows(u \o out', c, f, n)
             /\ \A w \in Nat : Reaches(u, c, f, w, v) => Reaches(u \o out', c, f, w, n)
  BY <1>1, <1>2, <1>3, <1>6, SilentJoins, NewsJoins
<1>7. Follows(out', c, f, n)
  BY <1>4, <1>5, <1>6
<1>8. ASSUME NEW s \in Client
      PROVE  /\ Follows(Coming(s)', c, f, n)
             /\ Greeted(s)' => Reaches(Coming(s)', c, f, view'[s][c][f], n)
  <2>1. unread[s] \in Seq(WsEvent) /\ Coming(s) = unread[s] /\ Coming(s)' = unread[s] \o out'
    BY <1>1, EventSeqs, ConcatEmptySeq DEF Coming
  <2>2. Follows(unread[s], c, f, v)
    BY <2>1 DEF QueueInv, v
  <2>3. view[s][c][f] \in Nat
    BY NumbersTyped
  <2>4. Greeted(s)' => Reaches(unread[s], c, f, view[s][c][f], v)
    BY <2>1 DEF QueueInv, v, Greeted
  <2> QED
    BY <1>6, <2>1, <2>2, <2>3, <2>4
<1> QED
  BY <1>7, <1>8 DEF n

(* A step that changes no number and, for each session, neither its view   *)
(* nor the events on their way, or takes the first of them.                *)
LEMMA QueueKept ==
  ASSUME TypeInv, QueueInv, NumbersKept,
         UNCHANGED out \/ (out # <<>> /\ out' = Tail(out)),
         \A s \in Client :
           /\ view'[s] = view[s] /\ (Greeted(s)' => Greeted(s))
           /\ Coming(s)' = Coming(s) \/ (Coming(s) # <<>> /\ Coming(s)' = Tail(Coming(s)))
  PROVE  QueueInv'
<1> SUFFICES ASSUME NEW c \in Car, NEW f \in NumberedField
             PROVE  /\ Follows(out', c, f, SnapshotOf(c)[f]')
                    /\ \A s \in Client :
                         /\ Follows(Coming(s)', c, f, SnapshotOf(c)[f]')
                         /\ Greeted(s)' =>
                              Reaches(Coming(s)', c, f, view'[s][c][f], SnapshotOf(c)[f]')
  BY DEF QueueInv, Follows, Reaches, Rising, Silent, Told
<1> DEFINE v == SnapshotOf(c)[f]
<1>1. v \in Nat /\ SnapshotOf(c)[f]' = v
  BY NumbersTyped DEF NumbersKept
<1>2. out \in Seq(WsEvent) /\ Follows(out, c, f, v)
  BY EventSeqs DEF QueueInv
<1> HIDE DEF v
<1>3. Follows(out', c, f, v)
  BY <1>1, <1>2, TailFollows
<1>4. ASSUME NEW s \in Client
      PROVE  /\ Follows(Coming(s)', c, f, v)
             /\ Greeted(s)' => Reaches(Coming(s)', c, f, view'[s][c][f], v)
  <2> DEFINE q == Coming(s)
             w == view[s][c][f]
  <2>1. q \in Seq(WsEvent)
    BY EventSeqs, ConcatProperties DEF Coming
  <2>2. /\ Follows(q, c, f, v)
        /\ Greeted(s) => Reaches(q, c, f, w, v)
    BY DEF QueueInv, v
  <2>3. w \in Nat /\ view'[s][c][f] = w
    BY NumbersTyped
  <2>4. Coming(s)' = q \/ (q # <<>> /\ Coming(s)' = Tail(q))
    OBVIOUS
  <2> HIDE DEF q, w
  <2>5. q # <<>> => Follows(Tail(q), c, f, v)
    BY <1>1, <2>1, <2>2, TailFollows
  <2>6. q # <<>> /\ Greeted(s) => Reaches(Tail(q), c, f, w, v)
    BY <1>1, <2>1, <2>2, <2>3, TailReaches
  <2> QED
    BY <2>2, <2>3, <2>4, <2>5, <2>6
<1> QED
  BY <1>1, <1>3, <1>4

LEMMA EmitQueues ==
  ASSUME TypeInv, EventInv, QueueInv, EmitNext, UNCHANGED view
  PROVE  QueueInv'
<1>1. /\ out \in Seq(WsEvent) /\ out # <<>> /\ out' = Tail(out)
      /\ UNCHANGED <<cars, conn, view>> /\ Emit(Head(out))
  BY DEF EmitNext, TypeInv, TypeOK, PipelineTypeOK, HandlerInv
<1>2. NumbersKept
  BY <1>1, SameCarsKeepNumbers
<1>3. ASSUME NEW s \in Client
      PROVE  Coming(s)' = Coming(s) \/ (Coming(s) # <<>> /\ Coming(s)' = Tail(Coming(s)))
  <2> DEFINE u == unread[s]
  <2>1. u \in Seq(WsEvent) /\ Coming(s) = u \o out /\ Coming(s)' = unread'[s] \o Tail(out)
    BY <1>1, EventSeqs DEF Coming
  <2>2. CASE conn[s] = "off"
    <3>1. u = <<>> /\ unread'[s] = u
      BY <1>1, <2>2 DEF EventInv, Emit
    <3>2. u \o out = out /\ u \o Tail(out) = Tail(out)
      <4>1. Tail(out) \in Seq(WsEvent)
        BY <1>1, HeadTailProperties
      <4> QED
        BY <1>1, <3>1, <4>1, ConcatEmptySeq
    <3> QED
      BY <1>1, <2>1, <3>1, <3>2
  <2>3. CASE conn[s] # "off" /\ Len(u) < RingCap
    <3>1. unread'[s] = Append(u, Head(out))
      BY <1>1, <2>3 DEF Emit
    <3>2. Append(u, Head(out)) \o Tail(out) = u \o out
      BY <1>1, <2>1, AppendHead
    <3> QED
      BY <2>1, <3>1, <3>2
  <2>4. CASE conn[s] # "off" /\ ~(Len(u) < RingCap)
    <3>1. unread'[s] = Append(Tail(u), Head(out))
      BY <1>1, <2>4 DEF Emit
    <3>2. u # <<>>
      BY <2>1, <2>4, HubAssumption
    <3>3. Tail(u) \in Seq(WsEvent)
      BY <2>1, <3>2, HeadTailProperties
    <3>4. Append(Tail(u), Head(out)) \o Tail(out) = Tail(u) \o out
      BY <1>1, <3>3, AppendHead
    <3>5. Tail(u \o out) = Tail(u) \o out /\ u \o out # <<>>
      BY <1>1, <2>1, <3>2, TailOfConcat
    <3> QED
      BY <2>1, <3>1, <3>4, <3>5
  <2> QED
    BY <2>2, <2>3, <2>4
<1>4. \A s \in Client : view'[s] = view[s] /\ (Greeted(s)' => Greeted(s))
  BY <1>1 DEF Greeted
<1> QED
  BY <1>1, <1>2, <1>3, <1>4, QueueKept

(* A client reads its next event.                                          *)
LEMMA ForwardQueues ==
  ASSUME TypeInv, QueueInv, NEW s \in Client, Forward(s)
  PROVE  QueueInv'
<1> DEFINE q == Coming(s)
<1>1. /\ q \in Seq(WsEvent) /\ q # <<>> /\ Coming(s)' = Tail(q)
      /\ \A c \in Car, f \in LiveField :
           view'[s][c][f] = IF Concerns(Head(q), c, f) THEN Head(q).val ELSE view[s][c][f]
      /\ \A t \in Client : t # s => Coming(t)' = Coming(t) /\ view'[t] = view[t]
  BY ForwardReads
<1>2. UNCHANGED <<cars, conn, out>> /\ conn[s] = "live"
  BY DEF Forward, pipeVars
<1>3. NumbersKept
  BY <1>2, SameCarsKeepNumbers
<1> SUFFICES ASSUME NEW c \in Car, NEW f \in NumberedField
             PROVE  /\ Follows(out', c, f, SnapshotOf(c)[f]')
                    /\ \A t \in Client :
                         /\ Follows(Coming(t)', c, f, SnapshotOf(c)[f]')
                         /\ Greeted(t)' =>
                              Reaches(Coming(t)', c, f, view'[t][c][f], SnapshotOf(c)[f]')
  BY DEF QueueInv, Follows, Reaches, Rising, Silent, Told
<1> DEFINE v == SnapshotOf(c)[f]
<1>4. v \in Nat /\ SnapshotOf(c)[f]' = v /\ f \in LiveField
  BY <1>3, NumbersTyped DEF NumbersKept
<1>5. Follows(out', c, f, v)
  BY <1>2 DEF QueueInv
<1>6. ASSUME NEW t \in Client, t # s
      PROVE  /\ Follows(Coming(t)', c, f, v)
             /\ Greeted(t)' => Reaches(Coming(t)', c, f, view'[t][c][f], v)
  BY <1>1, <1>2, <1>6 DEF QueueInv, Greeted
<1>7. Follows(q, c, f, v) /\ Reaches(q, c, f, view[s][c][f], v) /\ view[s][c][f] \in Nat
  BY <1>2, NumbersTyped DEF QueueInv, Greeted
<1>8. view'[s][c][f] = IF Concerns(Head(q), c, f) THEN Head(q).val ELSE view[s][c][f]
  BY <1>1, <1>4
<1> HIDE DEF q, v
<1>9. Follows(Tail(q), c, f, v)
  BY <1>1, <1>4, <1>7, TailFollows
<1>10. Reaches(Tail(q), c, f, view'[s][c][f], v)
  <2>1. CASE Concerns(Head(q), c, f)
    BY <1>1, <1>4, <1>7, <1>8, <2>1, HeadReaches
  <2>2. CASE ~Concerns(Head(q), c, f)
    BY <1>1, <1>4, <1>7, <1>8, <2>2, TailReaches
  <2> QED
    BY <2>1, <2>2
<1> QED
  BY <1>1, <1>4, <1>5, <1>6, <1>9, <1>10

(* A session comes, is greeted, or goes.                                   *)
LEMMA SessionQueues ==
  ASSUME TypeInv, EventInv, QueueInv, NEW s \in Client,
         Subscribe(s) \/ TakeSnapshots(s) \/ SendHello(s) \/ Disconnect(s)
  PROVE  QueueInv'
<1>1. UNCHANGED <<cars, out>>
  BY DEF Subscribe, TakeSnapshots, SendHello, Disconnect, pipeVars
<1>2. /\ conn \in [Client -> {"off", "subscribed", "greeting", "live"}]
      /\ unread \in [Client -> Seq(WsEvent)]
      /\ view \in [Client -> [Car -> LiveView]]
      /\ out \in Seq(WsEvent)
  BY DEF TypeInv, TypeOK, HubTypeOK, PipelineTypeOK
<1>3. ASSUME NEW t \in Client, t # s
      PROVE  Coming(t)' = Coming(t) /\ view'[t] = view[t] /\ Greeted(t)' = Greeted(t)
  BY <1>1, <1>2, <1>3 DEF Subscribe, TakeSnapshots, SendHello, Disconnect, Coming, Greeted
<1> SUFFICES ASSUME NEW c \in Car, NEW f \in NumberedField
             PROVE  /\ Follows(out', c, f, SnapshotOf(c)[f]')
                    /\ \A t \in Client :
                         /\ Follows(Coming(t)', c, f, SnapshotOf(c)[f]')
                         /\ Greeted(t)' =>
                              Reaches(Coming(t)', c, f, view'[t][c][f], SnapshotOf(c)[f]')
  BY DEF QueueInv, Follows, Reaches, Rising, Silent, Told
<1> DEFINE v == SnapshotOf(c)[f]
<1>4. v \in Nat /\ SnapshotOf(c)[f]' = v /\ f \in LiveField
  BY <1>1, SameCarsKeepNumbers, NumbersTyped DEF NumbersKept
<1>5. Follows(out, c, f, v) /\ out' = out
  BY <1>1 DEF QueueInv
<1>6. ASSUME NEW t \in Client, t # s
      PROVE  /\ Follows(Coming(t)', c, f, v)
             /\ Greeted(t)' => Reaches(Coming(t)', c, f, view'[t][c][f], v)
  BY <1>3, <1>6 DEF QueueInv
<1>7. Follows(Coming(s), c, f, v) /\ Coming(s) \in Seq(WsEvent)
  BY EventSeqs, ConcatProperties DEF QueueInv, Coming
<1>8. /\ Follows(Coming(s)', c, f, v)
      /\ Greeted(s)' => Reaches(Coming(s)', c, f, view'[s][c][f], v)
  <2>1. CASE Subscribe(s)
    BY <1>1, <1>2, <1>7, <2>1 DEF Subscribe, Coming, Greeted
  <2>2. CASE TakeSnapshots(s)
    <3>1. Coming(s)' = Coming(s)
      BY <1>1, <2>2 DEF TakeSnapshots, Coming
    <3>2. view'[s][c][f] = v
      BY <1>2, <1>4, <2>2 DEF TakeSnapshots, KnownFields
    <3> HIDE DEF v
    <3>3. Reaches(Coming(s), c, f, v, v)
      BY <1>4, <1>7, SnapshotReaches
    <3> QED
      BY <1>7, <3>1, <3>2, <3>3
  <2>3. CASE SendHello(s)
    <3>1. Coming(s)' = Coming(s) /\ view' = view /\ Greeted(s)
      BY <1>1, <2>3 DEF SendHello, Coming, Greeted
    <3> QED
      BY <1>7, <3>1 DEF QueueInv
  <2>4. CASE Disconnect(s)
    <3>1. unread'[s] = <<>> /\ conn'[s] = "off"
      BY <1>2, <2>4 DEF Disconnect
    <3>2. Coming(s)' = out
      BY <1>1, <1>2, <3>1, ConcatEmptySeq DEF Coming
    <3> QED
      BY <1>5, <3>1, <3>2 DEF Greeted
  <2> QED
    BY <2>1, <2>2, <2>3, <2>4
<1> QED
  BY <1>4, <1>5, <1>6, <1>8

(* A handler that writes no number, whatever else it writes or tells.      *)
LEMMA QuietQueues ==
  ASSUME TypeInv, TypeInv', EventInv, QueueInv, NumbersKept, UNCHANGED <<conn, unread, view>>,
         \/ UNCHANGED out
         \/ pc # "emit" /\ \A c \in Car, f \in NumberedField : Silent(out', c, f)
  PROVE  QueueInv'
<1>1. CASE UNCHANGED out
  BY <1>1, QueueKept DEF Coming, Greeted
<1>2. CASE pc # "emit" /\ \A c \in Car, f \in NumberedField : Silent(out', c, f)
  BY <1>2, QueueAnnounced DEF Announces, NumbersKept
<1> QED
  BY <1>1, <1>2

LEMMA QueueInit == Init => QueueInv
<1> SUFFICES ASSUME Init, NEW c \in Car, NEW f \in NumberedField
             PROVE  LET v == SnapshotOf(c)[f]
                    IN /\ Follows(out, c, f, v)
                       /\ \A s \in Client :
                            /\ Follows(Coming(s), c, f, v)
                            /\ Greeted(s) => Reaches(Coming(s), c, f, view[s][c][f], v)
  BY DEF QueueInv
<1>1. out = <<>> /\ \A s \in Client : unread[s] = <<>> /\ conn[s] = "off"
  BY DEF Init, HubInit, PipelineInit
<1>2. \A s \in Client : Coming(s) = <<>>
  <2>1. <<>> \o <<>> = <<>>
    OBVIOUS
  <2> QED
    BY <1>1, <2>1 DEF Coming
<1>3. \A v : Follows(<<>>, c, f, v)
  BY DEF Follows, Rising, Silent
<1> QED
  BY <1>1, <1>2, <1>3 DEF Greeted

LEMMA QueueNext == Ground /\ TypeInv' /\ EventInv /\ QueueInv /\ [Next]_hub => QueueInv'
<1> SUFFICES ASSUME Ground, TypeInv', EventInv, QueueInv, [Next]_hub PROVE QueueInv'
  OBVIOUS
<1>0. TypeInv
  BY DEF Ground
<1>1. CASE (ApplyTelemetry \/ RecvTracked \/ PublishMapInfo) /\ UNCHANGED view
  BY <1>0, <1>1, WritersAnnounce, QueueAnnounced
<1>2. CASE EmitNext /\ UNCHANGED view
  BY <1>0, <1>2, EmitQueues
<1>3. CASE Sessions
  BY <1>0, <1>3, ForwardQueues, SessionQueues DEF Sessions
<1>n. ASSUME ~ApplyTelemetry, ~RecvTracked, ~PublishMapInfo PROVE NumbersKept
  BY <1>0, <1>n, OthersKeepNumbers
<1>4. CASE (ApplyStatus \/ \E c \in Car : ReportRate(c)) /\ UNCHANGED view
  <2>1. ~ApplyTelemetry /\ ~RecvTracked /\ ~PublishMapInfo
    BY <1>4 DEF ApplyStatus, ReportRate, ApplyTelemetry, RecvTracked, PublishMapInfo
  <2> QED
    BY <1>0, <1>4, <1>n, <2>1, OthersAnnounce, QuietQueues
<1>5. CASE UNCHANGED hub \/
           (UNCHANGED view /\ (\/ RecvEvent \/ RecvMap \/ Tick \/ Workers \/ Sources
                               \/ ApplyScan \/ SpawnWorker \/ SpawnFails \/ SubmitScan))
  <2>1. UNCHANGED <<conn, unread, view, out>>
    <3>1. CASE Sources /\ UNCHANGED view
      BY <1>0, <3>1, SourcesArrive DEF Arrive, hubVars, TypeInv, TypeOK
    <3>2. CASE ~Sources
      BY <1>5, <3>2 DEF hub, vars, hubVars, pipeVars, RecvEvent, RecvMap, Tick, Workers, ApplyScan,
         SpawnWorker, SpawnFails, SubmitScan, ThenSelect
    <3>3. CASE UNCHANGED hub
      BY <3>3 DEF hub, vars, hubVars, pipeVars
    <3> QED
      BY <1>5, <3>1, <3>2, <3>3
  <2>2. CASE ApplyTelemetry \/ RecvTracked \/ PublishMapInfo
    BY <1>1, <2>1, <2>2
  <2>3. CASE ~ApplyTelemetry /\ ~RecvTracked /\ ~PublishMapInfo
    BY <1>0, <1>n, <2>1, <2>3, QuietQueues
  <2> QED
    BY <2>2, <2>3
<1> QED
  BY <1>1, <1>2, <1>3, <1>4, <1>5 DEF Next, Handle

(* Every session is sent each pose, rotation, sample and map at most once  *)
(* and in order, and none before the snapshots have it.                    *)
THEOREM HubEventsInOrder == Spec => []EventsInOrder
<1>1. TypeInv /\ QueueInv => EventsInOrder
  <2> SUFFICES ASSUME TypeInv, QueueInv, NEW s \in Client, NEW c \in Car,
                      NEW f \in NumberedField, NEW i \in DOMAIN Coming(s),
                      Concerns(Coming(s)[i], c, f)
               PROVE  /\ Coming(s)[i].val <= SnapshotOf(c)[f]
                      /\ \A j \in DOMAIN Coming(s) :
                           i < j /\ Concerns(Coming(s)[j], c, f) =>
                             Coming(s)[i].val < Coming(s)[j].val
    BY DEF EventsInOrder
  <2> DEFINE q == Coming(s)
             v == SnapshotOf(c)[f]
  <2>1. Follows(q, c, f, v)
    BY DEF QueueInv
  <2>2. q \in Seq(WsEvent) /\ v \in Nat
    BY EventSeqs, ConcatProperties, NumbersTyped DEF Coming
  <2> HIDE DEF q, v
  <2>3. \A k \in DOMAIN q : Concerns(q[k], c, f) => q[k].val <= v
    BY <2>1, <2>2, FollowsBounded
  <2> QED
    BY <2>1, <2>3 DEF Follows, Rising, q, v
<1>2. Ground => TypeInv
  BY DEF Ground
<1> QED
  BY GroundInit, GroundNext, TypeInit, TypeNext, EventInit, EventNext, QueueInit, QueueNext,
     <1>1, <1>2, PTL DEF Spec

(* A client sees a car jump back only while the event that brings it       *)
(* forward again is on its way.                                            *)
LEMMA JumpsForward ==
  ASSUME TypeInv, QueueInv, [Next]_hub, NEW s \in Client, NEW c \in Car, NEW f \in NumberedField,
         conn[s] = "live", conn'[s] = "live", view'[s][c][f] < view[s][c][f]
  PROVE  \E i \in DOMAIN Coming(s)' :
           Concerns(Coming(s)'[i], c, f) /\ Coming(s)'[i].val = view[s][c][f]
<1> DEFINE q == Coming(s)
           w == view[s][c][f]
           e == Head(q)
<1>t. w \in Nat /\ f \in LiveField
  BY NumbersTyped
<1>1. Forward(s)
  <2>1. ~(view'[s] = view[s])
    BY <1>t
  <2>2. ASSUME NEW t \in Client, t # s, TakeSnapshots(t) \/ Forward(t) \/ Disconnect(t)
        PROVE  view'[s] = view[s]
    <3>1. view \in [Client -> [Car -> LiveView]]
      BY DEF TypeInv, TypeOK
    <3>2. CASE TakeSnapshots(t)
      BY <2>2, <3>1, <3>2 DEF TakeSnapshots
    <3>3. CASE Forward(t)
      BY <2>2, <3>3, ForwardReads
    <3>4. CASE Disconnect(t)
      BY <2>2, <3>1, <3>4 DEF Disconnect
    <3> QED
      BY <2>2, <3>2, <3>3, <3>4
  <2>3. Sessions
    BY <2>1 DEF Next, hub
  <2>4. PICK t \in Client : \/ Subscribe(t) \/ TakeSnapshots(t) \/ SendHello(t)
                            \/ Forward(t) \/ Disconnect(t)
    BY <2>3 DEF Sessions
  <2>5. ~Subscribe(t) /\ ~SendHello(t)
    BY <2>1 DEF Subscribe, SendHello
  <2>6. t = s
    BY <2>1, <2>2, <2>4, <2>5
  <2>7. ~TakeSnapshots(s) /\ ~Disconnect(s)
    BY DEF TakeSnapshots, Disconnect, TypeInv, TypeOK, HubTypeOK
  <2> QED
    BY <2>4, <2>5, <2>6, <2>7
<1>2. /\ q \in Seq(WsEvent) /\ q # <<>> /\ Coming(s)' = Tail(q)
      /\ view'[s][c][f] = IF Concerns(e, c, f) THEN e.val ELSE w
  BY <1>1, <1>t, ForwardReads
<1>3. Follows(q, c, f, SnapshotOf(c)[f]) /\ Reaches(q, c, f, w, SnapshotOf(c)[f])
  BY DEF QueueInv, Greeted
<1>4. Concerns(e, c, f) /\ e.val < w
  BY <1>2, <1>t
<1> HIDE DEF w
<1>5. /\ 1 \in DOMAIN q /\ e = q[1]
      /\ \A k \in DOMAIN q : k # 1 => k - 1 \in DOMAIN Tail(q) /\ Tail(q)[k - 1] = q[k]
  <2>1. /\ DOMAIN q = 1..Len(q) /\ DOMAIN Tail(q) = 1..(Len(q) - 1) /\ Len(q) \in Nat \ {0}
        /\ e = q[1] /\ \A i \in 1..(Len(q) - 1) : Tail(q)[i] = q[i + 1]
    BY <1>2, HeadTailProperties, LenProperties, EmptySeq
  <2> QED
    BY <2>1
<1>6. PICK k \in DOMAIN q : Concerns(q[k], c, f) /\ q[k].val = w
  BY <1>3, <1>4, <1>5 DEF Reaches
<1>7. k # 1
  BY <1>4, <1>5, <1>6, <1>t DEF w
<1> QED
  BY <1>2, <1>5, <1>6, <1>7 DEF w

THEOREM HubJumpsBack == Spec => JumpsBackOnlyToCatchUp
<1>1. TypeInv /\ QueueInv /\ [Next]_hub =>
        [\A s \in Client, c \in Car, f \in NumberedField :
           conn[s] = "live" /\ conn'[s] = "live" /\ view'[s][c][f] < view[s][c][f] =>
             \E i \in DOMAIN Coming(s)' :
               /\ Concerns(Coming(s)'[i], c, f)
               /\ Coming(s)'[i].val = view[s][c][f]]_hub
  BY JumpsForward
<1>2. Ground => TypeInv
  BY DEF Ground
<1> QED
  BY GroundInit, GroundNext, TypeInit, TypeNext, EventInit, EventNext, QueueInit, QueueNext,
     <1>1, <1>2, PTL DEF Spec, JumpsBackOnlyToCatchUp
=============================================================================
