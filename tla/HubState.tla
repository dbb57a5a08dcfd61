----------------------------- MODULE HubState -----------------------------
(***************************************************************************)
(* The shared state of src/state.rs: the snapshot of every car, the latest *)
(* rendered map of every car, and the broadcast channel that feeds the     *)
(* WebSocket sessions.  The operators are the steps one lock or one send   *)
(* makes atomic; the modules that extend this one say who takes them when. *)
(*                                                                         *)
(* Rotations and telemetry samples are named by the number of the event    *)
(* that brought them, so 0 stands for None; a map is its version.          *)
(***************************************************************************)
EXTENDS Naturals, Sequences, Fleet

CONSTANTS Client,           \* WebSocket sessions that may exist
          Status,           \* what a status message may say
          Unknown,          \* the status "unknown" of a car just heard of
          RingCap           \* capacity of the broadcast channel (512)

ASSUME HubAssumption ==
  /\ Unknown \in Status
  /\ RingCap \in Nat \ {0}

VARIABLES cars,             \* Hub::cars, a function on the cars heard of
          maps,             \* Hub::maps: version of the stored map, 0 if none
          conn,             \* how far each session is, "off" when there is none
          unread,           \* what each session's receiver has still to read
          lagged            \* the receiver lost an event since it subscribed

hubVars == <<cars, maps, conn, unread, lagged>>

(* Fields of a snapshot that live events keep current, and the event that  *)
(* carries each (WsEvent's tag).                                           *)
LiveField == {"status", "telemetry", "pose", "scan", "map", "scan_hz"}

CarSnapshot ==
  [status : Status, telemetry : Nat, pose : Nat,
   trajectory : Seq(Nat), scan : Nat, map : Nat, last_seen_ms : Nat,
   scans_total : Nat, scan_hz : Nat]

WsEvent ==
  [field : {"status"}, car : Car, val : Status]
    \cup [field : LiveField \ {"status"}, car : Car, val : Nat]

HubTypeOK ==
  /\ DOMAIN cars \subseteq Car
  /\ cars \in [DOMAIN cars -> CarSnapshot]
  /\ maps \in [Car -> Nat]
  /\ conn \in [Client -> {"off", "subscribed", "greeting", "live"}]
  /\ unread \in [Client -> Seq(WsEvent)]
  /\ \A s \in Client : Len(unread[s]) <= RingCap
  /\ lagged \in [Client -> BOOLEAN]

(* CarSnapshot::new *)
NewSnapshot ==
  [status |-> Unknown, telemetry |-> 0, pose |-> 0, trajectory |-> <<>>,
   scan |-> 0, map |-> 0, last_seen_ms |-> 0, scans_total |-> 0,
   scan_hz |-> 0]

(* A car nobody has heard of looks like a new one. *)
SnapshotOf(c) == IF c \in DOMAIN cars THEN cars[c] ELSE NewSnapshot

HubInit ==
  /\ cars = [c \in {} |-> NewSnapshot]
  /\ maps = [c \in Car |-> 0]
  /\ conn = [s \in Client |-> "off"]
  /\ unread = [s \in Client |-> <<>>]
  /\ lagged = [s \in Client |-> FALSE]

----------------------------------------------------------------------------
(* Hub::update_car: one write lock around the entry, created if missing.   *)
UpdateCar(c, snapshot) ==
  cars' = [d \in DOMAIN cars \cup {c} |-> IF d = c THEN snapshot ELSE cars[d]]

(* A faulty variant: only one car has a map. *)
InsertOnlyMap(c, version) == maps' = [d \in Car |-> IF d = c THEN version ELSE 0]

(* hub.maps.write().insert *)
InsertMap(c, version) == maps' = [maps EXCEPT ![c] = version]

(* A faulty variant: a session hears only what is sent after its hello. *)
EmitToLive(e) ==
  /\ unread' = [s \in Client |->
       IF conn[s] # "live" THEN unread[s]
       ELSE IF Len(unread[s]) < RingCap THEN Append(unread[s], e)
       ELSE Append(Tail(unread[s]), e)]
  /\ lagged' = [s \in Client |->
       lagged[s] \/ (conn[s] = "live" /\ Len(unread[s]) >= RingCap)]

(* A faulty variant: a full receiver refuses what is new. *)
EmitKeepsOldest(e) ==
  /\ unread' = [s \in Client |->
       IF conn[s] = "off" \/ Len(unread[s]) >= RingCap THEN unread[s]
       ELSE Append(unread[s], e)]
  /\ lagged' = [s \in Client |->
       lagged[s] \/ (conn[s] # "off" /\ Len(unread[s]) >= RingCap)]

(* A faulty variant: the channel keeps everything. *)
EmitUnbounded(e) ==
  /\ unread' = [s \in Client |->
       IF conn[s] = "off" THEN unread[s] ELSE Append(unread[s], e)]
  /\ UNCHANGED lagged

(* Hub::emit: every receiver gets the event; one that is RingCap behind    *)
(* loses its oldest, and learns only that it lagged.                       *)
Emit(e) ==
  /\ unread' = [s \in Client |->
       IF conn[s] = "off" THEN unread[s]
       ELSE IF Len(unread[s]) < RingCap THEN Append(unread[s], e)
       ELSE Append(Tail(unread[s]), e)]
  /\ lagged' = [s \in Client |->
       lagged[s] \/ (conn[s] # "off" /\ Len(unread[s]) >= RingCap)]

Event(field, c, val) == [field |-> field, car |-> c, val |-> val]
=============================================================================
