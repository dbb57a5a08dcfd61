----------------------------- MODULE OlivawHub -----------------------------
(***************************************************************************)
(* The hub at work: sources, pipeline, SLAM workers and the WebSocket      *)
(* sessions of src/api/ws.rs, with all their interleavings.                *)
(*                                                                         *)
(* A session subscribes to the broadcast channel, sends a hello with every *)
(* snapshot, then forwards each event it reads.  view is what its client   *)
(* knows from those messages: the hello, overwritten by later events.      *)
(***************************************************************************)
EXTENDS Pipeline

VARIABLE view               \* per session, the cars as its client knows them

hub == <<vars, view>>

LiveView ==
  [status : Status, telemetry : Nat, pose : Nat,
   scan : Nat, map : Nat, scan_hz : Nat]

KnownFields(snapshot) == [f \in LiveField |-> snapshot[f]]

Init ==
  /\ HubInit /\ WorkerInit /\ PipelineInit
  /\ view = [s \in Client |-> [c \in Car |-> KnownFields(NewSnapshot)]]

----------------------------------------------------------------------------
(* api/ws.rs: session. *)

Subscribe(s) ==
  /\ conn[s] = "off"
  /\ conn' = [conn EXCEPT ![s] = "subscribed"]
  /\ UNCHANGED <<cars, maps, unread, lagged, workerVars, pipeVars, view>>

(* The snapshots are taken at once; sending them waits for the client. *)
TakeSnapshots(s) ==
  /\ conn[s] = "subscribed"
  /\ conn' = [conn EXCEPT ![s] = "greeting"]
  /\ view' = [view EXCEPT ![s] = [c \in Car |-> KnownFields(SnapshotOf(c))]]
  /\ UNCHANGED <<cars, maps, unread, lagged, workerVars, pipeVars>>

SendHello(s) ==
  /\ conn[s] = "greeting"
  /\ conn' = [conn EXCEPT ![s] = "live"]
  /\ UNCHANGED <<cars, maps, unread, lagged, workerVars, pipeVars, view>>

(* An event counts as known when the session has read it: a send under way *)
(* reaches the client or ends the session.                                 *)
Forward(s) ==
  /\ conn[s] = "live" /\ unread[s] # <<>>
  /\ LET e == Head(unread[s])
     IN view' = [view EXCEPT ![s][e.car][e.field] = e.val]
  /\ unread' = [unread EXCEPT ![s] = Tail(@)]
  /\ UNCHANGED <<cars, maps, conn, lagged, workerVars, pipeVars>>

(* The client closes, the socket fails, or a send does: the receiver is    *)
(* dropped, and a client that returns starts a new session.                *)
Disconnect(s) ==
  /\ conn[s] \in {"greeting", "live"}
  /\ conn' = [conn EXCEPT ![s] = "off"]
  /\ unread' = [unread EXCEPT ![s] = <<>>]
  /\ lagged' = [lagged EXCEPT ![s] = FALSE]
  /\ view' = [view EXCEPT ![s] = [c \in Car |-> KnownFields(NewSnapshot)]]
  /\ UNCHANGED <<cars, maps, workerVars, pipeVars>>

Sessions ==
  \E s \in Client :
    \/ Subscribe(s) \/ TakeSnapshots(s) \/ SendHello(s)
    \/ Forward(s) \/ Disconnect(s)

----------------------------------------------------------------------------
Next ==
  \/ /\ Sources \/ RecvEvent \/ RecvTracked \/ RecvMap \/ Tick \/ Handle \/ Workers
     /\ UNCHANGED view
  \/ Sessions

Spec == Init /\ [][Next]_hub

(* A handler runs to its end; tokio::select! picks a ready branch at       *)
(* random, so none that is ready again and again is passed over for ever;  *)
(* worker threads run.  Sources, the timer and clients owe nothing.        *)
Fairness ==
  /\ WF_hub(Handle /\ UNCHANGED view)
  /\ SF_hub(RecvEvent /\ UNCHANGED view)
  /\ SF_hub((RecvTracked \/ RecvMap) /\ UNCHANGED view)
  /\ \A c \in Car : WF_hub(WorkerStep(c) /\ UNCHANGED <<hubVars, pipeVars, view>>)
  /\ \A s \in Client : WF_hub(TakeSnapshots(s)) /\ WF_hub(SendHello(s)) /\ WF_hub(Forward(s))

FairSpec == Spec /\ Fairness

----------------------------------------------------------------------------
TypeOK ==
  /\ HubTypeOK /\ WorkerTypeOK /\ PipelineTypeOK
  /\ view \in [Client -> [Car -> LiveView]]

----------------------------------------------------------------------------
(* What holds of the data that clients are given. *)

Concerns(e, c, f) == e.car = c /\ e.field = f

(* Events session s will still get: those it has not read and those the    *)
(* handler has not broadcast yet.                                          *)
Coming(s) == unread[s] \o out

(* A session that never lagged loses nothing, whenever it subscribed: for  *)
(* each live field, the last event on its way carries the value the hub    *)
(* holds, and where no event is on its way its client has that value       *)
(* (ws.rs:18-26 subscribes first and then reads the snapshots, every       *)
(* handler updates before it emits, and pipeline.rs:95-101 stays silent    *)
(* only when the status is the same).                                      *)
NoEventLost ==
  \A s \in Client : conn[s] # "off" /\ ~lagged[s] =>
    \A c \in Car, f \in LiveField :
      LET coming == Coming(s)
          concerning == {i \in DOMAIN coming : Concerns(coming[i], c, f)}
      IN /\ \A i \in concerning :
              (\A j \in concerning : j <= i) => coming[i].val = SnapshotOf(c)[f]
         /\ conn[s] \in {"greeting", "live"} /\ concerning = {} =>
              view[s][c][f] = SnapshotOf(c)[f]

(* GET map.png and map.pgm: the stored map, whatever version the URL names.*)
MapPng(c) == maps[c]

(* Every map version anyone can know of, from the snapshots, from an event *)
(* on its way or from a hello, is stored: its URL never answers 404 nor    *)
(* with an older map (pipeline.rs:174-182 stores before it tells).         *)
MapFetchable ==
  \A c \in Car :
    /\ SnapshotOf(c).map <= MapPng(c)
    /\ \A s \in Client :
         /\ view[s][c].map <= MapPng(c)
         /\ \A i \in DOMAIN Coming(s) :
              Concerns(Coming(s)[i], c, "map") => Coming(s)[i].val <= MapPng(c)

(* A URL may answer with a newer map than its MapInfo describes, but then  *)
(* the newer MapInfo is on its way: outside the handler that stores a map  *)
(* the snapshot describes the stored one, and a client that has read all   *)
(* it was sent does too, unless it lagged (http.rs:49, pipeline.rs:174-    *)
(* 183).                                                                   *)
MapDescribed ==
  \A c \in Car :
    ~(pc = "mapinfo" /\ cur.car = c /\ cur.val = MapPng(c)) =>
      /\ SnapshotOf(c).map = MapPng(c)
      /\ \A s \in Client : conn[s] \in {"greeting", "live"} /\ ~lagged[s] =>
           \/ view[s][c].map = MapPng(c)
           \/ \E i \in DOMAIN Coming(s) :
                Coming(s)[i] = Event("map", c, MapPng(c))

(* Fields whose values are numbers of rotations or samples, or versions.   *)
NumberedField == {"telemetry", "pose", "scan", "map"}

(* What the hub holds of a car only advances, though rotations pass        *)
(* through a mailbox, a thread and a channel before they come back, and a  *)
(* map is stored and described in two steps (pipeline.rs:57-79, 143-185).  *)
SnapshotsAdvance ==
  [][\A c \in Car :
       /\ \A f \in NumberedField : SnapshotOf(c)[f] <= SnapshotOf(c)'[f]
       /\ MapPng(c) <= MapPng(c)']_hub

(* Every session is sent each pose, rotation, sample and map of a car at   *)
(* most once and in order, and none before the snapshots have it; also a   *)
(* session that lagged (state.rs:204-206, ws.rs:27-41).                    *)
EventsInOrder ==
  \A s \in Client, c \in Car, f \in NumberedField :
    \A i \in DOMAIN Coming(s) : Concerns(Coming(s)[i], c, f) =>
      /\ Coming(s)[i].val <= SnapshotOf(c)[f]
      /\ \A j \in DOMAIN Coming(s) : i < j /\ Concerns(Coming(s)[j], c, f) =>
           Coming(s)[i].val < Coming(s)[j].val

(* A hello may be ahead of the events that follow it, since the snapshots  *)
(* are read after the subscription: a client then sees a car jump back.    *)
(* It does so only while the event that brings it forward again is on its  *)
(* way, also if the session lags (ws.rs:18-26).                            *)
JumpsBackOnlyToCatchUp ==
  [][\A s \in Client, c \in Car, f \in NumberedField :
       conn[s] = "live" /\ conn'[s] = "live" /\ view'[s][c][f] < view[s][c][f] =>
         \E i \in DOMAIN Coming(s)' :
           /\ Concerns(Coming(s)'[i], c, f)
           /\ Coming(s)'[i].val = view[s][c][f]]_hub

(* Rotations of a car keep their order, and none is used twice, all the    *)
(* way from the mailbox to its pose, although the mailbox drops some and   *)
(* the worker runs on another thread (worker.rs:70-81, 99-155).            *)
RotationsInOrder ==
  \A c \in Car : WorkerInOrder(c) /\ AheadOf(c, SnapshotOf(c).pose)

(* The trajectory is the recent poses, oldest first: bounded, without a    *)
(* repetition, and ending at the pose (state.rs:62, pipeline.rs:148-152).  *)
TrajectoryOldestFirst ==
  \A c \in Car :
    LET t == SnapshotOf(c).trajectory
    IN /\ Len(t) <= TrajectoryLen
       /\ \A i, j \in DOMAIN t : i < j => t[i] < t[j]
       /\ SnapshotOf(c).pose # 0 /\ TrajectoryLen > 0 =>
            t # <<>> /\ t[Len(t)] = SnapshotOf(c).pose

----------------------------------------------------------------------------
(* What the rest of the hub is to the workers: the pipeline of WorkerLoop, *)
(* which hands over numbered rotations and reads results at any pace.  An  *)
(* event is handled when its rotation is in the mailbox or it has none.    *)

EventsHandled ==
  arrived - Len(rx) - (IF pc \in {"apply", "submit"} THEN 1 ELSE 0)

Poses == [c \in Car |-> SnapshotOf(c).pose]

Loop == INSTANCE WorkerLoop
          WITH MaxRotations <- MaxEvents, rotations <- EventsHandled, pose <- Poses

(* The composed hub implements WorkerLoop, so that everything shown of the *)
(* workers there, MapNeverOverdue included, holds of them here             *)
(* (pipeline.rs:57-79 around worker.rs:84-179).                            *)
ImplementsWorkerLoop == Loop!Spec

----------------------------------------------------------------------------
(* What must happen. *)

(* Whatever order select! and the threads run in, every event is handled,  *)
(* every rotation the mailbox still holds is matched and every result is   *)
(* published once the sources fall silent.                                 *)
Drains ==
  <>[](/\ rx = <<>> /\ slam_rx = <<>>
       /\ \A c \in Car : slot[c] = 0 /\ frame[c] = 0)

(* A client that stays and does not lag knows, again and again, exactly    *)
(* what the hub does.                                                      *)
ClientsCatchUp ==
  \A s \in Client :
    <>[](conn[s] # "off" /\ ~lagged[s]) =>
      []<>(\A c \in Car : view[s][c] = KnownFields(SnapshotOf(c)))

(* worker.rs:1: a car has one worker, which takes the latest rotation.     *)
LatestRotationTaken ==
  \A c \in Car : slot[c] # 0 ~> slot[c] = 0

(* ws.rs:1: after the hello, every live event.  A client with nothing left *)
(* to read, while nothing is being handled, then knows what the hub does.  *)
EveryLiveEvent ==
  \A s \in Client :
    conn[s] = "live" /\ unread[s] = <<>> /\ pc = "select" =>
      \A c \in Car : view[s][c] = KnownFields(SnapshotOf(c))
=============================================================================
