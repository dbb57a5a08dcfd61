------------------------------- MODULE Replay -------------------------------
(***************************************************************************)
(* A recorded session played back: what Recorder left on the disk is read  *)
(* by a second hub, whose replay task (src/session/replay.rs) feeds the    *)
(* decoded events to its pipeline's channel and waits while that is full.  *)
(*                                                                         *)
(* Pacing is the time that passes before Play: the task sleeps at most     *)
(* five seconds for an event later than its predecessor.  The receiver is  *)
(* gone only when that hub ends, which is HubProcess's subject.            *)
(***************************************************************************)
EXTENDS Recorder

CONSTANT ReplayCap          \* capacity of the second hub's channel (256)

ASSUME ReplayAssumption == ReplayCap \in Nat \ {0}

VARIABLES player,           \* "off", "playing", "finished", or "refused"
          left,             \* events the task still holds
          rx,               \* the second hub's channel
          received          \* what its pipeline has received

replayVars == <<player, left, rx, received>>
session == <<vars, replayVars>>

SessionTypeOK ==
  /\ TypeOK
  /\ player \in {"off", "playing", "finished", "refused"}
  /\ \A q \in {left, rx, received} : q \in Seq(0..Len(lens))
  /\ Len(rx) <= ReplayCap

SessionInit ==
  /\ Init
  /\ player = "off"
  /\ left = <<>> /\ rx = <<>> /\ received = <<>>

(* The loop of the task ends with its last event. *)
Playing(todo) == IF todo = <<>> THEN "finished" ELSE "playing"

(* replay::spawn: a recording that does not decode keeps the hub from      *)
(* starting; one that is cut short is played as far as it goes.            *)
Load ==
  /\ player = "off" /\ reader # "reading"
  /\ IF reader = "error"
       THEN player' = "refused" /\ UNCHANGED left
       ELSE player' = Playing(events) /\ left' = events
  /\ UNCHANGED <<vars, rx, received>>

(* A faulty variant: send without its wait. *)
PlayNow ==
  /\ player = "playing"
  /\ rx' = Append(rx, Head(left))
  /\ left' = Tail(left)
  /\ player' = Playing(left')
  /\ UNCHANGED <<vars, received>>

(* A faulty variant: an event that finds the channel full is dropped.      *)
PlayOrDrop ==
  /\ player = "playing"
  /\ rx' = IF Len(rx) < ReplayCap THEN Append(rx, Head(left)) ELSE rx
  /\ left' = Tail(left)
  /\ player' = Playing(left')
  /\ UNCHANGED <<vars, received>>

Play ==
  /\ player = "playing" /\ Len(rx) < ReplayCap
  /\ rx' = Append(rx, Head(left))
  /\ left' = Tail(left)
  /\ player' = Playing(left')
  /\ UNCHANGED <<vars, received>>

(* The second hub's pipeline. *)
Receive ==
  /\ rx # <<>>
  /\ received' = Append(received, Head(rx))
  /\ rx' = Tail(rx)
  /\ UNCHANGED <<vars, player, left>>

SessionNext ==
  \/ Next /\ UNCHANGED replayVars
  \/ Load \/ Play \/ Receive

SessionSpec ==
  /\ SessionInit /\ [][SessionNext]_session
  /\ WF_session(Play) /\ WF_session(Receive)

----------------------------------------------------------------------------
(* What the second hub's pipeline receives is what the first one's did,    *)
(* event for event: nothing is lost, repeated or reordered on the way      *)
(* through buffer, file, decoder and channel (replay.rs:17-29), except     *)
(* what a kill took along.                                                 *)
PlaysWhatWasRecorded ==
  failed = 0 =>
    /\ player # "refused"
    /\ received = [i \in 1..Len(received) |-> i]
    /\ player = "finished" =>
         Len(received) + Len(rx) + FlushEvery >= records
    /\ player = "finished" /\ pc = "closed" =>
         Len(received) + Len(rx) = Len(lens)

(* Every event of a recording that was loaded reaches the pipeline, also   *)
(* when the replay is faster than the pipeline (replay.rs:26).             *)
ReplayEnds == player = "playing" ~> received = events
=============================================================================
