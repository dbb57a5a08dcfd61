---------------------------- MODULE MqttIngest ----------------------------
(***************************************************************************)
(* The subscribing client of src/ingest/mqtt.rs over a link that breaks:   *)
(* it connects again and again, subscribes after every ConnAck, and hands  *)
(* what it receives to the pipeline's channel, waiting while that is full. *)
(*                                                                         *)
(* The broker and the client library are external.  A session ends with    *)
(* its link and takes its subscription along; a link may break without the *)
(* client's noticing until it polls; a message of QoS 0 is lost with the   *)
(* link; the last status is retained and sent again to whoever subscribes. *)
(* The messages are the statuses of one car, numbered as it (or its last   *)
(* will) publishes them; 0 is none.                                        *)
(***************************************************************************)
EXTENDS Naturals, Sequences

CONSTANTS ChannelCap,       \* capacity of the pipeline's channel (256)
          MaxStatuses       \* bound: statuses the car publishes

ASSUME IngestAssumption ==
  /\ ChannelCap \in Nat \ {0}
  /\ MaxStatuses \in Nat

VARIABLES link,             \* "down"; "up"; or "broken" and not yet noticed
          session,          \* the broker holds our subscription
          retained,         \* last status published
          inbox,            \* statuses on their way to the client
          queued,           \* a SUBSCRIBE waits in the client's queue
          subscribed,       \* the task's own flag
          pc,               \* where the task is
          event,            \* the status it is handing over, or 0
          rx,               \* the pipeline's channel
          heard             \* the status the pipeline took last

vars == <<link, session, retained, inbox, queued, subscribed, pc, event, rx, heard>>

TypeOK ==
  /\ link \in {"down", "up", "broken"}
  /\ session \in BOOLEAN /\ queued \in BOOLEAN /\ subscribed \in BOOLEAN
  /\ retained \in 0..MaxStatuses
  /\ inbox \in Seq(1..MaxStatuses)
  /\ pc \in {"poll", "send", "check"}
  /\ event \in 0..MaxStatuses /\ (event # 0 <=> pc = "send")
  /\ rx \in Seq(1..MaxStatuses) /\ Len(rx) <= ChannelCap
  /\ heard \in 0..MaxStatuses

Init ==
  /\ link = "down" /\ session = FALSE /\ retained = 0 /\ inbox = <<>>
  /\ queued = FALSE /\ subscribed = FALSE
  /\ pc = "poll" /\ event = 0
  /\ rx = <<>> /\ heard = 0

----------------------------------------------------------------------------
(* The outside. *)

Publish ==
  /\ retained < MaxStatuses
  /\ retained' = retained + 1
  /\ inbox' = IF link = "up" /\ session THEN Append(inbox, retained') ELSE inbox
  /\ UNCHANGED <<link, session, queued, subscribed, pc, event, rx, heard>>

Break ==
  /\ link = "up"
  /\ link' = "broken"
  /\ session' = FALSE
  /\ UNCHANGED <<retained, inbox, queued, subscribed, pc, event, rx, heard>>

(* The pipeline's recv. *)
Recv ==
  /\ rx # <<>>
  /\ heard' = Head(rx)
  /\ rx' = Tail(rx)
  /\ UNCHANGED <<link, session, retained, inbox, queued, subscribed, pc, event>>

----------------------------------------------------------------------------
(* The task: what eventloop.poll() comes back with. *)

(* A faulty variant: only the first connection subscribes. *)
PollConnAckOnce ==
  /\ pc = "poll" /\ link = "down"
  /\ link' = "up"
  /\ pc' = "check"
  /\ UNCHANGED <<session, retained, inbox, queued, subscribed, event, rx, heard>>

PollConnAck ==
  /\ pc = "poll" /\ link = "down"
  /\ link' = "up"
  /\ subscribed' = FALSE
  /\ pc' = "check"
  /\ UNCHANGED <<session, retained, inbox, queued, event, rx, heard>>

PollPublish ==
  /\ pc = "poll" /\ link # "down" /\ inbox # <<>>
  /\ event' = Head(inbox)
  /\ inbox' = Tail(inbox)
  /\ pc' = "send"
  /\ UNCHANGED <<link, session, retained, queued, subscribed, rx, heard>>

(* The library writes the SUBSCRIBE; on a broken link nobody reads it.     *)
PollOutgoing ==
  /\ pc = "poll" /\ link # "down" /\ queued
  /\ queued' = FALSE
  /\ session' = (link = "up")
  /\ inbox' = IF link = "up" /\ retained # 0 THEN Append(inbox, retained) ELSE inbox
  /\ pc' = "check"
  /\ UNCHANGED <<link, retained, subscribed, event, rx, heard>>

(* The link is given up, with what had not been read from it.  What was    *)
(* queued may be kept for the next one or not.  The task sleeps and polls. *)
PollError ==
  /\ pc = "poll" /\ link # "down"
  /\ link' = "down"
  /\ session' = FALSE
  /\ inbox' = <<>>
  /\ queued' \in {FALSE, queued}
  /\ UNCHANGED <<retained, subscribed, pc, event, rx, heard>>

(* A faulty variant: hands the event to a task of its own that waits.      *)
SendDetached ==
  /\ pc = "send"
  /\ \/ rx' = Append(rx, event)
     \/ rx # <<>> /\ rx' = SubSeq(rx, 1, Len(rx) - 1) \o <<event, rx[Len(rx)]>>
  /\ event' = 0
  /\ pc' = "check"
  /\ UNCHANGED <<link, session, retained, inbox, queued, subscribed, heard>>

(* A faulty variant: drops what does not fit. *)
SendOrDrop ==
  /\ pc = "send"
  /\ rx' = IF Len(rx) < ChannelCap THEN Append(rx, event) ELSE rx
  /\ event' = 0
  /\ pc' = "check"
  /\ UNCHANGED <<link, session, retained, inbox, queued, subscribed, heard>>

(* tx.send(event).await *)
Send ==
  /\ pc = "send" /\ Len(rx) < ChannelCap
  /\ rx' = Append(rx, event)
  /\ event' = 0
  /\ pc' = "check"
  /\ UNCHANGED <<link, session, retained, inbox, queued, subscribed, heard>>

(* The end of the loop's body: subscribe, which only queues, if not done.  *)
Check ==
  /\ pc = "check"
  /\ queued' = (queued \/ ~subscribed)
  /\ subscribed' = TRUE
  /\ pc' = "poll"
  /\ UNCHANGED <<link, session, retained, inbox, event, rx, heard>>

----------------------------------------------------------------------------
Ingest == PollConnAck \/ PollPublish \/ PollOutgoing \/ Send \/ Check

Next == Publish \/ Break \/ Recv \/ Ingest \/ PollError

(* The task and the pipeline run; a broken link is noticed.                *)
Spec ==
  /\ Init /\ [][Next]_vars
  /\ WF_vars(Ingest) /\ WF_vars(Recv)
  /\ WF_vars(PollError /\ link = "broken")

----------------------------------------------------------------------------
(* The hub is never connected and deaf: on a link that is up the broker    *)
(* has the subscription, or the client is about to ask for it, wherever an *)
(* earlier link broke (mqtt.rs:34-37, 54-62).                              *)
NeverDeaf ==
  link = "up" => session \/ queued \/ (pc = "check" /\ ~subscribed)

(* An older status never overwrites a newer one, although the retained one *)
(* is sent again with every subscription (mqtt.rs:38-46).                  *)
StatusesInOrder ==
  LET coming == <<heard>> \o rx
                  \o (IF event = 0 THEN <<>> ELSE <<event>>)
                  \o inbox \o <<retained>>
  IN \A i, j \in DOMAIN coming : i < j => coming[i] <= coming[j]

(* Once the link stays up the pipeline learns the last status, also the    *)
(* one published while there was no link or the channel was full           *)
(* (mqtt.rs:27, ingest/mod.rs:26).                                         *)
StatusArrives == <>[](link = "up") => <>[](heard = retained)
=============================================================================
