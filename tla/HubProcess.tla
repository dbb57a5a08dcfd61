----------------------------- MODULE HubProcess -----------------------------
(***************************************************************************)
(* The process: what main (src/main.rs) starts and in which order, what    *)
(* keeps the events channel open, and how it ends - on an error, on Ctrl-C *)
(* after the HTTP server's graceful shutdown (src/api/mod.rs), or killed.  *)
(***************************************************************************)
EXTENDS Sources, Commander

CONSTANT Starts             \* sets of sources the arguments may ask for

ASSUME ProcessAssumption ==
  \A started \in Starts :
    started \subseteq Source /\ ("mqtt" \in started <=> "replay" \notin started)

VARIABLES main,             \* where main is
          holds_tx,         \* main has its own sender of the channel
          pipeline,         \* pipeline::run: "none", "running", "ended"
          dirty             \* events recorded but not flushed

procVars == <<main, holds_tx, pipeline, dirty>>
process == <<sourceVars, commandVars, procVars>>

Over == {"exited", "killed"}
Serving == main \in {"serving", "stopping"}

ProcessTypeOK ==
  /\ SourcesTypeOK /\ CommanderTypeOK
  /\ main \in {"setup", "log_only", "binding", "serving", "stopping", "returned"} \cup Over
  /\ holds_tx \in BOOLEAN /\ dirty \in BOOLEAN
  /\ pipeline \in {"none", "running", "ended"}
  /\ pipeline = "running" => receiver

ProcessInit ==
  /\ \E started \in Starts : SourcesInit(started)
  /\ CommanderInit
  /\ main = "setup" /\ holds_tx = TRUE
  /\ pipeline = "none" /\ dirty = FALSE

----------------------------------------------------------------------------
(* main.rs: main. *)

(* Its locals are gone: its sender, and the receiver it still has.         *)
Return ==
  /\ main' = "returned" /\ holds_tx' = FALSE
  /\ receiver' = (receiver /\ pipeline = "running")
  /\ UNCHANGED <<rx, task, seq, since_telemetry, commandVars, pipeline, dirty>>

(* The lidar, the viewer or the recording cannot be opened, or the address *)
(* is taken.                                                               *)
StartFails == main \in {"setup", "binding"} /\ Return

LogOnly ==
  /\ main = "setup"
  /\ main' = "log_only"
  /\ UNCHANGED <<sourceVars, commandVars, holds_tx, pipeline, dirty>>

(* A faulty variant: main keeps no sender of its own.                      *)
SpawnPipelineOnly ==
  /\ main = "setup"
  /\ main' = "binding" /\ pipeline' = "running" /\ holds_tx' = FALSE
  /\ UNCHANGED <<sourceVars, commandVars, dirty>>

SpawnPipeline ==
  /\ main = "setup"
  /\ main' = "binding" /\ pipeline' = "running"
  /\ UNCHANGED <<sourceVars, commandVars, holds_tx, dirty>>

Serve ==
  /\ main = "binding"
  /\ main' = "serving"
  /\ UNCHANGED <<sourceVars, commandVars, holds_tx, pipeline, dirty>>

(* Ctrl-C starts the shutdown once the server listens for it, and kills    *)
(* the process before that; a second one changes nothing.                  *)
CtrlC ==
  /\ main \in {"setup", "log_only", "binding", "serving"}
  /\ main' = IF main = "serving" THEN "stopping" ELSE "killed"
  /\ UNCHANGED <<sourceVars, commandVars, holds_tx, pipeline, dirty>>

(* A faulty variant: the process exits without dropping its tasks.         *)
ServeExits ==
  /\ main = "stopping" /\ \A c \in Client : request[c] = "none"
  /\ main' = "exited"
  /\ UNCHANGED <<sourceVars, commandVars, holds_tx, pipeline, dirty>>

(* A faulty variant: main waits for the pipeline's task.                   *)
ServeJoinsPipeline ==
  /\ main = "stopping" /\ \A c \in Client : request[c] = "none"
  /\ pipeline = "ended"
  /\ Return

(* The server waits, without a limit, for the exchanges that have begun,   *)
(* not for WebSockets.                                                     *)
ServeEnds ==
  /\ main = "stopping" /\ \A c \in Client : request[c] = "none"
  /\ Return

----------------------------------------------------------------------------
(* pipeline.rs: run and log_only, which is main's own loop. *)

Receive ==
  /\ main \notin Over /\ receiver /\ rx > 0
  /\ pipeline = "running" \/ main = "log_only"
  /\ rx' = rx - 1
  /\ dirty' \in IF pipeline = "running" THEN BOOLEAN ELSE {FALSE}
  /\ UNCHANGED <<receiver, task, seq, since_telemetry, commandVars, main, holds_tx, pipeline>>

(* The pipeline's task and what it owns are gone, the recorder too, which  *)
(* has flushed; what a failing flush leaves is Recorder's subject.         *)
PipelineGone ==
  /\ pipeline = "running"
  /\ pipeline' = "ended" /\ receiver' = FALSE /\ rx' = 0
  /\ dirty' = FALSE
  /\ UNCHANGED <<task, seq, since_telemetry, commandVars, main, holds_tx>>

(* The channel is closed: run leaves its loop. *)
ChannelClosed == rx = 0 /\ ~holds_tx /\ Living = {} /\ PipelineGone

----------------------------------------------------------------------------
(* The runtime drops its tasks once main has returned; the lidar thread is *)
(* not one of them.                                                        *)
DropSource(s) ==
  /\ main = "returned" /\ s \in Living \ {"lidar"}
  /\ Goto(s, "ended")
  /\ UNCHANGED <<rx, receiver, seq, since_telemetry, commandVars, procVars>>

DropPipeline == main = "returned" /\ PipelineGone

Exit ==
  /\ main = "returned"
  /\ pipeline # "running" /\ Living \subseteq {"lidar"}
  /\ main' = "exited"
  /\ UNCHANGED <<sourceVars, commandVars, holds_tx, pipeline, dirty>>

----------------------------------------------------------------------------
Requests ==
  /\ \/ main = "serving" /\ \E c \in Client : Begin(c)
     \/ Serving /\ \E c \in Client : Post(c) \/ Answer(c) \/ Replied(c) \/ GiveUp(c)
  /\ UNCHANGED <<sourceVars, procVars>>

Commands ==
  /\ main \in {"binding", "serving", "stopping", "returned"} /\ Poll
  /\ UNCHANGED <<sourceVars, procVars>>

Answers(c) == Serving /\ Answer(c) /\ UNCHANGED <<sourceVars, procVars>>

Main == StartFails \/ LogOnly \/ SpawnPipeline \/ Serve \/ ServeEnds \/ Exit

Drops == DropPipeline \/ \E s \in Source : DropSource(s)

ProcessNext ==
  \/ Main \/ CtrlC \/ Receive \/ ChannelClosed \/ Drops
  \/ Requests \/ Commands
  \/ main \notin Over /\ SourceStep /\ UNCHANGED <<commandVars, procVars>>
  \/ main \notin Over /\ BrokerTurns /\ UNCHANGED <<sourceVars, procVars>>
  \/ main \in Over /\ UNCHANGED process

(* Main, the pipeline, the command loop and the runtime's drops go on; of  *)
(* requests that wait for a place in the queue none is passed over for     *)
(* ever.  Nothing is assumed of sources, clients, broker or Ctrl-C.        *)
ProcessFairness ==
  /\ WF_process(Main) /\ WF_process(Receive) /\ WF_process(Drops)
  /\ WF_process(Commands)
  /\ \A c \in Client : SF_process(Answers(c))

ProcessSpec == ProcessInit /\ [][ProcessNext]_process /\ ProcessFairness

----------------------------------------------------------------------------
(* The simulator never goes longer than a second's scans without           *)
(* telemetry, also when the scans' number wraps (room.rs:159, 169).        *)
TelemetryNotOverdue == since_telemetry <= ScansPerSecond

(* A hub that ends by itself, after Ctrl-C or because it could not serve,  *)
(* leaves no recorded event unflushed (main.rs:115-117).                   *)
RecordingClosed == main = "exited" => ~dirty

(* While the hub serves, its pipeline runs, whatever becomes of the        *)
(* sources: a finished replay or a broken lidar stops nothing else         *)
(* (main.rs:80-98).                                                        *)
HubOutlivesSources == main \in {"binding", "serving", "stopping"} => pipeline = "running"

(* A command that was answered is sent to the broker unless that is away,  *)
(* or was since the last error, or the hub ends first (mqtt.rs:79-95).     *)
AnsweredIsPublished ==
  \A c \in Client :
    Contains(queue, c) ~> c \in published \/ ~broker \/ link = "broken" \/ ~Serving

(* With a broker that stays every command is answered, also those that     *)
(* found the queue full while it was away (mqtt.rs:89-95).                 *)
EveryRequestAnswered ==
  <>[]broker => \A c \in Client : request[c] = "waiting" ~> request[c] # "waiting"

(* No client leaves an exchange unfinished for ever. *)
ClientsGoOn == \A c \in Client : []<>~ClientsTurn(c)

(* With a broker that stays and clients that go on Ctrl-C ends the hub,    *)
(* whatever commands waited for the queue (api/mod.rs:44-49).              *)
StopsOnCtrlC ==
  <>[]broker /\ ClientsGoOn => (main = "stopping" ~> main = "exited")

(* api/mod.rs:39: serve until Ctrl-C, broker or not; the clients go on.    *)
ServesUntilCtrlC ==
  ClientsGoOn => (main = "stopping" ~> main = "exited")
=============================================================================
