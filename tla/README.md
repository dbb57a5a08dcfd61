# TLA+ model of olivaw-hub

`olivaw-hub` collects what vehicles publish over MQTT, runs SLAM on their lidar
rotations, and serves the result over HTTP and WebSocket; it can record and
replay a session.  This directory holds TLA+ modules translated from its Rust
source, TLC configurations that check them on small instances, and theorems
checked by TLAPS.  Paths below are relative to the repository; line numbers are
those of the commit the model was written from.

```text
sources --rx (256)--> pipeline --mailbox--> SLAM worker (one thread per car)
 MQTT, replay,          |  ^                     |
 simulator, lidar       |  +----- slam_rx -------+
                        |  (unbounded)
                        +--> recorder --> .olivawrec --> read_all --> replay
                        +--> Hub { cars, maps, events (broadcast, 512) }
                                     |             |
                                    HTTP        WebSocket sessions
```

## Inventory

| Component | State it keeps | Operations | Modelled in |
| --- | --- | --- | --- |
| Pipeline (`pipeline.rs`) | `workers`, `rates`, what it is handling | `select!` over events, SLAM results and a timer; `on_event`, `on_slam` | `Pipeline` |
| Hub state (`state.rs`) | `cars`, `maps`, the broadcast channel | `update_car`, `snapshots`, `emit`, insert into `maps` | `HubState` |
| WebSocket session (`api/ws.rs`) | its receiver, where it is | subscribe, hello, forward, lag, end | `OlivawHub` |
| SLAM worker (`slam/worker.rs`) | mailbox, `processed`, `map_version` | `spawn`, `submit`, `run` | `SlamWorker`, `WorkerLoop` |
| Mailbox (`slam/worker.rs`) | mutex, condition variable, slot | lock, replace, notify, wait, take | `Mailbox`, `LatestFrame` |
| Recorder (`session/recorder.rs`) | file, `BufWriter`, `records` | `write`, drop, `read_all` | `Recorder` |
| Replay (`session/replay.rs`) | the events still to send | load, send, waiting for the channel | `Replay`; as a source: `Sources` |
| MQTT ingest (`ingest/mqtt.rs`) | connection, `subscribed` | connect, subscribe, receive, hand over, reconnect | `MqttIngest`; as a source: `Sources` |
| Events channel (`ingest/mod.rs`, `main.rs`) | the bounded channel, its senders | send, waiting while it is full | `Pipeline` (`Sources`), module `Sources` |
| Simulator (`sim/`) | `seq`, time, battery | status, scan, telemetry | `Sources` |
| Serial lidar (`ingest/serial.rs`) | `seq`, `last_telemetry` | open, status, scan, telemetry, end | `Sources` |
| Commander (`ingest/mqtt.rs`, `api/http.rs`) | a queue of 16 requests, the connection | receive a command, queue it, answer, publish, retry | `Commander` |
| HTTP (`api/http.rs`) | the exchanges in progress | GET reads one lock; `cmd` queues a command | `MapPng`, `SnapshotOf`; `Commander` |
| Start and shutdown (`main.rs`, `api/mod.rs`) | which tasks exist, who holds a sender | start, fail, serve, Ctrl-C, drop | `HubProcess` |
| Decimation, units, PNG/PGM, configuration, embedded broker, rerun, `fake_car` | none the hub's logic depends on | | not modelled, see below |

How they interact: sources send to one bounded channel and wait when it is
full.  The pipeline is a single task and the only writer of the hub's state; it
takes a lock per update and broadcasts in a separate call, so sessions and HTTP
handlers, which run on other threads, see the state between any two of those.
It hands rotations to a worker through a one-place mailbox and never waits for
it.  Workers report over an unbounded channel.  A session subscribes, then
copies the snapshots, sends them, and from then on forwards what it reads; its
receiver may be overrun.  A command request waits for a place in the publishing
client's queue, and the server's graceful shutdown waits for that request and for
every other HTTP exchange that has begun.  `main` joins nothing: the other tasks end because the runtime drops them.

What is hard: the order of subscription, snapshot, update and broadcast; the
mailbox's mutex and condition variable; a worker thread that ends; a slow
client; wrapping counters; a kill or an I/O error in the middle of a record; a
link that breaks between ConnAck and SUBSCRIBE; a broker that is away while
commands arrive and Ctrl-C is pressed.  `PROJECT.json` lists each such hazard
with its line and the properties that watch it.

What makes each component correct:

- **Pipeline and state** -- a client is never left with something else than the
  hub holds unless it lagged (`NoEventLost`, `ClientsCatchUp`); maps exist
  before they are announced and are described to whoever can fetch them
  (`MapFetchable`, `MapDescribed`); what the hub holds only advances
  (`SnapshotsAdvance`) and every session is sent it in that order
  (`EventsInOrder`), and sees a car jump back only where the hello was ahead of
  the events behind it (`JumpsBackOnlyToCatchUp`); trajectories are recent and in order
  (`TrajectoryOldestFirst`); everything is dealt with (`Drains`).
- **Worker and mailbox** -- the newest rotation, once (`TakesNewest`,
  `RotationsInOrder`), no lost wake-up (`NoLostWakeup`), no late map
  (`MapNeverOverdue`), and the register of `LatestFrame` as the whole promise
  (`ImplementsRegister`).
- **Recorder and replay** -- what is on disk reads back (`KillKeepsPrefix`,
  `DropKeepsAll`, `IntactUntilError`), and a second hub receives it event for
  event (`PlaysWhatWasRecorded`, `ReplayEnds`).
- **MQTT ingest** -- never connected and deaf (`NeverDeaf`), statuses in order
  (`StatusesInOrder`), the last one arrives (`StatusArrives`).
- **Commander and process** -- answered commands are published
  (`AnsweredIsPublished`), commands are answered (`EveryRequestAnswered`), the
  pipeline outlives its sources (`HubOutlivesSources`), Ctrl-C ends the hub
  (`StopsOnCtrlC`) and the recording is closed by then (`RecordingClosed`).

## Modules

`Fleet` declares the cars.  `HubState` and `SlamWorker` each hold the variables
of one component and operators for its steps; `Pipeline` extends both and adds
the task between them; `OlivawHub` adds the sessions and composes everything
into `Next`.  `WorkerLoop` composes `SlamWorker` with the most general pipeline,
so that what is proved there does not depend on the real one; `OlivawHub`
implements it (`ImplementsWorkerLoop`).  `Replay` extends `Recorder` by the hub
that plays the recording.  `HubProcess` extends `Sources` and `Commander` by
`main`; it counts events instead of naming them, since what becomes of each is
the subject of `OlivawHub`.

- **`HubState`**: `UpdateCar`, `InsertMap` and `Emit` are one write lock, one
  insertion and one `send`.  Rotations and samples are named by the number of
  the event that brought them, maps by their version; `0` is `None`.  A receiver
  holds at most `RingCap` unread events and loses the oldest beyond that
  (`lagged` remembers it happened).
- **`SlamWorker`**: `wpc` follows `run`: `start` (before `Slam::new`
  returned), `wait`, `match`, `render`, `dead`.  `Skip` is an empty cloud or a
  rejected scan, `Stop` an error of `Slam::new` or of rendering.  A worker that
  stopped is still in `workers`, hence `HasWorker`.  Whether a rotation is
  matched is a choice; matching itself belongs to the `olivaw-slam` library.
  `processed` wraps at `CounterMod`.
- **`Pipeline`**: one action per lock and per broadcast.  `RecvEvent` is the
  `recv` with the update of `last_seen_ms`; `ApplyStatus`, `ApplyTelemetry`,
  `ApplyScan`, `SpawnWorker`, `SpawnFails` and `SubmitScan` are the rest of
  `on_event`; `RecvTracked`, `RecvMap` and `PublishMapInfo` are `on_slam`;
  `Tick` and `ReportRate` are the timer; `EmitNext` sends the next event of
  `out`.  `pc` and `cur` say where the task is; it selects again only when a
  handler is done.
- **`OlivawHub`**: `Subscribe`, `TakeSnapshots`, `SendHello`, `Forward` and
  `Disconnect` are `session`.  `view` is what the client knows: the hello,
  overwritten by the events its session has read.  `Loop` is the refinement
  mapping to `WorkerLoop`: events handled so far and the poses in the snapshots.
- **`Mailbox`**: every lock, unlock, wait and notify is a step, and the
  condition variable may wake by itself.  **`LatestFrame`** is the abstract
  register: submit replaces, take empties.  `SlamWorker` uses the register's
  grain, which `ImplementsRegister` justifies.
- **`Recorder`**: bytes are named by record and place.  `Buffer`, `Drain` and
  `Bypass` are the three ways of `BufWriter::write_all`; a write call may accept
  a part, and once `flush_buf` has begun (`flushing`) it goes on until the buffer
  is empty.  `Fail` is an error of the operating system, possibly after a part
  that already made room: `flush_buf` gives up, the chunk is not buffered, and the
  pipeline goes on with the next event (`pipeline.rs:61-63`).  `Recorder::drop`
  ignores the error and the `BufWriter`, dropped after it, flushes once more
  (`close`).  `Kill` loses the buffer and keeps what the operating system has.
  `ReadRecord` and `ReadEnd` are the loop of `read_all`; misplaced bytes may
  decode to an error or to anything.
- **`MqttIngest`**: the task's loop against a broker and a library that are
  external: a subscription dies with its session, a broken link is noticed when
  polled, a queued SUBSCRIBE may or may not survive, the last status is retained.
- **`Replay`**: `Load` is `spawn` with its `read_all`, `Play` one turn of the
  task's loop, `Receive` the second hub's pipeline.
- **`Sources`**: `task` says what each source does next; `Send` is the bounded
  channel.  `SimStatus`, `SimScan` and `SimTelemetry` are `room.rs: run`,
  `LidarSend` and `LidarRead` the lidar thread; `Feed` is the MQTT task and the
  replay, whose insides are the modules above.
- **`Commander`**: `Begin`, `Post`, `Answer`, `Replied` and `GiveUp` are the life
  of an HTTP exchange: the request is on its way (`sending`), its command waits for
  the queue (`waiting`), the response is on its way (`replying`); a GET and a refused
  command go straight to the response.  A request counts once its head is there: a
  connection without one is closed by the shutdown.  `Connect`, `Publish`,
  `PollError` and `Retry` are the loop of `commander()`.  What the library
  does with its queue when a connection breaks is external: kept or gone.
- **`HubProcess`**: `main` from `setup` to `exited`; `StartFails` is any `?` of
  `main`; `ServeEnds` is the end of the graceful shutdown, which has no time limit
  and waits for every exchange, also for a body that is not sent and a response
  that is not read.  `Return` drops `main`'s own sender, `DropSource` and `DropPipeline`
  are the runtime's end (that the recorder's last flush may fail,
  `recorder.rs:39`, is `Recorder`'s subject), `ChannelClosed` is `run` leaving its loop.

Definitions commented "A faulty variant" are mutations of the definition that
follows them; no action uses them.  They exist to show that each property can
fail (`PROJECT.json`, `mutants`).

## Runs

| Run | Instance | What it shows |
| --- | --- | --- |
| `mailbox` | 5 rotations | the mailbox implements the register, liveness included |
| `worker_loop` | a map every 3 rotations, a counter of 8 values, 12 rotations | maps are never late although 3 does not divide 8; order is kept |
| `hub_views` | 2 cars, 1 client, ring of 3, 2 events, a map per rotation | a client that does not lag misses nothing; announced maps are stored and described |
| `hub_rotations` | 1 car, 5 events, trajectory of 2, a map every 2 | order from mailbox to trajectory; the snapshots only advance; the hub implements `WorkerLoop` |
| `hub_live` | 1 car, 1 client, 2 events, workers that do not stop | everything drains; clients catch up; each session, also one that lags, is sent every number once and in order |
| `mqtt_ingest` | 4 statuses, channel of 2, any number of breaks | never deaf, in order, the last one arrives |
| `session` | 3 events, header of 2 bytes, payloads of 1, 6 and 9, buffer of 9, flush every 2, a replay channel of 1 | kills, ends and I/O errors; the replay of what is left |
| `process` | 4 ways to start, 2 clients, a queue of 1, a channel of 2, numbers modulo 5 | the process from start to end |
| `hub_lag`, `hub_stopped`, `recorder_records`, `until_ctrl_c` | as above | four disagreements listed below |

Bounds, and why they are enough.  `MaxEvents`, `MaxFrames`, `MaxRotations`
and `MaxStatuses` stop the environment; `process` has no such bound.  Properties about order
need an older and a newer item and a place between them: three to five events do
that, and five overfill a trajectory of two twice.  A ring of two or three is
overrun by the events of one rotation (`pose`, `scan`, `map`, and the timer's
rate).  The channel of two is full as soon as the pipeline is busy.  A counter of
eight with a period of three wraps in the middle of a period, and twelve
rotations wrap it once and go on to the next map; more wraps, a period of 0 and a
trajectory limit of 0 are covered by the theorems alone.  In `session`, a payload of 1 leaves room, 6
fits only after draining, 9 bypasses the buffer, and three short records fit in
the buffer, so a missing flush would show.  In `process` a queue of one and two
clients leave a command waiting behind one of either while the other's exchange is
at any point; numbers that wrap at
five with telemetry every second scan wrap between two of them; the four starts
have each source at least once, alone or beside another.  `hub_views` and
`hub_rotations` let workers stop; `hub_live` does not, since a stopped worker is
what `hub_stopped` is about.  Two events are enough for two cars in `hub_views`:
one each, or one car's two, and every result and rate they cause; more events are
the theorem's part.  Deadlock is checked except where a bounded environment
really leaves nothing to do: no client (`hub_rotations`), workers alone
(`worker_loop`), a file that has been read and played (`session`).

## Fairness

- `OlivawHub!Fairness`: a handler of the pipeline runs to its end (it has no
  `await`), hence weak fairness of `Handle`; `tokio::select!` polls its branches
  in random order, so a branch that is ready again and again is taken at some
  point, hence strong fairness of receiving an event and of receiving a result;
  worker threads are scheduled by the operating system; a session's sends
  complete or its client disconnects.  Nothing is assumed of the sources, of the
  timer, of a client's coming or going, or of a worker's errors.
- `Mailbox!Spec`: a thread inside `submit` goes on, and so does the worker when
  it can; nothing is assumed of submissions or spurious wake-ups.
- `MqttIngest!Spec`: the task and the pipeline run, a broken link is noticed;
  nothing is assumed of the link itself or of publications.

- `Replay!SessionSpec`: the replay task and the second hub's pipeline run.
- `HubProcess!ProcessFairness`: `main`, the pipeline, the command loop and the
  runtime's drops go on.  Senders that wait for a place in a channel are served
  in turn, hence strong fairness of each client's `Answers`.  Nothing is assumed
  of the sources, of clients, of the broker or of Ctrl-C.

`ClientsCatchUp` assumes that the client stays and does not lag, `StatusArrives`
that the link stays up in the end; `EveryRequestAnswered` and `StopsOnCtrlC` that
the broker can be reached in the end, which `until_ctrl_c` shows to be necessary.
`StopsOnCtrlC` and `ServesUntilCtrlC` also have the premise `ClientsGoOn`: no HTTP
client leaves a request unsent or a response unread for ever.  The hub sets no time
limit that would make it true (`api/mod.rs:44-49`), so a client that stops halfway
keeps the hub from ending.  That `select!` starves no branch is assumed, not
checked.

## Proofs

The modules with proofs extend the module they are about and `TLAPS`, or one
another; `SlamWorkerProofs` holds lemmas that two of them share.  The assumptions are the
named ones on constants: capacities are positive, bounds are natural numbers,
`Unknown` is a status.

- **`MailboxProofs`** -- type correctness and `NoLostWakeup` from an inductive
  invariant `IInv` that says who holds the mutex at each program counter, that
  only a waiting worker is parked, and that a rotation in the slot is the newest
  submitted and newer than the last one taken.  `NoLostWakeup` alone is not
  inductive: that the submitter is about to notify follows from its holding the
  mutex.  `WorkerTakesNewest` (action property) and `MailboxImplementsRegister`
  (every step is a step of the register or leaves it alone) use the same
  invariant.
- **`WorkerLoopProofs`** -- `MapInTime` strengthens `MapNeverOverdue` with the
  relation of `processed` to `since_map` and the period, with a case for the
  wrap; the arithmetic is in `SlamWorkerProofs`.  `OrderKept` needs that the slot
  and the frame are among the rotations submitted; that each worker step keeps
  the order is a lemma of `SlamWorkerProofs`.
- **`HubProofs`** -- type correctness of the whole hub for any cars, clients,
  events and capacities.  It needs `HandlerInv`: which kind of item is being
  handled at which program counter, and that there is something to emit.
  `HubImplementsWorkerLoop`: initial states map to initial states and every step
  to a step of `WorkerLoop` or a stutter.  The mapping needs `Numbered`: events in
  the channel and in the handler are numbered in the order of their arrival, so
  that the number the mailbox is given is the number of events handled.
  `HubRotationsInOrder` adds that every rotation in a snapshot is behind those in
  the worker (`HubOrdered`), `HubMapInTime` takes `MapInTime` over to the hub, and
  `HubTrajectoryOldestFirst` says that the trajectory ends at the pose (`Trails`).
- **`HubClientProofs`** -- what clients can rely on.
  - `MapsAreFetchable`: `MapFetchable` is not inductive, the version in `cur`,
    those on their way in `slam_rx` and the worker's own `map_version` must be
    ordered too, or a late result could replace a newer map (`InFlight`, `Known`,
    `MapInv`).
  - `HubNoEventLost`: for one session, car and field the invariant follows the
    last event on its way: a step is silent about the field (`Silent`), or it
    updates the snapshot and puts the new value last (`Told`), so that what was
    informed before stays informed (`Informed`).  Between update and broadcast the
    event is in `out`, which `Coming` includes; a session that subscribes reads
    snapshots later than any event it does not get.
  - `HubMapDescribed` adds that between storing a map and describing it the handler
    is at `mapinfo` (`MapStored`).
  - `HubSnapshotsAdvance` needs, for each number that is written, that it is a new
    one (`Ground`, with `NewsInv`): a telemetry sample is among the events handled
    and the next one is not, a rotation that comes back is ahead of the pose and the
    scan is always the pose's, and a map is described before the next one is
    stored.
  - `HubEventsInOrder` and `HubJumpsBack`: for one session, car and field, what is
    on its way rises and ends at the hub's value (`Follows`), and what is older than
    the client's value is followed by that value (`Reaches`); together `QueueInv`.
    The events the handler still holds are part of it, since a session may
    subscribe in the middle of a broadcast.  Nothing is assumed about lag: an event
    that overflows a ring takes the oldest one out, which leaves what rises rising.
    `Reaches` is why a client that jumps back, because its hello was ahead of
    events it had subscribed to, is brought forward again.
- **`MqttIngestProofs`** -- type correctness, with the channel's capacity, and
  `HubNeverDeaf`; `NeverDeaf` is inductive on typed states.  `HubStatusesInOrder`
  strengthens `StatusesInOrder` to the whole way of a status: what the pipeline
  heard, the channel, the event handed over, the client's inbox and the retained
  status are five sequences without descents, none beyond a later one (`Chain`),
  so that a retained status that is sent again is never older than what is ahead
  of it.
- **`ProcessProofs`** -- `TypeCorrect`, `TelemetryInTime`, `RecordingIsClosed` and
  `PipelineOutlivesSources` from one invariant (`ProcessInv`).  While the simulator
  scans, the scans since telemetry are at most the remainder of the scan's number,
  which grows by one until telemetry is due; a wrap is due, at 0 (`SimInv`).
  Main's own sender keeps the channel open until main returns, only a running
  pipeline has unflushed records, and none runs after the process ended
  (`MainInv`).
- **`SessionProofs`** -- every invariant of the recording and its replay, for any
  lengths, capacities, flush interval and number of events: `TypeCorrect`,
  `RecordingIntact`, `KilledRecordingReadsBack`, `DroppedRecordingIsWhole` and
  `ReplayIsFaithful`.  None of the properties is inductive: they speak of what
  `read_all` returns, and why it returns that lies in where the bytes are.  The
  invariant (`RecorderInv`) says that there is a function `start` such that record
  `n` begins after `start[n]` bytes of what was written or is buffered, that every
  byte of a record that no error touched is in its place (`InPlace`), that what
  was given to the writer is all there (`AllThere`), that a record before the last
  due flush is in the file (`Flushed`), and that the reader has decoded the first
  records and stands behind them (`ReadSoFar`).  A new record extends `start` by
  one place, so that no induction over the recording is needed.  An I/O error moves
  no byte, wherever in a flush or a chunk it comes: what `flush_buf` had written is
  in the file, the rest is still buffered behind it.  `FlushGap` bounds
  what a kill costs: of `FlushEvery` records in a row one is due for a flush.  For
  the replay (`ReplayInv`), what the second hub received, what is in its channel and
  what is left to send are together what was read.

Only model-checked: what holds under fairness (`ImplementsRegister`'s liveness
part, `Drains`, `ClientsCatchUp`, `StatusArrives`, `ReplayEnds` and the three
liveness properties of `process`), which is beyond the prover.  Every invariant
and every other action property of the passing runs is a theorem.

## Where code and documentation differ

1. `api/ws.rs:1` promises every live event after the hello.  A client that
   lagged loses events, is told nothing and may show a wrong status until the
   next change (`ws.rs:33`, run `hub_lag`).
2. `slam/worker.rs:1` promises a worker per car that takes the latest rotation.
   A worker that stopped on an error is never replaced and its mailbox is filled
   for ever (`pipeline.rs:125`, run `hub_stopped`).
3. `session/mod.rs:3` describes a recording as a sequence of records.  After an
   I/O error between a length and its payload recording goes on, and `read_all`
   decodes wrong bytes or gives up on the whole file (`recorder.rs:27-28`, run
   `recorder_records`).
4. `api/mod.rs:39` serves until Ctrl-C.  With the broker away and the command
   queue full a command waits, as long as its client does, and so does the
   shutdown (`http.rs:119`, run `until_ctrl_c`).  With the broker there, a client
   that never finishes its request or never reads its response does the same; the
   run leaves such clients out, so that what it shows is the hub's own doing.

Three more, which need no run to be seen: `slam/worker.rs:181` promises at most
`max` points, and the step of line 183 is rounded down, so that 500 points with a
limit of 240 leave 250; `pipeline.rs:40` says that `run` ends when every event
source is gone, and `main.rs:80` keeps a sender that prevents it
(`HubOutlivesSources` relies on that); `http.rs:108` calls the bytes published
that are only queued, and are lost if the hub ends first.

## Abstractions, and what is not modelled

- Poses, scans, maps and telemetry are their numbers; map origins and pixels,
  rerun output, logs and wall-clock time are left out.  A scan rate is the number
  of rotations per tick.  The poses a worker keeps for rerun are left out.
- A panic in a handler or a poisoned lock is not modelled: the handlers have no
  step that panics on the values they get.
- In `process` an event is a count, a recording is flushed or not, and a command is
  its client, which has one exchange at a time.  A body that is no command and a car
  id that is too long are refused without a change of state.  WebSocket sessions do
  not delay the shutdown (their connections are no longer the server's) and are left
  out.
- The recorder is called by the pipeline before `on_event` and touches nothing
  else, so it is checked on its own.  A loss of power, after which the operating
  system's own buffers are gone, is not modelled.
- Broker and MQTT library are modelled by what `ingest/mqtt.rs` relies on.  A
  broker that forgets its retained messages is not modelled.
- The simulator's motion and rays and unit conversion are floating-point data; map rendering is a pure function whose failure is
  `Stop`, decimation one of a line; configuration is parsed once into what are
  constants here; the embedded broker, rerun and `fake_car` are third-party or
  test code around the hub.

## Plan

Done: every component with state of its own, the composition of pipeline, workers
and sessions, that of the process, and the theorems above.

Next theorem: the events of one session as an abstract specification -- a
register per live field that the client reads late but never out of order --
with `OlivawHub` shown to implement it for sessions that do not lag
(`QueueInv` and `EventInv` are what its steps need).

Next model: the start of `fake_car`, whose last message races its exit.
