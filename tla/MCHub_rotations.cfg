SPECIFICATION Spec
CONSTANTS
  Car = {c1}
  Client = {}
  Status = {unknown, online}
  Unknown = unknown
  RingCap = 3
  MapEvery = 2
  CounterMod = 16
  WorkerMayStop = TRUE
  EventsCap = 2
  TrajectoryLen = 2
  MaxEvents = 5
INVARIANTS
  RotationsInOrder
  TrajectoryOldestFirst
PROPERTIES
  ImplementsWorkerLoop
  SnapshotsAdvance
CHECK_DEADLOCK FALSE
