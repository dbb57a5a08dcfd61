SPECIFICATION FairSpec
CONSTANTS
  Car = {c1}
  Client = {s1}
  Status = {unknown, online}
  Unknown = unknown
  RingCap = 3
  MapEvery = 1
  CounterMod = 16
  WorkerMayStop = FALSE
  EventsCap = 2
  TrajectoryLen = 2
  MaxEvents = 2
INVARIANTS
  EventsInOrder
PROPERTIES
  JumpsBackOnlyToCatchUp
  Drains
  ClientsCatchUp
