SPECIFICATION Spec
CONSTANTS
  Car = {c1, c2}
  Client = {s1}
  Status = {unknown, online}
  Unknown = unknown
  RingCap = 3
  MapEvery = 1
  CounterMod = 16
  WorkerMayStop = TRUE
  EventsCap = 2
  TrajectoryLen = 2
  MaxEvents = 2
INVARIANTS
  TypeOK
  NoEventLost
  MapFetchable
  MapDescribed
