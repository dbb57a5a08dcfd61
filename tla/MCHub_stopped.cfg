SPECIFICATION FairSpec
CONSTANTS
  Car = {c1}
  Client = {s1}
  Status = {unknown, online}
  Unknown = unknown
  RingCap = 2
  MapEvery = 1
  CounterMod = 16
  WorkerMayStop = TRUE
  EventsCap = 2
  TrajectoryLen = 2
  MaxEvents = 2
PROPERTIES
  LatestRotationTaken
