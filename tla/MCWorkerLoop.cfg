SPECIFICATION Spec
CONSTANTS
  Car = {c1}
  MapEvery = 3
  CounterMod = 8
  WorkerMayStop = TRUE
  MaxRotations = 12
INVARIANTS
  TypeOK
  MapNeverOverdue
  RotationsInOrder
CHECK_DEADLOCK FALSE
