SPECIFICATION Spec
CONSTANTS
  NoFrame = NoFrame
  MaxFrames = 5
INVARIANTS
  TypeOK
  NoLostWakeup
PROPERTIES
  TakesNewest
  ImplementsRegister
