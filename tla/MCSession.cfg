SPECIFICATION SessionSpec
CONSTANTS
  HeaderLen = 2
  PayloadLens = {1, 6, 9}
  BufferCap = 9
  FlushEvery = 2
  MaxEvents = 3
  ReplayCap = 1
INVARIANTS
  SessionTypeOK
  KillKeepsPrefix
  DropKeepsAll
  IntactUntilError
  PlaysWhatWasRecorded
PROPERTIES
  ReplayEnds
CHECK_DEADLOCK FALSE
