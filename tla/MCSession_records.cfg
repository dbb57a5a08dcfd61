SPECIFICATION SessionSpec
CONSTANTS
  HeaderLen = 2
  PayloadLens = {1, 6, 9}
  BufferCap = 9
  FlushEvery = 2
  MaxEvents = 3
  ReplayCap = 1
INVARIANT RecordsOnly
CHECK_DEADLOCK FALSE
