SPECIFICATION ProcessSpec
CONSTANTS
  EventsCap = 1
  NumberMod = 5
  ScansPerSecond = 2
  Client = {c1, c2}
  QueueCap = 1
  Starts = {{"mqtt"}}
PROPERTIES
  ServesUntilCtrlC
