SPECIFICATION ProcessSpec
CONSTANTS
  EventsCap = 2
  NumberMod = 5
  ScansPerSecond = 2
  Client = {c1, c2}
  QueueCap = 1
  Starts = {{"mqtt"}, {"replay"}, {"mqtt", "sim"}, {"replay", "lidar"}}
INVARIANTS
  ProcessTypeOK
  TelemetryNotOverdue
  RecordingClosed
  HubOutlivesSources
PROPERTIES
  AnsweredIsPublished
  EveryRequestAnswered
  StopsOnCtrlC
