SPECIFICATION Spec
CONSTANTS
  ChannelCap = 2
  MaxStatuses = 4
INVARIANTS
  TypeOK
  NeverDeaf
  StatusesInOrder
PROPERTIES
  StatusArrives
