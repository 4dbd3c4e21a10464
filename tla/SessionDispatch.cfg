SPECIFICATION LoopSpec
CONSTANTS
  alice = alice
  bob = bob
  Keys <- OneKey
  MaxPending = 2
  UpdatesCap = 2
  InboxCap = 1
  MaxMsgs = 4
  MaxPanics = 1
INVARIANTS
  NothingLost
  StopIsFinal
PROPERTIES
  StopAnswered
  QueueDrains
  ImplementsTurnQueue
CHECK_DEADLOCK FALSE
