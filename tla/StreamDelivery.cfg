SPECIFICATION StreamSpec
CONSTANTS
  MaxPieces = 4
  Limit = 2
  MaxRounds = 2
  InboxCap = 2
  MaxDelta = 2
  MaxNoise = 1
  MaxFiles = 2
INVARIANTS
  AnsweredOnceInOrder
  FilesArrive
PROPERTIES
  TurnReturns
CHECK_DEADLOCK FALSE
