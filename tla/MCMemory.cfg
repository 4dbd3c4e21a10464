SPECIFICATION MemorySpec
CONSTANTS
  Convs = {"c1", "c2"}
  Contents = {x, y}
  Kinds = {"supersedes"}
  Slots = {s1, s2}
  Interval = 1
  MaxPerConv = 1
  MaxRetries = 1
  FactsPer = 1
  MaxRaw = 1
  FirstMsgs <- First
  MaxMsgs <- Most
  MaxObs = 2
  MaxActs = 2
  MaxFaults = 1
  MaxStops = 1
  Ended = {1, 2, 3}
  Short = {2, 3}
  Summarizers = {8}
  SumRetries = 2
  SumStops = 2
SYMMETRY Alike
INVARIANTS
  CursorCovers PendingHasWorker RelationsSound DoneMeansSummarized IndexedIsStored
CHECK_DEADLOCK FALSE
