SPECIFICATION Spec
CONSTANTS
  Order <- Two
  Embedders = {"fnv", "ollama"}
  Rebuildable = {"fnv", "ollama"}
  FirstRows <- First
  MaxRows <- Most
  Textless <- NoText
  BatchSize = 2
  FlushEvery = 2
  CatchUpRounds = 2
  MaxVersion = 2
  MaxFaults = 1
  MaxStops = 1
  MaxTools = 1
CHECK_DEADLOCK FALSE
INVARIANT RetryRebuilds
