SPECIFICATION Spec
CONSTANTS
  Order <- Two
  Embedders = {"fnv", "ollama"}
  Rebuildable = {"fnv", "ollama"}
  FirstRows <- First
  MaxRows <- Most
  Textless <- NoText
  BatchSize = 2
  FlushEvery = 2
  CatchUpRounds = 2
  MaxVersion = 2
  MaxFaults = 2
  MaxStops = 2
  MaxTools = 1
  
PROPERTY MigrationResolves
CHECK_DEADLOCK FALSE
