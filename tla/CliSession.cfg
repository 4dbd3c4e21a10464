SPECIFICATION FairSpec
CONSTANTS
  Keys = {alice, bob}
  Efforts = {normal, high}
  Default = normal
  Projects = {none, web}
  NoProject = none
  Procs = {p1, p2}
  MaxMsgs = 3
  MaxUpsets = 1
INVARIANTS
  OwnAnswer NoOrphans ConfigApplies
PROPERTIES
  TurnEnds
CHECK_DEADLOCK FALSE
