SPECIFICATION SidecarSpec
CONSTANTS
  MaxImage = 2
  Broken = {2}
  MaxPrevious = 1
  Workers = {w1, w2}
  MaxRequests = 2
  MaxCrashes = 1
  MaxFaults = 1
  Services = {s1, s2}
  Calls = {c1, c2}
  MaxCalls = 4
  MaxRestarts = 1
SYMMETRY SidecarSymmetry
INVARIANTS
  LockDiscipline TargetFailsOnce AnswersStayTrue
PROPERTIES
  FailedUpdateRestores
