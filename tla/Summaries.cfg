SPECIFICATION Spec
CONSTANTS
  Convs = {1, 2, 3}
  Short = {2, 3}
  Slots = {8}
  MaxRetries = 2
  MaxFaults = 1
  MaxStops = 2
PROPERTY RecoveryGetsThrough
CHECK_DEADLOCK FALSE
