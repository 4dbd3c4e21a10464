SPECIFICATION FairSpec
CONSTANTS
  inbox = inbox
  vault = vault
  m1 = m1
  m2 = m2
  n1 = n1
  Order <- NoteOrder
  Mail = {}
  ItemsOf <- NoteItems
  Unwanted = {}
  PerItem = 1
  MaxDailyLLM = 2
  MaxDailyObs = 1
  MaxDay = 2
  MaxEdits = 2
  MaxFaults = 1
  MaxForgets = 0
  MaxRestarts = 1
INVARIANTS
  RunningMeansWorking RowsClaimWhatWasSeen
PROPERTIES
  EditsAreNoticed
CHECK_DEADLOCK FALSE
