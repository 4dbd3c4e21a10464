SPECIFICATION Spec
CONSTANTS
  inbox = inbox
  vault = vault
  m1 = m1
  m2 = m2
  n1 = n1
  Order <- MailOrder
  Mail = {inbox}
  ItemsOf <- MailItems
  Unwanted = {m2}
  PerItem = 2
  MaxDailyLLM = 2
  MaxDailyObs = 1
  MaxDay = 2
  MaxEdits = 0
  MaxFaults = 1
  MaxForgets = 1
  MaxRestarts = 1
INVARIANTS
  DailyCaps BackfillIsResumable ProcessedIsKept
CHECK_DEADLOCK FALSE
