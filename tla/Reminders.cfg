SPECIFICATION FairSpec
CONSTANTS
  Rows = {r1}
  Slots = {s1}
  MaxTime = 1
  SigCap = 1
  MaxCalls = 3
  MaxRestarts = 1
  MaxFaults = 1
INVARIANTS
  ReminderSentOnce FiredMeansSent
PROPERTIES
  ClosedStaysClosed DueReminderResolves ScheduleFollowsRow
