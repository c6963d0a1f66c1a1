SPECIFICATION FairSpec
CONSTANTS
  s1 = s1
  s2 = s2
  Sessions = {s1, s2}
  Deaf = {s2}
  MaxReports <- MCReports
  QueueMax = 2
  Bulk = 2
  NumChefs = 2
  Codes = {0, 200, 404}
  PollTime = 2
  MasterSleep = 1
  DrainSleep = 2
  DrainWait = 1
  Horizon = 4
CHECK_DEADLOCK FALSE
INVARIANTS ChefsSeeOrder NoSilentLoss ShutdownDrained
PROPERTIES ShutdownEnds
