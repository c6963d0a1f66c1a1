SPECIFICATION TimersFairSpec
CONSTANTS
  MaxSessionSecs = 14
  MaxIdleSecs = 5
  ReportPeriod = 4
  LogPeriods = {0, 6}
  Horizon = 20
INVARIANTS LimitsEnforced
PROPERTIES SessionEnds
CHECK_DEADLOCK FALSE
