SPECIFICATION ReportsSpec
CONSTANTS
  Modes <- AllModes
  MaxTargets = 2
  AlarmAt <- Anywhere
  MaxAlarms = 3
INVARIANTS StartedSessionReported OneVerdictHook
PROPERTIES DisconnectEnds ReportsFollowProtocol
CHECK_DEADLOCK FALSE
