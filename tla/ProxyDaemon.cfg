SPECIFICATION Spec
CONSTANTS
  MaxIps = 2
  MaxDns = 2
  Preferred = "inet6"
  MaxChunks <- MCChunks
  MaxSessions = 1
INVARIANTS AnswersInOrder RelayFaithful
PROPERTIES HelpersOutliveSessions SessionEnds MonitorEnds
CHECK_DEADLOCK FALSE
