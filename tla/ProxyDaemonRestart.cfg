SPECIFICATION Spec
CONSTANTS
  MaxIps = 1
  MaxDns = 1
  Preferred = "inet6"
  MaxChunks <- MCChunks
  MaxSessions = 1
INVARIANT RestartSucceeds
CHECK_DEADLOCK FALSE
