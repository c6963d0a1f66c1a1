SPECIFICATION Spec
CONSTANTS
  MaxKeys = 2
  MAX_ENVS = 1
  MAX_REMOTETCP = 1
  MaxData = 1
  MaxRecorded = 2
  MaxSessions = 2
  MaxServices = 2
  MayHangUp = TRUE
INVARIANTS
  ReplayOnlyAfterLogin
  ReplayFaithful

  
