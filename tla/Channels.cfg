SPECIFICATION ChannelsSpec
CONSTANTS
  Nums <- MCNums
  Sends <- MCSends
  SshForward = FALSE
  Globals <- MCGlobals
  MaxOpens = 2
  MaxSends = 2
  MaxWire = 1
  MaxReplay = 1
INVARIANTS NeverReached RightChannel TableFollowsPeers AnswersAsked EnvReachesSession NoAnswerLost
CHECK_DEADLOCK FALSE
