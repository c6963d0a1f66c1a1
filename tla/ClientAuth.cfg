SPECIFICATION FairSpec
CONSTANTS
  Locals <- SomeLocals
  Contexts <- SomeContexts
  Grace = 2
  MsgWait = 1
  LongWait = 3
  Horizon = 8
CHECK_DEADLOCK FALSE
INVARIANTS ChefPolicyMet NeverWaitsInVain
PROPERTIES AuthEnds
