SPECIFICATION Spec
CONSTANTS
  HandleNames = {h1, h2}
  LongNames = {h2}
  RequestSlots = 3
  HandleSlots = 2
  MaxRequests = 6
INVARIANTS
  RequestsExact
  JournalExact
  HandlesOpen
CHECK_DEADLOCK FALSE
