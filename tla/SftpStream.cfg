SPECIFICATION StreamSpec
CONSTANTS
  HeaderSize = 2
  PrefixSize = 2
  Width = 65536
  Lengths = {0, 1, 3}
  MaxMessages = 3
  MaxBytes = 11
INVARIANTS
  MessagesIntact
  PrefixIntact
PROPERTIES
  HandlerReturns
CHECK_DEADLOCK FALSE
