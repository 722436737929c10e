SPECIFICATION Spec
CONSTANTS
  MaxSize = 2
  MaxWrites = 3
  MaxRx = 3
INVARIANTS
  NothingVanishes
PROPERTIES
  ImplementsChannel
  RequestsSent
  ReadWhileQuiet
CHECK_DEADLOCK FALSE
