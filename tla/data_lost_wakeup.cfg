SPECIFICATION Spec
CONSTANTS
  MaxSize = 2
  MaxWrites = 1
  MaxRx = 1
PROPERTIES
  BytesDelivered
CHECK_DEADLOCK FALSE
