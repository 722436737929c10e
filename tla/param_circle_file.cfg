SPECIFICATION Spec
CONSTANTS
  Checks = {}
  Versions = {1}
  MaxPresses = 3
INVARIANTS
  CircleParametersKept
CHECK_DEADLOCK FALSE
