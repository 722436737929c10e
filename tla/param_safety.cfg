SPECIFICATION Spec
CONSTANTS
  Checks = {"cardtri", "cover"}
  Versions = {1}
  MaxPresses = 6
INVARIANTS
  RegionTellsArea
  RestartKeeps
  ParametersOwned
CHECK_DEADLOCK FALSE
