SPECIFICATION Spec
CONSTANTS
  Products = {p1}
  Empty = Empty
  NoSerial = NoSerial
  Builds = {"Mainread"}
  Habits = {TRUE}
  Boxes = {}
  MaxStops = 1
INVARIANTS
  StopEndsCycle
CHECK_DEADLOCK FALSE
