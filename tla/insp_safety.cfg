SPECIFICATION Spec
CONSTANTS
  Products = {p1, p2}
  Empty = Empty
  NoSerial = NoSerial
  Builds = {"MainProcess", "Mainread", "Mainread2"}
  Habits = {TRUE, FALSE}
  Boxes = {"acc"}
  MaxStops = 1
INVARIANTS
  RowTruth
  OneRowPerStay
  ShownAsRecorded
  LightWhileRunning
  SettingsAlone
  ClosedAfterWorker
SYMMETRY ProductSymmetry
PROPERTIES
  ImplementsStation
CHECK_DEADLOCK FALSE
