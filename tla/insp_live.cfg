SPECIFICATION FairSpec
CONSTANTS
  Products = {p1}
  Empty = Empty
  NoSerial = NoSerial
  Builds = {"MainProcess", "Mainread", "Mainread2"}
  Habits = {TRUE, FALSE}
  Boxes = {"acc"}
  MaxStops = 1
PROPERTIES
  StopLeadsToRest
  ExitEndsWorker
CHECK_DEADLOCK FALSE
