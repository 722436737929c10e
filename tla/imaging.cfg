SPECIFICATION Spec
CONSTANTS
  Products = {p1, p2}
  Empty = Empty
  Builds = {"Mainread", "Mainread2"}
  Habits = {FALSE, TRUE}
  HastyProducts = {p1}
INVARIANTS
  OneBuffer
  ContoursOfProduct
PROPERTIES
  ImplementsSnapshots
CHECK_DEADLOCK FALSE
