SPECIFICATION Spec
CONSTANTS
  Checkers = {usb, circle}
  Circles = {circle}
  MaxFrames = 3
INVARIANTS
  FlagsTellDevice
  ReleasedAtEnd
PROPERTIES
  LiveMeasuresLive
CHECK_DEADLOCK FALSE
