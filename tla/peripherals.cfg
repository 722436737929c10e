SPECIFICATION FairSpec
CONSTANTS
  DelayTime = 4
  PadTime = 8
  StepTime = 4
  Debounce = 1
  Poll = 1
  ExitSleep = 2
INVARIANTS
  PadTimed
  OffAfterExit
  LampsTellWeight
PROPERTIES
  OnePullPerStay
  ReadyPulls
  ExitEndsThread
CHECK_DEADLOCK FALSE
