SPECIFICATION FairSpec
CONSTANTS
  Threads = {t1, t2}
  NoThread = NoThread
  Owner = Owner
  NoOne = NoOne
  MaxSuspend = 2
  MaxStray = 0
INVARIANTS
  AtMostOneThread
  AliveTellsRunning
  OwnerAloneWhenRebuilding
  NoStaleHandle
  NoStaleShutdown
  NoLockStandoff
PROPERTIES
  ImplementsSession
  CallsReturn
CHECK_DEADLOCK FALSE
