SPECIFICATION FairSpec
CONSTANTS
  Threads = {t1, t2, t3}
  N = 4
  Up = {2, 3, 4}
INVARIANTS TypeOK NoNullWhenEnough ConnectAlone LockedIsInUse
PROPERTIES EveryCallEnds
CHECK_DEADLOCK FALSE
