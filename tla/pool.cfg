SPECIFICATION FairSpec
CONSTANTS
  Workers = {w1, w2, w3}
  Jobs = {j1, j2, j3}
  Main = Main
  NoThread = NoThread
  NoJob = NoJob
INVARIANTS TypeOK NoLostWakeup JobAfterLoop AtMostOneExit
PROPERTIES FrozenAfterExit ImplementsDispatch EveryJobRuns ShutdownLosesMutex
CHECK_DEADLOCK FALSE
