SPECIFICATION FairSpec
CONSTANTS
  Clients <- MCClients
  Text <- MCText
  Workers = {w1, w2}
  Jobs = {j1, j2, j3}
  Faults = {"lose", "recv_error", "die"}
  Reach = 4
  Chunk = 3
  NoJob = NoJob
  None = None
INVARIANTS UdpTypeOK SplitGivesFields NothingVanishes
PROPERTIES EveryClientAnswered
CHECK_DEADLOCK FALSE
