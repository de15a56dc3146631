SPECIFICATION Spec
CONSTANTS
  Threads = {t1}
  N = 1
  Up = {1}
  Requests <- TwoRequests
  Group <- MCGroup
  Addresses <- TwoAddresses
  Faults = {"exec_down"}
  Width = 3
  NoRow = NoRow
INVARIANTS
  UserStored
