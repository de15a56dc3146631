SPECIFICATION Spec
CONSTANTS
  Threads = {t1}
  N = 2
  Up = {2}
  Requests <- OwnNames
  Group <- MCGroup
  Addresses <- ThreeAddresses
  Faults = {"select_error", "select_down", "exec_error", "exec_applied"}
  Width = 3
  NoRow = NoRow
INVARIANTS
  ProvTypeOK
  OneUserPerId
  AddressOnce
  OneAddressPerId
  AnswerHolds
  UserStored
  AnswerIsAddress
PROPERTIES
  ImplementsLease
