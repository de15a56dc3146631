SPECIFICATION Spec
CONSTANTS
  Threads = {t1, t2}
  N = 2
  Up = {1, 2}
  Requests <- OneRequest
  Group <- MCGroup
  Addresses <- TwoAddresses
  Faults = {"select_down", "exec_down"}
  Width = 3
  NoRow = NoRow
SYMMETRY MCSymmetry
CONSTRAINT MixBound
INVARIANTS
  GroupRight
  AnswerOfAddresses
  PoolSafe
