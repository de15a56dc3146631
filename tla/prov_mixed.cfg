SPECIFICATION Spec
CONSTANTS
  Threads = {t1}
  N = 1
  Up = {1}
  Requests <- TwoRequests
  Group <- MCGroup
  Addresses <- LongThenShort
  Faults = {}
  Width = 4
  NoRow = NoRow
INVARIANTS
  AnswerIsAddress
