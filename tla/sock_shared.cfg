SPECIFICATION Spec
CONSTANTS
  Threads = {t1, t2, t3}
  N = 3
  Up = {1, 2, 3}
INVARIANTS OneUserPerSocket
CHECK_DEADLOCK FALSE
