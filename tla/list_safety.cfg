SPECIFICATION Spec
CONSTANTS
  Jobs = {j1, j2, j3, j4}
  NULL = NULL
SYMMETRY Symmetry
INVARIANTS ListIsStack
PROPERTIES NoStrayWrite
CHECK_DEADLOCK FALSE
