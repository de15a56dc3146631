SPECIFICATION Spec
CONSTANTS
  Statements <- MCStatements
  Width = 3
  ValMaxLen = 4
  Faults = {}
  None = None
  Base = Base
INVARIANTS
  StatementForItsSQL
CHECK_DEADLOCK FALSE
