SPECIFICATION Spec
CONSTANTS
  Statements <- MCStatements
  Width = 3
  ValMaxLen = 4
  Faults = {"prepare", "reprepare", "execute", "columns"}
  None = None
  Base = Base
INVARIANTS
  OraTypeOK
  TemplateRunsAsAsked
  RowsWhereFetched
  ExecutesWhatWasAsked
CHECK_DEADLOCK FALSE
