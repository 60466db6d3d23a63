\* Lines of every kind, while stdin stays open.
CONSTANTS
  Ids = {i1}
  NoId = NoId
  MaxLines = 2
SPECIFICATION Spec
INVARIANTS
  RunsUntilStdinClosed
CHECK_DEADLOCK FALSE
