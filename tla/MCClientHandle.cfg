\* Two threads; the first connection is made by one of them alone.
CONSTANTS
  Callers = {c1, c2}
  MaxHandles = 3
  ColdOverlap = FALSE
SPECIFICATION Spec
INVARIANTS
  TypeOK
  LiveHandleInUse
  NoHandleLeaked
PROPERTIES
  ConnectedHandleStays
