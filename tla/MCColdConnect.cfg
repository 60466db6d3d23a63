\* Two gRPC workers make the first two operations of the process at once.
CONSTANTS
  Callers = {c1, c2}
  MaxHandles = 3
  ColdOverlap = TRUE
SPECIFICATION Spec
INVARIANTS
  LiveHandleInUse
