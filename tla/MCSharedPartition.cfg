\* Two gRPC workers read the same partition at once.
CONSTANTS
  Callers = {c1, c2}
  Partitions = {0}
  MaxMessages = 2
  MaxOffset = 2
  Shared = TRUE
SPECIFICATION Spec
INVARIANTS
  ReadsFromAsked
