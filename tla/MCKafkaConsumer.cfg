\* Calls on one partition, one after the other, among calls that are refused.
CONSTANTS
  Callers = {c1, c2}
  Partitions = {0}
  MaxMessages = 2
  MaxOffset = 2
  Shared = FALSE
SPECIFICATION FairSpec
INVARIANTS
  TypeOK
  ReadsFromAsked
  InLogOrder
  FetchEndsWithCalls
PROPERTIES
  EveryCallReturns
