\* Two gRPC workers, three writes, a queue of two: the queue fills and overflows.
CONSTANTS
  Callers = {c1, c2}
  Messages = {m1, m2, m3}
  QueueMax = 2
  None = None
SPECIFICATION FairSpec
INVARIANTS
  TypeOK
  Consistent
  ErrorMeansNotPublished
PROPERTIES
  LossOnlyByTimeoutOrReset
  EveryCallReturns
  DestructionSettles
  ContractSpec
