\* Signals at any moment; no call is in progress, so the process should exit by itself.
CONSTANTS
  Workers = {}
  MaxSignals = 2
SPECIFICATION FairSpec
PROPERTIES
  GracefulShutdown
CHECK_DEADLOCK FALSE
