\* Three workers; two signals, at any moment.
CONSTANTS
  Workers = {w1, w2, w3}
  MaxSignals = 2
SPECIFICATION FairSpec
INVARIANTS
  TypeOK
  CallsOutlived
  NoCallCutOff
PROPERTIES
  SignalEndsMain
CHECK_DEADLOCK FALSE
