\* Two ids, two lines, two messages, a queue of one.
CONSTANTS
  Ids = {i1, i2}
  NoId = NoId
  MaxLines = 2
  Loop = Loop
  Messages = {m1, m2}
  QueueMax = 1
  None = None
SPECIFICATION FairComposedSpec
INVARIANTS
  TypeOK
PROPERTIES
  SettledBeforeAnswer
  AnswersTellFate
  EveryLineSettled
  SessionSpec
  ExitsAtEof
CHECK_DEADLOCK FALSE
