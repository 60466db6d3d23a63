\* The queue is full of finished messages and clients keep calling produce().
CONSTANTS
  Callers = {c1}
  Messages = {m1, m2}
  QueueMax = 1
  None = None
SPECIFICATION BusySpec
PROPERTIES
  FullQueueDrains
