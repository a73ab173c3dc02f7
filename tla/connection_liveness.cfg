\* Two calls, a queue of one, a limit of two writes, one tick to answer.
SPECIFICATION FairSpec
CONSTANTS
  c1 = c1
  c2 = c2
  Calls = {c1, c2}
  NoCall = NoCall
  Login = Login
  TimedOut = TimedOut
  MaxId = 4
  MessageQueueSize = 1
  MaxConsecutiveWrites = 2
  QueryTimeout = 1
\* close() and a crash of the process end a behaviour.
PROPERTIES
  EveryCallEnds
  QueueDrains
CHECK_DEADLOCK FALSE
