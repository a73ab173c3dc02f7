\* Three calls on a connection that blocks after two writes.
SPECIFICATION Spec
CONSTANTS
  c1 = c1
  c2 = c2
  c3 = c3
  Calls = {c1, c2, c3}
  NoCall = NoCall
  Login = Login
  TimedOut = TimedOut
  MaxId = 4
  MessageQueueSize = 1
  MaxConsecutiveWrites = 2
  QueryTimeout = 1
PROPERTY AllowedUnderLimit
CHECK_DEADLOCK FALSE
