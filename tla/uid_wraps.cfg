\* A uid counter of two values: the uids come round while calls are outstanding.
SPECIFICATION Spec
CONSTANTS
  c1 = c1
  c2 = c2
  c3 = c3
  Calls = {c1, c2, c3}
  NoCall = NoCall
  Login = Login
  TimedOut = TimedOut
  MaxId = 2
  MessageQueueSize = 1
  MaxConsecutiveWrites = 2
  QueryTimeout = 1
INVARIANT OwnResultOnly
CHECK_DEADLOCK FALSE
