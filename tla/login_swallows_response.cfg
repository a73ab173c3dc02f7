\* Two calls; their responses may share a chunk with the login's.
SPECIFICATION Spec
CONSTANTS
  c1 = c1
  c2 = c2
  Calls = {c1, c2}
  NoCall = NoCall
  Login = Login
  TimedOut = TimedOut
  MaxId = 4
  MessageQueueSize = 1
  MaxConsecutiveWrites = 2
  QueryTimeout = 1
INVARIANT NoResponseIgnored
CHECK_DEADLOCK FALSE
