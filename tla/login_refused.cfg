\* One call; the server may refuse the login.
SPECIFICATION Spec
CONSTANTS
  c1 = c1
  Calls = {c1}
  NoCall = NoCall
  Login = Login
  TimedOut = TimedOut
  MaxId = 4
  MessageQueueSize = 1
  MaxConsecutiveWrites = 2
  QueryTimeout = 1
INVARIANT ConnectMeansLoggedIn
CHECK_DEADLOCK FALSE
