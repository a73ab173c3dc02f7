\* Three calls, a queue of one, a limit of two writes, one tick to answer.
SPECIFICATION Spec
CONSTANTS
  c1 = c1
  c2 = c2
  c3 = c3
  Calls = {c1, c2, c3}
  NoCall = NoCall
  Login = Login
  TimedOut = TimedOut
  MaxId = 4
  MessageQueueSize = 1
  MaxConsecutiveWrites = 2
  QueryTimeout = 1
SYMMETRY Symmetry
INVARIANTS
  TypeOK
  OneOutcome
  PendingIsSwept
  ResponseFindsItsCall
  LimitRaisesBlock
  BlockedByLimit
  CounterDrift
  DispatchOrder
PROPERTIES
  NothingDropped
  ImplementsService
  ImplementsPooled
  ImplementsStream
\* close() and a crash of the process end a behaviour.
CHECK_DEADLOCK FALSE
