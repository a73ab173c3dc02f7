\* Three connections, in any order of configuration.
SPECIFICATION ClientSpec
CONSTANTS
  n1 = n1
  n2 = n2
  n3 = n3
  Connections = {n1, n2, n3}
  NoConnection = NoConnection
INVARIANTS
  ClientTypeOK
  InOnePlace
PROPERTIES
  CallReachesUsable
  RoundRobin
\* After exit() nothing need happen.
CHECK_DEADLOCK FALSE
