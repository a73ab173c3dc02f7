\* Three connections: exit() after a scan has emptied a slot.
SPECIFICATION ClientSpec
CONSTANTS
  n1 = n1
  n2 = n2
  n3 = n3
  Connections = {n1, n2, n3}
  NoConnection = NoConnection
INVARIANT ExitTearsDown
CHECK_DEADLOCK FALSE
