SPECIFICATION Spec
CONSTANTS
  Conns = {c1, c2}
  NoConn = NoConn
  MaxFd = 2
  Workers = {w1}
  InboxLimit = 1
INVARIANTS AllMonitored
CHECK_DEADLOCK FALSE
