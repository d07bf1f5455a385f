CONSTANTS
  Second = 2
  IntSize = 32
  BaseConns = 2
  GroupSize = 1
  Part = 10
  UnitDelay = 4
  RestoreDelay = 1
  DefaultInterval = 3
  LongestEpoch = 2
  Epochs = {1, 2}
  Bursts = {1}
  Conns = {0, 1, 3}
  Fds = {3, 4}
  Totals = {0, 4}
  Setup = 1
SPECIFICATION Spec
INVARIANTS DueInTime ZeroIntervalHasCause
PROPERTY NeverEarly
CHECK_DEADLOCK FALSE
