SPECIFICATION FairSpec
CONSTANTS
  RingSize = 4
  ThreadsSetting = 1
  GroupSettings = {1}
  CounterLimit = 2
  Flows = {f1}
  NoFlow = NoFlow
  Width = 4
PROPERTIES RequestAnswered
CHECK_DEADLOCK FALSE
