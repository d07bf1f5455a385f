SPECIFICATION FairSpec
CONSTANTS
  RingSize = 2
  ThreadsSetting = 1
  GroupSettings = {1}
  CounterLimit = 2
  Flows = {f1, f2}
  NoFlow = NoFlow
  Width = 4
CONSTRAINT NoBreach
INVARIANTS RequestsKept
PROPERTIES AnsweredUnderTraffic AnsweredUnlessMissed
CHECK_DEADLOCK FALSE
