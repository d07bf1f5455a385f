SPECIFICATION Spec
CONSTANTS
  RingSize = 4
  ThreadsSetting = 2
  GroupSettings <- MCGroupSettings
  CounterLimit = 3
  Flows = {f1}
  NoFlow = NoFlow
  Width = 4
CONSTRAINT NoBreach
VIEW LiveView
INVARIANTS EndsOnlyByRefusedGroup RingInv NoSlotRace StandstillHasCause
PROPERTIES BreachOnlyBlind ImplementsWorkQueue
CHECK_DEADLOCK FALSE
