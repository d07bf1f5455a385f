SPECIFICATION FairSpec
CONSTANTS
  Flows = {f1, f2}
  NoFlow = NoFlow
  Closable = {f1}
  ReplyLimit = 3
INVARIANTS FlagIsCared TwoRequestsOut ThreeSendsPerEpoch EndsOnlyWhenClosed
PROPERTIES EveryFlowKeepsSending ClosedFlowsDeleted
CHECK_DEADLOCK FALSE
