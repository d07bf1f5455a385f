SPECIFICATION FairSpec
CONSTANTS
  Conns = {c1, c2}
  NoConn = NoConn
  MaxFd = 2
  Workers = {w1, w2}
  InboxLimit = 2
INVARIANTS UsrNumAccounted NothingOverlooked ServerStaysUp NewcomersNoticed
PROPERTIES AnswersReachSender ClosesOnlyGone EveryRequestAnswered
CHECK_DEADLOCK FALSE
