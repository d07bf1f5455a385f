SPECIFICATION FairSpec
CONSTANTS
  Places = 4
  MaxConns = 2
  Edits = 3
INVARIANTS RightNumber
PROPERTIES Settles
CHECK_DEADLOCK FALSE
