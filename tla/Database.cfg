CONSTANTS
  Workers = {w1, w2}
  Nodes = {n1, n2}
  Seed = n1
  SlotCount = 5
  Flows = {sid1, sid2}
  User <- MCUser
  Hash <- MCHash
  Moves = 2
  Unset = Unset
  NoFlow = NoFlow
SPECIFICATION Spec
INVARIANTS RoutesRight FewWrites StoredUnlessMoved CrashHasCause
CHECK_DEADLOCK FALSE
