CONSTANTS
  Accuracy = 3
  Half = 32
  Taps = {2, 6, 7}
  Seed <- MCSeed
  TableSize = 16384
  Fds = {0, 2, 4}
  SIDStart = 1
  SIDEnd = 4
  Strays = {0, 300}
  RandMax = 7
SPECIFICATION Spec
INVARIANTS RoundKeepsShare SeedComesOnce SIDsDiffer FieldsRead KeyIsFlows
