SPECIFICATION Spec
CONSTANTS
  Files <- MCFiles
  MaxLen = 7
  Mins = {1, 2}
  MXDIAG = 4
  giKeepInLine = 3
INVARIANTS TypeOK StringsInOrder TotalCounts PackedFits
CHECK_DEADLOCK FALSE
