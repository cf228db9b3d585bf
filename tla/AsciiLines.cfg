SPECIFICATION Spec
CONSTANTS
  Files <- MCFiles
  MaxLen = 6
  BGNCHK = 2
  CHKEND = 4
  Offsets = {0, 1}
INVARIANTS TypeOK EveryCharOnce
PROPERTY LinesCutAtWords
CHECK_DEADLOCK FALSE
