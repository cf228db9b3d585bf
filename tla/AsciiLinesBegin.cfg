SPECIFICATION Spec
CONSTANTS
  Files <- MCFiles
  MaxLen = 3
  BGNCHK = 1
  CHKEND = 3
  Offsets = {0, 1}
INVARIANT BeginsAtOffset
CHECK_DEADLOCK FALSE
