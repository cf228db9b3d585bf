SPECIFICATION Spec
CONSTANTS
  Texts <- MCTexts
  MaxLen = 4
  MXPTRS = 4
INVARIANT QuotesTaken
CHECK_DEADLOCK FALSE
