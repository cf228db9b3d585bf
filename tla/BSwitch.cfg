SPECIFICATION MCSpec
CONSTANTS
  LineWidth = 4
  DwordSize = 2
  Modulus = 16
  MaxRd = 4
  BlockLists = {}
  Pad = Pad
  BlockTexts <- MCBlockTexts
  BmpTexts <- MCBmpTexts
  MaxText = 5
INVARIANT BlocksAsTyped
PROPERTY EndsUnlessStuck
CHECK_DEADLOCK FALSE
