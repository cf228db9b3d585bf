SPECIFICATION Spec
CONSTANTS
  Texts <- MCTexts
  MaxLen = 6
  MXPTRS = 4
INVARIANTS TypeOK LettersOnce FieldsAreArgs
PROPERTY ArgsStay
CHECK_DEADLOCK FALSE
