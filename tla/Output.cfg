SPECIFICATION Spec
CONSTANTS
  Chars = {a}
  CR = CR
  LF = LF
  Nul = Nul
  Texts <- MCTexts
  MaxText = 3
  MAXIO = 2
  OldText <- MCOldText
  MaxCalls = 3
INVARIANTS TypeOK LinesNormalised FilesComplete
PROPERTY PieceFitsBuffer
CHECK_DEADLOCK FALSE
