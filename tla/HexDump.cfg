SPECIFICATION Spec
CONSTANTS
  LineWidth = 4
  DwordSize = 2
  Modulus = 32
  MaxRd = 9
  BlockLists <- MCBlockLists
  Pad = Pad
INVARIANTS TypeOK FullRowOffset HexShowsAscii RowsRespectBlocks
PROPERTY CoversFile
