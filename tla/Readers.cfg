SPECIFICATION AllSpec
CONSTANTS
  MaxBlocks = 4
  MaxMembers = 3
  MaxTapes = 4
  MaxPieces = 3
  MaxPackets = 3
  MaxEntries = 3
  MaxCells = 3
  MaxNumbers = 4
  MaxExes = 3
  MaxArchived = 4
  MaxLines = 5
  Lost = Lost
  DescriptorSize = 1
  ColourMapSize = 1
  GifBits = 12
  AlignedUnit = 2
  Width = 8
  Gifs <- MCGifs
  Streams <- MCStreams
  Waves <- MCWaves
  Known <- MCKnown
  Tables <- MCTables
INVARIANTS
  TypesOK
  ArchivesListed
  ImagesDecoded
  StreamsCounted
  ListsSorted
  
  ExecutablesShown
  TablesShown
PROPERTIES
  GifsWalked
  
CHECK_DEADLOCK FALSE
