SPECIFICATION EntryDataSpec
CONSTANTS
  StartYears <- Years
  Seconds <- Clock
  DosWords <- AllWords
  Letters = {"a"}
  MaxPath = 7
  Fields <- SomeFields
  MaxFields = 3
  MaxExtra = 80
  InlineEntries = 2
  InlineBytes = 15
  MaxWords = 1
  Pieces <- SomePieces
  MaxPieces = 2
  CustomValue = {0, 5}
  Described <- SomeDescribed
  Buffers <- SomeBuffers
  Modes <- SomeModes
  Attributes <- SomeAttributes
  Plain = {3, 5}
  Passwords <- SomePasswords
  HeaderLen = 2
  Chunk = 2
  MaxWrite = 4
  MaxBody = 5
  MaxRead = 3
  Listed <- SomeListed
  MaxListed = 3
INVARIANT DirectoriesAreDirectories
CHECK_DEADLOCK FALSE
