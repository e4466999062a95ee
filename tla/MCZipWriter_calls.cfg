SPECIFICATION Spec
CONSTANTS
  U16MAX = 4
  U32MAX = 100
  LocalSize = 2
  CentralSize = 3
  EocdSize = 2
  Eocd64Size = 3
  Locator64Size = 2
  Desc32 = 2
  Desc64 = 3
  FieldHead = 1
  Word64 = 1
  TimeField = 1
  Calls <- AllCalls
  ArchiveComments <- LongComment
  Prelude = 1
  MaxCalls = 3
  Chunks = {1, 2}
  MaxData = 2
  IoFaults = TRUE
INVARIANTS
  TypeOK
  EntriesReadable
  ListedIffComplete
  DataAccounted
  TextKeepsPace
CHECK_DEADLOCK FALSE
