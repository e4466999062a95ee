SPECIFICATION RTSpec
CONSTANTS
  U16MAX = 3
  U32MAX = 16
  LocalSize = 2
  CentralSize = 3
  EocdSize = 2
  Eocd64Size = 3
  Locator64Size = 2
  Desc32 = 2
  Desc64 = 3
  FieldHead = 1
  Word64 = 1
  TimeField = 1
  Calls <- SmallCalls
  ArchiveComments <- NoComments
  Prelude = 0
  MaxCalls = 3
  Chunks = {16}
  MaxData = 16
  IoFaults = FALSE
  Stubs = {0}
INVARIANT EveryArchiveReadsBack
CHECK_DEADLOCK FALSE
