SPECIFICATION RTSpec
CONSTANTS
  U16MAX = 3
  U32MAX = 16
  LocalSize = 2
  CentralSize = 3
  EocdSize = 2
  Eocd64Size = 3
  Locator64Size = 2
  Desc32 = 2
  Desc64 = 3
  FieldHead = 1
  Word64 = 1
  TimeField = 1
  Calls <- SizeCalls
  ArchiveComments <- OneComment
  Prelude = 0
  MaxCalls = 3
  Chunks = {15, 16, 17}
  MaxData = 17
  IoFaults = FALSE
  Stubs = {0, 2}
INVARIANTS
  DirectoryResolves
  ReadsBack
  SilentOnlyByCompression
CHECK_DEADLOCK FALSE
