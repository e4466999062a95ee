SPECIFICATION Spec
CONSTANTS
  U16MAX = 4
  U32MAX = 100
  LocalSize = 2
  CentralSize = 3
  EocdSize = 2
  Eocd64Size = 3
  Locator64Size = 2
  Desc32 = 2
  Desc64 = 3
  FieldHead = 1
  Word64 = 1
  TimeField = 1
  Calls <- NameCalls
  ArchiveComments <- OneComment
  Prelude = 1
  MaxCalls = 2
  Chunks = {1}
  MaxData = 1
  IoFaults = FALSE
INVARIANT NamesAlwaysFollowEntries
CHECK_DEADLOCK FALSE
