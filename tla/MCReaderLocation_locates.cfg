SPECIFICATION RLFairSpec
CONSTANTS
  Sig = 2
  LocatorSize = 3
  EocdSize = 4
  CentralSize = 8
  Eocd64Size = 9
  InitWindow = 18
  MaxWindow = 22
  Archives <- SmallArchives
  Files <- SignatureSets
  Ends <- AllEnds
  Buffers <- SomeBuffers
  SearchSpaces <- AnySpace
  IoFaults = TRUE
INVARIANTS
  LocationSound
  RetriesMissNothing
  FindsLast
PROPERTIES
  RetriesEnd
CHECK_DEADLOCK FALSE
