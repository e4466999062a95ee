SPECIFICATION FairSpec
CONSTANTS
  Fixed = 2
  MaxVariable = 3
  Directories <- AllDirectories
  Buffers <- AllBuffers
  IoFaults = TRUE
INVARIANTS
  BufferSound
  StopsNearEnd
  NoSpuriousError
PROPERTIES
  ListsDirectory
  Terminates
CHECK_DEADLOCK FALSE
