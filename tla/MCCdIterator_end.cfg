SPECIFICATION Spec
CONSTANTS
  Fixed = 2
  MaxVariable = 3
  Directories <- WellFormedOnes
  Buffers <- AllBuffers
  IoFaults = FALSE
INVARIANT EndOnlyAtEnd
CHECK_DEADLOCK FALSE
