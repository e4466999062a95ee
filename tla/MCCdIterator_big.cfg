SPECIFICATION Spec
CONSTANTS
  Fixed = 2
  MaxVariable = 3
  Directories <- WellFormedOnes
  Buffers <- BigBuffer
  IoFaults = FALSE
INVARIANT BigBufferSuffices
CHECK_DEADLOCK FALSE
