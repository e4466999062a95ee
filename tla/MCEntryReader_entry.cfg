SPECIFICATION FairSpec
CONSTANTS
  HeaderSize = 1
  U64MAX = 20
  Files <- SmallFiles
  Entries <- SmallEntries
  MaxRead = 3
  IoFaults = TRUE
INVARIANTS
  OnlyVerified
  SoundIsRead
  RangeSound
PROPERTIES
  RejectionStands
  ReadingEnds
CHECK_DEADLOCK FALSE
