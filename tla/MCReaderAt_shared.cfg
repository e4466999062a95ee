SPECIFICATION ReaderAtSpec
CONSTANTS
  Threads = {t1, t2}
  Requests <- SomeRequests
  Size = 3
  Home = 1
  Nobody = nobody
  IoFaults = TRUE
  Panics = TRUE
  Length = 4
  Calls <- SomeCalls
  ReadFaults = TRUE
INVARIANTS
  SharedSound
PROPERTIES
  ReadsPositionally
  PoisonStops
  LockGoesRound
  LoopIsOneRead
CHECK_DEADLOCK FALSE
