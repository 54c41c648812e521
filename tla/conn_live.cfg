SPECIFICATION FairSpec
CONSTANTS
  Procs = {p1, p2}
  Opener = p1
  Closers = {p1, p2}
  NoProc = NoProc
  MaxCalls = 1
  MaxChunk = 1
  MaxClock = 1
  MaxReconnects = 0
INVARIANT
  NeverAllWaiting
PROPERTIES
  CallsReturn
  CloseCloses
  CallsAdvance
