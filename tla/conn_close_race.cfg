SPECIFICATION Spec
CONSTANTS
  Procs = {p1, p2}
  Opener = p1
  Closers = {p1, p2}
  NoProc = NoProc
  MaxCalls = 1
  MaxChunk = 1
  MaxClock = 2
  MaxReconnects = 0
INVARIANT
  ReportBeforeClose
