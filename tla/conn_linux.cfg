SPECIFICATION LinuxSpec
CONSTANTS
  Procs = {p1, p2}
  Opener = p1
  Closers = {p1}
  NoProc = NoProc
  MaxCalls = 2
  MaxChunk = 0
  MaxClock = 2
  MaxReconnects = 0
  Versions <- MCVersions
  Algorithms = {"cubic", "bbr"}
  Moving = {"bytes_retrans"}
  OtherCalls = 1
INVARIANTS
  ReportBeforeClose
  ReportedOnce
  InfosComparable
  WarningsOfEvent
PROPERTIES
  InfoWriteOnce
  ImplementsEvents
