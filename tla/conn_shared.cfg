SPECIFICATION Spec
CONSTANTS
  Procs = {p1, p2}
  Opener = p1
  Closers = {p1, p2}
  NoProc = NoProc
  MaxCalls = 2
  MaxChunk = 1
  MaxClock = 2
  MaxReconnects = 1
INVARIANTS
  BytesExact
  StampsCoherent
  SnapshotCoherent
  ClosedInfoNeedsOpenedInfo
  ClosedReportHasInfo
  CloseReported
PROPERTIES
  ImplementsStats
  FieldsNeverRegress
