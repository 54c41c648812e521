SPECIFICATION Spec
CONSTANTS
  Names <- MCNames
  Position <- MCPosition
  Releases <- MCReleases
  Wanted <- MCWanted
  Callers = {c1, c2}
  RtlVersions <- MCRtlVersions
  Containers <- MCContainers
  compatLTSCReleases <- MCLTSC
  EtcFiles <- MCEtcFiles
  AltFiles <- MCAltFiles
INVARIANTS
  Sorted
  ReleaseKept
  CheckExact
  GetComplete
  CompatExact
  OsReleaseExact
