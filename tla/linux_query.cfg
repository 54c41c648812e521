SPECIFICATION Spec
CONSTANTS
  Versions <- MCVersions
  Overrides <- MCOverrides
  MaxAdapts = 2
INVARIANTS
  TypeOK
  FlagsExact
  BaseFieldsFilled
  SupportedIsValid
  WarningsExact
  NoErrorMeansComplete
  ValidIsWrittenMostly
