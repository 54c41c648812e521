SPECIFICATION Spec
CONSTANTS
  Versions <- MCVersions
  Overrides <- MCOverrides
  MaxAdapts = 1
INVARIANT
  ValidIsWritten
