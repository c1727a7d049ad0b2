CONSTANTS
  f = f
  g = g
  deleted = deleted
  NoPath = NoPath
  Paths <- MCPaths
  Unsupported <- MCUnsupported
  Headers <- MCHeaders
  Locations <- MCLocations
  MaxLines = 4
  MaxCuts = 1
  MaxAttempts = 1
  MaxRevision = 1
SPECIFICATION Spec
PROPERTIES
  ParsesGitDiffs
CHECK_DEADLOCK FALSE
