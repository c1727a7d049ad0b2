CONSTANTS
  f = f
  g = g
  deleted = deleted
  NoPath = NoPath
  Paths <- MCPaths
  Unsupported <- MCUnsupported
  Headers <- MCHeaders
  Locations <- MCLocations
  MaxLines = 7
  MaxCuts = 1
  MaxAttempts = 3
  MaxRevision = 2
SPECIFICATION Spec
INVARIANTS
  AddedLinesAreTrue
  ReviewIsOfTheBuild
  FailureHasCause
PROPERTIES
  RefusesExactlyUnreadable
  ReviewEnds
CONSTRAINT Interesting
CHECK_DEADLOCK FALSE
