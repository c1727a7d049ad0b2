CONSTANTS
  f = f
  g = g
  deleted = deleted
  NoPath = NoPath
  Paths <- MCPaths
  Unsupported <- MCUnsupported
  Headers <- MCHeaders
  Locations <- MCLocations
  MaxLines = 4
  MaxCuts = 3
  MaxAttempts = 1
  MaxRevision = 0
SPECIFICATION Spec
INVARIANTS
  CommentsAreOnAddedLines
CHECK_DEADLOCK FALSE
CONSTRAINT LittleNoise
