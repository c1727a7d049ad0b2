CONSTANTS
  b1 = b1
  b2 = b2
  s1 = s1
  u1 = u1
  Builds <- OneBuild
  Shas <- OneSha
  ShaOf <- MCShaOf
  PullRequests <- None
  Reusing <- None
  Clients <- None
  Attempts = 3
  MaxFaults = 1
  MaxCrashes = 1
  MaxCancels = 0
  NoBuild = NoBuild
  JenkinsForgets = FALSE
  ListsTruncated = TRUE
SPECIFICATION Spec
INVARIANTS
  TypeOK
  AcceptedMeansDone
PROPERTIES
  TerminalStays
  ImplementsStatusGate
CHECK_DEADLOCK FALSE
