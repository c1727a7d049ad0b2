CONSTANTS
  b1 = b1
  b2 = b2
  s1 = s1
  u1 = u1
  Builds <- OneBuild
  Shas <- OneSha
  ShaOf <- MCShaOf
  PullRequests <- None
  Reusing <- None
  Clients <- OneClient
  Attempts = 1
  MaxFaults = 0
  MaxCrashes = 0
  MaxCancels = 0
  NoBuild = NoBuild
  JenkinsForgets = FALSE
  ListsTruncated = FALSE
SPECIFICATION Spec
INVARIANTS
  AttachedLogKept
