CONSTANTS
  b1 = b1
  b2 = b2
  s1 = s1
  u1 = u1
  Builds <- TwoBuilds
  Shas <- OneSha
  ShaOf <- MCShaOf
  PullRequests <- OnlyB2
  Reusing <- OnlyB2
  Clients <- OneClient
  Attempts = 1
  MaxFaults = 1
  MaxCrashes = 0
  MaxCancels = 1
  NoBuild = NoBuild
  JenkinsForgets = TRUE
  ListsTruncated = TRUE
SPECIFICATION Spec
INVARIANTS
  NativeSuccessJustified
  StatusJustified
  ReviewAfterVerdict
CHECK_DEADLOCK FALSE
CONSTRAINT QuietUnlessReused
