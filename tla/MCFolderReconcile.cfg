CONSTANTS
  c1 = c1
  c2 = c2
  NoCall = NoCall
  Calls <- TwoCalls
  Attempts = 6
  MaxFaults = 2
  MaxCrashes = 1
  MaxRefreshes = 2
SPECIFICATION Spec
INVARIANTS
  LegacyJobKept
  ReturnMeansFolder
  NoSpuriousFailure
PROPERTIES
  MigrationStays
  MigrationCompletes
