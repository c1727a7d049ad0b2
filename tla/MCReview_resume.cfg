CONSTANTS
  t1 = t1
  t2 = t2
  t3 = t3
  t4 = t4
  t5 = t5
  b1 = b1
  b2 = b2
  b3 = b3
  b4 = b4
  b5 = b5
  k1 = k1
  k2 = k2
  k3 = k3
  NoTask = NoTask
  Tasks <- OneTask
  Builds <- AllBuilds
  BuildOf <- OwnBuild
  Keys <- ThreeKeys
  KeyOf <- KeyInPairs
  Reviewed <- B1B2B5
  NoDiff <- None
  Attempts = 3
  MaxFaults = 1
  MaxCrashes = 0
SPECIFICATION FairSpec
PROPERTIES
  RunsAreFinished
CHECK_DEADLOCK FALSE
