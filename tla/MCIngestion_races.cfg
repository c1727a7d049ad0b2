CONSTANTS
  d1 = d1
  h1 = h1
  h2 = h2
  i1 = i1
  i2 = i2
  n1 = n1
  main = main
  o1 = o1
  o2 = o2
  o3 = o3
  Deliveries <- OneDelivery
  RepoOf <- MCRepoOf
  JobOf <- MCJobOf
  Relevant <- OneDelivery
  Hooks <- TwoHooks
  DeliveryOf <- MCDeliveryOf
  Ids <- TwoIds
  NameOf <- MCNameOf
  Names <- OneName
  Allowed <- OneName
  Jobs <- OneJob
  DefaultJob = main
  Operators <- ThreeOperators
  Requests <- EveryKind
  NoId = NoId
  MaxFaults = 1
  MaxCrashes = 1
SPECIFICATION Spec
INVARIANTS
  AtMostOneTrigger
  NoSilentLoss
  NoHalfRegistration
PROPERTIES
  NoResurrection
CHECK_DEADLOCK FALSE
SYMMETRY Symmetry
CONSTRAINT OneMishap
