CONSTANTS
  d1 = d1
  h1 = h1
  h2 = h2
  i1 = i1
  i2 = i2
  n1 = n1
  main = main
  o1 = o1
  o2 = o2
  o3 = o3
  Deliveries <- OneDelivery
  RepoOf <- MCRepoOf
  JobOf <- MCJobOf
  Relevant <- OneDelivery
  Hooks <- TwoHooks
  DeliveryOf <- MCDeliveryOf
  Ids <- OneId
  NameOf <- MCNameOf
  Names <- OneName
  Allowed <- OneName
  Jobs <- OneJob
  DefaultJob = main
  Operators <- OneOperator
  Requests <- OnlyRegister
  NoId = NoId
  MaxFaults = 1
  MaxCrashes = 0
SPECIFICATION Spec
PROPERTIES
  RedeliveryDispatches
CHECK_DEADLOCK FALSE
