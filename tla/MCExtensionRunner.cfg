CONSTANTS
  c1 = c1
  c2 = c2
  k1 = k1
  NoCall = NoCall
  Calls <- TwoCalls
  Keys <- OneKey
  KeyOf <- OnOneKey
  MaxActions = 2
  MaxInput = 2
  MaxOutput = 1
  MaxNoise = 1
SPECIFICATION RunnerSpec
INVARIANTS
  AtMostOneExecution
  SucceededMeansPerformed
  NoExtraActions
  OutputIsComplete
  NoPipeDeadlock
PROPERTIES
  CallsAndProcessesEnd
  ImplementsIdempotentRuns
