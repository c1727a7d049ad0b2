CONSTANTS
  s1 = s1
  s2 = s2
  reader = reader
  operator = operator
  Stranger = Stranger
  Slots <- MCSlots
  Tokens <- MCTokens
  Scopes <- MCScopes
  Implied <- MCImplied
  Granted <- MCGranted
  Limit = 2
  Window = 2
  MaxTime = 4
SPECIFICATION Spec
INVARIANTS
  RateBounded
  RetryAfterHonest
  ActsForItsCaller
PROPERTIES
  ImplementsRateLimit
SYMMETRY SlotSymmetry
