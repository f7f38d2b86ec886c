CONSTANTS
  p1 = p1
  p2 = p2
  u1 = u1
  u2 = u2
  Profiles <- TwoProfiles
  MaxRetries = 3
  RecursionLimit = 25
CHECK_DEADLOCK FALSE
SPECIFICATION Spec
INVARIANT RetriesAreBounded
