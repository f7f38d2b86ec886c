CONSTANTS
  Ids = {i1, i2, i3}
  Requests = {r1, r2}
  NoId = NoId
  MaxAborts = 1
  p1 = p1
  u1 = u1
  Profiles <- OneProfile
  MaxRetries = 3
  RecursionLimit = 25
SPECIFICATION FairScoredSpec
INVARIANTS
  ScoredTypeOK
  ScoringsBounded
  CompletedIsGrounded
PROPERTIES
  ImplementsStoredAnalysis
  ComputeEnds
