CONSTANTS
  Refs = {feature, production}
  Protected = {production}
  NoRef = NoRef
  TTL = 0
  PageSize = 1
  Cleaners = {c1}
  Janitors = {j1}
  MaxPushes = 2
  MaxFailures = 1
SPECIFICATION FairSpec
INVARIANT TypeOK
PROPERTIES
  OnlyPreviewsDeleted
  EveryPreviewExpires
