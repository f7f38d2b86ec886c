CONSTANTS
  Emails = {e1}
  Requests = {r1}
  Kinds = {"register"}
  PriceKnown = {TRUE, FALSE}
  MaxAborts = 1
  MaxPrices = 3
  Plans = {freemium, pro}
  Freemium = freemium
  NoPlan = NoPlan
  Absent = Absent
  Syncs = {s1, s2}
  PageSize = 2
  MaxEdits = 3
SPECIFICATION PricedSpec
SYMMETRY Symmetry
INVARIANTS
  PricedTypeOK
  LookupIsUnique
  SyncsWaitInLine
  BoughtWasFreemium
