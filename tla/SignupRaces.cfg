CONSTANTS
  Emails = {e1, e2}
  Requests = {r1, r2, r3}
  Kinds = {"register", "create", "linkedin"}
  PriceKnown = {TRUE, FALSE}
  MaxAborts = 2
SYMMETRY Symmetry
SPECIFICATION Spec
INVARIANTS
  AnsweredIsComplete
  CustomerHasAccount
