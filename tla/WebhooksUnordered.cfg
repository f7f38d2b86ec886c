CONSTANTS
  PaidSubs = {s1, s2}
  FreeSub = s0
  NoSub = NoSub
  PaidPlans = {pro}
  Freemium = Freemium
  NoPlan = NoPlan
  Handlers = {h1, h2}
  Reported = {"active", "unpaid", "canceled"}
  MaxEvents = 3
  MaxRedeliveries = 0
  MaxAborts = 0
SYMMETRY Symmetry
SPECIFICATION Spec
INVARIANT SummaryIsReliable
CHECK_DEADLOCK FALSE
