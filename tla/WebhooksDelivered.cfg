CONSTANTS
  PaidSubs = {s1, s2}
  FreeSub = s0
  NoSub = NoSub
  PaidPlans = {pro}
  Freemium = Freemium
  NoPlan = NoPlan
  Handlers = {h1, h2}
  Reported = {"canceled"}
  MaxEvents = 4
  MaxRedeliveries = 1
  MaxAborts = 1
SPECIFICATION FairSpec
INVARIANTS
  TypeOK
  Converged
  RowIsOneSubscription
PROPERTY EveryEventIsAnswered
CHECK_DEADLOCK FALSE
