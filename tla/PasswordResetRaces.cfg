CONSTANTS
  Users = {u1}
  Passwords = {p1}
  Tokens = {t1}
  Requests = {r1, r2, r3}
  NoUser = NoUser
  NoToken = NoToken
  NoPassword = NoPassword
  TTL = 2
  MaxClock = 2
  MaxAborts = 1
SPECIFICATION FairSpec
INVARIANTS
  TypeOK
  SingleUse
  FreshWhenConsumed
PROPERTIES
  ImplementsOneTimeToken
  EveryRequestEnds
  SomeAttemptWins
