CONSTANTS
  Users = {u1}
  Tokens = {t1, t2, t3, t4}
  Requests = {r1, r2}
  NoUser = NoUser
  NoToken = NoToken
  MaxAborts = 1
SYMMETRY Symmetry
SPECIFICATION Spec
INVARIANTS
  RotationAtomic
  FanOut
  LogoutRevokes
PROPERTY ImplementsRotatingToken
