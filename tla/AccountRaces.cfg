CONSTANTS
  u1 = u1
  u2 = u2
  l1 = l1
  l2 = l2
  r1 = r1
  r2 = r2
  Users <- MCUsers
  Links <- MCLinks
  NoLink = NoLink
  NoUser = NoUser
  Absent = Absent
  Requests <- MCRequests
  MaxAborts = 1
SPECIFICATION Spec
SYMMETRY Symmetry
INVARIANTS
  TypeOK
  LinkedInUnique
PROPERTIES
  LinkIsKept
  PurgedWasDeleted
