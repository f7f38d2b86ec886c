CONSTANTS
  c1 = c1
  c2 = c2
  k1 = k1
  k2 = k2
  r1 = r1
  r2 = r2
  Candidates <- MCCandidates
  NoOne = NoOne
  Keys <- MCKeys
  Owner <- MCOwner
  Sent <- MCSent
  NoFile = NoFile
  Keep = Keep
  Absent = Absent
  Requests <- MCRequests
  Leaving <- MCLeaving
  MaxAborts = 1
SPECIFICATION Spec
SYMMETRY Symmetry
INVARIANTS
  TypeOK
  NamesAnObject
  HasAccount
