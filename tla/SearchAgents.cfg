CONSTANTS
  MaxIds = 3
  j1 = j1
  j2 = j2
  Jobs = {j1, j2}
  Results <- BothOrders
  Settings = {"keywords"}
  Values = {v0, v1}
  Default = v0
  NoAgent = NoAgent
  Requests = {r1, r2}
  MaxAborts = 1
SYMMETRY Symmetry
SPECIFICATION Spec
INVARIANTS
  TypeOK
  AgentsBounded
  AnsweredIsStored
  SomeoneCanMove
PROPERTY ChangesWhatWasAsked
