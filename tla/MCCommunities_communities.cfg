SPECIFICATION Spec
CONSTANTS
  w1 = w1
  w2 = w2
  w3 = w3
  Users = {u1, u2}
  Comms = {c1, c2}
  Routes = {r1}
  Names = {n1, n2}
  Workers <- ThreeWorkers
  UserInKey = FALSE
  None = None
SYMMETRY Symmetry
INVARIANTS
  CommunitiesTypeOK
  ReferencesHold
  RequestersAreNotOwners
PROPERTIES
  PendingPins
  OwnersDecide
