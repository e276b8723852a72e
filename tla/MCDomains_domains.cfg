SPECIFICATION Spec
CONSTANTS
  d1 = d1
  d2 = d2
  d3 = d3
  d4 = d4
  w1 = w1
  w2 = w2
  Ids = {d1, d2, d3, d4}
  Names <- TwoNames
  NameOf <- NewTypes
  TypeOf <- Types
  Clients <- ThreeClients
  Stamps <- OneStamp
  Letters = {"a", "b", "m", "n", "s"}
  Bind = TRUE
  Workers <- TwoWorkers
  None = None
SYMMETRY WorkerSymmetry
INVARIANTS
  DomainsTypeOK
  RoutesHaveDomain
  PlainNamesKeepApart
PROPERTIES
  LoneSetSettles
  ImplementsAddresses
