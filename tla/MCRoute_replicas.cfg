SPECIFICATION Spec
CONSTANTS
  u1 = u1
  u2 = u2
  Srcs = {s1, s2}
  Restricted = {s2}
  Entities = {u1, u2}
  Users = {u1, u2}
  Replies <- Unhandled
  MaxDay = 1
  StaleDuration = 0
  None = None
  Procs <- AllProcs
  Tasks = {t1}
  Servers = {v1, v2}
  MaxRetries = 1
SYMMETRY ServerSymmetry
INVARIANTS
  TypeOK
  UpdatesAreOwned
PROPERTIES
  NoTakeover
