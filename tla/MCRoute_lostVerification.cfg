SPECIFICATION Spec
CONSTANTS
  u1 = u1
  u2 = u2
  Srcs = {s1}
  Restricted = {}
  Entities = {u1}
  Users = {u1}
  Replies <- OneDocument
  MaxDay = 1
  StaleDuration = 0
  None = None
  Procs <- AllProcs
  Tasks = {t1}
  Servers = {v1}
  MaxRetries = 0
PROPERTIES
  RegistrationVerifies
