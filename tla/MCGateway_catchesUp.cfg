SPECIFICATION FairSyncSpec
CONSTANTS
  u1 = u1
  Srcs = {s1}
  Restricted = {}
  Entities = {u1}
  Users = {u1}
  Replies <- UpAndDown
  MaxDay = 0
  StaleDuration = 0
  None = None
  Procs <- AllProcs
  Tasks = {t1}
  Servers = {v1}
  MaxRetries = 0
  Mails = {m1}
  NotifyRetries = 1
INVARIANTS
  SyncTypeOK
PROPERTIES
  GatewayCatchesUp
  PassEnds
