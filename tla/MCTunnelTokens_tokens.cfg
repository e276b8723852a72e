SPECIFICATION FairSpec
CONSTANTS
  k1 = k1
  k2 = k2
  Srcs = {s1}
  Servers = {v1, v2}
  Tasks = {t1}
  Outcomes = {"UP", "DOWN", "nothing"}
  Configs <- Rollover
  Lifespan = 1
  Leeway = 1
  None = None
INVARIANTS
  TokensTypeOK
PROPERTIES
  SilenceIsFinal
  EndsWithVerification
  RetiredKeysFade
  ComesBack
