SPECIFICATION FairSpec
CONSTANTS
  s1 = s1
  s2 = s2
  v1 = v1
  v2 = v2
  v3 = v3
  t1 = t1
  t2 = t2
  t3 = t3
  c1 = c1
  c2 = c2
  r1 = r1
  r2 = r2
  Shipments = {s1}
  Vouchers = {v1, v2}
  Lists = {}
  Tasks = {t1, t2}
  TaskOf <- TwoForOne
  Cancels = {c1, c2}
  Issuers = {}
  None = None
  MaxTries = 1
  MaxCrashes = 1
  SlowCalls = FALSE
  Entrances <- Reissues
INVARIANTS
  AcsInv
  CanceledIsDead
PROPERTIES
  NobodyIsStranded
  WorkEnds
CHECK_DEADLOCK FALSE
