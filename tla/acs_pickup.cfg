SPECIFICATION Spec
CONSTANTS
  s1 = s1
  s2 = s2
  v1 = v1
  v2 = v2
  v3 = v3
  t1 = t1
  t2 = t2
  t3 = t3
  c1 = c1
  c2 = c2
  r1 = r1
  r2 = r2
  Shipments = {s1, s2}
  Vouchers = {v1, v2, v3}
  Lists = {1, 2}
  Tasks = {t1, t2, t3}
  TaskOf <- OneEach
  Cancels = {c1}
  Issuers = {r1}
  None = None
  MaxTries = 0
  MaxCrashes = 1
  SlowCalls = FALSE
  Entrances <- ByHand
INVARIANTS
  OneParcel
  LinkedIsOnList
SYMMETRY AlikeVouchers
CHECK_DEADLOCK FALSE
