SPECIFICATION Spec
CONSTANTS
  o1 = o1
  o2 = o2
  w1 = w1
  w2 = w2
  k1 = k1
  x1 = x1
  Orders = {o1, o2}
  Workers = {w1, w2}
  Clients = {k1}
  Runs = {x1}
  None = None
  Base = 1
  Multiplier = 2
  TierXp = 1
  Opening = 1
  Amounts = {1}
  Bonus = 1
  MaxDue = 1
  MaxFaults = 1
INVARIANTS
  LedgerIsRight
  AwardIsDue
PROPERTIES
  RedemptionReturns
SYMMETRY Alike
CHECK_DEADLOCK FALSE
