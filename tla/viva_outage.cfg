SPECIFICATION FairSpec
CONSTANTS
  t1 = t1
  t2 = t2
  r1 = r1
  r2 = r2
  Txns = {t1}
  Requests = {r1}
  None = None
  MaxEdits = 0
  MaxFaults = 1
PROPERTIES
  OutageLosesNoPayment
CHECK_DEADLOCK FALSE
