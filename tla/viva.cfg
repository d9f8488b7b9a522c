SPECIFICATION FairSpec
CONSTANTS
  t1 = t1
  t2 = t2
  r1 = r1
  r2 = r2
  Txns = {t1, t2}
  Requests = {r1, r2}
  None = None
  MaxEdits = 1
  MaxFaults = 1
INVARIANTS
  HandledOnce
  FailureHidesNoPayment
PROPERTIES
  PaymentIsBooked
  ReversalIsBooked
CHECK_DEADLOCK FALSE
