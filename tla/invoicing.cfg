SPECIFICATION FairSpec
CONSTANTS
  o1 = o1
  o2 = o2
  w1 = w1
  w2 = w2
  Orders = {o1, o2}
  Touched = {o1}
  Workers = {w1, w2}
  None = None
  Retries = 1
  MaxStaff = 1
  Faults = {"crash", "lost", "query", "render", "smtp", "late"}
  MaxFaults = 1
INVARIANTS
  RegisterIsSound
  MailedOnce
PROPERTIES
  RegisteredIsMarked
  InvoiceIsMailed
CHECK_DEADLOCK FALSE
