SPECIFICATION FairSpec
CONSTANTS
  p1 = p1
  p2 = p2
  h1 = h1
  h2 = h2
  Polls = {p1, p2}
  BoxNowPoll = p1
  Hooks = {h1, h2}
  MaxTrail = 3
  MaxCrashes = 1
INVARIANTS
  ReportsInOrder
PROPERTIES
  ImplementsFulfilment
  OrderCatchesUp
CHECK_DEADLOCK FALSE
