SPECIFICATION Spec
CONSTANTS
  p1 = p1
  p2 = p2
  r1 = r1
  r2 = r2
  s1 = s1
  s2 = s2
  o1 = o1
  o2 = o2
  w1 = w1
  w2 = w2
  Products <- TwoProducts
  Reservations = {r1, r2}
  Sessions = {s1, s2}
  Orders = {o1, o2}
  NoReservation = NoReservation
  NoOrder = NoOrder
  InitStock <- StockOfTwoAndOne
  MaxQty = 2
  MaxStock = 4
  TTL = 1
  Grain = 2
  RespectModes <- RespectOnly
  AdminDeltas <- NoDeltas
  Workers = {w1, w2}
  NoWorker = NoWorker
  NoProduct = NoProduct
  NoSession = NoSession
  InitCart <- TwoLines
  EditQtys <- NoEdits
  KeepModes <- ClearsCart
  Victims <- CheckoutLoses
INVARIANTS
  Conserved
  HoldsBacked
  TxInv
PROPERTIES
  ClosedForGood
  ImplementsInventory
SYMMETRY AlikeWorkers
