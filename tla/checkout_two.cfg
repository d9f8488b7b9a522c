SPECIFICATION FairSpec
CONSTANTS
  p1 = p1
  p2 = p2
  r1 = r1
  r2 = r2
  s1 = s1
  s2 = s2
  o1 = o1
  o2 = o2
  w1 = w1
  w2 = w2
  Products <- TwoProducts
  Reservations = {}
  Sessions = {s1, s2}
  Orders = {o1, o2}
  NoReservation = NoReservation
  NoOrder = NoOrder
  InitStock <- StockOfOne
  MaxQty = 1
  MaxStock = 4
  TTL = 1
  Grain = 2
  RespectModes <- RespectOnly
  AdminDeltas <- NoDeltas
  Workers = {w1, w2}
  NoWorker = NoWorker
  NoProduct = NoProduct
  NoSession = NoSession
  InitCart <- OneOfEach
  EditQtys <- DropsLine
  KeepModes <- AnyPayWay
  Victims <- EitherLoses
INVARIANTS
  TakesTheBasket
  NothingInvented
PROPERTIES
  RequestsEnd
