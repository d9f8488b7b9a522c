SPECIFICATION FairStoreSpec
CONSTANTS
  p1 = p1
  Products = {p1}
  Reservations = {r1}
  Sessions = {g1, u1}
  Guests = {g1}
  Accounts = {u1}
  Orders = {o1, o2}
  NoReservation = NoReservation
  NoOrder = NoOrder
  InitStock <- ShelfOfOne
  MaxQty = 2
  MaxStock = 1
  TTL = 1
  Grain = 2
  RespectModes <- NoMode
  AdminDeltas <- Restocks
  Tabs = {t1, t2}
  Keys = {k1}
  None = None
  MaxAsked = 1
  MaxFaults = 1
INVARIANTS
  StockTypeOK
  StoreIsSound
  KeyedOnce
PROPERTIES
  HoldsEnd
CHECK_DEADLOCK FALSE
