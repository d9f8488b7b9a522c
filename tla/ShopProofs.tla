--------------------------- MODULE ShopProofs ---------------------------
(***************************************************************************)
(* StockManager, Checkout and Storefront, for any threads, requests, carts,*)
(* products and orders.                                                    *)
(*                                                                         *)
(* For Checkout the argument is ownership.  CInv says, of each thread by   *)
(* the place it is at, that the units it has moved are of products it has  *)
(* locked, the holds it has sold or freed are still open and of products   *)
(* it has locked, and the order it works on is its own.  So a step of one  *)
(* thread cannot disturb what another has written and not committed, and a *)
(* commit cannot take a product below zero.  Ledger adds what a thread     *)
(* still owes and has moved; at the commit nothing is owed, so the whole   *)
(* basket goes at once: the refinement of Inventory.                       *)
(*                                                                         *)
(* Counting is by the sums of Sums: what the thread has moved is what its  *)
(* order took (Ledger), what all orders hold is what left the shelf        *)
(* (Conserved), and the units of the active holds are on the shelf         *)
(* (Backing).                                                              *)
(*                                                                         *)
(* For Storefront, at the end, it is locks again (Merging, Exclusive), and *)
(* rights to an order that are counted (Entitled).                         *)
(***************************************************************************)
EXTENDS Checkout, Storefront, Sums

(***************************************************************************)
(* The operations of StockManager alone: the shape of the tables (stock is *)
(* never negative, the sweep only names rows that exist), that a closed    *)
(* hold stays closed, and what a step does to the units of the active      *)
(* holds, which the reserving and the selling steps compare with the shelf.*)
(***************************************************************************)
\* A row that is written back with `consumed` and `order` changed is a row.
LEMMA RowUpdate ==
  ASSUME NEW row \in Reservation, NEW o \in Orders \cup {NoOrder}
  PROVE  /\ [row EXCEPT !.consumed = TRUE] \in Reservation
         /\ [row EXCEPT !.consumed = TRUE, !.order = o] \in Reservation
         /\ [row EXCEPT !.consumed = TRUE, !.order = o].consumed = TRUE
  BY DEF Reservation

\* ReserveStock, the only operation that creates a row.
LEMMA ReserveKeepsType ==
  ASSUME StockTypeOK,
         NEW r \in Reservations, NEW p \in Products, NEW q \in Quantities,
         NEW s \in Sessions, ReserveStock(r, p, q, s)
  PROVE  StockTypeOK'
<1> DEFINE row == [product |-> p, quantity |-> q, session |-> s, left |-> TTL,
                   consumed |-> FALSE, order |-> NoOrder]
<1>1. row \in Reservation
  BY StockConstants DEF Reservation
<1>2. res' \in [Reservations -> Reservation \cup {NoReservation}]
  BY <1>1 DEF ReserveStock, StockTypeOK
<1>3. sweep' \subseteq {x \in Reservations : Exists(x)'}
  <2> SUFFICES ASSUME NEW x \in sweep PROVE x \in Reservations /\ Exists(x)'
    BY DEF ReserveStock
  <2>1. x \in Reservations /\ Exists(x) /\ x # r
    BY DEF StockTypeOK, ReserveStock
  <2> QED
    BY <2>1 DEF ReserveStock, StockTypeOK, Exists
<1> QED
  BY <1>2, <1>3 DEF ReserveStock, StockTypeOK

\* Consume, shared by release, sale and sweep.
LEMMA ConsumeKeepsType ==
  ASSUME StockTypeOK, NEW rs \in SUBSET {x \in Reservations : Open(x)},
         NEW o \in Orders \cup {NoOrder}, Consume(rs, o)
  PROVE  /\ res' \in [Reservations -> Reservation \cup {NoReservation}]
         /\ \A x \in Reservations : Exists(x) => res'[x] \in Reservation
<1> SUFFICES ASSUME NEW x \in Reservations
             PROVE  /\ res'[x] \in Reservation \cup {NoReservation}
                    /\ Exists(x) => res'[x] \in Reservation
  BY DEF Consume
<1>1. CASE x \in rs
  <2>1. res[x] \in Reservation
    BY <1>1 DEF StockTypeOK, Open, Exists
  <2>2. res'[x] = [res[x] EXCEPT !.consumed = TRUE, !.order = o]
    BY <1>1 DEF Consume
  <2> QED
    BY <2>1, <2>2, RowUpdate
<1>2. CASE x \notin rs
  BY <1>2 DEF Consume, StockTypeOK, Exists
<1> QED
  BY <1>1, <1>2

\* Rows never disappear, so what a sweep has read stays there.
LEMMA SweepKeepsType ==
  ASSUME StockTypeOK, sweep' = sweep,
         \A x \in Reservations : Exists(x) => Exists(x)'
  PROVE  sweep' \subseteq {x \in Reservations : Exists(x)'}
  BY DEF StockTypeOK

\* One step of StockNext, by operation.
LEMMA TypeStep ==
  ASSUME StockTypeOK, StockNext
  PROVE  StockTypeOK'
<1>1. ASSUME NEW r \in Reservations, NEW p \in Products, NEW q \in Quantities,
             NEW s \in Sessions, ReserveStock(r, p, q, s)
      PROVE  StockTypeOK'
  BY <1>1, ReserveKeepsType
<1>2. ASSUME NEW r \in Reservations, NEW o \in Orders \cup {NoOrder}, Open(r),
             Consume({r}, o), sweep' = sweep
      PROVE  /\ res' \in [Reservations -> Reservation \cup {NoReservation}]
             /\ sweep' \subseteq {x \in Reservations : Exists(x)'}
  <2>1. {r} \in SUBSET {x \in Reservations : Open(x)}
    BY <1>2
  <2>2. /\ res' \in [Reservations -> Reservation \cup {NoReservation}]
        /\ \A x \in Reservations : Exists(x) => Exists(x)'
    BY <1>2, <2>1, ConsumeKeepsType, NoRow DEF Exists
  <2> QED
    BY <1>2, <2>2, SweepKeepsType
<1>3. ASSUME NEW r \in Reservations, ReleaseReservation(r)
      PROVE  StockTypeOK'
  <2>1. res[r].order \in Orders \cup {NoOrder}
    BY <1>3 DEF ReleaseReservation, Open, Exists, StockTypeOK, Reservation
  <2> QED
    BY <1>2, <1>3, <2>1 DEF ReleaseReservation, StockTypeOK
<1>4. ASSUME NEW r \in Reservations, NEW o \in Orders,
             ConvertReservationToSale(r, o)
      PROVE  StockTypeOK'
  <2>1. Open(r) /\ res[r] \in Reservation
    BY <1>4 DEF ConvertReservationToSale, Convertible, Open, Exists, StockTypeOK
  <2>2. stock' \in [Products -> Nat]
    BY <1>4, <2>1 DEF ConvertReservationToSale, Move, StockTypeOK, Reservation,
                      Quantities
  <2> QED
    BY <1>2, <1>4, <2>1, <2>2 DEF ConvertReservationToSale, StockTypeOK
<1>5. ASSUME NEW p \in Products, NEW q \in Quantities, NEW respect \in BOOLEAN,
             DecrementStock(p, q, respect)
      PROVE  StockTypeOK'
  BY <1>5 DEF DecrementStock, Move, StockTypeOK, Quantities, Exists
<1>6. ASSUME NEW p \in Products, NEW q \in Quantities, IncrementStock(p, q)
      PROVE  StockTypeOK'
  BY <1>6 DEF IncrementStock, Move, StockTypeOK, Quantities, Exists
<1>7. ASSUME NEW p \in Products, NEW delta \in AdminDeltas, AdjustStock(p, delta)
      PROVE  StockTypeOK'
  BY <1>7, StockConstants DEF AdjustStock, StockTypeOK, Exists
<1>8. ASSUME CleanupRead
      PROVE  StockTypeOK'
  BY <1>8 DEF CleanupRead, Sweepable, Open, StockTypeOK, Exists
<1>9. ASSUME CleanupWrite
      PROVE  StockTypeOK'
  <2>1. res' \in [Reservations -> Reservation \cup {NoReservation}]
    <3> SUFFICES ASSUME NEW x \in Reservations
                 PROVE  res'[x] \in Reservation \cup {NoReservation}
      BY <1>9 DEF CleanupWrite
    <3>1. CASE x \in sweep
      <4>1. res[x] \in Reservation
        BY <3>1 DEF StockTypeOK, Exists
      <4>2. res'[x] = [res[x] EXCEPT !.consumed = TRUE]
        BY <1>9, <3>1 DEF CleanupWrite
      <4>3. NoOrder \in Orders \cup {NoOrder}
        OBVIOUS
      <4> QED
        BY <4>1, <4>2, <4>3, RowUpdate
    <3>2. CASE x \notin sweep
      BY <1>9, <3>2 DEF CleanupWrite, StockTypeOK
    <3> QED
      BY <3>1, <3>2
  <2> QED
    BY <1>9, <2>1 DEF CleanupWrite, StockTypeOK
<1>10. ASSUME Tick
       PROVE  StockTypeOK'
  <2>1. ASSUME NEW x \in Reservations, Exists(x)
        PROVE  res'[x] \in Reservation
    <3>1. res[x] \in Reservation
      BY <2>1 DEF StockTypeOK, Exists
    <3>2. res'[x] = [res[x] EXCEPT !.left =
                       IF res[x].left < Grain THEN -1 ELSE res[x].left - Grain]
      BY <1>10, <2>1 DEF Tick
    <3> QED
      BY <3>1, <3>2, StockConstants DEF Reservation
  <2>2. ASSUME NEW x \in Reservations, ~Exists(x)
        PROVE  res'[x] = NoReservation
    BY <1>10, <2>2 DEF Tick, Exists
  <2>3. res' \in [Reservations -> Reservation \cup {NoReservation}]
    BY <1>10, <2>1, <2>2 DEF Tick
  <2>4. sweep' \subseteq {x \in Reservations : Exists(x)'}
    BY <1>10, <2>1, SweepKeepsType, NoRow DEF Tick, Exists
  <2> QED
    BY <1>10, <2>3, <2>4 DEF Tick, StockTypeOK
<1> QED
  BY <1>1, <1>3, <1>4, <1>5, <1>6, <1>7, <1>8, <1>9, <1>10,
     StockConstants DEF StockNext, Cleanup

\* The type invariant of the stock tables (run storefront checks it
\* on a small instance).
THEOREM StockTypeCorrect == StockSpec => []StockTypeOK
<1>1. StockInit => StockTypeOK
  BY StockConstants DEF StockInit, StockTypeOK
<1>2. StockTypeOK /\ [StockNext]_stockVars => StockTypeOK'
  <2>1. StockTypeOK /\ UNCHANGED stockVars => StockTypeOK'
    BY DEF StockTypeOK, stockVars, Exists
  <2> QED
    BY <2>1, TypeStep
<1> QED
  BY <1>1, <1>2, PTL DEF StockSpec

-----------------------------------------------------------------------------
\* A row that is closed is left alone by every operation: the ones that close
\* rows lock an open one, and the sweep keeps the order of what it overtakes.
StaysClosed(r) ==
  Exists(r) /\ res[r].consumed => res'[r].consumed /\ res'[r].order = res[r].order

\* No step reopens a consumed hold or changes its order.
LEMMA ClosingStep ==
  ASSUME StockTypeOK, [StockNext]_stockVars, NEW r \in Reservations
  PROVE  StaysClosed(r)
<1> SUFFICES ASSUME Exists(r), res[r].consumed
             PROVE  res'[r].consumed /\ res'[r].order = res[r].order
  BY DEF StaysClosed
<1>0. res[r] \in Reservation /\ ~Open(r)
  BY DEF StockTypeOK, Exists, Open
<1>1. ASSUME NEW x \in Reservations, NEW o \in Orders \cup {NoOrder}, Open(x),
             Consume({x}, o)
      PROVE  res'[r] = res[r]
  BY <1>0, <1>1 DEF Consume
<1>2. ASSUME NEW x \in Reservations, NEW p \in Products, NEW q \in Quantities,
             NEW s \in Sessions, ReserveStock(x, p, q, s)
      PROVE  res'[r] = res[r]
  BY <1>2 DEF ReserveStock, Exists, StockTypeOK
<1>3. ASSUME NEW x \in Reservations, ReleaseReservation(x)
      PROVE  res'[r] = res[r]
  <2>1. res[x].order \in Orders \cup {NoOrder}
    BY <1>3 DEF ReleaseReservation, Open, Exists, StockTypeOK, Reservation
  <2> QED
    BY <1>1, <1>3, <2>1 DEF ReleaseReservation
<1>4. ASSUME NEW x \in Reservations, NEW o \in Orders,
             ConvertReservationToSale(x, o)
      PROVE  res'[r] = res[r]
  BY <1>1, <1>4 DEF ConvertReservationToSale, Convertible
<1>5. CASE CleanupWrite
  <2>1. res'[r] = res[r] \/ res'[r] = [res[r] EXCEPT !.consumed = TRUE]
    BY <1>5 DEF CleanupWrite
  <2> QED
    BY <1>0, <2>1 DEF Reservation
<1>6. CASE Tick
  <2>1. res'[r] = [res[r] EXCEPT !.left =
                     IF res[r].left < Grain THEN -1 ELSE res[r].left - Grain]
    BY <1>6 DEF Tick
  <2> QED
    BY <1>0, <2>1 DEF Reservation
<1>7. CASE UNCHANGED res
  BY <1>7
<1> QED
  BY <1>2, <1>3, <1>4, <1>5, <1>6, <1>7
     DEF StockNext, stockVars, DecrementStock, IncrementStock, AdjustStock,
         Cleanup, CleanupRead

\* No release, sale or sweep takes a closed hold again, or to another order,
\* however the operations and the sweep's two statements interleave.
THEOREM StockClosedForGood == StockSpec => ClosedForGood
<1>1. StockTypeOK /\ [StockNext]_stockVars
        => [\A r \in Reservations :
              Exists(r) /\ res[r].consumed
                => res'[r].consumed /\ res'[r].order = res[r].order]_stockVars
  BY ClosingStep DEF StaysClosed
<1> QED
  BY <1>1, StockTypeCorrect, PTL DEF StockSpec, ClosedForGood

-----------------------------------------------------------------------------
\* The units of a set of rows, in a table that is named: the one before a step
\* or the one after it.
UnitsIn(db, rs) == SumFunctionOnSet([r \in rs |-> db[r].quantity], rs)

\* Units(rs) is that sum, of the table as it is.
LEMMA UnitsAre ==
  /\ \A rs : Units(rs) = UnitsIn(res, rs)
  /\ \A p : Units(Holds(p))' = UnitsIn(res', Holds(p)')
  BY DEF Units, UnitsIn, SumFunction

\* Rows of type Reservation have a quantity to add up.
Counted(db, rs) ==
  rs \subseteq Reservations /\ \A r \in rs : db[r].quantity \in Nat

\* Fewer rows with the same quantities hold no more units.
LEMMA FewerUnits ==
  ASSUME NEW db, NEW rs, Counted(db, rs), NEW next, NEW qs \in SUBSET rs,
         \A r \in qs : next[r].quantity = db[r].quantity
  PROVE  /\ UnitsIn(next, qs) \in Int /\ UnitsIn(db, rs) \in Int
         /\ UnitsIn(next, qs) <= UnitsIn(db, rs)
<1> DEFINE f == [r \in rs |-> db[r].quantity]
           g == [r \in qs |-> next[r].quantity]
<1>1. IsFiniteSet(rs) /\ IsFiniteSet(qs)
  BY StockConstants, FS_Subset DEF Counted
<1>2. /\ \A r \in rs : f[r] \in Int /\ 0 <= f[r]
      /\ \A r \in qs : g[r] = f[r]
  BY DEF Counted
<1> HIDE DEF f, g
<1>3. SumFunctionOnSet(g, qs) = SumFunctionOnSet(f, qs)
  BY <1>1, <1>2, SumAgrees
<1>4. SumFunctionOnSet(f, qs) <= SumFunctionOnSet(f, rs)
  BY <1>1, <1>2, SumGrows
<1>5. SumFunctionOnSet(f, rs) \in Int /\ SumFunctionOnSet(f, qs) \in Int
  BY <1>1, <1>2, SumIsInt
<1> QED
  BY <1>3, <1>4, <1>5 DEF UnitsIn, f, g

\* One row more or less is its quantity more or less.
LEMMA UnitsApart ==
  ASSUME NEW db, NEW rs, Counted(db, rs), NEW r \in rs
  PROVE  /\ UnitsIn(db, rs) = db[r].quantity + UnitsIn(db, rs \ {r})
         /\ UnitsIn(db, rs \ {r}) \in Int
<1> DEFINE f == [x \in rs |-> db[x].quantity]
           g == [x \in rs \ {r} |-> db[x].quantity]
<1>1. IsFiniteSet(rs) /\ IsFiniteSet(rs \ {r})
  BY StockConstants, FS_Subset DEF Counted
<1>2. \A x \in rs : f[x] \in Int
  BY DEF Counted
<1>3. \A x \in rs \ {r} : g[x] = f[x]
  OBVIOUS
<1>4. f[r] = db[r].quantity
  OBVIOUS
<1> HIDE DEF f, g
<1>5. SumFunctionOnSet(g, rs \ {r}) = SumFunctionOnSet(f, rs \ {r})
  BY <1>1, <1>3, SumAgrees
<1>6. SumFunctionOnSet(f, rs) = f[r] + SumFunctionOnSet(f, rs \ {r})
  BY <1>1, <1>2, SumApart
<1>7. SumFunctionOnSet(f, rs \ {r}) \in Int
  BY <1>1, <1>2, SumIsInt
<1> QED
  BY <1>4, <1>5, <1>6, <1>7 DEF UnitsIn, f, g

\* The rows a query counts have quantities.
LEMMA HoldsCounted ==
  ASSUME StockTypeOK, NEW p
  PROVE  Counted(res, Holds(p))
  BY DEF StockTypeOK, Counted, Holds, Active, Open, Exists, Reservation, Quantities

\* Every operation but a reservation leaves the active holds, or fewer.
LEMMA HoldsShrink ==
  ASSUME StockTypeOK, NEW r \in Reservations, Active(r)',
         \/ \E x \in Reservations : ReleaseReservation(x)
         \/ CleanupRead \/ CleanupWrite \/ Tick \/ UNCHANGED res
  PROVE  /\ Active(r) /\ res'[r].product = res[r].product
         /\ res'[r].quantity = res[r].quantity
<1>1. Exists(r)' /\ ~res'[r].consumed /\ res'[r].left > 0
  BY DEF Active, Open
<1>2. CASE UNCHANGED res
  BY <1>2 DEF Active, Open, Exists
<1>3. CASE Exists(r)
  <2>1. res[r] \in Reservation
    BY <1>3 DEF StockTypeOK, Exists
  <2>2. ASSUME NEW x \in Reservations, ReleaseReservation(x)
        PROVE  res'[r] = res[r]
    <3>1. CASE r = x
      <4>1. res'[r] = [res[r] EXCEPT !.consumed = TRUE, !.order = res[r].order]
        BY <2>2, <3>1 DEF ReleaseReservation, Consume
      <4>2. res'[r].consumed
        BY <2>1, <4>1 DEF Reservation
      <4> QED
        BY <1>1, <4>2
    <3>2. CASE r # x
      BY <2>2, <3>2 DEF ReleaseReservation, Consume
    <3> QED
      BY <3>1, <3>2
  <2>3. CASE CleanupWrite
    <3>1. CASE r \in sweep
      <4>1. res'[r] = [res[r] EXCEPT !.consumed = TRUE]
        BY <2>3, <3>1 DEF CleanupWrite
      <4>2. res'[r].consumed
        BY <2>1, <4>1 DEF Reservation
      <4> QED
        BY <1>1, <4>2
    <3>2. CASE r \notin sweep
      BY <1>1, <1>3, <2>3, <3>2 DEF CleanupWrite, Active, Open
    <3> QED
      BY <3>1, <3>2
  <2>4. CASE Tick
    <3>1. res'[r] = [res[r] EXCEPT !.left =
                       IF res[r].left < Grain THEN -1 ELSE res[r].left - Grain]
      BY <1>3, <2>4 DEF Tick
    <3>2. /\ res'[r].left = IF res[r].left < Grain THEN -1 ELSE res[r].left - Grain
          /\ res'[r].consumed = res[r].consumed /\ res'[r].product = res[r].product
          /\ res'[r].quantity = res[r].quantity /\ res[r].left \in Int
      BY <2>1, <3>1 DEF Reservation
    <3>3. res[r].left > 0
      BY <1>1, <3>2, StockConstants
    <3> QED
      BY <1>1, <1>3, <3>2, <3>3 DEF Active, Open
  <2> QED
    BY <1>1, <1>2, <1>3, <2>2, <2>3, <2>4 DEF CleanupRead, Active, Open
<1>4. CASE ~Exists(r)
  <2>1. r \notin sweep
    BY <1>4 DEF StockTypeOK
  <2>2. res'[r] = res[r]
    BY <1>4, <2>1
       DEF ReleaseReservation, Consume, Open, CleanupRead, CleanupWrite, Tick
  <2> QED
    BY <1>1, <1>4, <2>2 DEF Exists
<1> QED
  BY <1>3, <1>4

\* A reservation adds its own row to the holds of its product, which the shelf
\* covers, and leaves the other products'.
LEMMA ReserveHolds ==
  ASSUME StockTypeOK, NEW r \in Reservations, NEW p \in Products,
         NEW q \in Quantities, NEW s \in Sessions, ReserveStock(r, p, q, s)
  PROVE  /\ Holds(p)' = Holds(p) \cup {r} /\ r \notin Holds(p)
         /\ \A x \in Products \ {p} : Holds(x)' = Holds(x)
         /\ \A x \in Reservations \ {r} : res'[x] = res[x]
         /\ UnitsIn(res', Holds(p)') <= stock[p]
<1> DEFINE row == [product |-> p, quantity |-> q, session |-> s, left |-> TTL,
                   consumed |-> FALSE, order |-> NoOrder]
<1>1. res'[r] = row /\ \A x \in Reservations \ {r} : res'[x] = res[x]
  BY DEF ReserveStock, StockTypeOK
<1>2. row \in Reservation
  BY StockConstants DEF Reservation
<1>3. Active(r)' /\ ~Exists(r)
  <2>1. row # NoReservation
    BY <1>2, NoRow
  <2>2. row.consumed = FALSE /\ row.left > 0
    BY StockConstants
  <2> HIDE DEF row
  <2> QED
    BY <1>1, <2>1, <2>2 DEF Active, Open, Exists, ReserveStock
<1>4. \A x \in Reservations \ {r} : Active(x)' = Active(x)
  BY <1>1 DEF Active, Open, Exists
<1>5. /\ Holds(p)' = Holds(p) \cup {r} /\ r \notin Holds(p)
      /\ \A x \in Products \ {p} : Holds(x)' = Holds(x)
  BY <1>1, <1>3, <1>4 DEF Holds, Active, Open
<1>6. UnitsIn(res', Holds(p)') <= stock[p]
  <2> DEFINE hs == Holds(p)
  <2>1. Counted(res, hs) /\ hs \subseteq Reservations
    BY HoldsCounted DEF Holds
  <2> HIDE DEF hs
  <2>2. Counted(res', hs \cup {r})
    BY <1>1, <2>1, StockConstants DEF Counted, Quantities
  <2>3. (hs \cup {r}) \ {r} = hs
    BY <1>5 DEF hs
  <2>4. /\ UnitsIn(res', hs \cup {r}) = q + UnitsIn(res', hs)
        /\ UnitsIn(res', hs) \in Int
    BY <1>1, <2>2, <2>3, UnitsApart
  <2>5. UnitsIn(res', hs) <= UnitsIn(res, hs) /\ UnitsIn(res, hs) \in Int
    <3>1. \A x \in hs : res'[x].quantity = res[x].quantity
      BY <1>1, <1>5, <2>1 DEF hs
    <3> QED
      BY <2>1, <3>1, FewerUnits
  <2>6. stock[p] - UnitsIn(res, hs) >= q /\ stock[p] \in Nat /\ q \in Nat
    BY UnitsAre DEF ReserveStock, StockTypeOK, Quantities, hs
  <2> DEFINE a == UnitsIn(res', hs \cup {r})
             b == UnitsIn(res', hs)
             c == UnitsIn(res, hs)
  <2>7. a = q + b /\ b \in Int /\ b <= c /\ c \in Int /\ stock[p] - c >= q
    BY <2>4, <2>5, <2>6
  <2> HIDE DEF a, b, c
  <2>8. a <= stock[p]
    BY <2>6, <2>7
  <2> QED
    BY <1>5, <2>8 DEF a, hs
<1> QED
  BY <1>1, <1>5, <1>6

\* Fewer holds, on a shelf that has no less, are still covered.
LEMMA StillCovered ==
  ASSUME StockTypeOK, NEW p, NEW taken, NEW n \in Int,
         UnitsIn(res, Holds(p) \ taken) <= n,
         NEW rs \in SUBSET (Holds(p) \ taken), NEW m \in Int, n <= m,
         \A r \in rs : res'[r].quantity = res[r].quantity
  PROVE  UnitsIn(res', rs) <= m
<1> DEFINE hs == Holds(p) \ taken
<1>1. Counted(res, hs)
  BY HoldsCounted DEF Counted
<1> HIDE DEF hs
<1>2. /\ UnitsIn(res', rs) \in Int /\ UnitsIn(res, hs) \in Int
      /\ UnitsIn(res', rs) <= UnitsIn(res, hs)
  BY <1>1, FewerUnits DEF hs
<1>3. UnitsIn(res, hs) <= n
  BY DEF hs
<1> DEFINE a == UnitsIn(res', rs)
           b == UnitsIn(res, hs)
<1>4. a \in Int /\ b \in Int /\ a <= b /\ b <= n
  BY <1>2, <1>3
<1> HIDE DEF a, b
<1>5. a <= m
  BY <1>4
<1> QED
  BY <1>5 DEF a

-----------------------------------------------------------------------------
(***************************************************************************)
(* The transactions of Checkout.                                           *)
(***************************************************************************)
Pays == {"validated", "locking", "consuming", "converting"}

\* What a thread's record says by the place it is at.
Shape(w) ==
  /\ tx[w].pc \in {"reserving", "failing"} \cup Pays => tx[w].cart \in Sessions
  /\ tx[w].pc \in Pays \cup {"restocking"} <=> tx[w].order \in Orders
  /\ tx[w].pc \notin {"consuming", "converting", "restocking"} => tx[w].move = Zero
  /\ tx[w].pc \notin {"consuming", "converting"} =>
       tx[w].sold = {} /\ tx[w].freed = {}
  /\ tx[w].pc = "converting" =>
       /\ tx[w].at \in Products /\ tx[w].pick \in tx[w].snap
       /\ res[tx[w].pick].product = tx[w].at
       /\ res[tx[w].pick].quantity <= tx[w].owed[tx[w].at]
  /\ \A r \in tx[w].snap : Exists(r)

OwnsHolds(w) ==
  \A r \in tx[w].sold \cup tx[w].freed : Open(r) /\ lock[res[r].product] = w

OwnsStock(w) ==
  \A p \in Products : (tx[w].move[p] # 0 => lock[p] = w) /\ OnShelf(w, p) >= 0

\* The order a request works on: not yet there, or still PENDING.
Serves(t) ==
  /\ t.pc \in Pays => orders[t.order] = NoOrder
  /\ t.pc = "restocking" =>
       orders[t.order] # NoOrder /\ orders[t.order].status = "PENDING"

OwnsOrder(w) ==
  /\ Serves(tx[w])
  /\ \A v \in Workers : v # w /\ tx[w].order \in Orders => tx[v].order # tx[w].order

ThreadInv(w) == Shape(w) /\ OwnsHolds(w) /\ OwnsStock(w) /\ OwnsOrder(w)

CInv == TypeOK /\ \A w \in Workers : ThreadInv(w)

\* Rows of the reservation table keep what was reserved.
RowsKept ==
  \A r \in Reservations : Exists(r) =>
    /\ Exists(r)'
    /\ res'[r].product = res[r].product /\ res'[r].quantity = res[r].quantity

\* A thread whose record stays the same keeps its shape: no step deletes or
\* rewrites the rows it has read.
LEMMA ShapeKept ==
  ASSUME TypeOK, RowsKept, NEW v \in Workers, Shape(v), tx'[v] = tx[v]
  PROVE  Shape(v)'
<1>1. tx[v].snap \subseteq Reservations
  BY DEF TypeOK, Transaction
<1>2. \A r \in tx[v].snap : Exists(r)'
  BY <1>1 DEF Shape, RowsKept
<1> QED
  BY <1>1, <1>2 DEF Shape, RowsKept

\* A step of thread w takes no lock from another thread.
LocksKept(w) ==
  /\ lock' \in [Products -> Workers \cup {NoWorker}]
  /\ \A v \in Workers, p \in Products : v # w /\ lock[p] = v => lock'[p] = v

\* Three ways a step treats the row locks: not at all, it takes one that is
\* free or its own, it gives back its own.
LEMMA SameLocks ==
  ASSUME TypeOK, NEW w \in Workers, lock' = lock
  PROVE  LocksKept(w)
  BY DEF TypeOK, LocksKept

\* A lock that is free or w's own goes to w.
LEMMA Grab ==
  ASSUME TypeOK, NEW w \in Workers, NEW p \in Products, CanLock(w, p),
         lock' = [lock EXCEPT ![p] = w]
  PROVE  LocksKept(w) /\ lock'[p] = w /\ \A q \in Products : lock[q] = w => lock'[q] = w
  BY CheckoutConstants DEF TypeOK, LocksKept, CanLock

\* The end of w's transaction gives back w's locks only.
LEMMA Release ==
  ASSUME TypeOK, NEW w \in Workers, Unlock(w)
  PROVE  LocksKept(w)
  BY DEF TypeOK, LocksKept, Unlock

\* The record of a thread without a request is well formed.
LEMMA IdleTypes ==
  Idle \in Transaction /\ Zero \in Basket /\ Zero \in [Products -> Int]
  BY StockConstants DEF Idle, Transaction, Zero, Basket

\* The others' claims survive a step of thread w that leaves the tables alone.
LEMMA OthersKept ==
  ASSUME CInv, NEW w \in Workers, NEW v \in Workers, v # w, tx'[v] = tx[v],
         LocksKept(w), UNCHANGED <<stock, res>>
  PROVE  Shape(v)' /\ OwnsHolds(v)' /\ OwnsStock(v)'
<1>1. ThreadInv(v) /\ TypeOK /\ tx[v] \in Transaction
  BY DEF CInv, TypeOK
<1>2. Shape(v)'
  BY <1>1, ShapeKept DEF ThreadInv, RowsKept, Exists
<1>3. OwnsHolds(v)'
  <2> SUFFICES ASSUME NEW r \in tx[v].sold \cup tx[v].freed
               PROVE  Open(r)' /\ lock'[res[r].product] = v
    BY DEF OwnsHolds
  <2>1. Open(r) /\ lock[res[r].product] = v /\ r \in Reservations
    BY <1>1 DEF ThreadInv, OwnsHolds, Transaction
  <2>2. res[r].product \in Products
    BY <1>1, <2>1 DEF TypeOK, StockTypeOK, Open, Exists, Reservation
  <2> QED
    BY <2>1, <2>2 DEF Open, Exists, LocksKept
<1>4. OwnsStock(v)'
  BY <1>1 DEF ThreadInv, OwnsStock, OnShelf, LocksKept
<1> QED
  BY <1>2, <1>3, <1>4

\* A step of thread w that leaves the tables alone keeps the invariant if it
\* keeps what concerns w.
LEMMA OwnStep ==
  ASSUME CInv, NEW w \in Workers, NEW t \in Transaction,
         tx' = [tx EXCEPT ![w] = t], UNCHANGED dbVars, LocksKept(w),
         Shape(w)', OwnsHolds(w)', OwnsStock(w)',
         Serves(t),
         t.order = tx[w].order \/ t.order = NoOrder
           \/ \A v \in Workers : tx[v].order # t.order
  PROVE  CInv'
<1>1. tx \in [Workers -> Transaction] /\ tx'[w] = t
  BY DEF CInv, TypeOK
<1>2. TypeOK'
  BY <1>1 DEF CInv, TypeOK, dbVars, StockTypeOK, Exists, LocksKept
<1>3. ASSUME NEW v \in Workers
      PROVE  OwnsOrder(v)'
  <2>1. Serves(tx[v])' /\ OwnsOrder(w) /\ OwnsOrder(v)
    BY <1>1 DEF CInv, ThreadInv, OwnsOrder, Serves, dbVars
  <2> QED
    BY <1>1, <2>1, StockConstants DEF OwnsOrder
<1>4. ASSUME NEW v \in Workers
      PROVE  Shape(v)' /\ OwnsHolds(v)' /\ OwnsStock(v)'
  <2>1. CASE v = w
    BY <2>1
  <2>2. CASE v # w
    BY <1>1, <2>2, OthersKept DEF dbVars
  <2> QED
    BY <2>1, <2>2
<1> QED
  BY <1>2, <1>3, <1>4 DEF CInv, ThreadInv

\* The same for a step that takes no lock and moves nothing.
LEMMA QuietStep ==
  ASSUME CInv, NEW w \in Workers, NEW t \in Transaction,
         tx' = [tx EXCEPT ![w] = t], UNCHANGED <<dbVars, lock>>,
         Shape(w)',
         t.move = tx[w].move, t.sold = tx[w].sold, t.freed = tx[w].freed,
         Serves(t),
         t.order = tx[w].order \/ t.order = NoOrder
           \/ \A v \in Workers : tx[v].order # t.order
  PROVE  CInv'
<1>1. tx'[w] = t /\ ThreadInv(w)
  BY DEF CInv, TypeOK
<1>2. OwnsHolds(w)'
  BY <1>1 DEF ThreadInv, OwnsHolds, Open, Exists, dbVars
<1>3. OwnsStock(w)'
  BY <1>1 DEF ThreadInv, OwnsStock, OnShelf, dbVars
<1> QED
  BY <1>2, <1>3, OwnStep, SameLocks DEF CInv

\* A request that is answered leaves nothing behind.
LEMMA IdleShape ==
  ASSUME NEW w \in Workers, tx'[w] = Idle
  PROVE  Shape(w)' /\ OwnsHolds(w)'
  BY StockConstants DEF Shape, OwnsHolds, Idle, Pays

\* A request that ends without a write keeps the invariant, whether or not it
\* held locks.
LEMMA EndStep ==
  ASSUME CInv, NEW w \in Workers, tx' = [tx EXCEPT ![w] = Idle],
         UNCHANGED dbVars, LocksKept(w)
  PROVE  CInv'
<1>1. tx'[w] = Idle /\ stock \in [Products -> Nat]
  BY DEF CInv, TypeOK, StockTypeOK
<1>2. OwnsStock(w)'
  BY <1>1 DEF OwnsStock, OnShelf, Idle, Zero, dbVars
<1>3. Serves(Idle) /\ Idle.order = NoOrder
  BY DEF Idle, Pays, Serves
<1> QED
  BY <1>1, <1>2, <1>3, IdleShape, IdleTypes, OwnStep

\* A rollback.
LEMMA FinishStep ==
  ASSUME CInv, NEW w \in Workers, Finish(w), UNCHANGED dbVars
  PROVE  CInv'
  BY EndStep, Release DEF Finish, CInv

-----------------------------------------------------------------------------
\* The requests' own steps, one by one.

\* A request arrives: reserve, checkout, cancel.
LEMMA StepBegin ==
  ASSUME CInv, NEW w \in Workers, Request(w)
  PROVE  CInv'
<1>1. ThreadInv(w) /\ tx[w] \in Transaction /\ TypeOK
  BY DEF CInv, TypeOK
<1>2. ASSUME NEW s \in Sessions, BeginReserve(w, s)
      PROVE  CInv'
  <2> DEFINE t == [Idle EXCEPT !.pc = "reserving", !.cart = s, !.owed = cart[s]]
  <2>1. t \in Transaction
    BY <1>1, IdleTypes DEF TypeOK, Transaction
  <2>2. tx'[w] = t /\ Shape(w)'
    BY <1>1, <1>2, StockConstants DEF BeginReserve, TypeOK, Shape, Idle, Pays
  <2> QED
    BY <1>2, <2>1, <2>2, QuietStep DEF Serves, BeginReserve, Idle, Pays
<1>3. ASSUME NEW s \in Sessions, NEW o \in Orders, BeginCheckout(w, s, o)
      PROVE  CInv'
  <2> DEFINE t == [Idle EXCEPT !.pc = "validated", !.cart = s, !.order = o,
                               !.basket = cart[s]]
  <2>1. t \in Transaction
    BY <1>1, IdleTypes DEF TypeOK, Transaction
  <2>2. tx'[w] = t /\ Shape(w)'
    BY <1>1, <1>3, StockConstants DEF BeginCheckout, TypeOK, Shape, Idle, Pays
  <2> QED
    BY <1>3, <2>1, <2>2, QuietStep DEF Serves, BeginCheckout, Idle
<1>4. ASSUME NEW o \in Orders, BeginCancel(w, o)
      PROVE  CInv'
  <2> DEFINE t == [Idle EXCEPT !.pc = "restocking", !.order = o,
                               !.owed = orders[o].qty]
  <2>1. orders[o].qty \in Basket
    BY <1>1, <1>4 DEF OrderRow, BeginCancel, TypeOK
  <2>2. t \in Transaction
    BY <2>1, IdleTypes DEF Transaction
  <2>3. tx'[w] = t /\ Shape(w)'
    BY <1>1, <1>4, StockConstants DEF BeginCancel, TypeOK, Shape, Idle, Pays
  <2> QED
    BY <1>4, <2>2, <2>3, QuietStep DEF Serves, BeginCancel, Idle, Pays
<1> QED
  BY <1>2, <1>3, <1>4 DEF Request

\* What a thread owes and moves stays typed.
LEMMA OwesTyped ==
  ASSUME TypeOK, NEW w \in Workers, NEW p, NEW n \in 0 .. MaxQty
  PROVE  Owes(w, p, n) \in Basket
<1>1. tx[w].owed \in Basket
  BY DEF TypeOK, Transaction
<1> QED
  BY <1>1 DEF Owes, Basket

\* The same for a product that is done with.
LEMMA OwesNothing ==
  ASSUME TypeOK, NEW w \in Workers, NEW p
  PROVE  Owes(w, p, 0) \in Basket
  BY OwesTyped, StockConstants

\* Moving n units of one product leaves the other products' alone.
LEMMA MovedTyped ==
  ASSUME TypeOK, NEW w \in Workers, NEW p \in Products, NEW n \in Int
  PROVE  /\ Moved(w, p, n) \in [Products -> Int]
         /\ Moved(w, p, n)[p] = tx[w].move[p] + n
         /\ \A x \in Products \ {p} : Moved(w, p, n)[x] = tx[w].move[x]
<1>1. tx[w].move \in [Products -> Int]
  BY DEF TypeOK, Transaction
<1> QED
  BY <1>1 DEF Moved

\* Steps that write nothing and lock nothing.
LEMMA StepQuiet ==
  ASSUME CInv, NEW w \in Workers,
         \/ \E p \in Products : LineRefused(w, p) \/ PickLine(w, p) \/ NextProduct(w, p)
         \/ \E r \in Reservations : PickHold(w, r)
         \/ ReadHolds(w) \/ PlaceItems(w) \/ CancelVictim(w)
  PROVE  CInv'
<1>1. ThreadInv(w) /\ tx[w] \in Transaction /\ TypeOK
  BY DEF CInv, TypeOK
<1>2. ASSUME NEW p \in Products, LineRefused(w, p)
      PROVE  CInv'
  <2> DEFINE t == [tx[w] EXCEPT !.owed = Owes(w, p, 0),
                                !.pc = "failing"]
  <2>1. t \in Transaction
    BY <1>1, OwesNothing DEF Transaction
  <2>2. tx' = [tx EXCEPT ![w] = t]
    BY <1>2 DEF LineRefused
  <2>3. tx'[w] = t
    BY <1>1, <2>2 DEF TypeOK
  <2>4. Shape(w)'
    BY <1>1, <1>2, <2>1, <2>3
       DEF LineRefused, TypeOK, Transaction, Shape, ThreadInv, Pays, dbVars, Exists
  <2> QED
    BY <1>1, <1>2, <2>1, <2>2, <2>4, QuietStep DEF Serves, Transaction, LineRefused, Pays
<1>3. ASSUME NEW p \in Products, PickLine(w, p)
      PROVE  CInv'
  <2> DEFINE t == [tx[w] EXCEPT !.at = p]
  <2>1. t \in Transaction
    BY <1>1 DEF Transaction
  <2>2. tx'[w] = t /\ Shape(w)'
    BY <1>1, <1>3 DEF PickLine, TypeOK, Transaction, Shape, ThreadInv, Pays, dbVars, Exists
  <2> QED
    BY <1>1, <1>3, <2>1, <2>2, QuietStep DEF Serves, Transaction, PickLine, ThreadInv, OwnsOrder
<1>4. ASSUME NEW p \in Products, NextProduct(w, p)
      PROVE  CInv'
  <2> DEFINE t == [tx[w] EXCEPT !.at = p]
  <2>1. t \in Transaction
    BY <1>1 DEF Transaction
  <2>2. tx'[w] = t /\ Shape(w)'
    BY <1>1, <1>4 DEF NextProduct, TypeOK, Transaction, Shape, ThreadInv, Pays, dbVars, Exists
  <2> QED
    BY <1>1, <1>4, <2>1, <2>2, QuietStep DEF Serves, Transaction, NextProduct, ThreadInv, OwnsOrder
<1>5. ASSUME NEW r \in Reservations, PickHold(w, r)
      PROVE  CInv'
  <2> DEFINE t == [tx[w] EXCEPT !.pc = "converting", !.pick = r]
  <2>1. t \in Transaction
    BY <1>1 DEF Transaction
  <2>2. tx'[w] = t /\ Shape(w)'
    BY <1>1, <1>5, CheckoutConstants, ZenonT(60)
       DEF PickHold, Fits, Unread, TypeOK, Transaction, Shape, ThreadInv, Pays,
           dbVars, Exists
  <2> QED
    BY <1>1, <1>5, <2>1, <2>2, QuietStep DEF Serves, Transaction, PickHold, ThreadInv, OwnsOrder, Pays
<1>6. CASE ReadHolds(w)
  <2> DEFINE t == [tx[w] EXCEPT !.pc = "locking",
                     !.snap = {r \in Reservations :
                                 Open(r) /\ res[r].session = tx[w].cart}]
  <2>1. t \in Transaction
    BY <1>1 DEF Transaction
  <2>2. tx'[w] = t /\ Shape(w)'
    BY <1>1, <1>6 DEF ReadHolds, TypeOK, Transaction, Shape, ThreadInv, Pays, dbVars, Open, Exists
  <2> QED
    BY <1>1, <1>6, <2>1, <2>2, QuietStep DEF Serves, Transaction, ReadHolds, ThreadInv, OwnsOrder, Pays
<1>7. CASE PlaceItems(w)
  <2> DEFINE t == [tx[w] EXCEPT !.pc = "consuming", !.basket = tx[w].owed]
  <2>1. t \in Transaction
    BY <1>1 DEF Transaction
  <2>2. tx'[w] = t /\ Shape(w)'
    BY <1>1, <1>7
       DEF PlaceItems, AllLocked, TypeOK, Transaction, Shape, ThreadInv, Pays, dbVars, Exists
  <2> QED
    BY <1>1, <1>7, <2>1, <2>2, QuietStep
       DEF Serves, Transaction, PlaceItems, AllLocked, ThreadInv, OwnsOrder, Pays
<1>8. CASE CancelVictim(w)
  <2> DEFINE t == [tx[w] EXCEPT !.owed = Owes(w, tx[w].at, 0),
                                !.at = NoProduct]
  <2>1. t \in Transaction
    BY <1>1, OwesNothing DEF Transaction
  <2>2. tx'[w] = t /\ Shape(w)'
    BY <1>1, <1>8, <2>1 DEF CancelVictim, TypeOK, Transaction, Shape, ThreadInv, Pays, dbVars, Exists
  <2> QED
    BY <1>1, <1>8, <2>1, <2>2, QuietStep
       DEF Serves, Transaction, CancelVictim, Pays, ThreadInv, OwnsOrder
<1> QED
  BY <1>2, <1>3, <1>4, <1>5, <1>6, <1>7, <1>8

\* Answers, refusals and rollbacks.
LEMMA StepEnds ==
  ASSUME CInv, NEW w \in Workers,
         ReserveAnswered(w) \/ ConvertRaises(w) \/ ShortfallRaises(w) \/ CheckoutVictim(w)
  PROVE  CInv'
<1>1. CASE ReserveAnswered(w)
  BY <1>1, EndStep, SameLocks DEF ReserveAnswered, CInv
<1>2. CASE ConvertRaises(w) \/ ShortfallRaises(w) \/ CheckoutVictim(w)
  BY <1>2, FinishStep DEF ConvertRaises, ShortfallRaises, CheckoutVictim
<1> QED
  BY <1>1, <1>2

\* A thread that locks a product may move its units and claim its open holds.
LEMMA GrabStep ==
  ASSUME CInv, NEW w \in Workers, NEW p \in Products, NEW t \in Transaction,
         tx' = [tx EXCEPT ![w] = t], UNCHANGED dbVars,
         CanLock(w, p), lock' = [lock EXCEPT ![p] = w],
         Shape(w)', t.order = tx[w].order,
         t.pc \in Pays => tx[w].pc \in Pays,
         t.pc = "restocking" => tx[w].pc = "restocking",
         stock[p] + t.move[p] >= 0,
         \A x \in Products \ {p} : t.move[x] = tx[w].move[x],
         \A r \in t.sold \cup t.freed :
           \/ r \in tx[w].sold \cup tx[w].freed
           \/ Open(r) /\ res[r].product = p
  PROVE  CInv'
<1>1. ThreadInv(w) /\ TypeOK /\ tx[w] \in Transaction /\ tx'[w] = t
  BY DEF CInv, TypeOK
<1>2. LocksKept(w) /\ lock'[p] = w /\ \A x \in Products : lock[x] = w => lock'[x] = w
  BY <1>1, Grab
<1>3. OwnsHolds(w)'
  <2> SUFFICES ASSUME NEW r \in t.sold \cup t.freed
               PROVE  Open(r)' /\ lock'[res[r].product] = w
    BY <1>1 DEF OwnsHolds, dbVars
  <2>1. CASE r \in tx[w].sold \cup tx[w].freed
    <3>1. Open(r) /\ r \in Reservations /\ lock[res[r].product] = w
      BY <1>1, <2>1 DEF ThreadInv, OwnsHolds, Transaction
    <3>2. res[r].product \in Products
      BY <1>1, <3>1 DEF TypeOK, StockTypeOK, Open, Exists, Reservation
    <3> QED
      BY <1>2, <3>1, <3>2 DEF dbVars, Open, Exists
  <2>2. CASE Open(r) /\ res[r].product = p
    BY <1>2, <2>2 DEF dbVars, Open, Exists
  <2> QED
    BY <2>1, <2>2
<1>4. OwnsStock(w)'
  <2> SUFFICES ASSUME NEW x \in Products
               PROVE  (t.move[x] # 0 => lock'[x] = w) /\ stock[x] + t.move[x] >= 0
    BY <1>1 DEF OwnsStock, OnShelf, dbVars
  <2>1. (tx[w].move[x] # 0 => lock[x] = w) /\ stock[x] + tx[w].move[x] >= 0
    BY <1>1 DEF ThreadInv, OwnsStock, OnShelf
  <2>2. stock[x] \in Nat /\ tx[w].move[x] \in Int
    BY <1>1 DEF TypeOK, StockTypeOK, Transaction
  <2>3. CASE x = p
    BY <1>2, <2>2, <2>3 DEF OnShelf
  <2>4. CASE x # p
    BY <1>2, <2>1, <2>4
  <2> QED
    BY <2>3, <2>4
<1>5. Serves(t)
  BY <1>1 DEF ThreadInv, OwnsOrder, Serves
<1> QED
  BY <1>1, <1>2, <1>3, <1>4, <1>5, OwnStep

\* Steps that lock a product and write in the thread's own transaction.
LEMMA StepGrabs ==
  ASSUME CInv, NEW w \in Workers,
         \/ LockLine(w) \/ ConvertHold(w) \/ TakeShortfall(w) \/ RestockItem(w)
         \/ \E r \in Reservations : FreeHold(w, r)
  PROVE  CInv'
<1>1. ThreadInv(w) /\ tx[w] \in Transaction /\ TypeOK
  BY DEF CInv, TypeOK
<1> DEFINE p == tx[w].at
           q == tx[w].owed[p]
<1>2. CASE LockLine(w)
  <2> DEFINE t == [tx[w] EXCEPT !.at = NoProduct,
                                !.owed = Owes(w, p, cart[tx[w].cart][p])]
  <2>1. p \in Products /\ cart[tx[w].cart] \in Basket
    BY <1>1, <1>2 DEF LockLine, ThreadInv, Shape, Pays, TypeOK, Transaction
  <2>2. t \in Transaction
    <3>1. cart[tx[w].cart][p] \in 0 .. MaxQty
      BY <2>1 DEF Basket
    <3> QED
      BY <1>1, <3>1, OwesTyped DEF Transaction
  <2>3. tx' = [tx EXCEPT ![w] = t] /\ tx'[w] = t
    BY <1>1, <1>2 DEF LockLine, TypeOK
  <2>4. Shape(w)'
    BY <1>1, <1>2, <2>2, <2>3
       DEF LockLine, Transaction, Shape, ThreadInv, Pays, dbVars, Exists
  <2>5. /\ t.order = tx[w].order /\ t.pc = tx[w].pc /\ t.move = tx[w].move
        /\ t.sold = tx[w].sold /\ t.freed = tx[w].freed
    BY <1>1 DEF Transaction
  <2>6. stock[p] + t.move[p] >= 0
    BY <1>1, <2>1, <2>5 DEF ThreadInv, OwnsStock, OnShelf
  <2>8. CanLock(w, p) /\ lock' = [lock EXCEPT ![p] = w] /\ UNCHANGED dbVars
    BY <1>2 DEF LockLine
  <2> HIDE DEF t, p
  <2> QED
    BY <2>1, <2>2, <2>3, <2>4, <2>5, <2>6, <2>8, GrabStep
<1>3. CASE TakeShortfall(w)
  <2> DEFINE t == [tx[w] EXCEPT !.move = Moved(w, p, -q), !.owed = Owes(w, p, 0)]
  <2>1. p \in Products /\ q \in Nat /\ -q \in Int /\ OnShelf(w, p) >= q
    BY <1>1, <1>3 DEF TakeShortfall, ShortfallDue, Owing, Transaction, Basket
  <2>2. /\ Moved(w, p, -q) \in [Products -> Int]
        /\ Moved(w, p, -q)[p] = tx[w].move[p] + -q
        /\ \A x \in Products \ {p} : Moved(w, p, -q)[x] = tx[w].move[x]
    BY <1>1, <2>1, MovedTyped
  <2>3. t \in Transaction
    BY <1>1, <2>2, OwesNothing DEF Transaction
  <2>4. tx' = [tx EXCEPT ![w] = t] /\ tx'[w] = t
    BY <1>1, <1>3 DEF TakeShortfall, TypeOK
  <2>5. Shape(w)'
    BY <1>1, <1>3, <2>3, <2>4
       DEF TakeShortfall, ShortfallDue, Transaction, Shape, ThreadInv, Pays,
           dbVars, Exists
  <2>6. stock[p] + Moved(w, p, -q)[p] >= 0
    BY <1>1, <2>1, <2>2 DEF OnShelf, TypeOK, StockTypeOK, Transaction
  <2>7. /\ t.order = tx[w].order /\ t.pc = tx[w].pc /\ t.move = Moved(w, p, -q)
        /\ t.sold = tx[w].sold /\ t.freed = tx[w].freed
    BY <1>1 DEF Transaction
  <2>8. CanLock(w, p) /\ lock' = [lock EXCEPT ![p] = w] /\ UNCHANGED dbVars
    BY <1>3 DEF TakeShortfall, ShortfallDue
  <2> HIDE DEF t, p, q
  <2> QED
    BY <2>1, <2>2, <2>3, <2>4, <2>5, <2>6, <2>7, <2>8, GrabStep
<1>4. CASE RestockItem(w)
  <2> DEFINE t == [tx[w] EXCEPT !.move = Moved(w, p, q), !.owed = Owes(w, p, 0)]
  <2>1. p \in Products /\ q \in Nat
    BY <1>1, <1>4 DEF RestockItem, Owing, Transaction, Basket
  <2>2. /\ Moved(w, p, q) \in [Products -> Int]
        /\ Moved(w, p, q)[p] = tx[w].move[p] + q
        /\ \A x \in Products \ {p} : Moved(w, p, q)[x] = tx[w].move[x]
    BY <1>1, <2>1, MovedTyped
  <2>3. t \in Transaction
    BY <1>1, <2>2, OwesNothing DEF Transaction
  <2>4. tx' = [tx EXCEPT ![w] = t] /\ tx'[w] = t
    BY <1>1, <1>4 DEF RestockItem, TypeOK
  <2>5. Shape(w)'
    BY <1>1, <1>4, <2>3, <2>4
       DEF RestockItem, Transaction, Shape, ThreadInv, Pays, dbVars, Exists
  <2>6. stock[p] + Moved(w, p, q)[p] >= 0
    BY <1>1, <2>1, <2>2 DEF ThreadInv, OwnsStock, OnShelf, TypeOK, StockTypeOK, Transaction
  <2>7. /\ t.order = tx[w].order /\ t.pc = tx[w].pc /\ t.move = Moved(w, p, q)
        /\ t.sold = tx[w].sold /\ t.freed = tx[w].freed
    BY <1>1 DEF Transaction
  <2>8. CanLock(w, p) /\ lock' = [lock EXCEPT ![p] = w] /\ UNCHANGED dbVars
    BY <1>4 DEF RestockItem
  <2> HIDE DEF t, p, q
  <2> QED
    BY <2>1, <2>2, <2>3, <2>4, <2>5, <2>6, <2>7, <2>8, GrabStep
<1>5. CASE ConvertHold(w)
  <2> DEFINE r == tx[w].pick
             k == res[r].quantity
             t == [tx[w] EXCEPT !.pc = "consuming", !.pick = NoReservation,
                     !.move = Moved(w, p, -k), !.owed = Owes(w, p, q - k),
                     !.sold = tx[w].sold \cup {r}, !.snap = tx[w].snap \ {r}]
  <2>1. /\ p \in Products /\ r \in tx[w].snap /\ r \in Reservations
        /\ res[r].product = p /\ k <= q /\ Open(r) /\ OnShelf(w, p) >= k
    BY <1>1, <1>5
       DEF ConvertHold, CanConvert, Convertible, ThreadInv, Shape, Transaction
  <2>2. k \in Nat /\ -k \in Int /\ q \in 0 .. MaxQty /\ q - k \in 0 .. MaxQty
    BY <1>1, <2>1, StockConstants
       DEF TypeOK, StockTypeOK, Open, Exists, Reservation, Quantities, Transaction,
           Basket
  <2>3. /\ Moved(w, p, -k) \in [Products -> Int]
        /\ Moved(w, p, -k)[p] = tx[w].move[p] + -k
        /\ \A x \in Products \ {p} : Moved(w, p, -k)[x] = tx[w].move[x]
    BY <1>1, <2>1, <2>2, MovedTyped
  <2>4. t \in Transaction
    <3>1. Owes(w, p, q - k) \in Basket
      BY <1>1, <2>2, OwesTyped
    <3> QED
      BY <1>1, <2>1, <2>3, <3>1 DEF Transaction
  <2>5. tx' = [tx EXCEPT ![w] = t] /\ lock' = [lock EXCEPT ![p] = w]
    BY <1>5 DEF ConvertHold
  <2>6. tx'[w] = t
    <3> HIDE DEF t
    <3> QED
      BY <1>1, <2>5 DEF TypeOK
  <2>7. /\ t.move = Moved(w, p, -k) /\ t.sold = tx[w].sold \cup {r}
        /\ t.freed = tx[w].freed /\ t.order = tx[w].order /\ t.pc = "consuming"
        /\ t.snap = tx[w].snap \ {r} /\ t.cart = tx[w].cart
    BY <1>1 DEF Transaction
  <2>8. CanLock(w, p) /\ UNCHANGED dbVars /\ tx[w].pc = "converting"
    BY <1>5 DEF ConvertHold
  <2>9. stock[p] + Moved(w, p, -k)[p] >= 0
    BY <1>1, <2>1, <2>2, <2>3 DEF OnShelf, TypeOK, StockTypeOK, Transaction
  <2> HIDE DEF t, p, q, r, k
  <2>10. Shape(w)'
    BY <1>1, <2>6, <2>7, <2>8 DEF Shape, ThreadInv, Pays, dbVars, Exists
  <2> QED
    BY <2>1, <2>2, <2>3, <2>4, <2>5, <2>7, <2>8, <2>9, <2>10, GrabStep DEF Pays
<1>6. ASSUME NEW r \in Reservations, FreeHold(w, r)
      PROVE  CInv'
  <2>1. /\ p \in Products /\ r \in tx[w].snap /\ res[r].product = p
        /\ tx[w].pc = "consuming" /\ CanLock(w, p) /\ UNCHANGED dbVars
    BY <1>1, <1>6 DEF FreeHold, Unread, Transaction
  <2>2. CASE Open(r)
    <3> DEFINE t == [tx[w] EXCEPT !.snap = tx[w].snap \ {r},
                                  !.freed = tx[w].freed \cup {r}]
    <3>1. t \in Transaction
      BY <1>1 DEF Transaction
    <3>2. tx' = [tx EXCEPT ![w] = t] /\ lock' = [lock EXCEPT ![p] = w]
      BY <1>6, <2>2 DEF FreeHold
    <3>3. tx'[w] = t
      <4> HIDE DEF t
      <4> QED
        BY <1>1, <3>2 DEF TypeOK
    <3>4. /\ t.move = tx[w].move /\ t.sold = tx[w].sold /\ t.pc = tx[w].pc
          /\ t.freed = tx[w].freed \cup {r} /\ t.order = tx[w].order
          /\ t.snap = tx[w].snap \ {r} /\ t.cart = tx[w].cart
      BY <1>1 DEF Transaction
    <3>5. stock[p] + t.move[p] >= 0
      BY <1>1, <2>1, <3>4 DEF ThreadInv, OwnsStock, OnShelf
    <3> HIDE DEF t, p
    <3>6. Shape(w)'
      BY <1>1, <2>1, <3>3, <3>4 DEF Shape, ThreadInv, Pays, dbVars, Exists
    <3> QED
      BY <2>1, <2>2, <3>1, <3>2, <3>4, <3>5, <3>6, GrabStep
  <2>3. CASE ~Open(r)
    <3> DEFINE t == [tx[w] EXCEPT !.snap = tx[w].snap \ {r}]
    <3>1. t \in Transaction
      BY <1>1 DEF Transaction
    <3>2. tx' = [tx EXCEPT ![w] = t] /\ tx'[w] = t /\ lock' = lock
      BY <1>1, <1>6, <2>3 DEF FreeHold, TypeOK
    <3>3. Shape(w)'
      BY <1>1, <2>1, <3>2 DEF Transaction, Shape, ThreadInv, Pays, dbVars, Exists
    <3> QED
      BY <1>1, <2>1, <3>1, <3>2, <3>3, QuietStep DEF Serves, Transaction, ThreadInv, OwnsOrder
  <2> QED
    BY <2>2, <2>3
<1> QED
  BY <1>2, <1>3, <1>4, <1>5, <1>6

-----------------------------------------------------------------------------
\* Steps that write the tables.

\* A row keeps everything but the clock, the flag and the order.
SameRow(r) ==
  /\ Exists(r)'
  /\ res'[r].product = res[r].product /\ res'[r].quantity = res[r].quantity
  /\ res'[r].consumed = res[r].consumed

\* UPDATE .. SET consumed keeps the product and the quantity of a row, and
\* every row it does not name.
LEMMA ConsumedRows ==
  ASSUME StockTypeOK, NEW rs, NEW o \in Orders \cup {NoOrder}, Consume(rs, o),
         NEW r \in Reservations, Exists(r)
  PROVE  /\ Exists(r)'
         /\ res'[r].product = res[r].product /\ res'[r].quantity = res[r].quantity
         /\ r \notin rs => SameRow(r)
<1>1. res[r] \in Reservation
  BY DEF StockTypeOK, Exists
<1>2. CASE r \notin rs
  BY <1>2 DEF Consume, SameRow, Exists
<1>3. CASE r \in rs
  <2>1. res'[r] = [res[r] EXCEPT !.consumed = TRUE, !.order = o]
    BY <1>3 DEF Consume
  <2>2. res'[r] \in Reservation
    BY <1>1, <2>1, RowUpdate
  <2> QED
    BY <1>1, <1>3, <2>1, <2>2, NoRow DEF Exists, Reservation
<1> QED
  BY <1>2, <1>3

\* The operations that stand alone: what they close is open and named.
LEMMA StockRows ==
  ASSUME StockTypeOK, NEW r \in Reservations, Exists(r),
         \/ \E x \in Reservations, p \in Products, q \in Quantities, s \in Sessions :
              ReserveStock(x, p, q, s)
         \/ \E x \in Reservations : x # r /\ ReleaseReservation(x)
         \/ CleanupRead
         \/ CleanupWrite /\ r \notin sweep
         \/ Tick
         \/ \E p \in Products, q \in Quantities : IncrementStock(p, q)
  PROVE  SameRow(r)
<1>1. res[r] \in Reservation
  BY DEF StockTypeOK, Exists
<1>2. ASSUME NEW x \in Reservations, NEW p \in Products, NEW q \in Quantities,
             NEW s \in Sessions, ReserveStock(x, p, q, s)
      PROVE  SameRow(r)
  BY <1>2 DEF ReserveStock, StockTypeOK, Exists, SameRow
<1>3. ASSUME NEW x \in Reservations, x # r, ReleaseReservation(x)
      PROVE  SameRow(r)
  <2>1. res[x].order \in Orders \cup {NoOrder}
    BY <1>3 DEF ReleaseReservation, Open, Exists, StockTypeOK, Reservation
  <2> QED
    BY <1>3, <2>1, ConsumedRows DEF ReleaseReservation
<1>4. CASE CleanupWrite /\ r \notin sweep
  BY <1>4 DEF CleanupWrite, SameRow, Exists
<1>5. CASE Tick
  <2>1. res'[r] = [res[r] EXCEPT !.left =
                     IF res[r].left < Grain THEN -1 ELSE res[r].left - Grain]
    BY <1>5 DEF Tick
  <2>2. res'[r] \in Reservation
    BY <1>1, <2>1, StockConstants DEF Reservation
  <2> QED
    BY <1>1, <2>1, <2>2, NoRow DEF Exists, Reservation, SameRow
<1>6. CASE UNCHANGED res
  BY <1>6 DEF SameRow, Exists
<1> QED
  BY <1>2, <1>3, <1>4, <1>5, <1>6 DEF CleanupRead, IncrementStock

\* Rows are never deleted nor rewritten, whatever the step does to the flags.
LEMMA StockRowsKept ==
  ASSUME StockTypeOK,
         \/ \E x \in Reservations, p \in Products, q \in Quantities, s \in Sessions :
              ReserveStock(x, p, q, s)
         \/ \E x \in Reservations : ReleaseReservation(x)
         \/ CleanupRead \/ CleanupWrite \/ Tick
         \/ \E p \in Products, q \in Quantities : IncrementStock(p, q)
  PROVE  RowsKept
<1> SUFFICES ASSUME NEW r \in Reservations, Exists(r)
             PROVE  /\ Exists(r)'
                    /\ res'[r].product = res[r].product
                    /\ res'[r].quantity = res[r].quantity
  BY DEF RowsKept
<1>1. res[r] \in Reservation
  BY DEF StockTypeOK, Exists
<1>2. CASE ReleaseReservation(r)
  <2>1. res[r].order \in Orders \cup {NoOrder}
    BY <1>1 DEF Reservation
  <2> QED
    BY <1>2, <2>1, ConsumedRows DEF ReleaseReservation
<1>3. CASE CleanupWrite /\ r \in sweep
  <2>1. res'[r] = [res[r] EXCEPT !.consumed = TRUE]
    BY <1>3 DEF CleanupWrite
  <2>2. res'[r] \in Reservation
    BY <1>1, <2>1 DEF Reservation
  <2> QED
    BY <1>1, <2>1, <2>2, NoRow DEF Exists, Reservation
<1> QED
  BY <1>2, <1>3, StockRows DEF SameRow

\* What a thread claims: rows of products it has locked.
LEMMA ClaimedRows ==
  ASSUME CInv, NEW v \in Workers, NEW r \in tx[v].sold \cup tx[v].freed
  PROVE  /\ r \in Reservations /\ Exists(r) /\ Open(r)
         /\ res[r].product \in Products /\ lock[res[r].product] = v
<1>1. ThreadInv(v) /\ tx[v] \in Transaction /\ TypeOK
  BY DEF CInv, TypeOK
<1>2. r \in Reservations /\ Open(r) /\ lock[res[r].product] = v
  BY <1>1 DEF ThreadInv, OwnsHolds, Transaction
<1> QED
  BY <1>1, <1>2 DEF Open, Exists, TypeOK, StockTypeOK, Reservation

\* A thread's claims survive a step of another that keeps the rows it claims
\* and takes units of no product it has moved.
LEMMA ClaimsKept ==
  ASSUME CInv, NEW v \in Workers, tx'[v] = tx[v], RowsKept,
         \A r \in tx[v].sold \cup tx[v].freed : Open(r)',
         \A p \in Products : lock[p] = v => lock'[p] = v,
         \A p \in Products : stock'[p] \in Nat,
         \A p \in Products : stock'[p] >= stock[p] \/ lock[p] # v
  PROVE  Shape(v)' /\ OwnsHolds(v)' /\ OwnsStock(v)'
<1>1. ThreadInv(v) /\ tx[v] \in Transaction /\ TypeOK
  BY DEF CInv, TypeOK
<1>2. Shape(v)'
  BY <1>1, ShapeKept DEF ThreadInv
<1>3. OwnsHolds(v)'
  <2> SUFFICES ASSUME NEW r \in tx[v].sold \cup tx[v].freed
               PROVE  Open(r)' /\ lock'[res'[r].product] = v
    BY DEF OwnsHolds
  <2> QED
    BY ClaimedRows DEF RowsKept
<1>4. OwnsStock(v)'
  <2> SUFFICES ASSUME NEW p \in Products
               PROVE  (tx[v].move[p] # 0 => lock'[p] = v) /\ stock'[p] + tx[v].move[p] >= 0
    BY DEF OwnsStock, OnShelf
  <2>1. (tx[v].move[p] # 0 => lock[p] = v) /\ stock[p] + tx[v].move[p] >= 0
    BY <1>1 DEF ThreadInv, OwnsStock, OnShelf
  <2>2. stock[p] \in Nat /\ tx[v].move[p] \in Int /\ stock'[p] \in Nat
    BY <1>1 DEF TypeOK, StockTypeOK, Transaction
  <2> QED
    BY <2>1, <2>2
<1> QED
  BY <1>2, <1>3, <1>4

\* No thread takes over the order another one works on.
LEMMA OrdersOwned ==
  ASSUME CInv, NEW v \in Workers, tx'[v] = tx[v],
         \A u \in Workers : tx'[u].order = tx[u].order \/ tx'[u].order = NoOrder,
         tx[v].order \in Orders => orders'[tx[v].order] = orders[tx[v].order]
  PROVE  OwnsOrder(v)'
<1>1. ThreadInv(v)
  BY DEF CInv
<1> QED
  BY <1>1, StockConstants DEF ThreadInv, Shape, OwnsOrder, Serves, Pays

\* A step outside the threads, on the tables.
LEMMA OutsideStep ==
  ASSUME CInv, UNCHANGED <<lock, tx>>, TypeOK', RowsKept,
         \A v \in Workers : \A r \in tx[v].sold \cup tx[v].freed : Open(r)',
         \A p \in Products : stock'[p] >= stock[p],
         \A v \in Workers :
           tx[v].order \in Orders => orders'[tx[v].order] = orders[tx[v].order]
  PROVE  CInv'
<1>1. \A p \in Products : stock'[p] \in Nat
  BY DEF TypeOK, StockTypeOK
<1>2. ASSUME NEW v \in Workers
      PROVE  ThreadInv(v)'
  <2>1. Shape(v)' /\ OwnsHolds(v)' /\ OwnsStock(v)'
    BY <1>1, ClaimsKept
  <2>2. OwnsOrder(v)'
    BY OrdersOwned
  <2> QED
    BY <2>1, <2>2 DEF ThreadInv
<1> QED
  BY <1>2 DEF CInv

\* One thread's own row operation: it leaves the others' claims alone.
LEMMA RowStep ==
  ASSUME CInv, NEW w \in Workers, tx' \in [Workers -> Transaction],
         \A v \in Workers \ {w} : tx'[v] = tx[v],
         UNCHANGED <<cart, editing, orders, lock>>, StockTypeOK', RowsKept,
         \A v \in Workers \ {w} : \A r \in tx[v].sold \cup tx[v].freed : Open(r)',
         \A p \in Products : stock'[p] >= stock[p],
         Shape(w)', OwnsHolds(w)', OwnsStock(w)',
         tx'[w].pc \notin Pays \cup {"restocking"}, tx'[w].order = tx[w].order
  PROVE  CInv'
<1>1. TypeOK'
  BY DEF CInv, TypeOK
<1>2. \A p \in Products : stock'[p] \in Nat
  BY DEF StockTypeOK
<1>3. ASSUME NEW v \in Workers \ {w}
      PROVE  ThreadInv(v)'
  <2>1. Shape(v)' /\ OwnsHolds(v)' /\ OwnsStock(v)'
    BY <1>2, <1>3, ClaimsKept
  <2>2. \A u \in Workers : tx'[u].order = tx[u].order
    OBVIOUS
  <2>3. OwnsOrder(v)'
    BY <1>3, <2>2, OrdersOwned
  <2> QED
    BY <2>1, <2>3 DEF ThreadInv
<1>4. OwnsOrder(w)'
  <2>1. ThreadInv(w)
    BY DEF CInv
  <2> QED
    BY <2>1 DEF OwnsOrder, ThreadInv, Serves
<1> QED
  BY <1>1, <1>3, <1>4 DEF CInv, ThreadInv

\* A free product's rows are claimed by nobody.
LEMMA FreeRows ==
  ASSUME CInv, NEW r \in Reservations, Free(res[r].product), NEW v \in Workers
  PROVE  r \notin tx[v].sold \cup tx[v].freed
  BY ClaimedRows, CheckoutConstants DEF Free

\* The clients and the shop, which hold no lock across two statements.
LEMMA StepOutside ==
  ASSUME CInv,
         \/ \E r \in Reservations : ClientRelease(r)
         \/ \E s \in Sessions : EditBegin(s)
         \/ \E s \in Sessions, p \in Products, q \in EditQtys : EditWrite(s, p, q)
         \/ \E o \in Orders : Deliver(o)
         \/ \E o \in Orders, p \in Products, q \in Quantities : RefundItem(o, p, q)
         \/ SweepStep \/ TickStep
  PROVE  CInv'
<1>1. TypeOK /\ StockTypeOK
  BY DEF CInv, TypeOK
<1>2. UNCHANGED <<stock, res, sweep>> =>
        /\ StockTypeOK' /\ RowsKept
        /\ \A v \in Workers : \A r \in tx[v].sold \cup tx[v].freed : Open(r)'
        /\ \A p \in Products : stock'[p] >= stock[p]
  <2> SUFFICES ASSUME UNCHANGED <<stock, res, sweep>>
               PROVE  /\ StockTypeOK' /\ RowsKept
                      /\ \A v \in Workers :
                           \A r \in tx[v].sold \cup tx[v].freed : Open(r)'
                      /\ \A p \in Products : stock'[p] >= stock[p]
    OBVIOUS
  <2>1. StockTypeOK' /\ RowsKept /\ \A p \in Products : stock'[p] >= stock[p]
    BY <1>1 DEF StockTypeOK, Exists, RowsKept
  <2>2. \A r \in Reservations : Open(r) => Open(r)'
    BY DEF Open, Exists
  <2> QED
    BY <2>1, <2>2, ClaimedRows
<1>3. ASSUME NEW r \in Reservations, ClientRelease(r)
      PROVE  CInv'
  <2>1. StockTypeOK' /\ RowsKept
    BY <1>1, <1>3, TypeStep, StockRowsKept DEF ClientRelease, StockNext
  <2>2. ASSUME NEW v \in Workers, NEW x \in tx[v].sold \cup tx[v].freed
        PROVE  Open(x)'
    <3>1. x \in Reservations /\ Exists(x) /\ Open(x)
      BY <2>2, ClaimedRows
    <3>2. x # r
      BY <1>3, <2>2, FreeRows DEF ClientRelease
    <3>3. SameRow(x)
      BY <1>1, <1>3, <3>1, <3>2, StockRows DEF ClientRelease
    <3> QED
      BY <3>1, <3>3 DEF SameRow, Open
  <2>3. stock' = stock /\ UNCHANGED <<cart, editing, orders, lock, tx>>
    BY <1>3 DEF ClientRelease, ReleaseReservation
  <2>4. TypeOK' /\ \A p \in Products : stock'[p] >= stock[p]
    BY <1>1, <2>1, <2>3 DEF TypeOK, StockTypeOK
  <2> QED
    BY <2>1, <2>2, <2>3, <2>4, OutsideStep
<1>4. ASSUME NEW s \in Sessions, EditBegin(s)
      PROVE  CInv'
  <2>1. TypeOK'
    BY <1>1, <1>2, <1>4 DEF EditBegin, TypeOK
  <2> QED
    BY <1>2, <1>4, <2>1, OutsideStep DEF EditBegin
<1>5. ASSUME NEW s \in Sessions, NEW p \in Products, NEW q \in EditQtys, EditWrite(s, p, q)
      PROVE  CInv'
  <2>1. cart' \in [Sessions -> Basket]
    <3>1. q \in 0 .. MaxQty /\ cart[s] \in Basket
      BY <1>1, CheckoutConstants DEF TypeOK
    <3>2. [cart[s] EXCEPT ![p] = q] \in Basket
      BY <3>1 DEF Basket
    <3>3. cart' = [cart EXCEPT ![s] = [cart[s] EXCEPT ![p] = q]]
      BY <1>5 DEF EditWrite
    <3> QED
      BY <1>1, <3>2, <3>3 DEF TypeOK
  <2>2. TypeOK'
    BY <1>1, <1>2, <1>5, <2>1 DEF EditWrite, TypeOK
  <2> QED
    BY <1>2, <1>5, <2>2, OutsideStep DEF EditWrite
<1>6. ASSUME NEW o \in Orders, Deliver(o)
      PROVE  CInv'
  <2>1. orders' \in [Orders -> {NoOrder} \cup OrderRow]
    BY <1>1, <1>6 DEF OrderRow, Deliver, TypeOK
  <2>2. TypeOK'
    BY <1>1, <1>2, <1>6, <2>1 DEF Deliver, TypeOK
  <2>3. \A v \in Workers : tx[v].order \in Orders => orders'[tx[v].order] = orders[tx[v].order]
    BY <1>1, <1>6 DEF Deliver, TypeOK
  <2> QED
    BY <1>2, <1>6, <2>2, <2>3, OutsideStep DEF Deliver
<1>7. ASSUME NEW o \in Orders, NEW p \in Products, NEW q \in Quantities, RefundItem(o, p, q)
      PROVE  CInv'
  <2>1. StockTypeOK' /\ RowsKept
    BY <1>1, <1>7, TypeStep, StockRowsKept DEF RefundItem, StockNext
  <2>2. ASSUME NEW v \in Workers, NEW x \in tx[v].sold \cup tx[v].freed
        PROVE  Open(x)'
    <3>1. x \in Reservations /\ Exists(x) /\ Open(x)
      BY <2>2, ClaimedRows
    <3>2. SameRow(x)
      BY <1>1, <1>7, <3>1, StockRows DEF RefundItem
    <3> QED
      BY <3>1, <3>2 DEF SameRow, Open
  <2>3. \A x \in Products : stock'[x] >= stock[x]
    BY <1>1, <1>7 DEF RefundItem, IncrementStock, Move, StockTypeOK, Quantities
  <2>4. orders' \in [Orders -> {NoOrder} \cup OrderRow]
    <3> DEFINE row == orders[o]
               back == [row.refunded EXCEPT ![p] = row.refunded[p] + q]
    <3>1. row \in OrderRow
      BY <1>1, <1>7 DEF RefundItem, TypeOK
    <3>2. back \in Basket
      <4>1. row.refunded \in Basket /\ row.refunded[p] + q \in 0 .. MaxQty
        BY <1>7, <3>1, StockConstants DEF OrderRow, RefundItem, Basket, Quantities
      <4> QED
        BY <4>1 DEF Basket
    <3>3. orders' = [orders EXCEPT ![o] = [row EXCEPT !.refunded = back]]
      BY <1>7 DEF RefundItem
    <3> HIDE DEF back
    <3> QED
      BY <1>1, <3>1, <3>2, <3>3 DEF OrderRow, TypeOK
  <2>5. UNCHANGED <<cart, editing, lock, tx>>
    BY <1>7 DEF RefundItem
  <2>6. TypeOK'
    BY <1>1, <2>1, <2>4, <2>5 DEF TypeOK
  <2>7. ASSUME NEW v \in Workers, tx[v].order \in Orders
        PROVE  orders'[tx[v].order] = orders[tx[v].order]
    <3>1. tx[v].order # o
      BY <1>7, <2>7 DEF CInv, ThreadInv, Shape, OwnsOrder, Serves, Pays, RefundItem
    <3> QED
      BY <1>1, <1>7, <3>1 DEF RefundItem, TypeOK
  <2> QED
    BY <2>1, <2>2, <2>3, <2>5, <2>6, <2>7, OutsideStep
<1>8. CASE SweepStep
  <2>1. StockTypeOK' /\ RowsKept
    BY <1>1, <1>8, TypeStep, StockRowsKept DEF SweepStep, StockNext, Cleanup
  <2>2. ASSUME NEW v \in Workers, NEW x \in tx[v].sold \cup tx[v].freed
        PROVE  Open(x)'
    <3>1. x \in Reservations /\ Exists(x) /\ Open(x)
      BY <2>2, ClaimedRows
    <3>2. SameRow(x)
      BY <1>1, <1>8, <2>2, <3>1, StockRows DEF SweepStep
    <3> QED
      BY <3>1, <3>2 DEF SameRow, Open
  <2>3. stock' = stock /\ UNCHANGED <<cart, editing, orders, lock, tx>>
    BY <1>8 DEF SweepStep, CleanupRead, CleanupWrite
  <2>4. TypeOK' /\ \A p \in Products : stock'[p] >= stock[p]
    BY <1>1, <2>1, <2>3 DEF TypeOK, StockTypeOK
  <2> QED
    BY <2>1, <2>2, <2>3, <2>4, OutsideStep
<1>9. CASE TickStep
  <2>1. StockTypeOK' /\ RowsKept
    BY <1>1, <1>9, TypeStep, StockRowsKept DEF TickStep, StockNext
  <2>2. ASSUME NEW v \in Workers, NEW x \in tx[v].sold \cup tx[v].freed
        PROVE  Open(x)'
    <3>1. x \in Reservations /\ Exists(x) /\ Open(x)
      BY <2>2, ClaimedRows
    <3>2. SameRow(x)
      BY <1>1, <1>9, <2>2, <3>1, StockRows DEF TickStep
    <3> QED
      BY <3>1, <3>2 DEF SameRow, Open
  <2>3. stock' = stock /\ UNCHANGED <<cart, editing, orders, lock, tx>>
    BY <1>9 DEF TickStep, Tick
  <2>4. TypeOK' /\ \A p \in Products : stock'[p] >= stock[p]
    BY <1>1, <2>1, <2>3 DEF TypeOK, StockTypeOK
  <2> QED
    BY <2>1, <2>2, <2>3, <2>4, OutsideStep
<1> QED
  BY <1>3, <1>4, <1>5, <1>6, <1>7, <1>8, <1>9

\* The rows of a request that reserves or undoes.
LEMMA StepRows ==
  ASSUME CInv, NEW w \in Workers,
         \/ \E p \in Products : ReserveLine(w, p)
         \/ \E r \in Reservations : UndoLine(w, r)
  PROVE  CInv'
<1>1. ThreadInv(w) /\ tx[w] \in Transaction /\ TypeOK /\ StockTypeOK
  BY DEF CInv, TypeOK
<1>2. ASSUME NEW t \in Transaction, tx' = [tx EXCEPT ![w] = t],
             tx[w].pc \in {"reserving", "failing"}, t.pc = tx[w].pc,
             t.cart = tx[w].cart, t.order = tx[w].order,
             t.move = tx[w].move, t.sold = tx[w].sold, t.freed = tx[w].freed,
             \A r \in t.snap : Exists(r)',
             UNCHANGED <<stock, cart, editing, orders, lock>>,
             StockTypeOK', RowsKept,
             \A r \in Reservations : \A v \in Workers :
               r \in tx[v].sold \cup tx[v].freed => Open(r)'
      PROVE  CInv'
  <2>1. tx'[w] = t /\ tx' \in [Workers -> Transaction]
        /\ \A v \in Workers \ {w} : tx'[v] = tx[v]
    BY <1>1, <1>2 DEF TypeOK
  <2>2. Shape(w)'
    BY <1>1, <1>2, <2>1 DEF ThreadInv, Shape, Pays
  <2>3. OwnsHolds(w)'
    BY <1>1, <1>2, <2>1 DEF ThreadInv, Shape, OwnsHolds, Pays
  <2>4. OwnsStock(w)'
    BY <1>1, <1>2, <2>1 DEF ThreadInv, OwnsStock, OnShelf
  <2>5. \A p \in Products : stock'[p] >= stock[p]
    BY <1>1, <1>2 DEF StockTypeOK
  <2>6. t.pc \notin Pays \cup {"restocking"}
    BY <1>2 DEF Pays
  <2>7. \A v \in Workers \ {w} : \A r \in tx[v].sold \cup tx[v].freed : Open(r)'
    BY <1>2, ClaimedRows
  <2> QED
    BY <1>2, <2>1, <2>2, <2>3, <2>4, <2>5, <2>6, <2>7, RowStep
<1>3. ASSUME NEW p \in Products, ReserveLine(w, p)
      PROVE  CInv'
  <2>1. PICK r \in Reservations :
          /\ ReserveStock(r, p, tx[w].owed[p], tx[w].cart)
          /\ tx' = [tx EXCEPT ![w] = [tx[w] EXCEPT !.owed = Owes(w, p, 0),
                                                  !.snap = tx[w].snap \cup {r}]]
    <3>1. (CHOOSE r \in Reservations : ~Exists(r)) \in Reservations
      BY <1>3 DEF ReserveLine, Unused
    <3> QED
      BY <1>3, <3>1 DEF ReserveLine
  <2> DEFINE t == [tx[w] EXCEPT !.owed = Owes(w, p, 0), !.snap = tx[w].snap \cup {r}]
  <2>2. /\ tx' = [tx EXCEPT ![w] = t]
        /\ tx[w].pc \in {"reserving", "failing"}
        /\ UNCHANGED <<cart, editing, orders, lock>>
    BY <1>3, <2>1 DEF ReserveLine
  <2>3. tx[w].owed[p] \in Quantities /\ tx[w].cart \in Sessions
    <3>1. tx[w].owed[p] > 0 /\ tx[w].pc \in {"reserving", "failing"}
      BY <1>3 DEF ReserveLine
    <3>2. tx[w].owed[p] \in 0 .. MaxQty
      BY <1>1 DEF Transaction, Basket
    <3>3. tx[w].cart \in Sessions
      BY <1>1, <3>1 DEF ThreadInv, Shape
    <3> QED
      BY <3>1, <3>2, <3>3, StockConstants DEF Quantities
  <2>4. t \in Transaction
    BY <1>1, <2>1, OwesNothing DEF Transaction
  <2>5. /\ t.pc = tx[w].pc /\ t.cart = tx[w].cart /\ t.order = tx[w].order
        /\ t.move = tx[w].move /\ t.sold = tx[w].sold /\ t.freed = tx[w].freed
        /\ t.snap = tx[w].snap \cup {r}
    BY <1>1 DEF Transaction
  <2> HIDE DEF t
  <2>6. StockTypeOK' /\ RowsKept
    BY <1>1, <2>1, <2>3, ReserveKeepsType, StockRowsKept
  <2>7. ASSUME NEW x \in Reservations, NEW v \in Workers, x \in tx[v].sold \cup tx[v].freed
        PROVE  Open(x)'
    <3>1. Exists(x) /\ Open(x)
      BY <2>7, ClaimedRows
    <3>2. SameRow(x)
      BY <1>1, <2>1, <2>3, <3>1, StockRows
    <3> QED
      BY <3>1, <3>2 DEF SameRow, Open
  <2>8. \A x \in t.snap : Exists(x)'
    <3>1. Exists(r)'
      <4>1. res'[r].quantity = tx[w].owed[p] /\ res'[r] \in Reservation
        <5> DEFINE row == [product |-> p, quantity |-> tx[w].owed[p],
                           session |-> tx[w].cart, left |-> TTL,
                           consumed |-> FALSE, order |-> NoOrder]
        <5>1. res'[r] = row
          BY <1>1, <2>1 DEF ReserveStock, StockTypeOK
        <5>2. row \in Reservation
          BY <2>3, StockConstants DEF Reservation
        <5> QED
          BY <5>1, <5>2
      <4> QED
        BY <4>1, NoRow DEF Exists
    <3>2. \A x \in tx[w].snap : Exists(x)'
      BY <1>1, <2>6 DEF ThreadInv, Shape, Transaction, RowsKept
    <3> QED
      BY <2>5, <3>1, <3>2
  <2>9. stock' = stock
    BY <2>1 DEF ReserveStock
  <2> QED
    BY <1>2, <2>2, <2>4, <2>5, <2>6, <2>7, <2>8, <2>9
<1>4. ASSUME NEW r \in Reservations, UndoLine(w, r)
      PROVE  CInv'
  <2> DEFINE t == [tx[w] EXCEPT !.snap = tx[w].snap \ {r}]
  <2>1. /\ ReleaseReservation(r) \/ UNCHANGED stockVars
        /\ tx' = [tx EXCEPT ![w] = t] /\ Free(res[r].product)
        /\ tx[w].pc \in {"reserving", "failing"}
        /\ UNCHANGED <<cart, editing, orders, lock>>
    BY <1>4 DEF UndoLine
  <2>2. t \in Transaction
    BY <1>1 DEF Transaction
  <2>3. /\ t.pc = tx[w].pc /\ t.cart = tx[w].cart /\ t.order = tx[w].order
        /\ t.move = tx[w].move /\ t.sold = tx[w].sold /\ t.freed = tx[w].freed
        /\ t.snap = tx[w].snap \ {r}
    BY <1>1 DEF Transaction
  <2> HIDE DEF t
  <2>4. StockTypeOK' /\ RowsKept /\ stock' = stock
    <3>1. CASE ReleaseReservation(r)
      BY <1>1, <3>1, TypeStep, StockRowsKept DEF StockNext, ReleaseReservation
    <3>2. CASE UNCHANGED stockVars
      BY <1>1, <3>2 DEF stockVars, StockTypeOK, Exists, RowsKept
    <3> QED
      BY <2>1, <3>1, <3>2
  <2>5. ASSUME NEW x \in Reservations, NEW v \in Workers, x \in tx[v].sold \cup tx[v].freed
        PROVE  Open(x)'
    <3>1. Exists(x) /\ Open(x) /\ x # r
      BY <2>1, <2>5, ClaimedRows, FreeRows
    <3>2. CASE ReleaseReservation(r)
      BY <1>1, <3>1, <3>2, StockRows DEF SameRow, Open
    <3>3. CASE UNCHANGED stockVars
      BY <3>1, <3>3 DEF stockVars, Open, Exists
    <3> QED
      BY <2>1, <3>2, <3>3
  <2>6. \A x \in t.snap : Exists(x)'
    BY <1>1, <2>3, <2>4 DEF ThreadInv, Shape, Transaction, RowsKept
  <2> QED
    BY <1>2, <2>1, <2>2, <2>3, <2>4, <2>5, <2>6
<1> QED
  BY <1>3, <1>4

\* A commit applies what the thread moved; nobody else has moved those products.
LEMMA CommitStep ==
  ASSUME CInv, NEW w \in Workers, Finish(w), TypeOK', RowsKept,
         stock' = [p \in Products |-> stock[p] + tx[w].move[p]],
         \A v \in Workers \ {w} : \A r \in tx[v].sold \cup tx[v].freed : Open(r)',
         \A v \in Workers \ {w} :
           tx[v].order \in Orders => orders'[tx[v].order] = orders[tx[v].order]
  PROVE  CInv'
<1>1. TypeOK /\ ThreadInv(w) /\ tx[w] \in Transaction
  BY DEF CInv, TypeOK
<1>2. tx' = [tx EXCEPT ![w] = Idle] /\ tx'[w] = Idle /\ LocksKept(w)
  BY <1>1, Release DEF Finish, TypeOK
<1>3. \A p \in Products : stock'[p] \in Nat
  BY DEF TypeOK, StockTypeOK
<1>4. ASSUME NEW v \in Workers \ {w}
      PROVE  ThreadInv(v)'
  <2>1. tx'[v] = tx[v]
    BY <1>1, <1>2, <1>4 DEF TypeOK
  <2>2. \A p \in Products : lock[p] = v => lock'[p] = v
    BY <1>2, <1>4 DEF LocksKept
  <2>3. \A p \in Products : stock'[p] >= stock[p] \/ lock[p] # v
    <3> SUFFICES ASSUME NEW p \in Products, lock[p] = v
                 PROVE  stock'[p] >= stock[p]
      OBVIOUS
    <3>1. tx[w].move[p] = 0 /\ stock[p] \in Nat
      BY <1>1, <1>4 DEF ThreadInv, OwnsStock, TypeOK, StockTypeOK
    <3> QED
      BY <3>1
  <2>4. Shape(v)' /\ OwnsHolds(v)' /\ OwnsStock(v)'
    BY <1>3, <1>4, <2>1, <2>2, <2>3, ClaimsKept
  <2>5. \A u \in Workers : tx'[u].order = tx[u].order \/ tx'[u].order = NoOrder
    <3>1. Idle.order = NoOrder
      BY DEF Idle
    <3> QED
      BY <1>1, <1>2, <3>1 DEF TypeOK
  <2>6. OwnsOrder(v)'
    BY <1>4, <2>1, <2>5, OrdersOwned
  <2> QED
    BY <2>4, <2>6 DEF ThreadInv
<1>5. ThreadInv(w)'
  <2>1. OwnsStock(w)'
    BY <1>2, <1>3 DEF OwnsStock, OnShelf, Idle, Zero
  <2>2. OwnsOrder(w)'
    BY <1>2, StockConstants DEF OwnsOrder, Serves, Idle, Pays
  <2> QED
    BY <1>2, <2>1, <2>2, IdleShape DEF ThreadInv
<1> QED
  BY <1>4, <1>5 DEF CInv

\* What a commit writes is typed: no stock goes below zero, because the shelf
\* was looked at under the lock that is still held.
LEMMA CommitTypes ==
  ASSUME CInv, NEW w \in Workers, Finish(w),
         stock' = [p \in Products |-> stock[p] + tx[w].move[p]]
  PROVE  /\ stock' \in [Products -> Nat]
         /\ lock' \in [Products -> Workers \cup {NoWorker}]
         /\ tx' \in [Workers -> Transaction]
<1>1. TypeOK /\ ThreadInv(w) /\ tx[w] \in Transaction
  BY DEF CInv, TypeOK
<1>2. \A p \in Products : stock[p] + tx[w].move[p] \in Nat
  BY <1>1 DEF ThreadInv, OwnsStock, OnShelf, TypeOK, StockTypeOK, Transaction
<1>3. lock' \in [Products -> Workers \cup {NoWorker}]
  BY <1>1, Release DEF Finish, LocksKept
<1>4. tx' \in [Workers -> Transaction]
  BY <1>1, IdleTypes DEF Finish, TypeOK
<1> QED
  BY <1>2, <1>3, <1>4

\* COMMIT of a checkout or of a cancellation.
LEMMA StepCommits ==
  ASSUME CInv, NEW w \in Workers,
         CommitCancel(w) \/ \E keep \in KeepModes : CommitCheckout(w, keep)
  PROVE  CInv'
<1>1. TypeOK /\ ThreadInv(w) /\ tx[w] \in Transaction /\ StockTypeOK
  BY DEF CInv, TypeOK
<1>2. CASE CommitCancel(w)
  <2>1. /\ tx[w].pc = "restocking" /\ Finish(w)
        /\ stock' = [p \in Products |-> stock[p] + tx[w].move[p]]
        /\ orders' = [orders EXCEPT ![tx[w].order] = [@ EXCEPT !.status = "CANCELED"]]
        /\ UNCHANGED <<res, sweep, cart, editing>>
    BY <1>2 DEF CommitCancel
  <2>2. tx[w].order \in Orders /\ orders[tx[w].order] # NoOrder
    BY <1>1, <2>1 DEF ThreadInv, Shape, OwnsOrder, Serves
  <2>3. orders' \in [Orders -> {NoOrder} \cup OrderRow]
    BY <1>1, <2>1, <2>2 DEF OrderRow, TypeOK
  <2>4. TypeOK'
    <3>1. /\ stock' \in [Products -> Nat]
          /\ lock' \in [Products -> Workers \cup {NoWorker}]
          /\ tx' \in [Workers -> Transaction]
      BY <2>1, CommitTypes
    <3> QED
      BY <1>1, <2>1, <2>3, <3>1 DEF TypeOK, StockTypeOK, Exists
  <2>5. RowsKept /\ \A r \in Reservations : Open(r) => Open(r)'
    BY <2>1 DEF RowsKept, Open, Exists
  <2>6. ASSUME NEW v \in Workers \ {w}, tx[v].order \in Orders
        PROVE  orders'[tx[v].order] = orders[tx[v].order]
    <3>1. tx[v].order # tx[w].order
      BY <1>1, <2>2, <2>6 DEF ThreadInv, OwnsOrder
    <3> QED
      BY <1>1, <2>1, <2>6, <3>1 DEF TypeOK
  <2>7. \A v \in Workers \ {w} : \A r \in tx[v].sold \cup tx[v].freed : Open(r)'
    BY <2>5, ClaimedRows
  <2> QED
    BY <2>1, <2>4, <2>5, <2>6, <2>7, CommitStep
<1>3. ASSUME NEW keep \in KeepModes, CommitCheckout(w, keep)
      PROVE  CInv'
  <2> DEFINE t == tx[w]
  <2>1. /\ t.pc = "consuming" /\ Finish(w)
        /\ stock' = [p \in Products |-> stock[p] + t.move[p]]
        /\ res' = [r \in Reservations |->
                     IF r \in t.sold
                     THEN [res[r] EXCEPT !.consumed = TRUE, !.order = t.order]
                     ELSE IF r \in t.freed
                     THEN [res[r] EXCEPT !.consumed = TRUE]
                     ELSE res[r]]
        /\ orders' = [orders EXCEPT ![t.order] =
                        [qty |-> t.basket, refunded |-> Zero, status |-> "PENDING"]]
        /\ cart' = IF keep THEN cart ELSE [cart EXCEPT ![t.cart] = Zero]
        /\ UNCHANGED <<sweep, editing>>
    BY <1>3 DEF CommitCheckout
  <2>2. t.order \in Orders /\ t.cart \in Sessions /\ t.basket \in Basket
    BY <1>1, <2>1 DEF ThreadInv, Shape, Pays, Transaction
  <2>3. ASSUME NEW r \in Reservations, Exists(r)
        PROVE  /\ res'[r] \in Reservation
               /\ res'[r].product = res[r].product /\ res'[r].quantity = res[r].quantity
               /\ r \notin t.sold \cup t.freed => res'[r] = res[r]
    <3>1. res[r] \in Reservation
      BY <1>1, <2>3 DEF StockTypeOK, Exists
    <3>2. CASE r \in t.sold
      <4>1. res'[r] = [res[r] EXCEPT !.consumed = TRUE, !.order = t.order]
        BY <2>1, <3>2
      <4> QED
        BY <2>2, <3>1, <3>2, <4>1 DEF Reservation
    <3>3. CASE r \notin t.sold /\ r \in t.freed
      <4>1. res'[r] = [res[r] EXCEPT !.consumed = TRUE]
        BY <2>1, <3>3
      <4> QED
        BY <3>1, <3>3, <4>1 DEF Reservation
    <3>4. CASE r \notin t.sold \cup t.freed
      BY <2>1, <3>1, <3>4
    <3> QED
      BY <3>2, <3>3, <3>4
  <2>4. ASSUME NEW r \in Reservations, ~Exists(r)
        PROVE  res'[r] = NoReservation
    BY <2>1, <2>4, ClaimedRows DEF Exists
  <2>5. RowsKept
    BY <2>3, NoRow DEF RowsKept, Exists
  <2>6. orders' \in [Orders -> {NoOrder} \cup OrderRow]
    BY <1>1, <2>1, <2>2, IdleTypes DEF OrderRow, TypeOK
  <2>7. cart' \in [Sessions -> Basket]
    BY <1>1, <2>1, <2>2, IdleTypes DEF TypeOK
  <2>8. TypeOK'
    <3>1. /\ stock' \in [Products -> Nat]
          /\ lock' \in [Products -> Workers \cup {NoWorker}]
          /\ tx' \in [Workers -> Transaction]
      BY <2>1, CommitTypes
    <3>2. res' \in [Reservations -> Reservation \cup {NoReservation}]
      <4>1. \A r \in Reservations : res'[r] \in Reservation \cup {NoReservation}
        BY <2>3, <2>4
      <4>2. res' = [r \in Reservations |-> res'[r]]
        BY <2>1
      <4> QED
        BY <4>1, <4>2
    <3>3. sweep' \subseteq {r \in Reservations : Exists(r)'}
      BY <1>1, <2>1, <2>5, SweepKeepsType DEF RowsKept
    <3> QED
      BY <1>1, <2>1, <2>6, <2>7, <3>1, <3>2, <3>3 DEF TypeOK, StockTypeOK
  <2>9. ASSUME NEW v \in Workers \ {w}, NEW r \in tx[v].sold \cup tx[v].freed
        PROVE  Open(r)'
    <3>1. r \in Reservations /\ Exists(r) /\ Open(r) /\ r \notin t.sold \cup t.freed
      BY <2>9, ClaimedRows
    <3>2. res'[r] = res[r]
      BY <2>3, <3>1
    <3> QED
      BY <3>1, <3>2 DEF Open, Exists
  <2>10. ASSUME NEW v \in Workers \ {w}, tx[v].order \in Orders
         PROVE  orders'[tx[v].order] = orders[tx[v].order]
    <3>1. tx[v].order # t.order
      BY <1>1, <2>2, <2>10 DEF ThreadInv, OwnsOrder
    <3> QED
      BY <1>1, <2>1, <2>10, <3>1 DEF TypeOK
  <2> QED
    BY <2>1, <2>5, <2>8, <2>9, <2>10, CommitStep
<1> QED
  BY <1>2, <1>3

-----------------------------------------------------------------------------
\* The invariant, and what it says of the specification.

\* The invariant holds at the start ..
LEMMA CInvInit ==
  ASSUME Init
  PROVE  CInv
<1>1. StockTypeOK
  BY StockConstants DEF Init, StockInit, StockTypeOK
<1>2. TypeOK
  BY <1>1, IdleTypes, CheckoutConstants DEF Init, TypeOK, Basket
<1>3. ASSUME NEW w \in Workers
      PROVE  ThreadInv(w)
  <2>1. tx[w] = Idle
    BY DEF Init
  <2>2. Shape(w) /\ OwnsHolds(w)
    BY <2>1, StockConstants DEF Shape, OwnsHolds, Idle, Pays
  <2>3. OwnsStock(w)
    BY <1>1, <2>1 DEF OwnsStock, OnShelf, Idle, Zero, StockTypeOK
  <2>4. OwnsOrder(w)
    BY <2>1, StockConstants DEF OwnsOrder, Serves, Idle, Pays
  <2> QED
    BY <2>2, <2>3, <2>4 DEF ThreadInv
<1> QED
  BY <1>2, <1>3 DEF CInv

\* .. is kept by every step ..
LEMMA CInvStep ==
  ASSUME CInv, [Next]_vars
  PROVE  CInv'
<1>1. CASE UNCHANGED vars
  BY <1>1 DEF vars, CInv, TypeOK, StockTypeOK, Exists, ThreadInv, Shape, OwnsHolds,
              Open, OwnsStock, OnShelf, OwnsOrder, Serves
<1>2. ASSUME NEW w \in Workers, Request(w)
      PROVE  CInv'
  BY <1>2, StepBegin
<1>3. ASSUME NEW w \in Workers, Step(w)
      PROVE  CInv'
  BY <1>3, StepRows, StepQuiet, StepEnds, StepGrabs, StepCommits DEF Step
<1>4. CASE Shopper \/ Merchant \/ SweepStep \/ TickStep
  BY <1>4, StepOutside DEF Shopper, Merchant
<1> QED
  BY <1>1, <1>2, <1>3, <1>4 DEF Next

\* .. and so always holds.
LEMMA CInvAlways == Spec => []CInv
<1> QED
  BY CInvInit, CInvStep, PTL DEF Spec

\* The type invariant of the whole checkout: the shelf never goes below zero
\* whatever the threads, sessions, products and edits (its part StockTypeOK is
\* checked on a small instance by run storefront).
THEOREM CheckoutTypeCorrect == Spec => []TypeOK
<1>1. CInv => TypeOK
  BY DEF CInv
<1> QED
  BY <1>1, CInvAlways, PTL

\* Two transactions never write one product, and none takes more than the
\* shelf has (the first part of TxInv), whoever PostgreSQL picks as a victim.
THEOREM CheckoutOwnsWhatItMoves == Spec => []OwnsWhatItMoves
<1>1. CInv => OwnsWhatItMoves
  BY DEF CInv, ThreadInv, OwnsStock, OwnsWhatItMoves
<1> QED
  BY <1>1, CInvAlways, PTL

-----------------------------------------------------------------------------
\* Closed holds stay closed.

\* What a step does to the stock tables: one call of StockManager, a commit,
\* or nothing.
LEMMA TablesStep ==
  ASSUME CInv, [Next]_vars
  PROVE  \/ [StockNext]_stockVars
         \/ \E w \in Workers, keep \in KeepModes : CommitCheckout(w, keep)
         \/ \E w \in Workers : CommitCancel(w)
<1>1. TypeOK
  BY DEF CInv
<1>2. ASSUME NEW w \in Workers, Step(w) \/ Request(w)
      PROVE  \/ [StockNext]_stockVars
             \/ \E keep \in KeepModes : CommitCheckout(w, keep)
             \/ CommitCancel(w)
  <2>1. ASSUME NEW p \in Products, ReserveLine(w, p)
        PROVE  StockNext
    <3>1. (CHOOSE r \in Reservations : ~Exists(r)) \in Reservations
      BY <2>1 DEF ReserveLine, Unused
    <3>2. PICK r \in Reservations : ReserveStock(r, p, tx[w].owed[p], tx[w].cart)
      BY <2>1, <3>1 DEF ReserveLine
    <3>3. tx[w].owed[p] > 0 /\ tx[w].pc \in {"reserving", "failing"}
      BY <2>1 DEF ReserveLine
    <3>4. tx[w].owed[p] \in 0 .. MaxQty /\ tx[w].cart \in Sessions
      BY <3>3 DEF CInv, TypeOK, ThreadInv, Shape, Transaction, Basket
    <3>5. tx[w].owed[p] \in Quantities
      BY <3>3, <3>4, StockConstants DEF Quantities
    <3> QED
      BY <3>2, <3>4, <3>5 DEF StockNext
  <2>2. ASSUME NEW r \in Reservations, UndoLine(w, r)
        PROVE  [StockNext]_stockVars
    BY <2>2 DEF UndoLine, StockNext
  <2>3. CASE UNCHANGED dbVars
    BY <2>3 DEF dbVars, stockVars
  <2> QED
    BY <1>2, <2>1, <2>2, <2>3
       DEF Step, Request, LineRefused, ReserveAnswered, ReadHolds, PickLine, LockLine,
           PlaceItems, NextProduct, FreeHold, PickHold, ConvertHold, ConvertRaises,
           TakeShortfall, ShortfallRaises, RestockItem, CheckoutVictim, CancelVictim,
           BeginReserve, BeginCheckout, BeginCancel
<1>3. CASE Shopper
  BY <1>3 DEF Shopper, ClientRelease, EditBegin, EditWrite, StockNext, stockVars
<1>4. CASE Merchant
  BY <1>4 DEF Merchant, Deliver, RefundItem, StockNext, stockVars
<1>5. CASE SweepStep \/ TickStep
  BY <1>5 DEF SweepStep, TickStep, StockNext, Cleanup
<1>6. CASE UNCHANGED vars
  BY <1>6 DEF vars, stockVars
<1> QED
  BY <1>2, <1>3, <1>4, <1>5, <1>6 DEF Next

\* No step of a thread, a client, the shop or the clock takes a closed row.
LEMMA ClosedStep ==
  ASSUME CInv, [Next]_vars, NEW r \in Reservations
  PROVE  StaysClosed(r)
<1>1. StockTypeOK
  BY DEF CInv, TypeOK
<1>2. CASE [StockNext]_stockVars
  BY <1>1, <1>2, ClosingStep
<1>3. ASSUME NEW w \in Workers, CommitCancel(w)
      PROVE  StaysClosed(r)
  BY <1>3 DEF CommitCancel, StaysClosed
<1>4. ASSUME NEW w \in Workers, NEW keep \in KeepModes, CommitCheckout(w, keep)
      PROVE  StaysClosed(r)
  <2> SUFFICES ASSUME Exists(r), res[r].consumed
               PROVE  res'[r] = res[r]
    BY DEF StaysClosed
  <2>1. r \notin tx[w].sold \cup tx[w].freed
    BY ClaimedRows DEF Open
  <2> QED
    BY <1>4, <2>1 DEF CommitCheckout
<1> QED
  BY <1>2, <1>3, <1>4, TablesStep

\* A hold that one checkout has sold, or that was released or swept, is never
\* taken again by another, through every interleaving of the two (run
\* checkout_one).
THEOREM CheckoutClosedForGood == Spec => ClosedForGood
<1>1. CInv /\ [Next]_vars
        => [\A r \in Reservations :
              Exists(r) /\ res[r].consumed
                => res'[r].consumed /\ res'[r].order = res[r].order]_stockVars
  BY ClosedStep DEF StaysClosed
<1> QED
  BY <1>1, CInvAlways, PTL DEF Spec, ClosedForGood

-----------------------------------------------------------------------------
\* What a thread has taken or put back so far and what it still owes.  A
\* cancellation that the deadlock detector picks goes on without the item, and
\* then puts back less.

Ledger(w) ==
  /\ tx[w].pc \in {"consuming", "converting"} =>
       \A p \in Products : tx[w].owed[p] - tx[w].move[p] = tx[w].basket[p]
  /\ tx[w].pc = "restocking" =>
       \A p \in Products :
         /\ 0 <= tx[w].move[p]
         /\ tx[w].owed[p] + tx[w].move[p] <= orders[tx[w].order].qty[p]
         /\ "cancel" \notin Victims =>
              tx[w].owed[p] + tx[w].move[p] = orders[tx[w].order].qty[p]

Ledgers == \A w \in Workers : Ledger(w)

\* A step of thread w leaves the others' records and orders alone.
LEMMA Elsewhere ==
  ASSUME CInv, NEW w \in Workers, Step(w) \/ Request(w), NEW v \in Workers, v # w
  PROVE  /\ tx'[v] = tx[v]
         /\ tx[v].order \in Orders => orders'[tx[v].order] = orders[tx[v].order]
<1>1. tx \in [Workers -> Transaction] /\ ThreadInv(w)
      /\ orders = [o \in Orders |-> orders[o]]
  BY DEF CInv, TypeOK
<1>2. tx'[v] = tx[v]
  BY <1>1
     DEF Step, Request, Finish, ReserveLine, UndoLine, CommitCheckout, CommitCancel,
         LineRefused, ReserveAnswered, ReadHolds, PickLine, LockLine,
         PlaceItems, NextProduct, FreeHold, PickHold, ConvertHold, ConvertRaises,
         TakeShortfall, ShortfallRaises, RestockItem, CheckoutVictim, CancelVictim,
         BeginReserve, BeginCheckout, BeginCancel
<1>3. \/ orders' = orders
      \/ /\ tx[w].pc \in Pays \cup {"restocking"}
         /\ \E row : orders' = [orders EXCEPT ![tx[w].order] = row]
  BY DEF Step, Request, ReserveLine, UndoLine, CommitCheckout, CommitCancel,
         LineRefused, ReserveAnswered, ReadHolds, PickLine, LockLine,
         PlaceItems, NextProduct, FreeHold, PickHold, ConvertHold, ConvertRaises,
         TakeShortfall, ShortfallRaises, RestockItem, CheckoutVictim, CancelVictim,
         BeginReserve, BeginCheckout, BeginCancel, dbVars, Pays
<1>4. ASSUME tx[v].order \in Orders, tx[w].order \in Orders
      PROVE  tx[v].order # tx[w].order
  BY <1>1, <1>4 DEF ThreadInv, OwnsOrder
<1>5. tx[w].pc \in Pays \cup {"restocking"} => tx[w].order \in Orders
  BY <1>1 DEF ThreadInv, Shape
<1> QED
  BY <1>1, <1>2, <1>3, <1>4, <1>5

\* The ledger stands while what it compares does.
LEMMA LedgerSame ==
  ASSUME NEW w \in Workers, Ledger(w),
         tx'[w].owed = tx[w].owed, tx'[w].move = tx[w].move,
         tx'[w].basket = tx[w].basket, tx'[w].order = tx[w].order,
         tx'[w].pc \in {"consuming", "converting"}
           => tx[w].pc \in {"consuming", "converting"},
         tx'[w].pc = "restocking" =>
           tx[w].pc = "restocking" /\ orders'[tx[w].order] = orders[tx[w].order]
  PROVE  Ledger(w)'
  BY DEF Ledger

\* The thread's own steps keep its ledger: what is moved is no longer owed.
LEMMA LedgerOwn ==
  ASSUME CInv, NEW w \in Workers, Ledger(w),
         Step(w) \/ Request(w)
  PROVE  Ledger(w)'
<1>1. TypeOK /\ ThreadInv(w) /\ tx[w] \in Transaction
  BY DEF CInv, TypeOK
<1>2. tx[w].owed \in Basket /\ tx[w].move \in [Products -> Int]
  BY <1>1 DEF Transaction
<1> DEFINE p == tx[w].at
           q == tx[w].owed[p]
<1>3. ASSUME NEW n \in Int
      PROVE  \A x \in Products : Moved(w, p, n)[x] =
               IF x = p THEN tx[w].move[x] + n ELSE tx[w].move[x]
  BY <1>2 DEF Moved
<1>4. ASSUME NEW n
      PROVE  \A x \in Products : Owes(w, p, n)[x] = IF x = p THEN n ELSE tx[w].owed[x]
  BY <1>2 DEF Owes, Basket
<1>5. ASSUME NEW x \in Products
      PROVE  tx[w].owed[x] \in Nat /\ tx[w].move[x] \in Int
  BY <1>2, StockConstants DEF Basket
<1>6. CASE TakeShortfall(w)
  <2>1. p \in Products /\ q \in Nat /\ -q \in Int /\ tx[w].pc = "consuming"
    BY <1>5, <1>6 DEF TakeShortfall, ShortfallDue, Owing
  <2>2. tx' = [tx EXCEPT ![w] = [tx[w] EXCEPT !.move = Moved(w, p, -q),
                                              !.owed = Owes(w, p, 0)]]
    BY <1>6 DEF TakeShortfall
  <2>3. /\ tx'[w].move = Moved(w, p, -q) /\ tx'[w].owed = Owes(w, p, 0)
        /\ tx'[w].basket = tx[w].basket /\ tx'[w].pc = "consuming"
    BY <1>1, <2>1, <2>2 DEF TypeOK, Transaction
  <2>4. ASSUME NEW x \in Products
        PROVE  tx'[w].owed[x] - tx'[w].move[x] = tx[w].owed[x] - tx[w].move[x]
    <3>1. /\ tx'[w].move[x] = IF x = p THEN tx[w].move[x] + -q ELSE tx[w].move[x]
          /\ tx'[w].owed[x] = IF x = p THEN 0 ELSE tx[w].owed[x]
      BY <1>3, <1>4, <2>1, <2>3, <2>4
    <3> QED
      BY <1>5, <2>1, <3>1
  <2> QED
    BY <2>1, <2>3, <2>4 DEF Ledger
<1>7. CASE RestockItem(w)
  <2>1. p \in Products /\ q \in Nat /\ q \in Int /\ tx[w].pc = "restocking"
    BY <1>5, <1>7 DEF RestockItem, Owing
  <2>2. tx' = [tx EXCEPT ![w] = [tx[w] EXCEPT !.move = Moved(w, p, q),
                                              !.owed = Owes(w, p, 0)]]
    BY <1>7 DEF RestockItem
  <2>3. /\ tx'[w].move = Moved(w, p, q) /\ tx'[w].owed = Owes(w, p, 0)
        /\ tx'[w].order = tx[w].order /\ tx'[w].pc = "restocking"
    BY <1>1, <2>1, <2>2 DEF TypeOK, Transaction
  <2>4. ASSUME NEW x \in Products
        PROVE  /\ tx'[w].owed[x] + tx'[w].move[x] = tx[w].owed[x] + tx[w].move[x]
               /\ 0 <= tx[w].move[x] => 0 <= tx'[w].move[x]
    <3>1. /\ tx'[w].move[x] = IF x = p THEN tx[w].move[x] + q ELSE tx[w].move[x]
          /\ tx'[w].owed[x] = IF x = p THEN 0 ELSE tx[w].owed[x]
      BY <1>3, <1>4, <2>1, <2>3, <2>4
    <3> QED
      BY <1>5, <2>1, <3>1
  <2>5. orders' = orders
    BY <1>7 DEF RestockItem, dbVars
  <2> QED
    BY <2>1, <2>3, <2>4, <2>5 DEF Ledger
<1>8. CASE ConvertHold(w)
  <2> DEFINE r == tx[w].pick
             k == res[r].quantity
  <2>1. /\ p \in Products /\ r \in Reservations /\ Open(r) /\ tx[w].pc = "converting"
    BY <1>1, <1>8
       DEF ConvertHold, CanConvert, Convertible, ThreadInv, Shape, Transaction
  <2>2. k \in Nat /\ -k \in Int
    BY <1>1, <2>1
       DEF TypeOK, StockTypeOK, Open, Exists, Reservation, Quantities
  <2>3. tx' = [tx EXCEPT ![w] =
                 [tx[w] EXCEPT !.pc = "consuming", !.pick = NoReservation,
                    !.move = Moved(w, p, -k), !.owed = Owes(w, p, q - k),
                    !.sold = tx[w].sold \cup {r}, !.snap = tx[w].snap \ {r}]]
    BY <1>8 DEF ConvertHold
  <2>4. /\ tx'[w].move = Moved(w, p, -k) /\ tx'[w].owed = Owes(w, p, q - k)
        /\ tx'[w].basket = tx[w].basket /\ tx'[w].pc = "consuming"
    BY <1>1, <2>3 DEF TypeOK, Transaction
  <2> HIDE DEF k
  <2>5. ASSUME NEW x \in Products
        PROVE  tx'[w].owed[x] - tx'[w].move[x] = tx[w].owed[x] - tx[w].move[x]
    <3>1. /\ tx'[w].move[x] = IF x = p THEN tx[w].move[x] + -k ELSE tx[w].move[x]
          /\ tx'[w].owed[x] = IF x = p THEN q - k ELSE tx[w].owed[x]
      BY <1>3, <1>4, <2>2, <2>4, <2>5
    <3> QED
      BY <1>5, <2>1, <2>2, <3>1
  <2> QED
    BY <2>1, <2>4, <2>5 DEF Ledger
<1>9. CASE PlaceItems(w)
  <2>1. tx[w].pc = "locking" /\ tx[w].move = Zero
    BY <1>1, <1>9 DEF PlaceItems, AllLocked, ThreadInv, Shape
  <2>2. /\ tx'[w].pc = "consuming" /\ tx'[w].basket = tx[w].owed
        /\ tx'[w].owed = tx[w].owed /\ tx'[w].move = tx[w].move
    BY <1>1, <1>9 DEF PlaceItems, TypeOK, Transaction
  <2> QED
    BY <1>5, <2>1, <2>2 DEF Ledger, Zero
<1>10. ASSUME NEW o \in Orders, BeginCancel(w, o)
       PROVE  Ledger(w)'
  <2>1. tx'[w] = [Idle EXCEPT !.pc = "restocking", !.order = o, !.owed = orders[o].qty]
        /\ orders' = orders
    BY <1>1, <1>10 DEF BeginCancel, TypeOK, dbVars
  <2>2. /\ tx'[w].pc = "restocking" /\ tx'[w].order = o
        /\ tx'[w].owed = orders[o].qty /\ tx'[w].move = Zero
    BY <2>1 DEF Idle
  <2>3. \A x \in Products : orders[o].qty[x] \in Nat
    BY <1>1, <1>10, StockConstants DEF OrderRow, BeginCancel, TypeOK, Basket
  <2> QED
    BY <2>1, <2>2, <2>3 DEF Ledger, Zero
<1>11. ASSUME \/ \E x \in Products : NextProduct(w, x)
              \/ \E x \in Reservations : FreeHold(w, x) \/ PickHold(w, x)
       PROVE  Ledger(w)'
  <2>1. ASSUME NEW t, tx' = [tx EXCEPT ![w] = t], t.owed = tx[w].owed,
               t.move = tx[w].move, t.basket = tx[w].basket, t.order = tx[w].order,
               tx[w].pc \in {"consuming", "restocking"},
               t.pc = tx[w].pc \/ (t.pc = "converting" /\ tx[w].pc = "consuming"),
               orders' = orders
        PROVE  Ledger(w)'
    <3>1. tx'[w] = t
      BY <1>1, <2>1 DEF TypeOK
    <3> QED
      BY <2>1, <3>1, LedgerSame
  <2>2. ASSUME NEW x \in Products, NextProduct(w, x)
        PROVE  Ledger(w)'
    <3> DEFINE t == [tx[w] EXCEPT !.at = x]
    <3>1. tx' = [tx EXCEPT ![w] = t] /\ tx[w].pc \in {"consuming", "restocking"}
          /\ orders' = orders
      BY <2>2 DEF NextProduct, dbVars
    <3>2. /\ t.owed = tx[w].owed /\ t.move = tx[w].move /\ t.basket = tx[w].basket
          /\ t.order = tx[w].order /\ t.pc = tx[w].pc
      BY <1>1 DEF Transaction
    <3> HIDE DEF t
    <3> QED
      BY <2>1, <3>1, <3>2
  <2>3. ASSUME NEW x \in Reservations, FreeHold(w, x)
        PROVE  Ledger(w)'
    <3> DEFINE t1 == [tx[w] EXCEPT !.snap = tx[w].snap \ {x},
                                   !.freed = tx[w].freed \cup {x}]
               t2 == [tx[w] EXCEPT !.snap = tx[w].snap \ {x}]
    <3>1. tx' = [tx EXCEPT ![w] = t1] \/ tx' = [tx EXCEPT ![w] = t2]
      BY <2>3 DEF FreeHold
    <3>2. /\ t1.owed = tx[w].owed /\ t1.move = tx[w].move /\ t1.basket = tx[w].basket
          /\ t1.order = tx[w].order /\ t1.pc = tx[w].pc
      BY <1>1 DEF Transaction
    <3>3. /\ t2.owed = tx[w].owed /\ t2.move = tx[w].move /\ t2.basket = tx[w].basket
          /\ t2.order = tx[w].order /\ t2.pc = tx[w].pc
      BY <1>1 DEF Transaction
    <3>4. tx[w].pc = "consuming" /\ orders' = orders
      BY <2>3 DEF FreeHold, dbVars
    <3> HIDE DEF t1, t2
    <3> QED
      BY <2>1, <3>1, <3>2, <3>3, <3>4
  <2>4. ASSUME NEW x \in Reservations, PickHold(w, x)
        PROVE  Ledger(w)'
    <3> DEFINE t == [tx[w] EXCEPT !.pc = "converting", !.pick = x]
    <3>1. tx' = [tx EXCEPT ![w] = t] /\ tx[w].pc = "consuming" /\ orders' = orders
      BY <2>4 DEF PickHold, dbVars
    <3>2. /\ t.owed = tx[w].owed /\ t.move = tx[w].move /\ t.basket = tx[w].basket
          /\ t.order = tx[w].order /\ t.pc = "converting"
      BY <1>1 DEF Transaction
    <3> HIDE DEF t
    <3> QED
      BY <2>1, <3>1, <3>2
  <2> QED
    BY <1>11, <2>2, <2>3, <2>4
<1>12. ASSUME tx'[w].pc \notin {"consuming", "converting", "restocking"}
       PROVE  Ledger(w)'
  BY <1>12 DEF Ledger
<1>13. CASE ReserveAnswered(w) \/ ConvertRaises(w) \/ ShortfallRaises(w)
            \/ CheckoutVictim(w) \/ CommitCancel(w)
            \/ \E keep \in KeepModes : CommitCheckout(w, keep)
  <2>1. tx'[w] = Idle
    BY <1>1, <1>13
       DEF ReserveAnswered, ConvertRaises, ShortfallRaises, CheckoutVictim,
           CommitCancel, CommitCheckout, Finish, TypeOK
  <2> QED
    BY <1>12, <2>1 DEF Idle
<1>14. ASSUME NEW t, tx' = [tx EXCEPT ![w] = t],
              t.pc \in {"reserving", "failing", "validated", "locking"}
       PROVE  Ledger(w)'
  <2>1. tx'[w] = t
    BY <1>1, <1>14 DEF TypeOK
  <2> QED
    BY <1>12, <1>14, <2>1
<1>15. CASE \/ \E s \in Sessions : BeginReserve(w, s)
            \/ \E s \in Sessions, o \in Orders : BeginCheckout(w, s, o)
            \/ \E x \in Products : \/ ReserveLine(w, x) \/ LineRefused(w, x)
                                   \/ PickLine(w, x)
            \/ \E r \in Reservations : UndoLine(w, r)
            \/ ReadHolds(w) \/ LockLine(w)
  <2>1. ASSUME NEW s \in Sessions, BeginReserve(w, s)
        PROVE  Ledger(w)'
    BY <1>14, <2>1 DEF BeginReserve, Idle
  <2>2. ASSUME NEW s \in Sessions, NEW o \in Orders, BeginCheckout(w, s, o)
        PROVE  Ledger(w)'
    BY <1>14, <2>2 DEF BeginCheckout, Idle
  <2>3. ASSUME NEW x \in Products, ReserveLine(w, x)
        PROVE  Ledger(w)'
    BY <1>1, <1>14, <2>3 DEF ReserveLine, Transaction
  <2>4. ASSUME NEW x \in Products, LineRefused(w, x)
        PROVE  Ledger(w)'
    BY <1>1, <1>14, <2>4 DEF LineRefused, Transaction
  <2>5. ASSUME NEW x \in Products, PickLine(w, x)
        PROVE  Ledger(w)'
    BY <1>1, <1>14, <2>5 DEF PickLine, Transaction
  <2>6. ASSUME NEW r \in Reservations, UndoLine(w, r)
        PROVE  Ledger(w)'
    BY <1>1, <1>14, <2>6 DEF UndoLine, Transaction
  <2>7. CASE ReadHolds(w)
    BY <1>1, <1>14, <2>7 DEF ReadHolds, Transaction
  <2>8. CASE LockLine(w)
    BY <1>1, <1>14, <2>8 DEF LockLine, Transaction
  <2> QED
    BY <1>15, <2>1, <2>2, <2>3, <2>4, <2>5, <2>6, <2>7, <2>8
<1>16. CASE CancelVictim(w)
  <2>1. tx[w].pc = "restocking" /\ p \in Products /\ orders' = orders
    BY <1>1, <1>16 DEF CancelVictim, Deadlocked, Waits, Transaction, dbVars
  <2>2. tx' = [tx EXCEPT ![w] = [tx[w] EXCEPT !.owed = Owes(w, p, 0),
                                              !.at = NoProduct]]
    BY <1>16 DEF CancelVictim
  <2>3. /\ tx'[w].move = tx[w].move /\ tx'[w].owed = Owes(w, p, 0)
        /\ tx'[w].order = tx[w].order /\ tx'[w].pc = "restocking"
    BY <1>1, <2>1, <2>2 DEF TypeOK, Transaction
  <2>4. "cancel" \in Victims
    BY <1>16 DEF CancelVictim
  <2>5. ASSUME NEW x \in Products
        PROVE  /\ 0 <= tx[w].move[x]
               /\ tx'[w].owed[x] + tx[w].move[x] <= orders[tx[w].order].qty[x]
    <3>1. tx'[w].owed[x] = IF x = p THEN 0 ELSE tx[w].owed[x]
      BY <1>4, <2>3
    <3>2. /\ 0 <= tx[w].move[x]
          /\ tx[w].owed[x] + tx[w].move[x] <= orders[tx[w].order].qty[x]
      BY <2>1 DEF Ledger
    <3>3. orders[tx[w].order].qty[x] \in Nat
      BY <1>1, <2>1, StockConstants
         DEF OrderRow, ThreadInv, Shape, OwnsOrder, Serves, TypeOK, Basket
    <3> QED
      BY <1>5, <3>1, <3>2, <3>3
  <2> QED
    BY <2>1, <2>3, <2>4, <2>5 DEF Ledger
<1> QED
  BY <1>6, <1>7, <1>8, <1>9, <1>10, <1>11, <1>13, <1>15, <1>16 DEF Step, Request

\* Every step keeps every thread's ledger.
LEMMA LedgersStep ==
  ASSUME CInv, Ledgers, [Next]_vars
  PROVE  Ledgers'
<1>1. ASSUME NEW w \in Workers, Step(w) \/ Request(w)
      PROVE  Ledgers'
  <2> SUFFICES ASSUME NEW v \in Workers
               PROVE  Ledger(v)'
    BY DEF Ledgers
  <2>1. CASE v = w
    BY <1>1, <2>1, LedgerOwn DEF Ledgers
  <2>2. CASE v # w
    <3>1. tx'[v] = tx[v]
          /\ (tx[v].order \in Orders => orders'[tx[v].order] = orders[tx[v].order])
      BY <1>1, <2>2, Elsewhere
    <3>2. tx[v].pc = "restocking" => tx[v].order \in Orders
      BY DEF CInv, ThreadInv, Shape
    <3> QED
      BY <3>1, <3>2, LedgerSame DEF Ledgers
  <2> QED
    BY <2>1, <2>2
<1>2. ASSUME UNCHANGED tx,
             \A v \in Workers : tx[v].pc = "restocking" =>
               orders'[tx[v].order] = orders[tx[v].order]
      PROVE  Ledgers'
  BY <1>2, LedgerSame DEF Ledgers
<1>3. CASE Shopper \/ SweepStep \/ TickStep \/ UNCHANGED vars
  BY <1>2, <1>3 DEF Shopper, ClientRelease, EditBegin, EditWrite, SweepStep, TickStep, vars
<1>4. CASE Merchant
  <2> SUFFICES ASSUME NEW v \in Workers, tx[v].pc = "restocking"
               PROVE  orders'[tx[v].order] = orders[tx[v].order]
    BY <1>2, <1>4 DEF Merchant, Deliver, RefundItem
  <2>1. tx[v].order \in Orders /\ orders[tx[v].order].status = "PENDING"
    BY DEF CInv, ThreadInv, Shape, OwnsOrder, Serves
  <2>2. ASSUME NEW o \in Orders, Deliver(o)
        PROVE  orders'[tx[v].order] = orders[tx[v].order]
    BY <2>1, <2>2 DEF Deliver, CInv, TypeOK
  <2>3. ASSUME NEW o \in Orders, NEW p \in Products, NEW q \in Quantities,
               RefundItem(o, p, q)
        PROVE  orders'[tx[v].order] = orders[tx[v].order]
    BY <2>1, <2>3 DEF RefundItem, CInv, TypeOK
  <2> QED
    BY <1>4, <2>2, <2>3 DEF Merchant
<1> QED
  BY <1>1, <1>3, <1>4 DEF Next

\* Every thread's ledger always stands.
LEMMA LedgersAlways == Spec => []Ledgers
<1>1. Init => Ledgers
  BY DEF Init, Ledgers, Ledger, Idle
<1>2. CInv /\ Ledgers /\ [Next]_vars => Ledgers'
  BY LedgersStep
<1> QED
  BY <1>1, <1>2, CInvAlways, PTL DEF Spec

\* A checkout with nothing left to take has taken its order's items exactly,
\* whoever loses a lock cycle (run checkout_two).
THEOREM CheckoutTakesTheBasket == Spec => []TakesTheBasket
<1>1. CInv /\ Ledgers => TakesTheBasket
  BY DEF CInv, ThreadInv, OwnsOrder, Serves, Pays, Ledgers, Ledger, TakesTheBasket
<1> QED
  BY <1>1, CInvAlways, LedgersAlways, PTL

\* And a cancellation has put back exactly those (the whole of TxInv).  It needs
\* that the deadlock detector picks no cancellation: the code swallows that
\* error and goes on without the item.
THEOREM CheckoutKeepsBasket ==
  ASSUME "cancel" \notin Victims
  PROVE  Spec => []TxInv
<1>1. CInv /\ Ledgers => TxInv
  BY DEF CInv, ThreadInv, OwnsStock, OwnsOrder, Serves, Pays, Ledgers, Ledger,
         TxInv, OwnsWhatItMoves, TakesTheBasket, PutsBackTheBasket
<1> QED
  BY <1>1, CInvAlways, LedgersAlways, PTL

-----------------------------------------------------------------------------
\* The transactions implement the atomic inventory.

\* A commit with nothing owed is the whole sale, or the whole cancellation.
LEMMA CommitSells ==
  ASSUME CInv, Ledgers, NEW w \in Workers, NEW keep \in KeepModes, CommitCheckout(w, keep)
  PROVE  Shelf!InvNext
<1>1. TypeOK /\ ThreadInv(w) /\ tx[w] \in Transaction /\ Ledger(w)
  BY DEF CInv, TypeOK, Ledgers
<1> DEFINE o == tx[w].order
           basket == tx[w].basket
<1>2. o \in Orders /\ basket \in Basket /\ orders[o] = NoOrder
  BY <1>1 DEF CommitCheckout, ThreadInv, Shape, OwnsOrder, Serves, Pays, Transaction
<1>3. ASSUME NEW p \in Products
      PROVE  basket[p] <= stock[p] /\ stock[p] + tx[w].move[p] = stock[p] - basket[p]
  <2>1. tx[w].owed[p] = 0
    <3>1. tx[w].owed[p] \in Nat
      BY <1>1, StockConstants DEF Transaction, Basket
    <3>2. Owing(w) = {}
      BY DEF CommitCheckout
    <3> QED
      BY <3>1, <3>2 DEF Owing
  <2>2. tx[w].owed[p] - tx[w].move[p] = basket[p]
    BY <1>1 DEF CommitCheckout, Ledger
  <2>3. stock[p] \in Nat /\ tx[w].move[p] \in Int /\ stock[p] + tx[w].move[p] >= 0
    BY <1>1 DEF ThreadInv, OwnsStock, OnShelf, TypeOK, StockTypeOK, Transaction
  <2>4. basket[p] \in Int
    BY <1>2, StockConstants DEF Basket
  <2> QED
    BY <2>1, <2>2, <2>3, <2>4
<1>4. Shelf!Sell(o, basket)
  <2>1. stock' = [p \in Products |-> stock[p] - basket[p]]
    BY <1>3 DEF CommitCheckout
  <2>2. orders' = [orders EXCEPT ![o] =
                     [qty |-> basket, refunded |-> Zero, status |-> "PENDING"]]
    BY DEF CommitCheckout
  <2> QED
    BY <1>2, <1>3, <2>1, <2>2 DEF Shelf!Sell, Shelf!None, Zero
<1> QED
  BY <1>2, <1>4 DEF Shelf!InvNext, Shelf!Basket, Basket

\* The same for a cancellation.
LEMMA CommitCancels ==
  ASSUME CInv, Ledgers, "cancel" \notin Victims, NEW w \in Workers, CommitCancel(w)
  PROVE  Shelf!InvNext
<1>1. TypeOK /\ ThreadInv(w) /\ tx[w] \in Transaction /\ Ledger(w)
  BY DEF CInv, TypeOK, Ledgers
<1> DEFINE o == tx[w].order
<1>2. o \in Orders /\ orders[o] # NoOrder /\ orders[o].status = "PENDING"
  BY <1>1 DEF CommitCancel, ThreadInv, Shape, OwnsOrder, Serves
<1>3. ASSUME NEW p \in Products
      PROVE  tx[w].move[p] = orders[o].qty[p]
  <2>1. tx[w].owed[p] = 0
    <3>1. tx[w].owed[p] \in Nat
      BY <1>1, StockConstants DEF Transaction, Basket
    <3>2. Owing(w) = {}
      BY DEF CommitCancel
    <3> QED
      BY <3>1, <3>2 DEF Owing
  <2>2. tx[w].owed[p] + tx[w].move[p] = orders[o].qty[p] /\ tx[w].move[p] \in Int
    BY <1>1 DEF CommitCancel, Ledger, Transaction
  <2> QED
    BY <2>1, <2>2
<1>4. stock' = [p \in Products |-> stock[p] + orders[o].qty[p]]
  BY <1>3 DEF CommitCancel
<1> QED
  BY <1>2, <1>4 DEF CommitCancel, Shelf!Cancel, Shelf!InvNext

\* The steps that write the shelf or the orders.
LEMMA ShelfMoves ==
  ASSUME [Next]_vars
  PROVE  \/ UNCHANGED <<stock, orders>>
         \/ \E w \in Workers, keep \in KeepModes : CommitCheckout(w, keep)
         \/ \E w \in Workers : CommitCancel(w)
         \/ \E o \in Orders : Deliver(o)
         \/ \E o \in Orders, p \in Products, q \in Quantities : RefundItem(o, p, q)
<1>1. ASSUME NEW w \in Workers, Step(w) \/ Request(w)
      PROVE  \/ UNCHANGED <<stock, orders>> \/ CommitCancel(w)
             \/ \E keep \in KeepModes : CommitCheckout(w, keep)
  BY <1>1
     DEF Step, Request, ReserveLine, UndoLine, ReserveStock, ReleaseReservation,
         stockVars, LineRefused, ReserveAnswered, ReadHolds, PickLine, LockLine,
         PlaceItems, NextProduct, FreeHold, PickHold, ConvertHold, ConvertRaises,
         TakeShortfall, ShortfallRaises, RestockItem, CheckoutVictim, CancelVictim,
         BeginReserve, BeginCheckout, BeginCancel, dbVars
<1>2. CASE Shopper \/ SweepStep \/ TickStep \/ UNCHANGED vars
  BY <1>2 DEF Shopper, ClientRelease, ReleaseReservation, EditBegin, EditWrite,
              SweepStep, CleanupRead, CleanupWrite, TickStep, Tick, vars
<1> QED
  BY <1>1, <1>2 DEF Next, Merchant

\* Every step is a step of Inventory or leaves the shelf and the orders alone.
LEMMA InventoryStep ==
  ASSUME CInv, Ledgers, "cancel" \notin Victims, [Next]_vars
  PROVE  [Shelf!InvNext]_Shelf!invVars
<1> USE DEF Shelf!invVars
<1>1. ASSUME NEW w \in Workers, NEW keep \in KeepModes, CommitCheckout(w, keep)
      PROVE  Shelf!InvNext
  BY <1>1, CommitSells
<1>2. ASSUME NEW w \in Workers, CommitCancel(w)
      PROVE  Shelf!InvNext
  BY <1>2, CommitCancels
<1>3. ASSUME NEW o \in Orders, Deliver(o)
      PROVE  Shelf!InvNext
  BY <1>3 DEF Deliver, Shelf!HandOver, Shelf!InvNext
<1>4. ASSUME NEW o \in Orders, NEW p \in Products, NEW q \in Quantities,
             RefundItem(o, p, q)
      PROVE  Shelf!InvNext
  <2>1. Shelf!TakeBack(o, p, q)
    BY <1>4 DEF RefundItem, IncrementStock, Move, Shelf!TakeBack
  <2> QED
    BY <2>1 DEF Quantities, Shelf!InvNext
<1> QED
  BY <1>1, <1>2, <1>3, <1>4, ShelfMoves

\* create_order_from_cart and cancel_order, as many interleaved transactions,
\* are the atomic sale and cancellation of Inventory (run checkout_one), under
\* the same assumption.
THEOREM CheckoutImplementsInventory ==
  ASSUME "cancel" \notin Victims
  PROVE  Spec => ImplementsInventory
<1>1. Init => Shelf!InvInit
  BY DEF Init, StockInit, Shelf!InvInit
<1>2. CInv /\ Ledgers /\ [Next]_vars => [Shelf!InvNext]_Shelf!invVars
  BY InventoryStep
<1> QED
  BY <1>1, <1>2, CInvAlways, LedgersAlways, PTL
     DEF Spec, ImplementsInventory, Shelf!InvSpec

-----------------------------------------------------------------------------
\* What the shelf and the orders have together.

\* Only delivered orders have items refunded.
Settled ==
  \A o \in Orders : orders[o] # NoOrder /\ orders[o].status = "PENDING"
                      => orders[o].refunded = Zero

\* The units an order keeps are a whole number.
LEMMA KeptTyped ==
  ASSUME NEW p \in Products, NEW row \in {NoOrder} \cup OrderRow
  PROVE  Kept(row, p) \in Int
  BY StockConstants DEF Kept, Basket, OrderRow

\* When one order changes, what the orders keep changes by that.
LEMMA OnOrdersChanges ==
  ASSUME TypeOK, TypeOK', NEW p \in Products, NEW o \in Orders,
         \A x \in Orders \ {o} : orders'[x] = orders[x]
  PROVE  /\ OnOrders(p) \in Int
         /\ OnOrders(p)' = OnOrders(p) - Kept(orders[o], p) + Kept(orders'[o], p)
<1> DEFINE f == [x \in Orders |-> Kept(orders[x], p)]
           g == [x \in Orders |-> Kept(orders'[x], p)]
<1>1. /\ OnOrders(p) = SumFunctionOnSet(f, Orders)
      /\ OnOrders(p)' = SumFunctionOnSet(g, Orders)
  BY DEF OnOrders, SumFunction, Kept
<1>2. /\ orders \in [Orders -> {NoOrder} \cup OrderRow]
      /\ orders' \in [Orders -> {NoOrder} \cup OrderRow]
  BY DEF TypeOK, OrderRow
<1>3. /\ \A x \in Orders : f[x] \in Int /\ g[x] \in Int
      /\ \A x \in Orders \ {o} : f[x] = g[x]
      /\ f[o] = Kept(orders[o], p) /\ g[o] = Kept(orders'[o], p)
  BY <1>2, KeptTyped
<1> HIDE DEF f, g
<1>4. SumFunctionOnSet(g, Orders) = SumFunctionOnSet(f, Orders) - f[o] + g[o]
  BY <1>3, CheckoutConstants, SumChanges
<1>5. SumFunctionOnSet(f, Orders) \in Int
  BY <1>3, CheckoutConstants, SumIsInt
<1> QED
  BY <1>1, <1>3, <1>4, <1>5

\* An order's row is rewritten, and the others stay.
Rewrites(o, row) ==
  /\ orders' = [orders EXCEPT ![o] = row]
  /\ row \in OrderRow
  /\ row.status = "PENDING" => row.refunded = Zero

\* A row that is there keeps its quantity, less what was refunded, unless it is
\* canceled.
LEMMA KeptOfRow ==
  ASSUME NEW p \in Products, NEW row \in OrderRow
  PROVE  /\ row.qty[p] \in Nat /\ row.refunded[p] \in Nat
         /\ Kept(row, p) = IF row.status = "CANCELED" THEN 0
                           ELSE row.qty[p] - row.refunded[p]
  BY NoOrderRow, StockConstants DEF Kept, OrderRow, Basket

\* Each writer of the orders, by the row it leaves and what the shelf gains.
LEMMA CommitCheckoutRow ==
  ASSUME CInv, Ledgers, NEW w \in Workers, NEW keep \in KeepModes,
         CommitCheckout(w, keep), NEW p \in Products
  PROVE  \E o \in Orders, row \in OrderRow :
           /\ Rewrites(o, row)
           /\ stock'[p] + Kept(row, p) = stock[p] + Kept(orders[o], p)
<1>1. TypeOK /\ ThreadInv(w) /\ tx[w] \in Transaction /\ Ledger(w)
  BY DEF CInv, TypeOK, Ledgers
<1> DEFINE o == tx[w].order
           basket == tx[w].basket
           row == [qty |-> basket, refunded |-> Zero, status |-> "PENDING"]
<1>2. o \in Orders /\ basket \in Basket /\ orders[o] = NoOrder
  BY <1>1 DEF CommitCheckout, ThreadInv, Shape, OwnsOrder, Serves, Pays, Transaction
<1>3. row \in OrderRow /\ Rewrites(o, row)
  BY <1>2, IdleTypes DEF CommitCheckout, Rewrites, OrderRow
<1>4. Kept(row, p) = basket[p] /\ Kept(orders[o], p) = 0 /\ basket[p] \in Nat
  <2>1. row.qty = basket /\ row.refunded[p] = 0 /\ row.status # "CANCELED"
    BY DEF Zero
  <2> HIDE DEF row
  <2>2. Kept(row, p) = row.qty[p] - row.refunded[p] /\ row.qty[p] \in Nat
    BY <1>3, <2>1, KeptOfRow
  <2> QED
    BY <1>2, <2>1, <2>2 DEF Kept
<1>5. stock'[p] = stock[p] - basket[p] /\ stock[p] \in Nat
  <2>1. tx[w].owed[p] = 0
    <3>1. tx[w].owed[p] \in Nat
      BY <1>1, StockConstants DEF Transaction, Basket
    <3>2. Owing(w) = {}
      BY DEF CommitCheckout
    <3> QED
      BY <3>1, <3>2 DEF Owing
  <2>2. tx[w].owed[p] - tx[w].move[p] = basket[p] /\ tx[w].move[p] \in Int
    BY <1>1 DEF CommitCheckout, Ledger, Transaction
  <2>3. stock'[p] = stock[p] + tx[w].move[p] /\ stock[p] \in Nat
    BY <1>1 DEF CommitCheckout, TypeOK, StockTypeOK
  <2> QED
    BY <1>4, <2>1, <2>2, <2>3
<1> HIDE DEF o, row, basket
<1>6. stock'[p] + Kept(row, p) = stock[p] + Kept(orders[o], p)
  BY <1>4, <1>5
<1> QED
  BY <1>2, <1>3, <1>6

\* A cancellation never puts back more than its order kept.
LEMMA CommitCancelRow ==
  ASSUME CInv, Ledgers, Settled, NEW w \in Workers, CommitCancel(w), NEW p \in Products
  PROVE  \E o \in Orders, row \in OrderRow :
           /\ Rewrites(o, row)
           /\ stock'[p] + Kept(row, p) <= stock[p] + Kept(orders[o], p)
           /\ "cancel" \notin Victims =>
                stock'[p] + Kept(row, p) = stock[p] + Kept(orders[o], p)
<1>1. TypeOK /\ ThreadInv(w) /\ tx[w] \in Transaction /\ Ledger(w)
  BY DEF CInv, TypeOK, Ledgers
<1> DEFINE o == tx[w].order
           row == [orders[o] EXCEPT !.status = "CANCELED"]
<1>2. o \in Orders /\ orders[o] \in OrderRow /\ orders[o].status = "PENDING"
  BY <1>1 DEF CommitCancel, ThreadInv, Shape, OwnsOrder, Serves, TypeOK
<1>3. row \in OrderRow /\ row.status = "CANCELED" /\ Rewrites(o, row)
  BY <1>2 DEF CommitCancel, Rewrites, OrderRow
<1>4. orders[o].refunded[p] = 0
  BY <1>2, NoOrderRow DEF Settled, Zero
<1>5. Kept(row, p) = 0 /\ Kept(orders[o], p) = orders[o].qty[p] /\ orders[o].qty[p] \in Nat
  <2> HIDE DEF row
  <2> QED
    BY <1>2, <1>3, <1>4, KeptOfRow
<1>6. tx[w].owed[p] = 0
  <2>1. tx[w].owed[p] \in Nat
    BY <1>1, StockConstants DEF Transaction, Basket
  <2>2. Owing(w) = {}
    BY DEF CommitCancel
  <2> QED
    BY <2>1, <2>2 DEF Owing
<1>7. /\ stock'[p] = stock[p] + tx[w].move[p]
      /\ stock[p] \in Nat /\ tx[w].move[p] \in Int
  BY <1>1 DEF CommitCancel, TypeOK, StockTypeOK, Transaction
<1>8. /\ tx[w].owed[p] + tx[w].move[p] <= orders[o].qty[p]
      /\ "cancel" \notin Victims => tx[w].owed[p] + tx[w].move[p] = orders[o].qty[p]
  BY <1>1 DEF CommitCancel, Ledger
<1> HIDE DEF o, row
<1>9. /\ stock'[p] + Kept(row, p) <= stock[p] + Kept(orders[o], p)
      /\ "cancel" \notin Victims =>
           stock'[p] + Kept(row, p) = stock[p] + Kept(orders[o], p)
  BY <1>5, <1>6, <1>7, <1>8
<1> QED
  BY <1>2, <1>3, <1>9

\* Handing an order over changes neither.
LEMMA DeliverRow ==
  ASSUME CInv, NEW o \in Orders, Deliver(o), NEW p \in Products
  PROVE  \E row \in OrderRow :
           Rewrites(o, row) /\ stock' = stock /\ Kept(row, p) = Kept(orders[o], p)
<1> DEFINE row == [orders[o] EXCEPT !.status = "DELIVERED"]
<1>1. orders[o] \in OrderRow /\ orders[o].status = "PENDING"
  BY DEF Deliver, CInv, TypeOK
<1>2. /\ row \in OrderRow /\ row.status = "DELIVERED" /\ Rewrites(o, row)
      /\ row.qty = orders[o].qty /\ row.refunded = orders[o].refunded
  BY <1>1 DEF Deliver, Rewrites, OrderRow
<1>3. Kept(row, p) = Kept(orders[o], p)
  <2> HIDE DEF row
  <2> QED
    BY <1>1, <1>2, KeptOfRow
<1> QED
  BY <1>2, <1>3 DEF Deliver

\* A refunded unit comes back to the shelf as it leaves the order.
LEMMA RefundRow ==
  ASSUME CInv, NEW o \in Orders, NEW x \in Products, NEW q \in Quantities,
         RefundItem(o, x, q), NEW p \in Products
  PROVE  \E row \in OrderRow :
           /\ Rewrites(o, row)
           /\ stock'[p] + Kept(row, p) = stock[p] + Kept(orders[o], p)
<1> DEFINE old == orders[o]
           back == [old.refunded EXCEPT ![x] = old.refunded[x] + q]
           row == [old EXCEPT !.refunded = back]
<1>1. TypeOK /\ StockTypeOK
  BY DEF CInv, TypeOK
<1>2. old \in OrderRow /\ old.status = "DELIVERED"
  BY <1>1 DEF RefundItem, TypeOK
<1>3. back \in Basket /\ back[p] = old.refunded[p] + (IF p = x THEN q ELSE 0)
  <2>1. old.refunded \in Basket /\ old.refunded[x] + q \in 0 .. MaxQty
    BY <1>2, StockConstants DEF RefundItem, Basket, Quantities, OrderRow
  <2>2. old.refunded[p] \in Nat
    BY <1>2, KeptOfRow
  <2> QED
    BY <2>1, <2>2 DEF Basket
<1>4. orders' = [orders EXCEPT ![o] = row]
  BY DEF RefundItem
<1>5. stock'[p] = stock[p] + (IF p = x THEN q ELSE 0) /\ stock[p] \in Nat /\ q \in Nat
  BY <1>1 DEF RefundItem, IncrementStock, Move, StockTypeOK, Quantities
<1> HIDE DEF back
<1>6. /\ row \in OrderRow /\ row.status = "DELIVERED" /\ row.qty = old.qty
      /\ row.refunded = back
  BY <1>2, <1>3 DEF OrderRow
<1> HIDE DEF row, old
<1>7. Rewrites(o, row)
  BY <1>4, <1>6 DEF Rewrites
<1>8. /\ Kept(row, p) = old.qty[p] - back[p] /\ old.qty[p] \in Nat
      /\ Kept(old, p) = old.qty[p] - old.refunded[p] /\ old.refunded[p] \in Nat
  BY <1>2, <1>6, KeptOfRow
<1>9. stock'[p] + Kept(row, p) = stock[p] + Kept(old, p)
  BY <1>3, <1>5, <1>8
<1> QED
  BY <1>6, <1>7, <1>9 DEF old

\* What is on the shelf and on orders together never grows in a step, and stays
\* the same where no cancellation is a victim.
LEMMA TogetherStep ==
  ASSUME CInv, Ledgers, Settled, [Next]_vars, NEW p \in Products
  PROVE  /\ stock[p] + OnOrders(p) \in Int
         /\ stock'[p] + OnOrders(p)' \in Int
         /\ stock'[p] + OnOrders(p)' <= stock[p] + OnOrders(p)
         /\ "cancel" \notin Victims =>
              stock'[p] + OnOrders(p)' = stock[p] + OnOrders(p)
<1>1. CInv'
  BY CInvStep
<1>2. TypeOK /\ TypeOK' /\ stock[p] \in Nat /\ stock'[p] \in Nat
  BY <1>1 DEF CInv, TypeOK, StockTypeOK
<1>3. ASSUME NEW o \in Orders, NEW row \in OrderRow, Rewrites(o, row),
             stock'[p] + Kept(row, p) <= stock[p] + Kept(orders[o], p),
             "cancel" \notin Victims =>
               stock'[p] + Kept(row, p) = stock[p] + Kept(orders[o], p)
      PROVE  /\ stock[p] + OnOrders(p) \in Int
             /\ stock'[p] + OnOrders(p)' \in Int
             /\ stock'[p] + OnOrders(p)' <= stock[p] + OnOrders(p)
             /\ "cancel" \notin Victims =>
                  stock'[p] + OnOrders(p)' = stock[p] + OnOrders(p)
  <2>1. orders'[o] = row /\ \A x \in Orders \ {o} : orders'[x] = orders[x]
    BY <1>2, <1>3 DEF Rewrites, TypeOK
  <2>2. /\ OnOrders(p) \in Int
        /\ OnOrders(p)' = OnOrders(p) - Kept(orders[o], p) + Kept(row, p)
    BY <1>2, <2>1, OnOrdersChanges
  <2>3. Kept(row, p) \in Int /\ Kept(orders[o], p) \in Int
    BY <1>2, KeptTyped DEF TypeOK
  <2> DEFINE was == OnOrders(p)
             is == OnOrders(p)'
             a == Kept(orders[o], p)
             b == Kept(row, p)
             s == stock[p]
             t == stock'[p]
  <2>4. /\ was \in Int /\ is = was - a + b /\ a \in Int /\ b \in Int
        /\ s \in Int /\ t \in Int /\ t + b <= s + a
        /\ "cancel" \notin Victims => t + b = s + a
    BY <1>2, <1>3, <2>2, <2>3
  <2> HIDE DEF was, is, a, b, s, t
  <2>5. s + was \in Int /\ t + is \in Int /\ t + is <= s + was
        /\ ("cancel" \notin Victims => t + is = s + was)
    BY <2>4
  <2> QED
    BY <2>5 DEF was, is, s, t
<1>4. CASE UNCHANGED <<stock, orders>>
  <2>1. OnOrders(p)' = OnOrders(p)
    BY <1>4 DEF OnOrders, Kept
  <2>2. OnOrders(p) \in Int
    <3> DEFINE f == [x \in Orders |-> Kept(orders[x], p)]
    <3>1. \A x \in Orders : f[x] \in Int
      BY <1>2, KeptTyped DEF TypeOK
    <3>2. OnOrders(p) = SumFunctionOnSet(f, Orders)
      BY DEF OnOrders, SumFunction
    <3> HIDE DEF f
    <3> QED
      BY <3>1, <3>2, CheckoutConstants, SumIsInt
  <2> QED
    BY <1>2, <1>4, <2>1, <2>2
<1>5. ASSUME NEW w \in Workers, NEW keep \in KeepModes, CommitCheckout(w, keep)
      PROVE  \E o \in Orders, row \in OrderRow :
               /\ Rewrites(o, row)
               /\ stock'[p] + Kept(row, p) = stock[p] + Kept(orders[o], p)
  BY <1>5, CommitCheckoutRow
<1>6. ASSUME NEW w \in Workers, CommitCancel(w)
      PROVE  \E o \in Orders, row \in OrderRow :
               /\ Rewrites(o, row)
               /\ stock'[p] + Kept(row, p) <= stock[p] + Kept(orders[o], p)
               /\ "cancel" \notin Victims =>
                    stock'[p] + Kept(row, p) = stock[p] + Kept(orders[o], p)
  BY <1>6, CommitCancelRow
<1>7. ASSUME NEW o \in Orders, Deliver(o)
      PROVE  \E row \in OrderRow :
               /\ Rewrites(o, row)
               /\ stock'[p] + Kept(row, p) = stock[p] + Kept(orders[o], p)
  BY <1>7, DeliverRow
<1>8. ASSUME NEW o \in Orders, NEW x \in Products, NEW q \in Quantities,
             RefundItem(o, x, q)
      PROVE  \E row \in OrderRow :
               /\ Rewrites(o, row)
               /\ stock'[p] + Kept(row, p) = stock[p] + Kept(orders[o], p)
  BY <1>8, RefundRow
<1>9. ASSUME NEW o \in Orders, NEW row \in OrderRow, Rewrites(o, row),
             stock'[p] + Kept(row, p) = stock[p] + Kept(orders[o], p)
      PROVE  /\ stock[p] + OnOrders(p) \in Int
             /\ stock'[p] + OnOrders(p)' \in Int
             /\ stock'[p] + OnOrders(p)' <= stock[p] + OnOrders(p)
             /\ "cancel" \notin Victims =>
                  stock'[p] + OnOrders(p)' = stock[p] + OnOrders(p)
  <2>1. Kept(row, p) \in Int
    BY KeptTyped
  <2> DEFINE t == stock'[p]
             b == Kept(row, p)
  <2>2. t \in Int /\ b \in Int
    BY <1>2, <2>1
  <2>3. t + b <= t + b
    <3> HIDE DEF t, b
    <3> QED
      BY <2>2
  <2> QED
    BY <1>3, <1>9, <2>3
<1> QED
  <2> HIDE DEF Rewrites
  <2>1. CASE \E w \in Workers, keep \in KeepModes : CommitCheckout(w, keep)
    BY <1>5, <1>9, <2>1
  <2>2. CASE \E w \in Workers : CommitCancel(w)
    BY <1>3, <1>6, <2>2
  <2>3. CASE \E o \in Orders : Deliver(o)
    BY <1>7, <1>9, <2>3
  <2>4. CASE \E o \in Orders, x \in Products, q \in Quantities : RefundItem(o, x, q)
    BY <1>8, <1>9, <2>4
  <2> QED
    BY <1>4, <2>1, <2>2, <2>3, <2>4, ShelfMoves

\* Rows that are PENDING have nothing refunded.
LEMMA SettledStep ==
  ASSUME CInv, Ledgers, Settled, [Next]_vars
  PROVE  Settled'
<1> SUFFICES ASSUME NEW x \in Orders, orders'[x] # NoOrder,
                    orders'[x].status = "PENDING"
             PROVE  orders'[x].refunded = Zero
  BY DEF Settled, Zero
<1>1. orders \in [Orders -> {NoOrder} \cup OrderRow]
  BY DEF CInv, TypeOK
<1>2. ASSUME orders'[x] = orders[x]
      PROVE  orders'[x].refunded = Zero
  BY <1>2 DEF Settled
<1>3. ASSUME NEW o, NEW row, orders' = [orders EXCEPT ![o] = row],
             row.status = "PENDING" => row.refunded = Zero
      PROVE  orders'[x].refunded = Zero
  BY <1>1, <1>2, <1>3
<1>4. ASSUME NEW w \in Workers, NEW keep \in KeepModes, CommitCheckout(w, keep)
      PROVE  orders'[x].refunded = Zero
  BY <1>3, <1>4 DEF CommitCheckout
<1>5. ASSUME NEW w \in Workers, CommitCancel(w)
      PROVE  orders'[x].refunded = Zero
  <2>1. tx[w].order \in Orders /\ orders[tx[w].order] # NoOrder
    BY <1>5 DEF CommitCancel, CInv, ThreadInv, Shape, OwnsOrder, Serves
  <2>2. [orders[tx[w].order] EXCEPT !.status = "CANCELED"].status = "CANCELED"
    BY <1>1, <2>1 DEF OrderRow
  <2> QED
    BY <1>3, <1>5, <2>2 DEF CommitCancel
<1>6. ASSUME NEW o \in Orders, Deliver(o)
      PROVE  orders'[x].refunded = Zero
  <2>1. [orders[o] EXCEPT !.status = "DELIVERED"].status = "DELIVERED"
    BY <1>1, <1>6 DEF Deliver, OrderRow
  <2> QED
    BY <1>3, <1>6, <2>1 DEF Deliver
<1>7. ASSUME NEW o \in Orders, NEW p \in Products, NEW q \in Quantities,
             RefundItem(o, p, q)
      PROVE  orders'[x].refunded = Zero
  <2> DEFINE back == [orders[o].refunded EXCEPT ![p] = orders[o].refunded[p] + q]
             row == [orders[o] EXCEPT !.refunded = back]
  <2>1. orders' = [orders EXCEPT ![o] = row]
    BY <1>7 DEF RefundItem
  <2>2. orders[o] \in OrderRow /\ orders[o].status = "DELIVERED"
    BY <1>1, <1>7 DEF RefundItem
  <2> HIDE DEF back
  <2>3. row.status = "DELIVERED"
    BY <2>2 DEF OrderRow
  <2> HIDE DEF row
  <2> QED
    BY <1>3, <2>1, <2>3
<1> QED
  BY <1>2, <1>4, <1>5, <1>6, <1>7, ShelfMoves

\* Settled, and what shelf and orders have together, from the start.
LEMMA SettledAlways == Spec => []Settled
<1>1. Init => Settled
  BY DEF Init, Settled
<1>2. CInv /\ Ledgers /\ Settled /\ [Next]_vars => Settled'
  BY SettledStep
<1> QED
  BY <1>1, <1>2, CInvAlways, LedgersAlways, PTL DEF Spec

\* At the start everything is on the shelf.
LEMMA TogetherInit ==
  ASSUME Init, NEW p \in Products
  PROVE  stock[p] + OnOrders(p) = InitStock[p]
<1> DEFINE f == [o \in Orders |-> Kept(orders[o], p)]
<1>1. \A o \in Orders : f[o] = 0
  BY DEF Init, Kept
<1>2. OnOrders(p) = SumFunctionOnSet(f, Orders)
  BY DEF OnOrders, SumFunction
<1> HIDE DEF f
<1>3. OnOrders(p) = 0
  BY <1>1, <1>2, CheckoutConstants, SumOfZeros
<1>4. stock[p] = InitStock[p] /\ InitStock[p] \in Nat
  BY StockConstants DEF Init, StockInit
<1> QED
  BY <1>3, <1>4

\* No interleaving puts a unit on the shelf or on an order twice, whoever loses
\* a lock cycle (run checkout_two).
THEOREM CheckoutInventsNothing == Spec => []NothingInvented
<1>1. Init => NothingInvented
  <2> SUFFICES ASSUME Init, NEW p \in Products
               PROVE  stock[p] + OnOrders(p) <= InitStock[p]
    BY DEF NothingInvented
  <2>1. stock[p] + OnOrders(p) = InitStock[p] /\ InitStock[p] \in Int
    BY TogetherInit, StockConstants
  <2> QED
    BY <2>1
<1>2. CInv /\ Ledgers /\ Settled /\ NothingInvented /\ [Next]_vars => NothingInvented'
  <2> SUFFICES ASSUME CInv, Ledgers, Settled, NothingInvented, [Next]_vars,
                      NEW p \in Products
               PROVE  stock'[p] + OnOrders(p)' <= InitStock[p]
    BY DEF NothingInvented
  <2>1. /\ stock[p] + OnOrders(p) \in Int
        /\ stock'[p] + OnOrders(p)' \in Int
        /\ stock'[p] + OnOrders(p)' <= stock[p] + OnOrders(p)
        /\ "cancel" \notin Victims =>
             stock'[p] + OnOrders(p)' = stock[p] + OnOrders(p)
    BY TogetherStep
  <2>2. stock[p] + OnOrders(p) <= InitStock[p] /\ InitStock[p] \in Int
    BY StockConstants DEF NothingInvented
  <2> DEFINE is == stock'[p] + OnOrders(p)'
             was == stock[p] + OnOrders(p)
  <2>3. is \in Int /\ was \in Int /\ is <= was /\ was <= InitStock[p]
    BY <2>1, <2>2
  <2> HIDE DEF is, was
  <2>4. is <= InitStock[p]
    BY <2>2, <2>3
  <2> QED
    BY <2>4 DEF is
<1> QED
  BY <1>1, <1>2, CInvAlways, LedgersAlways, SettledAlways, PTL DEF Spec

\* And none is lost: the shelf and the orders add up to the stock at the start
\* through every interleaving (run checkout_one), where the deadlock detector
\* picks no cancellation; then the code loses the units of an item.
THEOREM CheckoutConserves ==
  ASSUME "cancel" \notin Victims
  PROVE  Spec => []Conserved
<1>1. Init => Conserved
  BY TogetherInit DEF Conserved
<1>2. CInv /\ Ledgers /\ Settled /\ Conserved /\ [Next]_vars => Conserved'
  BY TogetherStep DEF Conserved
<1> QED
  BY <1>1, <1>2, CInvAlways, LedgersAlways, SettledAlways, PTL DEF Spec

-----------------------------------------------------------------------------
\* Holds are backed.  A thread that has locked a product sees the shelf less
\* what it has moved, and the holds less those it has sold or freed: the ones
\* that are left are covered at every moment, so also at its commit.

Taken(w) == tx[w].sold \cup tx[w].freed

Backed(w) ==
  \A p \in Products : UnitsIn(res, Holds(p) \ Taken(w)) <= OnShelf(w, p)

Backing ==
  /\ \A p \in Products : UnitsIn(res, Holds(p)) <= stock[p]
  /\ \A w \in Workers : tx[w].snap \cap Taken(w) = {} /\ Backed(w)

\* The clock of a hold: TTL less whole ticks, and once past the end -1.
Clocked ==
  \A r \in Reservations : Exists(r) =>
    \/ res[r].left = -1
    \/ res[r].left >= 0 /\ \E k \in Nat : res[r].left = TTL - k * Grain

\* The clock goes by ticks.
LEMMA ClockedStep ==
  ASSUME CInv, Clocked, [Next]_vars
  PROVE  Clocked'
<1> SUFFICES ASSUME NEW r \in Reservations, Exists(r)'
             PROVE  \/ res'[r].left = -1
                    \/ /\ res'[r].left >= 0
                       /\ \E k \in Nat : res'[r].left = TTL - k * Grain
  BY DEF Clocked
<1>1. StockTypeOK /\ (Exists(r) => res[r] \in Reservation)
  BY DEF CInv, TypeOK, StockTypeOK, Exists
<1>2. ASSUME Exists(r), res'[r].left = res[r].left
      PROVE  \/ res'[r].left = -1
             \/ /\ res'[r].left >= 0
                /\ \E k \in Nat : res'[r].left = TTL - k * Grain
  BY <1>2 DEF Clocked
<1>3. ASSUME NEW x \in Reservations, NEW p \in Products, NEW q \in Quantities,
             NEW s \in Sessions, ReserveStock(x, p, q, s)
      PROVE  \/ res'[r].left = -1
             \/ /\ res'[r].left >= 0
                /\ \E k \in Nat : res'[r].left = TTL - k * Grain
  <2>1. CASE r = x
    <3>1. res'[r].left = TTL
      BY <1>1, <1>3, <2>1 DEF ReserveStock, StockTypeOK
    <3>2. TTL = TTL - 0 * Grain /\ TTL >= 0
      BY StockConstants
    <3> QED
      BY <3>1, <3>2
  <2>2. CASE r # x
    <3>1. res'[r] = res[r]
      BY <1>3, <2>2 DEF ReserveStock
    <3> QED
      BY <1>2, <3>1 DEF Exists
  <2> QED
    BY <2>1, <2>2
<1>4. ASSUME NEW x \in Reservations, NEW o, Open(x), Consume({x}, o)
      PROVE  Exists(r) /\ res'[r].left = res[r].left
  <2>1. CASE r = x
    <3>1. res'[r] = [res[r] EXCEPT !.consumed = TRUE, !.order = o] /\ Exists(r)
      BY <1>4, <2>1 DEF Consume, Open
    <3> QED
      BY <1>1, <3>1 DEF Reservation
  <2>2. CASE r # x
    BY <1>4, <2>2 DEF Consume, Exists
  <2> QED
    BY <2>1, <2>2
<1>5. CASE CleanupWrite
  <2>1. CASE r \in sweep
    <3>1. res'[r] = [res[r] EXCEPT !.consumed = TRUE] /\ Exists(r)
      BY <1>1, <1>5, <2>1 DEF CleanupWrite, StockTypeOK
    <3>2. res'[r].left = res[r].left
      BY <1>1, <3>1 DEF Reservation
    <3> QED
      BY <1>2, <3>1, <3>2
  <2>2. CASE r \notin sweep
    <3>1. res'[r] = res[r]
      BY <1>5, <2>2 DEF CleanupWrite
    <3> QED
      BY <1>2, <3>1 DEF Exists
  <2> QED
    BY <2>1, <2>2
<1>6. CASE Tick
  <2>1. Exists(r)
    BY <1>6 DEF Tick, Exists
  <2>2. /\ res'[r].left = IF res[r].left < Grain THEN -1 ELSE res[r].left - Grain
        /\ res[r].left \in Int
    <3>1. res'[r] = [res[r] EXCEPT !.left =
                       IF res[r].left < Grain THEN -1 ELSE res[r].left - Grain]
      BY <1>6, <2>1 DEF Tick
    <3> QED
      BY <1>1, <2>1, <3>1 DEF Reservation
  <2>3. CASE res[r].left < Grain
    BY <2>2, <2>3
  <2>4. CASE res[r].left >= Grain
    <3>1. PICK k \in Nat : res[r].left = TTL - k * Grain
      BY <2>1, <2>4, StockConstants DEF Clocked
    <3>2. res'[r].left = TTL - (k + 1) * Grain /\ res'[r].left >= 0
      BY <2>2, <2>4, <3>1, StockConstants
    <3> QED
      BY <3>2
  <2> QED
    BY <2>2, <2>3, <2>4, StockConstants
<1>7. CASE UNCHANGED res
  BY <1>2, <1>7 DEF Exists
<1>8. ASSUME NEW w \in Workers, NEW keep \in KeepModes, CommitCheckout(w, keep)
      PROVE  Exists(r) /\ res'[r].left = res[r].left
  <2>1. r \in tx[w].sold \cup tx[w].freed => Exists(r)
    BY ClaimedRows
  <2>2. \/ res'[r] = [res[r] EXCEPT !.consumed = TRUE, !.order = tx[w].order]
        \/ res'[r] = [res[r] EXCEPT !.consumed = TRUE]
        \/ res'[r] = res[r]
    BY <1>8 DEF CommitCheckout
  <2>3. Exists(r)
    BY <1>8, <2>1 DEF CommitCheckout, Exists
  <2> QED
    BY <1>1, <2>2, <2>3 DEF Reservation
<1>9. ASSUME NEW w \in Workers, CommitCancel(w)
      PROVE  res' = res
  BY <1>9 DEF CommitCancel
<1>10. ASSUME NEW x \in Reservations, ReleaseReservation(x)
       PROVE  Exists(r) /\ res'[r].left = res[r].left
  BY <1>4, <1>10 DEF ReleaseReservation
<1>11. ASSUME NEW x \in Reservations, NEW o \in Orders, ConvertReservationToSale(x, o)
       PROVE  Exists(r) /\ res'[r].left = res[r].left
  BY <1>4, <1>11 DEF ConvertReservationToSale, Convertible
<1> QED
  <2>1. CASE [StockNext]_stockVars
    BY <1>2, <1>3, <1>5, <1>6, <1>7, <1>10, <1>11, <2>1
       DEF StockNext, stockVars, DecrementStock, IncrementStock, AdjustStock,
           Cleanup, CleanupRead
  <2> QED
    BY <1>2, <1>7, <1>8, <1>9, <2>1, TablesStep

\* A step leaves the active holds of a product, or fewer: every step but a
\* reservation of it.
Shrinks(p) ==
  \A r \in Holds(p)' : r \in Holds(p) /\ res'[r].quantity = res[r].quantity

\* What the shelf, the moves and the claims are typed as.
LEMMA ShelfTyped ==
  ASSUME TypeOK, NEW w \in Workers, NEW p \in Products
  PROVE  /\ stock[p] \in Nat /\ tx[w].move[p] \in Int /\ OnShelf(w, p) \in Int
         /\ Taken(w) \subseteq Reservations
  BY DEF TypeOK, StockTypeOK, Transaction, OnShelf, Taken

\* Backing of a thread that a shrinking step leaves alone.
LEMMA BackedKept ==
  ASSUME CInv, CInv', NEW w \in Workers, Backed(w), Taken(w) \subseteq Taken(w)',
         NEW p \in Products, Shrinks(p), OnShelf(w, p)' >= OnShelf(w, p)
  PROVE  UnitsIn(res', Holds(p)' \ Taken(w)') <= OnShelf(w, p)'
<1>1. TypeOK /\ StockTypeOK /\ TypeOK'
  BY DEF CInv, TypeOK
<1>2. OnShelf(w, p) \in Int
  BY <1>1, ShelfTyped
<1>3. OnShelf(w, p)' \in Int
  BY <1>1 DEF TypeOK, StockTypeOK, Transaction, OnShelf
<1> DEFINE rs == Holds(p)' \ Taken(w)'
<1>4. rs \subseteq Holds(p) \ Taken(w) /\ \A r \in rs : res'[r].quantity = res[r].quantity
  BY DEF Shrinks
<1>5. UnitsIn(res, Holds(p) \ Taken(w)) <= OnShelf(w, p)
  BY DEF Backed
<1> DEFINE n == OnShelf(w, p)
           m == OnShelf(w, p)'
<1>6. n \in Int /\ m \in Int /\ n <= m
  BY <1>2, <1>3
<1> HIDE DEF rs, m
<1>7. UnitsIn(res', rs) <= m
  BY <1>1, <1>4, <1>5, <1>6, StillCovered
<1> QED
  BY <1>7 DEF rs, m

\* The same of the shelf itself.
LEMMA ShelfCovers ==
  ASSUME CInv, CInv', Backing, NEW p \in Products, Shrinks(p), stock'[p] >= stock[p]
  PROVE  UnitsIn(res', Holds(p)') <= stock'[p]
<1>1. StockTypeOK /\ stock[p] \in Int /\ stock'[p] \in Int
  BY DEF CInv, TypeOK, StockTypeOK
<1> DEFINE rs == Holds(p)'
           none == {}
           n == stock[p]
           m == stock'[p]
<1>2. Holds(p) \ none = Holds(p)
  OBVIOUS
<1>3. UnitsIn(res, Holds(p) \ none) <= n
  BY <1>2 DEF Backing
<1>4. /\ rs \in SUBSET (Holds(p) \ none)
      /\ \A r \in rs : res'[r].quantity = res[r].quantity
  BY DEF Shrinks
<1>5. n \in Int /\ m \in Int /\ n <= m
  BY <1>1
<1> HIDE DEF rs, n, m, none
<1>6. UnitsIn(res', rs) <= m
  BY <1>1, <1>3, <1>4, <1>5, StillCovered
<1> QED
  BY <1>6 DEF rs, m

\* A thread that has moved nothing of a product is covered as the shelf is.
LEMMA NothingMoved ==
  ASSUME CInv', NEW w \in Workers, NEW p \in Products, tx'[w].move[p] = 0,
         UnitsIn(res', Holds(p)') <= stock'[p]
  PROVE  UnitsIn(res', Holds(p)' \ Taken(w)') <= OnShelf(w, p)'
<1>1. StockTypeOK' /\ stock'[p] \in Nat
  BY DEF CInv, TypeOK, StockTypeOK
<1>2. OnShelf(w, p)' = stock'[p]
  BY <1>1 DEF OnShelf
<1> DEFINE hs == Holds(p)'
           rs == Holds(p)' \ Taken(w)'
<1>3. Counted(res', hs) /\ rs \subseteq hs
  BY <1>1 DEF StockTypeOK, Counted, Holds, Active, Open, Exists, Reservation, Quantities
<1> HIDE DEF hs, rs
<1>4. /\ UnitsIn(res', rs) \in Int /\ UnitsIn(res', hs) \in Int
      /\ UnitsIn(res', rs) <= UnitsIn(res', hs)
  BY <1>3, FewerUnits
<1> DEFINE a == UnitsIn(res', rs)
           b == UnitsIn(res', hs)
<1>5. a \in Int /\ b \in Int /\ a <= b /\ b <= stock'[p] /\ stock'[p] \in Int
  BY <1>1, <1>4 DEF hs
<1> HIDE DEF a, b
<1>6. a <= stock'[p]
  BY <1>5
<1> QED
  BY <1>2, <1>6 DEF a, rs

\* What a step of a thread does to its moves, its claims and the holds it has
\* still to read, once it is past the locks.
Idles(w) == tx'[w].pc \notin {"consuming", "converting", "restocking"}

Claims(w) ==
  /\ tx'[w].move = tx[w].move /\ Taken(w) \subseteq Taken(w)'
  /\ tx'[w].snap \subseteq tx[w].snap
  /\ tx'[w].snap \cap Taken(w)' \subseteq Taken(w)

Starts(w) == tx'[w].move = Zero /\ tx'[w].snap = {}

Moves(w, p, q) ==
  /\ p \in Products /\ q \in Int /\ tx'[w].move = Moved(w, p, q)
  /\ Taken(w)' = Taken(w) /\ tx'[w].snap = tx[w].snap

Sells(w, r, p) ==
  /\ r \in tx[w].snap /\ Open(r) /\ ~IsExpired(r) /\ res[r].product = p
  /\ p \in Products /\ tx'[w].move = Moved(w, p, -res[r].quantity)
  /\ Taken(w)' = Taken(w) \cup {r} /\ tx'[w].snap = tx[w].snap \ {r}

LEMMA Writes ==
  ASSUME TypeOK, NEW w \in Workers, NEW t, tx' = [tx EXCEPT ![w] = t]
  PROVE  tx'[w] = t
  BY DEF TypeOK

LEMMA OwnMoves ==
  ASSUME CInv, NEW w \in Workers, Step(w) \/ Request(w)
  PROVE  \/ Idles(w) \/ Claims(w) \/ Starts(w)
         \/ \E p \in Products, q \in Nat : Moves(w, p, q)
         \/ \E p \in Products, q \in Nat : Moves(w, p, -q) /\ FreeUnits(w, p) >= q
         \/ \E r \in Reservations, p \in Products : Sells(w, r, p)
<1>1. TypeOK /\ tx[w] \in Transaction /\ ThreadInv(w)
  <2>1. TypeOK /\ ThreadInv(w)
    BY DEF CInv
  <2> QED
    BY <2>1 DEF TypeOK
<1>2. ASSUME NEW t, tx' = [tx EXCEPT ![w] = t],
             t.pc \in {"idle", "reserving", "failing", "validated", "locking"}
      PROVE  Idles(w)
  BY <1>1, <1>2, Writes DEF Idles
<1>3. ASSUME NEW t, tx' = [tx EXCEPT ![w] = t], t.move = tx[w].move,
             t.snap = tx[w].snap, t.sold = tx[w].sold, t.freed = tx[w].freed
      PROVE  Claims(w)
  <2>1. tx'[w] = t
    BY <1>1, <1>3, Writes
  <2> QED
    BY <1>3, <2>1 DEF Claims, Taken
<1>4. ASSUME NEW s \in Sessions, BeginReserve(w, s)
      PROVE  Idles(w)
  BY <1>2, <1>4 DEF BeginReserve, Idle
<1>5. ASSUME NEW s \in Sessions, NEW o \in Orders, BeginCheckout(w, s, o)
      PROVE  Idles(w)
  BY <1>2, <1>5 DEF BeginCheckout, Idle
<1>6. ASSUME NEW o \in Orders, BeginCancel(w, o)
      PROVE  Starts(w)
  <2>1. tx'[w] = [Idle EXCEPT !.pc = "restocking", !.order = o, !.owed = orders[o].qty]
    BY <1>1, <1>6 DEF BeginCancel, TypeOK
  <2> QED
    BY <2>1 DEF Starts, Idle
<1>7. ASSUME NEW x \in Products, ReserveLine(w, x)
      PROVE  Idles(w)
  BY <1>1, <1>2, <1>7 DEF ReserveLine, Transaction
<1>8. ASSUME NEW x \in Products, LineRefused(w, x)
      PROVE  Idles(w)
  BY <1>1, <1>2, <1>8 DEF LineRefused, Transaction
<1>9. ASSUME NEW x \in Products, PickLine(w, x)
      PROVE  Idles(w)
  BY <1>1, <1>2, <1>9 DEF PickLine, Transaction
<1>10. ASSUME NEW r \in Reservations, UndoLine(w, r)
       PROVE  Idles(w)
  BY <1>1, <1>2, <1>10 DEF UndoLine, Transaction
<1>11. CASE ReserveAnswered(w)
  BY <1>2, <1>11 DEF ReserveAnswered, Idle
<1>12. CASE ReadHolds(w)
  BY <1>1, <1>2, <1>12 DEF ReadHolds, Transaction
<1>13. CASE LockLine(w)
  BY <1>1, <1>2, <1>13 DEF LockLine, Transaction
<1>14. CASE \/ ConvertRaises(w) \/ ShortfallRaises(w) \/ CheckoutVictim(w)
            \/ CommitCancel(w) \/ \E keep \in KeepModes : CommitCheckout(w, keep)
  <2>1. tx' = [tx EXCEPT ![w] = Idle]
    BY <1>14
       DEF ConvertRaises, ShortfallRaises, CheckoutVictim, CommitCancel,
           CommitCheckout, Finish
  <2> QED
    BY <1>2, <2>1 DEF Idle
<1>15. CASE PlaceItems(w)
  <2> DEFINE t == [tx[w] EXCEPT !.pc = "consuming", !.basket = tx[w].owed]
  <2>1. tx' = [tx EXCEPT ![w] = t]
    BY <1>15 DEF PlaceItems
  <2>2. t.move = tx[w].move /\ t.snap = tx[w].snap /\ t.sold = tx[w].sold
        /\ t.freed = tx[w].freed
    BY <1>1 DEF Transaction
  <2> HIDE DEF t
  <2> QED
    BY <1>3, <2>1, <2>2
<1>16. ASSUME NEW x \in Products, NextProduct(w, x)
       PROVE  Claims(w)
  <2> DEFINE t == [tx[w] EXCEPT !.at = x]
  <2>1. tx' = [tx EXCEPT ![w] = t]
    BY <1>16 DEF NextProduct
  <2>2. t.move = tx[w].move /\ t.snap = tx[w].snap /\ t.sold = tx[w].sold
        /\ t.freed = tx[w].freed
    BY <1>1 DEF Transaction
  <2> HIDE DEF t
  <2> QED
    BY <1>3, <2>1, <2>2
<1>17. ASSUME NEW x \in Reservations, PickHold(w, x)
       PROVE  Claims(w)
  <2> DEFINE t == [tx[w] EXCEPT !.pc = "converting", !.pick = x]
  <2>1. tx' = [tx EXCEPT ![w] = t]
    BY <1>17 DEF PickHold
  <2>2. t.move = tx[w].move /\ t.snap = tx[w].snap /\ t.sold = tx[w].sold
        /\ t.freed = tx[w].freed
    BY <1>1 DEF Transaction
  <2> HIDE DEF t
  <2> QED
    BY <1>3, <2>1, <2>2
<1>18. CASE CancelVictim(w)
  <2> DEFINE t == [tx[w] EXCEPT !.owed = Owes(w, tx[w].at, 0), !.at = NoProduct]
  <2>1. tx' = [tx EXCEPT ![w] = t]
    BY <1>18 DEF CancelVictim
  <2>2. t.move = tx[w].move /\ t.snap = tx[w].snap /\ t.sold = tx[w].sold
        /\ t.freed = tx[w].freed
    BY <1>1 DEF Transaction
  <2> HIDE DEF t
  <2> QED
    BY <1>3, <2>1, <2>2
<1>19. ASSUME NEW r \in Reservations, FreeHold(w, r)
       PROVE  Claims(w)
  <2>1. ASSUME NEW t, tx' = [tx EXCEPT ![w] = t], t.move = tx[w].move,
               t.snap = tx[w].snap \ {r}, t.sold = tx[w].sold,
               t.freed \in {tx[w].freed, tx[w].freed \cup {r}}
        PROVE  Claims(w)
    <3>1. tx'[w] = t
      BY <1>1, <2>1, Writes
    <3> QED
      BY <2>1, <3>1 DEF Claims, Taken
  <2> DEFINE t1 == [tx[w] EXCEPT !.snap = tx[w].snap \ {r},
                                 !.freed = tx[w].freed \cup {r}]
             t2 == [tx[w] EXCEPT !.snap = tx[w].snap \ {r}]
  <2>2. tx' = [tx EXCEPT ![w] = t1] \/ tx' = [tx EXCEPT ![w] = t2]
    BY <1>19 DEF FreeHold
  <2>3. /\ t1.move = tx[w].move /\ t1.snap = tx[w].snap \ {r}
        /\ t1.sold = tx[w].sold /\ t1.freed = tx[w].freed \cup {r}
    BY <1>1 DEF Transaction
  <2>4. /\ t2.move = tx[w].move /\ t2.snap = tx[w].snap \ {r}
        /\ t2.sold = tx[w].sold /\ t2.freed = tx[w].freed
    BY <1>1 DEF Transaction
  <2> HIDE DEF t1, t2
  <2> QED
    BY <2>1, <2>2, <2>3, <2>4
<1>20. CASE RestockItem(w)
  <2>1. PICK p \in Products : p = tx[w].at
    BY <1>1, <1>20 DEF RestockItem, Owing
  <2>2. PICK q \in Nat : q = tx[w].owed[p]
    BY <1>1, StockConstants DEF Transaction, Basket
  <2> DEFINE t == [tx[w] EXCEPT !.move = Moved(w, p, q), !.owed = Owes(w, p, 0)]
  <2>3. tx' = [tx EXCEPT ![w] = t]
    BY <1>20, <2>1, <2>2 DEF RestockItem
  <2>4. /\ t.move = Moved(w, p, q) /\ t.snap = tx[w].snap
        /\ t.sold = tx[w].sold /\ t.freed = tx[w].freed
    BY <1>1 DEF Transaction
  <2> HIDE DEF t
  <2>5. tx'[w] = t
    BY <1>1, <2>3, Writes
  <2>6. Moves(w, p, q)
    BY <2>4, <2>5 DEF Moves, Taken
  <2> QED
    BY <2>6
<1>21. CASE TakeShortfall(w)
  <2>1. PICK p \in Products : p = tx[w].at
    BY <1>1, <1>21 DEF TakeShortfall, ShortfallDue, Owing
  <2>2. PICK q \in Nat : q = tx[w].owed[p]
    BY <1>1, StockConstants DEF Transaction, Basket
  <2> DEFINE t == [tx[w] EXCEPT !.move = Moved(w, p, -q), !.owed = Owes(w, p, 0)]
  <2>3. tx' = [tx EXCEPT ![w] = t] /\ FreeUnits(w, p) >= q
    BY <1>21, <2>1, <2>2 DEF TakeShortfall
  <2>4. /\ t.move = Moved(w, p, -q) /\ t.snap = tx[w].snap
        /\ t.sold = tx[w].sold /\ t.freed = tx[w].freed
    BY <1>1 DEF Transaction
  <2> HIDE DEF t
  <2>5. tx'[w] = t
    BY <1>1, <2>3, Writes
  <2>6. Moves(w, p, -q)
    BY <2>4, <2>5 DEF Moves, Taken
  <2> QED
    BY <2>3, <2>6
<1>22. CASE ConvertHold(w)
  <2>1. /\ tx[w].at \in Products /\ tx[w].pick \in tx[w].snap
        /\ tx[w].pick \in Reservations /\ res[tx[w].pick].product = tx[w].at
        /\ Open(tx[w].pick) /\ ~IsExpired(tx[w].pick)
    BY <1>1, <1>22
       DEF ConvertHold, CanConvert, Convertible, ThreadInv, Shape, Transaction
  <2>2. PICK r \in Reservations : r = tx[w].pick
    BY <2>1
  <2>3. PICK p \in Products : p = tx[w].at
    BY <2>1
  <2> DEFINE t == [tx[w] EXCEPT !.pc = "consuming", !.pick = NoReservation,
                     !.move = Moved(w, p, -res[r].quantity),
                     !.owed = Owes(w, p, tx[w].owed[p] - res[r].quantity),
                     !.sold = tx[w].sold \cup {r}, !.snap = tx[w].snap \ {r}]
  <2>4. tx' = [tx EXCEPT ![w] = t]
    BY <1>22, <2>2, <2>3 DEF ConvertHold
  <2>5. /\ t.move = Moved(w, p, -res[r].quantity) /\ t.snap = tx[w].snap \ {r}
        /\ t.sold = tx[w].sold \cup {r} /\ t.freed = tx[w].freed
    BY <1>1 DEF Transaction
  <2> HIDE DEF t
  <2>6. tx'[w] = t
    BY <1>1, <2>4, Writes
  <2>7. Sells(w, r, p)
    BY <2>1, <2>2, <2>3, <2>5, <2>6 DEF Sells, Taken
  <2> QED
    BY <2>7
<1>23. CASE Request(w)
  BY <1>4, <1>5, <1>6, <1>23 DEF Request
<1>24. CASE Step(w)
  BY <1>7, <1>8, <1>9, <1>10, <1>11, <1>12, <1>13, <1>14, <1>15, <1>16, <1>17,
     <1>18, <1>19, <1>20, <1>21, <1>22, <1>24 DEF Step
<1> QED
  BY <1>23, <1>24

\* So its claims stay apart from what it has still to read.
LEMMA ApartOwn ==
  ASSUME CInv, CInv', NEW w \in Workers, Step(w) \/ Request(w),
         tx[w].snap \cap Taken(w) = {}
  PROVE  tx'[w].snap \cap Taken(w)' = {}
<1>1. CASE Idles(w)
  <2>1. Shape(w)'
    BY DEF CInv, ThreadInv
  <2> QED
    BY <1>1, <2>1 DEF Idles, Shape, Taken
<1>2. CASE Claims(w)
  BY <1>2 DEF Claims
<1>3. CASE Starts(w)
  BY <1>3 DEF Starts
<1>4. ASSUME NEW p, NEW q, Moves(w, p, q)
      PROVE  tx'[w].snap \cap Taken(w)' = {}
  BY <1>4 DEF Moves
<1>5. ASSUME NEW r, NEW p, Sells(w, r, p)
      PROVE  tx'[w].snap \cap Taken(w)' = {}
  BY <1>5 DEF Sells
<1>6. \/ Idles(w) \/ Claims(w) \/ Starts(w)
      \/ \E p, q : Moves(w, p, q)
      \/ \E r, p : Sells(w, r, p)
  BY OwnMoves
<1> QED
  BY <1>1, <1>2, <1>3, <1>4, <1>5, <1>6

\* And its own backing, where the tables stay the same: a sale takes the units
\* of the hold it sells off both sides, a shortfall fits what the others leave.
LEMMA BackedOwn ==
  ASSUME CInv, CInv', Clocked, \A k \in Nat : TTL # k * Grain, Backing,
         NEW w \in Workers, Step(w) \/ Request(w), UNCHANGED <<stock, res>>
  PROVE  Backed(w)'
<1>1. TypeOK /\ StockTypeOK /\ tx[w].move \in [Products -> Int]
  BY DEF CInv, TypeOK, Transaction
<1>2. \A x : Holds(x)' = Holds(x) /\ Shrinks(x)
  BY DEF Shrinks, Holds, Active, Open, Exists
<1>3. ASSUME NEW p \in Products, tx'[w].move[p] = 0
      PROVE  UnitsIn(res', Holds(p)' \ Taken(w)') <= OnShelf(w, p)'
  <2>1. stock'[p] >= stock[p]
    BY <1>1, ShelfTyped
  <2>2. UnitsIn(res', Holds(p)') <= stock'[p]
    BY <1>2, <2>1, ShelfCovers
  <2> QED
    BY <1>3, <2>2, NothingMoved
<1>4. ASSUME Taken(w) \subseteq Taken(w)', NEW p \in Products,
             tx'[w].move[p] >= tx[w].move[p]
      PROVE  UnitsIn(res', Holds(p)' \ Taken(w)') <= OnShelf(w, p)'
  <2>1. OnShelf(w, p)' >= OnShelf(w, p)
    <3>1. tx'[w].move[p] \in Int /\ tx[w].move[p] \in Int /\ stock[p] \in Nat
      BY <1>1 DEF CInv, TypeOK, Transaction, StockTypeOK
    <3> QED
      BY <1>4, <3>1 DEF OnShelf
  <2>2. Backed(w)
    BY DEF Backing
  <2> QED
    BY <1>2, <1>4, <2>1, <2>2, BackedKept
<1>5. ASSUME NEW p \in Products, NEW q \in Int, tx'[w].move = Moved(w, p, q),
             Taken(w) \subseteq Taken(w)',
             UnitsIn(res', Holds(p)' \ Taken(w)') <= OnShelf(w, p)'
      PROVE  Backed(w)'
  <2>1. \A x \in Products \ {p} : tx'[w].move[x] = tx[w].move[x] /\ tx[w].move[x] \in Int
    BY <1>1, <1>5 DEF Moved
  <2>2. ASSUME NEW x \in Products \ {p}
        PROVE  UnitsIn(res', Holds(x)' \ Taken(w)') <= OnShelf(w, x)'
    <3>1. tx'[w].move[x] >= tx[w].move[x]
      BY <2>1
    <3> QED
      BY <1>4, <1>5, <3>1
  <2> QED
    BY <1>5, <2>2 DEF Backed
<1>6. ASSUME NEW p \in Products, NEW q \in Int, tx'[w].move = Moved(w, p, q)
      PROVE  OnShelf(w, p)' = OnShelf(w, p) + q /\ OnShelf(w, p) \in Int
  <2>1. tx'[w].move[p] = tx[w].move[p] + q /\ tx[w].move[p] \in Int /\ stock[p] \in Nat
    BY <1>1, <1>6, ShelfTyped DEF Moved
  <2> QED
    BY <2>1 DEF OnShelf
<1>7. CASE Idles(w)
  <2>1. Shape(w)' /\ tx'[w].move = Zero
    BY <1>7 DEF CInv, ThreadInv, Idles, Shape
  <2> QED
    BY <1>3, <2>1 DEF Zero, Backed
<1>8. CASE Claims(w)
  <2>1. \A p \in Products : tx'[w].move[p] >= tx[w].move[p]
    BY <1>1, <1>8 DEF Claims
  <2> QED
    BY <1>4, <1>8, <2>1 DEF Claims, Backed
<1>9. CASE Starts(w)
  BY <1>3, <1>9 DEF Starts, Zero, Backed
<1>10. ASSUME NEW p \in Products, NEW q \in Nat, Moves(w, p, q)
       PROVE  Backed(w)'
  <2>1. OnShelf(w, p)' >= OnShelf(w, p) /\ tx'[w].move[p] >= tx[w].move[p]
    <3>1. tx'[w].move[p] = tx[w].move[p] + q /\ tx[w].move[p] \in Int
      BY <1>1, <1>10 DEF Moves, Moved
    <3>2. OnShelf(w, p)' = OnShelf(w, p) + q /\ OnShelf(w, p) \in Int
      BY <1>6, <1>10 DEF Moves
    <3> QED
      BY <3>1, <3>2
  <2> QED
    BY <1>4, <1>5, <1>10, <2>1 DEF Moves
<1>11. ASSUME NEW p \in Products, NEW q \in Nat, Moves(w, p, -q),
              FreeUnits(w, p) >= q
       PROVE  Backed(w)'
  <2> DEFINE rs == Holds(p) \ Taken(w)
             u == UnitsIn(res, rs)
             n == OnShelf(w, p)
  <2>1. Counted(res, rs)
    BY <1>1, HoldsCounted DEF Counted
  <2>2. Holds(p)' \ Taken(w)' = rs
    BY <1>2, <1>11 DEF Moves
  <2>3. UnitsIn(res', rs) = u
    BY DEF UnitsIn
  <2>4. n - u >= q
    BY <1>11, UnitsAre DEF FreeUnits, Taken
  <2>5. OnShelf(w, p)' = n + -q /\ n \in Int
    BY <1>6, <1>11 DEF Moves
  <2> HIDE DEF rs
  <2>6. u \in Int
    BY <2>1, FewerUnits
  <2> HIDE DEF u, n
  <2>7. u <= n + -q
    BY <2>4, <2>5, <2>6
  <2>8. UnitsIn(res', Holds(p)' \ Taken(w)') <= OnShelf(w, p)'
    BY <2>2, <2>3, <2>5, <2>7
  <2> QED
    BY <1>5, <1>11, <2>8 DEF Moves
<1>12. ASSUME NEW r \in Reservations, NEW p \in Products, Sells(w, r, p)
       PROVE  Backed(w)'
  <2> DEFINE rs == Holds(p) \ Taken(w)
             u == UnitsIn(res, rs \ {r})
             n == OnShelf(w, p)
             k == res[r].quantity
  <2>1. /\ res[r] \in Reservation /\ res[r].left >= 0 /\ res[r].left \in Int
        /\ k \in Nat /\ -k \in Int
    BY <1>1, <1>12, StockConstants
       DEF Sells, Open, Exists, StockTypeOK, IsExpired, Reservation, Quantities
  <2>2. r \in rs
    <3>1. ASSUME res[r].left = 0
          PROVE  FALSE
      <4>1. PICK i \in Nat : res[r].left = TTL - i * Grain
        BY <1>12, <3>1 DEF Clocked, Sells, Open
      <4> DEFINE g == i * Grain
      <4>2. g \in Int /\ TTL \in Int /\ 0 = TTL - g
        BY <3>1, <4>1, StockConstants
      <4>3. TTL # g
        OBVIOUS
      <4> HIDE DEF g
      <4> QED
        BY <4>2, <4>3
    <3>2. r \notin Taken(w)
      BY <1>12 DEF Backing, Sells
    <3> QED
      BY <1>12, <2>1, <3>1, <3>2 DEF Sells, Holds, Active
  <2>3. Counted(res, rs)
    BY <1>1, HoldsCounted DEF Counted
  <2>4. Holds(p)' \ Taken(w)' = rs \ {r}
    BY <1>2, <1>12 DEF Sells
  <2>5. UnitsIn(res', rs \ {r}) = u
    BY DEF UnitsIn
  <2>6. UnitsIn(res, rs) <= n
    BY DEF Backing, Backed
  <2>7. OnShelf(w, p)' = n + -k /\ n \in Int
    BY <1>6, <1>12, <2>1 DEF Sells
  <2> HIDE DEF rs
  <2>8. UnitsIn(res, rs) = k + u /\ u \in Int
    BY <2>2, <2>3, UnitsApart
  <2> HIDE DEF u, n, k
  <2>9. u <= n + -k
    BY <2>1, <2>6, <2>7, <2>8
  <2>10. UnitsIn(res', Holds(p)' \ Taken(w)') <= OnShelf(w, p)'
    BY <2>4, <2>5, <2>7, <2>9
  <2> QED
    BY <1>5, <1>12, <2>1, <2>10 DEF Sells, k
<1> QED
  BY <1>7, <1>8, <1>9, <1>10, <1>11, <1>12, OwnMoves

\* What the shelf and each thread need after a step.
LEMMA BackingIs ==
  ASSUME CInv', \A p \in Products : UnitsIn(res', Holds(p)') <= stock'[p],
         \A v \in Workers : \/ Idles(v)
                            \/ Backed(v)' /\ tx'[v].snap \cap Taken(v)' = {}
  PROVE  Backing'
<1> SUFFICES ASSUME NEW v \in Workers, Idles(v)
             PROVE  Backed(v)' /\ tx'[v].snap \cap Taken(v)' = {}
  BY DEF Backing
<1>1. tx'[v].move = Zero /\ Taken(v)' = {}
  BY DEF CInv, ThreadInv, Shape, Idles, Taken
<1>2. \A p \in Products : tx'[v].move[p] = 0
  BY <1>1 DEF Zero
<1>3. Backed(v)'
  BY <1>2, NothingMoved DEF Backed
<1> QED
  BY <1>1, <1>3

\* A thread another one's step leaves alone.
LEMMA BackedElsewhere ==
  ASSUME CInv, CInv', Backing, NEW v \in Workers, tx'[v] = tx[v],
         \A p \in Products : \/ Shrinks(p) /\ stock'[p] >= stock[p]
                             \/ tx[v].move[p] = 0 /\ UnitsIn(res', Holds(p)') <= stock'[p]
  PROVE  Backed(v)' /\ tx'[v].snap \cap Taken(v)' = {}
<1>1. Taken(v)' = Taken(v) /\ Backed(v) /\ tx'[v].snap \cap Taken(v)' = {}
  BY DEF Taken, Backing
<1>2. ASSUME NEW p \in Products, Shrinks(p), stock'[p] >= stock[p]
      PROVE  UnitsIn(res', Holds(p)' \ Taken(v)') <= OnShelf(v, p)'
  <2>1. stock[p] \in Nat /\ stock'[p] \in Nat /\ tx[v].move[p] \in Int
    BY DEF CInv, TypeOK, StockTypeOK, Transaction
  <2>2. OnShelf(v, p)' >= OnShelf(v, p)
    BY <1>2, <2>1 DEF OnShelf
  <2> QED
    BY <1>1, <1>2, <2>2, BackedKept
<1>3. ASSUME NEW p \in Products, tx[v].move[p] = 0, UnitsIn(res', Holds(p)') <= stock'[p]
      PROVE  UnitsIn(res', Holds(p)' \ Taken(v)') <= OnShelf(v, p)'
  BY <1>3, NothingMoved
<1> QED
  BY <1>1, <1>2, <1>3 DEF Backed

\* Steps that move no stock off the shelf and reserve nothing.
LEMMA BackingShrinks ==
  ASSUME CInv, CInv', Backing,
         \A p \in Products : Shrinks(p) /\ stock'[p] >= stock[p],
         \A v \in Workers : \/ Idles(v) \/ tx'[v] = tx[v]
                            \/ Backed(v)' /\ tx'[v].snap \cap Taken(v)' = {}
  PROVE  Backing'
<1>1. \A p \in Products : UnitsIn(res', Holds(p)') <= stock'[p]
  BY ShelfCovers
<1>2. \A v \in Workers : \/ Idles(v)
                         \/ Backed(v)' /\ tx'[v].snap \cap Taken(v)' = {}
  BY BackedElsewhere
<1> QED
  BY <1>1, <1>2, BackingIs

\* What a thread sees on the shelf covers the holds it has not taken.
LEMMA CommitCovers ==
  ASSUME CInv, CInv', Backing, NEW w \in Workers, NEW p \in Products,
         stock'[p] = OnShelf(w, p),
         \A r \in Holds(p)' :
           r \in Holds(p) \ Taken(w) /\ res'[r].quantity = res[r].quantity
  PROVE  UnitsIn(res', Holds(p)') <= stock'[p]
<1>1. TypeOK /\ StockTypeOK
  BY DEF CInv, TypeOK
<1> DEFINE taken == Taken(w)
           n == OnShelf(w, p)
           m == stock'[p]
           rs == Holds(p)'
<1>2. n \in Int /\ m \in Int /\ n <= m
  BY <1>1, ShelfTyped
<1>3. UnitsIn(res, Holds(p) \ taken) <= n
  BY DEF Backing, Backed
<1>4. rs \in SUBSET (Holds(p) \ taken) /\ \A r \in rs : res'[r].quantity = res[r].quantity
  OBVIOUS
<1> HIDE DEF taken, n, m, rs
<1>5. UnitsIn(res', rs) <= m
  BY <1>1, <1>2, <1>3, <1>4, StillCovered
<1> QED
  BY <1>5 DEF rs, m

\* A commit: the shelf becomes what the thread saw, and the holds it took close.
LEMMA BackingCommits ==
  ASSUME CInv, CInv', Backing, NEW w \in Workers, tx'[w] = Idle,
         \A v \in Workers \ {w} : tx'[v] = tx[v],
         \A p \in Products : stock'[p] = OnShelf(w, p),
         \A p \in Products : \A r \in Holds(p)' :
           r \in Holds(p) \ Taken(w) /\ res'[r].quantity = res[r].quantity
  PROVE  Backing'
<1>1. TypeOK /\ StockTypeOK
  BY DEF CInv, TypeOK
<1>2. ASSUME NEW p \in Products
      PROVE  UnitsIn(res', Holds(p)') <= stock'[p]
  BY <1>2, CommitCovers
<1>3. Idles(w)
  BY DEF Idles, Idle
<1>4. ASSUME NEW v \in Workers \ {w}
      PROVE  Backed(v)' /\ tx'[v].snap \cap Taken(v)' = {}
  <2>1. ASSUME NEW p \in Products, tx[v].move[p] # 0
        PROVE  Shrinks(p) /\ stock'[p] >= stock[p]
    <3>1. tx[w].move[p] = 0
      BY <2>1 DEF CInv, ThreadInv, OwnsStock
    <3>2. OnShelf(w, p) = stock[p] /\ stock[p] \in Int
      BY <1>1, <3>1 DEF StockTypeOK, OnShelf
    <3> QED
      BY <3>2 DEF Shrinks
  <2> QED
    BY <1>2, <2>1, BackedElsewhere
<1> QED
  BY <1>2, <1>3, <1>4, BackingIs

\* A reservation finds its units free, and no thread has moved that product.
LEMMA BackingReserves ==
  ASSUME CInv, CInv', Backing, NEW w \in Workers, NEW p \in Products, ReserveLine(w, p)
  PROVE  Backing'
<1>1. TypeOK /\ StockTypeOK /\ tx[w] \in Transaction /\ tx[w].cart \in Sessions
  BY DEF CInv, TypeOK, ThreadInv, Shape, ReserveLine
<1>2. tx[w].owed[p] \in Quantities
  BY <1>1, StockConstants DEF ReserveLine, Quantities, Transaction, Basket
<1>3. (CHOOSE r \in Reservations : ~Exists(r)) \in Reservations
  BY DEF ReserveLine, Unused
<1>4. PICK r \in Reservations : ReserveStock(r, p, tx[w].owed[p], tx[w].cart)
  BY <1>3 DEF ReserveLine
<1>5. /\ \A x \in Products \ {p} : Holds(x)' = Holds(x)
      /\ \A x \in Reservations \ {r} : res'[x] = res[x]
      /\ UnitsIn(res', Holds(p)') <= stock[p]
      /\ stock' = stock /\ r \notin UNION {Holds(x) : x \in Products}
  <2>1. stock' = stock /\ ~Exists(r)
    BY <1>4 DEF ReserveStock
  <2>2. \A x : r \notin Holds(x)
    BY <2>1 DEF Holds, Active, Open
  <2> QED
    BY <1>1, <1>2, <1>4, <2>1, <2>2, ReserveHolds
<1>6. ASSUME NEW x \in Products \ {p}
      PROVE  Shrinks(x) /\ stock'[x] >= stock[x]
  <2>1. Shrinks(x)
    BY <1>5 DEF Shrinks, Holds
  <2> QED
    BY <1>1, <1>5, <2>1 DEF StockTypeOK
<1>7. \A x \in Products : UnitsIn(res', Holds(x)') <= stock'[x]
  BY <1>5, <1>6, ShelfCovers
<1>8. Idles(w)
  <2> DEFINE t == [tx[w] EXCEPT !.owed = Owes(w, p, 0),
                     !.snap = tx[w].snap \cup {CHOOSE x \in Reservations : ~Exists(x)}]
  <2>1. tx' = [tx EXCEPT ![w] = t] /\ tx[w].pc \in {"reserving", "failing"}
    BY DEF ReserveLine
  <2>2. t.pc = tx[w].pc
    BY <1>1 DEF Transaction
  <2> HIDE DEF t
  <2> QED
    BY <1>1, <2>1, <2>2, Writes DEF Idles
<1>9. ASSUME NEW v \in Workers \ {w}
      PROVE  Backed(v)' /\ tx'[v].snap \cap Taken(v)' = {}
  <2>1. tx'[v] = tx[v]
    BY Elsewhere DEF Step
  <2>2. tx[v].move[p] = 0
    BY CheckoutConstants DEF CInv, ThreadInv, OwnsStock, ReserveLine, Free
  <2> QED
    BY <1>6, <1>7, <2>1, <2>2, BackedElsewhere
<1> QED
  BY <1>7, <1>8, <1>9, BackingIs

\* Every step keeps the holds backed.
LEMMA BackingStep ==
  ASSUME CInv, CInv', Clocked, \A k \in Nat : TTL # k * Grain, Backing, [Next]_vars
  PROVE  Backing'
<1>1. TypeOK /\ StockTypeOK /\ \A p \in Products : stock[p] \in Int
  BY DEF CInv, TypeOK, StockTypeOK
<1>2. ASSUME \/ \E x \in Reservations : ReleaseReservation(x)
             \/ CleanupRead \/ CleanupWrite \/ Tick \/ UNCHANGED res
      PROVE  \A p \in Products : Shrinks(p)
  BY <1>1, <1>2, HoldsShrink DEF Shrinks, Holds
<1>3. ASSUME \A p \in Products : Shrinks(p), \A p \in Products : stock'[p] >= stock[p],
             UNCHANGED tx
      PROVE  Backing'
  BY <1>3, BackingShrinks
<1>4. ASSUME UNCHANGED stock
      PROVE  \A p \in Products : stock'[p] >= stock[p]
  BY <1>1, <1>4
<1>5. ASSUME NEW w \in Workers, Step(w) \/ Request(w), UNCHANGED <<stock, res>>
      PROVE  Backing'
  <2>1. Backed(w)' /\ tx'[w].snap \cap Taken(w)' = {}
    BY <1>5, ApartOwn, BackedOwn DEF Backing
  <2>2. \A v \in Workers \ {w} : tx'[v] = tx[v]
    BY <1>5, Elsewhere
  <2>3. \A p \in Products : Shrinks(p) /\ stock'[p] >= stock[p]
    BY <1>2, <1>4, <1>5
  <2> QED
    BY <2>1, <2>2, <2>3, BackingShrinks
<1>6. ASSUME NEW w \in Workers, NEW r \in Reservations, UndoLine(w, r)
      PROVE  Backing'
  <2>1. tx' = [tx EXCEPT ![w] = [tx[w] EXCEPT !.snap = tx[w].snap \ {r}]]
        /\ tx[w].pc = "failing" /\ UNCHANGED stock
    BY <1>6 DEF UndoLine, ReleaseReservation, stockVars
  <2>2. Idles(w)
    <3> DEFINE t == [tx[w] EXCEPT !.snap = tx[w].snap \ {r}]
    <3>1. t.pc = "failing"
      BY <1>1, <2>1 DEF TypeOK, Transaction
    <3> HIDE DEF t
    <3> QED
      BY <1>1, <2>1, <3>1, Writes DEF Idles, t
  <2>3. \A v \in Workers \ {w} : tx'[v] = tx[v]
    BY <1>6, Elsewhere DEF Step
  <2>4. \A p \in Products : Shrinks(p)
    BY <1>2, <1>6 DEF UndoLine, stockVars
  <2> QED
    BY <1>4, <2>1, <2>2, <2>3, <2>4, BackingShrinks
<1>7. ASSUME NEW w \in Workers, NEW p \in Products, ReserveLine(w, p)
      PROVE  Backing'
  BY <1>7, BackingReserves
<1>8. ASSUME NEW w \in Workers, NEW keep \in KeepModes, CommitCheckout(w, keep)
      PROVE  Backing'
  <2>1. tx'[w] = Idle /\ \A v \in Workers \ {w} : tx'[v] = tx[v]
    BY <1>1, <1>8 DEF CommitCheckout, Finish, TypeOK
  <2>2. \A p \in Products : stock'[p] = OnShelf(w, p)
    BY <1>8 DEF CommitCheckout, OnShelf
  <2>3. ASSUME NEW p \in Products, NEW r \in Holds(p)'
        PROVE  r \in Holds(p) \ Taken(w) /\ res'[r].quantity = res[r].quantity
    <3>1. r \in Reservations /\ Active(r)' /\ res'[r].product = p
      BY DEF Holds
    <3>2. r \notin Taken(w)
      <4>1. ASSUME r \in Taken(w)
            PROVE  FALSE
        <5>1. res[r] \in Reservation
          BY <1>1, <3>1, <4>1, ClaimedRows DEF Taken, StockTypeOK, Exists
        <5>2. \/ res'[r] = [res[r] EXCEPT !.consumed = TRUE, !.order = tx[w].order]
              \/ res'[r] = [res[r] EXCEPT !.consumed = TRUE]
          BY <1>8, <3>1, <4>1 DEF CommitCheckout, Taken
        <5>3. res'[r].consumed
          BY <5>1, <5>2 DEF Reservation
        <5> QED
          BY <3>1, <5>3 DEF Active, Open
      <4> QED
        BY <4>1
    <3>3. res'[r] = res[r]
      BY <1>8, <3>1, <3>2 DEF CommitCheckout, Taken
    <3> QED
      BY <3>1, <3>2, <3>3 DEF Holds, Active, Open, Exists
  <2> QED
    BY <2>1, <2>2, <2>3, BackingCommits
<1>9. ASSUME NEW w \in Workers, CommitCancel(w)
      PROVE  Backing'
  <2>1. tx'[w] = Idle /\ \A v \in Workers \ {w} : tx'[v] = tx[v]
    BY <1>1, <1>9 DEF CommitCancel, Finish, TypeOK
  <2>2. \A p \in Products : stock'[p] = OnShelf(w, p)
    BY <1>9 DEF CommitCancel, OnShelf
  <2>3. Taken(w) = {}
    BY <1>9 DEF CInv, ThreadInv, Shape, CommitCancel, Taken
  <2>4. \A p \in Products : Holds(p)' = Holds(p)
    BY <1>9 DEF CommitCancel, Holds, Active, Open, Exists
  <2>5. res' = res
    BY <1>9 DEF CommitCancel
  <2> QED
    BY <2>1, <2>2, <2>3, <2>4, <2>5, BackingCommits
<1>10. CASE Shopper
  <2>1. ASSUME NEW r \in Reservations, ClientRelease(r)
        PROVE  Backing'
    BY <1>2, <1>3, <1>4, <2>1 DEF ClientRelease, ReleaseReservation
  <2> QED
    BY <1>2, <1>3, <1>4, <1>10, <2>1 DEF Shopper, EditBegin, EditWrite
<1>11. CASE Merchant
  <2>1. ASSUME NEW o \in Orders, Deliver(o)
        PROVE  Backing'
    BY <1>2, <1>3, <1>4, <2>1 DEF Deliver
  <2>2. ASSUME NEW o \in Orders, NEW p \in Products, NEW q \in Quantities,
               RefundItem(o, p, q)
        PROVE  Backing'
    <3>1. UNCHANGED <<res, tx>> /\ q \in Nat /\ stock' = [stock EXCEPT ![p] = stock[p] + q]
      BY <2>2, StockConstants DEF RefundItem, IncrementStock, Move, Quantities
    <3>2. \A x \in Products : stock'[x] >= stock[x]
      BY <1>1, <3>1 DEF StockTypeOK
    <3> QED
      BY <1>2, <1>3, <3>1, <3>2
  <2> QED
    BY <1>11, <2>1, <2>2 DEF Merchant
<1>12. CASE SweepStep \/ TickStep
  BY <1>2, <1>3, <1>4, <1>12 DEF SweepStep, TickStep, CleanupRead, CleanupWrite, Tick
<1>13. CASE UNCHANGED vars
  BY <1>2, <1>3, <1>4, <1>13 DEF vars
<1>14. ASSUME NEW w \in Workers, Step(w) \/ Request(w)
       PROVE  Backing'
  <2>1. \/ UNCHANGED <<stock, res>>
        \/ \E p \in Products : ReserveLine(w, p)
        \/ \E r \in Reservations : UndoLine(w, r)
        \/ \E keep \in KeepModes : CommitCheckout(w, keep)
        \/ CommitCancel(w)
    BY <1>14
       DEF Step, Request, dbVars, LineRefused, ReserveAnswered, ReadHolds, PickLine,
           LockLine, PlaceItems, NextProduct, FreeHold, PickHold, ConvertHold,
           ConvertRaises, TakeShortfall, ShortfallRaises, RestockItem, CheckoutVictim,
           CancelVictim, BeginReserve, BeginCheckout, BeginCancel
  <2> QED
    BY <1>5, <1>6, <1>7, <1>8, <1>9, <1>14, <2>1
<1> QED
  BY <1>10, <1>11, <1>12, <1>13, <1>14 DEF Next

LEMMA BackingInit == Init => Clocked /\ Backing
<1> SUFFICES ASSUME Init
             PROVE  Clocked /\ Backing
  OBVIOUS
<1>1. \A r \in Reservations : ~Exists(r)
  BY DEF Init, StockInit, Exists
<1>2. \A p \in Products : Holds(p) = {}
  BY <1>1 DEF Holds, Active, Open
<1>3. \A p \in Products : UnitsIn(res, {}) <= stock[p] /\ stock[p] + 0 = stock[p]
  <2>1. Counted(res, {})
    BY DEF Counted
  <2>2. UnitsIn(res, {}) = 0
    BY SumEmpty DEF UnitsIn, SumFunction
  <2> QED
    BY <2>2, StockConstants DEF Init, StockInit
<1>4. \A w \in Workers : /\ tx[w].snap = {} /\ Taken(w) = {}
                         /\ \A p \in Products : OnShelf(w, p) = stock[p]
  BY <1>3 DEF Init, Idle, Taken, OnShelf, Zero
<1>5. \A p \in Products : Holds(p) \ {} = {}
  BY <1>2
<1> QED
  BY <1>1, <1>2, <1>3, <1>4, <1>5 DEF Clocked, Backing, Backed

\* StockManager's promise, on the database the threads share: while the clock
\* does not stop at the very instant expires_at, the units of the active holds
\* of every product are on its shelf, whatever reservations, checkouts,
\* cancellations, refunds and sweeps interleave (runs checkout_one and
\* checkout_two).
THEOREM CheckoutHoldsBacked ==
  ASSUME \A k \in Nat : TTL # k * Grain
  PROVE  Spec => []HoldsBacked
<1>1. Init => Clocked /\ Backing
  BY BackingInit
<1>2. CInv /\ CInv' /\ Clocked /\ Backing /\ [Next]_vars => Clocked' /\ Backing'
  BY ClockedStep, BackingStep
<1>3. Backing => HoldsBacked
  BY UnitsAre DEF Backing, HoldsBacked
<1> QED
  BY <1>1, <1>2, <1>3, CInvAlways, PTL DEF Spec

-----------------------------------------------------------------------------
(***************************************************************************)
(* Storefront, for any carts, requests, keys and orders.                   *)
(*                                                                         *)
(* What may be counted twice is a line that a merge has read: it stays as  *)
(* it was read while the merge has its row locked (Merging), and no two    *)
(* merges have a row (Exclusive).  What may be ordered twice is a key: an  *)
(* open entry, a request at work and an order made of it are one right to  *)
(* an order, and each lapse or failed hook gives one more (Entitled).      *)
(***************************************************************************)
TabRow ==
  [at : {"idle", "add", "merge", "merging", "handling", "placed", "answering"},
   cart : Sessions \cup {None}, into : Sessions \cup {None},
   key : Keys \cup {None}, order : Orders \cup {None},
   qty : Amount, saw : Amount]

\* What the carts hold of a product, and what the orders that took it sold.
Put(l, p) == SumFunctionOnSet([s \in Sessions |-> l[s][p]], Sessions)
SoldBy(sale, p) == IF sale = None \/ sale.hosted THEN 0 ELSE sale.qty[p]
Sold(m, p) == SumFunctionOnSet([o \in Orders |-> SoldBy(m[o], p)], Orders)

LEMMA SoldTwice ==
  /\ NothingSoldTwice <=> \A p \in Products : Put(line, p) + Sold(made, p) <= asked[p]
  /\ NothingSoldTwice' <=> \A p \in Products : Put(line', p) + Sold(made', p) <= asked'[p]
  BY DEF NothingSoldTwice, Put, Sold, SoldBy, SumFunction

Loose(l) == l \in [Sessions -> [Products -> Nat]]

LEMMA PutIs ==
  ASSUME NEW l, Loose(l), NEW p \in Products
  PROVE  /\ Put(l, p) \in Nat
         /\ \A s \in Sessions : l[s][p] <= Put(l, p)
<1> DEFINE f == [s \in Sessions |-> l[s][p]]
<1>1. \A s \in Sessions : f[s] \in Int /\ 0 <= f[s] /\ f[s] = l[s][p]
  BY DEF Loose
<1>2. IsFiniteSet(Sessions)
  BY StorefrontConstants
<1> HIDE DEF f
<1>3. SumFunctionOnSet(f, Sessions) \in Int /\ 0 <= SumFunctionOnSet(f, Sessions)
  BY <1>1, <1>2, SumIsInt, SumNotNegative
<1>4. ASSUME NEW s \in Sessions
      PROVE  f[s] <= SumFunctionOnSet(f, Sessions)
  <2>1. IsFiniteSet(Sessions \ {s})
    BY <1>2, FS_RemoveElement
  <2>2. SumFunctionOnSet(f, Sessions) = f[s] + SumFunctionOnSet(f, Sessions \ {s})
    BY <1>1, <1>2, SumApart
  <2>3. /\ SumFunctionOnSet(f, Sessions \ {s}) \in Int
        /\ 0 <= SumFunctionOnSet(f, Sessions \ {s})
    BY <1>1, <2>1, SumIsInt, SumNotNegative
  <2> QED
    BY <1>1, <2>2, <2>3
<1>5. Put(l, p) = SumFunctionOnSet(f, Sessions)
  BY DEF Put, f
<1> QED
  BY <1>1, <1>3, <1>4, <1>5

LEMMA PutLess ==
  ASSUME NEW l, NEW m, Loose(l), Loose(m), NEW p \in Products,
         \A s \in Sessions : m[s][p] <= l[s][p]
  PROVE  Put(m, p) <= Put(l, p)
<1> DEFINE f == [s \in Sessions |-> l[s][p]]
           g == [s \in Sessions |-> m[s][p]]
<1>1. \A s \in Sessions : /\ f[s] \in Int /\ g[s] \in Int /\ g[s] <= f[s]
  BY DEF Loose
<1>2. IsFiniteSet(Sessions)
  BY StorefrontConstants
<1> HIDE DEF f, g
<1>3. SumFunctionOnSet(g, Sessions) <= SumFunctionOnSet(f, Sessions)
  BY <1>1, <1>2, SumGrows
<1> QED
  BY <1>3 DEF Put, f, g

LEMMA PutAt ==
  ASSUME NEW l, NEW m, Loose(l), Loose(m), NEW p \in Products, NEW x \in Sessions,
         \A s \in Sessions \ {x} : m[s][p] = l[s][p]
  PROVE  Put(m, p) = Put(l, p) - l[x][p] + m[x][p]
<1> DEFINE f == [s \in Sessions |-> l[s][p]]
           g == [s \in Sessions |-> m[s][p]]
<1>1. \A s \in Sessions : f[s] \in Int /\ g[s] \in Int
  BY DEF Loose
<1>2. \A s \in Sessions \ {x} : f[s] = g[s]
  OBVIOUS
<1>3. f[x] = l[x][p] /\ g[x] = m[x][p]
  OBVIOUS
<1>4. IsFiniteSet(Sessions)
  BY StorefrontConstants
<1> HIDE DEF f, g
<1>5. SumFunctionOnSet(g, Sessions) = SumFunctionOnSet(f, Sessions) - f[x] + g[x]
  BY ONLY <1>1, <1>2, <1>4, x \in Sessions, SumChanges
<1> QED
  BY <1>3, <1>5 DEF Put, f, g

\* A guest cart's line that goes over to another cart.
LEMMA PutMoves ==
  ASSUME NEW l, NEW m, Loose(l), Loose(m), NEW p \in Products,
         NEW g \in Sessions, NEW u \in Sessions, g # u,
         m[g][p] + m[u][p] <= l[g][p] + l[u][p],
         \A s \in Sessions \ {g, u} : m[s][p] = l[s][p]
  PROVE  Put(m, p) <= Put(l, p)
<1> DEFINE n == [l EXCEPT ![g] = m[g]]
<1>1. Loose(n) /\ n[g] = m[g] /\ \A s \in Sessions \ {g} : n[s] = l[s]
  BY DEF Loose
<1> HIDE DEF n
<1>2. Put(n, p) = Put(l, p) - l[g][p] + n[g][p]
  BY <1>1, PutAt
<1>3. Put(m, p) = Put(n, p) - n[u][p] + m[u][p]
  BY <1>1, PutAt
<1>4. /\ Put(l, p) \in Nat /\ Put(n, p) \in Nat /\ Put(m, p) \in Nat
      /\ l[g][p] \in Nat /\ m[g][p] \in Nat /\ l[u][p] \in Nat /\ m[u][p] \in Nat
      /\ n[g][p] = m[g][p] /\ n[u][p] = l[u][p]
  BY <1>1, PutIs DEF Loose
<1> QED
  BY <1>2, <1>3, <1>4

OrderRows(m) == m \in [Orders -> {None} \cup Sale]

LEMMA SoldIs ==
  ASSUME NEW m, OrderRows(m), NEW p \in Products
  PROVE  /\ \A o \in Orders : SoldBy(m[o], p) \in Nat
         /\ Sold(m, p) \in Nat
<1> DEFINE f == [o \in Orders |-> SoldBy(m[o], p)]
<1>1. \A o \in Orders : SoldBy(m[o], p) \in Nat
  BY StorefrontConstants DEF OrderRows, SoldBy, Sale, Amount
<1>2. \A o \in Orders : f[o] \in Int /\ 0 <= f[o]
  BY <1>1
<1>3. IsFiniteSet(Orders)
  BY StorefrontConstants
<1> HIDE DEF f
<1>4. SumFunctionOnSet(f, Orders) \in Int /\ 0 <= SumFunctionOnSet(f, Orders)
  BY <1>2, <1>3, SumIsInt, SumNotNegative
<1> QED
  BY <1>1, <1>4 DEF Sold, f

LEMMA SoldAt ==
  ASSUME NEW m, NEW n, OrderRows(m), OrderRows(n), NEW p \in Products, NEW x \in Orders,
         \A o \in Orders \ {x} : SoldBy(n[o], p) = SoldBy(m[o], p)
  PROVE  Sold(n, p) = Sold(m, p) - SoldBy(m[x], p) + SoldBy(n[x], p)
<1> DEFINE f == [o \in Orders |-> SoldBy(m[o], p)]
           g == [o \in Orders |-> SoldBy(n[o], p)]
<1>1. \A o \in Orders : f[o] \in Int /\ g[o] \in Int
  BY SoldIs
<1>2. \A o \in Orders \ {x} : f[o] = g[o]
  OBVIOUS
<1>3. f[x] = SoldBy(m[x], p) /\ g[x] = SoldBy(n[x], p)
  OBVIOUS
<1>4. IsFiniteSet(Orders)
  BY StorefrontConstants
<1> HIDE DEF f, g
<1>5. SumFunctionOnSet(g, Orders) = SumFunctionOnSet(f, Orders) - f[x] + g[x]
  BY ONLY <1>1, <1>2, <1>4, x \in Orders, SumChanges
<1> QED
  BY <1>3, <1>5 DEF Sold, f, g

Handlers(k) == {t \in Tabs : tab[t].at = "handling" /\ tab[t].key = k}
Ordered(k) == {o \in Orders : made[o] # None /\ made[o].key = k}
Opened(k) == IF cache[k] = "free" THEN 1 ELSE 0
Unmade == {o \in Orders : made[o] = None}

CartsOk ==
  /\ used \subseteq Sessions /\ live \subseteq used
  /\ Cardinality(live \cap Accounts) <= 1
  /\ Loose(line) /\ \A s \in Sessions \ live : line[s] = Empty

RestOk ==
  /\ OrderRows(made) /\ cache \in [Keys -> {"free", "flight", "answered"}]
  /\ tab \in [Tabs -> TabRow] /\ asked \in Amount
  /\ slips \in [Keys -> Nat] /\ faults \in 0 .. MaxFaults

\* A request that works on a key knows it, and one that merges has a guest's
\* cart and a user's.
Proper(x) ==
  /\ x.at \in {"handling", "placed", "answering"} <=> x.key # None
  /\ x.at \in {"merge", "merging"} => x.cart \in Guests /\ x.into \in Accounts

Merging ==
  \A t \in Tabs, p \in Products :
    (tab[t].at = "merging" /\ tab[t].qty[p] > 0) =>
      /\ line[tab[t].cart][p] = tab[t].qty[p]
      /\ tab[t].saw[p] > 0 => line[tab[t].into][p] = tab[t].saw[p]

Exclusive ==
  \A t, v \in Tabs, s \in Sessions, p \in Products :
    (Locks(t, s, p) /\ Locks(v, s, p)) => t = v

Room == Cardinality(Handling) <= Cardinality(Unmade)

Entitled ==
  \A k \in Keys :
    Cardinality(Ordered(k)) + Cardinality(Handlers(k)) + Opened(k) <= 1 + slips[k]

SInv ==
  /\ StockTypeOK /\ CartsOk /\ RestOk /\ NothingSoldTwice
  /\ \A t \in Tabs : Proper(tab[t])
  /\ Merging /\ Exclusive /\ Room /\ Entitled

LEMMA SInvSound == SInv => StoreIsSound /\ KeyedOnce
<1> SUFFICES ASSUME SInv PROVE StoreIsSound /\ KeyedOnce
  OBVIOUS
<1>1. line \in [Sessions -> Amount]
  <2>1. ASSUME NEW s \in Sessions, NEW p \in Products
        PROVE  line[s][p] \in 0 .. MaxAsked
    <3>1. /\ line[s][p] \in Nat /\ line[s][p] <= Put(line, p)
          /\ Put(line, p) \in Nat /\ Sold(made, p) \in Nat
      BY PutIs, SoldIs DEF SInv, CartsOk, RestOk, Loose
    <3>2. Put(line, p) + Sold(made, p) <= asked[p] /\ asked[p] \in 0 .. MaxAsked
      BY SoldTwice DEF SInv, RestOk, Amount
    <3> QED
      BY <3>1, <3>2, StorefrontConstants
  <2>2. line \in [Sessions -> [Products -> Nat]]
    BY DEF SInv, CartsOk, Loose
  <2> QED
    BY <2>1, <2>2 DEF Amount
<1>2. StoreTypeOK
  BY <1>1 DEF SInv, CartsOk, RestOk, OrderRows, Sale, TabRow, StoreTypeOK
<1>3. ASSUME NEW k \in Keys
      PROVE  Cardinality(Ordered(k)) <= 1 + slips[k]
  <2>1. IsFiniteSet(Orders) /\ IsFiniteSet(Tabs)
    BY StorefrontConstants
  <2>2. /\ Ordered(k) \subseteq Orders /\ Handlers(k) \subseteq Tabs
    BY DEF Ordered, Handlers
  <2>3. IsFiniteSet(Ordered(k)) /\ IsFiniteSet(Handlers(k))
    BY <2>1, <2>2, FS_Subset
  <2>4. Cardinality(Ordered(k)) \in Nat /\ Cardinality(Handlers(k)) \in Nat
    BY <2>3, FS_CardinalityType
  <2>5. Opened(k) \in {0, 1} /\ slips[k] \in Nat
    BY DEF Opened, SInv, RestOk
  <2> QED
    BY <2>4, <2>5 DEF SInv, Entitled
<1> QED
  BY <1>2, <1>3 DEF SInv, StoreIsSound, KeyedOnce, Ordered

-----------------------------------------------------------------------------
\* The sets that are counted are finite, and lose or get one element.
LEMMA Counts ==
  /\ IsFiniteSet(Handling) /\ IsFiniteSet(Unmade)
  /\ Cardinality(Handling) \in Nat /\ Cardinality(Unmade) \in Nat
  /\ \A k : /\ IsFiniteSet(Handlers(k)) /\ IsFiniteSet(Ordered(k))
            /\ Cardinality(Handlers(k)) \in Nat /\ Cardinality(Ordered(k)) \in Nat
<1>1. IsFiniteSet(Orders) /\ IsFiniteSet(Tabs)
  BY StorefrontConstants
<1>2. /\ Handling \subseteq Tabs /\ Unmade \subseteq Orders
      /\ \A k : Handlers(k) \subseteq Tabs /\ Ordered(k) \subseteq Orders
  BY DEF Handling, Unmade, Handlers, Ordered
<1>3. /\ IsFiniteSet(Handling) /\ IsFiniteSet(Unmade)
      /\ \A k : IsFiniteSet(Handlers(k)) /\ IsFiniteSet(Ordered(k))
  BY <1>1, <1>2, FS_Subset
<1> QED
  BY <1>3, FS_CardinalityType

LEMMA CountsNext ==
  /\ IsFiniteSet(Handling') /\ IsFiniteSet(Unmade')
  /\ Cardinality(Handling') \in Nat /\ Cardinality(Unmade') \in Nat
  /\ \A k : /\ IsFiniteSet(Handlers(k)') /\ IsFiniteSet(Ordered(k)')
            /\ Cardinality(Handlers(k)') \in Nat /\ Cardinality(Ordered(k)') \in Nat
<1>1. IsFiniteSet(Orders) /\ IsFiniteSet(Tabs)
  BY StorefrontConstants
<1>2. /\ Handling' \subseteq Tabs /\ Unmade' \subseteq Orders
      /\ \A k : Handlers(k)' \subseteq Tabs /\ Ordered(k)' \subseteq Orders
  BY DEF Handling, Unmade, Handlers, Ordered
<1>3. /\ IsFiniteSet(Handling') /\ IsFiniteSet(Unmade')
      /\ \A k : IsFiniteSet(Handlers(k)') /\ IsFiniteSet(Ordered(k)')
  BY <1>1, <1>2, FS_Subset
<1> QED
  BY <1>3, FS_CardinalityType

\* A request that does not start to handle a checkout; one that stops.
LEMMA NoNewHandler ==
  ASSUME NEW t \in Tabs, \A v \in Tabs \ {t} : tab'[v] = tab[v],
         tab'[t].at # "handling"
  PROVE  /\ Cardinality(Handling') <= Cardinality(Handling)
         /\ \A k : Cardinality(Handlers(k)') <= Cardinality(Handlers(k))
<1>1. Handling' \subseteq Handling /\ \A k : Handlers(k)' \subseteq Handlers(k)
  BY DEF Handling, Handlers
<1> QED
  BY <1>1, Counts, FS_Subset

LEMMA HandlerLess ==
  ASSUME NEW t \in Tabs, \A v \in Tabs \ {t} : tab'[v] = tab[v],
         tab[t].at = "handling", tab'[t].at # "handling",
         NEW k, tab[t].key = k
  PROVE  /\ Cardinality(Handling') = Cardinality(Handling) - 1
         /\ Cardinality(Handlers(k)') = Cardinality(Handlers(k)) - 1
         /\ \A j : Cardinality(Handlers(j)') <= Cardinality(Handlers(j))
<1>1. Handling' = Handling \ {t} /\ t \in Handling
  BY DEF Handling
<1>2. Handlers(k)' = Handlers(k) \ {t} /\ t \in Handlers(k)
  BY DEF Handlers
<1>3. \A j : Cardinality(Handlers(j)') <= Cardinality(Handlers(j))
  BY NoNewHandler
<1>4. IsFiniteSet(Handling) /\ IsFiniteSet(Handlers(k))
  BY Counts
<1>5. Cardinality(Handling \ {t}) = Cardinality(Handling) - 1
  BY ONLY <1>1, <1>4, FS_RemoveElement
<1>6. Cardinality(Handlers(k) \ {t}) = Cardinality(Handlers(k)) - 1
  BY ONLY <1>2, <1>4, FS_RemoveElement
<1> QED
  BY <1>1, <1>2, <1>3, <1>5, <1>6

LEMMA HandlerMore ==
  ASSUME NEW t \in Tabs, \A v \in Tabs \ {t} : tab'[v] = tab[v],
         tab[t].at # "handling", tab'[t].at = "handling", NEW k, tab'[t].key = k
  PROVE  /\ Cardinality(Handling') = Cardinality(Handling) + 1
         /\ Cardinality(Handlers(k)') = Cardinality(Handlers(k)) + 1
         /\ \A j : j # k => Handlers(j)' = Handlers(j)
<1>1. Handling' = Handling \cup {t} /\ t \notin Handling
  BY DEF Handling
<1>2. Handlers(k)' = Handlers(k) \cup {t} /\ t \notin Handlers(k)
  BY DEF Handlers
<1>3. \A j : j # k => Handlers(j)' = Handlers(j)
  BY DEF Handlers
<1>4. IsFiniteSet(Handling) /\ IsFiniteSet(Handlers(k))
  BY Counts
<1>5. Cardinality(Handling \cup {t}) = Cardinality(Handling) + 1
  BY ONLY <1>1, <1>4, FS_AddElement
<1>6. Cardinality(Handlers(k) \cup {t}) = Cardinality(Handlers(k)) + 1
  BY ONLY <1>2, <1>4, FS_AddElement
<1> QED
  BY <1>1, <1>2, <1>3, <1>5, <1>6

LEMMA OrderMore ==
  ASSUME NEW o \in Orders, made[o] = None, NEW row, row # None,
         \A x \in Orders : made'[x] = IF x = o THEN row ELSE made[x]
  PROVE  /\ Cardinality(Unmade') = Cardinality(Unmade) - 1
         /\ Cardinality(Ordered(row.key)') = Cardinality(Ordered(row.key)) + 1
         /\ \A k : k # row.key => Ordered(k)' = Ordered(k)
<1>1. Unmade' = Unmade \ {o} /\ o \in Unmade
  BY DEF Unmade
<1>2. Ordered(row.key)' = Ordered(row.key) \cup {o} /\ o \notin Ordered(row.key)
  BY DEF Ordered
<1>3. \A k : k # row.key => Ordered(k)' = Ordered(k)
  BY DEF Ordered
<1>4. IsFiniteSet(Unmade) /\ IsFiniteSet(Ordered(row.key))
  BY Counts
<1>5. Cardinality(Unmade \ {o}) = Cardinality(Unmade) - 1
  BY ONLY <1>1, <1>4, FS_RemoveElement
<1>6. Cardinality(Ordered(row.key) \cup {o}) = Cardinality(Ordered(row.key)) + 1
  BY ONLY <1>2, <1>4, FS_AddElement
<1> QED
  BY <1>1, <1>2, <1>3, <1>5, <1>6

-----------------------------------------------------------------------------
\* What a step leaves of the invariant, part by part.
LEMMA OneTab ==
  ASSUME SInv, NEW t \in Tabs, NEW x \in TabRow, tab' = [tab EXCEPT ![t] = x]
  PROVE  /\ tab' \in [Tabs -> TabRow]
         /\ tab'[t] = x /\ \A v \in Tabs \ {t} : tab'[v] = tab[v]
  BY DEF SInv, RestOk

LEMMA NoRequestIs ==
  /\ NoRequest \in TabRow /\ Proper(NoRequest)
  /\ NoRequest.at = "idle" /\ NoRequest.key = None
  BY StorefrontConstants DEF NoRequest, TabRow, Proper, Empty, Amount

\* Requests are proper if the one that went on is.
LEMMA AllProper ==
  ASSUME SInv, NEW t \in Tabs, \A v \in Tabs \ {t} : tab'[v] = tab[v],
         Proper(tab'[t])
  PROVE  (\A v \in Tabs : Proper(tab[v]))'
<1> SUFFICES ASSUME NEW v \in Tabs PROVE Proper(tab'[v])
  OBVIOUS
<1>1. CASE v = t
  BY <1>1
<1>2. CASE v # t
  BY <1>2 DEF SInv
<1> QED
  BY <1>1, <1>2

\* What a merge has locked is a line of a cart.
LEMMA LocksRows ==
  ASSUME SInv, NEW t \in Tabs, tab[t].at = "merging"
  PROVE  /\ tab[t].cart \in Guests /\ tab[t].into \in Accounts
         /\ tab[t].cart \in Sessions /\ tab[t].into \in Sessions
         /\ tab[t].cart # tab[t].into
         /\ tab[t].qty \in Amount /\ tab[t].saw \in Amount
         /\ \A p \in Products : tab[t].qty[p] \in Nat /\ tab[t].saw[p] \in Nat
<1>1. /\ Proper(tab[t]) /\ tab[t] \in TabRow
  BY DEF SInv, RestOk
<1>2. tab[t].cart \in Guests /\ tab[t].into \in Accounts
  BY <1>1 DEF Proper
<1>3. tab[t].qty \in Amount /\ tab[t].saw \in Amount
  BY <1>1 DEF TabRow
<1> QED
  BY <1>2, <1>3, StorefrontConstants DEF Amount

\* Merges keep what they have read and locked, if nobody writes there and none
\* begins.
LEMMA MergesKept ==
  ASSUME SInv, \A v \in Tabs : tab'[v].at = "merging" => tab'[v] = tab[v],
         \A v \in Tabs, s \in Sessions, p \in Products :
           (Locks(v, s, p) /\ tab'[v] = tab[v]) => line'[s][p] = line[s][p]
  PROVE  Merging' /\ Exclusive'
<1>1. Merging'
  <2> SUFFICES ASSUME NEW v \in Tabs, NEW p \in Products,
                      tab'[v].at = "merging", tab'[v].qty[p] > 0
               PROVE  /\ line'[tab'[v].cart][p] = tab'[v].qty[p]
                      /\ tab'[v].saw[p] > 0 => line'[tab'[v].into][p] = tab'[v].saw[p]
    BY DEF Merging
  <2>1. tab'[v] = tab[v] /\ tab[v].at = "merging" /\ tab[v].qty[p] > 0
    OBVIOUS
  <2>2. /\ line[tab[v].cart][p] = tab[v].qty[p]
        /\ tab[v].saw[p] > 0 => line[tab[v].into][p] = tab[v].saw[p]
    BY <2>1 DEF SInv, Merging
  <2>3. tab[v].cart \in Sessions /\ tab[v].into \in Sessions
    BY <2>1, LocksRows
  <2>4. line'[tab[v].cart][p] = line[tab[v].cart][p]
    BY <2>1, <2>3 DEF Locks
  <2>5. tab[v].saw[p] > 0 => line'[tab[v].into][p] = line[tab[v].into][p]
    BY <2>1, <2>3 DEF Locks
  <2> QED
    BY <2>1, <2>2, <2>4, <2>5
<1>2. Exclusive'
  <2> SUFFICES ASSUME NEW t \in Tabs, NEW v \in Tabs, NEW s \in Sessions,
                      NEW p \in Products, Locks(t, s, p)', Locks(v, s, p)'
               PROVE  t = v
    BY DEF Exclusive
  <2>1. Locks(t, s, p) /\ Locks(v, s, p)
    BY DEF Locks
  <2> QED
    BY <2>1 DEF SInv, Exclusive
<1> QED
  BY <1>1, <1>2

\* The books balance if no line grew and no order was made.
LEMMA BooksKept ==
  ASSUME SInv, Loose(line'), OrderRows(made'), asked' = asked,
         \A p \in Products : Put(line', p) <= Put(line, p),
         \A p \in Products : Sold(made', p) <= Sold(made, p)
  PROVE  NothingSoldTwice'
<1> SUFFICES ASSUME NEW p \in Products
             PROVE  Put(line', p) + Sold(made', p) <= asked'[p]
  BY SoldTwice
<1>1. Put(line, p) + Sold(made, p) <= asked[p]
  BY SoldTwice DEF SInv
<1>2. /\ Put(line, p) \in Nat /\ Sold(made, p) \in Nat
      /\ Put(line', p) \in Nat /\ Sold(made', p) \in Nat
  BY PutIs, SoldIs DEF SInv, CartsOk, RestOk
<1>3. asked[p] \in Nat
  BY DEF SInv, RestOk, Amount
<1> QED
  BY <1>1, <1>2, <1>3

\* Rights to an order that are not more than before.
LEMMA EntitledKept ==
  ASSUME SInv, cache' \in [Keys -> {"free", "flight", "answered"}],
         slips' \in [Keys -> Nat],
         \A k \in Keys :
           Cardinality(Ordered(k)') + Cardinality(Handlers(k)') + Opened(k)' - slips'[k]
             <= Cardinality(Ordered(k)) + Cardinality(Handlers(k)) + Opened(k) - slips[k]
  PROVE  Entitled'
<1> SUFFICES ASSUME NEW k \in Keys
             PROVE  Cardinality(Ordered(k)') + Cardinality(Handlers(k)') + Opened(k)'
                      <= 1 + slips'[k]
  BY DEF Entitled
<1>1. /\ Opened(k) \in Nat /\ Opened(k)' \in Nat
      /\ slips[k] \in Nat /\ slips'[k] \in Nat
  BY DEF Opened, SInv, RestOk
<1>2. /\ Cardinality(Ordered(k)') \in Nat /\ Cardinality(Handlers(k)') \in Nat
      /\ Cardinality(Ordered(k)) \in Nat /\ Cardinality(Handlers(k)) \in Nat
  BY Counts, CountsNext
<1>3. Cardinality(Ordered(k)) + Cardinality(Handlers(k)) + Opened(k) <= 1 + slips[k]
  BY DEF SInv, Entitled
<1> QED
  BY <1>1, <1>2, <1>3

\* A step that leaves carts and orders.
LEMMA RowsSame ==
  ASSUME SInv, UNCHANGED <<stockVars, used, live, line, made, asked>>
  PROVE  /\ StockTypeOK' /\ CartsOk' /\ OrderRows(made') /\ asked' \in Amount
         /\ NothingSoldTwice' /\ Unmade' = Unmade
         /\ \A k : Ordered(k)' = Ordered(k)
<1>1. StockTypeOK'
  BY DEF SInv, StockTypeOK, stockVars, Exists
<1>2. CartsOk' /\ OrderRows(made') /\ asked' \in Amount
  BY DEF SInv, CartsOk, RestOk, Loose, OrderRows
<1>3. NothingSoldTwice'
  BY SoldTwice DEF SInv
<1> QED
  BY <1>1, <1>2, <1>3 DEF Unmade, Ordered

\* A request that goes on or ends, and does not begin to merge or to check out.
LEMMA RequestStep ==
  ASSUME SInv, UNCHANGED <<stockVars, used, live, line, made, asked>>,
         NEW t \in Tabs, NEW x \in TabRow, tab' = [tab EXCEPT ![t] = x],
         x.at \notin {"merging", "handling"}, Proper(x),
         cache' \in [Keys -> {"free", "flight", "answered"}],
         slips' \in [Keys -> Nat], faults' \in 0 .. MaxFaults,
         \A k \in Keys :
           Cardinality(Handlers(k)') + Opened(k)' - slips'[k]
             <= Cardinality(Handlers(k)) + Opened(k) - slips[k]
  PROVE  SInv'
<1>1. /\ tab' \in [Tabs -> TabRow] /\ tab'[t] = x
      /\ \A v \in Tabs \ {t} : tab'[v] = tab[v]
  BY OneTab
<1>2. /\ StockTypeOK' /\ CartsOk' /\ OrderRows(made') /\ asked' \in Amount
      /\ NothingSoldTwice' /\ Unmade' = Unmade
      /\ \A k : Ordered(k)' = Ordered(k)
  BY RowsSame
<1>3. RestOk'
  BY <1>1, <1>2 DEF RestOk
<1>4. (\A v \in Tabs : Proper(tab[v]))'
  BY <1>1, AllProper
<1>5. Merging' /\ Exclusive'
  <2>1. \A v \in Tabs : tab'[v].at = "merging" => tab'[v] = tab[v]
    BY <1>1
  <2> QED
    BY <2>1, MergesKept
<1>6. Room'
  <2>1. Cardinality(Handling') <= Cardinality(Handling)
    BY <1>1, NoNewHandler
  <2> QED
    BY <1>2, <2>1, Counts, CountsNext DEF SInv, Room
<1>7. Entitled'
  <2>1. ASSUME NEW k \in Keys
        PROVE  Cardinality(Ordered(k)') + Cardinality(Handlers(k)') + Opened(k)' - slips'[k]
                 <= Cardinality(Ordered(k)) + Cardinality(Handlers(k)) + Opened(k) - slips[k]
    <3>1. /\ Opened(k) \in Nat /\ Opened(k)' \in Nat
          /\ slips[k] \in Nat /\ slips'[k] \in Nat
      BY DEF Opened, SInv, RestOk
    <3>2. /\ Cardinality(Ordered(k)) \in Nat /\ Cardinality(Ordered(k)') = Cardinality(Ordered(k))
          /\ Cardinality(Handlers(k)) \in Nat /\ Cardinality(Handlers(k)') \in Nat
      BY <1>2, Counts, CountsNext
    <3> QED
      BY <3>1, <3>2
  <2> QED
    BY <2>1, EntitledKept
<1> QED
  BY <1>2, <1>3, <1>4, <1>5, <1>6, <1>7 DEF SInv

\* An entry that is written, and perhaps a key opened by it.
LEMMA EntryWritten ==
  ASSUME SInv, NEW k \in Keys, NEW e \in {"free", "flight", "answered"},
         cache' = [cache EXCEPT ![k] = e]
  PROVE  /\ cache' \in [Keys -> {"free", "flight", "answered"}]
         /\ Opened(k)' \in {0, 1} /\ (e # "free" => Opened(k)' = 0)
         /\ \A j \in Keys \ {k} : Opened(j)' = Opened(j)
         /\ \A j \in Keys : Opened(j) \in {0, 1} /\ slips[j] \in Nat
  BY DEF SInv, RestOk, Opened

\* A request that goes on or ends and writes no entry.
LEMMA QuietRequest ==
  ASSUME SInv, UNCHANGED <<stockVars, used, live, line, made, asked, cache, slips>>,
         NEW t \in Tabs, NEW x \in TabRow, tab' = [tab EXCEPT ![t] = x],
         x.at \notin {"merging", "handling"}, Proper(x), faults' \in 0 .. MaxFaults
  PROVE  SInv'
<1>1. tab'[t] = x /\ \A v \in Tabs \ {t} : tab'[v] = tab[v]
  BY OneTab
<1>2. \A k : Cardinality(Handlers(k)') <= Cardinality(Handlers(k))
  BY <1>1, NoNewHandler
<1>3. /\ cache' \in [Keys -> {"free", "flight", "answered"}]
      /\ slips' \in [Keys -> Nat]
  BY DEF SInv, RestOk
<1>4. \A k \in Keys :
           Cardinality(Handlers(k)') + Opened(k)' - slips'[k]
             <= Cardinality(Handlers(k)) + Opened(k) - slips[k]
  <2> TAKE k \in Keys
  <2>1. /\ Opened(k)' = Opened(k) /\ slips'[k] = slips[k]
        /\ Opened(k) \in Nat /\ slips[k] \in Nat
    BY DEF Opened, SInv, RestOk
  <2> QED
    BY <1>2, <2>1, Counts, CountsNext
<1> QED
  BY <1>3, <1>4, RequestStep

LEMMA AddBegins ==
  ASSUME SInv, NEW t \in Tabs, NEW s \in Sessions, NEW p \in Products,
         NEW q \in Quantities, AddBegin(t, s, p, q)
  PROVE  SInv'
<1> DEFINE x == [NoRequest EXCEPT !.at = "add", !.cart = s, !.qty = [Empty EXCEPT ![p] = q]]
<1>1. [Empty EXCEPT ![p] = q] \in Amount
  BY StorefrontConstants, StockConstants DEF AddBegin, SInv, RestOk, Amount, Empty, Quantities
<1>2. /\ x \in TabRow /\ x.at = "add" /\ x.key = None
  BY <1>1, NoRequestIs DEF NoRequest, TabRow
<1>3. tab' = [tab EXCEPT ![t] = x]
  BY DEF AddBegin
<1> HIDE DEF x
<1>4. Proper(x)
  BY <1>2 DEF Proper
<1>5. UNCHANGED <<stockVars, used, live, line, made, asked, cache, slips, faults>>
  BY DEF AddBegin
<1> QED
  BY <1>2, <1>3, <1>4, <1>5, QuietRequest DEF SInv, RestOk

LEMMA MergeBegins ==
  ASSUME SInv, NEW t \in Tabs, NEW g \in Sessions, NEW u \in Sessions,
         MergeBegin(t, g, u)
  PROVE  SInv'
<1> DEFINE x == [NoRequest EXCEPT !.at = "merge", !.cart = g, !.into = u]
<1>1. /\ x \in TabRow /\ x.at = "merge" /\ x.key = None /\ x.cart = g /\ x.into = u
  BY NoRequestIs DEF NoRequest, TabRow
<1>2. tab' = [tab EXCEPT ![t] = x]
  BY DEF MergeBegin
<1> HIDE DEF x
<1>3. Proper(x)
  BY <1>1 DEF Proper, MergeBegin
<1>4. UNCHANGED <<stockVars, used, live, line, made, asked, cache, slips, faults>>
  BY DEF MergeBegin
<1> QED
  BY <1>1, <1>2, <1>3, <1>4, QuietRequest DEF SInv, RestOk

LEMMA Dying ==
  ASSUME SInv, NEW t \in Tabs, Dies(t)
  PROVE  SInv'
<1>1. faults' \in 0 .. MaxFaults
  BY StorefrontConstants DEF Dies, SInv, RestOk
<1>2. UNCHANGED <<stockVars, used, live, line, made, asked, cache, slips>>
  BY DEF Dies
<1>3. tab' = [tab EXCEPT ![t] = NoRequest]
  BY DEF Dies
<1> QED
  BY <1>1, <1>2, <1>3, NoRequestIs, QuietRequest

\* A request that knows its key writes the answer, or drops the entry: if the
\* request was not done yet, its own right becomes the key's.
LEMMA Responding ==
  ASSUME SInv, UNCHANGED <<stockVars, used, live, line, made, asked>>,
         NEW t \in Tabs, tab[t].at \in {"handling", "placed", "answering"},
         NEW e \in {"free", "flight", "answered"}, Responds(t, e),
         NEW slip \in {0, 1}, NEW k, tab[t].key = k,
         slips' = [slips EXCEPT ![k] = @ + slip],
         e = "free" => tab[t].at = "handling" \/ slip = 1,
         faults' \in 0 .. MaxFaults
  PROVE  SInv'
<1>1. k \in Keys
  BY DEF SInv, RestOk, Proper, TabRow
<1>2. tab' = [tab EXCEPT ![t] = NoRequest] /\ cache' = [cache EXCEPT ![k] = e]
  BY DEF Responds
<1>3. tab'[t] = NoRequest /\ \A v \in Tabs \ {t} : tab'[v] = tab[v]
  BY <1>2, NoRequestIs, OneTab
<1>4. /\ cache' \in [Keys -> {"free", "flight", "answered"}]
      /\ Opened(k)' \in {0, 1} /\ (e # "free" => Opened(k)' = 0)
      /\ \A j \in Keys \ {k} : Opened(j)' = Opened(j)
      /\ \A j \in Keys : Opened(j) \in {0, 1} /\ slips[j] \in Nat
  BY <1>1, <1>2, EntryWritten
<1>5. \A j : Cardinality(Handlers(j)') <= Cardinality(Handlers(j))
  BY <1>3, NoRequestIs, NoNewHandler
<1>6. tab[t].at = "handling"
        => Cardinality(Handlers(k)') = Cardinality(Handlers(k)) - 1
  BY <1>3, NoRequestIs, HandlerLess
<1>7. /\ slips' \in [Keys -> Nat] /\ slips'[k] = slips[k] + slip
      /\ \A j \in Keys \ {k} : slips'[j] = slips[j]
  BY <1>1 DEF SInv, RestOk
<1>8. \A j \in Keys :
           Cardinality(Handlers(j)') + Opened(j)' - slips'[j]
             <= Cardinality(Handlers(j)) + Opened(j) - slips[j]
  <2> TAKE j \in Keys
  <2>1. Cardinality(Handlers(j)) \in Nat /\ Cardinality(Handlers(j)') \in Nat
    BY Counts, CountsNext
  <2>2. CASE j # k
    <3>1. /\ Opened(j)' = Opened(j) /\ slips'[j] = slips[j]
          /\ Opened(j) \in {0, 1} /\ slips[j] \in Nat
      BY <1>4, <1>7, <2>2
    <3>2. Cardinality(Handlers(j)') <= Cardinality(Handlers(j))
      BY <1>5
    <3> QED
      BY <2>1, <3>1, <3>2
  <2>3. CASE j = k
    <3>1. /\ Cardinality(Handlers(k)) \in Nat /\ Cardinality(Handlers(k)') \in Nat
          /\ Opened(k) \in {0, 1} /\ slips[k] \in Nat
          /\ Cardinality(Handlers(k)') <= Cardinality(Handlers(k))
      BY <1>1, <1>4, <1>5, Counts, CountsNext
    <3>2. Cardinality(Handlers(k)') + Opened(k)' - slips'[k]
             <= Cardinality(Handlers(k)) + Opened(k) - slips[k]
      BY <1>4, <1>6, <1>7, <3>1
    <3> QED
      BY <2>3, <3>2
  <2> QED
    BY <2>2, <2>3
<1> QED
  BY <1>2, <1>4, <1>7, <1>8, NoRequestIs, RequestStep

LEMMA Refusing ==
  ASSUME SInv, NEW t \in Tabs, Refuses(t) \/ Breaks(t) \/ HookRaises(t) \/ Answer(t)
  PROVE  SInv'
<1>1. PICK k : k = tab[t].key
  OBVIOUS
<1>2. tab[t].at \in {"handling", "placed", "answering"}
  BY DEF Refuses, Breaks, HookRaises, Answer
<1>3. k \in Keys
  BY <1>1, <1>2 DEF SInv, RestOk, Proper, TabRow
<1>4. faults' \in 0 .. MaxFaults
  BY StorefrontConstants DEF Refuses, Breaks, HookRaises, Answer, SInv, RestOk
<1>5. UNCHANGED <<stockVars, used, live, line, made, asked>>
  BY DEF Refuses, Breaks, HookRaises, Answer
<1>6. slips' = slips => slips' = [slips EXCEPT ![k] = @ + 0]
  BY <1>3 DEF SInv, RestOk
<1>7. CASE Refuses(t) \/ Answer(t)
  <2>1. Responds(t, "answered") /\ slips' = slips
    BY <1>7 DEF Refuses, Answer
  <2> QED
    BY <1>1, <1>2, <1>4, <1>5, <1>6, <2>1, Responding
<1>8. CASE Breaks(t)
  <2>1. Responds(t, "free") /\ slips' = slips /\ tab[t].at = "handling"
    BY <1>8 DEF Breaks
  <2> QED
    BY <1>1, <1>2, <1>4, <1>5, <1>6, <2>1, Responding
<1>9. CASE HookRaises(t)
  <2>1. Responds(t, "free") /\ slips' = [slips EXCEPT ![k] = @ + 1]
    BY <1>1, <1>9 DEF HookRaises
  <2> QED
    BY <1>1, <1>2, <1>4, <1>5, <2>1, Responding
<1> QED
  BY <1>7, <1>8, <1>9


\* merge_carts takes rows nobody has locked.
LEMMA MergeTakes ==
  ASSUME SInv, NEW t \in Tabs, MergeLines(t)
  PROVE  SInv'
<1> DEFINE x == [tab[t] EXCEPT !.at = "merging", !.qty = line[tab[t].cart],
                               !.saw = line[tab[t].into]]
<1>1. /\ tab[t] \in TabRow /\ tab[t].at = "merge" /\ Proper(tab[t])
      /\ tab \in [Tabs -> TabRow]
  BY DEF SInv, RestOk, MergeLines
<1>2. /\ tab[t].cart \in Guests /\ tab[t].into \in Accounts
      /\ tab[t].cart \in Sessions /\ tab[t].into \in Sessions
  BY <1>1, StorefrontConstants DEF Proper
<1>3. line[tab[t].cart] \in Amount /\ line[tab[t].into] \in Amount
  BY <1>2, SInvSound DEF StoreIsSound, StoreTypeOK
<1>4. /\ x \in TabRow /\ x.at = "merging" /\ x.key = tab[t].key
      /\ x.cart = tab[t].cart /\ x.into = tab[t].into
      /\ x.qty = line[x.cart] /\ x.saw = line[x.into]
  BY <1>1, <1>3 DEF TabRow
<1>5. tab' = [tab EXCEPT ![t] = x]
  BY <1>1 DEF MergeLines
<1> HIDE DEF x
<1>6. /\ UNCHANGED <<stockVars, used, live, line, made, asked, cache, slips, faults>>
      /\ CartFree(x.cart) /\ CartFree(x.into)
  BY <1>4 DEF MergeLines, CanTake
<1>7. /\ tab' \in [Tabs -> TabRow] /\ tab'[t] = x
      /\ \A v \in Tabs \ {t} : tab'[v] = tab[v]
  BY <1>4, <1>5, OneTab
<1>8. /\ StockTypeOK' /\ CartsOk' /\ OrderRows(made') /\ asked' \in Amount
      /\ NothingSoldTwice' /\ Unmade' = Unmade
      /\ \A k : Ordered(k)' = Ordered(k)
  BY <1>6, RowsSame
<1>9. RestOk'
  BY <1>6, <1>7, <1>8 DEF SInv, RestOk
<1>10. (\A v \in Tabs : Proper(tab[v]))'
  <2>1. Proper(x)
    BY <1>1, <1>2, <1>4 DEF Proper
  <2> QED
    BY <1>7, <2>1, AllProper
<1>11. Merging'
  <2> SUFFICES ASSUME NEW v \in Tabs, NEW p \in Products,
                      tab'[v].at = "merging", tab'[v].qty[p] > 0
               PROVE  /\ line'[tab'[v].cart][p] = tab'[v].qty[p]
                      /\ tab'[v].saw[p] > 0 => line'[tab'[v].into][p] = tab'[v].saw[p]
    BY DEF Merging
  <2>1. CASE v = t
    BY <1>4, <1>6, <1>7, <2>1
  <2>2. CASE v # t
    BY <1>6, <1>7, <2>2 DEF SInv, Merging
  <2> QED
    BY <2>1, <2>2
<1>12. Exclusive'
  <2>1. ASSUME NEW v \in Tabs \ {t}, NEW s \in Sessions, NEW p \in Products,
               Locks(t, s, p)', Locks(v, s, p)'
        PROVE  FALSE
    <3>1. Locks(v, s, p)
      BY <1>7, <2>1 DEF Locks
    <3>2. s = x.cart \/ s = x.into
      BY <1>7, <2>1 DEF Locks
    <3> QED
      BY <1>6, <3>1, <3>2 DEF CartFree, RowLocked
  <2>2. ASSUME NEW v \in Tabs \ {t}, NEW w \in Tabs \ {t}, NEW s \in Sessions,
               NEW p \in Products, Locks(w, s, p)', Locks(v, s, p)'
        PROVE  v = w
    <3>1. Locks(v, s, p) /\ Locks(w, s, p)
      BY <1>7, <2>2 DEF Locks
    <3> QED
      BY <3>1 DEF SInv, Exclusive
  <2> QED
    BY <2>1, <2>2 DEF Exclusive
<1>13. /\ Cardinality(Handling') <= Cardinality(Handling)
       /\ \A k : Cardinality(Handlers(k)') <= Cardinality(Handlers(k))
  BY <1>4, <1>7, NoNewHandler
<1>14. Room'
  BY <1>8, <1>13, Counts, CountsNext DEF SInv, Room
<1>15. Entitled'
  <2>1. ASSUME NEW k \in Keys
        PROVE  Cardinality(Ordered(k)') + Cardinality(Handlers(k)') + Opened(k)' - slips'[k]
                 <= Cardinality(Ordered(k)) + Cardinality(Handlers(k)) + Opened(k) - slips[k]
    <3>1. /\ Opened(k) \in Nat /\ Opened(k)' = Opened(k)
          /\ slips[k] \in Nat /\ slips'[k] = slips[k]
      BY <1>6 DEF Opened, SInv, RestOk
    <3>2. /\ Cardinality(Ordered(k)) \in Nat /\ Cardinality(Ordered(k)') = Cardinality(Ordered(k))
          /\ Cardinality(Handlers(k)) \in Nat /\ Cardinality(Handlers(k)') \in Nat
      BY <1>8, Counts, CountsNext
    <3> QED
      BY <1>13, <3>1, <3>2
  <2>2. /\ cache' \in [Keys -> {"free", "flight", "answered"}]
        /\ slips' \in [Keys -> Nat]
    BY <1>9 DEF RestOk
  <2> QED
    BY <2>1, <2>2, EntitledKept
<1> QED
  BY <1>8, <1>9, <1>10, <1>11, <1>12, <1>14, <1>15 DEF SInv

\* A checkout request takes the key's right to an order.
LEMMA Posting ==
  ASSUME SInv, NEW t \in Tabs, NEW k \in Keys, NEW s \in Sessions, Post(t, k, s)
  PROVE  SInv'
<1> DEFINE x == [NoRequest EXCEPT !.at = "handling", !.key = k, !.cart = s]
<1>1. x \in TabRow /\ x.at = "handling" /\ x.key = k /\ x.key # None
  BY NoRequestIs, StorefrontConstants DEF NoRequest, TabRow
<1>2. /\ tab' = [tab EXCEPT ![t] = x] /\ cache' = [cache EXCEPT ![k] = "flight"]
      /\ tab[t].at = "idle"
  BY NoRequestIs DEF Post
<1> HIDE DEF x
<1>3. /\ UNCHANGED <<stockVars, used, live, line, made, asked, slips, faults>>
      /\ cache[k] = "free" /\ Cardinality(Handling) < Cardinality(Unmade)
  BY DEF Post, Reservable, Unmade
<1>4. /\ tab' \in [Tabs -> TabRow] /\ tab'[t] = x
      /\ \A v \in Tabs \ {t} : tab'[v] = tab[v]
  BY <1>1, <1>2, OneTab
<1>5. /\ StockTypeOK' /\ CartsOk' /\ OrderRows(made') /\ asked' \in Amount
      /\ NothingSoldTwice' /\ Unmade' = Unmade
      /\ \A j : Ordered(j)' = Ordered(j)
  BY <1>3, RowsSame
<1>6. /\ cache' \in [Keys -> {"free", "flight", "answered"}]
      /\ Opened(k)' = 0
      /\ \A j \in Keys \ {k} : Opened(j)' = Opened(j)
      /\ \A j \in Keys : Opened(j) \in {0, 1} /\ slips[j] \in Nat
  BY <1>2, EntryWritten
<1>7. Opened(k) = 1
  BY <1>3 DEF Opened
<1>8. RestOk'
  BY <1>3, <1>4, <1>5, <1>6 DEF SInv, RestOk
<1>9. (\A v \in Tabs : Proper(tab[v]))'
  <2>1. Proper(x)
    BY <1>1 DEF Proper
  <2> QED
    BY <1>4, <2>1, AllProper
<1>10. Merging' /\ Exclusive'
  <2>1. \A v \in Tabs : tab'[v].at = "merging" => tab'[v] = tab[v]
    BY <1>1, <1>4
  <2> QED
    BY <1>3, <2>1, MergesKept
<1>11. /\ Cardinality(Handling') = Cardinality(Handling) + 1
       /\ Cardinality(Handlers(k)') = Cardinality(Handlers(k)) + 1
       /\ \A j : j # k => Handlers(j)' = Handlers(j)
  BY <1>1, <1>2, <1>4, HandlerMore
<1>12. Room'
  BY <1>3, <1>5, <1>11, Counts, CountsNext DEF Room
<1>13. Entitled'
  <2>1. ASSUME NEW j \in Keys
        PROVE  Cardinality(Ordered(j)') + Cardinality(Handlers(j)') + Opened(j)' - slips'[j]
                 <= Cardinality(Ordered(j)) + Cardinality(Handlers(j)) + Opened(j) - slips[j]
    <3>1. /\ Opened(j) \in Nat /\ slips[j] \in Nat /\ slips'[j] = slips[j]
      BY <1>3, <1>6
    <3>2. /\ Cardinality(Ordered(j)) \in Nat /\ Cardinality(Ordered(j)') = Cardinality(Ordered(j))
          /\ Cardinality(Handlers(j)) \in Nat
      BY <1>5, Counts, CountsNext
    <3>3. CASE j = k
      <4>1. Opened(j) = 1 /\ Opened(j)' = 0
        BY <1>6, <1>7, <3>3
      <4>2. Cardinality(Handlers(j)') = Cardinality(Handlers(j)) + 1
        BY <1>11, <3>3
      <4> QED
        BY <3>1, <3>2, <4>1, <4>2
    <3>4. CASE j # k
      <4>1. Opened(j)' = Opened(j)
        BY <1>6, <3>4
      <4>2. Cardinality(Handlers(j)') = Cardinality(Handlers(j))
        BY <1>11, <3>4
      <4> QED
        BY <3>1, <3>2, <4>1, <4>2
    <3> QED
      BY <3>3, <3>4
  <2>2. slips' \in [Keys -> Nat]
    BY <1>8 DEF RestOk
  <2> QED
    BY <1>6, <2>1, <2>2, EntitledKept
<1> QED
  BY <1>5, <1>8, <1>9, <1>10, <1>12, <1>13 DEF SInv

\* A marker that lapses gives the key another right.
LEMMA Lapsing ==
  ASSUME SInv, NEW k \in Keys, Lapse(k)
  PROVE  SInv'
<1>1. /\ UNCHANGED <<stockVars, used, live, line, made, tab, asked>>
      /\ cache' = [cache EXCEPT ![k] = "free"]
      /\ slips' = [slips EXCEPT ![k] = @ + 1]
  BY DEF Lapse
<1>2. /\ cache' \in [Keys -> {"free", "flight", "answered"}]
      /\ Opened(k)' \in {0, 1}
      /\ \A j \in Keys \ {k} : Opened(j)' = Opened(j)
      /\ \A j \in Keys : Opened(j) \in {0, 1} /\ slips[j] \in Nat
  BY <1>1, EntryWritten
<1>3. /\ StockTypeOK' /\ CartsOk' /\ OrderRows(made') /\ asked' \in Amount
      /\ NothingSoldTwice' /\ Unmade' = Unmade
      /\ \A j : Ordered(j)' = Ordered(j)
  BY <1>1, RowsSame
<1>4. /\ slips' \in [Keys -> Nat] /\ slips'[k] = slips[k] + 1
      /\ \A j \in Keys \ {k} : slips'[j] = slips[j]
  BY <1>1 DEF SInv, RestOk
<1>5. faults' \in 0 .. MaxFaults
  BY StorefrontConstants DEF Lapse, SInv, RestOk
<1>6. RestOk'
  BY <1>1, <1>2, <1>3, <1>4, <1>5 DEF SInv, RestOk
<1>7. (\A v \in Tabs : Proper(tab[v]))'
  BY <1>1 DEF SInv
<1>8. Merging' /\ Exclusive'
  BY <1>1, MergesKept
<1>9. Handling' = Handling /\ \A j : Handlers(j)' = Handlers(j)
  BY <1>1 DEF Handling, Handlers
<1>10. Room'
  BY <1>3, <1>9 DEF SInv, Room
<1>11. Entitled'
  <2>1. ASSUME NEW j \in Keys
        PROVE  Cardinality(Ordered(j)') + Cardinality(Handlers(j)') + Opened(j)' - slips'[j]
                 <= Cardinality(Ordered(j)) + Cardinality(Handlers(j)) + Opened(j) - slips[j]
    <3>1. Opened(j)' - slips'[j] <= Opened(j) - slips[j]
      <4>1. CASE j = k
        BY <1>2, <1>4, <4>1
      <4>2. CASE j # k
        <5>1. Opened(j)' = Opened(j) /\ slips'[j] = slips[j]
          BY <1>2, <1>4, <4>2
        <5> QED
          BY <1>2, <5>1
      <4> QED
        BY <4>1, <4>2
    <3>2. Opened(j) \in Nat /\ slips[j] \in Nat /\ Opened(j)' \in Nat /\ slips'[j] \in Nat
      BY <1>2, <1>4 DEF Opened
    <3>3. /\ Cardinality(Ordered(j)) \in Nat /\ Cardinality(Ordered(j)') = Cardinality(Ordered(j))
          /\ Cardinality(Handlers(j)) \in Nat /\ Cardinality(Handlers(j)') = Cardinality(Handlers(j))
      BY <1>3, <1>9, Counts
    <3> QED
      BY <3>1, <3>2, <3>3
  <2> QED
    BY <1>2, <1>4, <2>1, EntitledKept
<1> QED
  BY <1>3, <1>6, <1>7, <1>8, <1>10, <1>11 DEF SInv

\* Carts change, and neither requests begin nor entries or orders are written.
LEMMA RightsKept ==
  ASSUME SInv, RestOk', cache' = cache, slips' = slips, Unmade' = Unmade,
         \A k : Ordered(k)' = Ordered(k),
         Cardinality(Handling') <= Cardinality(Handling),
         \A k : Cardinality(Handlers(k)') <= Cardinality(Handlers(k))
  PROVE  Room' /\ Entitled'
<1>1. Room'
  BY Counts, CountsNext DEF SInv, Room
<1>2. ASSUME NEW k \in Keys
      PROVE  Cardinality(Ordered(k)') + Cardinality(Handlers(k)') + Opened(k)' - slips'[k]
               <= Cardinality(Ordered(k)) + Cardinality(Handlers(k)) + Opened(k) - slips[k]
  <2>1. /\ Opened(k) \in Nat /\ Opened(k)' = Opened(k)
        /\ slips[k] \in Nat /\ slips'[k] = slips[k]
    BY DEF Opened, SInv, RestOk
  <2>2. /\ Cardinality(Ordered(k)) \in Nat /\ Cardinality(Ordered(k)') = Cardinality(Ordered(k))
        /\ Cardinality(Handlers(k)) \in Nat /\ Cardinality(Handlers(k)') \in Nat
    BY Counts, CountsNext
  <2> QED
    BY <2>1, <2>2
<1>3. /\ cache' \in [Keys -> {"free", "flight", "answered"}]
      /\ slips' \in [Keys -> Nat]
  BY DEF RestOk
<1> QED
  BY <1>1, <1>2, <1>3, EntitledKept

LEMMA SameTabs ==
  ASSUME tab' = tab
  PROVE  Handling' = Handling /\ \A k : Handlers(k)' = Handlers(k)
  BY DEF Handling, Handlers

\* The operations of StockManager.
LEMMA StockMoves ==
  ASSUME SInv, StockTypeOK', UNCHANGED storeVars
  PROVE  SInv'
<1>1. CartsOk' /\ RestOk' /\ (\A v \in Tabs : Proper(tab[v]))'
  BY DEF SInv, CartsOk, RestOk, Loose, OrderRows, storeVars
<1>2. NothingSoldTwice'
  BY SoldTwice DEF SInv, storeVars
<1>3. Merging' /\ Exclusive'
  BY MergesKept DEF storeVars
<1>4. Unmade' = Unmade /\ \A k : Ordered(k)' = Ordered(k)
  BY DEF Unmade, Ordered, storeVars
<1>5. Handling' = Handling /\ \A k : Handlers(k)' = Handlers(k)
  BY SameTabs DEF storeVars
<1>6. Room' /\ Entitled'
  <2>1. /\ Cardinality(Handling') <= Cardinality(Handling)
        /\ \A k : Cardinality(Handlers(k)') <= Cardinality(Handlers(k))
    BY <1>5, Counts
  <2> QED
    BY <1>1, <1>4, <2>1, RightsKept DEF storeVars
<1> QED
  BY <1>1, <1>2, <1>3, <1>6 DEF SInv

\* Rows come or go, or a line is added to or dropped.
LEMMA CartsMove ==
  ASSUME SInv, UNCHANGED <<stockVars, cache, slips, faults>>, CartsOk',
         OrderRows(made'), Unmade' = Unmade, \A k : Ordered(k)' = Ordered(k),
         asked' \in Amount, NothingSoldTwice',
         \A v \in Tabs, s \in Sessions, p \in Products :
           (Locks(v, s, p) /\ tab'[v] = tab[v]) => line'[s][p] = line[s][p],
         \/ tab' = tab
         \/ \E t \in Tabs, x \in TabRow :
              /\ tab' = [tab EXCEPT ![t] = x]
              /\ x.at \notin {"merging", "handling"} /\ Proper(x)
  PROVE  SInv'
<1>1. StockTypeOK'
  BY DEF SInv, StockTypeOK, stockVars, Exists
<1>2. /\ tab' \in [Tabs -> TabRow]
      /\ (\A v \in Tabs : Proper(tab[v]))'
      /\ \A v \in Tabs : tab'[v].at = "merging" => tab'[v] = tab[v]
      /\ Cardinality(Handling') <= Cardinality(Handling)
      /\ \A k : Cardinality(Handlers(k)') <= Cardinality(Handlers(k))
  <2>1. CASE tab' = tab
    <3>1. tab' \in [Tabs -> TabRow] /\ (\A v \in Tabs : Proper(tab[v]))'
      BY <2>1 DEF SInv, RestOk
    <3>2. Handling' = Handling /\ \A k : Handlers(k)' = Handlers(k)
      BY <2>1, SameTabs
    <3> QED
      BY <2>1, <3>1, <3>2, Counts
  <2>2. CASE \E t \in Tabs, x \in TabRow :
               /\ tab' = [tab EXCEPT ![t] = x]
               /\ x.at \notin {"merging", "handling"} /\ Proper(x)
    <3>1. PICK t \in Tabs, x \in TabRow :
               /\ tab' = [tab EXCEPT ![t] = x]
               /\ x.at \notin {"merging", "handling"} /\ Proper(x)
      BY <2>2
    <3>2. /\ tab' \in [Tabs -> TabRow] /\ tab'[t] = x
          /\ \A v \in Tabs \ {t} : tab'[v] = tab[v]
      BY <3>1, OneTab
    <3>3. (\A v \in Tabs : Proper(tab[v]))'
      BY <3>1, <3>2, AllProper
    <3>4. /\ Cardinality(Handling') <= Cardinality(Handling)
          /\ \A k : Cardinality(Handlers(k)') <= Cardinality(Handlers(k))
      BY <3>1, <3>2, NoNewHandler
    <3>5. \A v \in Tabs : tab'[v].at = "merging" => tab'[v] = tab[v]
      BY <3>1, <3>2
    <3> QED
      BY <3>2, <3>3, <3>4, <3>5
  <2> QED
    BY <2>1, <2>2
<1>3. RestOk'
  BY <1>2 DEF SInv, RestOk
<1>4. Merging' /\ Exclusive'
  BY <1>2, MergesKept
<1>5. Room' /\ Entitled'
  BY <1>2, <1>3, RightsKept
<1> QED
  BY <1>1, <1>2, <1>3, <1>4, <1>5 DEF SInv

\* A user has one cart.
LEMMA OneCart ==
  ASSUME SInv, NEW S, S \subseteq live
  PROVE  Cardinality(S \cap Accounts) <= 1
<1>1. IsFiniteSet(live \cap Accounts)
  BY StorefrontConstants, FS_Subset DEF SInv, CartsOk
<1>2. /\ IsFiniteSet(S \cap Accounts)
      /\ Cardinality(S \cap Accounts) <= Cardinality(live \cap Accounts)
  BY <1>1, FS_Subset
<1>3. Cardinality(S \cap Accounts) \in Nat /\ Cardinality(live \cap Accounts) \in Nat
  BY <1>1, <1>2, FS_CardinalityType
<1> QED
  BY <1>2, <1>3 DEF SInv, CartsOk

LEMMA CartCreated ==
  ASSUME SInv, NEW s \in Sessions, CreateCart(s)
  PROVE  SInv'
<1>1. UNCHANGED <<stockVars, line, made, cache, tab, asked, slips, faults>>
  BY DEF CreateCart
<1>2. Cardinality(live' \cap Accounts) <= 1
  <2>1. CASE s \in Accounts
    <3>1. live' \cap Accounts = {s}
      BY <2>1 DEF CreateCart
    <3> QED
      BY <3>1, FS_Singleton
  <2>2. CASE s \notin Accounts
    <3>1. live' \cap Accounts = live \cap Accounts
      BY <2>2 DEF CreateCart
    <3> QED
      BY <3>1 DEF SInv, CartsOk
  <2> QED
    BY <2>1, <2>2
<1>3. CartsOk'
  BY <1>2 DEF CreateCart, SInv, CartsOk, Loose
<1>4. OrderRows(made') /\ asked' \in Amount
  BY <1>1 DEF SInv, RestOk, OrderRows
<1>5. Unmade' = Unmade /\ \A k : Ordered(k)' = Ordered(k)
  BY <1>1 DEF Unmade, Ordered
<1>6. NothingSoldTwice'
  BY <1>1, SoldTwice DEF SInv
<1> QED
  BY <1>1, <1>3, <1>4, <1>5, <1>6, CartsMove

\* A DELETE of carts, which waits for the merges.
LEMMA Clearing ==
  ASSUME SInv, NEW ss, ss \subseteq Sessions, Clears(ss), used' = used
  PROVE  /\ CartsOk' /\ \A p \in Products : Put(line', p) <= Put(line, p)
         /\ \A v \in Tabs, s \in Sessions, p \in Products :
              Locks(v, s, p) => line'[s][p] = line[s][p]
<1>1. Loose(line')
  BY DEF Clears, SInv, CartsOk, Loose, Empty
<1>2. live' \subseteq live
  BY DEF Clears
<1>3. \A s \in Sessions \ live' : line'[s] = Empty
  BY DEF Clears, SInv, CartsOk
<1>4. CartsOk'
  BY <1>1, <1>2, <1>3, OneCart DEF SInv, CartsOk
<1>5. ASSUME NEW p \in Products
      PROVE  Put(line', p) <= Put(line, p)
  <2>1. \A s \in Sessions : line'[s][p] <= line[s][p]
    BY DEF Clears, Empty, SInv, CartsOk, Loose
  <2> QED
    BY <1>1, <2>1, PutLess DEF SInv, CartsOk
<1>6. ASSUME NEW v \in Tabs, NEW s \in Sessions, NEW p \in Products, Locks(v, s, p)
      PROVE  line'[s][p] = line[s][p]
  <2>1. s \notin ss
    BY <1>6 DEF Clears, CartFree, RowLocked
  <2> QED
    BY <2>1 DEF Clears
<1> QED
  BY <1>4, <1>5, <1>6

\* The orders are left.
LEMMA OrdersKept ==
  ASSUME SInv, made' = made
  PROVE  /\ OrderRows(made') /\ Unmade' = Unmade /\ \A k : Ordered(k)' = Ordered(k)
         /\ \A p \in Products : Sold(made', p) <= Sold(made, p)
<1>1. OrderRows(made') /\ OrderRows(made)
  BY DEF SInv, RestOk
<1>2. \A p \in Products : Sold(made', p) <= Sold(made, p)
  BY <1>1, SoldIs
<1> QED
  BY <1>1, <1>2 DEF Unmade, Ordered

LEMMA LineDropped ==
  ASSUME SInv, NEW s \in Sessions, NEW p \in Products, DropLine(s, p)
  PROVE  SInv'
<1>1. UNCHANGED <<stockVars, used, live, made, cache, tab, asked, slips, faults>>
  BY DEF DropLine
<1>2. /\ Loose(line') /\ line'[s][p] = 0
      /\ \A x \in Sessions, q \in Products :
           (x # s \/ q # p) => line'[x][q] = line[x][q]
      /\ \A x \in Sessions \ {s} : line'[x] = line[x]
  BY DEF DropLine, SInv, CartsOk, Loose
<1>3. s \in live
  BY DEF DropLine, SInv, CartsOk, Empty
<1>4. CartsOk'
  BY <1>1, <1>2, <1>3 DEF SInv, CartsOk
<1>5. \A q \in Products : Put(line', q) <= Put(line, q)
  <2> TAKE q \in Products
  <2>1. \A x \in Sessions : line'[x][q] <= line[x][q]
    BY <1>2 DEF SInv, CartsOk, Loose
  <2> QED
    BY <1>2, <2>1, PutLess DEF SInv, CartsOk
<1>6. ASSUME NEW v \in Tabs, NEW x \in Sessions, NEW q \in Products, Locks(v, x, q)
      PROVE  line'[x][q] = line[x][q]
  <2>1. x # s \/ q # p
    BY <1>6 DEF DropLine, RowLocked
  <2> QED
    BY <1>2, <2>1
<1>7. /\ OrderRows(made') /\ Unmade' = Unmade /\ \A k : Ordered(k)' = Ordered(k)
      /\ \A q \in Products : Sold(made', q) <= Sold(made, q)
  BY <1>1, OrdersKept
<1>8. NothingSoldTwice'
  BY <1>1, <1>2, <1>5, <1>7, BooksKept
<1>9. asked' \in Amount
  BY <1>1 DEF SInv, RestOk
<1> QED
  BY <1>1, <1>4, <1>6, <1>7, <1>8, <1>9, CartsMove

LEMMA CartDropped ==
  ASSUME SInv, NEW s \in Sessions, DropCart(s)
  PROVE  SInv'
<1>1. /\ UNCHANGED <<stockVars, used, made, cache, tab, asked, slips, faults>>
      /\ Clears({s})
  BY DEF DropCart
<1>2. /\ CartsOk' /\ \A p \in Products : Put(line', p) <= Put(line, p)
      /\ \A v \in Tabs, x \in Sessions, p \in Products :
           Locks(v, x, p) => line'[x][p] = line[x][p]
  BY <1>1, Clearing
<1>3. /\ OrderRows(made') /\ Unmade' = Unmade /\ \A k : Ordered(k)' = Ordered(k)
      /\ \A p \in Products : Sold(made', p) <= Sold(made, p)
  BY <1>1, OrdersKept
<1>4. Loose(line') /\ asked' = asked /\ asked' \in Amount
  BY <1>1, <1>2 DEF CartsOk, SInv, RestOk
<1>5. NothingSoldTwice'
  BY <1>2, <1>3, <1>4, BooksKept
<1> QED
  BY <1>1, <1>2, <1>3, <1>4, <1>5, CartsMove

\* The carts an order's cart stands for.
LEMMA CartsForIs ==
  ASSUME SInv, NEW s
  PROVE  CartsFor(s) \subseteq live /\ CartsFor(s) \subseteq Sessions
  BY DEF CartsFor, SInv, CartsOk

LEMMA Hooking ==
  ASSUME SInv, NEW t \in Tabs, Hooks(t)
  PROVE  SInv'
<1> DEFINE x == [tab[t] EXCEPT !.at = "answering"]
<1>1. /\ UNCHANGED <<stockVars, used, made, cache, asked, slips, faults>>
      /\ tab' = [tab EXCEPT ![t] = x] /\ tab[t].at = "placed"
  BY DEF Hooks, SInv, RestOk
<1>2. x \in TabRow /\ x.at = "answering" /\ x.key = tab[t].key /\ x.key # None
  BY <1>1 DEF SInv, RestOk, TabRow, Proper
<1> HIDE DEF x
<1>3. Proper(x)
  BY <1>2 DEF Proper
<1>4. /\ CartsOk' /\ \A p \in Products : Put(line', p) <= Put(line, p)
      /\ \A v \in Tabs, s \in Sessions, p \in Products :
           Locks(v, s, p) => line'[s][p] = line[s][p]
  <2>1. CASE made[tab[t].order].hosted
    <3>1. live' = live /\ line' = line
      BY <2>1 DEF Hooks
    <3>2. CartsOk'
      BY <1>1, <3>1 DEF SInv, CartsOk, Loose
    <3>3. \A p \in Products : Put(line', p) <= Put(line, p)
      BY <3>1, PutIs DEF SInv, CartsOk
    <3> QED
      BY <3>1, <3>2, <3>3
  <2>2. CASE ~made[tab[t].order].hosted
    <3>1. Clears(CartsFor(made[tab[t].order].cart))
      BY <2>2 DEF Hooks
    <3>2. PICK ss : ss = CartsFor(made[tab[t].order].cart)
      OBVIOUS
    <3> QED
      BY <1>1, <3>1, <3>2, CartsForIs, Clearing
  <2> QED
    BY <2>1, <2>2
<1>5. /\ OrderRows(made') /\ Unmade' = Unmade /\ \A k : Ordered(k)' = Ordered(k)
      /\ \A p \in Products : Sold(made', p) <= Sold(made, p)
  BY <1>1, OrdersKept
<1>6. Loose(line') /\ asked' = asked /\ asked' \in Amount
  BY <1>1, <1>4 DEF CartsOk, SInv, RestOk
<1>7. NothingSoldTwice'
  BY <1>4, <1>5, <1>6, BooksKept
<1> QED
  BY <1>1, <1>2, <1>3, <1>4, <1>5, <1>6, <1>7, CartsMove

\* A payment that completes changes a row in nothing that is counted.
LEMMA Paying ==
  ASSUME SInv, NEW o \in Orders, Paid(o)
  PROVE  SInv'
<1>1. /\ UNCHANGED <<stockVars, used, cache, tab, asked, slips, faults>>
      /\ made' = [made EXCEPT ![o] = [made[o] EXCEPT !.paid = TRUE]]
      /\ made[o] # None /\ made[o].hosted
  BY DEF Paid, SInv, RestOk, OrderRows
<1>2. made[o] \in Sale /\ made \in [Orders -> {None} \cup Sale]
  BY <1>1 DEF SInv, RestOk, OrderRows
<1> DEFINE row == [made[o] EXCEPT !.paid = TRUE]
<1>3. row \in Sale /\ row.key = made[o].key /\ row.hosted
  BY <1>1, <1>2 DEF Sale
<1>4. row # None
  BY <1>3, NoSale
<1> HIDE DEF row
<1>5. made' = [made EXCEPT ![o] = row]
  BY <1>1 DEF row
<1>6. OrderRows(made') /\ made'[o] = row /\ \A x \in Orders \ {o} : made'[x] = made[x]
  BY <1>2, <1>3, <1>5 DEF OrderRows
<1>7. Unmade' = Unmade /\ \A k : Ordered(k)' = Ordered(k)
  BY <1>1, <1>3, <1>4, <1>6, ZenonT(60) DEF Unmade, Ordered
<1>8. ASSUME NEW p \in Products
      PROVE  Sold(made', p) <= Sold(made, p)
  <2>1. SoldBy(made[o], p) = 0 /\ SoldBy(made'[o], p) = 0
    BY <1>1, <1>3, <1>6 DEF SoldBy
  <2>2. \A x \in Orders \ {o} : SoldBy(made'[x], p) = SoldBy(made[x], p)
    BY <1>6
  <2>3. OrderRows(made)
    BY DEF SInv, RestOk
  <2>4. Sold(made', p) = Sold(made, p) - SoldBy(made[o], p) + SoldBy(made'[o], p)
    BY <1>6, <2>2, <2>3, SoldAt
  <2> QED
    BY <2>1, <2>3, <2>4, SoldIs
<1>9. PICK ss : ss = CartsFor(made[o].cart)
  OBVIOUS
<1>10. Clears(ss) /\ ss \subseteq Sessions
  BY <1>9, CartsForIs DEF Paid
<1>11. /\ CartsOk' /\ \A p \in Products : Put(line', p) <= Put(line, p)
       /\ \A v \in Tabs, s \in Sessions, p \in Products :
            Locks(v, s, p) => line'[s][p] = line[s][p]
  BY <1>1, <1>10, Clearing
<1>12. Loose(line') /\ asked' = asked /\ asked' \in Amount
  BY <1>1, <1>11 DEF CartsOk, SInv, RestOk
<1>13. NothingSoldTwice'
  BY <1>6, <1>8, <1>11, <1>12, BooksKept
<1> QED
  BY <1>1, <1>6, <1>7, <1>11, <1>12, <1>13, CartsMove

LEMMA Adding ==
  ASSUME SInv, NEW t \in Tabs, AddEnd(t)
  PROVE  SInv'
<1>1. /\ UNCHANGED <<stockVars, used, live, made, cache, slips, faults>>
      /\ tab' = [tab EXCEPT ![t] = NoRequest] /\ tab[t].at = "add"
  BY DEF AddEnd
<1>2. CASE tab[t].cart \notin live
  <2>1. line' = line /\ asked' = asked
    BY <1>2 DEF AddEnd
  <2> QED
    BY <1>1, <2>1, NoRequestIs, QuietRequest DEF SInv, RestOk
<1>3. CASE tab[t].cart \in live
  <2>1. PICK s \in live : s = tab[t].cart
    BY <1>3
  <2>2. PICK q \in Amount : q = tab[t].qty
    BY DEF SInv, RestOk, TabRow
  <2>3. /\ s \in Sessions /\ \A p \in Products : q[p] \in Nat
        /\ \A p \in Products :
             q[p] > 0 => ~RowLocked(s, p) /\ asked[p] + q[p] <= MaxAsked
        /\ line' = [line EXCEPT ![s] = [p \in Products |-> line[s][p] + q[p]]]
        /\ asked' = [p \in Products |-> asked[p] + q[p]]
    BY <2>1, <2>2 DEF AddEnd, SInv, CartsOk, Amount
  <2>4. /\ Loose(line')
        /\ \A p \in Products : line'[s][p] = line[s][p] + q[p]
        /\ \A x \in Sessions \ {s} : line'[x] = line[x]
    BY <2>3 DEF SInv, CartsOk, Loose
  <2>5. CartsOk'
    BY <1>1, <2>1, <2>4 DEF SInv, CartsOk
  <2>6. asked' \in Amount
    <3> SUFFICES ASSUME NEW p \in Products PROVE asked[p] + q[p] \in 0 .. MaxAsked
      BY <2>3 DEF Amount
    <3>1. asked[p] \in 0 .. MaxAsked /\ q[p] \in Nat /\ MaxAsked \in Nat
      BY <2>3, StorefrontConstants, StockConstants DEF SInv, RestOk, Amount
    <3> QED
      BY <2>3, <3>1
  <2>7. ASSUME NEW v \in Tabs, NEW x \in Sessions, NEW p \in Products,
               Locks(v, x, p)
        PROVE  line'[x][p] = line[x][p]
    <3>1. CASE x # s
      BY <2>4, <3>1
    <3>2. CASE x = s
      <4>1. RowLocked(s, p)
        BY <2>7, <3>2 DEF RowLocked
      <4>2. q[p] = 0
        BY <2>3, <4>1
      <4>3. line[s][p] \in Nat
        BY <2>3 DEF SInv, CartsOk, Loose
      <4> QED
        BY <2>4, <3>2, <4>2, <4>3
    <3> QED
      BY <3>1, <3>2
  <2>8. /\ OrderRows(made') /\ Unmade' = Unmade /\ \A k : Ordered(k)' = Ordered(k)
        /\ \A p \in Products : Sold(made', p) <= Sold(made, p)
    BY <1>1, OrdersKept
  <2>9. NothingSoldTwice'
    <3> SUFFICES ASSUME NEW p \in Products
                 PROVE  Put(line', p) + Sold(made', p) <= asked'[p]
      BY SoldTwice
    <3>1. Loose(line) /\ OrderRows(made) /\ asked[p] \in Nat
      BY DEF SInv, CartsOk, RestOk, Amount
    <3>2. Put(line', p) = Put(line, p) - line[s][p] + line'[s][p]
      <4>1. \A x \in Sessions \ {s} : line'[x][p] = line[x][p]
        BY <2>4
      <4>2. s \in Sessions /\ Loose(line')
        BY <2>3, <2>4
      <4> QED
        BY <3>1, <4>1, <4>2, PutAt
    <3>3. Put(line, p) + Sold(made, p) <= asked[p]
      BY SoldTwice DEF SInv
    <3>4. /\ Put(line, p) \in Nat /\ Sold(made, p) \in Nat /\ line[s][p] \in Nat
          /\ Sold(made', p) = Sold(made, p) /\ q[p] \in Nat
      BY <1>1, <2>3, <3>1, PutIs, SoldIs DEF Loose
    <3>5. line'[s][p] = line[s][p] + q[p] /\ asked'[p] = asked[p] + q[p]
      BY <2>3, <2>4
    <3> QED
      BY <3>1, <3>2, <3>3, <3>4, <3>5
  <2> QED
    BY <1>1, <2>5, <2>6, <2>7, <2>8, <2>9, NoRequestIs, CartsMove
<1> QED
  BY <1>2, <1>3

\* The merge of a guest's cart into a user's: what it has read of both is what
\* it writes, so a line moves, grows by what the other had or is capped.
LEMMA MergeCommits ==
  ASSUME SInv, NEW t \in Tabs, MergeCommit(t)
  PROVE  SInv'
<1>1. /\ UNCHANGED <<stockVars, used, made, cache, asked, slips, faults>>
      /\ tab' = [tab EXCEPT ![t] = NoRequest] /\ tab[t].at = "merging"
  BY DEF MergeCommit
<1>2. CASE Refused(t)
  <2>1. live' = live /\ line' = line
    BY <1>2 DEF MergeCommit
  <2> QED
    BY <1>1, <2>1, NoRequestIs, QuietRequest DEF SInv, RestOk
<1>3. CASE ~Refused(t)
  <2>1. PICK g, u, q, w : g = tab[t].cart /\ u = tab[t].into /\ q = tab[t].qty /\ w = tab[t].saw
    OBVIOUS
  <2>2. /\ g \in Guests /\ u \in Accounts /\ g \in Sessions /\ u \in Sessions /\ g # u
        /\ \A p \in Products : q[p] \in Nat /\ w[p] \in Nat
    BY <1>1, <2>1, LocksRows
  <2>3. /\ \A p \in Products : q[p] > 0 => line[g][p] = q[p]
        /\ \A p \in Products : (q[p] > 0 /\ w[p] > 0) => line[u][p] = w[p]
    BY <1>1, <2>1 DEF SInv, Merging
  <2>4. /\ \A p \in Products : q[p] > 0 => u \in live
        /\ \A p \in Products : (q[p] > 0 /\ w[p] = 0) => line[u][p] = 0
    <3> SUFFICES ASSUME NEW p \in Products, q[p] > 0
                 PROVE  u \in live /\ (w[p] = 0 => line[u][p] = 0)
      OBVIOUS
    <3>1. line[u][p] \in Nat
      BY <2>2 DEF SInv, CartsOk, Loose
    <3> QED
      BY <1>3, <2>1, <3>1 DEF Refused
  <2>5. /\ \A v \in Tabs \ {t}, p \in Products : ~Locks(v, g, p)
        /\ live' = live \ {g}
        /\ line' = [line EXCEPT ![g] = Empty,
                      ![u] = [p \in Products |-> IF q[p] = 0 THEN line[u][p]
                                                 ELSE Combined(p, w[p], q[p])]]
    BY <1>3, <2>1 DEF MergeCommit
  <2>6. Loose(line)
    BY DEF SInv, CartsOk
  <2>7. \A p \in Products :
          /\ line'[g][p] = 0
          /\ line'[u][p] = IF q[p] = 0 THEN line[u][p] ELSE Combined(p, w[p], q[p])
    BY <2>2, <2>5, <2>6 DEF Loose, Empty
  <2>8. \A s \in Sessions \ {g, u} : line'[s] = line[s]
    BY <2>2, <2>5, <2>6 DEF Loose
  <2>9. ASSUME NEW p \in Products
        PROVE  /\ line'[u][p] \in Nat /\ line[u][p] \in Nat /\ line[g][p] \in Nat
               /\ line'[g][p] + line'[u][p] <= line[g][p] + line[u][p]
    <3>1. stock[p] \in Nat
      BY DEF SInv, StockTypeOK
    <3>2. /\ line[u][p] \in Nat /\ line[g][p] \in Nat /\ q[p] \in Nat /\ w[p] \in Nat
      BY <2>2, <2>6 DEF Loose
    <3>3. CASE q[p] = 0
      BY <2>7, <3>2, <3>3
    <3>4. CASE q[p] > 0 /\ w[p] = 0
      <4>1. line[g][p] = q[p] /\ line[u][p] = 0
        BY <2>3, <2>4, <3>4
      <4>2. Combined(p, w[p], q[p]) = q[p]
        BY <3>2, <3>4 DEF Combined
      <4> QED
        BY <2>7, <3>2, <3>4, <4>1, <4>2
    <3>5. CASE q[p] > 0 /\ w[p] > 0
      <4>1. line[g][p] = q[p] /\ line[u][p] = w[p]
        BY <2>3, <3>5
      <4>2. Combined(p, w[p], q[p]) \in Nat /\ Combined(p, w[p], q[p]) <= w[p] + q[p]
        BY <3>1, <3>2 DEF Combined
      <4> QED
        BY <2>7, <3>2, <3>5, <4>1, <4>2
    <3> QED
      BY <3>2, <3>3, <3>4, <3>5
  <2>10. Loose(line')
    <3>1. DOMAIN line' = Sessions /\ \A s \in Sessions : DOMAIN line'[s] = Products
      BY <2>2, <2>5, <2>6 DEF Loose, Empty
    <3>2. line' = [s \in Sessions |-> line'[s]]
      BY <2>5, <2>6 DEF Loose
    <3>3. ASSUME NEW s \in Sessions
          PROVE  line'[s] \in [Products -> Nat]
      <4>1. CASE s = g
        BY <2>2, <2>5, <2>6, <4>1 DEF Loose, Empty
      <4>2. CASE s = u
        <5>1. line'[u] = [p \in Products |-> IF q[p] = 0 THEN line[u][p]
                                             ELSE Combined(p, w[p], q[p])]
          BY <2>2, <2>5, <2>6 DEF Loose
        <5> QED
          BY <2>7, <2>9, <4>2, <5>1
      <4>3. CASE s \notin {g, u}
        BY <2>6, <2>8, <4>3 DEF Loose
      <4> QED
        BY <4>1, <4>2, <4>3
    <3> QED
      BY <3>2, <3>3 DEF Loose
  <2>11. \A p \in Products : Put(line', p) <= Put(line, p)
    <3> TAKE p \in Products
    <3>1. \A s \in Sessions \ {g, u} : line'[s][p] = line[s][p]
      BY <2>8
    <3> QED
      BY <2>2, <2>6, <2>9, <2>10, <3>1, PutMoves
  <2>12. CartsOk'
    <3>1. Cardinality(live' \cap Accounts) <= 1
      BY <2>5, OneCart
    <3>2. ASSUME NEW s \in Sessions \ live'
          PROVE  line'[s] = Empty
      <4>1. CASE s = g
        BY <2>2, <2>5, <2>6, <4>1 DEF Loose
      <4>2. CASE s = u
        <5>1. u \notin live /\ line[u] = Empty
          BY <2>2, <2>5, <4>2 DEF SInv, CartsOk
        <5>2. \A p \in Products : q[p] = 0
          BY <2>2, <2>4, <5>1
        <5>3. line'[u] = [p \in Products |-> line[u][p]]
          BY <2>2, <2>5, <2>6, <5>2 DEF Loose
        <5> QED
          BY <4>2, <5>1, <5>3 DEF Empty
      <4>3. CASE s \notin {g, u}
        BY <2>5, <2>8, <4>3 DEF SInv, CartsOk
      <4> QED
        BY <4>1, <4>2, <4>3
    <3> QED
      BY <1>1, <2>5, <2>10, <3>1, <3>2 DEF SInv, CartsOk
  <2>13. ASSUME NEW v \in Tabs, NEW s \in Sessions, NEW p \in Products,
                Locks(v, s, p), tab'[v] = tab[v]
         PROVE  line'[s][p] = line[s][p]
    <3>1. v # t
      <4>1. tab'[t] = NoRequest
        BY <1>1, NoRequestIs, OneTab
      <4> QED
        BY <1>1, <2>13, <4>1, NoRequestIs
    <3>2. s # g
      BY <2>5, <2>13, <3>1
    <3>3. CASE s # u
      BY <2>8, <3>2, <3>3
    <3>4. CASE s = u
      <4>1. q[p] = 0
        <5>1. tab[v].at = "merging" /\ tab[v].qty[p] > 0
          BY <2>13 DEF Locks
        <5>2. tab[v].cart \in Guests
          BY <5>1, LocksRows
        <5>3. tab[v].cart # u
          BY <2>2, <5>2, StorefrontConstants
        <5>4. tab[v].into = u /\ tab[v].saw[p] > 0
          BY <2>13, <3>4, <5>3 DEF Locks
        <5>5. line[u][p] = tab[v].saw[p] /\ tab[v].saw[p] \in Nat
          BY <5>1, <5>4, LocksRows DEF SInv, Merging
        <5>6. ~(q[p] > 0 /\ w[p] = 0)
          BY <2>4, <5>4, <5>5
        <5>7. ~(q[p] > 0 /\ w[p] > 0)
          <6>1. SUFFICES ASSUME q[p] > 0, w[p] > 0 PROVE FALSE
            OBVIOUS
          <6>2. Locks(t, u, p)
            BY <1>1, <2>1, <6>1 DEF Locks
          <6>3. Locks(v, u, p)
            BY <2>13, <3>4
          <6> QED
            BY <2>2, <3>1, <6>2, <6>3 DEF SInv, Exclusive
        <5> QED
          BY <2>2, <5>6, <5>7
      <4> QED
        BY <2>7, <3>4, <4>1
    <3> QED
      BY <3>3, <3>4
  <2>14. /\ OrderRows(made') /\ Unmade' = Unmade /\ \A k : Ordered(k)' = Ordered(k)
         /\ \A p \in Products : Sold(made', p) <= Sold(made, p)
    BY <1>1, OrdersKept
  <2>15. asked' \in Amount
    BY <1>1 DEF SInv, RestOk
  <2>16. NothingSoldTwice'
    BY <1>1, <2>10, <2>11, <2>14, BooksKept
  <2> QED
    BY <1>1, <2>12, <2>13, <2>14, <2>15, <2>16, NoRequestIs, CartsMove
<1> QED
  BY <1>2, <1>3

\* Holds are not negative, so what may be sold is on the shelf.
LEMMA SellableIs ==
  ASSUME SInv, NEW p \in Products, NEW s
  PROVE  Sellable(p, s) \in Int /\ Sellable(p, s) <= stock[p]
<1> DEFINE rs == {r \in Holds(p) : res[r].session # s}
           none == {}
<1>1. Counted(res, rs) /\ none \in SUBSET rs
  BY HoldsCounted DEF SInv, Counted
<1>2. Sellable(p, s) = stock[p] - Units(rs)
  BY DEF Sellable
<1> HIDE DEF rs
<1>3. UnitsIn(res, rs) \in Int /\ UnitsIn(res, none) <= UnitsIn(res, rs)
  <2> HIDE DEF none
  <2>1. \A r \in none : res[r].quantity = res[r].quantity
    OBVIOUS
  <2> QED
    BY <1>1, <2>1, FewerUnits
<1>4. UnitsIn(res, none) = 0
  BY SumEmpty DEF UnitsIn
<1>5. stock[p] \in Nat
  BY DEF SInv, StockTypeOK
<1> QED
  BY <1>2, <1>3, <1>4, <1>5, UnitsAre

\* The tables of stock that the order leaves.
LEMMA PlaceStock ==
  ASSUME SInv, NEW t \in Tabs, NEW s \in Sessions, NEW hosted \in BOOLEAN,
         NextOrder \in Orders, Place(t, s, hosted)
  PROVE  StockTypeOK'
<1>1. stock' \in [Products -> Nat]
  <2> SUFFICES ASSUME NEW p \in Products PROVE stock[p] - line[s][p] \in Nat
    BY DEF Place
  <2>1. stock[p] \in Nat /\ line[s][p] \in Nat
    BY DEF SInv, StockTypeOK, CartsOk, Loose
  <2>2. line[s][p] > 0 => line[s][p] <= Sellable(p, s)
    BY DEF Place, Validated, LinesIn
  <2> QED
    BY <2>1, <2>2, SellableIs
<1>2. PICK rs \in SUBSET OwnHolds(s) :
        res' = [r \in Reservations |->
            IF r \in rs THEN [res[r] EXCEPT !.consumed = TRUE, !.order = NextOrder]
            ELSE IF r \in OwnHolds(s) THEN [res[r] EXCEPT !.consumed = TRUE]
            ELSE res[r]]
  BY DEF Place
<1>3. ASSUME NEW r \in Reservations
      PROVE  /\ res'[r] \in Reservation \cup {NoReservation}
             /\ Exists(r) => res'[r] \in Reservation
  <2>1. CASE r \in OwnHolds(s)
    <3>1. res[r] \in Reservation
      BY <2>1 DEF OwnHolds, Open, Exists, SInv, StockTypeOK
    <3>2. /\ [res[r] EXCEPT !.consumed = TRUE] \in Reservation
          /\ [res[r] EXCEPT !.consumed = TRUE, !.order = NextOrder] \in Reservation
      BY <3>1, RowUpdate
    <3>3. \/ res'[r] = [res[r] EXCEPT !.consumed = TRUE]
          \/ res'[r] = [res[r] EXCEPT !.consumed = TRUE, !.order = NextOrder]
      BY <1>2, <2>1
    <3> QED
      BY <3>2, <3>3
  <2>2. CASE r \notin OwnHolds(s)
    <3>1. res'[r] = res[r]
      BY <1>2, <2>2
    <3> QED
      BY <3>1 DEF SInv, StockTypeOK, Exists
  <2> QED
    BY <2>1, <2>2
<1>4. res' \in [Reservations -> Reservation \cup {NoReservation}]
  BY <1>2, <1>3
<1>5. sweep' \subseteq {r \in Reservations : Exists(r)'}
  <2>1. sweep' = sweep /\ sweep \subseteq {r \in Reservations : Exists(r)}
    BY DEF Place, SInv, StockTypeOK
  <2> QED
    BY <1>3, <2>1, NoRow DEF Exists
<1> QED
  BY <1>1, <1>4, <1>5 DEF StockTypeOK

\* There is a free key for the order of every request that is at work.
LEMMA NextOrderIs ==
  ASSUME SInv, NEW t \in Tabs, tab[t].at = "handling"
  PROVE  NextOrder \in Orders /\ made[NextOrder] = None
<1>1. t \in Handling
  BY DEF Handling
<1>2. Cardinality(Handling) # 0
  BY <1>1, Counts, FS_EmptySet
<1>3. Cardinality(Unmade) # 0
  BY <1>2, Counts DEF SInv, Room
<1>4. Unmade # {}
  BY <1>3, FS_EmptySet
<1> QED
  BY <1>4 DEF Unmade, NextOrder

\* The order is made: the right of its request becomes the order.
LEMMA Placing ==
  ASSUME SInv, NEW t \in Tabs, NEW s \in Sessions, NEW hosted \in BOOLEAN,
         Place(t, s, hosted)
  PROVE  SInv'
<1>1. PICK o, k : o = NextOrder /\ k = tab[t].key
  OBVIOUS
<1>2. /\ tab[t].at = "handling" /\ s \in CartsFor(tab[t].cart) /\ CartFree(s)
      /\ UNCHANGED <<sweep, used, live, cache, asked, slips, faults>>
  BY DEF Place
<1>3. o \in Orders /\ made[o] = None
  BY <1>1, <1>2, NextOrderIs
<1>4. k \in Keys /\ tab[t] \in TabRow
  BY <1>1, <1>2 DEF SInv, RestOk, Proper, TabRow
<1>5. s \in live
  BY <1>2, CartsForIs
<1>6. line[s] \in Amount /\ Loose(line) /\ OrderRows(made)
  BY SInvSound DEF StoreIsSound, StoreTypeOK, SInv, CartsOk, RestOk
<1> DEFINE row == [cart |-> s, key |-> k, qty |-> line[s], hosted |-> hosted,
                   paid |-> FALSE]
           x == [tab[t] EXCEPT !.at = "placed", !.order = o]
<1>7. /\ made' = [made EXCEPT ![o] = row] /\ tab' = [tab EXCEPT ![t] = x]
      /\ line' = [line EXCEPT ![s] = LinesKept(s, hosted)]
  BY <1>1 DEF Place, SInv, RestOk
<1>8. /\ row \in Sale /\ row.key = k /\ row.qty = line[s] /\ row.hosted = hosted
      /\ row # None
  <2>1. /\ row \in Sale /\ row.key = k /\ row.qty = line[s] /\ row.hosted = hosted
    BY <1>4, <1>6 DEF Sale
  <2> QED
    BY <2>1, NoSale
<1>9. x \in TabRow /\ x.at = "placed" /\ x.key = k
  BY <1>1, <1>3, <1>4 DEF TabRow
<1> HIDE DEF row, x
<1>10. /\ tab' \in [Tabs -> TabRow] /\ tab'[t] = x
       /\ \A v \in Tabs \ {t} : tab'[v] = tab[v]
  BY <1>7, <1>9, OneTab
<1>11. /\ OrderRows(made') /\ made'[o] = row
       /\ \A y \in Orders : made'[y] = IF y = o THEN row ELSE made[y]
  BY <1>3, <1>6, <1>7, <1>8 DEF OrderRows
<1>12. /\ Loose(line') /\ line'[s] = LinesKept(s, hosted)
       /\ \A y \in Sessions \ {s} : line'[y] = line[y]
  BY <1>6, <1>7 DEF Loose, LinesKept, Empty, Amount
<1>13. StockTypeOK'
  BY <1>1, <1>3, PlaceStock
<1>14. CartsOk'
  BY <1>2, <1>5, <1>12 DEF SInv, CartsOk
<1>15. RestOk'
  BY <1>2, <1>10, <1>11 DEF SInv, RestOk
<1>16. (\A v \in Tabs : Proper(tab[v]))'
  <2>1. Proper(x)
    BY <1>4, <1>9, StorefrontConstants DEF Proper
  <2> QED
    BY <1>10, <2>1, AllProper
<1>17. Merging' /\ Exclusive'
  <2>1. \A v \in Tabs : tab'[v].at = "merging" => tab'[v] = tab[v]
    BY <1>9, <1>10
  <2>2. ASSUME NEW v \in Tabs, NEW y \in Sessions, NEW p \in Products, Locks(v, y, p)
        PROVE  line'[y][p] = line[y][p]
    <3>1. y # s
      BY <1>2, <2>2 DEF CartFree, RowLocked
    <3> QED
      BY <1>12, <3>1
  <2> QED
    BY <2>1, <2>2, MergesKept
<1>18. /\ Cardinality(Handling') = Cardinality(Handling) - 1
       /\ Cardinality(Handlers(k)') = Cardinality(Handlers(k)) - 1
       /\ \A j : Cardinality(Handlers(j)') <= Cardinality(Handlers(j))
  BY <1>1, <1>2, <1>9, <1>10, HandlerLess
<1>19. /\ Cardinality(Unmade') = Cardinality(Unmade) - 1
       /\ Cardinality(Ordered(k)') = Cardinality(Ordered(k)) + 1
       /\ \A j : j # k => Ordered(j)' = Ordered(j)
  BY <1>3, <1>8, <1>11, OrderMore
<1>20. Room'
  BY <1>18, <1>19, Counts, CountsNext DEF SInv, Room
<1>21. Entitled'
  <2>1. ASSUME NEW j \in Keys
        PROVE  Cardinality(Ordered(j)') + Cardinality(Handlers(j)') + Opened(j)' - slips'[j]
                 <= Cardinality(Ordered(j)) + Cardinality(Handlers(j)) + Opened(j) - slips[j]
    <3>1. /\ Opened(j) \in Nat /\ Opened(j)' = Opened(j)
          /\ slips[j] \in Nat /\ slips'[j] = slips[j]
      BY <1>2 DEF Opened, SInv, RestOk
    <3>2. /\ Cardinality(Ordered(j)) \in Nat /\ Cardinality(Ordered(j)') \in Nat
          /\ Cardinality(Handlers(j)) \in Nat /\ Cardinality(Handlers(j)') \in Nat
      BY Counts, CountsNext
    <3>3. CASE j = k
      <4>1. /\ Cardinality(Ordered(j)') = Cardinality(Ordered(j)) + 1
            /\ Cardinality(Handlers(j)') = Cardinality(Handlers(j)) - 1
        BY <1>18, <1>19, <3>3
      <4> QED
        BY <3>1, <3>2, <4>1
    <3>4. CASE j # k
      <4>1. /\ Cardinality(Ordered(j)') = Cardinality(Ordered(j))
            /\ Cardinality(Handlers(j)') <= Cardinality(Handlers(j))
        BY <1>18, <1>19, <3>4
      <4> QED
        BY <3>1, <3>2, <4>1
    <3> QED
      BY <3>3, <3>4
  <2>2. /\ cache' \in [Keys -> {"free", "flight", "answered"}]
        /\ slips' \in [Keys -> Nat]
    BY <1>15 DEF RestOk
  <2> QED
    BY <2>1, <2>2, EntitledKept
<1>22. NothingSoldTwice'
  <2> SUFFICES ASSUME NEW p \in Products
               PROVE  Put(line', p) + Sold(made', p) <= asked'[p]
    BY SoldTwice
  <2>1. Put(line', p) = Put(line, p) - line[s][p] + line'[s][p]
    <3>1. \A y \in Sessions \ {s} : line'[y][p] = line[y][p]
      BY <1>12
    <3> QED
      BY <1>6, <1>12, <3>1, PutAt
  <2>2. Sold(made', p) = Sold(made, p) - SoldBy(made[o], p) + SoldBy(made'[o], p)
    <3>1. \A y \in Orders \ {o} : SoldBy(made'[y], p) = SoldBy(made[y], p)
      BY <1>11
    <3> QED
      BY <1>3, <1>6, <1>11, <3>1, SoldAt
  <2>3. SoldBy(made[o], p) = 0
    BY <1>3 DEF SoldBy
  <2>4. line[s][p] \in Nat
    BY <1>6 DEF Loose
  <2>5. line'[s][p] + SoldBy(made'[o], p) = line[s][p]
    <3>1. CASE hosted
      <4>1. line'[s][p] = line[s][p]
        BY <1>12, <3>1 DEF LinesKept
      <4>2. SoldBy(made'[o], p) = 0
        BY <1>8, <1>11, <3>1 DEF SoldBy
      <4> QED
        BY <2>4, <4>1, <4>2
    <3>2. CASE ~hosted
      <4>1. line'[s][p] = 0
        BY <1>12, <3>2 DEF LinesKept, Empty
      <4>2. SoldBy(made'[o], p) = line[s][p]
        BY <1>8, <1>11, <3>2 DEF SoldBy
      <4> QED
        BY <2>4, <4>1, <4>2
    <3> QED
      BY <3>1, <3>2
  <2>6. Put(line, p) + Sold(made, p) <= asked[p]
    BY SoldTwice DEF SInv
  <2>7. /\ Put(line, p) \in Nat /\ Sold(made, p) \in Nat /\ line'[s][p] \in Nat
        /\ SoldBy(made'[o], p) \in Nat /\ asked'[p] = asked[p] /\ asked[p] \in Nat
    BY <1>2, <1>3, <1>6, <1>11, <1>12, PutIs, SoldIs DEF Loose, SInv, RestOk, Amount
  <2> QED
    BY <2>1, <2>2, <2>3, <2>4, <2>5, <2>6, <2>7
<1> QED
  BY <1>13, <1>14, <1>15, <1>16, <1>17, <1>20, <1>21, <1>22 DEF SInv

\* StockManager's operations from a cart.
LEMMA Stocking ==
  ASSUME SInv,
         \/ \E s \in Sessions, p \in Products, r \in Reservations : ReserveCart(s, p, r)
         \/ \E r \in Reservations : ReleaseOwn(r)
         \/ \E p \in Products, delta \in AdminDeltas : Corrects(p, delta)
         \/ Sweeps \/ Ticks
  PROVE  SInv'
<1>1. UNCHANGED storeVars
  BY DEF ReserveCart, ReleaseOwn, Corrects, Sweeps, Ticks
<1>2. StockNext
  <2>1. ASSUME NEW s \in Sessions, NEW p \in Products, NEW r \in Reservations,
               ReserveCart(s, p, r)
        PROVE  StockNext
    <3>1. PICK q : q = line[s][p]
      OBVIOUS
    <3>2. line[s][p] \in 1 .. MaxQty
      <4>1. line[s] \in Amount
        BY SInvSound DEF StoreIsSound, StoreTypeOK
      <4>2. line[s][p] \in 0 .. MaxAsked
        BY <4>1 DEF Amount
      <4> QED
        BY <2>1, <4>2, StorefrontConstants, StockConstants DEF ReserveCart
    <3>3. q \in Quantities /\ ReserveStock(r, p, q, s)
      BY <2>1, <3>1, <3>2 DEF ReserveCart, Quantities
    <3> QED
      BY <3>3 DEF StockNext
  <2>2. ASSUME NEW r \in Reservations, ReleaseOwn(r)
        PROVE  StockNext
    BY <2>2 DEF ReleaseOwn, StockNext
  <2>3. ASSUME NEW p \in Products, NEW delta \in AdminDeltas, Corrects(p, delta)
        PROVE  StockNext
    BY <2>3 DEF Corrects, StockNext
  <2>4. CASE Sweeps \/ Ticks
    BY <2>4 DEF Sweeps, Ticks, StockNext
  <2> QED
    BY <2>1, <2>2, <2>3, <2>4
<1>3. StockTypeOK'
  BY <1>2, TypeStep DEF SInv
<1> QED
  BY <1>1, <1>3, StockMoves

LEMMA SInvInit == StoreInit => SInv
<1> SUFFICES ASSUME StoreInit PROVE SInv
  OBVIOUS
<1>1. StockTypeOK
  BY StockConstants DEF StoreInit, StockInit, StockTypeOK
<1>2. Empty \in [Products -> {0}] /\ Empty \in [Products -> Nat] /\ Empty \in Amount
  BY StorefrontConstants DEF Empty, Amount
<1>3. CartsOk
  <2>1. Cardinality(live \cap Accounts) = 0
    <3>1. live \cap Accounts = {}
      BY DEF StoreInit
    <3> QED
      BY <3>1, FS_EmptySet
  <2> QED
    BY <1>2, <2>1 DEF StoreInit, CartsOk, Loose
<1>4. RestOk
  BY <1>2, NoRequestIs, StorefrontConstants DEF StoreInit, RestOk, OrderRows
<1>5. \A t \in Tabs : tab[t] = NoRequest
  BY DEF StoreInit
<1>6. /\ \A t \in Tabs : Proper(tab[t])
      /\ Handling = {} /\ \A k : Handlers(k) = {}
      /\ Merging /\ Exclusive
  BY <1>5, NoRequestIs DEF Handling, Handlers, Merging, Exclusive, Locks
<1>7. Room
  <2>1. Cardinality(Handling) = 0
    BY <1>6, FS_EmptySet
  <2> QED
    BY <2>1, Counts DEF Room
<1>8. Entitled
  <2> SUFFICES ASSUME NEW k \in Keys
               PROVE  Cardinality(Ordered(k)) + Cardinality(Handlers(k)) + Opened(k)
                        <= 1 + slips[k]
    BY DEF Entitled
  <2>1. Ordered(k) = {} /\ Handlers(k) = {}
    BY <1>6 DEF StoreInit, Ordered
  <2>2. Cardinality(Ordered(k)) = 0 /\ Cardinality(Handlers(k)) = 0
    BY <2>1, FS_EmptySet
  <2>3. Opened(k) = 1 /\ slips[k] = 0
    BY DEF StoreInit, Opened
  <2> QED
    BY <2>2, <2>3
<1>9. NothingSoldTwice
  <2> SUFFICES ASSUME NEW p \in Products
               PROVE  Put(line, p) + Sold(made, p) <= asked[p]
    BY SoldTwice
  <2>1. Put(line, p) = 0
    <3> DEFINE f == [s \in Sessions |-> line[s][p]]
    <3>1. \A s \in Sessions : f[s] = 0
      BY DEF StoreInit, Empty
    <3>2. Put(line, p) = SumFunctionOnSet(f, Sessions)
      BY DEF Put
    <3> HIDE DEF f
    <3> QED
      BY <3>1, <3>2, StorefrontConstants, SumOfZeros
  <2>2. Sold(made, p) = 0
    <3> DEFINE f == [o \in Orders |-> SoldBy(made[o], p)]
    <3>1. \A o \in Orders : f[o] = 0
      BY DEF StoreInit, SoldBy
    <3>2. Sold(made, p) = SumFunctionOnSet(f, Orders)
      BY DEF Sold
    <3> HIDE DEF f
    <3> QED
      BY <3>1, <3>2, StorefrontConstants, SumOfZeros
  <2>3. asked[p] = 0
    BY DEF StoreInit, Empty
  <2> QED
    BY <2>1, <2>2, <2>3
<1> QED
  BY <1>1, <1>3, <1>4, <1>6, <1>7, <1>8, <1>9 DEF SInv

LEMMA SInvStep == SInv /\ [StoreNext]_shopVars => SInv'
<1> SUFFICES ASSUME SInv, [StoreNext]_shopVars PROVE SInv'
  OBVIOUS
<1>1. CASE UNCHANGED shopVars
  <2>1. UNCHANGED storeVars /\ UNCHANGED stockVars
    BY <1>1 DEF shopVars
  <2>2. StockTypeOK'
    BY <2>1 DEF SInv, StockTypeOK, stockVars, Exists
  <2> QED
    BY <2>1, <2>2, StockMoves
<1>2. ASSUME NEW s \in Sessions, CreateCart(s)
      PROVE  SInv'
  BY <1>2, CartCreated
<1>3. ASSUME NEW t \in Tabs, NEW s \in Sessions, NEW p \in Products,
             NEW q \in Quantities, AddBegin(t, s, p, q)
      PROVE  SInv'
  BY <1>3, AddBegins
<1>4. ASSUME NEW t \in Tabs, NEW g \in Sessions, NEW u \in Sessions,
             MergeBegin(t, g, u)
      PROVE  SInv'
  BY <1>4, MergeBegins
<1>5. ASSUME NEW t \in Tabs, NEW k \in Keys, NEW s \in Sessions, Post(t, k, s)
      PROVE  SInv'
  BY <1>5, Posting
<1>6. ASSUME NEW t \in Tabs, Proceeds(t)
      PROVE  SInv'
  <2>1. CASE AddEnd(t)
    BY <2>1, Adding
  <2>2. CASE MergeLines(t)
    BY <2>2, MergeTakes
  <2>3. CASE MergeCommit(t)
    BY <2>3, MergeCommits
  <2>4. ASSUME NEW s \in Sessions, NEW hosted \in BOOLEAN, Place(t, s, hosted)
        PROVE  SInv'
    BY <2>4, Placing
  <2>5. CASE Refuses(t) \/ Breaks(t) \/ HookRaises(t) \/ Answer(t)
    BY <2>5, Refusing
  <2>6. CASE Hooks(t)
    BY <2>6, Hooking
  <2> QED
    BY <1>6, <2>1, <2>2, <2>3, <2>4, <2>5, <2>6 DEF Proceeds
<1>7. ASSUME NEW t \in Tabs, Dies(t)
      PROVE  SInv'
  BY <1>7, Dying
<1>8. ASSUME NEW s \in Sessions, DropCart(s)
      PROVE  SInv'
  BY <1>8, CartDropped
<1>9. ASSUME NEW s \in Sessions, NEW p \in Products, DropLine(s, p)
      PROVE  SInv'
  BY <1>9, LineDropped
<1>10. ASSUME NEW k \in Keys, Lapse(k)
       PROVE  SInv'
  BY <1>10, Lapsing
<1>11. ASSUME NEW o \in Orders, Paid(o)
       PROVE  SInv'
  BY <1>11, Paying
<1>12. CASE \/ \E s \in Sessions, p \in Products, r \in Reservations : ReserveCart(s, p, r)
            \/ \E r \in Reservations : ReleaseOwn(r)
            \/ \E p \in Products, delta \in AdminDeltas : Corrects(p, delta)
            \/ Sweeps \/ Ticks
  BY <1>12, Stocking
<1> QED
  BY <1>1, <1>2, <1>3, <1>4, <1>5, <1>6, <1>7, <1>8, <1>9, <1>10, <1>11, <1>12
     DEF StoreNext

LEMMA SInvAlways == StoreSpec => []SInv
  BY SInvInit, SInvStep, PTL DEF StoreSpec

\* The rows are well formed, and the units a shopper has put into carts are in
\* a cart or sold by an order once at most, however the requests of the tabs,
\* the logins that merge, the deletions of carts, retries and crashes
\* interleave (run storefront).
THEOREM StorefrontIsSound == StoreSpec => []StoreIsSound
  BY SInvAlways, SInvSound, PTL

\* A key makes one order at most, and one more for each lapse of its marker or
\* failed hook (run storefront).
THEOREM StorefrontKeyedOnce == StoreSpec => []KeyedOnce
  BY SInvAlways, SInvSound, PTL

\* A checkout that its validation let through takes no product below zero,
\* though holds of other carts, corrections and sweeps came before (run
\* storefront).
THEOREM StorefrontNeverOversells == StoreSpec => []StockTypeOK
<1>1. SInv => StockTypeOK
  BY DEF SInv
<1> QED
  BY <1>1, SInvAlways, PTL

=============================================================================
