---------------------------- MODULE StockManager ----------------------------
(***************************************************************************)
(* order/stock.py: StockManager, the only code that moves physical stock   *)
(* (Product.stock) and the temporary holds of a checkout                   *)
(* (StockReservation), and the periodic task that sweeps lapsed holds.     *)
(*                                                                         *)
(* Every operation of the class is one database transaction that locks the *)
(* product row, hence one action here; Checkout.tla composes several into  *)
(* one longer transaction.  The sweep is two actions: it reads the lapsed  *)
(* rows without a lock and updates them by id in a later statement.        *)
(*                                                                         *)
(* A hold carries the time it has left instead of expires_at, so the clock *)
(* needs no bound: the code compares expires_at with now and nothing else. *)
(***************************************************************************)
EXTENDS Integers, FiniteSets, Functions

CONSTANTS
  Products,       \* rows of product.Product
  Reservations,   \* primary keys StockReservation can use
  Sessions,       \* cart UUIDs (StockReservation.session_id)
  Orders,         \* primary keys Order can use
  NoReservation,  \* a primary key not used yet
  NoOrder,        \* NULL in StockReservation.order
  InitStock,      \* Product.stock at the start
  MaxQty,         \* largest quantity of one call
  MaxStock,       \* bound on stock[p]
  TTL,            \* STOCK_RESERVATION_TTL_MINUTES, in clock units
  Grain,          \* clock units one tick advances
  RespectModes,   \* values of respect_reservations the callers pass
  AdminDeltas     \* signed corrections an admin's order item edit applies

\* Quantities and times are whole; a minute of TTL at least; a table has as
\* many rows as it has keys.
ASSUME StockConstants ==
  /\ IsFiniteSet(Reservations)
  /\ InitStock \in [Products -> Nat]
  /\ MaxQty \in Nat \ {0} /\ TTL \in Nat \ {0} /\ Grain \in Nat \ {0}
  /\ MaxStock \in Nat
  /\ RespectModes \subseteq BOOLEAN
  /\ AdminDeltas \subseteq Int
  /\ NoOrder \notin Orders

VARIABLES
  stock,   \* Product.stock, by product
  res,     \* StockReservation rows, by primary key
  sweep    \* ids a running cleanup has read and not yet updated

stockVars == <<stock, res, sweep>>

Quantities == 1 .. MaxQty

Reservation ==
  [product : Products, quantity : Quantities, session : Sessions,
   left : Int, consumed : BOOLEAN, order : Orders \cup {NoOrder}]

\* A key without a row reads as no row.
ASSUME NoRow == NoReservation \notin Reservation

-----------------------------------------------------------------------------
\* Readings of the reservation table.

Exists(r) == res[r] # NoReservation

Open(r) == Exists(r) /\ ~res[r].consumed

\* The rows the queries filter: consumed = False and expires_at > now.
Active(r) == Open(r) /\ res[r].left > 0

\* StockReservation.is_expired: now > expires_at.
IsExpired(r) == res[r].left < 0

Units(rs) == SumFunction([r \in rs |-> res[r].quantity])

Holds(p) == {r \in Reservations : Active(r) /\ res[r].product = p}

-----------------------------------------------------------------------------
StockInit ==
  /\ stock = InitStock
  /\ res = [r \in Reservations |-> NoReservation]
  /\ sweep = {}

\* Write physical stock (its StockLog row is a trail nothing reads).
Move(p, q) == stock' = [stock EXCEPT ![p] = @ + q]

\* UPDATE .. SET consumed, order_id.
Consume(rs, o) ==
  res' = [r \in Reservations |->
            IF r \in rs THEN [res[r] EXCEPT !.consumed = TRUE, !.order = o]
                        ELSE res[r]]

\* reserve_stock: what the active holds leave free covers the request.
ReserveStock(r, p, q, s) ==
  /\ ~Exists(r)
  /\ stock[p] - Units(Holds(p)) >= q
  /\ res' = [res EXCEPT ![r] =
               [product |-> p, quantity |-> q, session |-> s, left |-> TTL,
                consumed |-> FALSE, order |-> NoOrder]]
  /\ UNCHANGED <<stock, sweep>>

\* release_reservation: refused when missing or consumed, whatever the clock.
ReleaseReservation(r) ==
  /\ Open(r)
  /\ Consume({r}, res[r].order)
  /\ UNCHANGED <<stock, sweep>>

\* convert_reservation_to_sale: the checks on the row it locks.
Convertible(r) == Open(r) /\ ~IsExpired(r)

ConvertReservationToSale(r, o) ==
  /\ Convertible(r)
  /\ stock[res[r].product] >= res[r].quantity
  /\ Move(res[r].product, -res[r].quantity)
  /\ Consume({r}, o)
  /\ UNCHANGED sweep

\* decrement_stock; Product.stock is a PositiveIntegerField.
DecrementStock(p, q, respect) ==
  /\ stock[p] - (IF respect THEN Units(Holds(p)) ELSE 0) >= q
  /\ stock[p] >= q
  /\ Move(p, -q)
  /\ UNCHANGED <<res, sweep>>

IncrementStock(p, q) ==
  /\ stock[p] + q <= MaxStock
  /\ Move(p, q)
  /\ UNCHANGED <<res, sweep>>

\* adjust_stock: the row is floored at zero.
AdjustStock(p, delta) ==
  /\ delta # 0
  /\ stock[p] + delta <= MaxStock
  /\ stock' = [stock EXCEPT ![p] = IF @ + delta < 0 THEN 0 ELSE @ + delta]
  /\ UNCHANGED <<res, sweep>>

\* Mutant: the sweep waits a whole TTL more than a hold can be overdue.
SweepableTooLate(r) == Open(r) /\ res[r].left < -TTL

\* cleanup_expired_reservations, first statement: SELECT, no lock.
Sweepable(r) == Open(r) /\ res[r].left < 0

CleanupRead ==
  /\ sweep = {}
  /\ \E r \in Reservations : Sweepable(r)
  /\ sweep' = {r \in Reservations : Sweepable(r)}
  /\ UNCHANGED <<stock, res>>

\* Second statement: UPDATE .. WHERE id IN (..), whatever became of the rows.
CleanupWrite ==
  /\ sweep # {}
  /\ res' = [r \in Reservations |->
               IF r \in sweep THEN [res[r] EXCEPT !.consumed = TRUE]
                              ELSE res[r]]
  /\ sweep' = {}
  /\ UNCHANGED stock

Cleanup == CleanupRead \/ CleanupWrite

\* The clock: every hold has Grain less left; below zero all are alike.
Tick ==
  /\ res' = [r \in Reservations |->
               IF Exists(r)
               THEN [res[r] EXCEPT !.left = IF @ < Grain THEN -1 ELSE @ - Grain]
               ELSE res[r]]
  /\ UNCHANGED <<stock, sweep>>

-----------------------------------------------------------------------------
\* The operations called one by one, each in a transaction of its own.
StockNext ==
  \/ \E r \in Reservations, p \in Products, q \in Quantities, s \in Sessions :
       ReserveStock(r, p, q, s)
  \/ \E r \in Reservations : ReleaseReservation(r)
  \/ \E r \in Reservations, o \in Orders : ConvertReservationToSale(r, o)
  \/ \E p \in Products, q \in Quantities, respect \in RespectModes :
       DecrementStock(p, q, respect)
  \/ \E p \in Products, q \in Quantities : IncrementStock(p, q)
  \/ \E p \in Products, delta \in AdminDeltas : AdjustStock(p, delta)
  \/ Cleanup
  \/ Tick

StockSpec == StockInit /\ [][StockNext]_stockVars

-----------------------------------------------------------------------------
\* Every row has the shape its model declares, and a sweep only names rows
\* that exist.
StockTypeOK ==
  /\ stock \in [Products -> Nat]
  /\ res \in [Reservations -> Reservation \cup {NoReservation}]
  /\ sweep \subseteq {r \in Reservations : Exists(r)}

\* A hold is a promise: while every caller respects the holds and nobody
\* corrects stock by hand, the units of the active holds of a product are on
\* the shelf, however reserve, convert, release, shortfall sale and sweep
\* interleave.  The clock must not stop at left = 0 for it (Grain does not
\* divide TTL): at the instant expires_at a hold is not counted by the queries
\* and still convertible, and its conversion can take another hold's units.
HoldsBacked == \A p \in Products : Units(Holds(p)) <= stock[p]

\* A closed hold stays closed and keeps the order it was sold to (or none):
\* no later release, sale or sweep takes it again.
ClosedForGood ==
  [][\A r \in Reservations :
       Exists(r) /\ res[r].consumed
         => res'[r].consumed /\ res'[r].order = res[r].order]_stockVars

\* Every hold is eventually closed, by its owner or by the sweep.
HoldsEnd == \A r \in Reservations : Open(r) ~> ~Open(r)

=============================================================================
