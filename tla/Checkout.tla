------------------------------ MODULE Checkout ------------------------------
(***************************************************************************)
(* Request threads that check a cart out, cancel an order or reserve and   *)
(* release holds, on the database of StockManager.                         *)
(*                                                                         *)
(* OrderService.create_order_from_cart(_offline) is one transaction over   *)
(* several calls of StockManager (_consume_stock_for_order), and           *)
(* cancel_order is another.  PostgreSQL runs them READ COMMITTED: a row a  *)
(* transaction locked stays locked until it ends, what it wrote shows to   *)
(* the others at its commit.  So a thread keeps its uncommitted writes in  *)
(* its own record, tx[w], and Commit applies them.  The product lock also  *)
(* stands for the hold rows of that product: every statement that locks a  *)
(* hold locks its product in the same call.                                *)
(***************************************************************************)
EXTENDS StockManager

CONSTANTS
  Workers,    \* request threads
  NoWorker,   \* a free row lock
  NoProduct,  \* a thread that works on no product
  NoSession,  \* a thread that serves no cart
  InitCart,   \* the carts' lines at the start
  EditQtys,   \* quantities a cart update may write, 0 deletes the line
  KeepModes,  \* values Order.awaits_online_payment may have at step 7 / 8
  Victims     \* transactions PostgreSQL may pick to break a lock cycle

\* The carts' lines and the edits stay within MaxQty; the null values are none
\* of the rows.
ASSUME CheckoutConstants ==
  /\ IsFiniteSet(Orders)
  /\ InitCart \in [Sessions -> [Products -> 0 .. MaxQty]]
  /\ EditQtys \subseteq 0 .. MaxQty /\ KeepModes \subseteq BOOLEAN
  /\ Victims \subseteq {"checkout", "cancel"}
  /\ NoWorker \notin Workers /\ NoProduct \notin Products
  /\ NoSession \notin Sessions

VARIABLES
  cart,     \* CartItem.quantity by cart and product, 0 for no line
  editing,  \* carts with an update request past its Cart row write
  orders,   \* Order rows: what was sold, what was refunded, the status
  lock,     \* the transaction that holds the row lock of a product
  tx        \* the request each thread runs and its uncommitted writes

vars == <<stock, res, sweep, cart, editing, orders, lock, tx>>
dbVars == <<stock, res, sweep, cart, editing, orders>>

Basket == [Products -> 0 .. MaxQty]
Zero == [p \in Products |-> 0]

OrderRow == [qty : Basket, refunded : Basket,
             status : {"PENDING", "CANCELED", "DELIVERED"}]

\* A key without an order reads as no row.
ASSUME NoOrderRow == NoOrder \notin OrderRow

Transaction ==
  [pc : {"idle", "reserving", "failing", "validated", "locking", "consuming",
         "converting", "restocking"},
   cart : Sessions \cup {NoSession}, order : Orders \cup {NoOrder},
   basket : Basket, owed : Basket, move : [Products -> Int],
   snap : SUBSET Reservations, sold : SUBSET Reservations,
   freed : SUBSET Reservations, at : Products \cup {NoProduct},
   pick : Reservations \cup {NoReservation}]

Idle == [pc |-> "idle", cart |-> NoSession, order |-> NoOrder,
         basket |-> Zero, owed |-> Zero, move |-> Zero, snap |-> {},
         sold |-> {}, freed |-> {}, at |-> NoProduct, pick |-> NoReservation]

InCheckout(w) ==
  tx[w].pc \in {"validated", "locking", "consuming", "converting"}
ItemLocked(s, p) ==
  \E w \in Workers :
    /\ tx[w].cart = s
    /\ \/ tx[w].pc = "locking" /\ (tx[w].at = p \/ tx[w].owed[p] > 0)
       \/ tx[w].pc \in {"consuming", "converting"}
CartLocked(s) == \E w \in Workers : tx[w].cart = s /\ InCheckout(w)

Lines(s) == {p \in Products : cart[s][p] > 0}
Owes(w, p, n) == [tx[w].owed EXCEPT ![p] = n]
Moved(w, p, n) == [tx[w].move EXCEPT ![p] = @ + n]
Owing(w) == {p \in Products : tx[w].owed[p] > 0}
Unread(w, p) == {r \in tx[w].snap : res[r].product = p}
Free(p) == lock[p] = NoWorker
CanLock(w, p) == lock[p] \in {NoWorker, w}
Unlock(w) == lock' = [p \in Products |-> IF lock[p] = w THEN NoWorker ELSE lock[p]]
\* Mutant: a request ends and leaves its transaction open.
FinishOpen(w) == tx' = [tx EXCEPT ![w] = Idle] /\ UNCHANGED lock
Finish(w) == tx' = [tx EXCEPT ![w] = Idle] /\ Unlock(w)

Init ==
  /\ StockInit
  /\ cart = InitCart
  /\ editing = {}
  /\ orders = [o \in Orders |-> NoOrder]
  /\ lock = [p \in Products |-> NoWorker]
  /\ tx = [w \in Workers |-> Idle]

-----------------------------------------------------------------------------
\* CartViewSet.reserve_stock: one transaction per line, and when a line is
\* refused every hold of this request is released again.

Unused == {r \in Reservations : ~Exists(r)}
LinesToCome ==
  {line \in Workers \X Products :
     /\ tx[line[1]].pc \in {"reserving", "failing"}
     /\ tx[line[1]].owed[line[2]] > 0}

BeginReserve(w, s) ==
  /\ tx[w] = Idle /\ ~CartLocked(s) /\ Lines(s) # {}
  /\ Cardinality(Lines(s)) + Cardinality(LinesToCome) <= Cardinality(Unused)
  /\ tx' = [tx EXCEPT ![w] = [Idle EXCEPT !.pc = "reserving", !.cart = s,
                                          !.owed = cart[s]]]
  /\ UNCHANGED <<dbVars, lock>>

ReserveLine(w, p) ==
  /\ tx[w].pc \in {"reserving", "failing"} /\ tx[w].owed[p] > 0 /\ Free(p)
  /\ Unused # {}
  /\ LET r == CHOOSE r \in Reservations : ~Exists(r)
     IN  /\ ReserveStock(r, p, tx[w].owed[p], tx[w].cart)
         /\ tx' = [tx EXCEPT ![w] = [@ EXCEPT !.owed = Owes(w, p, 0),
                                              !.snap = tx[w].snap \cup {r}]]
  /\ UNCHANGED <<cart, editing, orders, lock>>

LineRefused(w, p) ==
  /\ tx[w].pc \in {"reserving", "failing"} /\ tx[w].owed[p] > 0 /\ Free(p)
  /\ stock[p] - Units(Holds(p)) < tx[w].owed[p]
  /\ tx' = [tx EXCEPT ![w] = [@ EXCEPT !.owed = Owes(w, p, 0),
                                       !.pc = "failing"]]
  /\ UNCHANGED <<dbVars, lock>>

ReserveAnswered(w) ==
  /\ \/ tx[w].pc = "reserving" /\ Owing(w) = {}
     \/ tx[w].pc = "failing" /\ Owing(w) = {} /\ tx[w].snap = {}
  /\ tx' = [tx EXCEPT ![w] = Idle]
  /\ UNCHANGED <<dbVars, lock>>

\* The rollback; a hold that is already consumed is only logged.
UndoLine(w, r) ==
  /\ tx[w].pc = "failing" /\ Owing(w) = {} /\ r \in tx[w].snap
  /\ Free(res[r].product)
  /\ \/ ReleaseReservation(r)
     \/ ~Open(r) /\ UNCHANGED stockVars
  /\ tx' = [tx EXCEPT ![w] = [@ EXCEPT !.snap = tx[w].snap \ {r}]]
  /\ UNCHANGED <<cart, editing, orders, lock>>

\* CartViewSet.release_reservations, and StockManager.release_reservation for
\* one of its ids; the next id is another such step.
ClientRelease(r) ==
  /\ Exists(r) /\ Free(res[r].product)
  /\ ReleaseReservation(r)
  /\ UNCHANGED <<cart, editing, orders, lock, tx>>

\* A cart item request: CartService.__init__ writes the Cart row
\* (refresh_last_activity), so it waits for a checkout of that cart ..
EditBegin(s) ==
  /\ EditQtys # {} /\ s \notin editing /\ ~CartLocked(s)
  /\ editing' = editing \cup {s}
  /\ UNCHANGED <<stock, res, sweep, cart, orders, lock, tx>>

\* .. and writes the line in a later statement.  A new line's foreign key
\* needs the Cart row, a changed or deleted one only its own row.
EditWrite(s, p, q) ==
  /\ s \in editing /\ cart[s][p] # q
  /\ IF cart[s][p] = 0 THEN ~CartLocked(s) ELSE ~ItemLocked(s, p)
  /\ cart' = [cart EXCEPT ![s][p] = q]
  /\ editing' = editing \ {s}
  /\ UNCHANGED <<stock, res, sweep, orders, lock, tx>>

-----------------------------------------------------------------------------
\* create_order_from_cart and create_order_from_cart_offline.

\* get_available_stock with exclude_session_id = s.
Available(p, s) ==
  LET free == stock[p] - Units({r \in Holds(p) : res[r].session # s})
  IN  IF free < 0 THEN 0 ELSE free

\* Lock the Cart row and validate_cart_for_checkout; a cart that fails is
\* refused and nothing changes.  The payment amount is checked against these
\* lines.
BeginCheckout(w, s, o) ==
  /\ tx[w] = Idle /\ ~CartLocked(s)
  /\ orders[o] = NoOrder /\ \A v \in Workers : tx[v].order # o
  /\ Lines(s) # {} /\ \A p \in Lines(s) : Available(p, s) >= cart[s][p]
  /\ tx' = [tx EXCEPT ![w] = [Idle EXCEPT !.pc = "validated", !.cart = s,
                                          !.order = o, !.basket = cart[s]]]
  /\ UNCHANGED <<dbVars, lock>>

\* After the provider call: the session's open holds, read without a lock.
ReadHolds(w) ==
  /\ tx[w].pc = "validated"
  /\ tx' = [tx EXCEPT ![w] =
       [@ EXCEPT !.pc = "locking",
                 !.snap = {r \in Reservations :
                             Open(r) /\ res[r].session = tx[w].cart}]]
  /\ UNCHANGED <<dbVars, lock>>

\* The cart's lines, read again.  FOR UPDATE of the join locks the item's row
\* and its product's, line by line.
PickLine(w, p) ==
  /\ tx[w].pc = "locking" /\ tx[w].at = NoProduct
  /\ p \in Lines(tx[w].cart) /\ tx[w].owed[p] = 0
  /\ tx' = [tx EXCEPT ![w] = [@ EXCEPT !.at = p]]
  /\ UNCHANGED <<dbVars, lock>>

LockLine(w) ==
  /\ tx[w].pc = "locking" /\ tx[w].at # NoProduct /\ CanLock(w, tx[w].at)
  /\ LET p == tx[w].at
     IN  /\ tx' = [tx EXCEPT ![w] =
                     [@ EXCEPT !.at = NoProduct,
                               !.owed = Owes(w, p, cart[tx[w].cart][p])]]
         /\ lock' = [lock EXCEPT ![p] = w]
  /\ UNCHANGED dbVars

AllLocked(w) ==
  /\ tx[w].pc = "locking" /\ tx[w].at = NoProduct
  /\ Lines(tx[w].cart) \subseteq Owing(w)

\* Mutant: the order's items are the lines that were validated, the stock is
\* taken for the lines as they are now.
KeepsValidated(w) ==
  /\ AllLocked(w)
  /\ tx' = [tx EXCEPT ![w] = [@ EXCEPT !.pc = "consuming"]]
  /\ UNCHANGED <<dbVars, lock>>

\* The order and its items are made of the lines just read.
PlaceItems(w) ==
  /\ AllLocked(w)
  /\ tx' = [tx EXCEPT ![w] = [@ EXCEPT !.pc = "consuming", !.basket = tx[w].owed]]
  /\ UNCHANGED <<dbVars, lock>>

\* The outer loop: the next product of the cart, and when none is owed any
\* more a product whose holds are left over.
NextProduct(w, p) ==
  /\ tx[w].pc \in {"consuming", "restocking"}
  /\ LET at == tx[w].at
     IN  at # NoProduct => tx[w].owed[at] = 0 /\ Unread(w, at) = {}
  /\ p \in Owing(w) \/ (Owing(w) = {} /\ Unread(w, p) # {})
  /\ tx' = [tx EXCEPT ![w] = [@ EXCEPT !.at = p]]
  /\ UNCHANGED <<dbVars, lock>>

Fits(w, r) ==
  ~IsExpired(r) /\ res[r].quantity <= tx[w].owed[tx[w].at]

\* _release: a surplus, lapsed, overshooting or left-over hold; one that was
\* closed meanwhile is only logged.
FreeHold(w, r) ==
  /\ tx[w].pc = "consuming" /\ tx[w].at # NoProduct /\ r \in Unread(w, tx[w].at)
  /\ ~Fits(w, r) /\ CanLock(w, tx[w].at)
  /\ IF Open(r)
     THEN /\ tx' = [tx EXCEPT ![w] = [@ EXCEPT !.snap = tx[w].snap \ {r},
                                               !.freed = tx[w].freed \cup {r}]]
          /\ lock' = [lock EXCEPT ![tx[w].at] = w]
     ELSE /\ tx' = [tx EXCEPT ![w] = [@ EXCEPT !.snap = tx[w].snap \ {r}]]
          /\ UNCHANGED lock
  /\ UNCHANGED dbVars

\* The hold fits on the clock's first reading ..
PickHold(w, r) ==
  /\ tx[w].pc = "consuming" /\ tx[w].at # NoProduct /\ r \in Unread(w, tx[w].at)
  /\ Fits(w, r)
  /\ tx' = [tx EXCEPT ![w] = [@ EXCEPT !.pc = "converting", !.pick = r]]
  /\ UNCHANGED <<dbVars, lock>>

OnShelf(w, p) == stock[p] + tx[w].move[p]

\* Mutant: the already-consumed check reads the list of ReadHolds, not the row.
CanConvertStale(w) ==
  OnShelf(w, tx[w].at) >= res[tx[w].pick].quantity

CanConvert(w) ==
  Convertible(tx[w].pick)
    /\ OnShelf(w, tx[w].at) >= res[tx[w].pick].quantity

\* Mutant: the converted units are not counted as covered, so the shortfall
\* takes them a second time.
ConvertUncounted(w) ==
  /\ tx[w].pc = "converting" /\ CanLock(w, tx[w].at) /\ CanConvert(w)
  /\ LET p == tx[w].at
         r == tx[w].pick
     IN  /\ tx' = [tx EXCEPT ![w] =
                     [@ EXCEPT !.pc = "consuming", !.pick = NoReservation,
                               !.move = Moved(w, p, -res[r].quantity),
                               !.sold = tx[w].sold \cup {r}, !.snap = tx[w].snap \ {r}]]
         /\ lock' = [lock EXCEPT ![p] = w]
  /\ UNCHANGED dbVars

\* .. and convert_reservation_to_sale reads the row and the clock again.
ConvertHold(w) ==
  /\ tx[w].pc = "converting" /\ CanLock(w, tx[w].at) /\ CanConvert(w)
  /\ LET p == tx[w].at
         r == tx[w].pick
         q == res[r].quantity
     IN  /\ tx' = [tx EXCEPT ![w] =
                     [@ EXCEPT !.pc = "consuming", !.pick = NoReservation,
                               !.move = Moved(w, p, -q),
                               !.owed = Owes(w, p, tx[w].owed[p] - q),
                               !.sold = tx[w].sold \cup {r}, !.snap = tx[w].snap \ {r}]]
         /\ lock' = [lock EXCEPT ![p] = w]
  /\ UNCHANGED dbVars

ConvertRaises(w) ==
  /\ tx[w].pc = "converting" /\ CanLock(w, tx[w].at) /\ ~CanConvert(w)
  /\ Finish(w)
  /\ UNCHANGED dbVars

\* What decrement_stock(respect_reservations=True) finds, its own
\* transaction's writes included.
FreeUnits(w, p) ==
  OnShelf(w, p) - Units(Holds(p) \ (tx[w].sold \cup tx[w].freed))

ShortfallDue(w) ==
  /\ tx[w].pc = "consuming" /\ tx[w].at # NoProduct
  /\ tx[w].at \in Owing(w) /\ Unread(w, tx[w].at) = {} /\ CanLock(w, tx[w].at)

\* Mutant: the shortfall ignores the holds of the other shoppers.
TakeFromHolds(w) ==
  /\ ShortfallDue(w)
  /\ LET p == tx[w].at
         q == tx[w].owed[p]
     IN  /\ OnShelf(w, p) >= q
         /\ tx' = [tx EXCEPT ![w] = [@ EXCEPT !.move = Moved(w, p, -q),
                                              !.owed = Owes(w, p, 0)]]
         /\ lock' = [lock EXCEPT ![p] = w]
  /\ UNCHANGED dbVars

TakeShortfall(w) ==
  /\ ShortfallDue(w)
  /\ LET p == tx[w].at
         q == tx[w].owed[p]
     IN  /\ FreeUnits(w, p) >= q /\ OnShelf(w, p) >= q
         /\ tx' = [tx EXCEPT ![w] = [@ EXCEPT !.move = Moved(w, p, -q),
                                              !.owed = Owes(w, p, 0)]]
         /\ lock' = [lock EXCEPT ![p] = w]
  /\ UNCHANGED dbVars

ShortfallRaises(w) ==
  /\ ShortfallDue(w)
  /\ FreeUnits(w, tx[w].at) < tx[w].owed[tx[w].at]
  /\ Finish(w)
  /\ UNCHANGED dbVars

\* COMMIT: the order and its items, the stock, the holds; and the cart's
\* lines go unless the shopper still owes an online payment.
CommitCheckout(w, keep) ==
  /\ tx[w].pc = "consuming" /\ Owing(w) = {} /\ tx[w].snap = {}
  /\ LET t == tx[w]
     IN  /\ stock' = [p \in Products |-> stock[p] + t.move[p]]
         /\ res' = [r \in Reservations |->
                      IF r \in t.sold
                      THEN [res[r] EXCEPT !.consumed = TRUE, !.order = t.order]
                      ELSE IF r \in t.freed
                      THEN [res[r] EXCEPT !.consumed = TRUE]
                      ELSE res[r]]
         /\ orders' = [orders EXCEPT ![t.order] =
                         [qty |-> t.basket, refunded |-> Zero,
                          status |-> "PENDING"]]
         /\ cart' = IF keep THEN cart ELSE [cart EXCEPT ![t.cart] = Zero]
  /\ Finish(w)
  /\ UNCHANGED <<sweep, editing>>

-----------------------------------------------------------------------------
\* OrderService.cancel_order.  It first releases the holds the order was made
\* from: they are all consumed, which release_reservation refuses and
\* cancel_order ignores, so that part changes nothing.

\* Mutant: can_be_canceled is not checked under the order's lock.
CancelAnyway(w, o) ==
  /\ tx[w] = Idle /\ orders[o] # NoOrder
  /\ \A v \in Workers : tx[v].order # o
  /\ tx' = [tx EXCEPT ![w] = [Idle EXCEPT !.pc = "restocking", !.order = o,
                                          !.owed = orders[o].qty]]
  /\ UNCHANGED <<dbVars, lock>>

BeginCancel(w, o) ==
  /\ tx[w] = Idle /\ orders[o] # NoOrder /\ orders[o].status = "PENDING"
  /\ \A v \in Workers : tx[v].order # o
  /\ tx' = [tx EXCEPT ![w] = [Idle EXCEPT !.pc = "restocking", !.order = o,
                                          !.owed = orders[o].qty]]
  /\ UNCHANGED <<dbVars, lock>>

RestockItem(w) ==
  /\ tx[w].pc = "restocking" /\ tx[w].at \in Owing(w) /\ CanLock(w, tx[w].at)
  /\ LET p == tx[w].at
         q == tx[w].owed[p]
     IN  /\ tx' = [tx EXCEPT ![w] = [@ EXCEPT !.move = Moved(w, p, q),
                                              !.owed = Owes(w, p, 0)]]
         /\ lock' = [lock EXCEPT ![p] = w]
  /\ UNCHANGED dbVars

\* Mutant: the status is written, the stock is not.
CancelStatusOnly(w) ==
  /\ tx[w].pc = "restocking" /\ Owing(w) = {}
  /\ orders' = [orders EXCEPT ![tx[w].order] = [@ EXCEPT !.status = "CANCELED"]]
  /\ Finish(w)
  /\ UNCHANGED <<stock, res, sweep, cart, editing>>

CommitCancel(w) ==
  /\ tx[w].pc = "restocking" /\ Owing(w) = {}
  /\ stock' = [p \in Products |-> stock[p] + tx[w].move[p]]
  /\ orders' = [orders EXCEPT ![tx[w].order] = [@ EXCEPT !.status = "CANCELED"]]
  /\ Finish(w)
  /\ UNCHANGED <<res, sweep, cart, editing>>

\* PostgreSQL's deadlock detector: every thread of S waits for a product
\* another one of S holds.
Waits(w) ==
  /\ tx[w].pc \in {"locking", "consuming", "restocking"}
  /\ tx[w].at # NoProduct /\ ~CanLock(w, tx[w].at)

Deadlocked(w) ==
  \E S \in SUBSET Workers :
    /\ w \in S /\ \A v \in S : Waits(v)
    /\ {lock[tx[v].at] : v \in S} = S

\* A checkout that is picked rolls back.
CheckoutVictim(w) ==
  /\ "checkout" \in Victims /\ Deadlocked(w) /\ InCheckout(w)
  /\ Finish(w)
  /\ UNCHANGED dbVars

\* In a cancellation only increment_stock's savepoint rolls back: the error is
\* logged ("Continue with other items even if one fails").
CancelVictim(w) ==
  /\ "cancel" \in Victims /\ Deadlocked(w) /\ tx[w].pc = "restocking"
  /\ tx' = [tx EXCEPT ![w] = [@ EXCEPT !.owed = Owes(w, tx[w].at, 0),
                                       !.at = NoProduct]]
  /\ UNCHANGED <<dbVars, lock>>

\* The order is handed over (its other states do not matter here).
Deliver(o) ==
  /\ orders[o] # NoOrder /\ orders[o].status = "PENDING"
  /\ \A v \in Workers : tx[v].order # o
  /\ orders' = [orders EXCEPT ![o] = [@ EXCEPT !.status = "DELIVERED"]]
  /\ UNCHANGED <<stock, res, sweep, cart, editing, lock, tx>>

\* OrderItem.refund, under the item's row lock.
RefundItem(o, p, q) ==
  /\ orders[o] # NoOrder /\ orders[o].status = "DELIVERED" /\ Free(p)
  /\ orders[o].refunded[p] + q <= orders[o].qty[p]
  /\ IncrementStock(p, q)
  /\ orders' = [orders EXCEPT ![o] = [@ EXCEPT !.refunded =
                  [orders[o].refunded EXCEPT ![p] = orders[o].refunded[p] + q]]]
  /\ UNCHANGED <<cart, editing, lock, tx>>

\* The sweep's UPDATE waits for a row another transaction has locked.
SweepStep ==
  /\ \/ CleanupRead
     \/ CleanupWrite
        /\ \A w \in Workers : sweep \cap (tx[w].sold \cup tx[w].freed) = {}
  /\ UNCHANGED <<cart, editing, orders, lock, tx>>

TickStep == Tick /\ UNCHANGED <<cart, editing, orders, lock, tx>>

-----------------------------------------------------------------------------
\* A thread's own steps, once a request has reached it.  An offline checkout
\* takes the same ones; it only asks no provider between them.
Step(w) ==
  \/ \E p \in Products : ReserveLine(w, p) \/ LineRefused(w, p)
  \/ ReserveAnswered(w)
  \/ \E r \in Reservations : UndoLine(w, r)
  \/ ReadHolds(w)
  \/ \E p \in Products : PickLine(w, p)
  \/ LockLine(w) \/ PlaceItems(w)
  \/ \E p \in Products : NextProduct(w, p)
  \/ \E r \in Reservations : FreeHold(w, r) \/ PickHold(w, r)
  \/ ConvertHold(w) \/ ConvertRaises(w)
  \/ TakeShortfall(w) \/ ShortfallRaises(w)
  \/ \E keep \in KeepModes : CommitCheckout(w, keep)
  \/ RestockItem(w) \/ CommitCancel(w)
  \/ CheckoutVictim(w) \/ CancelVictim(w)

Request(w) ==
  \/ \E s \in Sessions : BeginReserve(w, s)
  \/ \E s \in Sessions, o \in Orders : BeginCheckout(w, s, o)
  \/ \E o \in Orders : BeginCancel(w, o)

Shopper ==
  \/ \E r \in Reservations : ClientRelease(r)
  \/ \E s \in Sessions : EditBegin(s)
  \/ \E s \in Sessions, p \in Products, q \in EditQtys : EditWrite(s, p, q)

Merchant ==
  \/ \E o \in Orders : Deliver(o)
  \/ \E o \in Orders, p \in Products, q \in Quantities : RefundItem(o, p, q)

Next ==
  \/ \E w \in Workers : Step(w) \/ Request(w)
  \/ Shopper
  \/ Merchant
  \/ SweepStep
  \/ TickStep

Spec == Init /\ [][Next]_vars

\* gunicorn keeps a request running, PostgreSQL grants row locks in the order
\* they were asked for and breaks lock cycles; time and the sweep go on.
FairSpec ==
  /\ Spec
  /\ \A w \in Workers : SF_vars(Step(w))
  /\ WF_vars(SweepStep) /\ WF_vars(TickStep)

-----------------------------------------------------------------------------
\* The rows and the threads' records have the shape the code gives them.
TypeOK ==
  /\ StockTypeOK
  /\ cart \in [Sessions -> Basket]
  /\ editing \subseteq Sessions
  /\ orders \in [Orders -> {NoOrder} \cup OrderRow]
  /\ lock \in [Products -> Workers \cup {NoWorker}]
  /\ tx \in [Workers -> Transaction]

\* Units an order keeps off the shelf.
Kept(row, p) ==
  IF row = NoOrder THEN 0
  ELSE IF row.status = "CANCELED" THEN 0
  ELSE row.qty[p] - row.refunded[p]

OnOrders(p) == SumFunction([o \in Orders |-> Kept(orders[o], p)])

\* No unit is lost or sold twice: the shelf and what the orders keep add up to
\* the stock at the start, through reservations, duplicate and lapsed holds,
\* concurrent checkouts, cancellations and refunds.
Conserved == \A p \in Products : stock[p] + OnOrders(p) = InitStock[p]

\* Where a cancellation loses a lock cycle its units stay off the shelf until an
\* admin corrects the stock; no interleaving ever puts a unit there twice.
NothingInvented == \A p \in Products : stock[p] + OnOrders(p) <= InitStock[p]

\* Two transactions never write one product, none takes more than the shelf
\* has, and a checkout that has nothing left to take has taken exactly the
\* quantities of its order's items, a cancellation put back exactly those.
OwnsWhatItMoves ==
  \A w \in Workers, p \in Products :
    /\ tx[w].move[p] # 0 => lock[p] = w
    /\ OnShelf(w, p) >= 0
TakesTheBasket ==
  \A w \in Workers : tx[w].pc \in {"consuming", "converting"} =>
    /\ orders[tx[w].order] = NoOrder
    /\ \A p \in Products : tx[w].owed[p] - tx[w].move[p] = tx[w].basket[p]
PutsBackTheBasket ==
  \A w \in Workers : tx[w].pc = "restocking" =>
    /\ orders[tx[w].order] # NoOrder /\ orders[tx[w].order].status = "PENDING"
    /\ \A p \in Products :
         tx[w].owed[p] + tx[w].move[p] = orders[tx[w].order].qty[p]
TxInv == OwnsWhatItMoves /\ TakesTheBasket /\ PutsBackTheBasket

\* create_order_from_cart as a whole is the one step its callers take it for:
\* the detailed transactions implement the atomic sale, cancellation and
\* return of Inventory.
Shelf == INSTANCE Inventory
ImplementsInventory == Shelf!InvSpec

\* Every request is answered: no thread waits for a lock for ever.
RequestsEnd == \A w \in Workers : tx[w] # Idle ~> tx[w] = Idle

=============================================================================
