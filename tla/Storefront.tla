------------------------------ MODULE Storefront ------------------------------
(***************************************************************************)
(* One shopper's carts from the first line to the order, around the        *)
(* operations of StockManager: CartService and the cart endpoints (a guest *)
(* cart that is merged at login), the checkout request behind the          *)
(* Idempotency-Key middleware, and the code that deletes carts.            *)
(*                                                                         *)
(* The statements of a request outside a transaction are actions of their  *)
(* own; tab[t] is what a running request has read.  The checkout's         *)
(* transaction is one action here; Checkout.tla has its steps.             *)
(***************************************************************************)
EXTENDS StockManager

CONSTANTS
  Guests,     \* the cart UUIDs (Sessions) a guest's cart may get,
  Accounts,   \* and those of the user's carts
  Tabs,       \* requests that run at one time
  Keys,       \* Idempotency-Key values of checkout requests
  None,
  MaxAsked,   \* bound on the units the shopper puts into carts
  MaxFaults   \* bound on requests that are killed, whose hooks fail after the
              \* commit or that outlive their marker

\* There are as many carts, orders and requests as there are keys.
ASSUME StorefrontConstants ==
  /\ IsFiniteSet(Sessions) /\ IsFiniteSet(Orders) /\ IsFiniteSet(Tabs)
  /\ Sessions = Guests \cup Accounts /\ Guests \cap Accounts = {}
  /\ MaxAsked \in 1 .. MaxQty
  /\ MaxFaults \in Nat
  /\ None \notin Sessions \cup Keys \cup Orders

VARIABLES
  used,    \* cart UUIDs there are or were
  live,    \* the Cart rows
  line,    \* CartItem.quantity, 0 for no line
  made,    \* Order rows
  cache,   \* the middleware's entry: nothing, the marker, or an answer
  tab,     \* the requests
  asked,   \* history: units the shopper has put into carts
  slips,   \* history: how often a key was opened to another execution
  faults   \* how many of MaxFaults there were

storeVars == <<used, live, line, made, cache, tab, asked, slips, faults>>
shopVars == <<stockVars, storeVars>>

Empty == [p \in Products |-> 0]
NoRequest ==
  [at |-> "idle", cart |-> None, into |-> None, key |-> None,
   order |-> None, qty |-> Empty, saw |-> Empty]

Amount == [Products -> 0 .. MaxAsked]

\* What an order has of its cart, and whether it is paid on a hosted page.
Sale ==
  [cart : Sessions, key : Keys, qty : Amount, hosted : BOOLEAN, paid : BOOLEAN]

\* A key without an order reads as no order.
ASSUME NoSale == None \notin Sale

StoreTypeOK ==
  /\ used \subseteq Sessions /\ live \subseteq used
  /\ Cardinality(live \cap Accounts) <= 1
  /\ line \in [Sessions -> Amount]
  /\ \A s \in Sessions \ live : line[s] = Empty
  /\ made \in [Orders -> {None} \cup Sale]
  /\ cache \in [Keys -> {"free", "flight", "answered"}]
  /\ tab \in [Tabs ->
       [at : {"idle", "add", "merge", "merging", "handling", "placed",
              "answering"},
        cart : Sessions \cup {None}, into : Sessions \cup {None},
        key : Keys \cup {None}, order : Orders \cup {None},
        qty : Amount, saw : Amount]]
  /\ asked \in Amount
  /\ slips \in [Keys -> Nat]
  /\ faults \in 0 .. MaxFaults

StoreInit ==
  /\ StockInit
  /\ used = {} /\ live = {}
  /\ line = [s \in Sessions |-> Empty]
  /\ made = [o \in Orders |-> None]
  /\ cache = [k \in Keys |-> "free"]
  /\ tab = [t \in Tabs |-> NoRequest]
  /\ asked = Empty /\ slips = [k \in Keys |-> 0]
  /\ faults = 0

LinesIn(s) == {p \in Products : line[s][p] > 0}

\* Mutant: the lines are read without FOR UPDATE.
LocksNone(t, s, p) == FALSE

\* Rows a merge has locked: the lines it takes, and those it adds them to.
Locks(t, s, p) ==
  /\ tab[t].at = "merging" /\ tab[t].qty[p] > 0
  /\ tab[t].cart = s \/ (tab[t].into = s /\ tab[t].saw[p] > 0)

RowLocked(s, p) == \E t \in Tabs : Locks(t, s, p)

CartFree(s) == \A p \in Products : ~RowLocked(s, p)

\* DELETE of a Cart row cascades to its lines.
Clears(ss) ==
  /\ \A s \in ss : CartFree(s)
  /\ live' = live \ ss
  /\ line' = [s \in Sessions |-> IF s \in ss THEN Empty ELSE line[s]]

-----------------------------------------------------------------------------
\* Carts and lines.

\* get_or_create_cart: a guest's is always a new row, a user has one.
CreateCart(s) ==
  /\ s \notin used
  /\ s \in Accounts => live \cap Accounts = {}
  /\ used' = used \cup {s}
  /\ live' = live \cup {s}
  /\ UNCHANGED <<stockVars, line, made, cache, tab, asked, slips, faults>>

\* Add to cart: the serializer compares the new total with the shelf ..
AddBegin(t, s, p, q) ==
  /\ tab[t] = NoRequest /\ s \in live
  /\ line[s][p] + q <= stock[p] /\ asked[p] + q <= MaxAsked
  /\ tab' = [tab EXCEPT ![t] = [NoRequest EXCEPT !.at = "add", !.cart = s,
                                  !.qty = [Empty EXCEPT ![p] = q]]]
  /\ UNCHANGED <<stockVars, used, live, line, made, cache, asked, slips, faults>>

\* .. and adds, to the line as it is then, if the cart is still there.
AddEnd(t) ==
  LET s == tab[t].cart IN
  /\ tab[t].at = "add"
  /\ \A p \in Products :
       tab[t].qty[p] > 0 => ~RowLocked(s, p) /\ asked[p] + tab[t].qty[p] <= MaxAsked
  /\ IF s \in live
       THEN /\ line' = [line EXCEPT ![s] =
                 [p \in Products |-> line[s][p] + tab[t].qty[p]]]
            /\ asked' = [p \in Products |-> asked[p] + tab[t].qty[p]]
       ELSE UNCHANGED <<line, asked>>
  /\ tab' = [tab EXCEPT ![t] = NoRequest]
  /\ UNCHANGED <<stockVars, used, live, made, cache, slips, faults>>

DropLine(s, p) ==
  /\ line[s][p] > 0 /\ ~RowLocked(s, p)
  /\ line' = [line EXCEPT ![s][p] = 0]
  /\ UNCHANGED <<stockVars, used, live, made, cache, tab, asked, slips, faults>>

\* The shopper deletes the cart, or a cleanup task finds a guest's too old.
DropCart(s) ==
  /\ s \in live /\ Clears({s})
  /\ UNCHANGED <<stockVars, used, made, cache, tab, asked, slips, faults>>

-----------------------------------------------------------------------------
\* Login.  CartService finds the guest cart of the X-Cart-Id header and the
\* user's cart, without a lock ..
MergeBegin(t, g, u) ==
  /\ tab[t] = NoRequest
  /\ g \in live \cap Guests /\ u \in live \cap Accounts
  /\ tab' = [tab EXCEPT ![t] = [NoRequest EXCEPT !.at = "merge", !.cart = g, !.into = u]]
  /\ UNCHANGED <<stockVars, used, live, line, made, cache, asked, slips, faults>>

\* .. merge_carts locks the lines there are (another merge may have had them)
\* and those of the user's cart they are added to.
CanTake(t) == CartFree(tab[t].cart) /\ CartFree(tab[t].into)

MergeLines(t) ==
  /\ tab[t].at = "merge" /\ CanTake(t)
  /\ tab' = [tab EXCEPT ![t].at = "merging", ![t].qty = line[tab[t].cart],
                        ![t].saw = line[tab[t].into]]
  /\ UNCHANGED <<stockVars, used, live, line, made, cache, asked, slips, faults>>

\* A line that is in both carts is capped at the shelf, but never emptied.
Combined(p, mine, theirs) ==
  IF mine > 0 /\ theirs > 0 /\ stock[p] > 0 /\ mine + theirs > stock[p]
    THEN stock[p] ELSE mine + theirs

\* A line moves into a cart that is gone, or beside one that was added
\* meanwhile: the constraint refuses it and the merge rolls back.
Refused(t) ==
  \E p \in Products :
    /\ tab[t].qty[p] > 0
    /\ \/ tab[t].into \notin live
       \/ tab[t].saw[p] = 0 /\ line[tab[t].into][p] > 0

\* The lines are moved and the guest cart is deleted, with lines added to it
\* since; those another merge has locked are waited for.
MergeCommit(t) ==
  LET g == tab[t].cart
      u == tab[t].into
      t0 == tab[t] IN
  /\ t0.at = "merging"
  /\ IF Refused(t)
       THEN UNCHANGED <<live, line>>
       ELSE /\ \A v \in Tabs \ {t}, p \in Products : ~Locks(v, g, p)
            /\ live' = live \ {g}
            /\ line' = [line EXCEPT ![g] = Empty,
                 ![u] = [p \in Products |->
                   IF t0.qty[p] = 0 THEN line[u][p]
                   ELSE Combined(p, t0.saw[p], t0.qty[p])]]
  /\ tab' = [tab EXCEPT ![t] = NoRequest]
  /\ UNCHANGED <<stockVars, used, made, cache, asked, slips, faults>>

-----------------------------------------------------------------------------
\* Holds are made for the session of the cart.
ReserveCart(s, p, r) ==
  /\ s \in live /\ line[s][p] > 0
  /\ ReserveStock(r, p, line[s][p], s)
  /\ UNCHANGED storeVars

\* release-reservations frees the holds of the cart of the request, and a
\* user's own: nobody can free those of a guest cart that is gone.
Owned(r) == res[r].session \in live \cup Accounts

ReleaseOwn(r) ==
  /\ Exists(r) /\ Owned(r)
  /\ ReleaseReservation(r)
  /\ UNCHANGED storeVars

-----------------------------------------------------------------------------
\* The checkout request.

\* Mutant: the middleware looks for an answer only, not for a marker.
NotAnswered(k) == cache[k] # "answered"

\* Reading the entry and reserving it is one step: cache.add fails where a
\* marker or an answer came in between, and the client gets a 409.
Reservable(k) == cache[k] = "free"

Handling == {t \in Tabs : tab[t].at = "handling"}

\* A user's request means the cart the user has when it is looked up, a guest's
\* the one its header names.
CartsFor(s) ==
  live \cap (IF s \in Accounts THEN Accounts ELSE {s})

Post(t, k, s) ==
  /\ tab[t] = NoRequest /\ s \in used /\ Reservable(k)
  /\ Cardinality(Handling) < Cardinality({o \in Orders : made[o] = None})
  /\ cache' = [cache EXCEPT ![k] = "flight"]
  /\ tab' = [tab EXCEPT ![t] = [NoRequest EXCEPT !.at = "handling", !.key = k, !.cart = s]]
  /\ UNCHANGED <<stockVars, used, live, line, made, asked, slips, faults>>

\* What other carts have not reserved of the shelf.
Sellable(p, s) ==
  stock[p] - Units({r \in Holds(p) : res[r].session # s})

\* Mutant: only the shelf is looked at when the cart is validated.
OnShelfOnly(s) == LinesIn(s) # {}

Validated(s) ==
  LinesIn(s) # {} /\ \A p \in LinesIn(s) : line[s][p] <= Sellable(p, s)

OwnHolds(s) == {r \in Reservations : Open(r) /\ res[r].session = s}

\* The holds _consume_stock_for_order converts: as many as fit, in any order.
Fit(s, rs) ==
  /\ \A r \in rs : Convertible(r)
  /\ \A p \in Products :
       LET covered == Units({r \in rs : res[r].product = p}) IN
       /\ covered <= line[s][p]
       /\ \A r \in OwnHolds(s) \ rs :
            res[r].product = p /\ Convertible(r)
              => covered + res[r].quantity > line[s][p]

\* The order that is paid at once or at the door takes the cart's lines with
\* it; one that waits for a hosted payment leaves them.
LinesKept(s, hosted) == IF hosted THEN line[s] ELSE Empty

NextOrder == CHOOSE o \in Orders : made[o] = None

\* The transaction of create_order_from_cart(_offline), under the row locks.
Place(t, s, hosted) ==
  LET o == NextOrder IN
  /\ tab[t].at = "handling" /\ s \in CartsFor(tab[t].cart)
  /\ CartFree(s) /\ Validated(s)
  /\ stock' = [p \in Products |-> stock[p] - line[s][p]]
  /\ \E rs \in SUBSET OwnHolds(s) :
       /\ Fit(s, rs)
       /\ res' = [r \in Reservations |->
            IF r \in rs THEN [res[r] EXCEPT !.consumed = TRUE, !.order = o]
            ELSE IF r \in OwnHolds(s) THEN [res[r] EXCEPT !.consumed = TRUE]
            ELSE res[r]]
  /\ line' = [line EXCEPT ![s] = LinesKept(s, hosted)]
  /\ made' = [made EXCEPT ![o] =
       [cart |-> s, key |-> tab[t].key, qty |-> line[s], hosted |-> hosted,
        paid |-> FALSE]]
  /\ tab' = [tab EXCEPT ![t].at = "placed", ![t].order = o]
  /\ UNCHANGED <<sweep, used, live, cache, asked, slips, faults>>

\* process_response stores an answer, a 400 like any other, and drops the
\* entry after a 500, whoever put it there.
Responds(t, entry) ==
  /\ cache' = [cache EXCEPT ![tab[t].key] = entry]
  /\ tab' = [tab EXCEPT ![t] = NoRequest]

Refuses(t) ==
  /\ tab[t].at = "handling"
  /\ \A s \in CartsFor(tab[t].cart) : CartFree(s) /\ ~Validated(s)
  /\ Responds(t, "answered")
  /\ UNCHANGED <<stockVars, used, live, line, made, asked, slips, faults>>

\* An error before the commit: nothing is written.
Breaks(t) ==
  /\ tab[t].at = "handling"
  /\ Responds(t, "free")
  /\ UNCHANGED <<stockVars, used, live, line, made, asked, slips, faults>>

\* After the commit the hooks run: the cart is deleted unless it was kept.
Hooks(t) ==
  /\ tab[t].at = "placed"
  /\ IF made[tab[t].order].hosted
       THEN UNCHANGED <<live, line>> ELSE Clears(CartsFor(made[tab[t].order].cart))
  /\ tab' = [tab EXCEPT ![t].at = "answering"]
  /\ UNCHANGED <<stockVars, used, made, cache, asked, slips, faults>>

\* A hook that raises (the broker is down) leaves the order, and the key opens
\* all the same.
HookRaises(t) ==
  /\ tab[t].at = "placed" /\ faults < MaxFaults
  /\ Responds(t, "free")
  /\ slips' = [slips EXCEPT ![tab[t].key] = @ + 1]
  /\ faults' = faults + 1
  /\ UNCHANGED <<stockVars, used, live, line, made, asked>>

Answer(t) ==
  /\ tab[t].at = "answering"
  /\ Responds(t, "answered")
  /\ UNCHANGED <<stockVars, used, live, line, made, asked, slips, faults>>

\* The worker is killed: the marker stays.
Dies(t) ==
  /\ tab[t].key # None /\ faults < MaxFaults
  /\ tab' = [tab EXCEPT ![t] = NoRequest]
  /\ faults' = faults + 1
  /\ UNCHANGED <<stockVars, used, live, line, made, cache, asked, slips>>

Running(k) == \E t \in Tabs : tab[t].key = k

\* The marker lapses after a minute.
Lapse(k) ==
  /\ cache[k] = "flight"
  /\ IF Running(k)
       THEN faults < MaxFaults /\ faults' = faults + 1
       ELSE UNCHANGED faults
  /\ cache' = [cache EXCEPT ![k] = "free"]
  /\ slips' = [slips EXCEPT ![k] = @ + 1]
  /\ UNCHANGED <<stockVars, used, live, line, made, tab, asked>>

-----------------------------------------------------------------------------
\* Later the hosted payment completes, and order_paid deletes the cart.
Paid(o) ==
  /\ made[o] # None /\ made[o].hosted /\ ~made[o].paid
  /\ made' = [made EXCEPT ![o].paid = TRUE]
  /\ Clears(CartsFor(made[o].cart))
  /\ UNCHANGED <<stockVars, used, cache, tab, asked, slips, faults>>

Sweeps == Cleanup /\ UNCHANGED storeVars
Ticks == Tick /\ UNCHANGED storeVars
Corrects(p, delta) == AdjustStock(p, delta) /\ UNCHANGED storeVars

-----------------------------------------------------------------------------
Proceeds(t) ==
  \/ AddEnd(t) \/ MergeLines(t) \/ MergeCommit(t)
  \/ \E s \in Sessions, hosted \in BOOLEAN : Place(t, s, hosted)
  \/ Refuses(t) \/ Hooks(t) \/ Breaks(t) \/ HookRaises(t) \/ Answer(t)

StoreNext ==
  \/ \E s \in Sessions : CreateCart(s)
  \/ \E t \in Tabs, s \in Sessions, p \in Products, q \in Quantities :
       AddBegin(t, s, p, q)
  \/ \E t \in Tabs, g \in Sessions, u \in Sessions : MergeBegin(t, g, u)
  \/ \E t \in Tabs, k \in Keys, s \in Sessions : Post(t, k, s)
  \/ \E t \in Tabs : Proceeds(t) \/ Dies(t)
  \/ \E s \in Sessions : DropCart(s) \/ \E p \in Products : DropLine(s, p)
  \/ \E s \in Sessions, p \in Products, r \in Reservations : ReserveCart(s, p, r)
  \/ \E r \in Reservations : ReleaseOwn(r)
  \/ \E k \in Keys : Lapse(k)
  \/ \E o \in Orders : Paid(o)
  \/ \E p \in Products, delta \in AdminDeltas : Corrects(p, delta)
  \/ Sweeps \/ Ticks

StoreSpec == StoreInit /\ [][StoreNext]_shopVars

\* Time passes and the sweep runs every hour; no request need ever go on.
FairStoreSpec == StoreSpec /\ WF_shopVars(Ticks) /\ WF_shopVars(Sweeps)

-----------------------------------------------------------------------------
\* What the shopper put into carts is in a cart or in an order once: two
\* logins that merge the same guest cart do not double it, and an order that
\* is not waiting for a hosted payment leaves nothing to sell again, whatever
\* key, retry or crash sends its request twice.
NothingSoldTwice ==
  \A p \in Products :
    SumFunction([s \in Sessions |-> line[s][p]]) +
    SumFunction([o \in Orders |->
                   IF made[o] = None \/ made[o].hosted THEN 0 ELSE made[o].qty[p]])
      <= asked[p]

\* The rows are well formed, and
StoreIsSound == StoreTypeOK /\ NothingSoldTwice

\* A key makes one order, and one more for each time it was opened to another
\* execution: its marker lapsed, or a hook failed after the commit.  A slow
\* request that answers late overwrites or drops the entry of its successor
\* without opening it more often than that.
KeyedOnce ==
  \A k \in Keys :
    Cardinality({o \in Orders : made[o] # None /\ made[o].key = k}) <= 1 + slips[k]

=============================================================================
