----------------------------- MODULE Inventory ------------------------------
(***************************************************************************)
(* What the stock side of the shop promises, without holds, locks or       *)
(* transactions: an order takes its whole basket off the shelf at once and *)
(* never more than the shelf has; canceling it puts the whole basket back; *)
(* a refunded unit of a delivered order comes back once.                   *)
(***************************************************************************)
EXTENDS Integers

CONSTANTS Products, Orders, NoOrder, InitStock, MaxQty

VARIABLES stock, orders

invVars == <<stock, orders>>

Basket == [Products -> 0 .. MaxQty]

None == [p \in Products |-> 0]

InvInit == stock = InitStock /\ orders = [o \in Orders |-> NoOrder]

Sell(o, basket) ==
  /\ orders[o] = NoOrder
  /\ \A p \in Products : basket[p] <= stock[p]
  /\ stock' = [p \in Products |-> stock[p] - basket[p]]
  /\ orders' = [orders EXCEPT ![o] =
                  [qty |-> basket, refunded |-> None, status |-> "PENDING"]]

Cancel(o) ==
  /\ orders[o] # NoOrder /\ orders[o].status = "PENDING"
  /\ stock' = [p \in Products |-> stock[p] + orders[o].qty[p]]
  /\ orders' = [orders EXCEPT ![o] = [@ EXCEPT !.status = "CANCELED"]]

HandOver(o) ==
  /\ orders[o] # NoOrder /\ orders[o].status = "PENDING"
  /\ orders' = [orders EXCEPT ![o] = [@ EXCEPT !.status = "DELIVERED"]]
  /\ UNCHANGED stock

TakeBack(o, p, q) ==
  /\ orders[o] # NoOrder /\ orders[o].status = "DELIVERED"
  /\ orders[o].refunded[p] + q <= orders[o].qty[p]
  /\ stock' = [stock EXCEPT ![p] = @ + q]
  /\ orders' = [orders EXCEPT ![o] = [@ EXCEPT !.refunded =
                  [orders[o].refunded EXCEPT ![p] = orders[o].refunded[p] + q]]]

InvNext ==
  \E o \in Orders :
    \/ \E basket \in Basket : Sell(o, basket)
    \/ Cancel(o)
    \/ HandOver(o)
    \/ \E p \in Products, q \in 1 .. MaxQty : TakeBack(o, p, q)

InvSpec == InvInit /\ [][InvNext]_invVars

=============================================================================
