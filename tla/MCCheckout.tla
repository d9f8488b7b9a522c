----------------------------- MODULE MCCheckout -----------------------------
\* Instances of Checkout for TLC.
EXTENDS Checkout, TLC

CONSTANTS p1, p2, r1, r2, s1, s2, o1, o2, w1, w2

TwoProducts == {p1, p2}

StockOfOne == [p \in Products |-> 1]

\* One unit of every product in every cart.
OneOfEach == [s \in Sessions |-> [p \in Products |-> 1]]
\* Two units of the first product and one of the second in the first cart, one
\* of the first in the other: there is not enough of it for both.
TwoLines == [s \in Sessions |-> [p \in Products |->
  IF s = s1 THEN (IF p = p1 THEN 2 ELSE 1) ELSE IF p = p1 THEN 1 ELSE 0]]
StockOfTwoAndOne == [p \in Products |-> IF p = p1 THEN 2 ELSE 1]

NoEdits == {}
DropsLine == {0}

ClearsCart == {FALSE}
AnyPayWay == BOOLEAN
CheckoutLoses == {"checkout"}
EitherLoses == {"checkout", "cancel"}
RespectOnly == {TRUE}
NoDeltas == {}

AlikeWorkers == Permutations(Workers)

=============================================================================
