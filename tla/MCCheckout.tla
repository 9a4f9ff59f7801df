------------------------------ MODULE MCCheckout ------------------------------
(* Instances of Checkout: customers after the last units of a product, one   *)
(* of them with a second product in the same order.                          *)
EXTENDS Checkout, TLC

CONSTANTS o1, o2, o3, p1, p2, w1, w2, c1, c2

Line(p, n) == [product |-> p, quantity |-> n]
\* o2 takes a unit of p2 before it finds p1 short
MCLines == [o \in Orders |-> IF o = o2 THEN <<Line(p2, 1), Line(p1, 2)>>
                           ELSE <<Line(p1, 1)>>]
TwoCarts == {<<o1>>, <<o2>>}
ThreeCarts == {<<o1>>, <<o2>>, <<o3>>}
MCStock == [p \in Products |-> IF p = p1 THEN 2 ELSE 1]
\* o1's customer may be declined and charged, in either order; o2's, after the
\* same units, leaves before paying
MCPayments == [o \in Orders |-> IF o = o1 THEN 1 ELSE 0]
OneEach == [o \in Orders |-> 1]

Handlers == Permutations(Workers) \cup Permutations(CatalogWorkers)

=============================================================================
