------------------------------ MODULE MCCatalog ------------------------------
(***************************************************************************)
(* Instances of Catalog.  An event and an RPC name the same two products   *)
(* in opposite order, as two carts may, so their reservations can          *)
(* deadlock; the stock covers one of them whole and the other in part.     *)
(***************************************************************************)
EXTENDS Catalog, TLC

CONSTANTS p1, p2, w1, w2, a1

L(p, n) == [product |-> p, quantity |-> n]
Table == [r1 |-> <<L(p1, 1), L(p2, 1)>>,
          q1 |-> <<L(p2, 1), L(p1, 2)>>,
          c1 |-> <<L(p1, 1), L(p2, 1)>>]

MCItems == [m \in Msgs |-> Table[m]]
MCStock == (p1 :> 2) @@ (p2 :> 1)
AmpleStock == (p1 :> 2) @@ (p2 :> 2)

\* r1 is published twice, as overlapping outbox runs may do
TwiceR1 == [m \in Msgs |-> IF m = "r1" THEN 2 ELSE 1]

=============================================================================
