--------------------------------- MODULE Sale ---------------------------------
(***************************************************************************)
(* What the marketplace promises about selling: the units of an order are  *)
(* set aside for it before it can be sold, they come out of what no other  *)
(* order holds, and they go back only when the order is void.  Nothing is  *)
(* said of services, messages, payments or statuses.                       *)
(*                                                                         *)
(* An order can be upset, in ways only the detailed specification knows.   *)
(* Once one is, no unit is promised any more, since an order given back    *)
(* what it never held leaves too little for the others; how far an order   *)
(* that is not itself upset can come stays as it was.                      *)
(***************************************************************************)
EXTENDS Integers

CONSTANTS
  Orders, Products,
  Units,         \* per order and product: the units it is for
  InitialStock   \* per product

VARIABLES
  sale,   \* per order: how far it has come
  free,   \* per product: units that no order holds
  upset   \* orders nothing is promised of

sold == <<sale, free, upset>>

Stages == {"none", "placed", "held", "sold", "sent", "void"}
Holding == {"held", "sold", "sent"}

Init ==
  /\ sale = [o \in Orders |-> "none"]
  /\ free = InitialStock
  /\ upset = {}

Become(o, from, to) == sale[o] = from /\ sale' = [sale EXCEPT ![o] = to]

Place(S) ==
  /\ \A o \in S : sale[o] = "none"
  /\ sale' = [o \in Orders |-> IF o \in S THEN "placed" ELSE sale[o]]
  /\ UNCHANGED free

Hold(o) ==
  /\ Become(o, "placed", "held")
  /\ \A p \in Products : Units[o][p] <= free[p]
  /\ free' = [p \in Products |-> free[p] - Units[o][p]]

Sell(o) == Become(o, "held", "sold") /\ UNCHANGED free
Send(o) == Become(o, "sold", "sent") /\ UNCHANGED free
Refuse(o) == Become(o, "placed", "void") /\ UNCHANGED free

\* An order is void: its units are free, even before anyone hears of it.
Undo(o) ==
  /\ Become(o, "held", "void") \/ Become(o, "sold", "void")
  /\ free' = [p \in Products |-> free[p] + Units[o][p]]

\* Everything as promised
Calm ==
  /\ upset' = {}
  /\ \/ \E S \in SUBSET Orders : Place(S)
     \/ \E o \in Orders : \/ Hold(o) \/ Sell(o) \/ Send(o) \/ Refuse(o) \/ Undo(o)

Follows == [none |-> {"placed"}, placed |-> {"held", "void"}, held |-> {"sold", "void"},
            sold |-> {"sent", "void"}, sent |-> {}, void |-> {}]

\* An order is upset now or was before.
Astray ==
  /\ upset' # {}
  /\ upset \subseteq upset'
  /\ \A o \in Orders \ upset' : sale'[o] = sale[o] \/ sale'[o] \in Follows[sale[o]]

Next == Calm \/ Astray

Spec == Init /\ [][Next]_sold

=============================================================================
