------------------------------- MODULE MCOrders -------------------------------
(***************************************************************************)
(* An instance of Orders: one order and every message there is about it.   *)
(***************************************************************************)
EXTENDS Orders, FiniteSets, TLC

CONSTANTS o1, w1, w2

M(type, o, id) == [type |-> type, order |-> o, id |-> id]

Reserved(o) == M("STOCK_RESERVED", o, <<o, "reserved">>)
Short(o) == M("STOCK_RESERVE_FAILED", o, <<o, "reserve-failed">>)
Charged(o) == M("PAYMENT_SUCCEEDED", o, <<o, "payment">>)
\* payment-service sends no message id: the handler falls back on this one
Declined(o) == M("PAYMENT_FAILED", o, <<o, "payment-failed">>)

AllIds == {m.id : m \in Messages}

One == {<<o1>>}
OneMessages == {Reserved(o1), Short(o1), Charged(o1), Declined(o1)}

TwiceEach == [m \in Messages |-> 2]

\* what the pages offer, and what the endpoint accepts of an unpaid order
SellersAsk == Offered \cup {"CANCELLED"}

Handlers == Permutations(Workers)

=============================================================================
