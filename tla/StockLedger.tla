----------------------------- MODULE StockLedger -----------------------------
(***************************************************************************)
(* What catalog-service promises about its stock, seen from outside: every *)
(* message acts on the whole stock at one instant.  A reservation takes    *)
(* all its lines or, when a line is short, the lines before it; a release  *)
(* gives all its lines back.                                               *)
(***************************************************************************)
EXTENDS Integers, Sequences, Functions

CONSTANTS Products, ReserveMsgs, ReleaseMsgs, RpcMsgs, Items, InitialStock

VARIABLES
  stock,     \* units of each product
  applied    \* per message: how many times all its lines took effect

ledger == <<stock, applied>>

Init ==
  /\ stock = InitialStock
  /\ applied = [m \in ReserveMsgs \cup ReleaseMsgs \cup RpcMsgs |-> 0]

\* Units of p in the first k lines of m.
Units(m, k, p) ==
  SumFunctionOnSet([i \in 1..k |-> Items[m][i].quantity],
                   {i \in 1..k : Items[m][i].product = p})

Less(m, k) == [p \in Products |-> stock[p] - Units(m, k, p)]
Covers(m, k) == \A p \in Products : Less(m, k)[p] >= 0
All(m) == Len(Items[m])

Reserve(m) ==
  /\ Covers(m, All(m))
  /\ stock' = Less(m, All(m))
  /\ applied' = [applied EXCEPT ![m] = @ + 1]

\* Line k + 1 is the first that the stock does not cover.
ReserveShort(m) ==
  \E k \in 0..All(m) - 1 :
    /\ Covers(m, k)
    /\ ~Covers(m, k + 1)
    /\ stock' = Less(m, k)
    /\ UNCHANGED applied

Release(m) ==
  /\ stock' = [p \in Products |-> stock[p] + Units(m, All(m), p)]
  /\ applied' = [applied EXCEPT ![m] = @ + 1]

\* An administrator's save may put any stock in the row of one product.
Overwrite(p) ==
  /\ stock' = [stock EXCEPT ![p] = stock'[p]]
  /\ stock'[p] >= 0
  /\ UNCHANGED applied

Next ==
  \/ \E m \in ReserveMsgs \cup RpcMsgs : Reserve(m) \/ ReserveShort(m)
  \/ \E m \in ReleaseMsgs : Release(m)
  \/ \E p \in Products : Overwrite(p)

Spec == Init /\ [][Next]_ledger

=============================================================================
