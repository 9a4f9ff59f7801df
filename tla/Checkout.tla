------------------------------- MODULE Checkout -------------------------------
(***************************************************************************)
(* A checkout from the customer's click to the parcel: the storefront's    *)
(* payment form, order-service, the outbox, catalog-service's stock and    *)
(* payment-service, talking through RabbitMQ.                              *)
(*                                                                         *)
(* Orders is taken as it is: its messages are what the other parts send.   *)
(* Of catalog-service's transactions the specification they were shown to  *)
(* implement stands in, StockLedger: a message acts on the stock at one    *)
(* instant.  The lookup of the message's id comes before, takes no lock    *)
(* and is a step of its own, so the handlers of two copies can both pass   *)
(* it.  Of payment-service only what it tells others is kept: a charge or  *)
(* a decline of an order becomes a message.  The outbox may publish a row  *)
(* again.  Messages wait unordered, and one that waits for ever is lost.   *)
(***************************************************************************)
EXTENDS Orders, FiniteSets, Functions

CONSTANTS
  Products,
  Lines,              \* per order: its lines, [product, quantity] in order
  InitialStock,
  MaxPayments,        \* per order: bound on its charges, and on its declines
  MaxRepeats,         \* bound on outbox rows published again
  CatalogWorkers      \* catalog handlers that can be in flight together

Message(type, o, n) == [type |-> type, order |-> o, id |-> <<type, o, n>>]

\* What catalog-service and payment-service can tell order-service.
EventsToOrders ==
  {Message(t, o, 1) : t \in {"STOCK_RESERVED", "STOCK_RESERVE_FAILED", "PAYMENT_FAILED"},
                      o \in Orders}
  \cup UNION {{Message("PAYMENT_SUCCEEDED", o, n) : n \in 1..MaxPayments[o]} : o \in Orders}
EventIds == {m.id : m \in EventsToOrders}
NothingSent == [m \in EventsToOrders |-> 0]

Take(o) == <<"take", o>>
Give(o) == <<"give", o>>
Takes == {Take(o) : o \in Orders}
Gives == {Give(o) : o \in Orders}

ASSUME CheckoutAssumption ==
  /\ IsFiniteSet(Orders)
  /\ Messages = EventsToOrders /\ Ids = EventIds /\ Copies = NothingSent
  /\ Lines \in [Orders -> Seq([product : Products, quantity : Nat])]
  /\ \A c, d \in Carts : \A i \in 1..Len(c), j \in 1..Len(d) :
       c[i] = d[j] => c = d /\ i = j
  /\ InitialStock \in [Products -> Nat]
  /\ MaxPayments \in [Orders -> Nat]
  /\ MaxRepeats \in Nat

VARIABLES
  stock, applied,   \* of StockLedger
  recorded,         \* catalog: processed_messages, the outbox rows by number
  serving,          \* per catalog handler: the row it has looked up, 0 for none
  doubled,          \* orders of which two handlers ever served the same row at once
  relayed,          \* outbox rows published so far, from the oldest
  repeats,          \* rows published again so far
  toCatalog,        \* outbox rows on their way to catalog-service
  form,             \* payment forms open at the customer: [order, page]
  charges,          \* per order: successful charges
  declines          \* per order: refused ones

catalogVars == <<stock, applied, recorded, serving, doubled>>
relayVars == <<relayed, repeats, toCatalog>>
customerVars == <<form, charges, declines>>
checkoutVars == <<vars, catalogVars, relayVars, customerVars>>

LinesOf == [m \in Takes \cup Gives |-> Lines[m[2]]]

L == INSTANCE StockLedger WITH
       ReserveMsgs <- Takes,
       ReleaseMsgs <- Gives,
       RpcMsgs <- {},
       Items <- LinesOf

CheckoutInit ==
  /\ Init
  /\ L!Init
  /\ recorded = {}
  /\ serving = [c \in CatalogWorkers |-> 0]
  /\ doubled = {}
  /\ relayed = 0
  /\ repeats = 0
  /\ toCatalog = {}
  /\ form = {}
  /\ charges = [o \in Orders |-> 0]
  /\ declines = [o \in Orders |-> 0]

-----------------------------------------------------------------------------
(* The customer *)

\* The payment form creates the orders of the cart.  The controller answers
\* with the first, and that is the one the form goes on to pay.
PlaceOrder(cart) ==
  /\ CreateOrder(cart)
  /\ form' = form \cup {[order |-> cart[1], page |-> "checkout"]}
  /\ UNCHANGED <<catalogVars, relayVars, charges, declines>>

\* The bounds on payments
MayPay(o) == charges[o] < MaxPayments[o]
MayFail(o) == declines[o] < MaxPayments[o]

\* The order card offers "Retry Payment", whose page opens for an order it
\* fetched as PAYMENT_PENDING.
OpenRetry(o) ==
  /\ status[o] = "PAYMENT_PENDING"
  /\ MayPay(o) \/ MayFail(o)
  /\ form' = form \cup {[order |-> o, page |-> "retry"]}
  /\ UNCHANGED <<vars, catalogVars, relayVars, charges, declines>>

Arrives(m) == inbox' = [inbox EXCEPT ![m] = @ + 1]
ToOrders(m) ==
  /\ Arrives(m)
  /\ UNCHANGED <<status, history, outbox, processed, requests, task, raced>>

\* confirmPayment succeeds, whatever the order's status is by now: neither
\* the form nor createPaymentIntent looks.  The webhook's event follows.
Charge(f) ==
  LET o == f.order
  IN /\ MayPay(o)
     /\ charges' = [charges EXCEPT ![o] = @ + 1]
     /\ form' = form \ {f}
     /\ ToOrders(Message("PAYMENT_SUCCEEDED", o, charges[o] + 1))
     /\ UNCHANGED <<catalogVars, relayVars, declines>>

\* The card is refused.  The retry page's form pays the same order when it is
\* submitted again; the checkout page's would place new orders.
Decline(f) ==
  LET o == f.order
  IN /\ MayFail(o)
     /\ declines' = [declines EXCEPT ![o] = @ + 1]
     /\ form' = IF f.page = "retry" THEN form ELSE form \ {f}
     /\ ToOrders(Message("PAYMENT_FAILED", o, 1))
     /\ UNCHANGED <<catalogVars, relayVars, charges>>

-----------------------------------------------------------------------------
(* The outbox job and RabbitMQ *)

ForCatalog == {"STOCK_RESERVE_REQUESTED", "ORDER_CANCELLED", "ORDER_REJECTED"}

Routed(i) == i \in 1..Len(outbox) /\ outbox[i].event \in ForCatalog

\* The next row for the catalog is published.  Rows for services that are not
\* modelled are published on the way.
Relay ==
  /\ \E i \in (relayed + 1)..Len(outbox) :
       /\ Routed(i)
       /\ \A k \in (relayed + 1)..(i - 1) : ~Routed(k)
       /\ relayed' = i
       /\ toCatalog' = toCatalog \cup {i}
  /\ UNCHANGED <<vars, catalogVars, customerVars, repeats>>

\* An overlapping run, or one that failed to mark the row, publishes it again.
RelayAgain(i) ==
  /\ i \in 1..relayed
  /\ repeats < MaxRepeats
  /\ i \notin toCatalog
  /\ Routed(i)
  /\ repeats' = repeats + 1
  /\ toCatalog' = toCatalog \cup {i}
  /\ UNCHANGED <<vars, catalogVars, customerVars, relayed>>

-----------------------------------------------------------------------------
(* catalog-service *)

\* Mutant: the idempotency lookup is dropped.
Fresh_Always(i) == TRUE

Fresh(i) == i \notin recorded

\* A delivered row is looked up in processed_messages.  A row that is not there
\* is served, whoever else serves a copy of it.
Lookup(c, i) ==
  /\ serving[c] = 0
  /\ i \in toCatalog
  /\ toCatalog' = toCatalog \ {i}
  /\ IF Fresh(i)
     THEN /\ serving' = [serving EXCEPT ![c] = i]
          /\ doubled' = IF \E d \in CatalogWorkers \ {c} : serving[d] = i
                        THEN doubled \cup {outbox[i].order} ELSE doubled
     ELSE UNCHANGED <<serving, doubled>>
  /\ UNCHANGED <<vars, stock, applied, recorded, relayed, repeats, customerVars>>

Served(c) ==
  /\ serving' = [serving EXCEPT ![c] = 0]
  /\ UNCHANGED <<doubled, relayVars, customerVars>>

\* Mutant: the result of the transaction is not looked at.
Reply_AsIfReserved(type, o) == ToOrders(Message("STOCK_RESERVED", o, 1))

\* The reply of the catalog to order-service
Reply(type, o) == ToOrders(Message(type, o, 1))

\* handleStockReserveRequest after the lookup: the stock and the record, or
\* neither, and the reply
ReserveStock(c) ==
  LET i == serving[c]
      o == outbox[i].order
  IN /\ i # 0
     /\ outbox[i].event = "STOCK_RESERVE_REQUESTED"
     /\ \/ /\ L!Reserve(Take(o))
           /\ recorded' = recorded \cup {i}
           /\ Reply("STOCK_RESERVED", o)
        \/ /\ L!ReserveShort(Take(o))
           /\ UNCHANGED recorded
           /\ Reply("STOCK_RESERVE_FAILED", o)
     /\ Served(c)

\* releaseStockWithEvent after the lookup
ReleaseStock(c) ==
  LET i == serving[c]
  IN /\ i # 0
     /\ outbox[i].event \in {"ORDER_CANCELLED", "ORDER_REJECTED"}
     /\ L!Release(Give(outbox[i].order))
     /\ recorded' = recorded \cup {i}
     /\ Served(c)
     /\ UNCHANGED vars

\* The transaction rolls back; the delivery, acknowledged when it was taken,
\* does not come again.
CatalogCrash(c) ==
  /\ serving[c] # 0
  /\ Served(c)
  /\ UNCHANGED <<vars, stock, applied, recorded>>

-----------------------------------------------------------------------------
(* order-service *)

OrderStep ==
  /\ \E w \in Workers :
       \/ \E m \in Messages : Receive(w, m)
       \/ MarkOrderAsPaid(w)
       \/ HandleStockReserved(w)
       \/ HandleStockReserveFailed(w)
       \/ HandlePaymentFailed(w)
       \/ \E o \in Orders, to \in SellerMoves : SellerReads(w, o, to)
       \/ UpdateOrderStatus(w)
       \/ Crash(w)
  /\ UNCHANGED <<catalogVars, relayVars, customerVars>>

CheckoutNext ==
  \/ \E cart \in Carts : PlaceOrder(cart)
  \/ \E o \in Orders : OpenRetry(o)
  \/ \E f \in form : Charge(f) \/ Decline(f)
  \/ Relay
  \/ \E i \in 1..Len(outbox) : RelayAgain(i)
  \/ \E c \in CatalogWorkers :
       \/ \E i \in 1..Len(outbox) : Lookup(c, i)
       \/ ReserveStock(c)
       \/ ReleaseStock(c)
       \/ CatalogCrash(c)
  \/ OrderStep

CheckoutSpec == CheckoutInit /\ [][CheckoutNext]_checkoutVars

-----------------------------------------------------------------------------
(* Properties *)

\* Every variable has its type.  Of the whole module: order-service,
\* catalog-service and the storefront's checkout.
CheckoutTypeOK ==
  /\ TypeOK
  /\ stock \in [Products -> Int]
  /\ applied \in [Takes \cup Gives -> Nat]
  /\ recorded \subseteq 1..Len(outbox)
  /\ serving \in [CatalogWorkers -> 0..Len(outbox)]
  /\ doubled \subseteq Orders
  /\ relayed \in 0..Len(outbox)
  /\ repeats \in 0..MaxRepeats
  /\ toCatalog \subseteq 1..relayed
  /\ form \subseteq [order : Orders, page : {"checkout", "retry"}]
  /\ charges \in [Orders -> Nat] /\ declines \in [Orders -> Nat]
  /\ \A o \in Orders : charges[o] <= MaxPayments[o] /\ declines[o] <= MaxPayments[o]

\* An order is paid, approved or sent only with a charge of the customer behind
\* it and its goods taken from the stock: across the services, whatever is
\* published twice, lost, late, refused or handled by two at once.  They are taken
\* once unless two copies of its request were served together, and they are not
\* given back unless two of its handlers raced.  It is about sellers who ask for
\* what the storefront offers them.
FulfilledHeld ==
  \A o \in Orders :
    status[o] \in {"PAID", "APPROVED", "PROCESSING", "SHIPPED", "DELIVERED"} =>
      /\ charges[o] > 0
      /\ applied[Take(o)] > 0
      /\ o \notin doubled => applied[Take(o)] = 1
      /\ o \notin raced => applied[Give(o)] = 0

\* Orders cancelled before their stock reply came.
Hasty == {o \in Orders : \E i \in 1..(Len(history[o]) - 1) :
                           history[o][i] = "PENDING_STOCK" /\ history[o][i + 1] = "CANCELLED"}

\* What the code does not prevent and the promise of Sale does not survive: two
\* handlers of one order at once, two of one row, a decline before the stock reply.
Upset == raced \cup doubled \cup Hasty

\* The order in the terms of Sale.
Stage(o) ==
  CASE status[o] = "none" -> "none"
    [] status[o] = "PENDING_STOCK" -> IF applied[Take(o)] > 0 THEN "held" ELSE "placed"
    [] status[o] = "PAYMENT_PENDING" -> "held"
    [] status[o] \in {"PAID", "APPROVED"} -> "sold"
    [] status[o] \in {"PROCESSING", "SHIPPED", "DELIVERED"} -> "sent"
    [] OTHER -> "void"

UnitsOf == [o \in Orders |-> [p \in Products |-> L!Units(Take(o), Len(Lines[o]), p)]]

Held == {o \in Orders : Stage(o) \in {"held", "sold", "sent"}}
Promised(p) == SumFunctionOnSet([o \in Orders |-> UnitsOf[o][p]], Held)

S == INSTANCE Sale WITH
       Units <- UnitsOf,
       sale <- [o \in Orders |-> Stage(o)],
       free <- [p \in Products |-> InitialStock[p] - Promised(p)],
       upset <- Upset

\* Checkout sells as Sale says: through all its messages an order holds its
\* units before it is sold, and only units no other order holds, until the first
\* order is upset; and to the end every other order comes the way Sale leads it.
\* Again of sellers who ask for what they are offered.
SellsAsPromised == S!Spec

\* "We never oversell stock even if multiple Sagas are competing for the same
\* items": the units the orders hold are never more than there were.
NeverOversold == \A p \in Products : Promised(p) <= InitialStock[p]

=============================================================================
