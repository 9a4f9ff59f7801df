-------------------------------- MODULE Orders --------------------------------
(***************************************************************************)
(* The orders of order-service: how RabbitMQ handlers and the seller's     *)
(* requests move an order through its life, and the outbox rows they leave *)
(* for other services.                                                     *)
(*                                                                         *)
(* A worker is one handler invocation in flight.  Each reads, without a    *)
(* lock, whether its message was processed and which status the order has, *)
(* and later writes the new status, its history row, its outbox rows and   *)
(* the processed_messages row in one transaction: two steps here, between  *)
(* which other handlers run.  The two reads are one step, because an order *)
(* changes together with the processed_messages row that explains it.      *)
(***************************************************************************)
EXTENDS Integers, Sequences

CONSTANTS
  Orders,             \* rows the orders table can come to hold
  Carts,              \* checkouts: the orders of one, a seller each, in order
  Ids,                \* values of processed_messages.id
  Messages,           \* deliverable events: [type, order, id]
  Copies,             \* how many times each is delivered
  SellerMoves,        \* statuses a seller asks for
  MaxSellerRequests,  \* bound on accepted seller requests
  Workers             \* handler invocations that can be in flight together

Statuses == {"PENDING_STOCK", "PENDING", "PAYMENT_PENDING", "STOCK_CONFIRMED",
             "STOCK_FAILED", "PAID", "APPROVED", "PROCESSING", "SHIPPED",
             "DELIVERED", "REJECTED", "CANCELLED"}
MessageTypes == {"STOCK_RESERVED", "STOCK_RESERVE_FAILED",
                 "PAYMENT_SUCCEEDED", "PAYMENT_FAILED"}
Events == {"STOCK_RESERVE_REQUESTED", "ORDER_CREATED", "ORDER_STATUS_UPDATED",
           "ORDER_APPROVED", "ORDER_REJECTED", "ORDER_CANCELLED"}

ASSUME OrdersAssumption ==
  /\ Carts \subseteq Seq(Orders)
  /\ \A cart \in Carts : cart # <<>>
  /\ Messages \subseteq [type : MessageTypes, order : Orders, id : Ids]
  /\ \A m, n \in Messages : m.id = n.id => m.type = n.type /\ m.order = n.order
  /\ Copies \in [Messages -> Nat]
  /\ SellerMoves \subseteq Statuses
  /\ MaxSellerRequests \in Nat

VARIABLES
  status,      \* orders.status, "none" before the order is created
  history,     \* per order: the statuses of its order_status_history rows
  outbox,      \* outbox_events rows, oldest first
  processed,   \* processed_messages ids
  inbox,       \* deliveries still to come, per message
  requests,    \* seller requests accepted so far
  task,        \* per worker: what its handler read and is about to write
  raced        \* orders that two handlers ever had in hand at once

vars == <<status, history, outbox, processed, inbox, requests, task, raced>>
rows == <<status, history, outbox, processed>>

NoTask == [kind |-> "none"]
MessageTasks == [kind : {"message"}, message : Messages, seen : Statuses]
SellerTasks == [kind : {"seller"}, order : Orders, seen : Statuses, to : Statuses]

Init ==
  /\ status = [o \in Orders |-> "none"]
  /\ history = [o \in Orders |-> <<>>]
  /\ outbox = <<>>
  /\ processed = {}
  /\ inbox = Copies
  /\ requests = 0
  /\ task = [w \in Workers |-> NoTask]
  /\ raced = {}

-----------------------------------------------------------------------------
(* OrderValidationService *)

\* The table of isValidTransition.
Allowed ==
  [PENDING_STOCK   |-> {"PAYMENT_PENDING", "STOCK_FAILED", "CANCELLED"},
   PENDING         |-> {"PAID", "CANCELLED"},
   PAYMENT_PENDING |-> {"PAID", "CANCELLED"},
   STOCK_CONFIRMED |-> {"PAID", "CANCELLED"},
   STOCK_FAILED    |-> {},
   PAID            |-> {"APPROVED", "REJECTED"},
   APPROVED        |-> {"PROCESSING"},
   PROCESSING      |-> {"SHIPPED"},
   SHIPPED         |-> {"DELIVERED"},
   DELIVERED       |-> {},
   REJECTED        |-> {},
   CANCELLED       |-> {}]

-----------------------------------------------------------------------------
(* Writing an order *)

\* Mutant: the order's id is read before save() has assigned it.
Row_Unsaved(event, o) == [event |-> event, order |-> "undefined"]

Row(event, o) == [event |-> event, order |-> o]

\* save(order), the history row and the outbox rows.  save() issues an UPDATE
\* of the changed columns by id: whatever the row holds by then is overwritten.
Move(o, to, events) ==
  /\ status' = [status EXCEPT ![o] = to]
  /\ history' = [history EXCEPT ![o] = Append(@, to)]
  /\ outbox' = outbox \o [i \in 1..Len(events) |-> Row(events[i], o)]

-----------------------------------------------------------------------------
(* OrderCreationService.createOrder *)

\* One transaction creates an order for each seller of the cart, with its
\* request for stock.
CreateOrder(cart) ==
  LET new == {cart[i] : i \in 1..Len(cart)}
  IN /\ \A o \in new : status[o] = "none"
     /\ status' = [o \in Orders |-> IF o \in new THEN "PENDING_STOCK" ELSE status[o]]
     /\ history' = [o \in Orders |-> IF o \in new THEN <<"PENDING_STOCK">>
                                                  ELSE history[o]]
     /\ outbox' = outbox \o [i \in 1..Len(cart) |->
                               Row("STOCK_RESERVE_REQUESTED", cart[i])]
     /\ UNCHANGED <<processed, inbox, requests, task, raced>>

-----------------------------------------------------------------------------
(* The four message handlers *)

Concerns(w, o) ==
  \/ task[w].kind = "message" /\ task[w].message.order = o
  \/ task[w].kind = "seller" /\ task[w].order = o

\* A handler takes up an order that others may have in hand: nothing keeps the
\* handlers of one order apart, so what an order is promised only while they
\* are apart is promised of the orders that are not in raced.
TakesUp(w, o) ==
  raced' = IF \E v \in Workers \ {w} : Concerns(v, o) THEN raced \cup {o} ELSE raced

\* A delivery about an order that exists is read.  A message already in
\* processed_messages goes no further.
Receive(w, m) ==
  /\ task[w] = NoTask
  /\ inbox[m] > 0
  /\ status[m.order] # "none"
  /\ inbox' = [inbox EXCEPT ![m] = @ - 1]
  /\ IF m.id \in processed
     THEN UNCHANGED <<task, raced>>
     ELSE /\ task' = [task EXCEPT ![w] = [kind |-> "message", message |-> m,
                                         seen |-> status[m.order]]]
          /\ TakesUp(w, m.order)
  /\ UNCHANGED <<rows, requests>>

\* w handles a message of this type and read one of these statuses.
Handling(w, type) == task[w].kind = "message" /\ task[w].message.type = type
Done(w) == task' = [task EXCEPT ![w] = NoTask] /\ UNCHANGED <<inbox, requests, raced>>

\* Mutant: the message is recorded whether or not it applied.
Ignored_Recorded(w) == processed' = processed \cup {task[w].message.id}

\* The order is in no status the handler acts on: it returns, and records
\* nothing.
Ignored(w) == UNCHANGED processed

Record(w) == processed' = processed \cup {task[w].message.id}

\* Mutant: a payment is taken to settle an order in any status.
Payable_Any(seen) == TRUE

Payable(seen) == seen \in {"PAYMENT_PENDING", "PENDING"}

\* markOrderAsPaid: the message is recorded even when the order is not payable.
MarkOrderAsPaid(w) ==
  LET m == task[w].message
  IN /\ Handling(w, "PAYMENT_SUCCEEDED")
     /\ IF Payable(task[w].seen) THEN Move(m.order, "PAID", <<>>)
                                 ELSE UNCHANGED <<status, history, outbox>>
     /\ Record(w)
     /\ Done(w)

HandleStockReserved(w) ==
  LET m == task[w].message
  IN /\ Handling(w, "STOCK_RESERVED")
     /\ IF task[w].seen = "PENDING_STOCK"
        THEN Move(m.order, "PAYMENT_PENDING", <<"ORDER_CREATED">>) /\ Record(w)
        ELSE UNCHANGED <<status, history, outbox>> /\ Ignored(w)
     /\ Done(w)

HandleStockReserveFailed(w) ==
  LET m == task[w].message
  IN /\ Handling(w, "STOCK_RESERVE_FAILED")
     /\ IF task[w].seen = "PENDING_STOCK"
        THEN Move(m.order, "STOCK_FAILED", <<>>) /\ Record(w)
        ELSE UNCHANGED <<status, history, outbox>> /\ Ignored(w)
     /\ Done(w)

\* Mutant: the guard of handlePaymentFailed is dropped.
Cancellable_Any(seen) == TRUE

Cancellable(seen) == seen \in {"PAYMENT_PENDING", "PENDING_STOCK"}

HandlePaymentFailed(w) ==
  LET m == task[w].message
  IN /\ Handling(w, "PAYMENT_FAILED")
     /\ IF Cancellable(task[w].seen)
        THEN Move(m.order, "CANCELLED", <<"ORDER_CANCELLED">>) /\ Record(w)
        ELSE UNCHANGED <<status, history, outbox>> /\ Ignored(w)
     /\ Done(w)

-----------------------------------------------------------------------------
(* updateOrderStatus: the seller's requests *)

\* What the seller's page of an order offers for the status it shows, and the
\* page of all shipments, which offers SHIPPED too early.  A page may show a
\* status of long ago, so a request may come in any status.
OrderPage == [PAID |-> {"APPROVED", "REJECTED"}, APPROVED |-> {"PROCESSING"},
              PROCESSING |-> {"SHIPPED"}, SHIPPED |-> {"DELIVERED"}]
ShippingPage == [PAID |-> {"SHIPPED"}, APPROVED |-> {"SHIPPED"},
                 PROCESSING |-> {"SHIPPED"}, SHIPPED |-> {"DELIVERED"}]
Offered == UNION {OrderPage[s] \cup ShippingPage[s] : s \in DOMAIN OrderPage}

\* Mutant: the requested status is not validated.
SellerReads_Unchecked(w, o, to) ==
  /\ task[w] = NoTask
  /\ requests < MaxSellerRequests
  /\ status[o] # "none"
  /\ task' = [task EXCEPT ![w] = [kind |-> "seller", order |-> o,
                                  seen |-> status[o], to |-> to]]
  /\ TakesUp(w, o)
  /\ requests' = requests + 1
  /\ UNCHANGED <<rows, inbox>>

\* The order is read and the request validated before the transaction.  A
\* request that is not valid is answered 400 and changes nothing.
SellerReads(w, o, to) ==
  /\ task[w] = NoTask
  /\ requests < MaxSellerRequests
  /\ status[o] # "none"
  /\ to \in Allowed[status[o]]
  /\ task' = [task EXCEPT ![w] = [kind |-> "seller", order |-> o,
                                  seen |-> status[o], to |-> to]]
  /\ TakesUp(w, o)
  /\ requests' = requests + 1
  /\ UNCHANGED <<rows, inbox>>

Announced == [APPROVED |-> "ORDER_APPROVED", REJECTED |-> "ORDER_REJECTED",
              CANCELLED |-> "ORDER_CANCELLED"]

SellerEvents(to) ==
  IF to \in DOMAIN Announced THEN <<"ORDER_STATUS_UPDATED", Announced[to]>>
                             ELSE <<"ORDER_STATUS_UPDATED">>

UpdateOrderStatus(w) ==
  /\ task[w].kind = "seller"
  /\ Move(task[w].order, task[w].to, SellerEvents(task[w].to))
  /\ UNCHANGED processed
  /\ Done(w)

-----------------------------------------------------------------------------
\* The process or its database connection dies: the transaction rolls back,
\* and the delivery, acknowledged when it was taken, does not come again.
Crash(w) ==
  /\ task[w] # NoTask
  /\ UNCHANGED rows
  /\ Done(w)

Next ==
  \/ \E cart \in Carts : CreateOrder(cart)
  \/ \E w \in Workers :
       \/ \E m \in Messages : Receive(w, m)
       \/ MarkOrderAsPaid(w)
       \/ HandleStockReserved(w)
       \/ HandleStockReserveFailed(w)
       \/ HandlePaymentFailed(w)
       \/ \E o \in Orders, to \in SellerMoves : SellerReads(w, o, to)
       \/ UpdateOrderStatus(w)
       \/ Crash(w)

Spec == Init /\ [][Next]_vars

-----------------------------------------------------------------------------
(* Properties *)

\* Every variable has its type.  Of the whole module: order-events.service.ts,
\* order-creation.service.ts.
TypeOK ==
  /\ status \in [Orders -> Statuses \cup {"none"}]
  /\ history \in [Orders -> Seq(Statuses)]
  /\ outbox \in Seq([event : Events, order : Orders])
  /\ processed \subseteq Ids
  /\ inbox \in [Messages -> Nat]
  /\ requests \in 0..MaxSellerRequests
  /\ task \in [Workers -> {NoTask} \cup MessageTasks \cup SellerTasks]
  /\ raced \subseteq Orders

HasBeen(o, s) == \E i \in 1..Len(history[o]) : history[o][i] = s

\* Whatever handlers race, whatever they read before another one wrote: every
\* status an order is given is one isValidTransition allows from a status the
\* order had earlier.  A stale handler can take an order back, never to where
\* no path leads.
EveryMoveJustified ==
  \A o \in Orders : \A i \in 2..Len(history[o]) :
    \E j \in 1..(i - 1) : history[o][i] \in Allowed[history[o][j]]

Fulfilled == {"PAID", "APPROVED", "REJECTED", "PROCESSING", "SHIPPED", "DELIVERED"}

\* No order is paid, approved, refused by its seller, or sent, unless a
\* PAYMENT_SUCCEEDED for that very order was processed: however sellers'
\* requests, cancellations and payments interleave.  It is about sellers who
\* ask for what the storefront offers them: the table of isValidTransition
\* would let a seller's request make an unpaid order PAID.
FulfilmentPaid ==
  \A o \in Orders :
    (\E s \in Fulfilled : HasBeen(o, s)) =>
      \E m \in Messages : /\ m.type = "PAYMENT_SUCCEEDED"
                          /\ m.order = o
                          /\ m.id \in processed

Effect == [STOCK_RESERVED |-> "PAYMENT_PENDING", STOCK_RESERVE_FAILED |-> "STOCK_FAILED",
           PAYMENT_SUCCEEDED |-> "PAID", PAYMENT_FAILED |-> "CANCELLED"]

TookEffect(m) == m.id \in processed => HasBeen(m.order, Effect[m.type])

\* A stock reply or a failed payment that processed_messages holds did move its
\* order: none is marked as done without having been, so ignoring its
\* duplicates loses nothing.
RecordedTookEffect ==
  \A m \in Messages : m.type # "PAYMENT_SUCCEEDED" => TookEffect(m)

\* An order whose handlers never overlapped follows the lifecycle of
\* OrderValidationService step by step, however the handlers of other orders
\* race, whatever came twice and wherever they crashed.
Lifecycle ==
  [][\A o \in Orders \ raced' : \/ status'[o] = status[o]
                                \/ status[o] = "none"
                                \/ status'[o] \in Allowed[status[o]]]_vars

Releases(o) == {i \in 1..Len(outbox) :
                  outbox[i] \in {Row("ORDER_CANCELLED", o), Row("ORDER_REJECTED", o)}}

\* While the handlers of an order are apart, the outbox asks catalog-service to
\* give its stock back at most once, and from then on the order stays void:
\* neither a duplicate, a late payment nor a seller's request brings it back.
ReleaseFinal ==
  \A o \in Orders \ raced :
    /\ \A i, j \in Releases(o) : i = j
    /\ Releases(o) # {} <=> status[o] \in {"CANCELLED", "REJECTED"}

=============================================================================
