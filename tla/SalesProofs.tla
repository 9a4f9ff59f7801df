----------------------------- MODULE SalesProofs ------------------------------
(***************************************************************************)
(* Theorems of Orders, and of Checkout, which adds the catalog and the     *)
(* customers to it: for any orders, checkouts, messages, deliveries and    *)
(* handlers in flight; what races of handlers break is promised of the     *)
(* orders whose own handlers did not race.                                 *)
(***************************************************************************)
EXTENDS Checkout, Sums, SequenceTheorems, TLAPS

-----------------------------------------------------------------------------
(* Orders *)

-----------------------------------------------------------------------------
(* Types *)

LEMMA StatusNames ==
  /\ "none" \notin Statuses
  /\ \A s \in Statuses : Allowed[s] \subseteq Statuses
  /\ \A s : Payable(s) => s \in Statuses
  /\ Fulfilled \subseteq Statuses
  BY DEF Statuses, Allowed, Payable, Fulfilled

\* What a worker in the middle of handling a message knows.
LEMMA MessageTask ==
  ASSUME TypeOK, NEW w \in Workers, task[w].kind = "message"
  PROVE  /\ task[w].message \in Messages
         /\ task[w].message.order \in Orders
         /\ task[w].message.id \in Ids
         /\ task[w].seen \in Statuses
  BY OrdersAssumption DEF TypeOK, NoTask, MessageTasks, SellerTasks

LEMMA SellerTask ==
  ASSUME TypeOK, NEW w \in Workers, task[w].kind = "seller"
  PROVE  /\ task[w].order \in Orders
         /\ task[w].seen \in Statuses
         /\ task[w].to \in Statuses
  BY DEF TypeOK, NoTask, MessageTasks, SellerTasks

LEMMA SellerEventsType ==
  ASSUME NEW to
  PROVE  SellerEvents(to) \in Seq(Events)
  <1>1. CASE to \in DOMAIN Announced
    <2>1. Announced[to] \in Events
      BY <1>1 DEF Announced, Events
    <2>2. <<"ORDER_STATUS_UPDATED", Announced[to]>> \in Seq(Events)
      BY <2>1 DEF Events
    <2> QED
      BY <1>1, <2>2 DEF SellerEvents
  <1>2. CASE to \notin DOMAIN Announced
    BY <1>2 DEF SellerEvents, Events
  <1> QED
    BY <1>1, <1>2

LEMMA MoveTypes ==
  ASSUME TypeOK, NEW o \in Orders, NEW to \in Statuses,
         NEW events \in Seq(Events), Move(o, to, events)
  PROVE  /\ status' \in [Orders -> Statuses \cup {"none"}]
         /\ history' \in [Orders -> Seq(Statuses)]
         /\ outbox' \in Seq([event : Events, order : Orders])
  <1>1. status' \in [Orders -> Statuses \cup {"none"}]
    BY DEF TypeOK, Move
  <1>2. history' \in [Orders -> Seq(Statuses)]
    <2>1. Append(history[o], to) \in Seq(Statuses)
      BY AppendProperties DEF TypeOK
    <2> QED
      BY <2>1 DEF TypeOK, Move
  <1>3. outbox' \in Seq([event : Events, order : Orders])
    <2> DEFINE new == [i \in 1..Len(events) |-> Row(events[i], o)]
    <2>1. new \in Seq([event : Events, order : Orders])
      <3>1. Len(events) \in Nat
        OBVIOUS
      <3>2. \A i \in 1..Len(events) : Row(events[i], o) \in [event : Events, order : Orders]
        BY ElementOfSeq DEF Row
      <3> QED
        BY <3>1, <3>2, IsASeq
    <2>2. outbox' = outbox \o new
      BY DEF Move
    <2> HIDE DEF new
    <2> QED
      BY <2>1, <2>2, ConcatProperties DEF TypeOK
  <1> QED
    BY <1>1, <1>2, <1>3

LEMMA CreateTypes ==
  ASSUME TypeOK, NEW cart \in Carts, CreateOrder(cart)
  PROVE  TypeOK'
  <1>1. cart \in Seq(Orders)
    BY OrdersAssumption
  <1>2. status' \in [Orders -> Statuses \cup {"none"}]
    BY DEF TypeOK, CreateOrder, Statuses
  <1>3. history' \in [Orders -> Seq(Statuses)]
    <2>1. <<"PENDING_STOCK">> \in Seq(Statuses)
      BY DEF Statuses
    <2> QED
      BY <2>1 DEF TypeOK, CreateOrder
  <1>4. outbox' \in Seq([event : Events, order : Orders])
    <2> DEFINE new == [i \in 1..Len(cart) |-> Row("STOCK_RESERVE_REQUESTED", cart[i])]
    <2>1. new \in Seq([event : Events, order : Orders])
      <3>1. \A i \in 1..Len(cart) :
              Row("STOCK_RESERVE_REQUESTED", cart[i]) \in [event : Events, order : Orders]
        BY <1>1, ElementOfSeq DEF Row, Events
      <3>2. Len(cart) \in Nat
        BY <1>1
      <3> QED
        BY <3>1, <3>2, IsASeq
    <2>2. outbox' = outbox \o new
      BY DEF CreateOrder
    <2> HIDE DEF new
    <2> QED
      BY <2>1, <2>2, ConcatProperties DEF TypeOK
  <1> QED
    BY <1>2, <1>3, <1>4 DEF TypeOK, CreateOrder

\* A handler that is done leaves the rest as it was.
LEMMA DoneTypes ==
  ASSUME TypeOK, NEW w \in Workers, Done(w)
  PROVE  /\ inbox' \in [Messages -> Nat]
         /\ requests' \in 0..MaxSellerRequests
         /\ task' \in [Workers -> {NoTask} \cup MessageTasks \cup SellerTasks]
         /\ raced' \subseteq Orders
  BY DEF TypeOK, Done

\* Every handler's write has one of these two shapes.
Writes(w, o, to, events) == Move(o, to, events) /\ Done(w)
Returns(w) == UNCHANGED <<status, history, outbox>> /\ Done(w)

LEMMA HandlerShape ==
  ASSUME TypeOK, NEW w \in Workers,
         \/ MarkOrderAsPaid(w) \/ HandleStockReserved(w)
         \/ HandleStockReserveFailed(w) \/ HandlePaymentFailed(w)
  PROVE  /\ task[w].kind = "message"
         /\ LET m == task[w].message
            IN /\ \/ processed' = processed \cup {m.id}
                  \/ processed' = processed
               /\ \/ /\ Returns(w)
                     /\ m.type = "PAYMENT_SUCCEEDED" \/ processed' = processed
                  \/ /\ task[w].seen \in {"PENDING_STOCK", "PENDING", "PAYMENT_PENDING"}
                     /\ Effect[m.type] \in Allowed[task[w].seen]
                     /\ m.id \in processed'
                     /\ \E events \in {<<>>, <<"ORDER_CREATED">>} :
                          /\ Writes(w, m.order, Effect[m.type], events)
                          /\ Effect[m.type] \in {"PAID", "PAYMENT_PENDING", "STOCK_FAILED"}
                  \/ /\ task[w].seen \in {"PENDING_STOCK", "PENDING", "PAYMENT_PENDING"}
                     /\ Effect[m.type] = "CANCELLED"
                     /\ Effect[m.type] \in Allowed[task[w].seen]
                     /\ m.id \in processed'
                     /\ Writes(w, m.order, "CANCELLED", <<"ORDER_CANCELLED">>)
  <1> DEFINE m == task[w].message
  <1>1. CASE MarkOrderAsPaid(w)
    <2>1. m.type = "PAYMENT_SUCCEEDED" /\ Effect[m.type] = "PAID"
      BY <1>1 DEF MarkOrderAsPaid, Handling, Effect
    <2>2. Payable(task[w].seen) => "PAID" \in Allowed[task[w].seen]
      BY DEF Payable, Allowed
    <2> QED
      BY <1>1, <2>1, <2>2 DEF MarkOrderAsPaid, Handling, Payable, Record, Writes, Returns
  <1>2. CASE HandleStockReserved(w)
    <2>1. m.type = "STOCK_RESERVED" /\ Effect[m.type] = "PAYMENT_PENDING"
      BY <1>2 DEF HandleStockReserved, Handling, Effect
    <2>2. "PAYMENT_PENDING" \in Allowed["PENDING_STOCK"]
      BY DEF Allowed
    <2> QED
      BY <1>2, <2>1, <2>2
         DEF HandleStockReserved, Handling, Record, Ignored, Writes, Returns
  <1>3. CASE HandleStockReserveFailed(w)
    <2>1. m.type = "STOCK_RESERVE_FAILED" /\ Effect[m.type] = "STOCK_FAILED"
      BY <1>3 DEF HandleStockReserveFailed, Handling, Effect
    <2>2. "STOCK_FAILED" \in Allowed["PENDING_STOCK"]
      BY DEF Allowed
    <2> QED
      BY <1>3, <2>1, <2>2
         DEF HandleStockReserveFailed, Handling, Record, Ignored, Writes, Returns
  <1>4. CASE HandlePaymentFailed(w)
    <2>1. m.type = "PAYMENT_FAILED" /\ Effect[m.type] = "CANCELLED"
      BY <1>4 DEF HandlePaymentFailed, Handling, Effect
    <2>2. Cancellable(task[w].seen) => "CANCELLED" \in Allowed[task[w].seen]
      BY DEF Cancellable, Allowed
    <2> QED
      BY <1>4, <2>1, <2>2
         DEF HandlePaymentFailed, Handling, Cancellable, Record, Ignored, Writes, Returns
  <1> QED
    BY <1>1, <1>2, <1>3, <1>4

LEMMA HandlerTypes ==
  ASSUME TypeOK, NEW w \in Workers,
         \/ MarkOrderAsPaid(w) \/ HandleStockReserved(w)
         \/ HandleStockReserveFailed(w) \/ HandlePaymentFailed(w)
  PROVE  TypeOK'
  <1> DEFINE m == task[w].message
  <1>1. /\ m.order \in Orders /\ m.id \in Ids
        /\ task[w].seen \in Statuses
    BY HandlerShape, MessageTask
  <1>2. processed' \subseteq Ids
    BY <1>1, HandlerShape DEF TypeOK
  <1>3. Done(w)
    BY HandlerShape DEF Writes, Returns
  <1>4. CASE Returns(w)
    BY <1>2, <1>3, <1>4, DoneTypes DEF TypeOK, Returns
  <1>5. CASE ~Returns(w)
    <2>1. PICK to \in Statuses, events \in Seq(Events) : Move(m.order, to, events)
      <3>1. <<>> \in Seq(Events) /\ <<"ORDER_CREATED">> \in Seq(Events)
            /\ <<"ORDER_CANCELLED">> \in Seq(Events)
        BY DEF Events
      <3>2. Effect[m.type] \in Allowed[task[w].seen]
        BY <1>5, HandlerShape
      <3>3. Effect[m.type] \in Statuses
        BY <1>1, <3>2, StatusNames
      <3> QED
        BY <1>5, <3>1, <3>3, HandlerShape DEF Writes
    <2> QED
      BY <1>1, <1>2, <1>3, <2>1, MoveTypes, DoneTypes DEF TypeOK
  <1> QED
    BY <1>4, <1>5

LEMMA ReceiveTypes ==
  ASSUME TypeOK, NEW w \in Workers, NEW m \in Messages, Receive(w, m)
  PROVE  TypeOK'
  <1>1. m.order \in Orders
    BY OrdersAssumption
  <1>2. inbox' \in [Messages -> Nat]
    BY DEF TypeOK, Receive
  <1>3. task' \in [Workers -> {NoTask} \cup MessageTasks \cup SellerTasks]
    <2>1. [kind |-> "message", message |-> m, seen |-> status[m.order]] \in MessageTasks
      BY <1>1 DEF TypeOK, Receive, MessageTasks
    <2> QED
      BY <2>1 DEF TypeOK, Receive
  <1>4. raced' \subseteq Orders
    BY <1>1 DEF TypeOK, Receive, TakesUp
  <1> QED
    BY <1>2, <1>3, <1>4 DEF TypeOK, Receive, rows

LEMMA SellerReadsTypes ==
  ASSUME TypeOK, NEW w \in Workers, NEW o \in Orders, NEW to \in SellerMoves,
         SellerReads(w, o, to)
  PROVE  TypeOK'
  <1>1. requests' \in 0..MaxSellerRequests
    BY OrdersAssumption DEF TypeOK, SellerReads
  <1>2. task' \in [Workers -> {NoTask} \cup MessageTasks \cup SellerTasks]
    <2>1. [kind |-> "seller", order |-> o, seen |-> status[o], to |-> to] \in SellerTasks
      BY OrdersAssumption DEF TypeOK, SellerReads, SellerTasks
    <2> QED
      BY <2>1 DEF TypeOK, SellerReads
  <1>3. raced' \subseteq Orders
    BY DEF TypeOK, SellerReads, TakesUp
  <1> QED
    BY <1>1, <1>2, <1>3 DEF TypeOK, SellerReads, rows

LEMMA UpdateTypes ==
  ASSUME TypeOK, NEW w \in Workers, UpdateOrderStatus(w)
  PROVE  TypeOK'
  <1>1. task[w].order \in Orders /\ task[w].to \in Statuses
    BY SellerTask DEF UpdateOrderStatus
  <1>2. SellerEvents(task[w].to) \in Seq(Events)
    BY SellerEventsType
  <1>3. Move(task[w].order, task[w].to, SellerEvents(task[w].to)) /\ Done(w)
    BY DEF UpdateOrderStatus
  <1> QED
    BY <1>1, <1>2, <1>3, MoveTypes, DoneTypes DEF TypeOK, UpdateOrderStatus

LEMMA InitTypeOK == Init => TypeOK
  BY OrdersAssumption DEF Init, TypeOK

LEMMA NextTypeOK == TypeOK /\ [Next]_vars => TypeOK'
  <1> SUFFICES ASSUME TypeOK, [Next]_vars PROVE TypeOK'
    OBVIOUS
  <1>1. ASSUME NEW cart \in Carts, CreateOrder(cart) PROVE TypeOK'
    BY <1>1, CreateTypes
  <1>2. ASSUME NEW w \in Workers, NEW m \in Messages, Receive(w, m) PROVE TypeOK'
    BY <1>2, ReceiveTypes
  <1>3. ASSUME NEW w \in Workers,
               \/ MarkOrderAsPaid(w) \/ HandleStockReserved(w)
               \/ HandleStockReserveFailed(w) \/ HandlePaymentFailed(w)
        PROVE  TypeOK'
    BY <1>3, HandlerTypes
  <1>4. ASSUME NEW w \in Workers, NEW o \in Orders, NEW to \in SellerMoves,
               SellerReads(w, o, to)
        PROVE  TypeOK'
    BY <1>4, SellerReadsTypes
  <1>5. ASSUME NEW w \in Workers, UpdateOrderStatus(w) PROVE TypeOK'
    BY <1>5, UpdateTypes
  <1>6. ASSUME NEW w \in Workers, Crash(w) PROVE TypeOK'
    BY <1>6, DoneTypes DEF TypeOK, Crash, rows
  <1>7. CASE UNCHANGED vars
    BY <1>7 DEF TypeOK, vars
  <1> QED
    BY <1>1, <1>2, <1>3, <1>4, <1>5, <1>6, <1>7 DEF Next

\* Type correctness, for every checkout, message and number of handlers in
\* flight (order-events.service.ts, order-creation.service.ts).
THEOREM TypeCorrect == Spec => []TypeOK
  BY InitTypeOK, NextTypeOK, PTL DEF Spec

-----------------------------------------------------------------------------
(* What handlers remember is something the order has been *)

Tasked(w) ==
  /\ task[w].kind = "message" => HasBeen(task[w].message.order, task[w].seen)
  /\ task[w].kind = "seller" => /\ HasBeen(task[w].order, task[w].seen)
                               /\ task[w].to \in Allowed[task[w].seen] \cap SellerMoves

Remembered ==
  /\ \A o \in Orders : /\ status[o] = "none" => history[o] = <<>>
                       /\ status[o] # "none" => HasBeen(o, status[o])
  /\ \A w \in Workers : Tasked(w)

LEMMA MoveHistory ==
  ASSUME TypeOK, NEW o \in Orders, NEW to \in Statuses, NEW events, Move(o, to, events)
  PROVE  /\ HasBeen(o, to)'
         /\ \A q \in Orders, s \in Statuses : HasBeen(q, s) => HasBeen(q, s)'
         /\ \A q \in Orders, s \in Statuses : HasBeen(q, s)' => HasBeen(q, s) \/ (q = o /\ s = to)
         /\ Len(history'[o]) = Len(history[o]) + 1
         /\ \A i \in 1..Len(history[o]) : history'[o][i] = history[o][i]
         /\ history'[o][Len(history[o]) + 1] = to
         /\ \A q \in Orders \ {o} : history'[q] = history[q]
  <1>1. history[o] \in Seq(Statuses) /\ Len(history[o]) \in Nat
    BY DEF TypeOK
  <1>2. history'[o] = Append(history[o], to)
    BY DEF TypeOK, Move
  <1>3. \A q \in Orders \ {o} : history'[q] = history[q]
    BY DEF TypeOK, Move
  <1>4. /\ Len(history'[o]) = Len(history[o]) + 1
        /\ \A i \in 1..Len(history[o]) : history'[o][i] = history[o][i]
        /\ history'[o][Len(history[o]) + 1] = to
    BY <1>1, <1>2, AppendProperties
  <1>5. HasBeen(o, to)'
    BY <1>1, <1>4 DEF HasBeen
  <1>6. ASSUME NEW q \in Orders, NEW s \in Statuses, HasBeen(q, s) PROVE HasBeen(q, s)'
    BY <1>1, <1>3, <1>4, <1>6 DEF HasBeen
  <1>7. ASSUME NEW q \in Orders, NEW s \in Statuses, HasBeen(q, s)'
        PROVE  HasBeen(q, s) \/ (q = o /\ s = to)
    BY <1>1, <1>3, <1>4, <1>7 DEF HasBeen
  <1> QED
    BY <1>3, <1>4, <1>5, <1>6, <1>7

LEMMA CreateHistory ==
  ASSUME TypeOK, Remembered, NEW cart \in Carts, CreateOrder(cart)
  PROVE  /\ \A q \in Orders, s \in Statuses : HasBeen(q, s) => HasBeen(q, s)'
         /\ \A q \in Orders : \/ history'[q] = history[q] /\ status'[q] = status[q]
                             \/ /\ status[q] = "none"
                                /\ history'[q] = <<"PENDING_STOCK">>
                                /\ status'[q] = "PENDING_STOCK"
  <1>1. ASSUME NEW q \in Orders
        PROVE  \/ history'[q] = history[q] /\ status'[q] = status[q]
               \/ /\ status[q] = "none"
                  /\ history[q] = <<>>
                  /\ history'[q] = <<"PENDING_STOCK">>
                  /\ status'[q] = "PENDING_STOCK"
    BY DEF CreateOrder, Remembered
  <1> QED
    BY <1>1 DEF HasBeen

\* Every step creates orders, or leaves them alone, or moves one to a status
\* that a status it has been allows.
LEMMA WriteStep ==
  ASSUME TypeOK, Remembered, [Next]_vars
  PROVE  \/ \E cart \in Carts : CreateOrder(cart)
         \/ UNCHANGED <<status, history, outbox>>
         \/ \E w \in Workers, o \in Orders, to \in Statuses, events \in Seq(Events) :
              /\ Move(o, to, events)
              /\ Done(w)
              /\ task[w].seen \in Statuses
              /\ HasBeen(o, task[w].seen)
              /\ to \in Allowed[task[w].seen]
              /\ \/ /\ UpdateOrderStatus(w)
                    /\ o = task[w].order /\ to = task[w].to
                    /\ to \in SellerMoves
                    /\ events = SellerEvents(to)
                 \/ /\ task[w].kind = "message"
                    /\ task[w].message \in Messages
                    /\ o = task[w].message.order
                    /\ to = Effect[task[w].message.type]
                    /\ task[w].message.id \in processed'
                    /\ task[w].seen \in {"PENDING_STOCK", "PENDING", "PAYMENT_PENDING"}
                    /\ \/ /\ events \in {<<>>, <<"ORDER_CREATED">>}
                          /\ to \in {"PAID", "PAYMENT_PENDING", "STOCK_FAILED"}
                       \/ events = <<"ORDER_CANCELLED">> /\ to = "CANCELLED"
  <1> DEFINE Shape(w, o, to, events) ==
               /\ Move(o, to, events)
               /\ Done(w)
               /\ task[w].seen \in Statuses
               /\ HasBeen(o, task[w].seen)
               /\ to \in Allowed[task[w].seen]
               /\ \/ /\ UpdateOrderStatus(w)
                     /\ o = task[w].order /\ to = task[w].to
                     /\ to \in SellerMoves
                     /\ events = SellerEvents(to)
                  \/ /\ task[w].kind = "message"
                     /\ task[w].message \in Messages
                     /\ o = task[w].message.order
                     /\ to = Effect[task[w].message.type]
                     /\ task[w].message.id \in processed'
                     /\ task[w].seen \in {"PENDING_STOCK", "PENDING", "PAYMENT_PENDING"}
                     /\ \/ /\ events \in {<<>>, <<"ORDER_CREATED">>}
                           /\ to \in {"PAID", "PAYMENT_PENDING", "STOCK_FAILED"}
                        \/ events = <<"ORDER_CANCELLED">> /\ to = "CANCELLED"
         Moved == \E w \in Workers, o \in Orders, to \in Statuses, events \in Seq(Events) :
                    Shape(w, o, to, events)
  <1>1. ASSUME NEW w \in Workers, UpdateOrderStatus(w) PROVE Moved
    <2> DEFINE o == task[w].order
               to == task[w].to
    <2>1. o \in Orders /\ task[w].seen \in Statuses /\ to \in Statuses
      BY <1>1, SellerTask DEF UpdateOrderStatus
    <2>2. SellerEvents(to) \in Seq(Events)
      BY SellerEventsType
    <2>3. Move(o, to, SellerEvents(to)) /\ Done(w)
      BY <1>1 DEF UpdateOrderStatus
    <2>4. HasBeen(o, task[w].seen) /\ to \in Allowed[task[w].seen] /\ to \in SellerMoves
      BY <1>1 DEF Remembered, Tasked, UpdateOrderStatus
    <2>5. Shape(w, o, to, SellerEvents(to))
      BY <1>1, <2>1, <2>3, <2>4
    <2> HIDE DEF Shape
    <2> QED
      BY <2>1, <2>2, <2>5
  <1>2. ASSUME NEW w \in Workers,
               \/ MarkOrderAsPaid(w) \/ HandleStockReserved(w)
               \/ HandleStockReserveFailed(w) \/ HandlePaymentFailed(w)
        PROVE  Moved \/ UNCHANGED <<status, history, outbox>>
    <2> DEFINE m == task[w].message
    <2>1. /\ task[w].kind = "message"
          /\ m \in Messages /\ m.order \in Orders /\ m.id \in Ids
          /\ task[w].seen \in Statuses
      BY <1>2, HandlerShape, MessageTask
    <2>2. HasBeen(m.order, task[w].seen)
      BY <2>1 DEF Remembered, Tasked
    <2>3. CASE Returns(w)
      BY <2>3 DEF Returns
    <2>4. CASE ~Returns(w)
      <3>1. /\ Effect[m.type] \in Allowed[task[w].seen]
            /\ m.id \in processed'
            /\ task[w].seen \in {"PENDING_STOCK", "PENDING", "PAYMENT_PENDING"}
        BY <1>2, <2>4, HandlerShape
      <3>2. Effect[m.type] \in Statuses
        BY <2>1, <3>1, StatusNames
      <3>3. PICK events \in {<<>>, <<"ORDER_CREATED">>, <<"ORDER_CANCELLED">>} :
              /\ Writes(w, m.order, Effect[m.type], events)
              /\ \/ /\ events \in {<<>>, <<"ORDER_CREATED">>}
                    /\ Effect[m.type] \in {"PAID", "PAYMENT_PENDING", "STOCK_FAILED"}
                 \/ events = <<"ORDER_CANCELLED">> /\ Effect[m.type] = "CANCELLED"
        BY <1>2, <2>4, HandlerShape
      <3>4. events \in Seq(Events)
        <4>1. /\ <<>> \in Seq(Events)
              /\ <<"ORDER_CREATED">> \in Seq(Events)
              /\ <<"ORDER_CANCELLED">> \in Seq(Events)
          BY DEF Events
        <4> QED
          BY <3>3, <4>1
      <3>5. Shape(w, m.order, Effect[m.type], events)
        BY <2>1, <2>2, <3>1, <3>3 DEF Writes
      <3> HIDE DEF Shape
      <3> QED
        BY <2>1, <3>2, <3>4, <3>5
    <2> QED
      BY <2>3, <2>4
  <1>3. ASSUME NEW w \in Workers, NEW m \in Messages, Receive(w, m)
        PROVE  UNCHANGED <<status, history, outbox>>
    BY <1>3 DEF Receive, rows
  <1>4. ASSUME NEW w \in Workers, NEW o \in Orders, NEW to \in SellerMoves, SellerReads(w, o, to)
        PROVE  UNCHANGED <<status, history, outbox>>
    BY <1>4 DEF SellerReads, rows
  <1>5. ASSUME NEW w \in Workers, Crash(w) PROVE UNCHANGED <<status, history, outbox>>
    BY <1>5 DEF Crash, rows
  <1>6. CASE UNCHANGED vars
    BY <1>6 DEF vars
  <1>7. CASE \E cart \in Carts : CreateOrder(cart)
    BY <1>7
  <1> DEFINE Kept == UNCHANGED <<status, history, outbox>>
  <1> HIDE DEF Moved, Kept
  <1>8. Moved \/ Kept \/ \E cart \in Carts : CreateOrder(cart)
    <2>1. \A w \in Workers : Crash(w) => Kept
      BY <1>5 DEF Kept
    <2>2. \A w \in Workers, o \in Orders, to \in SellerMoves : SellerReads(w, o, to) => Kept
      BY <1>4 DEF Kept
    <2>3. \A w \in Workers, m \in Messages : Receive(w, m) => Kept
      BY <1>3 DEF Kept
    <2>4. \A w \in Workers : \/ MarkOrderAsPaid(w) \/ HandleStockReserved(w)
                            \/ HandleStockReserveFailed(w) \/ HandlePaymentFailed(w)
                              => Moved \/ Kept
      BY <1>2 DEF Kept
    <2>5. UNCHANGED vars => Kept
      BY DEF Kept, vars
    <2> QED
      BY <1>1, <2>1, <2>2, <2>3, <2>4, <2>5 DEF Next
  <1> QED
    BY <1>8 DEF Moved, Kept

LEMMA TaskStep ==
  ASSUME TypeOK, [Next]_vars, NEW v \in Workers
  PROVE  \/ task'[v] = task[v]
         \/ task'[v] = NoTask
         \/ /\ UNCHANGED rows
            /\ \E m \in Messages :
                 /\ inbox[m] > 0
                 /\ status[m.order] # "none"
                 /\ task'[v] = [kind |-> "message", message |-> m, seen |-> status[m.order]]
         \/ /\ UNCHANGED rows
            /\ \E o \in Orders, to \in SellerMoves :
                 /\ status[o] # "none"
                 /\ to \in Allowed[status[o]]
                 /\ task'[v] = [kind |-> "seller", order |-> o, seen |-> status[o], to |-> to]
  <1> DEFINE Read == /\ UNCHANGED rows
                     /\ \E m \in Messages :
                          /\ inbox[m] > 0
                          /\ status[m.order] # "none"
                          /\ task'[v] = [kind |-> "message", message |-> m,
                                        seen |-> status[m.order]]
             Asked == /\ UNCHANGED rows
                      /\ \E o \in Orders, to \in SellerMoves :
                           /\ status[o] # "none"
                           /\ to \in Allowed[status[o]]
                           /\ task'[v] = [kind |-> "seller", order |-> o,
                                         seen |-> status[o], to |-> to]
             Same == task'[v] = task[v] \/ task'[v] = NoTask
  <1>1. ASSUME NEW cart \in Carts, CreateOrder(cart) PROVE Same
    BY <1>1 DEF CreateOrder
  <1>2. ASSUME NEW w \in Workers, NEW m \in Messages, Receive(w, m) PROVE Same \/ Read
    <2>1. CASE m.id \in processed
      BY <1>2, <2>1 DEF Receive
    <2>2. CASE m.id \notin processed
      BY <1>2, <2>2 DEF Receive, TypeOK
    <2> QED
      BY <2>1, <2>2
  <1>3. ASSUME NEW w \in Workers, Done(w) PROVE Same
    BY <1>3 DEF Done, TypeOK
  <1>4. ASSUME NEW w \in Workers,
               \/ MarkOrderAsPaid(w) \/ HandleStockReserved(w)
               \/ HandleStockReserveFailed(w) \/ HandlePaymentFailed(w)
               \/ UpdateOrderStatus(w) \/ Crash(w)
        PROVE  Same
    BY <1>3, <1>4 DEF MarkOrderAsPaid, HandleStockReserved, HandleStockReserveFailed,
                      HandlePaymentFailed, UpdateOrderStatus, Crash
  <1>5. ASSUME NEW w \in Workers, NEW o \in Orders, NEW to \in SellerMoves, SellerReads(w, o, to)
        PROVE  Same \/ Asked
    BY <1>5 DEF SellerReads, TypeOK
  <1>6. UNCHANGED vars => Same
    BY DEF vars
  <1> HIDE DEF Read, Asked, Same
  <1>7. Same \/ Read \/ Asked
    BY <1>1, <1>2, <1>4, <1>5, <1>6 DEF Next
  <1> QED
    BY <1>7 DEF Same, Read, Asked

LEMMA HistoryGrows ==
  ASSUME TypeOK, Remembered, [Next]_vars
  PROVE  \A q \in Orders, s \in Statuses : HasBeen(q, s) => HasBeen(q, s)'
  <1>1. CASE \E cart \in Carts : CreateOrder(cart)
    BY <1>1, CreateHistory
  <1>2. CASE UNCHANGED <<status, history, outbox>>
    BY <1>2 DEF HasBeen
  <1>3. CASE \E o \in Orders, to \in Statuses, events \in Seq(Events) : Move(o, to, events)
    BY <1>3, MoveHistory
  <1> QED
    BY <1>1, <1>2, <1>3, WriteStep

LEMMA InitRemembered == Init => Remembered
  BY DEF Init, Remembered, Tasked, NoTask

LEMMA NextRemembered ==
  ASSUME TypeOK, TypeOK', Remembered, [Next]_vars
  PROVE  Remembered'
  <1>1. ASSUME NEW q \in Orders
        PROVE  /\ status'[q] = "none" => history'[q] = <<>>
               /\ status'[q] # "none" => HasBeen(q, status[q])'
    <2>1. CASE \E cart \in Carts : CreateOrder(cart)
      <3>1. CASE history'[q] = history[q] /\ status'[q] = status[q]
        BY <3>1 DEF Remembered, HasBeen
      <3>2. CASE history'[q] = <<"PENDING_STOCK">> /\ status'[q] = "PENDING_STOCK"
        BY <3>2 DEF HasBeen
      <3> QED
        BY <2>1, <3>1, <3>2, CreateHistory
    <2>2. CASE UNCHANGED <<status, history, outbox>>
      BY <2>2 DEF Remembered, HasBeen
    <2>3. CASE \E o \in Orders, to \in Statuses, events \in Seq(Events) : Move(o, to, events)
      <3>1. PICK o \in Orders, to \in Statuses, events \in Seq(Events) : Move(o, to, events)
        BY <2>3
      <3>2. CASE q = o
        <4>1. status'[q] = to
          BY <3>1, <3>2 DEF Move, TypeOK
        <4>2. HasBeen(o, to)'
          BY <3>1, MoveHistory
        <4> QED
          BY <3>2, <4>1, <4>2, StatusNames DEF HasBeen
      <3>3. CASE q # o
        <4>1. status'[q] = status[q] /\ history'[q] = history[q]
          BY <3>1, <3>3 DEF Move, TypeOK
        <4> QED
          BY <4>1 DEF Remembered, HasBeen
      <3> QED
        BY <3>2, <3>3
    <2> QED
      BY <2>1, <2>2, <2>3, WriteStep
  <1>2. ASSUME NEW w \in Workers PROVE Tasked(w)'
    <2>1. CASE task'[w] = task[w]
      <3>1. ASSUME task[w].kind = "message"
            PROVE  HasBeen(task[w].message.order, task[w].seen)'
        BY <2>1, <3>1, MessageTask, HistoryGrows DEF Remembered, Tasked, HasBeen
      <3>2. ASSUME task[w].kind = "seller"
            PROVE  HasBeen(task[w].order, task[w].seen)'
        BY <2>1, <3>2, SellerTask, HistoryGrows DEF Remembered, Tasked, HasBeen
      <3> QED
        BY <2>1, <3>1, <3>2 DEF Remembered, Tasked, HasBeen
    <2>2. CASE task'[w] = NoTask
      BY <2>2 DEF Tasked, NoTask
    <2>3. ASSUME UNCHANGED rows, NEW m \in Messages, status[m.order] # "none",
                 task'[w] = [kind |-> "message", message |-> m, seen |-> status[m.order]]
          PROVE  Tasked(w)'
      <3>1. m.order \in Orders
        BY OrdersAssumption
      <3>2. HasBeen(m.order, status[m.order])
        BY <2>3, <3>1 DEF Remembered
      <3> QED
        BY <2>3, <3>2 DEF Tasked, HasBeen, rows
    <2>4. ASSUME UNCHANGED rows, NEW o \in Orders, NEW to \in SellerMoves,
                 status[o] # "none", to \in Allowed[status[o]],
                 task'[w] = [kind |-> "seller", order |-> o, seen |-> status[o], to |-> to]
          PROVE  Tasked(w)'
      <3>1. HasBeen(o, status[o])
        BY <2>4 DEF Remembered
      <3> QED
        BY <2>4, <3>1 DEF Tasked, HasBeen, rows
    <2> QED
      BY <2>1, <2>2, <2>3, <2>4, TaskStep
  <1> QED
    BY <1>1, <1>2 DEF Remembered

-----------------------------------------------------------------------------
(* Moves are justified *)

LEMMA NextJustified ==
  ASSUME TypeOK, Remembered, EveryMoveJustified, [Next]_vars
  PROVE  EveryMoveJustified'
  <1> SUFFICES ASSUME NEW q \in Orders, NEW i \in 2..Len(history'[q])
               PROVE  \E j \in 1..(i - 1) : history'[q][i] \in Allowed[history'[q][j]]
    BY DEF EveryMoveJustified
  <1> DEFINE Was == \A k \in 2..Len(history[q]) :
                      \E j \in 1..(k - 1) : history[q][k] \in Allowed[history[q][j]]
  <1>1. Was
    BY DEF EveryMoveJustified
  <1>2. CASE history'[q] = history[q]
    BY <1>1, <1>2
  <1>3. CASE history'[q] = <<"PENDING_STOCK">>
    BY <1>3
  <1>4. ASSUME NEW w \in Workers, NEW to \in Statuses, NEW events \in Seq(Events),
               Move(q, to, events), HasBeen(q, task[w].seen), to \in Allowed[task[w].seen]
        PROVE  \E j \in 1..(i - 1) : history'[q][i] \in Allowed[history'[q][j]]
    <2>1. /\ Len(history'[q]) = Len(history[q]) + 1
          /\ \A k \in 1..Len(history[q]) : history'[q][k] = history[q][k]
          /\ history'[q][Len(history[q]) + 1] = to
          /\ Len(history[q]) \in Nat
      BY <1>4, MoveHistory DEF TypeOK
    <2>2. CASE i = Len(history[q]) + 1
      <3>1. PICK j \in 1..Len(history[q]) : history[q][j] = task[w].seen
        BY <1>4 DEF HasBeen
      <3> QED
        BY <1>4, <2>1, <2>2, <3>1
    <2>3. CASE i # Len(history[q]) + 1
      <3>1. i \in 2..Len(history[q])
        BY <2>1, <2>3
      <3>2. PICK j \in 1..(i - 1) : history[q][i] \in Allowed[history[q][j]]
        BY <1>1, <3>1
      <3>3. history'[q][i] = history[q][i] /\ history'[q][j] = history[q][j]
        BY <2>1, <3>1
      <3> QED
        BY <3>2, <3>3
    <2> QED
      BY <2>2, <2>3
  <1>5. \/ history'[q] = history[q]
        \/ history'[q] = <<"PENDING_STOCK">>
        \/ \E w \in Workers, to \in Statuses, events \in Seq(Events) :
             /\ Move(q, to, events)
             /\ HasBeen(q, task[w].seen)
             /\ to \in Allowed[task[w].seen]
    <2>1. CASE \E cart \in Carts : CreateOrder(cart)
      BY <2>1, CreateHistory
    <2>2. CASE UNCHANGED <<status, history, outbox>>
      BY <2>2
    <2>3. CASE \E w \in Workers, o \in Orders, to \in Statuses, events \in Seq(Events) :
                 /\ Move(o, to, events)
                 /\ HasBeen(o, task[w].seen)
                 /\ to \in Allowed[task[w].seen]
      <3>1. PICK w \in Workers, o \in Orders, to \in Statuses, events \in Seq(Events) :
                 /\ Move(o, to, events)
                 /\ HasBeen(o, task[w].seen)
                 /\ to \in Allowed[task[w].seen]
        BY <2>3
      <3>2. q # o => history'[q] = history[q]
        BY <3>1, MoveHistory
      <3> QED
        BY <3>1, <3>2
    <2> QED
      BY <2>1, <2>2, <2>3, WriteStep
  <1> QED
    BY <1>2, <1>3, <1>4, <1>5

\* No interleaving of handlers, sellers' requests, duplicates and crashes gives
\* an order a status that none of its earlier ones leads to (updateOrderStatus
\* and the four handlers of order-events.service.ts).
THEOREM MovesJustified == Spec => []EveryMoveJustified
  <1>1. Init => TypeOK /\ Remembered /\ EveryMoveJustified
    BY InitTypeOK, InitRemembered DEF Init, EveryMoveJustified
  <1>2. /\ TypeOK /\ Remembered /\ EveryMoveJustified
        /\ [Next]_vars
        => TypeOK' /\ Remembered' /\ EveryMoveJustified'
    BY NextTypeOK, NextRemembered, NextJustified
  <1> QED
    BY <1>1, <1>2, PTL DEF Spec

-----------------------------------------------------------------------------
(* What processed_messages says was done was done *)

LEMMA ProcessedGrows ==
  ASSUME [Next]_vars
  PROVE  processed \subseteq processed'
  <1>1. ASSUME NEW w \in Workers,
               \/ MarkOrderAsPaid(w) \/ HandleStockReserved(w)
               \/ HandleStockReserveFailed(w) \/ HandlePaymentFailed(w)
        PROVE  processed \subseteq processed'
    BY <1>1 DEF MarkOrderAsPaid, HandleStockReserved, HandleStockReserveFailed,
                HandlePaymentFailed, Record, Ignored
  <1>2. ASSUME NEW w \in Workers, NEW m \in Messages, Receive(w, m)
        PROVE  processed \subseteq processed'
    BY <1>2 DEF Receive, rows
  <1>3. ASSUME NEW w \in Workers, NEW o \in Orders, NEW to \in SellerMoves, SellerReads(w, o, to)
        PROVE  processed \subseteq processed'
    BY <1>3 DEF SellerReads, rows
  <1>4. ASSUME NEW w \in Workers, Crash(w) \/ UpdateOrderStatus(w)
        PROVE  processed \subseteq processed'
    BY <1>4 DEF Crash, rows, UpdateOrderStatus
  <1>5. ASSUME NEW cart \in Carts, CreateOrder(cart) PROVE processed \subseteq processed'
    BY <1>5 DEF CreateOrder
  <1>6. UNCHANGED vars => processed \subseteq processed'
    BY DEF vars
  <1> QED
    BY <1>1, <1>2, <1>3, <1>4, <1>5, <1>6 DEF Next

\* An id enters processed_messages only as its own handler commits.
LEMMA RecordStep ==
  ASSUME [Next]_vars, NEW id, id \in processed', id \notin processed
  PROVE  \E w \in Workers : /\ \/ MarkOrderAsPaid(w) \/ HandleStockReserved(w)
                               \/ HandleStockReserveFailed(w) \/ HandlePaymentFailed(w)
                            /\ id = task[w].message.id
  <1> DEFINE Handlers(w) == \/ MarkOrderAsPaid(w) \/ HandleStockReserved(w)
                            \/ HandleStockReserveFailed(w) \/ HandlePaymentFailed(w)
  <1>1. ASSUME NEW w \in Workers, Handlers(w) PROVE id = task[w].message.id
    BY <1>1 DEF MarkOrderAsPaid, HandleStockReserved, HandleStockReserveFailed,
                HandlePaymentFailed, Record, Ignored
  <1>2. ASSUME NEW w \in Workers, NEW m \in Messages, Receive(w, m) PROVE FALSE
    BY <1>2 DEF Receive, rows
  <1>3. ASSUME NEW w \in Workers, NEW o \in Orders, NEW to \in SellerMoves, SellerReads(w, o, to)
        PROVE  FALSE
    BY <1>3 DEF SellerReads, rows
  <1>4. ASSUME NEW w \in Workers, Crash(w) \/ UpdateOrderStatus(w) PROVE FALSE
    BY <1>4 DEF Crash, rows, UpdateOrderStatus
  <1>5. ASSUME NEW cart \in Carts, CreateOrder(cart) PROVE FALSE
    BY <1>5 DEF CreateOrder
  <1>6. ASSUME UNCHANGED vars PROVE FALSE
    BY <1>6 DEF vars
  <1> QED
    BY <1>1, <1>2, <1>3, <1>4, <1>5, <1>6 DEF Next

LEMMA NextRecorded ==
  ASSUME TypeOK, TypeOK', Remembered, RecordedTookEffect, [Next]_vars
  PROVE  RecordedTookEffect'
  <1> SUFFICES ASSUME NEW m \in Messages, m.type # "PAYMENT_SUCCEEDED", m.id \in processed'
               PROVE  HasBeen(m.order, Effect[m.type])'
    BY DEF RecordedTookEffect, TookEffect, HasBeen
  <1>1. m.order \in Orders /\ Effect[m.type] \in Statuses
    BY OrdersAssumption DEF MessageTypes, Effect, Statuses
  <1>2. CASE m.id \in processed
    <2>1. HasBeen(m.order, Effect[m.type])
      BY <1>2 DEF RecordedTookEffect, TookEffect
    <2> QED
      BY <1>1, <2>1, HistoryGrows
  <1>3. CASE m.id \notin processed
    <2>1. PICK w \in Workers :
            /\ \/ MarkOrderAsPaid(w) \/ HandleStockReserved(w)
               \/ HandleStockReserveFailed(w) \/ HandlePaymentFailed(w)
            /\ m.id = task[w].message.id
      BY <1>3, RecordStep
    <2>2. task[w].kind = "message"
      BY <2>1, HandlerShape
    <2>3. task[w].message \in Messages
      BY <2>2, MessageTask
    <2>4. task[w].message.type = m.type /\ task[w].message.order = m.order
      BY <2>1, <2>3, OrdersAssumption
    <2>5. \E events : Move(m.order, Effect[m.type], events)
      BY <1>3, <2>1, <2>4, HandlerShape DEF Writes
    <2> QED
      BY <1>1, <2>5, MoveHistory
  <1> QED
    BY <1>2, <1>3

\* A stock reply or a failed payment recorded in processed_messages has moved
\* its order, however its duplicates and the order's other messages race
\* (handleStockReserved, handleStockReserveFailed, handlePaymentFailed).
THEOREM RecordsKept == Spec => []RecordedTookEffect
  <1>1. Init => TypeOK /\ Remembered /\ RecordedTookEffect
    BY InitTypeOK, InitRemembered DEF Init, RecordedTookEffect, TookEffect
  <1>2. /\ TypeOK /\ Remembered /\ RecordedTookEffect
        /\ [Next]_vars
        => TypeOK' /\ Remembered' /\ RecordedTookEffect'
    BY NextTypeOK, NextRemembered, NextRecorded
  <1> QED
    BY <1>1, <1>2, PTL DEF Spec

-----------------------------------------------------------------------------
(* Fulfilment is paid for *)

Settled(o) == \E m \in Messages : /\ m.type = "PAYMENT_SUCCEEDED"
                                  /\ m.order = o
                                  /\ m.id \in processed

LEMMA NextPaid ==
  ASSUME "PAID" \notin SellerMoves, TypeOK, TypeOK', Remembered, FulfilmentPaid, [Next]_vars
  PROVE  FulfilmentPaid'
  <1> SUFFICES ASSUME NEW q \in Orders, NEW s \in Fulfilled, HasBeen(q, s)'
               PROVE  Settled(q)'
    BY DEF FulfilmentPaid, Settled
  <1>1. Settled(q) => Settled(q)'
    BY ProcessedGrows DEF Settled
  <1>2. \A f \in Fulfilled : HasBeen(q, f) => Settled(q)
    BY DEF FulfilmentPaid, Settled
  <1>3. CASE HasBeen(q, s)
    BY <1>1, <1>2, <1>3
  <1>4. CASE ~HasBeen(q, s)
    <2>1. CASE \E cart \in Carts : CreateOrder(cart)
      <3>1. history'[q] = history[q] \/ history'[q] = <<"PENDING_STOCK">>
        BY <2>1, CreateHistory
      <3>2. s # "PENDING_STOCK"
        BY DEF Fulfilled
      <3> QED
        BY <1>4, <3>1, <3>2 DEF HasBeen
    <2>2. CASE UNCHANGED <<status, history, outbox>>
      BY <1>4, <2>2 DEF HasBeen
    <2>3. ASSUME NEW w \in Workers, NEW o \in Orders, NEW to \in Statuses,
                 NEW events \in Seq(Events), Move(o, to, events),
                 HasBeen(o, task[w].seen), task[w].seen \in Statuses,
                 to \in Allowed[task[w].seen],
                 \/ to \in SellerMoves
                 \/ /\ task[w].message \in Messages
                    /\ o = task[w].message.order
                    /\ to = Effect[task[w].message.type]
                    /\ task[w].message.id \in processed'
          PROVE  Settled(q)'
      <3>1. q = o /\ s = to
        BY <1>4, <2>3, MoveHistory, StatusNames
      <3>2. CASE to \in SellerMoves
        <4>1. to \in Fulfilled \ {"PAID"}
          BY <3>1, <3>2
        <4>2. task[w].seen \in Fulfilled
          BY <2>3, <4>1 DEF Fulfilled, Allowed, Statuses
        <4> QED
          BY <1>1, <1>2, <2>3, <3>1, <4>2
      <3>3. CASE to \notin SellerMoves
        <4>1. task[w].message.type = "PAYMENT_SUCCEEDED"
          BY <2>3, <3>1, <3>3, OrdersAssumption DEF Fulfilled, Effect, MessageTypes
        <4> QED
          BY <2>3, <3>1, <3>3, <4>1 DEF Settled
      <3> QED
        BY <3>2, <3>3
    <2> QED
      BY <2>1, <2>2, <2>3, WriteStep
  <1> QED
    BY <1>3, <1>4

\* Where sellers do not ask for PAID themselves, and the storefront never does,
\* an order that was ever paid, approved, refused, processed, shipped or
\* delivered had its payment processed (markOrderAsPaid, updateOrderStatus).
THEOREM PaidFirst == ASSUME "PAID" \notin SellerMoves PROVE Spec => []FulfilmentPaid
  <1>1. Init => TypeOK /\ Remembered /\ FulfilmentPaid
    BY InitTypeOK, InitRemembered DEF Init, FulfilmentPaid, HasBeen
  <1>2. /\ TypeOK /\ Remembered /\ FulfilmentPaid
        /\ [Next]_vars
        => TypeOK' /\ Remembered' /\ FulfilmentPaid'
    BY NextTypeOK, NextRemembered, NextPaid
  <1> QED
    BY <1>1, <1>2, PTL DEF Spec

-----------------------------------------------------------------------------
(* Handlers that are apart *)

\* A handler that has an order in hand which was never raced for is alone with
\* it, and what it read is what the order still is.
Current ==
  \A w \in Workers, o \in Orders \ raced :
    Concerns(w, o) => /\ task[w].seen = status[o]
                      /\ \A v \in Workers : Concerns(v, o) => v = w

\* What a step does to the handlers: nothing, or one is done, or one takes up
\* an order, reading its status.
LEMMA HandStep ==
  ASSUME TypeOK, [Next]_vars
  PROVE  /\ raced \subseteq raced'
         /\ \/ UNCHANGED task
            \/ \E w \in Workers : task' = [task EXCEPT ![w] = NoTask]
            \/ \E w \in Workers, o \in Orders :
                 /\ UNCHANGED rows
                 /\ TakesUp(w, o)
                 /\ \A v \in Workers \ {w} : task'[v] = task[v]
                 /\ task'[w].seen = status[o]
                 /\ \A q : Concerns(w, q)' => q = o
  <1> DEFINE Takes1 == \E w \in Workers, o \in Orders :
                         /\ UNCHANGED rows
                         /\ TakesUp(w, o)
                         /\ \A v \in Workers \ {w} : task'[v] = task[v]
                         /\ task'[w].seen = status[o]
                         /\ \A q : Concerns(w, q)' => q = o
             Ends == \E w \in Workers : task' = [task EXCEPT ![w] = NoTask]
             Goal == raced \subseteq raced' /\ (UNCHANGED task \/ Ends \/ Takes1)
  <1>1. ASSUME NEW w \in Workers, NEW m \in Messages, Receive(w, m) PROVE Goal
    <2>1. CASE m.id \in processed
      BY <1>1, <2>1 DEF Receive
    <2>2. CASE m.id \notin processed
      <3>1. /\ m.order \in Orders
            /\ task' = [task EXCEPT ![w] = [kind |-> "message", message |-> m,
                                            seen |-> status[m.order]]]
            /\ TakesUp(w, m.order) /\ UNCHANGED rows
        BY <1>1, <2>2, OrdersAssumption DEF Receive
      <3>2. task'[w] = [kind |-> "message", message |-> m, seen |-> status[m.order]]
        BY <3>1 DEF TypeOK
      <3>3. /\ task'[w].seen = status[m.order]
            /\ \A q : Concerns(w, q)' => q = m.order
        BY <3>2 DEF Concerns
      <3>4. \A v \in Workers \ {w} : task'[v] = task[v]
        BY <3>1 DEF TypeOK
      <3>5. raced \subseteq raced'
        BY <3>1 DEF TakesUp
      <3> QED
        BY <3>1, <3>3, <3>4, <3>5
    <2> QED
      BY <2>1, <2>2
  <1>2. ASSUME NEW w \in Workers, NEW o \in Orders, NEW to \in SellerMoves, SellerReads(w, o, to)
        PROVE  Goal
    <2>1. /\ task' = [task EXCEPT ![w] = [kind |-> "seller", order |-> o,
                                          seen |-> status[o], to |-> to]]
          /\ TakesUp(w, o) /\ UNCHANGED rows
      BY <1>2 DEF SellerReads, rows
    <2>2. task'[w] = [kind |-> "seller", order |-> o, seen |-> status[o], to |-> to]
      BY <2>1 DEF TypeOK
    <2>3. /\ task'[w].seen = status[o]
          /\ \A q : Concerns(w, q)' => q = o
      BY <2>2 DEF Concerns
    <2>4. \A v \in Workers \ {w} : task'[v] = task[v]
      BY <2>1 DEF TypeOK
    <2>5. raced \subseteq raced'
      BY <2>1 DEF TakesUp
    <2> QED
      BY <2>1, <2>3, <2>4, <2>5
  <1>3. ASSUME NEW w \in Workers, Done(w) PROVE Goal
    BY <1>3 DEF Done
  <1>4. ASSUME NEW w \in Workers,
               \/ MarkOrderAsPaid(w) \/ HandleStockReserved(w)
               \/ HandleStockReserveFailed(w) \/ HandlePaymentFailed(w)
               \/ UpdateOrderStatus(w) \/ Crash(w)
        PROVE  Done(w)
    BY <1>4 DEF MarkOrderAsPaid, HandleStockReserved, HandleStockReserveFailed,
                HandlePaymentFailed, UpdateOrderStatus, Crash
  <1>5. ASSUME NEW cart \in Carts, CreateOrder(cart) PROVE Goal
    BY <1>5 DEF CreateOrder
  <1>6. UNCHANGED vars => Goal
    BY DEF vars
  <1> HIDE DEF Goal
  <1>7. Goal
    BY <1>1, <1>2, <1>3, <1>4, <1>5, <1>6 DEF Next
  <1> QED
    BY <1>7 DEF Goal

LEMMA ConcernsTypes ==
  ASSUME TypeOK, NEW w \in Workers, NEW o, Concerns(w, o)
  PROVE  o \in Orders /\ task[w].seen \in Statuses /\ task[w] # NoTask
  BY MessageTask, SellerTask DEF Concerns, NoTask

\* Whoever writes an order that was never raced for read what it is.
LEMMA AloneWrites ==
  ASSUME TypeOK, Remembered, Current, [Next]_vars, NEW q \in Orders \ raced
  PROVE  \/ \E cart \in Carts : CreateOrder(cart)
         \/ UNCHANGED <<status, history, outbox>>
         \/ \E o \in Orders \ {q}, to \in Statuses, events \in Seq(Events) : Move(o, to, events)
         \/ \E w \in Workers, to \in Allowed[status[q]], events \in Seq(Events) :
              /\ Move(q, to, events)
              /\ Done(w)
              /\ Concerns(w, q)
              /\ task[w].seen = status[q]
              /\ to \in Statuses
              /\ \/ events = SellerEvents(to)
                 \/ /\ events \in {<<>>, <<"ORDER_CREATED">>}
                    /\ to \in {"PAID", "PAYMENT_PENDING", "STOCK_FAILED"}
                 \/ events = <<"ORDER_CANCELLED">> /\ to = "CANCELLED"
  <1> DEFINE Rows(to, events) == \/ events = SellerEvents(to)
                                 \/ /\ events \in {<<>>, <<"ORDER_CREATED">>}
                                    /\ to \in {"PAID", "PAYMENT_PENDING", "STOCK_FAILED"}
                                 \/ events = <<"ORDER_CANCELLED">> /\ to = "CANCELLED"
  <1>1. ASSUME NEW w \in Workers, NEW o \in Orders, NEW to \in Statuses, NEW events \in Seq(Events),
               Move(o, to, events), Done(w), to \in Allowed[task[w].seen],
               \/ UpdateOrderStatus(w) /\ o = task[w].order
               \/ task[w].kind = "message" /\ o = task[w].message.order,
               Rows(to, events), o = q
        PROVE  /\ Concerns(w, q) /\ task[w].seen = status[q]
               /\ to \in Allowed[status[q]]
    <2>1. Concerns(w, q)
      BY <1>1 DEF Concerns, UpdateOrderStatus
    <2>2. task[w].seen = status[q]
      BY <2>1 DEF Current
    <2> QED
      BY <1>1, <2>1, <2>2
  <1>2. CASE \E w \in Workers, o \in Orders, to \in Statuses, events \in Seq(Events) :
               /\ Move(o, to, events) /\ Done(w) /\ to \in Allowed[task[w].seen]
               /\ \/ UpdateOrderStatus(w) /\ o = task[w].order
                  \/ task[w].kind = "message" /\ o = task[w].message.order
               /\ Rows(to, events)
    <2>1. PICK w \in Workers, o \in Orders, to \in Statuses, events \in Seq(Events) :
               /\ Move(o, to, events) /\ Done(w) /\ to \in Allowed[task[w].seen]
               /\ \/ UpdateOrderStatus(w) /\ o = task[w].order
                  \/ task[w].kind = "message" /\ o = task[w].message.order
               /\ Rows(to, events)
      BY <1>2
    <2>2. CASE o # q
      BY <2>1, <2>2
    <2>3. CASE o = q
      <3>1. Move(q, to, events)
        BY <2>1, <2>3
      <3>2. Concerns(w, q) /\ task[w].seen = status[q] /\ to \in Allowed[status[q]]
        BY <1>1, <2>1, <2>3
      <3> QED
        BY <2>1, <3>1, <3>2
    <2> QED
      BY <2>2, <2>3
  <1> QED
    BY <1>2, WriteStep

LEMMA NextCurrent ==
  ASSUME TypeOK, TypeOK', Remembered, Current, [Next]_vars
  PROVE  Current'
  <1> SUFFICES ASSUME NEW w \in Workers, NEW o \in Orders, o \notin raced', Concerns(w, o)'
               PROVE  /\ task'[w].seen = status'[o]
                      /\ \A v \in Workers : Concerns(v, o)' => v = w
    BY DEF Current, Concerns
  <1>1. o \notin raced
    BY HandStep
  <1>2. \A v \in Workers : task'[v] = task[v] => (Concerns(v, o)' <=> Concerns(v, o))
    BY DEF Concerns
  <1>3. \A v \in Workers : task'[v] = NoTask => ~Concerns(v, o)'
    BY DEF Concerns, NoTask
  <1>4. ASSUME task'[w] = task[w] PROVE task'[w].seen = status'[o]
    <2>1. Concerns(w, o)
      BY <1>2, <1>4
    <2>2. task[w].seen = status[o] /\ \A v \in Workers : Concerns(v, o) => v = w
      BY <1>1, <2>1 DEF Current
    <2>3. status[o] # "none" /\ task[w] # NoTask
      BY <2>1, <2>2, ConcernsTypes, StatusNames
    <2>4. CASE \E cart \in Carts : CreateOrder(cart)
      BY <1>4, <2>2, <2>3, <2>4, CreateHistory
    <2>5. CASE UNCHANGED <<status, history, outbox>>
      BY <1>4, <2>2, <2>5
    <2>6. CASE \E q \in Orders \ {o}, to \in Statuses, events \in Seq(Events) : Move(q, to, events)
      BY <1>4, <2>2, <2>6 DEF Move, TypeOK
    <2>7. ASSUME NEW v \in Workers, Done(v), Concerns(v, o) PROVE FALSE
      <3>1. v = w
        BY <2>2, <2>7
      <3>2. task'[w] = NoTask
        BY <2>7, <3>1 DEF Done, TypeOK
      <3> QED
        BY <1>4, <2>3, <3>2
    <2> QED
      BY <1>1, <2>4, <2>5, <2>6, <2>7, AloneWrites
  <1>5. CASE \A v \in Workers : task'[v] = task[v] \/ task'[v] = NoTask
    <2>1. task'[w] = task[w] /\ Concerns(w, o)
      BY <1>2, <1>3, <1>5
    <2>2. \A v \in Workers : Concerns(v, o) => v = w
      BY <1>1, <2>1 DEF Current
    <2> QED
      BY <1>2, <1>3, <1>4, <1>5, <2>1, <2>2
  <1>6. ASSUME NEW u \in Workers, NEW q \in Orders, UNCHANGED rows, TakesUp(u, q),
               \A v \in Workers \ {u} : task'[v] = task[v],
               task'[u].seen = status[q], \A p : Concerns(u, p)' => p = q
        PROVE  /\ task'[w].seen = status'[o]
               /\ \A v \in Workers : Concerns(v, o)' => v = w
    <2>1. o = q => \A v \in Workers \ {u} : ~Concerns(v, o)
      BY <1>6 DEF TakesUp
    <2>2. CASE w = u
      <3>1. o = q /\ status' = status
        BY <1>6, <2>2 DEF rows
      <3> QED
        BY <1>2, <1>6, <2>1, <2>2, <3>1
    <2>3. CASE w # u
      <3>1. task'[w] = task[w] /\ Concerns(w, o)
        BY <1>2, <1>6, <2>3
      <3>2. o # q
        BY <2>1, <2>3, <3>1
      <3>3. ~Concerns(u, o)'
        BY <1>6, <3>2
      <3>4. \A v \in Workers : Concerns(v, o) => v = w
        BY <1>1, <3>1 DEF Current
      <3> QED
        BY <1>2, <1>4, <1>6, <3>1, <3>3, <3>4
    <2> QED
      BY <2>2, <2>3
  <1>7. CASE UNCHANGED task \/ \E u \in Workers : task' = [task EXCEPT ![u] = NoTask]
    <2>1. \A v \in Workers : task'[v] = task[v] \/ task'[v] = NoTask
      BY <1>7 DEF TypeOK
    <2> QED
      BY <1>5, <2>1
  <1> QED
    BY <1>6, <1>7, HandStep

LEMMA NextLifecycle ==
  ASSUME TypeOK, Remembered, Current, [Next]_vars, NEW q \in Orders \ raced'
  PROVE  \/ status'[q] = status[q]
         \/ status[q] = "none"
         \/ status'[q] \in Allowed[status[q]]
  <1>1. q \in Orders \ raced
    BY HandStep
  <1>2. CASE \E cart \in Carts : CreateOrder(cart)
    BY <1>2, CreateHistory
  <1>3. CASE UNCHANGED <<status, history, outbox>>
    BY <1>3
  <1>4. CASE \E o \in Orders \ {q}, to \in Statuses, events \in Seq(Events) : Move(o, to, events)
    BY <1>4 DEF Move, TypeOK
  <1>5. CASE \E to \in Allowed[status[q]], events \in Seq(Events) : Move(q, to, events)
    BY <1>5 DEF Move, TypeOK
  <1> QED
    BY <1>1, <1>2, <1>3, <1>4, <1>5, AloneWrites

\* However many handlers run, an order whose own were never two at once moves
\* along the table of OrderValidationService and nowhere else (updateOrderStatus
\* and the four handlers of order-events.service.ts).
THEOREM LifecycleApart == Spec => Lifecycle
  <1> DEFINE Follows == \A o \in Orders \ raced' : \/ status'[o] = status[o]
                                                   \/ status[o] = "none"
                                                   \/ status'[o] \in Allowed[status[o]]
  <1>1. Init => TypeOK /\ Remembered /\ Current
    BY InitTypeOK, InitRemembered DEF Init, Current, Concerns, NoTask
  <1>2. /\ TypeOK /\ Remembered /\ Current
        /\ [Next]_vars
        => TypeOK' /\ Remembered' /\ Current'
    BY NextTypeOK, NextRemembered, NextCurrent
  <1>3. TypeOK /\ Remembered /\ Current /\ [Next]_vars => [Follows]_vars
    BY NextLifecycle
  <1> QED
    BY <1>1, <1>2, <1>3, PTL DEF Spec, Lifecycle

-----------------------------------------------------------------------------
(* Stock is given back once *)

Releasing == {"ORDER_CANCELLED", "ORDER_REJECTED"}
Void == {"CANCELLED", "REJECTED"}

\* The rows a write leaves behind the ones that were there.
LEMMA MoveOutbox ==
  ASSUME TypeOK, NEW o \in Orders, NEW to \in Statuses, NEW events \in Seq(Events),
         Move(o, to, events)
  PROVE  /\ Len(outbox) \in Nat /\ Len(events) \in Nat
         /\ Len(outbox') = Len(outbox) + Len(events)
         /\ \A i \in 1..Len(outbox) : outbox'[i] = outbox[i]
         /\ \A k \in 1..Len(events) : outbox'[Len(outbox) + k] = Row(events[k], o)
  <1> DEFINE new == [i \in 1..Len(events) |-> Row(events[i], o)]
             n == Len(outbox)
  <1>1. outbox \in Seq([event : Events, order : Orders]) /\ n \in Nat
    BY DEF TypeOK
  <1>2. Len(events) \in Nat /\ new \in Seq([event : Events, order : Orders]) /\ Len(new) = Len(events)
    <2>1. \A i \in 1..Len(events) : Row(events[i], o) \in [event : Events, order : Orders]
      BY ElementOfSeq DEF Row
    <2> QED
      BY <2>1, IsASeq
  <1>3. /\ Len(outbox') = n + Len(events)
        /\ \A i \in 1..n : outbox'[i] = outbox[i]
        /\ \A k \in 1..Len(events) : outbox'[n + k] = Row(events[k], o)
    <2>1. outbox' = outbox \o new
      BY DEF Move
    <2>2. \A k \in 1..Len(events) : new[k] = Row(events[k], o)
      OBVIOUS
    <2> HIDE DEF new, n
    <2>3. /\ Len(outbox \o new) = Len(outbox) + Len(new)
          /\ \A i \in 1..(Len(outbox) + Len(new)) :
               (outbox \o new)[i] = IF i <= Len(outbox) THEN outbox[i] ELSE new[i - Len(outbox)]
      BY <1>1, <1>2, ConcatProperties
    <2>4. /\ Len(outbox') = n + Len(events)
          /\ \A i \in 1..(n + Len(events)) :
               outbox'[i] = IF i <= n THEN outbox[i] ELSE new[i - n]
      BY <1>2, <2>1, <2>3 DEF n
    <2>5. \A i \in 1..n : outbox'[i] = outbox[i]
      BY <1>1, <1>2, <2>4
    <2>6. ASSUME NEW k \in 1..Len(events) PROVE outbox'[n + k] = Row(events[k], o)
      <3>1. n + k \in 1..(n + Len(events)) /\ ~(n + k <= n) /\ (n + k) - n = k
        BY <1>1, <1>2
      <3> QED
        BY <2>2, <2>4, <3>1
    <2> QED
      BY <2>4, <2>5, <2>6
  <1> QED
    BY <1>1, <1>2, <1>3

LEMMA MoveReleases ==
  ASSUME TypeOK, NEW o \in Orders, NEW to \in Statuses, NEW events \in Seq(Events),
         Move(o, to, events), NEW q \in Orders
  PROVE  /\ q # o => Releases(q)' = Releases(q)
         /\ Releases(o)' = Releases(o) \cup
              {Len(outbox) + k : k \in {i \in 1..Len(events) : events[i] \in Releasing}}
  <1> DEFINE n == Len(outbox)
  <1>1. n \in Nat /\ Len(events) \in Nat
    BY MoveOutbox
  <1>3. /\ Len(outbox') = n + Len(events)
        /\ \A i \in 1..n : outbox'[i] = outbox[i]
        /\ \A k \in 1..Len(events) : outbox'[n + k] = Row(events[k], o)
    BY MoveOutbox
  <1>4. ASSUME NEW p \in Orders, NEW i
        PROVE  i \in Releases(p)' <=>
                 \/ i \in Releases(p)
                 \/ /\ p = o
                    /\ \E k \in 1..Len(events) : i = n + k /\ events[k] \in Releasing
    <2>1. i \in Releases(p)' <=>
            /\ i \in 1..(n + Len(events))
            /\ outbox'[i] \in {Row("ORDER_CANCELLED", p), Row("ORDER_REJECTED", p)}
      BY <1>3 DEF Releases, Row
    <2>2. CASE i \in 1..n
      BY <1>1, <1>3, <2>1, <2>2 DEF Releases
    <2>3. CASE i \notin 1..n
      <3>1. i \notin Releases(p)
        BY <2>3 DEF Releases
      <3>2. i \in 1..(n + Len(events)) <=> \E k \in 1..Len(events) : i = n + k
        <4>1. ASSUME i \in 1..(n + Len(events)) PROVE \E k \in 1..Len(events) : i = n + k
          <5>1. i - n \in 1..Len(events) /\ i = n + (i - n)
            BY <1>1, <2>3, <4>1
          <5> QED
            BY <5>1
        <4>2. ASSUME NEW k \in 1..Len(events), i = n + k PROVE i \in 1..(n + Len(events))
          BY <1>1, <4>2
        <4> QED
          BY <4>1, <4>2
      <3>3. \A k \in 1..Len(events) :
              Row(events[k], o) \in {Row("ORDER_CANCELLED", p), Row("ORDER_REJECTED", p)}
                <=> p = o /\ events[k] \in Releasing
        BY DEF Row, Releasing
      <3> QED
        BY <1>3, <2>1, <3>1, <3>2, <3>3
    <2> QED
      BY <2>2, <2>3
  <1> QED
    BY <1>4

LEMMA CreateOutbox ==
  ASSUME TypeOK, NEW cart \in Carts, CreateOrder(cart)
  PROVE  /\ Len(outbox) \in Nat /\ Len(cart) \in Nat
         /\ Len(outbox') = Len(outbox) + Len(cart)
         /\ \A i \in 1..Len(outbox) : outbox'[i] = outbox[i]
         /\ \A i \in (Len(outbox) + 1)..(Len(outbox) + Len(cart)) :
              outbox'[i] = Row("STOCK_RESERVE_REQUESTED", cart[i - Len(outbox)])
  <1> DEFINE new == [i \in 1..Len(cart) |-> Row("STOCK_RESERVE_REQUESTED", cart[i])]
             n == Len(outbox)
  <1>1. outbox \in Seq([event : Events, order : Orders]) /\ n \in Nat
    BY DEF TypeOK
  <1>2. cart \in Seq(Orders) /\ Len(cart) \in Nat
    BY OrdersAssumption
  <1>3. new \in Seq([event : Events, order : Orders]) /\ Len(new) = Len(cart)
    <2>1. \A i \in 1..Len(cart) :
            Row("STOCK_RESERVE_REQUESTED", cart[i]) \in [event : Events, order : Orders]
      BY <1>2, ElementOfSeq DEF Row, Events
    <2> QED
      BY <1>2, <2>1, IsASeq
  <1>4. /\ Len(outbox') = n + Len(cart)
        /\ \A i \in 1..n : outbox'[i] = outbox[i]
        /\ \A i \in (n + 1)..(n + Len(cart)) :
             outbox'[i] = Row("STOCK_RESERVE_REQUESTED", cart[i - n])
    <2>1. outbox' = outbox \o new
      BY DEF CreateOrder
    <2>2. \A k \in 1..Len(cart) : new[k] = Row("STOCK_RESERVE_REQUESTED", cart[k])
      OBVIOUS
    <2> HIDE DEF new, n
    <2>3. /\ Len(outbox \o new) = Len(outbox) + Len(new)
          /\ \A i \in 1..(Len(outbox) + Len(new)) :
               (outbox \o new)[i] = IF i <= Len(outbox) THEN outbox[i] ELSE new[i - Len(outbox)]
      BY <1>1, <1>3, ConcatProperties
    <2>4. /\ Len(outbox') = n + Len(cart)
          /\ \A i \in 1..(n + Len(cart)) :
               outbox'[i] = IF i <= n THEN outbox[i] ELSE new[i - n]
      BY <1>3, <2>1, <2>3 DEF n
    <2>5. \A i \in 1..n : outbox'[i] = outbox[i]
      BY <1>1, <1>2, <2>4
    <2>6. ASSUME NEW i \in (n + 1)..(n + Len(cart))
          PROVE  outbox'[i] = Row("STOCK_RESERVE_REQUESTED", cart[i - n])
      <3>1. i \in 1..(n + Len(cart)) /\ ~(i <= n) /\ i - n \in 1..Len(cart)
        BY <1>1, <1>2
      <3> QED
        BY <2>2, <2>4, <3>1
    <2> QED
      BY <2>4, <2>5, <2>6
  <1> QED
    BY <1>1, <1>2, <1>4

LEMMA CreateReleases ==
  ASSUME TypeOK, NEW cart \in Carts, CreateOrder(cart), NEW q \in Orders
  PROVE  Releases(q)' = Releases(q)
  <1> DEFINE n == Len(outbox)
  <1>1. n \in Nat /\ Len(cart) \in Nat
    BY CreateOutbox
  <1>4. /\ Len(outbox') = n + Len(cart)
        /\ \A i \in 1..n : outbox'[i] = outbox[i]
        /\ \A i \in (n + 1)..(n + Len(cart)) :
             outbox'[i] = Row("STOCK_RESERVE_REQUESTED", cart[i - n])
    BY CreateOutbox
  <1>5. \A i \in (n + 1)..(n + Len(cart)) :
          outbox'[i] \notin {Row("ORDER_CANCELLED", q), Row("ORDER_REJECTED", q)}
    <2> SUFFICES ASSUME NEW i \in (n + 1)..(n + Len(cart))
                 PROVE  outbox'[i] \notin {Row("ORDER_CANCELLED", q), Row("ORDER_REJECTED", q)}
      OBVIOUS
    <2>1. outbox'[i].event = "STOCK_RESERVE_REQUESTED"
      <3>1. outbox'[i] = Row("STOCK_RESERVE_REQUESTED", cart[i - n])
        BY <1>4
      <3> QED
        BY <3>1 DEF Row
    <2> QED
      BY <2>1 DEF Row
  <1>6. Releases(q)' = {i \in 1..Len(outbox') :
                          outbox'[i] \in {Row("ORDER_CANCELLED", q), Row("ORDER_REJECTED", q)}}
    BY DEF Releases, Row
  <1> QED
    BY <1>1, <1>4, <1>5, <1>6 DEF Releases

LEMMA SellerReleases ==
  ASSUME NEW to \in Statuses
  PROVE  {i \in 1..Len(SellerEvents(to)) : SellerEvents(to)[i] \in Releasing}
           = IF to \in Void THEN {2} ELSE {}
  <1>1. CASE to \in DOMAIN Announced
    <2>1. SellerEvents(to) = <<"ORDER_STATUS_UPDATED", Announced[to]>>
      BY <1>1 DEF SellerEvents
    <2>2. Announced[to] \in Releasing <=> to \in Void
      BY <1>1 DEF Announced, Releasing, Void
    <2>3. "ORDER_STATUS_UPDATED" \notin Releasing
      BY DEF Releasing
    <2> QED
      BY <2>1, <2>2, <2>3
  <1>2. CASE to \notin DOMAIN Announced
    <2>1. SellerEvents(to) = <<"ORDER_STATUS_UPDATED">> /\ to \notin Void
      BY <1>2 DEF SellerEvents, Announced, Void
    <2> QED
      BY <2>1 DEF Releasing
  <1> QED
    BY <1>1, <1>2

LEMMA NextReleaseFinal ==
  ASSUME TypeOK, Remembered, Current, ReleaseFinal, [Next]_vars
  PROVE  ReleaseFinal'
  <1> SUFFICES ASSUME NEW q \in Orders \ raced'
               PROVE  /\ \A i, j \in Releases(q)' : i = j
                      /\ Releases(q)' # {} <=> status'[q] \in Void
    BY DEF ReleaseFinal, Void
  <1>0. q \in Orders \ raced
    BY HandStep
  <1>1. /\ \A i, j \in Releases(q) : i = j
        /\ Releases(q) # {} <=> status[q] \in Void
    BY <1>0 DEF ReleaseFinal, Void
  <1>2. CASE \E cart \in Carts : CreateOrder(cart)
    <2>1. Releases(q)' = Releases(q)
      BY <1>2, CreateReleases
    <2>2. status'[q] = status[q] \/ (status[q] = "none" /\ status'[q] = "PENDING_STOCK")
      BY <1>2, CreateHistory
    <2> QED
      BY <1>1, <2>1, <2>2 DEF Void
  <1>3. CASE UNCHANGED <<status, history, outbox>>
    BY <1>1, <1>3 DEF Releases, Row
  <1>4. CASE \E o \in Orders \ {q}, to \in Statuses, events \in Seq(Events) : Move(o, to, events)
    <2>1. status'[q] = status[q]
      BY <1>4 DEF Move, TypeOK
    <2>2. Releases(q)' = Releases(q)
      BY <1>4, MoveReleases
    <2> QED
      BY <1>1, <2>1, <2>2
  <1>5. ASSUME NEW to \in Statuses, NEW events \in Seq(Events),
               Move(q, to, events), to \in Allowed[status[q]],
               \/ events = SellerEvents(to)
               \/ /\ events \in {<<>>, <<"ORDER_CREATED">>}
                  /\ to \in {"PAID", "PAYMENT_PENDING", "STOCK_FAILED"}
               \/ events = <<"ORDER_CANCELLED">> /\ to = "CANCELLED"
        PROVE  /\ \A i, j \in Releases(q)' : i = j
               /\ Releases(q)' # {} <=> status'[q] \in Void
    <2> DEFINE R == {i \in 1..Len(events) : events[i] \in Releasing}
    <2>2. status[q] \notin Void
      BY <1>5 DEF Void, Allowed
    <2>3. Releases(q) = {}
      BY <1>1, <2>2
    <2>4. status'[q] = to
      BY <1>5 DEF Move, TypeOK
    <2>5. (R = {} /\ to \notin Void) \/ (\E k \in Nat : R = {k} /\ to \in Void)
      <3>1. CASE events = SellerEvents(to)
        BY <3>1, SellerReleases
      <3>2. CASE events \in {<<>>, <<"ORDER_CREATED">>} /\ to \in {"PAID", "PAYMENT_PENDING", "STOCK_FAILED"}
        BY <3>2 DEF Releasing, Void
      <3>3. CASE events = <<"ORDER_CANCELLED">> /\ to = "CANCELLED"
        <4>1. R = {1}
          BY <3>3 DEF Releasing
        <4> QED
          BY <3>3, <4>1 DEF Void
      <3> QED
        BY <1>5, <3>1, <3>2, <3>3
    <2>6. Releases(q)' = {Len(outbox) + k : k \in R}
      BY <1>5, <2>3, MoveReleases
    <2> HIDE DEF R
    <2> QED
      BY <2>4, <2>5, <2>6
  <1> QED
    BY <1>0, <1>2, <1>3, <1>4, <1>5, AloneWrites

\* However many handlers run, whatever arrives twice or is lost in a crash: an
\* order whose handlers were never two at once has at most one row that gives its
\* stock back, and exactly when it ended CANCELLED or REJECTED (updateOrderStatus,
\* handlePaymentFailed).
THEOREM ReleasedOnceApart == Spec => []ReleaseFinal
  <1>1. Init => TypeOK /\ Remembered /\ Current /\ ReleaseFinal
    BY InitTypeOK, InitRemembered DEF Init, Current, Concerns, NoTask, ReleaseFinal, Releases
  <1>2. /\ TypeOK /\ Remembered /\ Current /\ ReleaseFinal
        /\ [Next]_vars
        => TypeOK' /\ Remembered' /\ Current' /\ ReleaseFinal'
    BY NextTypeOK, NextRemembered, NextCurrent, NextReleaseFinal
  <1> QED
    BY <1>1, <1>2, PTL DEF Spec

-----------------------------------------------------------------------------
(* Checkout *)

-----------------------------------------------------------------------------
(* Units of an order, and what the ledger does with them *)

LEMMA TakeGive ==
  ASSUME NEW o \in Orders, NEW q \in Orders
  PROVE  /\ Take(o) \in Takes /\ Give(o) \in Gives
         /\ Take(o) # Give(q)
         /\ (Take(o) = Take(q)) => o = q
         /\ (Give(o) = Give(q)) => o = q
  BY DEF Take, Give, Takes, Gives

LEMMA LineTypes ==
  ASSUME NEW o \in Orders
  PROVE  /\ Len(Lines[o]) \in Nat
         /\ \A i \in 1..Len(Lines[o]) : Lines[o][i].quantity \in Nat
  <1>1. Lines[o] \in Seq([product : Products, quantity : Nat])
    BY CheckoutAssumption
  <1>2. ASSUME NEW i \in 1..Len(Lines[o])
        PROVE  Lines[o][i] \in [product : Products, quantity : Nat]
    BY <1>1, ElementOfSeq
  <1> QED
    BY <1>1, <1>2

\* The ledger adds as everyone does.
LEMMA LedgerSum ==
  ASSUME NEW f, NEW T
  PROVE  L!SumFunctionOnSet(f, T) = SumFunctionOnSet(f, T)
  BY DEF L!SumFunctionOnSet, L!FoldFunctionOnSet, L!MapThenFoldSet,
         SumFunctionOnSet, FoldFunctionOnSet, MapThenFoldSet

LEMMA LinesOfAre ==
  ASSUME NEW o \in Orders, NEW m \in {Take(o), Give(o)}
  PROVE  LinesOf[m] = Lines[o] /\ L!All(m) = Len(Lines[o])
  <1>1. m \in Takes \cup Gives
    BY DEF Takes, Gives
  <1>2. m[2] = o
    BY DEF Take, Give
  <1>3. LinesOf[m] = Lines[o]
    BY <1>1, <1>2 DEF LinesOf
  <1> QED
    BY <1>3 DEF L!All

\* The units of p in the first k lines of o, taken or given back.
LEMMA UnitsAre ==
  ASSUME NEW o \in Orders, NEW m \in {Take(o), Give(o)}, NEW k \in 0..Len(Lines[o]),
         NEW p \in Products
  PROVE  /\ L!Units(m, k, p) = SumFunctionOnSet([i \in 1..k |-> Lines[o][i].quantity],
                                               {i \in 1..k : Lines[o][i].product = p})
         /\ L!Units(m, k, p) \in Nat
  <1> DEFINE f == [i \in 1..k |-> Lines[o][i].quantity]
             T == {i \in 1..k : Lines[o][i].product = p}
  <1>1. LinesOf[m] = Lines[o]
    BY LinesOfAre
  <1>2. L!Units(m, k, p) = SumFunctionOnSet(f, T)
    BY <1>1, LedgerSum DEF L!Units
  <1>3. k \in Nat /\ k <= Len(Lines[o])
    BY LineTypes
  <1>4. IsFiniteSet(T)
    <2>1. IsFiniteSet(1..k)
      BY <1>3, FS_Interval
    <2> QED
      BY <2>1, FS_Subset
  <1>5. \A i \in T : f[i] \in Nat
    BY <1>3, LineTypes
  <1> HIDE DEF f, T
  <1>6. SumFunctionOnSet(f, T) \in Nat
    BY <1>4, <1>5, SumNat
  <1> QED
    BY <1>2, <1>6 DEF f, T

LEMMA UnitsOfAre ==
  ASSUME NEW o \in Orders, NEW m \in {Take(o), Give(o)}, NEW p \in Products
  PROVE  /\ UnitsOf[o][p] = L!Units(m, L!All(m), p)
         /\ UnitsOf[o][p] \in Nat
  <1>1. Len(Lines[o]) \in 0..Len(Lines[o])
    BY LineTypes
  <1>2. UnitsOf[o][p] = L!Units(Take(o), Len(Lines[o]), p)
    BY DEF UnitsOf
  <1>3. L!Units(Take(o), Len(Lines[o]), p) = L!Units(m, Len(Lines[o]), p)
    BY <1>1, UnitsAre
  <1> QED
    BY <1>1, <1>2, <1>3, UnitsAre, LinesOfAre

LEMMA LedgerReserve ==
  ASSUME NEW o \in Orders, L!Reserve(Take(o))
  PROVE  /\ \A p \in Products : stock[p] - UnitsOf[o][p] >= 0
         /\ stock' = [p \in Products |-> stock[p] - UnitsOf[o][p]]
         /\ applied' = [applied EXCEPT ![Take(o)] = @ + 1]
  <1>1. \A p \in Products : UnitsOf[o][p] = L!Units(Take(o), L!All(Take(o)), p)
    BY UnitsOfAre
  <1> QED
    BY <1>1 DEF L!Reserve, L!Less, L!Covers

LEMMA LedgerShort ==
  ASSUME NEW o \in Orders, stock \in [Products -> Int], L!ReserveShort(Take(o))
  PROVE  /\ stock' \in [Products -> Int]
         /\ \A p \in Products : stock'[p] <= stock[p]
         /\ applied' = applied
  <1>1. L!All(Take(o)) = Len(Lines[o]) /\ Len(Lines[o]) \in Nat
    BY LinesOfAre, LineTypes
  <1>2. PICK k \in 0..(L!All(Take(o)) - 1) : stock' = L!Less(Take(o), k)
    BY DEF L!ReserveShort
  <1>3. \A p \in Products : L!Units(Take(o), k, p) \in Nat
    BY <1>1, k \in 0..Len(Lines[o]), UnitsAre
  <1> QED
    BY <1>2, <1>3 DEF L!ReserveShort, L!Less

LEMMA LedgerRelease ==
  ASSUME NEW o \in Orders, L!Release(Give(o))
  PROVE  /\ stock' = [p \in Products |-> stock[p] + UnitsOf[o][p]]
         /\ applied' = [applied EXCEPT ![Give(o)] = @ + 1]
  <1>1. \A p \in Products : UnitsOf[o][p] = L!Units(Give(o), L!All(Give(o)), p)
    BY UnitsOfAre
  <1> QED
    BY <1>1 DEF L!Release

-----------------------------------------------------------------------------
(* What a step of the whole does to order-service *)

LEMMA MessageFacts ==
  ASSUME NEW o \in Orders
  PROVE  /\ \A t \in {"STOCK_RESERVED", "STOCK_RESERVE_FAILED", "PAYMENT_FAILED"} :
              Message(t, o, 1) \in Messages
         /\ \A n \in 1..MaxPayments[o] : Message("PAYMENT_SUCCEEDED", o, n) \in Messages
  <1>1. Messages = EventsToOrders
    BY CheckoutAssumption
  <1>2. ASSUME NEW t \in {"STOCK_RESERVED", "STOCK_RESERVE_FAILED", "PAYMENT_FAILED"}
        PROVE  Message(t, o, 1) \in EventsToOrders
    BY DEF EventsToOrders
  <1>3. ASSUME NEW n \in 1..MaxPayments[o]
        PROVE  Message("PAYMENT_SUCCEEDED", o, n) \in EventsToOrders
    <2> DEFINE paid == {Message("PAYMENT_SUCCEEDED", o, k) : k \in 1..MaxPayments[o]}
    <2>1. Message("PAYMENT_SUCCEEDED", o, n) \in paid
      OBVIOUS
    <2>2. paid \in {{Message("PAYMENT_SUCCEEDED", q, k) : k \in 1..MaxPayments[q]} : q \in Orders}
      OBVIOUS
    <2> HIDE DEF paid
    <2> QED
      BY <2>1, <2>2 DEF EventsToOrders
  <1> QED
    BY <1>1, <1>2, <1>3

\* What a message says and of which order, is in the message.
LEMMA MessageFields ==
  ASSUME NEW t, NEW o, NEW n
  PROVE  Message(t, o, n).type = t /\ Message(t, o, n).order = o
  BY DEF Message

LEMMA RowFacts ==
  ASSUME TypeOK, NEW i \in 1..Len(outbox)
  PROVE  outbox[i].order \in Orders /\ outbox[i].event \in Events
         /\ outbox[i] = Row(outbox[i].event, outbox[i].order)
  <1>1. outbox \in Seq([event : Events, order : Orders])
    BY DEF TypeOK
  <1>2. outbox[i] \in [event : Events, order : Orders]
    BY <1>1, ElementOfSeq
  <1> QED
    BY <1>2 DEF Row

LEMMA FormFacts ==
  ASSUME CheckoutTypeOK, NEW f \in form
  PROVE  /\ f.order \in Orders
         /\ charges[f.order] \in Nat /\ declines[f.order] \in Nat
         /\ MaxPayments[f.order] \in Nat
         /\ MayPay(f.order) => charges[f.order] + 1 \in 1..MaxPayments[f.order]
         /\ MayFail(f.order) => declines[f.order] + 1 <= MaxPayments[f.order]
  <1>1. f.order \in Orders
    BY DEF CheckoutTypeOK
  <1>2. charges[f.order] \in Nat /\ declines[f.order] \in Nat
    BY <1>1 DEF CheckoutTypeOK
  <1>3. MaxPayments[f.order] \in Nat
    BY <1>1, CheckoutAssumption
  <1> QED
    BY <1>1, <1>2, <1>3 DEF MayPay, MayFail

\* The row a handler of the catalog has looked up.
LEMMA ServedRow ==
  ASSUME CheckoutTypeOK, NEW c \in CatalogWorkers, serving[c] # 0
  PROVE  /\ serving[c] \in 1..Len(outbox)
         /\ outbox[serving[c]].order \in Orders
         /\ outbox[serving[c]] = Row(outbox[serving[c]].event, outbox[serving[c]].order)
  <1>1. TypeOK /\ Len(outbox) \in Nat /\ serving[c] \in 0..Len(outbox)
    BY DEF CheckoutTypeOK, TypeOK
  <1>2. serving[c] \in 1..Len(outbox)
    BY <1>1
  <1> QED
    BY <1>1, <1>2, RowFacts

\* Steps of order-service and those that change nothing it or the catalog's
\* tables keep, and the four that pass something between services.
LEMMA CheckoutStep ==
  ASSUME [CheckoutNext]_checkoutVars
  PROVE  \/ [Next]_vars /\ UNCHANGED <<stock, applied, recorded, charges, declines>>
         \/ \E f \in form : Charge(f)
         \/ \E f \in form : Decline(f)
         \/ \E c \in CatalogWorkers : ReserveStock(c)
         \/ \E c \in CatalogWorkers : ReleaseStock(c)
  <1> DEFINE Own == [Next]_vars /\ UNCHANGED <<stock, applied, recorded, charges, declines>>
  <1>1. ASSUME NEW cart \in Carts, PlaceOrder(cart) PROVE Own
    BY <1>1 DEF PlaceOrder, Next, catalogVars
  <1>2. ASSUME NEW o \in Orders, OpenRetry(o) PROVE Own
    BY <1>2 DEF OpenRetry, catalogVars
  <1>3. ASSUME Relay PROVE Own
    BY <1>3 DEF Relay, catalogVars, customerVars
  <1>4. ASSUME NEW i, RelayAgain(i) PROVE Own
    BY <1>4 DEF RelayAgain, catalogVars, customerVars
  <1>5. ASSUME NEW c, NEW i, Lookup(c, i) PROVE Own
    BY <1>5 DEF Lookup, customerVars
  <1>6. ASSUME NEW c, CatalogCrash(c) PROVE Own
    BY <1>6 DEF CatalogCrash, Served, customerVars
  <1>7. ASSUME OrderStep PROVE Own
    <2>1. Next
      BY <1>7 DEF OrderStep, Next
    <2> QED
      BY <1>7, <2>1 DEF OrderStep, catalogVars, customerVars
  <1>8. ASSUME UNCHANGED checkoutVars PROVE Own
    BY <1>8 DEF checkoutVars, catalogVars, customerVars
  <1> HIDE DEF Own
  <1>9. \/ Own
        \/ \E f \in form : Charge(f)
        \/ \E f \in form : Decline(f)
        \/ \E c \in CatalogWorkers : ReserveStock(c)
        \/ \E c \in CatalogWorkers : ReleaseStock(c)
    BY <1>1, <1>2, <1>3, <1>4, <1>5, <1>6, <1>7, <1>8 DEF CheckoutNext
  <1> QED
    BY <1>9 DEF Own

\* What a step does to the handlers of the catalog.
LEMMA ServingStep ==
  ASSUME [CheckoutNext]_checkoutVars
  PROVE  \/ UNCHANGED <<serving, doubled, recorded>>
         \/ \E c \in CatalogWorkers, i \in 1..Len(outbox) : Lookup(c, i)
         \/ \E c \in CatalogWorkers :
              /\ serving[c] # 0
              /\ serving' = [serving EXCEPT ![c] = 0]
              /\ doubled' = doubled
              /\ recorded' \subseteq recorded \cup {serving[c]}
  <1>1. ASSUME \/ \E cart \in Carts : PlaceOrder(cart)
               \/ \E o \in Orders : OpenRetry(o)
               \/ \E f \in form : Charge(f) \/ Decline(f)
               \/ Relay
               \/ \E i \in 1..Len(outbox) : RelayAgain(i)
               \/ OrderStep
               \/ UNCHANGED checkoutVars
        PROVE  UNCHANGED <<serving, doubled, recorded>>
    BY <1>1 DEF PlaceOrder, OpenRetry, Charge, Decline, Relay, RelayAgain, OrderStep,
                checkoutVars, catalogVars
  <1>2. ASSUME NEW c \in CatalogWorkers, ReserveStock(c) \/ ReleaseStock(c) \/ CatalogCrash(c)
        PROVE  /\ serving[c] # 0
               /\ serving' = [serving EXCEPT ![c] = 0]
               /\ doubled' = doubled
               /\ recorded' \subseteq recorded \cup {serving[c]}
    BY <1>2 DEF ReserveStock, ReleaseStock, CatalogCrash, Served
  <1> QED
    BY <1>1, <1>2 DEF CheckoutNext

\* A step of the whole is a step of order-service, or a message comes for it.
LEMMA OrdersPart ==
  ASSUME CheckoutTypeOK, [CheckoutNext]_checkoutVars
  PROVE  [Next]_vars \/ \E m \in Messages : ToOrders(m)
  <1>1. ASSUME NEW f \in form, Charge(f) PROVE \E m \in Messages : ToOrders(m)
    <2>1. MayPay(f.order) /\ ToOrders(Message("PAYMENT_SUCCEEDED", f.order, charges[f.order] + 1))
      BY <1>1 DEF Charge
    <2> QED
      BY <2>1, FormFacts, MessageFacts
  <1>2. ASSUME NEW f \in form, Decline(f) PROVE \E m \in Messages : ToOrders(m)
    <2>1. ToOrders(Message("PAYMENT_FAILED", f.order, 1))
      BY <1>2 DEF Decline
    <2> QED
      BY <2>1, FormFacts, MessageFacts
  <1>3. ASSUME NEW c \in CatalogWorkers, ReserveStock(c) PROVE \E m \in Messages : ToOrders(m)
    <2>1. outbox[serving[c]].order \in Orders
      BY <1>3, ServedRow DEF ReserveStock
    <2> QED
      BY <1>3, <2>1, MessageFacts DEF ReserveStock, Reply
  <1>4. ASSUME NEW c \in CatalogWorkers, ReleaseStock(c) PROVE UNCHANGED vars
    BY <1>4 DEF ReleaseStock
  <1> QED
    BY <1>1, <1>2, <1>3, <1>4, CheckoutStep

LEMMA ComesKeeps ==
  ASSUME TypeOK, NEW m \in Messages, ToOrders(m)
  PROVE  /\ TypeOK'
         /\ UNCHANGED <<status, history, outbox, processed, requests, task, raced>>
         /\ inbox' = [inbox EXCEPT ![m] = @ + 1]
         /\ inbox'[m] = inbox[m] + 1
         /\ \A n \in Messages : n # m => inbox'[n] = inbox[n]
  BY DEF ToOrders, Arrives, TypeOK

LEMMA OrdersTypes ==
  ASSUME CheckoutTypeOK, [CheckoutNext]_checkoutVars
  PROVE  TypeOK'
  <1>1. TypeOK
    BY DEF CheckoutTypeOK
  <1> QED
    BY <1>1, OrdersPart, ComesKeeps, NextTypeOK

LEMMA OrdersRemembered ==
  ASSUME CheckoutTypeOK, Remembered, [CheckoutNext]_checkoutVars
  PROVE  Remembered'
  <1>1. TypeOK /\ TypeOK'
    BY OrdersTypes DEF CheckoutTypeOK
  <1>2. ASSUME NEW m \in Messages, ToOrders(m) PROVE Remembered'
    <2>1. UNCHANGED <<status, history, task>>
      BY <1>2 DEF ToOrders
    <2> QED
      BY <2>1 DEF Remembered, Tasked, HasBeen
  <1> QED
    BY <1>1, <1>2, OrdersPart, NextRemembered

\* Rows are added at the end of the outbox and stay as they are.
LEMMA OutboxGrows ==
  ASSUME TypeOK, Remembered, [Next]_vars
  PROVE  /\ Len(outbox) \in Nat /\ Len(outbox') \in Nat
         /\ Len(outbox) <= Len(outbox')
         /\ \A i \in 1..Len(outbox) : outbox'[i] = outbox[i]
  <1>1. Len(outbox) \in Nat
    BY DEF TypeOK
  <1>2. CASE \E cart \in Carts : CreateOrder(cart)
    BY <1>1, <1>2, CreateOutbox
  <1>3. CASE UNCHANGED <<status, history, outbox>>
    BY <1>1, <1>3
  <1>4. CASE \E o \in Orders, to \in Statuses, events \in Seq(Events) : Move(o, to, events)
    BY <1>1, <1>4, MoveOutbox
  <1> QED
    BY <1>2, <1>3, <1>4, WriteStep

-----------------------------------------------------------------------------
(* Types *)

LEMMA ApplyTypes ==
  ASSUME NEW o \in Orders, stock \in [Products -> Int],
         applied \in [Takes \cup Gives -> Nat],
         L!Reserve(Take(o)) \/ L!Release(Give(o))
  PROVE  stock' \in [Products -> Int] /\ applied' \in [Takes \cup Gives -> Nat]
  <1>1. Take(o) \in Takes \cup Gives /\ Give(o) \in Takes \cup Gives
    BY TakeGive
  <1>2. \A p \in Products : UnitsOf[o][p] \in Nat
    BY UnitsOfAre
  <1>3. \/ stock' = [p \in Products |-> stock[p] - UnitsOf[o][p]]
        \/ stock' = [p \in Products |-> stock[p] + UnitsOf[o][p]]
    BY LedgerReserve, LedgerRelease
  <1>4. \/ applied' = [applied EXCEPT ![Take(o)] = @ + 1]
        \/ applied' = [applied EXCEPT ![Give(o)] = @ + 1]
    BY LedgerReserve, LedgerRelease
  <1> QED
    BY <1>1, <1>2, <1>3, <1>4

\* order-service's outbox, and what others know of its rows.
LEMMA RowsGrow ==
  ASSUME CheckoutTypeOK, Remembered, [CheckoutNext]_checkoutVars
  PROVE  /\ Len(outbox) \in Nat /\ Len(outbox') \in Nat
         /\ Len(outbox) <= Len(outbox')
         /\ \A i \in 1..Len(outbox) : outbox'[i] = outbox[i]
  <1>1. TypeOK /\ Len(outbox) \in Nat
    BY DEF CheckoutTypeOK, TypeOK
  <1>2. ASSUME NEW m \in Messages, ToOrders(m) PROVE outbox' = outbox
    BY <1>2 DEF ToOrders
  <1> QED
    BY <1>1, <1>2, OrdersPart, OutboxGrows

LEMMA RelayTypes ==
  ASSUME CheckoutTypeOK, Remembered, [CheckoutNext]_checkoutVars
  PROVE  /\ relayed' \in 0..Len(outbox')
         /\ repeats' \in 0..MaxRepeats
         /\ toCatalog' \subseteq 1..relayed'
  <1> DEFINE Goal == /\ relayed' \in 0..Len(outbox')
                     /\ repeats' \in 0..MaxRepeats
                     /\ toCatalog' \subseteq 1..relayed'
  <1>1. /\ Len(outbox) \in Nat /\ Len(outbox') \in Nat /\ Len(outbox) <= Len(outbox')
        /\ relayed \in 0..Len(outbox) /\ repeats \in 0..MaxRepeats
        /\ toCatalog \subseteq 1..relayed /\ MaxRepeats \in Nat
    BY RowsGrow, CheckoutAssumption DEF CheckoutTypeOK
  <1>2. ASSUME UNCHANGED relayVars PROVE Goal
    BY <1>1, <1>2 DEF relayVars
  <1>3. ASSUME Relay PROVE Goal
    <2>1. PICK i \in (relayed + 1)..Len(outbox) : relayed' = i /\ toCatalog' = toCatalog \cup {i}
      BY <1>3 DEF Relay
    <2>2. repeats' = repeats
      BY <1>3 DEF Relay
    <2> QED
      BY <1>1, <2>1, <2>2
  <1>4. ASSUME NEW i, RelayAgain(i) PROVE Goal
    <2>1. /\ i \in 1..relayed /\ relayed' = relayed
          /\ repeats < MaxRepeats /\ repeats' = repeats + 1
          /\ toCatalog' = toCatalog \cup {i}
      BY <1>4 DEF RelayAgain
    <2> QED
      BY <1>1, <2>1
  <1>5. ASSUME NEW c, NEW i, Lookup(c, i) PROVE Goal
    BY <1>1, <1>5 DEF Lookup
  <1>6. ASSUME NEW cart \in Carts, PlaceOrder(cart) PROVE UNCHANGED relayVars
    BY <1>6 DEF PlaceOrder
  <1>7. ASSUME NEW o \in Orders, OpenRetry(o) PROVE UNCHANGED relayVars
    BY <1>7 DEF OpenRetry
  <1>8. ASSUME NEW f \in form, Charge(f) \/ Decline(f) PROVE UNCHANGED relayVars
    BY <1>8 DEF Charge, Decline
  <1>9. ASSUME NEW c, ReserveStock(c) \/ ReleaseStock(c) \/ CatalogCrash(c)
        PROVE  UNCHANGED relayVars
    BY <1>9 DEF ReserveStock, ReleaseStock, CatalogCrash, Served
  <1>10. ASSUME OrderStep \/ UNCHANGED checkoutVars PROVE UNCHANGED relayVars
    BY <1>10 DEF OrderStep, checkoutVars
  <1> HIDE DEF Goal
  <1>11. Goal
    BY <1>2, <1>3, <1>4, <1>5, <1>6, <1>7, <1>8, <1>9, <1>10 DEF CheckoutNext
  <1> QED
    BY <1>11 DEF Goal

LEMMA CustomerTypes ==
  ASSUME CheckoutTypeOK, [CheckoutNext]_checkoutVars
  PROVE  /\ form' \subseteq [order : Orders, page : {"checkout", "retry"}]
         /\ \A o \in Orders : charges'[o] <= MaxPayments[o] /\ declines'[o] <= MaxPayments[o]
         /\ charges' \in [Orders -> Nat] /\ declines' \in [Orders -> Nat]
  <1> DEFINE Forms == [order : Orders, page : {"checkout", "retry"}]
             Goal == /\ form' \subseteq Forms
                     /\ \A o \in Orders : charges'[o] <= MaxPayments[o]
                                          /\ declines'[o] <= MaxPayments[o]
                     /\ charges' \in [Orders -> Nat] /\ declines' \in [Orders -> Nat]
  <1>1. /\ form \subseteq Forms
        /\ \A o \in Orders : charges[o] <= MaxPayments[o] /\ declines[o] <= MaxPayments[o]
        /\ charges \in [Orders -> Nat] /\ declines \in [Orders -> Nat]
        /\ MaxPayments \in [Orders -> Nat]
    BY CheckoutAssumption DEF CheckoutTypeOK
  <1>2. ASSUME UNCHANGED <<charges, declines>>, form' \subseteq Forms PROVE Goal
    BY <1>1, <1>2
  <1>3. ASSUME NEW f \in form, Charge(f) PROVE Goal
    <2>1. /\ MayPay(f.order) /\ form' \subseteq form /\ declines' = declines
          /\ charges' = [charges EXCEPT ![f.order] = @ + 1]
      BY <1>3 DEF Charge
    <2> QED
      BY <1>1, <2>1, FormFacts
  <1>4. ASSUME NEW f \in form, Decline(f) PROVE Goal
    <2>1. /\ MayFail(f.order) /\ form' \subseteq form /\ charges' = charges
          /\ declines' = [declines EXCEPT ![f.order] = @ + 1]
      BY <1>4 DEF Decline
    <2> QED
      BY <1>1, <2>1, FormFacts
  <1>5. ASSUME NEW cart \in Carts, PlaceOrder(cart) PROVE Goal
    <2>1. cart \in Seq(Orders) /\ cart # <<>>
      BY OrdersAssumption
    <2>2. [order |-> cart[1], page |-> "checkout"] \in Forms
      BY <2>1
    <2> QED
      BY <1>1, <1>2, <1>5, <2>2 DEF PlaceOrder
  <1>6. ASSUME NEW o \in Orders, OpenRetry(o) PROVE Goal
    BY <1>1, <1>2, <1>6 DEF OpenRetry
  <1>7. ASSUME UNCHANGED customerVars PROVE Goal
    BY <1>1, <1>2, <1>7 DEF customerVars
  <1>8. ASSUME NEW c, ReserveStock(c) \/ ReleaseStock(c) \/ CatalogCrash(c)
        PROVE  UNCHANGED customerVars
    BY <1>8 DEF ReserveStock, ReleaseStock, CatalogCrash, Served
  <1>9. ASSUME NEW c, NEW i, Lookup(c, i) \/ RelayAgain(i) PROVE UNCHANGED customerVars
    BY <1>9 DEF Lookup, RelayAgain
  <1>10. ASSUME Relay \/ OrderStep \/ UNCHANGED checkoutVars PROVE UNCHANGED customerVars
    BY <1>10 DEF Relay, OrderStep, checkoutVars
  <1>11. ASSUME NEW i, RelayAgain(i) PROVE UNCHANGED customerVars
    BY <1>11 DEF RelayAgain
  <1> HIDE DEF Goal
  <1>12. Goal
    BY <1>3, <1>4, <1>5, <1>6, <1>7, <1>8, <1>9, <1>10, <1>11 DEF CheckoutNext
  <1> QED
    BY <1>12 DEF Goal

LEMMA CatalogTypes ==
  ASSUME CheckoutTypeOK, Remembered, [CheckoutNext]_checkoutVars
  PROVE  /\ stock' \in [Products -> Int]
         /\ applied' \in [Takes \cup Gives -> Nat]
         /\ recorded' \subseteq 1..Len(outbox')
  <1>1. /\ stock \in [Products -> Int] /\ applied \in [Takes \cup Gives -> Nat]
        /\ recorded \subseteq 1..Len(outbox) /\ TypeOK
        /\ Len(outbox) \in Nat /\ Len(outbox') \in Nat /\ Len(outbox) <= Len(outbox')
    BY RowsGrow DEF CheckoutTypeOK
  <1>2. CASE UNCHANGED <<stock, applied, recorded>>
    BY <1>1, <1>2
  <1>3. ASSUME NEW c \in CatalogWorkers, ReserveStock(c) \/ ReleaseStock(c)
        PROVE  /\ stock' \in [Products -> Int]
               /\ applied' \in [Takes \cup Gives -> Nat]
               /\ recorded' \subseteq 1..Len(outbox')
    <2> DEFINE o == outbox[serving[c]].order
    <2>1. o \in Orders /\ serving[c] \in 1..Len(outbox)
      BY <1>3, ServedRow DEF ReserveStock, ReleaseStock
    <2>2. recorded' \subseteq recorded \cup {serving[c]}
      BY <1>3 DEF ReserveStock, ReleaseStock
    <2>3. L!Reserve(Take(o)) \/ L!ReserveShort(Take(o)) \/ L!Release(Give(o))
      BY <1>3 DEF ReserveStock, ReleaseStock
    <2> HIDE DEF o
    <2>4. stock' \in [Products -> Int] /\ applied' \in [Takes \cup Gives -> Nat]
      BY <1>1, <2>1, <2>3, ApplyTypes, LedgerShort
    <2>5. recorded' \subseteq 1..Len(outbox')
      BY <1>1, <2>1, <2>2
    <2> QED
      BY <2>4, <2>5
  <1>4. ASSUME NEW f, Charge(f) \/ Decline(f) PROVE UNCHANGED <<stock, applied, recorded>>
    BY <1>4 DEF Charge, Decline, catalogVars
  <1> QED
    BY <1>2, <1>3, <1>4, CheckoutStep

LEMMA ServingTypes ==
  ASSUME CheckoutTypeOK, Remembered, [CheckoutNext]_checkoutVars
  PROVE  serving' \in [CatalogWorkers -> 0..Len(outbox')] /\ doubled' \subseteq Orders
  <1>1. /\ serving \in [CatalogWorkers -> 0..Len(outbox)] /\ doubled \subseteq Orders /\ TypeOK
        /\ Len(outbox) \in Nat /\ Len(outbox') \in Nat /\ Len(outbox) <= Len(outbox')
    BY RowsGrow DEF CheckoutTypeOK
  <1>2. CASE UNCHANGED <<serving, doubled, recorded>>
    BY <1>1, <1>2
  <1>3. ASSUME NEW c \in CatalogWorkers, NEW i \in 1..Len(outbox), Lookup(c, i)
        PROVE  serving' \in [CatalogWorkers -> 0..Len(outbox')] /\ doubled' \subseteq Orders
    <2>1. /\ serving' = serving \/ serving' = [serving EXCEPT ![c] = i]
          /\ doubled' = doubled \/ doubled' = doubled \cup {outbox[i].order}
      BY <1>3 DEF Lookup
    <2>2. outbox[i].order \in Orders
      BY <1>1, RowFacts
    <2> QED
      BY <1>1, <2>1, <2>2
  <1>4. ASSUME NEW c \in CatalogWorkers, serving' = [serving EXCEPT ![c] = 0], doubled' = doubled
        PROVE  serving' \in [CatalogWorkers -> 0..Len(outbox')] /\ doubled' \subseteq Orders
    BY <1>1, <1>4
  <1> QED
    BY <1>2, <1>3, <1>4, ServingStep

LEMMA InitCheckoutTypes == CheckoutInit => CheckoutTypeOK /\ Remembered
  <1> SUFFICES ASSUME CheckoutInit PROVE CheckoutTypeOK /\ Remembered
    OBVIOUS
  <1>1. Init /\ TypeOK /\ Remembered
    BY InitTypeOK, InitRemembered DEF CheckoutInit
  <1>2. outbox = <<>> /\ Len(outbox) = 0
    BY <1>1 DEF Init
  <1>3. /\ stock = InitialStock
        /\ applied = [m \in Takes \cup Gives \cup {} |-> 0]
    BY DEF CheckoutInit, L!Init
  <1>4. stock \in [Products -> Int] /\ applied \in [Takes \cup Gives -> Nat]
    BY <1>3, CheckoutAssumption
  <1>5. /\ charges \in [Orders -> Nat] /\ declines \in [Orders -> Nat]
        /\ \A o \in Orders : charges[o] <= MaxPayments[o] /\ declines[o] <= MaxPayments[o]
    BY CheckoutAssumption DEF CheckoutInit
  <1> QED
    BY <1>1, <1>2, <1>4, <1>5, CheckoutAssumption DEF CheckoutInit, CheckoutTypeOK

LEMMA NextCheckoutTypes ==
  ASSUME CheckoutTypeOK, Remembered, [CheckoutNext]_checkoutVars
  PROVE  CheckoutTypeOK' /\ Remembered'
  <1>1. TypeOK' /\ Remembered'
    BY OrdersTypes, OrdersRemembered
  <1> QED
    BY <1>1, CatalogTypes, ServingTypes, RelayTypes, CustomerTypes DEF CheckoutTypeOK

\* Whatever is handled together, published twice or lost: the whole keeps its
\* types (order-events.service.ts, catalog-events.service.ts, checkout-form.tsx).
THEOREM CheckoutTypeCorrect == CheckoutSpec => []CheckoutTypeOK
  <1> QED
    BY InitCheckoutTypes, NextCheckoutTypes, PTL DEF CheckoutSpec

-----------------------------------------------------------------------------
(* What Orders promises holds in the whole *)

LEMMA OrdersKeep ==
  ASSUME CheckoutTypeOK, Remembered, Current, ReleaseFinal, [CheckoutNext]_checkoutVars
  PROVE  Current' /\ ReleaseFinal'
  <1>1. TypeOK /\ TypeOK'
    BY OrdersTypes DEF CheckoutTypeOK
  <1>2. ASSUME NEW m \in Messages, ToOrders(m) PROVE Current' /\ ReleaseFinal'
    <2>1. UNCHANGED <<status, outbox, task, raced>>
      BY <1>2 DEF ToOrders
    <2>2. Current'
      BY <2>1 DEF Current, Concerns
    <2>3. ReleaseFinal'
      BY <2>1 DEF ReleaseFinal, Releases, Row
    <2> QED
      BY <2>2, <2>3
  <1> QED
    BY <1>1, <1>2, OrdersPart, NextCurrent, NextReleaseFinal

LEMMA LifecycleStep ==
  ASSUME CheckoutTypeOK, Remembered, Current, [CheckoutNext]_checkoutVars,
         NEW q \in Orders \ raced'
  PROVE  \/ status'[q] = status[q]
         \/ status[q] = "none"
         \/ status'[q] \in Allowed[status[q]]
  <1>1. TypeOK
    BY DEF CheckoutTypeOK
  <1>2. ASSUME NEW m \in Messages, ToOrders(m) PROVE status' = status
    BY <1>2 DEF ToOrders
  <1> QED
    BY <1>1, <1>2, OrdersPart, NextLifecycle

LEMMA InitOrdersKeep == CheckoutInit => Current /\ ReleaseFinal
  BY DEF CheckoutInit, Init, Current, Concerns, NoTask, ReleaseFinal, Releases

\* In the whole checkout too, whatever the outbox repeats and the catalog and
\* the payments send: the stock of an order whose handlers were never two at once
\* is asked back at most once, and exactly when the order ended void.
THEOREM CheckoutReleasesOnce == CheckoutSpec => []ReleaseFinal
  <1>1. CheckoutInit => CheckoutTypeOK /\ Remembered /\ Current /\ ReleaseFinal
    BY InitCheckoutTypes, InitOrdersKeep
  <1>2. /\ CheckoutTypeOK /\ Remembered /\ Current /\ ReleaseFinal
        /\ [CheckoutNext]_checkoutVars
        => CheckoutTypeOK' /\ Remembered' /\ Current' /\ ReleaseFinal'
    BY NextCheckoutTypes, OrdersKeep
  <1> QED
    BY <1>1, <1>2, PTL DEF CheckoutSpec

\* In the whole checkout too, an order whose handlers were never two at once
\* follows the lifecycle step by step: what the catalog and the payments send, in
\* whatever order and however often, cannot take it anywhere else.
THEOREM CheckoutLifecycle == CheckoutSpec => Lifecycle
  <1> DEFINE Follows == \A o \in Orders \ raced' : \/ status'[o] = status[o]
                                                   \/ status[o] = "none"
                                                   \/ status'[o] \in Allowed[status[o]]
  <1>1. CheckoutInit => CheckoutTypeOK /\ Remembered /\ Current /\ ReleaseFinal
    BY InitCheckoutTypes, InitOrdersKeep
  <1>2. /\ CheckoutTypeOK /\ Remembered /\ Current /\ ReleaseFinal
        /\ [CheckoutNext]_checkoutVars
        => CheckoutTypeOK' /\ Remembered' /\ Current' /\ ReleaseFinal'
    BY NextCheckoutTypes, OrdersKeep
  <1>3. /\ CheckoutTypeOK /\ Remembered /\ Current /\ ReleaseFinal
        /\ [CheckoutNext]_checkoutVars
        => [Follows]_vars
    BY LifecycleStep
  <1> QED
    BY <1>1, <1>2, <1>3, PTL DEF CheckoutSpec, Lifecycle

-----------------------------------------------------------------------------
(* The catalog counts what the outbox holds *)

Asks(o) == {i \in 1..Len(outbox) : outbox[i] = Row("STOCK_RESERVE_REQUESTED", o)}

AskedOnce ==
  \A o \in Orders : /\ status[o] = "none" => Asks(o) = {}
                    /\ \A i, j \in Asks(o) : i = j

Counts(o) ==
  /\ applied[Take(o)] > 0 <=> Asks(o) \cap recorded # {}
  /\ o \notin doubled => applied[Take(o)] <= 1
  /\ applied[Give(o)] > 0 <=> Releases(o) \cap recorded # {}
  /\ o \notin doubled \cup raced => applied[Give(o)] <= 1

CountsRecorded == \A o \in Orders : Counts(o)

\* A row that handlers of the catalog never served together is served once, by
\* one that can still say it is fresh.
ServedApart ==
  \A c \in CatalogWorkers :
    serving[c] # 0 /\ outbox[serving[c]].order \notin doubled =>
      /\ serving[c] \notin recorded
      /\ \A d \in CatalogWorkers : serving[d] = serving[c] => d = c

LEMMA RowSame ==
  ASSUME NEW a, NEW b, NEW o, NEW q, Row(a, o) = Row(b, q)
  PROVE  a = b /\ o = q
  <1>1. Row(a, o).event = Row(b, q).event /\ Row(a, o).order = Row(b, q).order
    OBVIOUS
  <1> QED
    BY <1>1 DEF Row

LEMMA RowsKept ==
  ASSUME CheckoutTypeOK, Remembered, [CheckoutNext]_checkoutVars,
         NEW q \in Orders, NEW i \in 1..Len(outbox)
  PROVE  (i \in Asks(q)' <=> i \in Asks(q)) /\ (i \in Releases(q)' <=> i \in Releases(q))
  <1>1. i \in 1..Len(outbox') /\ outbox'[i] = outbox[i]
    BY RowsGrow
  <1> QED
    BY <1>1 DEF Asks, Releases, Row

LEMMA NextAskedOnce ==
  ASSUME CheckoutTypeOK, Remembered, AskedOnce, [CheckoutNext]_checkoutVars
  PROVE  AskedOnce'
  <1> SUFFICES ASSUME NEW q \in Orders
               PROVE  /\ status'[q] = "none" => Asks(q)' = {}
                      /\ \A i, j \in Asks(q)' : i = j
    BY DEF AskedOnce
  <1> DEFINE n == Len(outbox)
  <1>1. /\ TypeOK /\ n \in Nat
        /\ status[q] = "none" => Asks(q) = {}
        /\ \A i, j \in Asks(q) : i = j
    BY DEF AskedOnce, CheckoutTypeOK, TypeOK
  <1>2. CASE status'[q] = status[q] /\ outbox' = outbox
    BY <1>1, <1>2 DEF Asks, Row
  <1>3. ASSUME NEW cart \in Carts, CreateOrder(cart)
        PROVE  /\ status'[q] = "none" => Asks(q)' = {}
               /\ \A i, j \in Asks(q)' : i = j
    <2> DEFINE new == {k \in 1..Len(cart) : cart[k] = q}
    <2>1. /\ Len(cart) \in Nat
          /\ Len(outbox') = n + Len(cart)
          /\ \A i \in 1..n : outbox'[i] = outbox[i]
          /\ \A i \in (n + 1)..(n + Len(cart)) :
               outbox'[i] = Row("STOCK_RESERVE_REQUESTED", cart[i - n])
      BY <1>1, <1>3, CreateOutbox
    <2>2. ASSUME NEW i \in Asks(q)'
          PROVE  i \in Asks(q) \/ (i - n \in new /\ i \in Int)
      <3>1. i \in 1..(n + Len(cart)) /\ outbox'[i] = Row("STOCK_RESERVE_REQUESTED", q)
        BY <2>1 DEF Asks, Row
      <3>2. CASE i \in 1..n
        BY <2>1, <3>1, <3>2 DEF Asks
      <3>3. CASE i \notin 1..n
        <4>1. i \in (n + 1)..(n + Len(cart)) /\ i - n \in 1..Len(cart) /\ i \in Int
          BY <1>1, <2>1, <3>1, <3>3
        <4>2. Row("STOCK_RESERVE_REQUESTED", cart[i - n]) = Row("STOCK_RESERVE_REQUESTED", q)
          BY <2>1, <3>1, <4>1
        <4> QED
          BY <4>1, <4>2, RowSame
      <3> QED
        BY <3>2, <3>3
    <2>3. new # {} => status[q] = "none" /\ status'[q] = "PENDING_STOCK"
      BY <1>3 DEF CreateOrder
    <2>4. new = {} => status'[q] = status[q]
      BY <1>3 DEF CreateOrder
    <2>5. \A k, l \in new : k = l
      BY CheckoutAssumption
    <2> HIDE DEF new
    <2>6. CASE new = {}
      BY <1>1, <2>2, <2>4, <2>6
    <2>7. CASE new # {}
      <3>1. Asks(q) = {} /\ status'[q] # "none"
        BY <1>1, <2>3, <2>7
      <3>2. ASSUME NEW i \in Asks(q)', NEW j \in Asks(q)' PROVE i = j
        <4>1. i - n \in new /\ j - n \in new /\ i \in Int /\ j \in Int
          BY <2>2, <3>1
        <4>2. i - n = j - n
          BY <2>5, <4>1
        <4> QED
          BY <1>1, <4>1, <4>2
      <3> QED
        BY <3>1, <3>2
    <2> QED
      BY <2>6, <2>7
  <1>4. ASSUME NEW o \in Orders, NEW to \in Statuses, NEW events \in Seq(Events),
               Move(o, to, events),
               \/ events = SellerEvents(to)
               \/ events \in {<<>>, <<"ORDER_CREATED">>, <<"ORDER_CANCELLED">>}
        PROVE  /\ status'[q] = "none" => Asks(q)' = {}
               /\ \A i, j \in Asks(q)' : i = j
    <2>1. /\ Len(events) \in Nat
          /\ Len(outbox') = n + Len(events)
          /\ \A i \in 1..n : outbox'[i] = outbox[i]
          /\ \A k \in 1..Len(events) : outbox'[n + k] = Row(events[k], o)
      BY <1>1, <1>4, MoveOutbox
    <2>2. \A k \in 1..Len(events) : events[k] # "STOCK_RESERVE_REQUESTED"
      BY <1>4 DEF SellerEvents, Announced
    <2>3. ASSUME NEW i \in Asks(q)' PROVE i \in Asks(q)
      <3>1. i \in 1..(n + Len(events)) /\ outbox'[i] = Row("STOCK_RESERVE_REQUESTED", q)
        BY <2>1 DEF Asks, Row
      <3>2. CASE i \in 1..n
        BY <2>1, <3>1, <3>2 DEF Asks
      <3>3. CASE i \notin 1..n
        <4> DEFINE k == i - n
        <4>1. k \in 1..Len(events) /\ i = n + k
          BY <1>1, <2>1, <3>1, <3>3
        <4> HIDE DEF k
        <4>2. Row(events[k], o) = Row("STOCK_RESERVE_REQUESTED", q)
          BY <2>1, <3>1, <4>1
        <4> QED
          BY <2>2, <4>1, <4>2, RowSame
      <3> QED
        BY <3>2, <3>3
    <2>4. status'[q] = status[q] \/ status'[q] \in Statuses
      BY <1>1, <1>4 DEF Move, TypeOK
    <2> QED
      BY <1>1, <2>3, <2>4, StatusNames
  <1>5. ASSUME NEW m \in Messages, ToOrders(m) PROVE status' = status /\ outbox' = outbox
    BY <1>5 DEF ToOrders
  <1>6. CASE [Next]_vars
    BY <1>1, <1>2, <1>3, <1>4, <1>6, WriteStep
  <1> QED
    BY <1>2, <1>5, <1>6, OrdersPart

LEMMA UpsetsGrow ==
  ASSUME CheckoutTypeOK, Remembered, [CheckoutNext]_checkoutVars
  PROVE  raced \subseteq raced' /\ doubled \subseteq doubled'
  <1>1. raced \subseteq raced'
    <2>1. TypeOK
      BY DEF CheckoutTypeOK
    <2>2. ASSUME NEW m \in Messages, ToOrders(m) PROVE raced' = raced
      BY <2>2 DEF ToOrders
    <2> QED
      BY <2>1, <2>2, OrdersPart, HandStep
  <1>2. doubled \subseteq doubled'
    <2>1. ASSUME NEW c, NEW i, Lookup(c, i) PROVE doubled \subseteq doubled'
      BY <2>1 DEF Lookup
    <2> QED
      BY <2>1, ServingStep
  <1> QED
    BY <1>1, <1>2

LEMMA NextServedApart ==
  ASSUME CheckoutTypeOK, Remembered, ServedApart, [CheckoutNext]_checkoutVars
  PROVE  ServedApart'
  <1> SUFFICES ASSUME NEW c \in CatalogWorkers, serving'[c] # 0,
                      outbox'[serving'[c]].order \notin doubled'
               PROVE  /\ serving'[c] \notin recorded'
                      /\ \A d \in CatalogWorkers : serving'[d] = serving'[c] => d = c
    BY DEF ServedApart
  <1>1. serving \in [CatalogWorkers -> 0..Len(outbox)] /\ doubled \subseteq doubled'
    BY UpsetsGrow DEF CheckoutTypeOK
  <1>2. ASSUME serving'[c] = serving[c]
        PROVE  /\ serving[c] \notin recorded
               /\ \A d \in CatalogWorkers : serving[d] = serving[c] => d = c
    <2>1. serving[c] \in 1..Len(outbox)
      BY <1>2, ServedRow
    <2>2. outbox'[serving[c]] = outbox[serving[c]]
      BY <2>1, RowsGrow
    <2>3. outbox[serving[c]].order \notin doubled /\ serving[c] # 0
      BY <1>1, <1>2, <2>2
    <2> QED
      BY <2>3 DEF ServedApart
  <1>3. CASE UNCHANGED <<serving, doubled, recorded>>
    BY <1>2, <1>3
  <1>4. ASSUME NEW e \in CatalogWorkers, NEW i \in 1..Len(outbox), Lookup(e, i)
        PROVE  /\ serving'[c] \notin recorded'
               /\ \A d \in CatalogWorkers : serving'[d] = serving'[c] => d = c
    <2>1. recorded' = recorded /\ outbox' = outbox
      BY <1>4 DEF Lookup, vars
    <2>2. CASE UNCHANGED <<serving, doubled>>
      BY <1>2, <2>1, <2>2
    <2>3. CASE ~UNCHANGED <<serving, doubled>>
      <3>1. /\ serving[e] = 0 /\ i \notin recorded
            /\ serving' = [serving EXCEPT ![e] = i]
            /\ doubled' = IF \E d \in CatalogWorkers \ {e} : serving[d] = i
                          THEN doubled \cup {outbox[i].order} ELSE doubled
        BY <1>4, <2>3 DEF Lookup, Fresh
      <3>2. serving'[e] = i /\ \A d \in CatalogWorkers \ {e} : serving'[d] = serving[d]
        BY <1>1, <3>1
      <3>3. serving'[c] = i => \A d \in CatalogWorkers \ {e} : serving[d] # i
        BY <2>1, <3>1
      <3>4. CASE c = e
        BY <2>1, <3>1, <3>2, <3>3, <3>4
      <3>5. CASE c # e
        <4>1. serving'[c] = serving[c]
          BY <3>2, <3>5
        <4>2. serving[c] # i
          BY <3>3, <3>5, <4>1
        <4> QED
          BY <1>2, <2>1, <3>2, <4>1, <4>2
      <3> QED
        BY <3>4, <3>5
    <2> QED
      BY <2>2, <2>3
  <1>5. ASSUME NEW e \in CatalogWorkers, serving[e] # 0, serving' = [serving EXCEPT ![e] = 0],
               recorded' \subseteq recorded \cup {serving[e]}
        PROVE  /\ serving'[c] \notin recorded'
               /\ \A d \in CatalogWorkers : serving'[d] = serving'[c] => d = c
    <2>1. serving'[e] = 0 /\ \A d \in CatalogWorkers \ {e} : serving'[d] = serving[d]
      BY <1>1, <1>5
    <2>2. c # e /\ serving'[c] = serving[c]
      BY <2>1
    <2> QED
      BY <1>2, <1>5, <2>1, <2>2
  <1> QED
    BY <1>3, <1>4, <1>5, ServingStep

LEMMA NextCounts ==
  ASSUME CheckoutTypeOK, Remembered, AskedOnce, ReleaseFinal, ServedApart, CountsRecorded,
         [CheckoutNext]_checkoutVars
  PROVE  CountsRecorded'
  <1> SUFFICES ASSUME NEW q \in Orders PROVE Counts(q)'
    BY DEF CountsRecorded
  <1>1. /\ TypeOK /\ applied \in [Takes \cup Gives -> Nat]
        /\ recorded \subseteq 1..Len(outbox)
        /\ Take(q) \in Takes \cup Gives /\ Give(q) \in Takes \cup Gives
    BY TakeGive DEF CheckoutTypeOK
  <1>2. Counts(q) /\ Take(q)' = Take(q) /\ Give(q)' = Give(q)
    BY DEF CountsRecorded, Take, Give
  <1>3. raced \subseteq raced' /\ doubled \subseteq doubled'
    BY UpsetsGrow
  <1>4. CASE UNCHANGED <<applied, recorded>>
    <2>1. /\ Asks(q)' \cap recorded = Asks(q) \cap recorded
          /\ Releases(q)' \cap recorded = Releases(q) \cap recorded
      BY <1>1, RowsKept
    <2> QED
      BY <1>2, <1>3, <1>4, <2>1 DEF Counts
  <1>5. ASSUME NEW c \in CatalogWorkers, ReserveStock(c), ~UNCHANGED <<applied, recorded>>
        PROVE  Counts(q)'
    <2> DEFINE i == serving[c]
               o == outbox[i].order
    <2>1. /\ o \in Orders /\ i \in Asks(o)
          /\ \A p \in Orders : i \in Asks(p) => p = o
          /\ \A p \in Orders : i \notin Releases(p)
      BY <1>5, ServedRow DEF ReserveStock, Asks, Releases, Row
    <2>2. /\ L!Reserve(Take(o)) /\ recorded' = recorded \cup {i}
          /\ doubled' = doubled /\ i # 0
      BY <1>5 DEF ReserveStock, L!ReserveShort, Served
    <2>3. outbox' = outbox
      BY <1>5 DEF ReserveStock, Reply, ToOrders
    <2>4. o \notin doubled => i \notin recorded
      BY <2>2 DEF ServedApart
    <2> HIDE DEF i, o
    <2>5. applied' = [applied EXCEPT ![Take(o)] = @ + 1]
      BY <2>1, <2>2, LedgerReserve
    <2>6. Asks(q)' = Asks(q) /\ Releases(q)' = Releases(q)
      BY <2>3 DEF Asks, Releases, Row
    <2>7. applied'[Give(q)] = applied[Give(q)] /\ Releases(q)' \cap recorded' = Releases(q) \cap recorded
      BY <1>1, <2>1, <2>2, <2>5, <2>6, TakeGive
    <2>8. CASE q = o
      <3>1. q \notin doubled => applied[Take(q)] = 0
        <4>1. ASSUME q \notin doubled PROVE Asks(q) \cap recorded = {}
          <5>1. i \in Asks(q) /\ i \notin recorded
            BY <2>1, <2>4, <2>8, <4>1
          <5>2. \A j \in Asks(q) : i = j
            BY <5>1 DEF AskedOnce
          <5> QED
            BY <5>1, <5>2
        <4> QED
          BY <1>1, <1>2, <4>1 DEF Counts
      <3>2. applied'[Take(q)] = applied[Take(q)] + 1 /\ Asks(q)' \cap recorded' # {}
        BY <1>1, <2>1, <2>2, <2>5, <2>6, <2>8
      <3>3. applied'[Take(q)] > 0 /\ (q \notin doubled => applied'[Take(q)] <= 1)
        BY <1>1, <3>1, <3>2
      <3> QED
        BY <1>2, <1>3, <2>2, <2>7, <3>2, <3>3 DEF Counts
    <2>9. CASE q # o
      <3>1. applied'[Take(q)] = applied[Take(q)]
        BY <1>1, <2>1, <2>5, <2>9, TakeGive
      <3>2. Asks(q)' \cap recorded' = Asks(q) \cap recorded
        BY <2>1, <2>2, <2>6, <2>9
      <3> QED
        BY <1>2, <1>3, <2>7, <3>1, <3>2 DEF Counts
    <2> QED
      BY <2>8, <2>9
  <1>6. ASSUME NEW c \in CatalogWorkers, ReleaseStock(c) PROVE Counts(q)'
    <2> DEFINE i == serving[c]
               o == outbox[i].order
    <2>1. /\ o \in Orders /\ i \in Releases(o)
          /\ \A p \in Orders : i \in Releases(p) => p = o
          /\ \A p \in Orders : i \notin Asks(p)
      <3> DEFINE e == outbox[i].event
      <3>1. o \in Orders /\ outbox[i] = Row(e, o) /\ i \in 1..Len(outbox)
        BY <1>6, ServedRow DEF ReleaseStock
      <3>2. e \in {"ORDER_CANCELLED", "ORDER_REJECTED"}
        BY <1>6 DEF ReleaseStock
      <3> HIDE DEF e, o, i
      <3>3. i \in Releases(o)
        BY <3>1, <3>2 DEF Releases
      <3>4. ASSUME NEW p \in Orders, i \in Releases(p) PROVE p = o
        BY <3>1, <3>4, RowSame DEF Releases
      <3>5. ASSUME NEW p \in Orders, i \in Asks(p) PROVE FALSE
        BY <3>1, <3>2, <3>5, RowSame DEF Asks
      <3> QED
        BY <3>1, <3>3, <3>4, <3>5
    <2>2. /\ L!Release(Give(o)) /\ recorded' = recorded \cup {i}
          /\ doubled' = doubled /\ i # 0
      BY <1>6 DEF ReleaseStock, Served
    <2>3. outbox' = outbox /\ raced' = raced
      BY <1>6 DEF ReleaseStock, vars
    <2>4. o \notin doubled => i \notin recorded
      BY <2>2 DEF ServedApart
    <2> HIDE DEF i, o
    <2>5. applied' = [applied EXCEPT ![Give(o)] = @ + 1]
      BY <2>1, <2>2, LedgerRelease
    <2>6. Asks(q)' = Asks(q) /\ Releases(q)' = Releases(q)
      BY <2>3 DEF Asks, Releases, Row
    <2>7. applied'[Take(q)] = applied[Take(q)] /\ Asks(q)' \cap recorded' = Asks(q) \cap recorded
      BY <1>1, <2>1, <2>2, <2>5, <2>6, TakeGive
    <2>8. CASE q = o
      <3>1. q \notin doubled \cup raced => applied[Give(q)] = 0
        <4>1. ASSUME q \notin doubled \cup raced PROVE Releases(q) \cap recorded = {}
          <5>1. i \in Releases(q) /\ i \notin recorded
            BY <2>1, <2>4, <2>8, <4>1
          <5>2. \A j \in Releases(q) : i = j
            BY <4>1, <5>1 DEF ReleaseFinal
          <5> QED
            BY <5>1, <5>2
        <4> QED
          BY <1>1, <1>2, <4>1 DEF Counts
      <3>2. applied'[Give(q)] = applied[Give(q)] + 1 /\ Releases(q)' \cap recorded' # {}
        BY <1>1, <2>1, <2>2, <2>5, <2>6, <2>8
      <3>3. applied'[Give(q)] > 0 /\ (q \notin doubled \cup raced => applied'[Give(q)] <= 1)
        BY <1>1, <3>1, <3>2
      <3> QED
        BY <1>2, <2>2, <2>3, <2>7, <3>2, <3>3 DEF Counts
    <2>9. CASE q # o
      <3>1. applied'[Give(q)] = applied[Give(q)]
        BY <1>1, <2>1, <2>5, <2>9, TakeGive
      <3>2. Releases(q)' \cap recorded' = Releases(q) \cap recorded
        BY <2>1, <2>2, <2>6, <2>9
      <3> QED
        BY <1>2, <1>3, <2>7, <3>1, <3>2 DEF Counts
    <2> QED
      BY <2>8, <2>9
  <1>7. ASSUME NEW f, Charge(f) \/ Decline(f) PROVE UNCHANGED <<applied, recorded>>
    BY <1>7 DEF Charge, Decline, catalogVars
  <1> QED
    BY <1>4, <1>5, <1>6, <1>7, CheckoutStep

-----------------------------------------------------------------------------
(* The latest status is the last of the history *)

LastIs == \A o \in Orders : status[o] # "none" =>
            Len(history[o]) > 0 /\ history[o][Len(history[o])] = status[o]

\* What any write does to one order: its history may grow by the new status, and
\* the rest of it stays.
LEMMA HistoryStep ==
  ASSUME CheckoutTypeOK, Remembered, [CheckoutNext]_checkoutVars, NEW q \in Orders
  PROVE  /\ Len(history[q]) \in Nat
         /\ \/ history'[q] = history[q] /\ status'[q] = status[q]
            \/ /\ status[q] = "none"
               /\ history'[q] = <<"PENDING_STOCK">> /\ status'[q] = "PENDING_STOCK"
            \/ /\ status[q] # "none"
               /\ Len(history'[q]) = Len(history[q]) + 1
               /\ \A i \in 1..Len(history[q]) : history'[q][i] = history[q][i]
               /\ history'[q][Len(history[q]) + 1] = status'[q]
         /\ status[q] = "none" => history[q] = <<>>
  <1> DEFINE Moved == /\ status[q] # "none"
                      /\ Len(history'[q]) = Len(history[q]) + 1
                      /\ \A i \in 1..Len(history[q]) : history'[q][i] = history[q][i]
                      /\ history'[q][Len(history[q]) + 1] = status'[q]
  <1>1. TypeOK /\ Len(history[q]) \in Nat
    BY DEF CheckoutTypeOK, TypeOK
  <1>2. ASSUME NEW m \in Messages, ToOrders(m) PROVE UNCHANGED <<status, history>>
    BY <1>2 DEF ToOrders
  <1>3. status[q] = "none" => history[q] = <<>>
    BY DEF Remembered
  <1>4. ASSUME NEW o \in Orders, NEW seen, HasBeen(o, seen),
               NEW to \in Statuses, NEW events, Move(o, to, events)
        PROVE  (history'[q] = history[q] /\ status'[q] = status[q]) \/ Moved
    <2>1. CASE q = o
      <3>1. status'[q] = to
        BY <1>1, <1>4, <2>1 DEF Move, TypeOK
      <3>2. status[q] # "none"
        BY <1>3, <1>4, <2>1 DEF HasBeen
      <3> QED
        BY <1>1, <1>4, <2>1, <3>1, <3>2, MoveHistory
    <2>2. CASE q # o
      <3>1. status'[q] = status[q]
        BY <1>1, <1>4, <2>2 DEF Move, TypeOK
      <3> QED
        BY <1>1, <1>4, <2>2, <3>1, MoveHistory
    <2> QED
      BY <2>1, <2>2
  <1>5. \/ UNCHANGED <<status, history>>
        \/ \E cart \in Carts : CreateOrder(cart)
        \/ \E w \in Workers, o \in Orders, to \in Statuses, events \in Seq(Events) :
             Move(o, to, events) /\ HasBeen(o, task[w].seen)
    BY <1>1, <1>2, OrdersPart, WriteStep
  <1> HIDE DEF Moved
  <1>6. CASE \E cart \in Carts : CreateOrder(cart)
    BY <1>1, <1>3, <1>6, CreateHistory
  <1>7. \/ history'[q] = history[q] /\ status'[q] = status[q]
        \/ \E cart \in Carts : CreateOrder(cart)
        \/ Moved
    BY <1>4, <1>5
  <1> QED
    BY <1>1, <1>3, <1>6, <1>7 DEF Moved

LEMMA NextLastIs ==
  ASSUME CheckoutTypeOK, Remembered, LastIs, [CheckoutNext]_checkoutVars
  PROVE  LastIs'
  <1> SUFFICES ASSUME NEW q \in Orders, status'[q] # "none"
               PROVE  Len(history'[q]) > 0 /\ history'[q][Len(history'[q])] = status'[q]
    BY DEF LastIs
  <1>1. CASE history'[q] = history[q] /\ status'[q] = status[q]
    BY <1>1 DEF LastIs
  <1>2. CASE history'[q] = <<"PENDING_STOCK">> /\ status'[q] = "PENDING_STOCK"
    BY <1>2
  <1>3. CASE /\ Len(history'[q]) = Len(history[q]) + 1 /\ Len(history[q]) \in Nat
             /\ history'[q][Len(history[q]) + 1] = status'[q]
    BY <1>3
  <1> QED
    BY <1>1, <1>2, <1>3, HistoryStep

LEMMA HastyGrows ==
  ASSUME CheckoutTypeOK, Remembered, [CheckoutNext]_checkoutVars
  PROVE  Hasty \subseteq Hasty'
  <1> SUFFICES ASSUME NEW q \in Orders, NEW i \in 1..(Len(history[q]) - 1),
                      history[q][i] = "PENDING_STOCK", history[q][i + 1] = "CANCELLED"
               PROVE  \E k \in 1..(Len(history'[q]) - 1) :
                        history'[q][k] = "PENDING_STOCK" /\ history'[q][k + 1] = "CANCELLED"
    BY DEF Hasty
  <1>1. Len(history[q]) \in Nat
    BY HistoryStep
  <1>2. i \in 1..Len(history[q]) /\ i + 1 \in 1..Len(history[q])
    BY <1>1
  <1>3. CASE history'[q] = history[q]
    BY <1>3
  <1>4. CASE status[q] = "none"
    BY <1>2, <1>4, HistoryStep
  <1>5. CASE /\ Len(history'[q]) = Len(history[q]) + 1
             /\ \A k \in 1..Len(history[q]) : history'[q][k] = history[q][k]
    <2>1. i \in 1..(Len(history'[q]) - 1)
      BY <1>1, <1>5
    <2>2. history'[q][i] = "PENDING_STOCK" /\ history'[q][i + 1] = "CANCELLED"
      BY <1>2, <1>5
    <2> QED
      BY <2>1, <2>2
  <1> QED
    BY <1>3, <1>4, <1>5, HistoryStep

\* An order that goes from waiting for its stock reply to cancelled is hasty.
LEMMA HastyNow ==
  ASSUME CheckoutTypeOK, Remembered, LastIs, [CheckoutNext]_checkoutVars, NEW q \in Orders,
         status[q] = "PENDING_STOCK", status'[q] = "CANCELLED"
  PROVE  q \in Hasty'
  <1>1. /\ Len(history[q]) \in Nat /\ Len(history[q]) > 0
        /\ history[q][Len(history[q])] = "PENDING_STOCK"
    BY HistoryStep DEF LastIs
  <1>2. /\ Len(history'[q]) = Len(history[q]) + 1
        /\ \A i \in 1..Len(history[q]) : history'[q][i] = history[q][i]
        /\ history'[q][Len(history[q]) + 1] = "CANCELLED"
    BY HistoryStep
  <1> DEFINE k == Len(history[q])
  <1>3. k \in 1..(Len(history'[q]) - 1)
    BY <1>1, <1>2
  <1>4. history'[q][k] = "PENDING_STOCK" /\ history'[q][k + 1] = "CANCELLED"
    BY <1>1, <1>2
  <1> HIDE DEF k
  <1> QED
    BY <1>3, <1>4 DEF Hasty

-----------------------------------------------------------------------------
(* What messages and statuses stand for *)

\* What a message says has happened, and is never taken back.
Holds(m) ==
  /\ m.type = "STOCK_RESERVED" => applied[Take(m.order)] > 0
  /\ m.type = "PAYMENT_SUCCEEDED" => charges[m.order] > 0

Told ==
  /\ \A m \in Messages : inbox[m] > 0 => Holds(m)
  /\ \A w \in Workers : task[w].kind = "message" => Holds(task[w].message)

EarnedBy(o) ==
  /\ \A s \in {"PAYMENT_PENDING"} \cup Fulfilled : HasBeen(o, s) => applied[Take(o)] > 0
  /\ \A s \in Fulfilled : HasBeen(o, s) => charges[o] > 0
  /\ ~HasBeen(o, "PENDING") /\ ~HasBeen(o, "STOCK_CONFIRMED")
  /\ o \notin raced \cup Hasty /\ status[o] = "CANCELLED" => applied[Take(o)] > 0

Earned == \A o \in Orders : EarnedBy(o)

LEMMA OfferedNames ==
  Offered = {"APPROVED", "REJECTED", "PROCESSING", "SHIPPED", "DELIVERED"}
  <1>1. DOMAIN OrderPage = {"PAID", "APPROVED", "PROCESSING", "SHIPPED"}
    BY DEF OrderPage
  <1>2. Offered = UNION {OrderPage[s] \cup ShippingPage[s] :
                           s \in {"PAID", "APPROVED", "PROCESSING", "SHIPPED"}}
    BY <1>1 DEF Offered
  <1>3. Offered = (OrderPage["PAID"] \cup ShippingPage["PAID"])
                    \cup (OrderPage["APPROVED"] \cup ShippingPage["APPROVED"])
                    \cup (OrderPage["PROCESSING"] \cup ShippingPage["PROCESSING"])
                    \cup (OrderPage["SHIPPED"] \cup ShippingPage["SHIPPED"])
    BY <1>2
  <1> QED
    BY <1>3 DEF OrderPage, ShippingPage

LEMMA InboxShrinks ==
  ASSUME TypeOK, [Next]_vars, NEW m \in Messages, inbox'[m] > 0
  PROVE  inbox[m] > 0
  <1>1. CASE UNCHANGED inbox
    BY <1>1
  <1>2. ASSUME NEW w \in Workers, NEW n \in Messages, Receive(w, n) PROVE inbox[m] > 0
    BY <1>2 DEF Receive, TypeOK
  <1>3. ASSUME NEW cart \in Carts, CreateOrder(cart) PROVE UNCHANGED inbox
    BY <1>3 DEF CreateOrder
  <1>4. ASSUME NEW w \in Workers, NEW o \in Orders, NEW to \in SellerMoves, SellerReads(w, o, to)
        PROVE  UNCHANGED inbox
    BY <1>4 DEF SellerReads
  <1>5. ASSUME NEW w \in Workers,
               \/ MarkOrderAsPaid(w) \/ HandleStockReserved(w)
               \/ HandleStockReserveFailed(w) \/ HandlePaymentFailed(w)
               \/ UpdateOrderStatus(w) \/ Crash(w)
        PROVE  UNCHANGED inbox
    BY <1>5 DEF MarkOrderAsPaid, HandleStockReserved, HandleStockReserveFailed,
                HandlePaymentFailed, UpdateOrderStatus, Crash, Done
  <1>6. UNCHANGED vars => UNCHANGED inbox
    BY DEF vars
  <1> QED
    BY <1>1, <1>2, <1>3, <1>4, <1>5, <1>6 DEF Next

\* What a step may not undo.
LEMMA StepKeeps ==
  ASSUME CheckoutTypeOK, Remembered, [CheckoutNext]_checkoutVars, NEW q \in Orders
  PROVE  /\ applied[Take(q)] \in Nat /\ charges[q] \in Nat
         /\ applied'[Take(q)] \in Nat /\ charges'[q] \in Nat
         /\ applied'[Take(q)] >= applied[Take(q)]
         /\ charges'[q] >= charges[q]
  <1>1. /\ TypeOK /\ applied \in [Takes \cup Gives -> Nat]
        /\ charges \in [Orders -> Nat] /\ Take(q) \in Takes \cup Gives
    BY TakeGive DEF CheckoutTypeOK
  <1>2. applied'[Take(q)] \in Nat /\ charges'[q] \in Nat
    BY <1>1, NextCheckoutTypes DEF CheckoutTypeOK
  <1>3. CASE UNCHANGED <<applied, charges>>
    BY <1>1, <1>3
  <1>4. ASSUME NEW f \in form, Charge(f)
        PROVE  applied' = applied /\ charges'[q] >= charges[q]
    <2>1. charges' = [charges EXCEPT ![f.order] = @ + 1] /\ applied' = applied
      BY <1>4 DEF Charge, catalogVars
    <2> QED
      BY <1>1, <2>1
  <1>5. ASSUME NEW f \in form, Decline(f) PROVE UNCHANGED <<applied, charges>>
    BY <1>5 DEF Decline, catalogVars
  <1>6. ASSUME NEW c \in CatalogWorkers, ReserveStock(c) \/ ReleaseStock(c)
        PROVE  applied'[Take(q)] >= applied[Take(q)] /\ charges' = charges
    <2> DEFINE o == outbox[serving[c]].order
    <2>1. o \in Orders
      BY <1>6, ServedRow DEF ReserveStock, ReleaseStock
    <2>2. L!Reserve(Take(o)) \/ applied' = applied \/ L!Release(Give(o))
      BY <1>6 DEF ReserveStock, ReleaseStock, L!ReserveShort
    <2>3. charges' = charges
      BY <1>6 DEF ReserveStock, ReleaseStock, Served, customerVars
    <2> HIDE DEF o
    <2>4. \/ applied' = [applied EXCEPT ![Take(o)] = @ + 1]
          \/ applied' = applied
          \/ applied' = [applied EXCEPT ![Give(o)] = @ + 1]
      BY <2>1, <2>2, LedgerReserve, LedgerRelease
    <2> QED
      BY <1>1, <2>3, <2>4
  <1> QED
    BY <1>1, <1>2, <1>3, <1>4, <1>5, <1>6, CheckoutStep

LEMMA HoldsKeeps ==
  ASSUME CheckoutTypeOK, Remembered, [CheckoutNext]_checkoutVars,
         NEW m \in Messages, Holds(m)
  PROVE  Holds(m)'
  <1>1. m.order \in Orders
    BY OrdersAssumption
  <1>2. /\ applied[Take(m.order)] > 0 => applied'[Take(m.order)] > 0
        /\ charges[m.order] > 0 => charges'[m.order] > 0
    BY <1>1, StepKeeps
  <1>3. Take(m.order)' = Take(m.order)
    BY DEF Take
  <1> QED
    BY <1>2, <1>3 DEF Holds

\* What is sent to order-service is so.
LEMMA SentHolds ==
  ASSUME CheckoutTypeOK, Remembered, [CheckoutNext]_checkoutVars,
         NEW m \in Messages, inbox'[m] > 0
  PROVE  inbox[m] > 0 \/ Holds(m)'
  <1>1. TypeOK /\ applied \in [Takes \cup Gives -> Nat] /\ charges \in [Orders -> Nat]
    BY DEF CheckoutTypeOK
  <1>2. ASSUME NEW n \in Messages, ToOrders(n), n # m PROVE inbox[m] > 0
    BY <1>1, <1>2, ComesKeeps
  <1>3. ASSUME NEW f \in form, Charge(f) PROVE inbox[m] > 0 \/ Holds(m)'
    <2> DEFINE o == f.order
               n == Message("PAYMENT_SUCCEEDED", o, charges[o] + 1)
    <2>1. MayPay(f.order) /\ ToOrders(n) /\ charges' = [charges EXCEPT ![o] = @ + 1]
      BY <1>3 DEF Charge
    <2>2. o \in Orders /\ n \in Messages
      BY <2>1, FormFacts, MessageFacts
    <2>3. n.type = "PAYMENT_SUCCEEDED" /\ n.order = o
      BY MessageFields
    <2>4. charges'[o] > 0
      BY <1>1, <2>1, <2>2
    <2> HIDE DEF n, o
    <2>5. CASE m = n
      BY <2>3, <2>4, <2>5 DEF Holds
    <2> QED
      BY <1>2, <2>1, <2>2, <2>5
  <1>4. ASSUME NEW f \in form, Decline(f) PROVE inbox[m] > 0 \/ Holds(m)'
    <2> DEFINE n == Message("PAYMENT_FAILED", f.order, 1)
    <2>1. ToOrders(n)
      BY <1>4 DEF Decline
    <2>2. n \in Messages
      BY FormFacts, MessageFacts
    <2>3. n.type = "PAYMENT_FAILED"
      BY MessageFields
    <2> HIDE DEF n
    <2>4. CASE m = n
      BY <2>3, <2>4 DEF Holds
    <2> QED
      BY <1>2, <2>1, <2>2, <2>4
  <1>5. ASSUME NEW c \in CatalogWorkers, ReserveStock(c) PROVE inbox[m] > 0 \/ Holds(m)'
    <2> DEFINE o == outbox[serving[c]].order
    <2>1. o \in Orders
      BY <1>5, ServedRow DEF ReserveStock
    <2>2. \/ L!Reserve(Take(o)) /\ Reply("STOCK_RESERVED", o)
          \/ Reply("STOCK_RESERVE_FAILED", o)
      BY <1>5 DEF ReserveStock
    <2> HIDE DEF o
    <2>4. CASE L!Reserve(Take(o)) /\ ToOrders(Message("STOCK_RESERVED", o, 1))
      <3> DEFINE n == Message("STOCK_RESERVED", o, 1)
      <3>1. n \in Messages
        BY <2>1, MessageFacts
      <3>2. n.type = "STOCK_RESERVED" /\ n.order = o
        BY MessageFields
      <3>3. applied'[Take(o)] > 0
        BY <1>1, <2>1, <2>4, LedgerReserve, TakeGive
      <3>4. ToOrders(n)
        BY <2>4
      <3> HIDE DEF n
      <3>5. CASE m = n
        BY <3>2, <3>3, <3>5 DEF Holds, Take
      <3> QED
        BY <1>2, <3>1, <3>4, <3>5
    <2>5. CASE ToOrders(Message("STOCK_RESERVE_FAILED", o, 1))
      <3> DEFINE n == Message("STOCK_RESERVE_FAILED", o, 1)
      <3>1. n \in Messages
        BY <2>1, MessageFacts
      <3>2. n.type = "STOCK_RESERVE_FAILED"
        BY MessageFields
      <3>3. ToOrders(n)
        BY <2>5
      <3> HIDE DEF n
      <3>4. CASE m = n
        BY <3>2, <3>4 DEF Holds
      <3> QED
        BY <1>2, <3>1, <3>3, <3>4
    <2> QED
      BY <2>2, <2>4, <2>5 DEF Reply
  <1>6. ASSUME NEW c \in CatalogWorkers, ReleaseStock(c) PROVE inbox[m] > 0
    BY <1>6 DEF ReleaseStock, vars
  <1>7. CASE [Next]_vars
    BY <1>1, <1>7, InboxShrinks
  <1> QED
    BY <1>3, <1>4, <1>5, <1>6, <1>7, CheckoutStep

LEMMA NextTold ==
  ASSUME CheckoutTypeOK, Remembered, Told, [CheckoutNext]_checkoutVars
  PROVE  Told'
  <1>1. TypeOK
    BY DEF CheckoutTypeOK
  <1>2. ASSUME NEW m \in Messages, inbox'[m] > 0 PROVE Holds(m)'
    BY <1>2, SentHolds, HoldsKeeps DEF Told
  <1>3. ASSUME NEW w \in Workers, task'[w].kind = "message" PROVE Holds(task[w].message)'
    <2>1. CASE task'[w] = task[w]
      <3>1. task[w].message \in Messages /\ Holds(task[w].message)
        BY <1>1, <1>3, <2>1, MessageTask DEF Told
      <3>2. ASSUME NEW m \in Messages, m = task[w].message PROVE Holds(task[w].message)'
        <4>1. Holds(m)
          BY <3>1, <3>2 DEF Holds
        <4>2. Holds(m)'
          BY <4>1, HoldsKeeps
        <4> QED
          BY <2>1, <3>2, <4>2 DEF Holds
      <3> QED
        BY <3>1, <3>2
    <2>2. CASE task'[w] = NoTask
      BY <1>3, <2>2 DEF NoTask
    <2>3. ASSUME NEW m \in Messages, inbox[m] > 0,
                 task'[w] = [kind |-> "message", message |-> m, seen |-> status[m.order]]
          PROVE  Holds(task[w].message)'
      <3>1. Holds(m)'
        BY <2>3, HoldsKeeps DEF Told
      <3> QED
        BY <2>3, <3>1 DEF Holds
    <2>4. ASSUME NEW o \in Orders, NEW to \in SellerMoves,
                 task'[w] = [kind |-> "seller", order |-> o, seen |-> status[o], to |-> to]
          PROVE  FALSE
      BY <1>3, <2>4
    <2>5. ASSUME NEW m \in Messages, ToOrders(m) PROVE task' = task
      BY <2>5 DEF ToOrders
    <2> QED
      BY <1>1, <2>1, <2>2, <2>3, <2>4, <2>5, OrdersPart, TaskStep
  <1> QED
    BY <1>2, <1>3 DEF Told

\* A status an order comes to have, and what stood behind the one that was read.
LEMMA BecomesEarned ==
  ASSUME SellerMoves \subseteq Offered,
         CheckoutTypeOK, Remembered, Told, Earned, [Next]_vars,
         NEW q \in Orders, NEW s \in Statuses, HasBeen(q, s)', ~HasBeen(q, s)
  PROVE  /\ s \in {"PAYMENT_PENDING"} \cup Fulfilled => applied[Take(q)] > 0
         /\ s \in Fulfilled => charges[q] > 0
         /\ s \notin {"PENDING", "STOCK_CONFIRMED"}
  <1> DEFINE Goal == /\ s \in {"PAYMENT_PENDING"} \cup Fulfilled => applied[Take(q)] > 0
                     /\ s \in Fulfilled => charges[q] > 0
                     /\ s \notin {"PENDING", "STOCK_CONFIRMED"}
  <1>1. TypeOK /\ EarnedBy(q)
    BY DEF CheckoutTypeOK, Earned
  <1>2. CASE \E cart \in Carts : CreateOrder(cart)
    <2>1. history'[q] = history[q] \/ history'[q] = <<"PENDING_STOCK">>
      BY <1>1, <1>2, CreateHistory
    <2>2. s = "PENDING_STOCK"
      BY <2>1 DEF HasBeen
    <2> QED
      BY <2>2 DEF Fulfilled
  <1>3. CASE UNCHANGED <<status, history, outbox>>
    BY <1>3 DEF HasBeen
  <1>4. ASSUME NEW w \in Workers, NEW seen \in Statuses, HasBeen(q, seen), s \in Allowed[seen],
               s \in SellerMoves
        PROVE  Goal
    <2>1. s \in {"APPROVED", "REJECTED", "PROCESSING", "SHIPPED", "DELIVERED"}
      BY <1>4, OfferedNames
    <2>2. seen \in {"PAID", "APPROVED", "PROCESSING", "SHIPPED"}
      BY <1>4, <2>1 DEF Allowed, Statuses
    <2> QED
      BY <1>1, <1>4, <2>1, <2>2 DEF EarnedBy, Fulfilled
  <1>5. ASSUME NEW w \in Workers, NEW seen \in Statuses, HasBeen(q, seen), s \in Allowed[seen],
               task[w].kind = "message", task[w].message \in Messages,
               q = task[w].message.order, s = Effect[task[w].message.type]
        PROVE  Goal
    <2> DEFINE m == task[w].message
    <2>1. m.type \in MessageTypes
      BY <1>5, OrdersAssumption
    <2>2. Holds(m)
      BY <1>5 DEF Told
    <2>3. CASE m.type = "STOCK_RESERVED"
      <3>1. s = "PAYMENT_PENDING" /\ applied[Take(q)] > 0
        BY <1>5, <2>2, <2>3 DEF Effect, Holds
      <3> QED
        BY <3>1 DEF Fulfilled
    <2>4. CASE m.type = "PAYMENT_SUCCEEDED"
      <3>1. s = "PAID" /\ charges[q] > 0
        BY <1>5, <2>2, <2>4 DEF Effect, Holds
      <3>2. seen \in {"PENDING", "PAYMENT_PENDING", "STOCK_CONFIRMED"}
        BY <1>5, <3>1 DEF Allowed, Statuses
      <3>3. seen = "PAYMENT_PENDING"
        BY <1>1, <1>5, <3>2 DEF EarnedBy
      <3> QED
        BY <1>1, <1>5, <3>1, <3>3 DEF EarnedBy
    <2>5. CASE m.type \in {"STOCK_RESERVE_FAILED", "PAYMENT_FAILED"}
      <3>1. s \in {"STOCK_FAILED", "CANCELLED"}
        BY <1>5, <2>5 DEF Effect
      <3> QED
        BY <3>1 DEF Fulfilled
    <2> QED
      BY <2>1, <2>3, <2>4, <2>5 DEF MessageTypes
  <1>6. CASE \E w \in Workers, o \in Orders, to \in Statuses, events \in Seq(Events) :
               /\ Move(o, to, events) /\ task[w].seen \in Statuses
               /\ HasBeen(o, task[w].seen) /\ to \in Allowed[task[w].seen]
               /\ \/ to \in SellerMoves
                  \/ /\ task[w].kind = "message" /\ task[w].message \in Messages
                     /\ o = task[w].message.order /\ to = Effect[task[w].message.type]
    <2>1. PICK w \in Workers, o \in Orders, to \in Statuses, events \in Seq(Events) :
               /\ Move(o, to, events) /\ task[w].seen \in Statuses
               /\ HasBeen(o, task[w].seen) /\ to \in Allowed[task[w].seen]
               /\ \/ to \in SellerMoves
                  \/ /\ task[w].kind = "message" /\ task[w].message \in Messages
                     /\ o = task[w].message.order /\ to = Effect[task[w].message.type]
      BY <1>6
    <2>2. o = q /\ to = s
      BY <1>1, <2>1, MoveHistory
    <2> HIDE DEF Goal
    <2>3. Goal
      BY <1>4, <1>5, <2>1, <2>2
    <2> QED
      BY <2>3 DEF Goal
  <1> QED
    BY <1>1, <1>2, <1>3, <1>6, WriteStep

LEMMA NextEarned ==
  ASSUME SellerMoves \subseteq Offered,
         CheckoutTypeOK, Remembered, LastIs, Current, Told, Earned, [CheckoutNext]_checkoutVars
  PROVE  Earned'
  <1> SUFFICES ASSUME NEW q \in Orders PROVE EarnedBy(q)'
    BY DEF Earned
  <1>1. TypeOK /\ EarnedBy(q) /\ Take(q)' = Take(q)
    BY DEF CheckoutTypeOK, Earned, Take
  <1>2. /\ applied[Take(q)] > 0 => applied'[Take(q)] > 0
        /\ charges[q] > 0 => charges'[q] > 0
    BY StepKeeps
  <1>3. ASSUME NEW s \in Statuses, HasBeen(q, s)', ~HasBeen(q, s)
        PROVE  /\ s \in {"PAYMENT_PENDING"} \cup Fulfilled => applied[Take(q)] > 0
               /\ s \in Fulfilled => charges[q] > 0
               /\ s \notin {"PENDING", "STOCK_CONFIRMED"}
    <2>1. ASSUME NEW m \in Messages, ToOrders(m) PROVE FALSE
      BY <1>3, <2>1 DEF ToOrders, HasBeen
    <2> QED
      BY <1>3, <2>1, OrdersPart, BecomesEarned
  <1>4. {"PAYMENT_PENDING", "PENDING", "STOCK_CONFIRMED"} \cup Fulfilled \subseteq Statuses
    BY DEF Fulfilled, Statuses
  <1>5. /\ \A s \in {"PAYMENT_PENDING"} \cup Fulfilled : HasBeen(q, s)' => applied'[Take(q)] > 0
        /\ \A s \in Fulfilled : HasBeen(q, s)' => charges'[q] > 0
        /\ ~HasBeen(q, "PENDING")' /\ ~HasBeen(q, "STOCK_CONFIRMED")'
    BY <1>1, <1>2, <1>3, <1>4 DEF EarnedBy
  <1>6. ASSUME q \notin raced' \cup Hasty', status'[q] = "CANCELLED"
        PROVE  applied'[Take(q)] > 0
    <2>1. q \notin raced \cup Hasty
      BY <1>6, UpsetsGrow, HastyGrows
    <2>2. CASE status[q] = "CANCELLED"
      BY <1>1, <1>2, <2>1, <2>2 DEF EarnedBy
    <2>3. CASE status[q] # "CANCELLED"
      <3>1. status[q] # "none"
        BY <1>6, <2>3, HistoryStep
      <3>2. status[q] \in Statuses /\ "CANCELLED" \in Allowed[status[q]]
        BY <1>1, <1>6, <2>3, <3>1, LifecycleStep DEF TypeOK
      <3>3. status[q] \in {"PENDING_STOCK", "PENDING", "PAYMENT_PENDING", "STOCK_CONFIRMED"}
        BY <3>2 DEF Allowed, Statuses
      <3>4. status[q] # "PENDING_STOCK"
        BY <1>6, HastyNow
      <3>5. HasBeen(q, status[q])
        BY <3>1 DEF Remembered
      <3> QED
        BY <1>1, <1>2, <3>3, <3>4, <3>5 DEF EarnedBy
    <2> QED
      BY <2>2, <2>3
  <1> QED
    BY <1>1, <1>5, <1>6 DEF EarnedBy

\* The inductive invariant of the whole.
Consistent ==
  /\ CheckoutTypeOK /\ Remembered /\ LastIs /\ Current /\ ReleaseFinal
  /\ AskedOnce /\ ServedApart /\ CountsRecorded
  /\ Told /\ Earned

LEMMA InitConsistent == CheckoutInit => Consistent
  <1> SUFFICES ASSUME CheckoutInit PROVE Consistent
    OBVIOUS
  <1>1. CheckoutTypeOK /\ Remembered /\ Current /\ ReleaseFinal
    BY InitCheckoutTypes, InitOrdersKeep
  <1>2. /\ status = [o \in Orders |-> "none"] /\ outbox = <<>>
        /\ history = [o \in Orders |-> <<>>]
        /\ inbox = Copies /\ task = [w \in Workers |-> NoTask]
        /\ recorded = {} /\ serving = [c \in CatalogWorkers |-> 0]
    BY DEF CheckoutInit, Init
  <1>3. applied = [m \in Takes \cup Gives \cup {} |-> 0]
    BY DEF CheckoutInit, L!Init
  <1>4. AskedOnce
    <2>1. 1..Len(outbox) = {}
      BY <1>2
    <2> QED
      BY <2>1 DEF AskedOnce, Asks
  <1>5. CountsRecorded
    <2>1. \A o \in Orders : applied[Take(o)] = 0 /\ applied[Give(o)] = 0
      BY <1>3, TakeGive
    <2>2. \A o \in Orders : Asks(o) \cap recorded = {} /\ Releases(o) \cap recorded = {}
      BY <1>2
    <2>3. ASSUME NEW o \in Orders PROVE Counts(o)
      BY <2>1, <2>2 DEF Counts
    <2> QED
      BY <2>3 DEF CountsRecorded
  <1>6. ServedApart /\ LastIs
    BY <1>2 DEF ServedApart, LastIs
  <1>7. Told
    <2>1. \A m \in Messages : inbox[m] = 0
      BY <1>2, CheckoutAssumption DEF NothingSent
    <2>2. \A w \in Workers : task[w].kind # "message"
      BY <1>2 DEF NoTask
    <2> QED
      BY <2>1, <2>2 DEF Told
  <1>8. Earned
    <2>1. \A o \in Orders, s \in Statuses : ~HasBeen(o, s)
      BY <1>2 DEF HasBeen
    <2>2. {"PAYMENT_PENDING", "PENDING", "STOCK_CONFIRMED"} \cup Fulfilled \subseteq Statuses
      BY DEF Fulfilled, Statuses
    <2> QED
      BY <1>2, <2>1, <2>2 DEF Earned, EarnedBy
  <1> QED
    BY <1>1, <1>4, <1>5, <1>6, <1>7, <1>8 DEF Consistent

LEMMA NextConsistent ==
  ASSUME SellerMoves \subseteq Offered, Consistent, [CheckoutNext]_checkoutVars
  PROVE  Consistent'
  <1>1. /\ CheckoutTypeOK /\ Remembered /\ LastIs /\ Current /\ ReleaseFinal
        /\ AskedOnce /\ ServedApart /\ CountsRecorded /\ Told /\ Earned
    BY DEF Consistent
  <1>2. CheckoutTypeOK' /\ Remembered' /\ LastIs' /\ Current' /\ ReleaseFinal'
    BY <1>1, NextCheckoutTypes, NextLastIs, OrdersKeep
  <1>3. AskedOnce' /\ ServedApart' /\ CountsRecorded'
    BY <1>1, NextAskedOnce, NextServedApart, NextCounts
  <1>4. Told' /\ Earned'
    BY <1>1, NextTold, NextEarned
  <1> QED
    BY <1>2, <1>3, <1>4 DEF Consistent

\* However many handlers run in either service, for sellers who ask for what the
\* storefront offers: across the services an order is paid, approved or sent only
\* with a charge behind it and its goods taken, once unless copies of its request
\* were served together, and not given back unless its own handlers raced
\* (markOrderAsPaid, updateOrderStatus, handleStockReserveRequest,
\* releaseStockWithEvent).
THEOREM FulfilledIsHeld ==
  ASSUME SellerMoves \subseteq Offered
  PROVE  CheckoutSpec => []FulfilledHeld
  <1>1. CheckoutInit => Consistent
    BY InitConsistent
  <1>2. Consistent /\ [CheckoutNext]_checkoutVars => Consistent'
    BY NextConsistent
  <1>3. Consistent => FulfilledHeld
    <2> SUFFICES ASSUME Consistent, NEW o \in Orders,
                        status[o] \in {"PAID", "APPROVED", "PROCESSING", "SHIPPED", "DELIVERED"}
                 PROVE  /\ charges[o] > 0
                        /\ applied[Take(o)] > 0
                        /\ o \notin doubled => applied[Take(o)] = 1
                        /\ o \notin raced => applied[Give(o)] = 0
      BY DEF FulfilledHeld
    <2>1. /\ HasBeen(o, status[o]) /\ EarnedBy(o) /\ Counts(o)
          /\ applied[Take(o)] \in Nat /\ applied[Give(o)] \in Nat
      BY TakeGive DEF Consistent, Remembered, Earned, CountsRecorded, CheckoutTypeOK
    <2>2. charges[o] > 0 /\ applied[Take(o)] > 0
      BY <2>1 DEF EarnedBy, Fulfilled
    <2>3. o \notin raced => Releases(o) = {}
      BY DEF Consistent, ReleaseFinal
    <2> QED
      BY <2>1, <2>2, <2>3 DEF Counts
  <1> QED
    BY <1>1, <1>2, <1>3, PTL DEF CheckoutSpec

-----------------------------------------------------------------------------
(* The stock and what is taken of it *)

\* Units of p in the orders of T.
Taken(p, T) == SumFunctionOnSet([o \in Orders |-> UnitsOf[o][p]], T)

Holders == {o \in Orders : applied[Take(o)] > applied[Give(o)]}

\* Until an order is upset, the units taken and not given back came out of the
\* stock there was.
Balance ==
  Upset = {} => \A p \in Products : stock[p] + Taken(p, Holders) <= InitialStock[p]

LEMMA UpsetGrows ==
  ASSUME CheckoutTypeOK, Remembered, [CheckoutNext]_checkoutVars
  PROVE  Upset \subseteq Upset'
  BY UpsetsGrow, HastyGrows DEF Upset

LEMMA TakenFacts ==
  ASSUME NEW p \in Products, NEW T \in SUBSET Orders
  PROVE  /\ Taken(p, T) \in Nat
         /\ Taken(p, {}) = 0
         /\ \A o \in T : Taken(p, T) = UnitsOf[o][p] + Taken(p, T \ {o})
         /\ \A U \in SUBSET T : Taken(p, U) <= Taken(p, T)
  <1> DEFINE f == [o \in Orders |-> UnitsOf[o][p]]
  <1>1. IsFiniteSet(T)
    BY CheckoutAssumption, FS_Subset
  <1>2. \A o \in T : f[o] = UnitsOf[o][p] /\ f[o] \in Nat
    BY UnitsOfAre
  <1> HIDE DEF f
  <1>3. \A o \in T : f[o] \in Int
    BY <1>2
  <1>4. SumFunctionOnSet(f, T) \in Nat
    BY <1>1, <1>2, SumNat
  <1>5. SumFunctionOnSet(f, {}) = 0
    BY SumEmpty
  <1>6. ASSUME NEW o \in T
        PROVE  SumFunctionOnSet(f, T) = UnitsOf[o][p] + SumFunctionOnSet(f, T \ {o})
    BY <1>1, <1>2, <1>3, SumAdd
  <1>7. ASSUME NEW U \in SUBSET T
        PROVE  SumFunctionOnSet(f, U) <= SumFunctionOnSet(f, T)
    BY <1>1, <1>2, SumSubset
  <1> QED
    BY <1>4, <1>5, <1>6, <1>7 DEF f, Taken

\* An order's goods are given back only after they were taken.
LEMMA GivenTaken ==
  ASSUME Consistent, Upset = {}, NEW o \in Orders, applied[Give(o)] > 0
  PROVE  applied[Take(o)] > 0
  <1>1. o \notin raced \cup Hasty
    BY DEF Upset
  <1>2. Counts(o) /\ EarnedBy(o)
    BY DEF Consistent, CountsRecorded, Earned
  <1>3. Releases(o) # {}
    BY <1>2 DEF Counts
  <1>4. status[o] \in {"CANCELLED", "REJECTED"}
    BY <1>1, <1>3 DEF Consistent, ReleaseFinal
  <1>5. HasBeen(o, status[o])
    BY <1>4 DEF Consistent, Remembered
  <1> QED
    BY <1>1, <1>2, <1>4, <1>5 DEF EarnedBy, Fulfilled

LEMMA GivenTakenThen ==
  ASSUME Consistent', Upset' = {}, NEW o \in Orders, applied'[Give(o)] > 0
  PROVE  applied'[Take(o)] > 0
  <1>0. Take(o)' = Take(o) /\ Give(o)' = Give(o)
    BY DEF Take, Give
  <1>1. o \notin raced' \cup Hasty'
    BY DEF Upset
  <1>2. Counts(o)' /\ EarnedBy(o)'
    BY DEF Consistent, CountsRecorded, Earned
  <1>3. Releases(o)' # {}
    BY <1>0, <1>2 DEF Counts
  <1>4. status'[o] \in {"CANCELLED", "REJECTED"}
    BY <1>1, <1>3 DEF Consistent, ReleaseFinal
  <1>5. HasBeen(o, status[o])'
    BY <1>4 DEF Consistent, Remembered
  <1> QED
    BY <1>0, <1>1, <1>2, <1>4, <1>5 DEF EarnedBy, Fulfilled, HasBeen

LEMMA NextBalance ==
  ASSUME SellerMoves \subseteq Offered, Consistent, Balance, [CheckoutNext]_checkoutVars
  PROVE  Balance'
  <1> SUFFICES ASSUME Upset' = {}, NEW p \in Products
               PROVE  stock'[p] + Taken(p, Holders') <= InitialStock[p]
    BY DEF Balance
  <1>0. CheckoutTypeOK /\ Remembered
    BY DEF Consistent
  <1>1. /\ Upset = {} /\ Upset' = {}
        /\ stock \in [Products -> Int] /\ applied \in [Takes \cup Gives -> Nat]
        /\ InitialStock[p] \in Nat
        /\ stock[p] + Taken(p, Holders) <= InitialStock[p]
    <2>1. Upset = {}
      BY <1>0, UpsetGrows
    <2> QED
      BY <2>1, CheckoutAssumption DEF Consistent, CheckoutTypeOK, Balance
  <1>2. Taken(p, Holders) \in Nat
    BY TakenFacts DEF Holders
  <1>3. /\ \A o \in Orders : Counts(o) /\ Counts(o)'
        /\ \A o \in Orders : o \notin doubled \cup raced /\ o \notin doubled' \cup raced'
    <2>1. Consistent'
      BY NextConsistent
    <2> QED
      BY <1>1, <2>1 DEF Consistent, CountsRecorded, Upset
  <1>4. Holders' = {o \in Orders : applied'[Take(o)] > applied'[Give(o)]}
    BY DEF Holders, Take, Give
  <1>5. CASE UNCHANGED <<stock, applied>>
    BY <1>1, <1>4, <1>5 DEF Holders
  <1>6. ASSUME NEW c \in CatalogWorkers, ReserveStock(c)
        PROVE  stock'[p] + Taken(p, Holders') <= InitialStock[p]
    <2>1. PICK o \in Orders : o = outbox[serving[c]].order
      BY <1>0, <1>6, ServedRow DEF ReserveStock
    <2>2. L!Reserve(Take(o)) \/ L!ReserveShort(Take(o))
      BY <1>6, <2>1 DEF ReserveStock
    <2>3. CASE L!ReserveShort(Take(o))
      <3>1. stock' \in [Products -> Int] /\ stock'[p] <= stock[p] /\ applied' = applied
        BY <1>1, <2>1, <2>3, LedgerShort
      <3>2. Holders' = Holders
        BY <1>4, <3>1 DEF Holders
      <3> QED
        BY <1>1, <1>2, <3>1, <3>2
    <2>4. CASE L!Reserve(Take(o))
      <3>1. /\ stock'[p] = stock[p] - UnitsOf[o][p]
            /\ applied' = [applied EXCEPT ![Take(o)] = @ + 1]
        BY <2>1, <2>4, LedgerReserve
      <3>2. Take(o)' = Take(o) /\ Counts(o)' /\ o \notin doubled'
        BY <1>3, <2>1 DEF Take
      <3>3. /\ Take(o) \in Takes \cup Gives /\ Give(o) \in Takes \cup Gives
            /\ Take(o) # Give(o)
        BY <2>1, TakeGive
      <3>4. applied[Take(o)] = 0 /\ applied'[Take(o)] = 1 /\ applied'[Give(o)] = applied[Give(o)]
        <4>1. applied'[Take(o)] = applied[Take(o)] + 1 /\ applied'[Give(o)] = applied[Give(o)]
          BY <1>1, <3>1, <3>3
        <4>2. applied'[Take(o)] <= 1
          BY <3>2 DEF Counts
        <4> QED
          BY <1>1, <3>3, <4>1, <4>2
      <3>5. applied[Give(o)] = 0
        BY <1>1, <2>1, <3>3, <3>4, GivenTaken
      <3>6. ASSUME NEW q \in Orders, q # o
            PROVE  applied'[Take(q)] = applied[Take(q)] /\ applied'[Give(q)] = applied[Give(q)]
        BY <1>1, <2>1, <3>1, <3>6, TakeGive
      <3>7. o \in Holders' /\ Holders = Holders' \ {o}
        BY <1>4, <2>1, <3>4, <3>5, <3>6 DEF Holders
      <3>8. Taken(p, Holders') = UnitsOf[o][p] + Taken(p, Holders)
        BY <3>7, TakenFacts DEF Holders
      <3>9. UnitsOf[o][p] \in Nat
        BY <2>1, UnitsOfAre
      <3> QED
        BY <1>1, <1>2, <3>1, <3>8, <3>9
    <2> QED
      BY <2>2, <2>3, <2>4
  <1>7. ASSUME NEW c \in CatalogWorkers, ReleaseStock(c)
        PROVE  stock'[p] + Taken(p, Holders') <= InitialStock[p]
    <2>1. PICK o \in Orders : o = outbox[serving[c]].order
      BY <1>0, <1>7, ServedRow DEF ReleaseStock
    <2>2. L!Release(Give(o))
      BY <1>7, <2>1 DEF ReleaseStock
    <2>3. /\ stock'[p] = stock[p] + UnitsOf[o][p]
          /\ applied' = [applied EXCEPT ![Give(o)] = @ + 1]
      BY <2>1, <2>2, LedgerRelease
    <2>4. /\ Counts(o) /\ Counts(o)' /\ Take(o)' = Take(o) /\ Give(o)' = Give(o)
          /\ o \notin doubled \cup raced /\ o \notin doubled' \cup raced'
      BY <1>3, <2>1 DEF Take, Give
    <2>5. /\ Take(o) \in Takes \cup Gives /\ Give(o) \in Takes \cup Gives
          /\ Take(o) # Give(o)
      BY <2>1, TakeGive
    <2>6. applied'[Give(o)] = applied[Give(o)] + 1 /\ applied'[Take(o)] = applied[Take(o)]
      BY <1>1, <2>3, <2>5
    <2>7. applied[Give(o)] = 0 /\ applied'[Give(o)] = 1
      <3>1. applied'[Give(o)] <= 1
        BY <2>4 DEF Counts
      <3> QED
        BY <1>1, <2>5, <2>6, <3>1
    <2>8. applied[Take(o)] = 1
      <3>1. Consistent'
        BY NextConsistent
      <3>2. applied'[Take(o)] > 0
        BY <1>1, <2>1, <2>4, <2>7, <3>1, GivenTakenThen
      <3>3. applied[Take(o)] <= 1
        BY <2>4 DEF Counts
      <3> QED
        BY <1>1, <2>5, <2>6, <3>2, <3>3
    <2>9. ASSUME NEW q \in Orders, q # o
          PROVE  applied'[Take(q)] = applied[Take(q)] /\ applied'[Give(q)] = applied[Give(q)]
      BY <1>1, <2>1, <2>3, <2>9, TakeGive
    <2>10. o \in Holders /\ Holders' = Holders \ {o}
      BY <1>4, <2>1, <2>6, <2>7, <2>8, <2>9 DEF Holders
    <2>11. Taken(p, Holders) = UnitsOf[o][p] + Taken(p, Holders')
      BY <2>10, TakenFacts DEF Holders
    <2>12. UnitsOf[o][p] \in Nat /\ Taken(p, Holders') \in Nat
      BY <2>1, UnitsOfAre, TakenFacts, <1>4
    <2> QED
      BY <1>1, <1>2, <2>3, <2>11, <2>12
  <1>8. ASSUME NEW f, Charge(f) \/ Decline(f) PROVE UNCHANGED <<stock, applied>>
    BY <1>8 DEF Charge, Decline, catalogVars
  <1> QED
    BY <1>5, <1>6, <1>7, <1>8, <1>0, CheckoutStep

-----------------------------------------------------------------------------
(* Checkout implements Sale *)

LEMMA PromisedIs ==
  ASSUME NEW p \in Products
  PROVE  /\ Promised(p) = Taken(p, Held) /\ Promised(p)' = Taken(p, Held')
         /\ Held \in SUBSET Orders /\ Held' \in SUBSET Orders
         /\ Taken(p, Held) \in Nat /\ Taken(p, Held') \in Nat
  <1>1. Held \in SUBSET Orders /\ Held' \in SUBSET Orders
    BY DEF Held
  <1>2. Taken(p, Held) \in Nat /\ Taken(p, Held') \in Nat
    BY <1>1, TakenFacts
  <1> QED
    BY <1>1, <1>2 DEF Promised, Taken

LEMMA HeldIs ==
  /\ Held = {o \in Orders : Stage(o) \in {"held", "sold", "sent"}}
  /\ Held' = {o \in Orders : Stage(o)' \in {"held", "sold", "sent"}}
  BY DEF Held

LEMMA SaleStays ==
  ASSUME Upset' = Upset, \A q \in Orders : Stage(q)' = Stage(q)
  PROVE  UNCHANGED S!sold
  <1>1. Held' = Held
    BY HeldIs
  <1>2. \A p \in Products : Promised(p)' = Promised(p)
    BY <1>1, PromisedIs
  <1>3. [o \in Orders |-> Stage(o)]' = [o \in Orders |-> Stage(o)]
    OBVIOUS
  <1>4. [p \in Products |-> InitialStock[p] - Promised(p)]'
          = [p \in Products |-> InitialStock[p] - Promised(p)]
    BY <1>2
  <1> QED
    BY <1>3, <1>4 DEF S!sold

\* One order goes from a stage to another, and its units with it.
LEMMA SaleMoves ==
  ASSUME NEW o \in Orders, NEW from, NEW to, Stage(o) = from, Stage(o)' = to,
         \A q \in Orders : q # o => Stage(q)' = Stage(q)
  PROVE  /\ S!Become(o, from, to)
         /\ \A p \in Products :
              InitialStock[p] - Promised(p)' =
                InitialStock[p] - Promised(p)
                  + (IF from \in S!Holding /\ to \notin S!Holding THEN UnitsOf[o][p]
                     ELSE IF from \notin S!Holding /\ to \in S!Holding THEN - UnitsOf[o][p]
                     ELSE 0)
  <1>1. S!Become(o, from, to)
    <2>1. [q \in Orders |-> Stage(q)]' = [[q \in Orders |-> Stage(q)] EXCEPT ![o] = to]
      OBVIOUS
    <2> QED
      BY <2>1 DEF S!Become
  <1>2. ASSUME NEW p \in Products
        PROVE  InitialStock[p] - Promised(p)' =
                 InitialStock[p] - Promised(p)
                   + (IF from \in S!Holding /\ to \notin S!Holding THEN UnitsOf[o][p]
                      ELSE IF from \notin S!Holding /\ to \in S!Holding THEN - UnitsOf[o][p]
                      ELSE 0)
    <2>1. /\ Promised(p) = Taken(p, Held) /\ Promised(p)' = Taken(p, Held')
          /\ Taken(p, Held) \in Nat /\ Taken(p, Held') \in Nat
          /\ UnitsOf[o][p] \in Nat /\ InitialStock[p] \in Nat
      BY PromisedIs, UnitsOfAre, CheckoutAssumption
    <2>2. CASE from \in S!Holding /\ to \notin S!Holding
      <3>1. o \in Held /\ Held' = Held \ {o}
        BY <2>2, HeldIs DEF S!Holding
      <3>2. Taken(p, Held) = UnitsOf[o][p] + Taken(p, Held')
        BY <3>1, TakenFacts, PromisedIs
      <3> QED
        BY <2>1, <2>2, <3>2
    <2>3. CASE from \notin S!Holding /\ to \in S!Holding
      <3>1. o \in Held' /\ Held = Held' \ {o}
        BY <2>3, HeldIs DEF S!Holding
      <3>2. Taken(p, Held') = UnitsOf[o][p] + Taken(p, Held)
        BY <3>1, TakenFacts, PromisedIs
      <3> QED
        BY <2>1, <2>3, <3>2
    <2>4. CASE from \in S!Holding <=> to \in S!Holding
      <3>1. Held' = Held
        BY <2>4, HeldIs DEF S!Holding
      <3> QED
        BY <2>1, <2>4, <3>1
    <2> QED
      BY <2>2, <2>3, <2>4
  <1> QED
    BY <1>1, <1>2

LEMMA SaleKeepsFree ==
  ASSUME NEW o \in Orders, NEW from, NEW to, Stage(o) = from, Stage(o)' = to,
         \A q \in Orders : q # o => Stage(q)' = Stage(q),
         from \in S!Holding <=> to \in S!Holding
  PROVE  /\ S!Become(o, from, to)
         /\ [p \in Products |-> InitialStock[p] - Promised(p)]'
              = [p \in Products |-> InitialStock[p] - Promised(p)]
  <1>1. S!Become(o, from, to)
    BY SaleMoves
  <1>2. \A p \in Products : InitialStock[p] - Promised(p)' = InitialStock[p] - Promised(p)
    <2> TAKE p \in Products
    <2>1. InitialStock[p] - Promised(p)' = InitialStock[p] - Promised(p) + 0
      BY SaleMoves
    <2>2. InitialStock[p] \in Nat /\ Promised(p) \in Nat
      BY PromisedIs, CheckoutAssumption
    <2> QED
      BY <2>1, <2>2
  <1> QED
    BY <1>1, <1>2

LEMMA SaleSells ==
  ASSUME NEW o \in Orders, NEW from, NEW to, Stage(o) = from, Stage(o)' = to,
         \A q \in Orders : q # o => Stage(q)' = Stage(q),
         <<from, to>> \in {<<"held", "sold">>, <<"sold", "sent">>, <<"placed", "void">>},
         Upset' = {}
  PROVE  S!Next
  <1>1. from \in S!Holding <=> to \in S!Holding
    BY DEF S!Holding
  <1>2. /\ S!Become(o, from, to)
        /\ [p \in Products |-> InitialStock[p] - Promised(p)]'
             = [p \in Products |-> InitialStock[p] - Promised(p)]
    BY <1>1, SaleKeepsFree
  <1>3. \/ from = "held" /\ to = "sold"
        \/ from = "sold" /\ to = "sent"
        \/ from = "placed" /\ to = "void"
    OBVIOUS
  <1>4. S!Sell(o) \/ S!Send(o) \/ S!Refuse(o)
    BY <1>2, <1>3 DEF S!Sell, S!Send, S!Refuse
  <1> QED
    BY <1>4 DEF S!Next, S!Calm

LEMMA SaleUndoes ==
  ASSUME NEW o \in Orders, NEW from \in {"held", "sold"}, Stage(o) = from, Stage(o)' = "void",
         \A q \in Orders : q # o => Stage(q)' = Stage(q),
         Upset' = {}
  PROVE  S!Next
  <1>1. from \in S!Holding /\ "void" \notin S!Holding
    BY DEF S!Holding
  <1>2. S!Become(o, from, "void")
    BY SaleMoves
  <1>3. \A p \in Products :
          InitialStock[p] - Promised(p)' = InitialStock[p] - Promised(p) + UnitsOf[o][p]
    <2> TAKE p \in Products
    <2> QED
      BY <1>1, SaleMoves
  <1>4. [p \in Products |-> InitialStock[p] - Promised(p)]'
          = [p \in Products |->
               [r \in Products |-> InitialStock[r] - Promised(r)][p] + UnitsOf[o][p]]
    BY <1>3
  <1>5. S!Undo(o)
    BY <1>2, <1>4 DEF S!Undo
  <1> QED
    BY <1>5 DEF S!Next, S!Calm

LEMMA SaleHolds ==
  ASSUME NEW o \in Orders, Stage(o) = "placed", Stage(o)' = "held",
         \A q \in Orders : q # o => Stage(q)' = Stage(q),
         \A p \in Products : UnitsOf[o][p] <= InitialStock[p] - Promised(p),
         Upset' = {}
  PROVE  S!Next
  <1>1. "placed" \notin S!Holding /\ "held" \in S!Holding
    BY DEF S!Holding
  <1>2. S!Become(o, "placed", "held")
    BY SaleMoves
  <1>3. \A p \in Products :
          InitialStock[p] - Promised(p)' = (InitialStock[p] - Promised(p)) - UnitsOf[o][p]
    <2> TAKE p \in Products
    <2>1. InitialStock[p] - Promised(p)' = InitialStock[p] - Promised(p) + (- UnitsOf[o][p])
      BY <1>1, SaleMoves
    <2>2. InitialStock[p] \in Nat /\ Promised(p) \in Nat /\ UnitsOf[o][p] \in Nat
      BY PromisedIs, UnitsOfAre, CheckoutAssumption
    <2> QED
      BY <2>1, <2>2
  <1>4. [p \in Products |-> InitialStock[p] - Promised(p)]'
          = [p \in Products |->
               [r \in Products |-> InitialStock[r] - Promised(r)][p] - UnitsOf[o][p]]
    BY <1>3
  <1>5. \A p \in Products :
          UnitsOf[o][p] <= [r \in Products |-> InitialStock[r] - Promised(r)][p]
    OBVIOUS
  <1>6. S!Hold(o)
    BY <1>2, <1>4, <1>5 DEF S!Hold
  <1> QED
    BY <1>6 DEF S!Next, S!Calm

\* The carts' orders are placed; no units move.
LEMMA SalePlaces ==
  ASSUME NEW new \in SUBSET Orders,
         \A o \in new : Stage(o) = "none" /\ Stage(o)' = "placed",
         \A o \in Orders \ new : Stage(o)' = Stage(o),
         Upset' = {}
  PROVE  S!Next
  <1>1. Held' = Held
    BY HeldIs
  <1>2. \A p \in Products : Promised(p)' = Promised(p)
    BY <1>1, PromisedIs
  <1>3. [p \in Products |-> InitialStock[p] - Promised(p)]'
          = [p \in Products |-> InitialStock[p] - Promised(p)]
    BY <1>2
  <1>4. [o \in Orders |-> Stage(o)]'
          = [o \in Orders |-> IF o \in new THEN "placed"
                              ELSE [q \in Orders |-> Stage(q)][o]]
    OBVIOUS
  <1>5. \A o \in new : [q \in Orders |-> Stage(q)][o] = "none"
    OBVIOUS
  <1>6. S!Place(new)
    BY <1>3, <1>4, <1>5 DEF S!Place
  <1> QED
    BY <1>6 DEF S!Next, S!Calm

LEMMA StageSame ==
  ASSUME NEW q \in Orders, status'[q] = status[q],
         applied'[Take(q)] > 0 <=> applied[Take(q)] > 0
  PROVE  Stage(q)' = Stage(q)
  BY DEF Stage, Take

LEMMA HeldTook ==
  ASSUME Consistent, Upset = {}
  PROVE  Held \subseteq Holders
  <1> SUFFICES ASSUME NEW o \in Orders, Stage(o) \in {"held", "sold", "sent"}
               PROVE  applied[Take(o)] > applied[Give(o)]
    BY DEF Held, Holders
  <1>1. status[o] \notin {"CANCELLED", "REJECTED", "none"}
    BY DEF Stage
  <1>2. /\ EarnedBy(o) /\ Counts(o) /\ HasBeen(o, status[o]) /\ o \notin raced
        /\ applied[Take(o)] \in Nat /\ applied[Give(o)] \in Nat
    BY <1>1, TakeGive
       DEF Consistent, Earned, CountsRecorded, Remembered, Upset, CheckoutTypeOK
  <1>3. applied[Take(o)] > 0
    <2>1. \/ status[o] = "PENDING_STOCK" /\ applied[Take(o)] > 0
          \/ status[o] \in {"PAYMENT_PENDING"} \cup Fulfilled
      BY DEF Stage, Fulfilled
    <2> QED
      BY <1>2, <2>1 DEF EarnedBy
  <1>4. Releases(o) = {}
    BY <1>1, <1>2 DEF Consistent, ReleaseFinal
  <1>5. ~(applied[Give(o)] > 0)
    BY <1>2, <1>4 DEF Counts
  <1> QED
    BY <1>2, <1>3, <1>5

\* What the catalog still has covers what is free of orders.
LEMMA StockFree ==
  ASSUME Consistent, Balance, Upset = {}, NEW p \in Products
  PROVE  stock[p] <= InitialStock[p] - Promised(p)
  <1>1. stock[p] + Taken(p, Holders) <= InitialStock[p]
    BY DEF Balance
  <1>2. Taken(p, Held) <= Taken(p, Holders)
    BY HeldTook, TakenFacts DEF Holders
  <1>3. /\ stock[p] \in Int /\ InitialStock[p] \in Nat
        /\ Taken(p, Held) \in Nat /\ Taken(p, Holders) \in Nat
        /\ Promised(p) = Taken(p, Held)
    BY PromisedIs, TakenFacts, CheckoutAssumption DEF Consistent, CheckoutTypeOK, Holders
  <1> QED
    BY <1>1, <1>2, <1>3

\* The ways an order can come when its own status is written.
Written == {<<"none", "placed">>, <<"placed", "void">>, <<"held", "sold">>,
            <<"held", "void">>, <<"sold", "sent">>, <<"sold", "void">>}

LEMMA StageWritten ==
  ASSUME Consistent, Consistent', [CheckoutNext]_checkoutVars, UNCHANGED applied,
         NEW o \in Orders, o \notin Upset'
  PROVE  Stage(o)' = Stage(o) \/ <<Stage(o), Stage(o)'>> \in Written
  <1>1. /\ CheckoutTypeOK /\ Remembered /\ LastIs /\ Current
        /\ EarnedBy(o) /\ EarnedBy(o)' /\ Take(o)' = Take(o)
        /\ status[o] \in Statuses \cup {"none"} /\ o \notin raced' /\ o \notin Hasty'
    BY DEF Consistent, Earned, Take, Upset, CheckoutTypeOK, TypeOK
  <1>2. status[o] # "none" => HasBeen(o, status[o])
    BY DEF Consistent, Remembered
  <1>3. status'[o] # "none" => HasBeen(o, status[o])'
    BY DEF Consistent, Remembered
  <1>4. CASE status'[o] = status[o]
    BY <1>4, StageSame
  <1>5. CASE status[o] = "none" /\ status'[o] # "none"
    <2>1. status'[o] = "PENDING_STOCK"
      BY <1>1, <1>5, HistoryStep
    <2>2. applied[Take(o)] = 0
      <3>1. Asks(o) = {} /\ Counts(o) /\ applied[Take(o)] \in Nat
        BY <1>5, TakeGive DEF Consistent, AskedOnce, CountsRecorded, CheckoutTypeOK
      <3> QED
        BY <3>1 DEF Counts
    <2>3. Stage(o) = "none" /\ Stage(o)' = "placed"
      BY <1>1, <1>5, <2>1, <2>2 DEF Stage
    <2> QED
      BY <2>3 DEF Written
  <1>6. CASE status[o] \in Statuses /\ status'[o] \in Allowed[status[o]]
    <2>1. status[o] \notin {"PENDING", "STOCK_CONFIRMED"}
      BY <1>1, <1>2, <1>6, StatusNames DEF EarnedBy
    <2>2. status[o] = "PENDING_STOCK" => status'[o] # "CANCELLED"
      BY <1>1, HastyNow
    <2>3. CASE status[o] = "PENDING_STOCK" /\ status'[o] = "PAYMENT_PENDING"
      <3>1. applied[Take(o)] > 0
        BY <1>1, <1>3, <2>3 DEF EarnedBy
      <3>2. Stage(o) = "held" /\ Stage(o)' = "held"
        BY <2>3, <3>1 DEF Stage
      <3> QED
        BY <3>2
    <2>4. CASE status[o] = "PENDING_STOCK" /\ status'[o] = "STOCK_FAILED"
      <3>1. Stage(o) \in {"held", "placed"} /\ Stage(o)' = "void"
        BY <2>4 DEF Stage
      <3> QED
        BY <3>1 DEF Written
    <2>5. CASE status[o] = "PAYMENT_PENDING" /\ status'[o] \in {"PAID", "CANCELLED"}
      <3>1. Stage(o) = "held" /\ Stage(o)' \in {"sold", "void"}
        BY <2>5 DEF Stage
      <3> QED
        BY <3>1 DEF Written
    <2>6. CASE status[o] = "PAID" /\ status'[o] \in {"APPROVED", "REJECTED"}
      <3>1. Stage(o) = "sold" /\ Stage(o)' \in {"sold", "void"}
        BY <2>6 DEF Stage
      <3> QED
        BY <3>1 DEF Written
    <2>7. CASE \/ status[o] = "APPROVED" /\ status'[o] = "PROCESSING"
               \/ status[o] = "PROCESSING" /\ status'[o] = "SHIPPED"
               \/ status[o] = "SHIPPED" /\ status'[o] = "DELIVERED"
      <3>1. Stage(o) \in {"sold", "sent"} /\ Stage(o)' = "sent"
        BY <2>7 DEF Stage
      <3> QED
        BY <3>1 DEF Written
    <2> QED
      BY <1>6, <2>1, <2>2, <2>3, <2>4, <2>5, <2>6, <2>7 DEF Allowed, Statuses
  <1> QED
    BY <1>1, <1>4, <1>5, <1>6, LifecycleStep

\* A write of order-service, in the terms of Sale.
LEMMA SaleWrite ==
  ASSUME Consistent, Consistent', [CheckoutNext]_checkoutVars, UNCHANGED applied,
         Upset = {}, Upset' = {}
  PROVE  S!Next \/ UNCHANGED S!sold
  <1>1. /\ TypeOK /\ CheckoutTypeOK /\ Remembered
        /\ status \in [Orders -> Statuses \cup {"none"}]
    BY DEF Consistent, CheckoutTypeOK, TypeOK
  <1>2. \A q \in Orders : status'[q] = status[q] => Stage(q)' = Stage(q)
    BY StageSame
  <1>3. \A q \in Orders : Stage(q)' = Stage(q) \/ <<Stage(q), Stage(q)'>> \in Written
    BY StageWritten
  <1>4. CASE UNCHANGED status
    BY <1>2, <1>4, SaleStays
  <1>5. ASSUME NEW cart \in Carts, CreateOrder(cart) PROVE S!Next
    <2> DEFINE new == {o \in Orders : Stage(o) = "none" /\ Stage(o)' = "placed"}
    <2>1. ASSUME NEW o \in Orders \ new PROVE Stage(o)' = Stage(o)
      <3>1. CASE status'[o] = status[o]
        BY <1>2, <3>1
      <3>2. CASE status[o] = "none" /\ status'[o] = "PENDING_STOCK"
        <4>1. Stage(o) = "none" /\ Stage(o)' \in {"placed", "held"}
          BY <3>2 DEF Stage
        <4> QED
          BY <1>3, <2>1, <4>1 DEF Written
      <3> QED
        BY <1>1, <1>5, <3>1, <3>2, CreateHistory
    <2>2. \A o \in new : Stage(o) = "none" /\ Stage(o)' = "placed"
      OBVIOUS
    <2>3. new \in SUBSET Orders
      OBVIOUS
    <2> HIDE DEF new
    <2> QED
      BY <2>1, <2>2, <2>3, SalePlaces
  <1>6. ASSUME NEW o \in Orders, NEW to \in Statuses, NEW events \in Seq(Events), Move(o, to, events)
        PROVE  S!Next \/ UNCHANGED S!sold
    <2>1. \A q \in Orders : q # o => Stage(q)' = Stage(q)
      BY <1>1, <1>2, <1>6 DEF Move
    <2>2. CASE Stage(o)' = Stage(o)
      BY <2>1, <2>2, SaleStays
    <2>3. CASE Stage(o) = "none" /\ Stage(o)' = "placed"
      BY <2>1, <2>3, {o} \in SUBSET Orders, SalePlaces
    <2>4. CASE <<Stage(o), Stage(o)'>> \in {<<"held", "sold">>, <<"sold", "sent">>, <<"placed", "void">>}
      BY <2>1, <2>4, SaleSells
    <2>5. CASE Stage(o) \in {"held", "sold"} /\ Stage(o)' = "void"
      BY <2>1, <2>5, SaleUndoes
    <2> QED
      BY <1>3, <2>2, <2>3, <2>4, <2>5 DEF Written
  <1>7. ASSUME NEW m \in Messages, ToOrders(m) PROVE UNCHANGED status
    BY <1>7 DEF ToOrders
  <1> QED
    BY <1>1, <1>4, <1>5, <1>6, <1>7, OrdersPart, WriteStep

\* What the catalog does to the stage of an order: it may come to be held.
LEMMA StageTaken ==
  ASSUME Consistent, NEW c \in CatalogWorkers, ReserveStock(c) \/ ReleaseStock(c),
         NEW q \in Orders
  PROVE  \/ Stage(q)' = Stage(q)
         \/ /\ ReserveStock(c) /\ q = outbox[serving[c]].order /\ L!Reserve(Take(q))
            /\ Stage(q) = "placed" /\ Stage(q)' = "held"
  <1>1. applied \in [Takes \cup Gives -> Nat] /\ CheckoutTypeOK
    BY DEF Consistent, CheckoutTypeOK
  <1>2. status' = status
    BY DEF ReserveStock, ReleaseStock, Reply, ToOrders, vars
  <1>3. PICK o \in Orders : o = outbox[serving[c]].order
    BY <1>1, ServedRow DEF ReserveStock, ReleaseStock
  <1>4. CASE applied'[Take(q)] = applied[Take(q)]
    BY <1>2, <1>4, StageSame
  <1>5. CASE applied'[Take(q)] # applied[Take(q)]
    <2>1. ReserveStock(c) /\ L!Reserve(Take(o))
      <3>1. ASSUME ReleaseStock(c) PROVE FALSE
        <4>1. L!Release(Give(o))
          BY <1>3, <3>1 DEF ReleaseStock
        <4>2. applied' = [applied EXCEPT ![Give(o)] = @ + 1]
          BY <4>1, LedgerRelease
        <4> QED
          BY <1>1, <1>5, <4>2, TakeGive
      <3>2. L!Reserve(Take(o)) \/ L!ReserveShort(Take(o))
        BY <1>3, <3>1 DEF ReserveStock
      <3> QED
        BY <1>5, <3>1, <3>2 DEF L!ReserveShort
    <2>2. applied' = [applied EXCEPT ![Take(o)] = @ + 1]
      BY <2>1, LedgerReserve
    <2>3. q = o
      BY <1>1, <1>5, <2>2, TakeGive
    <2>4. applied'[Take(q)] > 0 /\ Take(q)' = Take(q)
      BY <1>1, <2>2, <2>3, TakeGive DEF Take
    <2>5. Stage(q)' = Stage(q) \/ (Stage(q) = "placed" /\ Stage(q)' = "held")
      BY <1>2, <2>4 DEF Stage
    <2> QED
      BY <1>3, <2>1, <2>3, <2>5
  <1> QED
    BY <1>4, <1>5

\* However upset others are, an order that is not comes the way Sale leads.
LEMMA SaleFollows ==
  ASSUME Consistent, Consistent', [CheckoutNext]_checkoutVars, NEW o \in Orders, o \notin Upset'
  PROVE  Stage(o)' = Stage(o) \/ Stage(o)' \in S!Follows[Stage(o)]
  <1>1. CASE UNCHANGED applied
    <2>1. Stage(o)' = Stage(o) \/ <<Stage(o), Stage(o)'>> \in Written
      BY <1>1, StageWritten
    <2> QED
      BY <2>1 DEF Written, S!Follows
  <1>2. ASSUME NEW c \in CatalogWorkers, ReserveStock(c) \/ ReleaseStock(c)
        PROVE  Stage(o)' = Stage(o) \/ Stage(o)' \in S!Follows[Stage(o)]
    BY <1>2, StageTaken DEF S!Follows
  <1>3. ASSUME NEW f, Charge(f) \/ Decline(f) PROVE UNCHANGED applied
    BY <1>3 DEF Charge, Decline, catalogVars
  <1> QED
    BY <1>1, <1>2, <1>3, CheckoutStep

LEMMA SaleStep ==
  ASSUME SellerMoves \subseteq Offered, Consistent, Balance, [CheckoutNext]_checkoutVars
  PROVE  S!Next \/ UNCHANGED S!sold
  <1>1. /\ Consistent' /\ Upset \subseteq Upset'
        /\ TypeOK /\ CheckoutTypeOK
    BY NextConsistent, UpsetGrows DEF Consistent, CheckoutTypeOK
  <1>2. CASE Upset' # {}
    <2>1. \A o \in Orders \ Upset' :
            \/ [q \in Orders |-> Stage(q)]'[o] = [q \in Orders |-> Stage(q)][o]
            \/ [q \in Orders |-> Stage(q)]'[o] \in S!Follows[[q \in Orders |-> Stage(q)][o]]
      BY <1>1, SaleFollows
    <2>2. S!Astray
      BY <1>1, <1>2, <2>1 DEF S!Astray
    <2> QED
      BY <2>2 DEF S!Next
  <1>3. CASE Upset' = {}
    <2>1. Upset = {}
      BY <1>1, <1>3
    <2>2. CASE UNCHANGED applied
      BY <1>1, <1>3, <2>1, <2>2, SaleWrite
    <2>3. ASSUME NEW c \in CatalogWorkers, ReserveStock(c) \/ ReleaseStock(c)
          PROVE  S!Next \/ UNCHANGED S!sold
      <3>1. CASE \A q \in Orders : Stage(q)' = Stage(q)
        BY <1>3, <2>1, <3>1, SaleStays
      <3>2. CASE \E q \in Orders : Stage(q)' # Stage(q)
        <4>1. PICK o \in Orders : /\ ReserveStock(c) /\ o = outbox[serving[c]].order
                                  /\ L!Reserve(Take(o))
                                  /\ Stage(o) = "placed" /\ Stage(o)' = "held"
          BY <2>3, <3>2, StageTaken
        <4>2. \A q \in Orders : q # o => Stage(q)' = Stage(q)
          BY <2>3, <4>1, StageTaken
        <4>3. ASSUME NEW p \in Products
              PROVE  UnitsOf[o][p] <= InitialStock[p] - Promised(p)
          <5>1. stock[p] <= InitialStock[p] - Promised(p)
            BY <2>1, StockFree
          <5>2. stock[p] \in Int /\ InitialStock[p] \in Nat
            BY CheckoutAssumption DEF Consistent, CheckoutTypeOK
          <5>3. Promised(p) \in Nat /\ UnitsOf[o][p] \in Nat
            BY PromisedIs, UnitsOfAre
          <5>4. stock[p] - UnitsOf[o][p] >= 0
            BY <4>1, LedgerReserve
          <5> QED
            BY <5>1, <5>2, <5>3, <5>4
        <4> QED
          BY <1>3, <4>1, <4>2, <4>3, SaleHolds
      <3> QED
        BY <3>1, <3>2
    <2>4. ASSUME NEW f, Charge(f) \/ Decline(f) PROVE UNCHANGED applied
      BY <2>4 DEF Charge, Decline, catalogVars
    <2> QED
      BY <2>2, <2>3, <2>4, CheckoutStep
  <1> QED
    BY <1>2, <1>3

LEMMA InitSale ==
  ASSUME CheckoutInit
  PROVE  S!Init /\ Balance
  <1>1. status = [o \in Orders |-> "none"] /\ stock = InitialStock
    BY DEF CheckoutInit, Init, L!Init
  <1>2. applied = [m \in Takes \cup Gives \cup {} |-> 0]
    BY DEF CheckoutInit, L!Init
  <1>3. \A o \in Orders : Stage(o) = "none"
    BY <1>1 DEF Stage
  <1>4. Held = {} /\ Holders = {}
    BY <1>2, <1>3, TakeGive DEF Held, Holders
  <1>5. ASSUME NEW p \in Products PROVE Promised(p) = 0 /\ Taken(p, Holders) = 0
    <2>1. Taken(p, {}) = 0
      BY TakenFacts
    <2> QED
      BY <1>4, <2>1, PromisedIs
  <1>6. InitialStock \in [Products -> Nat]
    BY CheckoutAssumption
  <1>7. [p \in Products |-> InitialStock[p] - Promised(p)] = InitialStock
    BY <1>5, <1>6
  <1>8. [o \in Orders |-> Stage(o)] = [o \in Orders |-> "none"]
    BY <1>3
  <1>9. S!Init
    <2>1. Upset = {}
      BY DEF Upset, Hasty, CheckoutInit, Init
    <2> QED
      BY <1>7, <1>8, <2>1 DEF S!Init
  <1>10. Balance
    BY <1>1, <1>5, <1>6 DEF Balance
  <1> QED
    BY <1>9, <1>10

\* However many handlers run in either service, for sellers who ask for what the
\* storefront offers: the whole checkout, through all its messages, repeats and
\* losses, sells as Sale says.  An order holds its units before it is sold, and
\* only units no other order holds, until two handlers of an order or of an outbox
\* row overlapped or an order was cancelled before its stock reply; and every
\* other order goes on as it should (createOrder, handleStockReserveRequest,
\* markOrderAsPaid, updateOrderStatus, handlePaymentFailed).
THEOREM SoldAsPromised ==
  ASSUME SellerMoves \subseteq Offered
  PROVE  CheckoutSpec => SellsAsPromised
  <1>1. CheckoutInit => Consistent /\ Balance /\ S!Init
    BY InitConsistent, InitSale
  <1>2. /\ Consistent /\ Balance
        /\ [CheckoutNext]_checkoutVars
        => Consistent' /\ Balance'
    BY NextConsistent, NextBalance
  <1>3. /\ Consistent /\ Balance
        /\ [CheckoutNext]_checkoutVars
        => [S!Next]_(S!sold)
    BY SaleStep
  <1> QED
    BY <1>1, <1>2, <1>3, PTL DEF CheckoutSpec, SellsAsPromised, S!Spec

LEMMA NextStock ==
  ASSUME CheckoutTypeOK, \A p \in Products : stock[p] >= 0, [CheckoutNext]_checkoutVars
  PROVE  \A p \in Products : stock'[p] >= 0
  <1>1. stock \in [Products -> Int]
    BY DEF CheckoutTypeOK
  <1>2. CASE UNCHANGED stock
    BY <1>2
  <1>3. ASSUME NEW c \in CatalogWorkers, ReserveStock(c) \/ ReleaseStock(c)
        PROVE  \A p \in Products : stock'[p] >= 0
    <2>1. PICK o \in Orders : o = outbox[serving[c]].order
      BY <1>3, ServedRow DEF ReserveStock, ReleaseStock
    <2>2. L!Reserve(Take(o)) \/ L!ReserveShort(Take(o)) \/ L!Release(Give(o))
      BY <1>3, <2>1 DEF ReserveStock, ReleaseStock
    <2>3. \A p \in Products : UnitsOf[o][p] \in Nat
      BY UnitsOfAre
    <2>4. CASE L!Reserve(Take(o))
      BY <2>4, LedgerReserve
    <2>5. CASE L!ReserveShort(Take(o))
      BY <2>5 DEF L!ReserveShort, L!Covers
    <2>6. CASE L!Release(Give(o))
      BY <1>1, <2>3, <2>6, LedgerRelease
    <2> QED
      BY <2>2, <2>4, <2>5, <2>6
  <1>4. ASSUME NEW f, Charge(f) \/ Decline(f) PROVE UNCHANGED stock
    BY <1>4 DEF Charge, Decline, catalogVars
  <1> QED
    BY <1>2, <1>3, <1>4, CheckoutStep

\* Until two handlers of one order overlapped, or two handlers of copies of one
\* outbox row, or an order was cancelled before its stock reply, no product is
\* promised beyond the stock there was, whatever is published twice, late or lost
\* (handleStockReserveRequest, releaseStockWithEvent, handlePaymentFailed).
THEOREM SoldWithinStock ==
  ASSUME SellerMoves \subseteq Offered
  PROVE  CheckoutSpec => [](Upset = {} => NeverOversold)
  <1> DEFINE Inv == Consistent /\ Balance /\ \A p \in Products : stock[p] >= 0
  <1>1. CheckoutInit => Inv
    <2>1. CheckoutInit => \A p \in Products : stock[p] >= 0
      BY CheckoutAssumption DEF CheckoutInit, L!Init
    <2> QED
      BY <2>1, InitConsistent, InitSale
  <1>2. Inv /\ [CheckoutNext]_checkoutVars => Inv'
    <2>1. Consistent => CheckoutTypeOK
      BY DEF Consistent
    <2> QED
      BY <2>1, NextConsistent, NextBalance, NextStock
  <1>3. Inv => (Upset = {} => NeverOversold)
    <2> SUFFICES ASSUME Inv, Upset = {}, NEW p \in Products PROVE Promised(p) <= InitialStock[p]
      BY DEF NeverOversold
    <2>1. stock[p] <= InitialStock[p] - Promised(p) /\ stock[p] >= 0
      BY StockFree
    <2>2. stock[p] \in Int /\ InitialStock[p] \in Nat /\ Promised(p) \in Nat
      BY CheckoutAssumption, PromisedIs DEF Consistent, CheckoutTypeOK
    <2> QED
      BY <2>1, <2>2
  <1> QED
    BY <1>1, <1>2, <1>3, PTL DEF CheckoutSpec

=============================================================================
