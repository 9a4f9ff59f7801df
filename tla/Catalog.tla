------------------------------- MODULE Catalog -------------------------------
(***************************************************************************)
(* The stock of catalog-service: what its RabbitMQ handlers and its RPC do *)
(* to products.stock_quantity, one database transaction per delivery.      *)
(*                                                                         *)
(* A worker is one handler invocation in flight.  The consumer sets no     *)
(* prefetch and handlers are asynchronous, so deliveries are handled       *)
(* concurrently and in any order.  A transaction runs at READ COMMITTED:   *)
(* it looks its message up in processed_messages without a lock, then      *)
(* takes each line's row with SELECT ... FOR UPDATE, in the order of the   *)
(* lines, computes in memory, and writes the row; the write is seen by     *)
(* others, and the row locks go, when the transaction ends.                *)
(*                                                                         *)
(* The consumer acknowledges automatically (noAck is left at its default), *)
(* so a delivery whose handler throws or whose process dies is gone.       *)
(***************************************************************************)
EXTENDS Integers, Sequences

CONSTANTS
  Products,       \* rows of the products table
  ReserveMsgs,    \* STOCK_RESERVE_REQUESTED messages, one id each
  ReleaseMsgs,    \* ORDER_CANCELLED and ORDER_REJECTED messages, one id each
  RpcMsgs,        \* products.reserve_stock requests, which carry no id
  Items,          \* the lines of each message: [product, quantity] in order
  Copies,         \* how many times each message is delivered
  InitialStock,   \* stock_quantity of each product at the start
  Workers,        \* handler invocations that can be in flight together
  Moderators,     \* admin requests approving or rejecting a product
  NoMsg           \* marks a worker without a message

Msgs == ReserveMsgs \cup ReleaseMsgs \cup RpcMsgs
Reserving == ReserveMsgs \cup RpcMsgs
Guarded == ReserveMsgs \cup ReleaseMsgs   \* looked up in processed_messages

ASSUME CatalogAssumption ==
  /\ Items \in [Msgs -> Seq([product : Products, quantity : Nat])]
  /\ \A m \in Msgs : Len(Items[m]) > 0
  /\ Copies \in [Msgs -> Nat]
  /\ InitialStock \in [Products -> Nat]
  /\ ReserveMsgs \cap ReleaseMsgs = {}
  /\ RpcMsgs \cap Guarded = {}
  /\ NoMsg \notin Msgs

VARIABLES
  stock,       \* committed products.stock_quantity
  processed,   \* committed processed_messages ids
  queue,       \* deliveries still to come, per message
  pc,          \* per worker: "idle", "items" inside its transaction, "emit" after it
  msg,         \* per worker: the message it handles
  line,        \* per worker: the next line of the message
  held,        \* per worker: the rows its transaction has locked
  buf,         \* per worker: the uncommitted stock_quantity of the rows it holds
  reply,       \* per worker: the outcome it is about to emit
  moderating   \* per moderator: the product it loaded, with the stock it saw

\* Ghosts: they record what happened and no guard reads them.
VARIABLES
  delta,       \* per worker: units its transaction has taken so far (given back: < 0)
  out,         \* per product: units taken less units given back, over all commits
  applied,     \* per message: transactions that committed every line
  replied      \* per message and outcome: events emitted

txnVars == <<pc, msg, line, held, buf, reply, delta>>
ledgerVars == <<stock, processed, out, applied>>
vars == <<txnVars, ledgerVars, queue, moderating, replied>>

Outcomes == {"reserved", "failed", "released"}
NoLoad == [product |-> "none", seen |-> 0]
Zero == [p \in Products |-> 0]

Init ==
  /\ stock = InitialStock
  /\ processed = {}
  /\ queue = Copies
  /\ pc = [w \in Workers |-> "idle"]
  /\ msg = [w \in Workers |-> NoMsg]
  /\ line = [w \in Workers |-> 1]
  /\ held = [w \in Workers |-> {}]
  /\ buf = [w \in Workers |-> Zero]
  /\ reply = [w \in Workers |-> "none"]
  /\ moderating = [a \in Moderators |-> NoLoad]
  /\ delta = [w \in Workers |-> Zero]
  /\ out = Zero
  /\ applied = [m \in Msgs |-> 0]
  /\ replied = [m \in Msgs |-> [o \in Outcomes |-> 0]]

-----------------------------------------------------------------------------
(* Rows, locks and the end of a transaction *)

Line(w) == Items[msg[w]][line[w]]
MoreLines(w) == pc[w] = "items" /\ line[w] <= Len(Items[msg[w]])

\* Mutant: findOne without its pessimistic_write lock.
LockedByOther_NoLock(w, p) == FALSE

LockedByOther(w, p) == \E v \in Workers \ {w} : p \in held[v]

\* What findOne with pessimistic_write returns: this transaction's own write,
\* or the latest committed row.
RowValue(w, p) == IF p \in held[w] THEN buf[w][p] ELSE stock[p]

Committed(w) == [p \in Products |-> IF p \in held[w] THEN buf[w][p] ELSE stock[p]]

\* Mutant: the row locks of a finished transaction are kept.
EndTxn_KeepsLocks(w) ==
  /\ UNCHANGED held
  /\ buf' = [buf EXCEPT ![w] = Zero]
  /\ delta' = [delta EXCEPT ![w] = Zero]
  /\ line' = [line EXCEPT ![w] = 1]

\* The worker's transaction is over, committed or rolled back: locks go.
EndTxn(w) ==
  /\ held' = [held EXCEPT ![w] = {}]
  /\ buf' = [buf EXCEPT ![w] = Zero]
  /\ delta' = [delta EXCEPT ![w] = Zero]
  /\ line' = [line EXCEPT ![w] = 1]

Publish(w) == /\ stock' = Committed(w)
              /\ out' = [p \in Products |-> out[p] + delta[w][p]]

Idle(w) == /\ pc' = [pc EXCEPT ![w] = "idle"]
           /\ msg' = [msg EXCEPT ![w] = NoMsg]
           /\ reply' = [reply EXCEPT ![w] = "none"]

\* Mutant: the outcome of the transaction is dropped.
Finish_NoOutcome(w, o) == pc' = [pc EXCEPT ![w] = "emit"] /\ UNCHANGED <<msg, reply>>

Finish(w, o) == /\ pc' = [pc EXCEPT ![w] = "emit"]
                /\ reply' = [reply EXCEPT ![w] = o]
                /\ UNCHANGED msg

-----------------------------------------------------------------------------
(* handleStockReserveRequest, releaseStockWithEvent, reserveStock *)

\* A delivery starts a transaction, whose first statement is the idempotency
\* lookup: it sees only what other transactions have committed.
Receive(w, m) ==
  /\ pc[w] = "idle"
  /\ queue[m] > 0
  /\ m \notin Guarded \cap processed
  /\ queue' = [queue EXCEPT ![m] = @ - 1]
  /\ pc' = [pc EXCEPT ![w] = "items"]
  /\ msg' = [msg EXCEPT ![w] = m]
  /\ UNCHANGED <<ledgerVars, line, held, buf, reply, delta, moderating, replied>>

\* Mutant: a duplicate is answered again.
SkipProcessed_Replies(w, m) ==
  /\ pc[w] = "idle"
  /\ queue[m] > 0
  /\ m \in Guarded \cap processed
  /\ queue' = [queue EXCEPT ![m] = @ - 1]
  /\ replied' = [replied EXCEPT ![m]["reserved"] = @ + 1]
  /\ UNCHANGED <<ledgerVars, txnVars, moderating>>

\* The lookup finds the message: nothing is done and nothing is emitted.
SkipProcessed(w, m) ==
  /\ pc[w] = "idle"
  /\ queue[m] > 0
  /\ m \in Guarded \cap processed
  /\ queue' = [queue EXCEPT ![m] = @ - 1]
  /\ UNCHANGED <<ledgerVars, txnVars, moderating, replied>>

\* Lock the row of the current line and write it: the worker waits, disabled,
\* while another transaction holds the row.
WriteLine(w, units) ==
  LET p == Line(w).product
  IN /\ ~LockedByOther(w, p)
     /\ held' = [held EXCEPT ![w] = @ \cup {p}]
     /\ buf' = [buf EXCEPT ![w][p] = RowValue(w, p) - units]
     /\ delta' = [delta EXCEPT ![w][p] = @ + units]
     /\ line' = [line EXCEPT ![w] = @ + 1]
     /\ UNCHANGED <<ledgerVars, queue, pc, msg, reply, moderating, replied>>

\* Mutant: off by one at the last unit.
InStock_OffByOne(w) == RowValue(w, Line(w).product) >= Line(w).quantity - 1

InStock(w) == RowValue(w, Line(w).product) >= Line(w).quantity

TakeLine(w) ==
  /\ MoreLines(w)
  /\ msg[w] \in Reserving
  /\ InStock(w)
  /\ WriteLine(w, Line(w).quantity)

ReturnLine(w) ==
  /\ MoreLines(w)
  /\ msg[w] \in ReleaseMsgs
  /\ WriteLine(w, -Line(w).quantity)

\* The line is short.  The callback returns { success: false } instead of
\* throwing, so the transaction commits: the lines already taken stay taken,
\* and the message is not recorded as processed.
InsufficientStock(w) ==
  /\ MoreLines(w)
  /\ msg[w] \in Reserving
  /\ ~LockedByOther(w, Line(w).product)
  /\ ~InStock(w)
  /\ Publish(w)
  /\ EndTxn(w)
  /\ Finish(w, "failed")
  /\ UNCHANGED <<processed, applied, queue, moderating, replied>>

\* Mutant: the message id is not saved.
Recorded_Nothing(w) == {}

\* The row saved in processed_messages; the RPC saves none.
Recorded(w) == {msg[w]} \cap Guarded

\* Every line is written: save the message id and commit.  save() selects
\* before it inserts, so an id another transaction has committed meanwhile is
\* no error.  Two transactions of one id never insert at once: they lock the
\* same first row.
Commit(w) ==
  /\ pc[w] = "items"
  /\ line[w] > Len(Items[msg[w]])
  /\ Publish(w)
  /\ processed' = processed \cup Recorded(w)
  /\ applied' = [applied EXCEPT ![msg[w]] = @ + 1]
  /\ EndTxn(w)
  /\ Finish(w, IF msg[w] \in ReleaseMsgs THEN "released" ELSE "reserved")
  /\ UNCHANGED <<queue, moderating, replied>>

\* After the commit: STOCK_RESERVED, STOCK_RESERVE_FAILED or STOCK_RELEASED
\* (for the RPC, its response).
Emit(w) ==
  /\ pc[w] = "emit"
  /\ replied' = [replied EXCEPT ![msg[w]][reply[w]] = @ + 1]
  /\ Idle(w)
  /\ UNCHANGED <<ledgerVars, queue, line, held, buf, delta, moderating>>

\* EventBus.emit logs a failed publish and does not throw.
EmitLost(w) ==
  /\ pc[w] = "emit"
  /\ Idle(w)
  /\ UNCHANGED <<ledgerVars, queue, line, held, buf, delta, moderating, replied>>

-----------------------------------------------------------------------------
(* What can end a transaction otherwise *)

WaitsFor(w, v) == v # w /\ MoreLines(w) /\ Line(w).product \in held[v]

\* w is on a cycle of transactions each waiting for a row of the next.
Deadlocked(w) ==
  \E S \in SUBSET Workers :
    /\ w \in S
    /\ \A v \in S : /\ \E u \in S : WaitsFor(v, u)
                    /\ \E u \in S : WaitsFor(u, v)

\* Postgres aborts one transaction of a cycle: the handler throws, the
\* transaction rolls back and the delivery is not retried.
DeadlockAbort(w) ==
  /\ Deadlocked(w)
  /\ EndTxn(w)
  /\ Idle(w)
  /\ UNCHANGED <<ledgerVars, queue, moderating, replied>>

\* The process dies, or the database connection does: an open transaction
\* rolls back, an event not yet emitted is never emitted.
Crash(w) ==
  /\ pc[w] # "idle"
  /\ EndTxn(w)
  /\ Idle(w)
  /\ UNCHANGED <<ledgerVars, queue, moderating, replied>>

-----------------------------------------------------------------------------
(* approveProduct and rejectProduct *)

\* The product is loaded without a lock, its stock with it.
LoadProduct(a, p) ==
  /\ moderating[a] = NoLoad
  /\ moderating' = [moderating EXCEPT ![a] = [product |-> p, seen |-> stock[p]]]
  /\ UNCHANGED <<txnVars, ledgerVars, queue, replied>>

\* save() writes every column in which the loaded entity differs from the row
\* it re-selects: the status, and the stock if it has moved since the load.
\* The UPDATE waits for the row lock.
SaveProduct(a) ==
  LET p == moderating[a].product
  IN /\ moderating[a] # NoLoad
     /\ \A v \in Workers : p \notin held[v]
     /\ stock' = [stock EXCEPT ![p] = moderating[a].seen]
     /\ moderating' = [moderating EXCEPT ![a] = NoLoad]
     /\ UNCHANGED <<txnVars, processed, out, applied, queue, replied>>

-----------------------------------------------------------------------------
Handler(w) ==
  \/ TakeLine(w) \/ ReturnLine(w) \/ InsufficientStock(w) \/ Commit(w)
  \/ Emit(w) \/ EmitLost(w)

Next ==
  \/ \E w \in Workers : \/ \E m \in Msgs : Receive(w, m) \/ SkipProcessed(w, m)
                        \/ Handler(w)
                        \/ DeadlockAbort(w)
                        \/ Crash(w)
  \/ \E a \in Moderators : \/ \E p \in Products : LoadProduct(a, p)
                           \/ SaveProduct(a)

Spec == Init /\ [][Next]_vars

\* A handler that can take its next step does, and Postgres breaks deadlocks;
\* nothing says that a delivery comes, that a process crashes or that an
\* administrator acts.
FairSpec == Spec /\ \A w \in Workers : /\ WF_vars(Handler(w))
                                       /\ WF_vars(DeadlockAbort(w))

-----------------------------------------------------------------------------
(* Properties *)

Loads == [product : Products, seen : Int] \cup {NoLoad}

\* Every variable has its type.  Of the whole module: catalog.service.ts.
TypeOK ==
  /\ stock \in [Products -> Int]
  /\ processed \subseteq Guarded
  /\ queue \in [Msgs -> Nat]
  /\ pc \in [Workers -> {"idle", "items", "emit"}]
  /\ msg \in [Workers -> Msgs \cup {NoMsg}]
  /\ \A w \in Workers : pc[w] # "idle" => msg[w] \in Msgs
  /\ line \in [Workers -> Nat \ {0}]
  /\ held \in [Workers -> SUBSET Products]
  /\ buf \in [Workers -> [Products -> Int]]
  /\ reply \in [Workers -> Outcomes \cup {"none"}]
  /\ \A w \in Workers : pc[w] = "emit" => reply[w] \in Outcomes
  /\ moderating \in [Moderators -> Loads]
  /\ delta \in [Workers -> [Products -> Int]]
  /\ out \in [Products -> Int]
  /\ applied \in [Msgs -> Nat]
  /\ replied \in [Msgs -> [Outcomes -> Nat]]

\* No interleaving of reservations, releases, duplicate deliveries, deadlock
\* aborts, crashes and product moderation takes a product's stock below zero,
\* although stock_quantity has no CHECK constraint: the row locks of
\* handleStockReserveRequest and reserveStock.
StockNonNegative == \A p \in Products : stock[p] >= 0

\* What makes the transactions serializable on the stock: a row has one
\* writer at a time, what a writer computed is still the committed stock less
\* what it took, and it never took more than there was.
RowsIsolated ==
  /\ \A v, w \in Workers : v # w => held[v] \cap held[w] = {}
  /\ \A w \in Workers, p \in Products :
       IF p \in held[w] THEN /\ buf[w][p] = stock[p] - delta[w][p]
                            /\ buf[w][p] >= 0
                       ELSE delta[w][p] = 0
  /\ \A a \in Moderators : moderating[a].seen >= 0

\* No step of a handler loses another's update: whatever commits, dies or
\* waits meanwhile, the stock of each product moves by exactly the units of
\* the lines that the committing transaction executed.  Only a moderator's
\* save moves it otherwise.
HandlersConserveStock ==
  [][UNCHANGED moderating =>
       \A p \in Products : stock'[p] + out'[p] = stock[p] + out[p]]_vars

\* A reply never runs ahead of the stock: there are at most as many
\* STOCK_RESERVED (STOCK_RELEASED) events for a message as transactions that
\* committed its lines, whatever crashes between the commit and the emit.
RepliesBacked ==
  \A m \in Msgs : replied[m]["reserved"] + replied[m]["released"] <= applied[m]

\* The idempotency guard where it can be relied on, with one delivery at a
\* time: an id is in processed_messages exactly when its lines took effect,
\* once, however often it is delivered again, after a crash or a lost reply.
AppliedOnce ==
  \A m \in Guarded : applied[m] = IF m \in processed THEN 1 ELSE 0

\* The units promised of a product never exceed what there was to sell.
NeverOversold == \A p \in Products : out[p] <= InitialStock[p]

Ledger == INSTANCE StockLedger

\* The transactions are serializable: with every interleaving of their row
\* locks, the committed stock changes as if each message were handled at one
\* instant (catalog.service.ts, the transactions of the three stock handlers).
Serializable == Ledger!Spec

\* Every handler that starts ends: no delivery waits for a row lock for ever,
\* for every way of ending a transaction releases its rows and Postgres breaks
\* the deadlocks that messages locking rows in opposite orders run into.
HandlersEnd == \A w \in Workers : pc[w] # "idle" ~> pc[w] = "idle"

=============================================================================
