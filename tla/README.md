# Modular Mart, verified

A TLA+ development kept beside the code of this repository: models of the
services, and of the pages that drive them, whose order of steps decides whether
stock, orders, payments, notifications and accounts stay right; the TLC runs
that check them on small instances; and theorems that TLAPS proves for every
value of the constants. Paths are relative to the repository root.

1. The system
2. Modules and their code
3. Runs
4. Proofs
5. Not modelled

## 1. The system

| Component | State | Operations | Modelled by |
|---|---|---|---|
| catalog-service, stock (`apps/catalog-service`) | `products.stock_quantity`, `processed_messages` | handlers of STOCK_RESERVE_REQUESTED, ORDER_CANCELLED, ORDER_REJECTED; RPC `products.reserve_stock`; `approveProduct`, `rejectProduct` | `Catalog`, `StockLedger` |
| catalog-service, listing, with the product pages of `apps/web` | `products.status`; the address and the query cache in the browser | `getProducts`, `createProduct`; filters, "Load more", refetch | `Listing` |
| order-service, orders (`apps/order-service`) | `orders.status`, `order_status_history`, `outbox_events`, `processed_messages` | `createOrder`; handlers of STOCK_RESERVED, STOCK_RESERVE_FAILED, PAYMENT_SUCCEEDED, PAYMENT_FAILED; the seller's `updateOrderStatus` | `Orders` |
| order-service, outbox processor | `outbox_events.processed` | a job every 5 s: load 50 rows, publish each, mark each | `Outbox` |
| payment-service | `payments`, a row for each recorded outcome of an intent | create an intent; Stripe webhooks succeeded and failed | `Payments` |
| the checkout across all of these, with the payment form and the retry page of `apps/web` | messages in flight | the saga from the click to the parcel | `Checkout`, `Sale` |
| packages/common, resilience and `ServiceClient` | a circuit's state and counters, in memory | `execute`, `onSuccess`, `onFailure`; attempts, timeouts, delays | `Resilience` |
| packages/common, messaging | the RabbitMQ channel | `EventBus.emit`, the handler decorator, start-up | environment actions of the services' modules |
| notification-service, consumers and preferences | `notifications`, `notification_channels`, `notification_preferences`, `processed_messages` | event consumers, internal requests, `updatePreferences` | `Notifications` |
| notification-service, delivery | `notification_channels.status` and `retry_count`, `is_read` | delivery worker, retry worker, `markAsRead`, `markAllAsRead` | `Deliveries` |
| user-service and `packages/auth` | `users`, metadata of Clerk's accounts | Clerk webhooks, just-in-time synchronisation, roles | `Accounts` |
| addresses, gateways, analytics, SSE, docs, build packages | | | not modelled (section 5) |

How they interact. A checkout is a saga: `createOrder` writes an order per
seller with a STOCK_RESERVE_REQUESTED row in the outbox, in one transaction; the
outbox processor publishes the row; catalog-service takes the stock and answers
STOCK_RESERVED or STOCK_RESERVE_FAILED straight on the bus; order-service moves
the order on. Meanwhile the storefront has already created and confirmed the
payment, and Stripe's webhook makes payment-service publish PAYMENT_SUCCEEDED or
PAYMENT_FAILED. A failed payment, a cancellation or a refusal puts
ORDER_CANCELLED or ORDER_REJECTED in the outbox, on which catalog-service gives
the stock back. notification-service listens to everything, and writes delivery
rows that its workers poll. Before it writes an order, order-service asks
catalog-service for the products by way of `ServiceClient`. Clerk owns the
accounts; user-service keeps a row for each and writes the row's id back into
the account's metadata, from where the other services read it.

What is hard. Handlers are asynchronous functions in one Node process and the
consumer sets no prefetch, so deliveries of one queue are handled concurrently
and interleave at every `await`; services scale to several processes. Nothing
sets `noAck: false`, so a delivery counts as acknowledged when it is taken: a
handler that throws or dies loses it, and the retries of the handler decorator
never happen. The outbox delivers duplicates. Database transactions are READ
COMMITTED, so only explicit row locks make a read and a write one step;
order-service takes none, and notification-service and user-service use no
transactions. TypeORM's `save` of a loaded entity writes what differs from the
row by then, so a stale copy overwrites.

What makes each component correct:

* catalog-service: stock is never negative and never loses an update; its
  transactions are serializable; replies never run ahead of stock; deadlocks end.
* listing: a shopper who pages sees no product twice, and the pages have no gap;
  they end early only where a row stopped matching while its page was read.
* orders: an order follows its lifecycle; nothing reaches fulfilment without a
  payment; a message recorded as processed did act; stock is given back at most
  once and only by orders that end void.
* outbox: every row is given to `EventBus.emit` at least once, the first time in
  order. Whether the broker gets it, the job does not learn.
* payments: a first charge is recorded; Stripe is answered only when a row is
  saved, and in the end; events never outnumber rows.
* checkout: an order is sold only after its units were set aside for it; and, as
  long as nothing of what the code leaves open has happened (two handlers of one
  order or of one row at once, a card refused before the stock reply), the units
  set aside never exceed those there were.
* circuit breaker: an open circuit keeps quiet; calls end; a dependency that
  recovers is used again.
* notifications: an event taken for handled has its notification; what a user
  saved stands beside the consumers and other users; a delivery is given up only after its tries, and settles.
* accounts: a live account has one row, the one its metadata names.

## 2. Modules and their code

A module named M has its instances in MCM. Theorems are in `CatalogProofs`,
`SalesProofs` (Orders and Checkout), `PaymentsProofs`, `MessagingProofs` (Outbox
and Resilience), `NotificationProofs` (Notifications and Deliveries),
`ListingProofs` and `AccountsProofs`; `Sums` proves what they need of sums. Ghost
variables, which the properties use and no guard reads, are named in each module.

### Catalog (`catalog.service.ts`, `catalog.controller.ts`)

A worker is a handler invocation. `Receive` starts its transaction with the
idempotency lookup (line 374, no lock: it sees committed rows). Every
order line is one action, `TakeLine` or `ReturnLine`: the row is locked
(`findOne` with `pessimistic_write`), compared and written to the transaction's
buffer. A worker whose row is locked is disabled. `InsufficientStock` is the
early return of line 392, which commits what the earlier lines took. `Commit`
saves the message id and publishes the buffer; `Emit` and `EmitLost` are the
publish after the commit, which EventBus swallows if it fails. `DeadlockAbort`
is Postgres breaking a cycle, `Crash` the loss of a process or connection;
both roll back and, with automatic acknowledgement, lose the delivery.
`LoadProduct` and `SaveProduct` are `approveProduct`/`rejectProduct`: a load
without a lock and a `save` that writes every column that differs from the row
by then. The three message kinds are `ReserveMsgs`, `ReleaseMsgs` (both looked
up in `processed_messages`) and `RpcMsgs` (no id, never recorded).

Abstractions: a message is a constant sequence of lines `[product, quantity]`.
Quantities are naturals, which is an assumption: the storefront sends such, and
no DTO checks it. A product that is not found ends a reservation by the same
early return as one that is short, so a product without stock stands for it; in
a release its line is skipped, which is a message without that line.

### StockLedger

What catalog-service promises, seen from outside: each message acts on the
whole stock at one instant. `Reserve` takes all lines, `ReserveShort` those
before the first short one (what the code does), `Release` gives all back,
`Overwrite` is a moderator's save. `Catalog!Serializable` is
`StockLedger!Spec` under the identity mapping of `stock` and `applied`: the row
locks make the transactions serializable. A run checks it and
`TransactionsSerializable` proves it.

### Orders (`order-creation.service.ts`, `order-events.service.ts`, `order-validation.service.ts`)

A worker is a handler invocation in two steps: `Receive` or `SellerReads` reads
(is the message processed, which status has the order), and one of
`MarkOrderAsPaid`, `HandleStockReserved`, `HandleStockReserveFailed`,
`HandlePaymentFailed`, `UpdateOrderStatus` writes order, history, outbox and
`processed_messages` in one transaction. Between the two others run: the code
takes no lock and `save` updates by id. The code's two reads are one step here,
because the transaction that changes an order's status for a message is the one
that records the message: the lookup can only miss a record whose effect the
status read then shows, and the handler returns on that status as it would have
on the record (markOrderAsPaid records the id again, which changes nothing).
`CreateOrder` is one transaction per checkout, with an order for each seller.
`Crash` loses the transaction and the delivery. Nothing keeps the handlers of one
order apart. The ghost `raced` collects the orders that two had in hand at once
(`Concerns`, `TakesUp`): what an order is promised only while its handlers are
apart is stated of the others. Message ids are values; which
messages share one is the instance's choice, and the assumption says that only
copies of one message do. `MaxSellerRequests` bounds accepted seller requests.
`SellerMoves` is what sellers ask for. `Offered` is what the two seller pages
offer (`OrderPage`, `ShippingPage`); the run adds CANCELLED, and not PAID, which
the endpoint would accept (section 4).

Abstractions: amounts, addresses, reasons, metrics and payload fields are left
out; of an outbox row, its event and order. A message about an order that does
not exist yet would throw and be lost; it is not taken, as an event about an
order follows from its creation.

### Outbox (`outbox-processor.service.ts`)

A process is a run of the scheduled job; the scheduler starts one every five
seconds whether or not the last has ended, and on every instance, so several
are under way. `Insert` is a transaction of order-service committing its rows,
which carry the time the transaction began: rows can become visible after
younger ones. `Find` loads the oldest unprocessed rows, `Batch` at most (50 in
the code). For each, `HandOver` gives it to `EventBus.emit`, which returns at
once, and `Save` marks it. When the save fails (`SaveFails`), the catch block
saves the same entity, whose `processed` is true already, so `Save` follows
again; `Abort` is that save failing too, which leaves the loop, or a crash. Rows
of one `createdAt` are gone through in any order.

Abstractions: payloads, the error message and the gauges are left out. Whether a
row given to `emit` reaches the broker is not modelled here, because the job can
never tell.

### Payments (`payments.service.ts`, `stripe-webhook.service.ts`, `payments.controller.ts`)

A worker is a webhook request in four steps: `Receive` (the idempotency lookup),
`Save`, `Emit` or `EmitLost`, `Answer`. The two handlers are one set of actions
over an event's outcome and differ in the lookup, `Recorded`: a charge is taken
for recorded by any row of the intent, a decline only by a FAILED one.
`CreatePaymentIntent` is the endpoint. `Decline` and `Charge` are Stripe, which
keeps the events it has no 200 for in `unanswered` and sends them again, in any
order. `Fail` is a crash, a database error or a late answer: the worker is gone
and the event stays unanswered. `Foreign` intents carry no order id, and are
answered at once. `MaxDeclines` bounds the declines of an intent.

Abstractions: rows and events are counted by intent and outcome; amounts, users
and the signature check are left out; the PENDING and REFUNDED statuses are never
written by the code. The controller's comment says that it answers before it
processes; the code awaits the handler, and so does the model.

### Checkout and Sale

`Checkout` extends `Orders` with `StockLedger`, the specification `Catalog` was
shown to implement, and adds what lies between and around them: the storefront,
the relay of the outbox, the queues. Its specification is `CheckoutSpec`.

The customer is `PlaceOrder` (the payment form creates the cart's orders and
goes on with the first, which is all the controller answers), `Charge` and
`Decline` (Stripe's outcome reaches order-service as a message, whatever the
order's status is by then), and `OpenRetry` (the retry page, for an order it saw
as PAYMENT_PENDING). `Relay` publishes the outbox rows in order and `RelayAgain`
any of them again, as `Outbox` lets it. In catalog-service `Lookup` is the look
into `processed_messages`, a step of its own and without a lock, so two handlers
(`CatalogWorkers`) can serve copies of one row; `ReserveStock` and `ReleaseStock`
are the rest of the transaction, with its reply, which may be lost, and
`CatalogCrash` its rollback. The ghost `doubled` collects the orders of which two
handlers served one row at once. `MaxPayments` bounds an order's payments,
`MaxRepeats` the repeated rows. Moderators' saves, which overwrite stock, and
restocking are in `Catalog` only.

`Sale` is the abstract specification of selling: an order is placed, held, sold,
sent or void, and the units it holds come out of what no other order holds. That
is its `Calm` part. Orders can be *upset*, and the sale goes `Astray`: units are
no longer promised to anyone, since an order that gave back what it never held
leaves too few for others, but every order that is not upset itself still goes
from stage to stage as before. `SellsAsPromised` is `Sale!Spec` under a refinement
mapping: `Stage` reads an order's stage off its status and, while it is
PENDING_STOCK, off whether the catalog took its units; what is free is the initial
stock less what the orders hold; upset are the orders in `raced`, those in
`doubled`, and those cancelled before their stock reply (`Hasty`).

Abstractions: one payment-service event per payment, since `Payments` says what
it publishes; messages are sets and bags without order.

### Resilience (`circuit-breaker.service.ts`, `retry.ts`, `errors.ts`, `service-client.ts`)

A call is one `ServiceClient.send`: `Admit` asks the breaker and sends the first
request, `RequestTimesOut` and `ErrorReply` fail an attempt, `Retry` sends the
next after its delay, `Answer` succeeds. The breaker's counters are written when
a call ends, by `OnSuccess` and `OnFailure`, in whatever state the breaker is by
then. Time is `Tick`, which waits for timers that are due; `since` is the time
since the last failure, up to `ResetTimeout`. `HealthChanges` is the service
called. The assumption `Longest < ResetTimeout` (a call with all its attempts is
over before an open breaker tries again) is true of order-service's calls (8 s an
attempt) and not of callers that keep the default of 10 s.

Abstractions: a failure is transient, as `classifyError` takes every error to be
that carries none of the client-error statuses; the payload and the message of
the error are left out.

### Notifications (`notifications.service.ts`, `preference.service.ts`, `consumers/`)

A consumer is a handler invocation with its awaits as steps: `Receive` (lookup),
then for each channel `AskChannel` (and `AskDefault`, the insert of the default
preference row, which the unique index refuses to the second), `SaveNotification`,
`SaveChannels`, `MarkAsProcessed`. `InternalCreate` is the request of another
service, with channels of its own. `LoadPreferences`, `EditDefault` and
`SavePreferences` are `updatePreferences`. `ConsumerFails` is a crash or a query
that fails between any two steps; the delivery is lost. The
events of payment-service carry no id and are never looked up. STOCK_RESERVE_FAILED
names no user, which the notification's column refuses: its consumer always fails.

Any number of requests change preferences at a time, of one user or of several;
`Changes` are the ones users make, and `wanted` is a ghost of what each user saved
last.

Abstractions: titles, data and templates are left out; channels of one
notification are asked in any order. `Slots` bounds the notifications,
`MaxUpdates` the changes of preferences.

### Deliveries (`delivery-worker.service.ts`, `retry-worker.service.ts`, `notifications.service.ts`)

A run of the delivery worker loads pending rows (`StartRun`) and goes through
them side by side: `Claim`, `Send` or `SendFails`, `SaveSent`, `SaveFailed`; any
save may fail (`SaveFails`, `FailedNotSaved`, which ends the run while the other
rows' parts go on). `StartSweep`, `Retry`, `NotDue`, `Exhaust` are the retry
worker. Both save the copy they loaded, with its old `retry_count`. `LoadToRead`
and `SaveRead` are `markAsRead`, whose save cascades to the delivery rows it
loaded. `Crash` ends a process with its runs and its sweep. `isProcessing` is
per process, so two processes work on one row.

Abstractions: the back-off is a choice between `Retry` and `NotDue`;
`failures` counts up to one more than the retries.

### Listing (`catalog.service.ts`, and `features/products` of the storefront)

A request for a page is two steps, because the query is two statements:
`take(limit + 1)` with a joined category makes TypeORM select the distinct ids
first (`PickIds`: filters, order, the id cursor, one row more than the limit) and
then the rows of those ids with the conditions applied again (`GetProducts`), in
no transaction. A product that stops matching between the two is missing from the
rows; if they are no more than the limit, there is no next page. The page of the
ghost `cut` is one whose ids said there was more and whose rows did not. The
storefront's page keeps filters in its address (`Push`; a control makes the new address from
the filters of the last `Render`), and one list per filters (`lists`, React
Query's cache): `LoadMore` and `NextPage` append, `Refetch` and `RefetchPage`
read every page again before they replace the list, `RequestFails` leaves it.
`CreateProduct`, `Moderate` and `StockChanges` change the table between any two
statements. The ghost `stood` holds, for each list, the products that matched all
the while it was read. `MaxClicks`, `MaxChanges` and `MaxMoves` bound the changes
of filters, of the table and of both; `MaxRequests` the requests of other lists
that are under way when the shopper asks for a page.

Abstractions: brands stand for every filter that is a set of boxes, one
non-default order for all of them; ids are naturals that grow with time, as
UUIDv7 do; facets and statistics are left out.

### Accounts (`clerk-sync.service.ts`, `users.controller.ts`, `users.service.ts`)

A worker is a webhook handler or the just-in-time synchronisation of a request,
with its database and Clerk calls as steps: `GetUser`, `FindByClerkId`,
`FindByEmail`, `Save` (which the unique columns may refuse), `SyncMetadata`
(which may fail and is only logged), `FindClosed`, `Remove`. `SignUp`,
`ChangeEmail` and `CloseAccount` are Clerk, which repeats an event until it is
answered (`Deliver`, `Answered`), in any order. `RoleSync`, `GetUserRoles` and
`GetUserId` are the three requests that synchronise just in time. `Crash` loses
a handler. An event may be delivered again while a handler has it (Clerk does not
wait for ever), so its deliveries may overlap.

Abstractions: the webhook's secret is taken to be configured (without it
`handleClerkWebhook`, line 122, answers 200 and handles nothing, and only the
just-in-time synchronisation is left); names are left out, and roles, since the synchronisation never
changes those of a row that exists. `MaxEdits` and `MaxCrashes` are bounds.

## 3. Runs

| Run | Instance | Shows |
|---|---|---|
| `catalog` | 2 products, 2 handlers, 1 moderator; a reservation delivered twice and an RPC that lock the rows in opposite orders, a release | TypeOK, StockNonNegative, RowsIsolated, RepliesBacked, HandlersConserveStock, Serializable, HandlersEnd |
| `catalog_duplicates` | 2 handlers, one reservation twice | AppliedOnce is violated |
| `orders` | 1 order, 2 handlers, 4 messages twice each, 2 seller requests | TypeOK, EveryMoveJustified, FulfilmentPaid, RecordedTookEffect, ReleaseFinal, Lifecycle |
| `payments` | 2 intents, one without an order, a decline each, 2 requests | TypeOK, AnsweredOnRecord, PublishedBacked, FirstChargeRecorded, EventsAnswered |
| `outbox` | 4 rows of 3 transactions, batches of 2, 2 overlapping runs | HandedBeforeMarked, FirstHandedInOrder, EveryRowMarked |
| `checkout` | 2 orders after the same last units, one with a second product, a charge and a decline of the other, 1 repeated row, 1 seller request, 2 handlers of order-service and 2 of catalog-service | CheckoutTypeOK, FulfilledHeld, SellsAsPromised |
| `checkout_oversold` | 3 orders, 1 handler of each service, declines before the stock reply | NeverOversold is violated |
| `resilience` | 2 calls, 3 attempts of 2 ticks with delays 1 and 2, thresholds 2 and 2, reset after 10 | TypeOK, QuietBeforeProbe, CallsEnd, Recovers |
| `notifications` | 1 user, an event with an id delivered twice, one without, internal requests, 2 consumers, 2 changes of preferences, which may overlap | TypeOK, RecordedNotified, PreferencesStand |
| `deliveries` | 1 row, 2 processes, of which one is steady, 1 retry, 1 reader | DeliveriesTypeOK, NotGivenUpEarly, SentWasDelivered, DeliveriesSettle |
| `listing` | 4 products (3 at first), 1 on a page, 3 changes, at most 2 of the filters and 2 of the table | TypeOK, NoRepeats, NothingSkipped |
| `accounts` | 2 accounts, 2 addresses of which the second account may take an old one, 2 handlers, 3 changes at Clerk, 1 crash | OneIdentity, Known |

Why the bounds are enough. A lost update, a stale read or a deadlock needs two
actors, so there are two workers; a deadlock needs two rows, so there are two
products, named in opposite orders; a duplicate needs two copies. Stock is 2
and 1, so that one reservation fits whole and the other only in part, and the
last unit is contended. Orders of different checkouts share nothing but the
outbox and the stock, so order-service's races are checked on one order, and
stock on two (three, where one is cancelled wrongly and two share its units). The
`checkout` run has races in both services, a row served twice and early declines
in it, each of which makes an order upset; with one seller request no parcel is
sent there, so of `Sale` it does not reach "sent", which the theorem covers.
Two requests are enough for one to check while another saves, and one decline
for its row to stand in a charge's way. A batch of two out of four rows has rows
left behind, and two rows with one `createdAt` straddle its end. With thresholds
of two, a straggler's result and a probe's could add up. One retry has a first
and a last try; two processes hold two stale copies of a row, and the reader a
third. A page of one product makes three pages of three products, with a new one
before them, gaps in between, and rows that leave between two statements. Two accounts are enough to exchange an address.
The number of sends of an event, of runs of a job, of probes, retries of a sweep
and refetches is not bounded. Deadlock checking is off where an instance is a
finite set of deliveries, requests, rows or changes and stops when they are used
up; it is on in `resilience`, where calls never stop.

What the two violations are. `catalog_duplicates`: two deliveries of one message
that overlap both find it unrecorded, and take the stock twice; the repository's
README promises exactly-once effects. `checkout_oversold`: the payment form
confirms the payment at once, and handlePaymentFailed cancels an order that
still waits for its stock. If the reservation then turns out short, the
cancellation gives back units that were never taken, and more are promised to
customers than exist; the documentation site says that stock is never oversold.
`PROJECT.json` quotes both lines.

What holds only under a condition, and why. Two handlers of one order that race
may take it out of a final status, since they validate what they read before.
`EveryMoveJustified`, `FulfilmentPaid` and `RecordedTookEffect` hold all the same;
`Lifecycle` and `ReleaseFinal` are about the orders that never had two handlers
at once (`raced`), in runs where others do. `FulfilledHeld` is about every order,
and gives up "taken once" for those of `doubled` and "not given back" for those of
`raced`. `SellsAsPromised` keeps the whole of `Sale` until the first order is
upset, and from then on the stages of the orders that are not. Sellers in these
runs ask for what they are offered, or for CANCELLED (`orders`), not for PAID.
`FirstChargeRecorded` is about a
charge that comes before any decline of its intent: after one, the FAILED row
makes the charge look recorded. `NoRepeats` and `NothingSkipped` are about the
default order: in the others the id cursor cuts across the order. A list can end
early: when a product is rejected or sold out between the two statements of a page,
the older ones that match are not shown until the list is read again.
`NothingSkipped` says that this is the only way to miss a product: it is one below
the end of such a page, and there is never a gap. `PreferencesStand` is about each
user whose own changes never overlap: two overwrite each other.
`OneIdentity` and `Known` are for accounts whose addresses no other account ever
had: a row goes with its address. `DeliveriesSettle` leaves out rows that a crash
or a failed save leaves PROCESSING, which no worker picks up.

Fairness. `Catalog!FairSpec` assumes weak fairness of each handler's next
step (a Node handler whose query can be answered goes on) and of Postgres's
deadlock detector. Nothing is assumed of deliveries, crashes, or
administrators. Weak fairness suffices although a worker waiting for a row is
disabled: there are finitely many deliveries, so the others release it for good.
`Payments!FairSpec` assumes strong fairness of the sending of each event and of
each worker's next step: Stripe retries, and a service that is restarted after
each failure does not fail at every attempt. Nothing makes customers pay.
`Outbox!OutboxFairSpec` assumes that the scheduler goes on starting runs and that emit
and save are not cut off for ever (strong fairness, since an abort disables them).
`Resilience!FairSpec` assumes weak fairness of the clock, of new calls, without
which nobody would probe an open breaker, of the retry after a delay, and that an
attempt under way is answered by a dependency that is up or times out. A
dependency that is down owes nothing, not even an error: `CallsEnd` rests on the
timeout of `service-client.ts`. `Recovers` is about one that stays up. `Deliveries!DeliveriesFairSpec` assumes that in the
steady processes the scheduler goes on starting both workers, and that a part of a run
or a retry that is begun again and again is done some time (strong fairness: a
crash, a failed save, another process's write or a back-off may disable it); of
the other processes nothing is assumed. `Accounts!FairSpec` assumes that a
handler that runs goes on and that Clerk delivers an account's unanswered events
again and again.

## 4. Proofs

The theorems hold for all values of the constants that satisfy the named
assumption of the component's module, and the condition given here, if any.

| Theorem | Says |
|---|---|
| `TypeCorrect` of Catalog, Orders, Payments, Resilience, Notifications, Listing; `OutboxTypeCorrect`, `DeliveriesTypeCorrect`, `CheckoutTypeCorrect`, `AccountsTypeCorrect` | the type invariants |
| Catalog: `Isolation`, `NoNegativeStock` | RowsIsolated, StockNonNegative |
| Catalog: `Conservation` | HandlersConserveStock |
| Catalog: `TransactionsSerializable` | Serializable: Catalog implements StockLedger |
| Catalog: `RepliesFollowCommits` | RepliesBacked, for finitely many handlers |
| Catalog: `NoOverselling` | units promised never exceed the stock, if there are no moderators |
| Catalog: `ExactlyOnceApart` | a message whose own copies never overlap takes effect once, whatever other handlers do |
| Orders: `MovesJustified`, `RecordsKept` | EveryMoveJustified, RecordedTookEffect |
| Orders: `PaidFirst` | FulfilmentPaid, if sellers do not ask for PAID |
| Orders: `LifecycleApart`, `ReleasedOnceApart` | Lifecycle and ReleaseFinal: any number of handlers, of the orders whose own never overlapped |
| Checkout: `CheckoutLifecycle`, `CheckoutReleasesOnce` | the same of the whole checkout |
| Checkout: `FulfilledIsHeld` | FulfilledHeld, if sellers ask for what they are offered |
| Checkout: `SoldAsPromised` | SellsAsPromised: Checkout implements Sale, if sellers ask for what they are offered |
| Checkout: `SoldWithinStock` | NeverOversold until an order is upset, if sellers ask for what they are offered |
| Outbox: `AtLeastOnce`, `InOrder` | HandedBeforeMarked, FirstHandedInOrder |
| Payments: `OnRecordWhenAnswered` | AnsweredOnRecord |
| Payments: `RecordsBeforeEvents` | PublishedBacked, for finitely many workers |
| Payments: `FirstChargeKept` | a first charge is recorded or still being sent, the safety part of FirstChargeRecorded |
| Resilience: `ProbesAlone` | QuietBeforeProbe |
| Notifications: `RecordedOnceNotified` | RecordedNotified |
| Notifications: `PreferencesKept` | PreferencesStand |
| Deliveries: `NeverGivenUpEarly`, `SentDelivered` | NotGivenUpEarly, SentWasDelivered |
| Listing: `EachOnce`, `NoneMissed` | NoRepeats, NothingSkipped |
| Accounts: `AccountsOneIdentity` | OneIdentity |

The inductive invariants.

*Catalog.* StockNonNegative alone is not inductive: a commit publishes a buffer,
so the buffer must be known non-negative and to be the committed stock less what
the transaction took; and that stays true when another transaction commits only
because no row has two holders. `IsolationInv == TypeOK /\ RowsIsolated /\
StockNonNegative` is closed under every step, and conservation follows from it.
NoOverselling adds `Balanced` (stock plus units promised is the initial stock).
For the refinement, `LinesTaken` says that what an open transaction took is the
sum over the lines before the one it is at; a commit is then, by cases on where
it stands, a `Reserve`, a `ReserveShort` or a `Release` of the ledger, a
moderator's save an `Overwrite`, and every other step a stutter.
For RepliesBacked, `Backed` counts the handlers between commit and reply too (a
cardinality), because a reply adds to what was told and takes from them.

*Orders.* A handler writes on the strength of a status it read earlier;
`Remembered` says that what a task saw, and what the order has now, are in the
order's history, so a stale write is still justified by *some* earlier status.
`Current` is about the orders that were never raced for: the one handler that has
such an order in hand saw what the order still has, whatever handlers of other
orders do, so the lifecycle holds of it step by step.

*Checkout.* `Consistent` collects what ties the services together. `AskedOnce`
and `CountsRecorded`: an order has one reservation row in the outbox, and the
catalog has applied a message if and only if it has recorded one of its rows, once
unless the row was served by two, however often the relay publishes it.
`ServedApart`: a row that was never served by two is, while it is served, not yet
recorded. `Told`: a message under way, or in a handler's hands, says something that
happened. `Earned`: a status beyond PENDING_STOCK means that the units were taken,
and a fulfilled one that a charge was made. `LastIs` ties the status to the
history, by which hasty cancellations are recognised. With `ReleaseFinal`, a
fulfilled order that was not raced for was never released, so FulfilledHeld
follows. SellsAsPromised needs `Balance` too: until an order is upset, the stock is
at most what is left of the initial stock when the orders whose units were taken
and not given back have theirs. It is not an equality, because a reservation that
fails half-way keeps the lines it took. A step of the services then changes the
stage of at most one order (or, at a checkout, of the orders of a cart), the way
`Sale` allows. SoldWithinStock is `Balance` with a stock that is not negative.

*Sums.* `SumFunctionOnSet` is defined by recursion over a set. `Sums` proves that
the recursion has a solution, and that a sum can be taken apart at any element;
induction is done with sets of numbers (a set that holds 0 and successors holds
every number, from the well-foundedness of `<`), since the library's induction
theorems take an operator.

*Outbox.* The order of what was handed over depends on what runs still hold:
`OrderInv` says that the elders of every row in a batch were handed over or are
in the same batch, which `Find` establishes because a processed row was handed
over and a pending one that is older is loaded first.

*Payments.* `Backed` counts the workers between save and publish, as in Catalog,
and `RecordInv` says that a worker past the save holds an event that is on
record. FirstChargeKept joins it to `Genuine` (there is a FAILED row only after a
decline): what makes a first charge look recorded can only be its own row.

*Resilience.* QuietBeforeProbe looks at one moment and needs a clock argument:
`Bounded` says that what a call can still last, its timer plus the attempts and
delays after it, is at most `Longest`, and at most `Longest` less the time since
the last failure while the breaker is open. A call begins with `Longest` and only
when the breaker is not open; a failure that opens it sets that time to zero; a
tick takes one from the first and adds one to the second. Since `Longest <
ResetTimeout` (the assumption, which the code's 8+1+8+2+8 s against 30 s
satisfy), nothing is in flight when the reset time is over.

*Notifications.* `TasksOK` says for each step of a consumer what it has saved by
then, down to "the rows of its slot are there and include the in-app one" before
the mark. PreferencesKept adds, for one user at a time, that the row that user's
editor loaded is the row there is (`EditFresh`). Consumers cannot disturb that, as
they insert only where there is none, nor can other users' editors; that no other
editor of the same user does is the premise of PreferencesStand.

*Deliveries.* The invariant has to be about stale copies: `Good` says of a row's
content, wherever it is held (in the table, in a run, in a sweep, with a reader),
that its retries are covered by failures counted so far and that SENT means
delivered. As both ghosts only grow, a copy that was good stays good, and writing
it back is harmless.

*Listing.* The invariant is about a chain of pages: each page's products are
below the cursor of the page before and not below its own, which makes pages
disjoint; and every product that stood so far is in the pages, below the cursor
or below the end of a page that was cut. Between the two statements of a request
`Picked` speaks of its ids: what stood below the cursor is among them, or below
them all, and then they are more than a page holds. It must hold for the list of a refetch under way as well as for the one
shown.

*Accounts.* OneIdentity is about rows and metadata at rest, while a handler holds
a row's id across its awaits and may save it, or write it to Clerk, much later. An
account *claims* an id that its row has, its metadata names or a handler for it
holds. `ClaimsApart`: what an account that shared no address claims, no other
claims; `OneRow`: no account has two rows; `RowsKept`: the row named by the
metadata, or about to be, stays until the account is closed. They rest on
`AddressesHeld` (the address of a row, event or handler was the account's) and
`ClosedForGood` (only a closed account's row is removed). TLC checked the
conjunction, `IdentityInv`, on the instance of the run before it was proved.

Conditions are real. `PaidFirst` needs sellers not to ask for PAID because
`isValidTransition` lets a seller's request move PAYMENT_PENDING to PAID without a
payment, which the storefront does not offer but the endpoint accepts. Checkout's
theorems need them to ask only for what is offered, since the table would also let
them move an order out of PENDING_STOCK, to PAYMENT_PENDING or CANCELLED, before
the catalog has answered. No theorem assumes that handlers or editors come one at
a time: those that need it say of which order, message or user, and hold of it
whatever the others do. What they exclude is what the code lets happen:
`catalog_duplicates` shows two copies of a message taking effect twice, and
`checkout_oversold` an early refusal overselling; overlapping copies of a release
and two handlers of one order that release twice oversell as well, and so would a
moderator's stale save, which `Checkout` leaves out (`Catalog`'s
HandlersConserveStock is about the handlers for that reason). SoldWithinStock is
about the time before any of these.

Only model-checked: the liveness properties HandlersEnd, FirstChargeRecorded,
EventsAnswered, EveryRowMarked, CallsEnd, Recovers, DeliveriesSettle and Known,
liveness under fairness being out of the prover's reach. Every invariant, action
property and refinement of a passing run has a theorem.

## 5. Not modelled

* `updateProduct` and `removeProduct`, which write a product as `rejectProduct`
  does; facets, statistics, reviews, order queries and analytics, which read.
* Addresses (`addresses.controller.ts`): rows of one user with a default flag. Two
  concurrent requests can leave two defaults; the code promises nothing that
  would hold in spite of it. Role administration is single updates.
* The retries, dead letters and metrics of the message handler decorator: they
  need manual acknowledgement, which no service turns on. Start-up of the
  services.
* SSE streams and templates: an in-memory map that nothing else reads, and text.
* Guards, gateways and rate limits: configuration and stateless checks (what
  RolesGuard asks of user-service is in `Accounts`).
* The storefront's markup, forms, icons and the pages that only show data; its
  dashboards; the documentation site; loggers, metrics, migrations, shared types
  and build packages. They are most of the repository's lines, and keep no state
  a property could be about.
