# A verification of gocommerce

gocommerce is a multi-store commerce engine in Go over PostgreSQL. Its state is
in the database; its Go code is a set of verbs, each one transaction, around
which a few things are *not* one transaction: events delivered after the commit,
gateways and carriers called over the network, a sweeper that reads first and
writes later. This directory models the verbs and, above all, what happens
between them.

All source lines below are of `src/`; paths without a directory are in
`src/core/`.

## Inventory

| Part | State it keeps | Operations | Hard about it | Correct when |
|---|---|---|---|---|
| Outbox (`outbox.go`, `events.go`) | `outbox_events` | write, claim, dispatch, publish, retry, park, requeue | several workers, claims that lapse, crashes, lost outcomes, late outcomes, operator repairs | every event is delivered to every handler or parked where it is seen; retries end |
| Webhooks (`ext/webhooks`) | `webhook_deliveries`, endpoints | write a row per endpoint, claim, post, record, retry, switch, delete | the same, and an endpoint that accepts what is not recorded | a repeated post has a reason; every row is delivered or given up |
| Stock (`inventory.go`) | `variant_stock`: on_hand, reserved | reserve, commit, release, restock, sell, adjust, stock take, move | contention for the last unit; each order state implies where its units are | units are conserved, reservations belong to orders, nothing is oversold |
| Locations (`locations.go`), the movement ledger, counts from files (`importer.go`), the switches of a variant (`catalog.go`) | `locations`, `stock_movements`, `track_inventory`, `continue_selling` | open, close, delete, default, transfer, count, import, switch | READ COMMITTED between statements: what was read is stale unless a row lock says otherwise | no unit is stranded, the ledger sums to the shelves, the store has its default |
| Orders (`orders.go`, `returns.go`) | `orders`, `order_lines`, `order_returns` | place, confirm, cancel, edit, return, withdraw | long legal sequences; status and stock must move together | the same |
| Parcels (`fulfillment.go`) | `fulfillments`, `fulfillment_lines` | book and record, cancel, delete, track, deliver, undo | the carrier is called outside the transaction; two requests ship one line | the status follows the parcels, nothing ships twice |
| Shiprocket (`ext/fulfill-shiprocket`) | `shiprocket_shipments` | post, poll, tell, save | posts out of order, twice, late or lost; death between engine and row | a delivery reaches the order at last |
| Unpaid sweeper (`orders.go`, `payments.go`) | its list and the gateways' answers | list, ask, cancel | a stale list, a gateway that never answers, a full batch | abandoned stock comes back; paid orders are kept |
| Payments (`payments.go`) | `payment_status`, `order_refunds`, `refunded_minor` | mark paid / unpaid / failed, check, refund in three steps, settle by hand | two refunds at once, a crash around the gateway call, an edit meanwhile | the ledger is the truth, and it fits the total |
| Gift cards (`giftcards.go`) | `balance_minor`, the cards an order bought | charge, restore, issue, revoke | cancel and payment in any order | money is on the card or in an order |
| Checkout (`checkout.go`, `cart.go`), the claim of a code (`discounts.go`) | carts, `idempotency_keys`, `discounts.used_count` | create the order, start its payment, replay; abandon, revive, purge | retries with a key, a crash between order and payment, sweeps of the cart, the last use of a code | one basket, one order; one code, its uses |
| Gateways (`ext/payments-*`) | at the gateway; Stripe's event claims | pay, refund, webhook, status | duplicated, lost and late webhooks, claims that stay | each event acted upon once, each charge settled |
| Catalog, pricing, taxes, shipping | rows of reference data | single-statement edits | | the arithmetic agrees everywhere it is done |
| Identity, roles, keys, stores, channels, plugins, media, reports, notifications, panel | | | little that interleaves | not modelled; `PROJECT.json` says why for each |

How they interact: every order verb goes through `Orders.transition`
(`orders.go:1046`), which locks the order's row, changes the order, the shelves
and the cards, appends an event to the outbox and an audit row, and commits. The
dispatcher then hands the event to subscribers, of which the webhooks module
keeps a second outbox of its own. `Payments.Refund`, `Fulfillment.Create`, the
checkout, Stripe's webhook, Shiprocket's tracking and the sweeper are outside of
it: each is several transactions with a network call between them.

## Modules

| Module | Models | Extends |
|---|---|---|
| `EventDelivery` | the abstract specification of at-least-once delivery | |
| `Outbox` | `outbox.go`: the table, the workers, the repairs; implements `EventDelivery` | |
| `Webhooks` | `ext/webhooks`: the deliveries, the workers, the endpoints; implements `EventDelivery` | |
| `Inventory` | one shelf per variant and location, moved by baskets | |
| `Orders` | orders, returns, parcels as units, gift cards over the shelves | `Inventory` |
| `Payments` | payments, refunds and the sweeper over the orders; the whole specification | `Orders` |
| `OrderProperties` | what must hold of them together | `Payments` |
| `Checkout` | `checkout.go` from the cart to the stored answer, request by request | |
| `Parcels` | the parcels of one order, one by one, and the calls that book them | |
| `ShiprocketTracking` | a carrier's posts and polls over the parcels | `Parcels` |
| `StripeRefunds` | `ext/payments-stripe/stripe.go` under `Payments.Refund`: idempotency keys | |
| `StripeEvents` | its webhook: claims, redelivery, and the sweeper behind them | |
| `Locations` | places and shelves, statement by statement under row locks | |
| `Totals` | the sum over the rows of a table, `sum(...)` in the code's SQL: what parcels hold, refunds come to, orders reserve | |
| `OutboxProofs`, `OrderProofs`, `CheckoutProofs`, `LocationsProofs`, `WebhooksProofs` | the theorems about `Outbox`, `OrderProperties`, `Checkout`, `Locations`, `Webhooks` | that module and TLAPS |
| `StripeProofs` | the theorems about `StripeRefunds` and `StripeEvents` | both, and TLAPS |
| `ParcelsProofs` | the theorems about `Parcels` and `ShiprocketTracking` | the second, and TLAPS |
| `TotalsProofs` | what a sum is, when its rows change one at a time | `Totals` and TLAPS |
| `MCOutbox`, `MCOrders`, `MCCheckout`, `MCParcels`, `MCTracking`, `MCStripeRefunds`, `MCStripeEvents`, `MCWebhooks`, `MCLocations` | instances for TLC | that module |

The modules cut the system where a transaction does. `Orders` and `Payments` let a
verb be one action, because `transition` holds the order's row, and look at long
sequences of verbs. The others open up one thing that is *not* one transaction, and
keep of the order only what that thing can see of it. Where two modules model the
same code (the sweeper in `Payments` and `StripeEvents`, shelves in `Inventory` and
`Locations`, parcels in `Orders` and `Parcels`), the second one adds the steps that
the first leaves out.

### Outbox

`written`, `due`, `attempts`, `dead`, `published` are the columns of
`outbox_events`; `due` stands for `available_at <= now()`. A worker
(`batch`, `outcome`) is a goroutine in `deliverBatch`: it keeps the rows its claim
returned, with the attempts they had *then*, because `fail` later decides with
that number. `Claim` is the `UPDATE ... RETURNING`, which commits before the first
handler runs; `Dispatch` runs every handler of one event; `MarkPublished`, `Park`
and `Backoff` are the statements that record an outcome, by row id alone. A claimed
row becomes due again at any time (`Lapse`), because nothing renews the
sixty-second window during a batch. `Crash` drops a worker's batch,
`OutcomeLost` is a recording statement that failed. `RequeueDead`, `Expedite` and
`RequeueDeadEvents` are the operator's repairs. Events of sample orders are not
appended at all and so have no rows here. `handled` and `claims` are history.

### Orders, stock and money

An order is its row and its lines, the lines a quantity per shelf
(`pickLocation` picks a shelf that can cover the line; the model lets it be any).
`subtotal` is one number for lines, discount, shipping and fee;
`TaxOnTop` is the tax of exclusive prices. `shipped` is the sum of the live parcels,
from which `shippingState` derives the status. Each verb is one action because
`transition` holds the row lock for the whole transaction; a verb that answers
"already done" or refuses is no step. A transaction that a CHECK constraint
would fail is disabled (`Commit`, `RecordRefund`).

A refund row has its ledger status and the state of the request that carries it
(`asking`, `accepted`, `declined`, `over`): `ReserveRefund` commits the pending row,
`GatewayAnswers` is the call, `SettleRefund` and `FailRefund` record its result,
`LoseRequest` is a crash at any of these points, `RefundRefused` a settling
transaction that the total's CHECK fails, `SettleByHand` the operator. `moved` is
history: what the gateway did. A gateway that answers with an error may have moved
the money all the same.

The sweeper has its list (`listed`) and the orders it has decided to cancel
(`doomed`); everything else may happen between the listing, the question and the
cancellation. Time is in `deadline`: ahead, passed, and passed for longer than the
grace the sweeper gives a gateway.

### Refunds through Stripe

To `Payments` a gateway is anything that may move the money, say so or not.
`StripeRefunds` opens one of them: Stripe makes one refund per `Idempotency-Key` and
answers every request under that key with it. The key is computed by `refundKey`
from the order that `Payments.Refund` read in its pre-flight, *before* the
reservation, so a request keeps its key from `Preflight` on (`call[q].key`), and
`Reserve` may find another ledger than the one that was counted. `made` is what
Stripe has, `row` the ledger with the one thing the key looks at besides the status:
whether the recorded error starts with `stripe: refund `, which is so only for a
refund that Stripe made and could not carry out. `Ask`, `AskUnanswered` and
`AskTooMuch` are the three ways `Module.do` returns; `Record` is `settleRefund` or
`failRefund`; `Die` a process that ends in between; `SettleByHand` an operator who
looks at Stripe fifteen minutes later and sees the truth. `alone` is history: it is
lost when two requests overlap or a process dies. The key does not depend on what
the order is made of, so no order, stock or card is in this module.

### Stripe's events

`handler[h]` is a delivery inside `handleWebhook`: it commits a claim of the event's
id (`Receive`), calls the engine (`Apply`, or `Fail` when the engine refuses, the
database fails, or Stripe hangs up and takes the request's context with it), and
answers (`Acknowledge`) or gives the claim back (`releaseClaim`, which runs in that
same context and may fail). A delivery that finds the claim answers 200 at once.
`charged` is what Stripe did, `doomed` the sweeper's decision between its question
and its cancellation. `recorded` and `undone` are history. `AnsweredMeansHandled` is
what the comment of `releaseClaim` says, and does not hold; `ChargedOrdersSettle` is
why that is bearable: the sweeper asks Stripe before it cancels.

### Checkout

`request[r]` is one HTTP request: which stage it has reached and what it has read.
Phase A is the cart's lock, the code's lock and the commit; phase B is the gateway's
answer, the order's reference and the key's answer, each a statement of its own.
`Begin` and `Resume` are the two outcomes of `replayCheckout`, which reads the key
outside any transaction. `GiveUp` is a refusal, a rollback, an error of the gateway
or a dead process at any stage. The unique index on the key is the guard of `Commit`
that stops two orders under one key. Stock, amounts and gift cards are in `Orders`;
here they are reasons to roll back.

### Parcels and what the carrier says of them

`call[c]` is `Fulfillment.Create` between its three parts: `StartCreate` validates what
it read, `CarrierBooks` is the call outside any transaction, `Record` the transaction,
which validates again (`checkShipLines`). `Abandon` is a refusal, a lost answer or a
death, after which a label may exist that no parcel carries. `Track` is a report from a
carrier; `MarkDelivered`, `MarkUndelivered`, `Cancel`, `Delete` and `EditLines` are the
operators'. `announced` adds up what `order.shipped` and `order.unshipped` say and
`undone` remembers what an operator took back.

`ShiprocketTracking` puts the carrier's own journey of each waybill beside that
(`Scan`), the module's row, and the workers that apply an update: `Webhook` and `Poll`
take one, `Tell` hands it to the engine, `Save` writes the row if the update is not
older than what it says, `Die` falls in between. A post may carry any scan made so far
and so may be late, repeated or missing.

### Webhooks

`row[d]` is the delivery of an event to an endpoint, with the columns that decide;
`batch[w]` and `posted[w]` are a worker's claims and the answer whose outcome it has yet
to write. `Post` may have been accepted although the answer says otherwise. Deleting an
endpoint takes its rows with it (`Exists`). `tries`, `got` and `doubts` are history: how
often a row was claimed, how often its endpoint accepted it, and how often the store had
to post it without being able to know that it had been.

### Locations, statement by statement

Here a transaction is not one action. `tx[s]` is the one that session `s` is in: its
operation, its next statement, what it has read, and the row locks it holds. A step
of a session is one statement: it takes the locks that the statement wants
(`Wanted`), which it can only if no other session holds one that excludes them
(`Free`), with PostgreSQL's four lock modes and their table (`Exclude`). A plain read
takes none and sees the last commit. Writes take effect with the last statement of a
transaction, which is the only moment at which others could see them; `RollBack` is
refused, failed or chosen as the victim of a deadlock. What each statement reads of the
*variant* is kept from its snapshot (`sees`), because a switch of `track_inventory` or
`continue_selling` takes no lock that the order path would wait for. The ledger is
its sums per place (`book`), which is what `checkLedger` compares.

## Runs

| Run | Instance | Distinct states | Checks |
|---|---|---|---|
| `outbox` | two events in batches of two, two workers, one handler, two tries; a crash, a lost outcome or a repair in each behaviour | 483 thousand | `TypeOK`, `RetriesBounded`, `ImplementsDelivery`, `EveryEventSettles` under `FairSpec` |
| `orders_stock` | two orders over a shelf of two units, one return each, a gateway to ask for one of them, a sweep batch of one | 716 thousand | `TypeOK`, `ReservationsAgree`, `StockConserved`, `NeverOversold`, `PaidOrdersHoldTheirStock`, `ExpiredHoldsEnd` under `FairSpec` |
| `orders_refunds` | one order of a variant that sells past zero, with two refunds of up to two units of money, one request lost, tax on top, a gift card that pays and one that is sold | 900 thousand | `GiftCardsAgree`, `LedgerAgrees`, `RefundsReserveOnce` |
| `stripe_refunds` | four refunds of one or two of three units of money, two at a time, one answer lost, one process dead | 327 thousand | `RecordedWasSent`, `EachRowItsOwnRefundAlone` |
| `stripe_events` | one order, two events posted twice each to two processes, one of which may die | 153 thousand | `TypeOK`, `RecordedStaysPaid`, `OneDeliveryAtATime`, `ChargedOrdersSettle` under `FairEventsSpec` |
| `checkout` | two carts, two requests, a gateway's key, a cash key and none, two addresses, a code with one or two uses | 278 thousand | `OneOrderPerCheckout`, `OrderedCartsAreConverted`, `CodeClaimedOnce` |
| `parcels` | two requests that ship one line of up to two units in up to three parcels | 1.02 million | `StatusFollowsParcels`, `NothingShipsTwice`, `DeliveredWithItsParcels`, `AnnouncedIsOut` |
| `tracking` | a post and a poll of one parcel over two bookings with journeys of two scans | 121 thousand | `TypeOK`, `RowNeverAheadOfOrder`, `PollCatchesUp` under `PollingSpec` |
| `webhooks` | one event for one endpoint, dispatched twice, two workers, two tries, one lost pass, one retry | 475 thousand | `TypeOK`, `RepeatsAreExplained`, `ImplementsDelivery`, `EveryDeliverySettles` under `FairHooksSpec` |
| `locations` | two places, two sessions, one order of one unit, every operation and every switch | 1.39 million | `TypeOK`, `LedgerReconciles`, `OnlyDeletionsDeadlock`, `NothingIsStranded`, `DefaultIsKept`, `OversoldBySwitchingOnly`, `RestockedUnitsLand` |

Two more runs each show one disagreement between the code and what it says of
itself (`findings` in `PROJECT.json`):

| Run | What happens |
|---|---|
| `checkout_same_answer` | a checkout repeated under its key while the first request is at the gateway starts a second payment, and its answer replaces the first, against `schema.go:560` |
| `stripe_claims` | a claim that could not be released has Stripe's next post answered 200 for an event nobody handled, against `ext/payments-stripe/stripe.go:465` |

### Disagreements met without a run of their own

Each is in the model, which reaches it; a property that denied it would fail.

- A batch that outlives its window is claimed by a second worker, against
  `docs/events.md:30`.
- An order paid between the sweeper's question and its cancellation is cancelled with
  its money taken (`orders.go:1345`).
- An edit lowers an order's total under a refund at the gateway, and the refund can no
  longer be recorded (`orders.go:1436`); an edit at tax-exclusive prices loses the tax
  (`orders.go:1567`).
- Two overlapping refunds of one amount get one Stripe key, so that the ledger records
  two and Stripe sends one; a refund whose answer was lost gets another key when
  another one was settled before its retry (`ext/payments-stripe/stripe.go:353`).
- `MarkUnpaid` clears `payment_reference` (`payments.go:262`), so the sweeper cannot ask
  about an order whose charge was taken back in error.
- A checkout resumed after its order was cancelled starts a payment for it, and a
  reference may be written late (`checkout.go:739`).
- A parcel that was received can be deleted while the order is still partly shipped,
  against the comment at `fulfillment.go:505`.
- A Shiprocket post whose time cannot be read is stamped with the present
  (`ext/fulfill-shiprocket/tracking.go:261`) and outranks older scans that come late;
  `Undated = TRUE` turns it on.
- A webhook row that is both delivered and dead is listed among the dead.
- `SetDefault` reads a place and writes it two statements later; if the place is deleted
  in between, the store has no default, against "Exactly one default, enforced rather
  than remembered" (`schema.go:1123`).
- `restockStock` moves nothing when its place is deleted between `ensureStockRow` and the
  `UPDATE`, against `inventory.go:129`.
- Switching `continue_selling` off reads the shelves outside its transaction, and the
  CHECK that `catalog.go:1108` relies on was dropped by migration 17 (`schema.go:1102`).
  A switch of `track_inventory` leaves a pending order that cannot be committed.
- A count from a file reads whether its place is open once, with the header; and one that
  is raised to what is reserved puts units in a closed place, against D44.
- A transfer out of a place whose row appeared after its `FOR UPDATE` takes that row out
  of order and may deadlock, as may a deletion with the order path or an import.

### The bounds, and why they are enough

- *Two workers, two events, two tries.* Every hazard of the outbox is between two
  holders of one row, or between a holder and a repair; a second event is needed only
  for batches. Two tries are the least that tell a first, a last and a late try apart.
  `MCOneFault` lets one thing go wrong in a behaviour, and there is one handler: the
  theorems hold for any number of faults and handlers, with those that accept an event
  and those that do not.
- *Two orders, one shelf of two units.* Contention for the last unit needs two orders
  and fewer units than they want; moving lines between shelves is in the model and in
  the theorems, while the runs keep to one shelf because shelves do not interact
  except through an order's lines. A basket of two units is what a parcel or a return
  can take half of.
- *Two refunds, one request lost, two units of money.* That is the least with which
  one refund is partial, two compete, and one is stranded while another completes.
- *Four requests at Stripe.* A count in the key must differ although the amounts
  agree, which takes three; the fourth leaves room for the lost one.
- *Two carts, two requests, two keys.* Requests may share a cart, a key or an address,
  or none of these; a third adds nothing that a retry after `GiveUp` does not.
- *Two callers, three parcels, two units.* Two calls race for a unit and a third parcel
  replaces a cancelled one.
- *Two scans and two bookings.* An older and a newer report of one parcel, and reports of
  a booking that is no longer the parcel's.
- *Two posts of two events to two processes.* A declined attempt and a charge, each
  posted again while the first delivery is under way.
- *Two places, two sessions.* A transfer needs two places; a race or a deadlock of two
  needs two sessions (`OnlyDeletionsDeadlock` is about pairs). `MCBounds` keeps to one
  transaction at a time once the order is over, because what two sessions do to each
  other without an order has been followed before there is one; and a variant that is
  not tracked sells past zero with either value of the other switch. The theorems need
  neither.
- *`MaxReceived`, `MaxSubtotal`, `MaxLost`, `MaxDead`, `MaxDeaths`, `MaxPosts`,
  `MaxCrashes`, `MaxDbErrors`, `MaxRequeues`, `MaxRunning`, `MaxDispatches`,
  `MaxRetries`, `MaxUnits`* bound what an environment does; each is a guard of the
  actions that it bounds and of no other. So do the sets of order ids, intents,
  parcels and waybills.

Every run sets `CHECK_DEADLOCK FALSE` where the system really stops: every order has
ended, every request is over and the bounds are used up. That transactions do not wait
for each other for ever is `OnlyDeletionsDeadlock`, which is also proved.

### Fairness

Only what the program's own loops guarantee is assumed.

- Outbox: `outbox.run` polls as long as the application runs (`Claim`, by some worker,
  not by each), `runHandler` gives every handler a timeout (`Dispatch`), a statement
  that settles an outcome returns (`Settle`, which includes the failed statement), and
  the clock moves (`Lapse`). Weak fairness does: nothing but the worker itself disables
  its step. Producers, operators and crashes are under no obligation.
- Sweeper: `runSweepers` is a ticker (`SweepList`), each question to a gateway ends
  after `sweepAskTimeout` (`SweepAsk`), a cancellation returns (`SweepCancel`), and
  deadlines pass (`Expire`). Nothing is assumed of shoppers, operators, gateways
  (which may never answer) or webhooks. That the query has a `LIMIT` and no order is in the
  model: the batch is any set of that size. `ExpiredHoldsEnd` holds nevertheless
  because an order that is held leaves the list for good once its grace is over.
- Shiprocket: a poll goes through all pending waybills in each pass (`Poll`), and not
  every update of a waybill is cut short (`Tell`, `Save`). This is strong fairness: a
  process may die in an update any number of times, and another update of the waybill
  switches the step off for a while, so what is assumed is that a poll which is possible
  again and again is made. Posts are promised nothing.
- Stripe's events: only the sweeper and the clock (`Expire`, `SweepAsk`, `SweepCancel`).
  No post ever has to arrive, and no delivery to end.
- Webhooks: the ticker (`Claim`, by some worker), the client's timeout (`Post`), the
  recording statement (`Settle`), the clock (`Lapse`). Endpoints need not accept anything.

## What is proved

TLAPS checks these for every value of the constants, under the modules' named
assumptions (finite sets of rows, workers and requests; natural bounds; at least
one try):

| Theorem | Says |
|---|---|
| `OutboxProofs!TypeCorrect` | `TypeOK` of the outbox |
| `OutboxProofs!DeliveryInvariant` | the inductive invariant `DeliveryInv` |
| `OutboxProofs!OutboxDelivers` | the outbox implements `EventDelivery` |
| `OutboxProofs!RetriesAreBounded` | `RetriesBounded` |
| `OrderProofs!TypeCorrect` | `TypeOK` of orders, stock, refunds and sweeper |
| `OrderProofs!NothingIsOversold` | `NeverOversold` |
| `OrderProofs!PaidOrdersAreConfirmed` | `PaidOrdersHoldTheirStock` |
| `OrderProofs!RefundsFitTheTotal` | `RefundedWithinTotal`, a conjunct of `LedgerAgrees` |
| `OrderProofs!LedgerIsTrue` | `RecordedRefundsWentOut`, a conjunct of `LedgerAgrees` |
| `OrderProofs!CancelledCardsAreOff` | `NoCardOutlivesItsOrder`, a conjunct of `GiftCardsAgree` |
| `OrderProofs!NoReservationIsStranded` | `ReservationsAgree` |
| `OrderProofs!UnitsAreConserved` | `StockConserved` |
| `OrderProofs!GiftCardsBalance` | `GiftCardsAgree` |
| `OrderProofs!TheLedgerAgrees` | `LedgerAgrees` |
| `OrderProofs!MoneyGoesBackOnce` | `RefundsReserveOnce` |
| `StripeProofs!TypeCorrect` | `TypeOK` of the Stripe refunds |
| `StripeProofs!LedgerWasSent` | `RecordedWasSent` |
| `StripeProofs!KeysAreOwnAlone` | `EachRowItsOwnRefundAlone` |
| `StripeProofs!EventsTypeCorrect` | `EventsTypeOK` of Stripe's events |
| `StripeProofs!EventsInvariant` | the inductive invariant `EventsInv` |
| `StripeProofs!HandledOneAtATime` | `OneDeliveryAtATime` |
| `StripeProofs!PaymentsLast` | `RecordedStaysPaid` |
| `CheckoutProofs!TypeCorrect` | `TypeOK` of the checkout |
| `CheckoutProofs!CheckoutInvariant` | the inductive invariant `CheckoutInv` |
| `CheckoutProofs!OneOrder` | `OneOrderPerCheckout` |
| `CheckoutProofs!OrderedCartsStay` | `OrderedCartsAreConverted` |
| `CheckoutProofs!CodesAreClaimedOnce` | `CodeClaimedOnce` |
| `LocationsProofs!TypeCorrect` | `TypeOK` of places, shelves and transactions |
| `LocationsProofs!LocationsInvariant` | the inductive invariant `LocationsInv` |
| `LocationsProofs!LedgerIsTrue` | `LedgerReconciles` |
| `LocationsProofs!UnitsAreNotStranded` | `NothingIsStranded` |
| `LocationsProofs!DefaultStays` | `DefaultIsKept` |
| `LocationsProofs!DeadlocksAreOfDeletions` | `OnlyDeletionsDeadlock` |
| `LocationsProofs!SellsPastZeroOnlyBySwitching` | `OversoldBySwitchingOnly` |
| `LocationsProofs!UnitsComeBack` | `RestockedUnitsLand` |
| `WebhooksProofs!TypeCorrect` | `TypeOK` of the webhook deliveries |
| `WebhooksProofs!RepeatsExplained` | `RepeatsAreExplained` |
| `WebhooksProofs!WebhooksDeliver` | the webhooks module implements `EventDelivery` |
| `ParcelsProofs!ParcelsTypeCorrect` | `ParcelsTypeOK` of an order and its parcels |
| `ParcelsProofs!StatusIsOfItsParcels` | `StatusFollowsParcels` |
| `ParcelsProofs!NothingIsSentTwice` | `NothingShipsTwice` |
| `ParcelsProofs!DeliveredWhenParcelsAre` | `DeliveredWithItsParcels` |
| `ParcelsProofs!WhatIsOutWasAnnounced` | `AnnouncedIsOut` |
| `ParcelsProofs!TrackingIsOfParcels` | parcels under Shiprocket's posts and polls implement `ParcelsSpec` |
| `ParcelsProofs!TrackingTypeCorrect` | `TypeOK` of the tracking |
| `ParcelsProofs!RowsHideNothing` | `RowNeverAheadOfOrder`, where `Undated = FALSE` |

**Outbox.** A published row is one that every handler accepted. The step that
publishes knows only its own outcome, so the invariant says what an outcome is
worth (`OutcomesEarned`), that a worker holds claims of rows that were written and
claimed (`ClaimsBegun`, `AttemptsBegun`), and that an unwritten row has no mark
(`UnwrittenBlank`). Under it each step of `Next` is a step of `EventDelivery` or a
stutter; the `dead` status of the abstraction needs `AttemptsBegun`, because a repair
puts `attempts` back to 0 and the abstraction counts tries that are never given back.
The retry bound needs more: a row in circulation may be ahead of its budget only by
the last tries that other workers still hold (`BudgetHeld`, over the cardinality of
`LastTries`), by crashes, or by lost outcomes. That is why the bound in
`RetriesBounded` names the workers.

**Orders.** `Inv == StockOK /\ OrdersOK /\ HistoryOK /\ RefundsOK /\ RestOK`. The row
invariant `RowOK` makes `PaidOrdersHoldTheirStock` inductive with what one row can show,
and the link that is not in any row is in `RefundsOK`: a refund in flight is of an
order that has been paid once and so never waits again (`NoneWaitsAgain`, which each verb is
shown to keep). Without it, recording a refund could meet a pending order. Shelves have
lemmas of their own (`ReserveKeeps`, `CommitKeeps`, ..., `MoveCommittedKeeps`), each
saying that one statement of `inventory.go` keeps types and `NeverOversold`; each verb
has one lemma that puts them together.

**Sums.** What shelves, cards and ledgers must agree with is a sum over orders, returns,
refund rows or parcels. A sum over a finite set is a fold, and the lemmas of
`TotalsProofs` say of it what the proofs need: it is a number, one row more adds that row,
it changes by what one row or two rows change, it is 0 where every row is, a part is no more
than the whole. They rest on the two facts that define a sum (nothing sums to 0, one row
more adds itself), which are shown from the definition of the fold by taking a smallest set
on which they fail (strict inclusion is well founded on the subsets of a finite set).

**Orders, in sums.** `Books` adds to `Inv` that shelves and cards agree with the orders. One
lemma says what it takes for a step to keep it: the sums change only by the row of the order
it locks, and the shelf or the card changes by as much. Each verb is then shown to do that. What a row
adds to a sum depends on its status, so the rows need an invariant of their own,
`RowUnits`: nothing has left an order that was not confirmed, or was cancelled after, nothing
has come back to one that never sent it, and no card paid for an order that is not there. The
ledger is a sum over the refund rows (`RefundedIsTheLedger`). `RefundsReserveOnce` rests on
it: only `reserveRefund` raises the sum of pending and settled rows, by at most what
`refundRemaining` leaves of the total, and what it takes off as refunded is the settled sum.

**Stripe.** `FlightInv` says that a request on its way still has its pending row and
that one accepted was carried out. `AloneInv` is why keys do not repeat: while requests
come one after another nothing is left pending behind them, so the one that runs has
counted *every* settled row, and its number is larger than that of each of these; when
it is recorded as sent, or refused by Stripe, the count grows past it. Two that
overlap count the same, which is why the property is of those that do not.

**Stripe's events.** A delivery that is under way has its claim in the table, and no two
have the same (`EventsInv`); only it can take the claim out. That a recorded payment
stays is then a matter of each verb: `MarkFailed` refuses a paid order, whoever posts it
and when.

**Checkout.** The locks of a cart and of a code are facts about two requests at once, and
what they protect is a fact about the rows: a request between its lock and its commit
stands on a cart that is not converted, and one that has claimed the code stands on a
count below the limit. `CheckoutInv` ties the two, and says that the key's row and the
order agree, so that the unique index is what stops a second order. The count of a code's
uses is the cardinality of the orders that have it, hence `IsFiniteSet(OrderIds)` in
`CheckoutAssumption`.

**Locations.** `LocksExclude` says that no two sessions hold locks that exclude each other,
and `Sound` what a lock is worth: what its transaction has read of the place or the shelf
is still so. `Undisturbed` is the heart of it: a step keeps every other transaction sound
if it changes the sums of a shelf, the presence of a row, the openness of a place or the
default only where the other holds no lock that speaks of it. Each statement that writes
is then shown to hold the locks that exclude those (`Alone`). The invariant needs two
things that are not properties in themselves: a row that only its transaction knows is
empty (`MineIs`), and a transfer that is about to write still finds the row it takes from
(in `HoldsRows`). `NothingIsStranded` and `DefaultIsKept` follow from it one statement at a
time.

The other three need a second invariant on top of it, `CarefulInv`, which says more of each
transaction. `Decided`: the sum that its statement decided on (there is a unit to reserve,
a count covers what is promised, a transfer leaves as much) still holds when it writes. `Lands`: a row that
`ensureStockRow` found or made is there until its place is deleted. `Holds`: which locks it
may hold at each statement, no more. `OrdersApart`: no two transactions have one order.
That it is inductive takes what a step leaves of the others (`Untouched`), this time with
the rows that are there and the places that are gone. `OversoldBySwitchingOnly` then takes
`Decided` at each statement that writes, and `RestockedUnitsLand` takes `Lands` and
`OrdersApart`. `OnlyDeletionsDeadlock` is about what two sessions want and hold (`WhoWants`,
`Holds`): one that asks for its row holds nothing yet; one that takes it holds at most a
"key share" besides, which excludes no lock that a statement waits for; one that writes waits
only for who closes or deletes its place; `InOrder` puts the second row of a transfer after its
first (`SecondLast`); and of two defaults only one has made the old one stand down.

**Webhooks.** The store may post a row again only when it cannot know that it was accepted,
and `doubts` counts when that was so. That the count is enough is not inductive: between an
acceptance and its recording nothing is in doubt yet, and a claim may lapse under a worker
that has yet to post. `AcceptedOrDoubted` therefore counts the workers that hold a row, those
that have its answer and those that have yet to post it, by cardinality, once for a row that
may still be claimed and once for any row. Each step changes what one worker adds to these
counts, which `Fits` sets apart, so that the rest is arithmetic. The refinement needs what the
outbox's needs and is simpler, because one endpoint stands in the place of the handlers.

**Parcels.** `ParcelsInv` is the conjunction of the four properties and the types, with one
thing added, `NoneEmpty`: a live parcel, and a box about to be booked, holds something. Without
it an order could have all shipped with one empty parcel less, and `shipped` could come back
from a deletion with no parcel on its way. That an order's status follows its parcels needs,
and gives, what is out of each line: `StateIs` and `NothingOut` turn the two sums that
`shippingState` compares into a statement about lines, and a step changes the sum of a line
by one parcel's share (`OutChanges`). `Record` may come long after the order was read; that it
checks again under the lock is all that `NothingShipsTwice` rests on. `announced` is typed by
what is out, not the other way round, so types and sums are proved together.

**Shiprocket.** Each step of a worker is a step of the parcels or none of theirs, so the
theorems on parcels carry over. For `RowNeverAheadOfOrder` the invariant `DatedInv` says that a
waybill is one call's or one parcel's, that what is not recorded does not travel, that a
journey ends once, and that every status held by a worker, a row or a parcel carries the time of its
scan. The last word of a journey then has the latest time (`LastWord`): the engine refuses it only
when it has it already, and no later report of the parcel replaces it. With a worker that
is about to write a row (`saving`), the engine was told of what it writes (`TellsFirst`),
wherever a process dies. `Undated = FALSE` is a hypothesis of the theorem: a post
whose time cannot be read is stamped with the present, which may put an older scan over the
last one, and TLC then finds the row ahead of its order.

### Only model-checked

- Liveness (`EveryEventSettles`, `EveryDeliverySettles`, `ExpiredHoldsEnd`,
  `ChargedOrdersSettle`, `PollCatchesUp`): fairness and ENABLED are beyond this prover.
- `SameKeySameAnswer` and `AnsweredMeansHandled`, the two disagreements, which are
  counterexamples and need no proof.
- `RowNeverAheadOfOrder` where times cannot be read does not hold, and neither run nor
  theorem claims it.

## Not modelled, and why

`PROJECT.json` lists every component with its reason. In short: reference data
(catalogue, prices, taxes, shipping) changes in single statements and reaches the
models as amounts; identity, rights, settings, media, reports, exports and the panel have
no protocol among themselves; stores share no row of the models, so one is modelled;
text and layout of events, notifications and logs are left out. A line is a quantity
on a shelf, a basket costs one amount. Gift cards sold by lines that an edit adds or
removes, and the gateways that start a payment anew when a checkout is resumed
(`ResumePayment`), are named in the hazards and not in a module.

Most of the repository by size is of this kind: an HTTP layer, the panel, migrations,
text, and some thirty extensions that adapt an external service. What they have to get
right is in single functions, which the repository's own tests reach.

## Plan

1. The action property of the Stripe ledger (a settled row stays), and refinement of
   `Payments`' gateway by `StripeRefunds`.
2. What `Orders` calls an order's shipped units as the sum of `Parcels`' parcels: a refinement
   between the two.
3. Gift-card lines under edits; `ResumePayment`; the lease under which Shiprocket's
   bookings are made; the other gateways' webhooks.
