# GrooveShop orders: a TLA+ verification project

This directory holds the formal models of the part of the GrooveShop Django API
that moves goods and money: carts, stock and its temporary holds, checkout,
cancellation and refund, payments with Stripe and Viva, the courier's vouchers,
the tracking of parcels, loyalty points and invoices. The modules are translated
from the code; every definition that models code is mapped to its lines in
`PROJECT.json` ("map"). TLC checks small instances; TLAPS proves every safety
property of theirs for every value of the constants, some of them under
conditions that the theorem names.

    tlc -workers 2 -config checkout_one.cfg MCCheckout
    tlapm OrderPaymentProofs.tla

## 1. The system

The API is a Django project: gunicorn threads serve requests, Celery workers run
tasks that requests and webhooks enqueue on commit and that Celery beat starts on
a schedule (late acknowledgement: a message may run twice). The shared state is
PostgreSQL (READ COMMITTED, `ATOMIC_REQUESTS = False`) and a Redis cache, so what
matters is which statements of one handler are in one transaction, which rows
they lock, and what a handler still uses after the lock is gone or a provider was
called.

### Inventory

| part | code | state | operations | module |
|---|---|---|---|---|
| Stock manager | `order/stock.py`, `order/models/stock_*.py` | `Product.stock`, `StockReservation`, `StockLog` | reserve, release, convert to sale, decrement, increment, adjust, sweep | `StockManager` |
| Checkout and cancellation | `order/services.py` | `Order`, `OrderItem`, the above | create from cart (online, offline), consume stock, cancel, item refund | `Checkout` |
| Carts | `cart/views`, `cart/services.py`, `cart/serializers/item.py`, `core/tasks.py` | `Cart`, `CartItem` | create, add, drop, edit a line, merge at login, reserve, release, delete | `Storefront`, `Checkout` |
| Idempotency-Key | `core/middleware/idempotency.py` | Redis keys | reserve, replay, release, lapse | `Storefront` |
| Order lifecycle, Stripe | `order/services.py`, `order/signals/handlers.py`, `order/views/order.py`, `order/payment.py`, `pay_way/services.py` | `status`, `payment_status`, `payment_id`, marks in `metadata` | `update_order_status`, receivers, retry, hosted session, agent charge, poll, refund | `OrderPayment` |
| Viva Wallet | `order/views/viva_webhook.py` | `VivaWebhookEvent`, order | created, failed, reversal | `VivaWebhook` |
| ACS vouchers | `shipping_acs` | `AcsShipment`, `AcsPickupList`, claims | mint, cancel, retire, re-issue, pickup list, stale digest | `AcsVoucher` |
| Tracking | `shipping_acs`, `shipping_boxnow` | shipment rows, `BoxNowParcelEvent`, order | polls, parcel webhook, order transition, COD reconciliation | `Delivery` |
| Loyalty | `loyalty` | points ledger, XP, tier | award, bonus, redeem, reverse, restore, expire | `LoyaltyPoints` |
| Invoices, myDATA | `order/invoicing.py`, `order/mydata`, `order/tasks.py` | `Invoice`, counter, PDF, mail flag | number, render, submit, recover, cancel, mail | `Invoicing` |
| Periodic tasks | `order/tasks.py` | the above | sweep holds, cancel stuck orders; reminders, emails | in the modules above |
| The rest | `product`, `user`, `blog`, `search`, `notification`, `meta_capi`, `tenant`, `page_config`, `contact`, `tag`, `country`, `region`, `vat`, `admin`, `core` | | CRUD, search, reporting, routing | none |

How the parts meet: the cart endpoints make the holds a checkout converts;
checkout, entered through the Idempotency-Key middleware, calls the stock manager
several times inside one transaction and lets its commit hooks delete the cart;
Stripe's and Viva's receivers find the order that checkout committed and move it
on, asking the couriers for a shipment on commit; cancellation, by the customer
or by the beat task, returns to the stock manager, to the provider and to the
courier; the couriers' tracking moves the order through `update_order_status`;
an order that completes starts the award of points and the chain generate ->
submit -> mail of its invoice; one that is canceled or refunded starts the
reversal.

### What is hard here, and what must be true

* **Holds** are rows with a time, counted only while they are active; several
  operations and a sweep that reads first and updates later work on them. Active
  holds are on the shelf (`HoldsBacked`), the stock column never goes negative
  (`StockTypeOK`), a closed hold stays closed and keeps its order
  (`ClosedForGood`), every hold ends (`HoldsEnd`).
* **Checkout** matches duplicate, lapsed, overshooting and left-over holds with
  cart lines that other requests change, under row locks taken one by one, with a
  clock read twice. No unit is lost or sold twice (`Conserved`,
  `NothingInvented`), an order takes exactly its items (`TxInv`,
  `TakesTheBasket`), the whole transaction is one atomic sale
  (`ImplementsInventory`), every request is answered although transactions lock
  products in opposite orders (`RequestsEnd`).
* **Carts and keys.** A guest cart is merged at login by whichever requests come
  first; a checkout is sent again by an impatient client, a dead worker or a
  lapsed marker. What the shopper chose is sold once (`StoreIsSound`), a key makes
  one order per execution it was opened to (`KeyedOnce`).
* **Stripe.** Events are late, repeated and unordered; requests read the order,
  call Stripe, and write afterwards. The status follows the published transitions
  and nothing canceled is shipped (`ImplementsLifecycle`), a settled payment is
  not regressed (`WebhooksNeverRegress`), money that the receivers or a refund book
  on a canceled order is flagged (`ReceiptOnCanceledIsFlagged`; the agent's charge
  and the poll do not flag), a paid order is not canceled by the beat task
  (`AutoCancelSparesPaid`), a refund is asked for once (`RefundOnce`), one event
  ships once (`OneShipmentPerEvent`), a payment moves its order
  (`PaymentEventMovesOrder`), a refund reaches it unless its receiver swallowed an
  error (`RefundReachesOrder`).
* **Viva** delivers at least once and every event is verified by a call that may
  fail: effects happen once, and an event is acknowledged only with its row
  (`HandledOnce`), a failed attempt hides no payment (`FailureHidesNoPayment`),
  payments and reversals are booked in the end (`PaymentIsBooked`,
  `ReversalIsBooked`), but for payments that are refused for their amount.
* **Vouchers** are minted, canceled and listed in three phases around a call.
  Every parcel ACS holds is known (`AcsInv`), an order has one at a time
  (`OneParcel`), a canceled row has none (`CanceledIsDead`), a linked voucher is
  deleted or on its list or an earlier one (`LinkedIsOnList`), nothing stays
  claimed (`WorkEnds`), nobody is forgotten (`NobodyIsStranded`).
* **Tracking** reads outside the transaction that applies: the newest report is
  shown and told once per row (`ReportsInOrder`), the order says nothing untrue of
  its parcel (`ImplementsFulfilment`) and catches up with it (`OrderCatchesUp`).
* **Points** are booked by tasks that run late, twice or not at all beside the
  checkout: the ledger is right and never overdrawn (`LedgerIsRight`), an award is
  lost only where its task never reaches the broker after the commit or is dropped
  after its last retry (`AwardIsDue`), redeemed points come back
  (`RedemptionReturns`).
* **Invoices** are numbered without a gap, registered with AADE through a network
  that loses answers, and mailed once, but for attempts that are cut off after
  their e-mail left: `RegisterIsSound`, `MailedOnce`, `RegisteredIsMarked`,
  `InvoiceIsMailed`.

`PROJECT.json` lists the hazards at their lines, with the properties that cover
them; a "note" says what a property leaves open.

## 2. The modules

    Inventory            the promise of the stock side: atomic sale, cancellation, return
      ^ implemented by
    Checkout             transactions of request threads, row locks, cart edits
      | extends
    StockManager         the operations of the class, the sweep, the clock
      | extended by
    Storefront           carts, login, checkout behind the Idempotency-Key middleware

    OrderLifecycle       the promise of all entrances to an order
      ^ implemented by
    OrderPayment         one order, Stripe, the receivers, the requests, the tasks
    VivaWebhook          one order, Viva, the webhook requests, poll and refunds

    AcsVoucher           shipment rows, mint messages, cancellations, pickup lists, ACS
    Fulfilment           the promise of following a parcel
      ^ implemented by
    Delivery             polls, parcel webhooks, COD payouts of one order

    LoyaltyPoints        one customer's ledger
    Invoicing            the register, AADE's book, the task chain

    MC<module>           the instances for TLC
    ShopProofs           the theorems of StockManager, Checkout and Storefront
    OrderPaymentProofs, VivaProofs, AcsVoucherProofs, DeliveryProofs,
    LoyaltyProofs, InvoicingProofs
                         the theorems of the others
    Sums                 lemmas about finite sums

### StockManager

State: `stock` (`Product.stock`), `res` (the `StockReservation` rows, by key),
`sweep` (the ids a running cleanup has read). `StockLog` is an audit trail that
nothing reads back, and is left out. Each operation of the class is one
transaction that locks its rows first, hence one action: `ReserveStock`,
`ReleaseReservation`, `ConvertReservationToSale`, `DecrementStock`,
`IncrementStock`, `AdjustStock`. A refused call changes nothing and has no action.
`cleanup_expired_reservations` locks nothing: `CleanupRead` is its SELECT,
`CleanupWrite` its UPDATE by id, whatever became of those rows in between (that
both are in one transaction changes nothing under READ COMMITTED). One sweep runs
at a time, as the hourly schedule makes it.

A hold carries the time it has left instead of `expires_at`, since the code only
compares `expires_at` with now. Three cases remain: active (`left > 0`), exactly at
the boundary (`left = 0`: neither active nor expired), expired (`left < 0`).
`Grain` is how far one tick goes; with `Grain = 2, TTL = 1` the clock steps over
the boundary. `HoldsBacked` excludes that one instant: a hold read exactly at
`expires_at` is not counted by the queries (`expires_at > now`) and is not expired
either (`now > expires_at`), so its units can be sold and its own conversion still
take another hold's.

### Storefront

Extends `StockManager` with what one shopper does. `live` are the Cart rows and
`used` the UUIDs ever given out; `line[s][p]` is the quantity of a product in a
cart; `made` the orders; `cache` the middleware's entry of a key; `tab[t]` what a
running request has read. `asked` and `slips` are history: what the shopper put
into carts, and how often a key was opened to another execution.

* Carts: `CreateCart`; `AddBegin` (the serializer compares the new total with the
  shelf) and `AddEnd` (the upsert, with whatever is there then); `DropLine`;
  `DropCart` (the shopper, or a cleanup task finds a guest's cart too old).
* Login: `MergeBegin` finds both carts without a lock, `MergeLines` locks the
  lines of the guest cart and those they are added to, `MergeCommit` moves or
  combines them (`Combined`: capped at the shelf, never emptied) and deletes the
  guest cart, once no other merge has one of its lines locked (the delete
  cascades to lines added since); `Refused` is the unique constraint that rolls it back.
* `ReserveCart`, `ReleaseOwn`: holds are made for the cart's UUID and released by
  who has that cart, or the account (`Owned`).
* Checkout: `Post` reserves the key (a marker or an answer turns the client away);
  `Place` is the whole transaction of `create_order_from_cart(_offline)`, whose
  steps are in `Checkout`; `Refuses` a 400; `Breaks` an error before the commit;
  `Hooks` the `on_commit` hooks, `HookRaises` one that fails after the commit (the
  order stays, the key opens); `Answer`; `Dies`; `Lapse` the marker's minute.
* `Paid`: the hosted payment completes and `order_paid` deletes the cart.

Abstractions: changing the quantity of a line is in `Checkout` (`EditBegin`,
`EditWrite`); an add that found its row before a merge moved it lands on the line
as it is afterwards; the middleware's get and add are one step, since an add that
loses is answered like a marker; the scope of a key stays the same; whether the
order is paid later is chosen when it is placed.

### Checkout and Inventory

`Checkout` extends `StockManager` with request threads. A thread's uncommitted
writes are in its record `tx[w]`: `move` (stock by product), `sold` and `freed`
(holds), `owed` (what it still has to take or put back), `basket` (the items of
the order), `snap` (the holds it read). Commit applies them at once, which is
what READ COMMITTED shows to the others. `lock[p]` is the row lock of a product.

* Checkout: `BeginCheckout` (lock the cart row, validate, amount check) ->
  `ReadHolds` -> `PickLine`/`LockLine` for each line (the second read; FOR UPDATE
  of the join locks item and product) -> `PlaceItems` -> the loop of
  `_consume_stock_for_order`: `NextProduct`, `FreeHold`, `PickHold` +
  `ConvertHold`, `TakeShortfall` -> `CommitCheckout`; `ConvertRaises` and
  `ShortfallRaises` roll back. The online and the offline function run the same
  steps; the order in which the loop visits the products and holds is left open.
* Cancellation: `BeginCancel` -> `RestockItem` for each item -> `CommitCancel`.
* Cart: `BeginReserve`, `ReserveLine`/`LineRefused`, `UndoLine`,
  `ReserveAnswered`; `ClientRelease`; `EditBegin`/`EditWrite` for an update whose
  request has passed its write of the Cart row before the checkout locks it.
* `Deliver` and `RefundItem` (under the item's lock), `SweepStep`, `TickStep`.
* PostgreSQL: `Deadlocked` finds a cycle of waiting transactions;
  `CheckoutVictim` rolls a checkout back, `CancelVictim` rolls one savepoint of a
  cancellation back. `Victims` says which may be picked: PostgreSQL may pick any
  member of the cycle.

`Inventory` knows neither holds nor locks: `Sell` takes a whole basket that is on
the shelf, `Cancel` puts a whole basket back, `HandOver`, `TakeBack`.
`ImplementsInventory` says `Checkout` implements it with `stock` and `orders`
mapped to themselves.

Abstractions: one order item per product (the code merges the lines of one
product, `CartItem` is unique per cart and product); the product's lock also
stands for its hold rows (every statement that locks a hold locks its product in
the same call, but not always first); the loyalty redemption step, prices and
addresses are left out; of the order's states only those the stock depends on are
kept (pending, canceled, delivered).

### OrderPayment and OrderLifecycle

One order and a few PaymentIntents. `status`, `pay`, `pid` are the columns,
`flagged` is `metadata["payment_after_cancel"]`, `done` the
`webhook_processed_<event>` marks, `shipments` counts dispatches of the courier
task, `refunds` the refunds `refund_order` asked for. `charge`, `back`, `sent`,
`inbox` are Stripe's: the state of an intent, how much it refunded, the events
created and those still delivered. `call[c]` is what a running request has read.

* Receivers hold the row lock from lookup to commit and are one action each:
  `OnSucceeded`, `OnFailed`, `OnRequiresAction`, `OnChargeRefunded`,
  `OnCheckoutCompleted`; `Ignored` is the delivery that is acknowledged and
  changes nothing (no such order, already marked). `Deliver(e, again)` removes
  the event from `inbox` or leaves it there to be delivered again; the order of
  delivery is free.
* `Swallows` is a receiver that fails: those of failed payments, actions, refunds
  and sessions end in `except Exception` that only logs (lines 1004, 1097, 1215,
  1506), so their writes roll back and the event is acknowledged (`swallowed`).
  `handle_stripe_payment_succeeded` raises instead, and is delivered again.
* Requests that read, call Stripe and write later are two or three actions:
  `PlaceCheck`/`PlaceCommit`, `RetryCheck`/`RetrySave`/`RetryLock`,
  `AgentCheck`/`AgentLock`, `PollRead`/`PollAsk`/`PollWrite`,
  `RefundRead`/`RefundLock` (or `RefundLost`, a crash after Stripe's answer),
  `AutoCancelSelect`/`AutoCancelLock`.
* `CustomerCancel`, `UpdateOrderStatus` (staff and couriers),
  `CreateCheckoutSession` are one action each.

`Entrances` names what may happen at all, so that a run can look at a question
without the rest and a theorem can say on which entrance a property depends.
`OrderLifecycle` keeps only the status graph and the shipments.

Abstractions: the order is paid through Stripe from the start; each intent
creates each kind of event once; an agent charges once (the code's idempotency
key) and the replay of that answer is left out; `checkout.session.expired` and
`charge.dispute.created` write metadata only and are left out; amounts are units
of a partial refund; emails, history rows and WebSocket messages are left out.

### VivaWebhook

One order and the transactions of its hosted sessions. `txn` is what really
became of each at Viva, `sent` the events it has to tell and `acked` those it was
answered 200 for; `rows` are the `VivaWebhookEvent` rows, `applied` counts effects.
A request looks for the row (`Receives`), waits for the order's lock, looks again
(`Duplicates`) or asks Viva while it holds the lock (`Verifies`), then `Commits` or
`RollsBack`. `get_payment_status` answers an API error with FAILED
(`order/payment.py:857-925`), so for a payment's event a failed call is an answer
that is not "F"; for a failure or a reversal it is answered 500. A payment whose amount
is not what the order costs by then (`AmountDiffers`: staff edited its items,
`EditsItems`) is refused, its row written and 200 answered. `missed` and `refused`
are history: the payments whose event was recorded without being booked, because
the call failed or because of the amount. Beside them: `RefundsOrder`,
`AutoCancels`, the poll of the order page (`CheckAsks`, `CheckSaves`). The checks
of address and signature come before all this and are left out; of the amounts
only whether the two are the same is kept.

### AcsVoucher

Rows of shipments (`row`), their orders (`order`), mint messages (`task`),
cancellations (`cancel`), pickup-list runs (`issue`), the locks and claims, and
ACS's own truth (`acs`, `lists`) that the shop only learns of through answers.
`lost` are numbers that died with a worker, a timed-out answer or a transaction
that lost a deadlock.

* Mint: `MintClaim` stamps the row, `MintCall`/`MintFails`/`MintAnswerLost` is the
  call, `MintSave`/`MintDuplicate` the third phase, `MintAdvance` moves the order,
  `MintRelease` gives the claim back (whoever holds it), `MintCrash` and
  `MintClaimLapses`; `Retry` is Celery's.
* Cancellation by staff (`StaffCancel`: three transactions) and with the order
  (`OrderCancel`: one transaction whose locks last through the call), then
  `CancelCall`, `CancelFails`, `CancelAnswerLost`, `CancelSave`, `CancelCrash`.
* `Reset` and `Retire` by staff; the pickup list `IssueBegin`, `IssueCall`,
  `IssueSave`; the digest of stale rows `DigestClaim`, `DigestSend`.
* PostgreSQL: the mint and the staff's cancellation lock the shipment row and
  then its order, `cancel_order` the order and then the row. Where one of either
  kind is at its locks (`RowFirst`, `OrderFirst`), one may be failed:
  `MintDeadlock`, `CancelDeadlock`, or the refused cascade of `OrderCancel`.

Pickup lists are numbered in the order in which ACS issues them. A run reads its
candidates before the call and links them after it, while ACS puts every voucher
it has on the list: one minted in between is on a list its row is not linked to,
and the next run links the row to its own. So a linked row's voucher is on that
list or on an earlier one.

A claim has three values: none, fresh, and past its TTL. `SlowCalls` says whether
a call may outlast its claim; when FALSE the claim of a running call stays fresh
(the HTTP client times out before five minutes).

### Delivery and Fulfilment

One order, its parcel, one carrier (`carrier`), prepaid or cash on delivery
(`cod`). `trail` is the parcel's own history; the time of an event is its place in
it. `PollReads` keeps what the answer held, `AcsPollApplies`/`BoxNowPollApplies`
apply it later; `HookArrives`/`HookApplies` are the parcel webhook; `Reported` is
`_apply_order_status_transition` with its hop through SHIPPED; `PayoutReads`,
`PayoutMarks`, `PayoutAdvances` the COD reconciliation; `MintSaves`,
`MintAdvances`, `MintCut` the end of the mint. `Fulfilment` knows only the order
and what happened to the parcel: a status needs its grounds, cash counts once the
parcel was handed over. `Delivery` implements it with `happened` mapped to the set
of events in `trail`.

### LoyaltyPoints

One customer. The ledger's rows are summed by order and kind (`earned`,
`redeemed`, `restored`, `reversed`, `bonus`), since nothing reads single rows but the
expiry markers (`marked`). `due` are the tasks of transactions that have committed
and whose `on_commit` callback has not run; `Queues` is the callback, `GoesUnsent`
the process or the broker that fails there. `queue` holds the tasks that are not
acknowledged, `worker` what an award task has read, `web` what a redeem request
has. An attempt that raises is tried again or, after the last retry, dropped
(`Fails`; attempts are not counted, any may be the last). `lost` is history: the
orders whose award was lost in one of these two ways. `user` is XP and tier, which
the code changes from an instance read before the lock (`Recalculated`).
`Completes` and `Cancels` move the order and leave a task, `RefundsOrder` is
`order_refunded`, which leaves its status alone and may come again.
`Lists`/`Expire` are an expiration run.

### Invoicing

`row` is the invoice, `next` the counter, `aade` the authority's book, `file` the
PDF, `flag` and `copies` the mail. Tasks are messages with their attempts so far
(`Again`). `Looks` -> `Allocates` -> `Renders` is `generate_invoice`;
`Forces`/`Redoes` -> `Rewrites` -> `Rerenders` the forced one, which writes back the
row it read; `Submits` -> `Intends` -> `Sends` -> `Confirms`, `Rejects`,
`Resubmits` or `Recovers` the submission; `Cancels` -> `Annuls` -> `Voids` the
cancellation; `Reserves` -> `Delivers` -> `Acks` the mail. `Fails` are the faults,
`faults` counts each kind. An attempt to mail may also fail after its copy left
(`FailsLate`: the mail server's answer is lost, or `OrderHistory.log_note` raises)
and is then retried without a look at the flag, and so is a retry whose worker is
lost; `cut` is history and counts both.

The chain starts with the task delivered to its queue, and one task hands over to
the next as one step: a message that the broker refuses is left out here, as it is
for the courier's messages in `AcsVoucher` and `Delivery`.

## 3. What TLC checks

Distinct states as TLC counts them.

| run | instance | states | properties |
|---|---|---|---|
| `checkout_one` | 2 products (2 and 1 on the shelf), 2 threads, 2 holds, duplicates, lapse, cancel, refund | 319,260 | `Conserved`, `HoldsBacked`, `TxInv`, `ClosedForGood`, `ImplementsInventory` |
| `checkout_two` | 2 carts over 2 products, one unit each, lines dropped during checkout, opposite lock orders, any victim | 159,744 | `TakesTheBasket`, `NothingInvented`, `RequestsEnd` |
| `storefront` | 1 guest, 1 account, 2 requests, 1 key, 2 orders, 1 fault | 194,911 | `StockTypeOK`, `StoreIsSound`, `KeyedOnce`, `HoldsEnd` |
| `pay_webhooks` | 1 intent, receivers that may fail, cancel, two clerks, dashboard refunds, beat task, crash | 158,113 | `RefundOnce`, `WebhooksNeverRegress`, `ReceiptOnCanceledIsFlagged`, `AutoCancelSparesPaid`, `PaymentEventMovesOrder`, `RefundReachesOrder` |
| `pay_requests` | 2 intents: receivers that may fail, retry, hosted session, agent's charge, poll, cancel, staff | 878,617 | `OneShipmentPerEvent`, `ImplementsLifecycle` |
| `viva` | 2 transactions, 2 requests, 1 fault, 1 edit of the items | 379,194 | `HandledOnce`, `FailureHidesNoPayment`, `PaymentIsBooked`, `ReversalIsBooked` |
| `viva_outage` | 1 transaction, 1 request, 1 fault | 272 | `OutageLosesNoPayment`, violated |
| `acs_vouchers` | 1 shipment, 2 vouchers, 2 messages with a retry, 2 cancellations, re-issue, digest, 1 fault | 424,910 | `AcsInv`, `CanceledIsDead`, `NobodyIsStranded`, `WorkEnds` |
| `acs_pickup` | 2 shipments, 3 vouchers, 2 lists, 1 issuer, 3 messages, retirement, 1 fault | 2,306,157 | `OneParcel`, `LinkedIsOnList` |
| `delivery` | both carriers, 2 polls, 2 webhooks, 3 events, 1 crash | 382,405 | `ReportsInOrder`, `ImplementsFulfilment`, `OrderCatchesUp` |
| `loyalty` | 2 orders, 2 workers, 1 redeem request, 1 expiration run, 1 task between commit and broker, 1 fault | 1,901,045 | `LedgerIsRight`, `AwardIsDue`, `RedemptionReturns` |
| `invoicing` | 2 orders, staff act on one, 2 workers, 1 retry, one fault of any of six kinds | 441,176 | `RegisterIsSound`, `MailedOnce`, `RegisteredIsMarked`, `InvoiceIsMailed` |

Every property of a passing run has a mutant: a definition that models code is
replaced by a plausible bug, written next to it in the module and marked
"Mutant:", and TLC finds the property violated.

### A disagreement between the code and its own words

`viva_outage`: a `RuntimeError` is "Raised by _handle_payment_created when Viva's
verification API is unreachable. Returning 500 signals Viva to retry the webhook"
(`order/views/viva_webhook.py:678-681`). But `get_payment_status`
(`order/payment.py:857-925`) turns every HTTP error and exception into FAILED; the
handler takes the "not completed, skipping" branch, records the event and answers
200. A payment Viva captured while its own API failed is never booked.

### Known deviations

Met while modelling; each is in the model, and the properties are stated so that
they hold beside it.

* Checkout: the lines are read again after validation, so the order may be made of
  lines nobody compared with the payment; a cancellation that PostgreSQL picks as
  the deadlock victim commits without the item's stock; a hold that lapses between
  two readings of the clock fails a checkout the shelf covers.
* Carts: a late payment deletes the cart the user has now (`_clear_cart_for_order`
  says "the cart the order was built from"); a line added to a guest cart during
  its merge is deleted with it; a key is opened again when an `on_commit` hook
  raises after the commit, and a slow request's answer overwrites or drops its
  successor's entry.
* Stripe: the unpaid branch of `checkout.session.completed` writes PENDING over a
  settled payment; a retry overwrites a payment recorded after its check; a refund
  answered `pending` is stored as PROCESSING and opens the guard for a second one;
  an event that overtakes the commit of its payment-first order is acknowledged and
  lost; an error in the receivers of failed payments, actions, refunds and sessions
  is logged and the event acknowledged, so a refund it told of never reaches the
  order; the agent's charge and the status poll write COMPLETED on a canceled order
  without the flag `payment_after_cancel`; both events of a hosted session dispatch
  the (idempotent) shipment task.
* Viva: the outage above; a captured payment whose amount differs from the order's
  present total is refused, recorded as processed and answered 200, so nobody books
  it or sends it back; a status poll that fails, or answers before a refund it
  is saved after, writes FAILED or COMPLETED over a settled payment.
* ACS: the third phase of the mint does not look at the order, so a canceled order
  can get a voucher; `_release_mint_claim` drops any holder's claim; a non-final
  tracking state moves back; a digest worker that dies leaves its rows claimed;
  the loser of a deadlock with a cancellation is not retried, and a number it had
  is lost; a row may be linked to a later pickup list than its parcel is on; a
  row reset for re-minting while a mint or a pickup-list run works on it gets two
  parcels, or is linked to a list that its new parcel is not on.
* BoxNow: an event the poll recorded first is told again when its webhook comes.
* Loyalty: overlapping expiration runs take one award twice (never more than the
  balance); the tier is recomputed from an instance read before the lock; a
  reversal takes only what the balance has; a task that is not sent after the
  commit, or fails its last retry, is never made up for, so its award, or the
  points it would give back, are lost.
* Invoices: a forced generation writes back the row it read and can overwrite a
  MARK; after a retry the mail flag is never released; a re-rendering that fails
  has already deleted the stored PDF; an attempt to mail that raises after
  `msg.send()`, or a retry whose worker is lost there, sends the invoice again,
  although "a retry or a re-fired `order_completed` signal doesn't re-send"
  (`order/tasks.py:1189-1190`); a worker lost between the flag and the mail leaves
  the order without one.

### Bounds

* `checkout_*`: 2 threads are what a lock cycle needs; 2 units, 2 holds and
  quantities 1 and 2 give a hold that fits, one that does not, a duplicate, a
  lapsed and a closed one. `MaxStock` bounds corrections. A cancellation is never
  the victim in `checkout_one` (`Conserved` and `ImplementsInventory` state what
  holds otherwise); it may be in `checkout_two`.
* `storefront`: one unit is enough for two merges of one cart, two checkouts of one
  key and a sale that outlives its cart; `AdminDeltas = {1}` refills the shelf for
  the second order. With one unit no line is in both carts of a merge, so the cap
  of `Combined` is not reached; the theorems
  hold for any quantity and any number of faults.
* `pay_*`: 1 or 2 intents, 1 or 2 requests at a time, `Amount` 2 where a partial
  refund matters. Stripe settles refunds at once (`Prompt`).
* `acs_*`: one shipment and two vouchers are what a duplicate mint and a re-issue
  need; two shipments and two lists what a link can confuse. One issuer: a fault
  ends its run and the next one meets what it left behind; the theorem has any
  number. One fault: the
  properties name what a fault costs, and a second one adds cost, no new kind.
  Calls keep within the claim's TTL.
* `delivery`: three events give a report that overtakes another and a third that
  closes; two polls overlap; ACS polls on both, BoxNow on one (its polls are a
  quarter of an hour apart).
* `viva`: two sessions, so that a payment of one meets a refund of the other; one
  edit of the items (`MaxEdits`) makes a session ask for another amount than the
  order costs.
* `loyalty`: `Multiplier = 2` and `TierXp = 1` let the first award change the rate
  of the second; `Opening = 1` is what a redemption can spend before any award. One
  committed transaction at a time waits for its callback (`MaxDue`), and one fault
  in all (`MaxFaults`). One redeem request meets the checkout's own redemption; two
  that race, runs that overlap and further faults are left to the theorems, which
  have any number of each.
* `invoicing`: one fault in all (`MaxFaults`), of any kind, and one attempt after
  the first. The safety theorems hold for any number of both; the liveness
  properties are claimed for these bounds only, since a second fault can use up the
  attempts.
* Deadlock is checked for checkout. Elsewhere the system comes to rest (everything
  delivered, every order placed), so those runs say `CHECK_DEADLOCK FALSE`.

### Fairness

* `Storefront!FairStoreSpec`: weak fairness of the clock and of the sweep (Celery beat,
  `settings.py`, every hour). No request need go on.
* `Checkout!FairSpec`: strong fairness of each thread's own steps. A request in a
  worker keeps running, and PostgreSQL grants a row lock in the order in which it
  was asked for, so a thread that can get its lock again and again does get it.
  Starting a request is not fair: nobody has to check out.
* `OrderPayment!FairSpec`: weak fairness of delivering each event for good (Stripe
  retries for days until it is acknowledged) and of the steps of a request that
  has begun. Nothing is assumed of shoppers, staff, refunds, the beat task's start
  or the order's creation.
* `VivaWebhook!FairSpec`: of the requests in hand some worker goes on, and what was
  not answered 200 comes again; no single event or request is favoured.
* `AcsVoucher!FairSpec`: workers take and finish their messages, requests run to
  their end, claims and the list's key pass their TTL, beat runs the digest.
* `Delivery!FairSpec`: Celery runs what it was given, beat polls what is not final,
  ACS remits what it collected. Webhooks, staff and parcels owe nothing.
* `Invoicing!FairSpec`: some worker takes a step while there is one.

## 4. What is proved

TLAPS checks every theorem below for all values of the constants that satisfy the
named assumptions: any number of threads, orders, vouchers, requests and faults.

**Sums.** Stock, order items and points are added up with `SumFunctionOnSet`,
which recurs over the subsets of a set. Induction over sets is out of reach of
the provers, so the lemmas rest on a minimal counterexample instead
(`LeastSubset`: a non-empty set of subsets of a finite set has a least element).
They say that a sum of integers is an integer, that any term may be set apart
(`SumApart`), that a sum changes by what one term does, and that more and
greater terms add up to more.

**ShopProofs** (from `StockConstants`, `NoRow`, `CheckoutConstants`,
`NoOrderRow`, `StorefrontConstants`, `NoSale`) has three parts.

*The stock manager.* `StockTypeCorrect`: the type invariant is inductive; the
part that says something is that `DecrementStock` and `ConvertReservationToSale`
check before they subtract and `AdjustStock` floors, so stock stays a natural
number whatever the callers pass. `StockClosedForGood`: from the type invariant
every action leaves closed holds closed with their order; `CleanupWrite` needs
`sweep` to name existing rows.

*Checkout.* Its properties are not inductive: whether a commit is safe depends on
who else may write the same rows. The inductive invariant `CInv` is about
ownership. For each thread: its record has the shape of the place it is at
(`Shape`); the holds it has sold or freed are open and of products it has locked
(`OwnsHolds`); what it has moved is of products it has locked and leaves the shelf
at or above zero (`OwnsStock`); its order is nobody else's, and not there yet or
still PENDING (`OwnsOrder`). A step of one thread leaves the others' claims alone
(`OthersKept`, `ClaimsKept`). Three more invariants stand on it:

* `Ledgers`: what a thread owes and what it has moved add up to its order at
  every step of the loop; of a cancellation, to no more than the order.
* `Settled`: a pending order has no refund, so a cancellation that puts its items
  back puts nothing back twice.
* `Backing`: the units of a product's active holds are on the shelf, also without
  the holds a thread has taken and the units it has moved. The second half is what
  lets a commit close holds and take stock at once.

| theorem | property | condition | argument |
|---|---|---|---|
| `CheckoutTypeCorrect` | `TypeOK` | | at a commit the shelf covers what was moved, under locks still held |
| `CheckoutOwnsWhatItMoves` | a part of `TxInv` | | `OwnsStock` |
| `CheckoutClosedForGood` | `ClosedForGood` | | what a commit closes is open (`OwnsHolds`); the rest is `ClosingStep` |
| `CheckoutTakesTheBasket` | `TakesTheBasket` | | `Ledgers` when nothing is owed |
| `CheckoutInventsNothing` | `NothingInvented` | | shelf and orders change by what the commit moved; `Ledgers`, `Settled` |
| `CheckoutKeepsBasket` | `TxInv` | no cancellation is a victim | `Ledgers`, with equality for a cancellation |
| `CheckoutConserves` | `Conserved` | no cancellation is a victim | the same sums, with equality |
| `CheckoutImplementsInventory` | `ImplementsInventory` | no cancellation is a victim | at a commit nothing is owed, so it is `Sell` or `Cancel` with the whole basket |
| `CheckoutHoldsBacked` | `HoldsBacked` | the clock never stops at a hold's very end | `Backing` |

"No cancellation is a victim" is `"cancel" \notin Victims`: `cancel_order`
swallows the deadlock error and commits without the item's stock, so these three
are false otherwise. The clock's condition is that `TTL` is no multiple of `Grain`:
then no hold is ever at `left = 0` (`Clocked`), the instant described under
StockManager at which `HoldsBacked` is false.

*Storefront.* `SInv` has the two properties and what they need of the requests
under way. `StorefrontIsSound` (`StoreIsSound`): what
is in carts and what orders have sold is together no more than the shopper asked
for. What a merge has read of the lines it
locked is still so (`Merging`), and no two merges lock one line (`Exclusive`), so a
line is moved once. `StorefrontKeyedOnce` (`KeyedOnce`): the orders of a key, the
requests at work on it and its open entry are together no more than one and the
times it was opened again (`Entitled`): each step hands one such right on, and
only a lapse or a failed hook makes another. `Room` says that a request at work
still finds an unused order row. `StorefrontNeverOversells` is `StockTypeOK` for
the whole of it.

**OrderPaymentProofs** (from `PaymentConstants`). `PaymentTypeCorrect` is
inductive as stated; the parts about `call` are what the others need.
`PaymentImplementsLifecycle` needs `Placing`: one request creates the order, and
only while there is none. It maps each action to a step or a stutter of
`OrderLifecycle`. `PaymentShipsOnce` needs `Shipped`: as many marked payment
events as shipments; a delivery that ships marks an event that was not marked. The
other theorems say on which entrances a property depends:

| theorem | property | condition | otherwise |
|---|---|---|---|
| `WebhooksKeepSettled` | `WebhooksNeverRegress` | no unpaid hosted session | its branch writes PENDING without a guard |
| `ReceiptsAreFlagged` | `ReceiptOnCanceledIsFlagged` | no agent charge, no poll | both write COMPLETED without looking at the status |
| `AutoCancelNeedsNoPayCheck` | `AutoCancelSparesPaid` | no agent charge, no poll | a charge recorded after the query leaves the status PENDING, and the task cancels a paid order |
| `RefundsAskOnce` | `RefundOnce` | no retry, poll, agent, unpaid session; refunds settle at once | each of them can take the record of a refund back |

`AutoCancelNeedsNoPayCheck` rests on `BeatWaits`: while the beat task holds what
it selected, a paid order is no longer PENDING. `RefundsAskOnce` rests on
`OnRecord` (a refund that was asked for is written in `payment_status`, which no
step takes back) and `RefundsFind` (a request that read a paid order names the
intent that paid).

**VivaProofs** (from `VivaConstants`). `VInv` is `HandledOnce` with two facts:
what Viva tells is true of the transaction and stays so (`SentIsTrue`), and a
payment is only booked or asked about under the transaction that made it
(`PaidIsNamed`). `VivaHandlesOnce` (`HandledOnce`) follows; its inductive part is
that the request past the second look is the one that holds the order's lock, and
that its event has no row yet: the look before the lock proves nothing.
`VivaShowsPayments` (`FailureHidesNoPayment`) adds `Unfailing`: while no call
fails, what the order's payment names was paid at Viva, a poll never reads FAILED,
and what the lock's holder read is still true.

**DeliveryProofs** (from `DeliveryConstants`). `DInv` is `ReportsInOrder` with
what readers hold: an answer in hand is a part of the history (`ReadsWereThere`),
nobody reports on a parcel the row does not know (`NothingEarly`), a payout is of
cash ACS collected and nobody else books it (`PayoutIsOfCash`), an order was
delivered only when the parcel was (`ShownHappened`). From it
`DeliveryReportsInOrder` and `DeliveryImplementsFulfilment`: each report, however
late, is a step or a stutter of `Fulfilment`.

**AcsVoucherProofs** (from `CourierConstants`). `VouchersStayAccounted` (`AcsInv`)
holds also when calls outlast their claims; it needs that a worker holds a number
only between ACS's answer and the row, and one that ACS issued for its shipment
(`HandsHold`). `CanceledHoldNoParcel` (`CanceledIsDead`) assumes `~SlowCalls` and
no retirement by staff, and needs that a cancellation under way is about the
voucher its row still has (`CancelHolds`) and is the only one (`OneCancels`): the
claim or the lock it took keeps every other out, `CanceledIsDeleted` being what
its end leaves behind. `MintsOneParcel` (`OneParcel`) assumes `~SlowCalls` and no
re-issue by staff: a mint that works on a row has the row's fresh claim, and there
is no second one (`MintsAlone`). `LinkedStaysOnList` (`LinkedIsOnList`) assumes no
re-issue either, but nothing about slow calls: what a run has read was issued
before its list, and ACS takes nothing back (`RunsAreBehind`, `RowsAreBehind`). It
does not use that one run goes at a time.

Both exclude the reset for re-minting, which TLC shows to break them: it takes a
row from whoever still works on it. A mint that was under way when staff canceled
the row meets the re-issue's (two parcels; the second answer is put on record as
an orphan), and a run that had read the row links the new voucher to a list issued
before it. `acs_vouchers` has the reset in, for the properties that hold beside
it.

**LoyaltyProofs** (from `LoyaltyConstants`). `LInv` is `LedgerIsRight` and
`AwardIsDue` with `Booked`, what is not there yet: an order that is not awarded has
neither points nor a bonus, one that is not checked out no redemption, and one
worker at most stands between the award of an order and its bonus. Each writer
then moves the balance and the XP at one order, by what it read under the
customer's lock. `LoyaltyLedgerIsRight` and `LoyaltyAwardIsDue` are its parts;
`LoyaltyRedemptionReturns` (`RedemptionReturns`) is a step from it. Any number of
faults may happen. What `LoyaltyAwardIsDue` says is that the callback after COMMIT
and the last retry are the only places where an award is lost: a worker that dies,
a task that runs twice, a reversal that overtakes and any order of the others
leave the task due or queued until the EARN row is there.

**InvoicingProofs** (from `InvoicingConstants`). `RegisterStaysSound`
(`RegisterIsSound`): a number once on a row stays and AADE forgets nothing
(`GoesOn`), so what a worker read before a call or a lock may be old, but is of the
same number and its MARK is still registered (`WorkerOk`, `Sound`); the numbers
given are those below the counter, each once (`NoGaps`); one worker at a time
renders under the counter's lock (`OneRenders`). `MailedAtMostOnce`
(`MailedOnce`): an order has at most one worker at its mail or one repeat of it in
the queue, never both, and that one stands under the flag and, until its own copy
has gone, has no copy behind it that no attempt was cut off for (`MailOk`,
`Settled`). So the copies are at most one more than the attempts cut off after
theirs had left. Both theorems hold for any number of faults.

**Only model-checked.** Liveness (`HoldsEnd`, `RequestsEnd`,
`PaymentEventMovesOrder`, `RefundReachesOrder`, `PaymentIsBooked`,
`ReversalIsBooked`, `NobodyIsStranded`, `WorkEnds`, `OrderCatchesUp`,
`RegisteredIsMarked`, `InvoiceIsMailed`): it needs fairness and ENABLED, which the
prover does not do. Every safety property of the passing runs has a theorem.

## 5. Plan

Next, in this order.

1. Theorems with weaker conditions: what `Conserved` becomes when a cancellation
   is the victim, `OneParcel` beside a re-issue, `RefundOnce` beside a poll.
2. **RowLocks**: product and hold rows as separate locks (reserve and decrement
   lock product then holds, release and convert the other way round), refined to
   the locks of `Checkout`; which requests can fail with a deadlock error.
3. **ConfirmationEmail**: confirmation, reminder and re-engagement mails, sent by
   tasks that read, send and mark.
4. **BoxNowRequests**: the delivery request (claim, call, save), its cancellation
   and its retries, beside `AcsVoucher`.
5. `OrderPayment` composed with the stock side: staff cancellation without
   restock, admin edits of items of canceled orders.

## 6. Not modelled

* Catalogue, search, blog, users, notifications, reporting, page configuration
  and the admin screens: CRUD or I/O whose state no other part depends on.
* Prices, currencies, taxes, discounts and shipping costs: arithmetic that the
  properties do not tell apart.
* Multi-tenancy: each model stands for one tenant's schema.
* PayPal: the provider is a stub in the code.
* Admin edits of `Product.stock` on the product form, which bypass the stock
  manager; corrections through an order item's quantity are in (`AdjustStock`).
* The scope of an idempotency key (user, session or address) when it changes
  between two repetitions of one request.
* The texts, recipients and channels of emails and WebSocket messages; whether an
  invoice mail or a delivery notice leaves, and how often, is in the models.
* Station lookup, labels, PDFs, signatures and address checks of the providers.
