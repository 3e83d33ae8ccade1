# Verification of CartNest

CartNest is a marketplace: a buyer checks out a cart that may hold products of several stores, pays through Paystack or
Flutterwave, and every store ships, takes back and refunds its part of the order. The code is an API server, a worker
and a web application over one PostgreSQL database, Redis (BullMQ) and external providers.

This directory holds TLA+ modules that model the parts of it where money, stock and messages can go wrong, TLC
configurations that check them on small instances, and TLAPS proofs that hold for instances of any size.
`PROJECT.json` lists the components, the runs and what each checks, the lines of code every definition stands for, the
mutations every property has been tested against, the hazards, the findings and the theorems.

Paths below are relative to the repository. `orders` stands for `apps/api/src/modules/orders`, and so on.

## 1. The system

### Components

| component | state | operations | where it gets hard |
|---|---|---|---|
| Orders (`orders`) | Order, VendorOrder, InventoryReservation | createCheckout, cancelUserOrder, cancelVendorOrder, confirm | locks the order row, reads reservations without locking; races with payment and expiry |
| Payments (`payments`) | PaymentIntent, PaymentAttempt, PaymentAllocation, ProviderEvent | initialize (with fallback), webhook, reconcile, verified success and non-success | calls to providers between transactions; answers lost, late, repeated; several handlers at once |
| Database guards (`packages/database/prisma`) | triggers, CHECK constraints, unique indexes | run inside the writers' transactions | decide races the application code leaves open |
| Inventory (`inventory`) | InventoryItem: onHand, reserved | adjust; written by checkout, sale, release, expiry, restock | four writers, one ledger |
| Worker: reservation expiry (`apps/worker/src/maintenance.ts`) | - | expireInventoryReservations every minute | does not look at orders or payments |
| Logistics (`logistics`) | Shipment, ShipmentItem, ShipmentEvent | create, report a status, aggregate | check, write and aggregate are separate transactions |
| Returns (`returns`) | ReturnRequest, ReturnItem, InventoryAdjustment | create, transition, cancel, restock | long sequences of legal steps |
| Refunds (`returns`) | Refund | request, approve and execute, reconcile, book | a provider that does not answer must not be asked twice |
| Background tasks of the API (`background.ts`) | - | reconcile payments and refunds, deliver email, each minute, ten at a time | a batch limit |
| Outbox and jobs (`apps/worker/src`) | OutboxEvent, Redis jobs, Notification | claim, publish, retry, replay, recover, consume | leases, crashes, repeated and reordered jobs |
| Notification delivery (`notifications`) | Notification | deliverPending | sends inside a transaction that may be lost |
| Cart (`cart`) | Cart, CartItem | get or create, add, change, remove; converted by a checkout | each request reads, then writes without a lock; the buyer goes on while a checkout is at work |
| Pricing (`payments/payment.policy.ts`, `orders`) | rules, Promotion, PromotionRedemption | choose a commission rule, share out a discount over stores and lines | store by store, each from a new reading of the cart; rounding |
| Delivery quotes (`logistics`) | ShippingQuote | quoteCart, look up a valid quote | stamped with the cart's updatedAt |
| Vendors, stores, staff (`vendors`) | Vendor, VendorVerification, Store, VendorMember, PaymentProviderAccount | invite, accept, change, remove; submit and review checks; approve, suspend; open and close a store | every decision is read, then written unconditionally |
| Catalog and media (`catalog`) | Category, Product, ProductVariant, Media | edit, publish, archive, moderate, upload | an edit racing a publication; the category tree |
| Privacy (`privacy`) | PrivacyRequest, User | request erasure, reject, anonymize | one Serializable transaction among others that are not |
| Reviews, wishlist, administration | their own rows | mostly single-row updates | not modelled |
| Accounts (`auth`), HTTP routes, contracts, web application | sessions, none | - | not modelled |

### How they interact

* A request about a cart, a vendor or a product reads what decides whether it is refused, and writes in a later
  statement; only unique indexes, conditional updates and the few row locks decide between two that overlap.
* Checkout reads a draft of the cart, has every store's part priced (each time reading the cart again), and then, in
  one transaction, claims the idempotency key, compares the cart with the draft, and writes. A seller who moves a price
  or delists, and a buyer who edits the cart in another tab, come in between.
* What the public may buy hangs on four rows of different writers: the vendor's and the store's status, the product's
  status and its moderation.
* Checkout creates the order, its vendor orders ("slices"), its reservations and its intent in one transaction; from
  then on orders, payments, inventory and expiry meet in the same rows. Most writers lock the Order row first; the
  worker's expiry, completeInitialization, markInitializationAmbiguous and applyVerifiedNonSuccess do not.
* A payment handler writes, calls the provider outside any transaction, and writes again. What it learns is applied
  by the same code whether it came with a webhook, from the buyer's reconcile request or from the background task.
* Once an order is paid, shipping and refunds both overwrite the statuses of its slices and of the order, each in
  transactions that lock one slice, read the others without locking, and write the order.
* A transaction that changes something others should hear of writes an OutboxEvent; the worker's dispatchers put a job
  into Redis; the job writes Notification rows; a task of the API emails them.

### What makes each part correct

* Checkout: a key makes one order; an order's discount, tax, commission and delivery are those of the lines it sells;
  promotions keep their limits; two first requests of a buyer end up with one cart.
* Vendors: somebody can always act as owner; staff hand on no permission an owner never gave; erased staff stay out; a
  vendor sells, and money is settled to it, only on checks that were verified.
* Catalog: what the public sees of a moderated product is what an administrator looked at and approved; categories form a
  forest.
* Orders and payments: an order is sold at most once, to the price of exactly the slices still in it, and captured
  money does not disappear; a buyer can pay or retry as long as the stock is held for him; no attempt to pay begins while
  a cancellation is decided.
* Inventory: reserved never exceeds onHand, reserved is what HELD reservations add up to, units leave stock exactly
  when a sale commits them, holds end.
* Shipping: no unit is shipped twice; DELIVERED and FULFILLED are said on evidence.
* Returns and refunds: no more taken back or restocked than sold; the provider is asked for a refund at most once; no
  more is paid back than was paid; REFUNDED is true when it is said; decided refunds are booked.
* Outbox and email: every event is published or parked, published stays published, the last status is told, an email
  is sent and not sent twice.
* Background reconciliation: a decided payment or refund is settled although a batch has room for ten rows only.

## 2. The modules

```
OrderPromise  <--refines--  OrderPayments               MCOrderPayments    OrderPayments_proofs  <--  OrderPromise_proofs
PaidOrder  <--  Shipments, Refunds  <--  PostPurchase   MCPostPurchase     PostPurchase_proofs  <--  Refunds_proofs
EmailDelivery  <--  Outbox  <--  Messaging              MCMessaging        Messaging_proofs
Carts, Pricing  <--  Checkout                           MCCheckout         Pricing_proofs  <--  Checkout_proofs
Requests  <--  Members  <--  Privacy  <--  Selling
                         <--  Catalog  <--  Marketplace MCMarketplace      Marketplace_proofs
Reconciliation                                          MCReconciliation
```

An arrow stands for EXTENDS. The chain from Requests to Marketplace is one system in five chapters: each adds its rows
and requests to the ones before, because permissions, erasure, the vendor's status and the store are read by all that
follow.

### OrderPayments: from checkout to paid, cancelled or expired

The variables are the columns that the code's conditions read: `onHand`, `reserved` (InventoryItem), `resv` and `due`
(InventoryReservation), `status`, `payStatus`, `total` (Order), `vo` (VendorOrder), `intent`, `intentAmt`, `att`,
`attAmt` (PaymentIntent, PaymentAttempt), `alloc` (PaymentAllocation), `event` (ProviderEvent), `review` (the
manual-review event); the handlers in progress (`call`, `ver`, `cancelling`, `snap`, `cleared`); what the provider holds
(`charge`); and four history variables: `supplied` and `overReleased` count units, `tested` remembers which attempts existed
when a cancellation's triggers looked, `lost` which attempts were written FAILED although their charge was captured.

One action is one database transaction, with two exceptions where a transaction reads rows it has not locked and acts
on them after others may have committed:

* *Cancellation* (`BeginCancel`, `CheckAttempts`, `CommitCancel`). It locks the Order row, finds no attempt active and
  reads the HELD reservations, without locking either; the triggers on VendorOrder and Order look at the attempts once
  more, again without a lock (`CheckAttempts`); then it releases, writes and commits. The worker's expiry, and answers
  about old attempts (applyVerifiedNonSuccess and markInitializationAmbiguous lock no order), may commit in between.
* *Verified success* (`ReadSuccess` ... `CommitSuccess`). It reads the order and its vendor orders, then claims the
  intent, then locks reservations and stock. It has to wait for a cancellation that holds the Order row, so
  `CommitSuccess` is blocked while `cancelling` is not empty and works with what `ReadSuccess` saw.

Initialization is a sequence of actions per attempt: `BeginInitialization`, then the provider opens the charge or not
(`ProviderOpens`), then the answer is written as success, ambiguity or rejection, possibly followed by a fallback
attempt. Verification handlers pick up a webhook or a reconcilable attempt, take an answer, and apply it in later steps, so
an answer may be old when it is applied. The answer is what the adapters make of the provider's (`Verdicts`): SUCCEEDED only
of a captured charge; of any charge FAILED, which they also make of every 4xx (`paystack.adapter.ts:94`), and PROCESSING,
as which applyVerifiedNonSuccess writes UNKNOWN, what they make of a timeout or a 5xx. The expiry takes every due
reservation but those whose row may be locked at the moment (`Skippable`, for SKIP LOCKED); its LIMIT of 200 rows is
above what a run holds. Time is a flag: a charge may be captured, a reservation become due, at any moment.

An amount of money is the set of stores whose vendor orders it adds up. The amounts the code compares are sums over
nested sets of vendor orders with positive totals, so amounts are equal exactly when the sets are.

Left out: the checkout's quote and idempotency record (a replay returns the stored response and changes no state);
webhooks of charges that were not captured (they record an event and verify, as reconciliation does); the split of an
amount into fee, commission and net, except that it may fail to add up (`Glitches`, "fee"; with "amount" the provider may
name another amount than was asked). Only a buyer who was given the authorization URL can pay.

### OrderPromise: what an order promises

An abstract specification with four variables: an order is open for the slices kept in it, is sold once at exactly
their price, or its money is captured and known, or it is void; only a sale takes units from stock. `PromiseKept` is
the refinement `OrderPayments => Promise!Spec` under the mapping given there.

### PaidOrder, Shipments, Refunds, PostPurchase

`PaidOrder` declares the rows both sides write: statuses of slices, order and payment, and `writing`, the slices whose
row is locked by an open aggregate transaction. `Shipments` has one action per transaction of a request (create;
report: check, append, reload, list siblings, aggregate), `Refunds` one per transaction of a return, a refund request,
a clerk executing or reconciling a refund and the booking of one that succeeded. Aggregate transactions are split
where they may wait for a lock or read what another commits: acquiring a lock and the read that follows it are one
step, as nothing another transaction does between them can be told apart from its doing it before.

A refund's verification may come back as failed whatever the provider has made of the refund, because the adapters read
every 4xx so; as paid only if it was paid. `misread` is a history variable: the refunds that were written FAILED though
the provider had not said so. Their amount is free for another request, as in the code.

### EmailDelivery, Outbox, Messaging

`Outbox` follows the changes of one return: the event in its transaction, the dispatchers' claim under a lease, the
job, the retry, the operator's replay and recovery, the consumer. Each SQL statement and each Redis command is a step.
A lease is named by its holder: the code compares attempts and lockedAt, which match exactly while the row is held from
the same batch. `EmailDelivery` follows an email row through lost answers and lost transactions; the provider's memory
of idempotency keys and the age limits are flags that may flip when time allows. `Messaging` adds the fairness.

Left out: the other subscribed events (the same upserts for other recipients), preferences, the removal of old jobs
from Redis, a job that runs on after BullMQ has given it to another worker. A return completed by a refund
(`applyRefundAggregate`) writes no return.status_changed; the refund.succeeded event announces it, so it is not a
"change" here. A status that was left again before its job ran is skipped, since jobs read the current row: that is why
the properties speak of the last status.

### Carts, Pricing, Checkout

Variables: `cart` (Cart with its lines; `version` is updatedAt, `ids` the identities of the lines), `sellable` (variants
whose product, store and vendor are open for sale; what that takes is Catalog's `Public`; `Delist` and `Relist` change it at
any moment and stamp no cart, and `relisted` is a history of the latter), `available` (onHand - reserved),
`orders`, `price`, `promoOn`, `quote` (the latest ShippingQuote of a cart and store), `keys` (IdempotencyRecord), and
`calls`, the requests at work with what each has read. A request is a sequence of steps, one per query that decides
something: `FindCart`, `CreateCart`, `ReloadCart` are getOrCreateActive; `AddItem` ... `SetItemQuantity` the add;
`QuoteCart`, `StampQuote` the delivery quote; `StartCheckout`, `ReadDraft`, one `QuoteStore` per store, `BeginCreate` and
`CommitCheckout` the checkout. createCheckout's transaction is two steps: it reads the cart without locking it, and what
it writes after that it reads under the lock of a row it has written or locked (the idempotency record, the promotion,
the stock row). `LineTotalsLegal` is the CHECK on a line's total, which makes the transaction fail.

`Pricing` is the arithmetic itself, in minor units and basis points: `rateAmount`, `chooseRule`, `allocateAmount` (each
share rounded down, the last takes the rest) and `allocateFixedDiscount`. The code shares an amount over a list; only which
part is the last matters to the shares, so the operators take the set of parts and its last member (`LastIn`, in the order
of the stores' ids or of the cart's lines).

Abstracted: an add is of one unit; there is one delivery address, one currency, one promotion; acceptance mode and
fulfillment profiles; the queries QuoteStore makes for one store are one step. A replayed key and a request that is
refused on its first read change nothing and have no step. previewCheckout changes nothing. What happens to stock after
the order is committed is OrderPayments, whose CreateCheckout is this module's last step seen from there.

### Requests, Members, Privacy, Selling, Catalog, Marketplace

`Requests` keeps the calls: a call has read what its guard needs (`Begin`) and writes in a later step (`Commit`);
`touched` collects the rows other calls wrote in between. The reads of one request are a single step, except where the
code walks from row to row (`WalkUp`, assertCategoryParent). `Members` has invitations, acceptance, changes and removal of
the members of one vendor, with permissions and what they imply; `Privacy` the erasure requests, their rejection and the
Serializable transaction that works on a snapshot and is given up only if a row it *writes* was written since; `Selling`
the checks, the decisions about the vendor, its store and its provider account; `Catalog` categories, a product with
counts of active and inactive variants, one media item and its stored object, publication and moderation. Moderation is a
request like the others: an administrator decides on what is there when he looks (`Look`), and the write
(`SetModerationStatus`) checks no version. The upload URL of a picture may be used again and again until it lapses
(`Upload`, `UploadLapses`), whatever became of the picture meanwhile; `content` counts versions of the listing and of the
picture's bytes, and remembers the last approval: what had been looked at and what it was written over. `contested`
remembers that a membership or a category was written by a call another one had overtaken: for these the code promises
nothing (section 5), so OwnerLeft and CategoryTree speak of runs without.

Abstracted: one vendor, one store, one product, one media item; a vendor's creation is the initial state; slugs and SKUs
are the unique index that refuses a second product; profile fields; several payment providers. Whether orders, returns or
refunds stand against an erasure is an arbitrary Boolean read with the request. A suspended owner is neither a blocker of
an erasure nor removed by it, as in the code.

### Reconciliation

The loop of `background.ts` in every API process: a batch of payment attempts, then a batch of refunds, each of the
`Limit` rows written longest ago (attempts only when older than two minutes), asked and applied one by one. Every answer
writes an attempt (updatedAt moves on), a refund is written only when it is decided; a row whose provider is not
configured is skipped and never written; a refund the provider names another amount for throws. A failed transaction ends
the batch of payments (reconcilePending has no catch per row) and only the row in the batch of refunds. Buyers,
administrators and webhooks ask about the same rows in between (`AskedElsewhere`), processes restart.

The details of what an answer does to an order are OrderPayments' and Refunds'; here a row is new, open or settled. That
every answer about a candidate writes it has been checked there: an intent that SUCCEEDED leaves no attempt a candidate, so
the early return for a duplicate charge is not met by this loop.

## 3. The runs

| run | instance | what it shows |
|---|---|---|
| order_payments | 1 order, 2 stores, 2 attempts, fallback, 1 verification handler, other amounts than asked | TypeOK, PaidExactly, RetryStaysPossible, CancelExcludesInitialization |
| stock_contention | 2 orders (2 units and 1) of 3 in stock, 1 of them paid for, vendor adjusts, ruinous fees, verifications die, fairness of the worker | StockBounds, LedgerExact, StockConserved, DueHoldsEnd |
| racing_handlers | 1 order, 2 attempts, 2 verification handlers, answers of every kind | WebhookLeavesTrace, PromiseKept |
| orders_settle | 1 order, 2 attempts, initialization handlers die, answers of every kind, fairness | PaidSettles |
| shipping | 2 slices of 1 unit, 2 shipments, 2 requests that die, 2 returns | TypeOK, ShippedWithinOrdered, DeliveredOnEvidence, ReturnedWithinOrdered |
| refunding | slices priced 2 and 1, 2 refunds, 2 clerks, refunds misread as failed, fairness | RefundsWithinPrice, AskedOnce, RefundedIsPaidBack, DecidedRefundsClose |
| messaging | 1 event, 2 dispatchers, 1 mishap, 1 replay, Redis lost once, fairness | EmailedOnce, PublishedStays, EventsResolve, ChangesReachTheBuyer |
| two_changes | 2 events of all kinds, batches of 2, 2 dispatchers, jobs run twice | TypeOK, LastStatusTold |
| checkout | 1 buyer, 2 stores with one line and two, one line on or off sale, 2 requests at once of any kind, 2 keys, one move of a seller | TypeOK, LoserFindsWinner, OneOrderPerKey, PromotionLimits, PricedAsBought, DiscountIsWhole, DeliveryQuotedForLines |
| marketplace | 3 people, 3 categories, 2 requests at once, 11 beginnings with a budget of requests each | TypeOK, OwnerLeft, Delegation, ErasedStaysOut, SellsOnEvidence, PublicIsApproved, CategoryTree |
| reconciliation | 3 attempts, 2 refunds, batches of 2, 1 mishap, fairness | DecidedSettle |
| double_release | as small as the case allows | section 5 |

Why these sizes. Two stores are what a partial cancellation needs, two attempts what a fallback, a retry and a late
answer need; a third attempt would only repeat what the second meets. Two handlers suffice for each race because every
conflict in the code is between the reads of one transaction and the writes of another. Contention needs two orders
whose demand together uses up the stock (2 + 1 of 3) or exceeds it once the vendor lowers it; there only one order is
paid for (`Paying`) and the other waits, expires or is cancelled, so that batches of the expiry hold rows of both. Two
slices suffice for the aggregates, which compare one slice with the others. A price of 2 can be refunded in parts.

Every race in Carts, Checkout and the marketplace is between one request's reads and another's writes, so two at once
are enough, with a third and fourth one after them (`MaxRequests` = `MaxCheckouts` = 2; in marketplace the budgets in
`Beginnings`). The amounts of `checkout` (3 and 4, a fixed discount of 5, rates of 20 to 50 percent) make every division
round. The variant that sellers move (`Moving`, `Delisted`) shares its store with another one, so that a quote may be
for one of the two. The beginnings of `marketplace` are moments of a vendor's life, all reachable from its foundation:
newly founded or trading, with one owner, two, or an owner and a helper, without or with submitted checks, with or
without a listed product and a picture on its way, without categories or with three. From each, only the requests run
that meet each other there: all of them from one beginning would be a product of independent graphs. Three categories
make a cycle over more than two, three people an actor, a helper and somebody new. In `reconciliation` a batch of two is
blocked by two rows that never move; one of each kind is present, one that only looks like it (an attempt the provider
is silent about) and one mishap.

Bounds: `Tries`, `Orders`, `Shipments`, `Returns`, `RefundIds`, `Events` bound what is created; `MaxOnHand` what a
vendor may enter; `MaxAllocations` how often allocations are written again (see divergences); `MaxReplays`,
`MaxMishaps` and `MayLoseRedis` what operators and misfortune do to the outbox (a dispatcher that crashes for ever
publishes nothing); `Reported` and `Decisions` choose the
statuses a run's staff report. In `shipping`, DELIVERED and CANCELLED and the decisions APPROVED, REFUND_PENDING and
REJECTED are the ones that aggregates, allocations and restocking tell apart. In `messaging` a job runs once and a
failed job is an excuse; `two_changes` lets it run twice. `two_changes` follows only the letter of the second change.
`CartIds`, `MaxQuantity`, `MaxMoves`, `MaxChecks` and `MaxVariants` bound carts, quantities, sellers' moves, checks of a
type and variants; `MaxDepth` is the depth at which assertCategoryParent gives up, here as deep as three categories
need. Deadlock is not checked: all these systems stop when every order, shipment, event or request that a run may create is
finished.

`MayDie` and `MayCrash` say whose process may die between steps. `refunding` excludes it: a clerk that dies is, for the
row, a clerk that got no answer, which the run does include.

### Fairness

* Background tasks run every minute from `background.ts`, the worker's expiry from its scheduler: weak fairness for
  expiry and for the transactions of a handler that has begun. `stock_contention` assumes the worker's only
  (`WorkerSpec`): DueHoldsEnd needs nobody else.
* A provider that is asked about a captured charge again and again does not answer with errors for ever: strong fairness
  for a reconciliation that hears SUCCEEDED. It may fail, time out or answer late any number of times before.
* Providers deliver a webhook until it is accepted: strong fairness for `HandleWebhook`. A provider is not silent for
  ever about a refund it has decided: strong fairness for reconciling a given refund with what was decided.
* Row locks in PostgreSQL are granted in order of arrival: strong fairness for a step that waits for one
  (`CommitSuccess`, `BookSlice`); open transactions end.
* Dispatchers poll every second and claim the oldest due events first: strong fairness for claiming a given event;
  time passes (backoff, leases, age).

* `reconciliation`: the interval fires again and again, a task that has begun goes on, two minutes pass; a provider that
  is asked about a row for ever gives the answer it has for ever (strong fairness per process and row). Restarts and
  failed transactions are bounded by `MaxMishaps`. The assumption `ReconciliationAssumption` says that fewer rows are stuck
  than a batch holds: ten or more refunds that are not decided or contradicted, or attempts without an adapter, do keep
  the others out.

Checkout and Marketplace have safety properties only: no request there has to be served for another one's sake.
Nothing is assumed of buyers, vendors, administrators or operators.

## 4. The proofs

`OrderPayments_proofs` proves, for every set of orders, stores, variants, attempts and handlers, every catalogue and
every bound, from the named assumptions of OrderPayments only:

| theorem | property |
|---|---|
| Typing | TypeOK |
| ReservedWithinStock | StockBounds: the CHECK constraint `reserved <= onHand` never fires |
| LedgerUpToDoubleRelease | LedgerExact |
| UnitsConserved | StockConserved, and only PAID orders have COMMITTED reservations |

None of the three stock properties is inductive. `LedgerExact` is what makes a decrement of `reserved` legal and shows
that a sale finds its units; it needs to know that an order that does not exist yet has no reservations (`FreshOrders`),
since checkout overwrites them. `StockConserved` needs that a sale finds no unit committed before, hence
`CommittedIsPaid`, which in turn needs that an order a cancellation has locked is open (`LockedIsOpen`), so that no
order turns from PAID to CANCELLED. The inductive invariant is

    StockInv == StockBounds /\ LedgerExact /\ StockConserved /\ OrderRowsOK

with `OrderRowsOK` the conjunction of those three. The proof has one lemma per action that touches stock, built on
lemmas about the cardinality of sets of units when reservations change status (`Units`, `UnitsInBatch`), and a single
lemma for the actions that leave stock alone.

`Messaging_proofs` proves, for every set of events, letters and dispatchers and every bound:

| theorem | property | what makes it inductive |
|---|---|---|
| Typing | TypeOK | `Counted`: a job that is not over has runs left, an open transaction has tries left, a job exists only after a change |
| SentAtMostOnce | EmailedOnce | `SentOnce`: an email that was sent is remembered by the provider, or its row is too old to be sent again |
| PublishedForGood | PublishedStays | nothing but types: every writer of a row either finds it claimable, holds its lease or finds it FAILED |
| LastStatusIsTold | LastStatusTold | `TellInv`: an event not yet written has no job and no dispatcher; a dispatcher marks only what it has added; so the job of the last change was added after the change and read the last status |

The last one is where the order of jobs matters: the jobs of earlier changes may run before or after it, and tell the
same status again or an older one, but the job of the last change cannot have read an older status.

`Marketplace_proofs` proves every property of the marketplace run, for every number of people, permissions, categories,
handlers and requests, every implication between permissions, and every beginning that satisfies
`MarketplaceAssumption`; besides it only `MembersAssumption`, `SellingAssumption` and `CatalogAssumption` are used:

| theorem | property | what makes it inductive |
|---|---|---|
| Typing | TypeOK | nothing; the rows a call carries have the types of the rows it read |
| PublicSeesApproved | PublicIsApproved | `ApprovedInv`: what a decision at work has looked at is no newer than the listing, and an approved product is as looked at, or as the approval found it (`Faithful`), on sale or not |
| SellsOnVerified | SellsOnEvidence | `Backed`: a decision, an opening of the store or an activation of an account at work was begun on checks that had been verified, and what had once been verified remains so |
| StaffHoldWhatOwnersGave | Delegation | `Given`: an invitation or a change at work by somebody who was not an owner hands on only what an owner has given, in the closure under what permissions imply |
| OwnerIsLeft | OwnerLeft | `Spares`: a write about a member that no other has overtaken leaves another owner able to sign in; `Current`: the row an erasure has read is still the row |
| ErasedIsGone | ErasedStaysOut | `ErasedInv`: nothing at work is about a person who was erased, and nothing can begin |
| CategoriesStayATree | CategoryTree | `Walked`: the categories a walk has passed lead, parent by parent, to where it stands, and the one to be moved is not among them, unless one of them was written |

The argument is the same each time: what a request knew when it read stays true of the rows as long as nobody has
written them, and the invariant says so of every call at work. The case that breaks it, two writes that overlap, is the one
where `contested` says that the property no longer applies, or, for Delegation, SellsOnEvidence and PublicIsApproved,
does no harm, since what was given, verified and approved is never taken back.

`Pricing_proofs` and `Checkout_proofs` prove every property of the checkout run, for every number of buyers, carts, variants,
stores, keys and handlers, and any prices, rules and promotion, from `CartsAssumption` and the named assumptions of Checkout
(the values the columns may hold: rates are basis points by a CHECK constraint, amounts are natural numbers):

| theorem | property | what makes it inductive |
|---|---|---|
| SharesAddUp, FixedDiscountAddsUp, RuleIsFirst | about the operators of Pricing | - |
| Typing | TypeOK | `CallTyped`: what a call carries has the types of what it read; a discount is within its store's subtotal, so that tax is worked out of a natural number |
| KeysHaveOneOrder | OneOrderPerKey | `Claimed`: a key that a transaction has claimed has no order yet, and nobody else claims it |
| LimitsHold | PromotionLimits | nothing but finiteness: the limits are read again under the promotion's lock, by the step that writes |
| LoserGetsTheCart | LoserFindsWinner | `Waits`: a buyer who waits saw no more orders than there are, and fewer once the cart that was in the way is gone; `Buys`: a checkout owns its cart |
| OrdersArePricedAsBought | PricedAsBought | `CallFair`: what a store has been quoted fits the items and prices the call has read; the transaction takes them only if cart and prices still agree on every line |
| FixedDiscountIsWhole | DiscountIsWhole | `SeenWhole`: as long as neither the cart's version nor the number of sellers' moves has changed since the draft, each quoted discount is the store's share of the whole cart |
| DeliveryIsForTheLines | DeliveryQuotedForLines | `QuoteFits`, `StampFits`, `PriceFits`: what bears the version a cart has, was worked out for the lines it has, but for some that are off sale now or were put back meanwhile (`LeftOut`, `Steady`); versions only grow |

They rest on `Shape`, an invariant about the fields of rows and calls (`Shapes`), and on a lemma (`Kinds`) that reduces the
21 actions to twelve kinds of effects. `Total` is a fold over a set. Its facts (sums of natural numbers are natural numbers,
equal or smaller parts have equal or smaller sums, a sum of sums over the stores is the sum over the lines: `TotalNat`,
`TotalAgree`, `TotalMonotone`, `TotalUnion`, `TotalParts`) would be proved by induction over sets; since the induction
theorems cannot be used, each is proved from a minimal counterexample instead: `MinimalSet` finds, in a nonempty collection
of finite sets, one of the least cardinality, and taking an element out of it gives a smaller set that is no counterexample.
`Allocates` bounds what rounding down loses by one unit for each part but the last.

`OrderPromise_proofs` proves the rest of the safety of OrderPayments, for the same constants as OrderPayments_proofs:

| theorem | property | what it needs |
|---|---|---|
| PaidForWhatIsKept | PaidExactly | `OrderInv` and StockInv |
| CancelsUnderKnownAttempts | CancelExcludesInitialization | which steps change what is kept (a checkout of a new order and the commit of a cancellation), and, as an invariant, that between the triggers and the commit every attempt is one the triggers saw: both creators of attempts, the fallback's too, wait for the order's lock |
| RetryIsPossible | RetryStaysPossible | the property itself, inductive on top of `OrderInv`: every answer that makes the last active attempt inactive leaves the intent FAILED, and reservations of kept lines stay HELD until they are due or sold |
| WebhookIsTraced | WebhookLeavesTrace | `TraceInv`: a succeeded intent is traced, and a handler that carries a webhook carries a success |
| ImplementsPromise | PromiseKept | all of these: every step maps to one of OrderPromise or to a stutter |

The inductive invariant is

    Sound == TypeOK /\ StockInv /\ OrderInv /\ PaidExactly
    OrderInv == BornWhole /\ CancelledIsFree /\ SameAmount /\ JobsKnow

`SameAmount` says that every attempt asks for the intent's amount, which falls only while no attempt was made; `JobsKnow`
says what a verification may still rely on when it claims: the vendor orders it read as payable can only have become
fewer. With both, a claim that finds every payable line still held pays exactly for what is kept. `WebhookIsTraced` holds
for verifications that succeed, at any fee, fail, or get no definite answer, and leaves out providers that name another
amount (`"amount"` is not in Glitches, as in the run): their event is closed in a transaction before the one that marks the
attempt. RetryIsPossible says what initialization asks of the rows: the provider may still refuse, and once the reservations
are due nobody can pay.
In the refinement (`onHand`, and each order's `Phase`, `Kept` and captured amounts), a commit of a verified success is a sale or
a capture for review, checkout opens an order, a cancellation drops slices of it or voids it, a charge that is paid adds
money; everything else the handlers do is a stutter.

`PostPurchase_proofs` and `Refunds_proofs` prove every safety property of the runs `shipping` and `refunding`, for any number
of slices, shipments, returns, refunds, requests and clerks:

| theorem | property | what makes it inductive |
|---|---|---|
| Typing | TypeOK | `Shape`: rows, requests and clerks field by field, and what a request at work points to |
| NoUnitShippedTwice | ShippedWithinOrdered | `EventsTell`: a shipment's status is among its events, so one without a CANCELLED event counts against what is left |
| DeliveryHasEvidence | DeliveredOnEvidence | `RequestBacked`: a request that carries DELIVERED has seen it reported, and events are never deleted |
| AskedAtMostOnce | AskedOnce | `ClaimInv`: whoever asks works on his refund alone, in PROCESSING, and nobody had asked before |
| ReservedWithinPrice | (used by the next) | refunds are counted unit by unit of money; one that failed is never taken up again |
| NeverMoreThanPrice | RefundsWithinPrice | `AnswerInv`: what a clerk or the row says of the provider's answer is what the provider did |
| RefundedWasPaidBack | RefundedIsPaidBack | `BookingBacked`: a booking sums up refunds that were paid, and what was paid stays paid |
| NoUnitReturnedTwice | ReturnedWithinOrdered | no closed return is opened again; a return is restocked once |

`NeverMoreThanPrice` assumes nothing of the provider. The refunds it leaves out, those that were misread as failed, are the ones
section 5 tells of: their amount is free for a new request although the provider may still pay.

Only model-checked: PaidSettles, DueHoldsEnd, DecidedRefundsClose, EventsResolve, ChangesReachTheBuyer and DecidedSettle. They
are liveness properties, whose proofs need fairness and ENABLED, which the prover does not handle. Every safety property,
every action property and the refinement that the runs check is also a theorem.

What the proofs changed in the models. DiscountIsWhole said that the shares add up to the discount exactly; the proof
failed, because the code caps the last store's share at its subtotal, and with three stores or more the
rounding may push it above (section 5). The property now says what may be lost. The cases of `Phase` in OrderPayments, the
refinement mapping, overlapped on states that are not reachable; they are disjoint now.

## 5. Where code and documentation part

`double_release` is a run that ends in a violation, with an entry under `findings`: a cancellation and the worker's
expiry may both take the same units off `reserved` (`order.repository.ts:632`). The units of *another* order's reservation
become available.

Others met while modelling, without a run of their own. Orders and payments:

* After a failed attempt, cancelling a slice lowers the order's total but not the intent's amount
  (`order.repository.ts:823`); the next attempt charges the old one, although `frontend-p7-status.md:119` says that the
  triggers "reject stale payment amounts after a partial vendor-order cancellation changes the parent total": the trigger
  compares with the intent's amount. PaidExactly still holds: nothing is sold for it.
* `frontend-p7-status.md:117` and `:118` say that the triggers reject a cancellation while an active or possibly successful
  attempt exists. They look at attempts no lock protects: a late answer may make an old attempt active again between
  their look and the commit (`payment.repository.ts:785` and `:467` lock no order). No attempt is *created* there, which is
  what CancelExcludesInitialization says.
* A captured charge can be lost. The adapters read every 4xx of a verify request as FAILED (`paystack.adapter.ts:94`, a
  rate limit or an expired credential too), and an answer may be older than the payment. applyVerifiedNonSuccess then
  marks the attempt FAILED and the event PROCESSED (`payment.repository.ts:798-808`), a second webhook is a duplicate, and
  reconciliation does not look at FAILED attempts: neither a sale nor a review follows, and the buyer may pay again. A
  timeout or a 5xx (UNKNOWN) closes the event too, but leaves the attempt PROCESSING, and reconciliation asks again. `lost`
  in WebhookLeavesTrace and PaidSettles is exactly the first case.
* A late answer about a FAILED attempt makes it active again beside its successor (`payment.repository.ts:785`), so an
  order may have two attempts the buyer can pay.
* A slice cancelled before payment keeps its total and can be refunded (`returns.repository.ts:391`).
* Allocation rows are written a second time when a late ambiguous or non-success answer overwrites a SUCCEEDED intent and
  the charge is then verified again; and for a slice that was cancelled between the reads and the claim.
* `frontend-p7-status.md:111` says expiry locks the parent order and skips it under an unresolved attempt. So does
  `OrderService.expireReservations`, which nothing calls; the deployed job is the worker's, which looks at reservations
  only. A charge that comes after it is captured for review (`PaidExactly` covers that nothing is sold then).
* An order whose reservations expired stays open, and cannot be paid for any more.
* After a double release the expiry batch that holds the other order's reservations throws INVENTORY_RESERVED_INVARIANT
  (`maintenance.ts:60`) and rolls back as a whole, at every run: due holds of unrelated orders in the batch stay, too.
  DueHoldsEnd is checked with two orders whose rows come in one batch, and excuses what follows a double release.
* A webhook handler that dies after recording a captured charge whose attempt was already marked FAILED leaves the
  event RECEIVED for ever: the redelivery is a duplicate and reconciliation does not look at FAILED attempts. That is
  why `orders_settle` lets initialization handlers die but not verification handlers.
* A second paid charge of a paid order is PROCESSED_DUPLICATE: no refund and no review is started. An order captured
  for review may be sold later by a verification that began in time (OrderPromise allows it).
* A cancelled shipment comes back when a report that was checked before is written after; `ShippedWithinOrdered` leaves
  such shipments out. A DELIVERED report written again overwrites REFUNDED. A stale aggregate can leave a delivered
  slice PARTIALLY_SHIPPED. An order may never become FULFILLED: two deliveries read each other's old status, or a
  sibling is cancelled. A shipment may be created for a slice that was just refunded. A partial refund of one slice
  stops the others from shipping (`payStatus` is no longer SUCCEEDED).
* Two bookings of refunds read sums that miss each other: a slice stays PARTIALLY_REFUNDED though all was refunded.
* A return may be restocked, inspected and rejected; a new return of the same units is restocked again.
  `ReturnedWithinOrdered` therefore counts returns that stand.
* A refund whose answer was lost stays PROCESSING without a reference, as `p9-status.md` intends.
* A refund may be paid twice. `p9-status.md:217` says of a refund whose outcome is unknown that "no second refund is permitted
  against that reserved amount"; but a verification that is refused with any 4xx is read as a failed refund
  (`paystack.adapter.ts:145`, `flutterwave.adapter.ts:118`), the row becomes FAILED, its amount is free, and the provider
  may pay it later all the same. RefundsWithinPrice and NeverMoreThanPrice leave out the refunds this happened to
  (`misread`), and those only.
* Both reconciliation batches take ten rows. An attempt is written with every answer and moves to the end of the queue; a
  refund that is still PROCESSING, or that the provider names another amount for, is not, so ten such refunds keep all
  the others out, as do ten attempts whose provider is no longer configured.

Cart and checkout:

* Two adds of one variant read the same quantity and write the same sum: one of them is lost. An add or update that has
  found the cart writes its line although a checkout has converted the cart meanwhile: the line is in no order and in no
  active cart.
* Two checkouts of one buyer with different keys can buy the same cart twice: each transaction reads the ACTIVE cart
  without locking it (`order.repository.ts:333`) and sets it CONVERTED without a condition (`:531`), so both commit if stock
  and promotion allow it. The comment at `order.service.ts:211` says "A committed checkout consumes its cart." The model
  allows it; OneOrderPerKey speaks of one key.
* A line that is off sale when the delivery is quoted is left out of the quote (`logistics.service.ts:243-251`). Put back on
  sale, by moderation or by its store, it stamps no cart: the quote stays valid, and the order contains the line without
  its delivery. `p8-status.md:102` says a quote is not "silently reused after product quantity/item changes".
  DeliveryQuotedForLines says that nothing else can be missing.
* A delivery quote worked out for one content may be stamped with the updatedAt of a newer one, and the stores' quotes
  of one checkout may be looked up for different contents if the cart is changed and changed back.
  DeliveryQuotedForLines leaves these cases out by `clean` (nothing was edited while the carrier was asked) and `quiet`
  (nothing while the order was priced), DiscountIsWhole by `quiet`.
* With three or more lines of a store, rounding may give the last line a discount larger than the line: a discount of 6 on
  lines of 3, 3 and 1 is shared as 2, 2 and 2. The database's CHECK on a line's total then refuses the checkout. The
  instance, with at most two lines per store, does not reach it (`LineTotalsLegal`).
* The same rounding over stores: a fixed discount of 6 on stores that sell for 3, 3 and 1 is shared as 2, 2 and 1, because
  `allocateFixedDiscount` caps the last share at the subtotal (`payment.policy.ts:63`). Never more than one minor unit for each
  store beyond the second is lost (`FixedDiscountAddsUp`).

Vendors, catalog, privacy and administration: decisions are read and then written without a condition, so two that overlap
overwrite each other.

* Two owners who remove or demote each other leave a vendor without an owner, although `vendor.service.ts:480` says
  "A vendor must always retain an active owner."
* An update of a member that is at work while the member is removed can make them ACTIVE again; an invitation at work turns
  a membership that was accepted meanwhile into an invitation.
* A publication at work re-lists a product that was archived or rejected meanwhile (the product is not public until it is
  approved, but is ACTIVE). A closed store becomes ACTIVE through an activation at work; `p3-status.md:166` says it cannot
  be reactivated. Approval, rejection and suspension of a vendor overwrite each other; an approval is written though the
  check it read has lapsed or been superseded.
* A provider account recorded anew while its activation is at work is ACTIVE for a subaccount nobody looked at.
* Two categories moved under each other form a cycle (`p4-status.md:63` says an update cannot create one).
* An upload completed while the media is deleted makes the row ACTIVE over an object that is gone.
* Moderation approves whatever the product is when it writes (`catalog.repository.ts:388` checks neither version nor
  updatedAt), which may be newer than what the administrator looked at: an edit made meanwhile is sold unseen. And the
  presigned PUT of a picture stays valid for ten minutes (`catalog.storage.ts:96`): used again after the approval it replaces
  a public picture without requeueing the product. `frontend-p4-status.md:89` says "A product that has entered moderation
  must not keep a stale approval after vendor-editable commercial content changes." PublicIsApproved says that nothing else
  is sold unseen: without an edit in between, the listing is the one looked at, with its picture if the URL had lapsed.
* `p3-status.md:116` says that "A newer rejected, pending, or expired check cannot be bypassed by an older verified record";
  an approval at work while the newer check arrives does.
* The blockers of an erasure do not include orders that are PARTIALLY_CANCELLED. Two SUPER_ADMINs who demote each other
  both count two (`admin.service.ts:256`).

## 6. Not modelled

Reviews (single-row writes behind unique indexes), wishlist, reports and configuration of the administration, accounts and
sessions, privacy exports, search and listing: each is listed in `PROJECT.json` with the reason. Routes, contracts, the
generated API client and the web application are I/O, generated code or user interface; together they are more than half
of the repository's lines. In the modelled components: GIGL shipments (booking is refused, so tracking them is never
reached), refunds of orders under review, multi-line slices (a slice has one line in Shipments and Refunds),
OrderService.expireReservations (nothing calls it), fulfillment profiles and addresses, options of variants.

## 7. Plan

1. An abstract at-least-once delivery that Outbox implements, and the refinement proved.
2. An abstract refund, asked once and booked once, that Refunds implements.
3. Three lines in one store in the checkout run, so that `LineTotalsLegal` can fail.
