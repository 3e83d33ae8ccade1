---------------------------- MODULE OrderPayments ----------------------------
(***************************************************************************)
(* The marketplace order between checkout and the moment it is paid,       *)
(* cancelled or left to expire: the Postgres rows of Order, VendorOrder,   *)
(* InventoryItem, InventoryReservation, PaymentIntent, PaymentAttempt,     *)
(* PaymentAllocation and ProviderEvent, and the API handlers, background   *)
(* tasks and worker jobs that write them.                                  *)
(*                                                                         *)
(* One action is one database transaction, except where the transaction    *)
(* reads rows it does not lock and acts on them after another transaction  *)
(* may have committed: verified success is split there, and cancellation   *)
(* twice, at its reads and at its trigger.                                 *)
(* Calls to a payment provider are never inside a transaction, so a        *)
(* handler that makes one is a sequence of actions with a program counter. *)
(*                                                                         *)
(* An amount of money is the set of stores whose vendor orders it adds up: *)
(* every vendor order has a positive total and the amounts the code        *)
(* compares are sums over nested sets, so equal amounts are equal sets.    *)
(***************************************************************************)
EXTENDS Integers, FiniteSets

CONSTANTS
  Orders,          \* orders a run may create
  Stores,          \* stores; an order has one vendor order per store it buys from
  Variants,        \* product variants, one InventoryItem each
  StoreOf,         \* the store that sells a variant
  Qty,             \* Qty[o][v] units of v in order o
  MaxQty,          \* no line asks for more
  Paying,          \* the orders that somebody tries to pay for
  Tries,           \* 1..n, the payment attempts a run may create per order
  Verifiers,       \* concurrent webhook and reconciliation handlers
  InitialStock,    \* onHand of every variant at the start
  MaxOnHand,       \* bound on what a vendor may set onHand to
  MaxAllocations,  \* bound on how often allocation rows are written
  HasFallback,     \* Flutterwave is configured beside Paystack
  MayCrash,        \* the handlers that may die between two of their steps
  Glitches         \* an amount, or a fee, that does not fit what was asked

ASSUME SetsAssumption ==
  /\ IsFiniteSet(Orders) /\ IsFiniteSet(Stores) /\ IsFiniteSet(Variants)
  /\ IsFiniteSet(Verifiers)
ASSUME CatalogAssumption ==
  /\ MaxQty \in Nat
  /\ StoreOf \in [Variants -> Stores]
  /\ Qty \in [Orders -> [Variants -> 0..MaxQty]]
ASSUME BoundsAssumption ==
  /\ Tries \subseteq Nat /\ IsFiniteSet(Tries) /\ Paying \subseteq Orders
  /\ InitialStock \in Nat /\ MaxOnHand \in Nat /\ MaxAllocations \in Nat
ASSUME SwitchAssumption ==
  /\ HasFallback \in BOOLEAN /\ MayCrash \subseteq {"initialize", "verify"}
  /\ Glitches \subseteq {"amount", "fee"}

VARIABLES
  onHand, reserved,    \* InventoryItem
  resv,                \* InventoryReservation.status per order and variant
  due,                 \* the order's reservations have passed expiresAt
  status, payStatus,   \* Order
  total,               \* Order.grandTotalAmountMinor
  vo,                  \* VendorOrder.status per order and store
  intent, intentAmt,   \* PaymentIntent
  att, attAmt,         \* PaymentAttempt
  call,                \* the initialize handler that owns an attempt
  charge,              \* the transaction at the payment provider
  event,               \* ProviderEvent for the charge's webhook
  ver,                 \* the job of a verification handler
  alloc,               \* how often each vendor order was given allocation rows
  review,              \* payment.manual_review_required was enqueued
  cancelling, snap,    \* an open cancellation transaction: its slices, its reads
  cleared, tested,     \* its triggers found no attempt active; history: which there were
  lost,                \* history: an attempt written FAILED with its charge captured
  supplied,            \* history: units ever put in stock
  overReleased         \* history: units taken off `reserved` twice

inventory == <<onHand, reserved, supplied, overReleased>>
orderRows == <<status, payStatus, total, vo>>
payments  == <<intent, intentAmt, att, attAmt>>
handlers  == <<call, ver>>
outcome   == <<alloc, review, lost>>
cancels   == <<cancelling, snap, cleared, tested>>
provider  == <<charge, event>>
vars == <<inventory, resv, due, orderRows, payments, handlers, outcome, cancels, provider>>

ResvStatus   == {"NONE", "HELD", "RELEASED", "EXPIRED", "COMMITTED"}
OrderStatus  == {"NONE", "PENDING_PAYMENT", "PARTIALLY_CANCELLED", "CANCELLED", "PAID"}
VoStatus     == {"NONE", "PENDING", "ACCEPTED", "CANCELLED"}
IntentStatus == {"NONE", "PENDING", "REQUIRES_ACTION", "PROCESSING", "FAILED",
                 "SUCCEEDED", "CANCELLED"}
Active       == {"PENDING", "REQUIRES_ACTION", "PROCESSING", "SUCCEEDED"}
Unresolved   == Active \ {"SUCCEEDED"}
Answers      == {"SUCCEEDED", "FAILED", "PROCESSING", "MISMATCH"}

Idle == [pc |-> "idle"]
Jobs == [pc : {"answered", "read"}, o : Orders, k : Tries, res : Answers,
         ev : BOOLEAN, payable : SUBSET Stores, live : BOOLEAN]

(***************************************************************************)
(* What the handlers read.                                                 *)
(***************************************************************************)
Lines(o)   == {v \in Variants : Qty[o][v] > 0}
Slices(o)  == {StoreOf[v] : v \in Lines(o)}
Kept(o)    == {s \in Stores : vo[o][s] \notin {"NONE", "CANCELLED"}}
LinesOf(o, S) == {v \in Lines(o) : StoreOf[v] \in S}

IsOpenIgnoringPayment(o) == status[o] \in {"PENDING_PAYMENT", "PARTIALLY_CANCELLED"}  \* mutation of IsOpenUnpaid
IsOpenUnpaid(o) ==
  payStatus[o] = "PENDING" /\ status[o] \in {"PENDING_PAYMENT", "PARTIALLY_CANCELLED"}
HasActiveAttempt(o) == \E k \in Tries : att[o][k] \in Active
Captured(o, k) == charge[o][k] \in {"paid", "costly"}
Locked(o) == cancelling[o] # {}      \* a cancellation holds the Order row

(* Every kept line is covered by a reservation that is held and not due. *)
ReservationsPayable(o) ==
  /\ LinesOf(o, Kept(o)) # {}
  /\ ~due[o]
  /\ \A v \in LinesOf(o, Kept(o)) : resv[o][v] = "HELD"

(* The units of v that reservations in status s stand for, one by one. *)
Units(v, s) ==
  {u \in Orders \X (1..MaxQty) : resv[u[1]][v] = s /\ u[2] <= Qty[u[1]][v]}

Init ==
  /\ onHand = [v \in Variants |-> InitialStock]
  /\ reserved = [v \in Variants |-> 0]
  /\ supplied = [v \in Variants |-> InitialStock]
  /\ overReleased = [v \in Variants |-> 0]
  /\ resv = [o \in Orders |-> [v \in Variants |-> "NONE"]]
  /\ due = [o \in Orders |-> FALSE]
  /\ status = [o \in Orders |-> "NONE"]
  /\ payStatus = [o \in Orders |-> "PENDING"]
  /\ total = [o \in Orders |-> {}]
  /\ vo = [o \in Orders |-> [s \in Stores |-> "NONE"]]
  /\ intent = [o \in Orders |-> "NONE"]
  /\ intentAmt = [o \in Orders |-> {}]
  /\ att = [o \in Orders |-> [k \in Tries |-> "NONE"]]
  /\ attAmt = [o \in Orders |-> [k \in Tries |-> {}]]
  /\ call = [o \in Orders |-> [k \in Tries |-> "none"]]
  /\ charge = [o \in Orders |-> [k \in Tries |-> "none"]]
  /\ event = [o \in Orders |-> [k \in Tries |-> "none"]]
  /\ ver = [w \in Verifiers |-> Idle]
  /\ alloc = [o \in Orders |-> [s \in Stores |-> 0]]
  /\ review = [o \in Orders |-> FALSE]
  /\ cancelling = [o \in Orders |-> {}]
  /\ snap = [o \in Orders |-> {}]
  /\ cleared = [o \in Orders |-> FALSE]
  /\ tested = [o \in Orders |-> {}]
  /\ lost = [o \in Orders |-> [k \in Tries |-> FALSE]]

-----------------------------------------------------------------------------
(* Checkout, stock and time. *)

(* Every line can be reserved from what is on hand and not yet reserved. *)
InStockIgnoringReserved(o) == \A v \in Lines(o) : onHand[v] >= Qty[o][v]  \* mutation of InStock
InStock(o) == \A v \in Lines(o) : onHand[v] - reserved[v] >= Qty[o][v]

(* The checkout transaction: every line conditionally reserved, or none. *)
CreateCheckout(o) ==
  /\ status[o] = "NONE" /\ Lines(o) # {}
  /\ InStock(o)
  /\ reserved' = [v \in Variants |-> reserved[v] + Qty[o][v]]
  /\ resv' = [resv EXCEPT ![o] = [v \in Variants |-> IF v \in Lines(o) THEN "HELD" ELSE "NONE"]]
  /\ status' = [status EXCEPT ![o] = "PENDING_PAYMENT"]
  /\ total' = [total EXCEPT ![o] = Slices(o)]
  /\ vo' = [vo EXCEPT ![o] = [s \in Stores |-> IF s \in Slices(o) THEN "PENDING" ELSE "NONE"]]
  /\ intent' = [intent EXCEPT ![o] = "PENDING"]
  /\ intentAmt' = [intentAmt EXCEPT ![o] = Slices(o)]
  /\ UNCHANGED <<onHand, supplied, overReleased, due, payStatus, att, attAmt, handlers,
                 outcome, cancels, provider>>

(* Fifteen minutes pass since checkout. *)
Deadline(o) ==
  /\ status[o] # "NONE" /\ ~due[o]
  /\ due' = [due EXCEPT ![o] = TRUE]
  /\ UNCHANGED <<inventory, resv, orderRows, payments, handlers, outcome, cancels, provider>>

(* A vendor sets onHand, by version compare-and-swap, never below reserved. *)
AdjustInventory(v, n) ==
  /\ n # onHand[v] /\ n >= reserved[v]
  /\ onHand' = [onHand EXCEPT ![v] = n]
  /\ supplied' = [supplied EXCEPT ![v] = @ + n - onHand[v]]
  /\ UNCHANGED <<reserved, overReleased, resv, due, orderRows, payments, handlers, outcome,
                 cancels, provider>>

(* The units of v in a batch of reservations. *)
RowsInBatch(B, v) == {b \in B : b[2] = v}  \* mutation of UnitsInBatch
UnitsInBatch(B, v) ==
  {u \in Orders \X (1..MaxQty) : <<u[1], v>> \in B /\ u[2] <= Qty[u[1]][v]}

ExpirableUnlessPaying(o, v) == resv[o][v] = "HELD" /\ due[o] /\ ~HasActiveAttempt(o)  \* mutation of Expirable
Expirable(o, v) == resv[o][v] = "HELD" /\ due[o]

(* Rows that an open cancellation or sale may have locked. *)
Skippable(o, v) == v \in snap[o] \/ \E w \in Verifiers : ver[w].pc = "read" /\ ver[w].o = o

(* The worker's maintenance job: a batch B of all due reservations but rows *)
(* locked at the moment. It neither locks nor reads their orders, and one   *)
(* variant with too little reserved rolls the whole batch back.             *)
ExpireReservations(B) ==
  /\ B # {}
  /\ \A b \in B : Expirable(b[1], b[2])
  /\ \A b \in (Orders \X Variants) \ B : Expirable(b[1], b[2]) => Skippable(b[1], b[2])
  /\ \A v \in Variants : reserved[v] >= Cardinality(UnitsInBatch(B, v))
  /\ resv' = [o \in Orders |-> [v \in Variants |->
                IF <<o, v>> \in B THEN "EXPIRED" ELSE resv[o][v]]]
  /\ reserved' = [v \in Variants |-> reserved[v] - Cardinality(UnitsInBatch(B, v))]
  /\ UNCHANGED <<onHand, supplied, overReleased, due, orderRows, payments, handlers, outcome,
                 cancels, provider>>

-----------------------------------------------------------------------------
(* Cancellation: the Order row is locked, the reservations are only read.  *)

BeginCancel(o, S) ==
  /\ ~Locked(o) /\ IsOpenUnpaid(o) /\ ~HasActiveAttempt(o)
  /\ cancelling' = [cancelling EXCEPT ![o] = S]
  /\ snap' = [snap EXCEPT ![o] = {v \in LinesOf(o, S) : resv[o][v] = "HELD"}]
  /\ UNCHANGED <<inventory, resv, due, orderRows, payments, handlers, outcome, provider, cleared,
                 tested>>

CancelUserOrder(o) == Kept(o) # {} /\ BeginCancel(o, Kept(o))

CancelVendorOrder(o, s) == s \in Kept(o) /\ BeginCancel(o, {s})

(* The triggers on VendorOrder and Order look at the attempts once more. No *)
(* attempt is locked: its answer may still be written before the commit.    *)
CheckAttempts(o) ==
  /\ Locked(o) /\ ~cleared[o] /\ ~HasActiveAttempt(o)
  /\ cleared' = [cleared EXCEPT ![o] = TRUE]
  /\ tested' = [tested EXCEPT ![o] = {k \in Tries : att[o][k] # "NONE"}]
  /\ UNCHANGED <<inventory, resv, due, orderRows, payments, handlers, outcome, cancelling, snap,
                 provider>>

(* The WHERE clause of the release, and what becomes of the intent's amount. *)
NoReleaseGuard(o) == TRUE  \* mutation of CanRelease
CanRelease(o) == \A v \in snap[o] : reserved[v] >= Qty[o][v]
AmountAfterCancel(o, remaining) ==
  IF intent[o] = "PENDING" THEN remaining ELSE intentAmt[o]

(* The writes and the commit: the snapshot of reservations is written back *)
(* unconditionally.                                                        *)
CommitCancel(o) ==
  LET S == cancelling[o]
      remaining == Kept(o) \ S
      stale == {v \in snap[o] : resv[o][v] # "HELD"}
  IN
  /\ Locked(o) /\ cleared[o] /\ CanRelease(o)
  /\ reserved' = [v \in Variants |-> IF v \in snap[o] THEN reserved[v] - Qty[o][v] ELSE reserved[v]]
  /\ overReleased' = [v \in Variants |->
                        IF v \in stale THEN overReleased[v] + Qty[o][v] ELSE overReleased[v]]
  /\ resv' = [resv EXCEPT ![o] = [v \in Variants |-> IF v \in snap[o] THEN "RELEASED" ELSE @[v]]]
  /\ vo' = [vo EXCEPT ![o] = [s \in Stores |-> IF s \in S THEN "CANCELLED" ELSE @[s]]]
  /\ IF remaining = {}
     THEN /\ status' = [status EXCEPT ![o] = "CANCELLED"]
          /\ payStatus' = [payStatus EXCEPT ![o] = "CANCELLED"]
          /\ intent' = [intent EXCEPT ![o] = IF @ = "PENDING" THEN "CANCELLED" ELSE @]
          /\ UNCHANGED <<total, intentAmt>>
     ELSE /\ status' = [status EXCEPT ![o] = "PARTIALLY_CANCELLED"]
          /\ total' = [total EXCEPT ![o] = remaining]
          /\ intentAmt' = [intentAmt EXCEPT ![o] = AmountAfterCancel(o, remaining)]
          /\ UNCHANGED <<payStatus, intent>>
  /\ cancelling' = [cancelling EXCEPT ![o] = {}]
  /\ snap' = [snap EXCEPT ![o] = {}]
  /\ cleared' = [cleared EXCEPT ![o] = FALSE]
  /\ tested' = [tested EXCEPT ![o] = {}]
  /\ UNCHANGED <<onHand, supplied, due, att, attAmt, handlers, outcome, provider>>

(* A trigger or the reserved guard raises, or the transaction is the victim *)
(* of a deadlock: everything rolls back.                                    *)
AbortCancel(o) ==
  /\ Locked(o)
  /\ cancelling' = [cancelling EXCEPT ![o] = {}]
  /\ snap' = [snap EXCEPT ![o] = {}]
  /\ cleared' = [cleared EXCEPT ![o] = FALSE]
  /\ tested' = [tested EXCEPT ![o] = {}]
  /\ UNCHANGED <<inventory, resv, due, orderRows, payments, handlers, outcome, provider>>

-----------------------------------------------------------------------------
(* PaymentService.initialize: one provider call, then at most one fallback. *)

Fresh(o, k) == att[o][k] = "NONE" /\ \A j \in Tries : j < k => att[o][j] # "NONE"

(* The insert both creators share: the lock on the Order row, the row and   *)
(* the trigger that guards it.                                              *)
InsertAtOnce(o) == TRUE  \* mutation of InsertWaits
InsertWaits(o)  == ~Locked(o)
InsertAttempt(o, k) ==
  /\ InsertWaits(o) /\ IsOpenUnpaid(o) /\ intent[o] \in {"PENDING", "FAILED"}
  /\ ReservationsPayable(o) /\ ~HasActiveAttempt(o)
  /\ Fresh(o, k)
  /\ att' = [att EXCEPT ![o][k] = "PENDING"]
  /\ attAmt' = [attAmt EXCEPT ![o][k] = intentAmt[o]]

BeginInitialization(o, k) ==
  /\ o \in Paying
  /\ InsertAttempt(o, k)
  /\ call' = [call EXCEPT ![o][k] = "primary"]
  /\ UNCHANGED <<inventory, resv, due, orderRows, intent, intentAmt, ver, outcome, cancels,
                 provider>>

(* The provider accepts the request and opens a hosted payment page. *)
ProviderOpens(o, k) ==
  /\ call[o][k] \in {"primary", "fallback"} /\ charge[o][k] = "none"
  /\ charge' = [charge EXCEPT ![o][k] = "open"]
  /\ UNCHANGED <<inventory, resv, due, orderRows, payments, handlers, outcome, cancels, event>>

(* The answer arrives with the page's address. Nothing is looked at first. *)
CompleteInitialization(o, k) ==
  /\ call[o][k] \in {"primary", "fallback"} /\ charge[o][k] = "open"
  /\ att' = [att EXCEPT ![o][k] = "REQUIRES_ACTION"]
  /\ intent' = [intent EXCEPT ![o] = "REQUIRES_ACTION"]
  /\ call' = [call EXCEPT ![o][k] = "url"]
  /\ UNCHANGED <<inventory, resv, due, orderRows, intentAmt, attAmt, ver, outcome, cancels,
                 provider>>

(* Timeout, network error or 5xx: the request may have been accepted. *)
MarkInitializationAmbiguous(o, k) ==
  /\ call[o][k] \in {"primary", "fallback"}
  /\ att' = [att EXCEPT ![o][k] = "PROCESSING"]
  /\ intent' = [intent EXCEPT ![o] = "PROCESSING"]
  /\ call' = [call EXCEPT ![o][k] = "over"]
  /\ UNCHANGED <<inventory, resv, due, orderRows, intentAmt, attAmt, ver, outcome, cancels,
                 provider>>

(* A 4xx answer: the attempt fails, and the intent too if it was the only one. *)
IntentLeftAlone(o, k) == intent[o]  \* mutation of IntentAfterFailure
IntentAfterFailure(o, k) ==
  IF \E j \in Tries \ {k} : att[o][j] \in Active THEN intent[o] ELSE "FAILED"
MarkInitializationFailed(o, k, next) ==
  /\ att' = [att EXCEPT ![o][k] = "FAILED"]
  /\ intent' = [intent EXCEPT ![o] = IntentAfterFailure(o, k)]
  /\ call' = [call EXCEPT ![o][k] = next]
  /\ UNCHANGED <<inventory, resv, due, orderRows, intentAmt, attAmt, ver, outcome, cancels,
                 provider>>

RejectPrimary(o, k) ==
  /\ call[o][k] = "primary" /\ charge[o][k] = "none"
  /\ MarkInitializationFailed(o, k, "rejected")

RejectFallback(o, k) ==
  /\ call[o][k] = "fallback" /\ charge[o][k] = "none"
  /\ MarkInitializationFailed(o, k, "over")

(* Without a second provider the attempt is marked failed once more. *)
RejectWithoutFallback(o, k) ==
  /\ call[o][k] = "rejected" /\ ~HasFallback
  /\ MarkInitializationFailed(o, k, "over")

CreateFallbackAttempt(o, k, j) ==
  /\ call[o][k] = "rejected" /\ HasFallback
  /\ intentAmt[o] = attAmt[o][k]
  /\ InsertAttempt(o, j)
  /\ call' = [call EXCEPT ![o][k] = "over", ![o][j] = "fallback"]
  /\ UNCHANGED <<inventory, resv, due, orderRows, intent, intentAmt, ver, outcome, cancels,
                 provider>>

(* The handler ends without another write: the fallback was refused, or the *)
(* process died.                                                            *)
EndInitialization(o, k) ==
  /\ \/ "initialize" \in MayCrash /\ call[o][k] \in {"primary", "fallback", "rejected"}
     \/ /\ call[o][k] = "rejected" /\ HasFallback /\ ~Locked(o)
        /\ \/ ~IsOpenUnpaid(o) \/ intent[o] \notin {"PENDING", "FAILED"}
           \/ ~ReservationsPayable(o) \/ HasActiveAttempt(o)
           \/ intentAmt[o] # attAmt[o][k]
  /\ call' = [call EXCEPT ![o][k] = "over"]
  /\ UNCHANGED <<inventory, resv, due, orderRows, payments, ver, outcome, cancels, provider>>

-----------------------------------------------------------------------------
(* The provider settles, and verification handlers apply what it answers.  *)

(* The buyer pays on the hosted page, whatever the order has become. For a *)
(* costly charge the provider's fee leaves some vendor a negative net.     *)
Pay(o, k) ==
  /\ charge[o][k] = "open" /\ call[o][k] = "url"
  /\ \E c \in {"paid"} \cup (IF "fee" \in Glitches THEN {"costly"} ELSE {}) :
       charge' = [charge EXCEPT ![o][k] = c]
  /\ UNCHANGED <<inventory, resv, due, orderRows, payments, handlers, outcome, cancels, event>>

(* What `verify` may return for a charge: about any charge FAILED, which is *)
(* also made of a refused request (4xx), and PROCESSING, as which UNKNOWN   *)
(* (a timeout, a 5xx) is written.                                           *)
Verdicts(c) ==
  {"FAILED", "PROCESSING"}
  \cup (IF c \in {"paid", "costly"} THEN {"SUCCEEDED"} ELSE {})
  \cup (IF c \in {"paid", "costly"} /\ "amount" \in Glitches THEN {"MISMATCH"} ELSE {})

StartJob(w, o, k, fromWebhook) ==
  /\ ver[w] = Idle
  /\ \E r \in Verdicts(charge[o][k]) :
       ver' = [ver EXCEPT ![w] = [pc |-> "answered", o |-> o, k |-> k, res |-> r,
                                  ev |-> fromWebhook, payable |-> {}, live |-> FALSE]]

(* A webhook for a paid charge is recorded once and the charge verified.   *)
HandleWebhook(w, o, k) ==
  /\ Captured(o, k) /\ event[o][k] = "none"
  /\ event' = [event EXCEPT ![o][k] = "received"]
  /\ StartJob(w, o, k, TRUE)
  /\ UNCHANGED <<inventory, resv, due, orderRows, payments, call, outcome, cancels, charge>>

(* The buyer's reconcile request and the background task. *)
Reconcilable(o, k) == att[o][k] \in Unresolved

Reconcile(w, o, k) ==
  /\ Reconcilable(o, k)
  /\ StartJob(w, o, k, FALSE)
  /\ UNCHANGED <<inventory, resv, due, orderRows, payments, call, outcome, cancels, provider>>

Finish(w) == ver' = [ver EXCEPT ![w] = Idle]
MarkEvent(j) ==
  event' = [event EXCEPT ![j.o][j.k] = IF j.ev THEN "done" ELSE @]

ApplyNonSuccess(w) ==
  LET j == ver[w] IN
  /\ j.pc = "answered" /\ j.res \in {"FAILED", "PROCESSING"}
  /\ att' = [att EXCEPT ![j.o][j.k] = j.res]
  /\ intent' = [intent EXCEPT ![j.o] = j.res]
  /\ lost' = [lost EXCEPT ![j.o][j.k] = @ \/ (j.res = "FAILED" /\ Captured(j.o, j.k))]
  /\ MarkEvent(j)
  /\ Finish(w)
  /\ UNCHANGED <<inventory, resv, due, orderRows, intentAmt, attAmt, call, alloc, review, cancels,
                 charge>>

(* A success at another amount: first the event is closed, then the attempt *)
(* is marked, in two transactions.                                          *)
MarkMismatchEvent(w) ==
  LET j == ver[w] IN
  /\ j.pc = "answered" /\ j.res = "MISMATCH" /\ j.ev
  /\ MarkEvent(j)
  /\ ver' = [ver EXCEPT ![w].ev = FALSE]
  /\ UNCHANGED <<inventory, resv, due, orderRows, payments, call, outcome, cancels, charge>>

ApplyMismatch(w) ==
  LET j == ver[w] IN
  /\ j.pc = "answered" /\ j.res = "MISMATCH" /\ ~j.ev
  /\ att' = [att EXCEPT ![j.o][j.k] = "PROCESSING"]
  /\ intent' = [intent EXCEPT ![j.o] = "PROCESSING"]
  /\ Finish(w)
  /\ UNCHANGED <<inventory, resv, due, orderRows, intentAmt, attAmt, call, outcome, cancels,
                 provider>>

FailedIsDuplicate(o) == intent[o] \in {"SUCCEEDED", "FAILED"}  \* mutation of AlreadySucceeded
AlreadySucceeded(o)  == intent[o] = "SUCCEEDED"

(* The first reads of applyVerifiedSuccess: order and vendor orders as they *)
(* are now, and whether `now` is before the reservations' expiry.           *)
ReadSuccess(w) ==
  LET j == ver[w] IN
  /\ j.pc = "answered" /\ j.res = "SUCCEEDED" /\ ~AlreadySucceeded(j.o)
  /\ ver' = [ver EXCEPT ![w].pc = "read", ![w].payable = Kept(j.o),
                        ![w].live = IsOpenUnpaid(j.o) /\ ~due[j.o]]
  /\ UNCHANGED <<inventory, resv, due, orderRows, payments, call, outcome, cancels, provider>>

DuplicateSuccess(w) ==
  LET j == ver[w] IN
  /\ j.pc = "answered" /\ j.res = "SUCCEEDED" /\ AlreadySucceeded(j.o)
  /\ MarkEvent(j)
  /\ Finish(w)
  /\ UNCHANGED <<inventory, resv, due, orderRows, payments, call, outcome, cancels, charge>>

(* The components of the allocation add up to the amount of the intent. *)
AnyAmountAllocates(j) == charge[j.o][j.k] = "paid" /\ j.payable # {}  \* mutation of AllocationsValid
AllocationsValid(j) ==
  charge[j.o][j.k] = "paid" /\ j.payable # {} /\ j.payable = intentAmt[j.o]

(* Whether the order can still be fulfilled: the reads of ReadSuccess, and  *)
(* the reservations and stock as they are under the lock now.               *)
Fulfillable(j) ==
  /\ AllocationsValid(j) /\ j.live
  /\ \A v \in LinesOf(j.o, j.payable) :
       resv[j.o][v] = "HELD" /\ onHand[v] >= Qty[j.o][v] /\ reserved[v] >= Qty[j.o][v]

OnlyReservedFalls(o, sold) == onHand  \* mutation of OnHandAfterSale
OnHandAfterSale(o, sold) ==
  [v \in Variants |-> IF v \in sold THEN onHand[v] - Qty[o][v] ELSE onHand[v]]

(* The claim and everything after it. *)
CommitSuccess(w) ==
  LET j == ver[w]
      o == j.o
      sold == IF Fulfillable(j) THEN LinesOf(o, j.payable) ELSE {}
  IN
  /\ j.pc = "read" /\ ~Locked(o) /\ intent[o] # "SUCCEEDED"
  /\ AllocationsValid(j) => \A s \in j.payable : alloc[o][s] < MaxAllocations
  /\ intent' = [intent EXCEPT ![o] = "SUCCEEDED"]
  /\ att' = [att EXCEPT ![o] = [i \in Tries |->
               IF i = j.k THEN "SUCCEEDED" ELSE IF @[i] \in Unresolved THEN "CANCELLED" ELSE @[i]]]
  /\ alloc' = [alloc EXCEPT ![o] = [s \in Stores |->
                 IF AllocationsValid(j) /\ s \in j.payable THEN @[s] + 1 ELSE @[s]]]
  /\ onHand' = OnHandAfterSale(o, sold)
  /\ reserved' = [v \in Variants |-> IF v \in sold THEN reserved[v] - Qty[o][v] ELSE reserved[v]]
  /\ resv' = [resv EXCEPT ![o] = [v \in Variants |-> IF v \in sold THEN "COMMITTED" ELSE @[v]]]
  /\ payStatus' = [payStatus EXCEPT ![o] = "SUCCEEDED"]
  /\ IF sold # {}
     THEN /\ status' = [status EXCEPT ![o] = "PAID"]
          /\ vo' = [vo EXCEPT ![o] = [s \in Stores |-> IF @[s] = "PENDING" THEN "ACCEPTED" ELSE @[s]]]
          /\ UNCHANGED review
     ELSE /\ review' = [review EXCEPT ![o] = TRUE]
          /\ UNCHANGED <<status, vo>>
  /\ MarkEvent(j)
  /\ Finish(w)
  /\ UNCHANGED <<supplied, overReleased, due, total, intentAmt, attAmt, call, lost, cancels,
                 charge>>

(* Another transaction claimed the intent after the first read: return, and *)
(* leave the provider event as it is. The same ending stands for a crash.   *)
EndVerification(w) ==
  /\ ver[w] # Idle
  /\ "verify" \in MayCrash \/ (ver[w].pc = "read" /\ intent[ver[w].o] = "SUCCEEDED")
  /\ Finish(w)
  /\ UNCHANGED <<inventory, resv, due, orderRows, payments, call, outcome, cancels, provider>>

-----------------------------------------------------------------------------
CheckoutStep == \E o \in Orders : CreateCheckout(o)
ClockStep    == \E o \in Orders : Deadline(o)
StockStep    == \E v \in Variants, n \in 0..MaxOnHand : AdjustInventory(v, n)
ExpiryStep   == \E B \in SUBSET (Orders \X Variants) : ExpireReservations(B)
CancelStep(o) ==
  \/ CancelUserOrder(o)
  \/ \E s \in Stores : CancelVendorOrder(o, s)
  \/ CheckAttempts(o)
  \/ CommitCancel(o)
  \/ AbortCancel(o)
InitializeStep(o, k) ==
  \/ BeginInitialization(o, k)
  \/ ProviderOpens(o, k)
  \/ CompleteInitialization(o, k)
  \/ MarkInitializationAmbiguous(o, k)
  \/ RejectPrimary(o, k)
  \/ RejectFallback(o, k)
  \/ RejectWithoutFallback(o, k)
  \/ \E j \in Tries : CreateFallbackAttempt(o, k, j)
  \/ EndInitialization(o, k)
VerifyStep(w) ==
  \/ \E o \in Orders, k \in Tries : HandleWebhook(w, o, k) \/ Reconcile(w, o, k)
  \/ ApplyNonSuccess(w)
  \/ MarkMismatchEvent(w)
  \/ ApplyMismatch(w)
  \/ ReadSuccess(w)
  \/ DuplicateSuccess(w)
  \/ CommitSuccess(w)
  \/ EndVerification(w)

Next ==
  \/ CheckoutStep
  \/ ClockStep
  \/ StockStep
  \/ ExpiryStep
  \/ \E o \in Orders : CancelStep(o)
  \/ \E o \in Orders, k \in Tries : InitializeStep(o, k) \/ Pay(o, k)
  \/ \E w \in Verifiers : VerifyStep(w)

Spec == Init /\ [][Next]_vars

(* The background tasks run every minute, the worker's maintenance too; a  *)
(* provider delivers a webhook until it is accepted, and does not answer   *)
(* with errors for ever when it is asked about a captured charge again and *)
(* again; a handler that has an answer applies it, waiting in the row      *)
(* lock's queue when it must; and no transaction stays open for ever.      *)
Fairness ==
  /\ WF_vars(ExpiryStep)
  /\ \A o \in Orders : WF_vars(CheckAttempts(o) \/ CommitCancel(o) \/ AbortCancel(o))
  /\ \A o \in Orders, k \in Tries :
       /\ SF_vars(\E w \in Verifiers : HandleWebhook(w, o, k))
       /\ SF_vars(\E w \in Verifiers : Reconcile(w, o, k) /\ ver'[w].res = "SUCCEEDED")
  /\ \A w \in Verifiers :
       /\ WF_vars(ApplyNonSuccess(w) \/ ReadSuccess(w) \/ DuplicateSuccess(w) \/ EndVerification(w))
       /\ SF_vars(CommitSuccess(w))

FairSpec == Spec /\ Fairness

(* Of all schedules only the worker's. *)
WorkerSpec == Spec /\ WF_vars(ExpiryStep)

-----------------------------------------------------------------------------
(* Every row and every handler holds a value the schema and the code allow. *)
TypeOK ==
  /\ onHand \in [Variants -> Nat] /\ reserved \in [Variants -> Nat]
  /\ supplied \in [Variants -> Int] /\ overReleased \in [Variants -> Nat]
  /\ resv \in [Orders -> [Variants -> ResvStatus]]
  /\ due \in [Orders -> BOOLEAN]
  /\ status \in [Orders -> OrderStatus]
  /\ payStatus \in [Orders -> {"PENDING", "SUCCEEDED", "CANCELLED"}]
  /\ total \in [Orders -> SUBSET Stores]
  /\ vo \in [Orders -> [Stores -> VoStatus]]
  /\ intent \in [Orders -> IntentStatus]
  /\ intentAmt \in [Orders -> SUBSET Stores]
  /\ att \in [Orders -> [Tries -> IntentStatus]]
  /\ attAmt \in [Orders -> [Tries -> SUBSET Stores]]
  /\ call \in [Orders -> [Tries -> {"none", "primary", "fallback", "rejected", "url", "over"}]]
  /\ charge \in [Orders -> [Tries -> {"none", "open", "paid", "costly"}]]
  /\ event \in [Orders -> [Tries -> {"none", "received", "done"}]]
  /\ ver \in [Verifiers -> {Idle} \cup Jobs]
  /\ alloc \in [Orders -> [Stores -> Nat]]
  /\ review \in [Orders -> BOOLEAN]
  /\ cancelling \in [Orders -> SUBSET Stores] /\ snap \in [Orders -> SUBSET Variants]
  /\ cleared \in [Orders -> BOOLEAN] /\ tested \in [Orders -> SUBSET Tries]
  /\ lost \in [Orders -> [Tries -> BOOLEAN]]

(* The CHECK constraints on InventoryItem never fire: no transaction of the *)
(* application asks for more reserved than there is on hand.                *)
StockBounds == \A v \in Variants : reserved[v] <= onHand[v]

(* The stock ledger over all orders: what is reserved, plus what a          *)
(* cancellation took off a second time, is what HELD reservations add up to. *)
LedgerExact ==
  \A v \in Variants : reserved[v] + overReleased[v] = Cardinality(Units(v, "HELD"))

(* Units leave stock exactly when a paid order commits them. *)
StockConserved ==
  \A v \in Variants : onHand[v] + Cardinality(Units(v, "COMMITTED")) = supplied[v]

(* What is delivered is what was paid for: reservations are committed only  *)
(* for a PAID order, exactly those of the vendor orders still standing, and *)
(* some charge was captured at exactly their price.                         *)
PaidExactly ==
  \A o \in Orders :
    /\ {v \in Variants : resv[o][v] = "COMMITTED"} =
         IF status[o] = "PAID" THEN LinesOf(o, Kept(o)) ELSE {}
    /\ status[o] = "PAID" =>
         \E k \in Tries : Captured(o, k) /\ attAmt[o][k] = Kept(o)

(* The captured money of a webhook that was worked off is not lost to the   *)
(* system: the order is PAID, someone was asked to review it, or the        *)
(* attempt is one that reconciliation asks about again. The exception is an *)
(* attempt written FAILED although its charge was captured (a 4xx answer,   *)
(* or an answer older than the payment): nobody asks about that one again.  *)
WebhookLeavesTrace ==
  \A o \in Orders, k \in Tries :
    event[o][k] = "done" =>
      status[o] = "PAID" \/ review[o] \/ att[o][k] \in Unresolved \/ lost[o][k]

(* A buyer is never stuck before the reservations are due: for an open      *)
(* order with no active attempt, whatever was cancelled, refused or         *)
(* answered late, initialization accepts the intent and the reservations.   *)
RetryStaysPossible ==
  \A o \in Orders :
    IsOpenUnpaid(o) /\ ~HasActiveAttempt(o) =>
      intent[o] \in {"PENDING", "FAILED"} /\ (due[o] \/ ReservationsPayable(o))

(* A slice is cancelled under an active attempt only where the triggers had *)
(* seen that attempt, over, and a late answer brought it back: none is      *)
(* created, for either provider, between the triggers and the commit.       *)
CancelExcludesInitialization ==
  [][\A o \in Orders : Kept(o)' # Kept(o) /\ status[o] # "NONE" =>
       {k \in Tries : att[o][k] \in Active} \subseteq tested[o]]_vars

(* Every order keeps the promise of OrderPromise. *)
Phase(o) ==
  IF status[o] = "NONE" THEN "absent"
  ELSE IF status[o] = "PAID" THEN "sold"
  ELSE CASE payStatus[o] = "SUCCEEDED" -> "captured"
         [] payStatus[o] = "CANCELLED" -> "void"
         [] OTHER                      -> "open"

Promise == INSTANCE OrderPromise WITH
  stock <- onHand,
  phase <- [o \in Orders |-> Phase(o)],
  kept  <- [o \in Orders |-> Kept(o)],
  money <- [o \in Orders |-> {attAmt[o][k] : k \in {j \in Tries : Captured(o, j)}}]

PromiseKept == Promise!Spec

(* Captured money reaches the order, whatever happened to the attempt, but  *)
(* for one that was written FAILED although its charge was captured.        *)
PaidSettles ==
  \A o \in Orders, k \in Tries :
    Captured(o, k) ~> payStatus[o] = "SUCCEEDED" \/ lost[o][k]

(* Stock does not stay held behind a reservation that is due, as long as    *)
(* nothing was released twice: after that, the batch may fail at every run. *)
DueHoldsEnd ==
  \A o \in Orders, v \in Variants :
    (resv[o][v] = "HELD" /\ due[o]) ~>
      (resv[o][v] # "HELD" \/ \E w \in Variants : overReleased[w] > 0)

-----------------------------------------------------------------------------
(* What the repository says and these states refute. *)

(* reserved counts HELD reservations: nothing is released twice. *)
ReservedIsHeld == \A v \in Variants : reserved[v] = Cardinality(Units(v, "HELD"))
=============================================================================
