------------------------------- MODULE Refunds -------------------------------
(***************************************************************************)
(* Returns and refunds of a paid order. A buyer returns delivered units, a *)
(* vendor moves the return along and may put its units back in stock; a    *)
(* vendor requests a refund, an administrator has the provider execute it, *)
(* and administrators and a background task reconcile what the provider    *)
(* made of it. A clerk is a request or task at work on one refund.         *)
(*                                                                         *)
(* Returns and refund requests are single transactions: they hold the      *)
(* vendor order's row or compare and set the return's status. A refund     *)
(* that succeeded is booked in a transaction that reads two sums on the    *)
(* way, so it is split where it may wait for a row.                        *)
(***************************************************************************)
EXTENDS PaidOrder

CONSTANTS
  Returns, RefundIds,  \* returns and refunds a run may create
  Clerks,              \* concurrent requests and tasks
  Price,               \* VendorOrder.totalAmountMinor of each slice
  MaxUnit,             \* bound on prices and on units
  Decisions            \* statuses a return may be moved to in a run

VARIABLES
  returns,      \* ReturnRequest and its one ReturnItem
  restocks,     \* InventoryAdjustment rows that restock the return
  refund,       \* Refund
  asked,        \* how often the provider was asked to make the refund
  made,         \* what the provider made of it
  misread,      \* history: booked as failed, and the provider had not said so
  clerk         \* the work of a clerk

refunding == <<returns, restocks, refund, asked, made, misread, clerk>>

ReturnMoves == [
  REQUESTED       |-> {"APPROVED", "REJECTED", "CANCELLED"},
  APPROVED        |-> {"AWAITING_RETURN", "REFUND_PENDING"},
  AWAITING_RETURN |-> {"IN_TRANSIT", "RECEIVED", "CANCELLED"},
  IN_TRANSIT      |-> {"RECEIVED"},
  RECEIVED        |-> {"INSPECTING", "REFUND_PENDING"},
  INSPECTING      |-> {"REFUND_PENDING", "REJECTED"},
  REFUND_PENDING  |-> {"COMPLETED"},
  REJECTED |-> {}, COMPLETED |-> {}, CANCELLED |-> {}]
ReturnStatus == DOMAIN ReturnMoves
Restockable  == {"RECEIVED", "INSPECTING", "REFUND_PENDING", "COMPLETED"}
Closed       == {"REJECTED", "CANCELLED"}

NoReturn   == [status |-> "NONE", of |-> "none", qty |-> 0]
NoRefund   == [status |-> "NONE", of |-> "none", amt |-> 0, known |-> FALSE, for |-> "none"]
Requested(f) == refund[f] # NoRefund
NoWork     == [op |-> "free"]

ASSUME RefundsAssumption ==
  /\ IsFiniteSet(Returns) /\ IsFiniteSet(RefundIds)
  /\ MaxUnit \in Nat /\ Price \in [Slices -> 1..MaxUnit]
  /\ \A s \in Slices : Ordered[s] <= MaxUnit
  /\ Decisions \subseteq ReturnStatus

(* Units and minor units of money, one by one. *)
Open(q)          == returns[q] # NoReturn /\ returns[q].status \notin Closed
ReturnedUnits(s) ==
  {u \in Returns \X (1..MaxUnit) : returns[u[1]].of = s /\ Open(u[1]) /\ u[2] <= returns[u[1]].qty}
Coins(F)         == {c \in F \X (1..MaxUnit) : c[2] <= refund[c[1]].amt}
RefundsOf(s)     == {f \in RefundIds : refund[f].of = s}
Reserving        == {"REQUESTED", "APPROVED", "PROCESSING", "SUCCEEDED"}
Reserved(s)      == Cardinality(Coins({f \in RefundsOf(s) : refund[f].status \in Reserving}))
Succeeded        == {f \in RefundIds : refund[f].status = "SUCCEEDED"}
CapturedAmount   == Cardinality({c \in bought \X (1..MaxUnit) : c[2] <= Price[c[1]]})

RefundInit ==
  /\ returns = [q \in Returns |-> NoReturn]
  /\ restocks = [q \in Returns |-> 0]
  /\ refund = [f \in RefundIds |-> NoRefund]
  /\ asked = [f \in RefundIds |-> 0]
  /\ made = [f \in RefundIds |-> "nothing"]
  /\ misread = [f \in RefundIds |-> FALSE]
  /\ clerk = [k \in Clerks |-> NoWork]

-----------------------------------------------------------------------------
(* Returns. *)

AnyQuantity(s, n) == TRUE  \* mutation of Returnable
Returnable(s, n)  == Cardinality(ReturnedUnits(s)) + n <= Ordered[s]

CreateReturn(q, s, n) ==
  /\ returns[q] = NoReturn
  /\ s \notin writing /\ voStatus[s] = "DELIVERED"
  /\ Returnable(s, n)
  /\ returns' = [returns EXCEPT ![q] = [status |-> "REQUESTED", of |-> s, qty |-> n]]
  /\ UNCHANGED <<rows, restocks, refund, asked, made, misread, clerk>>

(* By the vendor, or by the buyer who cancels what he just requested: the  *)
(* write names the status that was read.                                   *)
TransitionReturn(q, to) ==
  /\ returns[q] # NoReturn /\ to \in ReturnMoves[returns[q].status]
  /\ returns' = [returns EXCEPT ![q].status = to]
  /\ UNCHANGED <<rows, restocks, refund, asked, made, misread, clerk>>

(* Under the return's lock, and once: an adjustment names the return item. *)
RestockAgain(q) == restocks[q] <= 1  \* mutation of NotRestocked
NotRestocked(q) == restocks[q] = 0
RestockReturn(q) ==
  /\ returns[q] # NoReturn /\ returns[q].status \in Restockable
  /\ NotRestocked(q)
  /\ restocks' = [restocks EXCEPT ![q] = @ + 1]
  /\ UNCHANGED <<rows, returns, refund, asked, made, misread, clerk>>

-----------------------------------------------------------------------------
(* Refunds: request, execution, reconciliation. *)

AnyAmount(s, n)   == TRUE  \* mutation of WithinPrice
WithinPrice(s, n) == Reserved(s) + n <= Price[s]

CreateRefundRequest(f, s, n, q) ==
  /\ ~Requested(f) /\ s \notin writing
  /\ payStatus \in {"SUCCEEDED", "PARTIALLY_REFUNDED", "REFUNDED"}
  /\ q # "none" => Open(q) /\ returns[q].of = s
  /\ WithinPrice(s, n)
  /\ refund' = [refund EXCEPT ![f] =
       [status |-> "REQUESTED", of |-> s, amt |-> n, known |-> FALSE, for |-> q]]
  /\ UNCHANGED <<rows, returns, restocks, asked, made, misread, clerk>>

(* The claim: whoever moves the row to PROCESSING asks the provider. *)
ClaimAgain(f) == refund[f].status \in {"REQUESTED", "APPROVED", "PROCESSING"}  \* mutation of Claimable
Claimable(f)  == refund[f].status \in {"REQUESTED", "APPROVED"}
ClaimRefund(k, f) ==
  /\ clerk[k] = NoWork /\ Claimable(f)
  /\ refund' = [refund EXCEPT ![f].status = "PROCESSING"]
  /\ clerk' = [clerk EXCEPT ![k] = [op |-> "ask", f |-> f]]
  /\ UNCHANGED <<rows, returns, restocks, asked, made, misread>>

(* No adapter is configured for the provider that took the payment. *)
SourceUnavailable(k) ==
  /\ clerk[k].op = "ask"
  /\ refund' = [refund EXCEPT ![clerk[k].f].status = "FAILED"]
  /\ clerk' = [clerk EXCEPT ![k] = NoWork]
  /\ UNCHANGED <<rows, returns, restocks, asked, made, misread>>

(* The provider is asked. It refuses with a 4xx, or accepts and says so, or *)
(* accepts and has paid already; and the answer may be lost either way.     *)
AskProvider(k) ==
  LET f == clerk[k].f IN
  /\ clerk[k].op = "ask"
  /\ asked' = [asked EXCEPT ![f] = @ + 1]
  /\ \E m \in {"nothing", "accepted", "paid"} :
       /\ made' = [made EXCEPT ![f] = m]
       /\ \E a \in {"unknown", m} : clerk' = [clerk EXCEPT ![k] = [op |-> "answered", f |-> f, a |-> a]]
  /\ UNCHANGED <<rows, returns, restocks, refund, misread>>

(* A refund the provider accepted is paid out or fails. *)
ProviderDecides(f) ==
  /\ made[f] = "accepted"
  /\ \E m \in {"paid", "failed"} : made' = [made EXCEPT ![f] = m]
  /\ UNCHANGED <<rows, returns, restocks, refund, asked, misread, clerk>>

IsRefused(a)       == a = "nothing"
MarkRefundFailure(k) ==
  /\ clerk[k].op = "answered" /\ IsRefused(clerk[k].a)
  /\ refund' = [refund EXCEPT ![clerk[k].f].status = "FAILED"]
  /\ clerk' = [clerk EXCEPT ![k] = NoWork]
  /\ UNCHANGED <<rows, returns, restocks, asked, made, misread>>

MarkRefundSubmitted(k) ==
  /\ clerk[k].op = "answered" /\ clerk[k].a = "accepted"
  /\ refund' = [refund EXCEPT ![clerk[k].f].known = TRUE]
  /\ clerk' = [clerk EXCEPT ![k] = NoWork]
  /\ UNCHANGED <<rows, returns, restocks, asked, made, misread>>

(* Reconciliation asks about refunds whose reference is known. The adapters *)
(* read every refused request, one over a rate limit or with an expired     *)
(* credential too, as a failed refund; a timeout or a 5xx leaves it open.   *)
ReconcileRequested(f) == refund[f].status = "REQUESTED" /\ refund[f].known  \* mutation of Reconcilable
Reconcilable(f)       == refund[f].status = "PROCESSING" /\ refund[f].known
ReconcileRefund(k, f, a) ==
  /\ clerk[k] = NoWork /\ Reconcilable(f)
  /\ a = "paid" => made[f] = "paid"
  /\ clerk' = [clerk EXCEPT ![k] = [op |-> "verified", f |-> f, a |-> a]]
  /\ UNCHANGED <<rows, returns, restocks, refund, asked, made, misread>>

(* Only the first caller moves PROCESSING on; FAILED has no other effect,   *)
(* an undecided or mismatching answer has none.                             *)
Settling(f) == \E k \in Clerks : clerk[k].op \in {"sum", "book"} /\ clerk[k].f = f
UpdateVerification(k) ==
  LET f == clerk[k].f IN
  /\ clerk[k].op = "verified" /\ ~Settling(f)
  /\ clerk[k].a \in {"failed", "pending"} \/ refund[f].status # "PROCESSING"
  /\ IF clerk[k].a = "failed" /\ refund[f].status = "PROCESSING"
     THEN /\ refund' = [refund EXCEPT ![f].status = "FAILED"]
          /\ misread' = [misread EXCEPT ![f] = made[f] # "failed"]
     ELSE UNCHANGED <<refund, misread>>
  /\ clerk' = [clerk EXCEPT ![k] = NoWork]
  /\ UNCHANGED <<rows, returns, restocks, asked, made>>

-----------------------------------------------------------------------------
(* A success is booked: the refund's row is written and stays locked, and  *)
(* the slice's refunds are summed up ...                                   *)
BeginBooking(k) ==
  LET f == clerk[k].f
      s == refund[f].of
  IN
  /\ clerk[k].op \in {"answered", "verified"} /\ clerk[k].a = "paid" /\ ~Settling(f)
  /\ refund[f].status = "PROCESSING"
  /\ clerk' = [clerk EXCEPT ![k] =
       [op |-> "sum", f |-> f,
        slice |-> Cardinality(Coins((Succeeded \cap RefundsOf(s)) \cup {f})) >= Price[s]]]
  /\ UNCHANGED <<rows, returns, restocks, refund, asked, made, misread>>

(* ... the slice is written and locked, all refunds are summed up ...      *)
AnyRefundIsAll(f)  == TRUE  \* mutation of AllRefunded
AllRefunded(f)     == Cardinality(Coins(Succeeded \cup {f})) >= CapturedAmount
BookSlice(k) ==
  LET f == clerk[k].f
      s == refund[f].of
  IN
  /\ clerk[k].op = "sum" /\ s \notin writing
  /\ writing' = writing \cup {s}
  /\ clerk' = [clerk EXCEPT ![k] =
       [op |-> "book", f |-> f, slice |-> clerk[k].slice, all |-> AllRefunded(f)]]
  /\ UNCHANGED <<bought, voStatus, orderStatus, payStatus, returns, restocks, refund, asked, made, misread>>

(* ... and the payment, the order and a return that waits for it follow.   *)
CommitBooking(k) ==
  LET j == clerk[k]
      f == j.f
      q == refund[f].for
      After(full) == IF full THEN "REFUNDED" ELSE "PARTIALLY_REFUNDED"
  IN
  /\ j.op = "book"
  /\ refund' = [refund EXCEPT ![f].status = "SUCCEEDED", ![f].known = TRUE]
  /\ voStatus' = [voStatus EXCEPT ![refund[f].of] = After(j.slice)]
  /\ payStatus' = After(j.all) /\ orderStatus' = After(j.all)
  /\ returns' = IF q # "none" /\ returns[q].status = "REFUND_PENDING"
                THEN [returns EXCEPT ![q].status = "COMPLETED"] ELSE returns
  /\ writing' = writing \ {refund[f].of}
  /\ clerk' = [clerk EXCEPT ![k] = NoWork]
  /\ UNCHANGED <<bought, restocks, asked, made, misread>>

(* The outcome is unknown and the row stays PROCESSING; or the process      *)
(* dies, and an open transaction rolls back.                               *)
EndWork(k) ==
  /\ clerk[k] # NoWork
  /\ MayDie \/ (clerk[k].op = "answered" /\ clerk[k].a = "unknown")
  /\ clerk' = [clerk EXCEPT ![k] = NoWork]
  /\ writing' = IF clerk[k].op = "book" THEN writing \ {refund[clerk[k].f].of} ELSE writing
  /\ UNCHANGED <<bought, voStatus, orderStatus, payStatus, returns, restocks, refund, asked, made, misread>>

ReturnStep(q) ==
  \/ \E s \in Slices, n \in 1..MaxUnit : CreateReturn(q, s, n)
  \/ \E to \in Decisions : TransitionReturn(q, to)
  \/ RestockReturn(q)
RefundStep(f) ==
  \/ \E s \in Slices, n \in 1..MaxUnit, q \in Returns \cup {"none"} : CreateRefundRequest(f, s, n, q)
  \/ ProviderDecides(f)
ClerkStep(k) ==
  \/ \E f \in RefundIds : ClaimRefund(k, f)
  \/ \E f \in RefundIds, a \in {"paid", "failed", "pending"} : ReconcileRefund(k, f, a)
  \/ SourceUnavailable(k)
  \/ AskProvider(k)
  \/ MarkRefundFailure(k)
  \/ MarkRefundSubmitted(k)
  \/ UpdateVerification(k)
  \/ BeginBooking(k)
  \/ BookSlice(k)
  \/ CommitBooking(k)
  \/ EndWork(k)
RefundNext ==
  \/ \E q \in Returns : ReturnStep(q)
  \/ \E f \in RefundIds : RefundStep(f)
  \/ \E k \in Clerks : ClerkStep(k)

-----------------------------------------------------------------------------
RefundTypeOK ==
  /\ \A q \in Returns :
       returns[q] \in {NoReturn} \cup [status : ReturnStatus, of : Slices, qty : 1..MaxUnit]
  /\ restocks \in [Returns -> {0, 1}]
  /\ \A f \in RefundIds :
       refund[f] \in {NoRefund} \cup
         [status : Reserving \cup {"FAILED"}, of : Slices, amt : 1..MaxUnit, known : BOOLEAN,
          for : Returns \cup {"none"}]
  /\ asked \in [RefundIds -> Nat]
  /\ made \in [RefundIds -> {"nothing", "accepted", "paid", "failed"}]
  /\ misread \in [RefundIds -> BOOLEAN]
  /\ DOMAIN clerk = Clerks

(* Concurrent requests cannot both use the same refundable value; nor does  *)
(* the provider give back more for a slice than its price, because a refund *)
(* whose outcome is unknown stays reserved. Apart from refunds booked as    *)
(* failed on a refused verification: what they reserved is free again       *)
(* although the provider may still pay them.                                *)
GivenBack(s) == Coins({f \in RefundsOf(s) : made[f] \in {"accepted", "paid"} /\ ~misread[f]})
RefundsWithinPrice ==
  \A s \in Slices : Reserved(s) <= Price[s] /\ Cardinality(GivenBack(s)) <= Price[s]

(* No economic action is repeated: whatever answers are lost and whoever   *)
(* dies, the provider is asked for a refund at most once.                   *)
AskedOnce == \A f \in RefundIds : asked[f] <= 1

(* REFUNDED is said of a slice, or of the whole payment, only when the      *)
(* provider has paid all of it back.                                       *)
PaidBack(F) == Cardinality(Coins({f \in F : made[f] = "paid"}))
RefundedIsPaidBack ==
  /\ \A s \in Slices : voStatus[s] = "REFUNDED" => PaidBack(RefundsOf(s)) >= Price[s]
  /\ payStatus = "REFUNDED" => PaidBack(RefundIds) >= CapturedAmount

(* What a slice's returns take back never exceeds what it sold, rejected    *)
(* and cancelled returns apart; nor does what they put back in stock.      *)
RestockedUnits(s) ==
  {u \in Returns \X (1..MaxUnit) \X (1..2) :
     /\ returns[u[1]].of = s /\ Open(u[1])
     /\ u[2] <= returns[u[1]].qty /\ u[3] <= restocks[u[1]]}
ReturnedWithinOrdered ==
  \A s \in Slices :
    /\ Cardinality(ReturnedUnits(s)) <= Ordered[s]
    /\ Cardinality(RestockedUnits(s)) <= Ordered[s]
=============================================================================
