--------------------------- MODULE Refunds_proofs ---------------------------
(***************************************************************************)
(* Returns and refunds, for any number of slices, returns, refunds and     *)
(* clerks.                                                                 *)
(***************************************************************************)
EXTENDS PostPurchase_proofs

Deciding == {"ask", "answered"}
Booking  == {"sum", "book"}

(* Who asks the provider, or holds its answer, works on his refund alone;  *)
(* it waits in PROCESSING and reconciliation cannot know of it. Nothing    *)
(* that comes of asking is there before the provider was asked.            *)
ClaimInv ==
  /\ \A k \in Clerks :
       /\ clerk[k].op \in Deciding =>
            /\ refund[clerk[k].f].status = "PROCESSING" /\ ~refund[clerk[k].f].known
            /\ \A x \in Clerks \ {k} : clerk[x].op \in Working => clerk[x].f # clerk[k].f
       /\ clerk[k].op = "ask" => asked[clerk[k].f] = 0
       /\ clerk[k].op \in Booking =>
            /\ refund[clerk[k].f].status = "PROCESSING"
            /\ \A x \in Clerks \ {k} : clerk[x].op \in Booking => clerk[x].f # clerk[k].f
  /\ \A f \in RefundIds :
       /\ asked[f] \in {0, 1}
       /\ refund[f].status \in {"NONE", "REQUESTED", "APPROVED"} =>
            /\ asked[f] = 0 /\ ~refund[f].known
            /\ \A k \in Clerks : clerk[k].op \in Working => clerk[k].f # f
       /\ asked[f] = 0 => made[f] = "nothing"

(* What the provider said it paid, it paid, and only that is booked; what   *)
(* it accepted or paid stays open or is booked, unless it was misread.      *)
AnswerInv ==
  /\ \A k \in Clerks :
       /\ clerk[k].op = "answered" =>
            /\ clerk[k].a = "nothing" => made[clerk[k].f] = "nothing"
            /\ clerk[k].a = "paid" => made[clerk[k].f] = "paid"
       /\ clerk[k].op = "verified" /\ clerk[k].a = "paid" => made[clerk[k].f] = "paid"
       /\ clerk[k].op \in Booking => made[clerk[k].f] = "paid"
  /\ \A f \in RefundIds :
       /\ refund[f].status = "SUCCEEDED" => made[f] = "paid"
       /\ made[f] \in {"accepted", "paid"} =>
            misread[f] \/ refund[f].status \in {"PROCESSING", "SUCCEEDED"}

(* A clerk about to write REFUNDED has counted money that was paid back. *)
SliceRepaid(s) == PaidBack(RefundsOf(s)) >= Price[s]
AllRepaid      == PaidBack(RefundIds) >= CapturedAmount
BookingBacked(k) ==
  /\ clerk[k].op \in Booking /\ clerk[k].slice =>
       \A s \in Slices : refund[clerk[k].f].of = s => SliceRepaid(s)
  /\ clerk[k].op = "book" /\ clerk[k].all => AllRepaid
RepaidInv == RefundedIsPaidBack /\ \A k \in Clerks : BookingBacked(k)

ReserveInv == \A s \in Slices : Reserved(s) <= Price[s]

-----------------------------------------------------------------------------
(* The provider is asked once.                                             *)

(* A refund that was not requested has no status and no amount. *)
LEMMA Unrequested ==
  ASSUME NEW f \in RefundIds, ~Requested(f)
  PROVE  refund[f].status = "NONE" /\ refund[f].of = "none" /\ refund[f].amt = 0 /\ ~refund[f].known
BY DEF Requested, NoRefund

LEMMA WorkOnRefunds ==
  ASSUME RefundShape
  PROVE  \A k \in Clerks : clerk[k].op \in Working => clerk[k].f \in RefundIds
BY WorkTyping

(* No clerk, no claim and no answer changes hands. *)
LEMMA ClaimUndisturbed ==
  ASSUME RefundShape, ClaimInv, UNCHANGED <<refund, clerk, asked, made>>
  PROVE  ClaimInv'
BY DEF ClaimInv

LEMMA ClaimByRequest ==
  ASSUME RefundShape, ClaimInv, NEW f \in RefundIds, NEW s \in Slices, NEW n \in 1..MaxUnit,
         NEW q \in Returns \cup {"none"}, CreateRefundRequest(f, s, n, q)
  PROVE  ClaimInv'
<1>1. /\ \A g \in RefundIds \ {f} : refund'[g] = refund[g]
      /\ refund[f].status = "NONE" /\ refund'[f].status = "REQUESTED" /\ ~refund'[f].known
  <2>1. refund'[f] = [status |-> "REQUESTED", of |-> s, amt |-> n, known |-> FALSE, for |-> q]
    BY RefundRequested
  <2>2. refund'[f].status = "REQUESTED" /\ ~refund'[f].known
    BY ONLY <2>1
  <2> QED BY <2>2, RefundRequested, Unrequested
<1>2. UNCHANGED <<clerk, asked, made>>
  BY DEF CreateRefundRequest
<1> QED BY <1>1, <1>2, WorkOnRefunds DEF ClaimInv, Working, Deciding, Booking

LEMMA ClaimByProvider ==
  ASSUME RefundShape, ClaimInv, NEW f \in RefundIds, ProviderDecides(f)
  PROVE  ClaimInv'
<1>1. /\ made[f] = "accepted" /\ \A g \in RefundIds \ {f} : made'[g] = made[g]
      /\ UNCHANGED <<refund, clerk, asked>>
  BY DEF ProviderDecides, RefundShape
<1> QED BY <1>1, WorkOnRefunds DEF ClaimInv, Working, Deciding, Booking

LEMMA ClaimByClaim ==
  ASSUME RefundShape, ClaimInv, NEW k \in Clerks, NEW f \in RefundIds, ClaimRefund(k, f)
  PROVE  ClaimInv'
<1>1. Requested(f) /\ Rewritten(f, "PROCESSING", refund[f].known)
  BY ClaimableIsRequested, StatusRewritten DEF ClaimRefund, Reserving
<1>2. /\ clerk'[k] = [op |-> "ask", f |-> f] /\ \A x \in Clerks \ {k} : clerk'[x] = clerk[x]
      /\ refund[f].status \in {"REQUESTED", "APPROVED"}
      /\ UNCHANGED <<asked, made>>
  BY ClerkAfter DEF ClaimRefund, ClerkTurns, Claimable
<1> QED BY <1>1, <1>2, WorkOnRefunds DEF ClaimInv, Working, Deciding, Booking, Rewritten

LEMMA ClaimByAsking ==
  ASSUME RefundShape, ClaimInv, NEW k \in Clerks, AskProvider(k)
  PROVE  ClaimInv'
<1>1. PICK f \in RefundIds : f = clerk[k].f
  BY WorkTyping DEF AskProvider, Working
<1>2. PICK m, a : /\ made' = [made EXCEPT ![f] = m]
                  /\ ClerkTurns(k, [op |-> "answered", f |-> f, a |-> a])
  BY <1>1 DEF AskProvider, ClerkTurns
<1>3. /\ clerk[k].op = "ask" /\ asked' = [asked EXCEPT ![f] = @ + 1] /\ UNCHANGED refund
  BY <1>1 DEF AskProvider
<1>4. /\ clerk'[k] = [op |-> "answered", f |-> f, a |-> a]
      /\ \A x \in Clerks \ {k} : clerk'[x] = clerk[x]
  BY <1>2, ClerkAfter
<1>5. /\ asked'[f] = asked[f] + 1 /\ \A g \in RefundIds \ {f} : asked'[g] = asked[g]
      /\ \A g \in RefundIds \ {f} : made'[g] = made[g]
  BY <1>2, <1>3 DEF RefundShape
<1>6. asked[f] = 0
  BY <1>1, <1>3 DEF ClaimInv
<1> QED BY <1>1, <1>3, <1>4, <1>5, <1>6, WorkOnRefunds DEF ClaimInv, Working, Deciding, Booking

(* The work of k ends with the refund in status st. *)
LEMMA ClaimByEnding ==
  ASSUME RefundShape, ClaimInv, NEW k \in Clerks, clerk[k].op \in Working,
         NEW st \in {"PROCESSING", "SUCCEEDED", "FAILED"}, NEW kn \in BOOLEAN,
         Rewritten(clerk[k].f, st, kn), ClerkTurns(k, NoWork), UNCHANGED <<asked, made>>,
         \/ clerk[k].op \in Deciding \cup Booking
         \/ \A x \in Clerks : clerk[x].op \in Deciding \cup Booking => clerk[x].f # clerk[k].f
  PROVE  ClaimInv'
<1>1. PICK f \in RefundIds : f = clerk[k].f
  BY WorkTyping
<1>2. clerk'[k] = NoWork /\ \A x \in Clerks \ {k} : clerk'[x] = clerk[x]
  BY ClerkAfter
<1>3. \A x \in Clerks \ {k} : clerk[x].op \in Deciding \cup Booking => clerk[x].f # f
  BY <1>1 DEF ClaimInv, Deciding, Booking, Working
<1>4. refund[f].status \notin {"NONE", "REQUESTED", "APPROVED"}
  BY <1>1 DEF ClaimInv
<1> QED BY <1>1, <1>2, <1>3, <1>4, WorkOnRefunds
        DEF ClaimInv, Working, Deciding, Booking, Rewritten, NoWork

(* The work of k ends, or moves on, and the rows stay. *)
LEMMA ClaimByWork ==
  ASSUME RefundShape, ClaimInv, NEW k \in Clerks, NEW j, ClerkTurns(k, j),
         UNCHANGED <<refund, asked, made>>,
         \/ j.op \notin Working
         \/ /\ j.op = "verified" /\ j.f \in RefundIds
            /\ refund[j.f].known /\ refund[j.f].status = "PROCESSING"
         \/ /\ j.op \in Booking /\ clerk[k].op \in Working /\ j.f = clerk[k].f
            /\ refund[j.f].status = "PROCESSING"
            /\ clerk[k].op \in Booking \/ ~Settling(j.f)
  PROVE  ClaimInv'
<1>1. clerk'[k] = j /\ \A x \in Clerks \ {k} : clerk'[x] = clerk[x]
  BY ClerkAfter
<1>2. CASE j.op \notin Working
  BY <1>1, <1>2, WorkOnRefunds DEF ClaimInv, Working, Deciding, Booking
<1>3. CASE /\ j.op = "verified" /\ j.f \in RefundIds
           /\ refund[j.f].known /\ refund[j.f].status = "PROCESSING"
  <2>1. \A x \in Clerks : clerk[x].op \in Deciding => clerk[x].f # j.f
    BY <1>3 DEF ClaimInv
  <2> QED BY <1>1, <1>3, <2>1, WorkOnRefunds DEF ClaimInv, Working, Deciding, Booking
<1>4. CASE /\ j.op \in Booking /\ clerk[k].op \in Working /\ j.f = clerk[k].f
           /\ refund[j.f].status = "PROCESSING"
           /\ clerk[k].op \in Booking \/ ~Settling(j.f)
  <2>1. j.f \in RefundIds /\ j.op \notin Deciding /\ j.op \in Working
    BY <1>4, WorkTyping DEF Booking, Deciding, Working
  <2>2. \A x \in Clerks \ {k} : clerk[x].op \in Booking => clerk[x].f # j.f
    BY <1>4 DEF ClaimInv, Settling, Booking
  <2>3. \A x \in Clerks \ {k} : clerk[x].op \in Deciding => clerk[x].f # j.f
    BY <1>4 DEF ClaimInv
  <2> QED BY <1>1, <1>4, <2>1, <2>2, <2>3, WorkOnRefunds DEF ClaimInv, Working, Deciding, Booking
<1> QED BY <1>2, <1>3, <1>4

LEMMA ClaimByClerk ==
  ASSUME RefundShape, ClaimInv, NEW k \in Clerks, ClerkStep(k)
  PROVE  ClaimInv'
<1> DEFINE f == clerk[k].f
<1>0. clerk[k].op \in Working => f \in RefundIds /\ Requested(f)
  BY WorkTyping
<1>1. ASSUME ClerkTurns(k, NoWork), UNCHANGED <<refund, asked, made>>
      PROVE  ClaimInv'
  BY <1>1, ClaimByWork DEF NoWork, Working
<1>2. ASSUME NEW st \in {"PROCESSING", "SUCCEEDED", "FAILED"}, NEW kn \in BOOLEAN,
             clerk[k].op \in Deciding \cup Booking, Rewritten(f, st, kn),
             ClerkTurns(k, NoWork), UNCHANGED <<asked, made>>
      PROVE  ClaimInv'
  BY <1>2, ClaimByEnding DEF Working, Deciding, Booking
<1>3. clerk[k].op \in Working => refund[f].known \in BOOLEAN
  BY <1>0, RefundTyping DEF RefundRows
<1> HIDE DEF f
<1>4. ASSUME NEW g \in RefundIds, ClaimRefund(k, g)
      PROVE  ClaimInv'
  BY <1>4, ClaimByClaim
<1>5. ASSUME NEW g \in RefundIds, NEW a \in {"paid", "failed", "pending"}, ReconcileRefund(k, g, a)
      PROVE  ClaimInv'
  <2> DEFINE j == [op |-> "verified", f |-> g, a |-> a]
  <2>1. /\ ClerkTurns(k, j) /\ UNCHANGED <<refund, asked, made>>
        /\ refund[g].known /\ refund[g].status = "PROCESSING"
    BY <1>5 DEF ReconcileRefund, ClerkTurns, Reconcilable
  <2>2. j.op = "verified" /\ j.f = g
    OBVIOUS
  <2> HIDE DEF j
  <2> QED BY <2>1, <2>2, ClaimByWork
<1>6. CASE SourceUnavailable(k) \/ MarkRefundFailure(k)
  <2>1. /\ clerk[k].op \in Deciding /\ refund' = [refund EXCEPT ![f].status = "FAILED"]
        /\ ClerkTurns(k, NoWork) /\ UNCHANGED <<asked, made>>
    BY <1>6 DEF SourceUnavailable, MarkRefundFailure, ClerkTurns, Deciding, f
  <2>2. clerk[k].op \in Working
    BY <2>1 DEF Deciding, Working
  <2>3. Rewritten(f, "FAILED", refund[f].known)
    BY <1>0, <2>1, <2>2, StatusRewritten
  <2> QED BY <1>2, <1>3, <2>1, <2>2, <2>3
<1>7. CASE MarkRefundSubmitted(k)
  <2>1. /\ clerk[k].op \in Deciding /\ refund' = [refund EXCEPT ![f].known = TRUE]
        /\ ClerkTurns(k, NoWork) /\ UNCHANGED <<asked, made>>
    BY <1>7 DEF MarkRefundSubmitted, ClerkTurns, Deciding, f
  <2>2. clerk[k].op \in Working
    BY <2>1 DEF Deciding, Working
  <2>3. Rewritten(f, refund[f].status, TRUE)
    BY <1>0, <2>1, <2>2, KnownRewritten
  <2>4. refund[f].status = "PROCESSING"
    BY <2>1 DEF ClaimInv, f
  <2> QED BY <1>2, <2>1, <2>3, <2>4
<1>8. CASE AskProvider(k)
  BY <1>8, ClaimByAsking
<1>9. CASE UpdateVerification(k)
  <2>1. /\ clerk[k].op \in Working /\ ~Settling(f) /\ ClerkTurns(k, NoWork)
        /\ UNCHANGED <<asked, made>>
    BY <1>9 DEF UpdateVerification, ClerkTurns, Working, f
  <2>2. \/ UNCHANGED refund
        \/ refund[f].status = "PROCESSING" /\ refund' = [refund EXCEPT ![f].status = "FAILED"]
    BY <1>9 DEF UpdateVerification, f
  <2>3. CASE refund' = [refund EXCEPT ![f].status = "FAILED"]
    <3>1. Rewritten(f, "FAILED", refund[f].known)
      BY <1>0, <2>1, <2>3, StatusRewritten
    <3>2. \A x \in Clerks : clerk[x].op \in Deciding \cup Booking => clerk[x].f # f
      <4>1. clerk[k].op \notin Deciding
        BY <1>9 DEF UpdateVerification, Deciding
      <4> QED BY <2>1, <4>1 DEF ClaimInv, Settling, Booking, f
    <3> QED BY <1>3, <2>1, <3>1, <3>2, ClaimByEnding DEF f
  <2> QED BY <1>1, <2>1, <2>2, <2>3
<1>10. CASE BeginBooking(k)
  <2> DEFINE s == refund[f].of
             b == Cardinality(Coins((Succeeded \cap RefundsOf(s)) \cup {f})) >= Price[s]
             j == [op |-> "sum", f |-> f, slice |-> b]
  <2>1. /\ clerk[k].op \in Working /\ refund[f].status = "PROCESSING" /\ ~Settling(f)
        /\ ClerkTurns(k, j) /\ UNCHANGED <<refund, asked, made>>
    BY <1>10 DEF BeginBooking, ClerkTurns, Working, f
  <2>2. j.op \in Booking /\ j.f = clerk[k].f
    BY DEF Booking, f
  <2> HIDE DEF j
  <2> QED BY <2>1, <2>2, ClaimByWork DEF f
<1>11. CASE BookSlice(k)
  <2> DEFINE j == [op |-> "book", f |-> f, slice |-> clerk[k].slice, all |-> AllRefunded(f)]
  <2>1. /\ clerk[k].op \in Working /\ clerk[k].op \in Booking
        /\ ClerkTurns(k, j) /\ UNCHANGED <<refund, asked, made>>
    BY <1>11 DEF BookSlice, ClerkTurns, Working, Booking, f
  <2>2. j.op \in Booking /\ j.f = clerk[k].f
    BY DEF Booking, f
  <2>3. refund[clerk[k].f].status = "PROCESSING"
    BY <2>1 DEF ClaimInv
  <2> HIDE DEF j
  <2> QED BY <2>1, <2>2, <2>3, ClaimByWork
<1>12. CASE CommitBooking(k)
  <2>1. /\ clerk[k].op \in Booking
        /\ refund' = [refund EXCEPT ![f].status = "SUCCEEDED", ![f].known = TRUE]
        /\ ClerkTurns(k, NoWork) /\ UNCHANGED <<asked, made>>
    BY <1>12 DEF CommitBooking, ClerkTurns, Booking, f
  <2>2. clerk[k].op \in Working
    BY <2>1 DEF Booking, Working
  <2>3. Rewritten(f, "SUCCEEDED", TRUE)
    BY <1>0, <2>1, <2>2, BookedRewritten
  <2> QED BY <1>2, <2>1, <2>3
<1>13. CASE EndWork(k)
  BY <1>1, <1>13 DEF EndWork, ClerkTurns
<1> QED BY <1>4, <1>5, <1>6, <1>7, <1>8, <1>9, <1>10, <1>11, <1>12, <1>13 DEF ClerkStep

LEMMA ClaimStep ==
  ASSUME Shape, ClaimInv, [Next]_vars
  PROVE  ClaimInv'
<1>1. CASE UNCHANGED <<refund, clerk, asked, made>>
  BY <1>1, ClaimUndisturbed DEF Shape
<1>2. ASSUME NEW q \in Returns, ReturnStep(q)
      PROVE  UNCHANGED <<refund, clerk, asked, made>>
  BY <1>2 DEF ReturnStep, CreateReturn, TransitionReturn, RestockReturn
<1>3. ASSUME NEW f \in RefundIds, RefundStep(f)
      PROVE  ClaimInv'
  BY <1>3, ClaimByRequest, ClaimByProvider DEF RefundStep, Shape
<1>4. ASSUME NEW k \in Clerks, ClerkStep(k)
      PROVE  ClaimInv'
  BY <1>4, ClaimByClerk DEF Shape
<1> QED BY <1>1, <1>2, <1>3, <1>4 DEF Next, RefundNext, vars, refunding

LEMMA ClaimInit == Init => ClaimInv
BY DEF Init, RefundInit, ClaimInv, NoWork, NoRefund, Deciding, Booking, Working

LEMMA Claims == Spec => []ClaimInv
<1>1. Init => ClaimInv
  BY ClaimInit
<1>2. Shape /\ ClaimInv /\ [Next]_vars => ClaimInv'
  BY ClaimStep
<1> QED BY <1>1, <1>2, Shapes, PTL DEF Spec

(* No money is given back twice: whatever answers are lost, whoever dies   *)
(* and however many clerks execute or reconcile a refund at once, the      *)
(* provider is asked to make it at most once, because only the clerk that  *)
(* moved it to PROCESSING asks, and it never returns to a claimable status. *)
THEOREM AskedAtMostOnce == Spec => []AskedOnce
<1>1. ClaimInv => AskedOnce
  BY DEF ClaimInv, AskedOnce
<1> QED BY <1>1, Claims, PTL

-----------------------------------------------------------------------------
(* What the provider answered is what it did. *)

LEMMA AnswerByRequest ==
  ASSUME RefundShape, ClaimInv, AnswerInv, NEW f \in RefundIds, NEW s \in Slices,
         NEW n \in 1..MaxUnit, NEW q \in Returns \cup {"none"}, CreateRefundRequest(f, s, n, q)
  PROVE  AnswerInv'
<1>1. /\ \A g \in RefundIds \ {f} : refund'[g] = refund[g]
      /\ refund[f].status = "NONE" /\ refund'[f].status = "REQUESTED"
  <2>1. refund'[f] = [status |-> "REQUESTED", of |-> s, amt |-> n, known |-> FALSE, for |-> q]
    BY RefundRequested
  <2>2. refund'[f].status = "REQUESTED"
    BY ONLY <2>1
  <2> QED BY <2>2, RefundRequested, Unrequested
<1>2. UNCHANGED <<clerk, asked, made, misread>>
  BY DEF CreateRefundRequest
<1>3. made[f] = "nothing"
  BY <1>1 DEF ClaimInv
<1> QED BY <1>1, <1>2, <1>3 DEF AnswerInv

LEMMA AnswerByProvider ==
  ASSUME RefundShape, ClaimInv, AnswerInv, NEW f \in RefundIds, ProviderDecides(f)
  PROVE  AnswerInv'
<1>1. /\ made[f] = "accepted" /\ made'[f] \in {"paid", "failed"}
      /\ \A g \in RefundIds \ {f} : made'[g] = made[g]
      /\ UNCHANGED <<refund, clerk, asked, misread>>
  BY DEF ProviderDecides, RefundShape
<1> QED BY <1>1, WorkOnRefunds DEF AnswerInv, Working, Booking

LEMMA AnswerByAsking ==
  ASSUME RefundShape, ClaimInv, AnswerInv, NEW k \in Clerks, AskProvider(k)
  PROVE  AnswerInv'
<1>1. PICK f \in RefundIds : f = clerk[k].f
  BY WorkTyping DEF AskProvider, Working
<1>2. PICK m, a : /\ made' = [made EXCEPT ![f] = m] /\ a \in {"unknown", m}
                  /\ ClerkTurns(k, [op |-> "answered", f |-> f, a |-> a])
  BY <1>1 DEF AskProvider, ClerkTurns
<1>3. /\ clerk[k].op = "ask" /\ UNCHANGED <<refund, misread>>
  BY <1>1 DEF AskProvider
<1>4. /\ clerk'[k] = [op |-> "answered", f |-> f, a |-> a]
      /\ \A x \in Clerks \ {k} : clerk'[x] = clerk[x]
  BY <1>2, ClerkAfter
<1>5. made'[f] = m /\ \A g \in RefundIds \ {f} : made'[g] = made[g]
  BY <1>2 DEF RefundShape
<1>6. /\ refund[f].status = "PROCESSING"
      /\ \A x \in Clerks \ {k} : clerk[x].op \in Working => clerk[x].f # f
  BY <1>1, <1>3 DEF ClaimInv, Deciding
<1> QED BY <1>2, <1>3, <1>4, <1>5, <1>6, WorkOnRefunds DEF AnswerInv, Working, Booking

(* A refund leaves its status on what the provider said of it. *)
LEMMA AnswerByEnding ==
  ASSUME RefundShape, AnswerInv, NEW k \in Clerks, NEW f \in RefundIds,
         NEW st, NEW kn, Rewritten(f, st, kn), NEW j, ClerkTurns(k, j), j.op \in {"free", "ask"},
         UNCHANGED made, \A g \in RefundIds \ {f} : misread'[g] = misread[g],
         st = "SUCCEEDED" => made[f] = "paid",
         made[f] \in {"accepted", "paid"} => misread'[f] \/ st \in {"PROCESSING", "SUCCEEDED"}
  PROVE  AnswerInv'
<1>1. clerk'[k] = j /\ \A x \in Clerks \ {k} : clerk'[x] = clerk[x]
  BY ClerkAfter
<1> QED BY <1>1, WorkOnRefunds DEF AnswerInv, Working, Booking, Rewritten

LEMMA AnswerByWork ==
  ASSUME RefundShape, AnswerInv, NEW k \in Clerks, NEW j, ClerkTurns(k, j),
         UNCHANGED <<refund, made, misread>>,
         \/ j.op = "free"
         \/ /\ j.op = "verified" /\ j.a = "paid" => made[j.f] = "paid"
            /\ j.op \in {"verified"} \cup Booking
            /\ j.op \in Booking => made[j.f] = "paid"
  PROVE  AnswerInv'
<1>1. clerk'[k] = j /\ \A x \in Clerks \ {k} : clerk'[x] = clerk[x]
  BY ClerkAfter
<1> QED BY <1>1 DEF AnswerInv, Booking

LEMMA AnswerByClerk ==
  ASSUME RefundShape, ClaimInv, AnswerInv, NEW k \in Clerks, ClerkStep(k)
  PROVE  AnswerInv'
<1> DEFINE f == clerk[k].f
<1>0. clerk[k].op \in Working => f \in RefundIds /\ Requested(f)
  BY WorkTyping
<1>1. ASSUME ClerkTurns(k, NoWork), UNCHANGED <<refund, made, misread>>
      PROVE  AnswerInv'
  BY <1>1, AnswerByWork DEF NoWork
<1>2. ASSUME NEW st, NEW kn, clerk[k].op \in Working, Rewritten(f, st, kn),
             ClerkTurns(k, NoWork), UNCHANGED made,
             \A g \in RefundIds \ {f} : misread'[g] = misread[g],
             st = "SUCCEEDED" => made[f] = "paid",
             made[f] \in {"accepted", "paid"} => misread'[f] \/ st \in {"PROCESSING", "SUCCEEDED"}
      PROVE  AnswerInv'
  <2>1. NoWork.op \in {"free", "ask"}
    BY DEF NoWork
  <2> QED BY <1>0, <1>2, <2>1, AnswerByEnding
<1> HIDE DEF f
<1>4. ASSUME NEW g \in RefundIds, ClaimRefund(k, g)
      PROVE  AnswerInv'
  <2> DEFINE j == [op |-> "ask", f |-> g]
  <2>1. /\ Requested(g) /\ Rewritten(g, "PROCESSING", refund[g].known)
        /\ ClerkTurns(k, j) /\ UNCHANGED <<made, misread>>
    BY <1>4, ClaimableIsRequested, StatusRewritten DEF ClaimRefund, Reserving, ClerkTurns
  <2>2. j.op = "ask"
    OBVIOUS
  <2> HIDE DEF j
  <2> QED BY <2>1, <2>2, AnswerByEnding
<1>5. ASSUME NEW g \in RefundIds, NEW a \in {"paid", "failed", "pending"}, ReconcileRefund(k, g, a)
      PROVE  AnswerInv'
  <2> DEFINE j == [op |-> "verified", f |-> g, a |-> a]
  <2>1. /\ ClerkTurns(k, j) /\ UNCHANGED <<refund, made, misread>>
        /\ a = "paid" => made[g] = "paid"
    BY <1>5 DEF ReconcileRefund, ClerkTurns
  <2>2. j.op = "verified" /\ j.f = g /\ j.a = a
    OBVIOUS
  <2> HIDE DEF j
  <2> QED BY <2>1, <2>2, AnswerByWork DEF Booking
<1>6. CASE SourceUnavailable(k) \/ MarkRefundFailure(k)
  <2>1. /\ clerk[k].op \in Working /\ refund' = [refund EXCEPT ![f].status = "FAILED"]
        /\ ClerkTurns(k, NoWork) /\ UNCHANGED <<made, misread>>
        /\ clerk[k].op = "ask" \/ (clerk[k].op = "answered" /\ clerk[k].a = "nothing")
    BY <1>6 DEF SourceUnavailable, MarkRefundFailure, IsRefused, ClerkTurns, Working, f
  <2>2. Rewritten(f, "FAILED", refund[f].known)
    BY <1>0, <2>1, StatusRewritten
  <2>3. made[f] = "nothing"
    BY <1>0, <2>1 DEF ClaimInv, AnswerInv, f
  <2> QED BY <1>2, <2>1, <2>2, <2>3
<1>7. CASE MarkRefundSubmitted(k)
  <2>1. /\ clerk[k].op \in Working /\ refund' = [refund EXCEPT ![f].known = TRUE]
        /\ ClerkTurns(k, NoWork) /\ UNCHANGED <<made, misread>>
    BY <1>7 DEF MarkRefundSubmitted, ClerkTurns, Working, f
  <2>2. Rewritten(f, refund[f].status, TRUE)
    BY <1>0, <2>1, KnownRewritten
  <2>3. /\ refund[f].status = "SUCCEEDED" => made[f] = "paid"
        /\ made[f] \in {"accepted", "paid"} =>
             misread[f] \/ refund[f].status \in {"PROCESSING", "SUCCEEDED"}
    BY <1>0, <2>1 DEF AnswerInv
  <2> QED BY <1>2, <2>1, <2>2, <2>3
<1>8. CASE AskProvider(k)
  BY <1>8, AnswerByAsking
<1>9. CASE UpdateVerification(k)
  <2>1. clerk[k].op \in Working /\ ClerkTurns(k, NoWork) /\ UNCHANGED made
    BY <1>9 DEF UpdateVerification, ClerkTurns, Working, f
  <2>2. \/ UNCHANGED <<refund, misread>>
        \/ /\ refund' = [refund EXCEPT ![f].status = "FAILED"]
           /\ misread' = [misread EXCEPT ![f] = made[f] # "failed"]
    BY <1>9 DEF UpdateVerification, f
  <2>3. CASE /\ refund' = [refund EXCEPT ![f].status = "FAILED"]
             /\ misread' = [misread EXCEPT ![f] = made[f] # "failed"]
    <3>1. Rewritten(f, "FAILED", refund[f].known)
      BY <1>0, <2>1, <2>3, StatusRewritten
    <3>2. misread \in [RefundIds -> BOOLEAN] /\ f \in RefundIds
      BY <1>0, <2>1 DEF RefundShape
    <3>3. /\ misread'[f] = (made[f] # "failed")
          /\ \A g \in RefundIds \ {f} : misread'[g] = misread[g]
      BY <2>3, <3>2
    <3>4. made[f] \in {"accepted", "paid"} => misread'[f]
      BY <3>3
    <3> QED BY <1>2, <2>1, <3>1, <3>3, <3>4
  <2> QED BY <1>1, <2>1, <2>2, <2>3
<1>10. CASE BeginBooking(k)
  <2> DEFINE s == refund[f].of
             b == Cardinality(Coins((Succeeded \cap RefundsOf(s)) \cup {f})) >= Price[s]
             j == [op |-> "sum", f |-> f, slice |-> b]
  <2>1. /\ clerk[k].op \in {"answered", "verified"} /\ clerk[k].a = "paid"
        /\ ClerkTurns(k, j) /\ UNCHANGED <<refund, made, misread>>
    BY <1>10 DEF BeginBooking, ClerkTurns, f
  <2>2. j.op \in Booking /\ j.op # "verified" /\ j.f = f
    BY DEF Booking
  <2>3. made[f] = "paid"
    BY <2>1 DEF AnswerInv, f
  <2> HIDE DEF j
  <2> QED BY <2>1, <2>2, <2>3, AnswerByWork
<1>11. CASE BookSlice(k)
  <2> DEFINE j == [op |-> "book", f |-> f, slice |-> clerk[k].slice, all |-> AllRefunded(f)]
  <2>1. clerk[k].op \in Booking /\ ClerkTurns(k, j) /\ UNCHANGED <<refund, made, misread>>
    BY <1>11 DEF BookSlice, ClerkTurns, Booking, f
  <2>2. j.op \in Booking /\ j.op # "verified" /\ j.f = f
    BY DEF Booking
  <2>3. made[f] = "paid"
    BY <2>1 DEF AnswerInv, f
  <2> HIDE DEF j
  <2> QED BY <2>1, <2>2, <2>3, AnswerByWork
<1>12. CASE CommitBooking(k)
  <2>1. /\ clerk[k].op \in Booking /\ clerk[k].op \in Working
        /\ refund' = [refund EXCEPT ![f].status = "SUCCEEDED", ![f].known = TRUE]
        /\ ClerkTurns(k, NoWork) /\ UNCHANGED <<made, misread>>
    BY <1>12 DEF CommitBooking, ClerkTurns, Booking, Working, f
  <2>2. Rewritten(f, "SUCCEEDED", TRUE)
    BY <1>0, <2>1, BookedRewritten
  <2>3. made[f] = "paid"
    BY <2>1 DEF AnswerInv, f
  <2> QED BY <1>2, <2>1, <2>2, <2>3
<1>13. CASE EndWork(k)
  BY <1>1, <1>13 DEF EndWork, ClerkTurns
<1> QED BY <1>4, <1>5, <1>6, <1>7, <1>8, <1>9, <1>10, <1>11, <1>12, <1>13 DEF ClerkStep

LEMMA AnswerStep ==
  ASSUME Shape, ClaimInv, AnswerInv, [Next]_vars
  PROVE  AnswerInv'
<1>1. CASE UNCHANGED <<refund, clerk, asked, made, misread>>
  BY <1>1 DEF AnswerInv
<1>2. ASSUME NEW q \in Returns, ReturnStep(q)
      PROVE  UNCHANGED <<refund, clerk, asked, made, misread>>
  BY <1>2 DEF ReturnStep, CreateReturn, TransitionReturn, RestockReturn
<1>3. ASSUME NEW f \in RefundIds, RefundStep(f)
      PROVE  AnswerInv'
  BY <1>3, AnswerByRequest, AnswerByProvider DEF RefundStep, Shape
<1>4. ASSUME NEW k \in Clerks, ClerkStep(k)
      PROVE  AnswerInv'
  BY <1>4, AnswerByClerk DEF Shape
<1> QED BY <1>1, <1>2, <1>3, <1>4 DEF Next, RefundNext, vars, refunding

LEMMA Answers == Spec => []AnswerInv
<1>1. Init => AnswerInv
  BY DEF Init, RefundInit, AnswerInv, NoWork, NoRefund, Booking
<1>2. Shape /\ ClaimInv /\ AnswerInv /\ [Next]_vars => AnswerInv'
  BY AnswerStep
<1> QED BY <1>1, <1>2, Shapes, Claims, PTL DEF Spec

-----------------------------------------------------------------------------
(* No more is given back than was paid. *)

LEMMA CoinsCountable ==
  ASSUME NEW F \in SUBSET RefundIds
  PROVE  /\ Coins(F) \in SUBSET (RefundIds \X (1..MaxUnit))
         /\ IsFiniteSet(Coins(F)) /\ Cardinality(Coins(F)) \in Nat
<1>1. Coins(F) \in SUBSET (RefundIds \X (1..MaxUnit))
  BY DEF Coins
<1> QED BY <1>1, PairsCountable, RefundsAssumption

(* Coins of refunds that are among the coins of others are not more. *)
LEMMA FewerCoins ==
  ASSUME NEW F \in SUBSET RefundIds, NEW C \in SUBSET Coins(F)
  PROVE  Cardinality(C) <= Cardinality(Coins(F)) /\ Cardinality(C) \in Nat
BY CoinsCountable, PairsBound, RefundsAssumption

HoldsPrice(s) == {f \in RefundsOf(s) : refund[f].status \in Reserving}

(* Nothing a booked, failed or known refund does reserves more.            *)
LEMMA ReservesNoMore ==
  ASSUME RefundShape, ClaimInv, NEW f \in RefundIds, NEW st, NEW kn, Requested(f),
         StatusMove(f, st), Rewritten(f, st, kn), NEW s \in Slices
  PROVE  Coins(HoldsPrice(s))' \subseteq Coins(HoldsPrice(s))
<1>1. st \in Reserving => refund[f].status \in Reserving
  BY DEF StatusMove, Reserving, Claimable, ClaimInv, Booking
<1>2. \A g \in RefundIds : refund'[g].of = refund[g].of /\ refund'[g].amt = refund[g].amt
  BY DEF Rewritten
<1>3. \A g \in RefundIds : refund'[g].status \in Reserving => refund[g].status \in Reserving
  BY <1>1 DEF Rewritten
<1> QED BY <1>2, <1>3 DEF Coins, HoldsPrice, RefundsOf

LEMMA ReserveByRequest ==
  ASSUME RefundShape, ReserveInv, NEW f \in RefundIds, NEW s \in Slices, NEW n \in 1..MaxUnit,
         NEW q \in Returns \cup {"none"}, CreateRefundRequest(f, s, n, q)
  PROVE  ReserveInv'
<1>1. /\ \A g \in RefundIds \ {f} : refund'[g] = refund[g]
      /\ refund'[f].of = s /\ refund'[f].amt = n
      /\ refund[f].status = "NONE"
  <2>1. refund'[f] = [status |-> "REQUESTED", of |-> s, amt |-> n, known |-> FALSE, for |-> q]
    BY RefundRequested
  <2>2. refund'[f].of = s /\ refund'[f].amt = n
    BY ONLY <2>1
  <2> QED BY <2>2, RefundRequested, Unrequested
<1>2. ASSUME NEW t \in Slices
      PROVE  Cardinality(Coins(HoldsPrice(t))') <= Price[t]
  <2>0. HoldsPrice(t) \in SUBSET RefundIds /\ Price[t] \in Nat
    BY RefundsAssumption DEF HoldsPrice, RefundsOf
  <2>1. CASE t = s
    <3>1. Coins(HoldsPrice(s))' \subseteq Coins(HoldsPrice(s)) \cup ({f} \X (1..n))
      BY <1>1 DEF Coins, HoldsPrice, RefundsOf
    <3>2. Cardinality(Coins(HoldsPrice(s))) + n <= Price[s]
      BY DEF CreateRefundRequest, WithinPrice, Reserved, HoldsPrice
    <3>3. /\ Coins(HoldsPrice(s)) \in SUBSET (RefundIds \X (1..MaxUnit))
          /\ Cardinality(Coins(HoldsPrice(s))) \in Nat /\ n \in Nat
      BY <2>0, <2>1, CoinsCountable
    <3>4. /\ Cardinality(Coins(HoldsPrice(s))') \in Nat
          /\ Cardinality(Coins(HoldsPrice(s))') <= Cardinality(Coins(HoldsPrice(s))) + n
      BY <3>1, <3>3, PairsAdded, RefundsAssumption
    <3> QED BY <2>0, <2>1, <3>2, <3>3, <3>4
  <2>2. CASE t # s
    <3>1. Coins(HoldsPrice(t))' \subseteq Coins(HoldsPrice(t))
      BY <1>1, <2>2 DEF Coins, HoldsPrice, RefundsOf, Reserving
    <3>2. /\ Cardinality(Coins(HoldsPrice(t))') <= Cardinality(Coins(HoldsPrice(t)))
          /\ Cardinality(Coins(HoldsPrice(t))') \in Nat
      BY <2>0, <3>1, FewerCoins
    <3>3. Cardinality(Coins(HoldsPrice(t))) <= Price[t]
      BY DEF ReserveInv, Reserved, HoldsPrice
    <3> QED BY <2>0, <3>2, <3>3, CoinsCountable
  <2> QED BY <2>1, <2>2
<1> QED BY <1>2 DEF ReserveInv, Reserved, HoldsPrice

LEMMA ReserveStep ==
  ASSUME Shape, ClaimInv, ReserveInv, [Next]_vars
  PROVE  ReserveInv'
<1>1. CASE UNCHANGED refund
  BY <1>1 DEF ReserveInv, Reserved, Coins, RefundsOf
<1>2. CASE RefundNext
  <2>1. ASSUME NEW f \in RefundIds, NEW s \in Slices, NEW n \in 1..MaxUnit,
               NEW q \in Returns \cup {"none"}, CreateRefundRequest(f, s, n, q)
        PROVE  ReserveInv'
    BY <2>1, ReserveByRequest DEF Shape
  <2>2. ASSUME NEW f \in RefundIds, NEW st, NEW kn, Requested(f), StatusMove(f, st),
               Rewritten(f, st, kn)
        PROVE  ReserveInv'
    <3>1. ASSUME NEW s \in Slices
          PROVE  Cardinality(Coins(HoldsPrice(s))') <= Price[s]
      <4>1. Coins(HoldsPrice(s))' \subseteq Coins(HoldsPrice(s))
        BY <2>2, ReservesNoMore DEF Shape
      <4>2. HoldsPrice(s) \in SUBSET RefundIds /\ Price[s] \in Nat
        BY RefundsAssumption DEF HoldsPrice, RefundsOf
      <4>3. /\ Cardinality(Coins(HoldsPrice(s))') <= Cardinality(Coins(HoldsPrice(s)))
            /\ Cardinality(Coins(HoldsPrice(s))') \in Nat
        BY <4>1, <4>2, FewerCoins
      <4>4. Cardinality(Coins(HoldsPrice(s))) <= Price[s]
        BY DEF ReserveInv, Reserved, HoldsPrice
      <4> QED BY <4>2, <4>3, <4>4, CoinsCountable
    <3> QED BY <3>1 DEF ReserveInv, Reserved, HoldsPrice
  <2> QED BY <1>1, <1>2, <2>1, <2>2, RefundKinds DEF Shape
<1> QED BY <1>1, <1>2 DEF Next, vars, refunding

LEMMA ReserveInit == Init => ReserveInv
<1> SUFFICES ASSUME Init, NEW s \in Slices
             PROVE  Reserved(s) <= Price[s]
  BY DEF ReserveInv
<1>1. \A f \in RefundIds : refund[f] = NoRefund
  BY DEF Init, RefundInit
<1>2. {f \in RefundsOf(s) : refund[f].status \in Reserving} = {}
  BY <1>1 DEF RefundsOf, NoRefund, Reserving
<1>3. Coins({}) = {}
  BY DEF Coins
<1>4. Reserved(s) = Cardinality({})
  BY <1>2, <1>3 DEF Reserved
<1>5. Price[s] \in Nat
  BY RefundsAssumption
<1> QED BY <1>4, <1>5, FS_EmptySet

(* The requested, approved, executed and succeeded refunds of a slice never *)
(* add up to more than its price, whatever the provider does: the request   *)
(* sums them up under the vendor order's lock, and a refund that failed is  *)
(* never taken up again.                                                   *)
THEOREM ReservedWithinPrice == Spec => []ReserveInv
<1>1. Init => ReserveInv
  BY ReserveInit
<1>2. Shape /\ ClaimInv /\ ReserveInv /\ [Next]_vars => ReserveInv'
  BY ReserveStep
<1> QED BY <1>1, <1>2, Shapes, Claims, PTL DEF Spec

(* What the provider accepted or paid for a slice is never more than the   *)
(* slice's price, the refunds booked as failed on a refused verification   *)
(* apart: a refund whose outcome nobody knows goes on reserving its amount, *)
(* however many answers are lost and however many clerks are at work.       *)
THEOREM NeverMoreThanPrice == Spec => []RefundsWithinPrice
<1>1. ASSUME AnswerInv, ReserveInv
      PROVE  RefundsWithinPrice
  <2> SUFFICES ASSUME NEW s \in Slices
               PROVE  Reserved(s) <= Price[s] /\ Cardinality(GivenBack(s)) <= Price[s]
    BY DEF RefundsWithinPrice
  <2>1. GivenBack(s) \in SUBSET Coins(HoldsPrice(s))
    BY <1>1 DEF GivenBack, Coins, HoldsPrice, RefundsOf, AnswerInv, Reserving
  <2>2. HoldsPrice(s) \in SUBSET RefundIds /\ Price[s] \in Nat
    BY RefundsAssumption DEF HoldsPrice, RefundsOf
  <2>3. Cardinality(Coins(HoldsPrice(s))) <= Price[s]
    BY <1>1 DEF ReserveInv, Reserved, HoldsPrice
  <2>4. /\ Cardinality(GivenBack(s)) <= Cardinality(Coins(HoldsPrice(s)))
        /\ Cardinality(GivenBack(s)) \in Nat /\ Cardinality(Coins(HoldsPrice(s))) \in Nat
    BY <2>1, <2>2, FewerCoins, CoinsCountable
  <2> QED BY <1>1, <2>2, <2>3, <2>4 DEF ReserveInv
<1> QED BY <1>1, Answers, ReservedWithinPrice, PTL

-----------------------------------------------------------------------------
(* What is called refunded was paid back. *)

(* What was paid stays paid. *)
LEMMA PaidStays ==
  ASSUME RefundShape, ClaimInv, RefundNext, NEW g \in RefundIds, made[g] = "paid"
  PROVE  made'[g] = "paid"
<1>1. ASSUME NEW q \in Returns, ReturnStep(q)
      PROVE  UNCHANGED made
  BY <1>1 DEF ReturnStep, CreateReturn, TransitionReturn, RestockReturn
<1>2. ASSUME NEW f \in RefundIds, RefundStep(f)
      PROVE  made'[g] = "paid"
  BY <1>2 DEF RefundStep, CreateRefundRequest, ProviderDecides, RefundShape
<1>3. ASSUME NEW k \in Clerks, AskProvider(k)
      PROVE  made'[g] = "paid"
  <2>1. PICK f \in RefundIds : f = clerk[k].f /\ \E m : made' = [made EXCEPT ![f] = m]
    BY <1>3, WorkTyping, ZenonT(40) DEF AskProvider, Working
  <2>2. made[f] = "nothing"
    BY <1>3, <2>1 DEF AskProvider, ClaimInv
  <2> QED BY <2>1, <2>2 DEF RefundShape
<1>4. ASSUME NEW k \in Clerks, ClerkStep(k), ~AskProvider(k)
      PROVE  UNCHANGED made
  BY <1>4 DEF ClerkStep, ClaimRefund, ReconcileRefund, SourceUnavailable, CommitBooking,
              MarkRefundFailure, MarkRefundSubmitted, UpdateVerification, BeginBooking, BookSlice,
              EndWork
<1> QED BY <1>1, <1>2, <1>3, <1>4 DEF RefundNext

LEMMA BoughtStays ==
  ASSUME Next
  PROVE  UNCHANGED bought
BY ZenonT(40) DEF Next, ShipNext, ShipStep, BeginShipment, CreateShipment, BeginReport, AppendShipmentEvent,
       ReloadShipment, ListSiblings, UpdateSlice, NothingToAggregate, CommitSlice, EndRequest,
       RefundNext, ReturnStep, RefundStep, ClerkStep, CreateReturn, TransitionReturn,
       RestockReturn, CreateRefundRequest, ProviderDecides, ClaimRefund, ReconcileRefund,
       SourceUnavailable, AskProvider, MarkRefundFailure, MarkRefundSubmitted,
       UpdateVerification, BeginBooking, BookSlice, CommitBooking, EndWork, rows

LEMMA CapturedCountable ==
  ASSUME RowsTypeOK
  PROVE  CapturedAmount \in Nat
<1>1. {c \in bought \X (1..MaxUnit) : c[2] <= Price[c[1]]} \in SUBSET (Slices \X (1..MaxUnit))
  BY DEF RowsTypeOK
<1> QED BY <1>1, PairsCountable, RefundsAssumption, SlicesAssumption DEF CapturedAmount

Paid(F) == {f \in F : made[f] = "paid"}

(* The coins that were paid back only become more. *)
LEMMA RepaidStays ==
  ASSUME RefundShape, RowsTypeOK, ClaimInv, RefundNext, UNCHANGED bought
  PROVE  /\ \A s \in Slices : SliceRepaid(s) => SliceRepaid(s)'
         /\ AllRepaid => AllRepaid'
<1>1. ASSUME NEW f \in RefundIds, NEW n \in 1..MaxUnit, made[f] = "paid", n <= refund[f].amt
      PROVE  /\ made'[f] = "paid" /\ n <= refund'[f].amt /\ refund'[f].of = refund[f].of
  <2>1. Requested(f)
    BY <1>1, Unrequested
  <2> QED BY <1>1, <2>1, PaidStays, RefundsStay
<1>2. ASSUME NEW s \in Slices
      PROVE  /\ Coins(Paid(RefundsOf(s))) \subseteq Coins(Paid(RefundsOf(s)))'
             /\ RefundsOf(s)' \subseteq RefundIds
  BY <1>1 DEF Coins, Paid, RefundsOf
<1>3. Coins(Paid(RefundIds)) \subseteq Coins(Paid(RefundIds))'
  BY <1>1 DEF Coins, Paid
<1>4. ASSUME NEW C, NEW D, C \subseteq D, D \subseteq RefundIds \X (1..MaxUnit), NEW n \in Nat,
             Cardinality(C) >= n
      PROVE  Cardinality(D) >= n
  <2>1. /\ Cardinality(C) <= Cardinality(D) /\ Cardinality(C) \in Nat
        /\ Cardinality(D) \in Nat
    BY <1>4, PairsBound, PairsCountable, RefundsAssumption
  <2> QED BY <1>4, <2>1
<1>5. ASSUME NEW s \in Slices, SliceRepaid(s)
      PROVE  SliceRepaid(s)'
  <2>1. Cardinality(Coins(Paid(RefundsOf(s)))) >= Price[s] /\ Price[s] \in Nat
    BY <1>5, RefundsAssumption DEF SliceRepaid, PaidBack, Paid
  <2>2. Coins(Paid(RefundsOf(s)))' \subseteq RefundIds \X (1..MaxUnit)
    BY <1>2 DEF Coins, Paid
  <2>3. Cardinality(Coins(Paid(RefundsOf(s)))') >= Price[s]
    BY <1>2, <1>4, <2>1, <2>2
  <2> QED BY <2>3 DEF SliceRepaid, PaidBack, Paid
<1>6. ASSUME AllRepaid
      PROVE  AllRepaid'
  <2>1. CapturedAmount \in Nat /\ CapturedAmount' = CapturedAmount
    BY CapturedCountable DEF CapturedAmount
  <2>2. Cardinality(Coins(Paid(RefundIds))) >= CapturedAmount
    BY <1>6 DEF AllRepaid, PaidBack, Paid
  <2>3. Coins(Paid(RefundIds))' \subseteq RefundIds \X (1..MaxUnit)
    BY DEF Coins, Paid
  <2>4. Cardinality(Coins(Paid(RefundIds))') >= CapturedAmount
    BY <1>3, <1>4, <2>1, <2>2, <2>3
  <2> QED BY <2>1, <2>4 DEF AllRepaid, PaidBack, Paid
<1> QED BY <1>5, <1>6

(* Nothing is called refunded, and nobody is about to call it so, but on   *)
(* the same money or on more.                                              *)
LEMMA RepaidAfter ==
  ASSUME RefundShape, RowsTypeOK, ClaimInv, RepaidInv, RefundNext, UNCHANGED bought,
         \A s \in Slices : voStatus'[s] = "REFUNDED" => voStatus[s] = "REFUNDED" \/ SliceRepaid(s),
         payStatus' = "REFUNDED" => payStatus = "REFUNDED" \/ AllRepaid,
         \A x \in Clerks : clerk'[x].op \in Booking =>
           \/ clerk'[x] = clerk[x]
           \/ /\ clerk'[x].f \in RefundIds /\ refund[clerk'[x].f] # NoRefund
              /\ clerk'[x].slice =>
                   \A s \in Slices : refund[clerk'[x].f].of = s => SliceRepaid(s)
              /\ clerk'[x].op = "book" /\ clerk'[x].all => AllRepaid
  PROVE  RepaidInv'
<1>1. /\ \A s \in Slices : SliceRepaid(s) => SliceRepaid(s)'
      /\ AllRepaid => AllRepaid'
  BY RepaidStays
<1>2. ASSUME NEW s \in Slices, voStatus'[s] = "REFUNDED"
      PROVE  SliceRepaid(s)'
  BY <1>1, <1>2 DEF RepaidInv, RefundedIsPaidBack, SliceRepaid
<1>3. payStatus' = "REFUNDED" => AllRepaid'
  BY <1>1 DEF RepaidInv, RefundedIsPaidBack, AllRepaid
<1>4. RefundedIsPaidBack'
  BY <1>2, <1>3 DEF RefundedIsPaidBack, SliceRepaid, AllRepaid
<1>5. ASSUME NEW x \in Clerks
      PROVE  BookingBacked(x)'
  <2>1. ASSUME clerk'[x].op \in Booking
        PROVE  /\ clerk'[x].f \in RefundIds /\ Requested(clerk'[x].f)
               /\ clerk'[x].slice =>
                    \A s \in Slices : refund[clerk'[x].f].of = s => SliceRepaid(s)
               /\ clerk'[x].op = "book" /\ clerk'[x].all => AllRepaid
    BY <2>1, WorkTyping DEF RepaidInv, BookingBacked, Booking, Working, Requested
  <2>2. clerk'[x].op \in Booking => refund'[clerk'[x].f].of = refund[clerk'[x].f].of
    BY <2>1, RefundsStay
  <2> QED BY <1>1, <2>1, <2>2 DEF BookingBacked, Booking
<1> QED BY <1>4, <1>5 DEF RepaidInv

(* What is summed up as succeeded was paid, and so was the refund itself.  *)
LEMMA SummedWasPaid ==
  ASSUME RefundShape, AnswerInv, NEW f \in RefundIds, made[f] = "paid", RowsTypeOK
  PROVE  /\ \A s \in Slices :
              refund[f].of = s /\ Cardinality(Coins((Succeeded \cap RefundsOf(s)) \cup {f})) >= Price[s]
                => SliceRepaid(s)
         /\ AllRefunded(f) => AllRepaid
<1>1. ASSUME NEW F \in SUBSET RefundIds, NEW G \in SUBSET F
      PROVE  /\ Cardinality(Coins(G)) <= Cardinality(Coins(F))
             /\ Cardinality(Coins(G)) \in Nat /\ Cardinality(Coins(F)) \in Nat
  <2>1. Coins(G) \in SUBSET Coins(F)
    BY DEF Coins
  <2> QED BY <2>1, FewerCoins, CoinsCountable
<1>2. ASSUME NEW s \in Slices, refund[f].of = s,
             Cardinality(Coins((Succeeded \cap RefundsOf(s)) \cup {f})) >= Price[s]
      PROVE  SliceRepaid(s)
  <2>1. (Succeeded \cap RefundsOf(s)) \cup {f} \in SUBSET Paid(RefundsOf(s))
    BY <1>2 DEF Succeeded, RefundsOf, Paid, AnswerInv
  <2>2. Paid(RefundsOf(s)) \in SUBSET RefundIds /\ Price[s] \in Nat
    BY RefundsAssumption DEF Paid, RefundsOf
  <2>3. Cardinality(Coins(Paid(RefundsOf(s)))) >= Price[s]
    BY <1>1, <1>2, <2>1, <2>2
  <2> QED BY <2>3 DEF SliceRepaid, PaidBack, Paid
<1>3. ASSUME AllRefunded(f)
      PROVE  AllRepaid
  <2>1. Succeeded \cup {f} \in SUBSET Paid(RefundIds)
    BY DEF Succeeded, Paid, AnswerInv
  <2>2. Paid(RefundIds) \in SUBSET RefundIds /\ CapturedAmount \in Nat
    BY CapturedCountable DEF Paid
  <2>3. Cardinality(Coins(Paid(RefundIds))) >= CapturedAmount
    BY <1>1, <1>3, <2>1, <2>2 DEF AllRefunded
  <2> QED BY <2>3 DEF AllRepaid, PaidBack, Paid
<1> QED BY <1>2, <1>3

LEMMA RepaidByClerk ==
  ASSUME Shape, ClaimInv, AnswerInv, RepaidInv, RefundNext, UNCHANGED bought,
         NEW k \in Clerks, ClerkStep(k)
  PROVE  RepaidInv'
<1> USE DEF Shape
<1> DEFINE f == clerk[k].f
<1>0. clerk[k].op \in Working => f \in RefundIds /\ Requested(f)
  BY WorkTyping
<1> HIDE DEF f
<1>1. ASSUME NEW j, ClerkTurns(k, j), UNCHANGED <<voStatus, payStatus>>,
             j.op \in Booking =>
               /\ j.f \in RefundIds /\ Requested(j.f)
               /\ j.slice => \A s \in Slices : refund[j.f].of = s => SliceRepaid(s)
               /\ j.op = "book" /\ j.all => AllRepaid
      PROVE  RepaidInv'
  <2>1. clerk'[k] = j /\ \A x \in Clerks \ {k} : clerk'[x] = clerk[x]
    BY <1>1, ClerkAfter
  <2> QED BY <1>1, <2>1, RepaidAfter DEF Requested
<1>2. ASSUME NEW j, ClerkTurns(k, j), UNCHANGED <<voStatus, payStatus>>, j.op \notin Booking
      PROVE  RepaidInv'
  BY <1>1, <1>2
<1>3. CASE SourceUnavailable(k) \/ MarkRefundFailure(k) \/ MarkRefundSubmitted(k)
             \/ UpdateVerification(k) \/ EndWork(k)
  <2>1. ClerkTurns(k, NoWork) /\ UNCHANGED <<voStatus, payStatus>> /\ NoWork.op \notin Booking
    BY <1>3 DEF SourceUnavailable, MarkRefundFailure, MarkRefundSubmitted, UpdateVerification,
                EndWork, ClerkTurns, rows, NoWork, Booking
  <2> QED BY <1>2, <2>1
<1>4. ASSUME NEW g \in RefundIds, ClaimRefund(k, g)
      PROVE  RepaidInv'
  <2> DEFINE j == [op |-> "ask", f |-> g]
  <2>1. ClerkTurns(k, j) /\ UNCHANGED <<voStatus, payStatus>> /\ j.op \notin Booking
    BY <1>4 DEF ClaimRefund, ClerkTurns, rows, Booking
  <2> QED BY <1>2, <2>1
<1>5. ASSUME NEW g \in RefundIds, NEW a \in {"paid", "failed", "pending"}, ReconcileRefund(k, g, a)
      PROVE  RepaidInv'
  <2> DEFINE j == [op |-> "verified", f |-> g, a |-> a]
  <2>1. ClerkTurns(k, j) /\ UNCHANGED <<voStatus, payStatus>> /\ j.op \notin Booking
    BY <1>5 DEF ReconcileRefund, ClerkTurns, rows, Booking
  <2> QED BY <1>2, <2>1
<1>6. CASE AskProvider(k)
  <2>1. PICK m, a : clerk' = [clerk EXCEPT ![k] = [op |-> "answered", f |-> f, a |-> a]]
    BY <1>6 DEF AskProvider, f
  <2> DEFINE j == [op |-> "answered", f |-> f, a |-> a]
  <2>2. ClerkTurns(k, j) /\ UNCHANGED <<voStatus, payStatus>> /\ j.op \notin Booking
    BY <1>6, <2>1 DEF AskProvider, ClerkTurns, rows, Booking
  <2> QED BY <1>2, <2>2
<1>7. CASE BeginBooking(k)
  <2> DEFINE s == refund[f].of
             b == Cardinality(Coins((Succeeded \cap RefundsOf(s)) \cup {f})) >= Price[s]
             j == [op |-> "sum", f |-> f, slice |-> b]
  <2>1. /\ clerk[k].op \in {"answered", "verified"} /\ clerk[k].a = "paid"
        /\ ClerkTurns(k, j) /\ UNCHANGED <<voStatus, payStatus>>
    BY <1>7 DEF BeginBooking, ClerkTurns, rows, f
  <2>2. f \in RefundIds /\ Requested(f) /\ made[f] = "paid"
    BY <1>0, <2>1 DEF AnswerInv, Working, f
  <2>3. \A t \in Slices : refund[f].of = t /\ b => SliceRepaid(t)
    BY <2>2, SummedWasPaid
  <2>4. j.op = "sum" /\ j.f = f /\ j.slice = b
    OBVIOUS
  <2> HIDE DEF j, b
  <2> QED BY <1>1, <2>1, <2>2, <2>3, <2>4
<1>8. CASE BookSlice(k)
  <2> DEFINE b == AllRefunded(f)
             j == [op |-> "book", f |-> f, slice |-> clerk[k].slice, all |-> b]
  <2>1. /\ clerk[k].op = "sum" /\ ClerkTurns(k, j) /\ UNCHANGED <<voStatus, payStatus>>
    BY <1>8 DEF BookSlice, ClerkTurns, f
  <2>2. f \in RefundIds /\ Requested(f) /\ made[f] = "paid"
    BY <1>0, <2>1 DEF AnswerInv, Working, Booking, f
  <2>3. b => AllRepaid
    BY <2>2, SummedWasPaid
  <2>4. clerk[k].slice => \A s \in Slices : refund[f].of = s => SliceRepaid(s)
    BY <2>1 DEF RepaidInv, BookingBacked, Booking, f
  <2>5. j.op = "book" /\ j.f = f /\ j.slice = clerk[k].slice /\ j.all = b
    OBVIOUS
  <2> HIDE DEF j, b
  <2> QED BY <1>1, <2>1, <2>2, <2>3, <2>4, <2>5
<1>9. CASE CommitBooking(k)
  <2> DEFINE After(full) == IF full THEN "REFUNDED" ELSE "PARTIALLY_REFUNDED"
  <2>1. /\ clerk[k].op = "book" /\ ClerkTurns(k, NoWork)
        /\ voStatus' = [voStatus EXCEPT ![refund[f].of] = After(clerk[k].slice)]
        /\ payStatus' = After(clerk[k].all)
    BY <1>9 DEF CommitBooking, ClerkTurns, f
  <2>2. clerk'[k].op \notin Booking /\ \A x \in Clerks \ {k} : clerk'[x] = clerk[x]
    BY <2>1, ClerkAfter DEF NoWork, Booking
  <2>3. clerk[k].slice \in BOOLEAN /\ clerk[k].all \in BOOLEAN
    BY <2>1, WorkTyping DEF Working
  <2>4. ASSUME NEW s \in Slices, voStatus'[s] = "REFUNDED"
        PROVE  voStatus[s] = "REFUNDED" \/ SliceRepaid(s)
    BY <2>1, <2>3, <2>4 DEF RepaidInv, BookingBacked, Booking, RowsTypeOK, f
  <2>5. payStatus' = "REFUNDED" => AllRepaid
    BY <2>1, <2>3 DEF RepaidInv, BookingBacked
  <2> QED BY <2>2, <2>4, <2>5, RepaidAfter
<1> QED BY <1>3, <1>4, <1>5, <1>6, <1>7, <1>8, <1>9 DEF ClerkStep

(* Shipments writes no refund, and calls no slice refunded. *)
LEMMA SliceAfterShipping ==
  ASSUME Shape, NEW w \in Staff, ShipStep(w), NEW s \in Slices, voStatus'[s] = "REFUNDED"
  PROVE  voStatus[s] = "REFUNDED"
<1>1. CASE UNCHANGED voStatus
  BY <1>1
<1>2. CASE CommitSlice(w)
  <2>1. /\ desk[w].op = "commit" /\ voStatus' = [voStatus EXCEPT ![desk[w].of] = desk[w].next]
    BY <1>2 DEF CommitSlice
  <2>2. desk[w].next \in {"DELIVERED", "PARTIALLY_SHIPPED"}
    BY <2>1 DEF Shape, ShipShape, RequestOK, NoRequest
  <2> QED BY <2>1, <2>2 DEF Shape, RowsTypeOK
<1> QED BY <1>1, <1>2 DEF ShipStep, BeginShipment, CreateShipment, BeginReport,
        AppendShipmentEvent, ReloadShipment, ListSiblings, UpdateSlice, NothingToAggregate,
        EndRequest, rows

LEMMA RepaidStep ==
  ASSUME Shape, ClaimInv, AnswerInv, RepaidInv, [Next]_vars
  PROVE  RepaidInv'
<1>1. ASSUME UNCHANGED <<bought, refund, made, clerk, payStatus>>,
             \A s \in Slices : voStatus'[s] = "REFUNDED" => voStatus[s] = "REFUNDED"
      PROVE  RepaidInv'
  <2>1. \A s \in Slices : SliceRepaid(s)' = SliceRepaid(s)
    BY <1>1 DEF SliceRepaid, PaidBack, Coins, RefundsOf
  <2>2. AllRepaid' = AllRepaid
    BY <1>1 DEF AllRepaid, PaidBack, Coins, CapturedAmount
  <2>3. RefundedIsPaidBack'
    BY <1>1, <2>1, <2>2 DEF RepaidInv, RefundedIsPaidBack, SliceRepaid, AllRepaid
  <2> QED BY <1>1, <2>1, <2>2, <2>3 DEF RepaidInv, BookingBacked
<1>2. CASE UNCHANGED vars
  BY <1>1, <1>2 DEF vars, rows, refunding
<1>3. ASSUME ShipNext, UNCHANGED refunding
      PROVE  RepaidInv'
  <2>1. PICK w \in Staff : ShipStep(w)
    BY <1>3 DEF ShipNext
  <2>2. UNCHANGED <<bought, payStatus>>
    BY <2>1 DEF ShipStep, BeginShipment, CreateShipment, BeginReport, AppendShipmentEvent,
        ReloadShipment, ListSiblings, UpdateSlice, NothingToAggregate, CommitSlice, EndRequest, rows
  <2> QED BY <1>1, <1>3, <2>1, <2>2, SliceAfterShipping DEF refunding
<1>4. ASSUME RefundNext, UNCHANGED shipping
      PROVE  RepaidInv'
  <2>1. UNCHANGED bought
    BY <1>4, BoughtStays DEF Next
  <2>2. ASSUME NEW q \in Returns, ReturnStep(q)
        PROVE  RepaidInv'
    <3>1. UNCHANGED <<refund, made, clerk, payStatus, voStatus>>
      BY <2>2 DEF ReturnStep, CreateReturn, TransitionReturn, RestockReturn, rows
    <3> QED BY <1>1, <2>1, <3>1
  <2>3. ASSUME NEW f \in RefundIds, RefundStep(f)
        PROVE  RepaidInv'
    <3>1. UNCHANGED <<clerk, payStatus, voStatus>>
      BY <2>3 DEF RefundStep, CreateRefundRequest, ProviderDecides, rows
    <3> QED BY <1>4, <2>1, <3>1, RepaidAfter DEF Shape
  <2>4. ASSUME NEW k \in Clerks, ClerkStep(k)
        PROVE  RepaidInv'
    BY <1>4, <2>1, <2>4, RepaidByClerk
  <2> QED BY <1>4, <2>2, <2>3, <2>4 DEF RefundNext
<1> QED BY <1>2, <1>3, <1>4 DEF Next

(* A slice, or the payment, is REFUNDED only when the provider has paid    *)
(* back its whole price, or the whole captured amount: a booking sums up   *)
(* while its refund's row is locked, only over refunds that were paid, and *)
(* what was paid, and what was bought, does not change before it commits.  *)
THEOREM RefundedWasPaidBack == Spec => []RefundedIsPaidBack
<1>1. Init => RepaidInv
  BY DEF Init, RowsInit, RefundInit, RepaidInv, RefundedIsPaidBack, BookingBacked, NoWork, Booking
<1>2. Shape /\ ClaimInv /\ AnswerInv /\ RepaidInv /\ [Next]_vars => RepaidInv'
  BY RepaidStep
<1>3. RepaidInv => RefundedIsPaidBack
  BY DEF RepaidInv
<1> QED BY <1>1, <1>2, <1>3, Shapes, Claims, Answers, PTL DEF Spec

-----------------------------------------------------------------------------
(* No more comes back than was sold.                                       *)

ReturnedInv == \A s \in Slices : Cardinality(ReturnedUnits(s)) <= Ordered[s]

LEMMA ReturnedCountable ==
  ASSUME NEW s \in Slices
  PROVE  /\ ReturnedUnits(s) \in SUBSET (Returns \X (1..MaxUnit))
         /\ IsFiniteSet(ReturnedUnits(s)) /\ Cardinality(ReturnedUnits(s)) \in Nat
         /\ Ordered[s] \in Nat
<1>1. ReturnedUnits(s) \in SUBSET (Returns \X (1..MaxUnit))
  BY DEF ReturnedUnits
<1> QED BY <1>1, PairsCountable, RefundsAssumption, SlicesAssumption

(* Units of returns that were open before are not more.                    *)
LEMMA ReturnedKept ==
  ASSUME ReturnedInv, NEW s \in Slices, ReturnedUnits(s)' \subseteq ReturnedUnits(s)
  PROVE  Cardinality(ReturnedUnits(s)') <= Ordered[s]
<1>1. /\ Cardinality(ReturnedUnits(s)') <= Cardinality(ReturnedUnits(s))
      /\ Cardinality(ReturnedUnits(s)') \in Nat
  BY ReturnedCountable, PairsBound, RefundsAssumption
<1> QED BY <1>1, ReturnedCountable DEF ReturnedInv

LEMMA ReturnedByRequest ==
  ASSUME RefundShape, ReturnedInv, NEW q \in Returns, NEW s \in Slices, NEW n \in 1..MaxUnit,
         CreateReturn(q, s, n)
  PROVE  ReturnedInv'
<1>1. /\ \A x \in Returns \ {q} : returns'[x] = returns[x]
      /\ returns'[q].of = s /\ returns'[q].qty = n
  <2>1. returns'[q] = [status |-> "REQUESTED", of |-> s, qty |-> n]
    BY ReturnCreated
  <2>2. returns'[q].of = s /\ returns'[q].qty = n
    BY ONLY <2>1
  <2> QED BY <2>2, ReturnCreated
<1>2. ASSUME NEW t \in Slices
      PROVE  Cardinality(ReturnedUnits(t)') <= Ordered[t]
  <2>1. CASE t = s
    <3>1. ReturnedUnits(s)' \subseteq ReturnedUnits(s) \cup ({q} \X (1..n))
      BY <1>1 DEF ReturnedUnits, Open
    <3>2. Cardinality(ReturnedUnits(s)) + n <= Ordered[s]
      BY DEF CreateReturn, Returnable
    <3>3. n \in Nat
      OBVIOUS
    <3>4. /\ Cardinality(ReturnedUnits(s)') \in Nat
          /\ Cardinality(ReturnedUnits(s)') <= Cardinality(ReturnedUnits(s)) + n
      BY <3>1, <3>3, ReturnedCountable, PairsAdded, RefundsAssumption
    <3> QED BY <2>1, <3>2, <3>3, <3>4, ReturnedCountable
  <2>2. CASE t # s
    <3>1. ReturnedUnits(t)' \subseteq ReturnedUnits(t)
      BY <1>1, <2>2 DEF ReturnedUnits, Open
    <3> QED BY <3>1, ReturnedKept
  <2> QED BY <2>1, <2>2
<1> QED BY <1>2 DEF ReturnedInv

LEMMA ReturnedStep ==
  ASSUME Shape, ReturnedInv, [Next]_vars
  PROVE  ReturnedInv'
<1>1. CASE UNCHANGED returns
  BY <1>1 DEF ReturnedInv, ReturnedUnits, Open
<1>2. CASE RefundNext
  <2>1. ASSUME NEW q \in Returns, NEW s \in Slices, NEW n \in 1..MaxUnit, CreateReturn(q, s, n)
        PROVE  ReturnedInv'
    BY <2>1, ReturnedByRequest DEF Shape
  <2>2. ASSUME NEW q \in Returns, NEW to \in ReturnStatus, Moved(q, to)
        PROVE  ReturnedInv'
    <3>1. /\ returns[q].status \notin Closed /\ returns[q] # NoReturn
          /\ \A x \in Returns \ {q} : returns'[x] = returns[x]
          /\ returns'[q].of = returns[q].of /\ returns'[q].qty = returns[q].qty
      BY <2>2, ReturnMoved DEF Shape, Moved
    <3>2. \A t \in Slices : ReturnedUnits(t)' \subseteq ReturnedUnits(t)
      BY <3>1 DEF ReturnedUnits, Open
    <3> QED BY <3>2, ReturnedKept DEF ReturnedInv
  <2> QED BY <1>1, <1>2, <2>1, <2>2, ReturnKinds DEF Shape
<1> QED BY <1>1, <1>2 DEF Next, vars, refunding

LEMMA ReturnedInit == Init => ReturnedInv
<1> SUFFICES ASSUME Init, NEW s \in Slices
             PROVE  Cardinality(ReturnedUnits(s)) <= Ordered[s]
  BY DEF ReturnedInv
<1>1. ReturnedUnits(s) = {}
  BY DEF Init, RefundInit, ReturnedUnits, Open
<1>2. Cardinality(ReturnedUnits(s)) = Cardinality({})
  BY <1>1
<1> QED BY <1>2, FS_EmptySet, ReturnedCountable

(* A restocked unit is a returned one: a return is restocked once.         *)
LEMMA RestockedWasReturned ==
  ASSUME RefundShape, NEW s \in Slices
  PROVE  /\ Cardinality(RestockedUnits(s)) <= Cardinality(ReturnedUnits(s))
         /\ Cardinality(RestockedUnits(s)) \in Nat
<1> DEFINE h == [u \in RestockedUnits(s) |-> <<u[1], u[2]>>]
<1>1. \A q \in Returns : restocks[q] \in {0, 1}
  BY DEF RefundShape
<1>2. ASSUME NEW u \in RestockedUnits(s)
      PROVE  /\ u[1] \in Returns /\ u[2] \in 1..MaxUnit /\ u = <<u[1], u[2], 1>>
             /\ <<u[1], u[2]>> \in ReturnedUnits(s)
  <2>1. PICK q \in Returns, i \in 1..MaxUnit, r \in 1..2 : u = <<q, i, r>>
    BY DEF RestockedUnits
  <2>2. u[1] = q /\ u[2] = i /\ u[3] = r
    BY <2>1
  <2>3. r <= restocks[q] /\ returns[q].of = s /\ Open(q) /\ i <= returns[q].qty
    BY <2>2 DEF RestockedUnits
  <2>4. r = 1
    BY <1>1, <2>3
  <2>5. <<q, i>> \in ReturnedUnits(s)
    BY <2>3 DEF ReturnedUnits
  <2> QED BY <2>1, <2>2, <2>4, <2>5
<1>3. h \in Injection(RestockedUnits(s), ReturnedUnits(s))
  <2>1. h \in [RestockedUnits(s) -> ReturnedUnits(s)]
    BY <1>2
  <2>2. ASSUME NEW u \in RestockedUnits(s), NEW v \in RestockedUnits(s), h[u] = h[v]
        PROVE  u = v
    <3>1. <<u[1], u[2]>> = <<v[1], v[2]>>
      BY <2>2
    <3>2. u[1] = v[1] /\ u[2] = v[2]
      BY <3>1
    <3> QED BY <1>2, <3>2
  <2> HIDE DEF h
  <2> QED BY <2>1, <2>2 DEF Injection, IsInjective
<1> HIDE DEF h
<1> QED BY <1>3, ReturnedCountable, FS_Injection, FS_CardinalityType

(* Of every slice, no more is in returns that are not rejected or cancelled *)
(* than it sold, however many buyers' requests race, and no more of it is   *)
(* put back in stock: the request counts under the vendor order's lock, no  *)
(* closed return is opened again, and a return is restocked once.           *)
THEOREM NoUnitReturnedTwice == Spec => []ReturnedWithinOrdered
<1>1. Init => ReturnedInv
  BY ReturnedInit
<1>2. Shape /\ ReturnedInv /\ [Next]_vars => ReturnedInv'
  BY ReturnedStep
<1>3. Shape /\ ReturnedInv => ReturnedWithinOrdered
  <2> SUFFICES ASSUME Shape, ReturnedInv, NEW s \in Slices
               PROVE  /\ Cardinality(ReturnedUnits(s)) <= Ordered[s]
                      /\ Cardinality(RestockedUnits(s)) <= Ordered[s]
    BY DEF ReturnedWithinOrdered
  <2>1. /\ Cardinality(RestockedUnits(s)) <= Cardinality(ReturnedUnits(s))
        /\ Cardinality(RestockedUnits(s)) \in Nat
    BY RestockedWasReturned DEF Shape
  <2> QED BY <2>1, ReturnedCountable DEF ReturnedInv
<1> QED BY <1>1, <1>2, <1>3, Shapes, PTL DEF Spec
=============================================================================
