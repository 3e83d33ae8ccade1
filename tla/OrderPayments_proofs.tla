------------------------ MODULE OrderPayments_proofs ------------------------
(***************************************************************************)
(* Invariants of OrderPayments for any number of orders, stores, variants, *)
(* attempts and concurrent handlers.                                       *)
(***************************************************************************)
EXTENDS OrderPayments, FiniteSetTheorems, TLAPS

(* The quantity of a line is a natural number no larger than MaxQty. *)
LEMMA QtyRange ==
  ASSUME NEW o \in Orders, NEW v \in Variants
  PROVE  Qty[o][v] \in Nat /\ Qty[o][v] <= MaxQty /\ StoreOf[v] \in Stores
BY CatalogAssumption

(* The units of orders can be counted. *)
LEMMA UnitsCountable ==
  ASSUME NEW A \in SUBSET (Orders \X (1..MaxQty))
  PROVE  IsFiniteSet(A) /\ Cardinality(A) \in Nat
<1>1. IsFiniteSet(1..MaxQty)
  BY CatalogAssumption, FS_Interval
<1>2. IsFiniteSet(Orders \X (1..MaxQty))
  BY <1>1, SetsAssumption, FS_Product
<1> QED BY <1>2, FS_Subset, FS_CardinalityType

(* One order's units of a variant: as many as its line asks for. *)
LEMMA LineUnits ==
  ASSUME NEW o \in Orders, NEW v \in Variants
  PROVE  Cardinality({o} \X (1..Qty[o][v])) = Qty[o][v]
<1>1. IsFiniteSet({o}) /\ Cardinality({o}) = 1
  BY FS_Singleton
<1>2. Qty[o][v] \in Nat
  BY QtyRange
<1>3. /\ IsFiniteSet(1..Qty[o][v])
      /\ Cardinality(1..Qty[o][v]) = IF 1 > Qty[o][v] THEN 0 ELSE Qty[o][v] - 1 + 1
  <2>1. 1 \in Int /\ Qty[o][v] \in Int
    BY <1>2
  <2> QED BY ONLY <2>1, FS_Interval
<1>4. Cardinality({o} \X (1..Qty[o][v])) = 1 * Qty[o][v]
  <2>1. Cardinality({o} \X (1..Qty[o][v])) = Cardinality({o}) * Cardinality(1..Qty[o][v])
    BY ONLY <1>1, <1>3, FS_Product
  <2>2. Cardinality(1..Qty[o][v]) = Qty[o][v]
    BY <1>2, <1>3
  <2> QED BY <1>1, <2>1, <2>2
<1> QED BY <1>2, <1>4

(* A reservation that enters status s brings the units of its line. *)
LEMMA UnitsGained ==
  ASSUME NEW o \in Orders, NEW v \in Variants, NEW s,
         resv[o][v] # s, resv'[o][v] = s,
         \A p \in Orders \ {o} : resv'[p][v] = resv[p][v]
  PROVE  Cardinality(Units(v, s)') = Cardinality(Units(v, s)) + Qty[o][v]
<1> DEFINE L == {o} \X (1..Qty[o][v])
<1>1. Units(v, s)' = Units(v, s) \cup L
  BY QtyRange, CatalogAssumption DEF Units
<1>2. Units(v, s) \cap L = {}
  BY DEF Units
<1>3. Units(v, s) \subseteq Orders \X (1..MaxQty) /\ L \subseteq Orders \X (1..MaxQty)
  BY QtyRange, CatalogAssumption DEF Units
<1>4. IsFiniteSet(Units(v, s)) /\ Cardinality(Units(v, s)) \in Nat /\ IsFiniteSet(L)
  BY <1>3, UnitsCountable
<1>5. Cardinality(Units(v, s) \cup L)
        = Cardinality(Units(v, s)) + Cardinality(L) - Cardinality(Units(v, s) \cap L)
  BY <1>4, FS_Union
<1>6. Cardinality(Units(v, s) \cap L) = 0
  BY <1>2, FS_EmptySet
<1>7. Cardinality(L) = Qty[o][v] /\ Qty[o][v] \in Nat
  BY LineUnits, QtyRange
<1> HIDE DEF L
<1> QED BY <1>1, <1>4, <1>5, <1>6, <1>7

(* The mirror image: a reservation that leaves status s takes them away. *)
LEMMA UnitsLost ==
  ASSUME NEW o \in Orders, NEW v \in Variants, NEW s,
         resv[o][v] = s, resv'[o][v] # s,
         \A p \in Orders \ {o} : resv'[p][v] = resv[p][v]
  PROVE  Cardinality(Units(v, s)) = Cardinality(Units(v, s)') + Qty[o][v]
<1> DEFINE L == {o} \X (1..Qty[o][v])
<1>1. Units(v, s) = Units(v, s)' \cup L
  BY QtyRange, CatalogAssumption DEF Units
<1>2. Units(v, s)' \cap L = {}
  BY DEF Units
<1>3. Units(v, s)' \subseteq Orders \X (1..MaxQty) /\ L \subseteq Orders \X (1..MaxQty)
  BY QtyRange, CatalogAssumption DEF Units
<1>4. IsFiniteSet(Units(v, s)') /\ Cardinality(Units(v, s)') \in Nat /\ IsFiniteSet(L)
  BY <1>3, UnitsCountable
<1>5. Cardinality(Units(v, s)' \cup L)
        = Cardinality(Units(v, s)') + Cardinality(L) - Cardinality(Units(v, s)' \cap L)
  BY <1>4, FS_Union
<1>6. Cardinality(Units(v, s)' \cap L) = 0
  BY <1>2, FS_EmptySet
<1>7. Cardinality(L) = Qty[o][v] /\ Qty[o][v] \in Nat
  BY LineUnits, QtyRange
<1> HIDE DEF L
<1> QED BY <1>1, <1>4, <1>5, <1>6, <1>7

(* Reservations that do not enter or leave status s do not matter to it. *)
LEMMA UnitsKept ==
  ASSUME NEW v \in Variants, NEW s,
         \A p \in Orders : (resv'[p][v] = s) <=> (resv[p][v] = s)
  PROVE  Units(v, s)' = Units(v, s)
BY DEF Units

-----------------------------------------------------------------------------
(* Typing, one lemma per kind of handler. *)

LEMMA TypingInit == Init => TypeOK
BY BoundsAssumption DEF Init, TypeOK, Idle, ResvStatus, OrderStatus, VoStatus, IntentStatus

LEMMA TypingStock ==
  ASSUME TypeOK, CheckoutStep \/ ClockStep \/ StockStep \/ ExpiryStep
  PROVE  TypeOK'
<1>1. CASE CheckoutStep
  <2>1. PICK o \in Orders : CreateCheckout(o)
    BY <1>1 DEF CheckoutStep
  <2>2. reserved' \in [Variants -> Nat]
    BY <2>1, QtyRange DEF CreateCheckout, TypeOK
  <2>3. Slices(o) \subseteq Stores
    BY QtyRange DEF Slices, Lines
  <2> QED BY <2>1, <2>2, <2>3 DEF CreateCheckout, TypeOK, ResvStatus, OrderStatus, VoStatus,
                IntentStatus, handlers, outcome, cancels, provider
<1>2. CASE ClockStep
  BY <1>2 DEF ClockStep, Deadline, TypeOK, inventory, orderRows, payments, handlers, outcome,
              cancels, provider
<1>3. CASE StockStep
  BY <1>3, BoundsAssumption DEF StockStep, AdjustInventory, TypeOK, orderRows, payments,
              handlers, outcome, cancels, provider
<1>4. CASE ExpiryStep
  <2>1. PICK B \in SUBSET (Orders \X Variants) : ExpireReservations(B)
    BY <1>4 DEF ExpiryStep
  <2>2. reserved' \in [Variants -> Nat]
    <3>1. \A v \in Variants : reserved[v] - Cardinality(UnitsInBatch(B, v)) \in Nat
      <4> TAKE v \in Variants
      <4>1. Cardinality(UnitsInBatch(B, v)) \in Nat
        BY UnitsCountable DEF UnitsInBatch
      <4>2. reserved[v] \in Nat /\ reserved[v] >= Cardinality(UnitsInBatch(B, v))
        BY <2>1 DEF ExpireReservations, TypeOK
      <4> QED BY <4>1, <4>2
    <3> QED BY <2>1, <3>1 DEF ExpireReservations
  <2>3. resv' \in [Orders -> [Variants -> ResvStatus]]
    BY <2>1 DEF ExpireReservations, TypeOK, ResvStatus
  <2> QED BY <2>1, <2>2, <2>3 DEF ExpireReservations, TypeOK, orderRows, payments, handlers,
                outcome, cancels, provider
<1> QED BY <1>1, <1>2, <1>3, <1>4

LEMMA TypingCancel ==
  ASSUME TypeOK, NEW o \in Orders, CancelStep(o)
  PROVE  TypeOK'
<1>1. ASSUME NEW S \in SUBSET Stores, BeginCancel(o, S)
      PROVE  TypeOK'
  <2>1. {v \in LinesOf(o, S) : resv[o][v] = "HELD"} \in SUBSET Variants
    BY DEF LinesOf, Lines
  <2> QED BY <1>1, <2>1 DEF BeginCancel, TypeOK, inventory, orderRows, payments, handlers,
                outcome, provider
<1>2. Kept(o) \in SUBSET Stores
  BY DEF Kept
<1>3. CASE CancelUserOrder(o)
  BY <1>1, <1>2, <1>3 DEF CancelUserOrder
<1>4. ASSUME NEW s \in Stores, CancelVendorOrder(o, s)
      PROVE  TypeOK'
  BY <1>1, <1>4 DEF CancelVendorOrder
<1>5. CASE CommitCancel(o)
  <2>1. snap[o] \subseteq Variants /\ cancelling[o] \subseteq Stores
    BY DEF TypeOK
  <2>2. reserved' \in [Variants -> Nat]
    BY <1>5, <2>1, QtyRange DEF CommitCancel, CanRelease, TypeOK
  <2>3. overReleased' \in [Variants -> Nat]
    BY <1>5, <2>1, QtyRange DEF CommitCancel, TypeOK
  <2>4. resv' \in [Orders -> [Variants -> ResvStatus]] /\ vo' \in [Orders -> [Stores -> VoStatus]]
    BY <1>5, <2>1 DEF CommitCancel, TypeOK, ResvStatus, VoStatus
  <2>5. /\ status' \in [Orders -> OrderStatus]
        /\ payStatus' \in [Orders -> {"PENDING", "SUCCEEDED", "CANCELLED"}]
        /\ intent' \in [Orders -> IntentStatus]
    <3>1. CASE Kept(o) \ cancelling[o] = {}
      <4>1. /\ status' = [status EXCEPT ![o] = "CANCELLED"]
            /\ payStatus' = [payStatus EXCEPT ![o] = "CANCELLED"]
            /\ intent' = [intent EXCEPT ![o] = IF @ = "PENDING" THEN "CANCELLED" ELSE @]
        BY <1>5, <3>1 DEF CommitCancel
      <4> QED BY <4>1 DEF TypeOK, OrderStatus, IntentStatus
    <3>2. CASE Kept(o) \ cancelling[o] # {}
      BY <1>5, <3>2 DEF CommitCancel, TypeOK, OrderStatus
    <3> QED BY <3>1, <3>2
  <2>6. AmountAfterCancel(o, Kept(o) \ cancelling[o]) \in SUBSET Stores
    BY <1>2 DEF AmountAfterCancel, TypeOK
  <2>7. total' \in [Orders -> SUBSET Stores] /\ intentAmt' \in [Orders -> SUBSET Stores]
    <3>1. CASE Kept(o) \ cancelling[o] = {}
      BY <1>5, <3>1 DEF CommitCancel, TypeOK
    <3>2. CASE Kept(o) \ cancelling[o] # {}
      <4>1. /\ total' = [total EXCEPT ![o] = Kept(o) \ cancelling[o]]
            /\ intentAmt' = [intentAmt EXCEPT ![o] = AmountAfterCancel(o, Kept(o) \ cancelling[o])]
        BY <1>5, <3>2 DEF CommitCancel
      <4> QED BY <4>1, <1>2, <2>6 DEF TypeOK
    <3> QED BY <3>1, <3>2
  <2> QED BY <1>5, <2>2, <2>3, <2>4, <2>5, <2>7 DEF CommitCancel, TypeOK, handlers, outcome,
                provider
<1>6. CASE AbortCancel(o)
  BY <1>6 DEF AbortCancel, TypeOK, inventory, orderRows, payments, handlers, outcome, provider
<1>7. CASE CheckAttempts(o)
  BY <1>7 DEF CheckAttempts, TypeOK, inventory, orderRows, payments, handlers, outcome, provider
<1> QED BY <1>3, <1>4, <1>5, <1>6, <1>7 DEF CancelStep

LEMMA TypingInitialize ==
  ASSUME TypeOK, NEW o \in Orders, NEW k \in Tries, InitializeStep(o, k) \/ Pay(o, k)
  PROVE  TypeOK'
<1> USE DEF TypeOK, IntentStatus, inventory, orderRows, outcome, cancels, provider
<1>1. CASE BeginInitialization(o, k)
  BY <1>1 DEF BeginInitialization, InsertAttempt
<1>2. CASE ProviderOpens(o, k)
  BY <1>2 DEF ProviderOpens, payments, handlers
<1>3. CASE CompleteInitialization(o, k)
  BY <1>3 DEF CompleteInitialization
<1>4. CASE MarkInitializationAmbiguous(o, k)
  BY <1>4 DEF MarkInitializationAmbiguous
<1>5. ASSUME NEW next \in {"rejected", "over"}, MarkInitializationFailed(o, k, next)
      PROVE  TypeOK'
  BY <1>5 DEF MarkInitializationFailed, IntentAfterFailure
<1>6. CASE RejectPrimary(o, k) \/ RejectFallback(o, k) \/ RejectWithoutFallback(o, k)
  BY <1>5, <1>6 DEF RejectPrimary, RejectFallback, RejectWithoutFallback
<1>7. ASSUME NEW j \in Tries, CreateFallbackAttempt(o, k, j)
      PROVE  TypeOK'
  BY <1>7 DEF CreateFallbackAttempt, InsertAttempt
<1>8. CASE EndInitialization(o, k)
  BY <1>8 DEF EndInitialization, payments
<1>9. CASE Pay(o, k)
  BY <1>9 DEF Pay, payments, handlers
<1> QED BY <1>1, <1>2, <1>3, <1>4, <1>6, <1>7, <1>8, <1>9 DEF InitializeStep

LEMMA JobTyping ==
  ASSUME TypeOK, NEW w \in Verifiers, ver[w].pc \in {"answered", "read"}
  PROVE  ver[w] \in Jobs
BY DEF TypeOK, Idle

LEMMA TypingVerify ==
  ASSUME TypeOK, NEW w \in Verifiers, VerifyStep(w)
  PROVE  TypeOK'
<1>1. ASSUME NEW o \in Orders, NEW k \in Tries, NEW e \in BOOLEAN, StartJob(w, o, k, e)
      PROVE  ver' \in [Verifiers -> {Idle} \cup Jobs]
  <2>1. Verdicts(charge[o][k]) \subseteq Answers
    BY DEF Verdicts, Answers, TypeOK
  <2> QED BY <1>1, <2>1 DEF StartJob, Jobs, TypeOK
<1>2. Finish(w) => ver' \in [Verifiers -> {Idle} \cup Jobs]
  BY DEF Finish, TypeOK
<1>3. ASSUME ver[w] \in Jobs, MarkEvent(ver[w])
      PROVE  event' \in [Orders -> [Tries -> {"none", "received", "done"}]]
  BY <1>3 DEF MarkEvent, TypeOK, Jobs
<1>4. ASSUME NEW o \in Orders, NEW k \in Tries, HandleWebhook(w, o, k)
      PROVE  TypeOK'
  BY <1>4, <1>1 DEF HandleWebhook, TypeOK, inventory, orderRows, payments, outcome, cancels
<1>5. ASSUME NEW o \in Orders, NEW k \in Tries, Reconcile(w, o, k)
      PROVE  TypeOK'
  BY <1>5, <1>1 DEF Reconcile, TypeOK, inventory, orderRows, payments, outcome, cancels, provider
<1>6. CASE ApplyNonSuccess(w)
  <2>1. ver[w] \in Jobs
    BY <1>6, JobTyping DEF ApplyNonSuccess
  <2>2. /\ att' \in [Orders -> [Tries -> IntentStatus]]
        /\ intent' \in [Orders -> IntentStatus]
    BY <1>6, <2>1 DEF ApplyNonSuccess, TypeOK, IntentStatus, Jobs
  <2> QED BY <1>6, <1>2, <1>3, <2>1, <2>2 DEF ApplyNonSuccess, TypeOK, inventory, orderRows,
                outcome, cancels
<1>7. CASE MarkMismatchEvent(w)
  <2>1. ver[w] \in Jobs
    BY <1>7, JobTyping DEF MarkMismatchEvent
  <2>2. [ver[w] EXCEPT !.ev = FALSE] \in Jobs
    BY <2>1 DEF Jobs
  <2>3. ver' \in [Verifiers -> {Idle} \cup Jobs]
    BY <1>7, <2>2 DEF MarkMismatchEvent, TypeOK
  <2> QED BY <1>7, <1>3, <2>1, <2>3 DEF MarkMismatchEvent, TypeOK, inventory, orderRows, payments,
                outcome, cancels
<1>8. CASE ApplyMismatch(w)
  <2>1. ver[w] \in Jobs
    BY <1>8, JobTyping DEF ApplyMismatch
  <2>2. /\ att' \in [Orders -> [Tries -> IntentStatus]]
        /\ intent' \in [Orders -> IntentStatus]
    BY <1>8, <2>1 DEF ApplyMismatch, TypeOK, IntentStatus, Jobs
  <2> QED BY <1>8, <1>2, <2>1, <2>2 DEF ApplyMismatch, TypeOK, inventory, orderRows, outcome,
                cancels, provider
<1>9. CASE ReadSuccess(w)
  <2>1. ver[w] \in Jobs
    BY <1>9, JobTyping DEF ReadSuccess
  <2>2. ver[w].o \in Orders /\ Kept(ver[w].o) \in SUBSET Stores
    BY <2>1 DEF Jobs, Kept
  <2>3. (IsOpenUnpaid(ver[w].o) /\ ~due[ver[w].o]) \in BOOLEAN
    BY DEF IsOpenUnpaid
  <2>4. [ver[w] EXCEPT !.pc = "read", !.payable = Kept(ver[w].o),
                       !.live = IsOpenUnpaid(ver[w].o) /\ ~due[ver[w].o]] \in Jobs
    BY <2>1, <2>2, <2>3 DEF Jobs
  <2>5. ver' \in [Verifiers -> {Idle} \cup Jobs]
    BY <1>9, <2>4 DEF ReadSuccess, TypeOK
  <2> QED BY <1>9, <2>5 DEF ReadSuccess, TypeOK, inventory, orderRows, payments, outcome, cancels,
                provider
<1>10. CASE DuplicateSuccess(w)
  <2>1. ver[w] \in Jobs
    BY <1>10, JobTyping DEF DuplicateSuccess
  <2> QED BY <1>10, <1>2, <1>3, <2>1, SMTT(30) DEF DuplicateSuccess, TypeOK, inventory, orderRows, payments,
                outcome, cancels
<1>11. CASE CommitSuccess(w)
  <2> DEFINE j == ver[w]
             sold == IF Fulfillable(j) THEN LinesOf(j.o, j.payable) ELSE {}
  <2>1. j \in Jobs /\ j.o \in Orders
    BY <1>11, JobTyping DEF CommitSuccess, Jobs
  <2>2. sold \subseteq Variants
    BY DEF LinesOf, Lines
  <2>3. \A v \in sold : Qty[j.o][v] <= onHand[v] /\ Qty[j.o][v] <= reserved[v]
    BY DEF Fulfillable
  <2>4. onHand' \in [Variants -> Nat] /\ reserved' \in [Variants -> Nat]
    <3>1. \A v \in sold : Qty[j.o][v] \in Nat
      BY <2>1, <2>2, QtyRange
    <3>2. /\ onHand' = [v \in Variants |-> IF v \in sold THEN onHand[v] - Qty[j.o][v] ELSE onHand[v]]
          /\ reserved' = [v \in Variants |-> IF v \in sold THEN reserved[v] - Qty[j.o][v] ELSE reserved[v]]
      BY <1>11 DEF CommitSuccess, OnHandAfterSale
    <3> HIDE DEF sold
    <3> QED BY <3>1, <3>2, <2>3 DEF TypeOK
  <2>5. /\ intent' \in [Orders -> IntentStatus]
        /\ att' \in [Orders -> [Tries -> IntentStatus]]
    BY <1>11, <2>1 DEF CommitSuccess, TypeOK, IntentStatus
  <2>6. alloc' \in [Orders -> [Stores -> Nat]]
    BY <1>11, <2>1 DEF CommitSuccess, TypeOK
  <2>7. resv' \in [Orders -> [Variants -> ResvStatus]]
    BY <1>11, <2>1 DEF CommitSuccess, TypeOK, ResvStatus
  <2>8. /\ payStatus' \in [Orders -> {"PENDING", "SUCCEEDED", "CANCELLED"}]
        /\ status' \in [Orders -> OrderStatus]
        /\ vo' \in [Orders -> [Stores -> VoStatus]]
        /\ review' \in [Orders -> BOOLEAN]
    <3>1. CASE sold # {}
      <4>1. /\ payStatus' = [payStatus EXCEPT ![j.o] = "SUCCEEDED"]
            /\ status' = [status EXCEPT ![j.o] = "PAID"]
            /\ vo' = [vo EXCEPT ![j.o] =
                        [s \in Stores |-> IF @[s] = "PENDING" THEN "ACCEPTED" ELSE @[s]]]
            /\ review' = review
        BY <1>11, <3>1 DEF CommitSuccess
      <4> QED BY <4>1, <2>1 DEF TypeOK, OrderStatus, VoStatus
    <3>2. CASE sold = {}
      BY <1>11, <2>1, <3>2 DEF CommitSuccess, TypeOK
    <3> QED BY <3>1, <3>2
  <2> QED BY <1>11, <1>2, <1>3, <2>1, <2>4, <2>5, <2>6, <2>7, <2>8 DEF CommitSuccess, TypeOK,
                cancels
<1>12. CASE EndVerification(w)
  BY <1>12, <1>2 DEF EndVerification, TypeOK, inventory, orderRows, payments, outcome, cancels,
                provider
<1> QED BY <1>4, <1>5, <1>6, <1>7, <1>8, <1>9, <1>10, <1>11, <1>12 DEF VerifyStep

LEMMA TypingNext == TypeOK /\ [Next]_vars => TypeOK'
<1> SUFFICES ASSUME TypeOK, [Next]_vars PROVE TypeOK'
  OBVIOUS
<1>1. CASE UNCHANGED vars
  BY <1>1 DEF vars, TypeOK, inventory, orderRows, payments, handlers, outcome, cancels, provider
<1> QED BY <1>1, TypingStock, TypingCancel, TypingInitialize, TypingVerify DEF Next

(* Every row stays within the schema; in particular neither `reserved` nor  *)
(* `onHand` goes negative, whichever handlers interleave.                   *)
THEOREM Typing == Spec => []TypeOK
BY TypingInit, TypingNext, PTL DEF Spec

-----------------------------------------------------------------------------
(***************************************************************************)
(* Stock. The ledger and the conservation law need three facts about order *)
(* rows to be inductive: an order without a row has no reservation, what   *)
(* is committed belongs to a paid order, and an order locked by a          *)
(* cancellation is open, so that nothing it writes back was committed.     *)
(***************************************************************************)
FreshOrders     == \A o \in Orders : status[o] = "NONE" => \A v \in Variants : resv[o][v] = "NONE"
CommittedIsPaid == \A o \in Orders, v \in Variants : resv[o][v] = "COMMITTED" => status[o] = "PAID"
LockedIsOpen    == \A o \in Orders : Locked(o) => IsOpenUnpaid(o)
OrderRowsOK     == FreshOrders /\ CommittedIsPaid /\ LockedIsOpen

StockInv == StockBounds /\ LedgerExact /\ StockConserved /\ OrderRowsOK

stockVars == <<inventory, resv, status, payStatus, cancelling>>

LEMMA StockInit == Init => StockInv
<1> SUFFICES ASSUME Init PROVE StockInv
  OBVIOUS
<1>1. \A v \in Variants : Units(v, "HELD") = {} /\ Units(v, "COMMITTED") = {}
  BY DEF Init, Units
<1>2. \A v \in Variants : Cardinality(Units(v, "HELD")) = 0 /\ Cardinality(Units(v, "COMMITTED")) = 0
  BY <1>1, FS_EmptySet
<1>3. StockBounds /\ LedgerExact /\ StockConserved
  BY <1>2, BoundsAssumption DEF Init, StockBounds, LedgerExact, StockConserved
<1>4. OrderRowsOK
  BY DEF Init, OrderRowsOK, FreshOrders, CommittedIsPaid, LockedIsOpen, Locked
<1> QED BY <1>3, <1>4 DEF StockInv

(* Handlers that touch none of these rows keep what is said of them. *)
LEMMA StockFrame ==
  ASSUME StockInv, UNCHANGED stockVars
  PROVE  StockInv'
BY DEF StockInv, stockVars, inventory, StockBounds, LedgerExact, StockConserved, OrderRowsOK,
       FreshOrders, CommittedIsPaid, LockedIsOpen, Locked, IsOpenUnpaid, Units

LEMMA StockCheckout ==
  ASSUME TypeOK, StockInv, NEW o \in Orders, CreateCheckout(o)
  PROVE  StockInv'
<1>1. /\ \A v \in Variants : reserved'[v] = reserved[v] + Qty[o][v]
      /\ \A v \in Lines(o) : resv'[o][v] = "HELD" /\ onHand[v] - reserved[v] >= Qty[o][v]
      /\ \A v \in Variants \ Lines(o) : resv'[o][v] = "NONE" /\ Qty[o][v] = 0
      /\ \A p \in Orders \ {o} : resv'[p] = resv[p]
      /\ \A v \in Variants : resv[o][v] = "NONE"
      /\ UNCHANGED <<onHand, supplied, overReleased, payStatus, cancelling>>
  BY QtyRange DEF CreateCheckout, InStock, Lines, TypeOK, StockInv, OrderRowsOK, FreshOrders, cancels
<1>2. StockBounds'
  <2> SUFFICES ASSUME NEW v \in Variants PROVE reserved'[v] <= onHand'[v]
    BY DEF StockBounds
  <2>1. reserved[v] \in Nat /\ onHand[v] \in Nat /\ reserved[v] <= onHand[v] /\ Qty[o][v] \in Nat
    BY QtyRange DEF TypeOK, StockInv, StockBounds
  <2> QED BY <1>1, <2>1
<1>3. LedgerExact'
  <2> SUFFICES ASSUME NEW v \in Variants
               PROVE  reserved'[v] + overReleased'[v] = Cardinality(Units(v, "HELD")')
    BY DEF LedgerExact
  <2>1. reserved[v] + overReleased[v] = Cardinality(Units(v, "HELD"))
    BY DEF StockInv, LedgerExact
  <2>2. reserved[v] \in Nat /\ overReleased[v] \in Nat /\ Qty[o][v] \in Nat
    BY QtyRange DEF TypeOK
  <2>3. CASE v \in Lines(o)
    <3>1. Cardinality(Units(v, "HELD")') = Cardinality(Units(v, "HELD")) + Qty[o][v]
      BY <1>1, <2>3, UnitsGained
    <3> QED BY <1>1, <2>1, <2>2, <3>1
  <2>4. CASE v \notin Lines(o)
    <3>1. Units(v, "HELD")' = Units(v, "HELD")
      BY <1>1, <2>4, UnitsKept
    <3> QED BY <1>1, <2>1, <2>2, <2>4, <3>1
  <2> QED BY <2>3, <2>4
<1>4. StockConserved'
  <2> SUFFICES ASSUME NEW v \in Variants
               PROVE  onHand'[v] + Cardinality(Units(v, "COMMITTED")') = supplied'[v]
    BY DEF StockConserved
  <2>1. Units(v, "COMMITTED")' = Units(v, "COMMITTED")
    BY <1>1, UnitsKept
  <2> QED BY <1>1, <2>1 DEF StockInv, StockConserved
<1>5. OrderRowsOK'
  <2>1. status'[o] = "PENDING_PAYMENT" /\ \A p \in Orders \ {o} : status'[p] = status[p]
    BY DEF CreateCheckout, TypeOK
  <2>2. ~Locked(o)
    BY DEF CreateCheckout, StockInv, OrderRowsOK, LockedIsOpen, IsOpenUnpaid
  <2> QED BY <1>1, <2>1, <2>2 DEF StockInv, OrderRowsOK, FreshOrders, CommittedIsPaid, LockedIsOpen,
                Locked, IsOpenUnpaid
<1> QED BY <1>2, <1>3, <1>4, <1>5 DEF StockInv

LEMMA StockAdjust ==
  ASSUME TypeOK, StockInv, NEW v \in Variants, NEW n \in 0..MaxOnHand, AdjustInventory(v, n)
  PROVE  StockInv'
<1>1. UNCHANGED <<reserved, overReleased, resv, status, payStatus, cancelling>>
  BY DEF AdjustInventory, orderRows, cancels
<1>2. /\ n >= reserved[v]
      /\ onHand' = [onHand EXCEPT ![v] = n]
      /\ supplied' = [supplied EXCEPT ![v] = @ + n - onHand[v]]
  BY DEF AdjustInventory
<1>3. \A u \in Variants : onHand[u] \in Nat /\ supplied[u] \in Int /\ reserved[u] \in Nat
  BY DEF TypeOK
<1>4. StockBounds'
  BY <1>1, <1>2, <1>3, BoundsAssumption DEF TypeOK, StockInv, StockBounds
<1>5. \A u \in Variants, s \in ResvStatus : Units(u, s)' = Units(u, s)
  BY <1>1 DEF Units
<1>6. LedgerExact'
  BY <1>1, <1>5 DEF LedgerExact, StockInv, ResvStatus
<1>7. StockConserved'
  <2> SUFFICES ASSUME NEW u \in Variants
               PROVE  onHand'[u] + Cardinality(Units(u, "COMMITTED")') = supplied'[u]
    BY DEF StockConserved
  <2>1. Cardinality(Units(u, "COMMITTED")') = Cardinality(Units(u, "COMMITTED"))
    BY <1>5 DEF ResvStatus
  <2>2. Cardinality(Units(u, "COMMITTED")) \in Nat
    BY UnitsCountable DEF Units
  <2>3. onHand[u] + Cardinality(Units(u, "COMMITTED")) = supplied[u]
    BY DEF StockInv, StockConserved
  <2>4. CASE u = v
    BY <1>2, <1>3, <2>1, <2>2, <2>3, <2>4, BoundsAssumption DEF TypeOK
  <2>5. CASE u # v
    BY <1>2, <2>1, <2>3, <2>5 DEF TypeOK
  <2> QED BY <2>4, <2>5
<1>8. OrderRowsOK'
  BY <1>1 DEF StockInv, OrderRowsOK, FreshOrders, CommittedIsPaid, LockedIsOpen, Locked, IsOpenUnpaid
<1> QED BY <1>4, <1>6, <1>7, <1>8 DEF StockInv

LEMMA StockExpire ==
  ASSUME TypeOK, StockInv, NEW B \in SUBSET (Orders \X Variants), ExpireReservations(B)
  PROVE  StockInv'
<1>1. /\ UNCHANGED <<onHand, supplied, overReleased, status, payStatus, cancelling>>
      /\ \A o \in Orders, v \in Variants : <<o, v>> \in B => resv[o][v] = "HELD"
      /\ \A o \in Orders, v \in Variants :
           resv'[o][v] = IF <<o, v>> \in B THEN "EXPIRED" ELSE resv[o][v]
      /\ \A v \in Variants : /\ reserved[v] >= Cardinality(UnitsInBatch(B, v))
                             /\ reserved'[v] = reserved[v] - Cardinality(UnitsInBatch(B, v))
  BY DEF ExpireReservations, Expirable, orderRows, cancels
<1>2. \A v \in Variants : Cardinality(UnitsInBatch(B, v)) \in Nat
  BY UnitsCountable DEF UnitsInBatch
<1>3. StockBounds'
  BY <1>1, <1>2 DEF TypeOK, StockInv, StockBounds
<1>4. LedgerExact'
  <2> SUFFICES ASSUME NEW v \in Variants
               PROVE  reserved'[v] + overReleased'[v] = Cardinality(Units(v, "HELD")')
    BY DEF LedgerExact
  <2>1. Units(v, "HELD")' = Units(v, "HELD") \ UnitsInBatch(B, v)
    BY <1>1 DEF Units, UnitsInBatch
  <2>2. UnitsInBatch(B, v) \subseteq Units(v, "HELD")
    BY <1>1 DEF Units, UnitsInBatch
  <2>3. IsFiniteSet(Units(v, "HELD")) /\ Cardinality(Units(v, "HELD")) \in Nat
    BY UnitsCountable DEF Units
  <2>4. Units(v, "HELD") \cap UnitsInBatch(B, v) = UnitsInBatch(B, v)
    BY <2>2
  <2>5. Cardinality(Units(v, "HELD") \ UnitsInBatch(B, v))
          = Cardinality(Units(v, "HELD")) - Cardinality(Units(v, "HELD") \cap UnitsInBatch(B, v))
    BY <2>3, FS_Difference
  <2>6. reserved[v] + overReleased[v] = Cardinality(Units(v, "HELD"))
    BY DEF StockInv, LedgerExact
  <2>7. reserved[v] \in Nat /\ overReleased[v] \in Nat /\ overReleased' = overReleased
    BY <1>1 DEF TypeOK
  <2>8. Cardinality(Units(v, "HELD")') = Cardinality(Units(v, "HELD")) - Cardinality(UnitsInBatch(B, v))
    BY <2>1, <2>4, <2>5
  <2>9. reserved'[v] = reserved[v] - Cardinality(UnitsInBatch(B, v))
    BY <1>1
  <2> QED BY <1>2, <2>3, <2>6, <2>7, <2>8, <2>9
<1>5. StockConserved'
  <2> SUFFICES ASSUME NEW v \in Variants
               PROVE  onHand'[v] + Cardinality(Units(v, "COMMITTED")') = supplied'[v]
    BY DEF StockConserved
  <2>1. Units(v, "COMMITTED")' = Units(v, "COMMITTED")
    BY <1>1, UnitsKept
  <2> QED BY <1>1, <2>1 DEF StockInv, StockConserved
<1>6. OrderRowsOK'
  <2>1. FreshOrders'
    <3> SUFFICES ASSUME NEW o \in Orders, status'[o] = "NONE", NEW v \in Variants
                 PROVE  resv'[o][v] = "NONE"
      BY DEF FreshOrders
    <3>1. resv[o][v] = "NONE"
      BY <1>1 DEF StockInv, OrderRowsOK, FreshOrders
    <3> QED BY <1>1, <3>1
  <2>2. CommittedIsPaid'
    <3> SUFFICES ASSUME NEW o \in Orders, NEW v \in Variants, resv'[o][v] = "COMMITTED"
                 PROVE  status'[o] = "PAID"
      BY DEF CommittedIsPaid
    <3>1. resv[o][v] = "COMMITTED"
      BY <1>1
    <3> QED BY <1>1, <3>1 DEF StockInv, OrderRowsOK, CommittedIsPaid
  <2>3. LockedIsOpen'
    BY <1>1 DEF StockInv, OrderRowsOK, LockedIsOpen, Locked, IsOpenUnpaid
  <2> QED BY <2>1, <2>2, <2>3 DEF OrderRowsOK
<1> QED BY <1>3, <1>4, <1>5, <1>6 DEF StockInv

(* What a cancellation does when it takes or gives up the lock. *)
LEMMA StockLock ==
  ASSUME TypeOK, StockInv, NEW o \in Orders,
         \/ \E S \in SUBSET Stores : BeginCancel(o, S)
         \/ AbortCancel(o) \/ CheckAttempts(o)
  PROVE  StockInv'
<1>1. /\ UNCHANGED <<inventory, resv, status, payStatus>>
      /\ \A p \in Orders : cancelling'[p] # {} => cancelling[p] # {} \/ IsOpenUnpaid(p)
  BY DEF BeginCancel, AbortCancel, CheckAttempts, orderRows, TypeOK
<1>2. StockBounds' /\ LedgerExact' /\ StockConserved'
  BY <1>1 DEF StockInv, StockBounds, LedgerExact, StockConserved, Units, inventory
<1>3. FreshOrders' /\ CommittedIsPaid'
  BY <1>1 DEF StockInv, OrderRowsOK, FreshOrders, CommittedIsPaid
<1>4. LockedIsOpen'
  BY <1>1 DEF StockInv, OrderRowsOK, LockedIsOpen, Locked, IsOpenUnpaid
<1> QED BY <1>2, <1>3, <1>4 DEF StockInv, OrderRowsOK

LEMMA StockCancel ==
  ASSUME TypeOK, StockInv, NEW o \in Orders, CommitCancel(o)
  PROVE  StockInv'
<1>1. snap[o] \subseteq Variants
  BY DEF TypeOK
<1>2. /\ \A v \in snap[o] : reserved[v] >= Qty[o][v] /\ reserved'[v] = reserved[v] - Qty[o][v]
      /\ \A v \in Variants \ snap[o] : reserved'[v] = reserved[v]
      /\ \A v \in snap[o] : resv'[o][v] = "RELEASED"
      /\ \A v \in Variants \ snap[o] : resv'[o][v] = resv[o][v]
      /\ \A p \in Orders \ {o} : resv'[p] = resv[p]
      /\ UNCHANGED <<onHand, supplied>>
  BY <1>1 DEF CommitCancel, CanRelease, TypeOK
<1>3. \A v \in Variants :
        overReleased'[v] = IF v \in snap[o] /\ resv[o][v] # "HELD"
                           THEN overReleased[v] + Qty[o][v] ELSE overReleased[v]
  BY DEF CommitCancel
<1>4. IsOpenUnpaid(o) /\ \A v \in Variants : resv[o][v] # "COMMITTED"
  BY DEF CommitCancel, StockInv, OrderRowsOK, LockedIsOpen, CommittedIsPaid, IsOpenUnpaid
<1>5. \A v \in Variants : /\ reserved[v] \in Nat /\ onHand[v] \in Nat /\ overReleased[v] \in Nat
                          /\ Qty[o][v] \in Nat
  BY QtyRange DEF TypeOK
<1>6. StockBounds'
  <2> SUFFICES ASSUME NEW v \in Variants PROVE reserved'[v] <= onHand'[v]
    BY DEF StockBounds
  <2>1. reserved[v] <= onHand[v]
    BY DEF StockInv, StockBounds
  <2> QED BY <1>2, <1>5, <2>1
<1>7. LedgerExact'
  <2> SUFFICES ASSUME NEW v \in Variants
               PROVE  reserved'[v] + overReleased'[v] = Cardinality(Units(v, "HELD")')
    BY DEF LedgerExact
  <2>1. /\ reserved[v] + overReleased[v] = Cardinality(Units(v, "HELD"))
        /\ Cardinality(Units(v, "HELD")') \in Nat
    BY UnitsCountable DEF StockInv, LedgerExact, Units
  <2>2. CASE v \in snap[o] /\ resv[o][v] = "HELD"
    <3>1. Cardinality(Units(v, "HELD")) = Cardinality(Units(v, "HELD")') + Qty[o][v]
      BY <1>2, <2>2, UnitsLost
    <3> QED BY <1>2, <1>3, <1>5, <2>1, <2>2, <3>1
  <2>3. CASE v \in snap[o] /\ resv[o][v] # "HELD"
    <3>1. Units(v, "HELD")' = Units(v, "HELD")
      BY <1>2, <2>3, UnitsKept
    <3> QED BY <1>2, <1>3, <1>5, <2>1, <2>3, <3>1
  <2>4. CASE v \notin snap[o]
    <3>1. Units(v, "HELD")' = Units(v, "HELD")
      BY <1>2, <2>4, UnitsKept
    <3> QED BY <1>2, <1>3, <1>5, <2>1, <2>4, <3>1
  <2> QED BY <2>2, <2>3, <2>4
<1>8. StockConserved'
  <2> SUFFICES ASSUME NEW v \in Variants
               PROVE  onHand'[v] + Cardinality(Units(v, "COMMITTED")') = supplied'[v]
    BY DEF StockConserved
  <2>1. \A p \in Orders : (resv'[p][v] = "COMMITTED") <=> (resv[p][v] = "COMMITTED")
    BY <1>2, <1>4
  <2>2. Units(v, "COMMITTED")' = Units(v, "COMMITTED")
    BY <2>1, UnitsKept
  <2> QED BY <1>2, <2>2 DEF StockInv, StockConserved
<1>9. /\ cancelling' = [cancelling EXCEPT ![o] = {}]
      /\ \A p \in Orders \ {o} : status'[p] = status[p] /\ payStatus'[p] = payStatus[p]
      /\ status'[o] \in {"CANCELLED", "PARTIALLY_CANCELLED"}
  <2>1. CASE Kept(o) \ cancelling[o] = {}
    BY <2>1 DEF CommitCancel, TypeOK
  <2>2. CASE Kept(o) \ cancelling[o] # {}
    BY <2>2 DEF CommitCancel, TypeOK
  <2> QED BY <2>1, <2>2
<1>10. FreshOrders'
  BY <1>2, <1>9 DEF FreshOrders, StockInv, OrderRowsOK
<1>11. CommittedIsPaid'
  <2> SUFFICES ASSUME NEW p \in Orders, NEW v \in Variants, resv'[p][v] = "COMMITTED"
               PROVE  status'[p] = "PAID"
    BY DEF CommittedIsPaid
  <2>1. p # o /\ resv[p][v] = "COMMITTED"
    BY <1>2, <1>4
  <2> QED BY <1>9, <2>1 DEF CommittedIsPaid, StockInv, OrderRowsOK
<1>12. LockedIsOpen'
  BY <1>9 DEF LockedIsOpen, Locked, IsOpenUnpaid, StockInv, OrderRowsOK, TypeOK
<1> QED BY <1>6, <1>7, <1>8, <1>10, <1>11, <1>12 DEF StockInv, OrderRowsOK

LEMMA StockSale ==
  ASSUME TypeOK, StockInv, NEW w \in Verifiers, CommitSuccess(w)
  PROVE  StockInv'
<1> DEFINE j == ver[w]
           o == j.o
           sold == IF Fulfillable(j) THEN LinesOf(o, j.payable) ELSE {}
<1>1. j \in Jobs /\ o \in Orders
  BY JobTyping DEF CommitSuccess, Jobs
<1>2. sold \subseteq Variants
  BY DEF LinesOf, Lines
<1>3. \A v \in sold : /\ resv[o][v] = "HELD"
                      /\ Qty[o][v] <= onHand[v] /\ Qty[o][v] <= reserved[v]
  BY DEF Fulfillable
<1>4. /\ onHand' = [v \in Variants |-> IF v \in sold THEN onHand[v] - Qty[o][v] ELSE onHand[v]]
      /\ reserved' = [v \in Variants |-> IF v \in sold THEN reserved[v] - Qty[o][v] ELSE reserved[v]]
      /\ resv' = [resv EXCEPT ![o] = [v \in Variants |-> IF v \in sold THEN "COMMITTED" ELSE @[v]]]
      /\ payStatus' = [payStatus EXCEPT ![o] = "SUCCEEDED"]
      /\ ~Locked(o)
      /\ UNCHANGED <<supplied, overReleased, cancelling>>
  BY DEF CommitSuccess, OnHandAfterSale, cancels
<1>5. \/ sold # {} /\ status' = [status EXCEPT ![o] = "PAID"]
      \/ sold = {} /\ status' = status
  BY DEF CommitSuccess
<1> HIDE DEF j, o, sold
<1>6. /\ \A v \in sold : resv'[o][v] = "COMMITTED"
      /\ \A v \in Variants \ sold : resv'[o][v] = resv[o][v]
      /\ \A p \in Orders \ {o} : resv'[p] = resv[p]
  BY <1>1, <1>2, <1>4 DEF TypeOK
<1>7. \A v \in Variants : /\ reserved[v] \in Nat /\ onHand[v] \in Nat /\ overReleased[v] \in Nat
                          /\ Qty[o][v] \in Nat
  BY <1>1, QtyRange DEF TypeOK
<1>8. StockBounds'
  <2> SUFFICES ASSUME NEW v \in Variants PROVE reserved'[v] <= onHand'[v]
    BY DEF StockBounds
  <2>1. reserved[v] <= onHand[v]
    BY DEF StockInv, StockBounds
  <2> QED BY <1>4, <1>7, <2>1
<1>9. LedgerExact'
  <2> SUFFICES ASSUME NEW v \in Variants
               PROVE  reserved'[v] + overReleased'[v] = Cardinality(Units(v, "HELD")')
    BY DEF LedgerExact
  <2>1. /\ reserved[v] + overReleased[v] = Cardinality(Units(v, "HELD"))
        /\ Cardinality(Units(v, "HELD")') \in Nat
    BY UnitsCountable DEF StockInv, LedgerExact, Units
  <2>2. CASE v \in sold
    <3>1. Cardinality(Units(v, "HELD")) = Cardinality(Units(v, "HELD")') + Qty[o][v]
      BY <1>1, <1>3, <1>6, <2>2, UnitsLost
    <3> QED BY <1>4, <1>7, <2>1, <2>2, <3>1
  <2>3. CASE v \notin sold
    <3>1. \A p \in Orders : resv'[p][v] = resv[p][v]
      BY <1>6, <2>3
    <3>2. Units(v, "HELD")' = Units(v, "HELD")
      BY <3>1, UnitsKept
    <3> QED BY <1>4, <2>1, <2>3, <3>2
  <2> QED BY <2>2, <2>3
<1>10. StockConserved'
  <2> SUFFICES ASSUME NEW v \in Variants
               PROVE  onHand'[v] + Cardinality(Units(v, "COMMITTED")') = supplied'[v]
    BY DEF StockConserved
  <2>1. /\ onHand[v] + Cardinality(Units(v, "COMMITTED")) = supplied[v]
        /\ Cardinality(Units(v, "COMMITTED")) \in Nat
    BY UnitsCountable DEF StockInv, StockConserved, Units
  <2>2. CASE v \in sold
    <3>1. Cardinality(Units(v, "COMMITTED")') = Cardinality(Units(v, "COMMITTED")) + Qty[o][v]
      BY <1>1, <1>3, <1>6, <2>2, UnitsGained
    <3> QED BY <1>4, <1>7, <2>1, <2>2, <3>1
  <2>3. CASE v \notin sold
    <3>1. \A p \in Orders : resv'[p][v] = resv[p][v]
      BY <1>6, <2>3
    <3>2. Units(v, "COMMITTED")' = Units(v, "COMMITTED")
      BY <3>1, UnitsKept
    <3> QED BY <1>4, <2>1, <2>3, <3>2
  <2> QED BY <2>2, <2>3
<1>11. FreshOrders'
  <2> SUFFICES ASSUME NEW p \in Orders, status'[p] = "NONE", NEW v \in Variants
               PROVE  resv'[p][v] = "NONE"
    BY DEF FreshOrders
  <2>1. status[p] = "NONE"
    BY <1>1, <1>5 DEF TypeOK
  <2>2. \A u \in Variants : resv[p][u] = "NONE"
    BY <2>1 DEF StockInv, OrderRowsOK, FreshOrders
  <2> QED BY <1>2, <1>3, <1>6, <2>2
<1>12. CommittedIsPaid'
  <2> SUFFICES ASSUME NEW p \in Orders, NEW v \in Variants, resv'[p][v] = "COMMITTED"
               PROVE  status'[p] = "PAID"
    BY DEF CommittedIsPaid
  <2>1. CASE p = o /\ sold # {}
    BY <1>1, <1>5, <2>1 DEF TypeOK
  <2>2. CASE p # o \/ sold = {}
    <3>1. resv[p][v] = "COMMITTED"
      BY <1>6, <2>2
    <3> QED BY <1>5, <2>2, <3>1 DEF StockInv, OrderRowsOK, CommittedIsPaid, TypeOK
  <2> QED BY <2>1, <2>2
<1>13. LockedIsOpen'
  BY <1>1, <1>4, <1>5 DEF LockedIsOpen, Locked, IsOpenUnpaid, StockInv, OrderRowsOK, TypeOK
<1> QED BY <1>8, <1>9, <1>10, <1>11, <1>12, <1>13 DEF StockInv, OrderRowsOK

LEMMA StockNext == TypeOK /\ StockInv /\ [Next]_vars => StockInv'
<1> SUFFICES ASSUME TypeOK, StockInv, [Next]_vars PROVE StockInv'
  OBVIOUS
<1>1. CASE UNCHANGED vars
  BY <1>1, StockFrame DEF vars, stockVars, orderRows, cancels
<1>2. CASE CheckoutStep \/ StockStep \/ ExpiryStep
  BY <1>2, StockCheckout, StockAdjust, StockExpire DEF CheckoutStep, StockStep, ExpiryStep
<1>3. CASE ClockStep
  BY <1>3, StockFrame DEF ClockStep, Deadline, stockVars, orderRows, cancels
<1>4. ASSUME NEW o \in Orders, CancelStep(o)
      PROVE  StockInv'
  <2>1. ASSUME CancelUserOrder(o) \/ \E s \in Stores : CancelVendorOrder(o, s)
        PROVE  \E S \in SUBSET Stores : BeginCancel(o, S)
    BY <2>1 DEF CancelUserOrder, CancelVendorOrder, Kept
  <2> QED BY <1>4, <2>1, StockLock, StockCancel DEF CancelStep
<1>5. ASSUME NEW o \in Orders, NEW k \in Tries, InitializeStep(o, k) \/ Pay(o, k)
      PROVE  StockInv'
  BY <1>5, StockFrame DEF InitializeStep, BeginInitialization, ProviderOpens,
     CompleteInitialization, MarkInitializationAmbiguous, MarkInitializationFailed, RejectPrimary,
     RejectFallback, RejectWithoutFallback, CreateFallbackAttempt, EndInitialization, Pay,
     stockVars, orderRows, cancels
<1>6. ASSUME NEW w \in Verifiers, VerifyStep(w)
      PROVE  StockInv'
  <2>1. CASE CommitSuccess(w)
    BY <2>1, StockSale
  <2>2. CASE ~CommitSuccess(w)
    BY <1>6, <2>2, StockFrame DEF VerifyStep, HandleWebhook, Reconcile, ApplyNonSuccess,
       MarkMismatchEvent, ApplyMismatch, ReadSuccess, DuplicateSuccess, EndVerification,
       stockVars, orderRows, cancels
  <2> QED BY <2>1, <2>2
<1> QED BY <1>1, <1>2, <1>3, <1>4, <1>5, <1>6 DEF Next

LEMMA StockAlways == Spec => []StockInv
<1>1. Init => TypeOK /\ StockInv
  BY TypingInit, StockInit
<1>2. TypeOK /\ StockInv /\ [Next]_vars => (TypeOK /\ StockInv)'
  BY TypingNext, StockNext
<1> QED BY <1>1, <1>2, PTL DEF Spec

(* The inventory CHECK constraints never fire. *)
THEOREM ReservedWithinStock == Spec => []StockBounds
BY StockAlways, PTL DEF StockInv

(* For all orders together, `reserved` and the reservations agree up to     *)
(* exactly what a cancellation that lost the race with the expiry job       *)
(* released a second time.                                                  *)
THEOREM LedgerUpToDoubleRelease == Spec => []LedgerExact
BY StockAlways, PTL DEF StockInv

(* Units leave stock only by being committed, and only for a PAID order. *)
THEOREM UnitsConserved == Spec => [](StockConserved /\ CommittedIsPaid)
BY StockAlways, PTL DEF StockInv, OrderRowsOK
=============================================================================
