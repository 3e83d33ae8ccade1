------------------------- MODULE OrderPromise_proofs -------------------------
(***************************************************************************)
(* What OrderPayments promises about orders and money, and that it         *)
(* implements OrderPromise, for any number of orders, stores, variants,    *)
(* attempts and concurrent handlers, whatever glitches a provider has and  *)
(* whichever handlers die.                                                 *)
(***************************************************************************)
EXTENDS OrderPayments_proofs

(* Checkout writes all vendor orders of an order at once; before, there is *)
(* nothing of it.                                                          *)
BornWhole ==
  \A o \in Orders :
    /\ status[o] = "NONE" =>
         payStatus[o] = "PENDING" /\ \A k \in Tries : att[o][k] = "NONE"
    /\ \A s \in Stores : vo[o][s] = "NONE" <=> status[o] = "NONE" \/ s \notin Slices(o)

(* What a cancellation takes is still kept while it is open, and stops being *)
(* held when it ends; an order without kept vendor orders is not for sale.  *)
CancelledIsFree ==
  \A o \in Orders :
    /\ cancelling[o] \subseteq Kept(o)
    /\ \A v \in LinesOf(o, cancelling[o]) : resv[o][v] = "HELD" => v \in snap[o]
    /\ \A v \in Lines(o) : vo[o][StoreOf[v]] = "CANCELLED" => resv[o][v] # "HELD"
    /\ payStatus[o] = "CANCELLED" => Kept(o) = {}

(* Every attempt asks for the amount of the intent, because the amount only *)
(* falls while no attempt was ever made.                                   *)
SameAmount ==
  \A o \in Orders :
    /\ status[o] # "NONE" => intentAmt[o] # {} /\ intentAmt[o] \subseteq Slices(o)
    /\ intent[o] = "PENDING" => \A k \in Tries : att[o][k] \in {"NONE", "PENDING"}
    /\ \A k, i \in Tries : att[o][k] = "PENDING" /\ att[o][i] = "PENDING" => k = i
    /\ \A k \in Tries :
         /\ att[o][k] = "NONE" => call[o][k] = "none" /\ charge[o][k] = "none"
         /\ att[o][k] # "NONE" => attAmt[o][k] = intentAmt[o]

(* A verification works on an attempt that was made. It has read the vendor *)
(* orders of a captured charge; meanwhile they only become fewer.          *)
JobKnows(w) ==
  LET j == ver[w] IN
  /\ j.pc \in {"answered", "read"} =>
       att[j.o][j.k] # "NONE" /\ (j.res = "SUCCEEDED" => Captured(j.o, j.k))
  /\ j.pc = "read" =>
       j.res = "SUCCEEDED" /\ Kept(j.o) \subseteq j.payable /\ j.payable \subseteq Slices(j.o)
JobsKnow == \A w \in Verifiers : JobKnows(w)

(* Between the triggers of a cancellation and its commit no attempt is      *)
(* added: every one there is was there, over, when they looked.            *)
TriggersHold ==
  \A o \in Orders : cleared[o] =>
    /\ cancelling[o] # {}
    /\ \A k \in Tries : att[o][k] # "PENDING" /\ (att[o][k] # "NONE" => k \in tested[o])

OrderInv == BornWhole /\ CancelledIsFree /\ SameAmount /\ JobsKnow /\ TriggersHold

-----------------------------------------------------------------------------
(* What each kind of step writes.                                          *)

orderSide == <<status, payStatus, vo, cancelling, snap, cleared, tested>>

(* An attempt is inserted for the intent's amount, under the Order's lock. *)
Inserted(o, k) ==
  /\ cancelling[o] = {} /\ IsOpenUnpaid(o) /\ att[o][k] = "NONE" /\ ~HasActiveAttempt(o)
  /\ att' = [att EXCEPT ![o][k] = "PENDING"]
  /\ attAmt' = [attAmt EXCEPT ![o][k] = intentAmt[o]]
  /\ \A p \in Orders, i \in Tries : call'[p][i] # "none" => call[p][i] # "none" \/ (p = o /\ i = k)
  /\ UNCHANGED <<intent, charge>>

(* The outcome of an attempt is written over its status and the intent's.  *)
Answered(o, k, st, it) ==
  /\ att[o][k] # "NONE"
  /\ st \in {"REQUIRES_ACTION", "PROCESSING", "FAILED"} /\ it \in IntentStatus \ {"PENDING"}
  /\ it = "SUCCEEDED" => intent[o] = "SUCCEEDED"
  /\ st = "FAILED" => it = "FAILED" \/ \E i \in Tries \ {k} : att[o][i] \in Active
  /\ att' = [att EXCEPT ![o][k] = st]
  /\ intent' = [intent EXCEPT ![o] = it]
  /\ \A p \in Orders, i \in Tries : call'[p][i] # "none" => call[p][i] # "none"
  /\ UNCHANGED <<attAmt, charge>>

(* The provider opens a page, the buyer pays on it, or a handler ends.     *)
Proceeds(o, k) ==
  /\ att[o][k] # "NONE"
  /\ charge' = charge \/ \E c \in {"open", "paid", "costly"} :
                           ~Captured(o, k) /\ charge' = [charge EXCEPT ![o][k] = c]
  /\ \A p \in Orders, i \in Tries : call'[p][i] # "none" => call[p][i] # "none"
  /\ UNCHANGED <<att, attAmt, intent>>

LEMMA AttemptsKnown ==
  ASSUME SameAmount, NEW o \in Orders, NEW k \in Tries
  PROVE  call[o][k] # "none" \/ charge[o][k] # "none" => att[o][k] # "NONE"
BY DEF SameAmount

LEMMA NestedWrite ==
  ASSUME NEW f, NEW R, f \in [Orders -> [Tries -> R]], NEW o \in Orders, NEW k \in Tries, NEW x,
         NEW g, g = [f EXCEPT ![o][k] = x]
  PROVE  g[o][k] = x /\ \A p \in Orders, i \in Tries : p # o \/ i # k => g[p][i] = f[p][i]
OBVIOUS

(* An answer that fails the last active attempt fails the intent.          *)
LEMMA FailureKind ==
  ASSUME TypeOK, SameAmount, NEW o \in Orders, NEW k \in Tries, NEW next \in {"rejected", "over"},
         call[o][k] # "none", MarkInitializationFailed(o, k, next)
  PROVE  \E it : Answered(o, k, "FAILED", it)
<1> DEFINE it == IntentAfterFailure(o, k)
<1>1. att[o][k] # "NONE"
  BY AttemptsKnown
<1>2. it \in IntentStatus \ {"PENDING"}
  <2>1. CASE \E i \in Tries \ {k} : att[o][i] \in Active
    <3>1. PICK i \in Tries \ {k} : att[o][i] \in Active
      BY <2>1
    <3>2. intent[o] # "PENDING"
      BY <1>1, <3>1 DEF SameAmount, Active
    <3> QED BY <2>1, <3>2 DEF IntentAfterFailure, TypeOK
  <2>2. CASE ~\E i \in Tries \ {k} : att[o][i] \in Active
    BY <2>2 DEF IntentAfterFailure, IntentStatus
  <2> QED BY <2>1, <2>2
<1>3. /\ it = "SUCCEEDED" => intent[o] = "SUCCEEDED"
      /\ it = "FAILED" \/ \E i \in Tries \ {k} : att[o][i] \in Active
  BY DEF IntentAfterFailure
<1>4. /\ att' = [att EXCEPT ![o][k] = "FAILED"] /\ intent' = [intent EXCEPT ![o] = it]
      /\ call' = [call EXCEPT ![o][k] = next] /\ UNCHANGED <<attAmt, charge>>
  BY DEF MarkInitializationFailed, provider
<1>5. \A p \in Orders, i \in Tries : call'[p][i] # "none" => call[p][i] # "none"
  BY <1>4 DEF TypeOK
<1> HIDE DEF it
<1> QED BY <1>1, <1>2, <1>3, <1>4, <1>5 DEF Answered

LEMMA InitializeKinds ==
  ASSUME TypeOK, SameAmount, NEW o \in Orders, NEW k \in Tries, InitializeStep(o, k) \/ Pay(o, k)
  PROVE  /\ UNCHANGED <<orderSide, resv, intentAmt, ver, review>>
         /\ \/ \E i \in Tries : Inserted(o, i)
            \/ \E st, it : Answered(o, k, st, it)
            \/ Proceeds(o, k)
<1>1. UNCHANGED <<orderSide, resv, intentAmt, ver, review>>
  BY DEF InitializeStep, BeginInitialization, ProviderOpens, CompleteInitialization,
     MarkInitializationAmbiguous, MarkInitializationFailed, RejectPrimary, RejectFallback,
     RejectWithoutFallback, CreateFallbackAttempt, EndInitialization, Pay, orderSide, orderRows,
     cancels, payments, handlers, outcome
<1>2. CASE BeginInitialization(o, k)
  <2>1. /\ InsertAttempt(o, k) /\ call' = [call EXCEPT ![o][k] = "primary"]
        /\ UNCHANGED <<intent, charge>>
    BY <1>2 DEF BeginInitialization, provider
  <2>2. \A p \in Orders, i \in Tries : p # o \/ i # k => call'[p][i] = call[p][i]
    BY <2>1 DEF TypeOK
  <2>3. Inserted(o, k)
    BY <2>1, <2>2 DEF InsertAttempt, InsertWaits, Locked, Fresh, Inserted
  <2> QED BY <1>1, <2>3
<1>3. ASSUME NEW i \in Tries, CreateFallbackAttempt(o, k, i)
      PROVE  Inserted(o, i)
  <2>1. /\ InsertAttempt(o, i) /\ call' = [call EXCEPT ![o][k] = "over", ![o][i] = "fallback"]
        /\ call[o][k] # "none" /\ UNCHANGED <<intent, charge>>
    BY <1>3 DEF CreateFallbackAttempt, provider
  <2> DEFINE ended == [call EXCEPT ![o][k] = "over"]
  <2>2. /\ ended \in [Orders -> [Tries -> {"none", "primary", "fallback", "rejected", "url", "over"}]]
        /\ \A p \in Orders, x \in Tries : ended[p][x] # "none" => call[p][x] # "none"
    BY <2>1 DEF TypeOK
  <2>3. call' = [ended EXCEPT ![o][i] = "fallback"]
    BY <2>1
  <2> HIDE DEF ended
  <2>4. \A p \in Orders, x \in Tries : p # o \/ x # i => call'[p][x] = ended[p][x]
    BY <2>2, <2>3
  <2>5. \A p \in Orders, x \in Tries : call'[p][x] # "none" => call[p][x] # "none" \/ (p = o /\ x = i)
    BY <2>2, <2>4
  <2>6. /\ cancelling[o] = {} /\ IsOpenUnpaid(o) /\ att[o][i] = "NONE" /\ ~HasActiveAttempt(o)
        /\ att' = [att EXCEPT ![o][i] = "PENDING"]
        /\ attAmt' = [attAmt EXCEPT ![o][i] = intentAmt[o]]
    BY <2>1 DEF InsertAttempt, InsertWaits, Locked, Fresh
  <2> QED BY <2>1, <2>5, <2>6 DEF Inserted
<1>4. CASE ProviderOpens(o, k) \/ Pay(o, k) \/ EndInitialization(o, k)
  <2>1. att[o][k] # "NONE"
    BY <1>4, AttemptsKnown DEF ProviderOpens, Pay, EndInitialization
  <2>2. UNCHANGED <<att, attAmt, intent>>
    BY <1>4 DEF ProviderOpens, Pay, EndInitialization, payments
  <2>3. \/ charge' = charge
        \/ \E c \in {"open", "paid", "costly"} :
             ~Captured(o, k) /\ charge' = [charge EXCEPT ![o][k] = c]
    BY <1>4 DEF ProviderOpens, Pay, EndInitialization, Captured, provider
  <2>4. \A p \in Orders, i \in Tries : call'[p][i] # "none" => call[p][i] # "none"
    <3>1. CASE EndInitialization(o, k)
      <4>1. call' = [call EXCEPT ![o][k] = "over"] /\ call[o][k] # "none"
        BY <3>1 DEF EndInitialization
      <4> QED BY <4>1 DEF TypeOK
    <3>2. CASE ProviderOpens(o, k) \/ Pay(o, k)
      BY <3>2 DEF ProviderOpens, Pay, handlers
    <3> QED BY <1>4, <3>1, <3>2
  <2> QED BY <1>1, <2>1, <2>2, <2>3, <2>4 DEF Proceeds
<1>5. CASE CompleteInitialization(o, k)
  <2>1. att[o][k] # "NONE"
    BY <1>5, AttemptsKnown DEF CompleteInitialization
  <2>2. Answered(o, k, "REQUIRES_ACTION", "REQUIRES_ACTION")
    BY <1>5, <2>1 DEF CompleteInitialization, Answered, IntentStatus, provider, TypeOK
  <2> QED BY <1>1, <2>2
<1>6. CASE MarkInitializationAmbiguous(o, k)
  <2>1. att[o][k] # "NONE"
    BY <1>6, AttemptsKnown DEF MarkInitializationAmbiguous
  <2>2. Answered(o, k, "PROCESSING", "PROCESSING")
    BY <1>6, <2>1 DEF MarkInitializationAmbiguous, Answered, IntentStatus, provider, TypeOK
  <2> QED BY <1>1, <2>2
<1>7. CASE RejectPrimary(o, k) \/ RejectFallback(o, k) \/ RejectWithoutFallback(o, k)
  <2>1. call[o][k] # "none" /\ \E next \in {"rejected", "over"} : MarkInitializationFailed(o, k, next)
    BY <1>7 DEF RejectPrimary, RejectFallback, RejectWithoutFallback
  <2> QED BY <1>1, <2>1, FailureKind
<1> QED BY <1>1, <1>2, <1>3, <1>4, <1>5, <1>6, <1>7 DEF InitializeStep

(* A verification that does not claim the order for its success.           *)
LEMMA VerifyKinds ==
  ASSUME TypeOK, OrderInv, NEW w \in Verifiers, VerifyStep(w), ~CommitSuccess(w)
  PROVE  /\ UNCHANGED <<orderSide, resv, intentAmt, review>>
         /\ \/ UNCHANGED payments /\ UNCHANGED <<call, charge>>
            \/ \E o \in Orders, k \in Tries : \E st, it : Answered(o, k, st, it)
<1>1. UNCHANGED <<orderSide, resv, intentAmt, review>>
  BY DEF VerifyStep, HandleWebhook, Reconcile, ApplyNonSuccess, MarkMismatchEvent, ApplyMismatch,
     ReadSuccess, DuplicateSuccess, EndVerification, orderSide, orderRows, cancels, payments, outcome
<1>2. CASE ApplyNonSuccess(w) \/ ApplyMismatch(w)
  <2> DEFINE j == ver[w]
  <2>1. /\ j.pc = "answered" /\ UNCHANGED <<attAmt, call, charge>>
        /\ \E st \in {"PROCESSING", "FAILED"} :
             att' = [att EXCEPT ![j.o][j.k] = st] /\ intent' = [intent EXCEPT ![j.o] = st]
    BY <1>2 DEF ApplyNonSuccess, ApplyMismatch, provider
  <2>2. j.o \in Orders /\ j.k \in Tries
    BY <2>1, JobTyping DEF Jobs
  <2>3. att[j.o][j.k] # "NONE"
    BY <2>1 DEF OrderInv, JobsKnow, JobKnows
  <2> HIDE DEF j
  <2>4. PICK st \in {"PROCESSING", "FAILED"} :
             att' = [att EXCEPT ![j.o][j.k] = st] /\ intent' = [intent EXCEPT ![j.o] = st]
    BY <2>1
  <2>5. Answered(j.o, j.k, st, st)
    BY <2>1, <2>3, <2>4 DEF Answered, IntentStatus
  <2> QED BY <1>1, <2>2, <2>5
<1>3. CASE ~(ApplyNonSuccess(w) \/ ApplyMismatch(w))
  BY <1>1, <1>3 DEF VerifyStep, HandleWebhook, Reconcile, MarkMismatchEvent, ReadSuccess,
     DuplicateSuccess, EndVerification, provider, payments
<1> QED BY <1>2, <1>3

(* Time, stock counts and expiry write nothing of an order but its          *)
(* reservations, and those they only end.                                  *)
LEMMA QuietKinds ==
  ASSUME TypeOK, ClockStep \/ StockStep \/ ExpiryStep
  PROVE  /\ UNCHANGED <<orderSide, payments, handlers, charge, event, review, lost>>
         /\ \A o \in Orders, v \in Variants : resv[o][v] # "HELD" => resv'[o][v] = resv[o][v]
         /\ \A o \in Orders, v \in Variants : resv'[o][v] \in {resv[o][v], "EXPIRED"}
<1>1. UNCHANGED <<orderSide, payments, handlers, charge, event, review, lost>>
  BY DEF ClockStep, StockStep, ExpiryStep, Deadline, AdjustInventory, ExpireReservations,
     orderSide, orderRows, cancels, provider, outcome
<1>2. CASE ClockStep \/ StockStep
  BY <1>1, <1>2 DEF ClockStep, StockStep, Deadline, AdjustInventory
<1>3. CASE ExpiryStep
  <2>1. PICK B \in SUBSET (Orders \X Variants) : ExpireReservations(B)
    BY <1>3 DEF ExpiryStep
  <2>2. /\ \A b \in B : resv[b[1]][b[2]] = "HELD"
        /\ \A o \in Orders, v \in Variants :
             resv'[o][v] = IF <<o, v>> \in B THEN "EXPIRED" ELSE resv[o][v]
    BY <2>1 DEF ExpireReservations, Expirable
  <2>3. \A o \in Orders, v \in Variants : <<o, v>> \in B => resv[o][v] = "HELD"
    BY <2>2
  <2> QED BY <1>1, <2>2, <2>3
<1> QED BY <1>2, <1>3

LEMMA CheckoutWrites ==
  ASSUME TypeOK, NEW o \in Orders, CreateCheckout(o)
  PROVE  /\ status[o] = "NONE" /\ status'[o] = "PENDING_PAYMENT"
         /\ \A s \in Stores : vo'[o][s] = IF s \in Slices(o) THEN "PENDING" ELSE "NONE"
         /\ \A p \in Orders \ {o} : /\ status'[p] = status[p] /\ vo'[p] = vo[p]
                                    /\ resv'[p] = resv[p] /\ intent'[p] = intent[p]
                                    /\ intentAmt'[p] = intentAmt[p]
         /\ \A v \in Variants : resv'[o][v] = IF v \in Lines(o) THEN "HELD" ELSE "NONE"
         /\ intent'[o] = "PENDING" /\ intentAmt'[o] = Slices(o)
         /\ Slices(o) # {} /\ Slices(o) \subseteq Stores /\ Kept(o)' = Slices(o)
         /\ UNCHANGED <<onHand, payStatus, cancelling, snap, cleared, tested, att, attAmt, handlers, charge,
                        event, review, lost, due>>
<1>1. Slices(o) # {} /\ Slices(o) \subseteq Stores
  BY QtyRange DEF CreateCheckout, Slices, Lines
<1>2. \A s \in Stores : vo'[o][s] = IF s \in Slices(o) THEN "PENDING" ELSE "NONE"
  BY DEF CreateCheckout, TypeOK
<1>3. Kept(o)' = Slices(o)
  BY <1>1, <1>2 DEF Kept
<1> QED BY <1>1, <1>2, <1>3 DEF CreateCheckout, TypeOK, cancels, provider, outcome

LEMMA LockKinds ==
  ASSUME TypeOK, NEW o \in Orders, CancelStep(o), ~CommitCancel(o)
  PROVE  /\ UNCHANGED <<onHand, resv, due, status, payStatus, vo, payments, handlers, charge, event,
                        review, lost>>
         /\ \A p \in Orders \ {o} : cancelling'[p] = cancelling[p] /\ snap'[p] = snap[p]
         /\ \/ cancelling'[o] = {}
            \/ /\ cancelling'[o] # {} /\ cancelling'[o] \subseteq Kept(o) /\ IsOpenUnpaid(o)
               /\ snap'[o] = {v \in LinesOf(o, cancelling'[o]) : resv[o][v] = "HELD"}
            \/ cancelling'[o] = cancelling[o] /\ snap'[o] = snap[o]
<1>0. UNCHANGED <<onHand, resv, due, status, payStatus, vo, payments, handlers, charge, event,
                  review, lost>>
  BY DEF CancelStep, CancelUserOrder, CancelVendorOrder, BeginCancel, CheckAttempts, AbortCancel,
     inventory, orderRows, outcome, provider
<1>1. ASSUME NEW S \in SUBSET Kept(o), S # {}, BeginCancel(o, S)
      PROVE  /\ \A p \in Orders \ {o} : cancelling'[p] = cancelling[p] /\ snap'[p] = snap[p]
             /\ cancelling'[o] = S /\ IsOpenUnpaid(o)
             /\ snap'[o] = {v \in LinesOf(o, S) : resv[o][v] = "HELD"}
  BY <1>1 DEF BeginCancel, TypeOK
<1>2. CASE AbortCancel(o)
  BY <1>0, <1>2 DEF AbortCancel, TypeOK
<1>3. CASE CancelUserOrder(o)
  BY <1>0, <1>1, <1>3 DEF CancelUserOrder
<1>4. ASSUME NEW s \in Stores, CancelVendorOrder(o, s)
      PROVE  \E S \in SUBSET Kept(o) : S # {} /\ BeginCancel(o, S)
  <2>1. {s} \in SUBSET Kept(o) /\ {s} # {} /\ BeginCancel(o, {s})
    BY <1>4 DEF CancelVendorOrder
  <2> QED BY <2>1
<1>5. CASE \E s \in Stores : CancelVendorOrder(o, s)
  <2>1. PICK S \in SUBSET Kept(o) : S # {} /\ BeginCancel(o, S)
    BY <1>4, <1>5
  <2> QED BY <1>0, <1>1, <2>1
<1>6. CASE CheckAttempts(o)
  BY <1>0, <1>6 DEF CheckAttempts
<1> QED BY <1>2, <1>3, <1>5, <1>6 DEF CancelStep

(* The triggers look once, at all attempts; what they found goes with the  *)
(* transaction.                                                            *)
LEMMA TriggerKinds ==
  ASSUME TypeOK, NEW o \in Orders, CancelStep(o)
  PROVE  /\ \A p \in Orders \ {o} : /\ cleared'[p] = cleared[p] /\ tested'[p] = tested[p]
                                    /\ cancelling'[p] = cancelling[p]
         /\ att' = att
         /\ \/ ~cleared'[o]
            \/ cleared'[o] = cleared[o] /\ cancelling[o] = {}
            \/ /\ cancelling'[o] # {} /\ ~HasActiveAttempt(o)
               /\ tested'[o] = {k \in Tries : att[o][k] # "NONE"}
<1>1. CASE CommitCancel(o) \/ AbortCancel(o)
  BY <1>1 DEF CommitCancel, AbortCancel, TypeOK, payments
<1>2. CASE CheckAttempts(o)
  BY <1>2 DEF CheckAttempts, Locked, TypeOK, payments
<1>3. ASSUME NEW S, BeginCancel(o, S)
      PROVE  /\ UNCHANGED <<cleared, tested, att>> /\ cancelling[o] = {}
             /\ \A p \in Orders \ {o} : cancelling'[p] = cancelling[p]
  BY <1>3 DEF BeginCancel, Locked, TypeOK, payments
<1>4. CASE CancelUserOrder(o) \/ \E s \in Stores : CancelVendorOrder(o, s)
  BY <1>3, <1>4 DEF CancelUserOrder, CancelVendorOrder
<1> QED BY <1>1, <1>2, <1>4 DEF CancelStep

LEMMA CancelWrites ==
  ASSUME TypeOK, LockedIsOpen, NEW o \in Orders, CommitCancel(o)
  PROVE  /\ IsOpenUnpaid(o) /\ cleared[o] /\ cancelling[o] # {}
         /\ cancelling'[o] = {} /\ snap'[o] = {}
         /\ \A s \in Stores : vo'[o][s] = IF s \in cancelling[o] THEN "CANCELLED" ELSE vo[o][s]
         /\ \A v \in Variants : resv'[o][v] = IF v \in snap[o] THEN "RELEASED" ELSE resv[o][v]
         /\ Kept(o)' = Kept(o) \ cancelling[o]
<1>1. IsOpenUnpaid(o) /\ cleared[o] /\ cancelling[o] # {}
  BY DEF CommitCancel, LockedIsOpen, Locked
<1>2. \A s \in Stores : vo'[o][s] = IF s \in cancelling[o] THEN "CANCELLED" ELSE vo[o][s]
  BY DEF CommitCancel, TypeOK
<1>3. Kept(o)' = Kept(o) \ cancelling[o]
  BY <1>2 DEF Kept
<1>4. \A v \in Variants : resv'[o][v] = IF v \in snap[o] THEN "RELEASED" ELSE resv[o][v]
  BY DEF CommitCancel, TypeOK
<1>5. cancelling'[o] = {} /\ snap'[o] = {}
  BY DEF CommitCancel, TypeOK
<1> QED BY <1>1, <1>2, <1>3, <1>4, <1>5

(* The order is cancelled, or goes on with what is left of it.             *)
LEMMA CancelKinds ==
  ASSUME TypeOK, NEW o \in Orders, CommitCancel(o)
  PROVE  \/ /\ Kept(o) \ cancelling[o] = {}
            /\ status'[o] = "CANCELLED" /\ payStatus'[o] = "CANCELLED"
            /\ intentAmt'[o] = intentAmt[o] /\ intent'[o] # "PENDING"
            /\ intent'[o] # "SUCCEEDED" \/ intent[o] = "SUCCEEDED"
         \/ /\ Kept(o) \ cancelling[o] # {}
            /\ status'[o] = "PARTIALLY_CANCELLED" /\ payStatus'[o] = payStatus[o]
            /\ intent'[o] = intent[o]
            /\ intentAmt'[o] \in {Kept(o) \ cancelling[o], intentAmt[o]}
            /\ intent[o] # "PENDING" => intentAmt'[o] = intentAmt[o]
<1>1. CASE Kept(o) \ cancelling[o] = {}
  <2>1. /\ status' = [status EXCEPT ![o] = "CANCELLED"]
        /\ payStatus' = [payStatus EXCEPT ![o] = "CANCELLED"]
        /\ intent' = [intent EXCEPT ![o] = IF @ = "PENDING" THEN "CANCELLED" ELSE @]
        /\ UNCHANGED intentAmt
    BY <1>1 DEF CommitCancel
  <2> QED BY <1>1, <2>1 DEF TypeOK
<1>2. CASE Kept(o) \ cancelling[o] # {}
  <2>1. /\ status' = [status EXCEPT ![o] = "PARTIALLY_CANCELLED"]
        /\ intentAmt' = [intentAmt EXCEPT ![o] =
             IF intent[o] = "PENDING" THEN Kept(o) \ cancelling[o] ELSE intentAmt[o]]
        /\ UNCHANGED <<payStatus, intent>>
    BY <1>2 DEF CommitCancel, AmountAfterCancel
  <2>2. /\ status'[o] = "PARTIALLY_CANCELLED"
        /\ intentAmt'[o] = IF intent[o] = "PENDING" THEN Kept(o) \ cancelling[o] ELSE intentAmt[o]
    BY <2>1 DEF TypeOK
  <2> QED BY <1>2, <2>1, <2>2
<1> QED BY <1>1, <1>2

LEMMA CancelSpares ==
  ASSUME TypeOK, NEW o \in Orders, CommitCancel(o)
  PROVE  /\ UNCHANGED <<onHand, due, att, attAmt, call, ver, charge, event, review, lost>>
         /\ \A p \in Orders \ {o} : status'[p] = status[p] /\ payStatus'[p] = payStatus[p]
         /\ \A p \in Orders \ {o} : vo'[p] = vo[p] /\ resv'[p] = resv[p]
         /\ \A p \in Orders \ {o} : cancelling'[p] = cancelling[p] /\ snap'[p] = snap[p]
         /\ \A p \in Orders \ {o} : intent'[p] = intent[p] /\ intentAmt'[p] = intentAmt[p]
<1>1. /\ UNCHANGED <<onHand, due, att, attAmt, call, ver, charge, event, review, lost>>
      /\ \A p \in Orders \ {o} : vo'[p] = vo[p] /\ resv'[p] = resv[p]
      /\ \A p \in Orders \ {o} : cancelling'[p] = cancelling[p] /\ snap'[p] = snap[p]
  BY DEF CommitCancel, TypeOK, outcome, provider, handlers
<1>2. CASE Kept(o) \ cancelling[o] = {}
  <2>1. /\ status' = [status EXCEPT ![o] = "CANCELLED"]
        /\ payStatus' = [payStatus EXCEPT ![o] = "CANCELLED"]
        /\ intent' = [intent EXCEPT ![o] = IF @ = "PENDING" THEN "CANCELLED" ELSE @]
        /\ UNCHANGED intentAmt
    BY <1>2 DEF CommitCancel
  <2>2. \A p \in Orders \ {o} : intent'[p] = intent[p] /\ intentAmt'[p] = intentAmt[p]
    BY <2>1 DEF TypeOK
  <2> QED BY <1>1, <2>1, <2>2 DEF TypeOK
<1>3. CASE Kept(o) \ cancelling[o] # {}
  <2>1. /\ status' = [status EXCEPT ![o] = "PARTIALLY_CANCELLED"]
        /\ intentAmt' = [intentAmt EXCEPT ![o] = AmountAfterCancel(o, Kept(o) \ cancelling[o])]
        /\ UNCHANGED <<payStatus, intent>>
    BY <1>3 DEF CommitCancel
  <2>2. \A p \in Orders \ {o} : status'[p] = status[p] /\ intentAmt'[p] = intentAmt[p]
    BY <2>1 DEF TypeOK
  <2> QED BY <1>1, <2>1, <2>2
<1> QED BY <1>2, <1>3

(* What a verified success sells. *)
SoldBy(j) == IF Fulfillable(j) THEN LinesOf(j.o, j.payable) ELSE {}

LEMMA SuccessWrites ==
  ASSUME TypeOK, NEW w \in Verifiers, CommitSuccess(w), NEW j, j = ver[w]
  PROVE  /\ j \in Jobs /\ j.o \in Orders /\ j.k \in Tries /\ j.pc = "read"
         /\ SoldBy(j) \subseteq Variants
         /\ \A p \in Orders \ {j.o} : /\ status'[p] = status[p] /\ payStatus'[p] = payStatus[p]
                                      /\ vo'[p] = vo[p] /\ resv'[p] = resv[p]
                                      /\ att'[p] = att[p] /\ intent'[p] = intent[p]
                                      /\ review'[p] = review[p]
         /\ payStatus'[j.o] = "SUCCEEDED" /\ intent'[j.o] = "SUCCEEDED"
         /\ \A i \in Tries : /\ att'[j.o][i] = "NONE" <=> (att[j.o][i] = "NONE" /\ i # j.k)
                             /\ att'[j.o][i] # "PENDING"
         /\ \A s \in Stores : \/ vo'[j.o][s] = vo[j.o][s]
                              \/ vo[j.o][s] = "PENDING" /\ vo'[j.o][s] = "ACCEPTED"
         /\ \A p \in Orders : Kept(p)' = Kept(p)
         /\ \A v \in Variants : /\ resv'[j.o][v] = IF v \in SoldBy(j) THEN "COMMITTED" ELSE resv[j.o][v]
                                /\ onHand'[v] = IF v \in SoldBy(j) THEN onHand[v] - Qty[j.o][v] ELSE onHand[v]
         /\ IF SoldBy(j) # {} THEN status'[j.o] = "PAID" /\ review' = review
            ELSE status' = status /\ vo' = vo /\ review'[j.o]
         /\ UNCHANGED <<due, cancelling, snap, cleared, tested, intentAmt, attAmt, call, charge, lost>>
         /\ cancelling[j.o] = {}
<1>1. j \in Jobs /\ j.o \in Orders /\ j.k \in Tries /\ j.pc = "read"
  BY JobTyping DEF CommitSuccess, Jobs
<1>2. SoldBy(j) \subseteq Variants
  BY DEF SoldBy, LinesOf, Lines
<1> DEFINE sold == SoldBy(j)
<1>3. /\ onHand' = [v \in Variants |-> IF v \in sold THEN onHand[v] - Qty[j.o][v] ELSE onHand[v]]
      /\ resv' = [resv EXCEPT ![j.o] = [v \in Variants |-> IF v \in sold THEN "COMMITTED" ELSE @[v]]]
      /\ payStatus' = [payStatus EXCEPT ![j.o] = "SUCCEEDED"]
      /\ intent' = [intent EXCEPT ![j.o] = "SUCCEEDED"]
      /\ att' = [att EXCEPT ![j.o] = [i \in Tries |->
           IF i = j.k THEN "SUCCEEDED" ELSE IF @[i] \in Unresolved THEN "CANCELLED" ELSE @[i]]]
      /\ UNCHANGED <<due, cancelling, snap, cleared, tested, intentAmt, attAmt, call, charge, lost>>
      /\ cancelling[j.o] = {}
  BY DEF CommitSuccess, Locked, OnHandAfterSale, cancels, SoldBy
<1>4. \/ /\ sold # {} /\ status' = [status EXCEPT ![j.o] = "PAID"] /\ review' = review
         /\ vo' = [vo EXCEPT ![j.o] = [s \in Stores |-> IF @[s] = "PENDING" THEN "ACCEPTED" ELSE @[s]]]
      \/ /\ sold = {} /\ UNCHANGED <<status, vo>> /\ review' = [review EXCEPT ![j.o] = TRUE]
  BY DEF CommitSuccess, SoldBy
<1> HIDE DEF sold
<1>5. /\ \A p \in Orders \ {j.o} : /\ payStatus'[p] = payStatus[p] /\ resv'[p] = resv[p]
                                   /\ att'[p] = att[p] /\ intent'[p] = intent[p]
      /\ payStatus'[j.o] = "SUCCEEDED" /\ intent'[j.o] = "SUCCEEDED"
  BY <1>1, <1>3 DEF TypeOK
<1>6. \A i \in Tries : att'[j.o][i] = IF i = j.k THEN "SUCCEEDED"
                                      ELSE IF att[j.o][i] \in Unresolved THEN "CANCELLED" ELSE att[j.o][i]
  BY <1>1, <1>3 DEF TypeOK
<1>7. \A i \in Tries : /\ att'[j.o][i] = "NONE" <=> (att[j.o][i] = "NONE" /\ i # j.k)
                       /\ att'[j.o][i] # "PENDING"
  BY <1>6 DEF Unresolved, Active
<1>8. \A v \in Variants : /\ resv'[j.o][v] = IF v \in sold THEN "COMMITTED" ELSE resv[j.o][v]
                          /\ onHand'[v] = IF v \in sold THEN onHand[v] - Qty[j.o][v] ELSE onHand[v]
  BY <1>1, <1>3 DEF TypeOK
<1>9. /\ \A p \in Orders \ {j.o} : /\ status'[p] = status[p] /\ vo'[p] = vo[p]
                                   /\ review'[p] = review[p]
      /\ \A s \in Stores : \/ vo'[j.o][s] = vo[j.o][s]
                           \/ vo[j.o][s] = "PENDING" /\ vo'[j.o][s] = "ACCEPTED"
      /\ IF sold # {} THEN status'[j.o] = "PAID" /\ review' = review
         ELSE status' = status /\ vo' = vo /\ review'[j.o]
  BY <1>1, <1>4 DEF TypeOK
<1>10. \A p \in Orders : Kept(p)' = Kept(p)
  BY <1>9 DEF Kept
<1> QED BY <1>1, <1>2, <1>3, <1>5, <1>7, <1>8, <1>9, <1>10 DEF sold

LEMMA StepCases ==
  ASSUME [Next]_vars
  PROVE  \/ UNCHANGED vars
         \/ \E o \in Orders : CreateCheckout(o)
         \/ ClockStep \/ StockStep \/ ExpiryStep
         \/ \E o \in Orders : CancelStep(o) /\ ~CommitCancel(o)
         \/ \E o \in Orders : CommitCancel(o)
         \/ \E o \in Orders, k \in Tries : InitializeStep(o, k) \/ Pay(o, k)
         \/ \E w \in Verifiers : VerifyStep(w) /\ ~CommitSuccess(w)
         \/ \E w \in Verifiers : CommitSuccess(w)
BY DEF Next, CheckoutStep

(* An attempt is written, or its charge moves on. *)
Touched(o, k) == Inserted(o, k) \/ Proceeds(o, k) \/ \E st, it : Answered(o, k, st, it)

LEMMA TouchWrites ==
  ASSUME TypeOK, BornWhole, SameAmount, NEW o \in Orders, NEW k \in Tries, Touched(o, k)
  PROVE  /\ status[o] # "NONE" /\ att'[o][k] # "NONE"
         /\ \A p \in Orders, i \in Tries :
              /\ p # o \/ i # k => att'[p][i] = att[p][i] /\ charge'[p][i] = charge[p][i]
              /\ att[p][i] # "NONE" => att'[p][i] # "NONE" /\ attAmt'[p][i] = attAmt[p][i]
              /\ Captured(p, i) => Captured(p, i)'
              /\ call'[p][i] # "none" => att'[p][i] # "NONE"
         /\ \A p \in Orders \ {o} : att'[p] = att[p] /\ intent'[p] = intent[p] /\ attAmt'[p] = attAmt[p]
<1>1. CASE Inserted(o, k)
  <2>1. /\ IsOpenUnpaid(o) /\ att[o][k] = "NONE"
        /\ att' = [att EXCEPT ![o][k] = "PENDING"]
        /\ attAmt' = [attAmt EXCEPT ![o][k] = intentAmt[o]]
        /\ UNCHANGED <<intent, charge>>
    BY <1>1 DEF Inserted
  <2>2. /\ att'[o][k] = "PENDING"
        /\ \A p \in Orders, i \in Tries : p # o \/ i # k => att'[p][i] = att[p][i]
        /\ \A p \in Orders, i \in Tries : p # o \/ i # k => attAmt'[p][i] = attAmt[p][i]
        /\ \A p \in Orders \ {o} : att'[p] = att[p] /\ attAmt'[p] = attAmt[p]
    BY <2>1 DEF TypeOK
  <2>3. \A p \in Orders, i \in Tries : call'[p][i] # "none" => call[p][i] # "none" \/ (p = o /\ i = k)
    BY <1>1 DEF Inserted
  <2> QED BY <2>1, <2>2, <2>3, AttemptsKnown DEF IsOpenUnpaid, Captured
<1>2. ASSUME NEW st, NEW it, Answered(o, k, st, it)
      PROVE  /\ att[o][k] # "NONE" /\ att'[o][k] # "NONE"
             /\ \A p \in Orders, i \in Tries : p # o \/ i # k => att'[p][i] = att[p][i]
             /\ UNCHANGED <<attAmt, charge>>
             /\ \A p \in Orders \ {o} : att'[p] = att[p] /\ intent'[p] = intent[p]
             /\ \A p \in Orders, i \in Tries : call'[p][i] # "none" => call[p][i] # "none"
  <2>1. /\ att' = [att EXCEPT ![o][k] = st] /\ st # "NONE" /\ intent' = [intent EXCEPT ![o] = it]
        /\ att[o][k] # "NONE" /\ UNCHANGED <<attAmt, charge>>
        /\ \A p \in Orders, i \in Tries : call'[p][i] # "none" => call[p][i] # "none"
    BY <1>2 DEF Answered
  <2> QED BY <2>1 DEF TypeOK
<1>3. CASE \E st, it : Answered(o, k, st, it)
  <2>1. /\ att[o][k] # "NONE" /\ att'[o][k] # "NONE"
        /\ \A p \in Orders, i \in Tries : p # o \/ i # k => att'[p][i] = att[p][i]
        /\ UNCHANGED <<attAmt, charge>>
        /\ \A p \in Orders \ {o} : att'[p] = att[p] /\ intent'[p] = intent[p]
        /\ \A p \in Orders, i \in Tries : call'[p][i] # "none" => call[p][i] # "none"
    BY <1>2, <1>3
  <2>2. status[o] # "NONE"
    BY <2>1 DEF BornWhole
  <2> QED BY <2>1, <2>2, AttemptsKnown DEF Captured
<1>4. CASE Proceeds(o, k)
  <2>1. /\ att[o][k] # "NONE" /\ UNCHANGED <<att, attAmt, intent>>
        /\ \A p \in Orders, i \in Tries : call'[p][i] # "none" => call[p][i] # "none"
        /\ charge' = charge \/ \E c \in {"open", "paid", "costly"} :
                                 ~Captured(o, k) /\ charge' = [charge EXCEPT ![o][k] = c]
    BY <1>4 DEF Proceeds
  <2>2. \A p \in Orders, i \in Tries : /\ p # o \/ i # k => charge'[p][i] = charge[p][i]
                                       /\ Captured(p, i) => Captured(p, i)'
    BY <2>1 DEF TypeOK, Captured
  <2>3. status[o] # "NONE"
    BY <2>1 DEF BornWhole
  <2> QED BY <2>1, <2>2, <2>3, AttemptsKnown
<1> QED BY <1>1, <1>3, <1>4 DEF Touched

(* The steps of the handlers, but the claim: an attempt is touched, and     *)
(* nothing else of its order.                                              *)
LEMMA HandlerKinds ==
  ASSUME TypeOK, OrderInv,
         \/ \E o \in Orders, k \in Tries : InitializeStep(o, k) \/ Pay(o, k)
         \/ \E w \in Verifiers : VerifyStep(w) /\ ~CommitSuccess(w)
  PROVE  /\ UNCHANGED <<orderSide, resv, intentAmt, review>>
         /\ \/ UNCHANGED <<payments, call, charge>>
            \/ \E o \in Orders, k \in Tries : Touched(o, k)
<1>1. ASSUME NEW o \in Orders, NEW k \in Tries, InitializeStep(o, k) \/ Pay(o, k)
      PROVE  /\ UNCHANGED <<orderSide, resv, intentAmt, review>>
             /\ \E i \in Tries : Touched(o, i)
  BY <1>1, InitializeKinds DEF OrderInv, Touched
<1>2. ASSUME NEW w \in Verifiers, VerifyStep(w), ~CommitSuccess(w)
      PROVE  /\ UNCHANGED <<orderSide, resv, intentAmt, review>>
             /\ \/ UNCHANGED <<payments, call, charge>>
                \/ \E o \in Orders, k \in Tries : Touched(o, k)
  BY <1>2, VerifyKinds DEF Touched
<1> QED BY <1>1, <1>2

-----------------------------------------------------------------------------
(* The invariant.                                                          *)

LEMMA BornStep ==
  ASSUME TypeOK, LockedIsOpen, OrderInv, [Next]_vars
  PROVE  BornWhole'
<1>0. BornWhole /\ SameAmount /\ CancelledIsFree /\ JobsKnow /\ TriggersHold
  BY DEF OrderInv
<1>1. ASSUME UNCHANGED <<status, payStatus, vo>>,
             \A o \in Orders, k \in Tries : status[o] = "NONE" => att'[o][k] = att[o][k]
      PROVE  BornWhole'
  BY <1>0, <1>1 DEF BornWhole
<1>2. CASE UNCHANGED vars
  BY <1>1, <1>2 DEF vars, orderRows, payments
<1>3. ASSUME NEW o \in Orders, CreateCheckout(o)
      PROVE  BornWhole'
  BY <1>0, <1>3, CheckoutWrites DEF BornWhole
<1>4. CASE ClockStep \/ StockStep \/ ExpiryStep
  BY <1>1, <1>4, QuietKinds DEF orderSide, payments
<1>5. ASSUME NEW o \in Orders, CancelStep(o), ~CommitCancel(o)
      PROVE  BornWhole'
  BY <1>1, <1>5, LockKinds DEF payments
<1>6. ASSUME NEW o \in Orders, CommitCancel(o)
      PROVE  BornWhole'
  <2>1. cancelling[o] \subseteq Kept(o)
    BY <1>0 DEF CancelledIsFree
  <2>2. status[o] # "NONE" /\ status'[o] # "NONE"
    BY <1>6, CancelWrites, CancelKinds DEF IsOpenUnpaid
  <2>3. \A s \in Stores : vo'[o][s] = "NONE" <=> vo[o][s] = "NONE"
    BY <1>6, <2>1, CancelWrites DEF Kept
  <2>4. /\ UNCHANGED att
        /\ \A p \in Orders \ {o} : /\ status'[p] = status[p] /\ payStatus'[p] = payStatus[p]
                                   /\ vo'[p] = vo[p]
    BY <1>6, CancelSpares
  <2> QED BY <1>0, <2>2, <2>3, <2>4 DEF BornWhole
<1>7. CASE \/ \E o \in Orders, k \in Tries : InitializeStep(o, k) \/ Pay(o, k)
           \/ \E w \in Verifiers : VerifyStep(w) /\ ~CommitSuccess(w)
  <2>1. UNCHANGED <<status, payStatus, vo>>
    BY <1>7, HandlerKinds DEF orderSide
  <2>2. CASE UNCHANGED <<payments, call, charge>>
    BY <1>1, <2>1, <2>2 DEF payments
  <2>3. ASSUME NEW o \in Orders, NEW k \in Tries, Touched(o, k)
        PROVE  BornWhole'
    BY <1>0, <1>1, <2>1, <2>3, TouchWrites
  <2> QED BY <1>7, <2>2, <2>3, HandlerKinds
<1>8. ASSUME NEW w \in Verifiers, CommitSuccess(w)
      PROVE  BornWhole'
  <2>1. PICK j : j = ver[w]
    OBVIOUS
  <2>2. att[j.o][j.k] # "NONE" /\ j.o \in Orders /\ j.k \in Tries
    BY <1>0, <1>8, <2>1, SuccessWrites DEF JobsKnow, JobKnows
  <2>3. status[j.o] # "NONE" /\ status'[j.o] # "NONE"
    <3>1. status[j.o] # "NONE"
      BY <1>0, <2>2 DEF BornWhole
    <3>2. status'[j.o] = "PAID" \/ status' = status
      BY <1>8, <2>1, SuccessWrites
    <3> QED BY <3>1, <3>2
  <2>4. \A s \in Stores : vo'[j.o][s] = "NONE" <=> vo[j.o][s] = "NONE"
    BY <1>8, <2>1, SuccessWrites
  <2>5. \A p \in Orders \ {j.o} : /\ status'[p] = status[p] /\ payStatus'[p] = payStatus[p]
                                  /\ vo'[p] = vo[p] /\ att'[p] = att[p]
    BY <1>8, <2>1, SuccessWrites
  <2> QED BY <1>0, <2>2, <2>3, <2>4, <2>5 DEF BornWhole
<1> QED BY <1>2, <1>3, <1>4, <1>5, <1>6, <1>7, <1>8, StepCases

LEMMA CancelledStep ==
  ASSUME TypeOK, OrderRowsOK, OrderInv, [Next]_vars
  PROVE  CancelledIsFree'
<1>0. BornWhole /\ SameAmount /\ CancelledIsFree /\ JobsKnow /\ LockedIsOpen
  BY DEF OrderInv, OrderRowsOK
<1>1. ASSUME UNCHANGED <<payStatus, vo, cancelling, snap>>,
             \A o \in Orders, v \in Variants : resv'[o][v] = "HELD" => resv[o][v] = "HELD"
      PROVE  CancelledIsFree'
  BY <1>0, <1>1 DEF CancelledIsFree, Kept, LinesOf, Lines
<1>2. CASE UNCHANGED vars
  BY <1>1, <1>2 DEF vars, orderRows, cancels
<1>3. ASSUME NEW o \in Orders, CreateCheckout(o)
      PROVE  CancelledIsFree'
  <2>1. cancelling[o] = {} /\ payStatus[o] = "PENDING"
    BY <1>0, <1>3, CheckoutWrites DEF LockedIsOpen, Locked, IsOpenUnpaid, BornWhole
  <2>2. \A v \in Lines(o) : vo'[o][StoreOf[v]] # "CANCELLED"
    BY <1>3, CheckoutWrites, QtyRange DEF Lines
  <2>3. \A p \in Orders \ {o} : /\ vo'[p] = vo[p] /\ resv'[p] = resv[p]
                                /\ Kept(p)' = Kept(p)
    BY <1>3, CheckoutWrites DEF Kept
  <2>4. UNCHANGED <<payStatus, cancelling, snap>>
    BY <1>3, CheckoutWrites
  <2> QED BY <1>0, <2>1, <2>2, <2>3, <2>4 DEF CancelledIsFree, LinesOf, Lines
<1>4. CASE ClockStep \/ StockStep \/ ExpiryStep
  <2>1. \A o \in Orders, v \in Variants : resv'[o][v] = "HELD" => resv[o][v] = "HELD"
    BY <1>4, QuietKinds
  <2> QED BY <1>1, <1>4, <2>1, QuietKinds DEF orderSide
<1>5. ASSUME NEW o \in Orders, CancelStep(o), ~CommitCancel(o)
      PROVE  CancelledIsFree'
  <2>1. /\ UNCHANGED <<resv, payStatus, vo>>
        /\ \A p \in Orders : Kept(p)' = Kept(p)
        /\ \A p \in Orders \ {o} : cancelling'[p] = cancelling[p] /\ snap'[p] = snap[p]
    BY <1>5, LockKinds DEF Kept
  <2>2. /\ cancelling'[o] \subseteq Kept(o)
        /\ \A v \in LinesOf(o, cancelling'[o]) : resv[o][v] = "HELD" => v \in snap'[o]
    <3>1. CASE cancelling'[o] = {}
      BY <3>1 DEF LinesOf
    <3>2. CASE /\ cancelling'[o] \subseteq Kept(o)
               /\ snap'[o] = {v \in LinesOf(o, cancelling'[o]) : resv[o][v] = "HELD"}
      BY <3>2
    <3>3. CASE cancelling'[o] = cancelling[o] /\ snap'[o] = snap[o]
      BY <1>0, <3>3 DEF CancelledIsFree, LinesOf
    <3> QED BY <1>5, <3>1, <3>2, <3>3, LockKinds
  <2> QED BY <1>0, <2>1, <2>2 DEF CancelledIsFree, LinesOf, Lines
<1>6. ASSUME NEW o \in Orders, CommitCancel(o)
      PROVE  CancelledIsFree'
  <2>1. /\ cancelling'[o] = {} /\ UNCHANGED att
        /\ \A p \in Orders \ {o} : /\ payStatus'[p] = payStatus[p]
                                   /\ vo'[p] = vo[p] /\ resv'[p] = resv[p]
                                   /\ cancelling'[p] = cancelling[p] /\ snap'[p] = snap[p]
    BY <1>0, <1>6, CancelWrites, CancelSpares
  <2>2. \A p \in Orders \ {o} : Kept(p)' = Kept(p)
    BY <2>1 DEF Kept
  <2>3. \A v \in Lines(o) : vo'[o][StoreOf[v]] = "CANCELLED" => resv'[o][v] # "HELD"
    <3> SUFFICES ASSUME NEW v \in Lines(o), vo'[o][StoreOf[v]] = "CANCELLED"
                 PROVE  resv'[o][v] # "HELD"
      OBVIOUS
    <3>1. v \in Variants /\ StoreOf[v] \in Stores
      BY QtyRange DEF Lines
    <3>2. resv'[o][v] = IF v \in snap[o] THEN "RELEASED" ELSE resv[o][v]
      BY <1>0, <1>6, <3>1, CancelWrites
    <3>3. CASE StoreOf[v] \in cancelling[o]
      BY <1>0, <3>2, <3>3 DEF CancelledIsFree, LinesOf
    <3>4. CASE StoreOf[v] \notin cancelling[o]
      <4>1. vo[o][StoreOf[v]] = "CANCELLED"
        BY <1>0, <1>6, <3>1, <3>4, CancelWrites
      <4> QED BY <1>0, <3>2, <4>1 DEF CancelledIsFree
    <3> QED BY <3>3, <3>4
  <2>4. payStatus'[o] = "CANCELLED" => Kept(o)' = {}
    <3>1. payStatus[o] = "PENDING"
      BY <1>0, <1>6, CancelWrites DEF IsOpenUnpaid
    <3> QED BY <1>0, <1>6, <3>1, CancelWrites, CancelKinds
  <2> QED BY <1>0, <2>1, <2>2, <2>3, <2>4 DEF CancelledIsFree, LinesOf, Lines
<1>7. CASE \/ \E o \in Orders, k \in Tries : InitializeStep(o, k) \/ Pay(o, k)
           \/ \E w \in Verifiers : VerifyStep(w) /\ ~CommitSuccess(w)
  BY <1>1, <1>7, HandlerKinds DEF orderSide
<1>8. ASSUME NEW w \in Verifiers, CommitSuccess(w)
      PROVE  CancelledIsFree'
  <2>1. PICK j : j = ver[w]
    OBVIOUS
  <2>2. /\ j.o \in Orders /\ payStatus'[j.o] = "SUCCEEDED" /\ UNCHANGED <<cancelling, snap>>
        /\ \A p \in Orders \ {j.o} : /\ payStatus'[p] = payStatus[p]
                                     /\ vo'[p] = vo[p] /\ resv'[p] = resv[p]
        /\ \A p \in Orders : Kept(p)' = Kept(p)
        /\ \A v \in Variants : resv'[j.o][v] = "HELD" => resv[j.o][v] = "HELD"
        /\ \A s \in Stores : vo'[j.o][s] = "CANCELLED" => vo[j.o][s] = "CANCELLED"
    BY <1>8, <2>1, SuccessWrites
  <2>3. \A v \in Lines(j.o) : StoreOf[v] \in Stores /\ v \in Variants
    BY <2>2, QtyRange DEF Lines
  <2> QED BY <1>0, <2>2, <2>3 DEF CancelledIsFree, LinesOf, Lines
<1> QED BY <1>2, <1>3, <1>4, <1>5, <1>6, <1>7, <1>8, StepCases

(* A touched attempt still asks for the intent's amount, and an intent that *)
(* is PENDING has had no answer.                                           *)
LEMMA SameAmountTouch ==
  ASSUME TypeOK, BornWhole, SameAmount, NEW o \in Orders, NEW k \in Tries, Touched(o, k),
         UNCHANGED <<status, intentAmt>>
  PROVE  SameAmount'
<1>1. \A p \in Orders, i \in Tries :
        att'[p][i] = "NONE" => call'[p][i] = "none" /\ charge'[p][i] = "none"
  BY TouchWrites, AttemptsKnown
<1>2. \A p \in Orders \ {o} : att'[p] = att[p] /\ intent'[p] = intent[p] /\ attAmt'[p] = attAmt[p]
  BY TouchWrites
<1>3. /\ intent'[o] = "PENDING" => \A i \in Tries : att'[o][i] \in {"NONE", "PENDING"}
      /\ \A h, i \in Tries : att'[o][h] = "PENDING" /\ att'[o][i] = "PENDING" => h = i
      /\ \A i \in Tries : att'[o][i] # "NONE" => attAmt'[o][i] = intentAmt[o]
  <2>1. CASE Inserted(o, k)
    <3>1. /\ ~HasActiveAttempt(o) /\ intent' = intent
          /\ att' = [att EXCEPT ![o][k] = "PENDING"]
          /\ attAmt' = [attAmt EXCEPT ![o][k] = intentAmt[o]]
      BY <2>1 DEF Inserted
    <3>2. /\ att'[o][k] = "PENDING" /\ attAmt'[o][k] = intentAmt[o]
          /\ \A i \in Tries : i # k => att'[o][i] = att[o][i] /\ attAmt'[o][i] = attAmt[o][i]
      BY <3>1 DEF TypeOK
    <3>3. \A i \in Tries : att[o][i] # "PENDING"
      BY <3>1 DEF HasActiveAttempt, Active
    <3> QED BY <3>1, <3>2, <3>3 DEF SameAmount
  <2>2. ASSUME NEW st, NEW it, Answered(o, k, st, it)
        PROVE  /\ att'[o][k] = st /\ st \notin {"NONE", "PENDING"} /\ intent'[o] # "PENDING"
               /\ \A i \in Tries : i # k => att'[o][i] = att[o][i]
               /\ attAmt' = attAmt /\ att[o][k] # "NONE"
    BY <2>2 DEF Answered, TypeOK
  <2>3. CASE \E st, it : Answered(o, k, st, it)
    <3>1. /\ att'[o][k] \notin {"NONE", "PENDING"} /\ intent'[o] # "PENDING"
          /\ \A i \in Tries : i # k => att'[o][i] = att[o][i]
          /\ attAmt' = attAmt /\ att[o][k] # "NONE"
      BY <2>2, <2>3
    <3> QED BY <3>1 DEF SameAmount
  <2>4. CASE Proceeds(o, k)
    BY <2>4 DEF Proceeds, SameAmount
  <2> QED BY <2>1, <2>3, <2>4 DEF Touched
<1> QED BY <1>1, <1>2, <1>3 DEF SameAmount

LEMMA SameAmountStep ==
  ASSUME TypeOK, LockedIsOpen, OrderInv, [Next]_vars
  PROVE  SameAmount'
<1>0. BornWhole /\ SameAmount /\ CancelledIsFree /\ JobsKnow /\ TriggersHold
  BY DEF OrderInv
<1>1. ASSUME UNCHANGED <<status, payments, call, charge>>
      PROVE  SameAmount'
  BY <1>0, <1>1 DEF SameAmount, payments
<1>2. CASE UNCHANGED vars
  BY <1>1, <1>2 DEF vars, orderRows, handlers, provider
<1>3. ASSUME NEW o \in Orders, CreateCheckout(o)
      PROVE  SameAmount'
  <2>1. /\ UNCHANGED <<att, attAmt, call, charge>>
        /\ intentAmt'[o] # {} /\ intentAmt'[o] \subseteq Slices(o) /\ status[o] = "NONE"
        /\ \A p \in Orders \ {o} : /\ status'[p] = status[p] /\ intent'[p] = intent[p]
                                   /\ intentAmt'[p] = intentAmt[p]
    BY <1>3, CheckoutWrites DEF handlers
  <2>2. \A k \in Tries : att[o][k] = "NONE"
    BY <1>0, <2>1 DEF BornWhole
  <2> QED BY <1>0, <2>1, <2>2 DEF SameAmount, Slices, Lines
<1>4. CASE ClockStep \/ StockStep \/ ExpiryStep
  BY <1>1, <1>4, QuietKinds DEF orderSide, handlers
<1>5. ASSUME NEW o \in Orders, CancelStep(o), ~CommitCancel(o)
      PROVE  SameAmount'
  BY <1>1, <1>5, LockKinds DEF handlers
<1>6. ASSUME NEW o \in Orders, CommitCancel(o)
      PROVE  SameAmount'
  <2>1. /\ UNCHANGED <<att, attAmt, call, charge>>
        /\ \A p \in Orders \ {o} : /\ status'[p] = status[p] /\ intent'[p] = intent[p]
                                   /\ intentAmt'[p] = intentAmt[p]
    BY <1>6, CancelSpares
  <2>2. status[o] # "NONE" /\ cleared[o]
    BY <1>0, <1>6, CancelWrites DEF IsOpenUnpaid
  <2>3. intent[o] = "PENDING" => \A k \in Tries : att[o][k] = "NONE"
    BY <1>0, <2>2 DEF SameAmount, TriggersHold
  <2>4. Kept(o) \subseteq Slices(o)
    BY <1>0, <2>2 DEF BornWhole, Kept
  <2>5. intentAmt'[o] # {} /\ intentAmt'[o] \subseteq Slices(o)
    BY <1>0, <1>6, <2>2, <2>4, CancelKinds DEF SameAmount
  <2>6. /\ intent'[o] = "PENDING" => intent[o] = "PENDING"
        /\ intent[o] # "PENDING" => intentAmt'[o] = intentAmt[o]
    BY <1>6, CancelKinds
  <2>7. \A k \in Tries : att[o][k] # "NONE" => attAmt[o][k] = intentAmt'[o]
    BY <1>0, <2>3, <2>6 DEF SameAmount
  <2>8. \A p \in Orders : status'[p] # "NONE" => intentAmt'[p] # {} /\ intentAmt'[p] \subseteq Slices(p)
    BY <1>0, <2>1, <2>5 DEF SameAmount
  <2> QED BY <1>0, <2>1, <2>6, <2>7, <2>8 DEF SameAmount, Slices, Lines
<1>7. CASE \/ \E o \in Orders, k \in Tries : InitializeStep(o, k) \/ Pay(o, k)
           \/ \E w \in Verifiers : VerifyStep(w) /\ ~CommitSuccess(w)
  <2>1. UNCHANGED <<status, intentAmt>>
    BY <1>7, HandlerKinds DEF orderSide
  <2>2. CASE UNCHANGED <<payments, call, charge>>
    BY <1>1, <2>1, <2>2
  <2>3. ASSUME NEW o \in Orders, NEW k \in Tries, Touched(o, k)
        PROVE  SameAmount'
    BY <1>0, <2>1, <2>3, SameAmountTouch
  <2> QED BY <1>7, <2>2, <2>3, HandlerKinds
<1>8. ASSUME NEW w \in Verifiers, CommitSuccess(w)
      PROVE  SameAmount'
  <2>1. PICK j : j = ver[w]
    OBVIOUS
  <2>2. att[j.o][j.k] # "NONE" /\ j.o \in Orders /\ j.k \in Tries
    BY <1>0, <1>8, <2>1, SuccessWrites DEF JobsKnow, JobKnows
  <2>3. status[j.o] # "NONE"
    BY <1>0, <2>2 DEF BornWhole
  <2>4. /\ UNCHANGED <<intentAmt, attAmt, call, charge>> /\ intent'[j.o] = "SUCCEEDED"
        /\ \A p \in Orders \ {j.o} : att'[p] = att[p] /\ intent'[p] = intent[p] /\ status'[p] = status[p]
        /\ \A i \in Tries : /\ att'[j.o][i] = "NONE" <=> (att[j.o][i] = "NONE" /\ i # j.k)
                            /\ att'[j.o][i] # "PENDING"
    BY <1>8, <2>1, SuccessWrites
  <2>5. \A i \in Tries : att'[j.o][i] = "NONE" <=> att[j.o][i] = "NONE"
    BY <2>2, <2>4
  <2>6. \A p \in Orders : status'[p] # "NONE" => status[p] # "NONE"
    BY <2>3, <2>4
  <2> QED BY <1>0, <2>2, <2>4, <2>5, <2>6 DEF SameAmount, Slices, Lines
<1> QED BY <1>2, <1>3, <1>4, <1>5, <1>6, <1>7, <1>8, StepCases

(* Attempts stay made, captured charges stay captured, and the vendor orders *)
(* of an order only become fewer.                                          *)
LEMMA OneWay ==
  ASSUME TypeOK, LockedIsOpen, OrderInv, [Next]_vars
  PROVE  /\ \A p \in Orders, i \in Tries : att[p][i] # "NONE" => att'[p][i] # "NONE"
         /\ \A p \in Orders, i \in Tries : Captured(p, i) => Captured(p, i)'
         /\ \A p \in Orders : status[p] # "NONE" => Kept(p)' \subseteq Kept(p)
<1> DEFINE Made == \A p \in Orders, i \in Tries : att[p][i] # "NONE" => att'[p][i] # "NONE"
           Paid == \A p \in Orders, i \in Tries : Captured(p, i) => Captured(p, i)'
           Fewer == \A p \in Orders : status[p] # "NONE" => Kept(p)' \subseteq Kept(p)
<1>0. BornWhole /\ SameAmount /\ CancelledIsFree /\ JobsKnow /\ TriggersHold
  BY DEF OrderInv
<1>1. UNCHANGED att => Made
  OBVIOUS
<1>2. UNCHANGED charge => Paid
  BY DEF Captured
<1>3. UNCHANGED vo => Fewer
  BY DEF Kept
<1>4. CASE UNCHANGED vars
  BY <1>1, <1>2, <1>3, <1>4 DEF vars, orderRows, payments, provider
<1>5. ASSUME NEW o \in Orders, CreateCheckout(o)
      PROVE  Made /\ Paid /\ Fewer
  <2>1. UNCHANGED <<att, charge>> /\ status[o] = "NONE"
    BY <1>5, CheckoutWrites
  <2>2. \A p \in Orders \ {o} : Kept(p)' = Kept(p)
    BY <1>5, CheckoutWrites DEF Kept
  <2> QED BY <1>1, <1>2, <2>1, <2>2
<1>6. CASE ClockStep \/ StockStep \/ ExpiryStep
  BY <1>1, <1>2, <1>3, <1>6, QuietKinds DEF orderSide, payments
<1>7. ASSUME NEW o \in Orders, CancelStep(o), ~CommitCancel(o)
      PROVE  Made /\ Paid /\ Fewer
  BY <1>1, <1>2, <1>3, <1>7, LockKinds DEF payments
<1>8. ASSUME NEW o \in Orders, CommitCancel(o)
      PROVE  Made /\ Paid /\ Fewer
  <2>1. UNCHANGED <<att, charge>> /\ \A p \in Orders \ {o} : vo'[p] = vo[p]
    BY <1>8, CancelSpares
  <2>2. Kept(o)' = Kept(o) \ cancelling[o]
    BY <1>8, CancelWrites
  <2>3. \A p \in Orders \ {o} : Kept(p)' = Kept(p)
    BY <2>1 DEF Kept
  <2> QED BY <1>1, <1>2, <2>1, <2>2, <2>3
<1>9. CASE \/ \E o \in Orders, k \in Tries : InitializeStep(o, k) \/ Pay(o, k)
           \/ \E w \in Verifiers : VerifyStep(w) /\ ~CommitSuccess(w)
  <2>1. UNCHANGED vo
    BY <1>9, HandlerKinds DEF orderSide
  <2>2. ASSUME NEW o \in Orders, NEW k \in Tries, Touched(o, k)
        PROVE  Made /\ Paid
    BY <1>0, <2>2, TouchWrites
  <2> QED BY <1>1, <1>2, <1>3, <1>9, <2>1, <2>2, HandlerKinds DEF payments
<1>10. ASSUME NEW w \in Verifiers, CommitSuccess(w)
       PROVE  Made /\ Paid /\ Fewer
  <2>1. PICK j : j = ver[w]
    OBVIOUS
  <2>2. /\ j.o \in Orders /\ UNCHANGED charge /\ \A p \in Orders : Kept(p)' = Kept(p)
        /\ \A p \in Orders \ {j.o} : att'[p] = att[p]
        /\ \A i \in Tries : att'[j.o][i] = "NONE" <=> (att[j.o][i] = "NONE" /\ i # j.k)
    BY <1>10, <2>1, SuccessWrites
  <2> QED BY <1>2, <2>2
<1> QED BY <1>4, <1>5, <1>6, <1>7, <1>8, <1>9, <1>10, StepCases

(* A job nobody works on knows what it knew.                               *)
LEMMA JobWaits ==
  ASSUME TypeOK, LockedIsOpen, OrderInv, [Next]_vars, NEW w \in Verifiers, ver'[w] = ver[w]
  PROVE  JobKnows(w)'
<1>1. ver[w] = Idle \/ ver[w] \in Jobs
  BY DEF TypeOK
<1>2. CASE ver[w] = Idle
  BY <1>2 DEF JobKnows, Idle
<1>3. CASE ver[w] \in Jobs
  <2>1. PICK j \in Jobs : j = ver[w]
    BY <1>3
  <2>2. j.o \in Orders /\ j.k \in Tries /\ j.pc \in {"answered", "read"}
    BY <2>1 DEF Jobs
  <2>3. /\ att[j.o][j.k] # "NONE" /\ (j.res = "SUCCEEDED" => Captured(j.o, j.k))
        /\ j.pc = "read" => j.res = "SUCCEEDED" /\ Kept(j.o) \subseteq j.payable /\ j.payable \subseteq Slices(j.o)
    BY <2>1, <2>2 DEF OrderInv, JobsKnow, JobKnows
  <2>4. /\ att'[j.o][j.k] # "NONE" /\ (Captured(j.o, j.k) => Captured(j.o, j.k)')
        /\ Kept(j.o)' \subseteq Kept(j.o)
    BY <2>2, <2>3, OneWay DEF OrderInv, BornWhole
  <2>5. ver'[w] = j
    BY <2>1
  <2> QED BY <2>2, <2>3, <2>4, <2>5 DEF JobKnows, Slices, Lines
<1> QED BY <1>1, <1>2, <1>3

LEMMA JobStarts ==
  ASSUME TypeOK, OrderInv, NEW w \in Verifiers, NEW o \in Orders, NEW k \in Tries,
         NEW e \in BOOLEAN, StartJob(w, o, k, e), att[o][k] # "NONE", UNCHANGED <<att, charge>>
  PROVE  JobKnows(w)' /\ \A x \in Verifiers \ {w} : ver'[x] = ver[x]
<1>1. PICK r \in Verdicts(charge[o][k]) :
        ver' = [ver EXCEPT ![w] = [pc |-> "answered", o |-> o, k |-> k, res |-> r,
                                   ev |-> e, payable |-> {}, live |-> FALSE]]
  BY DEF StartJob
<1>2. r = "SUCCEEDED" => Captured(o, k)
  <2>1. charge[o][k] \in {"none", "open", "paid", "costly"}
    BY DEF TypeOK
  <2> QED BY <2>1 DEF Verdicts, Captured
<1> DEFINE j == [pc |-> "answered", o |-> o, k |-> k, res |-> r,
                 ev |-> e, payable |-> {}, live |-> FALSE]
<1>3. ver'[w] = j /\ \A x \in Verifiers \ {w} : ver'[x] = ver[x]
  BY <1>1 DEF TypeOK
<1>4. j.pc = "answered" /\ j.o = o /\ j.k = k /\ j.res = r
  OBVIOUS
<1> HIDE DEF j
<1>5. (j.res = "SUCCEEDED" => Captured(j.o, j.k)') /\ att'[j.o][j.k] # "NONE"
  BY <1>2, <1>4, SMTT(30) DEF Captured
<1> QED BY <1>3, <1>4, <1>5 DEF JobKnows

(* A job that goes on knows what it knew, and reads what is true.          *)
LEMMA JobWorks ==
  ASSUME TypeOK, OrderInv, NEW w \in Verifiers, VerifyStep(w)
  PROVE  JobKnows(w)' /\ \A x \in Verifiers \ {w} : ver'[x] = ver[x]
<1>0. BornWhole /\ SameAmount /\ CancelledIsFree /\ JobsKnow /\ TriggersHold
  BY DEF OrderInv
<1>1. ASSUME NEW o \in Orders, NEW k \in Tries, HandleWebhook(w, o, k) \/ Reconcile(w, o, k)
      PROVE  JobKnows(w)' /\ \A x \in Verifiers \ {w} : ver'[x] = ver[x]
  <2>1. att[o][k] # "NONE"
    BY <1>0, <1>1, AttemptsKnown DEF HandleWebhook, Reconcile, Captured, Reconcilable, Unresolved, Active
  <2>2. /\ UNCHANGED <<att, charge>>
        /\ \E e \in BOOLEAN : StartJob(w, o, k, e)
    BY <1>1 DEF HandleWebhook, Reconcile, payments, provider
  <2> QED BY <2>1, <2>2, JobStarts
<1>2. CASE Finish(w)
  BY <1>2 DEF Finish, TypeOK, Idle, JobKnows
<1>3. CASE MarkMismatchEvent(w)
  <2>1. /\ ver[w] \in Jobs /\ ver[w].pc = "answered" /\ ver[w].res = "MISMATCH" /\ UNCHANGED <<att, charge>>
        /\ ver' = [ver EXCEPT ![w] = [@ EXCEPT !.ev = FALSE]]
    BY <1>3, JobTyping DEF MarkMismatchEvent, payments
  <2>2. PICK j \in Jobs : j = ver[w]
    BY <2>1
  <2> DEFINE n == [j EXCEPT !.ev = FALSE]
  <2>3. ver'[w] = n /\ \A x \in Verifiers \ {w} : ver'[x] = ver[x]
    BY <2>1, <2>2 DEF TypeOK
  <2>4. n.pc = "answered" /\ n.o = j.o /\ n.k = j.k /\ n.res = "MISMATCH"
    BY <2>1, <2>2 DEF Jobs
  <2>5. att[j.o][j.k] # "NONE"
    BY <1>0, <2>1, <2>2 DEF JobsKnow, JobKnows
  <2> HIDE DEF n
  <2> QED BY <2>1, <2>3, <2>4, <2>5 DEF JobKnows
<1>4. CASE ReadSuccess(w)
  <2>1. /\ ver[w] \in Jobs /\ ver[w].pc = "answered" /\ ver[w].res = "SUCCEEDED"
        /\ UNCHANGED <<att, charge, vo>>
    <3>1. ver[w].pc = "answered" /\ ver[w].res = "SUCCEEDED"
      BY <1>4 DEF ReadSuccess
    <3>2. UNCHANGED <<att, charge, vo>>
      BY <1>4 DEF ReadSuccess, payments, orderRows, provider
    <3> QED BY <3>1, <3>2, JobTyping
  <2>2. PICK j \in Jobs : j = ver[w]
    BY <2>1
  <2>3. PICK b : b = (IsOpenUnpaid(j.o) /\ ~due[j.o])
    OBVIOUS
  <2> DEFINE n == [j EXCEPT !.pc = "read", !.payable = Kept(j.o), !.live = b]
  <2>4. ver' = [ver EXCEPT ![w] = n]
    BY <1>4, <2>2, <2>3 DEF ReadSuccess
  <2>5. ver'[w] = n /\ \A x \in Verifiers \ {w} : ver'[x] = ver[x]
    BY <2>4 DEF TypeOK
  <2>6. n.pc = "read" /\ n.o = j.o /\ n.k = j.k /\ n.res = "SUCCEEDED" /\ n.payable = Kept(j.o)
    BY <2>1, <2>2 DEF Jobs
  <2>7. att[j.o][j.k] # "NONE" /\ Captured(j.o, j.k)
    BY <1>0, <2>1, <2>2 DEF JobsKnow, JobKnows
  <2>8. j.o \in Orders /\ j.k \in Tries
    BY <2>2 DEF Jobs
  <2>9. Kept(j.o) \subseteq Slices(j.o)
    BY <1>0, <2>7, <2>8 DEF BornWhole, Kept
  <2>10. Kept(j.o)' = Kept(j.o) /\ Captured(j.o, j.k)' /\ att'[j.o][j.k] # "NONE"
    BY <2>1, <2>7 DEF Kept, Captured
  <2> HIDE DEF n
  <2> QED BY <2>5, <2>6, <2>9, <2>10 DEF JobKnows, Slices, Lines
<1> QED BY <1>1, <1>2, <1>3, <1>4 DEF VerifyStep, ApplyNonSuccess, ApplyMismatch,
        DuplicateSuccess, CommitSuccess, EndVerification

LEMMA JobsStep ==
  ASSUME TypeOK, LockedIsOpen, OrderInv, [Next]_vars
  PROVE  JobsKnow'
<1>1. ASSUME ver' = ver
      PROVE  JobsKnow'
  BY <1>1, JobWaits DEF JobsKnow
<1>2. CASE UNCHANGED vars
  BY <1>1, <1>2 DEF vars, handlers
<1>3. ASSUME NEW o \in Orders, CreateCheckout(o)
      PROVE  JobsKnow'
  BY <1>1, <1>3, CheckoutWrites DEF handlers
<1>4. CASE ClockStep \/ StockStep \/ ExpiryStep
  BY <1>1, <1>4, QuietKinds DEF handlers
<1>5. ASSUME NEW o \in Orders, CancelStep(o), ~CommitCancel(o)
      PROVE  JobsKnow'
  BY <1>1, <1>5, LockKinds DEF handlers
<1>6. ASSUME NEW o \in Orders, CommitCancel(o)
      PROVE  JobsKnow'
  BY <1>1, <1>6, CancelSpares
<1>7. ASSUME NEW o \in Orders, NEW k \in Tries, InitializeStep(o, k) \/ Pay(o, k)
      PROVE  JobsKnow'
  BY <1>1, <1>7, InitializeKinds DEF OrderInv
<1>8. ASSUME NEW w \in Verifiers, VerifyStep(w)
      PROVE  JobsKnow'
  BY <1>8, JobWorks, JobWaits DEF JobsKnow
<1>9. \A w \in Verifiers : CommitSuccess(w) => VerifyStep(w)
  BY DEF VerifyStep
<1> QED BY <1>2, <1>3, <1>4, <1>5, <1>6, <1>7, <1>8, <1>9, StepCases

(* An attempt that is touched while an order is locked was there before.   *)
LEMMA TriggersTouch ==
  ASSUME TypeOK, TriggersHold, NEW o \in Orders, NEW k \in Tries, Touched(o, k),
         UNCHANGED <<cancelling, cleared, tested>>
  PROVE  TriggersHold'
<1>1. CASE Inserted(o, k)
  <2>1. ~cleared[o] /\ att' = [att EXCEPT ![o][k] = "PENDING"]
    BY <1>1 DEF Inserted, TriggersHold
  <2>2. \A p \in Orders \ {o} : att'[p] = att[p]
    BY <2>1 DEF TypeOK
  <2> QED BY <2>1, <2>2 DEF TriggersHold
<1>2. ASSUME NEW st, NEW it, Answered(o, k, st, it)
      PROVE  TriggersHold'
  <2>1. /\ att[o][k] # "NONE" /\ st # "PENDING" /\ att' = [att EXCEPT ![o][k] = st]
    BY <1>2 DEF Answered
  <2>2. /\ att'[o][k] # "PENDING"
        /\ \A p \in Orders, i \in Tries : p # o \/ i # k => att'[p][i] = att[p][i]
    BY <2>1 DEF TypeOK
  <2> QED BY <2>1, <2>2 DEF TriggersHold
<1>3. CASE Proceeds(o, k)
  BY <1>3 DEF Proceeds, TriggersHold
<1> QED BY <1>1, <1>2, <1>3 DEF Touched

LEMMA TriggersStep ==
  ASSUME TypeOK, LockedIsOpen, OrderInv, [Next]_vars
  PROVE  TriggersHold'
<1>0. BornWhole /\ SameAmount /\ CancelledIsFree /\ JobsKnow /\ TriggersHold
  BY DEF OrderInv
<1>1. ASSUME UNCHANGED <<cancelling, cleared, tested, att>>
      PROVE  TriggersHold'
  BY <1>0, <1>1 DEF TriggersHold
<1>2. CASE UNCHANGED vars
  BY <1>1, <1>2 DEF vars, cancels, payments
<1>3. ASSUME NEW o \in Orders, CreateCheckout(o)
      PROVE  TriggersHold'
  BY <1>1, <1>3, CheckoutWrites
<1>4. CASE ClockStep \/ StockStep \/ ExpiryStep
  BY <1>1, <1>4, QuietKinds DEF orderSide, payments
<1>5. ASSUME NEW o \in Orders, CancelStep(o)
      PROVE  TriggersHold'
  <2>1. /\ \A p \in Orders \ {o} : /\ cleared'[p] = cleared[p] /\ tested'[p] = tested[p]
                                   /\ cancelling'[p] = cancelling[p]
        /\ att' = att
    BY <1>5, TriggerKinds
  <2>2. cleared'[o] => /\ cancelling'[o] # {}
                       /\ \A k \in Tries : att[o][k] # "PENDING" /\ (att[o][k] # "NONE" => k \in tested'[o])
    <3>1. CASE cleared'[o] = cleared[o] /\ cancelling[o] = {}
      BY <1>0, <3>1 DEF TriggersHold
    <3>2. CASE /\ cancelling'[o] # {} /\ ~HasActiveAttempt(o)
               /\ tested'[o] = {k \in Tries : att[o][k] # "NONE"}
      BY <3>2 DEF HasActiveAttempt, Active
    <3> QED BY <1>5, <3>1, <3>2, TriggerKinds
  <2> QED BY <1>0, <2>1, <2>2 DEF TriggersHold
<1>6. CASE \/ \E o \in Orders, k \in Tries : InitializeStep(o, k) \/ Pay(o, k)
           \/ \E w \in Verifiers : VerifyStep(w) /\ ~CommitSuccess(w)
  <2>1. UNCHANGED <<cancelling, cleared, tested>>
    BY <1>6, HandlerKinds DEF orderSide
  <2>2. CASE UNCHANGED <<payments, call, charge>>
    BY <1>1, <2>1, <2>2 DEF payments
  <2>3. ASSUME NEW o \in Orders, NEW k \in Tries, Touched(o, k)
        PROVE  TriggersHold'
    BY <1>0, <2>1, <2>3, TriggersTouch
  <2> QED BY <1>6, <2>2, <2>3, HandlerKinds
<1>7. ASSUME NEW w \in Verifiers, CommitSuccess(w)
      PROVE  TriggersHold'
  <2>1. PICK j : j = ver[w]
    OBVIOUS
  <2>2. /\ cancelling' = cancelling /\ cleared' = cleared /\ tested' = tested
        /\ cancelling[j.o] = {}
    BY <1>7, <2>1 DEF CommitSuccess, Locked, cancels
  <2>3. j.o \in Orders /\ \A p \in Orders \ {j.o} : att'[p] = att[p]
    BY <1>7, <2>1, SuccessWrites
  <2> QED BY <1>0, <2>2, <2>3 DEF TriggersHold
<1>8. \A o \in Orders : CommitCancel(o) => CancelStep(o)
  BY DEF CancelStep
<1> QED BY <1>2, <1>3, <1>4, <1>5, <1>6, <1>7, <1>8, StepCases

LEMMA OrderInvNext == TypeOK /\ LockedIsOpen /\ OrderRowsOK /\ OrderInv /\ [Next]_vars => OrderInv'
BY BornStep, CancelledStep, SameAmountStep, JobsStep, TriggersStep DEF OrderInv

LEMMA OrderInvInit == Init => OrderInv
<1> SUFFICES ASSUME Init PROVE OrderInv
  OBVIOUS
<1>1. BornWhole
  BY DEF Init, BornWhole
<1>2. CancelledIsFree
  <2>1. \A o \in Orders : \A v \in Lines(o) : v \in Variants /\ StoreOf[v] \in Stores
    BY QtyRange DEF Lines
  <2> QED BY <2>1 DEF Init, CancelledIsFree, LinesOf
<1>3. SameAmount
  BY DEF Init, SameAmount
<1>4. JobsKnow
  BY DEF Init, JobsKnow, JobKnows, Idle
<1>5. TriggersHold
  BY DEF Init, TriggersHold
<1> QED BY <1>1, <1>2, <1>3, <1>4, <1>5 DEF OrderInv

-----------------------------------------------------------------------------
(* What is sold.                                                           *)

PaidRight(o) ==
  /\ {v \in Variants : resv[o][v] = "COMMITTED"} =
       IF status[o] = "PAID" THEN LinesOf(o, Kept(o)) ELSE {}
  /\ status[o] = "PAID" => \E k \in Tries : Captured(o, k) /\ attAmt[o][k] = Kept(o)

LEMMA PaidSplit == PaidExactly <=> \A o \in Orders : PaidRight(o)
BY DEF PaidExactly, PaidRight

LEMMA PaidSplitNext == PaidExactly' <=> \A o \in Orders : PaidRight(o)'
BY DEF PaidExactly, PaidRight

LEMMA PaidFrame ==
  ASSUME PaidExactly, NEW o \in Orders,
         status'[o] = "PAID" <=> status[o] = "PAID",
         \A v \in Variants : resv'[o][v] = "COMMITTED" <=> resv[o][v] = "COMMITTED",
         status[o] = "PAID" => Kept(o)' = Kept(o),
         \A k \in Tries : Captured(o, k) => Captured(o, k)' /\ attAmt'[o][k] = attAmt[o][k]
  PROVE  PaidRight(o)'
<1>1. PaidRight(o)
  BY PaidSplit
<1>2. {v \in Variants : resv'[o][v] = "COMMITTED"} = {v \in Variants : resv[o][v] = "COMMITTED"}
  OBVIOUS
<1>3. status[o] = "PAID" => LinesOf(o, Kept(o))' = LinesOf(o, Kept(o))
  BY DEF LinesOf, Lines
<1>4. CASE status[o] = "PAID"
  <2>1. PICK k \in Tries : Captured(o, k) /\ attAmt[o][k] = Kept(o)
    BY <1>1, <1>4 DEF PaidRight
  <2>2. Captured(o, k)' /\ attAmt'[o][k] = Kept(o)'
    BY <1>4, <2>1
  <2> QED BY <1>1, <1>2, <1>3, <1>4, <2>2 DEF PaidRight
<1>5. CASE status[o] # "PAID"
  BY <1>1, <1>2, <1>5 DEF PaidRight
<1> QED BY <1>4, <1>5

(* A sale is of all vendor orders still kept, at the price some attempt was *)
(* captured for: whatever a cancellation took since they were read is no    *)
(* longer held, so the sale would not have been fulfillable.               *)
LEMMA SaleIsWhole ==
  ASSUME TypeOK, StockInv, OrderInv, PaidExactly,
         NEW w \in Verifiers, CommitSuccess(w), NEW j, j = ver[w], SoldBy(j) # {}
  PROVE  /\ j.payable = Kept(j.o) /\ SoldBy(j) = LinesOf(j.o, Kept(j.o))
         /\ Captured(j.o, j.k) /\ attAmt[j.o][j.k] = Kept(j.o) /\ Kept(j.o) # {}
         /\ status[j.o] \notin {"NONE", "PAID"}
         /\ \A v \in SoldBy(j) : resv[j.o][v] = "HELD" /\ onHand[v] >= Qty[j.o][v]
<1>1. j.o \in Orders /\ j.k \in Tries /\ j.pc = "read" /\ j \in Jobs
  BY SuccessWrites
<1>2. /\ Fulfillable(j) /\ SoldBy(j) = LinesOf(j.o, j.payable)
      /\ AllocationsValid(j) /\ j.payable = intentAmt[j.o] /\ j.payable # {}
      /\ charge[j.o][j.k] = "paid"
      /\ \A v \in LinesOf(j.o, j.payable) : resv[j.o][v] = "HELD" /\ onHand[v] >= Qty[j.o][v]
  BY DEF SoldBy, Fulfillable, AllocationsValid
<1>3. att[j.o][j.k] # "NONE" /\ Kept(j.o) \subseteq j.payable /\ j.payable \subseteq Slices(j.o)
  BY <1>1 DEF OrderInv, JobsKnow, JobKnows
<1>4. status[j.o] # "NONE"
  BY <1>1, <1>3 DEF OrderInv, BornWhole
<1>5. j.payable \subseteq Kept(j.o)
  <2> SUFFICES ASSUME NEW s \in j.payable PROVE s \in Kept(j.o)
    OBVIOUS
  <2>1. PICK v \in Lines(j.o) : s = StoreOf[v]
    BY <1>3 DEF Slices
  <2>2. v \in LinesOf(j.o, j.payable) /\ s \in Stores
    BY <1>1, <2>1, QtyRange DEF LinesOf, Lines
  <2>3. vo[j.o][s] # "CANCELLED"
    BY <1>1, <1>2, <2>1, <2>2 DEF OrderInv, CancelledIsFree
  <2>4. vo[j.o][s] # "NONE"
    BY <1>1, <1>3, <1>4, <2>2 DEF OrderInv, BornWhole
  <2> QED BY <2>2, <2>3, <2>4 DEF Kept
<1>6. j.payable = Kept(j.o)
  BY <1>3, <1>5
<1>7. attAmt[j.o][j.k] = Kept(j.o)
  BY <1>1, <1>2, <1>3, <1>6 DEF OrderInv, SameAmount
<1>8. status[j.o] # "PAID"
  <2> SUFFICES ASSUME status[j.o] = "PAID" PROVE FALSE
    OBVIOUS
  <2>1. {v \in Variants : resv[j.o][v] = "COMMITTED"} = LinesOf(j.o, Kept(j.o))
    BY <1>1, PaidSplit DEF PaidRight
  <2>2. \A v \in SoldBy(j) : resv[j.o][v] = "COMMITTED"
    BY <1>2, <1>6, <2>1
  <2> QED BY <1>2, <2>2
<1> QED BY <1>2, <1>4, <1>6, <1>7, <1>8 DEF Captured

(* A capture keeps the amount its attempt asked for.                       *)
LEMMA CaptureKeeps ==
  ASSUME TypeOK, LockedIsOpen, OrderInv, [Next]_vars, NEW o \in Orders, NEW k \in Tries,
         Captured(o, k)
  PROVE  Captured(o, k)' /\ attAmt'[o][k] = attAmt[o][k]
<1>0. BornWhole /\ SameAmount /\ att[o][k] # "NONE"
  BY AttemptsKnown DEF OrderInv, Captured
<1>1. Captured(o, k)'
  BY OneWay
<1>2. attAmt'[o][k] = attAmt[o][k]
  <2>1. CASE UNCHANGED vars
    BY <2>1 DEF vars, payments
  <2>2. ASSUME NEW p \in Orders, CreateCheckout(p) \/ CommitCancel(p)
        PROVE  attAmt' = attAmt
    BY <2>2, CheckoutWrites, CancelSpares
  <2>3. CASE ClockStep \/ StockStep \/ ExpiryStep
    BY <2>3, QuietKinds DEF payments
  <2>4. ASSUME NEW p \in Orders, CancelStep(p), ~CommitCancel(p)
        PROVE  attAmt' = attAmt
    BY <2>4, LockKinds DEF payments
  <2>5. CASE \/ \E p \in Orders, i \in Tries : InitializeStep(p, i) \/ Pay(p, i)
             \/ \E w \in Verifiers : VerifyStep(w) /\ ~CommitSuccess(w)
    BY <1>0, <2>5, HandlerKinds, TouchWrites DEF payments
  <2>6. ASSUME NEW w \in Verifiers, CommitSuccess(w)
        PROVE  attAmt' = attAmt
    BY <2>6, SuccessWrites
  <2> QED BY <2>1, <2>2, <2>3, <2>4, <2>5, <2>6, StepCases
<1> QED BY <1>1, <1>2

LEMMA PaidStep ==
  ASSUME TypeOK, StockInv, OrderInv, PaidExactly, [Next]_vars
  PROVE  PaidExactly'
<1>0. FreshOrders /\ CommittedIsPaid /\ LockedIsOpen
  BY DEF StockInv, OrderRowsOK
<1> SUFFICES ASSUME NEW o \in Orders PROVE PaidRight(o)'
  BY PaidSplitNext
<1>1. \A k \in Tries : Captured(o, k) => Captured(o, k)' /\ attAmt'[o][k] = attAmt[o][k]
  BY <1>0, CaptureKeeps
<1>2. ASSUME status'[o] = status[o], vo'[o] = vo[o],
             \A v \in Variants : resv'[o][v] = "COMMITTED" <=> resv[o][v] = "COMMITTED"
      PROVE  PaidRight(o)'
  <2>1. Kept(o)' = Kept(o)
    BY <1>2 DEF Kept
  <2> QED BY <1>1, <1>2, <2>1, PaidFrame
<1>3. CASE UNCHANGED vars
  BY <1>2, <1>3 DEF vars, orderRows
<1>4. ASSUME NEW p \in Orders, CreateCheckout(p)
      PROVE  PaidRight(o)'
  <2>1. CASE p = o
    <3>1. /\ status[o] = "NONE" /\ status'[o] # "PAID"
          /\ \A v \in Variants : resv'[o][v] # "COMMITTED"
      BY <1>4, <2>1, CheckoutWrites
    <3>2. \A v \in Variants : resv[o][v] # "COMMITTED"
      BY <1>0, <3>1 DEF FreshOrders
    <3> QED BY <1>1, <3>1, <3>2, PaidFrame
  <2>2. CASE p # o
    BY <1>2, <1>4, <2>2, CheckoutWrites
  <2> QED BY <2>1, <2>2
<1>5. CASE ClockStep \/ StockStep \/ ExpiryStep
  <2>1. UNCHANGED <<status, vo>>
    BY <1>5, QuietKinds DEF orderSide
  <2>2. \A v \in Variants : resv'[o][v] = "COMMITTED" <=> resv[o][v] = "COMMITTED"
    <3> SUFFICES ASSUME NEW v \in Variants
                 PROVE  resv'[o][v] = "COMMITTED" <=> resv[o][v] = "COMMITTED"
      OBVIOUS
    <3>1. /\ resv[o][v] # "HELD" => resv'[o][v] = resv[o][v]
          /\ resv'[o][v] \in {resv[o][v], "EXPIRED"}
      BY <1>5, QuietKinds
    <3> QED BY <3>1
  <2> QED BY <1>2, <2>1, <2>2
<1>6. ASSUME NEW p \in Orders, CancelStep(p), ~CommitCancel(p)
      PROVE  PaidRight(o)'
  BY <1>2, <1>6, LockKinds
<1>7. ASSUME NEW p \in Orders, CommitCancel(p)
      PROVE  PaidRight(o)'
  <2>1. CASE p = o
    <3>1. status[o] # "PAID" /\ status'[o] # "PAID"
      BY <1>0, <1>7, <2>1, CancelWrites, CancelKinds DEF IsOpenUnpaid
    <3>2. \A v \in Variants : resv[o][v] # "COMMITTED"
      BY <1>0, <3>1 DEF CommittedIsPaid
    <3>3. \A v \in Variants : resv'[o][v] # "COMMITTED"
      BY <1>0, <1>7, <2>1, <3>2, CancelWrites
    <3> QED BY <1>1, <3>1, <3>2, <3>3, PaidFrame
  <2>2. CASE p # o
    BY <1>2, <1>7, <2>2, CancelSpares
  <2> QED BY <2>1, <2>2
<1>8. CASE \/ \E p \in Orders, k \in Tries : InitializeStep(p, k) \/ Pay(p, k)
           \/ \E w \in Verifiers : VerifyStep(w) /\ ~CommitSuccess(w)
  BY <1>2, <1>8, HandlerKinds DEF orderSide
<1>9. ASSUME NEW w \in Verifiers, CommitSuccess(w)
      PROVE  PaidRight(o)'
  <2>1. PICK j : j = ver[w]
    OBVIOUS
  <2>2. j.o \in Orders /\ j.k \in Tries /\ SoldBy(j) \subseteq Variants
    BY <1>9, <2>1, SuccessWrites
  <2>3. CASE o # j.o
    BY <1>2, <1>9, <2>1, <2>2, <2>3, SuccessWrites
  <2>4. CASE o = j.o /\ SoldBy(j) = {}
    <3>1. status' = status /\ vo' = vo /\ \A v \in Variants : resv'[o][v] = resv[o][v]
      BY <1>9, <2>1, <2>4, SuccessWrites
    <3> QED BY <1>2, <3>1
  <2>5. CASE o = j.o /\ SoldBy(j) # {}
    <3>1. /\ SoldBy(j) = LinesOf(o, Kept(o)) /\ Captured(o, j.k) /\ attAmt[o][j.k] = Kept(o)
          /\ status[o] # "PAID"
      BY <1>9, <2>1, <2>5, SaleIsWhole
    <3>2. /\ status'[o] = "PAID" /\ Kept(o)' = Kept(o)
          /\ \A v \in Variants : resv'[o][v] = IF v \in SoldBy(j) THEN "COMMITTED" ELSE resv[o][v]
      BY <1>9, <2>1, <2>5, SuccessWrites, SMTT(30)
    <3>3. \A v \in Variants : resv[o][v] # "COMMITTED"
      BY <1>0, <3>1 DEF CommittedIsPaid
    <3>4. {v \in Variants : resv'[o][v] = "COMMITTED"} = LinesOf(o, Kept(o))
      BY <2>2, <3>1, <3>2, <3>3
    <3>5. LinesOf(o, Kept(o))' = LinesOf(o, Kept(o))
      BY <3>2 DEF LinesOf, Lines
    <3>6. Captured(o, j.k)' /\ attAmt'[o][j.k] = Kept(o)'
      BY <1>1, <2>2, <3>1, <3>2
    <3> QED BY <2>2, <3>2, <3>4, <3>5, <3>6 DEF PaidRight
  <2> QED BY <2>3, <2>4, <2>5
<1> QED BY <1>3, <1>4, <1>5, <1>6, <1>7, <1>8, <1>9, StepCases

LEMMA PaidInit == Init => PaidExactly
<1> SUFFICES ASSUME Init, NEW o \in Orders PROVE PaidRight(o)
  BY PaidSplit
<1>1. status[o] = "NONE" /\ \A v \in Variants : resv[o][v] = "NONE"
  BY DEF Init
<1> QED BY <1>1 DEF PaidRight

Sound == TypeOK /\ StockInv /\ OrderInv /\ PaidExactly

LEMMA SoundAlways == Spec => []Sound
<1>1. Init => Sound
  BY TypingInit, StockInit, OrderInvInit, PaidInit DEF Sound
<1>2. Sound /\ [Next]_vars => Sound'
  <2> SUFFICES ASSUME Sound, [Next]_vars PROVE Sound'
    OBVIOUS
  <2>1. OrderRowsOK /\ LockedIsOpen
    BY DEF Sound, StockInv, OrderRowsOK
  <2> QED BY <2>1, TypingNext, StockNext, OrderInvNext, PaidStep DEF Sound
<1> QED BY <1>1, <1>2, PTL DEF Spec

(* Only PAID orders have committed reservations, exactly those of the vendor *)
(* orders still standing, and some charge was captured at exactly their    *)
(* price: a cancellation that commits between the reads of a verification  *)
(* and its claim cannot make the buyer pay for what was taken away.        *)
THEOREM PaidForWhatIsKept == Spec => []PaidExactly
BY SoundAlways, PTL DEF Sound

(* No attempt is created between the triggers of a cancellation and its    *)
(* commit: the vendor orders that are cancelled were those of an attempt   *)
(* only if that one was over when the triggers looked, and came back.      *)
THEOREM CancelsUnderKnownAttempts == Spec => CancelExcludesInitialization
<1>1. ASSUME Sound, [Next]_vars, NEW o \in Orders, Kept(o)' # Kept(o), status[o] # "NONE"
      PROVE  {k \in Tries : att[o][k] \in Active} \subseteq tested[o]
  <2>0. LockedIsOpen /\ TypeOK /\ OrderInv
    BY <1>1 DEF Sound, StockInv, OrderRowsOK
  <2>1. vo'[o] # vo[o]
    BY <1>1 DEF Kept
  <2>2. ~UNCHANGED vars
    BY <2>1 DEF vars, orderRows
  <2>3. ~(ClockStep \/ StockStep \/ ExpiryStep)
    BY <2>0, <2>1, QuietKinds DEF orderSide
  <2>4. ASSUME NEW p \in Orders, CreateCheckout(p)
        PROVE  FALSE
    <3>1. p # o
      BY <1>1, <2>0, <2>4, CheckoutWrites
    <3> QED BY <2>0, <2>1, <2>4, <3>1, CheckoutWrites
  <2>5. ASSUME NEW p \in Orders, CancelStep(p), ~CommitCancel(p)
        PROVE  FALSE
    BY <2>0, <2>1, <2>5, LockKinds
  <2>6. ASSUME NEW p \in Orders, CommitCancel(p)
        PROVE  {k \in Tries : att[o][k] \in Active} \subseteq tested[o]
    <3>1. p = o
      BY <2>0, <2>1, <2>6, CancelSpares
    <3>2. cleared[o]
      BY <2>0, <2>6, <3>1, CancelWrites
    <3> QED BY <2>0, <3>2 DEF OrderInv, TriggersHold, Active
  <2>7. ~(\/ \E p \in Orders, k \in Tries : InitializeStep(p, k) \/ Pay(p, k)
          \/ \E w \in Verifiers : VerifyStep(w) /\ ~CommitSuccess(w))
    BY <2>0, <2>1, HandlerKinds DEF orderSide
  <2>8. ASSUME NEW w \in Verifiers, CommitSuccess(w)
        PROVE  FALSE
    <3>1. PICK j : j = ver[w]
      OBVIOUS
    <3>2. \A p \in Orders : Kept(p)' = Kept(p)
      BY <2>0, <2>8, <3>1, SuccessWrites
    <3> QED BY <1>1, <3>2
  <2> QED BY <1>1, <2>2, <2>3, <2>4, <2>5, <2>6, <2>7, <2>8, StepCases
<1>2. Sound /\ [Next]_vars =>
        [\A o \in Orders : Kept(o)' # Kept(o) /\ status[o] # "NONE" =>
           {k \in Tries : att[o][k] \in Active} \subseteq tested[o]]_vars
  BY <1>1
<1> QED BY <1>2, SoundAlways, PTL DEF Spec, CancelExcludesInitialization

-----------------------------------------------------------------------------
(* What a buyer can still do.                                              *)

(* An intent without an active attempt is one initialization accepts.      *)
IntentReady ==
  \A o \in Orders :
    IsOpenUnpaid(o) /\ ~HasActiveAttempt(o) => intent[o] \in {"PENDING", "FAILED"}

LEMMA ReadyStep ==
  ASSUME TypeOK, LockedIsOpen, OrderInv, IntentReady, [Next]_vars
  PROVE  IntentReady'
<1>0. BornWhole /\ SameAmount
  BY DEF OrderInv
<1> SUFFICES ASSUME NEW o \in Orders, IsOpenUnpaid(o)', ~HasActiveAttempt(o)'
             PROVE  intent'[o] \in {"PENDING", "FAILED"}
  BY DEF IntentReady
<1>1. ASSUME status'[o] = status[o], payStatus'[o] = payStatus[o], att'[o] = att[o], intent'[o] = intent[o]
      PROVE  intent'[o] \in {"PENDING", "FAILED"}
  BY <1>1 DEF IntentReady, IsOpenUnpaid, HasActiveAttempt
<1>2. CASE UNCHANGED vars
  BY <1>1, <1>2 DEF vars, orderRows, payments
<1>3. ASSUME NEW p \in Orders, CreateCheckout(p)
      PROVE  intent'[o] \in {"PENDING", "FAILED"}
  BY <1>1, <1>3, CheckoutWrites
<1>4. CASE ClockStep \/ StockStep \/ ExpiryStep
  BY <1>1, <1>4, QuietKinds DEF orderSide, payments
<1>5. ASSUME NEW p \in Orders, CancelStep(p), ~CommitCancel(p)
      PROVE  intent'[o] \in {"PENDING", "FAILED"}
  BY <1>1, <1>5, LockKinds DEF payments
<1>6. ASSUME NEW p \in Orders, CommitCancel(p)
      PROVE  intent'[o] \in {"PENDING", "FAILED"}
  <2>1. CASE p = o
    <3>1. IsOpenUnpaid(o) /\ ~HasActiveAttempt(o)
      <4>1. att' = att
        BY <1>6, CancelSpares
      <4> QED BY <1>6, <2>1, <4>1, CancelWrites DEF HasActiveAttempt
    <3>2. payStatus'[o] # "CANCELLED"
      BY DEF IsOpenUnpaid
    <3>3. intent'[o] = intent[o]
      BY <1>6, <2>1, <3>2, CancelKinds
    <3> QED BY <3>1, <3>3 DEF IntentReady
  <2>2. CASE p # o
    BY <1>1, <1>6, <2>2, CancelSpares
  <2> QED BY <2>1, <2>2
<1>7. CASE \/ \E p \in Orders, k \in Tries : InitializeStep(p, k) \/ Pay(p, k)
           \/ \E w \in Verifiers : VerifyStep(w) /\ ~CommitSuccess(w)
  <2>1. UNCHANGED <<status, payStatus>>
    BY <1>7, HandlerKinds DEF orderSide
  <2>2. CASE UNCHANGED <<payments, call, charge>>
    BY <1>1, <2>1, <2>2 DEF payments
  <2>3. ASSUME NEW p \in Orders \ {o}, NEW k \in Tries, Touched(p, k)
        PROVE  intent'[o] \in {"PENDING", "FAILED"}
    BY <1>0, <1>1, <2>1, <2>3, TouchWrites
  <2>4. ASSUME NEW k \in Tries, Inserted(o, k)
        PROVE  FALSE
    <3>1. att' = [att EXCEPT ![o][k] = "PENDING"]
      BY <2>4 DEF Inserted
    <3>2. att'[o][k] = "PENDING"
      BY <3>1 DEF TypeOK
    <3> QED BY <3>2 DEF HasActiveAttempt, Active
  <2>5. ASSUME NEW k \in Tries, NEW st, NEW it, Answered(o, k, st, it)
        PROVE  intent'[o] \in {"PENDING", "FAILED"}
    <3>1. /\ st \in {"REQUIRES_ACTION", "PROCESSING", "FAILED"}
          /\ st = "FAILED" => it = "FAILED" \/ \E i \in Tries \ {k} : att[o][i] \in Active
          /\ att' = [att EXCEPT ![o][k] = st] /\ intent' = [intent EXCEPT ![o] = it]
      BY <2>5 DEF Answered
    <3>2. /\ att'[o][k] = st /\ intent'[o] = it
          /\ \A i \in Tries \ {k} : att'[o][i] = att[o][i]
      BY <3>1 DEF TypeOK
    <3> QED BY <3>1, <3>2 DEF HasActiveAttempt, Active
  <2>6. ASSUME NEW k \in Tries, Proceeds(o, k)
        PROVE  intent'[o] \in {"PENDING", "FAILED"}
    BY <1>1, <2>1, <2>6 DEF Proceeds
  <2> QED BY <1>7, <2>2, <2>3, <2>4, <2>5, <2>6, HandlerKinds DEF Touched
<1>8. ASSUME NEW w \in Verifiers, CommitSuccess(w)
      PROVE  intent'[o] \in {"PENDING", "FAILED"}
  <2>1. PICK j : j = ver[w]
    OBVIOUS
  <2>2. CASE o = j.o
    BY <1>8, <2>1, <2>2, SuccessWrites DEF IsOpenUnpaid
  <2>3. CASE o # j.o
    BY <1>1, <1>8, <2>1, <2>3, SuccessWrites
  <2> QED BY <2>2, <2>3
<1> QED BY <1>2, <1>3, <1>4, <1>5, <1>6, <1>7, <1>8, StepCases

(* Every line of an order that is still kept holds its units until they    *)
(* are due: a cancellation takes no more than the lines of its slices.     *)
HoldsKept ==
  \A o \in Orders :
    /\ snap[o] \subseteq LinesOf(o, cancelling[o])
    /\ IsOpenUnpaid(o) =>
         Kept(o) # {} /\ \A v \in LinesOf(o, Kept(o)) : resv[o][v] = "HELD" \/ due[o]

HoldsOf(o) ==
  IsOpenUnpaid(o) =>
    Kept(o) # {} /\ \A v \in LinesOf(o, Kept(o)) : resv[o][v] = "HELD" \/ due[o]

LEMMA DueStays ==
  ASSUME TypeOK, [Next]_vars
  PROVE  \A o \in Orders : due[o] => due'[o]
<1>1. ASSUME NEW o \in Orders, CreateCheckout(o) \/ CommitCancel(o)
      PROVE  due' = due
  BY <1>1, CheckoutWrites, CancelSpares
<1>2. CASE ClockStep
  BY <1>2 DEF ClockStep, Deadline, TypeOK
<1>3. CASE StockStep \/ ExpiryStep
  BY <1>3 DEF StockStep, ExpiryStep, AdjustInventory, ExpireReservations
<1>4. ASSUME NEW o \in Orders, CancelStep(o), ~CommitCancel(o)
      PROVE  due' = due
  BY <1>4, LockKinds
<1>5. ASSUME NEW o \in Orders, NEW k \in Tries, InitializeStep(o, k) \/ Pay(o, k)
      PROVE  due' = due
  BY <1>5, SMTT(30) DEF InitializeStep, BeginInitialization, ProviderOpens, CompleteInitialization,
     MarkInitializationAmbiguous, MarkInitializationFailed, RejectPrimary, RejectFallback,
     RejectWithoutFallback, CreateFallbackAttempt, EndInitialization, Pay
<1>6. ASSUME NEW w \in Verifiers, VerifyStep(w)
      PROVE  due' = due
  <2>1. \A o \in Orders, k \in Tries : HandleWebhook(w, o, k) \/ Reconcile(w, o, k) => due' = due
    BY DEF HandleWebhook, Reconcile
  <2> QED BY <1>6, <2>1 DEF VerifyStep, ApplyNonSuccess, MarkMismatchEvent, ApplyMismatch,
             ReadSuccess, DuplicateSuccess, CommitSuccess, EndVerification
<1>7. UNCHANGED vars => due' = due
  BY DEF vars
<1>8. \A w \in Verifiers : CommitSuccess(w) => VerifyStep(w)
  BY DEF VerifyStep
<1> QED BY <1>1, <1>2, <1>3, <1>4, <1>5, <1>6, <1>7, <1>8, StepCases

(* Only what is due expires. *)
LEMMA ExpiresDue ==
  ASSUME TypeOK, ClockStep \/ StockStep \/ ExpiryStep, NEW o \in Orders, NEW v \in Variants
  PROVE  resv'[o][v] = resv[o][v] \/ due[o]
<1>1. CASE ClockStep \/ StockStep
  BY <1>1 DEF ClockStep, StockStep, Deadline, AdjustInventory
<1>2. CASE ExpiryStep
  <2>1. PICK B \in SUBSET (Orders \X Variants) : ExpireReservations(B)
    BY <1>2 DEF ExpiryStep
  <2>2. /\ \A b \in B : due[b[1]]
        /\ resv'[o][v] = IF <<o, v>> \in B THEN "EXPIRED" ELSE resv[o][v]
    BY <2>1 DEF ExpireReservations, Expirable
  <2> QED BY <2>2
<1> QED BY <1>1, <1>2

LEMMA HoldsStep ==
  ASSUME TypeOK, LockedIsOpen, OrderInv, HoldsKept, [Next]_vars
  PROVE  HoldsKept'
<1>0. /\ BornWhole /\ SameAmount /\ CancelledIsFree /\ JobsKnow /\ TriggersHold
      /\ \A o \in Orders : due[o] => due'[o]
  BY DueStays DEF OrderInv
<1>a. SUFFICES ASSUME NEW o \in Orders
               PROVE  HoldsOf(o)' /\ snap'[o] \subseteq LinesOf(o, cancelling[o])'
  BY DEF HoldsKept, HoldsOf
<1>b. HoldsOf(o) /\ snap[o] \subseteq LinesOf(o, cancelling[o])
  BY DEF HoldsKept, HoldsOf
<1>c. \A S : LinesOf(o, S)' = LinesOf(o, S)' /\ LinesOf(o, S) \subseteq Variants
  BY DEF LinesOf, Lines
<1>1. ASSUME status'[o] = status[o], payStatus'[o] = payStatus[o], vo'[o] = vo[o],
             \A v \in Variants : resv'[o][v] = resv[o][v] \/ due[o]
      PROVE  HoldsOf(o)'
  <2>1. /\ Kept(o)' = Kept(o) /\ (IsOpenUnpaid(o)' <=> IsOpenUnpaid(o))
        /\ LinesOf(o, Kept(o))' = LinesOf(o, Kept(o))
    BY <1>1 DEF Kept, IsOpenUnpaid, LinesOf, Lines
  <2> QED BY <1>0, <1>b, <1>c, <1>1, <2>1 DEF HoldsOf
<1>2. ASSUME cancelling'[o] = cancelling[o], snap'[o] = snap[o]
      PROVE  snap'[o] \subseteq LinesOf(o, cancelling[o])'
  BY <1>b, <1>2 DEF LinesOf, Lines
<1>3. CASE UNCHANGED vars
  BY <1>1, <1>2, <1>3 DEF vars, orderRows, cancels
<1>4. ASSUME NEW p \in Orders, CreateCheckout(p)
      PROVE  HoldsOf(o)' /\ snap'[o] \subseteq LinesOf(o, cancelling[o])'
  <2>1. UNCHANGED <<cancelling, snap, payStatus>>
    BY <1>4, CheckoutWrites
  <2>2. CASE p = o
    <3>1. /\ Kept(o)' # {}
          /\ \A v \in Variants : resv'[o][v] = IF v \in Lines(o) THEN "HELD" ELSE "NONE"
      BY <1>4, <2>2, CheckoutWrites
    <3> QED BY <1>2, <2>1, <3>1 DEF HoldsOf, LinesOf, Lines
  <2>3. CASE p # o
    <3>1. status'[o] = status[o] /\ vo'[o] = vo[o] /\ resv'[o] = resv[o]
      BY <1>4, <2>3, CheckoutWrites
    <3> QED BY <1>1, <1>2, <2>1, <3>1
  <2> QED BY <2>2, <2>3
<1>5. CASE ClockStep \/ StockStep \/ ExpiryStep
  <2>1. UNCHANGED <<status, payStatus, vo, cancelling, snap>>
    BY <1>5, QuietKinds DEF orderSide
  <2>2. \A v \in Variants : resv'[o][v] = resv[o][v] \/ due[o]
    BY <1>5, ExpiresDue
  <2> QED BY <1>1, <1>2, <2>1, <2>2
<1>6. ASSUME NEW p \in Orders, CancelStep(p), ~CommitCancel(p)
      PROVE  HoldsOf(o)' /\ snap'[o] \subseteq LinesOf(o, cancelling[o])'
  <2>1. UNCHANGED <<status, payStatus, vo, resv>>
    BY <1>6, LockKinds
  <2>2. CASE p # o
    BY <1>1, <1>2, <1>6, <2>1, <2>2, LockKinds
  <2>3. CASE p = o
    <3>1. \/ cancelling'[o] = {}
          \/ snap'[o] = {v \in LinesOf(o, cancelling'[o]) : resv[o][v] = "HELD"}
          \/ cancelling'[o] = cancelling[o] /\ snap'[o] = snap[o]
      BY <1>6, <2>3, LockKinds
    <3>2. cancelling'[o] = {} => snap'[o] = {}
      <4>1. CASE AbortCancel(o)
        BY <4>1 DEF AbortCancel, TypeOK
      <4>2. CASE CheckAttempts(o)
        BY <4>2 DEF CheckAttempts, Locked
      <4>3. ASSUME NEW S, BeginCancel(o, S), S # {}
            PROVE  cancelling'[o] # {}
        BY <4>3 DEF BeginCancel, TypeOK
      <4> QED BY <1>6, <2>3, <4>1, <4>2, <4>3 DEF CancelStep, CancelUserOrder, CancelVendorOrder
    <3>3. snap'[o] \subseteq LinesOf(o, cancelling[o])'
      BY <1>2, <3>1, <3>2 DEF LinesOf, Lines
    <3> QED BY <1>1, <2>1, <3>3
  <2> QED BY <2>2, <2>3
<1>7. ASSUME NEW p \in Orders, CommitCancel(p)
      PROVE  HoldsOf(o)' /\ snap'[o] \subseteq LinesOf(o, cancelling[o])'
  <2>1. CASE p # o
    BY <1>1, <1>2, <1>7, <2>1, CancelSpares
  <2>2. CASE p = o
    <3>1. /\ IsOpenUnpaid(o) /\ snap'[o] = {} /\ due' = due
          /\ \A v \in Variants : resv'[o][v] = IF v \in snap[o] THEN "RELEASED" ELSE resv[o][v]
          /\ Kept(o)' = Kept(o) \ cancelling[o]
      BY <1>7, <2>2, CancelWrites, CancelSpares
    <3>2. \A v \in LinesOf(o, Kept(o))' : v \in LinesOf(o, Kept(o)) /\ v \notin snap[o] /\ v \in Variants
      BY <1>b, <3>1 DEF LinesOf, Lines
    <3>3. IsOpenUnpaid(o)' => Kept(o)' # {}
      BY <1>7, <2>2, <3>1, CancelKinds DEF IsOpenUnpaid
    <3>4. \A v \in LinesOf(o, Kept(o))' : resv'[o][v] = "HELD" \/ due'[o]
      BY <1>b, <3>1, <3>2 DEF HoldsOf
    <3>5. HoldsOf(o)'
      BY <3>3, <3>4 DEF HoldsOf
    <3> QED BY <3>1, <3>5
  <2> QED BY <2>1, <2>2
<1>8. CASE \/ \E p \in Orders, k \in Tries : InitializeStep(p, k) \/ Pay(p, k)
           \/ \E w \in Verifiers : VerifyStep(w) /\ ~CommitSuccess(w)
  <2>1. UNCHANGED <<status, payStatus, vo, resv, cancelling, snap>>
    BY <1>8, HandlerKinds DEF orderSide
  <2> QED BY <1>1, <1>2, <2>1
<1>9. ASSUME NEW w \in Verifiers, CommitSuccess(w)
      PROVE  HoldsOf(o)' /\ snap'[o] \subseteq LinesOf(o, cancelling[o])'
  <2>1. PICK j : j = ver[w]
    OBVIOUS
  <2>2. UNCHANGED <<cancelling, snap>> /\ payStatus'[j.o] = "SUCCEEDED"
    BY <1>9, <2>1, SuccessWrites
  <2>3. CASE o = j.o
    BY <1>2, <2>2, <2>3 DEF HoldsOf, IsOpenUnpaid
  <2>4. CASE o # j.o
    <3>1. status'[o] = status[o] /\ payStatus'[o] = payStatus[o] /\ vo'[o] = vo[o] /\ resv'[o] = resv[o]
      BY <1>9, <2>1, <2>4, SuccessWrites
    <3> QED BY <1>1, <1>2, <2>2, <3>1
  <2> QED BY <2>3, <2>4
<1> QED BY <1>3, <1>4, <1>5, <1>6, <1>7, <1>8, <1>9, StepCases

LEMMA RetryFollows ==
  ASSUME TypeOK, OrderInv, IntentReady, HoldsKept
  PROVE  RetryStaysPossible
<1> SUFFICES ASSUME NEW o \in Orders, IsOpenUnpaid(o), ~HasActiveAttempt(o), ~due[o]
             PROVE  intent[o] \in {"PENDING", "FAILED"} /\ ReservationsPayable(o)
  BY DEF RetryStaysPossible, IntentReady
<1>1. Kept(o) # {} /\ \A v \in LinesOf(o, Kept(o)) : resv[o][v] = "HELD"
  BY DEF HoldsKept
<1>2. Kept(o) \subseteq Slices(o)
  BY DEF OrderInv, BornWhole, IsOpenUnpaid, Kept
<1>3. LinesOf(o, Kept(o)) # {}
  BY <1>1, <1>2 DEF Slices, LinesOf
<1> QED BY <1>1, <1>3 DEF ReservationsPayable, IntentReady

(* Before its reservations are due, an open and unpaid order with no active *)
(* attempt can be paid for: initialization accepts its intent, whatever was *)
(* answered before and in what order, and finds every line still kept held, *)
(* whatever was cancelled meanwhile.                                       *)
THEOREM RetryIsPossible == Spec => []RetryStaysPossible
<1>1. Init => IntentReady /\ HoldsKept
  <2>1. Init => IntentReady
    BY DEF Init, IntentReady, IsOpenUnpaid
  <2>2. Init => HoldsKept
    BY DEF Init, HoldsKept, IsOpenUnpaid
  <2> QED BY <2>1, <2>2
<1>2. Sound /\ IntentReady /\ HoldsKept /\ [Next]_vars => IntentReady' /\ HoldsKept'
  BY ReadyStep, HoldsStep DEF Sound, StockInv, OrderRowsOK
<1>3. Sound /\ IntentReady /\ HoldsKept => RetryStaysPossible
  BY RetryFollows DEF Sound
<1> QED BY <1>1, <1>2, <1>3, SoundAlways, PTL DEF Spec

-----------------------------------------------------------------------------
(* What a webhook leaves behind.                                           *)

Traced(o) == status[o] = "PAID" \/ review[o]

(* A webhook is about a captured charge, and so is the verification it     *)
(* starts; no verification finds another amount.                           *)
TraceInv ==
  /\ \A o \in Orders : intent[o] = "SUCCEEDED" => Traced(o)
  /\ \A o \in Orders, k \in Tries :
       /\ event[o][k] # "none" => Captured(o, k)
       /\ event[o][k] = "done" => Traced(o) \/ att[o][k] \in Unresolved \/ lost[o][k]
       /\ call[o][k] = "rejected" => charge[o][k] = "none"
  /\ \A w \in Verifiers : ver[w].pc = "answered" =>
       ver[w].res # "MISMATCH" /\ (ver[w].ev => Captured(ver[w].o, ver[w].k))

LEMMA TraceStays ==
  ASSUME TypeOK, LockedIsOpen, OrderInv, [Next]_vars, NEW o \in Orders, Traced(o)
  PROVE  Traced(o)'
<1>1. ASSUME status'[o] = status[o], review'[o] = review[o]
      PROVE  Traced(o)'
  BY <1>1 DEF Traced
<1>2. CASE UNCHANGED vars
  BY <1>1, <1>2 DEF vars, orderRows, outcome
<1>3. ASSUME NEW p \in Orders, CreateCheckout(p)
      PROVE  Traced(o)'
  BY <1>3, CheckoutWrites DEF Traced
<1>4. CASE ClockStep \/ StockStep \/ ExpiryStep
  BY <1>1, <1>4, QuietKinds DEF orderSide
<1>5. ASSUME NEW p \in Orders, CancelStep(p), ~CommitCancel(p)
      PROVE  Traced(o)'
  BY <1>1, <1>5, LockKinds
<1>6. ASSUME NEW p \in Orders, CommitCancel(p)
      PROVE  Traced(o)'
  <2>1. status[p] # "PAID" /\ review' = review
    BY <1>6, CancelWrites, CancelSpares DEF IsOpenUnpaid
  <2> QED BY <1>6, <2>1, CancelSpares DEF Traced
<1>7. CASE \/ \E p \in Orders, k \in Tries : InitializeStep(p, k) \/ Pay(p, k)
           \/ \E w \in Verifiers : VerifyStep(w) /\ ~CommitSuccess(w)
  BY <1>1, <1>7, HandlerKinds DEF orderSide
<1>8. ASSUME NEW w \in Verifiers, CommitSuccess(w)
      PROVE  Traced(o)'
  <2>1. PICK j : j = ver[w]
    OBVIOUS
  <2>2. CASE o = j.o
    BY <1>8, <2>1, <2>2, SuccessWrites DEF Traced
  <2>3. CASE o # j.o
    BY <1>1, <1>8, <2>1, <2>3, SuccessWrites
  <2> QED BY <2>2, <2>3
<1> QED BY <1>2, <1>3, <1>4, <1>5, <1>6, <1>7, <1>8, StepCases

(* An intent becomes SUCCEEDED only by a claim, which leaves a trace.      *)
LEMMA TracedIntent ==
  ASSUME TypeOK, LockedIsOpen, OrderInv, [Next]_vars, NEW o \in Orders, intent'[o] = "SUCCEEDED"
  PROVE  intent[o] = "SUCCEEDED" \/ Traced(o)'
<1>0. BornWhole /\ SameAmount
  BY DEF OrderInv
<1>1. CASE UNCHANGED vars
  BY <1>1 DEF vars, payments
<1>2. ASSUME NEW p \in Orders, CreateCheckout(p)
      PROVE  intent[o] = "SUCCEEDED"
  BY <1>2, CheckoutWrites
<1>3. CASE ClockStep \/ StockStep \/ ExpiryStep
  BY <1>3, QuietKinds DEF payments
<1>4. ASSUME NEW p \in Orders, CancelStep(p), ~CommitCancel(p)
      PROVE  intent[o] = "SUCCEEDED"
  BY <1>4, LockKinds DEF payments
<1>5. ASSUME NEW p \in Orders, CommitCancel(p)
      PROVE  intent[o] = "SUCCEEDED"
  BY <1>5, CancelKinds, CancelSpares
<1>6. ASSUME NEW p \in Orders, NEW k \in Tries, Touched(p, k)
      PROVE  intent[o] = "SUCCEEDED"
  <2>1. CASE p # o
    BY <1>0, <1>6, <2>1, TouchWrites
  <2>2. CASE p = o
    <3>1. ASSUME NEW st, NEW it, Answered(o, k, st, it)
          PROVE  intent[o] = "SUCCEEDED"
      BY <3>1 DEF Answered, TypeOK
    <3> QED BY <1>6, <2>2, <3>1 DEF Touched, Inserted, Proceeds
  <2> QED BY <2>1, <2>2
<1>7. CASE \/ \E p \in Orders, k \in Tries : InitializeStep(p, k) \/ Pay(p, k)
           \/ \E w \in Verifiers : VerifyStep(w) /\ ~CommitSuccess(w)
  BY <1>6, <1>7, HandlerKinds DEF payments
<1>8. ASSUME NEW w \in Verifiers, CommitSuccess(w)
      PROVE  intent[o] = "SUCCEEDED" \/ Traced(o)'
  <2>1. PICK j : j = ver[w]
    OBVIOUS
  <2>2. CASE o = j.o
    BY <1>8, <2>1, <2>2, SuccessWrites DEF Traced
  <2>3. CASE o # j.o
    BY <1>8, <2>1, <2>3, SuccessWrites
  <2> QED BY <2>2, <2>3
<1> QED BY <1>1, <1>2, <1>3, <1>4, <1>5, <1>7, <1>8, StepCases

(* A refused handler knows that its charge was never opened. *)
LEMMA RefusedStays ==
  ASSUME TypeOK, LockedIsOpen, OrderInv, TraceInv, [Next]_vars,
         NEW o \in Orders, NEW k \in Tries, call'[o][k] = "rejected"
  PROVE  charge'[o][k] = "none"
<1>0. BornWhole /\ SameAmount /\ (call[o][k] = "rejected" => charge[o][k] = "none")
  BY DEF OrderInv, TraceInv
<1>1. UNCHANGED <<call, charge>> => charge'[o][k] = "none"
  BY <1>0
<1>2. ASSUME NEW p \in Orders, CreateCheckout(p) \/ CommitCancel(p)
      PROVE  UNCHANGED <<call, charge>>
  BY <1>2, CheckoutWrites, CancelSpares DEF handlers
<1>3. ASSUME NEW p \in Orders, CancelStep(p), ~CommitCancel(p)
      PROVE  UNCHANGED <<call, charge>>
  BY <1>3, LockKinds DEF handlers
<1>4. CASE ClockStep \/ StockStep \/ ExpiryStep \/ UNCHANGED vars
  BY <1>1, <1>4, QuietKinds, SMTT(30) DEF handlers, vars, provider
<1>5. ASSUME NEW w \in Verifiers, VerifyStep(w)
      PROVE  UNCHANGED <<call, charge>>
  <2>1. \A p \in Orders, i \in Tries :
          HandleWebhook(w, p, i) \/ Reconcile(w, p, i) => UNCHANGED <<call, charge>>
    BY DEF HandleWebhook, Reconcile, provider
  <2> QED BY <1>5, <2>1 DEF VerifyStep, ApplyNonSuccess, MarkMismatchEvent, ApplyMismatch,
             ReadSuccess, DuplicateSuccess, CommitSuccess, EndVerification, provider
<1>6. ASSUME NEW p \in Orders, NEW i \in Tries, InitializeStep(p, i) \/ Pay(p, i)
      PROVE  charge'[o][k] = "none"
  <2>1. CASE BeginInitialization(p, i) \/ CompleteInitialization(p, i)
             \/ MarkInitializationAmbiguous(p, i) \/ EndInitialization(p, i)
    <3>1. charge' = charge /\ \E c \in {"primary", "url", "over"} : call' = [call EXCEPT ![p][i] = c]
      BY <2>1 DEF BeginInitialization, CompleteInitialization, MarkInitializationAmbiguous,
         EndInitialization, provider
    <3> QED BY <1>0, <3>1 DEF TypeOK
  <2>2. CASE ProviderOpens(p, i) \/ Pay(p, i)
    <3>1. call' = call /\ call[p][i] # "rejected" /\ \E c : charge' = [charge EXCEPT ![p][i] = c]
      BY <2>2 DEF ProviderOpens, Pay, handlers
    <3>2. p # o \/ i # k
      BY <3>1
    <3>3. charge'[o][k] = charge[o][k]
      BY <3>1, <3>2 DEF TypeOK
    <3> QED BY <1>0, <3>1, <3>3
  <2>3. CASE RejectPrimary(p, i) \/ RejectFallback(p, i) \/ RejectWithoutFallback(p, i)
    <3>1. /\ charge' = charge /\ \E c : call' = [call EXCEPT ![p][i] = c]
          /\ call[p][i] = "rejected" \/ charge[p][i] = "none"
      BY <2>3 DEF RejectPrimary, RejectFallback, RejectWithoutFallback, MarkInitializationFailed,
         provider
    <3>2. p # o \/ i # k => call'[o][k] = call[o][k]
      BY <3>1 DEF TypeOK
    <3> QED BY <1>0, <3>1, <3>2
  <2>4. ASSUME NEW j \in Tries, CreateFallbackAttempt(p, i, j)
        PROVE  charge'[o][k] = "none"
    <3>1. charge' = charge /\ call' = [call EXCEPT ![p][i] = "over", ![p][j] = "fallback"]
      BY <2>4 DEF CreateFallbackAttempt, provider
    <3> DEFINE ended == [call EXCEPT ![p][i] = "over"]
    <3>2. /\ ended \in [Orders -> [Tries -> {"none", "primary", "fallback", "rejected", "url", "over"}]]
          /\ ended[o][k] = "rejected" => call[o][k] = "rejected"
      BY <3>1 DEF TypeOK
    <3>3. call' = [ended EXCEPT ![p][j] = "fallback"]
      BY <3>1
    <3> HIDE DEF ended
    <3>4. call'[o][k] = "rejected" => ended[o][k] = "rejected"
      BY <3>2, <3>3
    <3> QED BY <1>0, <3>1, <3>2, <3>4
  <2> QED BY <1>6, <2>1, <2>2, <2>3, <2>4 DEF InitializeStep
<1> QED BY <1>1, <1>2, <1>3, <1>4, <1>5, <1>6, StepCases DEF VerifyStep

(* The attempt of a captured charge stays one that is asked about, until   *)
(* it is written FAILED against the charge or its order is claimed.        *)
LEMMA AskedAgain ==
  ASSUME TypeOK, LockedIsOpen, OrderInv, TraceInv, [Next]_vars,
         NEW o \in Orders, NEW k \in Tries, Captured(o, k), att[o][k] \in Unresolved
  PROVE  att'[o][k] \in Unresolved \/ lost'[o][k] \/ Traced(o)'
<1>0. BornWhole /\ SameAmount /\ call[o][k] # "rejected" /\ charge[o][k] # "none"
  BY DEF OrderInv, TraceInv, Captured
<1>1. ASSUME NEW p \in Orders, CreateCheckout(p) \/ CommitCancel(p)
      PROVE  att' = att
  BY <1>1, CheckoutWrites, CancelSpares
<1>2. ASSUME NEW p \in Orders, CancelStep(p), ~CommitCancel(p)
      PROVE  att' = att
  BY <1>2, LockKinds DEF payments
<1>3. CASE ClockStep \/ StockStep \/ ExpiryStep \/ UNCHANGED vars
  BY <1>3, QuietKinds DEF payments, vars
<1>4. ASSUME NEW p \in Orders, NEW i \in Tries, InitializeStep(p, i) \/ Pay(p, i)
      PROVE  att'[o][k] \in Unresolved
  <2>1. CASE ProviderOpens(p, i) \/ Pay(p, i) \/ EndInitialization(p, i)
    BY <2>1 DEF ProviderOpens, Pay, EndInitialization, payments
  <2>2. CASE CompleteInitialization(p, i) \/ MarkInitializationAmbiguous(p, i)
    <3>1. \E st \in {"REQUIRES_ACTION", "PROCESSING"} : att' = [att EXCEPT ![p][i] = st]
      BY <2>2 DEF CompleteInitialization, MarkInitializationAmbiguous
    <3> QED BY <3>1 DEF TypeOK, Unresolved, Active
  <2>3. CASE RejectPrimary(p, i) \/ RejectFallback(p, i) \/ RejectWithoutFallback(p, i)
    <3>1. /\ att' = [att EXCEPT ![p][i] = "FAILED"]
          /\ call[p][i] = "rejected" \/ charge[p][i] = "none"
      BY <2>3 DEF RejectPrimary, RejectFallback, RejectWithoutFallback, MarkInitializationFailed
    <3>2. p # o \/ i # k
      BY <1>0, <3>1
    <3> QED BY <3>1, <3>2 DEF TypeOK
  <2>4. ASSUME NEW j \in Tries, InsertAttempt(p, j)
        PROVE  att'[o][k] \in Unresolved
    <3>1. att' = [att EXCEPT ![p][j] = "PENDING"]
      BY <2>4 DEF InsertAttempt
    <3> QED BY <3>1 DEF TypeOK, Unresolved, Active
  <2> QED BY <1>4, <2>1, <2>2, <2>3, <2>4 DEF InitializeStep, BeginInitialization,
             CreateFallbackAttempt
<1>5. ASSUME NEW w \in Verifiers, VerifyStep(w), ~CommitSuccess(w)
      PROVE  att'[o][k] \in Unresolved \/ lost'[o][k]
  <2>1. CASE ApplyNonSuccess(w)
    <3>1. ver[w].pc = "answered" /\ ver[w].res \in {"FAILED", "PROCESSING"}
      BY <2>1 DEF ApplyNonSuccess
    <3>2. PICK j \in Jobs : j = ver[w]
      BY <3>1, JobTyping
    <3>3. j.o \in Orders /\ j.k \in Tries
      BY <3>2 DEF Jobs
    <3>4. PICK b : b = (lost[j.o][j.k] \/ (j.res = "FAILED" /\ Captured(j.o, j.k)))
      OBVIOUS
    <3>5. att' = [att EXCEPT ![j.o][j.k] = j.res] /\ lost' = [lost EXCEPT ![j.o][j.k] = b]
      BY <2>1, <3>2, <3>4 DEF ApplyNonSuccess
    <3>6. CASE j.o = o /\ j.k = k
      <4>1. att'[o][k] = j.res
        BY <3>3, <3>5, <3>6 DEF TypeOK
      <4>2. lost'[o][k] = b
        BY <3>3, <3>5, <3>6 DEF TypeOK
      <4> QED BY <3>1, <3>2, <3>4, <3>6, <4>1, <4>2 DEF Unresolved, Active
    <3>7. CASE j.o # o \/ j.k # k
      <4>1. att'[o][k] = att[o][k]
        BY <3>3, <3>5, <3>7 DEF TypeOK
      <4> QED BY <4>1
    <3> QED BY <3>6, <3>7
  <2>2. CASE ApplyMismatch(w)
    BY <2>2 DEF ApplyMismatch, TraceInv
  <2>3. CASE ~(ApplyNonSuccess(w) \/ ApplyMismatch(w))
    BY <1>5, <2>3 DEF VerifyStep, HandleWebhook, Reconcile, MarkMismatchEvent, ReadSuccess,
       DuplicateSuccess, EndVerification, payments
  <2> QED BY <2>1, <2>2, <2>3
<1>6. ASSUME NEW w \in Verifiers, CommitSuccess(w)
      PROVE  att'[o][k] \in Unresolved \/ Traced(o)'
  <2>1. PICK j : j = ver[w]
    OBVIOUS
  <2>2. CASE o = j.o
    BY <1>6, <2>1, <2>2, SuccessWrites DEF Traced
  <2>3. CASE o # j.o
    <3>1. att'[o] = att[o]
      BY <1>6, <2>1, <2>3, SuccessWrites
    <3> QED BY <3>1
  <2> QED BY <2>2, <2>3
<1> QED BY <1>1, <1>2, <1>3, <1>4, <1>5, <1>6, StepCases

(* Nothing takes back that an attempt was lost.                            *)
LEMMA LostStays ==
  ASSUME TypeOK, [Next]_vars, NEW o \in Orders, NEW k \in Tries, lost[o][k]
  PROVE  lost'[o][k]
<1>1. ASSUME NEW p \in Orders, CreateCheckout(p) \/ CommitCancel(p)
      PROVE  lost' = lost
  BY <1>1, CheckoutWrites, CancelSpares
<1>2. ASSUME NEW p \in Orders, CancelStep(p), ~CommitCancel(p)
      PROVE  lost' = lost
  BY <1>2, LockKinds
<1>3. CASE ClockStep \/ StockStep \/ ExpiryStep \/ UNCHANGED vars
  BY <1>3, QuietKinds DEF outcome, vars
<1>4. ASSUME NEW p \in Orders, NEW i \in Tries, InitializeStep(p, i) \/ Pay(p, i)
      PROVE  lost' = lost
  BY <1>4, SMTT(30) DEF InitializeStep, BeginInitialization, ProviderOpens, CompleteInitialization,
     MarkInitializationAmbiguous, MarkInitializationFailed, RejectPrimary, RejectFallback,
     RejectWithoutFallback, CreateFallbackAttempt, EndInitialization, Pay, outcome
<1>5. ASSUME NEW w \in Verifiers, ApplyNonSuccess(w)
      PROVE  lost'[o][k]
  <2>1. PICK j \in Jobs : j = ver[w]
    BY <1>5, JobTyping DEF ApplyNonSuccess
  <2>2. PICK b : b = (lost[j.o][j.k] \/ (j.res = "FAILED" /\ Captured(j.o, j.k)))
    OBVIOUS
  <2>3. lost' = [lost EXCEPT ![j.o][j.k] = b] /\ j.o \in Orders /\ j.k \in Tries
    BY <1>5, <2>1, <2>2 DEF ApplyNonSuccess, Jobs
  <2>4. /\ lost'[j.o][j.k] = b
        /\ \A p \in Orders, i \in Tries : p # j.o \/ i # j.k => lost'[p][i] = lost[p][i]
    BY <2>3, SMTT(30) DEF TypeOK
  <2> QED BY <2>2, <2>4
<1>6. ASSUME NEW w \in Verifiers, VerifyStep(w), ~ApplyNonSuccess(w)
      PROVE  lost' = lost
  <2>1. \A p \in Orders, i \in Tries : HandleWebhook(w, p, i) \/ Reconcile(w, p, i) => lost' = lost
    BY DEF HandleWebhook, Reconcile, outcome
  <2> QED BY <1>6, <2>1 DEF VerifyStep, MarkMismatchEvent, ApplyMismatch, ReadSuccess,
             DuplicateSuccess, CommitSuccess, EndVerification, outcome
<1>7. \A w \in Verifiers : CommitSuccess(w) => VerifyStep(w)
  BY DEF VerifyStep
<1> QED BY <1>1, <1>2, <1>3, <1>4, <1>5, <1>6, <1>7, StepCases

(* Where every charge is at the amount asked for, no verification finds     *)
(* another, and only a webhook's is about an event.                        *)
LEMMA TracedJobs ==
  ASSUME "amount" \notin Glitches, TypeOK, LockedIsOpen, OrderInv, TraceInv, [Next]_vars,
         NEW w \in Verifiers, ver'[w].pc = "answered"
  PROVE  ver'[w].res # "MISMATCH" /\ (ver'[w].ev => Captured(ver[w].o, ver[w].k)')
<1>0. /\ \A o \in Orders, k \in Tries : Captured(o, k) => Captured(o, k)'
      /\ ver[w].pc = "answered" =>
           ver[w].res # "MISMATCH" /\ (ver[w].ev => Captured(ver[w].o, ver[w].k))
  BY OneWay DEF TraceInv
<1>1. CASE ver'[w] = ver[w]
  <2>1. ver[w] \in Jobs
    BY <1>1, JobTyping
  <2>2. PICK j \in Jobs : j = ver[w]
    BY <2>1
  <2>3. j.o \in Orders /\ j.k \in Tries
    BY <2>2 DEF Jobs
  <2>4. ver'[w] = j /\ j.res # "MISMATCH" /\ (j.ev => Captured(j.o, j.k)')
    BY <1>0, <1>1, <2>2, <2>3
  <2>5. Captured(ver[w].o, ver[w].k)' <=> charge'[j.o][j.k] \in {"paid", "costly"}
    BY <2>4 DEF Captured
  <2> QED BY <2>4, <2>5 DEF Captured
<1>2. ASSUME NEW o \in Orders, NEW k \in Tries, NEW e \in BOOLEAN, StartJob(w, o, k, e),
             e => Captured(o, k)
      PROVE  ver'[w].res # "MISMATCH" /\ (ver'[w].ev => Captured(ver[w].o, ver[w].k)')
  <2>1. PICK r \in Verdicts(charge[o][k]) :
          ver' = [ver EXCEPT ![w] = [pc |-> "answered", o |-> o, k |-> k, res |-> r,
                                     ev |-> e, payable |-> {}, live |-> FALSE]]
    BY <1>2 DEF StartJob
  <2>2. r # "MISMATCH"
    BY DEF Verdicts
  <2>3. ver'[w].res = r /\ ver'[w].ev = e /\ ver'[w].o = o /\ ver'[w].k = k
    BY <2>1 DEF TypeOK
  <2>4. e => Captured(o, k)'
    BY <1>0, <1>2
  <2>5. Captured(ver[w].o, ver[w].k)' <=> charge'[o][k] \in {"paid", "costly"}
    BY <2>3 DEF Captured
  <2> QED BY <2>2, <2>3, <2>4, <2>5 DEF Captured
<1>3. ASSUME NEW o \in Orders, NEW k \in Tries, HandleWebhook(w, o, k) \/ Reconcile(w, o, k)
      PROVE  \E e \in BOOLEAN : StartJob(w, o, k, e) /\ (e => Captured(o, k))
  BY <1>3 DEF HandleWebhook, Reconcile
<1>4. CASE Finish(w)
  BY <1>4 DEF Finish, Idle, TypeOK
<1>5. ~MarkMismatchEvent(w)
  BY <1>0 DEF MarkMismatchEvent
<1>6. CASE ReadSuccess(w)
  <2>1. ver[w] \in Jobs
    BY <1>6, JobTyping DEF ReadSuccess
  <2>2. PICK b : b = (IsOpenUnpaid(ver[w].o) /\ ~due[ver[w].o])
    OBVIOUS
  <2>3. ver' = [ver EXCEPT ![w] = [@ EXCEPT !.pc = "read", !.payable = Kept(ver[w].o), !.live = b]]
    BY <1>6, <2>2 DEF ReadSuccess
  <2>4. ver'[w].pc = "read"
    BY <2>1, <2>3 DEF TypeOK, Jobs
  <2> QED BY <2>4
<1>7. ASSUME NEW x \in Verifiers, VerifyStep(x), x # w
      PROVE  ver'[w] = ver[w]
  <2>1. \A o \in Orders, k \in Tries : HandleWebhook(x, o, k) \/ Reconcile(x, o, k) => ver'[w] = ver[w]
    BY <1>7 DEF HandleWebhook, Reconcile, StartJob, TypeOK
  <2>2. Finish(x) \/ MarkMismatchEvent(x) \/ ReadSuccess(x) => ver'[w] = ver[w]
    BY <1>7, SMTT(30) DEF Finish, MarkMismatchEvent, ReadSuccess, TypeOK
  <2> QED BY <1>7, <2>1, <2>2 DEF VerifyStep, ApplyNonSuccess, ApplyMismatch, DuplicateSuccess,
             CommitSuccess, EndVerification
<1>8. CASE VerifyStep(w)
  BY <1>2, <1>3, <1>4, <1>5, <1>6, <1>8 DEF VerifyStep, ApplyNonSuccess, ApplyMismatch,
     DuplicateSuccess, CommitSuccess, EndVerification
<1>9. CASE ~\E x \in Verifiers : VerifyStep(x)
  <2>1. ASSUME NEW o \in Orders, CreateCheckout(o) \/ CancelStep(o)
        PROVE  ver' = ver
    BY <2>1, LockKinds, CancelSpares, CheckoutWrites DEF handlers
  <2>2. ASSUME NEW o \in Orders, NEW k \in Tries, InitializeStep(o, k) \/ Pay(o, k)
        PROVE  ver' = ver
    BY <2>2, InitializeKinds DEF OrderInv
  <2>3. ClockStep \/ StockStep \/ ExpiryStep \/ UNCHANGED vars => ver' = ver
    BY QuietKinds DEF handlers, vars
  <2> QED BY <1>1, <1>9, <2>1, <2>2, <2>3 DEF Next, CheckoutStep
<1> QED BY <1>1, <1>7, <1>8, <1>9

(* An event is received for a captured charge; it is closed by a claim, or *)
(* by an answer after which the attempt is asked about again or lost.      *)
LEMMA TracedEvents ==
  ASSUME TypeOK, LockedIsOpen, OrderInv, TraceInv, [Next]_vars, NEW o \in Orders, NEW k \in Tries
  PROVE  /\ event'[o][k] # "none" => Captured(o, k)'
         /\ event'[o][k] = "done" => Traced(o)' \/ att'[o][k] \in Unresolved \/ lost'[o][k]
<1> DEFINE Goal == /\ event'[o][k] # "none" => Captured(o, k)'
                   /\ event'[o][k] = "done" => Traced(o)' \/ att'[o][k] \in Unresolved \/ lost'[o][k]
<1>0. /\ Captured(o, k) => Captured(o, k)'
      /\ event[o][k] # "none" => Captured(o, k)
      /\ event[o][k] = "done" => Traced(o) \/ att[o][k] \in Unresolved \/ lost[o][k]
  BY OneWay DEF TraceInv
<1>1. event[o][k] = "done" => Traced(o)' \/ att'[o][k] \in Unresolved \/ lost'[o][k]
  BY <1>0, TraceStays, AskedAgain, LostStays
<1>2. event'[o][k] = event[o][k] => Goal
  BY <1>0, <1>1
<1>3. ASSUME NEW w \in Verifiers, VerifyStep(w)
      PROVE  Goal
  <2>1. ASSUME NEW p \in Orders, NEW i \in Tries, HandleWebhook(w, p, i)
        PROVE  Goal
    <3>1. event' = [event EXCEPT ![p][i] = "received"] /\ Captured(p, i)
      BY <2>1 DEF HandleWebhook
    <3>2. event \in [Orders -> [Tries -> {"none", "received", "done"}]]
      BY DEF TypeOK
    <3>3. /\ event'[p][i] = "received"
          /\ \A q \in Orders, h \in Tries : q # p \/ h # i => event'[q][h] = event[q][h]
      BY ONLY <3>1, <3>2, NestedWrite, p \in Orders, i \in Tries
    <3>4. CASE p = o /\ i = k
      BY <1>0, <3>1, <3>3, <3>4
    <3>5. CASE p # o \/ i # k
      BY <1>2, <3>3, <3>5
    <3> QED BY <3>4, <3>5
  <2>2. CASE CommitSuccess(w) \/ DuplicateSuccess(w) \/ ApplyNonSuccess(w)
    <3>1. ver[w].pc \in {"answered", "read"} /\ MarkEvent(ver[w])
      BY <2>2 DEF CommitSuccess, DuplicateSuccess, ApplyNonSuccess
    <3>2. PICK j \in Jobs : j = ver[w]
      BY <3>1, JobTyping
    <3>3. j.o \in Orders /\ j.k \in Tries
      BY <3>2 DEF Jobs
    <3>4. PICK x : x = IF j.ev THEN "done" ELSE event[j.o][j.k]
      OBVIOUS
    <3>5. event' = [event EXCEPT ![j.o][j.k] = x]
      BY <3>1, <3>2, <3>4 DEF MarkEvent
    <3>6. /\ event'[j.o][j.k] = x
          /\ \A p \in Orders, i \in Tries : p # j.o \/ i # j.k => event'[p][i] = event[p][i]
      BY <3>3, <3>5 DEF TypeOK
    <3>7. CASE ~(j.o = o /\ j.k = k /\ j.ev)
      BY <1>2, <3>4, <3>6, <3>7
    <3>8. CASE j.o = o /\ j.k = k /\ j.ev
      <4>1. Captured(o, k)
        <5>1. CASE ApplyNonSuccess(w) \/ DuplicateSuccess(w)
          BY <3>2, <3>8, <5>1 DEF ApplyNonSuccess, DuplicateSuccess, TraceInv
        <5>2. CASE CommitSuccess(w)
          <6>1. JobKnows(w) /\ j.pc = "read"
            BY <3>2, <5>2 DEF CommitSuccess, OrderInv, JobsKnow
          <6> QED BY <3>2, <3>8, <6>1 DEF JobKnows
        <5> QED BY <2>2, <5>1, <5>2
      <4>2. Traced(o)' \/ att'[o][k] \in Unresolved \/ lost'[o][k]
        <5>1. CASE CommitSuccess(w)
          BY <3>2, <3>8, <5>1, SuccessWrites DEF Traced
        <5>2. CASE DuplicateSuccess(w)
          <6>1. intent[o] = "SUCCEEDED"
            BY <3>2, <3>8, <5>2 DEF DuplicateSuccess, AlreadySucceeded
          <6> QED BY <6>1, TraceStays DEF TraceInv
        <5>3. CASE ApplyNonSuccess(w)
          <6>1. PICK b : b = (lost[o][k] \/ (j.res = "FAILED" /\ Captured(o, k)))
            OBVIOUS
          <6>2. /\ att' = [att EXCEPT ![o][k] = j.res] /\ lost' = [lost EXCEPT ![o][k] = b]
                /\ j.res \in {"FAILED", "PROCESSING"}
            BY <3>2, <3>8, <5>3, <6>1 DEF ApplyNonSuccess
          <6>3. att'[o][k] = j.res
            BY <6>2 DEF TypeOK
          <6>4. lost'[o][k] = b
            BY <6>2 DEF TypeOK
          <6> QED BY <4>1, <6>1, <6>2, <6>3, <6>4 DEF Unresolved, Active
        <5> QED BY <2>2, <5>1, <5>2, <5>3
      <4> QED BY <1>0, <4>1, <4>2
    <3> QED BY <3>7, <3>8, SMTT(30)
  <2>3. CASE ApplyMismatch(w) \/ ReadSuccess(w) \/ EndVerification(w)
    BY <1>2, <2>3 DEF ApplyMismatch, ReadSuccess, EndVerification, provider
  <2>4. \A p \in Orders, i \in Tries : Reconcile(w, p, i) => UNCHANGED event
    BY DEF Reconcile, provider
  <2>5. ~MarkMismatchEvent(w)
    BY DEF MarkMismatchEvent, TraceInv
  <2> QED BY <1>2, <1>3, <2>1, <2>2, <2>3, <2>4, <2>5 DEF VerifyStep
<1>4. CASE ~\E w \in Verifiers : VerifyStep(w)
  <2>1. ASSUME NEW p \in Orders, CreateCheckout(p) \/ CancelStep(p)
        PROVE  event' = event
    BY <2>1, LockKinds, CancelSpares, CheckoutWrites
  <2>2. ASSUME NEW p \in Orders, NEW i \in Tries, InitializeStep(p, i) \/ Pay(p, i)
        PROVE  event' = event
    BY <2>2 DEF InitializeStep, BeginInitialization, ProviderOpens, CompleteInitialization,
       MarkInitializationAmbiguous, MarkInitializationFailed, RejectPrimary, RejectFallback,
       RejectWithoutFallback, CreateFallbackAttempt, EndInitialization, Pay, provider
  <2>3. ClockStep \/ StockStep \/ ExpiryStep \/ UNCHANGED vars => event' = event
    BY QuietKinds DEF provider, vars
  <2> QED BY <1>2, <1>4, <2>1, <2>2, <2>3 DEF Next, CheckoutStep
<1> QED BY <1>3, <1>4

(* Where charges are at the amount asked for, a webhook that was worked off *)
(* leaves the order PAID, under manual review, or with an attempt that is   *)
(* asked about again, for good, whatever the provider answered: no later    *)
(* answer, duplicate, cancellation or crash loses the money from sight but  *)
(* one that fails the attempt of a captured charge.                        *)
THEOREM WebhookIsTraced ==
  ASSUME "amount" \notin Glitches
  PROVE  Spec => []WebhookLeavesTrace
<1>1. Init => TraceInv
  BY DEF Init, TraceInv, Idle
<1>2. ASSUME Sound, TraceInv, [Next]_vars
      PROVE  TraceInv'
  <2>0. TypeOK /\ LockedIsOpen /\ OrderInv
    BY <1>2 DEF Sound, StockInv, OrderRowsOK
  <2>1. \A o \in Orders : intent'[o] = "SUCCEEDED" => Traced(o)'
    BY <1>2, <2>0, TracedIntent, TraceStays DEF TraceInv
  <2>2. \A o \in Orders, k \in Tries :
          /\ event'[o][k] # "none" => Captured(o, k)'
          /\ event'[o][k] = "done" => Traced(o)' \/ att'[o][k] \in Unresolved \/ lost'[o][k]
    BY <1>2, <2>0, TracedEvents
  <2>3. \A o \in Orders, k \in Tries : call'[o][k] = "rejected" => charge'[o][k] = "none"
    BY <1>2, <2>0, RefusedStays
  <2>4. \A w \in Verifiers : ver'[w].pc = "answered" =>
          ver'[w].res # "MISMATCH" /\ (ver'[w].ev => Captured(ver[w].o, ver[w].k)')
    BY <1>2, <2>0, TracedJobs
  <2> QED BY <2>1, <2>2, <2>3, <2>4 DEF TraceInv
<1>3. Sound /\ TraceInv /\ [Next]_vars => TraceInv'
  BY <1>2
<1>4. TraceInv => WebhookLeavesTrace
  BY DEF TraceInv, WebhookLeavesTrace, Traced
<1> QED BY <1>1, <1>3, <1>4, SoundAlways, PTL DEF Spec

-----------------------------------------------------------------------------
(* The refinement: what OrderPromise sees of a state.                      *)

Money(o) == {attAmt[o][k] : k \in {j \in Tries : Captured(o, j)}}
PhaseOf == [o \in Orders |-> Phase(o)]
KeptOf  == [o \in Orders |-> Kept(o)]
MoneyOf == [o \in Orders |-> Money(o)]

LEMMA SameSlices ==
  ASSUME NEW o \in Orders
  PROVE  Promise!Slices(o) = Slices(o)
BY DEF Promise!Slices, Slices, Lines

LEMMA UnitsSold ==
  ASSUME NEW o \in Orders, NEW S, NEW v \in Variants
  PROVE  Promise!UnitsOf(o, S)[v] = IF v \in LinesOf(o, S) THEN Qty[o][v] ELSE 0
BY QtyRange DEF Promise!UnitsOf, LinesOf, Lines

LEMMA PhaseFrame ==
  ASSUME UNCHANGED <<status, payStatus>>
  PROVE  PhaseOf' = PhaseOf
BY DEF PhaseOf, Phase

LEMMA KeptFrame ==
  ASSUME \A p \in Orders : Kept(p)' = Kept(p)
  PROVE  KeptOf' = KeptOf
BY DEF KeptOf

LEMMA MoneyFrame ==
  ASSUME UNCHANGED <<charge, attAmt>>
  PROVE  MoneyOf' = MoneyOf
BY DEF MoneyOf, Money, Captured

LEMMA PromiseStutters ==
  ASSUME onHand' = onHand, PhaseOf' = PhaseOf, KeptOf' = KeptOf, MoneyOf' = MoneyOf
  PROVE  UNCHANGED Promise!vars
BY DEF Promise!vars, PhaseOf, KeptOf, MoneyOf, Money

LEMMA PromiseInit == Init => Promise!Init
<1> SUFFICES ASSUME Init PROVE Promise!Init
  OBVIOUS
<1>1. onHand = [v \in Variants |-> InitialStock]
  BY DEF Init
<1>2. ASSUME NEW o \in Orders
      PROVE  Phase(o) = "absent" /\ Kept(o) = {} /\ Money(o) = {}
  BY DEF Init, Phase, Kept, Money, Captured
<1> QED BY <1>1, <1>2 DEF Promise!Init, Money

LEMMA PlaceStep ==
  ASSUME Sound, NEW o \in Orders, CreateCheckout(o)
  PROVE  Promise!Place(o)
<1>1. TypeOK /\ payStatus[o] = "PENDING"
  BY CheckoutWrites DEF Sound, OrderInv, BornWhole
<1>2. Phase(o) = "absent" /\ Phase(o)' = "open"
  BY <1>1, CheckoutWrites DEF Phase
<1>3. \A p \in Orders \ {o} : Phase(p)' = Phase(p) /\ Kept(p)' = Kept(p)
  BY <1>1, CheckoutWrites DEF Phase, Kept
<1>4. PhaseOf' = [PhaseOf EXCEPT ![o] = "open"] /\ PhaseOf[o] = "absent"
  BY <1>2, <1>3 DEF PhaseOf
<1>5. KeptOf' = [KeptOf EXCEPT ![o] = Promise!Slices(o)]
  <2>1. Kept(o)' = Promise!Slices(o)
    BY <1>1, CheckoutWrites, SameSlices
  <2> QED BY <1>3, <2>1 DEF KeptOf
<1>6. onHand' = onHand /\ MoneyOf' = MoneyOf
  BY <1>1, CheckoutWrites, MoneyFrame
<1>7. \A v \in Variants : Promise!UnitsOf(o, Promise!Slices(o))[v] <= onHand[v]
  <2> SUFFICES ASSUME NEW v \in Variants
               PROVE  Promise!UnitsOf(o, Promise!Slices(o))[v] <= onHand[v]
    OBVIOUS
  <2>1. onHand[v] \in Nat /\ reserved[v] \in Nat /\ Qty[o][v] \in Nat
    BY <1>1, QtyRange DEF TypeOK
  <2>2. v \in Lines(o) => onHand[v] - reserved[v] >= Qty[o][v]
    BY DEF CreateCheckout, InStock
  <2> QED BY <2>1, <2>2, UnitsSold DEF LinesOf
<1> QED BY <1>4, <1>5, <1>6, <1>7 DEF Promise!Place, PhaseOf, KeptOf, MoneyOf, Money

LEMMA RestockStep ==
  ASSUME Sound, NEW v \in Variants, NEW n \in 0..MaxOnHand, AdjustInventory(v, n)
  PROVE  Promise!Restock(v)
<1>1. onHand' = [onHand EXCEPT ![v] = n] /\ n \in Nat /\ onHand \in [Variants -> Nat]
  BY BoundsAssumption DEF AdjustInventory, Sound, TypeOK
<1>2. onHand' = [onHand EXCEPT ![v] = onHand'[v]] /\ onHand'[v] \in Nat
  BY <1>1
<1>3. UNCHANGED <<status, payStatus, vo, charge, attAmt>>
  BY DEF AdjustInventory, orderRows, payments, provider
<1>4. PhaseOf' = PhaseOf /\ KeptOf' = KeptOf /\ MoneyOf' = MoneyOf
  BY <1>3, PhaseFrame, KeptFrame, MoneyFrame DEF Kept
<1> QED BY <1>2, <1>4 DEF Promise!Restock, PhaseOf, KeptOf, MoneyOf, Money

LEMMA TrimStep ==
  ASSUME Sound, NEW o \in Orders, CommitCancel(o)
  PROVE  \E S \in SUBSET Stores : Promise!Trim(o, S)
<1>1. TypeOK /\ LockedIsOpen /\ CancelledIsFree
  BY DEF Sound, StockInv, OrderRowsOK, OrderInv
<1> DEFINE S == Kept(o) \ cancelling[o]
<1>2. S \in SUBSET Stores /\ S \subseteq Kept(o) /\ S # Kept(o)
  BY <1>1, CancelWrites DEF CancelledIsFree, Kept
<1>3. IsOpenUnpaid(o)
  BY <1>1, CancelWrites
<1>4. Phase(o) = "open"
  BY <1>3 DEF IsOpenUnpaid, Phase
<1>5. Phase(o)' = IF S = {} THEN "void" ELSE "open"
  BY <1>1, <1>3, CancelKinds DEF IsOpenUnpaid, Phase
<1>6. /\ onHand' = onHand /\ UNCHANGED <<charge, attAmt>>
      /\ \A p \in Orders \ {o} : Phase(p)' = Phase(p) /\ Kept(p)' = Kept(p)
  BY <1>1, CancelSpares DEF Phase, Kept
<1>7. PhaseOf' = [PhaseOf EXCEPT ![o] = IF S = {} THEN "void" ELSE "open"] /\ PhaseOf[o] = "open"
  BY <1>4, <1>5, <1>6 DEF PhaseOf
<1>8. Kept(o)' = S
  BY <1>1, CancelWrites
<1>9. KeptOf' = [KeptOf EXCEPT ![o] = S] /\ KeptOf[o] = Kept(o)
  BY <1>6, <1>8 DEF KeptOf
<1>10. MoneyOf' = MoneyOf
  BY <1>6, MoneyFrame
<1> HIDE DEF S
<1>11. Promise!Trim(o, S)
  BY <1>2, <1>6, <1>7, <1>9, <1>10 DEF Promise!Trim, PhaseOf, KeptOf, MoneyOf, Money
<1> QED BY <1>2, <1>11

(* Captured money of an order grows by what the attempt asked for, or not. *)
LEMMA MoneyTouched ==
  ASSUME TypeOK, BornWhole, SameAmount, NEW o \in Orders, NEW k \in Tries, Touched(o, k)
  PROVE  MoneyOf' = MoneyOf \/ MoneyOf' = [MoneyOf EXCEPT ![o] = @ \cup {attAmt[o][k]}]
<1>1. \A p \in Orders, i \in Tries :
        /\ Captured(p, i) => Captured(p, i)' /\ attAmt'[p][i] = attAmt[p][i]
        /\ p # o \/ i # k => (Captured(p, i)' <=> Captured(p, i))
  <2>1. \A p \in Orders, i \in Tries :
          /\ p # o \/ i # k => charge'[p][i] = charge[p][i]
          /\ Captured(p, i) => Captured(p, i)'
          /\ att[p][i] # "NONE" => attAmt'[p][i] = attAmt[p][i]
    BY TouchWrites
  <2>2. \A p \in Orders, i \in Tries : Captured(p, i) => att[p][i] # "NONE"
    BY AttemptsKnown DEF Captured
  <2> QED BY <2>1, <2>2 DEF Captured
<1>2. \A p \in Orders \ {o} : Money(p)' = Money(p)
  BY <1>1 DEF Money
<1>3. CASE Captured(o, k)' <=> Captured(o, k)
  <2>1. Money(o)' = Money(o)
    BY <1>1, <1>3 DEF Money
  <2> QED BY <1>2, <2>1 DEF MoneyOf
<1>4. CASE Captured(o, k)' /\ ~Captured(o, k)
  <2>1. att[o][k] # "NONE"
    <3>1. CASE Inserted(o, k)
      BY <1>4, <3>1 DEF Inserted, Captured
    <3> QED BY <3>1 DEF Touched, Answered, Proceeds
  <2>2. attAmt'[o][k] = attAmt[o][k]
    BY <2>1, TouchWrites
  <2>3. Money(o)' = Money(o) \cup {attAmt[o][k]}
    BY <1>1, <1>4, <2>2 DEF Money
  <2> QED BY <1>2, <2>3 DEF MoneyOf
<1> QED BY <1>1, <1>3, <1>4

LEMMA HandlerStock ==
  ASSUME \/ \E o \in Orders, k \in Tries : InitializeStep(o, k) \/ Pay(o, k)
         \/ \E w \in Verifiers : VerifyStep(w) /\ ~CommitSuccess(w)
  PROVE  onHand' = onHand
<1>1. \A o \in Orders, k \in Tries : InitializeStep(o, k) \/ Pay(o, k) => onHand' = onHand
  BY SMTT(30) DEF InitializeStep, BeginInitialization, ProviderOpens, CompleteInitialization,
     MarkInitializationAmbiguous, MarkInitializationFailed, RejectPrimary, RejectFallback,
     RejectWithoutFallback, CreateFallbackAttempt, EndInitialization, Pay, inventory
<1>2. \A w \in Verifiers : VerifyStep(w) /\ ~CommitSuccess(w) => onHand' = onHand
  BY DEF VerifyStep, HandleWebhook, Reconcile, ApplyNonSuccess, MarkMismatchEvent, ApplyMismatch,
     ReadSuccess, DuplicateSuccess, EndVerification, inventory
<1> QED BY <1>1, <1>2

LEMMA HandlerStep ==
  ASSUME Sound,
         \/ \E o \in Orders, k \in Tries : InitializeStep(o, k) \/ Pay(o, k)
         \/ \E w \in Verifiers : VerifyStep(w) /\ ~CommitSuccess(w)
  PROVE  \/ UNCHANGED Promise!vars
         \/ \E o \in Orders, A \in SUBSET Stores : Promise!Pay(o, A)
<1>0. TypeOK /\ OrderInv /\ BornWhole /\ SameAmount
  BY DEF Sound, OrderInv
<1>1. onHand' = onHand /\ PhaseOf' = PhaseOf /\ KeptOf' = KeptOf
  <2>1. UNCHANGED <<status, payStatus, vo>>
    BY <1>0, HandlerKinds DEF orderSide
  <2> QED BY <2>1, HandlerStock, PhaseFrame, KeptFrame DEF Kept
<1>2. CASE UNCHANGED <<payments, call, charge>>
  <2>1. MoneyOf' = MoneyOf
    BY <1>2, MoneyFrame DEF payments
  <2> QED BY <1>1, <2>1, PromiseStutters
<1>3. ASSUME NEW o \in Orders, NEW k \in Tries, Touched(o, k)
      PROVE  UNCHANGED Promise!vars \/ \E A \in SUBSET Stores : Promise!Pay(o, A)
  <2>1. CASE MoneyOf' = MoneyOf
    BY <1>1, <2>1, PromiseStutters
  <2>2. CASE MoneyOf' # MoneyOf
    <3>1. MoneyOf' = [MoneyOf EXCEPT ![o] = @ \cup {attAmt[o][k]}]
      BY <1>0, <1>3, <2>2, MoneyTouched
    <3>2. att[o][k] # "NONE"
      <4>1. CASE Inserted(o, k)
        <5>1. att[o][k] = "NONE" /\ charge' = charge /\ attAmt' = [attAmt EXCEPT ![o][k] = intentAmt[o]]
          BY <4>1 DEF Inserted
        <5>2. \A i \in Tries : Captured(o, i) => attAmt'[o][i] = attAmt[o][i]
          BY <1>0, <1>3, <5>1, TouchWrites, AttemptsKnown DEF Captured
        <5>3. \A p \in Orders : Money(p)' = Money(p)
          <6>1. \A p \in Orders \ {o} : attAmt'[p] = attAmt[p]
            BY <1>0, <1>3, TouchWrites
          <6> QED BY <5>1, <5>2, <6>1 DEF Money, Captured
        <5> QED BY <2>2, <5>3 DEF MoneyOf
      <4> QED BY <1>3, <4>1 DEF Touched, Answered, Proceeds
    <3>3. status[o] # "NONE"
      BY <1>0, <3>2 DEF BornWhole
    <3>4. attAmt[o][k] # {} /\ attAmt[o][k] \subseteq Slices(o) /\ attAmt[o][k] \in SUBSET Stores
      BY <1>0, <3>2, <3>3 DEF SameAmount, TypeOK
    <3>5. PhaseOf[o] # "absent"
      BY <3>3 DEF PhaseOf, Phase
    <3>6. attAmt[o][k] \subseteq Promise!Slices(o)
      BY <3>4, SameSlices
    <3>7. PICK A : A = attAmt[o][k]
      OBVIOUS
    <3>8. Promise!Pay(o, A)
      BY <1>1, <3>1, <3>4, <3>5, <3>6, <3>7 DEF Promise!Pay, PhaseOf, KeptOf, MoneyOf, Money
    <3> QED BY <3>4, <3>7, <3>8
  <2> QED BY <2>1, <2>2
<1> QED BY <1>0, <1>2, <1>3, HandlerKinds

LEMMA SuccessStep ==
  ASSUME Sound, TypeOK', NEW w \in Verifiers, CommitSuccess(w)
  PROVE  UNCHANGED Promise!vars \/ \E o \in Orders : Promise!Sell(o) \/ Promise!Capture(o)
<1>0. TypeOK /\ StockInv /\ OrderInv /\ PaidExactly
  BY DEF Sound
<1>1. PICK j : j = ver[w]
  OBVIOUS
<1>2. j.o \in Orders /\ j.k \in Tries /\ j.pc = "read" /\ SoldBy(j) \subseteq Variants
  BY <1>0, <1>1, SuccessWrites
<1>3. /\ \A p \in Orders \ {j.o} : Phase(p)' = Phase(p)
      /\ payStatus'[j.o] = "SUCCEEDED"
  BY <1>0, <1>1, SuccessWrites DEF Phase
<1>4. KeptOf' = KeptOf /\ MoneyOf' = MoneyOf
  BY <1>0, <1>1, SuccessWrites, KeptFrame, MoneyFrame
<1>5. att[j.o][j.k] # "NONE" /\ Captured(j.o, j.k)
  BY <1>1, <1>2 DEF Sound, OrderInv, JobsKnow, JobKnows
<1>6. MoneyOf[j.o] # {} /\ attAmt[j.o][j.k] \in MoneyOf[j.o]
  BY <1>2, <1>5 DEF MoneyOf, Money
<1>7. status[j.o] # "NONE"
  BY <1>2, <1>5 DEF Sound, OrderInv, BornWhole
<1>8. payStatus[j.o] \in {"PENDING", "SUCCEEDED", "CANCELLED"}
  BY <1>0, <1>2 DEF TypeOK
<1>9. CASE SoldBy(j) # {}
  <2>1. /\ SoldBy(j) = LinesOf(j.o, Kept(j.o)) /\ attAmt[j.o][j.k] = Kept(j.o)
        /\ Kept(j.o) # {} /\ status[j.o] # "PAID"
        /\ \A v \in SoldBy(j) : onHand[v] >= Qty[j.o][v]
    BY <1>0, <1>1, <1>9, SaleIsWhole
  <2>2. payStatus[j.o] # "CANCELLED"
    BY <1>2, <2>1 DEF Sound, OrderInv, CancelledIsFree
  <2>3. PhaseOf[j.o] \in {"open", "captured"}
    BY <1>2, <1>7, <1>8, <2>1, <2>2 DEF PhaseOf, Phase
  <2>4. Phase(j.o)' = "sold"
    <3>1. status'[j.o] = "PAID"
      BY <1>0, <1>1, <1>9, SuccessWrites
    <3> QED BY <3>1 DEF Phase
  <2>5. PhaseOf' = [PhaseOf EXCEPT ![j.o] = "sold"]
    BY <1>2, <1>3, <2>4 DEF PhaseOf
  <2>6. KeptOf[j.o] = Kept(j.o) /\ KeptOf[j.o] \in MoneyOf[j.o]
    BY <1>2, <1>6, <2>1 DEF KeptOf
  <2>7. \A v \in Variants : Promise!UnitsOf(j.o, Kept(j.o))[v] = IF v \in SoldBy(j) THEN Qty[j.o][v] ELSE 0
    BY <1>2, <2>1, UnitsSold
  <2>8. \A v \in Variants : onHand[v] \in Nat /\ Qty[j.o][v] \in Nat
    BY <1>0, <1>2, QtyRange DEF TypeOK
  <2>9. \A v \in Variants : Promise!UnitsOf(j.o, Kept(j.o))[v] <= onHand[v]
    BY <2>1, <2>7, <2>8
  <2>10. onHand' = [v \in Variants |-> onHand[v] - Promise!UnitsOf(j.o, Kept(j.o))[v]]
    <3>1. \A v \in Variants : onHand'[v] = IF v \in SoldBy(j) THEN onHand[v] - Qty[j.o][v] ELSE onHand[v]
      BY <1>0, <1>1, SuccessWrites
    <3>2. \A v \in Variants : onHand'[v] = onHand[v] - Promise!UnitsOf(j.o, Kept(j.o))[v]
      BY <2>7, <2>8, <3>1
    <3> QED BY <3>2 DEF TypeOK
  <2>11. PICK o \in Orders : o = j.o
    BY <1>2
  <2>12. Promise!Sell(o)
    BY <1>4, <2>3, <2>5, <2>6, <2>9, <2>10, <2>11 DEF Promise!Sell, PhaseOf, KeptOf, MoneyOf, Money
  <2> QED BY <2>12
<1>10. CASE SoldBy(j) = {}
  <2>1. status' = status /\ \A v \in Variants : onHand'[v] = onHand[v]
    BY <1>0, <1>1, <1>10, SuccessWrites
  <2>2. onHand' = onHand
    BY <1>0, <2>1 DEF TypeOK
  <2>3. CASE status[j.o] = "PAID" \/ payStatus[j.o] = "SUCCEEDED"
    <3>1. Phase(j.o)' = Phase(j.o)
      BY <1>3, <1>7, <2>1, <2>3 DEF Phase
    <3>2. PhaseOf' = PhaseOf
      BY <1>2, <1>3, <3>1 DEF PhaseOf
    <3> QED BY <1>4, <2>2, <3>2, PromiseStutters
  <2>4. CASE status[j.o] # "PAID" /\ payStatus[j.o] # "SUCCEEDED"
    <3>1. PhaseOf[j.o] \in {"open", "void"} /\ Phase(j.o)' = "captured"
      BY <1>2, <1>3, <1>7, <1>8, <2>1, <2>4 DEF PhaseOf, Phase
    <3>2. PhaseOf' = [PhaseOf EXCEPT ![j.o] = "captured"]
      BY <1>2, <1>3, <3>1 DEF PhaseOf
    <3>3. PICK o \in Orders : o = j.o
      BY <1>2
    <3>4. Promise!Capture(o)
      BY <1>4, <1>6, <2>2, <3>1, <3>2, <3>3 DEF Promise!Capture, PhaseOf, KeptOf, MoneyOf, Money
    <3> QED BY <3>4
  <2> QED BY <2>3, <2>4
<1> QED BY <1>9, <1>10

LEMMA PromiseStep ==
  ASSUME Sound, TypeOK', [Next]_vars
  PROVE  [Promise!Next]_(Promise!vars)
<1>0. TypeOK /\ OrderInv
  BY DEF Sound
<1>1. CASE UNCHANGED vars
  BY <1>1, PromiseStutters, PhaseFrame, KeptFrame, MoneyFrame
     DEF vars, inventory, orderRows, payments, provider, Kept
<1>2. ASSUME NEW o \in Orders, CreateCheckout(o)
      PROVE  Promise!Next
  BY <1>2, PlaceStep DEF Promise!Next
<1>3. CASE ClockStep \/ ExpiryStep
  <2>1. UNCHANGED <<status, payStatus, vo, charge, attAmt>>
    BY <1>0, <1>3, QuietKinds DEF orderSide, payments
  <2>2. onHand' = onHand
    BY <1>3 DEF ClockStep, ExpiryStep, Deadline, ExpireReservations, inventory
  <2> QED BY <2>1, <2>2, PromiseStutters, PhaseFrame, KeptFrame, MoneyFrame DEF Kept
<1>4. CASE StockStep
  BY <1>4, RestockStep DEF StockStep, Promise!Next
<1>5. ASSUME NEW o \in Orders, CancelStep(o), ~CommitCancel(o)
      PROVE  UNCHANGED Promise!vars
  <2>1. UNCHANGED <<onHand, status, payStatus, vo, charge, attAmt>>
    BY <1>0, <1>5, LockKinds DEF payments
  <2> QED BY <2>1, PromiseStutters, PhaseFrame, KeptFrame, MoneyFrame DEF Kept
<1>6. ASSUME NEW o \in Orders, CommitCancel(o)
      PROVE  Promise!Next
  BY <1>6, TrimStep DEF Promise!Next
<1>7. CASE \/ \E o \in Orders, k \in Tries : InitializeStep(o, k) \/ Pay(o, k)
           \/ \E w \in Verifiers : VerifyStep(w) /\ ~CommitSuccess(w)
  BY <1>7, HandlerStep DEF Promise!Next
<1>8. ASSUME NEW w \in Verifiers, CommitSuccess(w)
      PROVE  [Promise!Next]_(Promise!vars)
  BY <1>8, SuccessStep DEF Promise!Next
<1> QED BY <1>1, <1>2, <1>3, <1>4, <1>5, <1>6, <1>7, <1>8, StepCases

(* The handlers and transactions of OrderPayments, with all their           *)
(* interleavings, races, crashes and provider glitches, do nothing to an   *)
(* order that OrderPromise does not allow: it is sold at most once, only   *)
(* when the price of exactly what is kept of it was paid, only out of stock *)
(* that is there; and money that cannot buy it is captured for a review.   *)
THEOREM ImplementsPromise == Spec => PromiseKept
<1>1. Init => Promise!Init
  BY PromiseInit
<1>2. Sound /\ Sound' /\ [Next]_vars => [Promise!Next]_(Promise!vars)
  BY PromiseStep DEF Sound
<1> QED BY <1>1, <1>2, SoundAlways, PTL DEF Spec, PromiseKept, Promise!Spec
=============================================================================
