------------------------------- MODULE Selling --------------------------------
(***************************************************************************)
(* What lets a vendor sell: the checks on its business, its owner and its  *)
(* bank account, the administrators' decision, its store, and the account  *)
(* the payment provider settles to. Each decision is read, then written    *)
(* whatever the row has become.                                            *)
(***************************************************************************)
EXTENDS Privacy

CONSTANT MaxChecks    \* checks of a type submitted in a run

VARIABLES
  vendor,    \* Vendor.status
  checks,    \* VendorVerifications of each type, oldest first
  account,   \* PaymentProviderAccount.status
  store      \* Store.status

selling == <<vendor, checks, account, store>>

CheckTypes == {"BUSINESS", "IDENTITY", "BANK_ACCOUNT"}

ASSUME SellingAssumption == MaxChecks \in Nat

VendorStatus  == {"PENDING", "APPROVED", "REJECTED", "SUSPENDED"}
AccountStatus == {"NONE", "PENDING", "ACTIVE", "SUSPENDED", "DISABLED"}
StoreStatus   == {"NONE", "DRAFT", "ACTIVE", "SUSPENDED", "CLOSED"}

(* A check's status, and whether it was ever VERIFIED. A VERIFIED check whose *)
(* expiry is past reads as "LAPSED".                                         *)
CheckRows   == {c \in [status : {"PENDING", "VERIFIED", "REJECTED", "LAPSED"}, was : BOOLEAN] :
                  c.status \in {"VERIFIED", "LAPSED"} => c.was}
NewCheck    == [status |-> "PENDING", was |-> FALSE]
AnyReviewed(t) == \E i \in DOMAIN checks[t] : checks[t][i].status # "REJECTED"  \* mutation of isCurrentVerified
isCurrentVerified(t) == checks[t] # << >> /\ checks[t][Len(checks[t])].status = "VERIFIED"

SubmitVerification(h, actor, t) ==
  /\ Holds(actor, "verification:manage") /\ Len(checks[t]) < MaxChecks
  /\ \A i \in DOMAIN checks[t] : checks[t][i].status # "PENDING"
  /\ Begin(h, "selling", [at |-> "submit", type |-> t])
  /\ UNCHANGED <<membership, privacy, selling>>

CreateVerification(h) ==
  LET t == calls[h].type IN
  /\ calls[h].at = "submit"
  /\ checks' = [checks EXCEPT ![t] = Append(@, NewCheck)]
  /\ Commit(h, {})
  /\ UNCHANGED <<membership, privacy, vendor, account, store>>

ReviewVerification(h, t, i, d) ==
  /\ i \in DOMAIN checks[t] /\ checks[t][i].status = "PENDING"
  /\ Begin(h, "selling", [at |-> "review", type |-> t, check |-> i, decision |-> d])
  /\ UNCHANGED <<membership, privacy, selling>>

WriteReview(h) ==
  LET call == calls[h] IN
  /\ call.at = "review"
  /\ checks' = [checks EXCEPT ![call.type][call.check] =
       [status |-> call.decision, was |-> @.was \/ call.decision = "VERIFIED"]]
  /\ Commit(h, {})
  /\ UNCHANGED <<membership, privacy, vendor, account, store>>

CheckLapses(t, i) ==
  /\ i \in DOMAIN checks[t] /\ checks[t][i].status = "VERIFIED"
  /\ Spend("selling")
  /\ checks' = [checks EXCEPT ![t][i].status = "LAPSED"]
  /\ UNCHANGED <<membership, privacy, vendor, account, store, calls>>

(* approveVendor, rejectVendor and suspendVendor. *)
MayDecide(d) ==
  \/ /\ d = "APPROVED" /\ vendor \in {"PENDING", "REJECTED", "SUSPENDED"}
     /\ isCurrentVerified("BUSINESS") /\ isCurrentVerified("IDENTITY")
  \/ d = "REJECTED" /\ vendor = "PENDING"
  \/ d = "SUSPENDED" /\ vendor = "APPROVED"

DecideVendor(h, d) ==
  /\ MayDecide(d)
  /\ Begin(h, "selling", [at |-> "decide", decision |-> d])
  /\ UNCHANGED <<membership, privacy, selling>>

SetVendorStatus(h) ==
  /\ calls[h].at = "decide"
  /\ vendor' = calls[h].decision
  /\ Commit(h, {})
  /\ UNCHANGED <<membership, privacy, checks, account, store>>

(* A subaccount is recorded, or another one in its place. *)
RecordProviderAccount ==
  /\ Spend("selling") /\ account' = "PENDING"
  /\ UNCHANGED <<membership, privacy, vendor, checks, store, calls>>

UpdateProviderAccount(h, s) ==
  /\ account # "NONE"
  /\ s = "ACTIVE" => vendor = "APPROVED" /\ isCurrentVerified("BANK_ACCOUNT")
  /\ Begin(h, "selling", [at |-> "settle", status |-> s])
  /\ UNCHANGED <<membership, privacy, selling>>

SetProviderAccountStatus(h) ==
  /\ calls[h].at = "settle"
  /\ account' = calls[h].status
  /\ Commit(h, {})
  /\ UNCHANGED <<membership, privacy, vendor, checks, store>>

CreateStore(actor) ==
  /\ store = "NONE" /\ Holds(actor, "store:create") /\ Spend("selling")
  /\ store' = "DRAFT"
  /\ UNCHANGED <<membership, privacy, vendor, checks, account, calls>>

ActivateStore(h, actor) ==
  /\ Holds(actor, "store:update")
  /\ store \notin {"NONE", "CLOSED"} /\ vendor = "APPROVED"
  /\ Begin(h, "selling", [at |-> "store", status |-> "ACTIVE"])
  /\ UNCHANGED <<membership, privacy, selling>>

CloseStore(h, actor) ==
  /\ Holds(actor, "store:update") /\ store # "NONE"
  /\ Begin(h, "selling", [at |-> "store", status |-> "CLOSED"])
  /\ UNCHANGED <<membership, privacy, selling>>

SetStoreStatus(h) ==
  /\ calls[h].at = "store"
  /\ store' = calls[h].status
  /\ Commit(h, {})
  /\ UNCHANGED <<membership, privacy, vendor, checks, account>>

SellingRequest(h) ==
  /\ Free(h, "selling")
  /\ \/ \E u \in Users :
          \/ \E t \in CheckTypes : SubmitVerification(h, u, t)
          \/ ActivateStore(h, u) \/ CloseStore(h, u)
     \/ \E t \in CheckTypes, i \in 1..MaxChecks, d \in {"VERIFIED", "REJECTED"} : ReviewVerification(h, t, i, d)
     \/ \E d \in {"APPROVED", "REJECTED", "SUSPENDED"} : DecideVendor(h, d)
     \/ \E s \in {"ACTIVE", "SUSPENDED", "DISABLED"} : UpdateProviderAccount(h, s)

SellingStep(h) ==
  \/ CreateVerification(h) \/ WriteReview(h) \/ SetVendorStatus(h)
  \/ SetProviderAccountStatus(h) \/ SetStoreStatus(h)

SellingMove ==
  \/ \E u \in Users : CreateStore(u)
  \/ RecordProviderAccount
  \/ \E t \in CheckTypes, i \in 1..MaxChecks : CheckLapses(t, i)

-----------------------------------------------------------------------------
SellingTypeOK ==
  /\ vendor \in VendorStatus /\ account \in AccountStatus /\ store \in StoreStatus
  /\ checks \in [CheckTypes -> Seq(CheckRows)]

(* However reviews, decisions and new submissions overlap, a vendor is        *)
(* approved, and money settled to its account, only after an administrator    *)
(* verified the checks this takes; opening a store takes them as well.        *)
WasVerified(t) == \E i \in DOMAIN checks[t] : checks[t][i].was
SellsOnEvidence ==
  /\ vendor = "APPROVED" \/ store = "ACTIVE" => WasVerified("BUSINESS") /\ WasVerified("IDENTITY")
  /\ account = "ACTIVE" => WasVerified("BUSINESS") /\ WasVerified("IDENTITY") /\ WasVerified("BANK_ACCOUNT")
=============================================================================
