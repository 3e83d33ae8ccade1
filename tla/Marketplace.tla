------------------------------ MODULE Marketplace ------------------------------
(***************************************************************************)
(* The sellers' side of the marketplace: one vendor with its members, its   *)
(* checks, its store and its catalog, and the requests of its members, of   *)
(* account holders and of administrators, in any order and overlapping.     *)
(***************************************************************************)
EXTENDS Catalog

CONSTANT Scenarios    \* states a run starts in, with the requests it may see

(* A run begins at any moment of a vendor's life that is in order: somebody  *)
(* owns it, and what it sells it was allowed to.                             *)
Verified(s, t) == \E i \in DOMAIN s.checks[t] : s.checks[t][i].was
ASSUME MarketplaceAssumption == \A s \in Scenarios :
  /\ s.member \in [Users -> MemberRows] /\ \E u \in Users : s.member[u].role = "OWNER" /\ s.member[u].status = "ACTIVE"
  /\ s.vendor \in VendorStatus /\ s.account \in AccountStatus /\ s.store \in StoreStatus
  /\ s.checks \in [CheckTypes -> Seq(CheckRows)]
  /\ s.vendor = "APPROVED" \/ s.store = "ACTIVE" => Verified(s, "BUSINESS") /\ Verified(s, "IDENTITY")
  /\ s.account = "ACTIVE" => Verified(s, "BUSINESS") /\ Verified(s, "IDENTITY") /\ Verified(s, "BANK_ACCOUNT")
  /\ s.category \in [Categories -> CategoryRows] /\ \A c \in Categories : s.category[c].parent = None
  /\ s.product \in ProductRows /\ s.media \in MediaRows

vars == <<calls, left, membership, privacy, selling, catalog>>

Init == \E s \in Scenarios :
  /\ calls = [h \in Handlers |-> Idle]
  /\ left = s.left
  /\ member = s.member /\ accounts = Users /\ contested = {}
  /\ given = UNION {s.member[u].perms : u \in Users}
  /\ erasure = [u \in Users |-> NoRequest] /\ wiped = {}
  /\ vendor = s.vendor /\ checks = s.checks /\ account = s.account /\ store = s.store
  /\ category = s.category /\ product = s.product /\ media = s.media
  /\ content = [version |-> 0, bytes |-> 0,
                approval |-> [seen |-> [version |-> 0, bytes |-> 0, open |-> s.media.open], over |-> 0]]

Move ==
  \/ \E u \in Users : AcceptInvitation(u) /\ UNCHANGED <<privacy, selling, catalog>>
  \/ SellingMove /\ UNCHANGED catalog
  \/ CatalogMove

Request(h) ==
  \/ MemberRequest(h) /\ UNCHANGED <<privacy, selling, catalog>>
  \/ PrivacyRequest(h) /\ UNCHANGED <<selling, catalog>>
  \/ SellingRequest(h) /\ UNCHANGED catalog
  \/ CatalogRequest(h)

Step(h) ==
  \/ MemberStep(h) /\ UNCHANGED <<privacy, selling, catalog>>
  \/ PrivacyStep(h) /\ UNCHANGED <<selling, catalog>>
  \/ SellingStep(h) /\ UNCHANGED catalog
  \/ CatalogStep(h)

Next == (\E h \in Handlers : Request(h) \/ Step(h)) \/ Move

Spec == Init /\ [][Next]_vars

-----------------------------------------------------------------------------
(* The calls, with what each has read.                                       *)
Row         == Users \cup Categories
InviteCalls == [at : {"invite"}, touched : SUBSET Row, user : Users, perms : SUBSET Permissions, owner : BOOLEAN]
UpdateCalls == [at : {"update"}, touched : SUBSET Row, user : Users, change : Changes, owner : BOOLEAN]
RemoveCalls == [at : {"remove"}, touched : SUBSET Row, user : Users]
AskCalls    == [at : {"ask"}, touched : SUBSET Row, user : Users, blocked : BOOLEAN]
RejectCalls == [at : {"reject"}, touched : SUBSET Row, user : Users, request : RequestRows]
EraseCalls  == [at : {"erase"}, touched : SUBSET Row, user : Users, request : RequestRows,
                row : MemberRows, blocked : BOOLEAN]
SubmitCalls == [at : {"submit"}, touched : SUBSET Row, type : CheckTypes]
ReviewCalls == [at : {"review"}, touched : SUBSET Row, type : CheckTypes, check : 1..MaxChecks,
                decision : {"VERIFIED", "REJECTED"}]
DecideCalls == [at : {"decide"}, touched : SUBSET Row, decision : {"APPROVED", "REJECTED", "SUSPENDED"}]
SettleCalls == [at : {"settle"}, touched : SUBSET Row, status : {"ACTIVE", "SUSPENDED", "DISABLED"}]
StoreCalls  == [at : {"store"}, touched : SUBSET Row, status : {"ACTIVE", "CLOSED"}]
WalkCalls   == [at : {"walk"}, touched : SUBSET Row, category : Categories, parent : Categories \cup {None},
                current : Categories \cup {None}, depth : Nat]
CreateCalls == [at : {"create"}, touched : SUBSET Row, category : Categories \cup {None}]
EditCalls   == [at : {"edit"}, touched : SUBSET Row, edit : Edits]
StatusCalls == [at : {"status"}, touched : SUBSET Row, status : {"ACTIVE", "ARCHIVED"}]
ModerationCalls == [at : {"moderate"}, touched : SUBSET Row, decision : Decisions, seen : Looks]
MediaCalls  == [at : {"media", "object"}, touched : SUBSET Row, status : {"ACTIVE", "same", "DELETED"}]

MemberCalls  == InviteCalls \cup UpdateCalls \cup RemoveCalls
PrivacyCalls == AskCalls \cup RejectCalls \cup EraseCalls
SellingCalls == SubmitCalls \cup ReviewCalls \cup DecideCalls \cup SettleCalls \cup StoreCalls
CatalogCalls == WalkCalls \cup CreateCalls \cup EditCalls \cup StatusCalls \cup ModerationCalls \cup MediaCalls
Calls        == {Idle} \cup MemberCalls \cup PrivacyCalls \cup SellingCalls \cup CatalogCalls

TypeOK ==
  /\ calls \in [Handlers -> Calls]
  /\ MembersTypeOK /\ PrivacyTypeOK /\ SellingTypeOK /\ CatalogTypeOK
=============================================================================
