---------------------------- MODULE MCMarketplace ----------------------------
(* Three people, three categories, and the vendor at several points of its life. *)
EXTENDS Marketplace

CONSTANTS ann, bob, cleo, c1, c2, c3, h1, h2

ThreeUsers      == {ann, bob, cleo}
ThreeCategories == {c1, c2, c3}
TwoHandlers     == {h1, h2}

(* Some of the permissions, with what they follow from. *)
SomePermissions == {"staff:read", "staff:invite", "staff:update", "staff:remove", "store:update"}
Implications == [p \in SomePermissions |->
  IF p = "staff:read" THEN {"staff:invite", "staff:update", "staff:remove"} ELSE {}]
SomeGrants  == {{"staff:invite", "staff:update"}, {"staff:invite", "store:update"}}
SomeChanges ==
  {[role |-> r, status |-> s, perms |-> {}] : r \in {"OWNER", "STAFF", Same}, s \in {"ACTIVE", "SUSPENDED", Same}}
  \cup {[role |-> Same, status |-> Same, perms |-> {P}] : P \in SomeGrants}

Owner      == [role |-> "OWNER", status |-> "ACTIVE", perms |-> {}]
Helper     == [role |-> "STAFF", status |-> "ACTIVE", perms |-> {"staff:invite", "staff:update"}]
OneOwner   == [u \in Users |-> IF u = ann THEN Owner ELSE NoMember]
OwnerAndHelper == [u \in Users |-> CASE u = ann -> Owner [] u = bob -> Helper [] OTHER -> NoMember]
TwoOwners  == [u \in Users |-> IF u \in {ann, bob} THEN Owner ELSE NoMember]

NoChecks   == [t \in CheckTypes |-> << >>]
AllVerified   == [t \in CheckTypes |-> <<[status |-> "VERIFIED", was |-> TRUE]>>]
Submitted  == [t \in CheckTypes |-> <<NewCheck>>]
NoTree     == [c \in Categories |-> [parent |-> None, status |-> "NONE"]]
FlatTree   == [c \in Categories |-> [parent |-> None, status |-> "ACTIVE"]]
Listed     == [status |-> "ACTIVE", moderation |-> "NOT_REQUIRED", category |-> None, variants |-> 1, inactive |-> 0]
Uploaded   == [status |-> "PENDING", stored |-> TRUE, open |-> TRUE]

Nothing == [members |-> 0, privacy |-> 0, selling |-> 0, products |-> 0, categories |-> 0]
Founded == [member |-> OneOwner, vendor |-> "PENDING", checks |-> NoChecks, account |-> "NONE", store |-> "NONE",
            category |-> NoTree, product |-> NoProduct, media |-> NoMedia, left |-> Nothing]
Trading == [Founded EXCEPT !.vendor = "APPROVED", !.checks = AllVerified, !.account = "ACTIVE", !.store = "ACTIVE"]

Beginnings == {
  [Founded EXCEPT !.member = OwnerAndHelper, !.left.members = 3],
  [Founded EXCEPT !.member = TwoOwners, !.left.members = 2, !.left.privacy = 2],
  [Founded EXCEPT !.left.members = 2, !.left.privacy = 3],
  [Founded EXCEPT !.checks = Submitted, !.left.selling = 5],
  [Founded EXCEPT !.left.selling = 4],
  [Trading EXCEPT !.left.selling = 3],
  [Trading EXCEPT !.left.products = 3, !.left.categories = 1, !.category = [NoTree EXCEPT ![c1].status = "ACTIVE"]],
  [Trading EXCEPT !.product = Listed, !.left.products = 3, !.left.selling = 1],
  [Trading EXCEPT !.product = Listed, !.media = Uploaded, !.left.products = 4],
  [Founded EXCEPT !.left.categories = 4],
  [Founded EXCEPT !.left.categories = 3, !.category = FlatTree]}

Symmetry == Permutations(TwoHandlers)
=============================================================================
