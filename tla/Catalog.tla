------------------------------- MODULE Catalog --------------------------------
(***************************************************************************)
(* The catalog: the category tree, a product with its variants and media,  *)
(* its publication and its moderation. A change of a product that was ever *)
(* moderated sends it back to moderation in the same transaction.          *)
(***************************************************************************)
EXTENDS Selling

CONSTANTS
  Categories,
  None,           \* no category: a root's parent
  MaxVariants,    \* variants of the product in a run
  MaxDepth        \* how far up assertCategoryParent walks

VARIABLES
  category,   \* Category: its parent and its status
  product,    \* Product: its status, moderation, category, and active variants
  media,      \* the product's Media, the stored object, and whether its upload URL is still valid
  content     \* versions of the listing and of the picture's bytes, and the last approval of them

catalog == <<category, product, media, content>>

ASSUME CatalogAssumption == None \notin Categories /\ MaxVariants \in Nat /\ MaxDepth \in Nat

NoProduct == [status |-> "NONE", moderation |-> "NOT_REQUIRED", category |-> None, variants |-> 0, inactive |-> 0]
NoMedia   == [status |-> "NONE", stored |-> FALSE, open |-> FALSE]
ProductStatus    == {"NONE", "DRAFT", "ACTIVE", "ARCHIVED"}
ModerationStatus == {"NOT_REQUIRED", "PENDING", "APPROVED", "REJECTED", "FLAGGED"}

CategoryRows == [parent : Categories \cup {None}, status : {"NONE", "ACTIVE", "INACTIVE"}]
ProductRows  == [status : ProductStatus, moderation : ModerationStatus, category : Categories \cup {None},
                 variants : Nat, inactive : Nat]
MediaRows    == [status : {"NONE", "PENDING", "ACTIVE", "DELETED"}, stored : BOOLEAN, open : BOOLEAN]

(* What an administrator has in front of him, and what became of the listing  *)
(* until his approval was written.                                           *)
Looks     == [version : Nat, bytes : Nat, open : BOOLEAN]
Approvals == [seen : Looks, over : Nat]
Look      == [version |-> content.version, bytes |-> content.bytes, open |-> media.open]

others == <<membership, privacy, selling>>

Usable(c) == IF c = None THEN TRUE ELSE category[c].status = "ACTIVE"

(* requeueProductModeration, in the transaction of every change. *)
OnlyDelisted(p) == IF p.moderation = "NOT_REQUIRED" THEN p ELSE [p EXCEPT !.status = "DRAFT"]  \* mutation of Requeued
Requeued(p) == IF p.moderation = "NOT_REQUIRED" THEN p
               ELSE [p EXCEPT !.moderation = "PENDING", !.status = "DRAFT"]
ContentChanges == content' = [content EXCEPT !.version = @ + 1]

-----------------------------------------------------------------------------
(* assertCategoryParent reads one ancestor after the other, up to the root. *)
MoveCategory(h, c, p) ==
  /\ category[c].status # "NONE" /\ p # c
  /\ Begin(h, "categories", [at |-> "walk", category |-> c, parent |-> p, current |-> p, depth |-> 0])
  /\ UNCHANGED <<others, catalog>>

NewCategory(h, c, p) ==
  /\ category[c].status = "NONE" /\ \A g \in Handlers : calls[g].at = "walk" => calls[g].category # c
  /\ Begin(h, "categories", [at |-> "walk", category |-> c, parent |-> p, current |-> p, depth |-> 0])
  /\ UNCHANGED <<others, catalog>>

OwnParent(call)     == call.current = call.category /\ call.depth = 0  \* mutation of ReachesItself
ReachesItself(call) == call.current = call.category
WalkUp(h) ==
  LET call == calls[h] IN
  /\ call.at = "walk" /\ call.current # None
  /\ IF \/ ReachesItself(call)
        \/ category[call.current].status = "NONE"
        \/ call.depth = MaxDepth
     THEN Refuse(h)
     ELSE Continue(h, [call EXCEPT !.current = category[@].parent, !.depth = @ + 1])
  /\ UNCHANGED <<others, catalog>>

WriteParent(h) ==
  LET call == calls[h] IN
  /\ call.at = "walk" /\ call.current = None
  /\ category' = [category EXCEPT ![call.category] =
       [parent |-> call.parent, status |-> IF @.status = "NONE" THEN "ACTIVE" ELSE @.status]]
  /\ contested' = IF Overlapped(h, Categories) THEN contested \cup {"categories"} ELSE contested
  /\ Commit(h, {call.category})
  /\ UNCHANGED <<member, accounts, given, privacy, selling, product, media, content>>

SetCategoryStatus(c, s) ==
  /\ category[c].status \notin {"NONE", s} /\ Spend("categories")
  /\ category' = [category EXCEPT ![c].status = s]
  /\ UNCHANGED <<others, product, media, content, calls>>

-----------------------------------------------------------------------------
CreateProduct(h, actor, c) ==
  /\ product.status = "NONE" /\ store # "NONE" /\ Holds(actor, "product:create") /\ Usable(c)
  /\ Begin(h, "products", [at |-> "create", category |-> c])
  /\ UNCHANGED <<others, catalog>>

(* A second product with the same slug is refused by the unique index. *)
WriteProduct(h) ==
  /\ calls[h].at = "create"
  /\ IF product.status = "NONE"
     THEN product' = [status |-> "DRAFT", moderation |-> "NOT_REQUIRED", category |-> calls[h].category,
                      variants |-> 1, inactive |-> 0]
     ELSE UNCHANGED product
  /\ Commit(h, {})
  /\ UNCHANGED <<others, category, media, content>>

(* What a seller asks to change. *)
Edit(h, actor, e) ==
  /\ product.status # "NONE" /\ Holds(actor, "product:update")
  /\ \/ e.kind = "category" /\ Usable(e.to)
     \/ e.kind = "addVariant" /\ product.status # "ARCHIVED" /\ product.variants + product.inactive < MaxVariants
     \/ e.kind = "dropVariant" /\ product.variants > 0
     \/ e.kind = "restoreVariant" /\ product.inactive > 0
     \/ e.kind = "details"
  /\ Begin(h, "products", [at |-> "edit", edit |-> e])
  /\ UNCHANGED <<others, catalog>>

(* An edit of a variant names it, and its status may be what it asks for.    *)
AsAsked(e, p) ==  \* also the mutation of Applied
  CASE e.kind = "category"       -> [p EXCEPT !.category = e.to]
    [] e.kind = "addVariant"     -> [p EXCEPT !.variants = @ + 1]
    [] e.kind = "dropVariant"    -> [p EXCEPT !.variants = @ - 1, !.inactive = @ + 1]
    [] e.kind = "restoreVariant" -> [p EXCEPT !.variants = @ + 1, !.inactive = @ - 1]
    [] OTHER -> p
Applied(e, p) ==
  IF \/ e.kind = "dropVariant" /\ p.variants = 0
     \/ e.kind = "restoreVariant" /\ p.inactive = 0
  THEN p ELSE AsAsked(e, p)
Edits == {[kind |-> k] : k \in {"addVariant", "dropVariant", "restoreVariant", "details"}}
         \cup {[kind |-> "category", to |-> c] : c \in Categories \cup {None}}

WriteEdit(h) ==
  /\ calls[h].at = "edit"
  /\ product' = Requeued(Applied(calls[h].edit, product)) /\ ContentChanges
  /\ Commit(h, {})
  /\ UNCHANGED <<others, category, media>>

PublishProduct(h, actor) ==
  /\ Holds(actor, "product:update")
  /\ vendor = "APPROVED" /\ store = "ACTIVE"
  /\ product.status \notin {"NONE", "ARCHIVED"} /\ product.moderation \in {"NOT_REQUIRED", "APPROVED"}
  /\ Usable(product.category) /\ product.variants > 0
  /\ Begin(h, "products", [at |-> "status", status |-> "ACTIVE"])
  /\ UNCHANGED <<others, catalog>>

ArchiveProduct(h, actor) ==
  /\ Holds(actor, "product:archive") /\ product.status # "NONE"
  /\ Begin(h, "products", [at |-> "status", status |-> "ARCHIVED"])
  /\ UNCHANGED <<others, catalog>>

SetProductStatus(h) ==
  /\ calls[h].at = "status"
  /\ product' = [product EXCEPT !.status = calls[h].status]
  /\ Commit(h, {})
  /\ UNCHANGED <<others, category, media, content>>

(* An administrator looks at the product and decides; what is written checks  *)
(* neither that the product is as he saw it nor that it still waits for him.  *)
(* A decision that is not an approval takes the product off the shelves.      *)
Decisions == {"APPROVED", "REJECTED", "FLAGGED"}
ModerateProduct(h, d) ==
  /\ product.status # "NONE"
  /\ Begin(h, "products", [at |-> "moderate", decision |-> d, seen |-> Look])
  /\ UNCHANGED <<others, catalog>>

SetModerationStatus(h) ==
  LET d == calls[h].decision IN
  /\ calls[h].at = "moderate"
  /\ product' = [product EXCEPT !.moderation = d, !.status = IF d = "APPROVED" THEN @ ELSE "DRAFT"]
  /\ content' = IF d = "APPROVED"
                THEN [content EXCEPT !.approval = [seen |-> calls[h].seen, over |-> content.version]]
                ELSE content
  /\ Commit(h, {})
  /\ UNCHANGED <<others, category, media>>

-----------------------------------------------------------------------------
CreateMediaUploadIntent(actor) ==
  /\ product.status # "NONE" /\ media.status = "NONE" /\ Holds(actor, "product:update") /\ Spend("products")
  /\ media' = [media EXCEPT !.status = "PENDING", !.open = TRUE]
  /\ UNCHANGED <<others, category, product, content, calls>>

(* An upload that was authorised, straight to the object storage: as often as *)
(* the seller likes while the URL is valid, whatever became of the picture.   *)
Upload ==
  /\ media.open /\ Spend("products")
  /\ media' = [media EXCEPT !.stored = TRUE]
  /\ content' = [content EXCEPT !.bytes = @ + 1]
  /\ UNCHANGED <<others, category, product, calls>>

UploadLapses ==
  /\ media.open
  /\ media' = [media EXCEPT !.open = FALSE]
  /\ UNCHANGED <<others, category, product, content, calls, left>>

CompleteMediaUpload(h, actor) ==
  /\ Holds(actor, "product:update") /\ media.status = "PENDING" /\ media.stored
  /\ Begin(h, "products", [at |-> "media", status |-> "ACTIVE"])
  /\ UNCHANGED <<others, catalog>>

UpdateMedia(h, actor) ==
  /\ Holds(actor, "product:update") /\ media.status \in {"PENDING", "ACTIVE"}
  /\ Begin(h, "products", [at |-> "media", status |-> "same"])
  /\ UNCHANGED <<others, catalog>>

(* A deletion that is retried goes straight to the object. *)
DeleteMedia(h, actor) ==
  /\ Holds(actor, "product:update") /\ media.status # "NONE"
  /\ Begin(h, "products", [at |-> IF media.status = "DELETED" THEN "object" ELSE "media", status |-> "DELETED"])
  /\ UNCHANGED <<others, catalog>>

WriteMedia(h) ==
  LET s == calls[h].status IN
  /\ calls[h].at = "media"
  /\ media' = [media EXCEPT !.status = IF s = "same" THEN @ ELSE s]
  /\ product' = Requeued(product) /\ ContentChanges
  /\ IF s = "DELETED" THEN Continue(h, [calls[h] EXCEPT !.at = "object"]) ELSE Commit(h, {})
  /\ UNCHANGED <<others, category>>

(* The object storage may fail, and the seller is told to try again. *)
DeleteObject(h) ==
  /\ calls[h].at = "object"
  /\ media' \in {media, [media EXCEPT !.stored = FALSE]}
  /\ Commit(h, {})
  /\ UNCHANGED <<others, category, product, content>>

CatalogRequest(h) ==
  \/ /\ Free(h, "categories")
     /\ \E c \in Categories, p \in Categories \cup {None} : MoveCategory(h, c, p) \/ NewCategory(h, c, p)
  \/ /\ Free(h, "products")
     /\ \E d \in Decisions : ModerateProduct(h, d)
  \/ /\ Free(h, "products")
     /\ \E u \in Users :
          \/ \E c \in Categories \cup {None} : CreateProduct(h, u, c)
          \/ \E e \in Edits : Edit(h, u, e)
          \/ PublishProduct(h, u) \/ ArchiveProduct(h, u)
          \/ CompleteMediaUpload(h, u) \/ UpdateMedia(h, u) \/ DeleteMedia(h, u)

CatalogStep(h) ==
  \/ WalkUp(h) \/ WriteParent(h)
  \/ WriteProduct(h) \/ WriteEdit(h) \/ SetProductStatus(h) \/ SetModerationStatus(h)
  \/ WriteMedia(h) \/ DeleteObject(h)

CatalogMove ==
  \/ \E c \in Categories, s \in {"ACTIVE", "INACTIVE"} : SetCategoryStatus(c, s)
  \/ \E u \in Users : CreateMediaUploadIntent(u)
  \/ Upload \/ UploadLapses

-----------------------------------------------------------------------------
(* findPublicProduct and listPublicCatalog. *)
Public ==
  /\ product.status = "ACTIVE" /\ product.moderation \in {"NOT_REQUIRED", "APPROVED"}
  /\ store = "ACTIVE" /\ vendor = "APPROVED"
  /\ product.variants > 0

CatalogTypeOK ==
  /\ category \in [Categories -> CategoryRows]
  /\ product \in ProductRows /\ media \in MediaRows
  /\ content \in [version : Nat, bytes : Nat, approval : Approvals]

(* Of a product that was ever moderated the public sees the listing an        *)
(* administrator approved: no edit of it, of its variants or of its pictures  *)
(* that comes after the approval is sold unseen, even if it overlaps a        *)
(* publication that had already read the approval. One that comes while the   *)
(* administrator decides is, and then the listing is the one his approval was *)
(* written over: the write checks no version. The picture itself is the one   *)
(* he saw unless its upload URL was still valid when he looked.               *)
PublicIsApproved ==
  LET seen == content.approval.seen
      over == content.approval.over
  IN  Public /\ product.moderation # "NOT_REQUIRED" =>
        \/ content.version = over /\ over # seen.version
        \/ /\ content.version = seen.version
           /\ media.status = "ACTIVE" /\ ~seen.open => content.bytes = seen.bytes

(* No category is its own ancestor, unless two moves overlapped: each walks   *)
(* up a tree the other is about to change.                                    *)
CategoryTree ==
  "categories" \in contested
    \/ \A C \in SUBSET Categories : C # {} => \E c \in C : category[c].parent \notin C
=============================================================================
