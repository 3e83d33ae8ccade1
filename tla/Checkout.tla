------------------------------- MODULE Checkout -------------------------------
(***************************************************************************)
(* From a cart to an order: shipping quotes for the cart's content, the    *)
(* pricing of each store's part, and the transaction that reads the cart   *)
(* again, claims the idempotency key, the promotion and the stock, and     *)
(* converts the cart. Pricing reads the cart anew for every store, and the *)
(* buyer, in other calls, may go on editing it; sellers move prices.       *)
(*                                                                         *)
(* The transaction is two steps: it reads the cart without locking it, and *)
(* everything it writes afterwards it reads under the lock of a row it has *)
(* written or locked.                                                      *)
(***************************************************************************)
EXTENDS Carts, Pricing

CONSTANTS
  Keys,                     \* idempotency keys
  StoreOf, StoreSeq,        \* each variant's store; stores in the order of their ids
  VariantSeq,               \* variants in the order in which carts hold their lines
  FirstPrice, NewPrice,     \* a variant's price, and what a seller may make it
  Moving,                   \* variants whose seller may still do something in a run
  Weight,                   \* what the carrier asks for a unit
  Rules, VendorOf, CategoryOf,  \* commission rules and what they look at
  TaxBps,                   \* the tax rate in force
  Promotion,                \* its type, value, minimum and limits
  MaxCheckouts, MaxMoves    \* checkout requests, and sellers' moves, in a run

VARIABLES
  price,      \* ProductVariant.priceAmountMinor
  relisted,   \* history: variants that were put back on sale
  promoOn,    \* the promotion is ACTIVE and in its period
  quote,      \* the latest ShippingQuote of each cart and store
  keys        \* committed IdempotencyRecords: the order of each user's key

buying == <<price, relisted, promoOn, quote, keys>>
vars   == <<carts, buying>>

Stores  == {StoreSeq[i] : i \in DOMAIN StoreSeq}
Bodies  == {"plain", "promo"}   \* a request with or without the promotion code
NoQuote == [stamp |-> 0, fee |-> 0, clean |-> TRUE]

ASSUME StoresAssumption ==
  /\ StoreSeq \in Seq(Stores) /\ StoreOf \in [Variants -> Stores]
  /\ VariantSeq \in Seq(Variants) /\ Variants = {VariantSeq[i] : i \in DOMAIN VariantSeq}
ASSUME PricesAssumption ==
  /\ {FirstPrice, NewPrice, Weight} \subseteq [Variants -> Nat]
  /\ Moving \subseteq Variants /\ TaxBps \in Nat /\ TaxBps <= 10000
ASSUME RulesAssumption ==
  /\ IsFiniteSet(Rules)
  /\ \A r \in Rules : /\ r.rateBps \in Nat /\ r.rateBps <= 10000
                     /\ r.priority \in Int /\ r.createdAt \in Int
ASSUME PromotionAssumption ==
  /\ Promotion.type \in {"FIXED", "PERCENTAGE"}
  /\ {Promotion.value, Promotion.minimum, Promotion.maxRedemptions, Promotion.perUserLimit} \subseteq Nat
ASSUME BoundsAssumption == MaxCheckouts \in Nat /\ MaxMoves \in Nat

Only(S, items)      == [v \in Variants |-> IF v \in S THEN items[v] ELSE 0]
StoresOf(items)     == {StoreOf[v] : v \in Lines(items)}
LineAmount(items, p)  == [v \in Variants |-> items[v] * p[v]]
(* A store's part of the cart, and its sum. *)
LinesOf(s, items)     == {v \in Lines(items) : StoreOf[v] = s}
Part(s, items, p)     == [v \in LinesOf(s, items) |-> items[v] * p[v]]
Subtotal(s, items, p) == Total(Part(s, items, p), LinesOf(s, items))
Subtotals(items, p)   == [s \in Stores |-> Subtotal(s, items, p)]
CartTotal(items, p)   == Total(LineAmount(items, p), Lines(items))
Commission(s, items, p) ==
  Total([v \in LinesOf(s, items) |->
           rateAmount(items[v] * p[v], chooseRule(Rules, VendorOf[s], CategoryOf[v]).rateBps)], LinesOf(s, items))
(* What the carrier asks to deliver the store's lines. *)
Fee(s, items) == Subtotal(s, items, Weight)

Redeemed(i)    == orders[i].body = "promo" /\ Total(orders[i].discount, StoresOf(orders[i].items)) > 0
Redemptions    == {i \in DOMAIN orders : Redeemed(i)}
RedemptionsOf(u) == {i \in Redemptions : orders[i].user = u}

Init ==
  /\ CartInit
  /\ orders = << >>
  /\ left = [request |-> MaxRequests, checkout |-> MaxCheckouts, move |-> MaxMoves]
  /\ price = FirstPrice
  /\ relisted = {}
  /\ promoOn = TRUE
  /\ quote = [c \in CartIds |-> [s \in Stores |->
       IF c = 1 /\ s \in StoresOf(Only(sellable, FirstItems))
       THEN [stamp |-> 1, fee |-> Fee(s, Only(sellable, FirstItems)), clean |-> TRUE]
       ELSE NoQuote]]
  /\ keys = [u \in Users |-> [k \in Keys |-> 0]]

-----------------------------------------------------------------------------
(* quoteCart: the cart's lines are read, each store's carrier is asked, and *)
(* the answer is stored under the cart's updatedAt as it is by then.        *)
QuoteCart(h, u) ==
  /\ calls[h] = Idle /\ Spend("request")
  /\ Become(h, [at |-> "find", op |-> "quote", user |-> u, orders |-> 0])
  /\ UNCHANGED <<cart, sellable, available, orders, buying>>

(* The lines that are left to be quoted: one store's are done at a time.    *)
Without(s, items) == [v \in Variants |-> IF StoreOf[v] = s THEN 0 ELSE items[v]]
StampQuote(h) ==
  LET call == calls[h]
      c    == call.cart
  IN
  /\ call.at = "stamp"
  /\ IF cart[c].status # "ACTIVE" THEN Answer(h) /\ UNCHANGED quote
     ELSE \E s \in StoresOf(call.items) :
       /\ quote' = [quote EXCEPT ![c][s] =
            [stamp |-> cart[c].version, fee |-> Fee(s, call.items), clean |-> cart[c].version = call.version]]
       /\ IF StoresOf(call.items) = {s} THEN Answer(h)
          ELSE calls' = [calls EXCEPT ![h].items = Without(s, @)]
  /\ UNCHANGED <<cart, sellable, available, orders, left, price, relisted, promoOn, keys>>

(* Fifteen minutes later. *)
QuoteExpires(c, s) ==
  /\ quote[c][s] # NoQuote /\ Spend("move")
  /\ quote' = [quote EXCEPT ![c][s] = NoQuote]
  /\ UNCHANGED <<cart, sellable, available, calls, orders, price, relisted, promoOn, keys>>

-----------------------------------------------------------------------------
(* A checkout whose key has an order is answered with it, or refused for a   *)
(* different body, and changes nothing.                                     *)
StartCheckout(h, u, k, b) ==
  /\ calls[h] = Idle /\ keys[u][k] = 0 /\ Spend("checkout")
  /\ Become(h, [at |-> "draft", user |-> u, key |-> k, body |-> b])
  /\ UNCHANGED <<cart, sellable, available, orders, buying>>

(* What may be told apart of the world between two reads. *)
Seen(c) == [version |-> cart[c].version, moves |-> left["move"]]

NotPriced == [discount |-> 0, tax |-> 0, commission |-> 0, delivery |-> 0, clean |-> FALSE]

ReadDraft(h) ==
  LET call == calls[h]
      c    == TheCart(call.user)
  IN
  /\ call.at = "draft"
  /\ IF ActiveCarts(call.user) # {} /\ Lines(cart[c].items) # {}
     THEN Become(h, [at |-> "price", user |-> call.user, key |-> call.key, body |-> call.body,
                     cart |-> c, items |-> cart[c].items, ids |-> cart[c].ids, price |-> price, seen |-> Seen(c),
                     todo |-> StoresOf(cart[c].items), quoted |-> [s \in Stores |-> NotPriced]])
     ELSE Answer(h)
  /\ UNCHANGED <<cart, sellable, available, orders, left, buying>>

(* promotionForStore: the whole cart is read again, with today's prices, by  *)
(* each store's quote; once converted it is empty.                          *)
PromotionCovers(u, total) ==
  /\ promoOn /\ total >= Promotion.minimum
  /\ Cardinality(Redemptions) < Promotion.maxRedemptions
  /\ Cardinality(RedemptionsOf(u)) < Promotion.perUserLimit
NowIn(c) == IF cart[c].status = "ACTIVE" THEN cart[c].items ELSE NoLines
Discount(s, now, subtotal) ==
  LET here == StoresOf(now)
      d == CASE Promotion.type = "PERCENTAGE" -> rateAmount(subtotal, Promotion.value)
             [] OTHER -> IF s \in here
                         THEN allocateFixedDiscount(Promotion.value, Subtotals(now, price), here, LastIn(here, StoreSeq))[s]
                         ELSE 0
  IN IF d > subtotal THEN subtotal ELSE d

(* quoteStore: commission and tax, the promotion, and the delivery quoted    *)
(* for the cart as it is stamped now. assertQuote holds of what it returns. *)
QuoteStore(h, s) ==
  LET call == calls[h]
      now  == NowIn(call.cart)
      sub  == Subtotal(s, call.items, call.price)
      d    == IF call.body = "promo" THEN Discount(s, now, sub) ELSE 0
      q    == quote[call.cart][s]
      ok   == /\ call.body = "promo" => PromotionCovers(call.user, CartTotal(now, price))
              /\ cart[call.cart].status = "ACTIVE" /\ q # NoQuote /\ q.stamp = cart[call.cart].version
  IN
  /\ call.at = "price" /\ s \in call.todo
  /\ IF ~ok THEN Answer(h)
     ELSE calls' = [calls EXCEPT
            ![h].todo = @ \ {s},
            ![h].quoted[s] = [discount |-> d, tax |-> rateAmount(sub - d, TaxBps),
                              commission |-> Commission(s, call.items, call.price),
                              delivery |-> q.fee, clean |-> q.clean]]
  /\ UNCHANGED <<cart, sellable, available, orders, left, buying>>

-----------------------------------------------------------------------------
(* createCheckout. The insert of the idempotency record waits for another    *)
(* call that has inserted the same key, and is refused once it committed.   *)
ClaimsKey(h, u, k) == calls[h].at = "commit" /\ calls[h].user = u /\ calls[h].key = k
NobodyWaits(u, k)  == FALSE  \* mutation of KeyHeld
KeyHeld(u, k)      == \E h \in Handlers : ClaimsKey(h, u, k)

SameVariants(call) == Lines(cart[call.cart].items) = Lines(call.items)  \* mutation of SameLines
SameLines(call) ==
  /\ cart[call.cart].items = call.items
  /\ \A v \in Lines(call.items) : price[v] = call.price[v] /\ cart[call.cart].ids[v] = call.ids[v]

BeginCreate(h) ==
  LET call == calls[h]
      now  == cart[call.cart]
  IN
  /\ call.at = "price" /\ call.todo = {} /\ ~KeyHeld(call.user, call.key)
  /\ IF /\ keys[call.user][call.key] = 0
        /\ now.status = "ACTIVE" /\ SameLines(call) /\ Lines(now.items) \subseteq sellable
     THEN Become(h, [at |-> "commit", user |-> call.user, key |-> call.key, body |-> call.body,
                     cart |-> call.cart, items |-> now.items, price |-> price, quoted |-> call.quoted,
                     quiet |-> call.seen = Seen(call.cart)])
     ELSE Answer(h)
  /\ UNCHANGED <<cart, sellable, available, orders, left, buying>>

(* Under the promotion's row lock. *)
NotLookedAtAgain(u) == promoOn  \* mutation of PromotionLeft
PromotionLeft(u) ==
  /\ promoOn
  /\ Cardinality(Redemptions) < Promotion.maxRedemptions
  /\ Cardinality(RedemptionsOf(u)) < Promotion.perUserLimit

(* The shares of a store's discount and tax on its lines; the CHECK         *)
(* constraint on a line's total may refuse them.                            *)
Allocated(amount, base, S) == allocateAmount(amount, base, S, LastIn(S, VariantSeq))
LineDiscounts(s, call) ==
  Allocated(call.quoted[s].discount, LineAmount(call.items, call.price), LinesOf(s, call.items))
LineTaxes(s, call) ==
  LET d == LineDiscounts(s, call) IN
  Allocated(call.quoted[s].tax, [v \in DOMAIN d |-> call.items[v] * call.price[v] - d[v]], LinesOf(s, call.items))
LineTotalsLegal(call) ==
  \A s \in StoresOf(call.items) :
    \A v \in DOMAIN LineDiscounts(s, call) :
      call.items[v] * call.price[v] - LineDiscounts(s, call)[v] + LineTaxes(s, call)[v] >= 0

(* The conditional update of each variant's InventoryItem.                  *)
NotCounted(items)  == Lines(items) \subseteq sellable  \* mutation of StockCovers
StockCovers(items) == \A v \in Lines(items) : available[v] >= items[v]

Column(call, name) == [s \in StoresOf(call.items) |-> call.quoted[s][name]]
TheOrder(call) ==
  [user |-> call.user, key |-> call.key, body |-> call.body, cart |-> call.cart,
   items |-> call.items, price |-> call.price, quiet |-> call.quiet,
   discount |-> Column(call, "discount"), tax |-> Column(call, "tax"),
   commission |-> Column(call, "commission"), delivery |-> Column(call, "delivery"),
   clean |-> Column(call, "clean")]

CommitCheckout(h) ==
  LET call == calls[h] IN
  /\ call.at = "commit"
  /\ IF /\ call.body = "promo" => PromotionLeft(call.user)
        /\ StockCovers(call.items)
        /\ LineTotalsLegal(call)
     THEN /\ orders' = Append(orders, TheOrder(call))
          /\ available' = [v \in Variants |-> available[v] - call.items[v]]
          /\ cart' = [cart EXCEPT ![call.cart].status = "CONVERTED",
                                  ![call.cart].version = Stamped(call.cart)]
          /\ keys' = [keys EXCEPT ![call.user][call.key] = Len(orders) + 1]
     ELSE UNCHANGED <<orders, available, cart, keys>>
  /\ Answer(h)
  /\ UNCHANGED <<sellable, left, price, relisted, promoOn, quote>>

-----------------------------------------------------------------------------
(* Sellers and administrators, at any moment. *)
ChangePrice(v) ==
  /\ Spend("move") /\ price' = [price EXCEPT ![v] = NewPrice[v]]
  /\ UNCHANGED <<cart, sellable, available, calls, orders, relisted, promoOn, quote, keys>>

Delist(v) ==
  /\ v \in sellable /\ Spend("move") /\ sellable' = sellable \ {v}
  /\ UNCHANGED <<cart, available, calls, orders, buying>>

(* Approved, activated or reinstated again, it or its product, store or     *)
(* vendor: the carts that hold it are not stamped.                          *)
Relist(v) ==
  /\ v \notin sellable /\ Spend("move") /\ sellable' = sellable \cup {v}
  /\ relisted' = relisted \cup {v}
  /\ UNCHANGED <<cart, available, calls, orders, price, promoOn, quote, keys>>

EndPromotion ==
  /\ promoOn /\ Spend("move") /\ promoOn' = FALSE
  /\ UNCHANGED <<cart, sellable, available, calls, orders, price, relisted, quote, keys>>

Step(h) ==
  \/ CartStep(h) /\ UNCHANGED buying
  \/ StampQuote(h) \/ ReadDraft(h)
  \/ \E s \in Stores : QuoteStore(h, s)
  \/ BeginCreate(h) \/ CommitCheckout(h)

Request(h) ==
  \/ CartRequest(h) /\ UNCHANGED buying
  \/ \E u \in Users :
       QuoteCart(h, u) \/ \E k \in Keys, b \in Bodies : StartCheckout(h, u, k, b)

SellersMove ==
  \/ \E v \in Moving :
       ChangePrice(v) \/ Delist(v) \/ Relist(v) \/ \E c \in CartIds : QuoteExpires(c, StoreOf[v])
  \/ EndPromotion

Next == (\E h \in Handlers : Request(h) \/ Step(h)) \/ SellersMove

Spec == Init /\ [][Next]_vars

-----------------------------------------------------------------------------
Quantities == [Variants -> 0..MaxQuantity]
Amounts    == [Variants -> Nat]
CartTypeOK ==
  /\ DOMAIN cart = CartIds
  /\ \A c \in CartIds :
       /\ cart[c].owner \in Users \cup {"none"} /\ cart[c].status \in {"NONE", "ACTIVE", "CONVERTED"}
       /\ cart[c].items \in Quantities /\ cart[c].ids \in Amounts /\ cart[c].version \in Nat
  /\ sellable \subseteq Variants /\ relisted \subseteq Variants /\ available \in Amounts
CallTypeOK ==
  \A h \in Handlers :
    calls[h].at \in {"idle", "find", "create", "reload", "read", "write", "delete",
                     "stamp", "draft", "price", "commit"}
OrderTypeOK ==
  \A i \in DOMAIN orders :
    /\ orders[i].user \in Users /\ orders[i].key \in Keys /\ orders[i].body \in Bodies
    /\ orders[i].cart \in CartIds /\ orders[i].items \in Quantities /\ orders[i].price \in Amounts
    /\ \A column \in {"discount", "tax", "commission", "delivery"} :
         orders[i][column] \in [StoresOf(orders[i].items) -> Nat]

(* Every column in its type: none of the CHECK constraints on amounts is     *)
(* ever met by an order that was written.                                   *)
TypeOK ==
  /\ CartTypeOK /\ CallTypeOK /\ OrderTypeOK
  /\ price \in Amounts /\ promoOn \in BOOLEAN
  /\ keys \in [Users -> [Keys -> 0..Len(orders)]]

(* However often a key is sent, and however its requests overlap, it has one *)
(* order, and it is the order a replay is answered with.                    *)
OneOrderPerKey ==
  \A i \in DOMAIN orders :
    /\ keys[orders[i].user][orders[i].key] = i
    /\ \A j \in DOMAIN orders :
         orders[i].user = orders[j].user /\ orders[i].key = orders[j].key => i = j

(* A promotion is never redeemed more often than it allows, in all or by one *)
(* user, though the limits are read long before the order is written.       *)
PromotionLimits ==
  /\ Cardinality(Redemptions) <= Promotion.maxRedemptions
  /\ \A u \in Users : Cardinality(RedemptionsOf(u)) <= Promotion.perUserLimit

(* What an order charges, store by store, follows from what it sells, though *)
(* it was worked out from an earlier reading of the cart and of the prices. *)
PricedAsBought ==
  \A i \in DOMAIN orders : LET o == orders[i] IN
    \A s \in StoresOf(o.items) :
      LET sub == Subtotal(s, o.items, o.price) IN
      /\ o.discount[s] <= sub
      /\ o.tax[s] = rateAmount(sub - o.discount[s], TaxBps)
      /\ o.commission[s] = Commission(s, o.items, o.price)

(* A fixed discount on a cart that is left alone while it is priced is given *)
(* whole: the stores' shares, worked out one by one, add up to it. What the  *)
(* last store's share exceeds its subtotal by is lost: with three stores or  *)
(* more, at most a minor unit for each beyond the second.                   *)
DiscountIsWhole ==
  \A i \in DOMAIN orders : LET o == orders[i] IN
    (Promotion.type = "FIXED" /\ o.body = "promo" /\ o.quiet) =>
      LET all   == CartTotal(o.items, o.price)
          whole == IF Promotion.value > all THEN all ELSE Promotion.value
          given == Total(o.discount, StoresOf(o.items))
          n     == Cardinality(StoresOf(o.items))
      IN given <= whole /\ whole - given <= IF n > 2 THEN n - 2 ELSE 0

(* An order's delivery was quoted for the lines it sells, in the quantities  *)
(* it sells, unless the cart was edited while the carrier was asked or while *)
(* it was checked out. What may be missing are lines that were off sale     *)
(* when the carrier was asked and have been put back since.                 *)
DeliveryQuotedForLines ==
  \A i \in DOMAIN orders : LET o == orders[i] IN
    \A s \in StoresOf(o.items) : (o.quiet /\ o.clean[s]) =>
      \E S \in SUBSET LinesOf(s, o.items) :
        o.delivery[s] = Fee(s, Only(S, o.items)) /\ LinesOf(s, o.items) \ S \subseteq relisted
=============================================================================
