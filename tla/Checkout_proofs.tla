---------------------------- MODULE Checkout_proofs ----------------------------
(***************************************************************************)
(* Proofs about checkouts: the types of the rows, one order per idempotency *)
(* key, the limits of a promotion, the prices and the whole discount of an *)
(* order, the cart of a buyer whose first requests overlap, and the delivery *)
(* an order is charged, for any number of buyers, carts, variants, stores, *)
(* keys and handlers, and any prices, rules and promotion.                 *)
(*                                                                         *)
(* What is used of sums of amounts is proved in Pricing_proofs.            *)
(***************************************************************************)
EXTENDS Checkout, Pricing_proofs, SequenceTheorems, FiniteSetTheorems, TLAPS

-----------------------------------------------------------------------------
(* What the rows and the calls look like, as far as the proofs need it.      *)
Columns == {"owner", "status", "items", "ids", "version"}
RowsShape ==
  /\ DOMAIN cart = CartIds
  /\ \A c \in CartIds : DOMAIN cart[c] = Columns /\ cart[c].version \in Nat
  /\ DOMAIN quote = CartIds /\ \A c \in CartIds : DOMAIN quote[c] = Stores
  /\ keys \in [Users -> [Keys -> Nat]]
  /\ sellable \subseteq Variants /\ relisted \subseteq Variants
  /\ \E S : orders \in Seq(S)

CallShape(c) ==
  /\ "at" \in DOMAIN c
  /\ c.at \in {"find", "create", "reload"} =>
       {"op", "user", "orders"} \subseteq DOMAIN c /\ c.op \in {"add", "view", "quote"}
  /\ c.at \in {"draft", "price", "commit"} => c.user \in Users /\ c.key \in Keys
  /\ c.at \in {"read", "write", "delete", "stamp", "price", "commit"} => c.cart \in CartIds
  /\ c.at = "stamp" => {"cart", "items", "version"} \subseteq DOMAIN c
  /\ c.at = "price" => DOMAIN c = {"at", "user", "key", "body", "cart", "items", "ids", "price", "seen", "todo", "quoted"}
                       /\ DOMAIN c.quoted = Stores

Shape == RowsShape /\ DOMAIN calls = Handlers /\ \A h \in Handlers : CallShape(calls[h])

(* One call is at work, the others stay as they are. *)
Turns(h, c) == calls' = [calls EXCEPT ![h] = c]

LEMMA Turned ==
  ASSUME Shape, NEW h \in Handlers, NEW c, Turns(h, c)
  PROVE  /\ DOMAIN calls' = Handlers /\ calls'[h] = c
         /\ \A g \in Handlers \ {h} : calls'[g] = calls[g]
BY DEF Shape, Turns

LEMMA TurnedShape ==
  ASSUME Shape, NEW h \in Handlers, NEW c, Turns(h, c), CallShape(c), RowsShape'
  PROVE  Shape'
<1>1. \A g \in Handlers : CallShape(calls'[g])
  BY Turned DEF Shape
<1> QED
  BY <1>1, Turned DEF Shape

LEMMA ChosenCart ==
  ASSUME NEW u, ActiveCarts(u) # {}
  PROVE  TheCart(u) \in CartIds /\ cart[TheCart(u)].owner = u /\ cart[TheCart(u)].status = "ACTIVE"
BY DEF ActiveCarts, TheCart

LEMMA IdleShape == CallShape(Idle) /\ Idle.at = "idle"
BY DEF CallShape, Idle

(* The call that has found its cart answers, or goes on with it. *)
Onward(d, call, c) ==
  \/ d = Idle
  \/ /\ d = [at |-> "read", op |-> "add", user |-> call.user, variant |-> call.variant, seen |-> call.seen, cart |-> c.id]
     /\ call.op = "add"
  \/ /\ d = [at |-> "stamp", op |-> "quote", user |-> call.user, cart |-> c.id,
             items |-> [v \in Variants |-> IF v \in sellable /\ c.items[v] > 0 THEN c.items[v] ELSE 0],
             version |-> c.version]
     /\ call.op = "quote" 

LEMMA Proceeds ==
  ASSUME Shape, NEW h \in Handlers, calls[h].at \in {"find", "create", "reload"}, NEW c, Proceed(h, c)
  PROVE  \E d : Turns(h, d) /\ Onward(d, calls[h], c)
<1> DEFINE call == calls[h]
<1>1. call.op \in {"add", "view", "quote"}
  BY DEF Shape, CallShape
<1>2. CASE call.op = "add"
  BY <1>2 DEF Proceed, Become, Turns, Onward
<1>3. CASE call.op = "view"
  BY <1>3 DEF Proceed, Answer, Turns, Onward
<1>4. CASE call.op = "quote"
  <2> DEFINE found == {v \in sellable : c.items[v] > 0}
             items == [v \in Variants |-> IF v \in found THEN c.items[v] ELSE 0]
  <2>1. CASE found = {}
    BY <1>4, <2>1 DEF Proceed, Answer, Turns, Onward
  <2>2. CASE found # {}
    <3>1. items = [v \in Variants |-> IF v \in sellable /\ c.items[v] > 0 THEN c.items[v] ELSE 0]
      OBVIOUS
    <3>2. Become(h, [at |-> "stamp", op |-> "quote", user |-> call.user, cart |-> c.id, items |-> items,
                     version |-> c.version])
      BY <1>4, <2>2 DEF Proceed
    <3> QED BY <1>4, <3>1, <3>2 DEF Become, Turns, Onward
  <2> QED BY <2>1, <2>2
<1> QED BY <1>1, <1>2, <1>3, <1>4

LEMMA OnwardShape ==
  ASSUME NEW d, NEW call, NEW c, c.id \in CartIds, Onward(d, call, c)
  PROVE  CallShape(d) /\ d.at \in {"idle", "read", "stamp"}
BY IdleShape DEF Onward, CallShape

-----------------------------------------------------------------------------
(* What a step does to the rows and to the call that takes it. *)
SameRows == UNCHANGED <<cart, sellable, relisted, orders, quote, keys>>
Plain(d) == CallShape(d) /\ d.at \in {"idle", "find", "read", "write", "delete", "draft"}

(* A read, a refusal or an answer. *)
Light(h) == SameRows /\ \E d : Turns(h, d) /\ Plain(d)
(* No cart was found. *)
Look(h) ==
  /\ SameRows /\ calls[h].at = "find"
  /\ Turns(h, [calls[h] EXCEPT !.at = "create", !.orders = OrdersOf(calls[h].user)])
(* Another call's cart was in the way. *)
Lose(h) ==
  /\ SameRows /\ calls[h].at = "create" /\ ActiveCarts(calls[h].user) # {}
  /\ Turns(h, [calls[h] EXCEPT !.at = "reload"])
Open(h) ==
  /\ UNCHANGED <<sellable, relisted, orders, quote, keys>>
  /\ \E c \in CartIds :
       /\ cart[c] = NoCart
       /\ cart' = [cart EXCEPT ![c] = [owner |-> calls[h].user, status |-> "ACTIVE", items |-> NoLines,
                                       ids |-> NoLines, version |-> 1]]
  /\ \E d : Turns(h, d) /\ Plain(d)
(* A line is written, and the cart stamped. *)
Write(h) ==
  /\ UNCHANGED <<sellable, relisted, orders, quote, keys>>
  /\ DOMAIN cart' = CartIds
  /\ \E c \in CartIds :
       /\ \A b \in CartIds \ {c} : cart'[b] = cart[b]
       /\ DOMAIN cart'[c] = Columns /\ cart'[c].owner = cart[c].owner /\ cart'[c].status = cart[c].status
       /\ cart'[c].version = cart[c].version + 1
  /\ \E d : Turns(h, d) /\ Plain(d)
(* A quote is begun for the lines of a cart that can be bought. *)
Saleable(items) == [v \in Variants |-> IF v \in sellable /\ items[v] > 0 THEN items[v] ELSE 0]
Attach(h) ==
  /\ SameRows
  /\ \E c \in CartIds :
       /\ cart[c].status = "ACTIVE"
       /\ Turns(h, [at |-> "stamp", op |-> "quote", user |-> calls[h].user, cart |-> c,
                    items |-> Saleable(cart[c].items), version |-> cart[c].version])

LEMMA LightOfIdle ==
  ASSUME NEW h, SameRows, Answer(h)
  PROVE  Light(h)
BY IdleShape DEF Light, Plain, Turns, Answer

LEMMA CartRequestKinds ==
  ASSUME Shape, NEW h \in Handlers, CartRequest(h), UNCHANGED buying
  PROVE  Light(h)
<1>1. PICK u \in Users : \/ ViewCart(h, u)
                         \/ \E v \in Variants :
                              \/ AddItem(h, u, v)
                              \/ \E n \in 1..MaxQuantity : UpdateItem(h, u, v, n)
                              \/ RemoveItem(h, u, v)
  BY DEF CartRequest
<1>2. CASE ViewCart(h, u)
  <2>1. CallShape(View(u)) /\ View(u).at = "find"
    BY DEF CallShape, View
  <2> QED BY <1>2, <2>1 DEF ViewCart, Become, Turns, Light, Plain, SameRows, buying
<1>3. ASSUME NEW v \in Variants, AddItem(h, u, v) PROVE Light(h)
  <2> DEFINE d == [at |-> "find", op |-> "add", user |-> u, orders |-> 0, variant |-> v, seen |-> available[v]]
  <2>1. CallShape(d) /\ d.at = "find"
    BY DEF CallShape
  <2> QED BY <1>3, <2>1 DEF AddItem, Become, Turns, Light, Plain, SameRows, buying
<1>4. ASSUME NEW v \in Variants, NEW n \in 1..MaxQuantity, UpdateItem(h, u, v, n) PROVE Light(h)
  <2> DEFINE d == [at |-> "write", op |-> "update", user |-> u, variant |-> v, cart |-> TheCart(u), next |-> n]
  <2>1. CallShape(d) /\ d.at = "write"
    BY <1>4, ChosenCart DEF CallShape, UpdateItem
  <2> QED BY <1>4, <2>1 DEF UpdateItem, Become, Turns, Light, Plain, SameRows, buying
<1>5. ASSUME NEW v \in Variants, RemoveItem(h, u, v) PROVE Light(h)
  <2> DEFINE d == [at |-> "delete", user |-> u, variant |-> v, cart |-> TheCart(u), id |-> cart[TheCart(u)].ids[v]]
  <2>1. CallShape(d) /\ d.at = "delete"
    BY <1>5, ChosenCart DEF CallShape, RemoveItem
  <2> QED BY <1>5, <2>1 DEF RemoveItem, Become, Turns, Light, Plain, SameRows, buying
<1> QED BY <1>1, <1>2, <1>3, <1>4, <1>5

LEMMA OnwardKinds ==
  ASSUME SameRows, NEW h \in Handlers, NEW c \in CartIds, cart[c].status = "ACTIVE",
         NEW d, Turns(h, d), Onward(d, calls[h], Found(c))
  PROVE  Light(h) \/ Attach(h)
<1>1. Found(c).id = c /\ Found(c).items = cart[c].items /\ Found(c).version = cart[c].version
  BY DEF Found
<1>2. CallShape(d)
  BY <1>1, OnwardShape
<1>3. CASE d.at \in {"idle", "read"}
  BY <1>2, <1>3 DEF Light, Plain
<1>4. CASE d.at = "stamp"
  <2>1. d = [at |-> "stamp", op |-> "quote", user |-> calls[h].user, cart |-> Found(c).id,
             items |-> [v \in Variants |-> IF v \in sellable /\ Found(c).items[v] > 0 THEN Found(c).items[v] ELSE 0],
             version |-> Found(c).version]
    BY <1>4, IdleShape DEF Onward
  <2>2. d = [at |-> "stamp", op |-> "quote", user |-> calls[h].user, cart |-> c,
             items |-> Saleable(cart[c].items), version |-> cart[c].version]
    BY <1>1, <2>1 DEF Saleable
  <2> QED BY <2>2 DEF Attach
<1> QED BY <1>1, <1>3, <1>4, OnwardShape

LEMMA CartStepKinds ==
  ASSUME Shape, NEW h \in Handlers, CartStep(h), UNCHANGED buying
  PROVE  Light(h) \/ Look(h) \/ Lose(h) \/ Open(h) \/ Write(h) \/ Attach(h)
<1> DEFINE call == calls[h]
           u    == call.user
<1>1. CASE FindCart(h)
  <2>1. SameRows /\ call.at = "find"
    BY <1>1 DEF FindCart, SameRows, buying
  <2>2. CASE ActiveCarts(u) # {}
    <3>1. Proceed(h, Found(TheCart(u)))
      BY <1>1, <2>2 DEF FindCart
    <3> QED BY <2>1, <2>2, <3>1, Proceeds, ChosenCart, OnwardKinds
  <2>3. CASE ActiveCarts(u) = {}
    <3>1. calls' = [calls EXCEPT ![h].at = "create", ![h].orders = OrdersOf(u)]
      BY <1>1, <2>3 DEF FindCart
    <3>2. Turns(h, [call EXCEPT !.at = "create", !.orders = OrdersOf(u)])
      BY <3>1 DEF Turns, Shape
    <3> QED BY <2>1, <3>2 DEF Look
  <2> QED BY <2>2, <2>3
<1>2. CASE CreateCart(h)
  <2>1. call.at = "create" /\ UNCHANGED <<sellable, relisted, orders, quote, keys>>
    BY <1>2 DEF CreateCart, buying
  <2>2. CASE Refused(u) /\ calls' = [calls EXCEPT ![h].at = "reload"] /\ UNCHANGED cart
    BY <2>1, <2>2 DEF Lose, Refused, Turns, SameRows
  <2>3. CASE FreshCarts # {} /\ Proceed(h, [id |-> FreshCart, items |-> NoLines, version |-> 1])
             /\ cart' = [cart EXCEPT ![FreshCart] =
                  [owner |-> u, status |-> "ACTIVE", items |-> NoLines, ids |-> NoLines, version |-> 1]]
    <3> DEFINE c == [id |-> FreshCart, items |-> NoLines, version |-> 1]
    <3>1. FreshCart \in CartIds /\ cart[FreshCart] = NoCart
      BY <2>3 DEF FreshCart, FreshCarts
    <3>2. PICK d : Turns(h, d) /\ Onward(d, call, c)
      BY <2>1, <2>3, Proceeds
    <3>3. CallShape(d) /\ d.at \in {"idle", "read", "stamp"}
      BY <3>1, <3>2, OnwardShape
    <3>4. d.at # "stamp"
      <4>1. {v \in sellable : c.items[v] > 0} = {}
        BY DEF NoLines, Shape, RowsShape
      <4>2. call.op = "quote" => calls' = [calls EXCEPT ![h] = Idle]
        BY <2>3, <4>1 DEF Proceed, Answer
      <4>3. call.op = "quote" => d = Idle
        BY <3>2, <4>2 DEF Turns, Shape
      <4> QED BY <3>2, <4>3, IdleShape DEF Onward
    <3> QED BY <2>1, <2>3, <3>1, <3>2, <3>3, <3>4 DEF Open, Plain
  <2> QED BY <1>2, <2>2, <2>3 DEF CreateCart
<1>3. CASE ReloadCart(h)
  <2>1. SameRows /\ call.at = "reload"
    BY <1>3 DEF ReloadCart, SameRows, buying
  <2>2. CASE ActiveCarts(u) # {}
    <3>1. Proceed(h, Found(TheCart(u)))
      BY <1>3, <2>2 DEF ReloadCart
    <3> QED BY <2>1, <2>2, <3>1, Proceeds, ChosenCart, OnwardKinds
  <2>3. CASE ActiveCarts(u) = {}
    BY <1>3, <2>1, <2>3, LightOfIdle DEF ReloadCart
  <2> QED BY <2>2, <2>3
<1>4. CASE ReadItem(h)
  <2>1. SameRows /\ call.at = "read"
    BY <1>4 DEF ReadItem, SameRows, buying
  <2>2. call.cart \in CartIds
    BY <2>1 DEF Shape, CallShape
  <2> DEFINE next == cart[call.cart].items[call.variant] + 1
             d    == [at |-> "write", op |-> "add", user |-> call.user, variant |-> call.variant,
                      cart |-> call.cart, next |-> next]
  <2>3. CallShape(d) /\ d.at = "write"
    BY <2>2 DEF CallShape
  <2>4. Answer(h) \/ Turns(h, d)
    BY <1>4 DEF ReadItem, Become, Turns
  <2> QED BY <2>1, <2>3, <2>4, LightOfIdle DEF Light, Plain
<1>5. CASE SetItemQuantity(h)
  <2> DEFINE c == call.cart
             v == call.variant
             n == IF cart[c].items[v] = 0 THEN cart[c].version + 1 ELSE cart[c].ids[v]
             a == [cart EXCEPT ![c].items[v] = call.next]
             b == [a EXCEPT ![c].ids[v] = n]
  <2>1. c \in CartIds /\ UNCHANGED <<sellable, relisted, orders, quote, keys>>
    BY <1>5, SMTT(30) DEF SetItemQuantity, Shape, CallShape, buying
  <2>2. cart' = [b EXCEPT ![c].version = Stamped(c)]
    BY <1>5 DEF SetItemQuantity
  <2>3. DOMAIN a = CartIds /\ DOMAIN a[c] = Columns /\ (\A x \in CartIds \ {c} : a[x] = cart[x])
        /\ a[c].owner = cart[c].owner /\ a[c].status = cart[c].status
    BY <2>1 DEF Shape, RowsShape, Columns
  <2> HIDE DEF a
  <2>4. DOMAIN b = CartIds /\ DOMAIN b[c] = Columns /\ (\A x \in CartIds \ {c} : b[x] = cart[x])
        /\ b[c].owner = cart[c].owner /\ b[c].status = cart[c].status
    BY <2>1, <2>3 DEF Columns
  <2> HIDE DEF b
  <2>5. DOMAIN cart' = CartIds /\ DOMAIN cart'[c] = Columns /\ (\A x \in CartIds \ {c} : cart'[x] = cart[x])
        /\ cart'[c].owner = cart[c].owner /\ cart'[c].status = cart[c].status
        /\ cart'[c].version = cart[c].version + 1
    BY <2>1, <2>2, <2>4 DEF Columns, Stamped
  <2>6. CallShape(View(call.user)) /\ View(call.user).at = "find"
    BY SMTT(30) DEF CallShape, View
  <2>7. Turns(h, Idle) \/ Turns(h, View(call.user))
    BY <1>5 DEF SetItemQuantity, Answer, Become, Turns
  <2>8. \E d : Turns(h, d) /\ Plain(d)
    BY <2>6, <2>7, IdleShape DEF Plain
  <2> QED BY <2>1, <2>8, <2>5 DEF Write
<1>6. CASE DeleteItem(h)
  <2> DEFINE c == call.cart
             a == [cart EXCEPT ![c].items[call.variant] = 0]
  <2>1. c \in CartIds /\ UNCHANGED <<sellable, relisted, orders, quote, keys>>
    BY <1>6 DEF DeleteItem, Shape, CallShape, buying
  <2>2. CASE Answer(h) /\ UNCHANGED cart
    BY <2>1, <2>2, LightOfIdle DEF SameRows
  <2>3. CASE /\ cart' = [cart EXCEPT ![c].items[call.variant] = 0, ![c].version = Stamped(c)]
             /\ Become(h, View(call.user))
    <3>1. cart' = [a EXCEPT ![c].version = Stamped(c)]
      BY <2>3
    <3>2. DOMAIN a = CartIds /\ DOMAIN a[c] = Columns /\ (\A x \in CartIds \ {c} : a[x] = cart[x])
          /\ a[c].owner = cart[c].owner /\ a[c].status = cart[c].status
      BY <2>1 DEF Shape, RowsShape, Columns
    <3> HIDE DEF a
    <3>3. DOMAIN cart' = CartIds /\ DOMAIN cart'[c] = Columns /\ (\A x \in CartIds \ {c} : cart'[x] = cart[x])
          /\ cart'[c].owner = cart[c].owner /\ cart'[c].status = cart[c].status
          /\ cart'[c].version = cart[c].version + 1
      BY <2>1, <3>1, <3>2 DEF Columns, Stamped
    <3>4. CallShape(View(call.user)) /\ View(call.user).at = "find"
      BY DEF CallShape, View
    <3>5. \E d : Turns(h, d) /\ Plain(d)
      BY <2>3, <3>4 DEF Plain, Become, Turns
    <3> QED BY <2>1, <3>5, <3>3 DEF Write
  <2> QED BY <1>6, <2>2, <2>3 DEF DeleteItem
<1> QED BY <1>1, <1>2, <1>3, <1>4, <1>5, <1>6 DEF CartStep

(* A store's quote is stored under the cart's stamp. *)
Cover(h) ==
  LET call == calls[h]
      c    == call.cart
  IN
  /\ call.at = "stamp" /\ UNCHANGED <<cart, sellable, relisted, orders, keys>>
  /\ \E s \in StoresOf(call.items) :
       /\ quote' = [quote EXCEPT ![c][s] =
            [stamp |-> cart[c].version, fee |-> Fee(s, call.items), clean |-> cart[c].version = call.version]]
       /\ Turns(h, Idle) \/ Turns(h, [call EXCEPT !.items = Without(s, @)])
(* The draft of a checkout. *)
Draft(h) ==
  LET call == calls[h] IN
  /\ SameRows /\ call.at = "draft"
  /\ \E c \in ActiveCarts(call.user) :
       Turns(h, [at |-> "price", user |-> call.user, key |-> call.key, body |-> call.body,
                 cart |-> c, items |-> cart[c].items, ids |-> cart[c].ids, price |-> price, seen |-> Seen(c),
                 todo |-> StoresOf(cart[c].items), quoted |-> [s \in Stores |-> NotPriced]])
(* A store's part is priced, with the delivery quoted for the cart as it is stamped. *)
Priced(h) ==
  LET call == calls[h] IN
  /\ SameRows /\ call.at = "price"
  /\ \E s, r :
       LET q == quote[call.cart][s] IN
       /\ s \in call.todo \cap Stores /\ q # NoQuote /\ q.stamp = cart[call.cart].version
       /\ r.delivery = q.fee /\ r.clean = q.clean
       /\ Turns(h, [call EXCEPT !.todo = @ \ {s}, !.quoted = [@ EXCEPT ![s] = r]])
(* The transaction has found the cart as it was drafted, and claims the key. *)
Entered(h) ==
  LET call == calls[h] IN
  [at |-> "commit", user |-> call.user, key |-> call.key, body |-> call.body, cart |-> call.cart,
   items |-> cart[call.cart].items, price |-> price, quoted |-> call.quoted,
   quiet |-> call.seen = Seen(call.cart)]
Enter(h) ==
  LET call == calls[h] IN
  /\ SameRows /\ call.at = "price" /\ call.todo = {}
  /\ ~KeyHeld(call.user, call.key) /\ keys[call.user][call.key] = 0
  /\ SameLines(call) /\ Lines(cart[call.cart].items) \subseteq sellable
  /\ Turns(h, Entered(h))
Commit(h) ==
  LET call == calls[h] IN
  /\ call.at = "commit" /\ UNCHANGED <<sellable, relisted, quote>>
  /\ call.body = "promo" => PromotionLeft(call.user)
  /\ orders' = Append(orders, TheOrder(call))
  /\ cart' = [cart EXCEPT ![call.cart].status = "CONVERTED", ![call.cart].version = Stamped(call.cart)]
  /\ keys' = [keys EXCEPT ![call.user][call.key] = Len(orders) + 1]
  /\ Turns(h, Idle)
(* A seller's move, or time. Once a variant has been off sale it is never    *)
(* again among those that always were on sale.                              *)
Steady == sellable \ relisted
Lapse ==
  /\ UNCHANGED <<cart, calls, orders, keys>>
  /\ (sellable \cup relisted)' \subseteq Variants /\ relisted \subseteq relisted' /\ Steady' \subseteq Steady
  /\ DOMAIN quote' = CartIds
  /\ \A c \in CartIds : /\ DOMAIN quote'[c] = Stores
                        /\ \A s \in Stores : quote'[c][s] \in {quote[c][s], NoQuote}

LEMMA InStores ==
  ASSUME NEW items
  PROVE  StoresOf(items) \subseteq Stores
BY StoresAssumption DEF StoresOf, Lines

LEMMA CheckoutRequestKinds ==
  ASSUME Shape, NEW h \in Handlers, NEW u \in Users,
         QuoteCart(h, u) \/ \E k \in Keys, b \in Bodies : StartCheckout(h, u, k, b)
  PROVE  Light(h)
<1>1. CASE QuoteCart(h, u)
  <2> DEFINE d == [at |-> "find", op |-> "quote", user |-> u, orders |-> 0]
  <2>1. CallShape(d) /\ d.at = "find"
    BY DEF CallShape
  <2> QED BY <1>1, <2>1 DEF QuoteCart, Become, Turns, Light, Plain, SameRows, buying
<1>2. ASSUME NEW k \in Keys, NEW b \in Bodies, StartCheckout(h, u, k, b) PROVE Light(h)
  <2> DEFINE d == [at |-> "draft", user |-> u, key |-> k, body |-> b]
  <2>1. CallShape(d) /\ d.at = "draft"
    BY DEF CallShape
  <2> QED BY <1>2, <2>1 DEF StartCheckout, Become, Turns, Light, Plain, SameRows, buying
<1> QED BY <1>1, <1>2

LEMMA StampKinds ==
  ASSUME Shape, NEW h \in Handlers, StampQuote(h)
  PROVE  Light(h) \/ Cover(h)
<1> DEFINE call == calls[h]
           c    == call.cart
<1>1. call.at = "stamp" /\ UNCHANGED <<cart, sellable, relisted, orders, keys>>
  BY DEF StampQuote
<1>2. CASE Answer(h) /\ UNCHANGED quote
  BY <1>1, <1>2, LightOfIdle DEF SameRows
<1>3. ASSUME NEW s \in StoresOf(call.items),
             quote' = [quote EXCEPT ![c][s] = [stamp |-> cart[c].version, fee |-> Fee(s, call.items),
                                               clean |-> cart[c].version = call.version]],
             Answer(h) \/ calls' = [calls EXCEPT ![h].items = Without(s, @)]
      PROVE  Cover(h)
  <2>1. Turns(h, Idle) \/ Turns(h, [call EXCEPT !.items = Without(s, @)])
    BY <1>3 DEF Answer, Turns, Shape
  <2> QED BY <1>1, <1>3, <2>1 DEF Cover
<1> QED BY <1>1, <1>2, <1>3 DEF StampQuote

LEMMA DraftKinds ==
  ASSUME Shape, NEW h \in Handlers, ReadDraft(h)
  PROVE  Light(h) \/ Draft(h)
<1> DEFINE call == calls[h]
           c    == TheCart(call.user)
<1>1. SameRows /\ call.at = "draft"
  BY DEF ReadDraft, SameRows, buying
<1>2. CASE ActiveCarts(call.user) # {} /\ Lines(cart[c].items) # {}
  <2>1. c \in ActiveCarts(call.user)
    BY <1>2 DEF TheCart
  <2> QED BY <1>1, <1>2, <2>1 DEF ReadDraft, Become, Turns, Draft
<1>3. CASE ~(ActiveCarts(call.user) # {} /\ Lines(cart[c].items) # {})
  BY <1>1, <1>3, LightOfIdle DEF ReadDraft
<1> QED BY <1>2, <1>3

LEMMA QuoteKinds ==
  ASSUME Shape, NEW h \in Handlers, NEW s \in Stores, QuoteStore(h, s)
  PROVE  Light(h) \/ Priced(h)
<1> DEFINE call == calls[h]
           sub  == Subtotal(s, call.items, call.price)
           d    == IF call.body = "promo" THEN Discount(s, NowIn(call.cart), sub) ELSE 0
           q    == quote[call.cart][s]
           r    == [discount |-> d, tax |-> rateAmount(sub - d, TaxBps),
                    commission |-> Commission(s, call.items, call.price), delivery |-> q.fee, clean |-> q.clean]
<1>1. SameRows /\ call.at = "price" /\ s \in call.todo
  BY DEF QuoteStore, SameRows, buying
<1>2. CASE Answer(h)
  BY <1>1, <1>2, LightOfIdle, SMTT(30)
<1>3. CASE /\ q # NoQuote /\ q.stamp = cart[call.cart].version
           /\ calls' = [calls EXCEPT ![h].todo = @ \ {s}, ![h].quoted[s] = r]
  <2>1. r.delivery = q.fee /\ r.clean = q.clean
    OBVIOUS
  <2> HIDE DEF r
  <2> DEFINE a == [calls EXCEPT ![h].todo = @ \ {s}]
  <2>2. calls' = [a EXCEPT ![h].quoted[s] = r]
    BY <1>3
  <2>3. a = [calls EXCEPT ![h] = [call EXCEPT !.todo = @ \ {s}]]
    OBVIOUS
  <2>4. Turns(h, [call EXCEPT !.todo = @ \ {s}, !.quoted = [@ EXCEPT ![s] = r]])
    BY <1>1, <1>3 DEF Turns, Shape, CallShape
  <2> QED BY <1>1, <1>3, <2>1, <2>4 DEF Priced
<1> QED BY <1>2, <1>3 DEF QuoteStore

LEMMA BeginKinds ==
  ASSUME Shape, NEW h \in Handlers, BeginCreate(h)
  PROVE  Light(h) \/ Enter(h)
<1> DEFINE call == calls[h]
<1>1. SameRows /\ call.at = "price" /\ call.todo = {} /\ ~KeyHeld(call.user, call.key)
  BY DEF BeginCreate, SameRows, buying
<1>2. CASE Answer(h)
  BY <1>1, <1>2, LightOfIdle
<1>3. CASE /\ keys[call.user][call.key] = 0 /\ SameLines(call) /\ Lines(cart[call.cart].items) \subseteq sellable
           /\ Become(h, Entered(h))
  BY <1>1, <1>3 DEF Enter, Become, Turns
<1> QED BY <1>2, <1>3 DEF BeginCreate, Entered

LEMMA CommitKinds ==
  ASSUME Shape, NEW h \in Handlers, CommitCheckout(h)
  PROVE  Light(h) \/ Commit(h)
<1> DEFINE call == calls[h]
<1>1. call.at = "commit" /\ UNCHANGED <<sellable, relisted, quote>> /\ Turns(h, Idle)
  BY DEF CommitCheckout, Answer, Turns
<1>2. CASE UNCHANGED <<orders, available, cart, keys>>
  BY <1>1, <1>2, IdleShape DEF Light, Plain, SameRows
<1>3. CASE ~UNCHANGED <<orders, available, cart, keys>>
  BY <1>1, <1>3 DEF CommitCheckout, Commit
<1> QED BY <1>2, <1>3

LEMMA MoveKinds ==
  ASSUME Shape, SellersMove
  PROVE  Lapse
<1>1. ASSUME NEW v \in Moving, ChangePrice(v) PROVE Lapse
  BY <1>1 DEF ChangePrice, Lapse, Shape, RowsShape, Steady
<1>2. ASSUME NEW v \in Moving, Delist(v) PROVE Lapse
  BY <1>2 DEF Delist, Lapse, Shape, RowsShape, Steady, buying
<1>5. ASSUME NEW v \in Moving, Relist(v) PROVE Lapse
  BY <1>5, PricesAssumption DEF Relist, Lapse, Shape, RowsShape, Steady
<1>3. ASSUME NEW c \in CartIds, NEW s, QuoteExpires(c, s) PROVE Lapse
  BY <1>3 DEF QuoteExpires, Lapse, Shape, RowsShape, Steady
<1>4. CASE EndPromotion
  BY <1>4 DEF EndPromotion, Lapse, Shape, RowsShape, Steady
<1> QED BY <1>1, <1>2, <1>3, <1>4, <1>5 DEF SellersMove

CallMoves(h) ==
  \/ Light(h) \/ Look(h) \/ Lose(h) \/ Open(h) \/ Write(h) \/ Attach(h)
  \/ Cover(h) \/ Draft(h) \/ Priced(h) \/ Enter(h) \/ Commit(h)

LEMMA Kinds ==
  ASSUME Shape, Next
  PROVE  (\E h \in Handlers : CallMoves(h)) \/ Lapse
<1>1. ASSUME NEW h \in Handlers, Request(h) PROVE CallMoves(h)
  BY <1>1, CartRequestKinds, CheckoutRequestKinds DEF Request, CallMoves
<1>2. ASSUME NEW h \in Handlers, Step(h) PROVE CallMoves(h)
  BY <1>2, CartStepKinds, StampKinds, DraftKinds, QuoteKinds, BeginKinds, CommitKinds DEF Step, CallMoves
<1> QED BY <1>1, <1>2, MoveKinds DEF Next

-----------------------------------------------------------------------------
(* The shape is kept. *)
LEMMA SeqGrows ==
  ASSUME NEW s, NEW e, \E S : s \in Seq(S)
  PROVE  \E S : Append(s, e) \in Seq(S)
<1>1. PICK S : s \in Seq(S)
  OBVIOUS
<1>2. s \in Seq(S \cup {e})
  BY <1>1
<1>3. Append(s, e) \in Seq(S \cup {e})
  BY <1>2
<1> QED BY <1>3

LEMMA ShapeKept ==
  ASSUME Shape, NEW h \in Handlers, CallMoves(h)
  PROVE  Shape'
<1> DEFINE call == calls[h]
<1>0. RowsShape /\ CallShape(call)
  BY DEF Shape
<1>r. SameRows => RowsShape'
  BY <1>0 DEF SameRows, RowsShape
<1>1. CASE Light(h)
  BY <1>r, <1>1, TurnedShape DEF Light, Plain
<1>2. CASE Look(h)
  <2> DEFINE d == [call EXCEPT !.at = "create", !.orders = OrdersOf(call.user)]
  <2>1. CallShape(d)
    BY <1>0, <1>2 DEF Look, CallShape
  <2> QED BY <1>r, <1>2, <2>1, TurnedShape DEF Look
<1>3. CASE Lose(h)
  <2> DEFINE d == [call EXCEPT !.at = "reload"]
  <2>1. CallShape(d)
    BY <1>0, <1>3 DEF Lose, CallShape
  <2> QED BY <1>r, <1>3, <2>1, TurnedShape DEF Lose
<1>4. CASE Open(h)
  <2>1. RowsShape'
    BY <1>0, <1>4 DEF Open, RowsShape, Columns
  <2> QED BY <1>4, <2>1, TurnedShape DEF Open, Plain
<1>5. CASE Write(h)
  <2>1. RowsShape'
    BY <1>0, <1>5 DEF Write, RowsShape
  <2> QED BY <1>5, <2>1, TurnedShape DEF Write, Plain
<1>6. CASE Attach(h)
  <2>1. PICK c \in CartIds :
          Turns(h, [at |-> "stamp", op |-> "quote", user |-> calls[h].user, cart |-> c,
                    items |-> Saleable(cart[c].items), version |-> cart[c].version])
    BY <1>6 DEF Attach
  <2>2. CallShape([at |-> "stamp", op |-> "quote", user |-> calls[h].user, cart |-> c,
                   items |-> Saleable(cart[c].items), version |-> cart[c].version])
    BY DEF CallShape
  <2> QED BY <1>r, <1>6, <2>1, <2>2, TurnedShape DEF Attach
<1>7. CASE Cover(h)
  <2>1. PICK s \in StoresOf(call.items) :
          /\ quote' = [quote EXCEPT ![call.cart][s] =
               [stamp |-> cart[call.cart].version, fee |-> Fee(s, call.items),
                clean |-> cart[call.cart].version = call.version]]
          /\ Turns(h, Idle) \/ Turns(h, [call EXCEPT !.items = Without(s, @)])
    BY <1>7 DEF Cover
  <2>2. RowsShape'
    BY <1>0, <1>7, <2>1 DEF Cover, RowsShape
  <2>3. CallShape([call EXCEPT !.items = Without(s, @)])
    BY <1>0, <1>7 DEF Cover, CallShape
  <2> QED BY <2>1, <2>2, <2>3, IdleShape, TurnedShape
<1>8. CASE Draft(h)
  <2>1. PICK c \in ActiveCarts(call.user) :
          Turns(h, [at |-> "price", user |-> call.user, key |-> call.key, body |-> call.body,
                    cart |-> c, items |-> cart[c].items, ids |-> cart[c].ids, price |-> price, seen |-> Seen(c),
                    todo |-> StoresOf(cart[c].items), quoted |-> [s \in Stores |-> NotPriced]])
    BY <1>8 DEF Draft
  <2>2. CallShape([at |-> "price", user |-> call.user, key |-> call.key, body |-> call.body,
                   cart |-> c, items |-> cart[c].items, ids |-> cart[c].ids, price |-> price, seen |-> Seen(c),
                   todo |-> StoresOf(cart[c].items), quoted |-> [s \in Stores |-> NotPriced]])
    BY <1>0, <1>8 DEF Draft, CallShape, ActiveCarts
  <2> QED BY <1>r, <1>8, <2>1, <2>2, TurnedShape DEF Draft
<1>9. CASE Priced(h)
  <2>1. PICK s, r : s \in Stores /\ Turns(h, [call EXCEPT !.todo = @ \ {s}, !.quoted = [@ EXCEPT ![s] = r]])
    BY <1>9 DEF Priced
  <2>2. CallShape([call EXCEPT !.todo = @ \ {s}, !.quoted = [@ EXCEPT ![s] = r]])
    BY <1>0, <1>9 DEF Priced, CallShape
  <2> QED BY <1>r, <1>9, <2>1, <2>2, TurnedShape DEF Priced
<1>10. CASE Enter(h)
  <2>1. CallShape(Entered(h))
    BY <1>0, <1>10 DEF Enter, Entered, CallShape
  <2> QED BY <1>r, <1>10, <2>1, TurnedShape DEF Enter
<1>11. CASE Commit(h)
  <2>1. call.user \in Users /\ call.key \in Keys /\ call.cart \in CartIds
    BY <1>0, <1>11 DEF Commit, CallShape
  <2>2. Len(orders) + 1 \in Nat
    BY <1>0 DEF RowsShape
  <2>3. keys' \in [Users -> [Keys -> Nat]]
    BY <1>0, <1>11, <2>1, <2>2 DEF Commit, RowsShape
  <2>4. \E S : orders' \in Seq(S)
    BY <1>0, <1>11, SeqGrows DEF Commit, RowsShape
  <2>5. DOMAIN cart' = CartIds /\ \A c \in CartIds : DOMAIN cart'[c] = Columns /\ cart'[c].version \in Nat
    <3> DEFINE a == [cart EXCEPT ![call.cart].status = "CONVERTED"]
    <3>1. DOMAIN a = CartIds /\ \A c \in CartIds : DOMAIN a[c] = Columns /\ a[c].version \in Nat
      BY <1>0, <2>1 DEF RowsShape, Columns
    <3>2. cart' = [a EXCEPT ![call.cart].version = Stamped(call.cart)] /\ Stamped(call.cart) \in Nat
      BY <1>0, <1>11, <2>1 DEF Commit, Stamped, RowsShape
    <3> HIDE DEF a
    <3> QED BY <2>1, <3>1, <3>2 DEF Columns
  <2>6. RowsShape'
    BY <1>0, <1>11, <2>3, <2>4, <2>5 DEF Commit, RowsShape
  <2> QED BY <1>11, <2>6, IdleShape, TurnedShape DEF Commit
<1> QED BY <1>1, <1>2, <1>3, <1>4, <1>5, <1>6, <1>7, <1>8, <1>9, <1>10, <1>11 DEF CallMoves

LEMMA LapseShape ==
  ASSUME Shape, Lapse
  PROVE  Shape'
BY DEF Shape, RowsShape, Lapse

LEMMA StutterShape ==
  ASSUME Shape, UNCHANGED vars
  PROVE  Shape'
BY DEF Shape, RowsShape, vars, carts, buying

LEMMA InitShape == Init => Shape
<1> SUFFICES ASSUME Init PROVE Shape
  OBVIOUS
<1>1. DOMAIN cart = CartIds /\ \A c \in CartIds : DOMAIN cart[c] = Columns /\ cart[c].version \in Nat
  BY DEF Init, CartInit, Columns, NoCart
<1>2. DOMAIN quote = CartIds /\ \A c \in CartIds : DOMAIN quote[c] = Stores
  BY DEF Init
<1>3. keys \in [Users -> [Keys -> Nat]]
  BY DEF Init
<1>4. orders \in Seq({})
  BY DEF Init
<1>5. DOMAIN calls = Handlers /\ \A h \in Handlers : calls[h] = Idle
  BY DEF Init, CartInit
<1>6. sellable \subseteq Variants /\ relisted \subseteq Variants
  BY DEF Init, CartInit
<1> QED BY <1>1, <1>2, <1>3, <1>4, <1>5, <1>6, IdleShape DEF Shape, RowsShape

(* Rows and calls keep their shape: every request has what its next step      *)
(* needs of the rows it has read.                                           *)
THEOREM Shapes == Spec => []Shape
<1>1. Shape /\ [Next]_vars => Shape'
  BY Kinds, ShapeKept, LapseShape, StutterShape
<1> QED BY <1>1, InitShape, PTL DEF Spec

-----------------------------------------------------------------------------
(* One order for a key. *)

(* A key without an order is claimed by one transaction at a time.           *)
Claimed(h) ==
  calls[h].at = "commit" =>
    /\ keys[calls[h].user][calls[h].key] = 0
    /\ \A g \in Handlers : ClaimsKey(g, calls[h].user, calls[h].key) => g = h
Answered(i) ==
  /\ orders[i].user \in Users /\ orders[i].key \in Keys
  /\ keys[orders[i].user][orders[i].key] = i
KeyInv == (\A h \in Handlers : Claimed(h)) /\ \A i \in DOMAIN orders : Answered(i)

(* Neither orders nor keys, and no claim. *)
NoClaim == UNCHANGED <<orders, keys>> /\ \A g \in Handlers : calls'[g].at = "commit" => calls'[g] = calls[g]

LEMMA TurnsNoClaim ==
  ASSUME Shape, NEW h \in Handlers, NEW d, Turns(h, d), d.at # "commit", UNCHANGED <<orders, keys>>
  PROVE  NoClaim
BY Turned DEF NoClaim

LEMMA OthersClaimNothing ==
  ASSUME Shape, NEW h \in Handlers, CallMoves(h)
  PROVE  NoClaim \/ Enter(h) \/ Commit(h)
<1>0. CallShape(calls[h])
  BY DEF Shape
<1>1. CASE Light(h)
  BY <1>1, TurnsNoClaim DEF Light, Plain, SameRows
<1>2. CASE Look(h)
  <2>1. [calls[h] EXCEPT !.at = "create", !.orders = OrdersOf(calls[h].user)].at = "create"
    BY <1>0, <1>2 DEF Look, CallShape
  <2> QED BY <1>2, <2>1, TurnsNoClaim DEF Look, SameRows
<1>3. CASE Lose(h)
  <2>1. [calls[h] EXCEPT !.at = "reload"].at = "reload"
    BY <1>0, <1>3 DEF Lose, CallShape
  <2> QED BY <1>3, <2>1, TurnsNoClaim DEF Lose, SameRows
<1>4. CASE Open(h) \/ Write(h)
  BY <1>4, TurnsNoClaim DEF Open, Write, Plain
<1>5. CASE Attach(h)
  <2>1. PICK c \in CartIds :
          Turns(h, [at |-> "stamp", op |-> "quote", user |-> calls[h].user, cart |-> c,
                    items |-> Saleable(cart[c].items), version |-> cart[c].version])
    BY <1>5 DEF Attach
  <2> QED BY <1>5, <2>1, TurnsNoClaim DEF Attach, SameRows
<1>6. CASE Cover(h)
  <2>1. PICK s : Turns(h, Idle) \/ Turns(h, [calls[h] EXCEPT !.items = Without(s, @)])
    BY <1>6 DEF Cover
  <2>2. [calls[h] EXCEPT !.items = Without(s, @)].at = "stamp"
    BY <1>0, <1>6 DEF Cover, CallShape
  <2> QED BY <1>6, <2>1, <2>2, IdleShape, TurnsNoClaim DEF Cover
<1>7. CASE Draft(h)
  <2>1. PICK c :
          Turns(h, [at |-> "price", user |-> calls[h].user, key |-> calls[h].key, body |-> calls[h].body,
                    cart |-> c, items |-> cart[c].items, ids |-> cart[c].ids, price |-> price, seen |-> Seen(c),
                    todo |-> StoresOf(cart[c].items), quoted |-> [s \in Stores |-> NotPriced]])
    BY <1>7 DEF Draft
  <2> QED BY <1>7, <2>1, TurnsNoClaim DEF Draft, SameRows
<1>8. CASE Priced(h)
  <2>1. PICK s, r : Turns(h, [calls[h] EXCEPT !.todo = @ \ {s}, !.quoted = [@ EXCEPT ![s] = r]])
    BY <1>8 DEF Priced
  <2>2. [calls[h] EXCEPT !.todo = @ \ {s}, !.quoted = [@ EXCEPT ![s] = r]].at = "price"
    BY <1>0, <1>8 DEF Priced, CallShape
  <2> QED BY <1>8, <2>1, <2>2, TurnsNoClaim DEF Priced, SameRows
<1> QED BY <1>1, <1>2, <1>3, <1>4, <1>5, <1>6, <1>7, <1>8 DEF CallMoves

(* A commit adds one order to those there are. *)
LEMMA OrderAdded ==
  ASSUME Shape, NEW h \in Handlers, Commit(h)
  PROVE  \E n \in Nat \ {0} :
           /\ n = Len(orders) + 1 /\ n \notin DOMAIN orders
           /\ DOMAIN orders' = DOMAIN orders \cup {n}
           /\ orders'[n] = TheOrder(calls[h])
           /\ \A i \in DOMAIN orders : orders'[i] = orders[i] /\ i # 0
<1> DEFINE o == TheOrder(calls[h])
<1>1. PICK S : orders \in Seq(S)
  BY DEF Shape, RowsShape
<1>2. orders \in Seq(S \cup {o}) /\ orders' = Append(orders, o)
  BY <1>1 DEF Commit
<1> HIDE DEF o
<1>3. orders' \in Seq(S \cup {o}) /\ Len(orders') = Len(orders) + 1 /\ Len(orders) \in Nat
      /\ orders'[Len(orders) + 1] = o /\ \A i \in 1..Len(orders) : orders'[i] = orders[i]
  BY <1>2
<1>4. DOMAIN orders = 1..Len(orders) /\ DOMAIN orders' = 1..(Len(orders) + 1)
  BY <1>2, <1>3
<1>5. PICK n \in Nat : n = Len(orders) + 1
  BY <1>3
<1>6. n # 0 /\ n \notin DOMAIN orders /\ DOMAIN orders' = DOMAIN orders \cup {n}
      /\ \A i \in DOMAIN orders : i # 0
  BY <1>3, <1>4, <1>5
<1> QED BY <1>3, <1>4, <1>5, <1>6 DEF o

LEMMA NoClaimKeeps ==
  ASSUME KeyInv, NoClaim
  PROVE  KeyInv'
BY DEF KeyInv, NoClaim, Claimed, Answered, ClaimsKey

LEMMA EnterKeeps ==
  ASSUME Shape, KeyInv, NEW h \in Handlers, Enter(h)
  PROVE  KeyInv'
<1>1. Turns(h, Entered(h)) /\ UNCHANGED <<orders, keys>>
  BY DEF Enter, SameRows
<1>2. calls'[h] = Entered(h) /\ \A g \in Handlers \ {h} : calls'[g] = calls[g]
  BY <1>1, Turned
<1>3. calls'[h].at = "commit" /\ calls'[h].user = calls[h].user /\ calls'[h].key = calls[h].key
  BY <1>2 DEF Entered
<1>4. /\ keys[calls[h].user][calls[h].key] = 0
      /\ \A g \in Handlers : ~ClaimsKey(g, calls[h].user, calls[h].key)
  BY DEF Enter, KeyHeld
<1>5. Claimed(h)'
  BY <1>1, <1>2, <1>3, <1>4 DEF Claimed, ClaimsKey
<1>6. ASSUME NEW g \in Handlers \ {h} PROVE Claimed(g)'
  BY <1>1, <1>2, <1>3, <1>4 DEF KeyInv, Claimed, ClaimsKey
<1>7. \A i \in DOMAIN orders : Answered(i)'
  BY <1>1 DEF KeyInv, Answered
<1> QED BY <1>1, <1>5, <1>6, <1>7 DEF KeyInv

LEMMA CommitKeeps ==
  ASSUME Shape, KeyInv, NEW h \in Handlers, Commit(h)
  PROVE  KeyInv'
<1> DEFINE call == calls[h]
<1>1. call.user \in Users /\ call.key \in Keys /\ call.at = "commit"
  BY DEF Commit, Shape, CallShape
<1>2. calls'[h] = Idle /\ \A g \in Handlers \ {h} : calls'[g] = calls[g]
  BY Turned DEF Commit
<1>3. PICK n \in Nat \ {0} :
        /\ n = Len(orders) + 1 /\ n \notin DOMAIN orders
        /\ DOMAIN orders' = DOMAIN orders \cup {n}
        /\ orders'[n] = TheOrder(call)
        /\ \A i \in DOMAIN orders : orders'[i] = orders[i] /\ i # 0
  BY OrderAdded
<1>6. /\ keys'[call.user][call.key] = n
      /\ \A u \in Users, k \in Keys : u # call.user \/ k # call.key => keys'[u][k] = keys[u][k]
  BY <1>1, <1>3 DEF Commit, Shape, RowsShape
<1>7. keys[call.user][call.key] = 0 /\ \A g \in Handlers : ClaimsKey(g, call.user, call.key) => g = h
  BY <1>1 DEF KeyInv, Claimed
<1>8. TheOrder(call).user = call.user /\ TheOrder(call).key = call.key
  BY DEF TheOrder
<1>9. ASSUME NEW g \in Handlers PROVE Claimed(g)'
  <2>1. CASE g = h
    BY <1>2, <2>1, IdleShape DEF Claimed
  <2>2. CASE g # h
    <3> SUFFICES ASSUME calls[g].at = "commit" PROVE Claimed(g)'
      BY <1>2, <2>2 DEF Claimed
    <3>1. calls[g].user \in Users /\ calls[g].key \in Keys
      BY DEF Shape, CallShape
    <3>2. calls[g].user # call.user \/ calls[g].key # call.key
      BY <1>7, <2>2 DEF ClaimsKey
    <3>3. keys'[calls[g].user][calls[g].key] = 0
      BY <1>6, <3>1, <3>2 DEF KeyInv, Claimed
    <3>4. \A f \in Handlers : ClaimsKey(f, calls[g].user, calls[g].key)' => f = g
      <4> SUFFICES ASSUME NEW f \in Handlers, ClaimsKey(f, calls[g].user, calls[g].key)' PROVE f = g
        OBVIOUS
      <4>1. calls'[g] = calls[g] /\ f # h /\ calls'[f] = calls[f]
        BY <1>2, <2>2, IdleShape DEF ClaimsKey
      <4>2. ClaimsKey(f, calls[g].user, calls[g].key)
        BY <4>1 DEF ClaimsKey
      <4> QED BY <4>2 DEF KeyInv, Claimed
    <3> QED BY <1>2, <2>2, <3>3, <3>4 DEF Claimed, ClaimsKey
  <2> QED BY <2>1, <2>2
<1>10. ASSUME NEW i \in DOMAIN orders PROVE Answered(i)'
  <2>1. orders[i].user # call.user \/ orders[i].key # call.key
    BY <1>3, <1>7 DEF KeyInv, Answered
  <2> QED BY <1>3, <1>6, <2>1 DEF KeyInv, Answered
<1>11. Answered(n)'
  BY <1>1, <1>3, <1>6, <1>8 DEF Answered
<1> QED BY <1>3, <1>9, <1>10, <1>11 DEF KeyInv

(* However often a key is sent, and however its requests overlap, it has one *)
(* order, the one that a replay is answered with.                           *)
THEOREM KeysHaveOneOrder == Spec => []OneOrderPerKey
<1>1. Init => KeyInv
  BY IdleShape DEF Init, CartInit, KeyInv, Claimed
<1>2. Shape /\ KeyInv /\ [Next]_vars => KeyInv'
  <2>1. ASSUME KeyInv, UNCHANGED vars PROVE NoClaim
    BY <2>1 DEF NoClaim, vars, carts, buying
  <2>2. ASSUME Lapse PROVE NoClaim
    BY <2>2 DEF NoClaim, Lapse
  <2> QED BY <2>1, <2>2, Kinds, OthersClaimNothing, NoClaimKeeps, EnterKeeps, CommitKeeps
<1>3. KeyInv => OneOrderPerKey
  BY DEF KeyInv, Answered, OneOrderPerKey
<1> QED BY <1>1, <1>2, <1>3, Shapes, PTL DEF Spec

-----------------------------------------------------------------------------
(* The limits of a promotion. *)

LEMMA OrdersAreFinite ==
  ASSUME Shape
  PROVE  IsFiniteSet(DOMAIN orders)
<1>1. PICK S : orders \in Seq(S)
  BY DEF Shape, RowsShape
<1>2. DOMAIN orders = 1..Len(orders) /\ Len(orders) \in Nat
  BY <1>1
<1> QED BY <1>2, FS_Interval

LEMMA RedemptionsKept ==
  ASSUME orders' = orders
  PROVE  Redemptions' = Redemptions /\ \A u : RedemptionsOf(u)' = RedemptionsOf(u)
BY DEF Redemptions, RedemptionsOf, Redeemed

(* A set of redemptions that has room takes one more. *)
LEMMA OneMore ==
  ASSUME NEW S, IsFiniteSet(S), NEW n, NEW T, T \subseteq S \cup {n}, NEW limit \in Nat,
         Cardinality(S) <= limit, T \subseteq S \/ Cardinality(S) < limit
  PROVE  Cardinality(T) <= limit
<1>1. CASE T \subseteq S
  BY <1>1, FS_Subset, FS_CardinalityType
<1>2. CASE Cardinality(S) < limit
  <2>1. IsFiniteSet(S \cup {n}) /\ Cardinality(S \cup {n}) <= Cardinality(S) + 1
    <3>1. IsFiniteSet(S \cup {n}) /\ (Cardinality(S \cup {n}) = Cardinality(S) \/ Cardinality(S \cup {n}) = Cardinality(S) + 1)
      BY FS_AddElement
    <3>2. Cardinality(S) \in Nat
      BY FS_CardinalityType
    <3> QED BY <3>1, <3>2
  <2>2. IsFiniteSet(T) /\ Cardinality(T) <= Cardinality(S \cup {n})
    BY <2>1, FS_Subset
  <2> QED BY <1>2, <2>1, <2>2, FS_CardinalityType
<1> QED BY <1>1, <1>2

LEMMA CommitKeepsLimits ==
  ASSUME Shape, PromotionLimits, NEW h \in Handlers, Commit(h)
  PROVE  PromotionLimits'
<1> DEFINE call == calls[h]
<1>1. PICK n \in Nat \ {0} :
        /\ n \notin DOMAIN orders
        /\ DOMAIN orders' = DOMAIN orders \cup {n}
        /\ orders'[n] = TheOrder(call)
        /\ \A i \in DOMAIN orders : orders'[i] = orders[i]
  BY OrderAdded
<1>2. orders'[n].body = call.body /\ orders'[n].user = call.user
  BY <1>1 DEF TheOrder
<1>3. \A i \in DOMAIN orders : Redeemed(i)' <=> Redeemed(i)
  BY <1>1 DEF Redeemed
<1>4. Redemptions' \subseteq Redemptions \cup {n}
  BY <1>1, <1>3 DEF Redemptions
<1>5. call.body # "promo" => Redemptions' \subseteq Redemptions
  BY <1>1, <1>2, <1>3 DEF Redemptions, Redeemed
<1>6. IsFiniteSet(Redemptions) /\ \A u : IsFiniteSet(RedemptionsOf(u))
  BY OrdersAreFinite, FS_Subset DEF Redemptions, RedemptionsOf
<1>7. Promotion.maxRedemptions \in Nat /\ Promotion.perUserLimit \in Nat
  BY BoundsAssumption, PromotionAssumption
<1>8. call.body = "promo" => /\ Cardinality(Redemptions) < Promotion.maxRedemptions
                             /\ Cardinality(RedemptionsOf(call.user)) < Promotion.perUserLimit
  BY DEF Commit, PromotionLeft
<1>9. Cardinality(Redemptions') <= Promotion.maxRedemptions
  BY <1>4, <1>5, <1>6, <1>7, <1>8, OneMore DEF PromotionLimits
<1>10. ASSUME NEW u \in Users PROVE Cardinality(RedemptionsOf(u)') <= Promotion.perUserLimit
  <2>1. RedemptionsOf(u)' \subseteq RedemptionsOf(u) \cup {n}
    BY <1>1, <1>4 DEF RedemptionsOf, Redemptions
  <2>2. call.body # "promo" \/ u # call.user => RedemptionsOf(u)' \subseteq RedemptionsOf(u)
    BY <1>1, <1>2, <1>4, <1>5 DEF RedemptionsOf, Redemptions
  <2> QED BY <1>6, <1>7, <1>8, <2>1, <2>2, OneMore DEF PromotionLimits
<1> QED BY <1>9, <1>10 DEF PromotionLimits

(* A promotion is never redeemed more often than it allows, in all or by one *)
(* buyer, however many checkouts are at work with a discount they were       *)
(* quoted when there was room.                                              *)
THEOREM LimitsHold == Spec => []PromotionLimits
<1>1. Init => PromotionLimits
  <2> SUFFICES ASSUME Init PROVE PromotionLimits
    OBVIOUS
  <2>1. Redemptions = {} /\ \A u : RedemptionsOf(u) = {}
    BY DEF Init, Redemptions, RedemptionsOf
  <2>2. Cardinality({}) = 0
    BY FS_EmptySet
  <2>3. Promotion.maxRedemptions \in Nat /\ Promotion.perUserLimit \in Nat
    BY PromotionAssumption
  <2> QED BY <2>1, <2>2, <2>3 DEF PromotionLimits
<1>2. Shape /\ PromotionLimits /\ [Next]_vars => PromotionLimits'
  <2>1. ASSUME PromotionLimits, orders' = orders PROVE PromotionLimits'
    BY <2>1, RedemptionsKept, SMTT(30) DEF PromotionLimits
  <2>2. ASSUME Shape, NEW h \in Handlers, CallMoves(h) PROVE orders' = orders \/ Commit(h)
    BY <2>2 DEF CallMoves, Light, Look, Lose, Open, Write, Attach, Cover, Draft, Priced, Enter, SameRows
  <2>3. UNCHANGED vars \/ Lapse => orders' = orders
    BY DEF vars, carts, buying, Lapse
  <2> QED BY <2>1, <2>2, <2>3, Kinds, CommitKeepsLimits
<1> QED BY <1>1, <1>2, Shapes, PTL DEF Spec

-----------------------------------------------------------------------------
(* The buyer whose insert was refused. *)

(* A buyer who waits has seen no more orders than there are, and fewer when  *)
(* the cart that was in the way is gone; who pays for a cart owns it.        *)
Waits(h) ==
  calls[h].at \in {"create", "reload"} =>
    /\ calls[h].orders \in Nat /\ calls[h].orders <= OrdersOf(calls[h].user)
    /\ calls[h].at = "reload" /\ ActiveCarts(calls[h].user) = {} => calls[h].orders < OrdersOf(calls[h].user)
Buys(h) ==
  calls[h].at \in {"price", "commit"} =>
    cart[calls[h].cart].owner = calls[h].user /\ cart[calls[h].cart].status # "NONE"
LoserInv == \A h \in Handlers : Waits(h) /\ Buys(h)

(* No cart is taken from a buyer but for an order of theirs. *)
Owed ==
  /\ \A u : /\ OrdersOf(u)' \in Nat /\ OrdersOf(u) <= OrdersOf(u)'
            /\ ActiveCarts(u) # {} /\ ActiveCarts(u)' = {} => OrdersOf(u) < OrdersOf(u)'
  /\ \A c \in CartIds : cart[c].status # "NONE" => cart'[c].owner = cart[c].owner /\ cart'[c].status # "NONE"

LEMMA CountIsNat ==
  ASSUME NEW s, \E S : s \in Seq(S), NEW u
  PROVE  Cardinality({i \in DOMAIN s : s[i].user = u}) \in Nat
<1>1. DOMAIN s = 1..Len(s) /\ Len(s) \in Nat
  OBVIOUS
<1>2. IsFiniteSet(DOMAIN s)
  BY <1>1, FS_Interval
<1> QED BY <1>2, FS_Subset, FS_CardinalityType

LEMMA OrdersOfIsNat ==
  ASSUME Shape, NEW u
  PROVE  OrdersOf(u) \in Nat
<1>1. \E S : orders \in Seq(S)
  BY DEF Shape, RowsShape
<1> QED BY ONLY <1>1, CountIsNat DEF OrdersOf

(* Carts keep their owners, or somebody without a cart is given one. *)
LEMMA OwedOfCarts ==
  ASSUME Shape, UNCHANGED orders,
         \A c \in CartIds : \/ cart'[c].owner = cart[c].owner /\ cart'[c].status = cart[c].status
                            \/ cart[c].status = "NONE"
  PROVE  Owed
<1>1. \A u : OrdersOf(u)' = OrdersOf(u)
  BY DEF OrdersOf
<1>2. \A u : ActiveCarts(u) \subseteq ActiveCarts(u)'
  BY DEF ActiveCarts
<1> QED BY <1>1, <1>2, OrdersOfIsNat DEF Owed

LEMMA OwedOfCommit ==
  ASSUME Shape, NEW h \in Handlers, Buys(h), Commit(h)
  PROVE  Owed
<1> DEFINE call == calls[h]
           c    == call.cart
<1>1. c \in CartIds /\ cart[c].owner = call.user /\ cart[c].status # "NONE" /\ DOMAIN cart = CartIds
      /\ \A b \in CartIds : DOMAIN cart[b] = Columns
  BY DEF Commit, Shape, RowsShape, CallShape, Buys
<1>2. \A b \in CartIds : cart'[b].owner = cart[b].owner /\ (b # c => cart'[b] = cart[b]) /\ cart'[c].status = "CONVERTED"
  <2> DEFINE a == [cart EXCEPT ![c].status = "CONVERTED"]
  <2>1. /\ DOMAIN a = CartIds /\ DOMAIN a[c] = Columns /\ a[c].status = "CONVERTED"
        /\ a[c].owner = cart[c].owner /\ \A b \in CartIds \ {c} : a[b] = cart[b]
    BY <1>1 DEF Columns
  <2>2. cart' = [a EXCEPT ![c].version = Stamped(c)]
    BY DEF Commit
  <2> HIDE DEF a
  <2> QED BY <1>1, <2>1, <2>2 DEF Columns
<1>3. PICK n \in Nat \ {0} :
        /\ n \notin DOMAIN orders
        /\ DOMAIN orders' = DOMAIN orders \cup {n}
        /\ orders'[n] = TheOrder(call)
        /\ \A i \in DOMAIN orders : orders'[i] = orders[i]
  BY OrderAdded
<1>4. orders'[n].user = call.user
  BY <1>3 DEF TheOrder
<1>5. ASSUME NEW u PROVE OrdersOf(u)' \in Nat /\ OrdersOf(u) <= OrdersOf(u)' /\ (u = call.user => OrdersOf(u) < OrdersOf(u)')
  <2> DEFINE S == {i \in DOMAIN orders : orders[i].user = u}
             T == {i \in DOMAIN orders' : orders'[i].user = u}
  <2>1. IsFiniteSet(S) /\ n \notin S /\ Cardinality(S) \in Nat
    BY <1>3, OrdersAreFinite, FS_Subset, FS_CardinalityType
  <2>2. IF u = call.user THEN T = S \cup {n} ELSE T = S
    BY <1>3, <1>4
  <2>3. OrdersOf(u) = Cardinality(S) /\ OrdersOf(u)' = Cardinality(T)
    BY DEF OrdersOf
  <2>4. Cardinality(S \cup {n}) = Cardinality(S) + 1
    BY <2>1, FS_AddElement
  <2>5. Cardinality(T) = IF u = call.user THEN Cardinality(S) + 1 ELSE Cardinality(S)
    BY <2>2, <2>4
  <2> HIDE DEF S, T, call
  <2> QED BY <2>1, <2>3, <2>5
<1>6. ASSUME NEW u, u # call.user PROVE ActiveCarts(u)' = ActiveCarts(u)
  BY <1>1, <1>2, <1>6 DEF ActiveCarts
<1> QED BY <1>1, <1>2, <1>5, <1>6 DEF Owed

LEMMA MovesOwe ==
  ASSUME Shape, NEW h \in Handlers, Buys(h), CallMoves(h)
  PROVE  Owed
<1>1. CASE SameRows
  BY <1>1, OwedOfCarts DEF SameRows
<1>2. CASE Open(h)
  BY <1>2, OwedOfCarts DEF Open, NoCart, Shape, RowsShape
<1>3. CASE Write(h)
  BY <1>3, OwedOfCarts DEF Write
<1>4. CASE Cover(h)
  BY <1>4, OwedOfCarts DEF Cover
<1>5. CASE Commit(h)
  BY <1>5, OwedOfCommit
<1> QED BY <1>1, <1>2, <1>3, <1>4, <1>5 DEF CallMoves, Light, Look, Lose, Attach, Draft, Priced, Enter

LEMMA OwedKeeps ==
  ASSUME Shape, Shape', Owed, NEW g \in Handlers, calls'[g] = calls[g], Waits(g), Buys(g)
  PROVE  Waits(g)' /\ Buys(g)'
<1>1. Waits(g)'
  <2> SUFFICES ASSUME calls[g].at \in {"create", "reload"} PROVE Waits(g)'
    BY DEF Waits
  <2> DEFINE u == calls[g].user
  <2>1. PICK v : v = u
    OBVIOUS
  <2>2. PICK before \in Nat : before = OrdersOf(v)
    BY OrdersOfIsNat
  <2>3. PICK after : after = OrdersOf(v)'
    OBVIOUS
  <2>4. OrdersOf(v)' \in Nat
    BY DEF Owed
  <2>5. before = OrdersOf(u) /\ after = OrdersOf(u)' /\ after \in Nat
    BY <2>1, <2>2, <2>3, <2>4
  <2>6. calls[g].orders \in Nat /\ calls[g].orders <= before /\ before <= after
    BY <2>5 DEF Waits, Owed
  <2>7. calls[g].at = "reload" /\ ActiveCarts(u)' = {} => calls[g].orders < after
    BY <2>5, <2>6 DEF Waits, Owed
  <2>8. OrdersOf(calls[g].user)' = after
    BY <2>1, <2>3
  <2> QED BY <2>5, <2>6, <2>7, <2>8 DEF Waits
<1>2. calls[g].at \in {"price", "commit"} => calls[g].cart \in CartIds
  BY DEF Shape, CallShape
<1> QED BY <1>1, <1>2 DEF Buys, Owed

LEMMA LoserKept ==
  ASSUME Shape, Shape', LoserInv, NEW h \in Handlers, CallMoves(h)
  PROVE  LoserInv'
<1> DEFINE call == calls[h]
<1>1. Owed
  BY MovesOwe DEF LoserInv
<1>2. ASSUME NEW d, Turns(h, d) PROVE calls'[h] = d /\ \A g \in Handlers \ {h} : calls'[g] = calls[g]
  BY <1>2, Turned
<1>3. SUFFICES Waits(h)' /\ Buys(h)' /\ \A g \in Handlers \ {h} : calls'[g] = calls[g]
  BY <1>1, OwedKeeps DEF LoserInv
<1>4. ASSUME NEW d, Turns(h, d), d.at \notin {"create", "reload", "price", "commit"}
      PROVE  Waits(h)' /\ Buys(h)' /\ \A g \in Handlers \ {h} : calls'[g] = calls[g]
  BY <1>2, <1>4 DEF Waits, Buys
<1>5. CallShape(call)
  BY DEF Shape
<1>6. CASE Light(h) \/ Open(h) \/ Write(h)
  BY <1>4, <1>6 DEF Light, Open, Write, Plain
<1>7. CASE Look(h)
  <2> DEFINE d == [call EXCEPT !.at = "create", !.orders = OrdersOf(call.user)]
  <2>1. d.at = "create" /\ d.orders = OrdersOf(call.user) /\ d.user = call.user
    BY <1>5, <1>7 DEF Look, CallShape
  <2>2. Turns(h, d)
    BY <1>7 DEF Look
  <2> HIDE DEF d
  <2>3. /\ calls'[h].at = "create" /\ calls'[h].orders = OrdersOf(call.user) /\ calls'[h].user = call.user
        /\ \A g \in Handlers \ {h} : calls'[g] = calls[g]
    BY <1>2, <2>1, <2>2
  <2>4. \A u : OrdersOf(u)' = OrdersOf(u)
    BY <1>7 DEF Look, SameRows, OrdersOf
  <2>5. OrdersOf(calls[h].user)' = OrdersOf(call.user)
    BY <2>3, <2>4
  <2> QED BY <2>3, <2>5, OrdersOfIsNat DEF Waits, Buys
<1>8. CASE Lose(h)
  <2>1. /\ calls'[h].at = "reload" /\ calls'[h].orders = call.orders /\ calls'[h].user = call.user
        /\ \A g \in Handlers \ {h} : calls'[g] = calls[g]
    BY <1>2, <1>5, <1>8 DEF Lose, CallShape
  <2>2. OrdersOf(calls[h].user)' = OrdersOf(call.user) /\ ActiveCarts(calls[h].user)' # {}
    BY <1>8, <2>1 DEF Lose, SameRows, OrdersOf, ActiveCarts
  <2> QED BY <1>8, <2>1, <2>2 DEF Waits, Buys, LoserInv, Lose
<1>9. CASE Attach(h)
  <2>1. PICK c \in CartIds :
          Turns(h, [at |-> "stamp", op |-> "quote", user |-> calls[h].user, cart |-> c,
                    items |-> Saleable(cart[c].items), version |-> cart[c].version])
    BY <1>9 DEF Attach
  <2> QED BY <1>4, <2>1
<1>10. CASE Cover(h)
  <2>1. PICK s : Turns(h, Idle) \/ Turns(h, [call EXCEPT !.items = Without(s, @)])
    BY <1>10 DEF Cover
  <2>2. [call EXCEPT !.items = Without(s, @)].at = "stamp"
    BY <1>5, <1>10 DEF Cover, CallShape
  <2> QED BY <1>4, <2>1, <2>2, IdleShape
<1>11. CASE Draft(h)
  <2>1. PICK c \in ActiveCarts(call.user) :
          Turns(h, [at |-> "price", user |-> call.user, key |-> call.key, body |-> call.body,
                    cart |-> c, items |-> cart[c].items, ids |-> cart[c].ids, price |-> price, seen |-> Seen(c),
                    todo |-> StoresOf(cart[c].items), quoted |-> [s \in Stores |-> NotPriced]])
    BY <1>11 DEF Draft
  <2>2. calls'[h].at = "price" /\ calls'[h].cart = c /\ calls'[h].user = call.user
    BY <1>2, <2>1
  <2> QED BY <1>2, <1>11, <2>1, <2>2 DEF Waits, Buys, Draft, SameRows, ActiveCarts
<1>12. CASE Priced(h)
  <2>1. PICK s, r : Turns(h, [call EXCEPT !.todo = @ \ {s}, !.quoted = [@ EXCEPT ![s] = r]])
    BY <1>12 DEF Priced
  <2> DEFINE d == [call EXCEPT !.todo = @ \ {s}, !.quoted = [@ EXCEPT ![s] = r]]
  <2>2. d.at = "price" /\ d.cart = call.cart /\ d.user = call.user
    BY <1>5, <1>12 DEF Priced, CallShape
  <2> HIDE DEF d
  <2>3. calls'[h].at = "price" /\ calls'[h].cart = call.cart /\ calls'[h].user = call.user
    BY <1>2, <2>1, <2>2 DEF d
  <2> QED BY <1>2, <1>12, <2>1, <2>3 DEF Waits, Buys, Priced, SameRows, LoserInv
<1>13. CASE Enter(h)
  <2>1. calls'[h].at = "commit" /\ calls'[h].cart = call.cart /\ calls'[h].user = call.user
    BY <1>2, <1>13 DEF Enter, Entered
  <2> QED BY <1>2, <1>13, <2>1 DEF Waits, Buys, Enter, SameRows, LoserInv
<1>14. CASE Commit(h)
  BY <1>4, <1>14, IdleShape DEF Commit
<1> QED BY <1>6, <1>7, <1>8, <1>9, <1>10, <1>11, <1>12, <1>13, <1>14 DEF CallMoves

(* When two first requests of a buyer find no cart, the one whose insert is  *)
(* refused gets the other's cart, unless that has become an order.           *)
THEOREM LoserGetsTheCart == Spec => []LoserFindsWinner
<1>1. Init => LoserInv
  BY IdleShape DEF Init, CartInit, LoserInv, Waits, Buys
<1>2. Shape /\ Shape' /\ LoserInv /\ [Next]_vars => LoserInv'
  <2>1. ASSUME Shape, Shape', LoserInv, UNCHANGED <<cart, calls, orders>> PROVE LoserInv'
    BY <2>1, OwedOfCarts, OwedKeeps DEF LoserInv
  <2>2. UNCHANGED vars \/ Lapse => UNCHANGED <<cart, calls, orders>>
    BY DEF vars, carts, Lapse
  <2> QED BY <2>1, <2>2, Kinds, LoserKept
<1>3. LoserInv => LoserFindsWinner
  <2> SUFFICES ASSUME LoserInv, NEW h \in Handlers, calls[h].at = "reload", ActiveCarts(calls[h].user) = {}
               PROVE  OrdersOf(calls[h].user) > calls[h].orders
    BY DEF LoserFindsWinner
  <2>1. Waits(h)
    BY DEF LoserInv
  <2> QED BY <2>1 DEF Waits
<1> QED BY <1>1, <1>2, <1>3, Shapes, PTL DEF Spec

-----------------------------------------------------------------------------
(* The delivery an order is charged. *)

(* The same lines at a store. *)
SameAt(s, a, b) ==
  \A v \in Variants : StoreOf[v] = s => (a[v] > 0 <=> b[v] > 0) /\ (b[v] > 0 => a[v] = b[v])

(* A fee is the carrier's for a store's lines, and a are those lines, or all *)
(* of them but some that are off sale or have been put back on sale.        *)
LeftOut(T, s, S, items)  == (LinesOf(s, items) \ S) \cap T = {}
FeeFits(T, s, fee, items) ==
  \E S \in SUBSET LinesOf(s, items) : fee = Fee(s, Only(S, items)) /\ LeftOut(T, s, S, items)
PartFits(T, s, a, items) ==
  \E S \in SUBSET LinesOf(s, items) : SameAt(s, a, Only(S, items)) /\ LeftOut(T, s, S, items)
DeliveryFits(R, s, fee, items) ==
  \E S \in SUBSET LinesOf(s, items) :
    fee = Fee(s, Only(S, items)) /\ LinesOf(s, items) \ S \subseteq R

(* What bears the stamp of a cart is of the content that the cart has.       *)
QuoteFits(c, s) ==
  quote[c][s] # NoQuote =>
    /\ cart[c].status # "NONE" /\ quote[c][s].stamp \in Nat /\ quote[c][s].stamp <= cart[c].version
    /\ quote[c][s].clean /\ quote[c][s].stamp = cart[c].version => FeeFits(Steady, s, quote[c][s].fee, cart[c].items)
StampFits(h) ==
  calls[h].at = "stamp" =>
    LET now == cart[calls[h].cart] IN
    /\ now.status # "NONE" /\ calls[h].version \in Nat /\ calls[h].version <= now.version
    /\ calls[h].version = now.version =>
         \A s \in StoresOf(calls[h].items) : PartFits(Steady, s, calls[h].items, now.items)
PriceFits(h) ==
  calls[h].at = "price" =>
    LET now == cart[calls[h].cart] IN
    /\ now.status # "NONE" /\ calls[h].seen.version \in Nat /\ calls[h].seen.version <= now.version
    /\ calls[h].seen.version = now.version =>
         /\ calls[h].items = now.items
         /\ \A s \in StoresOf(calls[h].items) \ calls[h].todo :
              calls[h].quoted[s].clean => FeeFits(Steady, s, calls[h].quoted[s].delivery, calls[h].items)
CommitFits(h) ==
  calls[h].at = "commit" /\ calls[h].quiet =>
    \A s \in StoresOf(calls[h].items) :
      calls[h].quoted[s].clean => DeliveryFits(relisted, s, calls[h].quoted[s].delivery, calls[h].items)
CallFits(h) == StampFits(h) /\ PriceFits(h) /\ CommitFits(h)
OrderFits(i) ==
  \A s \in StoresOf(orders[i].items) :
    orders[i].quiet /\ orders[i].clean[s] => DeliveryFits(relisted, s, orders[i].delivery[s], orders[i].items)
DeliveryInv ==
  /\ \A c \in CartIds, s \in Stores : QuoteFits(c, s)
  /\ \A h \in Handlers : CallFits(h)
  /\ \A i \in DOMAIN orders : OrderFits(i)

LEMMA SameFee ==
  ASSUME NEW s, NEW a, NEW b, SameAt(s, a, b)
  PROVE  LinesOf(s, a) = LinesOf(s, b) /\ Fee(s, a) = Fee(s, b)
<1>1. LinesOf(s, a) = LinesOf(s, b)
  BY DEF SameAt, LinesOf, Lines
<1>2. \A v \in LinesOf(s, b) : a[v] = b[v]
  BY DEF SameAt, LinesOf, Lines
<1>3. Part(s, a, Weight) = Part(s, b, Weight)
  BY <1>1, <1>2, SMTT(30) DEF Part
<1> QED BY <1>1, <1>3 DEF Fee, Subtotal

LEMMA PartFee ==
  ASSUME NEW T, NEW s, NEW a, NEW items, PartFits(T, s, a, items)
  PROVE  FeeFits(T, s, Fee(s, a), items)
<1>1. PICK S \in SUBSET LinesOf(s, items) : SameAt(s, a, Only(S, items)) /\ LeftOut(T, s, S, items)
  BY DEF PartFits
<1>2. Fee(s, a) = Fee(s, Only(S, items))
  BY <1>1, SameFee, SMTT(30)
<1> QED BY <1>1, <1>2 DEF FeeFits

(* Carts grow older; what they hold changes with their stamp only.           *)
Aged ==
  /\ \A c \in CartIds : cart[c].status # "NONE" =>
       /\ cart'[c].status # "NONE" /\ cart'[c].version \in Nat /\ cart[c].version <= cart'[c].version
       /\ cart'[c].version = cart[c].version => cart'[c].items = cart[c].items
  /\ relisted \subseteq relisted' /\ Steady' \subseteq Steady

LEMMA MovesAge ==
  ASSUME Shape, (\E h \in Handlers : CallMoves(h)) \/ Lapse \/ UNCHANGED <<cart, sellable, relisted>>
  PROVE  Aged
<1>0. \A c \in CartIds : cart[c].version \in Nat /\ DOMAIN cart[c] = Columns
  BY DEF Shape, RowsShape
<1>1. CASE SameRows \/ Lapse \/ UNCHANGED <<cart, sellable, relisted>>
  BY <1>0, <1>1 DEF SameRows, Aged, Lapse, Steady
<1>2. ASSUME NEW h \in Handlers, Open(h) PROVE Aged
  BY <1>0, <1>2 DEF Open, Aged, NoCart, Shape, RowsShape, Steady
<1>3. ASSUME NEW h \in Handlers, Write(h) PROVE Aged
  BY <1>0, <1>3 DEF Write, Aged, Steady
<1>4. ASSUME NEW h \in Handlers, Cover(h) PROVE Aged
  BY <1>0, <1>4 DEF Cover, Aged, Steady
<1>5. ASSUME NEW h \in Handlers, Commit(h) PROVE Aged
  <2> DEFINE c == calls[h].cart
             a == [cart EXCEPT ![c].status = "CONVERTED"]
  <2>1. c \in CartIds
    BY <1>5 DEF Commit, Shape, CallShape
  <2>2. /\ DOMAIN a = CartIds /\ DOMAIN a[c] = Columns /\ a[c].status = "CONVERTED"
        /\ \A b \in CartIds \ {c} : a[b] = cart[b]
    BY <1>0, <2>1 DEF Columns, Shape, RowsShape
  <2>3. cart' = [a EXCEPT ![c].version = Stamped(c)]
    BY <1>5 DEF Commit
  <2> HIDE DEF a
  <2>4. /\ cart'[c].status = "CONVERTED" /\ cart'[c].version = cart[c].version + 1
        /\ \A b \in CartIds \ {c} : cart'[b] = cart[b]
    BY <2>1, <2>2, <2>3 DEF Columns, Stamped
  <2>5. relisted' = relisted /\ Steady' = Steady
    BY <1>5 DEF Commit, Steady
  <2>6. cart[c].version \in Nat
    BY <1>0, <2>1
  <2> HIDE DEF c
  <2>7. /\ cart'[c].version \in Nat /\ cart[c].version <= cart'[c].version /\ cart'[c].version # cart[c].version
    BY <2>4, <2>6
  <2> QED BY <1>0, <2>1, <2>4, <2>5, <2>7 DEF Aged
<1> QED BY <1>1, <1>2, <1>3, <1>4, <1>5 DEF CallMoves, Light, Look, Lose, Attach, Draft, Priced, Enter

LEMMA FeeAges ==
  ASSUME NEW T, NEW U \in SUBSET T, NEW s, NEW fee, NEW items
  PROVE  /\ FeeFits(T, s, fee, items) => FeeFits(U, s, fee, items)
         /\ PartFits(T, s, fee, items) => PartFits(U, s, fee, items)
         /\ DeliveryFits(U, s, fee, items) => DeliveryFits(T, s, fee, items)
BY DEF FeeFits, PartFits, DeliveryFits, LeftOut

LEMMA QuoteAges ==
  ASSUME Shape, Aged, NEW c \in CartIds, NEW s \in Stores, QuoteFits(c, s), quote'[c][s] \in {quote[c][s], NoQuote}
  PROVE  QuoteFits(c, s)'
<1>0. cart[c].version \in Nat
  BY DEF Shape, RowsShape
<1> SUFFICES ASSUME quote[c][s] # NoQuote, quote'[c][s] = quote[c][s] PROVE QuoteFits(c, s)'
  BY DEF QuoteFits
<1>1. /\ cart'[c].status # "NONE" /\ quote[c][s].stamp \in Nat /\ quote[c][s].stamp <= cart'[c].version
      /\ quote[c][s].stamp = cart'[c].version => cart'[c].version = cart[c].version /\ cart'[c].items = cart[c].items
  BY <1>0 DEF Aged, QuoteFits
<1>2. quote[c][s].clean /\ quote[c][s].stamp = cart'[c].version => FeeFits(Steady, s, quote[c][s].fee, cart[c].items)
  BY <1>1 DEF QuoteFits
<1>3. quote[c][s].clean /\ quote[c][s].stamp = cart'[c].version =>
        FeeFits(Steady', s, quote'[c][s].fee, cart'[c].items)
  BY <1>1, <1>2, FeeAges DEF Aged
<1> QED BY <1>1, <1>3 DEF QuoteFits

LEMMA CallAges ==
  ASSUME Shape, Aged, NEW g \in Handlers, CallFits(g), calls'[g] = calls[g]
  PROVE  CallFits(g)'
<1> DEFINE call == calls[g]
           c    == call.cart
<1>0. CallShape(call)
  BY DEF Shape
<1>1. StampFits(g)'
  <2> SUFFICES ASSUME call.at = "stamp" PROVE StampFits(g)'
    BY DEF StampFits
  <2>1. c \in CartIds /\ cart[c].version \in Nat
    BY <1>0 DEF CallShape, Shape, RowsShape
  <2>2. /\ cart'[c].status # "NONE" /\ call.version \in Nat /\ call.version <= cart'[c].version
        /\ call.version = cart'[c].version => cart'[c].version = cart[c].version /\ cart'[c].items = cart[c].items
    BY <2>1 DEF Aged, CallFits, StampFits
  <2>3. ASSUME call.version = cart'[c].version, NEW s \in StoresOf(call.items)
        PROVE  PartFits(Steady', s, call.items, cart'[c].items)
    <3>1. PartFits(Steady, s, call.items, cart[c].items)
      BY <2>2, <2>3 DEF CallFits, StampFits
    <3> QED BY <2>2, <2>3, <3>1, FeeAges DEF Aged
  <2> QED BY <2>2, <2>3 DEF StampFits
<1>2. PriceFits(g)'
  <2> SUFFICES ASSUME call.at = "price" PROVE PriceFits(g)'
    BY DEF PriceFits
  <2>1. c \in CartIds /\ cart[c].version \in Nat
    BY <1>0 DEF CallShape, Shape, RowsShape
  <2>2. /\ cart'[c].status # "NONE" /\ call.seen.version \in Nat /\ call.seen.version <= cart'[c].version
        /\ call.seen.version = cart'[c].version => cart'[c].version = cart[c].version /\ cart'[c].items = cart[c].items
    BY <2>1 DEF Aged, CallFits, PriceFits
  <2>3. call.seen.version = cart'[c].version => call.items = cart'[c].items
    BY <2>2 DEF CallFits, PriceFits
  <2>4. ASSUME call.seen.version = cart'[c].version, NEW s \in StoresOf(call.items) \ call.todo, call.quoted[s].clean
        PROVE  FeeFits(Steady', s, call.quoted[s].delivery, call.items)
    <3>1. FeeFits(Steady, s, call.quoted[s].delivery, call.items)
      BY <2>2, <2>4 DEF CallFits, PriceFits
    <3> QED BY <3>1, FeeAges DEF Aged
  <2> QED BY <2>2, <2>3, <2>4 DEF PriceFits
<1>3. CommitFits(g)'
  <2> SUFFICES ASSUME call.at = "commit", call.quiet, NEW s \in StoresOf(call.items), call.quoted[s].clean
               PROVE  DeliveryFits(relisted', s, call.quoted[s].delivery, call.items)
    BY DEF CommitFits
  <2>1. DeliveryFits(relisted, s, call.quoted[s].delivery, call.items)
    BY DEF CallFits, CommitFits
  <2> QED BY <2>1, FeeAges DEF Aged
<1> QED BY <1>1, <1>2, <1>3 DEF CallFits

LEMMA OrderAges ==
  ASSUME Aged, orders' = orders, NEW i \in DOMAIN orders, OrderFits(i)
  PROVE  OrderFits(i)'
<1> SUFFICES ASSUME NEW s \in StoresOf(orders[i].items), orders[i].quiet, orders[i].clean[s]
             PROVE  DeliveryFits(relisted', s, orders[i].delivery[s], orders[i].items)
  BY DEF OrderFits
<1>1. DeliveryFits(relisted, s, orders[i].delivery[s], orders[i].items)
  BY DEF OrderFits
<1> QED BY <1>1, FeeAges DEF Aged

LEMMA OtherKindsFit ==
  ASSUME NEW h \in Handlers, calls'[h].at \notin {"stamp", "price", "commit"}
  PROVE  CallFits(h)'
BY DEF CallFits, StampFits, PriceFits, CommitFits

LEMMA AttachFits ==
  ASSUME Shape, NEW h \in Handlers, Attach(h)
  PROVE  CallFits(h)'
<1>1. PICK c \in CartIds :
        /\ cart[c].status = "ACTIVE"
        /\ Turns(h, [at |-> "stamp", op |-> "quote", user |-> calls[h].user, cart |-> c,
                     items |-> Saleable(cart[c].items), version |-> cart[c].version])
  BY DEF Attach
<1>2. /\ calls'[h].at = "stamp" /\ calls'[h].cart = c /\ calls'[h].items = Saleable(cart[c].items)
      /\ calls'[h].version = cart[c].version
  BY <1>1, Turned
<1>3. cart' = cart /\ Steady' = Steady /\ cart[c].version \in Nat
  BY DEF Steady, Attach, SameRows, Shape, RowsShape
<1>4. ASSUME NEW s PROVE PartFits(Steady, s, Saleable(cart[c].items), cart[c].items)
  <2> DEFINE items == cart[c].items
             S     == LinesOf(s, items) \cap sellable
  <2>1. LeftOut(Steady, s, S, items)
    BY DEF LeftOut, Steady
  <2>2. SameAt(s, Saleable(items), Only(S, items))
    <3> SUFFICES ASSUME NEW v \in Variants, StoreOf[v] = s
                 PROVE  /\ Saleable(items)[v] > 0 <=> Only(S, items)[v] > 0
                        /\ Only(S, items)[v] > 0 => Saleable(items)[v] = Only(S, items)[v]
      BY DEF SameAt
    <3>1. v \in S <=> items[v] > 0 /\ v \in sellable
      BY DEF LinesOf, Lines
    <3>2. CASE v \in S
      BY <3>1, <3>2 DEF Saleable, Only
    <3>3. CASE v \notin S
      BY <3>1, <3>3 DEF Saleable, Only
    <3> QED BY <3>2, <3>3
  <2> QED BY <2>1, <2>2 DEF PartFits
<1>5. StampFits(h)'
  BY <1>1, <1>2, <1>3, <1>4 DEF StampFits
<1> QED BY <1>2, <1>5 DEF CallFits, PriceFits, CommitFits

LEMMA CoverFits ==
  ASSUME Shape, NEW h \in Handlers, StampFits(h), Cover(h), \A c \in CartIds, s \in Stores : QuoteFits(c, s)
  PROVE  CallFits(h)' /\ \A c \in CartIds, s \in Stores : QuoteFits(c, s)'
<1> DEFINE call == calls[h]
           c    == call.cart
<1>1. PICK s \in StoresOf(call.items) :
        /\ quote' = [quote EXCEPT ![c][s] =
             [stamp |-> cart[c].version, fee |-> Fee(s, call.items), clean |-> cart[c].version = call.version]]
        /\ Turns(h, Idle) \/ Turns(h, [call EXCEPT !.items = Without(s, @)])
  BY DEF Cover
<1>2. call.at = "stamp" /\ cart' = cart /\ UNCHANGED <<sellable, relisted>> /\ Steady' = Steady
  BY DEF Cover, Steady
<1>3. c \in CartIds /\ cart[c].version \in Nat /\ s \in Stores /\ DOMAIN quote = CartIds /\ DOMAIN quote[c] = Stores
  BY <1>2, InStores DEF Shape, RowsShape, CallShape
<1>4. /\ cart[c].status # "NONE"
      /\ call.version = cart[c].version =>
           \A t \in StoresOf(call.items) : PartFits(Steady, t, call.items, cart[c].items)
  BY <1>2 DEF StampFits
<1>5. call.version = cart[c].version => FeeFits(Steady, s, Fee(s, call.items), cart[c].items)
  BY <1>4, PartFee
<1>6. /\ quote'[c][s] = [stamp |-> cart[c].version, fee |-> Fee(s, call.items), clean |-> cart[c].version = call.version]
      /\ \A b \in CartIds, t \in Stores : b # c \/ t # s => quote'[b][t] = quote[b][t]
  BY <1>1, <1>3
<1>7. quote'[c][s].stamp = cart[c].version /\ quote'[c][s].fee = Fee(s, call.items)
      /\ quote'[c][s].clean = (cart[c].version = call.version)
  BY <1>6
<1>8. ASSUME NEW b \in CartIds, NEW t \in Stores PROVE QuoteFits(b, t)'
  <2>1. CASE b = c /\ t = s
    <3>1. quote'[b][t].stamp \in Nat /\ quote'[b][t].stamp <= cart'[b].version /\ cart'[b].status # "NONE"
      BY <1>2, <1>3, <1>4, <1>7, <2>1
    <3>2. quote'[b][t].clean => FeeFits(Steady', t, quote'[b][t].fee, cart'[b].items)
      BY <1>2, <1>5, <1>7, <2>1
    <3> QED BY <3>1, <3>2 DEF QuoteFits
  <2>2. CASE ~(b = c /\ t = s)
    <3>1. quote'[b][t] = quote[b][t]
      BY <1>6, <2>2
    <3>2. Aged
      BY MovesAge, <1>2
    <3> QED BY <3>1, <3>2, QuoteAges
  <2> QED BY <2>1, <2>2
<1>9. CASE Turns(h, Idle)
  BY <1>8, <1>9, Turned, IdleShape, OtherKindsFit
<1>10. CASE Turns(h, [call EXCEPT !.items = Without(s, @)])
  <2> DEFINE d == [call EXCEPT !.items = Without(s, @)]
  <2>1. d.at = "stamp" /\ d.cart = c /\ d.version = call.version /\ d.items = Without(s, call.items)
    BY <1>2 DEF Shape, CallShape
  <2> HIDE DEF d
  <2>2. calls'[h] = d
    BY <1>10, Turned DEF d
  <2>3. ASSUME NEW t \in StoresOf(d.items) PROVE t # s /\ t \in StoresOf(call.items) /\ SameAt(t, d.items, call.items)
    BY <2>1, <2>3 DEF StoresOf, Lines, Without, SameAt
  <2>4. ASSUME NEW t \in StoresOf(d.items), call.version = cart[c].version
        PROVE  PartFits(Steady, t, d.items, cart[c].items)
    <3>1. SameAt(t, d.items, call.items)
      BY <2>3, <2>4
    <3>2. PICK S \in SUBSET LinesOf(t, cart[c].items) :
            SameAt(t, call.items, Only(S, cart[c].items)) /\ LeftOut(Steady, t, S, cart[c].items)
      BY <1>4, <2>3, <2>4 DEF PartFits
    <3>3. SameAt(t, d.items, Only(S, cart[c].items))
      BY <3>1, <3>2 DEF SameAt
    <3> QED BY <3>2, <3>3 DEF PartFits
  <2>5. call.version \in Nat /\ call.version <= cart[c].version
    BY <1>2 DEF StampFits
  <2>6. StampFits(h)'
    BY <1>2, <1>4, <2>1, <2>2, <2>4, <2>5 DEF StampFits
  <2> QED BY <1>8, <2>1, <2>2, <2>6 DEF CallFits, PriceFits, CommitFits
<1> QED BY <1>1, <1>8, <1>9, <1>10

LEMMA DraftFits ==
  ASSUME Shape, NEW h \in Handlers, Draft(h)
  PROVE  CallFits(h)'
<1>1. PICK c \in ActiveCarts(calls[h].user) :
        Turns(h, [at |-> "price", user |-> calls[h].user, key |-> calls[h].key, body |-> calls[h].body,
                  cart |-> c, items |-> cart[c].items, ids |-> cart[c].ids, price |-> price, seen |-> Seen(c),
                  todo |-> StoresOf(cart[c].items), quoted |-> [s \in Stores |-> NotPriced]])
  BY DEF Draft
<1>2. /\ calls'[h].at = "price" /\ calls'[h].cart = c /\ calls'[h].items = cart[c].items
      /\ calls'[h].seen.version = cart[c].version /\ calls'[h].todo = StoresOf(cart[c].items)
  BY <1>1, Turned DEF Seen
<1>3. cart' = cart /\ cart[c].version \in Nat /\ cart[c].status # "NONE"
  BY <1>1 DEF Draft, SameRows, Shape, RowsShape, ActiveCarts
<1>4. PriceFits(h)'
  BY <1>2, <1>3 DEF PriceFits
<1> QED BY <1>2, <1>4 DEF CallFits, StampFits, CommitFits

LEMMA PricedFits ==
  ASSUME Shape, NEW h \in Handlers, PriceFits(h), Priced(h), \A c \in CartIds, s \in Stores : QuoteFits(c, s)
  PROVE  CallFits(h)'
<1> DEFINE call == calls[h]
           c    == call.cart
<1>1. PICK s, r :
        /\ s \in call.todo \cap Stores
        /\ quote[c][s] # NoQuote /\ quote[c][s].stamp = cart[c].version
        /\ r.delivery = quote[c][s].fee /\ r.clean = quote[c][s].clean
        /\ Turns(h, [call EXCEPT !.todo = @ \ {s}, !.quoted = [@ EXCEPT ![s] = r]])
  BY DEF Priced
<1>2. call.at = "price" /\ cart' = cart /\ Steady' = Steady /\ c \in CartIds
  BY DEF Steady, Priced, SameRows, Shape, CallShape
<1> DEFINE d == [call EXCEPT !.todo = @ \ {s}, !.quoted = [@ EXCEPT ![s] = r]]
<1>3. /\ d.at = "price" /\ d.cart = c /\ d.items = call.items /\ d.seen = call.seen /\ d.todo = call.todo \ {s}
      /\ d.quoted = [call.quoted EXCEPT ![s] = r] /\ DOMAIN call.quoted = Stores
  BY <1>2 DEF Shape, CallShape
<1> HIDE DEF d
<1>4. d.quoted[s] = r /\ \A t : t # s /\ t \in Stores => d.quoted[t] = call.quoted[t]
  BY <1>1, <1>3
<1>5. calls'[h] = d
  BY <1>1, Turned DEF d
<1>6. QuoteFits(c, s)
  BY <1>1, <1>2
<1>7. r.clean => FeeFits(Steady, s, r.delivery, cart[c].items)
  BY <1>1, <1>6 DEF QuoteFits
<1>8. /\ cart[c].status # "NONE" /\ call.seen.version \in Nat /\ call.seen.version <= cart[c].version
      /\ call.seen.version = cart[c].version => call.items = cart[c].items
  BY <1>2 DEF PriceFits
<1>9. ASSUME call.seen.version = cart[c].version, NEW t \in StoresOf(d.items) \ d.todo, d.quoted[t].clean
      PROVE  FeeFits(Steady, t, d.quoted[t].delivery, d.items)
  <2>1. CASE t = s
    BY <1>3, <1>4, <1>7, <1>8, <1>9, <2>1
  <2>2. CASE t # s
    <3>1. t \in StoresOf(call.items) \ call.todo /\ t \in Stores
      BY <1>3, <1>9, <2>2, InStores
    <3> QED BY <1>2, <1>3, <1>4, <1>9, <2>2, <3>1 DEF PriceFits
  <2> QED BY <2>1, <2>2
<1>10. PriceFits(h)'
  BY <1>2, <1>3, <1>5, <1>8, <1>9 DEF PriceFits
<1> QED BY <1>3, <1>5, <1>10, SMTT(30) DEF CallFits, StampFits, CommitFits

LEMMA EnterFits ==
  ASSUME Shape, NEW h \in Handlers, PriceFits(h), Enter(h)
  PROVE  CallFits(h)'
<1> DEFINE call == calls[h]
           now  == cart[call.cart]
<1>1. /\ calls'[h].at = "commit" /\ calls'[h].items = now.items /\ calls'[h].quoted = call.quoted
      /\ calls'[h].quiet = (call.seen = Seen(call.cart))
  BY Turned DEF Enter, Entered
<1>2. /\ call.at = "price" /\ call.todo = {} /\ now.items = call.items /\ Lines(now.items) \subseteq sellable
  BY DEF Enter, SameLines
<1>3. calls'[h].quiet => call.seen.version = now.version
  <2> SUFFICES ASSUME calls'[h].quiet PROVE call.seen.version = now.version
    OBVIOUS
  <2>1. call.seen = Seen(call.cart)
    BY <1>1, Zenon
  <2> QED BY <2>1 DEF Seen
<1>4. ASSUME calls'[h].quiet, NEW s \in StoresOf(now.items), call.quoted[s].clean
      PROVE  DeliveryFits(relisted', s, call.quoted[s].delivery, now.items)
  <2>1. FeeFits(Steady, s, call.quoted[s].delivery, call.items)
    BY <1>2, <1>3, <1>4 DEF PriceFits
  <2>2. LinesOf(s, call.items) \subseteq sellable
    BY <1>2 DEF LinesOf
  <2>3. relisted' = relisted
    BY DEF Enter, SameRows
  <2> QED BY <1>2, <2>1, <2>2, <2>3 DEF FeeFits, DeliveryFits, LeftOut, Steady
<1>5. CommitFits(h)'
  BY <1>1, <1>4 DEF CommitFits
<1> QED BY <1>1, <1>5 DEF CallFits, StampFits, PriceFits

LEMMA CommitFitsOrder ==
  ASSUME Shape, NEW h \in Handlers, CommitFits(h), Commit(h), \A i \in DOMAIN orders : OrderFits(i)
  PROVE  \A i \in DOMAIN orders' : OrderFits(i)'
<1> DEFINE call == calls[h]
           o    == TheOrder(call)
<1>1. PICK n \in Nat \ {0} :
        /\ DOMAIN orders' = DOMAIN orders \cup {n}
        /\ orders'[n] = o
        /\ \A i \in DOMAIN orders : orders'[i] = orders[i]
  BY OrderAdded
<1>2. /\ o.items = call.items /\ o.quiet = call.quiet
      /\ \A s \in StoresOf(call.items) : o.clean[s] = call.quoted[s].clean /\ o.delivery[s] = call.quoted[s].delivery
  BY DEF TheOrder, Column
<1> HIDE DEF o
<1>3. call.at = "commit" /\ relisted' = relisted
  BY DEF Commit
<1>4. OrderFits(n)'
  BY <1>1, <1>2, <1>3 DEF OrderFits, CommitFits
<1>5. ASSUME NEW i \in DOMAIN orders PROVE OrderFits(i)'
  BY <1>1, <1>3 DEF OrderFits
<1> QED BY <1>1, <1>4, <1>5

LEMMA DeliveryKept ==
  ASSUME Shape, DeliveryInv, NEW h \in Handlers, CallMoves(h)
  PROVE  DeliveryInv'
<1> DEFINE call == calls[h]
<1>0. CallShape(call)
  BY DEF Shape
<1>1. Aged
  BY MovesAge
<1>2. ASSUME NEW d, Turns(h, d)
      PROVE  calls'[h] = d /\ \A g \in Handlers \ {h} : CallFits(g)'
  BY <1>1, <1>2, Turned, CallAges DEF DeliveryInv
<1>3. ASSUME quote' = quote PROVE \A c \in CartIds, s \in Stores : QuoteFits(c, s)'
  BY <1>1, <1>3, QuoteAges DEF DeliveryInv
<1>4. ASSUME orders' = orders PROVE \A i \in DOMAIN orders' : OrderFits(i)'
  BY <1>1, <1>4, OrderAges DEF DeliveryInv
<1>5. ASSUME quote' = quote, orders' = orders, NEW d, Turns(h, d), CallFits(h)' PROVE DeliveryInv'
  BY <1>2, <1>3, <1>4, <1>5 DEF DeliveryInv
<1>6. ASSUME quote' = quote, orders' = orders, NEW d, Turns(h, d), d.at \notin {"stamp", "price", "commit"}
      PROVE  DeliveryInv'
  BY <1>2, <1>5, <1>6, OtherKindsFit
<1>7. CASE Light(h) \/ Open(h) \/ Write(h)
  BY <1>6, <1>7 DEF Light, Open, Write, Plain, SameRows
<1>8. CASE Look(h)
  <2>1. [call EXCEPT !.at = "create", !.orders = OrdersOf(call.user)].at = "create"
    BY <1>0, <1>8 DEF Look, CallShape
  <2> QED BY <1>6, <1>8, <2>1 DEF Look, SameRows
<1>9. CASE Lose(h)
  <2>1. [call EXCEPT !.at = "reload"].at = "reload"
    BY <1>0, <1>9 DEF Lose, CallShape
  <2> QED BY <1>6, <1>9, <2>1 DEF Lose, SameRows
<1>10. CASE Attach(h)
  BY <1>5, <1>10, AttachFits DEF Attach, SameRows
<1>11. CASE Cover(h)
  <2>1. CallFits(h)' /\ \A c \in CartIds, s \in Stores : QuoteFits(c, s)'
    BY <1>11, CoverFits DEF DeliveryInv, CallFits
  <2>2. \A g \in Handlers \ {h} : CallFits(g)'
    BY <1>2, <1>11 DEF Cover
  <2>3. \A i \in DOMAIN orders' : OrderFits(i)'
    BY <1>4, <1>11 DEF Cover
  <2> QED BY <2>1, <2>2, <2>3 DEF DeliveryInv
<1>12. CASE Draft(h)
  BY <1>5, <1>12, DraftFits DEF Draft, SameRows
<1>13. CASE Priced(h)
  <2>1. CallFits(h)'
    BY <1>13, PricedFits DEF DeliveryInv, CallFits
  <2> QED BY <1>5, <1>13, <2>1 DEF Priced, SameRows
<1>14. CASE Enter(h)
  <2>1. CallFits(h)'
    BY <1>14, EnterFits DEF DeliveryInv, CallFits
  <2> QED BY <1>5, <1>14, <2>1 DEF Enter, SameRows
<1>15. CASE Commit(h)
  <2>1. quote' = quote /\ Turns(h, Idle)
    BY <1>15 DEF Commit
  <2>2. \A i \in DOMAIN orders' : OrderFits(i)'
    BY <1>15, CommitFitsOrder DEF DeliveryInv, CallFits
  <2>3. CallFits(h)' /\ \A g \in Handlers \ {h} : CallFits(g)'
    BY <1>2, <2>1, IdleShape, OtherKindsFit
  <2> QED BY <1>3, <2>1, <2>2, <2>3 DEF DeliveryInv
<1> QED BY <1>7, <1>8, <1>9, <1>10, <1>11, <1>12, <1>13, <1>14, <1>15 DEF CallMoves

LEMMA InitDelivery == Init => DeliveryInv
<1> SUFFICES ASSUME Init PROVE DeliveryInv
  OBVIOUS
<1>1. ASSUME NEW c \in CartIds, NEW s \in Stores PROVE QuoteFits(c, s)
  <2> DEFINE items == Only(sellable, FirstItems)
             S     == LinesOf(s, FirstItems) \cap sellable
  <2>1. CASE c = 1 /\ s \in StoresOf(items)
    <3>1. quote[c][s] = [stamp |-> 1, fee |-> Fee(s, items), clean |-> TRUE]
      BY <2>1 DEF Init
    <3>2. cart[c] = [owner |-> FirstBuyer, status |-> "ACTIVE", items |-> FirstItems, ids |-> NoLines, version |-> 1]
      BY <2>1 DEF Init, CartInit
    <3>3. LeftOut(Steady, s, S, FirstItems)
      BY DEF LeftOut, Steady
    <3>4. SameAt(s, items, Only(S, FirstItems))
      BY DEF SameAt, Only, LinesOf, Lines
    <3>5. PartFits(Steady, s, items, FirstItems)
      BY <3>3, <3>4 DEF PartFits
    <3>6. FeeFits(Steady, s, Fee(s, items), FirstItems)
      BY <3>5, PartFee
    <3> HIDE DEF items
    <3> QED BY <3>1, <3>2, <3>6 DEF QuoteFits
  <2>2. CASE ~(c = 1 /\ s \in StoresOf(items))
    BY <2>2 DEF Init, QuoteFits
  <2> QED BY <2>1, <2>2
<1>2. \A h \in Handlers : CallFits(h)
  BY IdleShape DEF Init, CartInit, CallFits, StampFits, PriceFits, CommitFits
<1>3. DOMAIN orders = {}
  BY DEF Init
<1> QED BY <1>1, <1>2, <1>3 DEF DeliveryInv

(* What an order charges for delivery was quoted for the lines it sells at   *)
(* that store, in the quantities it sells, up to lines that were off sale    *)
(* when the carrier was asked and have been put back since; unless the cart *)
(* was edited while the carrier was asked or while it was checked out.      *)
THEOREM DeliveryIsForTheLines == Spec => []DeliveryQuotedForLines
<1>1. Shape /\ DeliveryInv /\ [Next]_vars => DeliveryInv'
  <2>1. ASSUME Shape, DeliveryInv, Aged, UNCHANGED <<calls, orders>>,
               \A c \in CartIds : \A s \in Stores : quote'[c][s] \in {quote[c][s], NoQuote}
        PROVE  DeliveryInv'
    <3>1. \A c \in CartIds, s \in Stores : QuoteFits(c, s)'
      BY <2>1, QuoteAges DEF DeliveryInv
    <3>2. \A g \in Handlers : CallFits(g)'
      BY <2>1, CallAges DEF DeliveryInv
    <3>3. \A i \in DOMAIN orders' : OrderFits(i)'
      BY <2>1, OrderAges DEF DeliveryInv
    <3> QED BY <3>1, <3>2, <3>3 DEF DeliveryInv
  <2>2. ASSUME Shape, DeliveryInv, UNCHANGED vars PROVE DeliveryInv'
    BY <2>1, <2>2, MovesAge DEF vars, carts, buying
  <2>3. ASSUME Shape, DeliveryInv, Lapse PROVE DeliveryInv'
    BY <2>1, <2>3, MovesAge DEF Lapse
  <2> QED BY <2>2, <2>3, Kinds, DeliveryKept
<1>2. DeliveryInv => DeliveryQuotedForLines
  BY DEF DeliveryInv, OrderFits, DeliveryFits, DeliveryQuotedForLines
<1> QED BY <1>1, <1>2, InitDelivery, Shapes, PTL DEF Spec

-----------------------------------------------------------------------------
(* Amounts are natural numbers.                                              *)
LEMMA Finite ==
  ASSUME NEW s, NEW items
  PROVE  /\ IsFiniteSet(Variants) /\ IsFiniteSet(Stores)
         /\ IsFiniteSet(Lines(items)) /\ IsFiniteSet(LinesOf(s, items)) /\ IsFiniteSet(StoresOf(items))
         /\ StoresOf(items) \subseteq Stores /\ LinesOf(s, items) \subseteq Variants /\ Lines(items) \subseteq Variants
<1>1. IsFiniteSet(Variants)
  BY StoresAssumption, ListFinite
<1>2. IsFiniteSet(Stores)
  <2>1. StoreSeq \in Seq(Stores)
    BY StoresAssumption
  <2> QED BY <2>1, ListFinite DEF Stores
<1>3. StoresOf(items) \subseteq Stores
  BY InStores
<1>4. LinesOf(s, items) \subseteq Variants /\ Lines(items) \subseteq Variants
  BY DEF LinesOf, Lines
<1> QED BY <1>1, <1>2, <1>3, <1>4, FS_Subset

LEMMA Product ==
  ASSUME NEW a \in Nat, NEW b \in Nat
  PROVE  a * b \in Nat
OBVIOUS

LEMMA PartNat ==
  ASSUME NEW items \in Quantities, NEW p \in Amounts, NEW s
  PROVE  \A v \in LinesOf(s, items) : Part(s, items, p)[v] \in Nat
<1> SUFFICES ASSUME NEW v \in LinesOf(s, items) PROVE items[v] * p[v] \in Nat
  BY DEF Part
<1>1. items[v] \in Nat /\ p[v] \in Nat
  BY CartsAssumption, Finite DEF Quantities, Amounts
<1> QED BY <1>1, Product

LEMMA SubtotalNat ==
  ASSUME NEW items \in Quantities, NEW p \in Amounts, NEW s
  PROVE  Subtotal(s, items, p) \in Nat
BY PartNat, Finite, TotalNat DEF Subtotal

LEMMA FeeNat ==
  ASSUME NEW items \in Quantities, NEW s
  PROVE  Fee(s, items) \in Nat
<1>1. Weight \in Amounts
  BY PricesAssumption DEF Amounts
<1> QED BY <1>1, SubtotalNat DEF Fee

LEMMA RateNat ==
  ASSUME NEW base \in Nat, NEW bps \in Nat
  PROVE  rateAmount(base, bps) \in Nat
<1>1. base * bps \in Nat
  BY Product
<1> DEFINE m == base * bps
<1>2. rateAmount(base, bps) = m \div 10000
  BY DEF rateAmount
<1> HIDE DEF m
<1> QED BY <1>1, <1>2 DEF m

LEMMA RuleTyping ==
  ASSUME NEW vendor, NEW category
  PROVE  chooseRule(Rules, vendor, category).rateBps \in Nat
<1>1. IsFiniteSet(Rules) /\ Ranked(Rules)
  BY ONLY RulesAssumption DEF Ranked
<1>2. \A r \in Rules : r.rateBps \in Nat
  BY ONLY RulesAssumption
<1> QED BY ONLY <1>1, <1>2, RateOfRule

LEMMA CommissionNat ==
  ASSUME NEW items \in Quantities, NEW p \in Amounts, NEW s
  PROVE  Commission(s, items, p) \in Nat
<1> DEFINE bps(v) == chooseRule(Rules, VendorOf[s], CategoryOf[v]).rateBps
           f == [v \in LinesOf(s, items) |-> rateAmount(items[v] * p[v], bps(v))]
<1>1. ASSUME NEW v \in LinesOf(s, items) PROVE f[v] \in Nat
  <2>1. items[v] * p[v] \in Nat
    BY PartNat DEF Part
  <2>2. bps(v) \in Nat
    BY RuleTyping
  <2> HIDE DEF bps
  <2> QED BY <2>1, <2>2, RateNat
<1>2. Commission(s, items, p) = Total(f, LinesOf(s, items))
  BY DEF Commission
<1> HIDE DEF f
<1> QED BY <1>1, <1>2, Finite, TotalNat

(* What a fixed promotion gives a store of a cart.                           *)
FixedShare(s, items, p) ==
  allocateFixedDiscount(Promotion.value, Subtotals(items, p), StoresOf(items), LastIn(StoresOf(items), StoreSeq))[s]

LEMMA LastStore ==
  ASSUME NEW items, StoresOf(items) # {}
  PROVE  LastIn(StoresOf(items), StoreSeq) \in StoresOf(items)
<1>1. StoreSeq \in Seq(Stores) /\ StoresOf(items) \subseteq {StoreSeq[i] : i \in DOMAIN StoreSeq}
  BY StoresAssumption, Finite DEF Stores
<1> QED BY <1>1, LastIsOne

LEMMA FixedShareFits ==
  ASSUME NEW items \in Quantities, NEW p \in Amounts, NEW s \in StoresOf(items)
  PROVE  FixedShare(s, items, p) \in Nat /\ FixedShare(s, items, p) <= Subtotal(s, items, p)
<1> DEFINE stores == StoresOf(items)
           sub    == Subtotals(items, p)
           last   == LastIn(stores, StoreSeq)
           share  == allocateFixedDiscount(Promotion.value, sub, stores, last)
<1>1. IsFiniteSet(stores) /\ stores \subseteq Stores /\ last \in stores /\ Promotion.value \in Nat
  BY Finite, LastStore, PromotionAssumption
<1>2. \A t \in stores : sub[t] = Subtotal(t, items, p) /\ sub[t] \in Nat
  BY <1>1, SubtotalNat DEF Subtotals
<1>3. FixedShare(s, items, p) = share[s]
  BY DEF FixedShare
<1> HIDE DEF sub, last
<1>4. share \in [stores -> Nat] /\ \A t \in stores : share[t] <= sub[t]
  <2> HIDE DEF stores
  <2> QED BY <1>1, <1>2, FixedDiscountAddsUp
<1> QED BY <1>2, <1>3, <1>4

LEMMA DiscountFits ==
  ASSUME price \in Amounts, NEW now \in Quantities, NEW s \in Stores, NEW sub \in Nat
  PROVE  Discount(s, now, sub) \in Nat /\ Discount(s, now, sub) <= sub
<1> DEFINE d == CASE Promotion.type = "PERCENTAGE" -> rateAmount(sub, Promotion.value)
                  [] OTHER -> IF s \in StoresOf(now) THEN FixedShare(s, now, price) ELSE 0
<1>1. Promotion.value \in Nat
  BY PromotionAssumption
<1>2. d \in Nat
  BY <1>1, RateNat, FixedShareFits
<1>3. Discount(s, now, sub) = IF d > sub THEN sub ELSE d
  BY DEF Discount, FixedShare
<1> HIDE DEF d
<1> QED BY <1>2, <1>3

-----------------------------------------------------------------------------
(* Types: what a call carries, and what the rows hold.                       *)
AmountsTyped(r) == r.discount \in Nat /\ r.tax \in Nat /\ r.commission \in Nat /\ r.delivery \in Nat
CallTyped(c) ==
  /\ c.at \in {"idle", "find", "create", "reload", "read", "write", "delete", "stamp", "draft", "price", "commit"}
  /\ (c.at \in {"find", "create", "reload"} /\ c.op = "add") => c.variant \in Variants
  /\ c.at \in {"find", "create", "reload", "read", "write", "delete", "stamp"} => c.user \in Users
  /\ c.at \in {"read", "write", "delete"} => c.variant \in Variants
  /\ c.at = "write" => c.next \in 0..MaxQuantity
  /\ c.at \in {"stamp", "price", "commit"} => c.items \in Quantities
  /\ c.at \in {"draft", "price", "commit"} => c.body \in Bodies
  /\ c.at \in {"price", "commit"} => c.price \in Amounts /\ \A s \in Stores : AmountsTyped(c.quoted[s])

CartTyped(r) ==
  /\ r.owner \in Users \cup {"none"} /\ r.status \in {"NONE", "ACTIVE", "CONVERTED"}
  /\ r.items \in Quantities /\ r.ids \in Amounts /\ r.version \in Nat
LeftTyped == left \in [{"request", "checkout", "move"} -> Nat]
RowsTyped ==
  /\ DOMAIN cart = CartIds /\ \A c \in CartIds : CartTyped(cart[c])
  /\ sellable \subseteq Variants /\ available \in Amounts
  /\ OrderTypeOK /\ price \in Amounts /\ promoOn \in BOOLEAN
  /\ keys \in [Users -> [Keys -> 0..Len(orders)]]
  /\ \A c \in CartIds, s \in Stores : quote[c][s].fee \in Nat
  /\ LeftTyped
TypeInv == RowsTyped /\ \A h \in Handlers : CallTyped(calls[h])

LEMMA TypedTurn ==
  ASSUME Shape, TypeInv, NEW h \in Handlers, NEW c, Turns(h, c), CallTyped(c), RowsTyped'
  PROVE  TypeInv'
<1>1. \A g \in Handlers : CallTyped(calls'[g])
  BY Turned DEF TypeInv
<1> QED BY <1>1 DEF TypeInv

LEMMA SameTyped ==
  ASSUME RowsTyped, UNCHANGED <<cart, sellable, available, orders, price, promoOn, keys, quote>>, LeftTyped'
  PROVE  RowsTyped'
<1>1. OrderTypeOK'
  BY DEF RowsTyped, OrderTypeOK
<1> QED BY <1>1 DEF RowsTyped

LEMMA Spent ==
  ASSUME LeftTyped, NEW kind \in {"request", "checkout", "move"}, Spend(kind)
  PROVE  LeftTyped' /\ left'[kind] < left[kind] /\ \A k \in {"request", "checkout", "move"} : left'[k] <= left[k]
BY DEF LeftTyped, Spend

LEMMA SameLeft ==
  ASSUME LeftTyped, left' = left
  PROVE  LeftTyped'
BY DEF LeftTyped

LEMMA OneCart ==
  ASSUME RowsTyped, UNCHANGED <<sellable, available, orders, price, promoOn, keys, quote, left>>,
         DOMAIN cart' = CartIds, NEW c \in CartIds, CartTyped(cart'[c]), \A b \in CartIds \ {c} : cart'[b] = cart[b]
  PROVE  RowsTyped'
<1>1. OrderTypeOK' /\ LeftTyped'
  BY DEF RowsTyped, OrderTypeOK, LeftTyped
<1>2. \A b \in CartIds : CartTyped(cart'[b])
  BY DEF RowsTyped
<1> QED BY <1>1, <1>2 DEF RowsTyped

LEMMA IdleTyped == CallTyped(Idle)
BY DEF CallTyped, Idle

LEMMA ViewTyped ==
  ASSUME NEW u \in Users
  PROVE  CallTyped(View(u))
BY DEF CallTyped, View

LEMMA NoLinesTyped == NoLines \in Quantities /\ NoLines \in Amounts
BY CartsAssumption DEF NoLines, Quantities, Amounts

(* A request that begins.                                                    *)
LEMMA RequestTyped ==
  ASSUME Shape, TypeInv, NEW h \in Handlers, NEW d, CallTyped(d), Turns(h, d),
         UNCHANGED <<cart, sellable, available, orders>>, UNCHANGED buying,
         NEW kind \in {"request", "checkout"}, Spend(kind)
  PROVE  TypeInv'
<1>1. LeftTyped'
  BY Spent DEF TypeInv, RowsTyped
<1>2. RowsTyped'
  BY <1>1, SameTyped DEF TypeInv, buying
<1> QED BY <1>2, TypedTurn

LEMMA BeginsTyped ==
  ASSUME Shape, TypeInv, NEW h \in Handlers, Request(h)
  PROVE  TypeInv'
<1>1. ASSUME NEW u \in Users, ViewCart(h, u), UNCHANGED buying PROVE TypeInv'
  BY <1>1, ViewTyped, RequestTyped DEF ViewCart, Become, Turns
<1>2. ASSUME NEW u \in Users, NEW v \in Variants, AddItem(h, u, v), UNCHANGED buying PROVE TypeInv'
  <2> DEFINE d == [at |-> "find", op |-> "add", user |-> u, orders |-> 0, variant |-> v, seen |-> available[v]]
  <2>1. CallTyped(d)
    BY DEF CallTyped
  <2>2. Turns(h, d)
    BY <1>2 DEF AddItem, Become, Turns
  <2> HIDE DEF d
  <2> QED BY <1>2, <2>1, <2>2, RequestTyped DEF AddItem
<1>3. ASSUME NEW u \in Users, NEW v \in Variants, NEW n \in 1..MaxQuantity, UpdateItem(h, u, v, n), UNCHANGED buying
      PROVE  TypeInv'
  <2> DEFINE d == [at |-> "write", op |-> "update", user |-> u, variant |-> v, cart |-> TheCart(u), next |-> n]
  <2>1. n \in 0..MaxQuantity
    BY CartsAssumption
  <2>2. CallTyped(d)
    BY <2>1 DEF CallTyped
  <2>3. Turns(h, d)
    BY <1>3 DEF UpdateItem, Become, Turns
  <2> HIDE DEF d
  <2> QED BY <1>3, <2>2, <2>3, RequestTyped DEF UpdateItem
<1>4. ASSUME NEW u \in Users, NEW v \in Variants, RemoveItem(h, u, v), UNCHANGED buying PROVE TypeInv'
  <2> DEFINE d == [at |-> "delete", user |-> u, variant |-> v, cart |-> TheCart(u), id |-> cart[TheCart(u)].ids[v]]
  <2>1. CallTyped(d)
    BY DEF CallTyped
  <2>2. Turns(h, d)
    BY <1>4 DEF RemoveItem, Become, Turns
  <2> HIDE DEF d
  <2> QED BY <1>4, <2>1, <2>2, RequestTyped DEF RemoveItem
<1>5. ASSUME NEW u \in Users, QuoteCart(h, u) PROVE TypeInv'
  <2> DEFINE d == [at |-> "find", op |-> "quote", user |-> u, orders |-> 0]
  <2>1. CallTyped(d)
    BY DEF CallTyped
  <2>2. Turns(h, d)
    BY <1>5 DEF QuoteCart, Become, Turns
  <2> HIDE DEF d
  <2> QED BY <1>5, <2>1, <2>2, RequestTyped DEF QuoteCart
<1>6. ASSUME NEW u \in Users, NEW k \in Keys, NEW b \in Bodies, StartCheckout(h, u, k, b) PROVE TypeInv'
  <2> DEFINE d == [at |-> "draft", user |-> u, key |-> k, body |-> b]
  <2>1. CallTyped(d)
    BY DEF CallTyped
  <2>2. Turns(h, d)
    BY <1>6 DEF StartCheckout, Become, Turns
  <2> HIDE DEF d
  <2> QED BY <1>6, <2>1, <2>2, RequestTyped DEF StartCheckout
<1>7. ASSUME CartRequest(h), UNCHANGED buying PROVE TypeInv'
  BY <1>1, <1>2, <1>3, <1>4, <1>7 DEF CartRequest
<1> QED BY <1>5, <1>6, <1>7 DEF Request

(* A call that has found its cart.                                           *)
LEMMA OnwardTyped ==
  ASSUME NEW call, CallTyped(call), call.at \in {"find", "create", "reload"},
         NEW c, c.items \in Quantities, NEW d, Onward(d, call, c)
  PROVE  CallTyped(d)
<1>1. call.user \in Users /\ (call.op = "add" => call.variant \in Variants)
  BY DEF CallTyped
<1>2. CASE d = [at |-> "read", op |-> "add", user |-> call.user, variant |-> call.variant, seen |-> call.seen, cart |-> c.id]
           /\ call.op = "add"
  BY <1>1, <1>2 DEF CallTyped
<1>3. CASE d = [at |-> "stamp", op |-> "quote", user |-> call.user, cart |-> c.id,
                items |-> [v \in Variants |-> IF v \in sellable /\ c.items[v] > 0 THEN c.items[v] ELSE 0],
                version |-> c.version]
  <2> DEFINE items == [v \in Variants |-> IF v \in sellable /\ c.items[v] > 0 THEN c.items[v] ELSE 0]
  <2>1. items \in Quantities
    <3>1. 0 \in 0..MaxQuantity
      BY CartsAssumption
    <3> QED BY <3>1 DEF Quantities
  <2>2. d.at = "stamp" /\ d.user = call.user /\ d.items = items
    BY <1>3
  <2> HIDE DEF items
  <2> QED BY <1>1, <2>1, <2>2 DEF CallTyped
<1> QED BY <1>2, <1>3, IdleTyped DEF Onward

LEMMA FoundTyped ==
  ASSUME RowsTyped, NEW u, ActiveCarts(u) # {}
  PROVE  Found(TheCart(u)).items \in Quantities
<1>1. TheCart(u) \in CartIds
  BY ChosenCart
<1> QED BY <1>1 DEF RowsTyped, CartTyped, Found

LEMMA CartStepTyped ==
  ASSUME Shape, TypeInv, NEW h \in Handlers, CartStep(h), UNCHANGED buying
  PROVE  TypeInv'
<1> DEFINE call == calls[h]
           u    == call.user
<1>0. RowsTyped /\ CallTyped(call) /\ CallShape(call) /\ UNCHANGED <<price, promoOn, quote, keys>>
  BY DEF TypeInv, buying, Shape
<1>1. ASSUME call.at \in {"find", "reload"}, UNCHANGED <<cart, sellable, available, orders, left>>,
             ActiveCarts(u) # {}, Proceed(h, Found(TheCart(u)))
      PROVE  TypeInv'
  <2>1. PICK d : Turns(h, d) /\ Onward(d, call, Found(TheCart(u)))
    BY <1>1, Proceeds
  <2>2. CallTyped(d)
    BY <1>0, <1>1, <2>1, FoundTyped, OnwardTyped
  <2>3. RowsTyped'
    BY <1>0, <1>1, SameLeft, SameTyped DEF RowsTyped
  <2> QED BY <2>1, <2>2, <2>3, TypedTurn
<1>2. ASSUME UNCHANGED <<cart, sellable, available, orders, left>>, NEW d, Turns(h, d), CallTyped(d)
      PROVE  TypeInv'
  <2>1. RowsTyped'
    BY <1>0, <1>2, SameLeft, SameTyped DEF RowsTyped
  <2> QED BY <1>2, <2>1, TypedTurn
<1>3. CASE FindCart(h)
  <2>1. call.at = "find" /\ UNCHANGED <<cart, sellable, available, orders, left>>
    BY <1>3 DEF FindCart
  <2>2. CASE ActiveCarts(u) # {}
    BY <1>1, <1>3, <2>1, <2>2 DEF FindCart
  <2>3. CASE ActiveCarts(u) = {}
    <3> DEFINE d == [call EXCEPT !.at = "create", !.orders = OrdersOf(u)]
    <3>1. calls' = [calls EXCEPT ![h].at = "create", ![h].orders = OrdersOf(u)]
      BY <1>3, <2>3 DEF FindCart
    <3>2. Turns(h, d)
      BY <3>1 DEF Turns, Shape
    <3>3. "at" \in DOMAIN call /\ d.at = "create" /\ d.user = call.user /\ d.op = call.op /\ d.variant = call.variant
      BY <1>0 DEF CallShape
    <3> HIDE DEF d
    <3>4. CallTyped(d)
      BY <1>0, <2>1, <3>3 DEF CallTyped
    <3> QED BY <1>2, <2>1, <3>2, <3>4
  <2> QED BY <2>2, <2>3
<1>4. CASE CreateCart(h)
  <2>1. call.at = "create" /\ UNCHANGED <<sellable, available, orders, left>>
    BY <1>4 DEF CreateCart
  <2>2. CASE calls' = [calls EXCEPT ![h].at = "reload"] /\ UNCHANGED cart
    <3> DEFINE d == [call EXCEPT !.at = "reload"]
    <3>1. Turns(h, d)
      BY <2>2 DEF Turns, Shape
    <3>2. "at" \in DOMAIN call /\ d.at = "reload" /\ d.user = call.user /\ d.op = call.op /\ d.variant = call.variant
      BY <1>0 DEF CallShape
    <3> HIDE DEF d
    <3>3. CallTyped(d)
      BY <1>0, <2>1, <3>2 DEF CallTyped
    <3> QED BY <1>2, <2>1, <2>2, <3>1, <3>3
  <2>3. CASE FreshCarts # {} /\ Proceed(h, [id |-> FreshCart, items |-> NoLines, version |-> 1])
             /\ cart' = [cart EXCEPT ![FreshCart] =
                  [owner |-> u, status |-> "ACTIVE", items |-> NoLines, ids |-> NoLines, version |-> 1]]
    <3> DEFINE c == [id |-> FreshCart, items |-> NoLines, version |-> 1]
               r == [owner |-> u, status |-> "ACTIVE", items |-> NoLines, ids |-> NoLines, version |-> 1]
    <3>1. FreshCart \in CartIds
      BY <2>3 DEF FreshCart, FreshCarts
    <3>2. PICK d : Turns(h, d) /\ Onward(d, call, c)
      BY <2>1, <2>3, Proceeds
    <3>3. c.items \in Quantities
      BY NoLinesTyped
    <3>4. CallTyped(d)
      <4> HIDE DEF c
      <4> QED BY <1>0, <2>1, <3>2, <3>3, OnwardTyped
    <3>5. u \in Users
      BY <1>0, <2>1 DEF CallTyped
    <3>6. CartTyped(r)
      BY <3>5, NoLinesTyped DEF CartTyped
    <3>7. DOMAIN cart' = CartIds /\ cart'[FreshCart] = r /\ \A b \in CartIds \ {FreshCart} : cart'[b] = cart[b]
      BY <1>0, <2>3, <3>1 DEF RowsTyped
    <3> HIDE DEF r
    <3>8. RowsTyped'
      BY <1>0, <2>1, <3>1, <3>6, <3>7, OneCart
    <3> QED BY <3>2, <3>4, <3>8, TypedTurn
  <2> QED BY <1>4, <2>2, <2>3 DEF CreateCart
<1>5. CASE ReloadCart(h)
  <2>1. call.at = "reload" /\ UNCHANGED <<cart, sellable, available, orders, left>>
    BY <1>5 DEF ReloadCart
  <2>2. CASE ActiveCarts(u) # {}
    BY <1>1, <1>5, <2>1, <2>2 DEF ReloadCart
  <2>3. CASE ActiveCarts(u) = {}
    <3>1. Turns(h, Idle)
      BY <1>5, <2>3 DEF ReloadCart, Answer, Turns
    <3> QED BY <1>2, <2>1, <3>1, IdleTyped
  <2> QED BY <2>2, <2>3
<1>6. CASE ReadItem(h)
  <2> DEFINE next == cart[call.cart].items[call.variant] + 1
             d    == [at |-> "write", op |-> "add", user |-> call.user, variant |-> call.variant,
                      cart |-> call.cart, next |-> next]
  <2>1. call.at = "read" /\ UNCHANGED <<cart, sellable, available, orders, left>>
    BY <1>6 DEF ReadItem
  <2>2. CASE Answer(h)
    BY <1>2, <2>1, <2>2, IdleTyped DEF Answer, Turns
  <2>3. CASE ~(next > MaxQuantity) /\ Become(h, d)
    <3>1. call.user \in Users /\ call.variant \in Variants /\ call.cart \in CartIds
      BY <1>0, <2>1 DEF CallTyped, CallShape
    <3>2. next \in 0..MaxQuantity
      <4>1. cart[call.cart].items[call.variant] \in 0..MaxQuantity
        BY <1>0, <3>1 DEF RowsTyped, CartTyped, Quantities
      <4> QED BY <2>3, <4>1, CartsAssumption
    <3> HIDE DEF next
    <3>3. CallTyped(d)
      BY <3>1, <3>2 DEF CallTyped
    <3>4. Turns(h, d)
      BY <2>3 DEF Become, Turns
    <3> QED BY <1>2, <2>1, <3>3, <3>4
  <2> QED BY <1>6, <2>2, <2>3 DEF ReadItem
<1>7. CASE SetItemQuantity(h)
  <2> DEFINE c == call.cart
             v == call.variant
             n == IF cart[c].items[v] = 0 THEN cart[c].version + 1 ELSE cart[c].ids[v]
             a == [cart EXCEPT ![c].items[v] = call.next]
             b == [a EXCEPT ![c].ids[v] = n]
  <2>1. call.at = "write" /\ UNCHANGED <<sellable, available, orders, left>>
    BY <1>7 DEF SetItemQuantity
  <2>2. c \in CartIds /\ v \in Variants /\ call.next \in 0..MaxQuantity /\ call.user \in Users
    BY <1>0, <2>1, SMTT(30) DEF CallShape, CallTyped
  <2>3. cart' = [b EXCEPT ![c].version = Stamped(c)]
    BY <1>7 DEF SetItemQuantity
  <2>4. CartTyped(cart[c]) /\ DOMAIN cart[c] = Columns
    BY <1>0, <2>2 DEF RowsTyped, Shape, RowsShape
  <2>5. n \in Nat
    BY <2>2, <2>4 DEF CartTyped, Amounts
  <2>6. DOMAIN a = CartIds /\ DOMAIN a[c] = Columns /\ (\A x \in CartIds \ {c} : a[x] = cart[x])
        /\ a[c].owner = cart[c].owner /\ a[c].status = cart[c].status
        /\ a[c].ids = cart[c].ids /\ a[c].items = [cart[c].items EXCEPT ![v] = call.next]
    BY <2>2 DEF Shape, RowsShape, Columns
  <2> HIDE DEF a, n
  <2>7. DOMAIN b = CartIds /\ DOMAIN b[c] = Columns /\ (\A x \in CartIds \ {c} : b[x] = cart[x])
        /\ b[c].owner = cart[c].owner /\ b[c].status = cart[c].status
        /\ b[c].items = a[c].items /\ b[c].ids = [cart[c].ids EXCEPT ![v] = n]
    BY <2>2, <2>6 DEF Columns
  <2> HIDE DEF b
  <2>8. DOMAIN cart' = CartIds /\ (\A x \in CartIds \ {c} : cart'[x] = cart[x])
        /\ cart'[c].owner = cart[c].owner /\ cart'[c].status = cart[c].status
        /\ cart'[c].items = b[c].items /\ cart'[c].ids = b[c].ids
        /\ cart'[c].version = cart[c].version + 1
    BY <2>2, <2>3, <2>7, SMTT(30) DEF Columns, Stamped
  <2>9. cart'[c].items \in Quantities /\ cart'[c].ids \in Amounts
    <3>1. cart[c].items \in Quantities /\ cart[c].ids \in Amounts
      BY <2>4 DEF CartTyped
    <3>2. cart'[c].items = [cart[c].items EXCEPT ![v] = call.next]
      BY <2>6, <2>7, <2>8
    <3>3. cart'[c].ids = [cart[c].ids EXCEPT ![v] = n]
      BY <2>6, <2>7, <2>8
    <3> QED BY ONLY <2>2, <2>5, <3>1, <3>2, <3>3 DEF Quantities, Amounts
  <2>10. CartTyped(cart'[c])
    BY <2>4, <2>8, <2>9 DEF CartTyped
  <2>11. RowsTyped'
    BY <1>0, <2>1, <2>2, <2>8, <2>10, OneCart, SMTT(30)
  <2>12. Turns(h, Idle) \/ Turns(h, View(call.user))
    BY <1>7 DEF SetItemQuantity, Answer, Become, Turns
  <2> QED BY <2>2, <2>11, <2>12, IdleTyped, ViewTyped, TypedTurn, SMTT(30)
<1>8. CASE DeleteItem(h)
  <2> DEFINE c == call.cart
             v == call.variant
             a == [cart EXCEPT ![c].items[v] = 0]
  <2>1. call.at = "delete" /\ UNCHANGED <<sellable, available, orders, left>>
    BY <1>8 DEF DeleteItem
  <2>2. c \in CartIds /\ v \in Variants /\ call.user \in Users
    BY <1>0, <2>1 DEF CallShape, CallTyped
  <2>3. CASE Answer(h) /\ UNCHANGED cart
    BY <1>2, <2>1, <2>3, IdleTyped DEF Answer, Turns
  <2>4. CASE /\ cart' = [cart EXCEPT ![c].items[v] = 0, ![c].version = Stamped(c)]
             /\ Become(h, View(call.user))
    <3>1. cart' = [a EXCEPT ![c].version = Stamped(c)]
      BY <2>4
    <3>2. CartTyped(cart[c]) /\ DOMAIN cart[c] = Columns
      BY <1>0, <2>2 DEF RowsTyped, Shape, RowsShape
    <3>3. DOMAIN a = CartIds /\ DOMAIN a[c] = Columns /\ (\A x \in CartIds \ {c} : a[x] = cart[x])
          /\ a[c].owner = cart[c].owner /\ a[c].status = cart[c].status
          /\ a[c].ids = cart[c].ids /\ a[c].items = [cart[c].items EXCEPT ![v] = 0]
      BY <2>2 DEF Shape, RowsShape, Columns
    <3> HIDE DEF a
    <3>4. DOMAIN cart' = CartIds /\ (\A x \in CartIds \ {c} : cart'[x] = cart[x])
          /\ cart'[c].owner = cart[c].owner /\ cart'[c].status = cart[c].status
          /\ cart'[c].items = a[c].items /\ cart'[c].ids = cart[c].ids
          /\ cart'[c].version = cart[c].version + 1
      BY <2>2, <3>1, <3>3 DEF Columns, Stamped
    <3>5. cart'[c].items \in Quantities
      <4>1. 0 \in 0..MaxQuantity
        BY CartsAssumption
      <4> QED BY <2>2, <3>2, <3>3, <3>4, <4>1 DEF CartTyped, Quantities
    <3>6. CartTyped(cart'[c])
      BY <3>2, <3>4, <3>5 DEF CartTyped
    <3>7. RowsTyped'
      BY <1>0, <2>1, <2>2, <3>4, <3>6, OneCart
    <3>8. Turns(h, View(call.user))
      BY <2>4 DEF Become, Turns
    <3> QED BY <2>2, <3>7, <3>8, ViewTyped, TypedTurn
  <2> QED BY <1>8, <2>3, <2>4 DEF DeleteItem
<1> QED BY <1>3, <1>4, <1>5, <1>6, <1>7, <1>8 DEF CartStep

LEMMA StampTyped ==
  ASSUME Shape, TypeInv, NEW h \in Handlers, StampQuote(h)
  PROVE  TypeInv'
<1> DEFINE call == calls[h]
           c    == call.cart
<1>1. /\ call.at = "stamp" /\ UNCHANGED <<cart, sellable, available, orders, left, price, promoOn, keys>>
      /\ c \in CartIds /\ call.items \in Quantities /\ call.user \in Users /\ RowsTyped
  BY DEF StampQuote, TypeInv, Shape, CallShape, CallTyped
<1>2. ASSUME \A x \in CartIds, s \in Stores : quote'[x][s].fee \in Nat, NEW d, Turns(h, d), CallTyped(d)
      PROVE  TypeInv'
  <2>1. OrderTypeOK' /\ LeftTyped'
    BY <1>1, SameLeft DEF RowsTyped, OrderTypeOK
  <2>2. RowsTyped'
    BY <1>1, <1>2, <2>1 DEF RowsTyped
  <2> QED BY <1>2, <2>2, TypedTurn
<1>3. CASE Answer(h) /\ UNCHANGED quote
  BY <1>1, <1>2, <1>3, IdleTyped DEF Answer, Turns, RowsTyped
<1>4. ASSUME NEW s \in StoresOf(call.items),
             quote' = [quote EXCEPT ![c][s] = [stamp |-> cart[c].version, fee |-> Fee(s, call.items),
                                               clean |-> cart[c].version = call.version]],
             Answer(h) \/ calls' = [calls EXCEPT ![h].items = Without(s, @)]
      PROVE  TypeInv'
  <2> DEFINE q == [stamp |-> cart[c].version, fee |-> Fee(s, call.items), clean |-> cart[c].version = call.version]
  <2>1. q.fee \in Nat
    BY <1>1, FeeNat
  <2> HIDE DEF q
  <2>2. \A x \in CartIds, t \in Stores : quote'[x][t] = q \/ quote'[x][t] = quote[x][t]
    BY <1>1, <1>4 DEF Shape, RowsShape, q
  <2>3. \A x \in CartIds, t \in Stores : quote'[x][t].fee \in Nat
    BY <1>1, <2>1, <2>2 DEF RowsTyped
  <2>4. CASE Answer(h)
    BY <1>2, <2>3, <2>4, IdleTyped DEF Answer, Turns
  <2>5. CASE calls' = [calls EXCEPT ![h].items = Without(s, @)]
    <3> DEFINE d == [call EXCEPT !.items = Without(s, @)]
    <3>1. Turns(h, d)
      BY <2>5 DEF Turns, Shape
    <3>2. Without(s, call.items) \in Quantities
      <4>1. 0 \in 0..MaxQuantity
        BY CartsAssumption
      <4> QED BY <1>1, <4>1 DEF Without, Quantities
    <3>3. d.at = "stamp" /\ d.user = call.user /\ d.items = Without(s, call.items)
      BY <1>1 DEF Shape, CallShape
    <3> HIDE DEF d
    <3>4. CallTyped(d)
      BY <1>1, <3>2, <3>3 DEF CallTyped
    <3> QED BY <1>2, <2>3, <3>1, <3>4
  <2> QED BY <1>4, <2>4, <2>5
<1> QED BY <1>3, <1>4 DEF StampQuote

(* What a store is quoted.                                                   *)
Quoted(h, s) ==
  LET call == calls[h]
      sub  == Subtotal(s, call.items, call.price)
      d    == IF call.body = "promo" THEN Discount(s, NowIn(call.cart), sub) ELSE 0
      q    == quote[call.cart][s]
  IN [discount |-> d, tax |-> rateAmount(sub - d, TaxBps),
      commission |-> Commission(s, call.items, call.price), delivery |-> q.fee, clean |-> q.clean]

LEMMA QuotedTyped ==
  ASSUME Shape, TypeInv, NEW h \in Handlers, calls[h].at = "price", NEW s \in Stores
  PROVE  AmountsTyped(Quoted(h, s)) /\ Quoted(h, s).discount <= Subtotal(s, calls[h].items, calls[h].price)
<1> DEFINE call == calls[h]
           sub  == Subtotal(s, call.items, call.price)
           now  == NowIn(call.cart)
           d    == IF call.body = "promo" THEN Discount(s, now, sub) ELSE 0
<1>1. call.items \in Quantities /\ call.price \in Amounts /\ call.cart \in CartIds /\ price \in Amounts /\ RowsTyped
  BY DEF TypeInv, RowsTyped, CallTyped, Shape, CallShape
<1>2. sub \in Nat /\ Commission(s, call.items, call.price) \in Nat
  BY <1>1, SubtotalNat, CommissionNat
<1>3. now \in Quantities
  BY <1>1, NoLinesTyped DEF NowIn, RowsTyped, CartTyped
<1>4. d \in Nat /\ d <= sub
  <2> HIDE DEF now, sub
  <2> QED BY <1>1, <1>2, <1>3, DiscountFits
<1>5. rateAmount(sub - d, TaxBps) \in Nat
  <2>1. TaxBps \in Nat
    BY PricesAssumption
  <2> HIDE DEF sub, d
  <2>2. sub - d \in Nat
    BY <1>2, <1>4
  <2> QED BY <2>1, <2>2, RateNat
<1>6. quote[call.cart][s].fee \in Nat
  BY <1>1 DEF RowsTyped
<1> DEFINE r == Quoted(h, s)
<1>7. /\ r.discount = d /\ r.tax = rateAmount(sub - d, TaxBps) /\ r.commission = Commission(s, call.items, call.price)
      /\ r.delivery = quote[call.cart][s].fee
  BY DEF Quoted
<1> HIDE DEF d, sub, r
<1>8. AmountsTyped(r)
  BY <1>2, <1>4, <1>5, <1>6, <1>7 DEF AmountsTyped
<1> QED BY <1>4, <1>7, <1>8 DEF sub, r

(* How a store's part is priced: the call keeps everything else.             *)
LEMMA QuoteTurns ==
  ASSUME Shape, NEW h \in Handlers, NEW s \in Stores, QuoteStore(h, s)
  PROVE  /\ calls[h].at = "price" /\ s \in calls[h].todo
         /\ UNCHANGED <<cart, sellable, available, orders, left, buying>>
         /\ \/ Turns(h, Idle)
            \/ /\ calls[h].body = "promo" => PromotionCovers(calls[h].user, CartTotal(NowIn(calls[h].cart), price))
               /\ cart[calls[h].cart].status = "ACTIVE"
               /\ \E d : /\ Turns(h, d)
                         /\ \A f \in {"at", "user", "key", "body", "cart", "items", "ids", "price", "seen"} :
                              d[f] = calls[h][f]
                         /\ d.todo = calls[h].todo \ {s}
                         /\ d.quoted = [calls[h].quoted EXCEPT ![s] = Quoted(h, s)]
<1> DEFINE call == calls[h]
<1>1. call.at = "price" /\ s \in call.todo /\ UNCHANGED <<cart, sellable, available, orders, left, buying>>
  BY DEF QuoteStore
<1>2. CASE Answer(h)
  BY <1>1, <1>2 DEF Answer, Turns
<1>3. CASE /\ call.body = "promo" => PromotionCovers(call.user, CartTotal(NowIn(call.cart), price))
           /\ cart[call.cart].status = "ACTIVE"
           /\ calls' = [calls EXCEPT ![h].todo = @ \ {s}, ![h].quoted[s] = Quoted(h, s)]
  <2> DEFINE r == Quoted(h, s)
             d == [call EXCEPT !.todo = @ \ {s}, !.quoted = [@ EXCEPT ![s] = r]]
  <2> HIDE DEF r
  <2>1. Turns(h, d)
    BY <1>1, <1>3 DEF Turns, Shape, CallShape, r
  <2>2. /\ d.at = call.at /\ d.user = call.user /\ d.key = call.key /\ d.body = call.body /\ d.cart = call.cart
        /\ d.items = call.items /\ d.ids = call.ids /\ d.price = call.price /\ d.seen = call.seen
        /\ d.todo = call.todo \ {s} /\ d.quoted = [call.quoted EXCEPT ![s] = r]
    BY <1>1 DEF Shape, CallShape
  <2> HIDE DEF d
  <2>3. \A f \in {"at", "user", "key", "body", "cart", "items", "ids", "price", "seen"} : d[f] = call[f]
    BY <2>2
  <2> QED BY <1>1, <1>3, <2>1, <2>2, <2>3 DEF r
<1> QED BY <1>1, <1>2, <1>3 DEF QuoteStore, Quoted

LEMMA DraftTyped ==
  ASSUME Shape, TypeInv, NEW h \in Handlers, ReadDraft(h)
  PROVE  TypeInv'
<1> DEFINE call == calls[h]
           c    == TheCart(call.user)
<1>1. /\ call.at = "draft" /\ UNCHANGED <<cart, sellable, available, orders, left, buying>>
      /\ RowsTyped /\ call.body \in Bodies
  BY DEF ReadDraft, TypeInv, CallTyped
<1>2. RowsTyped'
  BY <1>1, SameTyped, SameLeft DEF RowsTyped, buying
<1>3. CASE ActiveCarts(call.user) # {} /\ Lines(cart[c].items) # {}
  <2> DEFINE d == [at |-> "price", user |-> call.user, key |-> call.key, body |-> call.body,
                   cart |-> c, items |-> cart[c].items, ids |-> cart[c].ids, price |-> price, seen |-> Seen(c),
                   todo |-> StoresOf(cart[c].items), quoted |-> [s \in Stores |-> NotPriced]]
  <2>1. Turns(h, d)
    BY <1>3 DEF ReadDraft, Become, Turns
  <2>2. c \in CartIds /\ cart[c].items \in Quantities /\ price \in Amounts
    BY <1>1, <1>3, ChosenCart DEF RowsTyped, CartTyped
  <2>3. \A s \in Stores : AmountsTyped(d.quoted[s])
    BY DEF AmountsTyped, NotPriced
  <2>4. CallTyped(d)
    BY <1>1, <2>2, <2>3 DEF CallTyped
  <2> HIDE DEF d
  <2> QED BY <1>2, <2>1, <2>4, TypedTurn
<1>4. CASE ~(ActiveCarts(call.user) # {} /\ Lines(cart[c].items) # {})
  <2>1. Turns(h, Idle)
    BY <1>4 DEF ReadDraft, Answer, Turns
  <2> QED BY <1>2, <2>1, IdleTyped, TypedTurn
<1> QED BY <1>3, <1>4

LEMMA QuoteTyped ==
  ASSUME Shape, TypeInv, NEW h \in Handlers, NEW s \in Stores, QuoteStore(h, s)
  PROVE  TypeInv'
<1> DEFINE call == calls[h]
<1>1. call.at = "price" /\ UNCHANGED <<cart, sellable, available, orders, left, buying>> /\ RowsTyped
  BY QuoteTurns DEF TypeInv
<1>2. RowsTyped'
  BY <1>1, SameTyped, SameLeft DEF RowsTyped, buying
<1>3. CASE Turns(h, Idle)
  BY <1>2, <1>3, IdleTyped, TypedTurn
<1>4. ASSUME NEW d, Turns(h, d), \A f \in {"at", "user", "key", "body", "cart", "items", "ids", "price", "seen"} : d[f] = call[f],
             d.quoted = [call.quoted EXCEPT ![s] = Quoted(h, s)]
      PROVE  TypeInv'
  <2>1. d.at = "price" /\ d.items = call.items /\ d.body = call.body /\ d.price = call.price
    BY <1>1, <1>4
  <2>2. CallTyped(call) /\ DOMAIN call.quoted = Stores
    BY <1>1 DEF TypeInv, Shape, CallShape
  <2>3. AmountsTyped(Quoted(h, s))
    BY <1>1, QuotedTyped
  <2>4. \A t \in Stores : d.quoted[t] = Quoted(h, s) \/ d.quoted[t] = call.quoted[t]
    BY <1>4, <2>2
  <2>5. \A t \in Stores : AmountsTyped(d.quoted[t])
    BY <1>1, <2>2, <2>3, <2>4 DEF CallTyped
  <2>6. CallTyped(d)
    BY <1>1, <2>1, <2>2, <2>5 DEF CallTyped
  <2> QED BY <1>2, <1>4, <2>6, TypedTurn
<1> QED BY <1>3, <1>4, QuoteTurns

LEMMA BeginTyped ==
  ASSUME Shape, TypeInv, NEW h \in Handlers, BeginCreate(h)
  PROVE  TypeInv'
<1> DEFINE call == calls[h]
<1>1. call.at = "price" /\ UNCHANGED <<cart, sellable, available, orders, left, buying>> /\ RowsTyped
  BY DEF BeginCreate, TypeInv
<1>2. RowsTyped'
  BY <1>1, SameTyped, SameLeft DEF RowsTyped, buying
<1>3. CASE Turns(h, Entered(h))
  <2>1. cart[call.cart].items \in Quantities /\ price \in Amounts /\ CallTyped(call)
    BY <1>1 DEF TypeInv, RowsTyped, CartTyped, Shape, CallShape
  <2>2. CallTyped(Entered(h))
    BY <1>1, <2>1 DEF CallTyped, Entered
  <2> QED BY <1>2, <1>3, <2>2, TypedTurn
<1>4. CASE Turns(h, Idle)
  BY <1>2, <1>4, IdleTyped, TypedTurn
<1> QED BY <1>3, <1>4 DEF BeginCreate, Entered, Become, Answer, Turns

LEMMA OrderTyped ==
  ASSUME Shape, TypeInv, NEW h \in Handlers, calls[h].at = "commit"
  PROVE  LET o == TheOrder(calls[h]) IN
         /\ o.user \in Users /\ o.key \in Keys /\ o.body \in Bodies
         /\ o.cart \in CartIds /\ o.items \in Quantities /\ o.price \in Amounts
         /\ \A column \in {"discount", "tax", "commission", "delivery"} : o[column] \in [StoresOf(o.items) -> Nat]
<1> DEFINE call == calls[h]
           o    == TheOrder(call)
<1>1. CallTyped(call) /\ CallShape(call)
  BY DEF TypeInv, Shape
<1>2. \A s \in StoresOf(call.items) : AmountsTyped(call.quoted[s])
  BY <1>1, InStores DEF CallTyped
<1>3. /\ Column(call, "discount") \in [StoresOf(call.items) -> Nat] /\ Column(call, "tax") \in [StoresOf(call.items) -> Nat]
      /\ Column(call, "commission") \in [StoresOf(call.items) -> Nat]
      /\ Column(call, "delivery") \in [StoresOf(call.items) -> Nat]
  BY <1>2 DEF Column, AmountsTyped
<1>4. /\ o.user = call.user /\ o.key = call.key /\ o.body = call.body /\ o.cart = call.cart /\ o.items = call.items
      /\ o.price = call.price /\ o.discount = Column(call, "discount") /\ o.tax = Column(call, "tax")
      /\ o.commission = Column(call, "commission") /\ o.delivery = Column(call, "delivery")
  BY DEF TheOrder
<1> HIDE DEF o
<1>5. call.user \in Users /\ call.key \in Keys /\ call.body \in Bodies /\ call.cart \in CartIds
      /\ call.items \in Quantities /\ call.price \in Amounts
  BY <1>1 DEF CallShape, CallTyped
<1>6. \A column \in {"discount", "tax", "commission", "delivery"} : o[column] \in [StoresOf(o.items) -> Nat]
  BY <1>3, <1>4
<1> QED BY <1>4, <1>5, <1>6 DEF o

LEMMA CommitTyped ==
  ASSUME Shape, TypeInv, NEW h \in Handlers, CommitCheckout(h)
  PROVE  TypeInv'
<1> DEFINE call == calls[h]
           c    == call.cart
<1>1. call.at = "commit" /\ UNCHANGED <<sellable, left, price, promoOn, quote>> /\ Turns(h, Idle) /\ RowsTyped
  BY DEF CommitCheckout, TypeInv, Answer, Turns
<1>2. CASE UNCHANGED <<orders, available, cart, keys>>
  BY <1>1, <1>2, SameTyped, SameLeft, IdleTyped, TypedTurn DEF RowsTyped
<1>3. CASE ~UNCHANGED <<orders, available, cart, keys>>
  <2>1. Commit(h) /\ StockCovers(call.items) /\ available' = [v \in Variants |-> available[v] - call.items[v]]
    BY <1>1, <1>3 DEF CommitCheckout, Commit
  <2>2. call.user \in Users /\ call.key \in Keys /\ c \in CartIds /\ call.items \in Quantities
    BY <1>1 DEF Shape, CallShape, TypeInv, CallTyped
  <2>3. PICK n \in Nat \ {0} :
           /\ n = Len(orders) + 1 /\ n \notin DOMAIN orders
           /\ DOMAIN orders' = DOMAIN orders \cup {n}
           /\ orders'[n] = TheOrder(call)
           /\ \A i \in DOMAIN orders : orders'[i] = orders[i] /\ i # 0
    BY <2>1, OrderAdded
  <2>4. OrderTypeOK'
    <3>1. \A i \in DOMAIN orders' :
             /\ orders'[i].user \in Users /\ orders'[i].key \in Keys /\ orders'[i].body \in Bodies
             /\ orders'[i].cart \in CartIds /\ orders'[i].items \in Quantities /\ orders'[i].price \in Amounts
             /\ \A column \in {"discount", "tax", "commission", "delivery"} :
                  orders'[i][column] \in [StoresOf(orders'[i].items) -> Nat]
      <4>1. ASSUME NEW i \in DOMAIN orders'
            PROVE  orders'[i] = TheOrder(call) \/ (i \in DOMAIN orders /\ orders'[i] = orders[i])
        BY <2>3
      <4>2. OrderTypeOK
        BY <1>1 DEF RowsTyped
      <4> HIDE DEF call
      <4> QED BY <1>1, <4>1, <4>2, OrderTyped DEF OrderTypeOK, call
    <3> QED BY <3>1 DEF OrderTypeOK
  <2>5. available' \in Amounts
    <3>1. ASSUME NEW v \in Variants PROVE available[v] - call.items[v] \in Nat
      <4>1. available[v] \in Nat /\ call.items[v] \in Nat
        BY <1>1, <2>2, CartsAssumption DEF RowsTyped, Amounts, Quantities
      <4>2. call.items[v] > 0 => available[v] >= call.items[v]
        BY <2>1 DEF StockCovers, Lines
      <4> QED BY <4>1, <4>2
    <3> QED BY <2>1, <3>1 DEF Amounts
  <2>6. DOMAIN cart' = CartIds /\ \A x \in CartIds : CartTyped(cart'[x])
    <3>1. DOMAIN cart' = CartIds /\ (\A x \in CartIds \ {c} : cart'[x] = cart[x])
          /\ cart'[c].owner = cart[c].owner /\ cart'[c].status = "CONVERTED" /\ cart'[c].items = cart[c].items
          /\ cart'[c].ids = cart[c].ids /\ cart'[c].version = cart[c].version + 1
      BY <2>1, <2>2 DEF Commit, Shape, RowsShape, Columns, Stamped
    <3> QED BY <1>1, <2>2, <3>1 DEF RowsTyped, CartTyped
  <2>7. keys' \in [Users -> [Keys -> 0..Len(orders')]]
    <3>1. Len(orders') = n
      <4>1. PICK S : orders \in Seq(S)
        BY DEF Shape, RowsShape
      <4>2. orders \in Seq(S \cup {TheOrder(call)}) /\ orders' = Append(orders, TheOrder(call))
        BY <2>1, <4>1 DEF Commit
      <4> QED BY <2>3, <4>2
    <3>2. keys \in [Users -> [Keys -> 0..Len(orders)]] /\ Len(orders) = n - 1
      <4>1. PICK S : orders \in Seq(S)
        BY DEF Shape, RowsShape
      <4> QED BY <1>1, <2>3, <4>1 DEF RowsTyped
    <3>3. \A m : m \in 0..(n - 1) => m \in 0..n
      BY <2>3
    <3>4. keys' = [keys EXCEPT ![call.user][call.key] = n]
      BY <2>1, <2>3 DEF Commit
    <3>5. n \in 0..n
      BY <2>3
    <3> DEFINE old == 0..(n - 1)
               new == 0..n
    <3>6. keys \in [Users -> [Keys -> old]]
      BY <3>2
    <3>7. (\A m : m \in old => m \in new) /\ n \in new
      BY <3>3, <3>5
    <3> HIDE DEF old, new
    <3>8. keys' \in [Users -> [Keys -> new]]
      BY <2>2, <3>4, <3>6, <3>7
    <3> QED BY <3>1, <3>8 DEF new
  <2>8. LeftTyped' /\ \A x \in CartIds, s \in Stores : quote'[x][s].fee \in Nat
    BY <1>1, SameLeft DEF RowsTyped
  <2>9. RowsTyped'
    BY <1>1, <2>4, <2>5, <2>6, <2>7, <2>8 DEF RowsTyped
  <2> QED BY <1>1, <2>9, IdleTyped, TypedTurn
<1> QED BY <1>2, <1>3

LEMMA MovesTyped ==
  ASSUME Shape, TypeInv, SellersMove
  PROVE  TypeInv'
<1>1. UNCHANGED <<cart, available, calls, orders, keys>> /\ Spend("move") /\ RowsTyped
  BY DEF SellersMove, ChangePrice, Delist, Relist, QuoteExpires, EndPromotion, TypeInv, buying
<1>2. LeftTyped' /\ OrderTypeOK'
  BY <1>1, Spent DEF RowsTyped, OrderTypeOK
<1>3. sellable' \subseteq Variants /\ promoOn' \in BOOLEAN
  <2>1. sellable' \subseteq Variants
    BY MoveKinds DEF Lapse
  <2>2. UNCHANGED promoOn \/ promoOn' = FALSE
    BY DEF SellersMove, ChangePrice, Delist, Relist, QuoteExpires, EndPromotion, buying
  <2> QED BY <1>1, <2>1, <2>2 DEF RowsTyped
<1>4. price' \in Amounts
  <2>1. ASSUME NEW v \in Moving, ChangePrice(v) PROVE price' \in Amounts
    <3>1. NewPrice[v] \in Nat /\ v \in Variants
      BY PricesAssumption
    <3> QED BY <1>1, <2>1, <3>1 DEF ChangePrice, RowsTyped, Amounts
  <2>2. ASSUME price' = price PROVE price' \in Amounts
    BY <1>1, <2>2 DEF RowsTyped
  <2> QED BY <2>1, <2>2 DEF SellersMove, Delist, Relist, QuoteExpires, EndPromotion, buying
<1>5. \A c \in CartIds, s \in Stores : quote'[c][s].fee \in Nat
  <2>1. \A c \in CartIds, s \in Stores : quote'[c][s] \in {quote[c][s], NoQuote}
    BY MoveKinds DEF Lapse
  <2>2. NoQuote.fee \in Nat
    BY DEF NoQuote
  <2> QED BY <1>1, <2>1, <2>2 DEF RowsTyped
<1>6. RowsTyped'
  BY <1>1, <1>2, <1>3, <1>4, <1>5 DEF RowsTyped
<1> QED BY <1>1, <1>6 DEF TypeInv

LEMMA InitTyped == Init => TypeInv
<1> SUFFICES ASSUME Init PROVE TypeInv
  OBVIOUS
<1>1. \A h \in Handlers : CallTyped(calls[h])
  BY IdleTyped DEF Init, CartInit
<1>2. FirstItems \in Quantities /\ NoLines \in Quantities /\ NoLines \in Amounts /\ FirstBuyer \in Users
  BY CartsAssumption, NoLinesTyped DEF Quantities
<1>3. DOMAIN cart = CartIds /\ \A c \in CartIds : CartTyped(cart[c])
  BY <1>2 DEF Init, CartInit, CartTyped, NoCart
<1>4. sellable \subseteq Variants /\ available \in Amounts /\ price \in Amounts /\ promoOn \in BOOLEAN
  BY CartsAssumption, PricesAssumption DEF Init, CartInit, Amounts
<1>5. orders = << >> /\ OrderTypeOK
  BY DEF Init, OrderTypeOK
<1>6. keys \in [Users -> [Keys -> 0..Len(orders)]]
  BY <1>5 DEF Init
<1>7. \A c \in CartIds, s \in Stores : quote[c][s].fee \in Nat
  <2>1. Only(sellable, FirstItems) \in Quantities
    BY <1>2, CartsAssumption DEF Only, Quantities
  <2>2. \A s \in Stores : Fee(s, Only(sellable, FirstItems)) \in Nat
    BY <2>1, FeeNat
  <2> QED BY <2>2 DEF Init, NoQuote
<1>8. LeftTyped
  BY CartsAssumption, BoundsAssumption DEF Init, LeftTyped
<1> QED BY <1>1, <1>3, <1>4, <1>5, <1>6, <1>7, <1>8 DEF TypeInv, RowsTyped

LEMMA TypeKept ==
  ASSUME Shape, TypeInv, [Next]_vars
  PROVE  TypeInv'
<1>1. ASSUME NEW h \in Handlers, Step(h) PROVE TypeInv'
  BY <1>1, CartStepTyped, StampTyped, DraftTyped, QuoteTyped, BeginTyped, CommitTyped DEF Step
<1>2. CASE UNCHANGED vars
  <2>1. RowsTyped'
    BY <1>2, SameTyped, SameLeft DEF vars, carts, buying, TypeInv, RowsTyped
  <2> QED BY <1>2, <2>1 DEF vars, carts, TypeInv
<1> QED BY <1>1, <1>2, BeginsTyped, MovesTyped DEF Next

(* Every column stays in its type, however requests overlap and whatever the *)
(* sellers move: no CHECK constraint on an amount is ever met by an order    *)
(* that is written, and stock never goes below zero.                        *)
THEOREM Typing == Spec => []TypeOK
<1>1. Init => TypeInv
  BY InitTyped
<1>2. Shape /\ TypeInv /\ [Next]_vars => TypeInv'
  BY TypeKept
<1>3. Shape /\ TypeInv => TypeOK
  BY DEF Shape, RowsShape, TypeInv, RowsTyped, CallTyped, CartTyped, TypeOK, CartTypeOK, CallTypeOK
<1> QED BY <1>1, <1>2, <1>3, Shapes, PTL DEF Spec

-----------------------------------------------------------------------------
(* What an order charges follows from what it sells.                         *)

(* A step that prices nothing.                                               *)
NoPricing ==
  UNCHANGED orders /\ \A g \in Handlers : calls'[g].at \in {"price", "commit"} => calls'[g] = calls[g]

LEMMA TurnsNoPricing ==
  ASSUME Shape, NEW h \in Handlers, NEW d, Turns(h, d), d.at \notin {"price", "commit"}, UNCHANGED orders
  PROVE  NoPricing
BY Turned DEF NoPricing

LEMMA KindsPriceNothing ==
  ASSUME Shape, NEW h \in Handlers,
         Light(h) \/ Look(h) \/ Lose(h) \/ Open(h) \/ Write(h) \/ Attach(h) \/ Cover(h)
  PROVE  NoPricing
<1>0. CallShape(calls[h])
  BY DEF Shape
<1>1. CASE Light(h)
  BY <1>1, TurnsNoPricing DEF Light, Plain, SameRows
<1>2. CASE Look(h)
  <2>1. [calls[h] EXCEPT !.at = "create", !.orders = OrdersOf(calls[h].user)].at = "create"
    BY <1>0, <1>2 DEF Look, CallShape
  <2> QED BY <1>2, <2>1, TurnsNoPricing DEF Look, SameRows
<1>3. CASE Lose(h)
  <2>1. [calls[h] EXCEPT !.at = "reload"].at = "reload"
    BY <1>0, <1>3 DEF Lose, CallShape
  <2> QED BY <1>3, <2>1, TurnsNoPricing DEF Lose, SameRows
<1>4. CASE Open(h) \/ Write(h)
  BY <1>4, TurnsNoPricing DEF Open, Write, Plain
<1>5. CASE Attach(h)
  <2>1. PICK c \in CartIds :
          Turns(h, [at |-> "stamp", op |-> "quote", user |-> calls[h].user, cart |-> c,
                    items |-> Saleable(cart[c].items), version |-> cart[c].version])
    BY <1>5 DEF Attach
  <2> QED BY <1>5, <2>1, TurnsNoPricing DEF Attach, SameRows
<1>6. CASE Cover(h)
  <2>1. PICK s : Turns(h, Idle) \/ Turns(h, [calls[h] EXCEPT !.items = Without(s, @)])
    BY <1>6 DEF Cover
  <2>2. [calls[h] EXCEPT !.items = Without(s, @)].at = "stamp"
    BY <1>0, <1>6 DEF Cover, CallShape
  <2> QED BY <1>6, <2>1, <2>2, IdleShape, TurnsNoPricing DEF Cover
<1> QED BY <1>1, <1>2, <1>3, <1>4, <1>5, <1>6

LEMMA PricingSteps ==
  ASSUME Shape, [Next]_vars
  PROVE  \/ NoPricing
         \/ \E h \in Handlers :
              \/ Draft(h) /\ UNCHANGED <<left, price>>
              \/ \E s \in Stores : QuoteStore(h, s)
              \/ Enter(h) \/ Commit(h)
<1>1. ASSUME NEW h \in Handlers, Request(h) PROVE NoPricing
  BY <1>1, CartRequestKinds, CheckoutRequestKinds, KindsPriceNothing DEF Request
<1>2. ASSUME NEW h \in Handlers, Step(h)
      PROVE  \/ NoPricing
             \/ Draft(h) /\ UNCHANGED <<left, price>>
             \/ \E s \in Stores : QuoteStore(h, s)
             \/ Enter(h) \/ Commit(h)
  <2>1. ReadDraft(h) => UNCHANGED <<left, price>>
    BY DEF ReadDraft, buying
  <2> QED BY <1>2, <2>1, CartStepKinds, StampKinds, DraftKinds, BeginKinds, CommitKinds, KindsPriceNothing DEF Step
<1>3. ASSUME SellersMove PROVE NoPricing
  BY <1>3, MoveKinds DEF Lapse, NoPricing
<1>4. ASSUME UNCHANGED vars PROVE NoPricing
  BY <1>4 DEF vars, carts, NoPricing
<1> QED BY <1>1, <1>2, <1>3, <1>4 DEF Next

(* What a store is quoted fits what it sells.                                *)
Fair(s, discount, tax, commission, items, p) ==
  LET sub == Subtotal(s, items, p) IN
  discount <= sub /\ tax = rateAmount(sub - discount, TaxBps) /\ commission = Commission(s, items, p)
FairRow(s, r, items, p) == Fair(s, r.discount, r.tax, r.commission, items, p)
CallFair(c) ==
  /\ c.at = "price"  => \A s \in StoresOf(c.items) \ c.todo : FairRow(s, c.quoted[s], c.items, c.price)
  /\ c.at = "commit" => \A s \in StoresOf(c.items) : FairRow(s, c.quoted[s], c.items, c.price)
OrderFair(o) ==
  \A s \in StoresOf(o.items) : Fair(s, o.discount[s], o.tax[s], o.commission[s], o.items, o.price)
FairInv == (\A h \in Handlers : CallFair(calls[h])) /\ \A i \in DOMAIN orders : OrderFair(orders[i])

LEMMA SameFair ==
  ASSUME NEW items, NEW p, NEW q, \A v \in Lines(items) : p[v] = q[v], NEW s, NEW r, FairRow(s, r, items, p)
  PROVE  FairRow(s, r, items, q)
<1>1. \A v \in LinesOf(s, items) : p[v] = q[v]
  BY DEF LinesOf
<1>2. Part(s, items, p) = Part(s, items, q)
  BY <1>1 DEF Part
<1>3. Subtotal(s, items, p) = Subtotal(s, items, q)
  BY <1>2 DEF Subtotal
<1>4. Commission(s, items, p) = Commission(s, items, q)
  <2> DEFINE f(u) == [v \in LinesOf(s, items) |->
                        rateAmount(items[v] * u[v], chooseRule(Rules, VendorOf[s], CategoryOf[v]).rateBps)]
  <2>1. f(p) = f(q)
    BY <1>1
  <2>2. Commission(s, items, p) = Total(f(p), LinesOf(s, items)) /\ Commission(s, items, q) = Total(f(q), LinesOf(s, items))
    BY DEF Commission
  <2> HIDE DEF f
  <2> QED BY <2>1, <2>2
<1> QED BY <1>3, <1>4 DEF FairRow, Fair

LEMMA FairTurn ==
  ASSUME Shape, FairInv, NEW h \in Handlers, NEW d, Turns(h, d), CallFair(d), orders' = orders
  PROVE  FairInv'
<1>1. \A g \in Handlers : CallFair(calls'[g])
  BY Turned DEF FairInv
<1> QED BY <1>1 DEF FairInv

LEMMA DraftFair ==
  ASSUME Shape, FairInv, NEW h \in Handlers, Draft(h)
  PROVE  FairInv'
<1>1. PICK c \in ActiveCarts(calls[h].user) :
        Turns(h, [at |-> "price", user |-> calls[h].user, key |-> calls[h].key, body |-> calls[h].body,
                  cart |-> c, items |-> cart[c].items, ids |-> cart[c].ids, price |-> price, seen |-> Seen(c),
                  todo |-> StoresOf(cart[c].items), quoted |-> [s \in Stores |-> NotPriced]])
  BY DEF Draft
<1> DEFINE d == [at |-> "price", user |-> calls[h].user, key |-> calls[h].key, body |-> calls[h].body,
                  cart |-> c, items |-> cart[c].items, ids |-> cart[c].ids, price |-> price, seen |-> Seen(c),
                  todo |-> StoresOf(cart[c].items), quoted |-> [s \in Stores |-> NotPriced]]
<1>2. CallFair(d)
  BY DEF CallFair
<1> HIDE DEF d
<1> QED BY <1>1, <1>2, FairTurn DEF Draft, SameRows, d

LEMMA QuoteFair ==
  ASSUME Shape, TypeInv, FairInv, NEW h \in Handlers, NEW s \in Stores, QuoteStore(h, s)
  PROVE  FairInv'
<1> DEFINE call == calls[h]
           r    == Quoted(h, s)
<1>1. call.at = "price" /\ orders' = orders
  BY QuoteTurns
<1>2. FairRow(s, r, call.items, call.price)
  <2> DEFINE sub == Subtotal(s, call.items, call.price)
             d   == IF call.body = "promo" THEN Discount(s, NowIn(call.cart), sub) ELSE 0
  <2>1. r.discount = d /\ r.tax = rateAmount(sub - d, TaxBps) /\ r.commission = Commission(s, call.items, call.price)
    BY DEF Quoted
  <2>2. r.discount <= sub
    BY <1>1, QuotedTyped
  <2> HIDE DEF d, r, sub
  <2> QED BY <2>1, <2>2 DEF FairRow, Fair, sub
<1> HIDE DEF r
<1>3. CASE Turns(h, Idle)
  <2>1. CallFair(Idle)
    BY IdleShape DEF CallFair
  <2> QED BY <1>1, <1>3, <2>1, FairTurn
<1>4. ASSUME NEW d, Turns(h, d), \A f \in {"at", "user", "key", "body", "cart", "items", "ids", "price", "seen"} : d[f] = call[f],
             d.todo = call.todo \ {s}, d.quoted = [call.quoted EXCEPT ![s] = r]
      PROVE  FairInv'
  <2>1. d.at = "price" /\ d.items = call.items /\ d.price = call.price
    BY <1>1, <1>4
  <2>2. CallFair(call) /\ DOMAIN call.quoted = Stores
    BY <1>1 DEF FairInv, Shape, CallShape
  <2>3. ASSUME NEW t \in StoresOf(d.items) \ d.todo PROVE FairRow(t, d.quoted[t], d.items, d.price)
    <3>1. t \in Stores
      BY <2>3, InStores
    <3>2. CASE t = s
      BY <1>2, <1>4, <2>1, <2>2, <3>1, <3>2
    <3>3. CASE t # s
      <4>1. d.quoted[t] = call.quoted[t] /\ t \in StoresOf(call.items) \ call.todo
        BY <1>4, <2>1, <2>2, <2>3, <3>1, <3>3
      <4> QED BY <1>1, <2>1, <2>2, <4>1 DEF CallFair
    <3> QED BY <3>2, <3>3
  <2>4. CallFair(d)
    BY <2>1, <2>3 DEF CallFair
  <2> QED BY <1>1, <1>4, <2>4, FairTurn
<1> QED BY <1>3, <1>4, QuoteTurns DEF r

LEMMA EnterFair ==
  ASSUME Shape, FairInv, NEW h \in Handlers, Enter(h)
  PROVE  FairInv'
<1> DEFINE call == calls[h]
<1>1. call.at = "price" /\ call.todo = {} /\ SameLines(call) /\ Turns(h, Entered(h)) /\ orders' = orders
  BY DEF Enter, SameRows
<1>2. cart[call.cart].items = call.items /\ \A v \in Lines(call.items) : call.price[v] = price[v]
  BY <1>1 DEF SameLines
<1>3. \A s \in StoresOf(call.items) : FairRow(s, call.quoted[s], call.items, price)
  BY <1>1, <1>2, SameFair DEF FairInv, CallFair
<1>4. CallFair(Entered(h))
  BY <1>2, <1>3 DEF CallFair, Entered
<1> QED BY <1>1, <1>4, FairTurn

LEMMA CommitFair ==
  ASSUME Shape, FairInv, NEW h \in Handlers, Commit(h)
  PROVE  FairInv'
<1> DEFINE call == calls[h]
           o    == TheOrder(call)
<1>1. PICK n \in Nat \ {0} :
        /\ DOMAIN orders' = DOMAIN orders \cup {n}
        /\ orders'[n] = o
        /\ \A i \in DOMAIN orders : orders'[i] = orders[i]
  BY OrderAdded
<1>2. call.at = "commit" /\ Turns(h, Idle)
  BY DEF Commit
<1>3. /\ o.items = call.items /\ o.price = call.price
      /\ \A s \in StoresOf(call.items) :
           o.discount[s] = call.quoted[s].discount /\ o.tax[s] = call.quoted[s].tax /\ o.commission[s] = call.quoted[s].commission
  BY DEF TheOrder, Column
<1> HIDE DEF o
<1>4. OrderFair(o)
  BY <1>2, <1>3 DEF FairInv, CallFair, FairRow, OrderFair
<1>5. \A i \in DOMAIN orders' : OrderFair(orders'[i])
  BY <1>1, <1>4 DEF FairInv
<1>6. CallFair(Idle)
  BY IdleShape DEF CallFair
<1>7. \A g \in Handlers : CallFair(calls'[g])
  BY <1>2, <1>6, Turned DEF FairInv
<1> QED BY <1>5, <1>7 DEF FairInv

(* Store by store, an order's discount is within what it sells there, its    *)
(* tax is the rate's on the rest, and its commission the rules' on its       *)
(* lines, though all were worked out from an earlier reading.               *)
THEOREM OrdersArePricedAsBought == Spec => []PricedAsBought
<1>1. Init => TypeInv /\ FairInv
  <2>1. Init => FairInv
    BY IdleShape DEF Init, CartInit, FairInv, CallFair
  <2> QED BY <2>1, InitTyped
<1>2. Shape /\ TypeInv /\ FairInv /\ [Next]_vars => TypeInv' /\ FairInv'
  <2>1. ASSUME FairInv, NoPricing PROVE FairInv'
    <3>1. \A g \in Handlers : CallFair(calls'[g])
      BY <2>1 DEF FairInv, NoPricing, CallFair
    <3> QED BY <2>1, <3>1 DEF FairInv, NoPricing
  <2> QED BY <2>1, TypeKept, PricingSteps, DraftFair, QuoteFair, EnterFair, CommitFair
<1>3. FairInv => PricedAsBought
  BY DEF FairInv, OrderFair, Fair, PricedAsBought
<1> QED BY <1>1, <1>2, <1>3, Shapes, PTL DEF Spec

-----------------------------------------------------------------------------
(* A fixed discount on a cart that is left alone is given whole.             *)

(* Prices move by a seller's move only, and moves are counted.               *)
Counted ==
  /\ left'["move"] \in Nat /\ left'["move"] <= left["move"]
  /\ left'["move"] = left["move"] => price' = price

LEMMA MovesCount ==
  ASSUME Shape, TypeInv, [Next]_vars
  PROVE  Counted
<1>1. LeftTyped /\ left["move"] \in Nat
  BY DEF TypeInv, RowsTyped, LeftTyped
<1>2. ASSUME left' = left, price' = price PROVE Counted
  BY <1>1, <1>2 DEF Counted
<1>3. ASSUME NEW kind \in {"request", "checkout"}, Spend(kind), price' = price PROVE Counted
  <2>1. left' = [left EXCEPT ![kind] = @ - 1]
    BY <1>3 DEF Spend
  <2>2. left'["move"] = left["move"]
    BY ONLY <1>1, <1>3, <2>1 DEF LeftTyped
  <2> QED BY <1>1, <1>3, <2>2 DEF Counted
<1>4. ASSUME Spend("move") PROVE Counted
  BY <1>1, <1>4, Spent DEF Counted, LeftTyped
<1>5. ASSUME NEW h \in Handlers, Request(h) PROVE Counted
  BY <1>3, <1>5, ZenonT(60) DEF Request, CartRequest, ViewCart, AddItem, UpdateItem, RemoveItem, QuoteCart, StartCheckout, buying
<1>6. ASSUME NEW h \in Handlers, Step(h) PROVE Counted
  <2>1. CASE CartStep(h) /\ UNCHANGED buying
    BY <1>2, <2>1 DEF CartStep, FindCart, CreateCart, ReloadCart, ReadItem, SetItemQuantity, DeleteItem, buying
  <2> QED BY <1>2, <1>6, <2>1 DEF Step, StampQuote, ReadDraft, QuoteStore, BeginCreate, CommitCheckout, buying
<1>7. ASSUME SellersMove PROVE Counted
  BY <1>4, <1>7 DEF SellersMove, ChangePrice, Delist, Relist, QuoteExpires, EndPromotion
<1>8. ASSUME UNCHANGED vars PROVE Counted
  BY <1>2, <1>8 DEF vars, carts, buying
<1> QED BY <1>5, <1>6, <1>7, <1>8 DEF Next

(* Each store's discount is its share of what the whole cart sells.          *)
Given(body) == Promotion.type = "FIXED" /\ body = "promo"
SeenWhole(c) ==
  c.at = "price" =>
    LET now == cart[c.cart] IN
    /\ now.status # "NONE" /\ c.seen.version \in Nat /\ c.seen.version <= now.version
    /\ c.seen.moves \in Nat /\ left["move"] <= c.seen.moves
    /\ (c.seen.version = now.version /\ c.seen.moves = left["move"]) =>
         /\ c.items = now.items /\ c.price = price
         /\ Given(c.body) => \A s \in StoresOf(c.items) \ c.todo : c.quoted[s].discount = FixedShare(s, c.items, c.price)
ClaimedWhole(c) ==
  (c.at = "commit" /\ c.quiet /\ Given(c.body)) =>
    \A s \in StoresOf(c.items) : c.quoted[s].discount = FixedShare(s, c.items, c.price)
OrderWhole(o) ==
  (o.quiet /\ Given(o.body)) => \A s \in StoresOf(o.items) : o.discount[s] = FixedShare(s, o.items, o.price)
WholeInv ==
  /\ \A h \in Handlers : SeenWhole(calls[h]) /\ ClaimedWhole(calls[h])
  /\ \A i \in DOMAIN orders : OrderWhole(orders[i])

LEMMA WholeAges ==
  ASSUME Shape, TypeInv, Aged, Counted, NEW g \in Handlers, SeenWhole(calls[g]), ClaimedWhole(calls[g]), calls'[g] = calls[g]
  PROVE  SeenWhole(calls[g])' /\ ClaimedWhole(calls[g])'
<1> DEFINE call == calls[g]
           c    == call.cart
<1>1. ClaimedWhole(calls[g])'
  BY DEF ClaimedWhole, Given
<1>2. CASE call.at = "price"
  <2>1. c \in CartIds /\ cart[c].version \in Nat /\ left["move"] \in Nat
    BY <1>2 DEF Shape, RowsShape, CallShape, TypeInv, RowsTyped, LeftTyped
  <2>2. /\ cart[c].status # "NONE" /\ call.seen.version \in Nat /\ call.seen.version <= cart[c].version
        /\ call.seen.moves \in Nat /\ left["move"] <= call.seen.moves
    BY <1>2 DEF SeenWhole
  <2>3. /\ cart'[c].status # "NONE" /\ call.seen.version <= cart'[c].version
        /\ call.seen.version = cart'[c].version => cart'[c].version = cart[c].version /\ cart'[c].items = cart[c].items
    BY <2>1, <2>2 DEF Aged
  <2>4. /\ left'["move"] <= call.seen.moves
        /\ call.seen.moves = left'["move"] => left'["move"] = left["move"] /\ price' = price
    BY <2>1, <2>2 DEF Counted
  <2>5. (call.seen.version = cart'[c].version /\ call.seen.moves = left'["move"]) =>
          /\ call.items = cart'[c].items /\ call.price = price'
          /\ Given(call.body) =>
               \A s \in StoresOf(call.items) \ call.todo : call.quoted[s].discount = FixedShare(s, call.items, call.price)
    <3> SUFFICES ASSUME call.seen.version = cart'[c].version, call.seen.moves = left'["move"]
                 PROVE  /\ call.items = cart'[c].items /\ call.price = price'
                        /\ Given(call.body) =>
                             \A s \in StoresOf(call.items) \ call.todo :
                               call.quoted[s].discount = FixedShare(s, call.items, call.price)
      OBVIOUS
    <3>1. call.seen.version = cart[c].version /\ call.seen.moves = left["move"]
      BY <2>3, <2>4
    <3> QED BY <1>2, <2>3, <2>4, <3>1 DEF SeenWhole
  <2>6. SeenWhole(calls[g])'
    <3> SUFFICES SeenWhole(calls[g])'
      OBVIOUS
    <3>1. calls'[g] = call
      OBVIOUS
    <3> HIDE DEF call
    <3> QED BY <2>2, <2>3, <2>4, <2>5, <3>1 DEF SeenWhole, Given
  <2> QED BY <1>1, <2>6
<1>3. CASE call.at # "price"
  BY <1>1, <1>3 DEF SeenWhole
<1> QED BY <1>2, <1>3

LEMMA WholeTurn ==
  ASSUME Shape, TypeInv, Aged, Counted, WholeInv, NEW h \in Handlers, NEW d, Turns(h, d),
         SeenWhole(d)', ClaimedWhole(d), orders' = orders
  PROVE  WholeInv'
<1>1. \A g \in Handlers \ {h} : (SeenWhole(calls[g]) /\ ClaimedWhole(calls[g]))'
  BY WholeAges, Turned DEF WholeInv
<1>2. calls'[h] = d
  BY Turned
<1>3. (SeenWhole(calls[h]) /\ ClaimedWhole(calls[h]))'
  BY <1>2 DEF SeenWhole, ClaimedWhole, Given
<1>4. \A i \in DOMAIN orders' : OrderWhole(orders'[i])
  BY DEF WholeInv
<1>5. \A i \in DOMAIN orders' : OrderWhole(orders[i])'
  BY <1>4 DEF OrderWhole, Given
<1> QED BY <1>1, <1>3, <1>5 DEF WholeInv

LEMMA DraftWhole ==
  ASSUME Shape, TypeInv, Aged, Counted, WholeInv, NEW h \in Handlers, Draft(h), left' = left, price' = price
  PROVE  WholeInv'
<1>1. PICK c \in ActiveCarts(calls[h].user) :
        Turns(h, [at |-> "price", user |-> calls[h].user, key |-> calls[h].key, body |-> calls[h].body,
                  cart |-> c, items |-> cart[c].items, ids |-> cart[c].ids, price |-> price, seen |-> Seen(c),
                  todo |-> StoresOf(cart[c].items), quoted |-> [s \in Stores |-> NotPriced]])
  BY DEF Draft
<1>0. PICK d : d = [at |-> "price", user |-> calls[h].user, key |-> calls[h].key, body |-> calls[h].body,
                    cart |-> c, items |-> cart[c].items, ids |-> cart[c].ids, price |-> price, seen |-> Seen(c),
                    todo |-> StoresOf(cart[c].items), quoted |-> [s \in Stores |-> NotPriced]]
  OBVIOUS
<1>2. /\ d.at = "price" /\ d.cart = c /\ d.items = cart[c].items /\ d.price = price
      /\ d.seen.version = cart[c].version /\ d.seen.moves = left["move"] /\ d.todo = StoresOf(cart[c].items)
  BY <1>0 DEF Seen
<1>3. cart' = cart /\ cart[c].version \in Nat /\ cart[c].status # "NONE" /\ orders' = orders /\ left["move"] \in Nat
  BY DEF Draft, SameRows, Shape, RowsShape, ActiveCarts, TypeInv, RowsTyped, LeftTyped
<1>4. SeenWhole(d)' /\ ClaimedWhole(d)
  BY <1>2, <1>3 DEF SeenWhole, ClaimedWhole
<1>5. Turns(h, d)
  BY <1>0, <1>1
<1> QED BY <1>3, <1>4, <1>5, WholeTurn

LEMMA QuoteWhole ==
  ASSUME Shape, TypeInv, Aged, Counted, WholeInv, NEW h \in Handlers, NEW s \in Stores, QuoteStore(h, s)
  PROVE  WholeInv'
<1> DEFINE call == calls[h]
           c    == call.cart
           r    == Quoted(h, s)
<1>1. call.at = "price" /\ UNCHANGED <<cart, orders, left, price>>
  BY QuoteTurns DEF buying
<1>2. c \in CartIds /\ call.items \in Quantities /\ call.price \in Amounts /\ DOMAIN call.quoted = Stores /\ SeenWhole(call)
  BY <1>1 DEF Shape, CallShape, TypeInv, CallTyped, WholeInv
<1>3. CASE Turns(h, Idle)
  <2>1. SeenWhole(Idle)' /\ ClaimedWhole(Idle)
    BY IdleShape DEF SeenWhole, ClaimedWhole
  <2> QED BY <1>1, <1>3, <2>1, WholeTurn
<1>4. ASSUME cart[c].status = "ACTIVE", Given(call.body), call.seen.version = cart[c].version, call.seen.moves = left["move"],
             s \in StoresOf(call.items)
      PROVE  r.discount = FixedShare(s, call.items, call.price)
  <2> DEFINE sub == Subtotal(s, call.items, call.price)
  <2>1. NowIn(c) = call.items /\ price = call.price
    BY <1>1, <1>2, <1>4 DEF SeenWhole, NowIn
  <2>2. r.discount = Discount(s, call.items, sub)
    BY <1>4, <2>1 DEF Quoted, Given
  <2>3. Discount(s, call.items, sub) =
          IF FixedShare(s, call.items, price) > sub THEN sub ELSE FixedShare(s, call.items, price)
    BY <1>4 DEF Discount, FixedShare, Given
  <2>4. FixedShare(s, call.items, call.price) \in Nat /\ FixedShare(s, call.items, call.price) <= sub /\ sub \in Nat
    BY <1>2, <1>4, FixedShareFits, SubtotalNat
  <2>5. ~(FixedShare(s, call.items, call.price) > sub)
    <3> HIDE DEF sub
    <3> QED BY <2>4
  <2> HIDE DEF sub, r
  <2> QED BY <2>1, <2>2, <2>3, <2>5
<1> HIDE DEF r
<1>5. ASSUME cart[c].status = "ACTIVE", NEW d, Turns(h, d),
             \A f \in {"at", "user", "key", "body", "cart", "items", "ids", "price", "seen"} : d[f] = call[f],
             d.todo = call.todo \ {s}, d.quoted = [call.quoted EXCEPT ![s] = r]
      PROVE  WholeInv'
  <2>1. /\ d.at = "price" /\ d.body = call.body /\ d.cart = call.cart
        /\ d.items = call.items /\ d.price = call.price /\ d.seen = call.seen
    BY <1>1, <1>5
  <2>2. ASSUME Given(call.body), call.seen.version = cart[c].version, call.seen.moves = left["move"],
               NEW t \in StoresOf(call.items) \ d.todo
        PROVE  d.quoted[t].discount = FixedShare(t, call.items, call.price)
    <3>1. t \in Stores
      BY <2>2, InStores
    <3>2. CASE t = s
      <4>1. d.quoted[s] = r
        BY <1>2, <1>5
      <4> QED BY <1>4, <1>5, <2>2, <3>2, <4>1
    <3>3. CASE t # s
      <4>1. d.quoted[t] = call.quoted[t] /\ t \in StoresOf(call.items) \ call.todo
        BY <1>2, <1>5, <2>2, <3>1, <3>3
      <4> QED BY <1>1, <1>2, <2>2, <4>1 DEF SeenWhole
    <3> QED BY <3>2, <3>3
  <2>3. SeenWhole(d)
    <3> HIDE DEF call
    <3> QED BY <1>1, <1>2, <2>1, <2>2 DEF SeenWhole, call
  <2>4. SeenWhole(d)' /\ ClaimedWhole(d)
    BY <1>1, <2>1, <2>3 DEF SeenWhole, ClaimedWhole, Given
  <2> QED BY <1>1, <1>5, <2>4, WholeTurn
<1> QED BY <1>3, <1>5, QuoteTurns DEF r

LEMMA EnterWhole ==
  ASSUME Shape, TypeInv, Aged, Counted, WholeInv, NEW h \in Handlers, Enter(h)
  PROVE  WholeInv'
<1> DEFINE call == calls[h]
           c    == call.cart
<1>0. PICK d : d = Entered(h)
  OBVIOUS
<1>1. call.at = "price" /\ call.todo = {} /\ Turns(h, d) /\ orders' = orders
  BY <1>0 DEF Enter, SameRows
<1>2. /\ d.at = "commit" /\ d.body = call.body /\ d.items = cart[c].items /\ d.price = price
      /\ d.quoted = call.quoted /\ d.quiet = (call.seen = Seen(c))
  BY <1>0 DEF Entered
<1>3. ASSUME d.quiet, Given(d.body), NEW s \in StoresOf(d.items) PROVE d.quoted[s].discount = FixedShare(s, d.items, d.price)
  <2>1. call.seen = Seen(c)
    BY <1>2, <1>3, Zenon
  <2>2. call.seen.version = cart[c].version /\ call.seen.moves = left["move"]
    BY <2>1 DEF Seen
  <2>3. SeenWhole(call)
    BY DEF WholeInv
  <2> QED BY <1>1, <1>2, <1>3, <2>2, <2>3 DEF SeenWhole
<1>4. SeenWhole(d)' /\ ClaimedWhole(d)
  BY <1>2, <1>3 DEF SeenWhole, ClaimedWhole
<1> QED BY <1>1, <1>4, WholeTurn

LEMMA CommitWhole ==
  ASSUME Shape, TypeInv, Aged, Counted, WholeInv, NEW h \in Handlers, Commit(h)
  PROVE  WholeInv'
<1> DEFINE call == calls[h]
           o    == TheOrder(call)
<1>1. PICK n \in Nat \ {0} :
        /\ DOMAIN orders' = DOMAIN orders \cup {n}
        /\ orders'[n] = o
        /\ \A i \in DOMAIN orders : orders'[i] = orders[i]
  BY OrderAdded
<1>2. call.at = "commit" /\ Turns(h, Idle)
  BY DEF Commit
<1>3. /\ o.items = call.items /\ o.price = call.price /\ o.body = call.body /\ o.quiet = call.quiet
      /\ \A s \in StoresOf(call.items) : o.discount[s] = call.quoted[s].discount
  BY DEF TheOrder, Column
<1> HIDE DEF o
<1>4. OrderWhole(o)
  BY <1>2, <1>3 DEF WholeInv, ClaimedWhole, OrderWhole
<1>5. \A i \in DOMAIN orders' : OrderWhole(orders'[i])
  BY <1>1, <1>4 DEF WholeInv
<1>6. \A i \in DOMAIN orders' : OrderWhole(orders[i])'
  BY <1>5 DEF OrderWhole, Given
<1>7. SeenWhole(Idle)' /\ ClaimedWhole(Idle)'
  BY IdleShape DEF SeenWhole, ClaimedWhole, Idle
<1>8. ASSUME NEW g \in Handlers PROVE (SeenWhole(calls[g]) /\ ClaimedWhole(calls[g]))'
  <2>1. CASE g = h
    <3>1. calls'[g] = Idle
      BY <1>2, <2>1, Turned
    <3> QED BY <3>1, IdleShape DEF SeenWhole, ClaimedWhole
  <2>2. CASE g # h
    <3>1. calls'[g] = calls[g]
      BY <1>2, <2>2, Turned
    <3> QED BY <3>1, WholeAges DEF WholeInv
  <2> QED BY <2>1, <2>2
<1> QED BY <1>6, <1>8 DEF WholeInv

(* What a cart comes to is what its stores' parts come to.                   *)
LEMMA CartByStore ==
  ASSUME NEW items \in Quantities, NEW p \in Amounts
  PROVE  CartTotal(items, p) = Total(Subtotals(items, p), StoresOf(items))
<1> DEFINE L == Lines(items)
           S == StoresOf(items)
           a == LineAmount(items, p)
           sums == Subtotals(items, p)
<1>1. IsFiniteSet(L) /\ IsFiniteSet(S) /\ L \subseteq Variants /\ S \subseteq Stores
  BY Finite
<1>2. ASSUME NEW v \in L PROVE a[v] \in Int /\ StoreOf[v] \in S
  <2>1. items[v] \in Nat /\ p[v] \in Nat
    BY <1>1, CartsAssumption DEF Quantities, Amounts
  <2>2. items[v] * p[v] \in Nat
    BY <2>1, Product
  <2> QED BY <1>1, <2>2 DEF LineAmount, StoresOf
<1>3. ASSUME NEW s \in S PROVE sums[s] = Total(a, {v \in L : StoreOf[v] = s})
  <2>1. sums[s] = Total(Part(s, items, p), LinesOf(s, items))
    BY <1>1 DEF Subtotals, Subtotal
  <2>2. \A v \in LinesOf(s, items) : Part(s, items, p)[v] = a[v]
    BY DEF Part, LineAmount, LinesOf, Lines
  <2>3. IsFiniteSet(LinesOf(s, items))
    BY Finite
  <2>4. Total(Part(s, items, p), LinesOf(s, items)) = Total(a, LinesOf(s, items))
    BY <2>2, <2>3, TotalAgree
  <2> QED BY <2>1, <2>4 DEF LinesOf
<1>4. CartTotal(items, p) = Total(a, L)
  BY DEF CartTotal
<1> HIDE DEF L, S, a, sums
<1>5. Total(a, L) = Total(sums, S)
  <2>1. IsFiniteSet(S) /\ IsFiniteSet(L) /\ (\A x \in L : a[x] \in Int) /\ (\A x \in L : StoreOf[x] \in S)
    BY <1>1, <1>2
  <2>2. \A s \in S : sums[s] = Total(a, {x \in L : StoreOf[x] = s})
    BY <1>3
  <2> QED BY ONLY <2>1, <2>2, TotalParts, SMTT(30)
<1> QED BY <1>4, <1>5 DEF sums, S

LEMMA SharesAreWhole ==
  ASSUME NEW o, o.items \in Quantities, o.price \in Amounts, Given(o.body), o.quiet, OrderWhole(o)
  PROVE  LET all   == CartTotal(o.items, o.price)
             whole == IF Promotion.value > all THEN all ELSE Promotion.value
             given == Total(o.discount, StoresOf(o.items))
             n     == Cardinality(StoresOf(o.items))
         IN given <= whole /\ whole - given <= IF n > 2 THEN n - 2 ELSE 0
<1> DEFINE stores == StoresOf(o.items)
           sub    == Subtotals(o.items, o.price)
           last   == LastIn(stores, StoreSeq)
           all    == CartTotal(o.items, o.price)
           whole  == IF Promotion.value > all THEN all ELSE Promotion.value
           given  == Total(o.discount, stores)
           share  == allocateFixedDiscount(Promotion.value, sub, stores, last)
           n      == Cardinality(stores)
<1> SUFFICES given <= whole /\ whole - given <= IF n > 2 THEN n - 2 ELSE 0
  OBVIOUS
<1>1. IsFiniteSet(stores) /\ stores \subseteq Stores /\ Promotion.value \in Nat
  BY Finite, PromotionAssumption
<1>2. \A s \in stores : sub[s] \in Nat
  BY <1>1, SubtotalNat DEF Subtotals
<1>3. all = Total(sub, stores)
  BY CartByStore
<1>4. \A s \in stores : o.discount[s] = share[s]
  BY DEF OrderWhole, FixedShare
<1>5. stores # {} => last \in stores
  BY LastStore
<1>6. Total(sub, stores) \in Nat /\ n \in Nat /\ (stores = {} => n = 0)
  BY <1>1, <1>2, TotalNat, FS_CardinalityType, FS_EmptySet
<1> HIDE DEF stores, sub, last, all, share
<1>7. given = Total(share, stores)
  BY <1>1, <1>4, TotalAgree
<1>8. CASE stores # {}
  <2>1. LET m == IF Promotion.value > Total(sub, stores) THEN Total(sub, stores) ELSE Promotion.value
        IN Total(share, stores) <= m /\ m - Total(share, stores) <= IF n > 2 THEN n - 2 ELSE 0
    BY <1>1, <1>2, <1>5, <1>8, FixedDiscountAddsUp DEF share
  <2> HIDE DEF given
  <2> QED BY <1>3, <1>7, <2>1
<1>9. CASE stores = {}
  <2>1. all = 0 /\ given = 0
    BY <1>3, <1>7, <1>9, TotalEmpty
  <2> HIDE DEF given, n
  <2> QED BY <1>1, <1>6, <1>9, <2>1
<1> QED BY <1>8, <1>9

(* The stores' shares of a fixed discount, worked out one by one from as     *)
(* many readings of the cart, add up to it when nothing moved meanwhile; of  *)
(* three stores or more, a minor unit may be lost for each beyond the second.*)
THEOREM FixedDiscountIsWhole == Spec => []DiscountIsWhole
<1>1. Init => TypeInv /\ WholeInv
  <2>1. Init => WholeInv
    BY IdleShape DEF Init, CartInit, WholeInv, SeenWhole, ClaimedWhole
  <2> QED BY <2>1, InitTyped
<1>2. Shape /\ TypeInv /\ WholeInv /\ [Next]_vars => TypeInv' /\ WholeInv'
  <2> SUFFICES ASSUME Shape, TypeInv, WholeInv, [Next]_vars PROVE TypeInv' /\ WholeInv'
    OBVIOUS
  <2>1. Aged
    BY Kinds, MovesAge DEF vars, carts, buying
  <2>2. Counted
    BY MovesCount
  <2>3. TypeInv'
    BY TypeKept
  <2>4. ASSUME NoPricing PROVE WholeInv'
    <3>1. ASSUME NEW g \in Handlers PROVE (SeenWhole(calls[g]) /\ ClaimedWhole(calls[g]))'
      <4>1. CASE calls'[g] = calls[g]
        BY <2>1, <2>2, <4>1, WholeAges DEF WholeInv
      <4>2. CASE calls'[g].at \notin {"price", "commit"}
        BY <4>2 DEF SeenWhole, ClaimedWhole
      <4> QED BY <2>4, <4>1, <4>2 DEF NoPricing
    <3>2. \A i \in DOMAIN orders' : OrderWhole(orders[i])'
      BY <2>4 DEF WholeInv, NoPricing, OrderWhole, Given
    <3> QED BY <3>1, <3>2 DEF WholeInv
  <2>5. ASSUME NEW h \in Handlers, Draft(h), UNCHANGED <<left, price>> PROVE WholeInv'
    BY <2>1, <2>2, <2>5, DraftWhole
  <2> QED BY <2>1, <2>2, <2>3, <2>4, <2>5, PricingSteps, QuoteWhole, EnterWhole, CommitWhole
<1>3. TypeInv /\ WholeInv => DiscountIsWhole
  <2> SUFFICES ASSUME TypeInv, WholeInv, NEW i \in DOMAIN orders,
                      Promotion.type = "FIXED", orders[i].body = "promo", orders[i].quiet
               PROVE  LET o     == orders[i]
                          all   == CartTotal(o.items, o.price)
                          whole == IF Promotion.value > all THEN all ELSE Promotion.value
                          given == Total(o.discount, StoresOf(o.items))
                          n     == Cardinality(StoresOf(o.items))
                      IN given <= whole /\ whole - given <= IF n > 2 THEN n - 2 ELSE 0
    BY DEF DiscountIsWhole
  <2>1. orders[i].items \in Quantities /\ orders[i].price \in Amounts /\ OrderWhole(orders[i]) /\ Given(orders[i].body)
    BY DEF TypeInv, RowsTyped, OrderTypeOK, WholeInv, Given
  <2> QED BY <2>1, SharesAreWhole
<1> QED BY <1>1, <1>2, <1>3, Shapes, PTL DEF Spec

=============================================================================
