-------------------------------- MODULE Carts --------------------------------
(***************************************************************************)
(* Carts and the requests that fill them. A call is a request at work in   *)
(* one handler of the API; what it has read stays in its record while other *)
(* calls commit. One action is one transaction, or one read that decides   *)
(* what is written later.                                                   *)
(***************************************************************************)
EXTENDS Naturals, Sequences, FiniteSets

CONSTANTS
  Users, Variants, Handlers,
  CartIds,          \* carts a run may create; 1 is the first buyer's
  MaxQuantity,      \* bound on the quantity of a line
  MaxRequests,      \* requests about carts and quotes in a run
  FirstItems,       \* lines of the cart that exists at the start
  FirstBuyer,       \* its owner
  Delisted,         \* variants that may be off sale at the start
  InitialStock      \* units of each variant that can be sold

VARIABLES
  cart,         \* Cart and CartItem
  sellable,     \* variants whose product, store and vendor are open for sale
  available,    \* onHand - reserved of each variant's InventoryItem
  calls,        \* the requests being handled
  orders,       \* orders placed, in order; written by Checkout
  left          \* how many requests of each kind may still come

carts == <<cart, sellable, available, calls, orders, left>>

ASSUME CartsAssumption ==
  /\ 1 \in CartIds /\ FirstBuyer \in Users
  /\ MaxQuantity \in Nat /\ MaxRequests \in Nat
  /\ Delisted \subseteq Variants
  /\ FirstItems \in [Variants -> 0..MaxQuantity] /\ InitialStock \in [Variants -> Nat]

Idle   == [at |-> "idle"]
(* A line's quantity, and its id: the version that brought the line.        *)
NoLines == [v \in Variants |-> 0]
NoCart  == [owner |-> "none", status |-> "NONE", items |-> NoLines, ids |-> NoLines, version |-> 0]
Lines(items) == {v \in Variants : items[v] > 0}

ActiveCarts(u) == {c \in CartIds : cart[c].owner = u /\ cart[c].status = "ACTIVE"}
TheCart(u)     == CHOOSE c \in ActiveCarts(u) : TRUE
OrdersOf(u)    == Cardinality({i \in DOMAIN orders : orders[i].user = u})
FreshCarts     == {c \in CartIds : cart[c] = NoCart}
FreshCart      == CHOOSE c \in FreshCarts : TRUE

CartInit ==
  /\ cart = [c \in CartIds |->
       IF c = 1 THEN [owner |-> FirstBuyer, status |-> "ACTIVE", items |-> FirstItems, ids |-> NoLines, version |-> 1]
       ELSE NoCart]
  /\ sellable \in {Variants \ S : S \in SUBSET Delisted}
  /\ available = InitialStock
  /\ calls = [h \in Handlers |-> Idle]

Answer(h)    == calls' = [calls EXCEPT ![h] = Idle]
Become(h, c) == calls' = [calls EXCEPT ![h] = c]
Spend(kind)  == left[kind] > 0 /\ left' = [left EXCEPT ![kind] = @ - 1]

-----------------------------------------------------------------------------
(* A quantity is added to what the line holds, if no more than was available *)
(* when the call looked.                                                    *)
AddItem(h, u, v) ==
  /\ calls[h] = Idle /\ v \in sellable /\ Spend("request")
  /\ Become(h, [at |-> "find", op |-> "add", user |-> u, orders |-> 0, variant |-> v, seen |-> available[v]])
  /\ UNCHANGED <<cart, sellable, available, orders>>

View(u) == [at |-> "find", op |-> "view", user |-> u, orders |-> 0]
ViewCart(h, u) ==
  /\ calls[h] = Idle /\ Spend("request")
  /\ Become(h, View(u))
  /\ UNCHANGED <<cart, sellable, available, orders>>

(* What each request does once it has the user's cart. The shipping quote's  *)
(* call, begun in Checkout, keeps the lines that can be bought.             *)
Proceed(h, c) ==
  LET call  == calls[h]
      found == {v \in sellable : c.items[v] > 0}
  IN CASE call.op = "add"  -> Become(h, [at |-> "read", op |-> "add", user |-> call.user,
                                          variant |-> call.variant, seen |-> call.seen, cart |-> c.id])
       [] call.op = "view" -> Answer(h)
       [] call.op = "quote" ->
            IF found = {} THEN Answer(h)
            ELSE Become(h, [at |-> "stamp", op |-> "quote", user |-> call.user, cart |-> c.id,
                            items |-> [v \in Variants |-> IF v \in found THEN c.items[v] ELSE 0],
                            version |-> c.version])

Found(c) == [id |-> c, items |-> cart[c].items, version |-> cart[c].version]

(* getOrCreateActive: a read, an insert that the partial unique index may   *)
(* refuse, and the read again.                                              *)
FindCart(h) ==
  LET u == calls[h].user IN
  /\ calls[h].at = "find"
  /\ IF ActiveCarts(u) # {} THEN Proceed(h, Found(TheCart(u)))
     ELSE calls' = [calls EXCEPT ![h].at = "create", ![h].orders = OrdersOf(u)]
  /\ UNCHANGED <<cart, sellable, available, orders, left>>

UniquePerUser(u)   == \E c \in CartIds : cart[c].owner = u  \* mutation of Refused
Refused(u)         == ActiveCarts(u) # {}
CreateCart(h) ==
  LET u == calls[h].user IN
  /\ calls[h].at = "create"
  /\ \/ /\ Refused(u)
        /\ calls' = [calls EXCEPT ![h].at = "reload"]
        /\ UNCHANGED cart
     \/ /\ ~Refused(u) /\ FreshCarts # {}
        /\ cart' = [cart EXCEPT ![FreshCart] =
             [owner |-> u, status |-> "ACTIVE", items |-> NoLines, ids |-> NoLines, version |-> 1]]
        /\ Proceed(h, [id |-> FreshCart, items |-> NoLines, version |-> 1])
  /\ UNCHANGED <<sellable, available, orders, left>>

(* The winner's cart, or the database's conflict if there is none. *)
ReloadCart(h) ==
  LET u == calls[h].user IN
  /\ calls[h].at = "reload"
  /\ IF ActiveCarts(u) # {} THEN Proceed(h, Found(TheCart(u))) ELSE Answer(h)
  /\ UNCHANGED <<cart, sellable, available, orders, left>>

ReadItem(h) ==
  LET call == calls[h]
      next == cart[call.cart].items[call.variant] + 1
  IN
  /\ call.at = "read"
  /\ IF next > call.seen \/ next > MaxQuantity THEN Answer(h)
     ELSE Become(h, [at |-> "write", op |-> "add", user |-> call.user, variant |-> call.variant,
                     cart |-> call.cart, next |-> next])
  /\ UNCHANGED <<cart, sellable, available, orders, left>>

(* A line of the user's active cart is given a new quantity. *)
UpdateItem(h, u, v, n) ==
  /\ calls[h] = Idle /\ Spend("request")
  /\ ActiveCarts(u) # {} /\ cart[TheCart(u)].items[v] > 0
  /\ v \in sellable /\ n <= available[v]
  /\ Become(h, [at |-> "write", op |-> "update", user |-> u, variant |-> v, cart |-> TheCart(u), next |-> n])
  /\ UNCHANGED <<cart, sellable, available, orders>>

(* setItemQuantity: the line and the cart's updatedAt, whatever the cart's  *)
(* status is by now. An update answers with the user's active cart.         *)
Unstamped(c) == cart[c].version  \* mutation of Stamped
Stamped(c)   == cart[c].version + 1
SetItemQuantity(h) ==
  LET call == calls[h]
      c    == call.cart
  IN
  /\ call.at = "write"
  /\ cart' = [cart EXCEPT
       ![c].items[call.variant] = call.next,
       ![c].ids[call.variant] = IF cart[c].items[call.variant] = 0 THEN cart[c].version + 1 ELSE @,
       ![c].version = Stamped(c)]
  /\ IF call.op = "add" THEN Answer(h)
     ELSE Become(h, View(call.user))
  /\ UNCHANGED <<sellable, available, orders, left>>

RemoveItem(h, u, v) ==
  /\ calls[h] = Idle /\ Spend("request")
  /\ ActiveCarts(u) # {} /\ cart[TheCart(u)].items[v] > 0
  /\ Become(h, [at |-> "delete", user |-> u, variant |-> v, cart |-> TheCart(u), id |-> cart[TheCart(u)].ids[v]])
  /\ UNCHANGED <<cart, sellable, available, orders>>

(* The delete of a line that is gone fails, and the request with it. *)
DeleteItem(h) ==
  LET call == calls[h] IN
  /\ call.at = "delete"
  /\ IF cart[call.cart].items[call.variant] = 0 \/ cart[call.cart].ids[call.variant] # call.id
     THEN Answer(h) /\ UNCHANGED cart
     ELSE /\ cart' = [cart EXCEPT ![call.cart].items[call.variant] = 0,
                                  ![call.cart].version = Stamped(call.cart)]
          /\ Become(h, View(call.user))
  /\ UNCHANGED <<sellable, available, orders, left>>

CartRequest(h) ==
  \E u \in Users :
    \/ ViewCart(h, u)
    \/ \E v \in Variants :
         \/ AddItem(h, u, v)
         \/ \E n \in 1..MaxQuantity : UpdateItem(h, u, v, n)
         \/ RemoveItem(h, u, v)

CartStep(h) ==
  FindCart(h) \/ CreateCart(h) \/ ReloadCart(h) \/ ReadItem(h) \/ SetItemQuantity(h) \/ DeleteItem(h)

-----------------------------------------------------------------------------
(* Two first requests of a user may both find no cart. The one that loses    *)
(* the insert gets the winner's cart; the database's conflict reaches the   *)
(* buyer only if the winner's cart has been bought in the meantime.         *)
LoserFindsWinner ==
  \A h \in Handlers :
    (calls[h].at = "reload" /\ ActiveCarts(calls[h].user) = {})
      => OrdersOf(calls[h].user) > calls[h].orders
=============================================================================
