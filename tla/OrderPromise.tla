----------------------------- MODULE OrderPromise -----------------------------
(***************************************************************************)
(* What an order promises the buyer and the vendors, with no attempts,     *)
(* providers, reservations, handlers or transactions: an order is open for *)
(* the vendor orders still kept in it; it is sold once, when the price of  *)
(* exactly those was paid, and only a sale takes its units out of stock;   *)
(* money that arrives when it cannot be sold is captured, and known; and    *)
(* what was sold or captured is never trimmed or voided.                   *)
(***************************************************************************)
EXTENDS Integers

CONSTANTS Orders, Stores, Variants, StoreOf, Qty, InitialStock

VARIABLES stock, phase, kept, money
vars == <<stock, phase, kept, money>>

Slices(o)      == {StoreOf[v] : v \in {x \in Variants : Qty[o][x] > 0}}
UnitsOf(o, S)  == [v \in Variants |-> IF StoreOf[v] \in S THEN Qty[o][v] ELSE 0]

Init ==
  /\ stock = [v \in Variants |-> InitialStock]
  /\ phase = [o \in Orders |-> "absent"]
  /\ kept = [o \in Orders |-> {}]
  /\ money = [o \in Orders |-> {}]

Place(o) ==
  /\ phase[o] = "absent"
  /\ \A v \in Variants : UnitsOf(o, Slices(o))[v] <= stock[v]
  /\ phase' = [phase EXCEPT ![o] = "open"]
  /\ kept' = [kept EXCEPT ![o] = Slices(o)]
  /\ UNCHANGED <<stock, money>>

(* Some or all of the vendor orders are cancelled. *)
Trim(o, S) ==
  /\ phase[o] = "open" /\ S \subseteq kept[o] /\ S # kept[o]
  /\ kept' = [kept EXCEPT ![o] = S]
  /\ phase' = [phase EXCEPT ![o] = IF S = {} THEN "void" ELSE "open"]
  /\ UNCHANGED <<stock, money>>

(* The buyer pays the price of the slices A, asked for at some earlier time. *)
Pay(o, A) ==
  /\ phase[o] # "absent" /\ A # {} /\ A \subseteq Slices(o)
  /\ money' = [money EXCEPT ![o] = @ \cup {A}]
  /\ UNCHANGED <<stock, phase, kept>>

(* A captured order may still be sold: a verification that began in time    *)
(* can end after one that came too late.                                   *)
Sell(o) ==
  /\ phase[o] \in {"open", "captured"} /\ kept[o] \in money[o]
  /\ \A v \in Variants : UnitsOf(o, kept[o])[v] <= stock[v]
  /\ stock' = [v \in Variants |-> stock[v] - UnitsOf(o, kept[o])[v]]
  /\ phase' = [phase EXCEPT ![o] = "sold"]
  /\ UNCHANGED <<kept, money>>

(* The payment stands, the order does not: it waits for a manual review. *)
Capture(o) ==
  /\ phase[o] \in {"open", "void"} /\ money[o] # {}
  /\ phase' = [phase EXCEPT ![o] = "captured"]
  /\ UNCHANGED <<stock, kept, money>>

(* A vendor counts one variant anew. *)
Restock(v) ==
  /\ stock' = [stock EXCEPT ![v] = stock'[v]] /\ stock'[v] \in Nat
  /\ UNCHANGED <<phase, kept, money>>

Next ==
  \/ \E v \in Variants : Restock(v)
  \/ \E o \in Orders : Place(o) \/ Sell(o) \/ Capture(o)
  \/ \E o \in Orders, S \in SUBSET Stores : Trim(o, S) \/ Pay(o, S)

Spec == Init /\ [][Next]_vars
=============================================================================
