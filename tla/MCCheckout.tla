------------------------------ MODULE MCCheckout ------------------------------
(* A buyer with a cart of one line in a store and two in another, in two
   requests at a time. *)
EXTENDS Checkout, TLC

CONSTANTS u1, v1, v2, v3, s1, s2, h1, h2, k1, k2

OneUser     == {u1}
OneVariant  == {v3}
ThreeVariants == {v1, v2, v3}
TwoHandlers == {h1, h2}
TwoKeys     == {k1, k2}
ThreeCarts  == 1..3

OneOfEach   == [v \in Variants |-> 1]
Stock       == [v \in Variants |-> IF v = v3 THEN 1 ELSE 2]
StoreOfEach == [v \in Variants |-> IF v = v1 THEN s1 ELSE s2]
BothStores  == <<s1, s2>>
TheLines    == <<v1, v2, v3>>
OldPrices   == [v \in Variants |-> IF v = v1 THEN 3 ELSE 4]
NewPrices   == [v \in Variants |-> 5]
Weights     == [v \in Variants |-> 1]

(* A rule for the platform, one for s1 and one for v2's category. *)
Shares == {
  [NoRule EXCEPT !.rateBps = 2000],
  [NoRule EXCEPT !.rateBps = 5000, !.vendor = s1],
  [NoRule EXCEPT !.rateBps = 4000, !.category = "shoes"]}
VendorOfEach == [s \in {s1, s2} |-> s]
Categories   == [v \in Variants |-> IF v = v2 THEN "shoes" ELSE NoneKnown]

Symmetry == Permutations(TwoHandlers) \cup Permutations(TwoKeys)

OnceFive == [type |-> "FIXED", value |-> 5, minimum |-> 2, maxRedemptions |-> 1, perUserLimit |-> 1]
=============================================================================
