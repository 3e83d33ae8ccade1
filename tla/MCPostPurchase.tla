---------------------------- MODULE MCPostPurchase ----------------------------
(* One or two slices, and just enough actors to get in each other's way. *)
EXTENDS PostPurchase, TLC

CONSTANTS s1, s2, p1, p2, w1, w2, q1, q2, f1, f2, f3, k1, k2

TwoSlices    == {s1, s2}
TwoShipments == {p1, p2}
OneWriter    == {w1}
TwoWriters   == {w1, w2}
TwoReturns   == {q1, q2}
TwoRefunds   == {f1, f2}
ThreeRefunds == {f1, f2, f3}
OneClerk     == {k1}
TwoClerks    == {k1, k2}
Nothing      == {}

(* Two units, or two coins, of the first slice and one of the second. *)
TwoAndOne == [s \in Slices |-> IF s = s1 THEN 2 ELSE 1]
OneEach   == [s \in Slices |-> 1]

(* Sound where the slices sell, and cost, the same. *)
Symmetry ==
  Permutations(TwoSlices) \cup Permutations(TwoShipments) \cup Permutations(TwoWriters) \cup Permutations(TwoReturns)
    \cup Permutations(ThreeRefunds) \cup Permutations(TwoClerks)
=============================================================================
