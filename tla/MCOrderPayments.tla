-------------------------- MODULE MCOrderPayments --------------------------
(* One order over two stores, and two orders that compete for one variant. *)
(* Every store sells one variant, so the two are named by one model value. *)
EXTENDS OrderPayments, TLC

CONSTANTS o1, o2, s1, s2, w1, w2

OneOrder    == {o1}
TwoOrders   == {o1, o2}
OneStore    == {s1}
TwoStores   == {s1, s2}
OneHandler  == {w1}
TwoHandlers == {w1, w2}

StoreOfItself == [s \in Variants |-> s]
OneOfEach     == [o \in Orders |-> [v \in Variants |-> 1]]
(* o1 wants two units and o2 one, of the same variant. *)
Contended     == [o \in Orders |-> [v \in Variants |-> IF o = o1 THEN 2 ELSE 1]]

Symmetry == Permutations(TwoStores) \cup Permutations(TwoHandlers)
=============================================================================
