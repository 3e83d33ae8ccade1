----------------------------- MODULE MCMessaging -----------------------------
(* Two dispatchers that may overtake each other, over one or two events. *)
EXTENDS Messaging, TLC

CONSTANTS d1, d2

TwoDispatchers == {d1, d2}
Symmetry       == Permutations(TwoDispatchers)
=============================================================================
