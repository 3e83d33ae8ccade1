--------------------------- MODULE MCReconciliation ---------------------------
(* Batches of two, and for each task one row that would fill them if it       *)
(* could: an attempt nobody serves beside one the provider is silent about,   *)
(* and a refund the provider names another amount for.                        *)
EXTENDS Reconciliation, TLC

CONSTANTS l1, a1, a2, a3, f1, f2

OneLoop       == {l1}
ThreeAttempts == {a1, a2, a3}
TwoRefunds    == {f1, f2}
NotServed     == {a1}
OtherAmount   == {f1}
NotDecided    == {a2}
===============================================================================
