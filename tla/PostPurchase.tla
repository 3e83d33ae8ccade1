----------------------------- MODULE PostPurchase -----------------------------
(***************************************************************************)
(* A paid order while vendors ship it, buyers return it and clerks refund  *)
(* it: Shipments and Refunds over the rows of PaidOrder they share.        *)
(***************************************************************************)
EXTENDS Shipments, Refunds

vars == <<rows, shipping, refunding>>

Init == RowsInit /\ ShipInit /\ RefundInit

Next ==
  \/ ShipNext /\ UNCHANGED refunding
  \/ RefundNext /\ UNCHANGED shipping

Spec == Init /\ [][Next]_vars

(* The background task reconciles every minute, and a provider does not    *)
(* for ever withhold what it decided; work that was begun goes on, and     *)
(* gets its turn at a locked row.                                          *)
Fairness ==
  /\ \A f \in RefundIds :
       SF_vars(/\ \E k \in Clerks, a \in {"paid", "failed"} :
                    a = made[f] /\ ReconcileRefund(k, f, a)
               /\ UNCHANGED shipping)
  /\ \A k \in Clerks :
       /\ WF_vars((UpdateVerification(k) \/ BeginBooking(k) \/ CommitBooking(k)) /\ UNCHANGED shipping)
       /\ SF_vars(BookSlice(k) /\ UNCHANGED shipping)
  /\ \A w \in Staff : WF_vars(CommitSlice(w) /\ UNCHANGED refunding)

FairSpec == Spec /\ Fairness

-----------------------------------------------------------------------------
TypeOK == RowsTypeOK /\ ShipTypeOK /\ RefundTypeOK

(* A refund the provider has decided on, and CartNest knows of, is booked   *)
(* or closed in the end.                                                   *)
DecidedRefundsClose ==
  \A f \in RefundIds :
    (refund[f].known /\ made[f] \in {"paid", "failed"})
      ~> refund[f].status \in {"SUCCEEDED", "FAILED"}
=============================================================================
