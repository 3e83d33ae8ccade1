------------------------------ MODULE PaidOrder ------------------------------
(***************************************************************************)
(* The rows of a paid order that shipping and refunding both write: the    *)
(* status of its vendor orders (slices), of the order and of its payment.  *)
(* Both write them in transactions that first update a vendor order, keep  *)
(* its row locked, read other rows that no lock protects, and then write   *)
(* the order; `writing` holds the slices with such a transaction open.     *)
(* Shipments and Refunds describe the writers, PostPurchase puts them      *)
(* together.                                                               *)
(***************************************************************************)
EXTENDS Integers, FiniteSets

CONSTANTS
  Slices,      \* the vendor orders of the order
  Ordered,     \* units of the slice's one order line
  MayDie       \* processes may die between two transactions, and in them

ASSUME SlicesAssumption ==
  IsFiniteSet(Slices) /\ Ordered \in [Slices -> Nat] /\ MayDie \in BOOLEAN

VARIABLES
  bought,        \* the slices that were paid for; the others were cancelled before
  voStatus,      \* VendorOrder.status
  orderStatus,   \* Order.status
  payStatus,     \* Order.paymentStatus, and PaymentIntent.status with it
  writing

rows == <<bought, voStatus, orderStatus, payStatus, writing>>

VendorOrderStatus == {"ACCEPTED", "CANCELLED", "PARTIALLY_SHIPPED", "DELIVERED",
                      "PARTIALLY_REFUNDED", "REFUNDED"}
PaidOrderStatus   == {"PAID", "PARTIALLY_FULFILLED", "FULFILLED", "PARTIALLY_REFUNDED", "REFUNDED"}
PaymentStatus     == {"SUCCEEDED", "PARTIALLY_REFUNDED", "REFUNDED"}

RowsInit ==
  /\ bought \in SUBSET Slices \ {{}}
  /\ voStatus = [s \in Slices |-> IF s \in bought THEN "ACCEPTED" ELSE "CANCELLED"]
  /\ orderStatus = "PAID" /\ payStatus = "SUCCEEDED"
  /\ writing = {}

RowsTypeOK ==
  /\ bought \subseteq Slices
  /\ voStatus \in [Slices -> VendorOrderStatus]
  /\ orderStatus \in PaidOrderStatus /\ payStatus \in PaymentStatus
  /\ writing \subseteq Slices
=============================================================================
