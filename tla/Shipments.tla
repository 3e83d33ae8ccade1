------------------------------ MODULE Shipments ------------------------------
(***************************************************************************)
(* Vendors ship the slices of a paid order. A request is a sequence of     *)
(* transactions on behalf of a member of staff: creating a shipment reads  *)
(* the order first and inserts under the vendor order's lock; a status     *)
(* report reads the shipment, then overwrites its status, then reads the   *)
(* slice's shipments and at last writes what they add up to.               *)
(*                                                                         *)
(* Only shipments the vendor makes himself exist: booking with GIGL is     *)
(* refused, so the background task that tracks GIGL shipments finds none.  *)
(***************************************************************************)
EXTENDS PaidOrder

CONSTANTS
  Shipments,   \* shipments a run may create
  Staff,       \* concurrent requests
  MaxUnits,    \* no slice holds more
  Reported     \* statuses staff may report

ASSUME ShipmentsAssumption ==
  /\ IsFiniteSet(Shipments) /\ MaxUnits \in Nat
  /\ \A s \in Slices : Ordered[s] <= MaxUnits

VARIABLES
  ship,        \* Shipment and its one ShipmentItem
  events,      \* the statuses of the shipment's ShipmentEvent rows
  desk         \* the request a member of staff is served with

shipping == <<ship, events, desk>>

Moves == [
  PENDING          |-> {"BOOKED", "CANCELLED"},
  BOOKED           |-> {"PICKED_UP", "IN_TRANSIT", "OUT_FOR_DELIVERY", "DELIVERED", "FAILED", "CANCELLED"},
  PICKED_UP        |-> {"IN_TRANSIT", "OUT_FOR_DELIVERY", "DELIVERED", "FAILED", "RETURNING"},
  IN_TRANSIT       |-> {"OUT_FOR_DELIVERY", "DELIVERED", "FAILED", "RETURNING"},
  OUT_FOR_DELIVERY |-> {"DELIVERED", "FAILED", "RETURNING"},
  FAILED           |-> {"IN_TRANSIT", "OUT_FOR_DELIVERY", "RETURNING", "CANCELLED"},
  RETURNING        |-> {"RETURNED"},
  RETURNED |-> {}, DELIVERED |-> {}, CANCELLED |-> {}]
ShipmentStatus == DOMAIN Moves
CanTransition(from, to) == from = to \/ to \in Moves[from]

Absent == [status |-> "NONE", of |-> "none", qty |-> 0]
Made(p) == ship[p] # Absent
NoRequest == [op |-> "free"]

(* The units of s that shipments allocate, one by one. *)
AllocatedUnits(s) ==
  {u \in Shipments \X (1..MaxUnits) :
     /\ ship[u[1]].of = s /\ ship[u[1]].status # "CANCELLED"
     /\ u[2] <= ship[u[1]].qty}
NoCheck(s, n) == TRUE  \* mutation of Fits
Fits(s, n)    == Cardinality(AllocatedUnits(s)) + n <= Ordered[s]

ShipInit ==
  /\ ship = [p \in Shipments |-> Absent]
  /\ events = [p \in Shipments |-> {}]
  /\ desk = [w \in Staff |-> NoRequest]

-----------------------------------------------------------------------------
(* What the service looks at before it opens the transaction. *)
BeginShipment(w, s, n) ==
  /\ desk[w] = NoRequest
  /\ payStatus = "SUCCEEDED" /\ voStatus[s] \notin {"CANCELLED", "REFUNDED"}
  /\ Cardinality(AllocatedUnits(s)) + n <= Ordered[s]
  /\ desk' = [desk EXCEPT ![w] = [op |-> "create", of |-> s, qty |-> n]]
  /\ UNCHANGED <<rows, ship, events>>

(* Under the lock only the quantity is looked at again. *)
CreateShipment(w, p) ==
  LET j == desk[w] IN
  /\ j.op = "create" /\ j.of \notin writing /\ ~Made(p)
  /\ Fits(j.of, j.qty)
  /\ ship' = [ship EXCEPT ![p] = [status |-> "BOOKED", of |-> j.of, qty |-> j.qty]]
  /\ events' = [events EXCEPT ![p] = {"BOOKED"}]
  /\ desk' = [desk EXCEPT ![w] = NoRequest]
  /\ UNCHANGED rows

(* A report is checked against the status as it is read now, and overwrites *)
(* whatever status it finds later.                                         *)
BeginReport(w, p, to) ==
  /\ desk[w] = NoRequest /\ Made(p)
  /\ CanTransition(ship[p].status, to)
  /\ desk' = [desk EXCEPT ![w] = [op |-> "report", ship |-> p, to |-> to]]
  /\ UNCHANGED <<rows, ship, events>>

AppendShipmentEvent(w) ==
  LET j == desk[w] IN
  /\ j.op = "report"
  /\ ship' = [ship EXCEPT ![j.ship].status = j.to]
  /\ events' = [events EXCEPT ![j.ship] = @ \cup {j.to}]
  /\ desk' = [desk EXCEPT ![w] = [op |-> "reload", ship |-> j.ship]]
  /\ UNCHANGED rows

(* The shipment is read again, then the slice's other shipments.           *)
ReloadShipment(w) ==
  LET j == desk[w] IN
  /\ j.op = "reload"
  /\ desk' = [desk EXCEPT ![w] = [op |-> "list", ship |-> j.ship, now |-> ship[j.ship].status]]
  /\ UNCHANGED <<rows, ship, events>>

ListSiblings(w) ==
  LET j == desk[w]
      s == ship[j.ship].of
      others == {q \in Shipments \ {j.ship} : ship[q].of = s}
  IN
  /\ j.op = "list"
  /\ desk' = [desk EXCEPT ![w] = [op |-> "aggregate", of |-> s,
                                  seen |-> {ship[q].status : q \in others} \cup {j.now}]]
  /\ UNCHANGED <<rows, ship, events>>

(* What the statuses of its shipments make of a slice, and what those of   *)
(* its slices make of an order; "" when the row is left alone.             *)
AllTerminalDelivers(seen) ==  \* mutation of SliceAfter
  IF seen \subseteq {"DELIVERED", "CANCELLED", "RETURNED"} THEN "DELIVERED"
  ELSE IF seen \cap {"PICKED_UP", "IN_TRANSIT", "OUT_FOR_DELIVERY"} # {}
       THEN "PARTIALLY_SHIPPED" ELSE ""
SliceAfter(seen) ==
  IF seen = {"DELIVERED"} THEN "DELIVERED"
  ELSE IF seen \subseteq {"DELIVERED", "CANCELLED", "RETURNED"}
       THEN "PARTIALLY_SHIPPED"
  ELSE IF seen \cap {"PICKED_UP", "IN_TRANSIT", "OUT_FOR_DELIVERY", "DELIVERED"} # {}
       THEN "PARTIALLY_SHIPPED" ELSE ""
OrderAfter(statuses) ==
  IF statuses = {"DELIVERED"} THEN "FULFILLED" ELSE "PARTIALLY_FULFILLED"

(* The aggregate transaction up to its wait for the order's row: the slice *)
(* is written and locked, its siblings are read as committed.              *)
UpdateSlice(w) ==
  LET j == desk[w]
      next == SliceAfter(j.seen)
      siblings == {next} \cup {voStatus[s] : s \in Slices \ {j.of}}
  IN
  /\ j.op = "aggregate" /\ next # "" /\ j.of \notin writing
  /\ writing' = writing \cup {j.of}
  /\ desk' = [desk EXCEPT ![w] = [op |-> "commit", of |-> j.of, next |-> next,
                                  order |-> OrderAfter(siblings)]]
  /\ UNCHANGED <<bought, voStatus, orderStatus, payStatus, ship, events>>

NothingToAggregate(w) ==
  /\ desk[w].op = "aggregate" /\ SliceAfter(desk[w].seen) = ""
  /\ desk' = [desk EXCEPT ![w] = NoRequest]
  /\ UNCHANGED <<rows, ship, events>>

CommitSlice(w) ==
  LET j == desk[w] IN
  /\ j.op = "commit"
  /\ voStatus' = [voStatus EXCEPT ![j.of] = j.next]
  /\ orderStatus' = j.order
  /\ writing' = writing \ {j.of}
  /\ desk' = [desk EXCEPT ![w] = NoRequest]
  /\ UNCHANGED <<bought, payStatus, ship, events>>

(* The insert is refused, or the process dies: an open transaction rolls   *)
(* back, what was committed before it stays.                               *)
EndRequest(w) ==
  /\ desk[w] # NoRequest
  /\ MayDie \/ (desk[w].op = "create" /\ ~Fits(desk[w].of, desk[w].qty))
  /\ desk' = [desk EXCEPT ![w] = NoRequest]
  /\ writing' = IF desk[w].op = "commit" THEN writing \ {desk[w].of} ELSE writing
  /\ UNCHANGED <<bought, voStatus, orderStatus, payStatus, ship, events>>

ShipStep(w) ==
  \/ \E s \in Slices, n \in 1..MaxUnits : BeginShipment(w, s, n)
  \/ \E p \in Shipments : CreateShipment(w, p)
  \/ \E p \in Shipments, to \in Reported : BeginReport(w, p, to)
  \/ AppendShipmentEvent(w)
  \/ ReloadShipment(w)
  \/ ListSiblings(w)
  \/ UpdateSlice(w)
  \/ NothingToAggregate(w)
  \/ CommitSlice(w)
  \/ EndRequest(w)
ShipNext == \E w \in Staff : ShipStep(w)

-----------------------------------------------------------------------------
ShipTypeOK ==
  /\ \A p \in Shipments :
       ship[p] \in {Absent} \cup [status : ShipmentStatus, of : Slices, qty : 1..MaxUnits]
  /\ events \in [Shipments -> SUBSET ShipmentStatus]
  /\ DOMAIN desk = Staff

(* Two requests cannot ship the same units: of every slice, no more is in  *)
(* shipments that were never cancelled than was ordered. (A cancelled one   *)
(* can be revived by a report that read it before: those do not count.)    *)
UnitsNeverCancelled(s) == {u \in AllocatedUnits(s) : "CANCELLED" \notin events[u[1]]}
ShippedWithinOrdered ==
  \A s \in Slices : Cardinality(UnitsNeverCancelled(s)) <= Ordered[s]

(* A slice is DELIVERED, and an order FULFILLED, on evidence: reviews,      *)
(* returns and settlement start from it.                                   *)
Evidence(s) == \E p \in Shipments : ship[p].of = s /\ "DELIVERED" \in events[p]
DeliveredOnEvidence ==
  /\ \A s \in Slices : voStatus[s] = "DELIVERED" => Evidence(s)
  /\ orderStatus = "FULFILLED" => \A s \in Slices : Evidence(s)
=============================================================================
