------------------------- MODULE PostPurchase_proofs -------------------------
(***************************************************************************)
(* What the rows, requests and clerks of PostPurchase hold, for any number *)
(* of slices, shipments, returns, refunds and concurrent requests; and of  *)
(* shipping, that no more is shipped than was ordered, and nothing is      *)
(* called delivered that no shipment ever reported. The proofs about       *)
(* refunding start from here.                                              *)
(***************************************************************************)
EXTENDS PostPurchase, FiniteSetTheorems, TLAPS

-----------------------------------------------------------------------------
(* Counting units and coins, which are pairs of a thing and a number.      *)

LEMMA PairsCountable ==
  ASSUME NEW A, IsFiniteSet(A), NEW m \in Nat, NEW S \in SUBSET (A \X (1..m))
  PROVE  IsFiniteSet(S) /\ Cardinality(S) \in Nat
<1>1. IsFiniteSet(1..m)
  BY FS_Interval
<1>2. IsFiniteSet(A \X (1..m))
  BY <1>1, FS_Product
<1> QED BY <1>2, FS_Subset, FS_CardinalityType

(* A larger set counts no less. *)
LEMMA PairsBound ==
  ASSUME NEW A, IsFiniteSet(A), NEW m \in Nat, NEW S \in SUBSET (A \X (1..m)), NEW T \in SUBSET S
  PROVE  Cardinality(T) <= Cardinality(S) /\ Cardinality(T) \in Nat
<1>1. IsFiniteSet(S)
  BY PairsCountable
<1>2. T \in SUBSET (A \X (1..m))
  OBVIOUS
<1> QED BY <1>1, <1>2, PairsCountable, FS_Subset

(* n units of one thing. *)
LEMMA UnitsOfOne ==
  ASSUME NEW x, NEW n \in Nat
  PROVE  IsFiniteSet({x} \X (1..n)) /\ Cardinality({x} \X (1..n)) = n
<1> DEFINE one  == {x}
           upTo == 1..n
<1>1. IsFiniteSet(one) /\ Cardinality(one) = 1
  BY FS_Singleton
<1>2. IsFiniteSet(upTo) /\ Cardinality(upTo) = n
  <2>1. 1 \in Int /\ n \in Int
    OBVIOUS
  <2>2. IsFiniteSet(1..n) /\ Cardinality(1..n) = IF 1 > n THEN 0 ELSE n - 1 + 1
    BY ONLY <2>1, FS_Interval
  <2> QED BY <2>2
<1> HIDE DEF one, upTo
<1>3. IsFiniteSet(one \X upTo) /\ Cardinality(one \X upTo) = Cardinality(one) * Cardinality(upTo)
  BY ONLY <1>1, <1>2, FS_Product
<1>4. IsFiniteSet(one \X upTo) /\ Cardinality(one \X upTo) = n
  BY ONLY <1>1, <1>2, <1>3, n \in Nat
<1> QED BY <1>4 DEF one, upTo

(* n more units add at most n. *)
LEMMA PairsAdded ==
  ASSUME NEW A, IsFiniteSet(A), NEW m \in Nat, NEW S \in SUBSET (A \X (1..m)),
         NEW x, NEW n \in Nat, NEW T, T \subseteq S \cup ({x} \X (1..n))
  PROVE  Cardinality(T) \in Nat /\ Cardinality(T) <= Cardinality(S) + n
<1> DEFINE L == {x} \X (1..n)
<1>1. IsFiniteSet(S) /\ Cardinality(S) \in Nat
  BY PairsCountable
<1>2. IsFiniteSet(L) /\ Cardinality(L) = n
  BY UnitsOfOne
<1> HIDE DEF L
<1>3. /\ IsFiniteSet(S \cup L)
      /\ Cardinality(S \cup L) = Cardinality(S) + Cardinality(L) - Cardinality(S \cap L)
  BY <1>1, <1>2, FS_Union
<1>4. Cardinality(S \cap L) \in Nat
  BY <1>1, FS_Intersection, FS_CardinalityType
<1>5. T \in SUBSET (S \cup L)
  BY DEF L
<1>6. Cardinality(T) <= Cardinality(S \cup L) /\ Cardinality(T) \in Nat
  BY <1>3, <1>5, FS_Subset, FS_CardinalityType
<1> QED BY <1>1, <1>2, <1>3, <1>4, <1>6

-----------------------------------------------------------------------------
(* The two state machines of the schema. *)

LEMMA ShipmentStatuses ==
  ShipmentStatus = {"PENDING", "BOOKED", "PICKED_UP", "IN_TRANSIT", "OUT_FOR_DELIVERY", "FAILED",
                    "RETURNING", "RETURNED", "DELIVERED", "CANCELLED"}
BY DEF ShipmentStatus, Moves

(* A report leads from a status to a status. *)
LEMMA TransitionTyping ==
  ASSUME NEW from \in ShipmentStatus, NEW to, CanTransition(from, to)
  PROVE  to \in ShipmentStatus
BY ShipmentStatuses DEF CanTransition, Moves

LEMMA ReturnStatuses ==
  ReturnStatus = {"REQUESTED", "APPROVED", "AWAITING_RETURN", "IN_TRANSIT", "RECEIVED",
                  "INSPECTING", "REFUND_PENDING", "REJECTED", "COMPLETED", "CANCELLED"}
BY DEF ReturnStatus, ReturnMoves

(* A return that was closed moves nowhere. *)
LEMMA ClosedIsFinal ==
  ASSUME NEW from \in ReturnStatus, NEW to \in ReturnMoves[from]
  PROVE  from \notin Closed /\ to \in ReturnStatus
BY ReturnStatuses DEF Closed, ReturnMoves

-----------------------------------------------------------------------------
(* Shipping. *)

Parcels == [status : ShipmentStatus, of : Slices, qty : 1..MaxUnits]

(* What a request carries from one of its transactions to the next. *)
RequestOK(r) ==
  \/ r = NoRequest
  \/ r.op = "create" /\ r.of \in Slices /\ r.qty \in 1..MaxUnits
  \/ r.op = "report" /\ r.ship \in Shipments /\ r.to \in ShipmentStatus
  \/ r.op = "reload" /\ r.ship \in Shipments
  \/ r.op = "list" /\ r.ship \in Shipments /\ r.now \in ShipmentStatus
  \/ r.op = "aggregate" /\ r.of \in Slices
  \/ /\ r.op = "commit" /\ r.of \in Slices
     /\ r.next \in {"DELIVERED", "PARTIALLY_SHIPPED"}
     /\ r.order \in {"FULFILLED", "PARTIALLY_FULFILLED"}

ShipShape ==
  /\ ship \in [Shipments -> {Absent} \cup Parcels]
  /\ events \in [Shipments -> SUBSET ShipmentStatus]
  /\ DOMAIN desk = Staff
  /\ \A w \in Staff :
       /\ RequestOK(desk[w])
       /\ desk[w].op \in {"report", "reload", "list"} => Made(desk[w].ship)

(* What a step of a request does to the shipments: it makes one, reports on *)
(* one, or leaves them alone.                                              *)
Makes(p, s, n) ==
  /\ ~Made(p) /\ Fits(s, n)
  /\ ship' = [ship EXCEPT ![p] = [status |-> "BOOKED", of |-> s, qty |-> n]]
  /\ events' = [events EXCEPT ![p] = {"BOOKED"}]
Reports(p, to) ==
  /\ Made(p)
  /\ ship' = [ship EXCEPT ![p].status = to]
  /\ events' = [events EXCEPT ![p] = @ \cup {to}]

(* The request of w becomes r, the others stay. *)
DeskTurns(w, r) == desk' = [desk EXCEPT ![w] = r]

LEMMA DeskAfter ==
  ASSUME ShipShape, NEW w \in Staff, NEW r, DeskTurns(w, r)
  PROVE  DOMAIN desk' = Staff /\ desk'[w] = r /\ \A x \in Staff \ {w} : desk'[x] = desk[x]
BY DEF DeskTurns, ShipShape

LEMMA ParcelTyping ==
  ASSUME ShipShape, NEW p \in Shipments, Made(p)
  PROVE  ship[p] \in Parcels
BY DEF ShipShape, Made

(* A made shipment keeps its slice and quantity. *)
LEMMA AfterReport ==
  ASSUME ShipShape, NEW p \in Shipments, NEW to \in ShipmentStatus, Reports(p, to)
  PROVE  /\ ship' \in [Shipments -> {Absent} \cup Parcels]
         /\ events' \in [Shipments -> SUBSET ShipmentStatus]
         /\ \A q \in Shipments : Made(q) => Made(q)'
         /\ \A q \in Shipments : ship'[q].of = ship[q].of /\ ship'[q].qty = ship[q].qty
         /\ \A q \in Shipments \ {p} : ship'[q] = ship[q] /\ events'[q] = events[q]
         /\ ship'[p].status = to /\ events'[p] = events[p] \cup {to}
<1> DEFINE r == [ship[p] EXCEPT !.status = to]
<1>1. ship[p] \in Parcels
  BY ParcelTyping DEF Reports
<1>2. r \in Parcels /\ r.status = to /\ r.of = ship[p].of /\ r.qty = ship[p].qty
  BY <1>1 DEF Parcels
<1>3. ship' = [ship EXCEPT ![p] = r]
  BY DEF Reports
<1> HIDE DEF r
<1>4. /\ ship' \in [Shipments -> {Absent} \cup Parcels]
      /\ ship'[p] = r /\ \A q \in Shipments \ {p} : ship'[q] = ship[q]
  BY <1>2, <1>3 DEF ShipShape
<1>5. /\ events' \in [Shipments -> SUBSET ShipmentStatus]
      /\ events'[p] = events[p] \cup {to} /\ \A q \in Shipments \ {p} : events'[q] = events[q]
  BY DEF Reports, ShipShape
<1>6. r # Absent
  BY <1>2, ShipmentStatuses DEF Absent
<1>7. \A q \in Shipments : Made(q) => Made(q)'
  BY <1>4, <1>6 DEF Made
<1> QED BY <1>2, <1>4, <1>5, <1>7

LEMMA AfterMake ==
  ASSUME ShipShape, NEW p \in Shipments, NEW s \in Slices, NEW n \in 1..MaxUnits, Makes(p, s, n)
  PROVE  /\ ship' \in [Shipments -> {Absent} \cup Parcels]
         /\ events' \in [Shipments -> SUBSET ShipmentStatus]
         /\ \A q \in Shipments : Made(q) => Made(q)'
         /\ \A q \in Shipments \ {p} : ship'[q] = ship[q] /\ events'[q] = events[q]
         /\ ship'[p] = [status |-> "BOOKED", of |-> s, qty |-> n] /\ events'[p] = {"BOOKED"}
<1>1. [status |-> "BOOKED", of |-> s, qty |-> n] \in Parcels
  BY ShipmentStatuses DEF Parcels
<1>2. /\ ship' \in [Shipments -> {Absent} \cup Parcels]
      /\ ship'[p] = [status |-> "BOOKED", of |-> s, qty |-> n]
      /\ \A q \in Shipments \ {p} : ship'[q] = ship[q]
  BY <1>1 DEF Makes, ShipShape
<1>3. /\ events' \in [Shipments -> SUBSET ShipmentStatus]
      /\ events'[p] = {"BOOKED"} /\ \A q \in Shipments \ {p} : events'[q] = events[q]
  BY ShipmentStatuses DEF Makes, ShipShape
<1>4. \A q \in Shipments : Made(q) => Made(q)'
  BY <1>2 DEF Made, Makes
<1> QED BY <1>2, <1>3, <1>4

(* A step that turns the request of w to r and makes no shipment unmade.   *)
LEMMA ShapeAfter ==
  ASSUME ShipShape, NEW w \in Staff, NEW r, DeskTurns(w, r), RequestOK(r),
         r.op \in {"report", "reload", "list"} => ship'[r.ship] # Absent,
         ship' \in [Shipments -> {Absent} \cup Parcels],
         events' \in [Shipments -> SUBSET ShipmentStatus],
         \A q \in Shipments : Made(q) => Made(q)'
  PROVE  ShipShape'
<1>1. DOMAIN desk' = Staff /\ desk'[w] = r /\ \A x \in Staff \ {w} : desk'[x] = desk[x]
  BY DeskAfter
<1>2. ASSUME NEW x \in Staff
      PROVE  /\ RequestOK(desk'[x])
             /\ desk'[x].op \in {"report", "reload", "list"} => ship'[desk'[x].ship] # Absent
  <2>1. CASE x = w
    BY <1>1, <2>1
  <2>2. CASE x # w
    <3>1. desk'[x] = desk[x]
      BY <1>1, <2>2
    <3>2. RequestOK(desk[x])
      BY DEF ShipShape
    <3>3. ASSUME desk[x].op \in {"report", "reload", "list"}
          PROVE  ship'[desk[x].ship] # Absent
      <4>1. desk[x].ship \in Shipments
        BY <3>2, <3>3 DEF RequestOK, NoRequest
      <4>2. Made(desk[x].ship)
        BY <3>3 DEF ShipShape
      <4>3. PICK q \in Shipments : q = desk[x].ship
        BY <4>1
      <4>4. Made(q)'
        BY <4>2, <4>3
      <4> QED BY <4>3, <4>4, <3>1 DEF Made
    <3> QED BY <3>1, <3>2, <3>3
  <2> QED BY <2>1, <2>2
<1> QED BY <1>1, <1>2 DEF ShipShape, Made, RequestOK

(* What each step does to the shipments. *)
LEMMA ShipKinds ==
  ASSUME ShipShape, NEW w \in Staff, ShipStep(w)
  PROVE  \/ UNCHANGED <<ship, events>>
         \/ \E p \in Shipments, s \in Slices, n \in 1..MaxUnits : Makes(p, s, n)
         \/ \E p \in Shipments, to \in ShipmentStatus : Reports(p, to)
<1>0. RequestOK(desk[w]) /\ (desk[w].op \in {"report", "reload", "list"} => Made(desk[w].ship))
  BY DEF ShipShape
<1>1. ASSUME NEW p \in Shipments, CreateShipment(w, p)
      PROVE  \E s \in Slices, n \in 1..MaxUnits : Makes(p, s, n)
  <2>1. desk[w].of \in Slices /\ desk[w].qty \in 1..MaxUnits
    BY <1>0, <1>1 DEF CreateShipment, RequestOK, NoRequest
  <2>2. Makes(p, desk[w].of, desk[w].qty)
    BY <1>1 DEF CreateShipment, Makes
  <2> QED BY <2>1, <2>2
<1>2. ASSUME AppendShipmentEvent(w)
      PROVE  \E p \in Shipments, to \in ShipmentStatus : Reports(p, to)
  <2>1. /\ desk[w].ship \in Shipments /\ desk[w].to \in ShipmentStatus
        /\ Made(desk[w].ship)
    BY <1>0, <1>2 DEF AppendShipmentEvent, RequestOK, NoRequest
  <2>2. Reports(desk[w].ship, desk[w].to)
    BY <1>2, <2>1 DEF AppendShipmentEvent, Reports
  <2> QED BY <2>1, <2>2
<1>3. \/ \E s \in Slices, n \in 1..MaxUnits : BeginShipment(w, s, n)
      \/ \E p \in Shipments, to \in Reported : BeginReport(w, p, to)
      \/ ReloadShipment(w) \/ ListSiblings(w) \/ UpdateSlice(w)
      \/ NothingToAggregate(w) \/ CommitSlice(w) \/ EndRequest(w)
      => UNCHANGED <<ship, events>>
  BY DEF BeginShipment, BeginReport, ReloadShipment, ListSiblings, UpdateSlice,
         NothingToAggregate, CommitSlice, EndRequest
<1> QED BY <1>1, <1>2, <1>3 DEF ShipStep

(* A shipment, once made, stays; its slice and quantity never change, and  *)
(* what its events said they go on saying.                                 *)
LEMMA ShipmentsStay ==
  ASSUME ShipShape, NEW w \in Staff, ShipStep(w)
  PROVE  /\ ship' \in [Shipments -> {Absent} \cup Parcels]
         /\ events' \in [Shipments -> SUBSET ShipmentStatus]
         /\ \A q \in Shipments : Made(q) =>
              /\ ship'[q] # Absent
              /\ ship'[q].of = ship[q].of /\ ship'[q].qty = ship[q].qty
              /\ events[q] \subseteq events'[q]
<1>1. CASE UNCHANGED <<ship, events>>
  BY <1>1 DEF ShipShape, Made
<1>2. ASSUME NEW p \in Shipments, NEW s \in Slices, NEW n \in 1..MaxUnits, Makes(p, s, n)
      PROVE  /\ ship' \in [Shipments -> {Absent} \cup Parcels]
             /\ events' \in [Shipments -> SUBSET ShipmentStatus]
             /\ \A q \in Shipments : Made(q) => ship'[q] = ship[q] /\ events'[q] = events[q]
  <2>1. \A q \in Shipments : Made(q) => q # p
    BY <1>2 DEF Makes
  <2> QED BY <1>2, <2>1, AfterMake
<1>3. ASSUME NEW p \in Shipments, NEW to \in ShipmentStatus, Reports(p, to)
      PROVE  /\ ship' \in [Shipments -> {Absent} \cup Parcels]
             /\ events' \in [Shipments -> SUBSET ShipmentStatus]
             /\ \A q \in Shipments : Made(q) =>
                  /\ ship'[q] # Absent
                  /\ ship'[q].of = ship[q].of /\ ship'[q].qty = ship[q].qty
                  /\ events[q] \subseteq events'[q]
  <2>1. \A q \in Shipments : Made(q) => ship'[q] # Absent
    BY <1>3, AfterReport DEF Made
  <2>2. \A q \in Shipments : events[q] \subseteq events'[q]
    BY <1>3, AfterReport
  <2> QED BY <1>3, <2>1, <2>2, AfterReport
<1> QED BY <1>1, <1>2, <1>3, ShipKinds DEF Made

LEMMA ShipShapeInit == Init => ShipShape
BY DEF Init, ShipInit, ShipShape, RequestOK, NoRequest

LEMMA ShipShapeStep ==
  ASSUME ShipShape, NEW w \in Staff, ShipStep(w)
  PROVE  ShipShape'
<1> DEFINE j == desk[w]
<1>0. RequestOK(j) /\ (j.op \in {"report", "reload", "list"} => Made(j.ship))
  BY DEF ShipShape
<1>1. ASSUME NEW r, DeskTurns(w, r), RequestOK(r),
             r.op \in {"report", "reload", "list"} => ship'[r.ship] # Absent
      PROVE  ShipShape'
  BY <1>1, ShapeAfter, ShipmentsStay DEF Made
<1> HIDE DEF j
<1>2. ASSUME NEW s \in Slices, NEW n \in 1..MaxUnits, BeginShipment(w, s, n)
      PROVE  ShipShape'
  <2> DEFINE r == [op |-> "create", of |-> s, qty |-> n]
  <2>1. DeskTurns(w, r) /\ RequestOK(r) /\ r.op = "create"
    BY <1>2 DEF BeginShipment, DeskTurns, RequestOK
  <2> QED BY ONLY <1>1, <2>1
<1>3. ASSUME DeskTurns(w, NoRequest)
      PROVE  ShipShape'
  BY <1>1, <1>3 DEF RequestOK, NoRequest
<1>4. ASSUME NEW p \in Shipments, CreateShipment(w, p)
      PROVE  ShipShape'
  BY <1>3, <1>4 DEF CreateShipment, DeskTurns
<1>5. ASSUME NEW p \in Shipments, NEW to \in Reported, BeginReport(w, p, to)
      PROVE  ShipShape'
  <2> DEFINE r == [op |-> "report", ship |-> p, to |-> to]
  <2>1. ship[p].status \in ShipmentStatus
    BY <1>5, ParcelTyping DEF BeginReport, Parcels
  <2>2. to \in ShipmentStatus
    BY <1>5, <2>1, TransitionTyping DEF BeginReport
  <2>3. DeskTurns(w, r) /\ RequestOK(r) /\ ship'[r.ship] # Absent
    BY <1>5, <2>2, ShipmentsStay DEF BeginReport, DeskTurns, RequestOK, Made
  <2> QED BY ONLY <1>1, <2>3
<1>6. CASE AppendShipmentEvent(w)
  <2> DEFINE r == [op |-> "reload", ship |-> j.ship]
  <2>1. j.ship \in Shipments /\ Made(j.ship)
    BY <1>0, <1>6 DEF AppendShipmentEvent, RequestOK, NoRequest, j
  <2>2. DeskTurns(w, r) /\ RequestOK(r) /\ ship'[r.ship] # Absent
    BY <1>6, <2>1, ShipmentsStay DEF AppendShipmentEvent, DeskTurns, RequestOK, j
  <2> QED BY ONLY <1>1, <2>2
<1>7. CASE ReloadShipment(w)
  <2> DEFINE r == [op |-> "list", ship |-> j.ship, now |-> ship[j.ship].status]
  <2>1. j.ship \in Shipments /\ Made(j.ship)
    BY <1>0, <1>7 DEF ReloadShipment, RequestOK, NoRequest, j
  <2>2. ship[j.ship].status \in ShipmentStatus
    BY <2>1, ParcelTyping DEF Parcels
  <2>3. DeskTurns(w, r)
    BY <1>7 DEF ReloadShipment, DeskTurns, j
  <2>4. RequestOK(r) /\ ship'[r.ship] # Absent
    BY <2>1, <2>2, ShipmentsStay DEF RequestOK
  <2> QED BY ONLY <1>1, <2>3, <2>4
<1>8. CASE ListSiblings(w)
  <2>1. j.ship \in Shipments /\ Made(j.ship)
    BY <1>0, <1>8 DEF ListSiblings, RequestOK, NoRequest, j
  <2>2. ship[j.ship].of \in Slices
    BY <2>1, ParcelTyping DEF Parcels
  <2>3. PICK r : r.op = "aggregate" /\ r.of = ship[j.ship].of /\ DeskTurns(w, r)
    BY <1>8 DEF ListSiblings, DeskTurns, j
  <2> QED BY <1>1, <2>2, <2>3 DEF RequestOK
<1>9. CASE UpdateSlice(w)
  <2> DEFINE siblings == {SliceAfter(j.seen)} \cup {voStatus[s] : s \in Slices \ {j.of}}
             r == [op |-> "commit", of |-> j.of, next |-> SliceAfter(j.seen),
                   order |-> OrderAfter(siblings)]
  <2>0. j.op = "aggregate" /\ DeskTurns(w, r)
    BY <1>9 DEF UpdateSlice, DeskTurns, j
  <2>1. j.of \in Slices
    BY ONLY <1>0, <2>0 DEF RequestOK, NoRequest
  <2>2. /\ r.op = "commit" /\ r.of = j.of /\ r.next = SliceAfter(j.seen)
        /\ r.order \in {"FULFILLED", "PARTIALLY_FULFILLED"}
    BY DEF OrderAfter
  <2>3. SliceAfter(j.seen) \in {"DELIVERED", "PARTIALLY_SHIPPED"}
    BY <1>9 DEF UpdateSlice, SliceAfter, j
  <2> HIDE DEF r
  <2> QED BY <1>1, <2>0, <2>1, <2>2, <2>3 DEF RequestOK
<1>10. CASE NothingToAggregate(w) \/ CommitSlice(w) \/ EndRequest(w)
  BY <1>3, <1>10 DEF NothingToAggregate, CommitSlice, EndRequest, DeskTurns
<1> QED BY <1>2, <1>4, <1>5, <1>6, <1>7, <1>8, <1>9, <1>10 DEF ShipStep

-----------------------------------------------------------------------------
(* Returns and refunds. *)

ReturnRows == [status : ReturnStatus, of : Slices, qty : 1..MaxUnit]
RefundRows == [status : Reserving \cup {"FAILED"}, of : Slices, amt : 1..MaxUnit, known : BOOLEAN,
               for : Returns \cup {"none"}]

(* What a clerk carries from one of his transactions to the next. *)
WorkOK(j) ==
  \/ j = NoWork
  \/ j.op = "ask" /\ j.f \in RefundIds
  \/ j.op = "answered" /\ j.f \in RefundIds /\ j.a \in {"unknown", "nothing", "accepted", "paid"}
  \/ j.op = "verified" /\ j.f \in RefundIds /\ j.a \in {"paid", "failed", "pending"}
  \/ j.op = "sum" /\ j.f \in RefundIds /\ j.slice \in BOOLEAN
  \/ j.op = "book" /\ j.f \in RefundIds /\ j.slice \in BOOLEAN /\ j.all \in BOOLEAN

Working == {"ask", "answered", "verified", "sum", "book"}

RefundShape ==
  /\ returns \in [Returns -> {NoReturn} \cup ReturnRows]
  /\ restocks \in [Returns -> {0, 1}]
  /\ refund \in [RefundIds -> {NoRefund} \cup RefundRows]
  /\ asked \in [RefundIds -> Nat]
  /\ made \in [RefundIds -> {"nothing", "accepted", "paid", "failed"}]
  /\ misread \in [RefundIds -> BOOLEAN]
  /\ DOMAIN clerk = Clerks
  /\ \A k \in Clerks :
       /\ WorkOK(clerk[k])
       /\ clerk[k].op \in Working => Requested(clerk[k].f)

(* The refund f is rewritten: st is its status now, kn whether it is known. *)
Rewritten(f, st, kn) ==
  /\ refund' \in [RefundIds -> {NoRefund} \cup RefundRows]
  /\ \A g \in RefundIds \ {f} : refund'[g] = refund[g]
  /\ refund'[f] # NoRefund
  /\ refund'[f].status = st /\ refund'[f].known = kn
  /\ refund'[f].of = refund[f].of /\ refund'[f].amt = refund[f].amt

LEMMA RefundTyping ==
  ASSUME RefundShape, NEW f \in RefundIds, Requested(f)
  PROVE  refund[f] \in RefundRows
BY DEF RefundShape, Requested

LEMMA StatusRewritten ==
  ASSUME RefundShape, NEW f \in RefundIds, Requested(f), NEW st \in Reserving \cup {"FAILED"},
         refund' = [refund EXCEPT ![f].status = st]
  PROVE  Rewritten(f, st, refund[f].known)
<1> DEFINE r == [refund[f] EXCEPT !.status = st]
<1>1. refund[f] \in RefundRows
  BY RefundTyping
<1>2. /\ r \in RefundRows /\ r.status = st
      /\ r.of = refund[f].of /\ r.amt = refund[f].amt /\ r.known = refund[f].known
  BY <1>1 DEF RefundRows
<1>3. refund' = [refund EXCEPT ![f] = r]
  OBVIOUS
<1>4. r # NoRefund
  BY <1>2 DEF NoRefund, Reserving
<1> HIDE DEF r
<1> QED BY <1>2, <1>3, <1>4 DEF RefundShape, Rewritten

LEMMA KnownRewritten ==
  ASSUME RefundShape, NEW f \in RefundIds, Requested(f),
         refund' = [refund EXCEPT ![f].known = TRUE]
  PROVE  Rewritten(f, refund[f].status, TRUE)
<1> DEFINE r == [refund[f] EXCEPT !.known = TRUE]
<1>1. refund[f] \in RefundRows
  BY RefundTyping
<1>2. /\ r \in RefundRows /\ r.status = refund[f].status
      /\ r.of = refund[f].of /\ r.amt = refund[f].amt /\ r.known = TRUE
  BY <1>1 DEF RefundRows
<1>3. refund' = [refund EXCEPT ![f] = r]
  OBVIOUS
<1>4. r # NoRefund
  BY <1>1, <1>2 DEF NoRefund, Reserving, RefundRows
<1> HIDE DEF r
<1> QED BY <1>2, <1>3, <1>4 DEF RefundShape, Rewritten

LEMMA BookedRewritten ==
  ASSUME RefundShape, NEW f \in RefundIds, Requested(f),
         refund' = [refund EXCEPT ![f].status = "SUCCEEDED", ![f].known = TRUE]
  PROVE  Rewritten(f, "SUCCEEDED", TRUE)
<1> DEFINE r == [refund[f] EXCEPT !.status = "SUCCEEDED", !.known = TRUE]
<1>1. refund[f] \in RefundRows
  BY RefundTyping
<1>2. /\ r \in RefundRows /\ r.status = "SUCCEEDED"
      /\ r.of = refund[f].of /\ r.amt = refund[f].amt /\ r.known = TRUE
  BY <1>1 DEF RefundRows, Reserving
<1>3. refund' = [refund EXCEPT ![f] = r]
  BY DEF RefundShape
<1>4. r # NoRefund
  BY <1>2 DEF NoRefund, Reserving
<1> HIDE DEF r
<1> QED BY <1>2, <1>3, <1>4 DEF RefundShape, Rewritten

(* A refund that was asked for in a request of its own. *)
LEMMA RefundRequested ==
  ASSUME RefundShape, NEW f \in RefundIds, NEW s \in Slices, NEW n \in 1..MaxUnit,
         NEW q \in Returns \cup {"none"}, CreateRefundRequest(f, s, n, q)
  PROVE  /\ refund' \in [RefundIds -> {NoRefund} \cup RefundRows]
         /\ ~Requested(f)
         /\ \A g \in RefundIds \ {f} : refund'[g] = refund[g]
         /\ refund'[f] = [status |-> "REQUESTED", of |-> s, amt |-> n, known |-> FALSE, for |-> q]
         /\ refund'[f] # NoRefund
<1> DEFINE r == [status |-> "REQUESTED", of |-> s, amt |-> n, known |-> FALSE, for |-> q]
<1>1. r \in RefundRows
  BY DEF RefundRows, Reserving
<1>2. r # NoRefund
  BY DEF NoRefund
<1>3. refund' = [refund EXCEPT ![f] = r] /\ ~Requested(f)
  BY DEF CreateRefundRequest
<1>4. /\ refund' \in [RefundIds -> {NoRefund} \cup RefundRows] /\ refund'[f] = r
      /\ \A g \in RefundIds \ {f} : refund'[g] = refund[g]
  <2> HIDE DEF r
  <2> QED BY <1>1, <1>3 DEF RefundShape
<1> QED BY <1>2, <1>3, <1>4

(* The work of k becomes j, that of the others stays. *)
ClerkTurns(k, j) == clerk' = [clerk EXCEPT ![k] = j]

LEMMA ClerkAfter ==
  ASSUME RefundShape, NEW k \in Clerks, NEW j, ClerkTurns(k, j)
  PROVE  DOMAIN clerk' = Clerks /\ clerk'[k] = j /\ \A x \in Clerks \ {k} : clerk'[x] = clerk[x]
BY DEF ClerkTurns, RefundShape

(* Whoever works, works on a refund that was requested. *)
LEMMA WorkTyping ==
  ASSUME RefundShape, NEW k \in Clerks, clerk[k].op \in Working
  PROVE  /\ clerk[k].f \in RefundIds /\ Requested(clerk[k].f)
         /\ clerk[k].op = "answered" => clerk[k].a \in {"unknown", "nothing", "accepted", "paid"}
         /\ clerk[k].op = "verified" => clerk[k].a \in {"paid", "failed", "pending"}
         /\ clerk[k].op = "sum" => clerk[k].slice \in BOOLEAN
         /\ clerk[k].op = "book" => clerk[k].slice \in BOOLEAN /\ clerk[k].all \in BOOLEAN
<1>1. WorkOK(clerk[k]) /\ Requested(clerk[k].f)
  BY DEF RefundShape
<1>2. clerk[k].f \in RefundIds
  BY <1>1 DEF WorkOK, NoWork, Working
<1> QED BY <1>1, <1>2 DEF WorkOK, NoWork, Working

(* A status of a refund with work to do, as the claims and reads need it.  *)
LEMMA ClaimableIsRequested ==
  ASSUME NEW f \in RefundIds, Claimable(f) \/ Reconcilable(f)
  PROVE  Requested(f)
BY DEF Claimable, Reconcilable, Requested, NoRefund

(* The status a refund may go to. *)
StatusMove(f, st) ==
  \/ st \in {refund[f].status, "FAILED"}
  \/ Claimable(f) /\ st = "PROCESSING"
  \/ st = "SUCCEEDED" /\ \E k \in Clerks : clerk[k].op = "book" /\ clerk[k].f = f

(* What each step does to the refunds. *)
LEMMA RefundKinds ==
  ASSUME RefundShape, RefundNext
  PROVE  \/ UNCHANGED refund
         \/ \E f \in RefundIds, s \in Slices, n \in 1..MaxUnit, q \in Returns \cup {"none"} :
              CreateRefundRequest(f, s, n, q)
         \/ \E f \in RefundIds : Requested(f) /\ \E st, kn : StatusMove(f, st) /\ Rewritten(f, st, kn)
<1>1. ASSUME NEW q \in Returns, ReturnStep(q)
      PROVE  UNCHANGED refund
  BY <1>1 DEF ReturnStep, CreateReturn, TransitionReturn, RestockReturn
<1>2. ASSUME NEW f \in RefundIds, RefundStep(f)
      PROVE  \/ UNCHANGED refund
             \/ \E s \in Slices, n \in 1..MaxUnit, q \in Returns \cup {"none"} :
                  CreateRefundRequest(f, s, n, q)
  BY <1>2 DEF RefundStep, ProviderDecides
<1>3. ASSUME NEW k \in Clerks, ClerkStep(k)
      PROVE  \/ UNCHANGED refund
             \/ \E f \in RefundIds : Requested(f) /\ \E st, kn : StatusMove(f, st) /\ Rewritten(f, st, kn)
  <2> DEFINE f == clerk[k].f
  <2>0. clerk[k].op \in Working => f \in RefundIds /\ Requested(f)
    BY WorkTyping
  <2>moves. StatusMove(f, "FAILED") /\ StatusMove(f, refund[f].status)
    BY DEF StatusMove
  <2> HIDE DEF f
  <2>1. ASSUME NEW g \in RefundIds, ClaimRefund(k, g)
        PROVE  /\ Requested(g) /\ StatusMove(g, "PROCESSING")
               /\ Rewritten(g, "PROCESSING", refund[g].known)
    BY <2>1, ClaimableIsRequested, StatusRewritten DEF ClaimRefund, Reserving, StatusMove
  <2>2. CASE SourceUnavailable(k)
    <3>1. refund' = [refund EXCEPT ![f].status = "FAILED"] /\ clerk[k].op \in Working
      BY <2>2 DEF SourceUnavailable, f, Working
    <3> QED BY <2>0, <2>moves, <3>1, StatusRewritten
  <2>3. CASE MarkRefundFailure(k)
    <3>1. refund' = [refund EXCEPT ![f].status = "FAILED"] /\ clerk[k].op \in Working
      BY <2>3 DEF MarkRefundFailure, f, Working
    <3> QED BY <2>0, <2>moves, <3>1, StatusRewritten
  <2>4. CASE MarkRefundSubmitted(k)
    <3>1. refund' = [refund EXCEPT ![f].known = TRUE] /\ clerk[k].op \in Working
      BY <2>4 DEF MarkRefundSubmitted, f, Working
    <3> QED BY <2>0, <2>moves, <3>1, KnownRewritten
  <2>5. CASE UpdateVerification(k)
    <3>1. \/ refund' = [refund EXCEPT ![f].status = "FAILED"] /\ clerk[k].op \in Working
          \/ UNCHANGED refund
      BY <2>5 DEF UpdateVerification, f, Working
    <3> QED BY <2>0, <2>moves, <3>1, StatusRewritten
  <2>6. CASE CommitBooking(k)
    <3>1. /\ refund' = [refund EXCEPT ![f].status = "SUCCEEDED", ![f].known = TRUE]
          /\ clerk[k].op \in Working /\ StatusMove(f, "SUCCEEDED")
      BY <2>6 DEF CommitBooking, f, Working, StatusMove
    <3> QED BY <2>0, <3>1, BookedRewritten
  <2>7. (\E g \in RefundIds, a \in {"paid", "failed", "pending"} : ReconcileRefund(k, g, a))
          \/ AskProvider(k) \/ BeginBooking(k) \/ BookSlice(k) \/ EndWork(k)
        => UNCHANGED refund
    BY DEF ReconcileRefund, AskProvider, BeginBooking, BookSlice, EndWork
  <2> QED BY <1>3, <2>1, <2>2, <2>3, <2>4, <2>5, <2>6, <2>7 DEF ClerkStep
<1> QED BY <1>1, <1>2, <1>3 DEF RefundNext

(* A refund once requested stays, for the same slice and the same amount.  *)
LEMMA RefundsStay ==
  ASSUME RefundShape, RefundNext
  PROVE  /\ refund' \in [RefundIds -> {NoRefund} \cup RefundRows]
         /\ \A g \in RefundIds : Requested(g) =>
              /\ refund'[g] # NoRefund
              /\ refund'[g].of = refund[g].of /\ refund'[g].amt = refund[g].amt
<1>1. CASE UNCHANGED refund
  BY <1>1 DEF RefundShape, Requested
<1>2. ASSUME NEW f \in RefundIds, NEW s \in Slices, NEW n \in 1..MaxUnit,
             NEW q \in Returns \cup {"none"}, CreateRefundRequest(f, s, n, q)
      PROVE  /\ refund' \in [RefundIds -> {NoRefund} \cup RefundRows]
             /\ \A g \in RefundIds : Requested(g) => refund'[g] = refund[g]
  BY <1>2, RefundRequested
<1>3. ASSUME NEW f \in RefundIds, NEW st, NEW kn, Requested(f), Rewritten(f, st, kn)
      PROVE  /\ refund' \in [RefundIds -> {NoRefund} \cup RefundRows]
             /\ \A g \in RefundIds : Requested(g) =>
                  /\ refund'[g] # NoRefund
                  /\ refund'[g].of = refund[g].of /\ refund'[g].amt = refund[g].amt
  BY <1>3 DEF Rewritten, Requested
<1> QED BY <1>1, <1>2, <1>3, RefundKinds DEF Requested

(* A return moves from one status to one the machine allows.               *)
Moved(q, to) ==
  /\ returns[q] # NoReturn /\ to \in ReturnMoves[returns[q].status]
  /\ returns' = [returns EXCEPT ![q].status = to]

LEMMA ReturnMoved ==
  ASSUME RefundShape, NEW q \in Returns, NEW to, Moved(q, to)
  PROVE  /\ returns' \in [Returns -> {NoReturn} \cup ReturnRows]
         /\ returns[q].status \notin Closed
         /\ \A x \in Returns \ {q} : returns'[x] = returns[x]
         /\ returns'[q] # NoReturn
         /\ returns'[q].of = returns[q].of /\ returns'[q].qty = returns[q].qty
<1> DEFINE r == [returns[q] EXCEPT !.status = to]
<1>1. returns[q] \in ReturnRows
  BY DEF RefundShape, Moved
<1>2. to \in ReturnStatus /\ returns[q].status \notin Closed
  BY <1>1, ClosedIsFinal DEF Moved, ReturnRows
<1>3. r \in ReturnRows /\ r.of = returns[q].of /\ r.qty = returns[q].qty /\ r.status = to
  BY <1>1, <1>2 DEF ReturnRows
<1>4. returns' = [returns EXCEPT ![q] = r]
  BY DEF Moved
<1>5. r # NoReturn
  BY <1>2, <1>3, ReturnStatuses DEF NoReturn
<1> HIDE DEF r
<1> QED BY <1>2, <1>3, <1>4, <1>5 DEF RefundShape

LEMMA ReturnCreated ==
  ASSUME RefundShape, NEW q \in Returns, NEW s \in Slices, NEW n \in 1..MaxUnit,
         CreateReturn(q, s, n)
  PROVE  /\ returns' \in [Returns -> {NoReturn} \cup ReturnRows]
         /\ returns[q] = NoReturn
         /\ \A x \in Returns \ {q} : returns'[x] = returns[x]
         /\ returns'[q] = [status |-> "REQUESTED", of |-> s, qty |-> n]
<1> DEFINE r == [status |-> "REQUESTED", of |-> s, qty |-> n]
<1>1. r \in ReturnRows
  BY ReturnStatuses DEF ReturnRows
<1>2. returns' = [returns EXCEPT ![q] = r] /\ returns[q] = NoReturn
  BY DEF CreateReturn
<1> HIDE DEF r
<1>3. /\ returns' \in [Returns -> {NoReturn} \cup ReturnRows] /\ returns'[q] = r
      /\ \A x \in Returns \ {q} : returns'[x] = returns[x]
  BY <1>1, <1>2 DEF RefundShape
<1> QED BY <1>2, <1>3 DEF r

(* What each step does to the returns. *)
LEMMA ReturnKinds ==
  ASSUME RefundShape, RefundNext
  PROVE  \/ UNCHANGED returns
         \/ \E q \in Returns, s \in Slices, n \in 1..MaxUnit : CreateReturn(q, s, n)
         \/ \E q \in Returns, to \in ReturnStatus : Moved(q, to)
<1>1. ASSUME NEW q \in Returns, ReturnStep(q)
      PROVE  \/ UNCHANGED returns
             \/ \E s \in Slices, n \in 1..MaxUnit : CreateReturn(q, s, n)
             \/ \E to \in ReturnStatus : Moved(q, to)
  BY <1>1, RefundsAssumption DEF ReturnStep, TransitionReturn, RestockReturn, Moved
<1>2. ASSUME NEW f \in RefundIds, RefundStep(f)
      PROVE  UNCHANGED returns
  BY <1>2 DEF RefundStep, CreateRefundRequest, ProviderDecides
<1>3. ASSUME NEW k \in Clerks, CommitBooking(k)
      PROVE  \/ UNCHANGED returns
             \/ \E q \in Returns, to \in ReturnStatus : Moved(q, to)
  <2> DEFINE q == refund[clerk[k].f].for
  <2>1. clerk[k].op \in Working
    BY <1>3 DEF CommitBooking, Working
  <2>2. refund[clerk[k].f] \in RefundRows
    BY <2>1, WorkTyping, RefundTyping
  <2>3. q \in Returns \cup {"none"}
    BY <2>2, SMTT(30) DEF RefundRows
  <2>4. \/ UNCHANGED returns
        \/ /\ q # "none" /\ returns[q].status = "REFUND_PENDING"
           /\ returns' = [returns EXCEPT ![q].status = "COMPLETED"]
    BY <1>3 DEF CommitBooking
  <2> HIDE DEF q
  <2>5. CASE /\ q # "none" /\ returns[q].status = "REFUND_PENDING"
             /\ returns' = [returns EXCEPT ![q].status = "COMPLETED"]
    <3>1. q \in Returns /\ returns[q] # NoReturn
      BY <2>3, <2>5 DEF NoReturn
    <3>2. "COMPLETED" \in ReturnMoves[returns[q].status] /\ "COMPLETED" \in ReturnStatus
      BY <2>5, ReturnStatuses DEF ReturnMoves
    <3> QED BY <2>5, <3>1, <3>2 DEF Moved
  <2> QED BY <2>4, <2>5
<1>4. ASSUME NEW k \in Clerks, ClerkStep(k), ~CommitBooking(k)
      PROVE  UNCHANGED returns
  BY <1>4 DEF ClerkStep, ClaimRefund, ReconcileRefund, SourceUnavailable, AskProvider,
              MarkRefundFailure, MarkRefundSubmitted, UpdateVerification, BeginBooking, BookSlice,
              EndWork
<1> QED BY <1>1, <1>2, <1>3, <1>4 DEF RefundNext

(* The counters and the provider's side. *)
LEMMA CountersTyping ==
  ASSUME RefundShape, RefundNext
  PROVE  /\ restocks' \in [Returns -> {0, 1}]
         /\ asked' \in [RefundIds -> Nat]
         /\ made' \in [RefundIds -> {"nothing", "accepted", "paid", "failed"}]
         /\ misread' \in [RefundIds -> BOOLEAN]
<1>1. ASSUME NEW q \in Returns, ReturnStep(q)
      PROVE  restocks' \in [Returns -> {0, 1}] /\ UNCHANGED <<asked, made, misread>>
  BY <1>1 DEF ReturnStep, CreateReturn, TransitionReturn, RestockReturn, NotRestocked, RefundShape
<1>2. ASSUME NEW f \in RefundIds, RefundStep(f)
      PROVE  /\ made' \in [RefundIds -> {"nothing", "accepted", "paid", "failed"}]
             /\ UNCHANGED <<restocks, asked, misread>>
  BY <1>2 DEF RefundStep, CreateRefundRequest, ProviderDecides, RefundShape
<1>3. ASSUME NEW k \in Clerks, AskProvider(k)
      PROVE  /\ asked' \in [RefundIds -> Nat]
             /\ made' \in [RefundIds -> {"nothing", "accepted", "paid", "failed"}]
             /\ UNCHANGED <<restocks, misread>>
  <2> DEFINE f == clerk[k].f
  <2>1. /\ asked' = [asked EXCEPT ![f] = @ + 1] /\ UNCHANGED <<restocks, misread>>
        /\ \E m \in {"nothing", "accepted", "paid"} : made' = [made EXCEPT ![f] = m]
    BY <1>3 DEF AskProvider
  <2> HIDE DEF f
  <2>2. asked' \in [RefundIds -> Nat]
    <3>1. asked \in [RefundIds -> Nat] /\ f \in RefundIds
      BY <1>3, WorkTyping DEF RefundShape, AskProvider, Working, f
    <3>2. asked[f] + 1 \in Nat
      BY <3>1
    <3> QED BY <2>1, <3>1, <3>2
  <2>3. made' \in [RefundIds -> {"nothing", "accepted", "paid", "failed"}]
    <3>1. PICK m \in {"nothing", "accepted", "paid"} : made' = [made EXCEPT ![f] = m]
      BY <2>1
    <3>2. made \in [RefundIds -> {"nothing", "accepted", "paid", "failed"}]
      BY DEF RefundShape
    <3> QED BY <3>1, <3>2
  <2> QED BY <2>1, <2>2, <2>3
<1>4. ASSUME NEW k \in Clerks, UpdateVerification(k)
      PROVE  UNCHANGED <<restocks, asked, made>> /\ misread' \in [RefundIds -> BOOLEAN]
  <2>1. misread \in [RefundIds -> BOOLEAN]
    BY DEF RefundShape
  <2> DEFINE f == clerk[k].f
             b == made[f] # "failed"
  <2>2. UNCHANGED misread \/ misread' = [misread EXCEPT ![f] = b]
    BY <1>4 DEF UpdateVerification
  <2>3. b \in BOOLEAN
    OBVIOUS
  <2> HIDE DEF f, b
  <2>4. misread' \in [RefundIds -> BOOLEAN]
    BY <2>1, <2>2, <2>3, SMTT(30)
  <2> QED BY <1>4, <2>4 DEF UpdateVerification
<1>5. ASSUME NEW k \in Clerks, ClerkStep(k), ~AskProvider(k), ~UpdateVerification(k)
      PROVE  UNCHANGED <<restocks, asked, made, misread>>
  BY <1>5 DEF ClerkStep, ClaimRefund, ReconcileRefund, SourceUnavailable, CommitBooking,
              MarkRefundFailure, MarkRefundSubmitted, BeginBooking, BookSlice, EndWork
<1>6. /\ restocks \in [Returns -> {0, 1}] /\ asked \in [RefundIds -> Nat]
      /\ made \in [RefundIds -> {"nothing", "accepted", "paid", "failed"}]
      /\ misread \in [RefundIds -> BOOLEAN]
  BY DEF RefundShape
<1> QED BY <1>1, <1>2, <1>3, <1>4, <1>5, <1>6 DEF RefundNext

(* A step that turns the work of k to j, if j is work on a requested refund. *)
LEMMA RefundShapeAfter ==
  ASSUME RefundShape, RefundNext, NEW k \in Clerks, NEW j, ClerkTurns(k, j), WorkOK(j),
         j.op \in Working => refund'[j.f] # NoRefund
  PROVE  RefundShape'
<1>1. DOMAIN clerk' = Clerks /\ clerk'[k] = j /\ \A x \in Clerks \ {k} : clerk'[x] = clerk[x]
  BY ClerkAfter
<1>2. ASSUME NEW x \in Clerks
      PROVE  /\ WorkOK(clerk'[x])
             /\ clerk'[x].op \in Working => refund'[clerk'[x].f] # NoRefund
  <2>1. CASE x = k
    BY <1>1, <2>1
  <2>2. CASE x # k
    <3>1. clerk'[x] = clerk[x]
      BY <1>1, <2>2
    <3>2. WorkOK(clerk[x])
      BY DEF RefundShape
    <3>3. clerk[x].op \in Working => refund'[clerk[x].f] # NoRefund
      BY WorkTyping, RefundsStay
    <3> QED BY <3>1, <3>2, <3>3
  <2> QED BY <2>1, <2>2
<1>3. returns' \in [Returns -> {NoReturn} \cup ReturnRows]
  <2>1. returns \in [Returns -> {NoReturn} \cup ReturnRows]
    BY DEF RefundShape
  <2> QED BY <2>1, ReturnKinds, ReturnCreated, ReturnMoved
<1> QED BY <1>1, <1>2, <1>3, RefundsStay, CountersTyping DEF RefundShape, Requested, WorkOK

LEMMA RefundShapeInit == Init => RefundShape
<1> SUFFICES ASSUME Init
             PROVE  RefundShape
  OBVIOUS
<1>1. /\ returns = [q \in Returns |-> NoReturn]
      /\ restocks = [q \in Returns |-> 0]
      /\ refund = [f \in RefundIds |-> NoRefund]
      /\ asked = [f \in RefundIds |-> 0]
      /\ made = [f \in RefundIds |-> "nothing"]
      /\ misread = [f \in RefundIds |-> FALSE]
      /\ clerk = [k \in Clerks |-> NoWork]
  BY DEF Init, RefundInit
<1>2. NoWork.op \notin Working /\ WorkOK(NoWork)
  BY DEF NoWork, Working, WorkOK
<1> QED BY <1>1, <1>2 DEF RefundShape

LEMMA RefundShapeStep ==
  ASSUME RefundShape, RefundNext
  PROVE  RefundShape'
<1>1. ASSUME UNCHANGED clerk
      PROVE  RefundShape'
  <2>1. returns' \in [Returns -> {NoReturn} \cup ReturnRows]
    <3>1. returns \in [Returns -> {NoReturn} \cup ReturnRows]
      BY DEF RefundShape
    <3> QED BY <3>1, ReturnKinds, ReturnCreated, ReturnMoved
  <2>2. \A x \in Clerks : clerk[x].op \in Working => refund'[clerk[x].f] # NoRefund
    BY WorkTyping, RefundsStay
  <2> QED BY <1>1, <2>1, <2>2, RefundsStay, CountersTyping DEF RefundShape, Requested, WorkOK
<1>2. ASSUME NEW k \in Clerks, ClerkStep(k)
      PROVE  RefundShape'
  <2> DEFINE f == clerk[k].f
  <2>0. clerk[k].op \in Working => f \in RefundIds /\ refund'[f] # NoRefund
    BY WorkTyping, RefundsStay
  <2>1. ASSUME ClerkTurns(k, NoWork)
        PROVE  RefundShape'
    <3>1. WorkOK(NoWork) /\ NoWork.op \notin Working
      BY DEF WorkOK, NoWork, Working
    <3> QED BY <2>1, <3>1, RefundShapeAfter
  <2> HIDE DEF f
  <2>2. ASSUME NEW g \in RefundIds, ClaimRefund(k, g)
        PROVE  RefundShape'
    <3> DEFINE j == [op |-> "ask", f |-> g]
    <3>1. ClerkTurns(k, j) /\ WorkOK(j)
      BY <2>2 DEF ClaimRefund, ClerkTurns, WorkOK
    <3>2. refund'[j.f] # NoRefund
      BY <2>2, ClaimableIsRequested, RefundsStay DEF ClaimRefund
    <3> HIDE DEF j
    <3> QED BY <3>1, <3>2, RefundShapeAfter
  <2>3. ASSUME NEW g \in RefundIds, NEW a \in {"paid", "failed", "pending"},
               ReconcileRefund(k, g, a)
        PROVE  RefundShape'
    <3> DEFINE j == [op |-> "verified", f |-> g, a |-> a]
    <3>1. ClerkTurns(k, j) /\ WorkOK(j)
      BY <2>3 DEF ReconcileRefund, ClerkTurns, WorkOK
    <3>2. refund'[j.f] # NoRefund
      BY <2>3, ClaimableIsRequested, RefundsStay DEF ReconcileRefund
    <3> HIDE DEF j
    <3> QED BY <3>1, <3>2, RefundShapeAfter
  <2>4. CASE AskProvider(k)
    <3>1. PICK a \in {"unknown", "nothing", "accepted", "paid"} :
            ClerkTurns(k, [op |-> "answered", f |-> f, a |-> a])
      BY <2>4 DEF AskProvider, ClerkTurns, f
    <3> DEFINE j == [op |-> "answered", f |-> f, a |-> a]
    <3>2. f \in RefundIds /\ refund'[f] # NoRefund
      BY <2>0, <2>4 DEF AskProvider, Working
    <3>3. WorkOK(j) /\ refund'[j.f] # NoRefund /\ ClerkTurns(k, j)
      BY <3>1, <3>2 DEF WorkOK
    <3> HIDE DEF j
    <3> QED BY <3>3, RefundShapeAfter
  <2>5. CASE BeginBooking(k)
    <3> DEFINE s == refund[f].of
               b == Cardinality(Coins((Succeeded \cap RefundsOf(s)) \cup {f})) >= Price[s]
    <3>1. b \in BOOLEAN /\ ClerkTurns(k, [op |-> "sum", f |-> f, slice |-> b])
      BY <2>5 DEF BeginBooking, ClerkTurns, f
    <3> HIDE DEF b
    <3> DEFINE j == [op |-> "sum", f |-> f, slice |-> b]
    <3>2. f \in RefundIds /\ refund'[f] # NoRefund
      BY <2>0, <2>5 DEF BeginBooking, Working
    <3>3. WorkOK(j) /\ refund'[j.f] # NoRefund /\ ClerkTurns(k, j)
      BY <3>1, <3>2 DEF WorkOK
    <3> HIDE DEF j
    <3> QED BY <3>3, RefundShapeAfter
  <2>6. CASE BookSlice(k)
    <3> DEFINE j == [op |-> "book", f |-> f, slice |-> clerk[k].slice, all |-> AllRefunded(f)]
    <3>1. clerk[k].op = "sum" /\ ClerkTurns(k, j)
      BY <2>6 DEF BookSlice, ClerkTurns, f
    <3>2. f \in RefundIds /\ refund'[f] # NoRefund /\ clerk[k].slice \in BOOLEAN
      BY <2>0, <3>1, WorkTyping DEF Working
    <3>3. AllRefunded(f) \in BOOLEAN
      BY DEF AllRefunded
    <3>4. WorkOK(j) /\ refund'[j.f] # NoRefund
      BY <3>2, <3>3, SMTT(30) DEF WorkOK
    <3> HIDE DEF j
    <3> QED BY <3>1, <3>4, RefundShapeAfter
  <2>7. SourceUnavailable(k) \/ MarkRefundFailure(k) \/ MarkRefundSubmitted(k)
          \/ UpdateVerification(k) \/ CommitBooking(k) \/ EndWork(k)
        => ClerkTurns(k, NoWork)
    BY DEF SourceUnavailable, MarkRefundFailure, MarkRefundSubmitted, UpdateVerification,
           CommitBooking, EndWork, ClerkTurns
  <2> QED BY <1>2, <2>1, <2>2, <2>3, <2>4, <2>5, <2>6, <2>7 DEF ClerkStep
<1>3. ASSUME NEW q \in Returns, ReturnStep(q)
      PROVE  UNCHANGED clerk
  BY <1>3 DEF ReturnStep, CreateReturn, TransitionReturn, RestockReturn
<1>4. ASSUME NEW f \in RefundIds, RefundStep(f)
      PROVE  UNCHANGED clerk
  BY <1>4 DEF RefundStep, CreateRefundRequest, ProviderDecides
<1> QED BY <1>1, <1>2, <1>3, <1>4 DEF RefundNext

-----------------------------------------------------------------------------
(* The rows both sides write, and the whole. *)

LEMMA RowsTypingShip ==
  ASSUME RowsTypeOK, ShipShape, NEW w \in Staff, ShipStep(w)
  PROVE  RowsTypeOK'
<1>0. RequestOK(desk[w])
  BY DEF ShipShape
<1>1. CASE UpdateSlice(w)
  <2>1. /\ desk[w].op = "aggregate" /\ writing' = writing \cup {desk[w].of}
        /\ UNCHANGED <<bought, voStatus, orderStatus, payStatus>>
    BY <1>1 DEF UpdateSlice
  <2>2. desk[w].of \in Slices
    BY ONLY <1>0, <2>1 DEF RequestOK, NoRequest
  <2> QED BY <2>1, <2>2 DEF RowsTypeOK
<1>2. CASE CommitSlice(w)
  <2>1. /\ desk[w].op = "commit"
        /\ voStatus' = [voStatus EXCEPT ![desk[w].of] = desk[w].next]
        /\ orderStatus' = desk[w].order /\ writing' = writing \ {desk[w].of}
        /\ UNCHANGED <<bought, payStatus>>
    BY <1>2 DEF CommitSlice
  <2>2. /\ desk[w].next \in VendorOrderStatus /\ desk[w].order \in PaidOrderStatus
    BY ONLY <1>0, <2>1 DEF RequestOK, NoRequest, VendorOrderStatus, PaidOrderStatus
  <2> QED BY <2>1, <2>2 DEF RowsTypeOK
<1>3. CASE EndRequest(w)
  <2>1. writing' \subseteq writing /\ UNCHANGED <<bought, voStatus, orderStatus, payStatus>>
    BY <1>3 DEF EndRequest
  <2> QED BY <2>1 DEF RowsTypeOK
<1>4. ASSUME ~UpdateSlice(w), ~CommitSlice(w), ~EndRequest(w)
      PROVE  UNCHANGED rows
  BY <1>4 DEF ShipStep, BeginShipment, CreateShipment, BeginReport, AppendShipmentEvent,
              ReloadShipment, ListSiblings, NothingToAggregate
<1> QED BY <1>1, <1>2, <1>3, <1>4 DEF RowsTypeOK, rows

LEMMA RowsTypingRefund ==
  ASSUME RowsTypeOK, RefundShape, RefundNext
  PROVE  RowsTypeOK'
<1>1. ASSUME NEW k \in Clerks, BookSlice(k)
      PROVE  RowsTypeOK'
  <2>1. refund[clerk[k].f] \in RefundRows
    BY <1>1, WorkTyping, RefundTyping DEF BookSlice, Working
  <2>2. /\ writing' = writing \cup {refund[clerk[k].f].of}
        /\ UNCHANGED <<bought, voStatus, orderStatus, payStatus>>
    BY <1>1 DEF BookSlice
  <2>3. refund[clerk[k].f].of \in Slices
    BY <2>1 DEF RefundRows
  <2> QED BY <2>2, <2>3 DEF RowsTypeOK
<1>2. ASSUME NEW k \in Clerks, CommitBooking(k)
      PROVE  RowsTypeOK'
  <2>1. PICK a \in {"REFUNDED", "PARTIALLY_REFUNDED"}, b \in {"REFUNDED", "PARTIALLY_REFUNDED"} :
          /\ voStatus' = [voStatus EXCEPT ![refund[clerk[k].f].of] = a]
          /\ payStatus' = b /\ orderStatus' = b
          /\ writing' = writing \ {refund[clerk[k].f].of} /\ UNCHANGED bought
    BY <1>2 DEF CommitBooking
  <2> QED BY <2>1 DEF RowsTypeOK, VendorOrderStatus, PaidOrderStatus, PaymentStatus
<1>3. ASSUME NEW k \in Clerks, EndWork(k)
      PROVE  RowsTypeOK'
  <2>1. writing' \subseteq writing /\ UNCHANGED <<bought, voStatus, orderStatus, payStatus>>
    BY <1>3 DEF EndWork
  <2> QED BY <2>1 DEF RowsTypeOK
<1>4. ASSUME NEW k \in Clerks, ClerkStep(k), ~BookSlice(k), ~CommitBooking(k), ~EndWork(k)
      PROVE  UNCHANGED rows
  BY <1>4 DEF ClerkStep, ClaimRefund, ReconcileRefund, SourceUnavailable, AskProvider,
              MarkRefundFailure, MarkRefundSubmitted, UpdateVerification, BeginBooking
<1>5. ASSUME NEW q \in Returns, ReturnStep(q)
      PROVE  UNCHANGED rows
  BY <1>5 DEF ReturnStep, CreateReturn, TransitionReturn, RestockReturn
<1>6. ASSUME NEW f \in RefundIds, RefundStep(f)
      PROVE  UNCHANGED rows
  BY <1>6 DEF RefundStep, CreateRefundRequest, ProviderDecides
<1> QED BY <1>1, <1>2, <1>3, <1>4, <1>5, <1>6 DEF RefundNext, RowsTypeOK, rows

Shape == RowsTypeOK /\ ShipShape /\ RefundShape

LEMMA ShapeInit == Init => Shape
<1>1. Init => RowsTypeOK
  BY DEF Init, RowsInit, RowsTypeOK, VendorOrderStatus, PaidOrderStatus, PaymentStatus
<1> QED BY <1>1, ShipShapeInit, RefundShapeInit DEF Shape

LEMMA ShapeStep ==
  ASSUME Shape, [Next]_vars
  PROVE  Shape'
<1>1. CASE ShipNext /\ UNCHANGED refunding
  <2>1. PICK w \in Staff : ShipStep(w)
    BY <1>1 DEF ShipNext
  <2>2. RefundShape'
    BY <1>1 DEF Shape, RefundShape, refunding, Requested
  <2> QED BY <2>1, <2>2, RowsTypingShip, ShipShapeStep DEF Shape
<1>2. CASE RefundNext /\ UNCHANGED shipping
  <2>1. ShipShape'
    BY <1>2 DEF Shape, ShipShape, shipping, Made
  <2> QED BY <1>2, <2>1, RowsTypingRefund, RefundShapeStep DEF Shape
<1>3. CASE UNCHANGED vars
  BY <1>3 DEF vars, rows, shipping, refunding, Shape, RowsTypeOK, ShipShape, RefundShape, Made,
              Requested
<1> QED BY <1>1, <1>2, <1>3 DEF Next

LEMMA Shapes == Spec => []Shape
<1>1. Init => Shape
  BY ShapeInit
<1>2. Shape /\ [Next]_vars => Shape'
  BY ShapeStep
<1> QED BY <1>1, <1>2, PTL DEF Spec

LEMMA ShapeTypes == Shape => TypeOK
<1> SUFFICES ASSUME Shape
             PROVE  TypeOK
  OBVIOUS
<1>1. ShipTypeOK
  BY DEF Shape, ShipShape, ShipTypeOK, Parcels
<1>2. RefundTypeOK
  BY DEF Shape, RefundShape, RefundTypeOK, ReturnRows, RefundRows
<1> QED BY <1>1, <1>2 DEF Shape, TypeOK

(* Every row of a paid order, its shipments, returns and refunds holds a   *)
(* value the schema allows, whatever requests and clerks do to them, and a *)
(* return is restocked at most once.                                       *)
THEOREM Typing == Spec => []TypeOK
BY Shapes, ShapeTypes, PTL

-----------------------------------------------------------------------------
(* Shipping. *)

(* The status of a shipment is among its events: a shipment none of whose  *)
(* events says CANCELLED is not cancelled now.                             *)
EventsTell ==
  \A p \in Shipments :
    /\ Made(p) => ship[p].status \in events[p]
    /\ ~Made(p) => events[p] = {}

ShippingInv == EventsTell /\ ShippedWithinOrdered

(* A request that goes on from what it read saw a delivery only where a    *)
(* shipment of that slice reported one.                                    *)
RequestBacked(w) ==
  /\ desk[w].op = "list" /\ desk[w].now = "DELIVERED" => "DELIVERED" \in events[desk[w].ship]
  /\ desk[w].op = "aggregate" /\ "DELIVERED" \in desk[w].seen => Evidence(desk[w].of)
  /\ desk[w].op = "commit" =>
       /\ desk[w].next = "DELIVERED" => Evidence(desk[w].of)
       /\ desk[w].order = "FULFILLED" => \A s \in Slices : Evidence(s)

DeliveryInv ==
  /\ EventsTell
  /\ \A w \in Staff : RequestBacked(w)
  /\ DeliveredOnEvidence

-----------------------------------------------------------------------------
(* No more is shipped than was ordered. *)

LEMMA EventsTellStep ==
  ASSUME ShipShape, EventsTell, NEW w \in Staff, ShipStep(w)
  PROVE  EventsTell'
<1>1. CASE UNCHANGED <<ship, events>>
  BY <1>1 DEF EventsTell, Made
<1>2. ASSUME NEW p \in Shipments, NEW s \in Slices, NEW n \in 1..MaxUnits, Makes(p, s, n)
      PROVE  EventsTell'
  <2>0. /\ ship'[p] = [status |-> "BOOKED", of |-> s, qty |-> n]
        /\ events'[p] = {"BOOKED"}
    BY <1>2, AfterMake
  <2>1. ship'[p].status = "BOOKED" /\ events'[p] = {"BOOKED"}
    BY ONLY <2>0
  <2>2. ship'[p] # Absent
    BY <2>1 DEF Absent
  <2>3. \A q \in Shipments \ {p} : ship'[q] = ship[q] /\ events'[q] = events[q]
    BY <1>2, AfterMake
  <2> QED BY <2>1, <2>2, <2>3 DEF EventsTell, Made
<1>3. ASSUME NEW p \in Shipments, NEW to \in ShipmentStatus, Reports(p, to)
      PROVE  EventsTell'
  <2>1. ship'[p].status = to /\ events'[p] = events[p] \cup {to} /\ ship'[p] # Absent
    BY <1>3, AfterReport DEF Reports, Made
  <2>2. \A q \in Shipments \ {p} : ship'[q] = ship[q] /\ events'[q] = events[q]
    BY <1>3, AfterReport
  <2> QED BY <2>1, <2>2 DEF EventsTell, Made
<1> QED BY <1>1, <1>2, <1>3, ShipKinds

LEMMA AllocatedCountable ==
  ASSUME NEW s
  PROVE  /\ AllocatedUnits(s) \in SUBSET (Shipments \X (1..MaxUnits))
         /\ UnitsNeverCancelled(s) \in SUBSET AllocatedUnits(s)
BY DEF AllocatedUnits, UnitsNeverCancelled

LEMMA UnitsShrink ==
  ASSUME ShippedWithinOrdered, NEW s \in Slices,
         UnitsNeverCancelled(s)' \subseteq UnitsNeverCancelled(s)
  PROVE  Cardinality(UnitsNeverCancelled(s)') <= Ordered[s]
<1>1. UnitsNeverCancelled(s) \in SUBSET (Shipments \X (1..MaxUnits))
  BY AllocatedCountable
<1>2. /\ Cardinality(UnitsNeverCancelled(s)') <= Cardinality(UnitsNeverCancelled(s))
      /\ Cardinality(UnitsNeverCancelled(s)') \in Nat
  BY <1>1, PairsBound, ShipmentsAssumption
<1>3. Cardinality(UnitsNeverCancelled(s)) \in Nat /\ Ordered[s] \in Nat
  BY <1>1, PairsCountable, ShipmentsAssumption, SlicesAssumption
<1> QED BY <1>2, <1>3 DEF ShippedWithinOrdered

(* What a new shipment adds was checked against all that is allocated.     *)
LEMMA MakeShipsWithin ==
  ASSUME ShipShape, ShippingInv, NEW p \in Shipments, NEW s \in Slices, NEW n \in 1..MaxUnits,
         Makes(p, s, n)
  PROVE  ShippedWithinOrdered'
<1>1. /\ ship'[p] = [status |-> "BOOKED", of |-> s, qty |-> n] /\ events'[p] = {"BOOKED"}
      /\ \A q \in Shipments \ {p} : ship'[q] = ship[q] /\ events'[q] = events[q]
  BY AfterMake
<1>2. ASSUME NEW t \in Slices
      PROVE  Cardinality(UnitsNeverCancelled(t)') <= Ordered[t]
  <2>1. CASE t = s
    <3>1. UnitsNeverCancelled(s)' \subseteq AllocatedUnits(s) \cup ({p} \X (1..n))
      BY <1>1 DEF UnitsNeverCancelled, AllocatedUnits
    <3>2. Cardinality(AllocatedUnits(s)) + n <= Ordered[s]
      BY DEF Makes, Fits
    <3>3. AllocatedUnits(s) \in SUBSET (Shipments \X (1..MaxUnits)) /\ n \in Nat
      BY AllocatedCountable
    <3>4. Cardinality(AllocatedUnits(s)) \in Nat
      BY <3>3, PairsCountable, ShipmentsAssumption
    <3>5. /\ Cardinality(UnitsNeverCancelled(s)') \in Nat
          /\ Cardinality(UnitsNeverCancelled(s)') <= Cardinality(AllocatedUnits(s)) + n
      BY <3>1, <3>3, PairsAdded, ShipmentsAssumption
    <3>6. Ordered[s] \in Nat
      BY SlicesAssumption
    <3> QED BY <2>1, <3>2, <3>4, <3>5, <3>6
  <2>2. CASE t # s
    <3>1. UnitsNeverCancelled(t)' \subseteq UnitsNeverCancelled(t)
      BY <1>1, <2>2 DEF UnitsNeverCancelled, AllocatedUnits
    <3> QED BY <3>1, UnitsShrink DEF ShippingInv
  <2> QED BY <2>1, <2>2
<1> QED BY <1>2 DEF ShippedWithinOrdered

(* A report never turns a cancelled shipment into one that never was.      *)
LEMMA ReportShipsWithin ==
  ASSUME ShipShape, ShippingInv, NEW p \in Shipments, NEW to \in ShipmentStatus, Reports(p, to)
  PROVE  ShippedWithinOrdered'
<1>1. /\ \A q \in Shipments : ship'[q].of = ship[q].of /\ ship'[q].qty = ship[q].qty
      /\ \A q \in Shipments \ {p} : ship'[q] = ship[q] /\ events'[q] = events[q]
      /\ events'[p] = events[p] \cup {to}
  BY AfterReport
<1>2. ship[p].status \in events[p]
  BY DEF Reports, ShippingInv, EventsTell
<1>3. ASSUME NEW t \in Slices
      PROVE  UnitsNeverCancelled(t)' \subseteq UnitsNeverCancelled(t)
  BY <1>1, <1>2 DEF UnitsNeverCancelled, AllocatedUnits
<1> QED BY <1>3, UnitsShrink DEF ShippedWithinOrdered, ShippingInv

LEMMA ShippingStep ==
  ASSUME Shape, ShippingInv, [Next]_vars
  PROVE  ShippingInv'
<1>1. CASE UNCHANGED <<ship, events>>
  BY <1>1 DEF ShippingInv, EventsTell, Made, ShippedWithinOrdered, UnitsNeverCancelled, AllocatedUnits
<1>2. ASSUME NEW w \in Staff, ShipStep(w)
      PROVE  ShippingInv'
  <2>1. EventsTell'
    BY <1>2, EventsTellStep DEF Shape, ShippingInv
  <2>2. ShippedWithinOrdered'
    BY <1>1, <1>2, ShipKinds, MakeShipsWithin, ReportShipsWithin DEF Shape, ShippingInv
  <2> QED BY <2>1, <2>2 DEF ShippingInv
<1> QED BY <1>1, <1>2 DEF Next, ShipNext, vars, shipping

LEMMA ShippingInit == Init => ShippingInv
<1> SUFFICES ASSUME Init
             PROVE  ShippingInv
  OBVIOUS
<1>1. /\ \A p \in Shipments : ship[p] = Absent
      /\ \A p \in Shipments : events[p] = {}
  BY DEF Init, ShipInit
<1>2. EventsTell
  BY <1>1 DEF EventsTell, Made
<1>3. ASSUME NEW s \in Slices
      PROVE  Cardinality(UnitsNeverCancelled(s)) <= Ordered[s]
  <2>1. UnitsNeverCancelled(s) = {}
    BY <1>1 DEF UnitsNeverCancelled, AllocatedUnits, Absent
  <2>2. Cardinality(UnitsNeverCancelled(s)) = 0 /\ Ordered[s] \in Nat
    BY <2>1, FS_EmptySet, SlicesAssumption
  <2> QED BY <2>2
<1> QED BY <1>2, <1>3 DEF ShippingInv, ShippedWithinOrdered

(* However many requests ship a slice at once, whatever they read before   *)
(* they wrote, its shipments that were never cancelled hold no more units  *)
(* than were ordered: the insert under the vendor order's lock looks again. *)
THEOREM NoUnitShippedTwice == Spec => []ShippedWithinOrdered
<1>1. Init => ShippingInv
  BY ShippingInit
<1>2. Shape /\ ShippingInv /\ [Next]_vars => ShippingInv'
  BY ShippingStep
<1>3. ShippingInv => ShippedWithinOrdered
  BY DEF ShippingInv
<1> QED BY <1>1, <1>2, <1>3, Shapes, PTL DEF Spec

-----------------------------------------------------------------------------
(* What is called delivered was delivered. *)

(* Evidence is never lost. *)
LEMMA EvidenceStays ==
  ASSUME ShipShape, EventsTell, NEW w \in Staff, ShipStep(w), NEW s, Evidence(s)
  PROVE  Evidence(s)'
<1>1. PICK p \in Shipments : ship[p].of = s /\ "DELIVERED" \in events[p]
  BY DEF Evidence
<1>2. Made(p)
  BY <1>1 DEF EventsTell
<1>3. ship'[p].of = s /\ "DELIVERED" \in events'[p]
  BY <1>1, <1>2, ShipmentsStay
<1> QED BY <1>3 DEF Evidence

(* The same, of one shipment that was made. *)
LEMMA DeliveredStays ==
  ASSUME ShipShape, EventsTell, NEW w \in Staff, ShipStep(w), NEW p \in Shipments,
         "DELIVERED" \in events[p]
  PROVE  "DELIVERED" \in events'[p]
BY ShipmentsStay DEF EventsTell

(* A step is one request's. *)
LEMMA OneRequestMoves ==
  ASSUME NEW w \in Staff, ShipStep(w)
  PROVE  \E r : DeskTurns(w, r)
BY DEF ShipStep, BeginShipment, CreateShipment, BeginReport, AppendShipmentEvent, ReloadShipment,
       ListSiblings, UpdateSlice, NothingToAggregate, CommitSlice, EndRequest, DeskTurns

(* What a request has seen stays backed while others work. *)
LEMMA BackedStays ==
  ASSUME ShipShape, EventsTell, NEW w \in Staff, ShipStep(w), NEW x \in Staff \ {w},
         RequestBacked(x)
  PROVE  RequestBacked(x)'
<1>1. desk'[x] = desk[x]
  BY OneRequestMoves, DeskAfter
<1>2. RequestOK(desk[x])
  BY DEF ShipShape
<1>3. ASSUME NEW p \in Shipments, "DELIVERED" \in events[p]
      PROVE  "DELIVERED" \in events'[p]
  BY <1>3, DeliveredStays
<1>4. desk[x].op = "list" => desk[x].ship \in Shipments
  BY <1>2 DEF RequestOK, NoRequest
<1>5. ASSUME NEW s, Evidence(s)
      PROVE  \E p \in Shipments : ship'[p].of = s /\ "DELIVERED" \in events'[p]
  BY <1>5, EvidenceStays DEF Evidence
<1> QED BY <1>1, <1>3, <1>4, <1>5 DEF RequestBacked, Evidence

LEMMA BackedNext ==
  ASSUME Shape, DeliveryInv, NEW w \in Staff, ShipStep(w)
  PROVE  RequestBacked(w)'
<1> DEFINE j == desk[w]
<1>0. RequestOK(j) /\ (j.op \in {"report", "reload", "list"} => Made(j.ship))
  BY DEF Shape, ShipShape
<1>1. ASSUME NEW r, DeskTurns(w, r)
      PROVE  desk'[w] = r
  BY <1>1, DeskAfter DEF Shape
<1>2. ASSUME desk'[w].op \in {"free", "create", "report", "reload"}
      PROVE  RequestBacked(w)'
  BY <1>2 DEF RequestBacked
<1>3. ASSUME NEW s, Evidence(s)
      PROVE  \E p \in Shipments : ship'[p].of = s /\ "DELIVERED" \in events'[p]
  BY <1>3, EvidenceStays DEF Evidence, Shape, DeliveryInv
<1> HIDE DEF j
<1>4. CASE ReloadShipment(w)
  <2>1. /\ j.op = "reload" /\ UNCHANGED <<ship, events>>
        /\ DeskTurns(w, [op |-> "list", ship |-> j.ship, now |-> ship[j.ship].status])
    BY <1>4 DEF ReloadShipment, DeskTurns, j
  <2>2. j.ship \in Shipments /\ Made(j.ship)
    BY <1>0, <2>1 DEF RequestOK, NoRequest
  <2>3. ship[j.ship].status \in events[j.ship]
    BY <2>2 DEF DeliveryInv, EventsTell
  <2>4. desk'[w] = [op |-> "list", ship |-> j.ship, now |-> ship[j.ship].status]
    BY <1>1, <2>1
  <2> QED BY <2>1, <2>3, <2>4 DEF RequestBacked
<1>5. CASE ListSiblings(w)
  <2> DEFINE s == ship[j.ship].of
             seen == {ship[q].status : q \in {x \in Shipments \ {j.ship} : ship[x].of = s}} \cup {j.now}
  <2>1. /\ j.op = "list" /\ UNCHANGED <<ship, events>>
        /\ DeskTurns(w, [op |-> "aggregate", of |-> s, seen |-> seen])
    BY <1>5 DEF ListSiblings, DeskTurns, j
  <2>2. j.ship \in Shipments /\ Made(j.ship)
    BY <1>0, <2>1 DEF RequestOK, NoRequest
  <2>3. ASSUME "DELIVERED" \in seen
        PROVE  Evidence(s)
    <3>1. CASE j.now = "DELIVERED"
      <4>1. "DELIVERED" \in events[j.ship]
        BY <2>1, <3>1 DEF DeliveryInv, RequestBacked, j
      <4> QED BY <2>2, <4>1 DEF Evidence
    <3>2. CASE \E q \in Shipments : ship[q].of = s /\ ship[q].status = "DELIVERED"
      <4>1. PICK q \in Shipments : ship[q].of = s /\ ship[q].status = "DELIVERED"
        BY <3>2
      <4>2. Made(q)
        BY <4>1 DEF Made, Absent
      <4>3. "DELIVERED" \in events[q]
        BY <4>1, <4>2 DEF DeliveryInv, EventsTell
      <4> QED BY <4>1, <4>3 DEF Evidence
    <3> QED BY <2>3, <3>1, <3>2
  <2>4. desk'[w] = [op |-> "aggregate", of |-> s, seen |-> seen]
    BY <1>1, <2>1
  <2> HIDE DEF s, seen
  <2> QED BY <1>3, <2>3, <2>4 DEF RequestBacked, Evidence
<1>6. CASE UpdateSlice(w)
  <2> DEFINE next == SliceAfter(j.seen)
             siblings == {next} \cup {voStatus[s] : s \in Slices \ {j.of}}
  <2>1. /\ j.op = "aggregate" /\ UNCHANGED <<ship, events>>
        /\ DeskTurns(w, [op |-> "commit", of |-> j.of, next |-> next, order |-> OrderAfter(siblings)])
    BY <1>6 DEF UpdateSlice, DeskTurns, j
  <2>2. ASSUME next = "DELIVERED"
        PROVE  Evidence(j.of)
    <3>1. "DELIVERED" \in j.seen
      BY <2>2 DEF SliceAfter
    <3> QED BY <2>1, <3>1 DEF DeliveryInv, RequestBacked, j
  <2>3. ASSUME OrderAfter(siblings) = "FULFILLED", NEW s \in Slices
        PROVE  Evidence(s)
    <3>1. siblings = {"DELIVERED"}
      BY <2>3 DEF OrderAfter
    <3>2. next = "DELIVERED" /\ (s # j.of => voStatus[s] = "DELIVERED")
      BY <3>1
    <3> QED BY <2>2, <3>2 DEF DeliveryInv, DeliveredOnEvidence
  <2>4. desk'[w] = [op |-> "commit", of |-> j.of, next |-> next, order |-> OrderAfter(siblings)]
    BY <1>1, <2>1
  <2> HIDE DEF next, siblings
  <2> QED BY <1>3, <2>2, <2>3, <2>4 DEF RequestBacked, Evidence
<1>7. ASSUME NEW s \in Slices, NEW n \in 1..MaxUnits, BeginShipment(w, s, n)
      PROVE  desk'[w].op = "create"
  <2>1. DeskTurns(w, [op |-> "create", of |-> s, qty |-> n])
    BY <1>7 DEF BeginShipment, DeskTurns
  <2> QED BY <1>1, <2>1
<1>8. ASSUME NEW p \in Shipments, NEW to \in Reported, BeginReport(w, p, to)
      PROVE  desk'[w].op = "report"
  <2>1. DeskTurns(w, [op |-> "report", ship |-> p, to |-> to])
    BY <1>8 DEF BeginReport, DeskTurns
  <2> QED BY <1>1, <2>1
<1>9. CASE AppendShipmentEvent(w)
  <2>1. DeskTurns(w, [op |-> "reload", ship |-> j.ship])
    BY <1>9 DEF AppendShipmentEvent, DeskTurns, j
  <2> QED BY <1>1, <1>2, <2>1
<1>10. (\E p \in Shipments : CreateShipment(w, p)) \/ NothingToAggregate(w) \/ CommitSlice(w)
         \/ EndRequest(w)
       => desk'[w].op = "free"
  <2>1. (\E p \in Shipments : CreateShipment(w, p)) \/ NothingToAggregate(w) \/ CommitSlice(w)
          \/ EndRequest(w)
        => DeskTurns(w, NoRequest)
    BY DEF CreateShipment, NothingToAggregate, CommitSlice, EndRequest, DeskTurns
  <2> QED BY <1>1, <2>1 DEF NoRequest
<1> QED BY <1>2, <1>4, <1>5, <1>6, <1>7, <1>8, <1>9, <1>10 DEF ShipStep

LEMMA DeliveredNext ==
  ASSUME Shape, DeliveryInv, NEW w \in Staff, ShipStep(w)
  PROVE  DeliveredOnEvidence'
<1>1. ASSUME NEW s, Evidence(s)
      PROVE  Evidence(s)'
  BY <1>1, EvidenceStays DEF Shape, DeliveryInv
<1>2. CASE CommitSlice(w)
  <2>0. RequestOK(desk[w]) /\ voStatus \in [Slices -> VendorOrderStatus]
    BY DEF Shape, ShipShape, RowsTypeOK
  <2>1. /\ desk[w].op = "commit"
        /\ voStatus' = [voStatus EXCEPT ![desk[w].of] = desk[w].next]
        /\ orderStatus' = desk[w].order
    BY <1>2 DEF CommitSlice
  <2>2. ASSUME NEW s \in Slices, voStatus'[s] = "DELIVERED"
        PROVE  Evidence(s)
    <3>1. CASE s = desk[w].of
      <4>1. desk[w].next = "DELIVERED"
        BY <2>0, <2>1, <2>2, <3>1
      <4> QED BY <2>1, <3>1, <4>1 DEF DeliveryInv, RequestBacked
    <3>2. CASE s # desk[w].of
      <4>1. voStatus[s] = "DELIVERED"
        BY <2>0, <2>1, <2>2, <3>2
      <4> QED BY <4>1 DEF DeliveryInv, DeliveredOnEvidence
    <3> QED BY <3>1, <3>2
  <2>3. ASSUME orderStatus' = "FULFILLED", NEW s \in Slices
        PROVE  Evidence(s)
    BY <2>1, <2>3 DEF DeliveryInv, RequestBacked
  <2> QED BY <1>1, <2>2, <2>3 DEF DeliveredOnEvidence
<1>3. ~CommitSlice(w) => UNCHANGED <<voStatus, orderStatus>>
  BY DEF ShipStep, BeginShipment, CreateShipment, BeginReport, AppendShipmentEvent, ReloadShipment,
         ListSiblings, UpdateSlice, NothingToAggregate, EndRequest, rows
<1>4. CASE UNCHANGED <<voStatus, orderStatus>>
  BY <1>1, <1>4 DEF DeliveryInv, DeliveredOnEvidence
<1> QED BY <1>2, <1>3, <1>4

LEMMA DeliveryStep ==
  ASSUME Shape, DeliveryInv, [Next]_vars
  PROVE  DeliveryInv'
<1>1. CASE ShipNext /\ UNCHANGED refunding
  <2>1. PICK w \in Staff : ShipStep(w)
    BY <1>1 DEF ShipNext
  <2>2. EventsTell'
    BY <2>1, EventsTellStep DEF Shape, DeliveryInv
  <2>3. \A x \in Staff : RequestBacked(x)'
    BY <2>1, BackedNext, BackedStays DEF Shape, DeliveryInv
  <2> QED BY <2>1, <2>2, <2>3, DeliveredNext DEF DeliveryInv
<1>2. ASSUME UNCHANGED shipping,
             \A s \in Slices : voStatus'[s] = "DELIVERED" => voStatus[s] = "DELIVERED",
             orderStatus' = "FULFILLED" => orderStatus = "FULFILLED"
      PROVE  DeliveryInv'
  BY <1>2 DEF DeliveryInv, shipping, EventsTell, Made, RequestBacked, DeliveredOnEvidence, Evidence
<1>3. CASE RefundNext /\ UNCHANGED shipping
  <2>1. ASSUME NEW k \in Clerks, CommitBooking(k)
        PROVE  /\ \A s \in Slices : voStatus'[s] = "DELIVERED" => voStatus[s] = "DELIVERED"
               /\ orderStatus' # "FULFILLED"
    <3>1. PICK a \in {"REFUNDED", "PARTIALLY_REFUNDED"}, b \in {"REFUNDED", "PARTIALLY_REFUNDED"} :
            /\ voStatus' = [voStatus EXCEPT ![refund[clerk[k].f].of] = a]
            /\ orderStatus' = b
      BY <2>1 DEF CommitBooking
    <3>2. voStatus \in [Slices -> VendorOrderStatus]
      BY DEF Shape, RowsTypeOK
    <3> QED BY <3>1, <3>2, SMTT(30)
  <2>2. (\A k \in Clerks : ~CommitBooking(k)) => UNCHANGED <<voStatus, orderStatus>>
    BY <1>3, ZenonT(60) DEF RefundNext, ReturnStep, RefundStep, ClerkStep, CreateReturn, TransitionReturn,
                RestockReturn, CreateRefundRequest, ProviderDecides, ClaimRefund, ReconcileRefund,
                SourceUnavailable, AskProvider, MarkRefundFailure, MarkRefundSubmitted,
                UpdateVerification, BeginBooking, BookSlice, EndWork, rows
  <2> QED BY <1>2, <1>3, <2>1, <2>2
<1>4. CASE UNCHANGED vars
  BY <1>2, <1>4 DEF vars, rows
<1> QED BY <1>1, <1>3, <1>4 DEF Next

LEMMA DeliveryInit == Init => DeliveryInv
<1> SUFFICES ASSUME Init
             PROVE  DeliveryInv
  OBVIOUS
<1>1. /\ EventsTell
      /\ \A w \in Staff : desk[w] = NoRequest
  BY ShippingInit DEF ShippingInv, Init, ShipInit
<1>2. \A w \in Staff : RequestBacked(w)
  BY <1>1 DEF RequestBacked, NoRequest
<1>3. DeliveredOnEvidence
  BY DEF Init, RowsInit, DeliveredOnEvidence
<1> QED BY <1>1, <1>2, <1>3 DEF DeliveryInv

(* A slice is DELIVERED, and an order FULFILLED, only if a shipment of that *)
(* slice, of every slice, was reported delivered: however the requests that *)
(* add up the statuses of shipments and of slices are interleaved.          *)
THEOREM DeliveryHasEvidence == Spec => []DeliveredOnEvidence
<1>1. Init => DeliveryInv
  BY DeliveryInit
<1>2. Shape /\ DeliveryInv /\ [Next]_vars => DeliveryInv'
  BY DeliveryStep
<1>3. DeliveryInv => DeliveredOnEvidence
  BY DEF DeliveryInv
<1> QED BY <1>1, <1>2, <1>3, Shapes, PTL DEF Spec
=============================================================================
