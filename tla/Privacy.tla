------------------------------- MODULE Privacy --------------------------------
(***************************************************************************)
(* Account erasure: a user's request, and an administrator's decision. The *)
(* erasure itself is one Serializable transaction: it works on a snapshot, *)
(* and is given up if a row it writes was written after the snapshot. What *)
(* other, not serializable, transactions add meanwhile it does not see.    *)
(***************************************************************************)
EXTENDS Members

VARIABLES
  erasure,    \* the latest PrivacyRequest of each user
  wiped       \* users erased as staff of the vendor or as strangers to it

privacy == <<erasure, wiped>>

(* "note" stands for the reviewNote: decisions are made on the note they read. *)
NoRequest  == [no |-> 0, status |-> "NONE", note |-> 0]
Open(r)    == r.status \in {"PENDING", "REQUIRES_REVIEW"}

RequestRows ==
  [no : Nat, status : {"NONE", "PENDING", "REQUIRES_REVIEW", "REJECTED", "COMPLETED"}, note : Nat]

(* Orders, returns and refunds are not part of this model: any of them may    *)
(* be open at any time.                                                      *)
OwnsVendor(u)       == ActiveOwner(u)
OnlyOrders(u, open) == open  \* mutation of Blocked
Blocked(u, open)    == open \/ OwnsVendor(u)

(* A user with an open request is answered with it. *)
RequestErasure(h, u, open) ==
  /\ u \in accounts /\ ~Open(erasure[u])
  /\ Begin(h, "privacy", [at |-> "ask", user |-> u, blocked |-> Blocked(u, open)])
  /\ UNCHANGED <<membership, privacy>>

Asked(blocked) == IF blocked THEN "REQUIRES_REVIEW" ELSE "PENDING"

(* The partial unique index refuses a second open request. *)
CreateRequest(h) ==
  LET call == calls[h] IN
  /\ call.at = "ask"
  /\ IF Open(erasure[call.user]) THEN UNCHANGED erasure
     ELSE erasure' = [erasure EXCEPT ![call.user] =
            [no |-> @.no + 1, status |-> Asked(call.blocked), note |-> @.note + 1]]
  /\ Refuse(h)
  /\ UNCHANGED <<membership, wiped>>

ReadRequest(h, u) ==
  /\ Open(erasure[u])
  /\ Begin(h, "privacy", [at |-> "reject", user |-> u, request |-> erasure[u]])
  /\ UNCHANGED <<membership, privacy>>

(* The conditional update of what was read. *)
RejectRequest(h) ==
  LET call == calls[h] IN
  /\ call.at = "reject"
  /\ erasure' = IF erasure[call.user] = call.request
                THEN [erasure EXCEPT ![call.user].status = "REJECTED", ![call.user].note = @ + 1]
                ELSE erasure
  /\ Refuse(h)
  /\ UNCHANGED <<membership, wiped>>

TakeSnapshot(h, u, open) ==
  /\ Open(erasure[u])
  /\ Begin(h, "privacy", [at |-> "erase", user |-> u, request |-> erasure[u], row |-> member[u],
                          blocked |-> Blocked(u, open)])
  /\ UNCHANGED <<membership, privacy>>

(* The memberships an erasure ends: its row is among them, and was written by *)
(* another call since, when the database gives the erasure up.               *)
Ended(row)   == row.role = "STAFF" /\ row.status \in {"INVITED", "ACTIVE", "SUSPENDED"}
GivenUp(call) ==
  \/ erasure[call.user] # call.request
  \/ ~call.blocked /\ Ended(call.row) /\ call.user \in call.touched

(* No call that may still write the user's membership. *)
Undisturbed(h, u) == \A g \in Handlers \ {h} : "user" \in DOMAIN calls[g] => calls[g].user # u

CommitErasure(h) ==
  LET call == calls[h]
      u    == call.user
  IN
  /\ call.at = "erase"
  /\ \/ /\ GivenUp(call)
        /\ Refuse(h) /\ UNCHANGED <<membership, privacy>>
     \/ /\ ~GivenUp(call) /\ call.blocked
        /\ erasure' = [erasure EXCEPT ![u].status = "REQUIRES_REVIEW", ![u].note = @ + 1]
        /\ Refuse(h) /\ UNCHANGED <<membership, wiped>>
     \/ /\ ~GivenUp(call) /\ ~call.blocked
        /\ erasure' = [erasure EXCEPT ![u].status = "COMPLETED", ![u].note = @ + 1]
        /\ member' = IF Ended(call.row) THEN [member EXCEPT ![u].status = "REMOVED"] ELSE member
        /\ accounts' = accounts \ {u}
        /\ wiped' = IF call.row.role = "STAFF" /\ call.touched \cap {u} = {} /\ Undisturbed(h, u)
                    THEN wiped \cup {u} ELSE wiped
        /\ Contend(h) /\ Commit(h, IF Ended(call.row) THEN {u} ELSE {})
        /\ UNCHANGED given

PrivacyRequest(h) ==
  Free(h, "privacy") /\ \E u \in Users :
    \/ ReadRequest(h, u)
    \/ \E open \in BOOLEAN : RequestErasure(h, u, open) \/ TakeSnapshot(h, u, open)

PrivacyStep(h) == CreateRequest(h) \/ RejectRequest(h) \/ CommitErasure(h)

-----------------------------------------------------------------------------
PrivacyTypeOK ==
  /\ erasure \in [Users -> RequestRows]
  /\ wiped \subseteq Users

(* A member of the staff, or a stranger, whose account was erased while no    *)
(* other call was at work on the membership never comes back to the vendor:   *)
(* invitations, changes and acceptances that come later find nobody.          *)
ErasedStaysOut == \A u \in wiped : member[u].status \in {"NONE", "REMOVED"}
=============================================================================
