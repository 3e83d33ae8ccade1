-------------------------- MODULE Marketplace_proofs --------------------------
(***************************************************************************)
(* Proofs about the marketplace: who owns a vendor, who may do what, what  *)
(* it sells on and what the public sees, for any number of people,         *)
(* categories, handlers and requests.                                      *)
(***************************************************************************)
EXTENDS Marketplace, SequenceTheorems, FiniteSetTheorems, TLAPS

-----------------------------------------------------------------------------
(* Calls. *)

(* A call that has begun holds what it was given, and nothing has touched it. *)
LEMMA UntouchedCall ==
  ASSUME NEW c, "touched" \notin DOMAIN c
  PROVE  /\ DOMAIN Untouched(c) = {"touched"} \cup DOMAIN c
         /\ Untouched(c).touched = {}
         /\ \A f \in DOMAIN c : Untouched(c)[f] = c[f]
BY DEF Untouched

(* The kinds of calls are told apart by what they do next. *)
LEMMA Kinds ==
  ASSUME NEW c \in Calls
  PROVE  /\ c.at = "invite" => c \in InviteCalls
         /\ c.at = "update" => c \in UpdateCalls
         /\ c.at = "remove" => c \in RemoveCalls
         /\ c.at = "ask"    => c \in AskCalls
         /\ c.at = "reject" => c \in RejectCalls
         /\ c.at = "erase"  => c \in EraseCalls
         /\ c.at = "submit" => c \in SubmitCalls
         /\ c.at = "review" => c \in ReviewCalls
         /\ c.at = "decide" => c \in DecideCalls
         /\ c.at = "settle" => c \in SettleCalls
         /\ c.at = "store"  => c \in StoreCalls
         /\ c.at = "walk"   => c \in WalkCalls
         /\ c.at = "create" => c \in CreateCalls
         /\ c.at = "edit"   => c \in EditCalls
         /\ c.at = "status" => c \in StatusCalls
         /\ c.at = "moderate" => c \in ModerationCalls
         /\ c.at \in {"media", "object"} => c \in MediaCalls
<1>1. c = Idle => c.at = "idle"
  BY DEF Idle
<1>2. c \in MemberCalls => c.at \in {"invite", "update", "remove"}
  BY DEF MemberCalls, InviteCalls, UpdateCalls, RemoveCalls
<1>3. c \in PrivacyCalls => c.at \in {"ask", "reject", "erase"}
  BY DEF PrivacyCalls, AskCalls, RejectCalls, EraseCalls
<1>4. c \in SellingCalls => c.at \in {"submit", "review", "decide", "settle", "store"}
  BY DEF SellingCalls, SubmitCalls, ReviewCalls, DecideCalls, SettleCalls, StoreCalls
<1>5. c \in CatalogCalls => c.at \in {"walk", "create", "edit", "status", "moderate", "media", "object"}
  BY DEF CatalogCalls, WalkCalls, CreateCalls, EditCalls, StatusCalls, ModerationCalls, MediaCalls
<1>6. c.at \in {"invite", "update", "remove"} => c \in MemberCalls
  BY <1>1, <1>2, <1>3, <1>4, <1>5 DEF Calls
<1>7. c.at \in {"ask", "reject", "erase"} => c \in PrivacyCalls
  BY <1>1, <1>2, <1>3, <1>4, <1>5 DEF Calls
<1>8. c.at \in {"submit", "review", "decide", "settle", "store"} => c \in SellingCalls
  BY <1>1, <1>2, <1>3, <1>4, <1>5 DEF Calls
<1>9. c.at \in {"walk", "create", "edit", "status", "moderate", "media", "object"} => c \in CatalogCalls
  BY <1>1, <1>2, <1>3, <1>4, <1>5 DEF Calls
<1>10. /\ c.at = "invite" => c \in InviteCalls
       /\ c.at = "update" => c \in UpdateCalls
       /\ c.at = "remove" => c \in RemoveCalls
  BY <1>6 DEF MemberCalls, InviteCalls, UpdateCalls, RemoveCalls
<1>11. /\ c.at = "ask"    => c \in AskCalls
       /\ c.at = "reject" => c \in RejectCalls
       /\ c.at = "erase"  => c \in EraseCalls
  BY <1>7 DEF PrivacyCalls, AskCalls, RejectCalls, EraseCalls
<1>12. /\ c.at = "submit" => c \in SubmitCalls
       /\ c.at = "review" => c \in ReviewCalls
       /\ c.at = "decide" => c \in DecideCalls
       /\ c.at = "settle" => c \in SettleCalls
       /\ c.at = "store"  => c \in StoreCalls
  BY <1>8 DEF SellingCalls, SubmitCalls, ReviewCalls, DecideCalls, SettleCalls, StoreCalls
<1>13. /\ c.at = "walk"   => c \in WalkCalls
       /\ c.at = "create" => c \in CreateCalls
       /\ c.at = "edit"   => c \in EditCalls
       /\ c.at = "status" => c \in StatusCalls
       /\ c.at = "moderate" => c \in ModerationCalls
       /\ c.at \in {"media", "object"} => c \in MediaCalls
  BY <1>9 DEF CatalogCalls, WalkCalls, CreateCalls, EditCalls, StatusCalls, ModerationCalls, MediaCalls
<1> QED
  BY <1>10, <1>11, <1>12, <1>13

(* What other calls write makes a call touched, and nothing else of it.      *)
LEMMA TouchedCall ==
  ASSUME NEW c \in Calls, NEW rows \in SUBSET Row
  PROVE  /\ Touched(c, rows) \in Calls
         /\ DOMAIN Touched(c, rows) = DOMAIN c
         /\ \A f \in DOMAIN c : f # "touched" => Touched(c, rows)[f] = c[f]
         /\ c = Idle <=> Touched(c, rows) = Idle
         /\ c # Idle => Touched(c, rows).touched = c.touched \cup rows
<1>1. CASE c = Idle
  BY <1>1 DEF Touched, Idle
<1>2. CASE c # Idle
  <2>1. "touched" \in DOMAIN c /\ "at" \in DOMAIN c /\ c.touched \in SUBSET Row /\ c = [f \in DOMAIN c |-> c[f]]
    <3>1. CASE c \in MemberCalls
      BY <3>1 DEF MemberCalls, InviteCalls, UpdateCalls, RemoveCalls
    <3>2. CASE c \in PrivacyCalls
      BY <3>2 DEF PrivacyCalls, AskCalls, RejectCalls, EraseCalls
    <3>3. CASE c \in SellingCalls
      BY <3>3 DEF SellingCalls, SubmitCalls, ReviewCalls, DecideCalls, SettleCalls, StoreCalls
    <3>4. CASE c \in CatalogCalls
      BY <3>4 DEF CatalogCalls, WalkCalls, CreateCalls, EditCalls, StatusCalls, ModerationCalls, MediaCalls
    <3> QED
      BY <1>2, <3>1, <3>2, <3>3, <3>4 DEF Calls
  <2> DEFINE d == [c EXCEPT !.touched = @ \cup rows]
  <2>2. Touched(c, rows) = d
    BY <1>2 DEF Touched
  <2>3. DOMAIN d = DOMAIN c /\ d.touched = c.touched \cup rows /\ \A f \in DOMAIN c : f # "touched" => d[f] = c[f]
    BY <2>1
  <2>4. "touched" \notin DOMAIN Idle
    BY DEF Idle
  <2>5. d # Idle
    BY <2>1, <2>3, <2>4
  <2>6. c.touched \cup rows \in SUBSET Row
    BY <2>1
  <2>7. d \in Calls
    <3>1. CASE c \in InviteCalls
      BY <3>1, <2>6 DEF Calls, MemberCalls, InviteCalls
    <3>2. CASE c \in UpdateCalls
      BY <3>2, <2>6 DEF Calls, MemberCalls, UpdateCalls
    <3>3. CASE c \in RemoveCalls
      BY <3>3, <2>6 DEF Calls, MemberCalls, RemoveCalls
    <3>4. CASE c \in AskCalls
      BY <3>4, <2>6 DEF Calls, PrivacyCalls, AskCalls
    <3>5. CASE c \in RejectCalls
      BY <3>5, <2>6 DEF Calls, PrivacyCalls, RejectCalls
    <3>6. CASE c \in EraseCalls
      BY <3>6, <2>6 DEF Calls, PrivacyCalls, EraseCalls
    <3>7. CASE c \in SubmitCalls
      BY <3>7, <2>6 DEF Calls, SellingCalls, SubmitCalls
    <3>8. CASE c \in ReviewCalls
      BY <3>8, <2>6 DEF Calls, SellingCalls, ReviewCalls
    <3>9. CASE c \in DecideCalls
      BY <3>9, <2>6 DEF Calls, SellingCalls, DecideCalls
    <3>10. CASE c \in SettleCalls
      BY <3>10, <2>6 DEF Calls, SellingCalls, SettleCalls
    <3>11. CASE c \in StoreCalls
      BY <3>11, <2>6 DEF Calls, SellingCalls, StoreCalls
    <3>12. CASE c \in WalkCalls
      BY <3>12, <2>6 DEF Calls, CatalogCalls, WalkCalls
    <3>13. CASE c \in CreateCalls
      BY <3>13, <2>6 DEF Calls, CatalogCalls, CreateCalls
    <3>14. CASE c \in EditCalls
      BY <3>14, <2>6 DEF Calls, CatalogCalls, EditCalls
    <3>15. CASE c \in StatusCalls
      BY <3>15, <2>6 DEF Calls, CatalogCalls, StatusCalls
    <3>16. CASE c \in MediaCalls
      BY <3>16, <2>6 DEF Calls, CatalogCalls, MediaCalls
    <3>17. CASE c \in ModerationCalls
      BY <3>17, <2>6 DEF Calls, CatalogCalls, ModerationCalls
    <3> QED
      BY <1>2, <3>1, <3>2, <3>3, <3>4, <3>5, <3>6, <3>7, <3>8, <3>9, <3>10, <3>11, <3>12, <3>13, <3>14, <3>15,
         <3>16, <3>17
      DEF Calls, MemberCalls, PrivacyCalls, SellingCalls, CatalogCalls
  <2> HIDE DEF d
  <2> QED
    BY <1>2, <2>2, <2>3, <2>5, <2>7
<1> QED
  BY <1>1, <1>2

(* A step leaves a call as it was, but for what has touched it, or ends it.  *)
Kept(g) ==
  \/ calls'[g] = Idle
  \/ /\ calls[g] # Idle /\ calls'[g] # Idle
     /\ DOMAIN calls'[g] = DOMAIN calls[g]
     /\ \A f \in DOMAIN calls[g] : f # "touched" => calls'[g][f] = calls[g][f]
     /\ calls[g].touched \subseteq calls'[g].touched

LEMMA BegunCalls ==
  ASSUME calls \in [Handlers -> Calls], NEW h \in Handlers, NEW kind, NEW c,
         Begin(h, kind, c), Untouched(c) \in Calls
  PROVE  /\ calls' \in [Handlers -> Calls]
         /\ calls'[h] = Untouched(c) /\ calls[h] = Idle
         /\ \A g \in Handlers \ {h} : calls'[g] = calls[g] /\ Kept(g)
BY DEF Begin, Free, Kept

LEMMA CommittedCalls ==
  ASSUME calls \in [Handlers -> Calls], NEW h \in Handlers, NEW rows \in SUBSET Row, Commit(h, rows)
  PROVE  /\ calls' \in [Handlers -> Calls] /\ calls'[h] = Idle
         /\ \A g \in Handlers : Kept(g)
         /\ \A g \in Handlers \ {h} : calls'[g] = Touched(calls[g], rows)
<1>1. Idle \in Calls
  BY DEF Calls
<1>2. \A g \in Handlers \ {h} : calls'[g] = Touched(calls[g], rows) /\ calls[g] \in Calls
  BY DEF Commit
<1>3. \A g \in Handlers \ {h} : calls'[g] \in Calls /\ Kept(g)
  BY <1>2, TouchedCall DEF Kept
<1>4. calls'[h] = Idle
  BY DEF Commit
<1>5. calls' = [g \in Handlers |-> calls'[g]]
  BY DEF Commit
<1> QED
  BY <1>1, <1>2, <1>3, <1>4, <1>5 DEF Kept

LEMMA ContinuedCalls ==
  ASSUME calls \in [Handlers -> Calls], NEW h \in Handlers, NEW c \in Calls, Continue(h, c)
  PROVE  /\ calls' \in [Handlers -> Calls] /\ calls'[h] = c
         /\ \A g \in Handlers \ {h} : calls'[g] = calls[g] /\ Kept(g)
BY DEF Continue, Kept

LEMMA RefusedCalls ==
  ASSUME calls \in [Handlers -> Calls], NEW h \in Handlers, Refuse(h)
  PROVE  /\ calls' \in [Handlers -> Calls] /\ calls'[h] = Idle
         /\ \A g \in Handlers \ {h} : calls'[g] = calls[g]
         /\ \A g \in Handlers : Kept(g)
<1>1. Idle \in Calls
  BY DEF Calls
<1> QED
  BY <1>1, ContinuedCalls DEF Refuse, Kept

-----------------------------------------------------------------------------
(* Typing, one lemma per kind of request. *)

MemberKinds  == {"invite", "update", "remove"}
PrivacyKinds == {"ask", "reject", "erase"}
SellingKinds == {"submit", "review", "decide", "settle", "store"}
CatalogKinds == {"walk", "create", "edit", "status", "moderate", "media", "object"}

(* Only calls of these kinds begin or move on. *)
Only(kinds) == \A g \in Handlers : Kept(g) \/ calls'[g].at \in kinds

LEMMA MemberRequestTyping ==
  ASSUME TypeOK, NEW h \in Handlers, MemberRequest(h)
  PROVE  calls' \in [Handlers -> Calls] /\ Only(MemberKinds) /\ UNCHANGED membership
<1>1. PICK actor \in Users, u \in Users :
        \/ \E P \in Grants : InviteMember(h, actor, u, P)
        \/ \E c \in Changes : UpdateMember(h, actor, u, c)
        \/ RemoveMember(h, actor, u)
  BY DEF MemberRequest
<1> DEFINE owner == member[actor].role = "OWNER"
<1>2. ASSUME NEW P \in Grants, InviteMember(h, actor, u, P)
      PROVE  calls' \in [Handlers -> Calls] /\ Only(MemberKinds) /\ UNCHANGED membership
  <2> DEFINE c == [at |-> "invite", user |-> u, perms |-> P, owner |-> owner]
  <2>1. P \in SUBSET Permissions /\ owner \in BOOLEAN
    BY MembersAssumption
  <2>2. Untouched(c) \in InviteCalls /\ Untouched(c).at = "invite"
    BY <2>1 DEF Untouched, InviteCalls
  <2>3. Untouched(c) \in Calls
    BY <2>2 DEF Calls, MemberCalls
  <2>4. Begin(h, "members", c) /\ UNCHANGED membership
    BY <1>2 DEF InviteMember
  <2> HIDE DEF c
  <2> QED BY <2>2, <2>3, <2>4, BegunCalls DEF TypeOK, Only, MemberKinds
<1>3. ASSUME NEW d \in Changes, UpdateMember(h, actor, u, d)
      PROVE  calls' \in [Handlers -> Calls] /\ Only(MemberKinds) /\ UNCHANGED membership
  <2> DEFINE c == [at |-> "update", user |-> u, change |-> d, owner |-> owner]
  <2>1. owner \in BOOLEAN
    OBVIOUS
  <2>2. Untouched(c) \in UpdateCalls /\ Untouched(c).at = "update"
    BY <2>1 DEF Untouched, UpdateCalls
  <2>3. Untouched(c) \in Calls
    BY <2>2 DEF Calls, MemberCalls
  <2>4. Begin(h, "members", c) /\ UNCHANGED membership
    BY <1>3 DEF UpdateMember
  <2> HIDE DEF c
  <2> QED BY <2>2, <2>3, <2>4, BegunCalls DEF TypeOK, Only, MemberKinds
<1>4. ASSUME RemoveMember(h, actor, u)
      PROVE  calls' \in [Handlers -> Calls] /\ Only(MemberKinds) /\ UNCHANGED membership
  <2> DEFINE c == [at |-> "remove", user |-> u]
  <2>2. Untouched(c) \in RemoveCalls /\ Untouched(c).at = "remove"
    BY DEF Untouched, RemoveCalls
  <2>3. Untouched(c) \in Calls
    BY <2>2 DEF Calls, MemberCalls
  <2>4. Begin(h, "members", c) /\ UNCHANGED membership
    BY <1>4 DEF RemoveMember
  <2> HIDE DEF c
  <2> QED BY <2>2, <2>3, <2>4, BegunCalls DEF TypeOK, Only, MemberKinds
<1> QED BY <1>1, <1>2, <1>3, <1>4

LEMMA MemberStepTyping ==
  ASSUME TypeOK, NEW h \in Handlers, MemberStep(h)
  PROVE  calls' \in [Handlers -> Calls] /\ Only({}) /\ MembersTypeOK'
<1> DEFINE call == calls[h]
<1>0. call \in Calls /\ calls \in [Handlers -> Calls] /\ MembersTypeOK
  BY DEF TypeOK
<1>1. CASE WriteInvitation(h)
  <2>1. call \in InviteCalls
    BY <1>0, <1>1, Kinds DEF WriteInvitation
  <2>2. call.user \in Users /\ call.perms \in SUBSET Permissions /\ {call.user} \in SUBSET Row
    BY <2>1 DEF InviteCalls, Row
  <2>3. Commit(h, {call.user})
    BY <1>1 DEF WriteInvitation
  <2>4. [role |-> "STAFF", status |-> "INVITED", perms |-> call.perms] \in MemberRows
    BY <2>2 DEF MemberRows, Roles, Statuses
  <2>5. MembersTypeOK'
    BY <1>0, <1>1, <2>2, <2>4 DEF WriteInvitation, MembersTypeOK
  <2> QED BY <1>0, <2>2, <2>3, <2>5, CommittedCalls DEF Only
<1>2. CASE WriteUpdate(h)
  <2> DEFINE c == call.change
             row == [role   |-> IF c.role = Same THEN member[call.user].role ELSE c.role,
                     status |-> IF c.status = Same THEN member[call.user].status ELSE c.status,
                     perms  |-> IF c.perms = {} THEN member[call.user].perms ELSE UNION c.perms]
  <2>1. call \in UpdateCalls
    BY <1>0, <1>2, Kinds DEF WriteUpdate
  <2>2. call.user \in Users /\ c \in Change /\ {call.user} \in SUBSET Row
    BY <2>1, MembersAssumption DEF UpdateCalls, Row
  <2>3. Commit(h, {call.user})
    BY <1>2 DEF WriteUpdate
  <2>4. UNION c.perms \subseteq Permissions
    BY <2>2 DEF Change
  <2>5. row \in MemberRows
    BY <1>0, <2>2, <2>4 DEF MemberRows, MembersTypeOK, Change, Roles, Statuses
  <2>6. member' = [member EXCEPT ![call.user] = row]
    BY <1>2 DEF WriteUpdate
  <2>7. given' \subseteq Permissions /\ accounts' = accounts
    BY <1>0, <1>2, <2>4 DEF WriteUpdate, MembersTypeOK
  <2> HIDE DEF row
  <2>8. MembersTypeOK'
    BY <1>0, <2>2, <2>5, <2>6, <2>7 DEF MembersTypeOK
  <2> QED BY <1>0, <2>2, <2>3, <2>8, CommittedCalls DEF Only
<1>3. CASE WriteRemoval(h)
  <2>1. call \in RemoveCalls
    BY <1>0, <1>3, Kinds DEF WriteRemoval
  <2>2. call.user \in Users /\ {call.user} \in SUBSET Row
    BY <2>1 DEF RemoveCalls, Row
  <2>3. Commit(h, {call.user})
    BY <1>3 DEF WriteRemoval
  <2>4. member[call.user] \in MemberRows
    BY <1>0, <2>2 DEF MembersTypeOK
  <2>5. [member[call.user] EXCEPT !.status = "REMOVED", !.perms = {}] \in MemberRows
    BY <2>4 DEF MemberRows, Statuses
  <2>6. member' = [member EXCEPT ![call.user] = [member[call.user] EXCEPT !.status = "REMOVED", !.perms = {}]]
    BY <1>0, <1>3, <2>2 DEF WriteRemoval, MembersTypeOK
  <2>7. member' \in [Users -> MemberRows]
    BY <1>0, <2>2, <2>5, <2>6 DEF MembersTypeOK
  <2>8. MembersTypeOK'
    BY <1>0, <1>3, <2>7 DEF MembersTypeOK, WriteRemoval
  <2> QED BY <1>0, <2>2, <2>3, <2>8, CommittedCalls DEF Only
<1> QED BY <1>1, <1>2, <1>3 DEF MemberStep

LEMMA AcceptanceTyping ==
  ASSUME TypeOK, NEW u \in Users, AcceptInvitation(u)
  PROVE  calls' \in [Handlers -> Calls] /\ Only({}) /\ MembersTypeOK'
<1>1. \A g \in Handlers : calls[g] \in Calls /\ calls'[g] = Touched(calls[g], {u}) /\ {u} \in SUBSET Row
  BY DEF TypeOK, AcceptInvitation, Row
<1>2. \A g \in Handlers : calls'[g] \in Calls /\ Kept(g)
  BY <1>1, TouchedCall DEF Kept
<1>3. calls' = [g \in Handlers |-> calls'[g]]
  BY DEF AcceptInvitation
<1>4. calls' \in [Handlers -> Calls]
  BY <1>2, <1>3
<1>5. member[u] \in MemberRows
  BY DEF TypeOK, MembersTypeOK
<1>6. [member[u] EXCEPT !.status = "ACTIVE"] \in MemberRows
  BY <1>5 DEF MemberRows, Statuses
<1>7. MembersTypeOK'
  BY <1>6 DEF AcceptInvitation, TypeOK, MembersTypeOK
<1> QED BY <1>2, <1>4, <1>7 DEF Only

LEMMA PrivacyRequestTyping ==
  ASSUME TypeOK, NEW h \in Handlers, PrivacyRequest(h)
  PROVE  calls' \in [Handlers -> Calls] /\ Only(PrivacyKinds) /\ UNCHANGED <<membership, privacy>>
<1>1. PICK u \in Users :
        \/ ReadRequest(h, u)
        \/ \E open \in BOOLEAN : RequestErasure(h, u, open) \/ TakeSnapshot(h, u, open)
  BY DEF PrivacyRequest
<1>2. erasure[u] \in RequestRows /\ member[u] \in MemberRows
  BY DEF TypeOK, PrivacyTypeOK, MembersTypeOK
<1>3. ASSUME ReadRequest(h, u)
      PROVE  calls' \in [Handlers -> Calls] /\ Only(PrivacyKinds) /\ UNCHANGED <<membership, privacy>>
  <2> DEFINE c == [at |-> "reject", user |-> u, request |-> erasure[u]]
  <2>1. Untouched(c) \in RejectCalls /\ Untouched(c).at = "reject"
    BY <1>2 DEF Untouched, RejectCalls
  <2>2. Untouched(c) \in Calls
    BY <2>1 DEF Calls, PrivacyCalls
  <2>3. Begin(h, "privacy", c) /\ UNCHANGED <<membership, privacy>>
    BY <1>3 DEF ReadRequest
  <2> HIDE DEF c
  <2> QED BY <2>1, <2>2, <2>3, BegunCalls DEF TypeOK, Only, PrivacyKinds
<1>4. ASSUME NEW open \in BOOLEAN, RequestErasure(h, u, open)
      PROVE  calls' \in [Handlers -> Calls] /\ Only(PrivacyKinds) /\ UNCHANGED <<membership, privacy>>
  <2> DEFINE b == Blocked(u, open)
             c == [at |-> "ask", user |-> u, blocked |-> b]
  <2>1. b \in BOOLEAN
    BY DEF Blocked
  <2>2. Begin(h, "privacy", c) /\ UNCHANGED <<membership, privacy>>
    BY <1>4 DEF RequestErasure
  <2> HIDE DEF b
  <2>3. Untouched(c) \in AskCalls /\ Untouched(c).at = "ask"
    BY <2>1 DEF Untouched, AskCalls
  <2>4. Untouched(c) \in Calls
    BY <2>3 DEF Calls, PrivacyCalls
  <2> HIDE DEF c
  <2> QED BY <2>2, <2>3, <2>4, BegunCalls DEF TypeOK, Only, PrivacyKinds
<1>5. ASSUME NEW open \in BOOLEAN, TakeSnapshot(h, u, open)
      PROVE  calls' \in [Handlers -> Calls] /\ Only(PrivacyKinds) /\ UNCHANGED <<membership, privacy>>
  <2> DEFINE b == Blocked(u, open)
             c == [at |-> "erase", user |-> u, request |-> erasure[u], row |-> member[u], blocked |-> b]
  <2>1. b \in BOOLEAN
    BY DEF Blocked
  <2>2. Begin(h, "privacy", c) /\ UNCHANGED <<membership, privacy>>
    BY <1>5 DEF TakeSnapshot
  <2> HIDE DEF b
  <2>3. Untouched(c) \in EraseCalls /\ Untouched(c).at = "erase"
    BY <1>2, <2>1 DEF Untouched, EraseCalls
  <2>4. Untouched(c) \in Calls
    BY <2>3 DEF Calls, PrivacyCalls
  <2> HIDE DEF c
  <2> QED BY <2>2, <2>3, <2>4, BegunCalls DEF TypeOK, Only, PrivacyKinds
<1> QED BY <1>1, <1>3, <1>4, <1>5

(* A decision keeps a privacy request a privacy request.                     *)
LEMMA DecidedRequest ==
  ASSUME NEW r \in RequestRows, NEW s \in {"REQUIRES_REVIEW", "REJECTED", "COMPLETED"}
  PROVE  [r EXCEPT !.status = s, !.note = @ + 1] \in RequestRows
<1>1. r.note + 1 \in Nat
  BY DEF RequestRows
<1>2. [r EXCEPT !.status = s].note = r.note
  BY DEF RequestRows
<1>3. [r EXCEPT !.status = s] \in RequestRows
  BY DEF RequestRows
<1>4. [[r EXCEPT !.status = s] EXCEPT !.note = r.note + 1] \in RequestRows
  BY <1>1, <1>3 DEF RequestRows
<1> QED BY <1>2, <1>4

LEMMA PrivacyStepTyping ==
  ASSUME TypeOK, NEW h \in Handlers, PrivacyStep(h)
  PROVE  calls' \in [Handlers -> Calls] /\ Only({}) /\ MembersTypeOK' /\ PrivacyTypeOK'
<1> DEFINE call == calls[h]
<1>0. call \in Calls /\ calls \in [Handlers -> Calls] /\ MembersTypeOK /\ PrivacyTypeOK
  BY DEF TypeOK
<1>1. CASE CreateRequest(h)
  <2>1. call \in AskCalls
    BY <1>0, <1>1, Kinds DEF CreateRequest
  <2>2. call.user \in Users /\ erasure[call.user] \in RequestRows
    BY <1>0, <2>1 DEF AskCalls, PrivacyTypeOK
  <2>3. [no |-> erasure[call.user].no + 1, status |-> Asked(call.blocked), note |-> erasure[call.user].note + 1] \in RequestRows
    BY <2>2 DEF RequestRows, Asked
  <2>4. Refuse(h) /\ UNCHANGED <<membership, wiped>>
    BY <1>1 DEF CreateRequest
  <2>5. PrivacyTypeOK'
    BY <1>0, <1>1, <2>2, <2>3 DEF CreateRequest, PrivacyTypeOK
  <2> QED BY <1>0, <2>4, <2>5, RefusedCalls DEF Only, MembersTypeOK, membership
<1>2. CASE RejectRequest(h)
  <2>1. call \in RejectCalls
    BY <1>0, <1>2, Kinds DEF RejectRequest
  <2>2. call.user \in Users /\ erasure[call.user] \in RequestRows
    BY <1>0, <2>1, SMTT(30) DEF RejectCalls, PrivacyTypeOK
  <2> DEFINE r == [erasure[call.user] EXCEPT !.status = "REJECTED", !.note = @ + 1]
  <2>3. r \in RequestRows
    BY <2>2, DecidedRequest
  <2>4. erasure' = [erasure EXCEPT ![call.user] = r] \/ erasure' = erasure
    BY <1>0, <1>2, <2>2 DEF RejectRequest, PrivacyTypeOK
  <2>5. Refuse(h) /\ UNCHANGED <<membership, wiped>>
    BY <1>2 DEF RejectRequest
  <2> HIDE DEF r
  <2>6. PrivacyTypeOK'
    BY <1>0, <2>2, <2>3, <2>4, <2>5 DEF PrivacyTypeOK
  <2> QED BY <1>0, <2>5, <2>6, RefusedCalls DEF Only, MembersTypeOK, membership
<1>3. CASE CommitErasure(h)
  <2>1. call \in EraseCalls
    BY <1>0, <1>3, Kinds DEF CommitErasure
  <2> DEFINE u == call.user
  <2>2. u \in Users /\ erasure[u] \in RequestRows /\ member[u] \in MemberRows
    BY <1>0, <2>1 DEF EraseCalls, PrivacyTypeOK, MembersTypeOK
  <2>3. CASE GivenUp(call)
    <3>1. Refuse(h) /\ UNCHANGED <<membership, privacy>>
      BY <1>3, <2>3, SMTT(30) DEF CommitErasure
    <3> QED BY <1>0, <3>1, RefusedCalls DEF Only, MembersTypeOK, PrivacyTypeOK, membership, privacy
  <2>4. CASE ~GivenUp(call) /\ call.blocked
    <3> DEFINE r == [erasure[u] EXCEPT !.status = "REQUIRES_REVIEW", !.note = @ + 1]
    <3>1. r \in RequestRows
      BY <2>2, DecidedRequest
    <3>2. erasure' = [erasure EXCEPT ![u] = r]
      BY <1>0, <1>3, <2>2, <2>4 DEF CommitErasure, PrivacyTypeOK
    <3>3. Refuse(h) /\ UNCHANGED <<membership, wiped>>
      BY <1>3, <2>4 DEF CommitErasure
    <3> HIDE DEF r
    <3>4. PrivacyTypeOK'
      BY <1>0, <2>2, <3>1, <3>2, <3>3 DEF PrivacyTypeOK
    <3> QED BY <1>0, <3>3, <3>4, RefusedCalls DEF Only, MembersTypeOK, membership
  <2>5. CASE ~GivenUp(call) /\ ~call.blocked
    <3> DEFINE r == [erasure[u] EXCEPT !.status = "COMPLETED", !.note = @ + 1]
               m == [member[u] EXCEPT !.status = "REMOVED"]
    <3>1. r \in RequestRows
      BY <2>2, DecidedRequest
    <3>2. m \in MemberRows
      BY <2>2 DEF MemberRows, Statuses
    <3>3. erasure' = [erasure EXCEPT ![u] = r]
      BY <1>0, <1>3, <2>2, <2>5 DEF CommitErasure, PrivacyTypeOK
    <3>4. member' = [member EXCEPT ![u] = m] \/ member' = member
      BY <1>0, <1>3, <2>2, <2>5 DEF CommitErasure, MembersTypeOK
    <3>5. accounts' = accounts \ {u} /\ wiped' \subseteq wiped \cup {u} /\ given' = given
      BY <1>3, <2>5 DEF CommitErasure
    <3>6. PICK rows \in {{}, {u}} : Commit(h, rows)
      BY <1>3, <2>5 DEF CommitErasure
    <3>7. rows \in SUBSET Row
      BY <2>2, <3>6 DEF Row
    <3> HIDE DEF r, m
    <3>8. PrivacyTypeOK'
      BY <1>0, <2>2, <3>1, <3>3, <3>5 DEF PrivacyTypeOK
    <3>9. MembersTypeOK'
      BY <1>0, <2>2, <3>2, <3>4, <3>5 DEF MembersTypeOK
    <3> QED BY <1>0, <3>6, <3>7, <3>8, <3>9, CommittedCalls, SMTT(30) DEF Only
  <2> QED BY <2>3, <2>4, <2>5
<1> QED BY <1>1, <1>2, <1>3 DEF PrivacyStep

LEMMA SellingRequestTyping ==
  ASSUME TypeOK, NEW h \in Handlers, SellingRequest(h)
  PROVE  calls' \in [Handlers -> Calls] /\ Only(SellingKinds) /\ UNCHANGED <<membership, privacy, selling>>
<1> DEFINE Goal == calls' \in [Handlers -> Calls] /\ Only(SellingKinds) /\ UNCHANGED <<membership, privacy, selling>>
<1>1. ASSUME NEW u \in Users, NEW t \in CheckTypes, SubmitVerification(h, u, t)
      PROVE  Goal
  <2> DEFINE c == [at |-> "submit", type |-> t]
  <2>1. Untouched(c) \in SubmitCalls /\ Untouched(c).at = "submit"
    BY <1>1 DEF Untouched, SubmitCalls
  <2>2. Untouched(c) \in Calls
    BY <2>1 DEF Calls, SellingCalls
  <2>3. Begin(h, "selling", c) /\ UNCHANGED <<membership, privacy, selling>>
    BY <1>1 DEF SubmitVerification
  <2> HIDE DEF c
  <2> QED BY <2>1, <2>2, <2>3, BegunCalls DEF TypeOK, Only, SellingKinds
<1>2. ASSUME NEW u \in Users, ActivateStore(h, u)
      PROVE  Goal
  <2> DEFINE c == [at |-> "store", status |-> "ACTIVE"]
  <2>1. Untouched(c) \in StoreCalls /\ Untouched(c).at = "store"
    BY <1>2 DEF Untouched, StoreCalls
  <2>2. Untouched(c) \in Calls
    BY <2>1 DEF Calls, SellingCalls
  <2>3. Begin(h, "selling", c) /\ UNCHANGED <<membership, privacy, selling>>
    BY <1>2 DEF ActivateStore
  <2> HIDE DEF c
  <2> QED BY <2>1, <2>2, <2>3, BegunCalls DEF TypeOK, Only, SellingKinds
<1>3. ASSUME NEW u \in Users, CloseStore(h, u)
      PROVE  Goal
  <2> DEFINE c == [at |-> "store", status |-> "CLOSED"]
  <2>1. Untouched(c) \in StoreCalls /\ Untouched(c).at = "store"
    BY <1>3 DEF Untouched, StoreCalls
  <2>2. Untouched(c) \in Calls
    BY <2>1 DEF Calls, SellingCalls
  <2>3. Begin(h, "selling", c) /\ UNCHANGED <<membership, privacy, selling>>
    BY <1>3 DEF CloseStore
  <2> HIDE DEF c
  <2> QED BY <2>1, <2>2, <2>3, BegunCalls DEF TypeOK, Only, SellingKinds
<1>4. ASSUME NEW t \in CheckTypes, NEW i \in 1..MaxChecks, NEW d \in {"VERIFIED", "REJECTED"},
             ReviewVerification(h, t, i, d)
      PROVE  Goal
  <2> DEFINE c == [at |-> "review", type |-> t, check |-> i, decision |-> d]
  <2>1. Untouched(c) \in ReviewCalls /\ Untouched(c).at = "review"
    BY <1>4 DEF Untouched, ReviewCalls
  <2>2. Untouched(c) \in Calls
    BY <2>1 DEF Calls, SellingCalls
  <2>3. Begin(h, "selling", c) /\ UNCHANGED <<membership, privacy, selling>>
    BY <1>4 DEF ReviewVerification
  <2> HIDE DEF c
  <2> QED BY <2>1, <2>2, <2>3, BegunCalls DEF TypeOK, Only, SellingKinds
<1>5. ASSUME NEW d \in {"APPROVED", "REJECTED", "SUSPENDED"}, DecideVendor(h, d)
      PROVE  Goal
  <2> DEFINE c == [at |-> "decide", decision |-> d]
  <2>1. Untouched(c) \in DecideCalls /\ Untouched(c).at = "decide"
    BY <1>5 DEF Untouched, DecideCalls
  <2>2. Untouched(c) \in Calls
    BY <2>1 DEF Calls, SellingCalls
  <2>3. Begin(h, "selling", c) /\ UNCHANGED <<membership, privacy, selling>>
    BY <1>5 DEF DecideVendor
  <2> HIDE DEF c
  <2> QED BY <2>1, <2>2, <2>3, BegunCalls DEF TypeOK, Only, SellingKinds
<1>6. ASSUME NEW s \in {"ACTIVE", "SUSPENDED", "DISABLED"}, UpdateProviderAccount(h, s)
      PROVE  Goal
  <2> DEFINE c == [at |-> "settle", status |-> s]
  <2>1. Untouched(c) \in SettleCalls /\ Untouched(c).at = "settle"
    BY <1>6 DEF Untouched, SettleCalls
  <2>2. Untouched(c) \in Calls
    BY <2>1 DEF Calls, SellingCalls
  <2>3. Begin(h, "selling", c) /\ UNCHANGED <<membership, privacy, selling>>
    BY <1>6 DEF UpdateProviderAccount
  <2> HIDE DEF c
  <2> QED BY <2>1, <2>2, <2>3, BegunCalls DEF TypeOK, Only, SellingKinds
<1> HIDE DEF Goal
<1>7. Goal
  BY <1>1, <1>2, <1>3, <1>4, <1>5, <1>6 DEF SellingRequest
<1> QED BY <1>7 DEF Goal

(* A check that is reviewed, or lapses, is a check; and a check that was ever  *)
(* VERIFIED stays one that was.                                               *)
LEMMA ReviewedCheck ==
  ASSUME checks \in [CheckTypes -> Seq(CheckRows)], NEW t \in CheckTypes, NEW i, NEW row,
         i \in DOMAIN checks[t] => row \in CheckRows /\ (checks[t][i].was => row.was),
         checks' = [checks EXCEPT ![t][i] = row]
  PROVE  /\ checks' \in [CheckTypes -> Seq(CheckRows)]
         /\ \A k \in CheckTypes : WasVerified(k) => WasVerified(k)'
<1> DEFINE s == [checks[t] EXCEPT ![i] = row]
<1>1. checks' = [checks EXCEPT ![t] = s]
  OBVIOUS
<1>2. checks[t] \in Seq(CheckRows)
  OBVIOUS
<1>3. /\ s \in Seq(CheckRows) /\ DOMAIN s = DOMAIN checks[t]
      /\ \A j \in DOMAIN checks[t] : s[j] = IF j = i THEN row ELSE checks[t][j]
  <2>1. CASE i \in DOMAIN checks[t]
    <3>1. i \in 1..Len(checks[t]) /\ row \in CheckRows
      BY <1>2, <2>1
    <3> QED BY <1>2, <3>1, ExceptSeq
  <2>2. CASE i \notin DOMAIN checks[t]
    <3>1. s = checks[t]
      BY <1>2, <2>2
    <3> QED BY <1>2, <3>1, <2>2
  <2> QED BY <2>1, <2>2
<1> HIDE DEF s
<1>4. checks' \in [CheckTypes -> Seq(CheckRows)]
  BY <1>1, <1>3
<1>5. ASSUME NEW k \in CheckTypes, WasVerified(k)
      PROVE  WasVerified(k)'
  <2>1. PICK j \in DOMAIN checks[k] : checks[k][j].was
    BY <1>5 DEF WasVerified
  <2>2. CASE k = t
    <3>1. checks'[k] = s
      BY <1>1, <2>2
    <3>2. j \in DOMAIN s /\ s[j].was
      BY <1>3, <2>1, <2>2
    <3> QED BY <3>1, <3>2 DEF WasVerified
  <2>3. CASE k # t
    <3>1. checks'[k] = checks[k]
      BY <1>1, <2>3
    <3> QED BY <3>1, <2>1 DEF WasVerified
  <2> QED BY <2>2, <2>3
<1> QED BY <1>4, <1>5

LEMMA SubmittedCheck ==
  ASSUME checks \in [CheckTypes -> Seq(CheckRows)], NEW t \in CheckTypes,
         checks' = [checks EXCEPT ![t] = Append(@, NewCheck)]
  PROVE  /\ checks' \in [CheckTypes -> Seq(CheckRows)]
         /\ \A k \in CheckTypes : WasVerified(k) => WasVerified(k)'
<1> DEFINE s == Append(checks[t], NewCheck)
<1>1. checks' = [checks EXCEPT ![t] = s] /\ checks[t] \in Seq(CheckRows)
  OBVIOUS
<1>2. NewCheck \in CheckRows
  BY DEF NewCheck, CheckRows
<1>3. /\ s \in Seq(CheckRows) /\ DOMAIN checks[t] \subseteq DOMAIN s
      /\ \A j \in DOMAIN checks[t] : s[j] = checks[t][j]
  BY <1>1, <1>2
<1> HIDE DEF s
<1>4. ASSUME NEW k \in CheckTypes, WasVerified(k)
      PROVE  WasVerified(k)'
  <2>1. PICK j \in DOMAIN checks[k] : checks[k][j].was
    BY <1>4 DEF WasVerified
  <2>2. j \in DOMAIN checks'[k] /\ checks'[k][j] = checks[k][j]
    BY <1>1, <1>3, <2>1
  <2> QED BY <2>1, <2>2 DEF WasVerified
<1> QED BY <1>1, <1>3, <1>4

Evidence == \A k \in CheckTypes : WasVerified(k) => WasVerified(k)'

LEMMA SellingStepTyping ==
  ASSUME TypeOK, NEW h \in Handlers, SellingStep(h)
  PROVE  /\ calls' \in [Handlers -> Calls] /\ Only({}) /\ SellingTypeOK'
         /\ Evidence /\ UNCHANGED <<membership, privacy>>
<1> DEFINE call == calls[h]
<1>0. call \in Calls /\ calls \in [Handlers -> Calls] /\ SellingTypeOK
  BY DEF TypeOK
<1>1. CASE CreateVerification(h)
  <2>1. call.type \in CheckTypes
    BY <1>0, <1>1, Kinds DEF CreateVerification, SubmitCalls
  <2>2. checks' = [checks EXCEPT ![call.type] = Append(@, NewCheck)] /\ Commit(h, {})
        /\ UNCHANGED <<membership, privacy, vendor, account, store>>
    BY <1>1 DEF CreateVerification
  <2>3. checks' \in [CheckTypes -> Seq(CheckRows)] /\ Evidence
    BY <1>0, <2>1, <2>2, SubmittedCheck DEF SellingTypeOK, Evidence
  <2> QED BY <1>0, <2>2, <2>3, CommittedCalls DEF SellingTypeOK, Only
<1>2. CASE WriteReview(h)
  <2> DEFINE was == checks[call.type][call.check].was
             row == [status |-> call.decision, was |-> was \/ call.decision = "VERIFIED"]
  <2>1. call.type \in CheckTypes /\ call.decision \in {"VERIFIED", "REJECTED"}
    BY <1>0, <1>2, Kinds DEF WriteReview, ReviewCalls
  <2>2. call.check \in DOMAIN checks[call.type] => row \in CheckRows /\ (was => row.was)
    <3>1. call.check \in DOMAIN checks[call.type] => was \in BOOLEAN
      <4>1. checks[call.type] \in Seq(CheckRows)
        BY <1>0, <2>1 DEF SellingTypeOK
      <4>2. call.check \in DOMAIN checks[call.type] => checks[call.type][call.check] \in CheckRows
        BY <4>1
      <4> QED BY <4>2 DEF CheckRows
    <3> HIDE DEF was
    <3>2. was \in BOOLEAN => row \in CheckRows /\ (was => row.was)
      BY <2>1 DEF CheckRows
    <3> QED BY <3>1, <3>2
  <2>3. checks' = [checks EXCEPT ![call.type][call.check] = row] /\ Commit(h, {})
        /\ UNCHANGED <<membership, privacy, vendor, account, store>>
    BY <1>0, <1>2, <2>1 DEF WriteReview, SellingTypeOK
  <2> HIDE DEF row
  <2>4. checks' \in [CheckTypes -> Seq(CheckRows)] /\ Evidence
    BY <1>0, <2>1, <2>2, <2>3, ReviewedCheck DEF SellingTypeOK, Evidence
  <2> QED BY <1>0, <2>3, <2>4, CommittedCalls DEF SellingTypeOK, Only
<1>3. CASE SetVendorStatus(h)
  <2>1. call.decision \in VendorStatus
    BY <1>0, <1>3, Kinds DEF SetVendorStatus, DecideCalls, VendorStatus
  <2> QED BY <1>0, <1>3, <2>1, CommittedCalls DEF SetVendorStatus, SellingTypeOK, Only, Evidence, WasVerified
<1>4. CASE SetProviderAccountStatus(h)
  <2>1. call.status \in AccountStatus
    BY <1>0, <1>4, Kinds DEF SetProviderAccountStatus, SettleCalls, AccountStatus
  <2> QED BY <1>0, <1>4, <2>1, CommittedCalls DEF SetProviderAccountStatus, SellingTypeOK, Only, Evidence, WasVerified
<1>5. CASE SetStoreStatus(h)
  <2>1. call.status \in StoreStatus
    BY <1>0, <1>5, Kinds DEF SetStoreStatus, StoreCalls, StoreStatus
  <2> QED BY <1>0, <1>5, <2>1, CommittedCalls DEF SetStoreStatus, SellingTypeOK, Only, Evidence, WasVerified
<1> QED BY <1>1, <1>2, <1>3, <1>4, <1>5 DEF SellingStep

LEMMA SellingMoveTyping ==
  ASSUME TypeOK, SellingMove
  PROVE  /\ calls' = calls /\ SellingTypeOK' /\ Evidence /\ UNCHANGED <<membership, privacy>>
<1>0. SellingTypeOK
  BY DEF TypeOK
<1>1. CASE \E u \in Users : CreateStore(u)
  BY <1>0, <1>1 DEF CreateStore, SellingTypeOK, StoreStatus, Evidence, WasVerified
<1>2. CASE RecordProviderAccount
  BY <1>0, <1>2 DEF RecordProviderAccount, SellingTypeOK, AccountStatus, Evidence, WasVerified
<1>3. ASSUME NEW t \in CheckTypes, NEW i \in 1..MaxChecks, CheckLapses(t, i)
      PROVE  /\ calls' = calls /\ SellingTypeOK' /\ Evidence /\ UNCHANGED <<membership, privacy>>
  <2> DEFINE row == [checks[t][i] EXCEPT !.status = "LAPSED"]
  <2>1. checks[t] \in Seq(CheckRows)
    BY <1>0 DEF SellingTypeOK
  <2>2. checks[t][i] \in CheckRows /\ checks[t][i].status = "VERIFIED"
    BY <1>3, <2>1 DEF CheckLapses
  <2>3. row \in CheckRows /\ row.was = checks[t][i].was
    BY <2>2 DEF CheckRows
  <2>4. checks' = [checks EXCEPT ![t][i] = row]
    BY <1>0, <1>3 DEF CheckLapses, SellingTypeOK
  <2> HIDE DEF row
  <2>5. checks' \in [CheckTypes -> Seq(CheckRows)] /\ Evidence
    BY <1>0, <2>3, <2>4, ReviewedCheck DEF SellingTypeOK, Evidence
  <2> QED BY <1>0, <1>3, <2>5 DEF CheckLapses, SellingTypeOK
<1> QED BY <1>1, <1>2, <1>3 DEF SellingMove

LEMMA CatalogRequestTyping ==
  ASSUME TypeOK, NEW h \in Handlers, CatalogRequest(h)
  PROVE  calls' \in [Handlers -> Calls] /\ Only(CatalogKinds) /\ UNCHANGED <<others, catalog>>
<1> DEFINE Goal == calls' \in [Handlers -> Calls] /\ Only(CatalogKinds) /\ UNCHANGED <<others, catalog>>
<1>1. ASSUME NEW c \in Categories, NEW p \in Categories \cup {None}, MoveCategory(h, c, p)
      PROVE  Goal
  <2> DEFINE x == [at |-> "walk", category |-> c, parent |-> p, current |-> p, depth |-> 0]
  <2>1. Untouched(x) \in WalkCalls /\ Untouched(x).at = "walk"
    BY <1>1 DEF Untouched, WalkCalls
  <2>2. Untouched(x) \in Calls
    BY <2>1 DEF Calls, CatalogCalls
  <2>3. Begin(h, "categories", x) /\ UNCHANGED <<others, catalog>>
    BY <1>1 DEF MoveCategory
  <2> HIDE DEF x
  <2> QED BY <2>1, <2>2, <2>3, BegunCalls DEF TypeOK, Only, CatalogKinds
<1>2. ASSUME NEW c \in Categories, NEW p \in Categories \cup {None}, NewCategory(h, c, p)
      PROVE  Goal
  <2> DEFINE x == [at |-> "walk", category |-> c, parent |-> p, current |-> p, depth |-> 0]
  <2>1. Untouched(x) \in WalkCalls /\ Untouched(x).at = "walk"
    BY <1>2 DEF Untouched, WalkCalls
  <2>2. Untouched(x) \in Calls
    BY <2>1 DEF Calls, CatalogCalls
  <2>3. Begin(h, "categories", x) /\ UNCHANGED <<others, catalog>>
    BY <1>2 DEF NewCategory
  <2> HIDE DEF x
  <2> QED BY <2>1, <2>2, <2>3, BegunCalls DEF TypeOK, Only, CatalogKinds
<1>3. ASSUME NEW u \in Users, NEW c \in Categories \cup {None}, CreateProduct(h, u, c)
      PROVE  Goal
  <2> DEFINE x == [at |-> "create", category |-> c]
  <2>1. Untouched(x) \in CreateCalls /\ Untouched(x).at = "create"
    BY <1>3 DEF Untouched, CreateCalls
  <2>2. Untouched(x) \in Calls
    BY <2>1 DEF Calls, CatalogCalls
  <2>3. Begin(h, "products", x) /\ UNCHANGED <<others, catalog>>
    BY <1>3 DEF CreateProduct
  <2> HIDE DEF x
  <2> QED BY <2>1, <2>2, <2>3, BegunCalls DEF TypeOK, Only, CatalogKinds
<1>4. ASSUME NEW u \in Users, NEW e \in Edits, Edit(h, u, e)
      PROVE  Goal
  <2> DEFINE x == [at |-> "edit", edit |-> e]
  <2>1. Untouched(x) \in EditCalls /\ Untouched(x).at = "edit"
    BY <1>4 DEF Untouched, EditCalls
  <2>2. Untouched(x) \in Calls
    BY <2>1 DEF Calls, CatalogCalls
  <2>3. Begin(h, "products", x) /\ UNCHANGED <<others, catalog>>
    BY <1>4 DEF Edit
  <2> HIDE DEF x
  <2> QED BY <2>1, <2>2, <2>3, BegunCalls DEF TypeOK, Only, CatalogKinds
<1>5. ASSUME NEW u \in Users, PublishProduct(h, u)
      PROVE  Goal
  <2> DEFINE x == [at |-> "status", status |-> "ACTIVE"]
  <2>1. Untouched(x) \in StatusCalls /\ Untouched(x).at = "status"
    BY <1>5 DEF Untouched, StatusCalls
  <2>2. Untouched(x) \in Calls
    BY <2>1 DEF Calls, CatalogCalls
  <2>3. Begin(h, "products", x) /\ UNCHANGED <<others, catalog>>
    BY <1>5 DEF PublishProduct
  <2> HIDE DEF x
  <2> QED BY <2>1, <2>2, <2>3, BegunCalls DEF TypeOK, Only, CatalogKinds
<1>6. ASSUME NEW u \in Users, ArchiveProduct(h, u)
      PROVE  Goal
  <2> DEFINE x == [at |-> "status", status |-> "ARCHIVED"]
  <2>1. Untouched(x) \in StatusCalls /\ Untouched(x).at = "status"
    BY <1>6 DEF Untouched, StatusCalls
  <2>2. Untouched(x) \in Calls
    BY <2>1 DEF Calls, CatalogCalls
  <2>3. Begin(h, "products", x) /\ UNCHANGED <<others, catalog>>
    BY <1>6 DEF ArchiveProduct
  <2> HIDE DEF x
  <2> QED BY <2>1, <2>2, <2>3, BegunCalls DEF TypeOK, Only, CatalogKinds
<1>7. ASSUME NEW u \in Users, CompleteMediaUpload(h, u)
      PROVE  Goal
  <2> DEFINE x == [at |-> "media", status |-> "ACTIVE"]
  <2>1. Untouched(x) \in MediaCalls /\ Untouched(x).at = "media"
    BY <1>7 DEF Untouched, MediaCalls
  <2>2. Untouched(x) \in Calls
    BY <2>1 DEF Calls, CatalogCalls
  <2>3. Begin(h, "products", x) /\ UNCHANGED <<others, catalog>>
    BY <1>7 DEF CompleteMediaUpload
  <2> HIDE DEF x
  <2> QED BY <2>1, <2>2, <2>3, BegunCalls DEF TypeOK, Only, CatalogKinds
<1>8. ASSUME NEW u \in Users, UpdateMedia(h, u)
      PROVE  Goal
  <2> DEFINE x == [at |-> "media", status |-> "same"]
  <2>1. Untouched(x) \in MediaCalls /\ Untouched(x).at = "media"
    BY <1>8 DEF Untouched, MediaCalls
  <2>2. Untouched(x) \in Calls
    BY <2>1 DEF Calls, CatalogCalls
  <2>3. Begin(h, "products", x) /\ UNCHANGED <<others, catalog>>
    BY <1>8 DEF UpdateMedia
  <2> HIDE DEF x
  <2> QED BY <2>1, <2>2, <2>3, BegunCalls DEF TypeOK, Only, CatalogKinds
<1>9. ASSUME NEW u \in Users, DeleteMedia(h, u)
      PROVE  Goal
  <2> DEFINE at == IF media.status = "DELETED" THEN "object" ELSE "media"
             x  == [at |-> at, status |-> "DELETED"]
  <2>1. at \in {"media", "object"}
    OBVIOUS
  <2>2. Begin(h, "products", x) /\ UNCHANGED <<others, catalog>>
    BY <1>9 DEF DeleteMedia
  <2> HIDE DEF at
  <2>3. Untouched(x) \in MediaCalls /\ Untouched(x).at = at
    BY <2>1 DEF Untouched, MediaCalls
  <2>4. Untouched(x) \in Calls
    BY <2>3 DEF Calls, CatalogCalls
  <2> HIDE DEF x
  <2> QED BY <2>1, <2>2, <2>3, <2>4, BegunCalls DEF TypeOK, Only, CatalogKinds
<1>10. ASSUME NEW d \in Decisions, ModerateProduct(h, d)
      PROVE  Goal
  <2> DEFINE x == [at |-> "moderate", decision |-> d, seen |-> Look]
  <2>0. Look \in Looks
    BY DEF Look, Looks, TypeOK, CatalogTypeOK, MediaRows
  <2>1. Untouched(x) \in ModerationCalls /\ Untouched(x).at = "moderate"
    BY <1>10, <2>0 DEF Untouched, ModerationCalls
  <2>2. Untouched(x) \in Calls
    BY <2>1 DEF Calls, CatalogCalls
  <2>3. Begin(h, "products", x) /\ UNCHANGED <<others, catalog>>
    BY <1>10 DEF ModerateProduct
  <2> HIDE DEF x
  <2> QED BY <2>1, <2>2, <2>3, BegunCalls DEF TypeOK, Only, CatalogKinds
<1> HIDE DEF Goal
<1>11. Goal
  BY <1>1, <1>2, <1>3, <1>4, <1>5, <1>6, <1>7, <1>8, <1>9, <1>10 DEF CatalogRequest
<1> QED BY <1>11 DEF Goal

(* An edited or requeued product is a product. *)
LEMMA RequeuedProduct ==
  ASSUME NEW p \in ProductRows
  PROVE  /\ Requeued(p) \in ProductRows
         /\ Requeued(p).moderation # "APPROVED"
<1>1. CASE p.moderation = "NOT_REQUIRED"
  BY <1>1 DEF Requeued
<1>2. CASE p.moderation # "NOT_REQUIRED"
  <2>1. [p EXCEPT !.moderation = "PENDING"] \in ProductRows
    BY DEF ProductRows, ModerationStatus
  <2>2. [[p EXCEPT !.moderation = "PENDING"] EXCEPT !.status = "DRAFT"] \in ProductRows
    BY <2>1 DEF ProductRows, ProductStatus
  <2>3. [[p EXCEPT !.moderation = "PENDING"] EXCEPT !.status = "DRAFT"].moderation = "PENDING"
    BY DEF ProductRows
  <2> QED BY <1>2, <2>2, <2>3 DEF Requeued
<1> QED BY <1>1, <1>2

LEMMA EditedProduct ==
  ASSUME NEW p \in ProductRows, NEW e \in Edits
  PROVE  Applied(e, p) \in ProductRows
<1>1. p.variants \in Nat /\ p.inactive \in Nat
  BY DEF ProductRows
<1>2. CASE e.kind = "category"
  <2>1. e.to \in Categories \cup {None}
    BY <1>2 DEF Edits
  <2>2. [p EXCEPT !.category = e.to] \in ProductRows
    BY <2>1 DEF ProductRows
  <2> QED BY <1>2, <2>2 DEF Applied, AsAsked
<1>3. CASE e.kind = "addVariant"
  <2>1. [p EXCEPT !.variants = p.variants + 1] \in ProductRows
    BY <1>1 DEF ProductRows
  <2> QED BY <1>3, <2>1 DEF Applied, AsAsked
<1>4. CASE e.kind = "dropVariant" /\ p.variants # 0
  <2>1. p.variants - 1 \in Nat
    BY <1>1, <1>4
  <2>2. [p EXCEPT !.variants = p.variants - 1] \in ProductRows
        /\ [p EXCEPT !.variants = p.variants - 1].inactive = p.inactive
    BY <2>1 DEF ProductRows
  <2>3. ASSUME NEW q \in ProductRows PROVE [q EXCEPT !.inactive = p.inactive + 1] \in ProductRows
    BY <1>1 DEF ProductRows
  <2>4. [[p EXCEPT !.variants = p.variants - 1] EXCEPT !.inactive = p.inactive + 1] \in ProductRows
    BY ONLY <2>2, <2>3
  <2> QED BY <1>4, <2>2, <2>4 DEF Applied, AsAsked
<1>5. CASE e.kind = "restoreVariant" /\ p.inactive # 0
  <2>1. p.inactive - 1 \in Nat
    BY <1>1, <1>5
  <2>2. [p EXCEPT !.variants = p.variants + 1] \in ProductRows
        /\ [p EXCEPT !.variants = p.variants + 1].inactive = p.inactive
    BY <1>1 DEF ProductRows
  <2>3. [[p EXCEPT !.variants = p.variants + 1] EXCEPT !.inactive = p.inactive - 1] \in ProductRows
    BY <2>1, <2>2 DEF ProductRows
  <2> QED BY <1>5, <2>2, <2>3 DEF Applied, AsAsked
<1>6. CASE e.kind = "details"
  BY <1>6 DEF Applied, AsAsked
<1>7. CASE (e.kind = "dropVariant" /\ p.variants = 0) \/ (e.kind = "restoreVariant" /\ p.inactive = 0)
  BY <1>7 DEF Applied
<1>8. e.kind \in {"category", "addVariant", "dropVariant", "restoreVariant", "details"}
  BY DEF Edits
<1> QED BY <1>2, <1>3, <1>4, <1>5, <1>6, <1>7, <1>8

(* A step of a walk up the category tree. *)
LEMMA WalkedUp ==
  ASSUME NEW c \in WalkCalls, c.current # None, category \in [Categories -> CategoryRows]
  PROVE  LET d == [c EXCEPT !.current = category[@].parent, !.depth = @ + 1]
         IN  /\ d \in WalkCalls /\ d.at = "walk" /\ d.touched = c.touched
             /\ d.category = c.category /\ d.parent = c.parent
             /\ d.current = category[c.current].parent
<1> DEFINE p == category[c.current].parent
           d == [c EXCEPT !.current = p]
<1>1. p \in Categories \cup {None} /\ c.depth + 1 \in Nat
  <2>1. c.current \in Categories /\ c.depth \in Nat
    BY DEF WalkCalls
  <2>2. category[c.current] \in CategoryRows
    BY <2>1
  <2> QED BY <2>1, <2>2 DEF CategoryRows
<1> HIDE DEF p
<1>2. /\ d \in WalkCalls /\ d.at = "walk" /\ d.touched = c.touched /\ d.category = c.category
      /\ d.parent = c.parent /\ d.current = p /\ d.depth = c.depth
  BY <1>1 DEF WalkCalls
<1> HIDE DEF d
<1>3. LET f == [d EXCEPT !.depth = c.depth + 1]
      IN  /\ f \in WalkCalls /\ f.at = "walk" /\ f.touched = d.touched /\ f.category = d.category
          /\ f.parent = d.parent /\ f.current = d.current
  BY <1>1, <1>2 DEF WalkCalls
<1> USE DEF d
<1>4. [c EXCEPT !.current = category[@].parent, !.depth = @ + 1] = [d EXCEPT !.depth = c.depth + 1]
  BY <1>2 DEF p
<1> HIDE DEF d
<1> QED BY <1>2, <1>3, <1>4 DEF p

(* What a step of the catalog changes of the rest: it may be a write that     *)
(* another one had overtaken.                                                *)
CatalogOnly == UNCHANGED <<member, accounts, given, privacy, selling>> /\ contested \subseteq contested'

LEMMA ContentTyping ==
  ASSUME CatalogTypeOK, ContentChanges
  PROVE  content' \in [version : Nat, bytes : Nat, approval : Approvals]
BY DEF CatalogTypeOK, ContentChanges

LEMMA CatalogStepTyping ==
  ASSUME TypeOK, NEW h \in Handlers, CatalogStep(h)
  PROVE  /\ calls' \in [Handlers -> Calls] /\ Only({"walk", "object"}) /\ CatalogTypeOK'
         /\ CatalogOnly
<1> DEFINE call == calls[h]
<1>0. call \in Calls /\ calls \in [Handlers -> Calls] /\ CatalogTypeOK /\ {} \in SUBSET Row /\ Idle \in Calls
  BY DEF TypeOK, Calls
<1>1. CASE WalkUp(h)
  <2>1. call \in WalkCalls /\ call.current # None
    BY <1>0, <1>1, Kinds DEF WalkUp
  <2>2. UNCHANGED <<others, catalog>>
    BY <1>1 DEF WalkUp
  <2>3. CASE Refuse(h)
    BY <1>0, <2>2, <2>3, RefusedCalls
    DEF Only, CatalogTypeOK, CatalogOnly, others, catalog, membership
  <2>4. CASE Continue(h, [call EXCEPT !.current = category[@].parent, !.depth = @ + 1])
    <3> DEFINE d == [call EXCEPT !.current = category[@].parent, !.depth = @ + 1]
    <3>1. d \in WalkCalls /\ d.at = "walk"
      BY <1>0, <2>1, WalkedUp DEF CatalogTypeOK
    <3>2. Continue(h, d)
      BY <2>4
    <3> HIDE DEF d
    <3>3. d \in Calls
      BY <3>1 DEF Calls, CatalogCalls
    <3> QED BY <1>0, <2>2, <3>1, <3>2, <3>3, ContinuedCalls
        DEF Only, CatalogTypeOK, CatalogOnly, others, catalog, membership
  <2> QED BY <1>1, <2>3, <2>4 DEF WalkUp
<1>2. CASE WriteParent(h)
  <2>1. call \in WalkCalls
    BY <1>0, <1>2, Kinds DEF WriteParent
  <2>2. call.category \in Categories /\ call.parent \in Categories \cup {None} /\ {call.category} \in SUBSET Row
    BY <2>1 DEF WalkCalls, Row
  <2> DEFINE s   == IF category[call.category].status = "NONE" THEN "ACTIVE" ELSE category[call.category].status
             row == [parent |-> call.parent, status |-> s]
  <2>3. category[call.category] \in CategoryRows
    BY <1>0, <2>2 DEF CatalogTypeOK
  <2>4. row \in CategoryRows
    BY <2>2, <2>3 DEF CategoryRows
  <2>5. category' = [category EXCEPT ![call.category] = row] /\ Commit(h, {call.category})
        /\ UNCHANGED <<member, accounts, given, privacy, selling, product, media, content>>
        /\ contested \subseteq contested'
    BY <1>2 DEF WriteParent
  <2> HIDE DEF row
  <2>6. category' \in [Categories -> CategoryRows]
    BY <1>0, <2>4, <2>5 DEF CatalogTypeOK
  <2> QED BY <1>0, <2>2, <2>5, <2>6, CommittedCalls DEF Only, CatalogTypeOK, CatalogOnly
<1>3. CASE WriteProduct(h)
  <2>1. call.category \in Categories \cup {None}
    BY <1>0, <1>3, Kinds DEF WriteProduct, CreateCalls
  <2> DEFINE p == [status |-> "DRAFT", moderation |-> "NOT_REQUIRED", category |-> call.category,
                   variants |-> 1, inactive |-> 0]
  <2>2. p \in ProductRows
    BY <2>1 DEF ProductRows, ProductStatus, ModerationStatus
  <2>3. (product' = p \/ product' = product) /\ Commit(h, {}) /\ UNCHANGED <<others, category, media, content>>
    BY <1>3 DEF WriteProduct
  <2> HIDE DEF p
  <2> QED BY <1>0, <2>2, <2>3, CommittedCalls DEF Only, CatalogTypeOK, CatalogOnly, others, membership
<1>4. CASE WriteEdit(h)
  <2>1. call.edit \in Edits
    BY <1>0, <1>4, Kinds DEF WriteEdit, EditCalls
  <2> DEFINE p == Applied(call.edit, product)
  <2>2. p \in ProductRows
    BY <1>0, <2>1, EditedProduct DEF CatalogTypeOK
  <2>3. product' = Requeued(p) /\ ContentChanges /\ Commit(h, {}) /\ UNCHANGED <<others, category, media>>
    BY <1>4 DEF WriteEdit
  <2> HIDE DEF p
  <2>4. product' \in ProductRows
    BY <2>2, <2>3, RequeuedProduct
  <2> QED BY <1>0, <2>3, <2>4, CommittedCalls, ContentTyping
      DEF Only, CatalogTypeOK, CatalogOnly, others, membership
<1>5. CASE SetProductStatus(h)
  <2>1. call.status \in ProductStatus
    BY <1>0, <1>5, Kinds DEF SetProductStatus, StatusCalls, ProductStatus
  <2>2. product' = [product EXCEPT !.status = call.status] /\ Commit(h, {}) /\ UNCHANGED <<others, category, media, content>>
    BY <1>5 DEF SetProductStatus
  <2>3. product' \in ProductRows
    BY <1>0, <2>1, <2>2 DEF CatalogTypeOK, ProductRows
  <2> QED BY <1>0, <2>2, <2>3, CommittedCalls DEF Only, CatalogTypeOK, CatalogOnly, others, membership
<1>6. CASE WriteMedia(h)
  <2>1. call \in MediaCalls
    BY <1>0, <1>6, Kinds DEF WriteMedia
  <2>2. /\ media' = [media EXCEPT !.status = IF call.status = "same" THEN @ ELSE call.status]
        /\ product' = Requeued(product) /\ ContentChanges /\ UNCHANGED <<others, category>>
    BY <1>6 DEF WriteMedia
  <2>3. product' \in ProductRows
    BY <1>0, <2>2, RequeuedProduct DEF CatalogTypeOK
  <2>4. media' \in MediaRows
    <3> DEFINE s == IF call.status = "same" THEN media.status ELSE call.status
    <3>1. media \in MediaRows
      BY <1>0 DEF CatalogTypeOK
    <3>2. s \in {"NONE", "PENDING", "ACTIVE", "DELETED"}
      BY <2>1, <3>1 DEF MediaRows, MediaCalls
    <3>3. media' = [media EXCEPT !.status = s]
      BY <2>2
    <3> HIDE DEF s
    <3> QED BY <3>1, <3>2, <3>3 DEF MediaRows
  <2>5. CatalogTypeOK' /\ CatalogOnly
    BY <1>0, <2>2, <2>3, <2>4, ContentTyping DEF CatalogTypeOK, CatalogOnly, others, membership
  <2> DEFINE d == [call EXCEPT !.at = "object"]
  <2>6. d \in MediaCalls /\ d.at = "object"
    BY <2>1 DEF MediaCalls
  <2>7. Continue(h, d) \/ Commit(h, {})
    BY <1>6 DEF WriteMedia
  <2> HIDE DEF d
  <2>8. d \in Calls
    BY <2>6 DEF Calls, CatalogCalls
  <2> QED BY <1>0, <2>5, <2>6, <2>7, <2>8, ContinuedCalls, CommittedCalls DEF Only
<1>7. CASE DeleteObject(h)
  <2>1. media' \in {media, [media EXCEPT !.stored = FALSE]} /\ Commit(h, {})
        /\ UNCHANGED <<others, category, product, content>>
    BY <1>7 DEF DeleteObject
  <2>2. media' \in MediaRows
    BY <1>0, <2>1 DEF CatalogTypeOK, MediaRows
  <2> QED BY <1>0, <2>1, <2>2, CommittedCalls DEF Only, CatalogTypeOK, CatalogOnly, others, membership
<1>8. CASE SetModerationStatus(h)
  <2>1. call.decision \in Decisions /\ call.seen \in Looks
    BY <1>0, <1>8, Kinds DEF SetModerationStatus, ModerationCalls
  <2> DEFINE d == call.decision
             t == IF d = "APPROVED" THEN product.status ELSE "DRAFT"
             p == [product EXCEPT !.moderation = d]
             a == [seen |-> call.seen, over |-> content.version]
  <2>2. d \in ModerationStatus /\ product \in ProductRows /\ content \in [version : Nat, bytes : Nat, approval : Approvals]
    BY <1>0, <2>1 DEF Decisions, ModerationStatus, CatalogTypeOK
  <2>3. t \in ProductStatus
    BY <2>2 DEF ProductRows, ProductStatus
  <2>4. product' = [p EXCEPT !.status = t]
    BY <1>8, <2>2 DEF SetModerationStatus, ProductRows
  <2>5. content' \in {content, [content EXCEPT !.approval = a]} /\ Commit(h, {})
        /\ UNCHANGED <<others, category, media>>
    BY <1>8 DEF SetModerationStatus
  <2>6. a \in Approvals
    BY <2>1, <2>2 DEF Approvals
  <2> HIDE DEF d, t, a
  <2>7. p \in ProductRows
    BY <2>2 DEF ProductRows
  <2> HIDE DEF p
  <2>8. product' \in ProductRows
    BY <2>3, <2>4, <2>7 DEF ProductRows
  <2>9. content' \in [version : Nat, bytes : Nat, approval : Approvals]
    BY <2>2, <2>5, <2>6
  <2> QED BY <1>0, <2>5, <2>8, <2>9, CommittedCalls DEF Only, CatalogTypeOK, CatalogOnly, others, membership
<1> QED BY <1>1, <1>2, <1>3, <1>4, <1>5, <1>6, <1>7, <1>8 DEF CatalogStep

LEMMA CatalogMoveTyping ==
  ASSUME TypeOK, CatalogMove
  PROVE  calls' = calls /\ CatalogTypeOK' /\ UNCHANGED others
<1>0. CatalogTypeOK /\ product \in ProductRows /\ media \in MediaRows /\ content \in [version : Nat, bytes : Nat, approval : Approvals]
  BY DEF TypeOK, CatalogTypeOK
<1>1. ASSUME NEW c \in Categories, NEW s \in {"ACTIVE", "INACTIVE"}, SetCategoryStatus(c, s)
      PROVE  calls' = calls /\ CatalogTypeOK' /\ UNCHANGED others
  <2> DEFINE row == [category[c] EXCEPT !.status = s]
  <2>1. category[c] \in CategoryRows
    BY <1>0 DEF CatalogTypeOK
  <2>2. row \in CategoryRows
    BY <2>1 DEF CategoryRows
  <2>3. category' = [category EXCEPT ![c] = row] /\ UNCHANGED <<others, product, media, content, calls>>
    BY <1>0, <1>1 DEF SetCategoryStatus, CatalogTypeOK
  <2> HIDE DEF row
  <2> QED BY <1>0, <2>2, <2>3 DEF CatalogTypeOK
<1>2. CASE \E u \in Users : CreateMediaUploadIntent(u)
  <2>1. media' = [media EXCEPT !.status = "PENDING", !.open = TRUE] /\ UNCHANGED <<others, category, product, content, calls>>
    BY <1>2 DEF CreateMediaUploadIntent
  <2> DEFINE m == [media EXCEPT !.status = "PENDING"]
  <2>2. m \in MediaRows
    BY <1>0 DEF MediaRows
  <2>3. [m EXCEPT !.open = TRUE] \in MediaRows
    BY <2>2 DEF MediaRows
  <2>4. media' = [m EXCEPT !.open = TRUE]
    BY <2>1
  <2> QED BY <1>0, <2>1, <2>3, <2>4 DEF CatalogTypeOK
<1>3. CASE Upload
  <2>1. /\ media' = [media EXCEPT !.stored = TRUE] /\ content' = [content EXCEPT !.bytes = @ + 1]
        /\ UNCHANGED <<others, category, product, calls>>
    BY <1>3 DEF Upload
  <2>2. media' \in MediaRows
    BY <1>0, <2>1 DEF MediaRows
  <2>3. content' \in [version : Nat, bytes : Nat, approval : Approvals]
    BY <1>0, <2>1
  <2> QED BY <1>0, <2>1, <2>2, <2>3 DEF CatalogTypeOK
<1>4. CASE UploadLapses
  <2>1. media' = [media EXCEPT !.open = FALSE] /\ UNCHANGED <<others, category, product, content, calls>>
    BY <1>4 DEF UploadLapses
  <2>2. media' \in MediaRows
    BY <1>0, <2>1 DEF MediaRows
  <2> QED BY <1>0, <2>1, <2>2 DEF CatalogTypeOK
<1> QED BY <1>1, <1>2, <1>3, <1>4 DEF CatalogMove

(* The steps of the marketplace, by whose they are. *)
MemberAct ==
  /\ (\E h \in Handlers : MemberRequest(h) \/ MemberStep(h)) \/ \E u \in Users : AcceptInvitation(u)
  /\ UNCHANGED <<privacy, selling, catalog>>
PrivacyAct ==
  /\ \E h \in Handlers : PrivacyRequest(h) \/ PrivacyStep(h)
  /\ UNCHANGED <<selling, catalog>>
SellingAct ==
  /\ (\E h \in Handlers : SellingRequest(h) \/ SellingStep(h)) \/ SellingMove
  /\ UNCHANGED catalog
CatalogAct == (\E h \in Handlers : CatalogRequest(h) \/ CatalogStep(h)) \/ CatalogMove

LEMMA Acts ==
  ASSUME [Next]_vars
  PROVE  MemberAct \/ PrivacyAct \/ SellingAct \/ CatalogAct \/ UNCHANGED vars
BY DEF Next, Request, Step, Move, MemberAct, PrivacyAct, SellingAct, CatalogAct

LEMMA CallsKept ==
  ASSUME calls' = calls, NEW kinds
  PROVE  Only(kinds)
BY DEF Only, Kept

LEMMA MemberActTyping ==
  ASSUME TypeOK, MemberAct
  PROVE  TypeOK' /\ Only(MemberKinds)
<1>1. calls' \in [Handlers -> Calls] /\ Only(MemberKinds) /\ MembersTypeOK'
  <2>1. ASSUME NEW h \in Handlers, MemberRequest(h)
        PROVE  calls' \in [Handlers -> Calls] /\ Only(MemberKinds) /\ MembersTypeOK'
    BY <2>1, MemberRequestTyping DEF TypeOK, MembersTypeOK, membership
  <2>2. ASSUME NEW h \in Handlers, MemberStep(h)
        PROVE  calls' \in [Handlers -> Calls] /\ Only(MemberKinds) /\ MembersTypeOK'
    BY <2>2, MemberStepTyping DEF Only
  <2>3. ASSUME NEW u \in Users, AcceptInvitation(u)
        PROVE  calls' \in [Handlers -> Calls] /\ Only(MemberKinds) /\ MembersTypeOK'
    BY <2>3, AcceptanceTyping DEF Only
  <2> QED BY <2>1, <2>2, <2>3 DEF MemberAct
<1> QED BY <1>1 DEF MemberAct, TypeOK, PrivacyTypeOK, SellingTypeOK, CatalogTypeOK, privacy, selling, catalog

LEMMA PrivacyActTyping ==
  ASSUME TypeOK, PrivacyAct
  PROVE  TypeOK' /\ Only(PrivacyKinds)
<1>1. calls' \in [Handlers -> Calls] /\ Only(PrivacyKinds) /\ MembersTypeOK' /\ PrivacyTypeOK'
  <2>1. ASSUME NEW h \in Handlers, PrivacyRequest(h)
        PROVE  calls' \in [Handlers -> Calls] /\ Only(PrivacyKinds) /\ MembersTypeOK' /\ PrivacyTypeOK'
    BY <2>1, PrivacyRequestTyping DEF TypeOK, MembersTypeOK, PrivacyTypeOK, membership, privacy
  <2>2. ASSUME NEW h \in Handlers, PrivacyStep(h)
        PROVE  calls' \in [Handlers -> Calls] /\ Only(PrivacyKinds) /\ MembersTypeOK' /\ PrivacyTypeOK'
    BY <2>2, PrivacyStepTyping DEF Only
  <2> QED BY <2>1, <2>2 DEF PrivacyAct
<1> QED BY <1>1 DEF PrivacyAct, TypeOK, SellingTypeOK, CatalogTypeOK, selling, catalog

LEMMA SellingActTyping ==
  ASSUME TypeOK, SellingAct
  PROVE  TypeOK' /\ Only(SellingKinds) /\ Evidence /\ UNCHANGED <<membership, privacy, catalog>>
<1>1. /\ calls' \in [Handlers -> Calls] /\ Only(SellingKinds) /\ SellingTypeOK'
      /\ Evidence /\ UNCHANGED <<membership, privacy>>
  <2>1. ASSUME NEW h \in Handlers, SellingRequest(h)
        PROVE  /\ calls' \in [Handlers -> Calls] /\ Only(SellingKinds) /\ SellingTypeOK'
               /\ Evidence /\ UNCHANGED <<membership, privacy>>
    BY <2>1, SellingRequestTyping DEF TypeOK, SellingTypeOK, selling, Evidence, WasVerified
  <2>2. ASSUME NEW h \in Handlers, SellingStep(h)
        PROVE  /\ calls' \in [Handlers -> Calls] /\ Only(SellingKinds) /\ SellingTypeOK'
               /\ Evidence /\ UNCHANGED <<membership, privacy>>
    BY <2>2, SellingStepTyping DEF Only
  <2>3. CASE SellingMove
    BY <2>3, SellingMoveTyping, CallsKept DEF TypeOK
  <2> QED BY <2>1, <2>2, <2>3 DEF SellingAct
<1> QED BY <1>1 DEF SellingAct, TypeOK, MembersTypeOK, PrivacyTypeOK, CatalogTypeOK, membership, privacy, catalog

LEMMA CatalogActTyping ==
  ASSUME TypeOK, CatalogAct
  PROVE  TypeOK' /\ Only(CatalogKinds) /\ CatalogOnly
<1>1. /\ calls' \in [Handlers -> Calls] /\ Only(CatalogKinds) /\ CatalogTypeOK'
      /\ CatalogOnly
  <2>1. ASSUME NEW h \in Handlers, CatalogRequest(h)
        PROVE  /\ calls' \in [Handlers -> Calls] /\ Only(CatalogKinds) /\ CatalogTypeOK'
               /\ CatalogOnly
    BY <2>1, CatalogRequestTyping
    DEF TypeOK, CatalogTypeOK, CatalogOnly, others, catalog, membership
  <2>2. ASSUME NEW h \in Handlers, CatalogStep(h)
        PROVE  /\ calls' \in [Handlers -> Calls] /\ Only(CatalogKinds) /\ CatalogTypeOK'
               /\ CatalogOnly
    BY <2>2, CatalogStepTyping DEF Only, CatalogKinds
  <2>3. CASE CatalogMove
    BY <2>3, CatalogMoveTyping, CallsKept DEF TypeOK, CatalogOnly, others, membership
  <2> QED BY <2>1, <2>2, <2>3 DEF CatalogAct
<1> QED BY <1>1 DEF CatalogOnly, TypeOK, MembersTypeOK, PrivacyTypeOK, SellingTypeOK, privacy, selling

LEMMA InitTyping == Init => TypeOK
<1> SUFFICES ASSUME Init PROVE TypeOK
  OBVIOUS
<1>1. PICK s \in Scenarios :
        /\ member = s.member /\ given = UNION {s.member[u].perms : u \in Users}
        /\ vendor = s.vendor /\ checks = s.checks /\ account = s.account /\ store = s.store
        /\ category = s.category /\ product = s.product /\ media = s.media
        /\ content = [version |-> 0, bytes |-> 0,
                      approval |-> [seen |-> [version |-> 0, bytes |-> 0, open |-> s.media.open], over |-> 0]]
  BY DEF Init
<1>2. /\ calls = [h \in Handlers |-> Idle] /\ accounts = Users
      /\ erasure = [u \in Users |-> NoRequest] /\ wiped = {}
  BY DEF Init
<1>3. /\ s.member \in [Users -> MemberRows]
      /\ s.vendor \in VendorStatus /\ s.account \in AccountStatus /\ s.store \in StoreStatus
      /\ s.checks \in [CheckTypes -> Seq(CheckRows)]
      /\ s.category \in [Categories -> CategoryRows] /\ s.product \in ProductRows
      /\ s.media \in MediaRows
  BY MarketplaceAssumption
<1>4. MembersTypeOK
  BY <1>1, <1>2, <1>3 DEF MembersTypeOK, MemberRows
<1>5. PrivacyTypeOK
  BY <1>2 DEF PrivacyTypeOK, RequestRows, NoRequest
<1>6. SellingTypeOK
  BY <1>1, <1>3 DEF SellingTypeOK
<1>7. CatalogTypeOK
  BY <1>1, <1>2, <1>3 DEF CatalogTypeOK, MediaRows, Approvals, Looks
<1>8. calls \in [Handlers -> Calls]
  BY <1>2 DEF Calls
<1> QED BY <1>4, <1>5, <1>6, <1>7, <1>8 DEF TypeOK

LEMMA NextTyping == TypeOK /\ [Next]_vars => TypeOK'
<1> SUFFICES ASSUME TypeOK, [Next]_vars PROVE TypeOK'
  OBVIOUS
<1>1. CASE UNCHANGED vars
  BY <1>1 DEF vars, TypeOK, MembersTypeOK, PrivacyTypeOK, SellingTypeOK, CatalogTypeOK,
    membership, privacy, selling, catalog
<1> QED BY <1>1, Acts, MemberActTyping, PrivacyActTyping, SellingActTyping, CatalogActTyping

(* Every row and every call has its type, for any numbers of people,          *)
(* permissions, categories and requests.                                      *)
THEOREM Typing == Spec => []TypeOK
BY InitTyping, NextTyping, PTL DEF Spec

-----------------------------------------------------------------------------
(* What the public sees. *)

(* What a call that is kept has read stays what it has read. *)
LEMMA KeptCall ==
  ASSUME TypeOK, TypeOK', NEW g \in Handlers, Kept(g), calls'[g].at # "idle"
  PROVE  /\ calls[g].at = calls'[g].at /\ calls[g].touched \subseteq calls'[g].touched
         /\ \A f \in DOMAIN calls'[g] : f # "touched" => calls'[g][f] = calls[g][f]
<1>1. calls'[g] # Idle /\ calls'[g] \in Calls
  BY DEF Idle, TypeOK
<1>2. "at" \in DOMAIN calls'[g]
  <2>1. CASE calls'[g] \in MemberCalls
    BY <2>1 DEF MemberCalls, InviteCalls, UpdateCalls, RemoveCalls
  <2>2. CASE calls'[g] \in PrivacyCalls
    BY <2>2 DEF PrivacyCalls, AskCalls, RejectCalls, EraseCalls
  <2>3. CASE calls'[g] \in SellingCalls
    BY <2>3 DEF SellingCalls, SubmitCalls, ReviewCalls, DecideCalls, SettleCalls, StoreCalls
  <2>4. CASE calls'[g] \in CatalogCalls
    BY <2>4 DEF CatalogCalls, WalkCalls, CreateCalls, EditCalls, StatusCalls, ModerationCalls, MediaCalls
  <2> QED BY <1>1, <2>1, <2>2, <2>3, <2>4 DEF Calls
<1> QED BY <1>1, <1>2 DEF Kept

(* A look at the product is never of a listing still to come. While it is of   *)
(* the listing that is there, a picture whose upload had lapsed is the one     *)
(* looked at, and stays so.                                                   *)
Faithful(c, m, look) ==
  /\ look.version <= c.version
  /\ look.version = c.version /\ m.status = "ACTIVE" /\ ~look.open => c.bytes = look.bytes /\ ~m.open

(* What an administrator still decides on, and what one has approved.         *)
Looking(g) == calls[g].at = "moderate" => Faithful(content, media, calls[g].seen)
Approved   == product.moderation = "APPROVED" =>
  content.approval.over = content.version /\ Faithful(content, media, content.approval.seen)

ApprovedInv == Approved /\ \A g \in Handlers : Looking(g)

(* A listing changes with its version, and a picture only while it may be      *)
(* uploaded.                                                                  *)
Renews(c, m, c2, m2) ==
  \/ c2.version > c.version
  \/ /\ c2.version = c.version
     /\ m2.status = "ACTIVE" => m.status = "ACTIVE" /\ (~m.open => ~m2.open /\ c2.bytes = c.bytes)

LEMMA StaysFaithful ==
  ASSUME NEW c, NEW m, NEW c2, NEW m2, NEW look, c.version \in Nat, c2.version \in Nat, look.version \in Nat,
         Faithful(c, m, look), Renews(c, m, c2, m2)
  PROVE  Faithful(c2, m2, look)
BY DEF Faithful, Renews

LEMMA KeptLooking ==
  ASSUME TypeOK, TypeOK', NEW g \in Handlers, Kept(g), Looking(g), Renews(content, media, content', media')
  PROVE  Looking(g)'
<1> SUFFICES ASSUME calls'[g].at = "moderate" PROVE Faithful(content', media', calls'[g].seen)
  BY DEF Looking
<1>1. calls'[g] \in ModerationCalls
  BY Kinds DEF TypeOK
<1>2. calls[g].at = "moderate" /\ \A f \in DOMAIN calls'[g] : f # "touched" => calls'[g][f] = calls[g][f]
  BY KeptCall
<1>3. calls'[g].seen = calls[g].seen /\ calls'[g].seen.version \in Nat
  BY <1>1, <1>2 DEF ModerationCalls, Looks
<1>4. content.version \in Nat /\ content'.version \in Nat
  BY DEF TypeOK, CatalogTypeOK
<1>5. Faithful(content, media, calls'[g].seen)
  BY <1>2, <1>3 DEF Looking
<1> QED BY <1>3, <1>4, <1>5, StaysFaithful

(* A decision begins with a look at what is there; no other request does.      *)
LEMMA BegunLooking ==
  ASSUME TypeOK, TypeOK', NEW h \in Handlers, CatalogRequest(h)
  PROVE  Looking(h)' /\ \A g \in Handlers \ {h} : Kept(g)
<1> DEFINE Goal == Looking(h)' /\ \A g \in Handlers \ {h} : Kept(g)
<1>0. calls \in [Handlers -> Calls] /\ calls' \in [Handlers -> Calls] /\ UNCHANGED <<content, media>>
  BY CatalogRequestTyping DEF TypeOK, catalog
<1>1. ASSUME NEW kind, NEW x, Begin(h, kind, x), Untouched(x).at # "moderate"
      PROVE  Goal
  <2>1. calls'[h] = Untouched(x) /\ \A g \in Handlers \ {h} : calls'[g] = calls[g]
    BY <1>0, <1>1 DEF Begin
  <2> QED BY <1>1, <2>1 DEF Looking, Kept
<1>2. ASSUME NEW d \in Decisions, ModerateProduct(h, d) PROVE Goal
  <2> DEFINE x == [at |-> "moderate", decision |-> d, seen |-> Look]
  <2>1. Begin(h, "products", x) /\ Untouched(x).seen = Look
    BY <1>2 DEF ModerateProduct, Untouched
  <2>2. calls'[h].seen = Look /\ \A g \in Handlers \ {h} : calls'[g] = calls[g]
    BY <1>0, <2>1 DEF Begin
  <2>3. Faithful(content, media, Look)
    <3>1. content.version \in Nat /\ media.open \in BOOLEAN
      BY DEF TypeOK, CatalogTypeOK, MediaRows
    <3> QED BY <3>1 DEF Faithful, Look
  <2> QED BY <1>0, <2>2, <2>3 DEF Looking, Kept
<1>3. ASSUME NEW c, NEW p
      PROVE  Untouched([at |-> "walk", category |-> c, parent |-> p, current |-> p, depth |-> 0]).at = "walk"
  BY DEF Untouched
<1>4. ASSUME NEW at, NEW f
      PROVE  /\ Untouched([at |-> at, category |-> f]).at = at /\ Untouched([at |-> at, edit |-> f]).at = at
             /\ Untouched([at |-> at, status |-> f]).at = at
  BY DEF Untouched
<1>5. ASSUME NEW c \in Categories, NEW p \in Categories \cup {None}, MoveCategory(h, c, p) \/ NewCategory(h, c, p)
      PROVE  Goal
  <2>1. Begin(h, "categories", [at |-> "walk", category |-> c, parent |-> p, current |-> p, depth |-> 0])
    BY <1>5 DEF MoveCategory, NewCategory
  <2> QED BY <1>1, <1>3, <2>1
<1>6. ASSUME NEW u \in Users, NEW c \in Categories \cup {None}, CreateProduct(h, u, c) PROVE Goal
  <2>1. Begin(h, "products", [at |-> "create", category |-> c])
    BY <1>6 DEF CreateProduct
  <2> QED BY <1>1, <1>4, <2>1
<1>7. ASSUME NEW u \in Users, NEW e \in Edits, Edit(h, u, e) PROVE Goal
  <2>1. Begin(h, "products", [at |-> "edit", edit |-> e])
    BY <1>7 DEF Edit
  <2> QED BY <1>1, <1>4, <2>1, ZenonT(60)
<1>8. ASSUME NEW u \in Users,
             PublishProduct(h, u) \/ ArchiveProduct(h, u) \/ CompleteMediaUpload(h, u) \/ UpdateMedia(h, u)
               \/ DeleteMedia(h, u)
      PROVE  Goal
  <2>1. PICK at \in {"status", "media", "object"}, s \in {"ACTIVE", "ARCHIVED", "same", "DELETED"} :
          Begin(h, "products", [at |-> at, status |-> s])
    BY <1>8 DEF PublishProduct, ArchiveProduct, CompleteMediaUpload, UpdateMedia, DeleteMedia
  <2>2. Untouched([at |-> at, status |-> s]).at # "moderate"
    BY <1>4, <2>1
  <2> QED BY <1>1, <2>1, <2>2
<1> HIDE DEF Goal
<1>9. Goal
  BY <1>2, <1>5, <1>6, <1>7, <1>8 DEF CatalogRequest
<1> QED BY <1>9 DEF Goal

(* Every step but an approval leaves the last approval as it was; it renews    *)
(* the listing, and one that changes it takes the approval back.              *)
Leaves ==
  /\ Renews(content, media, content', media') /\ content'.approval = content.approval
  /\ product'.moderation = "APPROVED" => product.moderation = "APPROVED" /\ content'.version = content.version

LEMMA UntouchedListing ==
  ASSUME TypeOK, UNCHANGED <<product, content, media>>
  PROVE  Leaves
BY DEF Leaves, Renews

LEMMA ChangedListing ==
  ASSUME TypeOK, ContentChanges
  PROVE  Renews(content, media, content', media') /\ content'.approval = content.approval
<1>1. content \in [version : Nat, bytes : Nat, approval : Approvals]
  BY DEF TypeOK, CatalogTypeOK
<1>2. content'.version = content.version + 1 /\ content'.approval = content.approval
  BY <1>1 DEF ContentChanges
<1> QED BY <1>1, <1>2 DEF Renews

LEMMA StepLeaves ==
  ASSUME TypeOK, TypeOK', NEW h \in Handlers, CatalogStep(h), ~SetModerationStatus(h)
  PROVE  Leaves
<1>0. /\ calls[h] \in Calls /\ product \in ProductRows /\ media \in MediaRows
      /\ content \in [version : Nat, bytes : Nat, approval : Approvals]
  BY DEF TypeOK, CatalogTypeOK
<1>1. CASE WalkUp(h)
  <2>1. UNCHANGED <<product, content, media>>
    BY <1>1 DEF WalkUp, catalog
  <2> QED BY <2>1, UntouchedListing
<1>2. CASE WriteParent(h)
  <2>1. UNCHANGED <<product, content, media>>
    BY <1>2 DEF WriteParent
  <2> QED BY <2>1, UntouchedListing
<1>3. CASE WriteProduct(h)
  <2>1. UNCHANGED <<content, media>> /\ (product'.moderation = "NOT_REQUIRED" \/ product' = product)
    BY <1>3 DEF WriteProduct
  <2> QED BY <2>1 DEF Leaves, Renews
<1>4. CASE WriteEdit(h)
  <2>1. calls[h].edit \in Edits
    BY <1>0, <1>4, Kinds DEF WriteEdit, EditCalls
  <2>2. product'.moderation # "APPROVED" /\ ContentChanges
    BY <1>0, <1>4, <2>1, EditedProduct, RequeuedProduct DEF WriteEdit
  <2> QED BY <2>2, ChangedListing DEF Leaves
<1>5. CASE SetProductStatus(h)
  <2>1. product'.moderation = product.moderation /\ UNCHANGED <<content, media>>
    BY <1>0, <1>5 DEF SetProductStatus, ProductRows
  <2> QED BY <2>1 DEF Leaves, Renews
<1>6. CASE WriteMedia(h)
  <2>1. product'.moderation # "APPROVED" /\ ContentChanges
    BY <1>0, <1>6, RequeuedProduct DEF WriteMedia
  <2> QED BY <2>1, ChangedListing DEF Leaves
<1>7. CASE DeleteObject(h)
  <2>1. media' \in {media, [media EXCEPT !.stored = FALSE]} /\ UNCHANGED <<product, content>>
    BY <1>7 DEF DeleteObject
  <2>2. media'.status = media.status /\ media'.open = media.open
    BY <1>0, <2>1 DEF MediaRows
  <2> QED BY <2>1, <2>2 DEF Leaves, Renews
<1> QED BY <1>1, <1>2, <1>3, <1>4, <1>5, <1>6, <1>7 DEF CatalogStep

LEMMA MoveLeaves ==
  ASSUME TypeOK, CatalogMove
  PROVE  Leaves
<1>0. media \in MediaRows /\ content \in [version : Nat, bytes : Nat, approval : Approvals]
  BY DEF TypeOK, CatalogTypeOK
<1>1. CASE \E c \in Categories, s \in {"ACTIVE", "INACTIVE"} : SetCategoryStatus(c, s)
  <2>1. UNCHANGED <<product, content, media>>
    BY <1>1 DEF SetCategoryStatus
  <2> QED BY <2>1, UntouchedListing
<1>2. CASE \E u \in Users : CreateMediaUploadIntent(u)
  <2>1. media' = [media EXCEPT !.status = "PENDING", !.open = TRUE] /\ UNCHANGED <<product, content>>
    BY <1>2 DEF CreateMediaUploadIntent
  <2>2. media'.status = "PENDING"
    BY <1>0, <2>1 DEF MediaRows
  <2> QED BY <2>1, <2>2 DEF Leaves, Renews
<1>3. CASE Upload
  <2>1. /\ media.open /\ media' = [media EXCEPT !.stored = TRUE] /\ content' = [content EXCEPT !.bytes = @ + 1]
        /\ UNCHANGED product
    BY <1>3 DEF Upload
  <2>2. /\ media'.status = media.status /\ content'.version = content.version
        /\ content'.approval = content.approval
    BY <1>0, <2>1 DEF MediaRows
  <2> QED BY <2>1, <2>2 DEF Leaves, Renews
<1>4. CASE UploadLapses
  <2>1. media' = [media EXCEPT !.open = FALSE] /\ UNCHANGED <<product, content>>
    BY <1>4 DEF UploadLapses
  <2>2. media'.status = media.status /\ ~media'.open
    BY <1>0, <2>1 DEF MediaRows
  <2> QED BY <2>1, <2>2 DEF Leaves, Renews
<1> QED BY <1>1, <1>2, <1>3, <1>4 DEF CatalogMove

LEMMA LeftApproved ==
  ASSUME TypeOK, TypeOK', Approved, Leaves
  PROVE  Approved'
<1> SUFFICES ASSUME product'.moderation = "APPROVED"
             PROVE  content'.approval.over = content'.version /\ Faithful(content', media', content'.approval.seen)
  BY DEF Approved
<1>1. content'.approval = content.approval /\ content'.version = content.version /\ product.moderation = "APPROVED"
  BY DEF Leaves
<1>2. content.approval.over = content.version /\ Faithful(content, media, content.approval.seen)
  BY <1>1 DEF Approved
<1>3. content.version \in Nat /\ content'.version \in Nat /\ content.approval.seen.version \in Nat
  BY DEF TypeOK, CatalogTypeOK, Approvals, Looks
<1>4. Faithful(content', media', content.approval.seen)
  BY <1>2, <1>3, StaysFaithful DEF Leaves
<1> QED BY <1>1, <1>2, <1>4

(* An approval is of what its administrator had in front of him.              *)
LEMMA WrittenApproved ==
  ASSUME TypeOK, TypeOK', ApprovedInv, NEW h \in Handlers, SetModerationStatus(h)
  PROVE  Approved' /\ Renews(content, media, content', media')
<1> DEFINE d == calls[h].decision
           a == [seen |-> calls[h].seen, over |-> content.version]
<1>1. /\ product \in ProductRows /\ content \in [version : Nat, bytes : Nat, approval : Approvals]
      /\ calls[h] \in ModerationCalls
  BY Kinds DEF TypeOK, CatalogTypeOK, SetModerationStatus
<1>2. /\ product'.moderation = d /\ UNCHANGED media
      /\ content' = IF d = "APPROVED" THEN [content EXCEPT !.approval = a] ELSE content
  <2>1. d \in Decisions
    BY <1>1 DEF ModerationCalls
  <2> DEFINE p == [product EXCEPT !.moderation = d]
             t == IF d = "APPROVED" THEN product.status ELSE "DRAFT"
  <2>2. product' = [p EXCEPT !.status = t]
    BY <1>1 DEF SetModerationStatus, ProductRows
  <2> HIDE DEF d, t
  <2>3. [p EXCEPT !.status = t].moderation = d
    BY <1>1 DEF ProductRows
  <2> QED BY <2>2, <2>3 DEF SetModerationStatus, d
<1>3. Faithful(content, media, calls[h].seen)
  BY DEF ApprovedInv, Looking, SetModerationStatus
<1> HIDE DEF d, a
<1>4. content'.version = content.version /\ content'.bytes = content.bytes
  BY <1>1, <1>2
<1>5. Renews(content, media, content', media')
  BY <1>2, <1>4 DEF Renews
<1>6. CASE d = "APPROVED"
  <2>1. content'.approval = a
    BY <1>1, <1>2, <1>6
  <2>2. content'.approval.over = content'.version /\ content'.approval.seen = calls[h].seen
    BY <1>4, <2>1 DEF a
  <2>3. Faithful(content', media', calls[h].seen)
    BY <1>2, <1>3, <1>4 DEF Faithful
  <2> QED BY <1>5, <2>2, <2>3 DEF Approved
<1>7. CASE d # "APPROVED"
  BY <1>2, <1>5, <1>7 DEF Approved
<1> QED BY <1>6, <1>7

LEMMA ApprovedNext ==
  ASSUME TypeOK, TypeOK', ApprovedInv, [Next]_vars
  PROVE  ApprovedInv'
<1>1. ASSUME Approved', Renews(content, media, content', media'), \A g \in Handlers : Kept(g) \/ Looking(g)'
      PROVE  ApprovedInv'
  BY <1>1, KeptLooking DEF ApprovedInv
<1>2. ASSUME NEW h \in Handlers, CatalogRequest(h) PROVE ApprovedInv'
  <2>1. UNCHANGED <<product, content, media>>
    BY <1>2, CatalogRequestTyping DEF catalog
  <2>2. Leaves
    BY <2>1, UntouchedListing
  <2>3. Approved'
    BY <2>2, LeftApproved DEF ApprovedInv
  <2>4. \A g \in Handlers : Kept(g) \/ Looking(g)'
    BY <1>2, BegunLooking
  <2> QED BY <1>1, <2>2, <2>3, <2>4 DEF Leaves
<1>3. ASSUME NEW h \in Handlers, CatalogStep(h) PROVE ApprovedInv'
  <2>1. \A g \in Handlers : Kept(g) \/ Looking(g)'
    BY <1>3, CatalogStepTyping DEF Only, Looking
  <2>2. CASE SetModerationStatus(h)
    BY <1>1, <2>1, <2>2, WrittenApproved
  <2>3. CASE ~SetModerationStatus(h)
    <3>1. Leaves
      BY <1>3, <2>3, StepLeaves
    <3> QED BY <1>1, <2>1, <3>1, LeftApproved DEF ApprovedInv, Leaves
  <2> QED BY <2>2, <2>3
<1>4. CASE CatalogMove
  <2>1. Leaves /\ calls' = calls
    BY <1>4, MoveLeaves, CatalogMoveTyping
  <2>2. \A g \in Handlers : Kept(g)
    BY <2>1 DEF Kept
  <2> QED BY <1>1, <2>1, <2>2, LeftApproved DEF ApprovedInv, Leaves
<1>5. CASE MemberAct \/ PrivacyAct \/ SellingAct \/ UNCHANGED vars
  <2>1. UNCHANGED <<product, content, media>>
    BY <1>5 DEF MemberAct, PrivacyAct, SellingAct, catalog, vars
  <2>2. Leaves
    BY <2>1, UntouchedListing
  <2>3. ASSUME NEW g \in Handlers PROVE Kept(g) \/ Looking(g)'
    <3>1. Kept(g) \/ calls'[g].at \in MemberKinds \cup PrivacyKinds \cup SellingKinds
      BY <1>5, MemberActTyping, PrivacyActTyping, SellingActTyping DEF Only, vars, Kept
    <3> QED BY <3>1 DEF Looking, MemberKinds, PrivacyKinds, SellingKinds
  <2> QED BY <1>1, <2>2, <2>3, LeftApproved DEF ApprovedInv, Leaves
<1> QED BY <1>2, <1>3, <1>4, <1>5, Acts DEF CatalogAct

(* What the public sees of a product that was ever moderated is what an        *)
(* administrator approved, however publications, edits, uploads and decisions  *)
(* overlap: the listing he looked at, with the picture he saw if its upload    *)
(* had lapsed by then, or the one his approval was written over, which an edit *)
(* had changed while he was deciding.                                         *)
THEOREM PublicSeesApproved == Spec => []PublicIsApproved
<1>1. Init => ApprovedInv
  <2> SUFFICES ASSUME Init PROVE ApprovedInv
    OBVIOUS
  <2>1. PICK s \in Scenarios :
          /\ media = s.media
          /\ content = [version |-> 0, bytes |-> 0,
                        approval |-> [seen |-> [version |-> 0, bytes |-> 0, open |-> s.media.open], over |-> 0]]
    BY DEF Init
  <2>2. s.media.open \in BOOLEAN
    BY MarketplaceAssumption DEF MediaRows
  <2>3. Approved
    BY <2>1, <2>2 DEF Approved, Faithful
  <2>4. \A g \in Handlers : Looking(g)
    BY DEF Init, Looking, Idle
  <2> QED BY <2>3, <2>4 DEF ApprovedInv
<1>2. TypeOK /\ TypeOK' /\ ApprovedInv /\ [Next]_vars => ApprovedInv'
  BY ApprovedNext
<1>3. TypeOK /\ ApprovedInv => PublicIsApproved
  <2> SUFFICES ASSUME TypeOK, Approved, Public, product.moderation # "NOT_REQUIRED"
               PROVE  \/ content.version = content.approval.over /\ content.approval.over # content.approval.seen.version
                      \/ /\ content.version = content.approval.seen.version
                         /\ media.status = "ACTIVE" /\ ~content.approval.seen.open
                              => content.bytes = content.approval.seen.bytes
    BY DEF ApprovedInv, PublicIsApproved
  <2>1. product.moderation = "APPROVED"
    BY DEF Public
  <2> QED BY <2>1 DEF Approved, Faithful
<1> QED BY <1>1, <1>2, <1>3, Typing, PTL DEF Spec

-----------------------------------------------------------------------------
(* What a vendor sells on. *)

Licensed == WasVerified("BUSINESS") /\ WasVerified("IDENTITY")

(* What a decision in flight would allow, the checks allowed when it was taken. *)
Backed(g) ==
  /\ calls[g].at = "decide" /\ calls[g].decision = "APPROVED" => Licensed
  /\ calls[g].at = "store" /\ calls[g].status = "ACTIVE" => Licensed
  /\ calls[g].at = "settle" /\ calls[g].status = "ACTIVE" => Licensed /\ WasVerified("BANK_ACCOUNT")

EvidenceInv == SellsOnEvidence /\ \A g \in Handlers : Backed(g)

LEMMA CurrentWasVerified ==
  ASSUME TypeOK, NEW t \in CheckTypes, isCurrentVerified(t)
  PROVE  WasVerified(t)
<1>1. checks[t] \in Seq(CheckRows) /\ checks[t] # << >>
  BY DEF TypeOK, SellingTypeOK, isCurrentVerified
<1>2. Len(checks[t]) \in DOMAIN checks[t]
  BY <1>1
<1>3. checks[t][Len(checks[t])] \in CheckRows /\ checks[t][Len(checks[t])].status = "VERIFIED"
  BY <1>1, <1>2 DEF isCurrentVerified
<1>4. checks[t][Len(checks[t])].was
  BY <1>3 DEF CheckRows
<1> QED BY <1>2, <1>4 DEF WasVerified

LEMMA KeptBacked ==
  ASSUME TypeOK, TypeOK', Evidence, NEW g \in Handlers, Kept(g), Backed(g)
  PROVE  Backed(g)'
<1>1. Licensed => Licensed'
  BY DEF Evidence, Licensed, CheckTypes
<1>2. WasVerified("BANK_ACCOUNT") => WasVerified("BANK_ACCOUNT")'
  BY DEF Evidence, CheckTypes
<1>3. calls'[g].at \in {"decide", "store", "settle"} =>
        /\ calls[g].at = calls'[g].at
        /\ \A f \in DOMAIN calls'[g] : f # "touched" => calls'[g][f] = calls[g][f]
  BY KeptCall
<1>4. calls'[g] \in Calls
  BY DEF TypeOK
<1>5. calls'[g].at = "decide" => calls[g].at = "decide" /\ calls'[g].decision = calls[g].decision
  BY <1>3, <1>4, Kinds DEF DecideCalls
<1>6. calls'[g].at = "store" => calls[g].at = "store" /\ calls'[g].status = calls[g].status
  BY <1>3, <1>4, Kinds DEF StoreCalls
<1>7. calls'[g].at = "settle" => calls[g].at = "settle" /\ calls'[g].status = calls[g].status
  BY <1>3, <1>4, Kinds DEF SettleCalls
<1> QED BY <1>1, <1>2, <1>5, <1>6, <1>7 DEF Backed

(* A call that begins is backed by what it has read. *)
LEMMA BegunBacked ==
  ASSUME TypeOK, TypeOK', SellsOnEvidence, NEW h \in Handlers, SellingRequest(h)
  PROVE  /\ Backed(h)' /\ \A g \in Handlers \ {h} : calls'[g] = calls[g]
         /\ UNCHANGED selling
<1> DEFINE Goal == /\ Backed(h)' /\ \A g \in Handlers \ {h} : calls'[g] = calls[g]
                   /\ UNCHANGED selling
<1>0. Evidence /\ UNCHANGED selling
  BY SellingRequestTyping DEF Evidence, WasVerified, selling
<1>a. Licensed => Licensed'
  BY <1>0 DEF Evidence, Licensed, CheckTypes
<1>b. WasVerified("BANK_ACCOUNT") => WasVerified("BANK_ACCOUNT")'
  BY <1>0 DEF Evidence, CheckTypes
<1>1. ASSUME NEW u \in Users, NEW t \in CheckTypes, SubmitVerification(h, u, t)
      PROVE  Goal
  <2> DEFINE c == [at |-> "submit", type |-> t]
  <2>1. Untouched(c).at = "submit"
    BY DEF Untouched
  <2>2. Begin(h, "selling", c)
    BY <1>1 DEF SubmitVerification
  <2>4. calls'[h] = Untouched(c) /\ \A g \in Handlers \ {h} : calls'[g] = calls[g]
    BY <2>2 DEF Begin, TypeOK
  <2> QED BY <1>0, <1>a, <1>b, <2>1, <2>4 DEF Backed
<1>2. ASSUME NEW u \in Users, ActivateStore(h, u)
      PROVE  Goal
  <2> DEFINE c == [at |-> "store", status |-> "ACTIVE"]
  <2>1. Untouched(c).at = "store" /\ Untouched(c).status = c.status
    BY DEF Untouched
  <2>2. Begin(h, "selling", c)
    BY <1>2 DEF ActivateStore
  <2>3. Licensed
    BY <1>2 DEF ActivateStore, SellsOnEvidence, Licensed
  <2>4. calls'[h] = Untouched(c) /\ \A g \in Handlers \ {h} : calls'[g] = calls[g]
    BY <2>2 DEF Begin, TypeOK
  <2> QED BY <1>0, <1>a, <1>b, <2>1, <2>3, <2>4 DEF Backed
<1>3. ASSUME NEW u \in Users, CloseStore(h, u)
      PROVE  Goal
  <2> DEFINE c == [at |-> "store", status |-> "CLOSED"]
  <2>1. Untouched(c).at = "store" /\ Untouched(c).status = c.status
    BY DEF Untouched
  <2>2. Begin(h, "selling", c)
    BY <1>3 DEF CloseStore
  <2>4. calls'[h] = Untouched(c) /\ \A g \in Handlers \ {h} : calls'[g] = calls[g]
    BY <2>2 DEF Begin, TypeOK
  <2> QED BY <1>0, <1>a, <1>b, <2>1, <2>4 DEF Backed
<1>4. ASSUME NEW t \in CheckTypes, NEW i \in 1..MaxChecks, NEW d \in {"VERIFIED", "REJECTED"},
             ReviewVerification(h, t, i, d)
      PROVE  Goal
  <2> DEFINE c == [at |-> "review", type |-> t, check |-> i, decision |-> d]
  <2>1. Untouched(c).at = "review"
    BY DEF Untouched
  <2>2. Begin(h, "selling", c)
    BY <1>4 DEF ReviewVerification
  <2>4. calls'[h] = Untouched(c) /\ \A g \in Handlers \ {h} : calls'[g] = calls[g]
    BY <2>2 DEF Begin, TypeOK
  <2> QED BY <1>0, <1>a, <1>b, <2>1, <2>4 DEF Backed
<1>5. ASSUME NEW d \in {"APPROVED", "REJECTED", "SUSPENDED"}, DecideVendor(h, d)
      PROVE  Goal
  <2> DEFINE c == [at |-> "decide", decision |-> d]
  <2>1. Untouched(c).at = "decide" /\ Untouched(c).decision = c.decision
    BY DEF Untouched
  <2>2. Begin(h, "selling", c)
    BY <1>5 DEF DecideVendor
  <2>3. d = "APPROVED" => Licensed
    BY <1>5, CurrentWasVerified DEF DecideVendor, MayDecide, Licensed, CheckTypes
  <2>4. calls'[h] = Untouched(c) /\ \A g \in Handlers \ {h} : calls'[g] = calls[g]
    BY <2>2 DEF Begin, TypeOK
  <2> QED BY <1>0, <1>a, <1>b, <2>1, <2>3, <2>4 DEF Backed
<1>6. ASSUME NEW s \in {"ACTIVE", "SUSPENDED", "DISABLED"}, UpdateProviderAccount(h, s)
      PROVE  Goal
  <2> DEFINE c == [at |-> "settle", status |-> s]
  <2>1. Untouched(c).at = "settle" /\ Untouched(c).status = c.status
    BY DEF Untouched
  <2>2. Begin(h, "selling", c)
    BY <1>6 DEF UpdateProviderAccount
  <2>3. s = "ACTIVE" => Licensed /\ WasVerified("BANK_ACCOUNT")
    BY <1>6, CurrentWasVerified DEF UpdateProviderAccount, SellsOnEvidence, Licensed, CheckTypes
  <2>4. calls'[h] = Untouched(c) /\ \A g \in Handlers \ {h} : calls'[g] = calls[g]
    BY <2>2 DEF Begin, TypeOK
  <2> QED BY <1>0, <1>a, <1>b, <2>1, <2>3, <2>4 DEF Backed
<1> HIDE DEF Goal
<1>7. Goal
  BY <1>1, <1>2, <1>3, <1>4, <1>5, <1>6 DEF SellingRequest
<1> QED BY <1>7 DEF Goal

(* What a decision writes, it was allowed to. *)
LEMMA WrittenBacked ==
  ASSUME TypeOK, TypeOK', EvidenceInv, Evidence, SellingAct
  PROVE  SellsOnEvidence'
<1>a. Licensed => Licensed'
  BY DEF Evidence, Licensed, CheckTypes
<1>b. WasVerified("BANK_ACCOUNT") => WasVerified("BANK_ACCOUNT")'
  BY DEF Evidence, CheckTypes
<1>1. SellsOnEvidence /\ \A g \in Handlers : Backed(g)
  BY DEF EvidenceInv
<1>2. ASSUME NEW h \in Handlers, SellingRequest(h)
      PROVE  UNCHANGED <<vendor, account, store>>
  BY <1>2, SellingRequestTyping DEF selling
<1>3. ASSUME NEW h \in Handlers, SellingStep(h)
      PROVE  \/ UNCHANGED <<vendor, account, store>>
             \/ calls[h].at = "decide" /\ vendor' = calls[h].decision /\ UNCHANGED <<account, store>>
             \/ calls[h].at = "settle" /\ account' = calls[h].status /\ UNCHANGED <<vendor, store>>
             \/ calls[h].at = "store" /\ store' = calls[h].status /\ UNCHANGED <<vendor, account>>
  BY <1>3 DEF SellingStep, CreateVerification, WriteReview, SetVendorStatus, SetProviderAccountStatus, SetStoreStatus
<1>4. CASE SellingMove
  <2>1. \/ UNCHANGED <<vendor, account, store>>
        \/ store' = "DRAFT" /\ UNCHANGED <<vendor, account>>
        \/ account' = "PENDING" /\ UNCHANGED <<vendor, store>>
    BY <1>4 DEF SellingMove, CreateStore, RecordProviderAccount, CheckLapses
  <2> QED BY <1>a, <1>b, <1>1, <2>1 DEF SellsOnEvidence, Licensed
<1>5. ASSUME NEW h \in Handlers, SellingRequest(h) \/ SellingStep(h)
      PROVE  SellsOnEvidence'
  <2>1. \/ UNCHANGED <<vendor, account, store>>
        \/ calls[h].at = "decide" /\ vendor' = calls[h].decision /\ UNCHANGED <<account, store>>
        \/ calls[h].at = "settle" /\ account' = calls[h].status /\ UNCHANGED <<vendor, store>>
        \/ calls[h].at = "store" /\ store' = calls[h].status /\ UNCHANGED <<vendor, account>>
    BY <1>2, <1>3, <1>5
  <2> QED BY <1>a, <1>b, <1>1, <2>1 DEF SellsOnEvidence, Licensed, Backed
<1> QED BY <1>4, <1>5 DEF SellingAct

LEMMA EvidenceNext ==
  ASSUME TypeOK, TypeOK', EvidenceInv, [Next]_vars
  PROVE  EvidenceInv'
<1>1. CASE SellingAct
  <2>1. Evidence
    BY <1>1, SellingActTyping
  <2>2. SellsOnEvidence'
    BY <1>1, <2>1, WrittenBacked
  <2>3. ASSUME NEW g \in Handlers PROVE Backed(g)'
    <3>1. ASSUME NEW h \in Handlers, SellingRequest(h) PROVE Backed(g)'
      <4>1. g # h => Kept(g)
        BY <3>1, BegunBacked DEF EvidenceInv, Kept
      <4> QED BY <2>1, <3>1, <4>1, BegunBacked, KeptBacked DEF EvidenceInv
    <3>2. ASSUME NEW h \in Handlers, SellingStep(h) PROVE Backed(g)'
      <4>1. Kept(g)
        BY <3>2, SellingStepTyping DEF Only
      <4> QED BY <2>1, <4>1, KeptBacked DEF EvidenceInv
    <3>3. CASE SellingMove
      <4>1. Kept(g)
        BY <3>3, SellingMoveTyping DEF Kept
      <4> QED BY <2>1, <4>1, KeptBacked DEF EvidenceInv
    <3> QED BY <1>1, <3>1, <3>2, <3>3 DEF SellingAct
  <2> QED BY <2>2, <2>3 DEF EvidenceInv
<1>2. CASE MemberAct \/ PrivacyAct \/ CatalogAct \/ UNCHANGED vars
  <2>1. UNCHANGED selling
    BY <1>2, CatalogActTyping DEF MemberAct, PrivacyAct, CatalogOnly, vars
  <2>2. Evidence /\ SellsOnEvidence'
    BY <2>1 DEF Evidence, EvidenceInv, SellsOnEvidence, WasVerified, selling
  <2>3. ASSUME NEW g \in Handlers PROVE Backed(g)'
    <3>1. Kept(g) \/ calls'[g].at \in MemberKinds \cup PrivacyKinds \cup CatalogKinds
      BY <1>2, MemberActTyping, PrivacyActTyping, CatalogActTyping DEF Only, vars, Kept
    <3>2. CASE Kept(g)
      BY <2>2, <3>2, KeptBacked DEF EvidenceInv
    <3>3. CASE calls'[g].at \in MemberKinds \cup PrivacyKinds \cup CatalogKinds
      BY <3>3 DEF Backed, MemberKinds, PrivacyKinds, CatalogKinds
    <3> QED BY <3>1, <3>2, <3>3
  <2> QED BY <2>2, <2>3 DEF EvidenceInv
<1> QED BY <1>1, <1>2, Acts

(* However submissions, reviews, decisions and requests for payment accounts   *)
(* overlap, a vendor is approved, sells and is paid on checks an administrator *)
(* has verified.                                                              *)
THEOREM SellsOnVerified == Spec => []SellsOnEvidence
<1>1. Init => EvidenceInv
  <2> SUFFICES ASSUME Init PROVE EvidenceInv
    OBVIOUS
  <2>1. PICK s \in Scenarios : vendor = s.vendor /\ checks = s.checks /\ account = s.account /\ store = s.store
    BY DEF Init
  <2>2. calls = [h \in Handlers |-> Idle]
    BY DEF Init
  <2>3. SellsOnEvidence
    BY <2>1, MarketplaceAssumption DEF SellsOnEvidence, WasVerified, Verified
  <2>4. \A g \in Handlers : Backed(g)
    BY <2>2 DEF Backed, Idle
  <2> QED BY <2>3, <2>4 DEF EvidenceInv
<1>2. TypeOK /\ TypeOK' /\ EvidenceInv /\ [Next]_vars => EvidenceInv'
  BY EvidenceNext
<1>3. EvidenceInv => SellsOnEvidence
  BY DEF EvidenceInv
<1> QED BY <1>1, <1>2, <1>3, Typing, PTL DEF Spec

-----------------------------------------------------------------------------
(* Permissions: what follows from what. *)

LEMMA ExpandIsLeast ==
  ASSUME NEW P \in SUBSET Permissions
  PROVE  /\ P \subseteq Expand(P) /\ Expand(P) \subseteq Permissions /\ Closed(Expand(P))
         /\ \A C \in SUBSET Permissions : P \subseteq C /\ Closed(C) => Expand(P) \subseteq C
<1>1. Expand(P) = {p \in Permissions : \A C \in SUBSET Permissions : (P \subseteq C /\ Closed(C)) => p \in C}
  BY DEF Expand, Expansion
<1>2. P \subseteq Expand(P) /\ Expand(P) \subseteq Permissions
  BY <1>1
<1>3. \A C \in SUBSET Permissions : P \subseteq C /\ Closed(C) => Expand(P) \subseteq C
  BY <1>1
<1>4. ASSUME NEW p \in Permissions, ImpliedBy[p] \cap Expand(P) # {}
      PROVE  p \in Expand(P)
  <2>1. ASSUME NEW C \in SUBSET Permissions, P \subseteq C, Closed(C)
        PROVE  p \in C
    <3>1. ImpliedBy[p] \cap C # {}
      BY <1>3, <1>4, <2>1
    <3> QED BY <2>1, <3>1 DEF Closed
  <2> QED BY <1>1, <2>1
<1>5. Closed(Expand(P))
  BY <1>4 DEF Closed
<1> QED BY <1>2, <1>3, <1>5

(* What is within what somebody may do expands within it. *)
LEMMA ExpandWithin ==
  ASSUME NEW P \in SUBSET Permissions, NEW Q \in SUBSET Permissions, P \subseteq Expand(Q)
  PROVE  Expand(P) \subseteq Expand(Q)
BY ExpandIsLeast

LEMMA ExpandGrows ==
  ASSUME NEW P \in SUBSET Permissions, NEW Q \in SUBSET Permissions, P \subseteq Q
  PROVE  Expand(P) \subseteq Expand(Q)
BY ExpandIsLeast, ExpandWithin

(* What a call in flight of the staff would give, an owner has given before.  *)
Given(g) ==
  /\ calls[g].at = "invite" /\ ~calls[g].owner => Expand(calls[g].perms) \subseteq Expand(given)
  /\ calls[g].at = "update" /\ ~calls[g].owner =>
       \A P \in calls[g].change.perms : Expand(P) \subseteq Expand(given)

DelegationInv == Delegation /\ \A g \in Handlers : Given(g)

LEMMA KeptGiven ==
  ASSUME TypeOK, TypeOK', given \subseteq given', NEW g \in Handlers, Kept(g), Given(g)
  PROVE  Given(g)'
<1>1. Expand(given) \subseteq Expand(given')
  BY ExpandGrows DEF TypeOK, MembersTypeOK
<1>2. calls'[g] \in Calls
  BY DEF TypeOK
<1>3. calls'[g].at \in {"invite", "update"} =>
        /\ calls[g].at = calls'[g].at
        /\ \A f \in DOMAIN calls'[g] : f # "touched" => calls'[g][f] = calls[g][f]
  BY KeptCall
<1>4. calls'[g].at = "invite" =>
        calls[g].at = "invite" /\ calls'[g].owner = calls[g].owner /\ calls'[g].perms = calls[g].perms
  BY <1>2, <1>3, Kinds DEF InviteCalls
<1>5. calls'[g].at = "update" =>
        calls[g].at = "update" /\ calls'[g].owner = calls[g].owner /\ calls'[g].change = calls[g].change
  BY <1>2, <1>3, Kinds DEF UpdateCalls
<1>6. Expand(given)' = Expand(given')
  BY DEF Expand, Expansion, Closed
<1>7. ASSUME calls'[g].at = "invite", ~calls'[g].owner
      PROVE  Expand(calls'[g].perms) \subseteq Expand(given')
  BY <1>1, <1>4, <1>7 DEF Given
<1>8. ASSUME calls'[g].at = "update", ~calls'[g].owner
      PROVE  \A P \in calls'[g].change.perms : Expand(P) \subseteq Expand(given')
  BY <1>1, <1>5, <1>8 DEF Given
<1> QED BY <1>7, <1>8 DEF Given, Expand, Expansion, Closed

(* Staff give no more than what they may do. *)
LEMMA StaffGive ==
  ASSUME TypeOK, Delegation, NEW actor \in Users, NEW P \in SUBSET Permissions,
         MayGive(actor, P), member[actor].role # "OWNER"
  PROVE  Expand(P) \subseteq Expand(given)
<1>1. member[actor] \in MemberRows /\ given \in SUBSET Permissions
  BY DEF TypeOK, MembersTypeOK
<1>2. member[actor].role = "STAFF" /\ member[actor].perms \in SUBSET Permissions
  BY <1>1 DEF MemberRows, Roles
<1>3. P \subseteq Expand(member[actor].perms)
  BY <1>2 DEF MayGive, Effective, ActiveOwner
<1>4. P \subseteq Expand(given)
  BY <1>3 DEF Delegation
<1> QED BY <1>1, <1>4, ExpandWithin

LEMMA BegunGiven ==
  ASSUME TypeOK, TypeOK', Delegation, NEW h \in Handlers, MemberRequest(h)
  PROVE  Given(h)' /\ (\A g \in Handlers \ {h} : calls'[g] = calls[g]) /\ UNCHANGED membership
<1> DEFINE Goal == Given(h)' /\ (\A g \in Handlers \ {h} : calls'[g] = calls[g]) /\ UNCHANGED membership
<1>1. PICK actor \in Users, u \in Users :
        \/ \E P \in Grants : InviteMember(h, actor, u, P)
        \/ \E c \in Changes : UpdateMember(h, actor, u, c)
        \/ RemoveMember(h, actor, u)
  BY DEF MemberRequest
<1>2. ASSUME NEW P \in Grants, InviteMember(h, actor, u, P)
      PROVE  Goal
  <2> DEFINE c == [at |-> "invite", user |-> u, perms |-> P, owner |-> member[actor].role = "OWNER"]
  <2>1. /\ Untouched(c).at = "invite" /\ Untouched(c).perms = P
        /\ Untouched(c).owner = (member[actor].role = "OWNER")
    BY DEF Untouched
  <2>2. Begin(h, "members", c) /\ UNCHANGED membership /\ MayGive(actor, P)
    BY <1>2 DEF InviteMember
  <2>3. calls'[h] = Untouched(c) /\ \A g \in Handlers \ {h} : calls'[g] = calls[g]
    BY <2>2 DEF Begin, TypeOK
  <2>4. member[actor].role # "OWNER" => Expand(P) \subseteq Expand(given)
    BY <2>2, StaffGive, MembersAssumption
  <2> HIDE DEF c
  <2>5. Given(h)'
    BY <2>1, <2>2, <2>3, <2>4 DEF Given, membership, Expand, Expansion, Closed
  <2> QED BY <2>2, <2>3, <2>5
<1>3. ASSUME NEW d \in Changes, UpdateMember(h, actor, u, d)
      PROVE  Goal
  <2> DEFINE c == [at |-> "update", user |-> u, change |-> d, owner |-> member[actor].role = "OWNER"]
  <2>1. /\ Untouched(c).at = "update" /\ Untouched(c).change = d
        /\ Untouched(c).owner = (member[actor].role = "OWNER")
    BY DEF Untouched
  <2>2. Begin(h, "members", c) /\ UNCHANGED membership /\ \A P \in d.perms : MayGive(actor, P)
    BY <1>3 DEF UpdateMember, MayChange
  <2>3. calls'[h] = Untouched(c) /\ \A g \in Handlers \ {h} : calls'[g] = calls[g]
    BY <2>2 DEF Begin, TypeOK
  <2>4. \A P \in d.perms : P \in SUBSET Permissions
    BY MembersAssumption
  <2>5. member[actor].role # "OWNER" => \A P \in d.perms : Expand(P) \subseteq Expand(given)
    BY <2>2, <2>4, StaffGive
  <2> HIDE DEF c
  <2>6. Given(h)'
    BY <2>1, <2>2, <2>3, <2>5 DEF Given, membership, Expand, Expansion, Closed
  <2> QED BY <2>2, <2>3, <2>6
<1>4. ASSUME RemoveMember(h, actor, u)
      PROVE  Goal
  <2> DEFINE c == [at |-> "remove", user |-> u]
  <2>1. Untouched(c).at = "remove"
    BY DEF Untouched
  <2>2. Begin(h, "members", c) /\ UNCHANGED membership
    BY <1>4 DEF RemoveMember
  <2>3. calls'[h] = Untouched(c) /\ \A g \in Handlers \ {h} : calls'[g] = calls[g]
    BY <2>2 DEF Begin, TypeOK
  <2> HIDE DEF c
  <2> QED BY <2>1, <2>2, <2>3 DEF Given
<1> HIDE DEF Goal
<1>5. Goal
  BY <1>1, <1>2, <1>3, <1>4
<1> QED BY <1>5 DEF Goal

(* What a step of a member, or an acceptance, writes, was given by an owner.   *)
LEMMA WrittenGiven ==
  ASSUME TypeOK, TypeOK', DelegationInv,
         \/ \E h \in Handlers : MemberStep(h)
         \/ \E u \in Users : AcceptInvitation(u)
  PROVE  Delegation' /\ given \subseteq given'
<1>0. Delegation /\ given \in SUBSET Permissions /\ given' \in SUBSET Permissions
      /\ member \in [Users -> MemberRows] /\ member' \in [Users -> MemberRows]
  BY DEF DelegationInv, TypeOK, MembersTypeOK
<1>1. ASSUME NEW u \in Users, NEW P \in SUBSET Permissions,
             member'[u].perms = P, Expand(P) \subseteq Expand(given'), given \subseteq given',
             \A x \in Users \ {u} : member'[x].perms = member[x].perms
      PROVE  Delegation'
  <2>1. Expand(given) \subseteq Expand(given')
    BY <1>0, <1>1, ExpandGrows
  <2>2. \A x \in Users : Expand(member'[x].perms) \subseteq Expand(given')
    BY <1>0, <1>1, <2>1 DEF Delegation
  <2> QED BY <2>2 DEF Delegation, Expand, Expansion, Closed
<1>2. ASSUME NEW h \in Handlers, MemberStep(h)
      PROVE  Delegation' /\ given \subseteq given'
  <2> DEFINE call == calls[h]
  <2>0. call \in Calls /\ Given(h)
    BY DEF TypeOK, DelegationInv
  <2>1. CASE WriteInvitation(h)
    <3>1. call.at = "invite" /\ call.user \in Users /\ call.perms \in SUBSET Permissions
      BY <2>0, <2>1, Kinds DEF WriteInvitation, InviteCalls
    <3>2. /\ member' = [member EXCEPT ![call.user] = [role |-> "STAFF", status |-> "INVITED", perms |-> call.perms]]
          /\ given' = IF call.owner THEN given \cup call.perms ELSE given
      BY <2>1 DEF WriteInvitation
    <3>3. member'[call.user].perms = call.perms
          /\ \A x \in Users \ {call.user} : member'[x].perms = member[x].perms
      BY <1>0, <3>1, <3>2
    <3>4. Expand(call.perms) \subseteq Expand(given')
      <4>1. CASE call.owner
        BY <1>0, <3>1, <3>2, <4>1, ExpandGrows
      <4>2. CASE ~call.owner
        BY <2>0, <3>1, <3>2, <4>2 DEF Given
      <4> QED BY <4>1, <4>2
    <3>5. given \subseteq given'
      BY <3>2
    <3> QED BY <1>1, <3>1, <3>3, <3>4, <3>5
  <2>2. CASE WriteUpdate(h)
    <3> DEFINE c == call.change
    <3>1. call.at = "update" /\ call.user \in Users /\ c \in Changes
      BY <2>0, <2>2, Kinds DEF WriteUpdate, UpdateCalls
    <3>2. /\ member' = [member EXCEPT ![call.user] =
                [role   |-> IF c.role = Same THEN @.role ELSE c.role,
                 status |-> IF c.status = Same THEN @.status ELSE c.status,
                 perms  |-> IF c.perms = {} THEN @.perms ELSE UNION c.perms]]
          /\ given' = IF call.owner THEN given \cup UNION c.perms ELSE given
      BY <2>2 DEF WriteUpdate
    <3>3. \A x \in Users \ {call.user} : member'[x].perms = member[x].perms
      BY <1>0, <3>1, <3>2
    <3>4. member'[call.user].perms = IF c.perms = {} THEN member[call.user].perms ELSE UNION c.perms
      BY <1>0, <3>1, <3>2
    <3>5. given \subseteq given'
      BY <3>2
    <3>6. CASE c.perms = {}
      <4>1. member'[call.user].perms = member[call.user].perms /\ member[call.user].perms \in SUBSET Permissions
        BY <1>0, <3>1, <3>4, <3>6 DEF MemberRows
      <4>2. Expand(given) \subseteq Expand(given')
        BY <1>0, <3>5, ExpandGrows
      <4>3. Expand(member[call.user].perms) \subseteq Expand(given')
        BY <1>0, <3>1, <4>2 DEF Delegation
      <4> QED BY <1>1, <3>1, <3>3, <3>5, <4>1, <4>3
    <3>7. CASE c.perms # {}
      <4>1. PICK P \in Grants : c.perms = {P}
        BY <3>1, <3>7, MembersAssumption
      <4>2. P \in SUBSET Permissions /\ member'[call.user].perms = P
        BY <3>4, <3>7, <4>1, MembersAssumption
      <4>3. Expand(P) \subseteq Expand(given')
        <5>1. CASE call.owner
          <6>1. P \subseteq given'
            BY <3>2, <4>1, <5>1
          <6> QED BY <1>0, <4>2, <6>1, ExpandGrows
        <5>2. CASE ~call.owner
          BY <2>0, <3>1, <3>2, <4>1, <5>2 DEF Given
        <5> QED BY <5>1, <5>2
      <4> QED BY <1>1, <3>1, <3>3, <3>5, <4>2, <4>3
    <3> QED BY <3>6, <3>7
  <2>3. CASE WriteRemoval(h)
    <3>1. call.user \in Users
      BY <2>0, <2>3, Kinds DEF WriteRemoval, RemoveCalls
    <3>2. member' = [member EXCEPT ![call.user].status = "REMOVED", ![call.user].perms = {}] /\ given' = given
      BY <2>3 DEF WriteRemoval
    <3>3. \A x \in Users \ {call.user} : member'[x].perms = member[x].perms
      BY <1>0, <3>1, <3>2
    <3>4. member'[call.user].perms = {}
      <4>1. member[call.user] \in MemberRows
        BY <1>0, <3>1
      <4>2. [member[call.user] EXCEPT !.status = "REMOVED", !.perms = {}].perms = {}
        BY <4>1 DEF MemberRows
      <4> QED BY <1>0, <3>1, <3>2, <4>2
    <3>5. Expand({}) \subseteq Expand(given')
      BY <1>0, ExpandGrows
    <3> QED BY <1>1, <3>1, <3>2, <3>3, <3>4, <3>5
  <2> QED BY <1>2, <2>1, <2>2, <2>3 DEF MemberStep
<1>3. ASSUME NEW u \in Users, AcceptInvitation(u)
      PROVE  Delegation' /\ given \subseteq given'
  <2>1. member' = [member EXCEPT ![u].status = "ACTIVE"] /\ given' = given
    BY <1>3 DEF AcceptInvitation
  <2>2. member[u] \in MemberRows /\ [member[u] EXCEPT !.status = "ACTIVE"].perms = member[u].perms
    BY <1>0 DEF MemberRows
  <2>3. member'[u].perms = member[u].perms /\ \A x \in Users \ {u} : member'[x].perms = member[x].perms
    BY <1>0, <2>1, <2>2
  <2>4. Expand(member[u].perms) \subseteq Expand(given') /\ member[u].perms \in SUBSET Permissions
    BY <1>0, <2>1, <2>2 DEF Delegation, MemberRows
  <2> QED BY <1>1, <2>1, <2>3, <2>4
<1> QED BY <1>2, <1>3

LEMMA DelegationNext ==
  ASSUME TypeOK, TypeOK', DelegationInv, [Next]_vars
  PROVE  DelegationInv'
<1>0. Delegation /\ \A g \in Handlers : Given(g)
  BY DEF DelegationInv
<1>1. ASSUME NEW h \in Handlers, MemberRequest(h)
      PROVE  DelegationInv'
  <2>1. \A g \in Handlers \ {h} : Kept(g)
    BY <1>1, <1>0, BegunGiven DEF Kept
  <2>2. UNCHANGED membership /\ Given(h)'
    BY <1>0, <1>1, BegunGiven
  <2>3. Delegation' /\ given \subseteq given'
    BY <1>0, <2>2 DEF Delegation, membership, Expand, Expansion, Closed
  <2>4. \A g \in Handlers : Given(g)'
    BY <1>0, <2>1, <2>2, <2>3, KeptGiven
  <2> QED BY <2>3, <2>4 DEF DelegationInv
<1>2. ASSUME \/ \E h \in Handlers : MemberStep(h)
             \/ \E u \in Users : AcceptInvitation(u)
      PROVE  DelegationInv'
  <2>1. Delegation' /\ given \subseteq given'
    BY <1>2, WrittenGiven
  <2>2. \A g \in Handlers : Kept(g)
    BY <1>2, MemberStepTyping, AcceptanceTyping DEF Only
  <2>3. \A g \in Handlers : Given(g)'
    BY <1>0, <2>1, <2>2, KeptGiven
  <2> QED BY <2>1, <2>3 DEF DelegationInv
<1>3. CASE MemberAct
  BY <1>1, <1>2, <1>3 DEF MemberAct
<1>4. CASE PrivacyAct
  <2>1. given' = given /\ \A x \in Users : member'[x].perms = member[x].perms
    <3>1. ASSUME NEW h \in Handlers, PrivacyRequest(h)
          PROVE  given' = given /\ member' = member
      BY <3>1, PrivacyRequestTyping DEF membership
    <3>2. ASSUME NEW h \in Handlers, PrivacyStep(h)
          PROVE  given' = given /\ \A x \in Users : member'[x].perms = member[x].perms
      <4>1. CASE CreateRequest(h) \/ RejectRequest(h)
        BY <4>1 DEF CreateRequest, RejectRequest, membership
      <4>2. CASE CommitErasure(h)
        <5>1. given' = given
              /\ (member' = member \/ member' = [member EXCEPT ![calls[h].user].status = "REMOVED"])
          BY <4>2 DEF CommitErasure, membership
        <5>2. member \in [Users -> MemberRows]
          BY DEF TypeOK, MembersTypeOK
        <5>3. \A x \in Users : [member[x] EXCEPT !.status = "REMOVED"].perms = member[x].perms
          BY <5>2 DEF MemberRows
        <5> QED BY <5>1, <5>2, <5>3
      <4> QED BY <3>2, <4>1, <4>2 DEF PrivacyStep
    <3> QED BY <1>4, <3>1, <3>2 DEF PrivacyAct
  <2>2. Delegation'
    BY <1>0, <2>1 DEF Delegation, Expand, Expansion, Closed
  <2>3. ASSUME NEW g \in Handlers PROVE Given(g)'
    <3>1. Kept(g) \/ calls'[g].at \in PrivacyKinds
      BY <1>4, PrivacyActTyping DEF Only
    <3> QED BY <1>0, <2>1, <3>1, KeptGiven DEF Given, PrivacyKinds
  <2> QED BY <2>2, <2>3 DEF DelegationInv
<1>5. CASE SellingAct \/ CatalogAct \/ UNCHANGED vars
  <2>1. UNCHANGED <<member, given>>
    BY <1>5, SellingActTyping, CatalogActTyping DEF CatalogOnly, vars, membership
  <2>2. Delegation'
    BY <1>0, <2>1 DEF Delegation, Expand, Expansion, Closed
  <2>3. ASSUME NEW g \in Handlers PROVE Given(g)'
    <3>1. Kept(g) \/ calls'[g].at \in SellingKinds \cup CatalogKinds
      BY <1>5, SellingActTyping, CatalogActTyping DEF Only, vars, Kept
    <3> QED BY <1>0, <2>1, <3>1, KeptGiven DEF Given, SellingKinds, CatalogKinds
  <2> QED BY <2>2, <2>3 DEF DelegationInv
<1> QED BY <1>3, <1>4, <1>5, Acts

(* Nobody of the staff ever holds a permission that no owner gave to anybody,  *)
(* in however long a chain of invitations and changes it was handed on, and    *)
(* whatever the givers have lost in the meantime.                             *)
THEOREM StaffHoldWhatOwnersGave == Spec => []Delegation
<1>1. Init => DelegationInv
  <2> SUFFICES ASSUME Init PROVE DelegationInv
    OBVIOUS
  <2>0. MembersTypeOK
    BY InitTyping DEF TypeOK
  <2>1. given = UNION {member[u].perms : u \in Users} /\ calls = [h \in Handlers |-> Idle]
    BY DEF Init
  <2>2. \A u \in Users : member[u].perms \subseteq given /\ member[u].perms \in SUBSET Permissions
    BY <2>0, <2>1 DEF MembersTypeOK, MemberRows
  <2>3. Delegation
    BY <2>0, <2>2, ExpandGrows DEF Delegation, MembersTypeOK
  <2>4. \A g \in Handlers : Given(g)
    BY <2>1 DEF Given, Idle
  <2> QED BY <2>3, <2>4 DEF DelegationInv
<1>2. TypeOK /\ TypeOK' /\ DelegationInv /\ [Next]_vars => DelegationInv'
  BY DelegationNext
<1>3. DelegationInv => Delegation
  BY DEF DelegationInv
<1> QED BY <1>1, <1>2, <1>3, Typing, PTL DEF Spec

-----------------------------------------------------------------------------
(* Memberships under writes that overlap. *)

(* Who can still do what only an owner may. *)
Able == Owners \cap accounts

(* What the calls in flight know of the members they are about: an erasure    *)
(* that nothing has touched has the row as it is, and is not of an owner.     *)
Current(g) ==
  calls[g].at = "erase" =>
    /\ calls[g].user \notin calls[g].touched => calls[g].row = member[calls[g].user]
    /\ ~calls[g].blocked => ~(calls[g].row.role = "OWNER" /\ calls[g].row.status = "ACTIVE")

(* A write that nothing has touched leaves an owner besides its member.       *)
Spares(g) ==
  calls[g].at \in {"invite", "update", "remove"} /\ calls[g].touched \cap Users = {} =>
    \E w \in Able : w # calls[g].user

OwnerInv == "members" \in contested \/ (Able # {} /\ \A g \in Handlers : Spares(g))

(* Nothing in flight is about a member that was erased, and nothing begins.   *)
ErasedInv == \A u \in wiped :
  /\ u \notin accounts /\ member[u].status \in {"NONE", "REMOVED"} /\ erasure[u].status = "COMPLETED"
  /\ \A g \in Handlers : "user" \in DOMAIN calls[g] => calls[g].user # u

(* A step changes one membership at most, and then tells every call.          *)
Tells(x) == \A g \in Handlers : calls'[g] = Idle \/ x \in calls'[g].touched
Writes(x) ==
  /\ \A y \in Users \ {x} : member'[y] = member[y]
  /\ accounts \ {x} \subseteq accounts' /\ Tells(x)

LEMMA CommitTells ==
  ASSUME TypeOK, NEW h \in Handlers, NEW x \in Users, Commit(h, {x})
  PROVE  Tells(x)
<1>1. {x} \in SUBSET Row
  BY DEF Row
<1>2. calls \in [Handlers -> Calls]
  BY DEF TypeOK
<1>3. calls'[h] = Idle /\ \A g \in Handlers \ {h} : calls'[g] = Touched(calls[g], {x})
  BY <1>1, <1>2, CommittedCalls
<1>4. \A g \in Handlers \ {h} : calls'[g] = Idle \/ calls'[g].touched = calls[g].touched \cup {x}
  BY <1>1, <1>2, <1>3, TouchedCall
<1> QED BY <1>3, <1>4 DEF Tells

LEMMA MemberStepWrites ==
  ASSUME TypeOK, NEW h \in Handlers, MemberStep(h)
  PROVE  /\ calls[h].at \in {"invite", "update", "remove"} /\ calls[h].user \in Users
         /\ Writes(calls[h].user) /\ accounts' = accounts /\ Contend(h)
<1> DEFINE u == calls[h].user
<1>0. calls[h] \in Calls /\ member \in [Users -> MemberRows]
  BY DEF TypeOK, MembersTypeOK
<1>1. calls[h].at \in {"invite", "update", "remove"} /\ accounts' = accounts /\ Contend(h) /\ Commit(h, {u})
  BY DEF MemberStep, WriteInvitation, WriteUpdate, WriteRemoval
<1>2. u \in Users
  BY <1>0, <1>1, Kinds DEF InviteCalls, UpdateCalls, RemoveCalls
<1>3. Tells(u)
  BY <1>1, <1>2, CommitTells
<1>4. \A y \in Users \ {u} : member'[y] = member[y]
  <2>1. CASE WriteInvitation(h)
    BY <1>0, <2>1 DEF WriteInvitation
  <2>2. CASE WriteUpdate(h)
    BY <1>0, <2>2 DEF WriteUpdate
  <2>3. CASE WriteRemoval(h)
    BY <1>0, <2>3 DEF WriteRemoval
  <2> QED BY <2>1, <2>2, <2>3 DEF MemberStep
<1> QED BY <1>1, <1>2, <1>3, <1>4 DEF Writes

LEMMA AcceptanceWrites ==
  ASSUME TypeOK, NEW u \in Users, AcceptInvitation(u)
  PROVE  Writes(u) /\ accounts' = accounts /\ contested' = contested
<1>1. \A g \in Handlers : calls[g] \in Calls /\ calls'[g] = Touched(calls[g], {u})
  BY DEF TypeOK, AcceptInvitation
<1>2. \A g \in Handlers : calls'[g] = Idle \/ u \in calls'[g].touched
  BY <1>1, TouchedCall DEF Row
<1>3. member' = [member EXCEPT ![u].status = "ACTIVE"] /\ accounts' = accounts /\ contested' = contested
      /\ member \in [Users -> MemberRows]
  BY DEF TypeOK, MembersTypeOK, AcceptInvitation
<1> QED BY <1>2, <1>3 DEF Writes, Tells

(* An erasure that ends a membership tells so; one that does not leaves the    *)
(* memberships alone. Either is of a member nobody has touched, or it is      *)
(* recorded that two writes have overlapped.                                  *)
LEMMA ErasureWrites ==
  ASSUME TypeOK, NEW h \in Handlers, CommitErasure(h)
  PROVE  LET call == calls[h]
             u    == calls[h].user
         IN  /\ call \in EraseCalls
             /\ \/ UNCHANGED membership /\ wiped' = wiped
                \/ /\ ~call.blocked /\ Contend(h) /\ given' = given
                   /\ accounts' = accounts \ {u}
                   /\ wiped' = IF call.row.role = "STAFF" /\ call.touched \cap {u} = {} /\ Undisturbed(h, u)
                               THEN wiped \cup {u} ELSE wiped
                   /\ \/ Ended(call.row) /\ Writes(u) /\ member'[u].status = "REMOVED"
                         /\ u \notin call.touched
                      \/ ~Ended(call.row) /\ member' = member
                   /\ erasure'[u].status = "COMPLETED" /\ calls'[h] = Idle
<1> DEFINE call == calls[h]
           u    == call.user
<1>0. calls \in [Handlers -> Calls] /\ member \in [Users -> MemberRows] /\ erasure \in [Users -> RequestRows]
  BY DEF TypeOK, MembersTypeOK, PrivacyTypeOK
<1>1. call \in EraseCalls
  BY <1>0, Kinds DEF CommitErasure
<1>2. u \in Users
  BY <1>1 DEF EraseCalls
<1>3. CASE GivenUp(call) \/ call.blocked
  BY <1>1, <1>3 DEF CommitErasure, membership, privacy
<1>4. CASE ~GivenUp(call) /\ ~call.blocked
  <2>1. /\ erasure' = [erasure EXCEPT ![u].status = "COMPLETED", ![u].note = @ + 1]
        /\ member' = IF Ended(call.row) THEN [member EXCEPT ![u].status = "REMOVED"] ELSE member
        /\ accounts' = accounts \ {u}
        /\ wiped' = IF call.row.role = "STAFF" /\ call.touched \cap {u} = {} /\ Undisturbed(h, u)
                    THEN wiped \cup {u} ELSE wiped
        /\ Contend(h) /\ Commit(h, IF Ended(call.row) THEN {u} ELSE {}) /\ given' = given
    BY <1>4 DEF CommitErasure
  <2>2. erasure'[u].status = "COMPLETED"
    <3>1. erasure[u] \in RequestRows
      BY <1>0, <1>2
    <3>2. [erasure[u] EXCEPT !.status = "COMPLETED", !.note = @ + 1].status = "COMPLETED"
      BY <3>1 DEF RequestRows
    <3> QED BY <1>0, <1>2, <2>1, <3>2
  <2>3. calls'[h] = Idle
    BY <2>1 DEF Commit
  <2>4. Ended(call.row) => Writes(u) /\ member'[u].status = "REMOVED" /\ u \notin call.touched
    <3> SUFFICES ASSUME Ended(call.row) PROVE Writes(u) /\ member'[u].status = "REMOVED" /\ u \notin call.touched
      OBVIOUS
    <3>1. Commit(h, {u}) /\ member' = [member EXCEPT ![u].status = "REMOVED"]
      BY <2>1
    <3>2. Tells(u)
      BY <1>2, <3>1, CommitTells
    <3>3. member[u] \in MemberRows
      BY <1>0, <1>2
    <3>4. member'[u].status = "REMOVED" /\ \A y \in Users \ {u} : member'[y] = member[y]
      BY <1>0, <1>2, <3>1, <3>3 DEF MemberRows
    <3>5. u \notin call.touched
      BY <1>4 DEF GivenUp
    <3> QED BY <2>1, <3>2, <3>4, <3>5 DEF Writes
  <2> QED BY <1>1, <1>4, <2>1, <2>2, <2>3, <2>4
<1> QED BY <1>3, <1>4

LEMMA MembershipEffects ==
  ASSUME TypeOK, [Next]_vars
  PROVE  /\ \A x \in Users : member'[x] = member[x] \/ Tells(x)
         /\ accounts' \subseteq accounts
<1> DEFINE Goal == /\ \A x \in Users : member'[x] = member[x] \/ Tells(x)
                   /\ accounts' \subseteq accounts
<1>1. CASE MemberAct
  <2>1. ASSUME NEW h \in Handlers, MemberRequest(h) PROVE Goal
    BY <2>1, MemberRequestTyping DEF membership
  <2>2. ASSUME NEW h \in Handlers, MemberStep(h) PROVE Goal
    BY <2>2, MemberStepWrites DEF Writes
  <2>3. ASSUME NEW u \in Users, AcceptInvitation(u) PROVE Goal
    BY <2>3, AcceptanceWrites DEF Writes
  <2> QED BY <1>1, <2>1, <2>2, <2>3 DEF MemberAct
<1>2. CASE PrivacyAct
  <2>1. ASSUME NEW h \in Handlers, PrivacyRequest(h) PROVE Goal
    BY <2>1, PrivacyRequestTyping DEF membership
  <2>2. ASSUME NEW h \in Handlers, PrivacyStep(h) PROVE Goal
    <3>1. CASE CreateRequest(h) \/ RejectRequest(h)
      BY <3>1 DEF CreateRequest, RejectRequest, membership
    <3>2. CASE CommitErasure(h)
      <4>1. \/ UNCHANGED membership
            \/ accounts' \subseteq accounts /\ (Writes(calls[h].user) \/ member' = member)
        BY <3>2, ErasureWrites
      <4> QED BY <4>1 DEF membership, Writes
    <3> QED BY <2>2, <3>1, <3>2 DEF PrivacyStep
  <2> QED BY <1>2, <2>1, <2>2 DEF PrivacyAct
<1>3. CASE SellingAct \/ CatalogAct \/ UNCHANGED vars
  BY <1>3, SellingActTyping, CatalogActTyping DEF CatalogOnly, vars, membership
<1> QED BY <1>1, <1>2, <1>3, Acts

LEMMA KeptCurrent ==
  ASSUME TypeOK, TypeOK', NEW g \in Handlers, Kept(g), Current(g),
         \A x \in Users : member'[x] = member[x] \/ Tells(x)
  PROVE  Current(g)'
<1> SUFFICES ASSUME calls'[g].at = "erase"
             PROVE  /\ calls'[g].user \notin calls'[g].touched => calls'[g].row = member'[calls'[g].user]
                    /\ ~calls'[g].blocked => ~(calls'[g].row.role = "OWNER" /\ calls'[g].row.status = "ACTIVE")
  BY DEF Current
<1>1. calls'[g] \in EraseCalls /\ calls'[g] # Idle
  BY Kinds DEF TypeOK, Idle
<1>2. calls[g].at = "erase" /\ calls[g].touched \subseteq calls'[g].touched
      /\ \A f \in DOMAIN calls'[g] : f # "touched" => calls'[g][f] = calls[g][f]
  BY KeptCall
<1>3. calls[g].user = calls'[g].user /\ calls[g].row = calls'[g].row /\ calls[g].blocked = calls'[g].blocked
      /\ calls'[g].user \in Users
  BY <1>1, <1>2 DEF EraseCalls
<1>4. calls'[g].user \notin calls'[g].touched => member'[calls'[g].user] = member[calls'[g].user]
  BY <1>1, <1>3 DEF Tells
<1> QED BY <1>2, <1>3, <1>4 DEF Current

LEMMA BegunCurrent ==
  ASSUME TypeOK, TypeOK', NEW h \in Handlers, PrivacyRequest(h)
  PROVE  /\ Current(h)' /\ \A g \in Handlers \ {h} : calls'[g] = calls[g]
         /\ UNCHANGED <<membership, privacy>>
         /\ calls'[h].user \in Users /\ (calls'[h].user \in accounts \/ Open(erasure[calls'[h].user]))
<1> DEFINE Goal == /\ Current(h)' /\ \A g \in Handlers \ {h} : calls'[g] = calls[g]
                   /\ UNCHANGED <<membership, privacy>>
                   /\ calls'[h].user \in Users /\ (calls'[h].user \in accounts \/ Open(erasure[calls'[h].user]))
<1>1. PICK u \in Users :
        \/ ReadRequest(h, u)
        \/ \E open \in BOOLEAN : RequestErasure(h, u, open) \/ TakeSnapshot(h, u, open)
  BY DEF PrivacyRequest
<1>2. ASSUME ReadRequest(h, u)
      PROVE  Goal
  <2> DEFINE c == [at |-> "reject", user |-> u, request |-> erasure[u]]
  <2>1. Untouched(c).at = "reject" /\ Untouched(c).user = u
    BY DEF Untouched
  <2>2. Begin(h, "privacy", c) /\ Open(erasure[u]) /\ UNCHANGED <<membership, privacy>>
    BY <1>2 DEF ReadRequest
  <2>3. calls'[h] = Untouched(c) /\ \A g \in Handlers \ {h} : calls'[g] = calls[g]
    BY <2>2 DEF Begin, TypeOK
  <2> HIDE DEF c
  <2> QED BY <2>1, <2>2, <2>3 DEF Current
<1>3. ASSUME NEW open \in BOOLEAN, RequestErasure(h, u, open)
      PROVE  Goal
  <2> DEFINE c == [at |-> "ask", user |-> u, blocked |-> Blocked(u, open)]
  <2>1. Untouched(c).at = "ask" /\ Untouched(c).user = u
    BY DEF Untouched
  <2>2. Begin(h, "privacy", c) /\ u \in accounts /\ UNCHANGED <<membership, privacy>>
    BY <1>3 DEF RequestErasure
  <2>3. calls'[h] = Untouched(c) /\ \A g \in Handlers \ {h} : calls'[g] = calls[g]
    BY <2>2 DEF Begin, TypeOK
  <2> HIDE DEF c
  <2> QED BY <2>1, <2>2, <2>3 DEF Current
<1>4. ASSUME NEW open \in BOOLEAN, TakeSnapshot(h, u, open)
      PROVE  Goal
  <2> DEFINE b == Blocked(u, open)
             c == [at |-> "erase", user |-> u, request |-> erasure[u], row |-> member[u], blocked |-> b]
  <2>1. /\ Untouched(c).at = "erase" /\ Untouched(c).user = u /\ Untouched(c).row = member[u]
        /\ Untouched(c).blocked = b
    BY DEF Untouched
  <2>2. Begin(h, "privacy", c) /\ Open(erasure[u]) /\ UNCHANGED <<membership, privacy>>
    BY <1>4 DEF TakeSnapshot
  <2>3. calls'[h] = Untouched(c) /\ \A g \in Handlers \ {h} : calls'[g] = calls[g]
    BY <2>2 DEF Begin, TypeOK
  <2>4. ~b => ~(member[u].role = "OWNER" /\ member[u].status = "ACTIVE")
    BY DEF Blocked, OwnsVendor, ActiveOwner
  <2> HIDE DEF b, c
  <2> QED BY <2>1, <2>2, <2>3, <2>4 DEF Current, membership
<1> HIDE DEF Goal
<1>5. Goal
  BY <1>1, <1>2, <1>3, <1>4
<1> QED BY <1>5 DEF Goal

LEMMA CurrentNext ==
  ASSUME TypeOK, TypeOK', \A g \in Handlers : Current(g), [Next]_vars
  PROVE  \A g \in Handlers : Current(g)'
<1> TAKE g \in Handlers
<1>1. \A x \in Users : member'[x] = member[x] \/ Tells(x)
  BY MembershipEffects
<1>2. Kept(g) => Current(g)'
  BY <1>1, KeptCurrent
<1>3. CASE PrivacyAct
  <2>1. ASSUME NEW h \in Handlers, PrivacyRequest(h) PROVE Current(g)'
    <3>1. g # h => Kept(g)
      BY <2>1, BegunCurrent DEF Kept
    <3> QED BY <1>2, <2>1, <3>1, BegunCurrent
  <2>2. ASSUME NEW h \in Handlers, PrivacyStep(h) PROVE Current(g)'
    BY <1>2, <2>2, PrivacyStepTyping DEF Only
  <2> QED BY <1>3, <2>1, <2>2 DEF PrivacyAct
<1>4. CASE MemberAct \/ SellingAct \/ CatalogAct \/ UNCHANGED vars
  <2>1. Kept(g) \/ calls'[g].at \in MemberKinds \cup SellingKinds \cup CatalogKinds
    BY <1>4, MemberActTyping, SellingActTyping, CatalogActTyping DEF Only, vars, Kept
  <2> QED BY <1>2, <2>1 DEF Current, MemberKinds, SellingKinds, CatalogKinds
<1> QED BY <1>3, <1>4, Acts

(* A request to write a membership finds its user, or a membership to change;  *)
(* and another owner, if the user is one.                                     *)
LEMMA BegunMember ==
  ASSUME TypeOK, TypeOK', NEW h \in Handlers, MemberRequest(h)
  PROVE  /\ \A g \in Handlers \ {h} : calls'[g] = calls[g]
         /\ UNCHANGED membership
         /\ calls'[h].at \in {"invite", "update", "remove"} /\ calls'[h].user \in Users
         /\ calls'[h].user \in accounts \/ member[calls'[h].user].status \notin {"NONE", "REMOVED"}
         /\ Able # {} => \E w \in Able : w # calls'[h].user
<1> DEFINE Goal == /\ \A g \in Handlers \ {h} : calls'[g] = calls[g]
                   /\ UNCHANGED membership
                   /\ calls'[h].at \in {"invite", "update", "remove"} /\ calls'[h].user \in Users
                   /\ calls'[h].user \in accounts \/ member[calls'[h].user].status \notin {"NONE", "REMOVED"}
                   /\ Able # {} => \E w \in Able : w # calls'[h].user
<1>1. PICK actor \in Users, u \in Users :
        \/ \E P \in Grants : InviteMember(h, actor, u, P)
        \/ \E c \in Changes : UpdateMember(h, actor, u, c)
        \/ RemoveMember(h, actor, u)
  BY DEF MemberRequest
<1>2. ASSUME NEW P \in Grants, InviteMember(h, actor, u, P)
      PROVE  Goal
  <2> DEFINE c == [at |-> "invite", user |-> u, perms |-> P, owner |-> member[actor].role = "OWNER"]
  <2>1. Untouched(c).at = "invite" /\ Untouched(c).user = u
    BY DEF Untouched
  <2>2. Begin(h, "members", c) /\ UNCHANGED membership
    BY <1>2 DEF InviteMember
  <2>3. u \in accounts /\ member[u].status \in {"NONE", "REMOVED"}
    BY <1>2 DEF InviteMember, Findable
  <2>4. calls'[h] = Untouched(c) /\ \A g \in Handlers \ {h} : calls'[g] = calls[g]
    BY <2>2 DEF Begin, TypeOK
  <2>5. u \notin Able
    BY <2>3 DEF Able, Owners, ActiveOwner
  <2> HIDE DEF c
  <2> QED BY <2>1, <2>2, <2>3, <2>4, <2>5
<1>3. ASSUME Holds(actor, "staff:update") \/ Holds(actor, "staff:remove"), u # actor,
             ActiveOwner(u) => member[actor].role = "OWNER", Able # {}
      PROVE  \E w \in Able : w # u
  <2>1. actor \in accounts /\ member[actor].status = "ACTIVE"
    BY <1>3 DEF Holds
  <2>2. CASE ActiveOwner(u)
    BY <1>3, <2>1, <2>2 DEF Able, Owners, ActiveOwner
  <2>3. CASE ~ActiveOwner(u)
    BY <1>3, <2>3 DEF Able, Owners
  <2> QED BY <2>2, <2>3
<1>4. ASSUME NEW d \in Changes, UpdateMember(h, actor, u, d)
      PROVE  Goal
  <2> DEFINE c == [at |-> "update", user |-> u, change |-> d, owner |-> member[actor].role = "OWNER"]
  <2>1. Untouched(c).at = "update" /\ Untouched(c).user = u
    BY DEF Untouched
  <2>2. Begin(h, "members", c) /\ UNCHANGED membership
    BY <1>4 DEF UpdateMember
  <2>3. /\ u # actor /\ member[u].status \notin {"NONE", "REMOVED"} /\ Holds(actor, "staff:update")
        /\ ActiveOwner(u) => member[actor].role = "OWNER"
    BY <1>4 DEF UpdateMember, MayChange, ActiveOwner
  <2>4. calls'[h] = Untouched(c) /\ \A g \in Handlers \ {h} : calls'[g] = calls[g]
    BY <2>2 DEF Begin, TypeOK
  <2> HIDE DEF c
  <2> QED BY <1>3, <2>1, <2>2, <2>3, <2>4
<1>5. ASSUME RemoveMember(h, actor, u)
      PROVE  Goal
  <2> DEFINE c == [at |-> "remove", user |-> u]
  <2>1. Untouched(c).at = "remove" /\ Untouched(c).user = u
    BY DEF Untouched
  <2>2. Begin(h, "members", c) /\ UNCHANGED membership
    BY <1>5 DEF RemoveMember
  <2>3. /\ u # actor /\ member[u].status \notin {"NONE", "REMOVED"} /\ Holds(actor, "staff:remove")
        /\ ActiveOwner(u) => member[actor].role = "OWNER"
    BY <1>5 DEF RemoveMember, ActiveOwner
  <2>4. calls'[h] = Untouched(c) /\ \A g \in Handlers \ {h} : calls'[g] = calls[g]
    BY <2>2 DEF Begin, TypeOK
  <2> HIDE DEF c
  <2> QED BY <1>3, <2>1, <2>2, <2>3, <2>4
<1> HIDE DEF Goal
<1>6. Goal
  BY <1>1, <1>2, <1>4, <1>5
<1> QED BY <1>6 DEF Goal

(* A call that is kept still leaves an owner, if the owners are as they were.  *)
LEMMA KeptSpares ==
  ASSUME TypeOK, TypeOK', NEW g \in Handlers, Kept(g), Spares(g), Able \subseteq Able'
  PROVE  Spares(g)'
<1> SUFFICES ASSUME calls'[g].at \in {"invite", "update", "remove"}, calls'[g].touched \cap Users = {}
             PROVE  \E w \in Able' : w # calls'[g].user
  BY DEF Spares
<1>1. calls'[g] \in Calls
  BY DEF TypeOK
<1>2. "user" \in DOMAIN calls'[g]
  BY <1>1, Kinds DEF InviteCalls, UpdateCalls, RemoveCalls
<1>3. calls[g].at = calls'[g].at /\ calls[g].touched \subseteq calls'[g].touched /\ calls'[g].user = calls[g].user
  BY <1>2, KeptCall
<1> QED BY <1>3 DEF Spares

(* A write that leaves an owner leaves all calls touched.                     *)
LEMMA WriteSpares ==
  ASSUME TypeOK, NEW x \in Users, Writes(x), NEW w \in Able, w # x
  PROVE  w \in Able' /\ \A g \in Handlers : Spares(g)'
<1>1. w \in accounts' /\ member'[w] = member[w]
  BY DEF Writes, Able, Owners
<1>2. w \in Able'
  BY <1>1 DEF Able, Owners, ActiveOwner
<1>3. \A g \in Handlers : calls'[g] = Idle \/ calls'[g].touched \cap Users # {}
  BY DEF Writes, Tells
<1>4. \A g \in Handlers : Spares(g)'
  BY <1>3 DEF Spares, Idle
<1> QED BY <1>2, <1>4

LEMMA OwnerNext ==
  ASSUME TypeOK, TypeOK', \A g \in Handlers : Current(g), OwnerInv, [Next]_vars
  PROVE  OwnerInv'
<1>0. ASSUME contested \subseteq contested', "members" \in contested
      PROVE  OwnerInv'
  BY <1>0 DEF OwnerInv
<1>1. ASSUME Able # {}, Able \subseteq Able', NEW K, \A g \in Handlers : Spares(g),
             \A g \in Handlers : Kept(g) \/ calls'[g].at \in K,
             K \cap {"invite", "update", "remove"} = {}
      PROVE  OwnerInv'
  <2>1. \A g \in Handlers : Spares(g)'
    BY <1>1, KeptSpares DEF Spares
  <2> QED BY <1>1, <2>1 DEF OwnerInv
<1>2. CASE MemberAct
  <2>1. ASSUME NEW h \in Handlers, MemberRequest(h) PROVE OwnerInv'
    <3>1. UNCHANGED membership
      BY <2>1, BegunMember
    <3>2. CASE "members" \in contested
      BY <1>0, <3>1, <3>2 DEF membership
    <3>3. CASE Able # {} /\ \A g \in Handlers : Spares(g)
      <4>1. Able' = Able
        BY <3>1 DEF Able, Owners, ActiveOwner, membership
      <4>2. \A g \in Handlers \ {h} : Kept(g)
        BY <2>1, BegunMember DEF Kept
      <4>3. Spares(h)'
        BY <2>1, <3>3, <4>1, BegunMember DEF Spares
      <4>4. \A g \in Handlers : Spares(g)'
        BY <3>3, <4>1, <4>2, <4>3, KeptSpares
      <4> QED BY <3>3, <4>1, <4>4 DEF OwnerInv
    <3> QED BY <3>2, <3>3 DEF OwnerInv
  <2>2. ASSUME NEW h \in Handlers, MemberStep(h) PROVE OwnerInv'
    <3>1. /\ calls[h].at \in {"invite", "update", "remove"} /\ calls[h].user \in Users
          /\ Writes(calls[h].user) /\ accounts' = accounts /\ Contend(h)
      BY <2>2, MemberStepWrites
    <3>2. contested \subseteq contested' /\ (calls[h].touched \cap Users # {} => "members" \in contested')
      BY <3>1 DEF Contend, Overlapped
    <3>3. CASE "members" \in contested'
      BY <3>3 DEF OwnerInv
    <3>4. CASE "members" \notin contested'
      <4>1. \A g \in Handlers : Spares(g)
        BY <3>2, <3>4 DEF OwnerInv
      <4>2. PICK w \in Able : w # calls[h].user
        BY <3>1, <3>2, <3>4, <4>1 DEF Spares
      <4> QED BY <3>1, <4>2, WriteSpares DEF OwnerInv
    <3> QED BY <3>3, <3>4
  <2>3. ASSUME NEW u \in Users, AcceptInvitation(u) PROVE OwnerInv'
    <3>1. Writes(u) /\ contested' = contested
      BY <2>3, AcceptanceWrites
    <3>2. CASE "members" \in contested
      BY <1>0, <3>1, <3>2
    <3>3. CASE Able # {}
      <4>1. member[u].status = "INVITED"
        BY <2>3 DEF AcceptInvitation
      <4>2. PICK w \in Able : w # u
        BY <3>3, <4>1 DEF Able, Owners, ActiveOwner
      <4> QED BY <3>1, <4>2, WriteSpares DEF OwnerInv
    <3> QED BY <3>2, <3>3 DEF OwnerInv
  <2> QED BY <1>2, <2>1, <2>2, <2>3 DEF MemberAct
<1>3. CASE PrivacyAct
  <2>1. \A g \in Handlers : Kept(g) \/ calls'[g].at \in PrivacyKinds
    BY <1>3, PrivacyActTyping DEF Only
  <2>2. ASSUME UNCHANGED membership PROVE OwnerInv'
    <3>1. Able' = Able /\ contested' = contested
      BY <2>2 DEF Able, Owners, ActiveOwner, membership
    <3>2. CASE "members" \in contested
      BY <1>0, <3>1, <3>2
    <3>3. CASE Able # {} /\ \A g \in Handlers : Spares(g)
      BY <1>1, <2>1, <3>1, <3>3 DEF PrivacyKinds
    <3> QED BY <3>2, <3>3 DEF OwnerInv
  <2>3. ASSUME NEW h \in Handlers, CommitErasure(h) PROVE OwnerInv'
    <3> DEFINE call == calls[h]
               u    == calls[h].user
    <3>1. call \in EraseCalls
      BY <2>3, ErasureWrites
    <3>2. u \in Users /\ call.at = "erase"
      BY <3>1 DEF EraseCalls
    <3>3. \/ UNCHANGED membership
          \/ /\ ~call.blocked /\ Contend(h) /\ accounts' = accounts \ {u}
             /\ \/ Ended(call.row) /\ Writes(u) /\ u \notin call.touched
                \/ ~Ended(call.row) /\ member' = member
      BY <2>3, ErasureWrites
    <3>4. CASE ~call.blocked /\ Contend(h) /\ accounts' = accounts \ {u}
               /\ (\/ Ended(call.row) /\ Writes(u) /\ u \notin call.touched
                   \/ ~Ended(call.row) /\ member' = member)
      <4>1. contested \subseteq contested' /\ (call.touched \cap Users # {} => "members" \in contested')
        BY <3>4 DEF Contend, Overlapped
      <4>2. CASE "members" \in contested'
        BY <4>2 DEF OwnerInv
      <4>3. CASE "members" \notin contested'
        <5>1. u \notin call.touched
          BY <3>2, <4>1, <4>3
        <5>2. ~ActiveOwner(u)
          BY <3>2, <3>4, <5>1 DEF Current, ActiveOwner
        <5>3. Able # {} /\ \A g \in Handlers : Spares(g)
          BY <4>1, <4>3 DEF OwnerInv
        <5>4. CASE Writes(u)
          <6>1. PICK w \in Able : w # u
            BY <5>2, <5>3 DEF Able, Owners
          <6> QED BY <3>2, <5>4, <6>1, WriteSpares DEF OwnerInv
        <5>5. CASE member' = member
          <6>1. Able \subseteq Able'
            BY <3>4, <5>2, <5>5 DEF Able, Owners, ActiveOwner
          <6> QED BY <1>1, <2>1, <5>3, <6>1 DEF PrivacyKinds
        <5> QED BY <3>4, <5>4, <5>5
      <4> QED BY <4>2, <4>3
    <3> QED BY <2>2, <3>3, <3>4
  <2>4. ASSUME NEW h \in Handlers, PrivacyRequest(h) PROVE OwnerInv'
    BY <2>2, <2>4, BegunCurrent
  <2>5. ASSUME NEW h \in Handlers, CreateRequest(h) \/ RejectRequest(h) PROVE OwnerInv'
    BY <2>2, <2>5 DEF CreateRequest, RejectRequest
  <2> QED BY <1>3, <2>3, <2>4, <2>5 DEF PrivacyAct, PrivacyStep
<1>4. CASE SellingAct \/ CatalogAct \/ UNCHANGED vars
  <2>1. UNCHANGED <<member, accounts>> /\ contested \subseteq contested'
    BY <1>4, SellingActTyping, CatalogActTyping DEF CatalogOnly, vars, membership
  <2>2. \A g \in Handlers : Kept(g) \/ calls'[g].at \in SellingKinds \cup CatalogKinds
    BY <1>4, SellingActTyping, CatalogActTyping DEF Only, vars, Kept
  <2>3. Able' = Able
    BY <2>1 DEF Able, Owners, ActiveOwner
  <2>4. CASE "members" \in contested
    BY <1>0, <2>1, <2>4
  <2>5. CASE Able # {} /\ \A g \in Handlers : Spares(g)
    <3>1. (SellingKinds \cup CatalogKinds) \cap {"invite", "update", "remove"} = {}
      BY DEF SellingKinds, CatalogKinds
    <3> QED BY <1>1, <2>2, <2>3, <2>5, <3>1
  <2> QED BY <2>4, <2>5 DEF OwnerInv
<1> QED BY <1>2, <1>3, <1>4, Acts

LEMMA InitMembers ==
  ASSUME Init
  PROVE  OwnerInv /\ ErasedInv /\ \A g \in Handlers : Current(g)
<1>1. PICK s \in Scenarios : member = s.member
  BY DEF Init
<1>2. calls = [h \in Handlers |-> Idle] /\ accounts = Users /\ wiped = {}
  BY DEF Init
<1>3. Able # {}
  BY <1>1, <1>2, MarketplaceAssumption DEF Able, Owners, ActiveOwner
<1>4. \A g \in Handlers : Spares(g) /\ Current(g)
  BY <1>2 DEF Spares, Current, Idle
<1> QED BY <1>2, <1>3, <1>4 DEF OwnerInv, ErasedInv

(* A vendor is never left without an owner who can sign in: not by owners who  *)
(* remove, demote or suspend one another, and not by an erasure, unless two    *)
(* of the writes overlapped on a membership.                                  *)
THEOREM OwnerIsLeft == Spec => []OwnerLeft
<1> DEFINE Inv == OwnerInv /\ \A g \in Handlers : Current(g)
<1>1. Init => Inv
  BY InitMembers
<1>2. TypeOK /\ TypeOK' /\ Inv /\ [Next]_vars => Inv'
  BY OwnerNext, CurrentNext
<1>3. Inv => OwnerLeft
  BY DEF OwnerInv, OwnerLeft, Able
<1> HIDE DEF Inv
<1> QED BY <1>1, <1>2, <1>3, Typing, PTL DEF Spec

(* What is known of an erased member stays so: nobody finds the account any    *)
(* more, and no call is about it.                                             *)
LEMMA ErasedKept ==
  ASSUME TypeOK, TypeOK', ErasedInv, [Next]_vars, NEW u \in wiped
  PROVE  /\ u \notin accounts' /\ member'[u].status \in {"NONE", "REMOVED"} /\ erasure'[u].status = "COMPLETED"
         /\ \A g \in Handlers : "user" \in DOMAIN calls'[g] => calls'[g].user # u
<1> DEFINE Goal == /\ member'[u].status \in {"NONE", "REMOVED"} /\ erasure'[u].status = "COMPLETED"
                   /\ \A g \in Handlers : "user" \in DOMAIN calls'[g] => calls'[g].user # u
<1>0. /\ u \in Users
      /\ u \notin accounts /\ member[u].status \in {"NONE", "REMOVED"} /\ erasure[u].status = "COMPLETED"
      /\ \A g \in Handlers : "user" \in DOMAIN calls[g] => calls[g].user # u
  BY DEF ErasedInv, TypeOK, PrivacyTypeOK
<1>1. u \notin accounts'
  BY <1>0, MembershipEffects
<1>2. \A g \in Handlers : Kept(g) => ("user" \in DOMAIN calls'[g] => calls'[g].user # u)
  <2>1. "user" \notin DOMAIN Idle
    BY DEF Idle
  <2> QED BY <1>0, <2>1 DEF Kept
<1>3. CASE MemberAct
  <2>0. erasure' = erasure
    BY <1>3 DEF MemberAct, privacy
  <2>1. ASSUME NEW h \in Handlers, MemberRequest(h) PROVE Goal
    <3>1. \A g \in Handlers \ {h} : Kept(g)
      BY <2>1, BegunMember DEF Kept
    <3>2. calls'[h].user # u /\ member' = member
      BY <1>0, <2>1, BegunMember DEF membership
    <3> QED BY <1>0, <1>2, <2>0, <3>1, <3>2
  <2>2. ASSUME NEW h \in Handlers, MemberStep(h) PROVE Goal
    <3>1. calls[h].at \in {"invite", "update", "remove"} /\ Writes(calls[h].user)
      BY <2>2, MemberStepWrites
    <3>2. "user" \in DOMAIN calls[h]
      BY <3>1, Kinds DEF TypeOK, InviteCalls, UpdateCalls, RemoveCalls
    <3>3. member'[u] = member[u]
      BY <1>0, <3>1, <3>2 DEF Writes
    <3>4. \A g \in Handlers : Kept(g)
      BY <2>2, MemberStepTyping DEF Only
    <3> QED BY <1>0, <1>2, <2>0, <3>3, <3>4
  <2>3. ASSUME NEW x \in Users, AcceptInvitation(x) PROVE Goal
    <3>1. x # u
      BY <1>0, <2>3 DEF AcceptInvitation
    <3>2. member'[u] = member[u]
      BY <1>0, <2>3, <3>1, AcceptanceWrites DEF Writes
    <3>3. \A g \in Handlers : Kept(g)
      BY <2>3, AcceptanceTyping DEF Only
    <3> QED BY <1>0, <1>2, <2>0, <3>2, <3>3
  <2> HIDE DEF Goal
  <2>4. Goal
    BY <1>3, <2>1, <2>2, <2>3 DEF MemberAct
  <2> QED BY <1>1, <2>4 DEF Goal
<1>4. CASE PrivacyAct
  <2>1. ASSUME NEW h \in Handlers, PrivacyRequest(h) PROVE Goal
    <3>1. \A g \in Handlers \ {h} : Kept(g)
      BY <2>1, BegunCurrent DEF Kept
    <3>2. member' = member /\ erasure' = erasure
      BY <2>1, BegunCurrent DEF membership, privacy
    <3>3. calls'[h].user # u
      BY <1>0, <2>1, BegunCurrent DEF Open
    <3> QED BY <1>0, <1>2, <3>1, <3>2, <3>3
  <2>2. ASSUME NEW h \in Handlers, PrivacyStep(h) PROVE Goal
    <3>0. \A g \in Handlers : Kept(g)
      BY <2>2, PrivacyStepTyping DEF Only
    <3>1. calls[h] \in AskCalls \cup RejectCalls \cup EraseCalls
      BY <2>2, Kinds DEF TypeOK, PrivacyStep, CreateRequest, RejectRequest, CommitErasure
    <3>2. "user" \in DOMAIN calls[h] /\ calls[h].user # u
      <4>1. "user" \in DOMAIN calls[h]
        BY <3>1 DEF AskCalls, RejectCalls, EraseCalls
      <4> QED BY <1>0, <4>1
    <3>3. erasure'[u] = erasure[u]
      <4>1. erasure \in [Users -> RequestRows]
        BY DEF TypeOK, PrivacyTypeOK
      <4>2. CASE CreateRequest(h)
        BY <1>0, <3>2, <4>1, <4>2 DEF CreateRequest
      <4>3. CASE RejectRequest(h)
        BY <1>0, <3>2, <4>1, <4>3 DEF RejectRequest
      <4>4. CASE CommitErasure(h)
        BY <1>0, <3>2, <4>1, <4>4 DEF CommitErasure, privacy
      <4> QED BY <2>2, <4>2, <4>3, <4>4 DEF PrivacyStep
    <3>4. member'[u] = member[u]
      <4>1. CASE CreateRequest(h) \/ RejectRequest(h)
        BY <4>1 DEF CreateRequest, RejectRequest, membership
      <4>2. CASE CommitErasure(h)
        <5>1. UNCHANGED membership \/ Writes(calls[h].user) \/ member' = member
          BY <4>2, ErasureWrites
        <5> QED BY <1>0, <3>2, <5>1 DEF Writes, membership
      <4> QED BY <2>2, <4>1, <4>2 DEF PrivacyStep
    <3> QED BY <1>0, <1>2, <3>0, <3>3, <3>4
  <2> HIDE DEF Goal
  <2>3. Goal
    BY <1>4, <2>1, <2>2 DEF PrivacyAct
  <2> QED BY <1>1, <2>3 DEF Goal
<1>5. CASE SellingAct \/ CatalogAct \/ UNCHANGED vars
  <2>1. UNCHANGED <<member, erasure>>
    BY <1>5, SellingActTyping, CatalogActTyping DEF CatalogOnly, vars, membership, privacy
  <2>2. ASSUME NEW g \in Handlers, calls'[g].at \in SellingKinds \cup CatalogKinds
        PROVE  "user" \notin DOMAIN calls'[g]
    <3>1. calls'[g] \in SellingCalls \cup CatalogCalls
      BY <2>2, Kinds DEF TypeOK, SellingKinds, CatalogKinds, SellingCalls, CatalogCalls
    <3>2. CASE calls'[g] \in SellingCalls
      BY <3>2 DEF SellingCalls, SubmitCalls, ReviewCalls, DecideCalls, SettleCalls, StoreCalls
    <3>3. CASE calls'[g] \in CatalogCalls
      BY <3>3 DEF CatalogCalls, WalkCalls, CreateCalls, EditCalls, StatusCalls, ModerationCalls, MediaCalls
    <3> QED BY <3>1, <3>2, <3>3
  <2>3. \A g \in Handlers : Kept(g) \/ calls'[g].at \in SellingKinds \cup CatalogKinds
    BY <1>5, SellingActTyping, CatalogActTyping DEF Only, vars, Kept
  <2> QED BY <1>0, <1>1, <1>2, <2>1, <2>2, <2>3
<1> QED BY <1>3, <1>4, <1>5, Acts

LEMMA ErasedNext ==
  ASSUME TypeOK, TypeOK', \A g \in Handlers : Current(g), ErasedInv, [Next]_vars
  PROVE  ErasedInv'
<1> SUFFICES ASSUME NEW u \in wiped'
             PROVE  /\ u \notin accounts' /\ member'[u].status \in {"NONE", "REMOVED"} /\ erasure'[u].status = "COMPLETED"
                    /\ \A g \in Handlers : "user" \in DOMAIN calls'[g] => calls'[g].user # u
  BY DEF ErasedInv
<1>1. CASE u \in wiped
  BY <1>1, ErasedKept
<1>2. CASE u \notin wiped
  <2>1. PICK h \in Handlers : CommitErasure(h)
    <3>1. CASE MemberAct \/ SellingAct \/ CatalogAct \/ UNCHANGED vars
      BY <1>2, <3>1, SellingActTyping, CatalogActTyping DEF MemberAct, CatalogOnly, privacy, vars
    <3>2. CASE PrivacyAct
      <4>1. ASSUME NEW k \in Handlers, PrivacyRequest(k) PROVE wiped' = wiped
        BY <4>1, PrivacyRequestTyping DEF privacy
      <4>2. ASSUME NEW k \in Handlers, CreateRequest(k) \/ RejectRequest(k) PROVE wiped' = wiped
        BY <4>2 DEF CreateRequest, RejectRequest
      <4> QED BY <1>2, <3>2, <4>1, <4>2 DEF PrivacyAct, PrivacyStep
    <3> QED BY <3>1, <3>2, Acts
  <2> DEFINE call == calls[h]
  <2>2. /\ call \in EraseCalls /\ u = call.user
        /\ accounts' = accounts \ {u} /\ erasure'[u].status = "COMPLETED" /\ calls'[h] = Idle
        /\ call.row.role = "STAFF" /\ u \notin call.touched /\ Undisturbed(h, u)
        /\ (Ended(call.row) /\ member'[u].status = "REMOVED") \/ (~Ended(call.row) /\ member' = member)
    BY <1>2, <2>1, ErasureWrites
  <2>3. member'[u].status \in {"NONE", "REMOVED"}
    <3>1. call.row = member[u] /\ u \in Users
      BY <2>2 DEF Current, EraseCalls
    <3>2. member[u].status \in Statuses
      BY <3>1 DEF TypeOK, MembersTypeOK, MemberRows
    <3> QED BY <2>2, <3>1, <3>2 DEF Ended, Statuses
  <2>4. \A g \in Handlers : Kept(g)
    BY <2>1, PrivacyStepTyping DEF PrivacyStep, Only
  <2>5. ASSUME NEW g \in Handlers, "user" \in DOMAIN calls'[g]
        PROVE  calls'[g].user # u
    <3>1. "user" \notin DOMAIN Idle
      BY DEF Idle
    <3>2. g # h
      BY <2>2, <2>5, <3>1
    <3>3. "user" \in DOMAIN calls[g] /\ calls'[g].user = calls[g].user
      BY <2>4, <2>5, <3>1 DEF Kept
    <3> QED BY <2>2, <3>2, <3>3 DEF Undisturbed
  <2> QED BY <2>2, <2>3, <2>5
<1> QED BY <1>1, <1>2

(* A member of the staff, or a stranger, whose account was erased while no     *)
(* other call was at work on the membership never comes back to the vendor,    *)
(* whoever invites, changes or accepts afterwards.                            *)
THEOREM ErasedIsGone == Spec => []ErasedStaysOut
<1> DEFINE Inv == ErasedInv /\ \A g \in Handlers : Current(g)
<1>1. Init => Inv
  BY InitMembers
<1>2. TypeOK /\ TypeOK' /\ Inv /\ [Next]_vars => Inv'
  BY ErasedNext, CurrentNext
<1>3. Inv => ErasedStaysOut
  BY DEF ErasedInv, ErasedStaysOut
<1> HIDE DEF Inv
<1> QED BY <1>1, <1>2, <1>3, Typing, PTL DEF Spec

-----------------------------------------------------------------------------
(* The category tree. *)

Tree == \A C \in SUBSET Categories : C # {} => \E c \in C : category[c].parent \notin C

(* What a walk has passed: its category is not there, and nothing outside but  *)
(* where the walk has come to is a parent of it.                              *)
Passed(tree, call, V) ==
  /\ V \subseteq Categories /\ call.category \notin V /\ call.parent \in V \cup {call.current}
  /\ \A v \in V : tree[v].parent \in V \cup {call.current}
Walked(g) ==
  calls[g].at = "walk" /\ calls[g].touched \cap Categories = {} => \E V : Passed(category, calls[g], V)

TreeInv == "categories" \in contested \/ (Tree /\ \A g \in Handlers : Walked(g))

(* The parents are as they were. *)
SameParents == \A c \in Categories : category'[c].parent = category[c].parent

LEMMA KeptWalked ==
  ASSUME TypeOK, TypeOK', NEW g \in Handlers, Kept(g), Walked(g), SameParents
  PROVE  Walked(g)'
<1> SUFFICES ASSUME calls'[g].at = "walk", calls'[g].touched \cap Categories = {}
             PROVE  \E V : Passed(category', calls'[g], V)
  BY DEF Walked
<1>1. calls'[g] \in WalkCalls
  BY Kinds DEF TypeOK
<1>2. calls[g].at = "walk" /\ calls[g].touched \subseteq calls'[g].touched
      /\ \A f \in DOMAIN calls'[g] : f # "touched" => calls'[g][f] = calls[g][f]
  BY KeptCall
<1>3. calls'[g].category = calls[g].category /\ calls'[g].parent = calls[g].parent
      /\ calls'[g].current = calls[g].current
  BY <1>1, <1>2 DEF WalkCalls
<1>4. PICK V : Passed(category, calls[g], V)
  BY <1>2 DEF Walked
<1> QED BY <1>3, <1>4 DEF Passed, SameParents

LEMMA TreeKept ==
  ASSUME TypeOK, TypeOK', TreeInv, SameParents, contested \subseteq contested',
         \A g \in Handlers : Kept(g) \/ Walked(g)'
  PROVE  TreeInv'
<1>1. CASE "categories" \in contested
  BY <1>1 DEF TreeInv
<1>2. CASE Tree /\ \A g \in Handlers : Walked(g)
  <2>1. Tree'
    BY <1>2 DEF Tree, SameParents
  <2>2. \A g \in Handlers : Walked(g)'
    BY <1>2, KeptWalked
  <2> QED BY <2>1, <2>2 DEF TreeInv
<1> QED BY <1>1, <1>2 DEF TreeInv

(* A walk that begins has passed nothing.                                     *)
LEMMA BegunWalked ==
  ASSUME TypeOK, TypeOK', NEW h \in Handlers, CatalogRequest(h)
  PROVE  Walked(h)' /\ (\A g \in Handlers \ {h} : calls'[g] = calls[g]) /\ UNCHANGED <<others, catalog>>
<1>0. UNCHANGED <<others, catalog>>
  BY CatalogRequestTyping
<1>1. ASSUME NEW c \in Categories, NEW p \in Categories \cup {None}, MoveCategory(h, c, p) \/ NewCategory(h, c, p)
      PROVE  Walked(h)' /\ \A g \in Handlers \ {h} : calls'[g] = calls[g]
  <2> DEFINE x == [at |-> "walk", category |-> c, parent |-> p, current |-> p, depth |-> 0]
  <2>1. Untouched(x).category = c /\ Untouched(x).parent = p /\ Untouched(x).current = p
    BY DEF Untouched
  <2>2. Begin(h, "categories", x)
    BY <1>1 DEF MoveCategory, NewCategory
  <2>3. calls'[h] = Untouched(x) /\ \A g \in Handlers \ {h} : calls'[g] = calls[g]
    BY <2>2 DEF Begin, TypeOK
  <2> HIDE DEF x
  <2>4. Passed(category', calls'[h], {})
    BY <2>1, <2>3 DEF Passed
  <2> QED BY <2>3, <2>4 DEF Walked
<1>2. ASSUME NEW x, Begin(h, "products", x), Untouched(x).at # "walk"
      PROVE  Walked(h)' /\ \A g \in Handlers \ {h} : calls'[g] = calls[g]
  BY <1>2 DEF Begin, TypeOK, Walked
<1>3. ASSUME NEW at, NEW f, at # "walk"
      PROVE  /\ Untouched([at |-> at, category |-> f]).at # "walk" /\ Untouched([at |-> at, edit |-> f]).at # "walk"
             /\ Untouched([at |-> at, status |-> f]).at # "walk"
  BY <1>3 DEF Untouched
<1>4. ASSUME NEW u \in Users, NEW c \in Categories \cup {None}, CreateProduct(h, u, c)
      PROVE  Walked(h)' /\ \A g \in Handlers \ {h} : calls'[g] = calls[g]
  <2>1. Begin(h, "products", [at |-> "create", category |-> c])
    BY <1>4 DEF CreateProduct
  <2>2. Untouched([at |-> "create", category |-> c]).at # "walk"
    BY <1>3
  <2> QED BY <1>2, <2>1, <2>2
<1>5. ASSUME NEW u \in Users, NEW e \in Edits, Edit(h, u, e)
      PROVE  Walked(h)' /\ \A g \in Handlers \ {h} : calls'[g] = calls[g]
  <2>1. Begin(h, "products", [at |-> "edit", edit |-> e])
    BY <1>5 DEF Edit
  <2>2. Untouched([at |-> "edit", edit |-> e]).at # "walk"
    BY <1>3
  <2> QED BY <1>2, <2>1, <2>2
<1>6. ASSUME NEW u \in Users,
             PublishProduct(h, u) \/ ArchiveProduct(h, u) \/ CompleteMediaUpload(h, u) \/ UpdateMedia(h, u)
               \/ DeleteMedia(h, u)
      PROVE  Walked(h)' /\ \A g \in Handlers \ {h} : calls'[g] = calls[g]
  <2>1. PICK at \in {"status", "media", "object"}, s \in {"ACTIVE", "ARCHIVED", "same", "DELETED"} :
          Begin(h, "products", [at |-> at, status |-> s])
    BY <1>6 DEF PublishProduct, ArchiveProduct, CompleteMediaUpload, UpdateMedia, DeleteMedia
  <2>2. Untouched([at |-> at, status |-> s]).at # "walk"
    BY <1>3
  <2> QED BY <1>2, <2>1, <2>2
<1>7. ASSUME NEW d \in Decisions, ModerateProduct(h, d)
      PROVE  Walked(h)' /\ \A g \in Handlers \ {h} : calls'[g] = calls[g]
  <2>1. Begin(h, "products", [at |-> "moderate", decision |-> d, seen |-> Look])
    BY <1>7 DEF ModerateProduct
  <2>2. Untouched([at |-> "moderate", decision |-> d, seen |-> Look]).at # "walk"
    BY DEF Untouched
  <2> QED BY <1>2, <2>1, <2>2
<1> QED BY <1>0, <1>1, <1>4, <1>5, <1>6, <1>7 DEF CatalogRequest

(* A walk goes on past what is not its category.                              *)
LEMMA WalkedOn ==
  ASSUME TypeOK, TypeOK', NEW h \in Handlers, Walked(h), WalkUp(h)
  PROVE  UNCHANGED <<others, catalog>> /\ \A g \in Handlers : Kept(g) \/ Walked(g)'
<1> DEFINE call == calls[h]
<1>0. UNCHANGED <<others, catalog>>
  BY DEF WalkUp
<1>1. call \in WalkCalls /\ call.at = "walk" /\ call.current # None /\ calls \in [Handlers -> Calls]
      /\ category \in [Categories -> CategoryRows]
  BY Kinds DEF WalkUp, TypeOK, CatalogTypeOK
<1>2. CASE Refuse(h)
  BY <1>0, <1>1, <1>2, RefusedCalls
<1>3. CASE Continue(h, [call EXCEPT !.current = category[@].parent, !.depth = @ + 1]) /\ ~ReachesItself(call)
  <2> DEFINE d == [call EXCEPT !.current = category[@].parent, !.depth = @ + 1]
  <2>1. /\ d \in WalkCalls /\ d.at = "walk" /\ d.touched = call.touched
        /\ d.category = call.category /\ d.parent = call.parent
        /\ d.current = category[call.current].parent
    BY <1>1, WalkedUp
  <2>2. Continue(h, d)
    BY <1>3
  <2> HIDE DEF d
  <2>3. d \in Calls
    BY <2>1 DEF Calls, CatalogCalls
  <2>4. calls'[h] = d /\ \A g \in Handlers \ {h} : Kept(g)
    BY <1>1, <2>2, <2>3, ContinuedCalls
  <2>5. ASSUME d.touched \cap Categories = {}
        PROVE  \E V : Passed(category', d, V)
    <3>1. PICK V : Passed(category, call, V)
      BY <1>1, <2>1, <2>5 DEF Walked
    <3>2. call.current \in Categories /\ call.current # call.category
      BY <1>1, <1>3 DEF WalkCalls, ReachesItself
    <3>3. category' = category
      BY <1>0 DEF catalog
    <3>4. Passed(category', d, V \cup {call.current})
      BY <2>1, <3>1, <3>2, <3>3 DEF Passed
    <3> QED BY <3>4
  <2>6. Walked(h)'
    BY <2>4, <2>5 DEF Walked
  <2> QED BY <1>0, <2>4, <2>6
<1> QED BY <1>0, <1>2, <1>3 DEF WalkUp

(* Above the root there is nothing left to pass, and the category that moves   *)
(* is not among what was passed: it may hang below its new parent.            *)
LEMMA TreeWritten ==
  ASSUME TypeOK, TypeOK', TreeInv, NEW h \in Handlers, WriteParent(h)
  PROVE  TreeInv'
<1> DEFINE call == calls[h]
           c    == call.category
<1>1. call \in WalkCalls /\ call.at = "walk" /\ call.current = None
      /\ category \in [Categories -> CategoryRows] /\ category' \in [Categories -> CategoryRows]
  BY Kinds DEF WriteParent, TypeOK, CatalogTypeOK
<1>2. c \in Categories /\ {c} \in SUBSET Row
  BY <1>1 DEF WalkCalls, Row
<1>3. /\ category'[c].parent = call.parent /\ \A x \in Categories \ {c} : category'[x] = category[x]
      /\ contested' = IF Overlapped(h, Categories) THEN contested \cup {"categories"} ELSE contested
      /\ Commit(h, {c})
  BY <1>1, <1>2 DEF WriteParent
<1>4. CASE "categories" \in contested'
  BY <1>4 DEF TreeInv
<1>5. CASE "categories" \notin contested'
  <2>1. Tree /\ Walked(h) /\ call.touched \cap Categories = {}
    BY <1>3, <1>5 DEF TreeInv, Overlapped
  <2>2. PICK V : Passed(category, call, V)
    BY <1>1, <2>1 DEF Walked
  <2>3. /\ V \subseteq Categories /\ c \notin V /\ call.parent \in V \cup {None}
        /\ \A v \in V : category[v].parent \in V \cup {None}
    BY <1>1, <2>2 DEF Passed
  <2>4. ASSUME NEW C \in SUBSET Categories, C # {}
        PROVE  \E d \in C : category'[d].parent \notin C
    <3>0. None \notin C
      BY CatalogAssumption
    <3>1. CASE C \cap V # {}
      <4>1. PICK d \in C \cap V : category[d].parent \notin C \cap V
        BY <2>1, <3>1 DEF Tree
      <4>2. category[d].parent \notin C
        BY <2>3, <3>0, <4>1
      <4>3. d # c /\ d \in Categories
        BY <2>3, <4>1
      <4> QED BY <1>3, <4>1, <4>2, <4>3
    <3>2. CASE C \cap V = {}
      <4>1. PICK d \in C : category[d].parent \notin C
        BY <2>1, <2>4 DEF Tree
      <4>2. call.parent \notin C
        BY <2>3, <3>0, <3>2
      <4>3. category'[d].parent \notin C
        BY <1>3, <4>1, <4>2
      <4> QED BY <4>1, <4>3
    <3> QED BY <3>1, <3>2
  <2>5. Tree'
    BY <2>4 DEF Tree
  <2>6. ASSUME NEW g \in Handlers
        PROVE  Walked(g)'
    <3>1. calls \in [Handlers -> Calls]
      BY DEF TypeOK
    <3>2. calls'[h] = Idle /\ (g # h => calls'[g] = Touched(calls[g], {c}))
      BY <1>2, <1>3, <3>1, CommittedCalls
    <3>3. calls'[g] = Idle \/ c \in calls'[g].touched
      BY <1>2, <3>1, <3>2, TouchedCall
    <3>4. Idle.at # "walk"
      BY DEF Idle
    <3> QED BY <1>2, <3>3, <3>4 DEF Walked
  <2> QED BY <2>5, <2>6 DEF TreeInv
<1> QED BY <1>4, <1>5

LEMMA TreeNext ==
  ASSUME TypeOK, TypeOK', TreeInv, [Next]_vars
  PROVE  TreeInv'
<1>1. CASE CatalogAct
  <2>0. contested \subseteq contested'
    BY <1>1, CatalogActTyping DEF CatalogOnly
  <2>1. ASSUME NEW h \in Handlers, CatalogRequest(h) PROVE TreeInv'
    <3>1. \A g \in Handlers : Kept(g) \/ Walked(g)'
      BY <2>1, BegunWalked DEF Kept
    <3>2. SameParents
      BY <2>1, BegunWalked DEF SameParents, catalog
    <3> QED BY <2>0, <3>1, <3>2, TreeKept
  <2>2. ASSUME NEW h \in Handlers, WalkUp(h) PROVE TreeInv'
    <3>1. CASE "categories" \in contested
      BY <2>0, <3>1 DEF TreeInv
    <3>2. CASE \A g \in Handlers : Walked(g)
      <4>1. UNCHANGED <<others, catalog>> /\ \A g \in Handlers : Kept(g) \/ Walked(g)'
        BY <2>2, <3>2, WalkedOn
      <4>2. SameParents
        BY <4>1 DEF SameParents, catalog
      <4> QED BY <2>0, <4>1, <4>2, TreeKept
    <3> QED BY <3>1, <3>2 DEF TreeInv
  <2>3. ASSUME NEW h \in Handlers, WriteParent(h) PROVE TreeInv'
    BY <2>3, TreeWritten
  <2>4. ASSUME NEW h \in Handlers,
               WriteProduct(h) \/ WriteEdit(h) \/ SetProductStatus(h) \/ SetModerationStatus(h) \/ WriteMedia(h)
                 \/ DeleteObject(h)
        PROVE  TreeInv'
    <3>1. category' = category
      BY <2>4 DEF WriteProduct, WriteEdit, SetProductStatus, SetModerationStatus, WriteMedia, DeleteObject
    <3>2. ASSUME NEW g \in Handlers PROVE Kept(g) \/ Walked(g)'
      <4>0. calls \in [Handlers -> Calls] /\ {} \in SUBSET Row
        BY DEF TypeOK
      <4>1. ASSUME Commit(h, {}) PROVE Kept(g)
        BY <4>0, <4>1, CommittedCalls
      <4>2. CASE WriteMedia(h)
        <5> DEFINE d == [calls[h] EXCEPT !.at = "object"]
        <5>1. calls[h] \in MediaCalls
          BY <4>0, <4>2, Kinds DEF WriteMedia
        <5>2. d \in MediaCalls /\ d.at = "object"
          BY <5>1 DEF MediaCalls
        <5>3. Continue(h, d) \/ Commit(h, {})
          BY <4>2 DEF WriteMedia
        <5> HIDE DEF d
        <5>4. d \in Calls
          BY <5>2 DEF Calls, CatalogCalls
        <5> QED BY <4>0, <4>1, <5>2, <5>3, <5>4, ContinuedCalls DEF Walked
      <4>3. CASE ~WriteMedia(h)
        BY <2>4, <4>1, <4>3 DEF WriteProduct, WriteEdit, SetProductStatus, SetModerationStatus, DeleteObject
      <4> QED BY <4>2, <4>3
    <3> QED BY <2>0, <3>1, <3>2, TreeKept DEF SameParents
  <2>5. CASE CatalogMove
    <3>1. calls' = calls
      BY <2>5, CatalogMoveTyping
    <3>2. SameParents
      <4>1. ASSUME NEW c \in Categories, NEW s \in {"ACTIVE", "INACTIVE"}, SetCategoryStatus(c, s)
            PROVE  SameParents
        <5>1. category \in [Categories -> CategoryRows] /\ category' = [category EXCEPT ![c].status = s]
          BY <4>1 DEF SetCategoryStatus, TypeOK, CatalogTypeOK
        <5>2. category[c] \in CategoryRows /\ [category[c] EXCEPT !.status = s].parent = category[c].parent
          BY <5>1 DEF CategoryRows
        <5> QED BY <5>1, <5>2 DEF SameParents
      <4>2. CASE category' = category
        BY <4>2 DEF SameParents
      <4> QED BY <2>5, <4>1, <4>2 DEF CatalogMove, CreateMediaUploadIntent, Upload,
        UploadLapses
    <3>3. \A g \in Handlers : Kept(g)
      BY <3>1 DEF Kept
    <3> QED BY <2>0, <3>2, <3>3, TreeKept
  <2> QED BY <1>1, <2>1, <2>2, <2>3, <2>4, <2>5 DEF CatalogAct, CatalogStep
<1>2. CASE MemberAct \/ PrivacyAct \/ SellingAct \/ UNCHANGED vars
  <2>1. category' = category
    BY <1>2 DEF MemberAct, PrivacyAct, SellingAct, catalog, vars
  <2>2. contested \subseteq contested'
    <3>1. CASE MemberAct
      <4>1. ASSUME NEW h \in Handlers, MemberRequest(h) PROVE contested \subseteq contested'
        BY <4>1, MemberRequestTyping DEF membership
      <4>2. ASSUME NEW h \in Handlers, MemberStep(h) PROVE contested \subseteq contested'
        BY <4>2, MemberStepWrites DEF Contend
      <4>3. ASSUME NEW u \in Users, AcceptInvitation(u) PROVE contested \subseteq contested'
        BY <4>3, AcceptanceWrites
      <4> QED BY <3>1, <4>1, <4>2, <4>3 DEF MemberAct
    <3>2. CASE PrivacyAct
      <4>1. ASSUME NEW h \in Handlers, PrivacyRequest(h) PROVE contested \subseteq contested'
        BY <4>1, PrivacyRequestTyping DEF membership
      <4>2. ASSUME NEW h \in Handlers, PrivacyStep(h) PROVE contested \subseteq contested'
        BY <4>2 DEF PrivacyStep, CreateRequest, RejectRequest, CommitErasure, Contend, membership
      <4> QED BY <3>2, <4>1, <4>2 DEF PrivacyAct
    <3>3. CASE SellingAct \/ UNCHANGED vars
      BY <3>3, SellingActTyping DEF vars, membership
    <3> QED BY <1>2, <3>1, <3>2, <3>3
  <2>3. ASSUME NEW g \in Handlers PROVE Kept(g) \/ Walked(g)'
    <3>1. Kept(g) \/ calls'[g].at \in MemberKinds \cup PrivacyKinds \cup SellingKinds
      BY <1>2, MemberActTyping, PrivacyActTyping, SellingActTyping DEF Only, vars, Kept
    <3> QED BY <3>1 DEF Walked, MemberKinds, PrivacyKinds, SellingKinds
  <2> QED BY <2>1, <2>2, <2>3, TreeKept DEF SameParents
<1> QED BY <1>1, <1>2, Acts

(* The categories stay a forest under moves that interleave with the walks of  *)
(* others, as long as no parent was written that a walk had already read.      *)
THEOREM CategoriesStayATree == Spec => []CategoryTree
<1>1. Init => TreeInv
  <2> SUFFICES ASSUME Init PROVE TreeInv
    OBVIOUS
  <2>1. PICK s \in Scenarios : category = s.category
    BY DEF Init
  <2>2. calls = [h \in Handlers |-> Idle]
    BY DEF Init
  <2>3. \A c \in Categories : category[c].parent = None
    BY <2>1, MarketplaceAssumption
  <2>4. Tree
    BY <2>3, CatalogAssumption DEF Tree
  <2>5. \A g \in Handlers : Walked(g)
    BY <2>2 DEF Walked, Idle
  <2> QED BY <2>4, <2>5 DEF TreeInv
<1>2. TypeOK /\ TypeOK' /\ TreeInv /\ [Next]_vars => TreeInv'
  BY TreeNext
<1>3. TreeInv => CategoryTree
  BY DEF TreeInv, CategoryTree, Tree
<1> QED BY <1>1, <1>2, <1>3, Typing, PTL DEF Spec
=============================================================================
