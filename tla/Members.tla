------------------------------- MODULE Members --------------------------------
(***************************************************************************)
(* The members of one vendor: who owns it, who is staff, what each of them *)
(* may do, and the requests by which members are invited, changed and      *)
(* removed.                                                                 *)
(***************************************************************************)
EXTENDS Requests

CONSTANTS
  Users,
  Permissions,   \* ALL_VENDOR_PERMISSIONS
  ImpliedBy,     \* READ_PERMISSION_IMPLICATIONS: what each permission follows from
  Grants,        \* the sets of permissions requests name in a run
  Changes        \* the changes to a membership requests ask for in a run

VARIABLES
  member,     \* VendorMember and its VendorMemberPermissions, of each user
  accounts,   \* users whose account is found by its identifier, and may act
  given,      \* permissions an owner has ever given to anybody
  contested   \* what was written by calls that overlapped others on the same rows

membership == <<member, accounts, given, contested>>

NoMember == [role |-> "STAFF", status |-> "NONE", perms |-> {}]
Roles    == {"OWNER", "STAFF"}
Statuses == {"NONE", "INVITED", "ACTIVE", "SUSPENDED", "REMOVED"}
MemberRows == [role : Roles, status : Statuses, perms : SUBSET Permissions]

(* A change names a role and a status, or leaves them, and at most one new   *)
(* set of permissions.                                                      *)
Same    == "same"
Change  == [role : Roles \cup {Same}, status : {Same, "ACTIVE", "SUSPENDED"}, perms : SUBSET SUBSET Permissions]

ASSUME MembersAssumption ==
  /\ ImpliedBy \in [Permissions -> SUBSET Permissions]
  /\ Grants \subseteq SUBSET Permissions
  /\ Changes \subseteq Change
  /\ \A c \in Changes : c.perms = {} \/ \E P \in Grants : c.perms = {P}

(* The loop of expandStaffPermissions ends in the least set that holds what   *)
(* was given and every permission that follows from one it holds.            *)
Closed(P)  == \A p \in Permissions : ImpliedBy[p] \cap P # {} => p \in P
Expansion  == [P \in SUBSET Permissions |->
                {p \in Permissions : \A C \in SUBSET Permissions : (P \subseteq C /\ Closed(C)) => p \in C}]
Expand(P)  == Expansion[P]

ActiveOwner(u) == member[u].role = "OWNER" /\ member[u].status = "ACTIVE"
Owners         == {u \in Users : ActiveOwner(u)}
Effective(u)   == IF ActiveOwner(u) THEN Permissions ELSE Expand(member[u].perms)

(* An authenticated user with an active membership that carries p. *)
Holds(u, p) ==
  /\ u \in accounts
  /\ member[u].status = "ACTIVE"
  /\ IF member[u].role = "OWNER" THEN TRUE ELSE p \in Expand(member[u].perms)

SharesOne(actor, P) == member[actor].role = "STAFF" => (P = {} \/ P \cap Effective(actor) # {})  \* mutation of MayGive
MayGive(actor, P)   == member[actor].role = "STAFF" => P \subseteq Effective(actor)

Anybody(u)  == TRUE  \* mutation of Findable
Findable(u) == u \in accounts

Contend(h) ==
  contested' = IF Overlapped(h, Users) THEN contested \cup {"members"} ELSE contested

-----------------------------------------------------------------------------
InviteMember(h, actor, u, P) ==
  /\ Holds(actor, "staff:invite") /\ MayGive(actor, P)
  /\ Findable(u) /\ u # actor /\ member[u].status \in {"NONE", "REMOVED"}
  /\ Begin(h, "members", [at |-> "invite", user |-> u, perms |-> P, owner |-> member[actor].role = "OWNER"])
  /\ UNCHANGED membership

(* An upsert: whatever the membership has become, it is an invitation now. *)
WriteInvitation(h) ==
  LET call == calls[h] IN
  /\ call.at = "invite"
  /\ member' = [member EXCEPT ![call.user] = [role |-> "STAFF", status |-> "INVITED", perms |-> call.perms]]
  /\ given' = IF call.owner THEN given \cup call.perms ELSE given
  /\ Contend(h) /\ Commit(h, {call.user})
  /\ UNCHANGED accounts

AcceptInvitation(u) ==
  /\ u \in accounts /\ member[u].status = "INVITED"
  /\ Spend("members")
  /\ member' = [member EXCEPT ![u].status = "ACTIVE"]
  /\ calls' = [g \in Handlers |-> Touched(calls[g], {u})]
  /\ UNCHANGED <<accounts, given, contested>>

(* An active owner is put out of office only while there is another.        *)
TakesOwner(u, c)  == ActiveOwner(u) /\ (c.role = "STAFF" \/ c.status = "SUSPENDED")
MayChange(actor, u, c) ==
  /\ u # actor /\ member[u].status \notin {"NONE", "REMOVED"}
  /\ member[u].status = "INVITED" => c.role = Same /\ c.status = Same
  /\ (member[u].role = "OWNER" \/ c.role # Same) => member[actor].role = "OWNER"
  /\ \A P \in c.perms : MayGive(actor, P)
  /\ TakesOwner(u, c) => Cardinality(Owners) > 1

UpdateMember(h, actor, u, c) ==
  /\ Holds(actor, "staff:update") /\ MayChange(actor, u, c)
  /\ Begin(h, "members", [at |-> "update", user |-> u, change |-> c, owner |-> member[actor].role = "OWNER"])
  /\ UNCHANGED membership

WriteUpdate(h) ==
  LET call == calls[h]
      c    == call.change
  IN
  /\ call.at = "update"
  /\ member' = [member EXCEPT ![call.user] =
       [role   |-> IF c.role = Same THEN @.role ELSE c.role,
        status |-> IF c.status = Same THEN @.status ELSE c.status,
        perms  |-> IF c.perms = {} THEN @.perms ELSE UNION c.perms]]
  /\ given' = IF call.owner THEN given \cup UNION c.perms ELSE given
  /\ Contend(h) /\ Commit(h, {call.user})
  /\ UNCHANGED accounts

RemoveMember(h, actor, u) ==
  /\ Holds(actor, "staff:remove")
  /\ u # actor /\ member[u].status \notin {"NONE", "REMOVED"}
  /\ member[u].role = "OWNER" => member[actor].role = "OWNER"
  /\ ActiveOwner(u) => Cardinality(Owners) > 1
  /\ Begin(h, "members", [at |-> "remove", user |-> u])
  /\ UNCHANGED membership

WriteRemoval(h) ==
  LET u == calls[h].user IN
  /\ calls[h].at = "remove"
  /\ member' = [member EXCEPT ![u].status = "REMOVED", ![u].perms = {}]
  /\ Contend(h) /\ Commit(h, {u})
  /\ UNCHANGED <<accounts, given>>

MemberRequest(h) ==
  Free(h, "members") /\ \E actor, u \in Users :
    \/ \E P \in Grants : InviteMember(h, actor, u, P)
    \/ \E c \in Changes : UpdateMember(h, actor, u, c)
    \/ RemoveMember(h, actor, u)

MemberStep(h) == WriteInvitation(h) \/ WriteUpdate(h) \/ WriteRemoval(h)

-----------------------------------------------------------------------------
MembersTypeOK ==
  /\ member \in [Users -> MemberRows]
  /\ accounts \subseteq Users /\ given \subseteq Permissions

(* A vendor keeps an active owner who can sign in, through every order of     *)
(* invitations, promotions, demotions, removals and account erasures. The     *)
(* code only counts the owners before it writes, so this is promised as long  *)
(* as no membership was written by a call another one had overtaken.          *)
OwnerLeft == "members" \in contested \/ Owners \cap accounts # {}

(* Whatever a member of the staff holds, an owner once gave it, or something  *)
(* it follows from, to somebody: staff who invite and change others, on an    *)
(* authority they may have lost since, never make up a permission.            *)
Delegation == \A u \in Users : Expand(member[u].perms) \subseteq Expand(given)
=============================================================================
