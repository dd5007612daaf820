----------------------------- MODULE Organizations -----------------------------
(***************************************************************************)
(* Organizations, their members and coordinators: the calls of             *)
(* users_organizations/src/organization.rs.                                *)
(*                                                                         *)
(* A membership is a pair of links, OrganizationMembers from the           *)
(* organization and UserOrganizations from the user; a coordinator has one *)
(* link more.  A user is named by its agent (create_user refuses a second  *)
(* profile), and every profile has reached everyone.  Of the moderation of *)
(* an organization this module keeps what the calls here read and delete,  *)
(* its status link and its accepted link; EntityStatus has the whole.      *)
(***************************************************************************)
EXTENDS Dht

CONSTANTS
  Admins,             \* the agents with an AgentAdministrators link
  AcceptedUsers,      \* the agents whose users are accepted
  MaxOrganizations,   \* bound: organizations created
  MaxRevisions        \* bound: updates of organizations

\* What the constants must be.
OrganizationsAssumption ==
  /\ Admins \subseteq Agents
  /\ AcceptedUsers \subseteq Agents
  /\ MaxOrganizations \in Nat
  /\ MaxRevisions \in Nat

VARIABLE orgs   \* ids of the organizations ever created

vars == <<dhtVars, orgs>>

AllPath == "organizations"
AcceptedPath == "organizations.status.accepted"

Init == DhtInit /\ orgs = {}

-----------------------------------------------------------------------------
(* Reads. *)

MembersLinks(a, o) == GetLinks(a, "OrganizationMembers", o)

UserOrganizationsLinks(a, u) == GetLinks(a, "UserOrganizations", u)

CoordinatorsLinks(a, o) == GetLinks(a, "OrganizationCoordinators", o)

StatusLinks(a, o) == GetLinks(a, "EntityStatus", o)

AcceptedLinks(a, o) == {l \in GetLinks(a, "AcceptedEntity", AcceptedPath) : l.target = o}

To(ls, x) == {l \in ls : l.target = x}

\* is_organization_member: both links must exist.
IsMember(a, o, u) ==
  To(MembersLinks(a, o), u) # {} /\ To(UserOrganizationsLinks(a, u), o) # {}

IsCoordinator(a, o, u) == To(CoordinatorsLinks(a, o), u) # {}

IsAccepted(a, o) == AcceptedLinks(a, o) # {}

\* get_latest_organization_record: the newest revision linked to the original,
\* or the original itself; what it names may be deleted or not have arrived.
Latest(a, o) ==
  LET updates == GetLinks(a, "OrganizationUpdates", o)
  IN  IF updates = {} THEN o
      ELSE (CHOOSE l \in updates : \A m \in updates : m.id <= l.id).target

\* The ids of the first n of some links, whichever those are, or of all of them.
FirstIds(n, ls) ==
  {S \in SUBSET {l.id : l \in ls} :
     IF Cardinality(ls) <= n THEN S = {l.id : l \in ls} ELSE Cardinality(S) = n}

-----------------------------------------------------------------------------
(* What calls write. *)

\* The pair of links of a membership.
Membership(id, o, u) ==
  {Link(id, "OrganizationMembers", o, u), Link(id + 1, "UserOrganizations", u, o)}

\* Fault: the members are not told of the deletion.
DeletionKeepsMembers(a, o, del) ==
  {del \cup S \cup {o} \cup {l.id : l \in CoordinatorsLinks(a, o) \cup MembersLinks(a, o)} :
     S \in FirstIds(1, StatusLinks(a, o))}

\* The links to members that are left after `del` was deleted in the same call.
MembersLeft(a, o, del) == {l \in MembersLinks(a, o) : l.id \notin del}

\* For every link to a member one link of that member goes.
LinksBack(a, o, u, del) ==
  FirstIds(Cardinality(To(MembersLeft(a, o, del), u)),
           {l \in To(UserOrganizationsLinks(a, u), o) : l.id \notin del})

\* The choices of such links for every member.
AllLinksBack(a, o, del) ==
  LET users == {l.target : l \in MembersLeft(a, o, del)}
  IN  {f \in [users -> UNION {LinksBack(a, o, u, del) : u \in users}] :
         \A u \in users : f[u] \in LinksBack(a, o, u, del)}

\* delete_organization by a coordinator, after `del` was deleted in the same
\* call: what it may delete.  The accepted link is looked up twice; without a
\* status link in sight delete_status, and with it the call, fails.
Deletion(a, o, del) ==
  {del \cup {o} \cup {l.id : l \in MembersLeft(a, o, del) \cup CoordinatorsLinks(a, o)}
       \cup (UNION {f[u] : u \in DOMAIN f}) \cup A \cup S \cup T :
     f \in AllLinksBack(a, o, del),
     A \in FirstIds(1, To(GetLinks(a, "AllOrganizations", AllPath), o)),
     S \in {{l.id} : l \in StatusLinks(a, o)},
     T \in FirstIds(2, AcceptedLinks(a, o))}

-----------------------------------------------------------------------------
(* Calls. *)

\* create_organization: its entry, its place on the list, a pending status, and
\* the creator as its member and coordinator.
CreateOrganization(a) ==
  LET o == clock + 1
  IN  /\ Cardinality(orgs) < MaxOrganizations
      /\ Commit(a, 6, {Link(clock + 2, "AllOrganizations", AllPath, o),
                       Link(clock + 3, "EntityStatus", o, clock + 3),
                       Link(clock + 6, "OrganizationCoordinators", o, a)}
                      \cup Membership(clock + 4, o, a), {})
      /\ orgs' = orgs \cup {o}

\* update_entity_status on an organization, as far as its calls read it.
SetAccepted(a, o, accept) ==
  LET accepted == IF accept THEN {Link(clock + 2, "AcceptedEntity", AcceptedPath, o)} ELSE {}
  IN  /\ a \in Admins
      /\ \E old \in StatusLinks(a, o), T \in FirstIds(1, AcceptedLinks(a, o)) :
           Commit(a, 1 + Cardinality(accepted),
                  {Link(clock + 1, "EntityStatus", o, clock + 1)} \cup accepted, {old.id} \cup T)
      /\ UNCHANGED orgs

\* add_member_to_organization.
AddMember(a, o, u) ==
  /\ IsCoordinator(a, o, a)
  /\ IsAccepted(a, o)
  /\ ~IsMember(a, o, u)
  /\ Commit(a, 2, Membership(clock + 1, o, u), {})
  /\ UNCHANGED orgs

\* add_coordinator_to_organization: the user becomes a member first.
AddCoordinator(a, o, u) ==
  LET member == IF IsMember(a, o, u) THEN {} ELSE Membership(clock + 2, o, u)
  IN  /\ IsCoordinator(a, o, a)
      /\ IsAccepted(a, o)
      /\ u \in AcceptedUsers
      /\ ~IsCoordinator(a, o, u)
      /\ Commit(a, 1 + Cardinality(member),
                {Link(clock + 1, "OrganizationCoordinators", o, u)} \cup member, {})
      /\ UNCHANGED orgs

\* remove_organization_member: no coordinator and not the last member.
RemoveMember(a, o, u) ==
  /\ IsCoordinator(a, o, a)
  /\ IsAccepted(a, o)
  /\ IsMember(a, o, u)
  /\ ~IsCoordinator(a, o, u)
  /\ Cardinality(MembersLinks(a, o)) > 1
  /\ \E l \in To(MembersLinks(a, o), u), m \in To(UserOrganizationsLinks(a, u), o) :
       Commit(a, 0, {}, {l.id, m.id})
  /\ UNCHANGED orgs

\* Fault: the last coordinator may go.
RemoveAnyCoordinator(a, o, u) ==
  /\ IsCoordinator(a, o, a)
  /\ IsAccepted(a, o)
  /\ \E l \in To(CoordinatorsLinks(a, o), u) : Commit(a, 0, {}, {l.id})
  /\ UNCHANGED orgs

\* remove_organization_coordinator: not the last one; stays a member.
RemoveCoordinator(a, o, u) ==
  /\ IsCoordinator(a, o, a)
  /\ IsAccepted(a, o)
  /\ Cardinality(CoordinatorsLinks(a, o)) > 1
  /\ \E l \in To(CoordinatorsLinks(a, o), u) : Commit(a, 0, {}, {l.id})
  /\ UNCHANGED orgs

\* The coordinator link leave_organization removes, through the checks of
\* remove_organization_coordinator.
Resigned(a, o) ==
  IF ~IsCoordinator(a, o, a) THEN {{}}
  ELSE IF Cardinality(CoordinatorsLinks(a, o)) > 1 /\ IsAccepted(a, o)
       THEN {{l.id} : l \in To(CoordinatorsLinks(a, o), a)}
       ELSE {}

\* leave_organization.  Whoever leaves as the last member deletes the
\* organization, but delete_organization wants a coordinator.
LeaveOrganization(a, o) ==
  /\ IsMember(a, o, a)
  /\ \E R \in Resigned(a, o), l \in To(MembersLinks(a, o), a),
        m \in To(UserOrganizationsLinks(a, a), o) :
       LET left == R \cup {l.id, m.id}
       IN  IF Cardinality(MembersLinks(a, o)) > 1 THEN Commit(a, 0, {}, left)
           ELSE /\ \E c \in To(CoordinatorsLinks(a, o), a) : c.id \notin R
                /\ \E D \in Deletion(a, o, left) : Commit(a, 0, {}, D)
  /\ UNCHANGED orgs

\* update_organization: a new revision, linked to the original.
UpdateOrganization(a, o) ==
  /\ IsCoordinator(a, o, a)
  /\ Cardinality({l \in links : l.type = "OrganizationUpdates"}) < MaxRevisions
  /\ Commit(a, 2, {Link(clock + 2, "OrganizationUpdates", o, clock + 1)}, {})
  /\ UNCHANGED orgs

DeleteOrganization(a, o) ==
  /\ IsCoordinator(a, o, a)
  /\ \E D \in Deletion(a, o, {}) : Commit(a, 0, {}, D)
  /\ UNCHANGED orgs

Call(a) ==
  \/ CreateOrganization(a)
  \/ \E o \in orgs : \/ \E accept \in BOOLEAN : SetAccepted(a, o, accept)
                     \/ LeaveOrganization(a, o)
                     \/ UpdateOrganization(a, o)
                     \/ DeleteOrganization(a, o)
  \/ \E o \in orgs, u \in Agents : \/ AddMember(a, o, u)
                                   \/ AddCoordinator(a, o, u)
                                   \/ RemoveMember(a, o, u)
                                   \/ RemoveCoordinator(a, o, u)

Deliver == Gossip /\ UNCHANGED orgs

Next == (\E a \in Agents : Call(a)) \/ Deliver

Spec == Init /\ [][Next]_vars

-----------------------------------------------------------------------------
(* Properties. *)

LinkType ==
  [id : Nat, type : {"AllOrganizations"}, base : {AllPath}, target : orgs]
  \cup [id : Nat, type : {"AcceptedEntity"}, base : {AcceptedPath}, target : orgs]
  \cup [id : Nat, type : {"EntityStatus", "OrganizationUpdates"}, base : orgs, target : Ids]
  \cup [id : Nat, type : {"OrganizationMembers", "OrganizationCoordinators"}, base : orgs, target : Agents]
  \cup [id : Nat, type : {"UserOrganizations"}, base : Agents, target : orgs]

\* Type invariant: every link joins what its type says.
TypeOK ==
  /\ DhtTypeOK
  /\ orgs \subseteq Ids
  /\ links \subseteq LinkType

\* The links of the whole table.
Members(o, u) == To(Live("OrganizationMembers", o), u)
Memberships(u, o) == To(Live("UserOrganizations", u), o)
Coordinators(o) == Live("OrganizationCoordinators", o)

\* Without overlapping calls a user is a member for the organization exactly if
\* the organization is one of the user's, by one link each way
\* (organization.rs:119-131, 393-415, 461-472, 560-581).
MembershipBothWays ==
  serial =>
    \A o \in orgs, u \in Agents :
      \/ Members(o, u) = {} /\ Memberships(u, o) = {}
      \/ \E l, m \in links : Members(o, u) = {l} /\ Memberships(u, o) = {m}

\* Without overlapping calls a coordinator is a member, by one link
\* (organization.rs:243-246, 383-391, 444-446).
CoordinatorsAreMembers ==
  serial =>
    \A o \in orgs, u \in Agents :
      /\ Cardinality(To(Coordinators(o), u)) <= 1
      /\ To(Coordinators(o), u) # {} => Members(o, u) # {}

\* Without overlapping calls an organization keeps a coordinator until it is
\* deleted: the guards of three calls together see to it
\* (organization.rs:385-388, 444-446, 488-491).
CoordinatorRemains == serial => \A o \in orgs \ dead : Coordinators(o) # {}

\* Without overlapping calls a deleted organization is on no list and no user's
\* (organization.rs:548-634): a link left over makes get_user_organizations
\* fail for that user as a whole.
DeletionIsComplete ==
  serial =>
    \A o \in orgs \cap dead :
      /\ Coordinators(o) = {}
      /\ \A u \in Agents : Members(o, u) = {} /\ Memberships(u, o) = {}
      /\ To(Live("AllOrganizations", AllPath), o) = {}
      /\ To(Live("AcceptedEntity", AcceptedPath), o) = {}

\* Whatever the calls overlap with, one who is no coordinator in its own copy
\* takes nobody else's place away, nor the organization: leaving as the last
\* member a partial copy shows goes through the check of delete_organization
\* (organization.rs:417-421, 552-554).
OthersKeepPlaces ==
  \A a \in Agents, o \in orgs :
    (Call(a) /\ ~IsCoordinator(a, o, a)) =>
      /\ o \in dead' <=> o \in dead
      /\ Coordinators(o)' = Coordinators(o)
      /\ \A u \in Agents \ {a} : Members(o, u)' = Members(o, u)

\* What errors.rs:93 ("Cannot remove last coordinator") stands for, of every
\* behaviour: an organization that is not deleted has a coordinator.
AlwaysACoordinator == \A o \in orgs \ dead : Coordinators(o) # {}

\* What organizations.md says of delete_organization ("Removes all associated
\* links"), for reading: without overlapping calls, get_latest_organization of a
\* deleted organization finds nothing.
DeletedIsNotFound ==
  serial => \A o \in orgs \cap dead, a \in Agents : UpToDate(a) => ~Found(a, Latest(a, o))
=============================================================================
