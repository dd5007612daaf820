-------------------------------- MODULE MCZomes --------------------------------
(***************************************************************************)
(* The zomes of organizations, listings and mediums of exchange, on small  *)
(* networks.  These share no entries and no links, so a behaviour is of    *)
(* one of them: `scenario` says of which one, and on which network.  In    *)
(* the scenarios whose calls do not overlap each call is made on a         *)
(* complete copy, and what was published before has reached everyone,      *)
(* which is many steps of gossip in one; a copy that is not complete       *)
(* matters to no call there.                                               *)
(***************************************************************************)
EXTENDS Naturals, FiniteSets

CONSTANTS
  Scenarios,    \* the scenarios looked at
  OverlapOps,   \* bound: creations where calls on an organization overlap
  a1, a2, a3,   \* agents
  x1,           \* a request or an offer
  g1,           \* an organization
  t1            \* a tag

VARIABLES
  scenario,
  clock, links, dead, seen, gone, serial,   \* of Dht
  orgs,                                     \* of Organizations
  records                                   \* of Listings and Mediums

dht == <<clock, links, dead, seen, gone, serial>>
vars == <<scenario, dht, orgs, records>>

Two == {a1, a2}
Three == {a1, a2, a3}

OrganizationsAlone ==
  INSTANCE Organizations WITH
    Agents <- Three, Admins <- {a1}, AcceptedUsers <- Two,
    MaxOrganizations <- 1, MaxRevisions <- 0, MaxOps <- 15

OrganizationsOverlap ==
  INSTANCE Organizations WITH
    Agents <- Two, Admins <- {a1}, AcceptedUsers <- Two,
    MaxOrganizations <- 1, MaxRevisions <- 1, MaxOps <- OverlapOps

ListingsAlone ==
  INSTANCE Listings WITH
    Kinds <- {"requests", "offers"}, Agents <- Two, Admins <- {a1}, Accepted <- Two,
    Orgs <- {g1}, Tags <- {t1}, MaxListings <- 1, MaxRevisions <- 3, MaxOps <- 18

ListingsOverlap ==
  INSTANCE Listings WITH
    Kinds <- {"offers"}, Agents <- Two, Admins <- {a1}, Accepted <- Two,
    Orgs <- {}, Tags <- {}, MaxListings <- 1, MaxRevisions <- 3, MaxOps <- 10

MediumsAlone ==
  INSTANCE Mediums WITH
    Agents <- Two, Admins <- {a1}, Accepted <- {a2}, Listings <- {x1},
    MaxMediums <- 2, MaxRevisions <- 2, MaxOps <- 9

MediumsOverlap ==
  INSTANCE Mediums WITH
    Agents <- Two, Admins <- Two, Accepted <- {}, Listings <- {x1},
    MaxMediums <- 1, MaxRevisions <- 1, MaxOps <- 6

\* The constants are what the components assume of them.
ASSUME Parameters ==
  /\ OrganizationsAlone!OrganizationsAssumption /\ OrganizationsOverlap!OrganizationsAssumption
  /\ ListingsAlone!ListingsAssumption /\ ListingsOverlap!ListingsAssumption
  /\ MediumsAlone!MediumsAssumption /\ MediumsOverlap!MediumsAssumption

In(s) == scenario = s /\ s \in Scenarios

-----------------------------------------------------------------------------
(* Initial states. *)

NoOrganizations == orgs = {}
NoRecords == records = {}

\* An accepted organization of two coordinators-to-be: what create_organization,
\* update_entity_status and some gossip leave, except that the other agent has
\* not heard of the founder's own links.
Founded ==
  LET o == OrganizationsOverlap!Membership(4, 1, a1)
  IN  /\ orgs = {1}
      /\ clock = 8
      /\ links = o \cup {OrganizationsOverlap!Link(2, "AllOrganizations", OrganizationsOverlap!AllPath, 1),
                         OrganizationsOverlap!Link(3, "EntityStatus", 1, 3),
                         OrganizationsOverlap!Link(6, "OrganizationCoordinators", 1, a1),
                         OrganizationsOverlap!Link(7, "EntityStatus", 1, 7),
                         OrganizationsOverlap!Link(8, "AcceptedEntity", OrganizationsOverlap!AcceptedPath, 1)}
      /\ dead = {3}
      /\ seen = [a \in Two |-> IF a = a1 THEN 1 .. 8 ELSE {1, 2, 3, 7, 8}]
      /\ gone = [a \in Two |-> {3}]
      /\ serial = TRUE

\* An offer that everybody has heard of: the end of create_offer.
Offered ==
  \E a \in Two :
    /\ records = {ListingsOverlap!Record(1, "offers", 1, a, "active")}
    /\ clock = 4
    /\ links = {ListingsOverlap!Link(2, "Active", ListingsOverlap!Active("offers"), 1),
                ListingsOverlap!Link(3, "UserListings", a, 1),
                ListingsOverlap!Link(4, "Creator", 1, a)}
    /\ dead = {}
    /\ seen = [b \in Two |-> 1 .. 4]
    /\ gone = [b \in Two |-> {}]
    /\ serial = TRUE

Init ==
  \/ In("organizations") /\ OrganizationsAlone!Init /\ NoRecords
  \/ In("organizations overlap") /\ Founded /\ NoRecords
  \/ In("listings") /\ ListingsAlone!Init /\ NoOrganizations
  \/ In("listings overlap") /\ Offered /\ NoOrganizations
  \/ In("mediums") /\ MediumsAlone!Init /\ NoOrganizations
  \/ In("mediums overlap") /\ MediumsOverlap!Init /\ NoOrganizations

-----------------------------------------------------------------------------
(* Steps. *)

\* The copy of agent a is complete.
Complete(a) == seen[a] = 1 .. clock /\ gone[a] = dead

\* Everything reaches everyone.
Settle(agents) ==
  /\ \E a \in agents : ~Complete(a)
  /\ seen' = [a \in agents |-> 1 .. clock]
  /\ gone' = [a \in agents |-> dead]
  /\ UNCHANGED <<clock, links, dead, serial, orgs, records>>

OrganizationsStep ==
  /\ \/ In("organizations") /\ \/ \E a \in Three : Complete(a) /\ OrganizationsAlone!Call(a)
                               \/ Settle(Three)
     \/ In("organizations overlap") /\ OrganizationsOverlap!Next
  /\ UNCHANGED records

ListingsStep ==
  /\ \/ In("listings") /\ \/ \E a \in Two : Complete(a) /\ ListingsAlone!Call(a)
                          \/ Settle(Two)
     \/ In("listings overlap") /\ ListingsOverlap!Next
  /\ UNCHANGED orgs

MediumsStep ==
  /\ \/ In("mediums") /\ \/ \E a \in Two : Complete(a) /\ MediumsAlone!Call(a)
                         \/ Settle(Two)
     \/ In("mediums overlap") /\ MediumsOverlap!Next
  /\ UNCHANGED orgs

Next ==
  /\ OrganizationsStep \/ ListingsStep \/ MediumsStep
  /\ UNCHANGED scenario

Spec == Init /\ [][Next]_vars

-----------------------------------------------------------------------------
(* Properties: those of the components, each in the scenarios it is about. *)

\* Type invariant.
TypeOK ==
  /\ In("organizations") => OrganizationsAlone!TypeOK
  /\ In("organizations overlap") => OrganizationsOverlap!TypeOK
  /\ In("listings") => ListingsAlone!TypeOK
  /\ In("listings overlap") => ListingsOverlap!TypeOK
  /\ In("mediums") => MediumsAlone!TypeOK
  /\ In("mediums overlap") => MediumsOverlap!TypeOK

\* Without overlapping calls members and their organizations agree, coordinators
\* are members, nothing refers to a deleted organization, and a deleted listing is
\* found by none of its names (organization.rs:119-131, 383-415, 548-634,
\* request.rs:450-585).
NothingHalfRemoved ==
  /\ In("organizations") =>
       /\ OrganizationsAlone!MembershipBothWays
       /\ OrganizationsAlone!CoordinatorsAreMembers
       /\ OrganizationsAlone!DeletionIsComplete
  /\ In("listings") => ListingsAlone!DeletedIsNotFound

\* Without overlapping calls an organization keeps a coordinator, and whatever
\* overlaps, only a coordinator takes the place of another away
\* (organization.rs:385-388, 417-421, 488-491).
CoordinatorRemains ==
  [][/\ In("organizations") => OrganizationsAlone!CoordinatorRemains'
     /\ In("organizations overlap") => OrganizationsOverlap!OthersKeepPlaces]_vars

\* Without overlapping calls an unedited listing is on one list, and every
\* listing of a user is active or archived (request.rs:310-349, 624-653).
ListedOnce ==
  In("listings") => ListingsAlone!UneditedOnOneList /\ ListingsAlone!MyListingsSplit

\* Whatever overlaps, an agent never goes back to an older revision
\* (request.rs:125-145).
LatestNeverOlder == [][In("listings overlap") => ListingsOverlap!NeverOlder]_vars

\* Without overlapping calls a medium is on one status list and its links to a
\* listing come in pairs; whatever overlaps, a medium in use was approved before,
\* and none drops off the lists (medium_of_exchange.rs:369-371, 409-446, 567-594,
\* 617-648).
MediumsModerated ==
  /\ In("mediums") => MediumsAlone!OneStatus /\ MediumsAlone!PairsBalance
  /\ In("mediums overlap") => MediumsOverlap!LinkedWasApproved /\ MediumsOverlap!NeverStatusless

\* What the repository says and the code does not do; ArchivedLeavesActive has a
\* run of its own.

\* requests.md:125, of archiving.
ArchivedLeavesActive == In("listings") => ListingsAlone!ArchivedLeavesActive

\* errors.rs:93, of coordinators.
AlwaysACoordinator == In("organizations overlap") => OrganizationsOverlap!AlwaysACoordinator
=============================================================================
