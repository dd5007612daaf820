------------------------------ MODULE ZomesProofs ------------------------------
(***************************************************************************)
(* The zomes of organizations, mediums of exchange and listings, on every  *)
(* network and for any number of calls.                                    *)
(*                                                                         *)
(* Organizations: as long as no call ran on an incomplete copy of the      *)
(* table, memberships agree both ways, coordinators are members, an        *)
(* organization keeps one until it is deleted, and then nothing refers to  *)
(* it.  Whatever overlaps, one who is no coordinator takes nobody else's   *)
(* place away.                                                             *)
(*                                                                         *)
(* Mediums, as the instance M: whatever overlaps, a medium that is not     *)
(* deleted is on some status list, and what a listing is linked to was     *)
(* approved before.  When calls do not overlap, a medium is on one list,   *)
(* by one link, a deleted one at most on the rejected list, and the two    *)
(* ways of every pair of a medium and a listing are equally many links.    *)
(*                                                                         *)
(* Listings, as the instance L: whatever overlaps and in whatever order    *)
(* revisions arrive, the revision an agent takes for the latest is never   *)
(* replaced by an older one.  When calls do not overlap, a listing that    *)
(* was never edited is on one list, those of a user are split into active  *)
(* and archived ones, and a deleted one is found by none of its names.     *)
(***************************************************************************)
EXTENDS Organizations, DhtProofs, WellFoundedInduction

CONSTANTS Accepted                                     \* of Mediums and Listings
CONSTANTS Listings, MaxMediums                         \* of Mediums
CONSTANTS Kinds, Orgs, Tags, MaxListings               \* of Listings
VARIABLE records                                       \* of Mediums and Listings

\* The three share the table and no entries.
M == INSTANCE Mediums
L == INSTANCE Listings

-----------------------------------------------------------------------------
(* Organizations. *)


-----------------------------------------------------------------------------
(* What a call on an organization writes. *)

\* The links that say something of organization o, beside its revisions.
Concerns(l, o) ==
  \/ l.type \in {"OrganizationMembers", "OrganizationCoordinators", "EntityStatus"} /\ l.base = o
  \/ l.type \in {"UserOrganizations", "AllOrganizations", "AcceptedEntity"} /\ l.target = o

\* What a call may add for o with the ids it was given.
NewLinks(o, ids) ==
  [id : ids, type : {"AllOrganizations"}, base : {AllPath}, target : {o}]
  \cup [id : ids, type : {"AcceptedEntity"}, base : {AcceptedPath}, target : {o}]
  \cup [id : ids, type : {"EntityStatus", "OrganizationUpdates"}, base : {o}, target : ids]
  \cup [id : ids, type : {"OrganizationMembers", "OrganizationCoordinators"}, base : {o}, target : Agents]
  \cup [id : ids, type : {"UserOrganizations"}, base : Agents, target : {o}]

\* A call on o adds links for it, deletes links that concern it, and maybe o.
Writes(a, o, n, new, cut, gonners) ==
  /\ n \in Nat
  /\ new \subseteq NewLinks(o, clock + 1 .. clock + n)
  /\ \A l, m \in new : l.id = m.id => l = m
  /\ cut \subseteq links /\ \A l \in cut : Concerns(l, o)
  /\ gonners \subseteq {o}
  /\ Commit(a, n, new, IdsOf(cut) \cup gonners)
  /\ orgs' = orgs

\* The type, and no link has the id of an organization.
OrganizationsInv == TypeOK /\ \A l \in links : l.id \notin orgs

LEMMA LinkTypes ==
  ASSUME TypeOK, NEW l \in links
  PROVE  /\ l.type \in {"AllOrganizations", "AcceptedEntity", "UserOrganizations"} => l.target \in orgs
         /\ l.type \in {"OrganizationMembers", "OrganizationCoordinators", "EntityStatus",
                        "OrganizationUpdates"} => l.base \in orgs
         /\ l.type \in {"OrganizationMembers", "OrganizationCoordinators"} => l.target \in Agents
         /\ l.type = "UserOrganizations" => l.base \in Agents
BY DEF TypeOK, LinkType

\* Live links after a call on o.
LEMMA AfterWrites ==
  ASSUME OrganizationsInv, NEW a \in Agents, NEW o \in orgs, NEW n, NEW new, NEW cut, NEW gonners,
         Writes(a, o, n, new, cut, gonners)
  PROVE  /\ OrganizationsInv'
         /\ \A type, base : Live(type, base)' =
              (Live(type, base) \ cut) \cup {l \in new : l.type = type /\ l.base = base}
         /\ \A x \in orgs : x \in dead' <=> x \in dead \cup gonners
         /\ serial' => serial /\ UpToDate(a)
<1> USE DEF OrganizationsInv, TypeOK, Writes
<1> DEFINE del == IdsOf(cut) \cup gonners
<1>1. n \in Nat /\ clock \in Nat /\ orgs \subseteq Ids
  BY DEF DhtTypeOK
<1>2. \A l \in new : l.id \in clock + 1 .. clock + n
  BY DEF NewLinks
<1>3. FreshLinks(n, new)
  BY <1>2 DEF FreshLinks
<1>4. del \subseteq Ids
  BY <1>1 DEF IdsOf, DhtTypeOK
<1>5. Commit(a, n, new, del) /\ Publish(a, n, new, del)
  BY DEF Commit
<1>6. DhtTypeOK'
  <2> HIDE DEF del
  <2> QED BY <1>1, <1>3, <1>4, <1>5, CommitKeepsTable
<1>7. links' = links \cup new /\ clock' = clock + n /\ dead' = dead \cup del
  BY <1>5 DEF Publish
<1>8. Ids \subseteq Ids' /\ clock + 1 .. clock + n \subseteq Ids'
  BY <1>1, <1>7 DEF Ids
<1>9. new \subseteq LinkType'
  BY <1>1, <1>8 DEF NewLinks, LinkType, Ids
<1>10. LinkType \subseteq LinkType'
  BY <1>8 DEF LinkType
<1>11. TypeOK'
  BY <1>1, <1>6, <1>7, <1>8, <1>9, <1>10
<1>12. \A l \in links' : l.id \notin orgs'
  BY <1>1, <1>2, <1>7 DEF Ids
<1>13. ASSUME NEW type, NEW base
       PROVE  Live(type, base)' = (Live(type, base) \ cut) \cup {l \in new : l.type = type /\ l.base = base}
  <2>1. Live(type, base)' =
          {l \in Live(type, base) : l.id \notin del} \cup {l \in new : l.type = type /\ l.base = base}
    <3> HIDE DEF del
    <3> QED BY <1>1, <1>3, <1>4, <1>5, LiveAfterPublish
  <2>2. \A l \in links : l.id \in del <=> l \in cut
    BY DEF IdsOf, DhtTypeOK
  <2>3. Live(type, base) \subseteq links
    BY DEF Live
  <2> QED BY <2>1, <2>2, <2>3
<1>14. \A x \in orgs : x \in dead' <=> x \in dead \cup gonners
  BY <1>7 DEF IdsOf
<1>15. serial' => serial /\ UpToDate(a)
  BY <1>5 DEF Commit
<1> QED BY <1>11, <1>12, <1>13, <1>14, <1>15

Lists(x) == To(Live("AllOrganizations", AllPath), x)
AcceptedOnes(x) == To(Live("AcceptedEntity", AcceptedPath), x)
Status(x) == Live("EntityStatus", x)

\* Nothing of another organization changes.
LEMMA OthersUntouched ==
  ASSUME OrganizationsInv, NEW a \in Agents, NEW o \in orgs, NEW n, NEW new, NEW cut, NEW gonners,
         Writes(a, o, n, new, cut, gonners), NEW x \in orgs \ {o}
  PROVE  /\ \A u \in Agents : Members(x, u)' = Members(x, u) /\ Memberships(u, x)' = Memberships(u, x)
         /\ Coordinators(x)' = Coordinators(x)
         /\ Lists(x)' = Lists(x) /\ AcceptedOnes(x)' = AcceptedOnes(x) /\ Status(x)' = Status(x)
         /\ x \in dead' <=> x \in dead
<1>1. \A type, base : Live(type, base)' =
              (Live(type, base) \ cut) \cup {l \in new : l.type = type /\ l.base = base}
  BY AfterWrites
<1>2. x \in dead' <=> x \in dead
  <2>1. x \in dead' <=> x \in dead \cup gonners
    BY AfterWrites
  <2>2. x \notin gonners
    BY DEF Writes
  <2> QED BY <2>1, <2>2
<1>3. \A l \in new : Concerns(l, o) \/ l.type = "OrganizationUpdates"
  BY DEF Writes, NewLinks, Concerns
<1>4. \A l \in cut : Concerns(l, o)
  BY DEF Writes
<1>5. ASSUME NEW type \in {"OrganizationMembers", "OrganizationCoordinators", "EntityStatus"}
      PROVE  Live(type, x)' = Live(type, x)
  BY <1>1, <1>3, <1>4 DEF Live, Concerns
<1>6. ASSUME NEW type \in {"UserOrganizations", "AllOrganizations", "AcceptedEntity"}, NEW base
      PROVE  To(Live(type, base), x)' = To(Live(type, base), x)
  <2>1. Live(type, base)' = (Live(type, base) \ cut) \cup {l \in new : l.type = type /\ l.base = base}
    BY <1>1
  <2>2. \A l \in new : l.type = type => l.target # x
    BY <1>3 DEF Concerns
  <2>3. \A l \in Live(type, base) : l \in cut => l.target # x
    BY <1>4 DEF Concerns, Live
  <2>4. To(Live(type, base), x)' = {l \in Live(type, base)' : l.target = x}
    BY DEF To
  <2> QED BY <2>1, <2>2, <2>3, <2>4 DEF To
<1> QED BY <1>2, <1>5, <1>6 DEF Members, Memberships, Coordinators, Lists, AcceptedOnes, Status, To

-----------------------------------------------------------------------------
(* Which links a call may choose. *)

AtMostOne(S) == \A l, m \in S : l = m

LEMMA FewLinks ==
  ASSUME NEW S, AtMostOne(S)
  PROVE  Cardinality(S) = 0 \/ Cardinality(S) = 1
<1>1. CASE S = {}
  BY <1>1, FS_EmptySet
<1>2. CASE S # {}
  <2>1. PICK l \in S : S = {l}
    BY <1>2 DEF AtMostOne
  <2> QED BY <2>1, FS_Singleton
<1> QED BY <1>1, <1>2

\* The ids are those of some of the links, and of all when there are few.
LEMMA ChosenLinks ==
  ASSUME NEW n, NEW ls, NEW S \in FirstIds(n, ls)
  PROVE  \E cut \in SUBSET ls : /\ S = IdsOf(cut)
                                /\ Cardinality(ls) <= n => S = IdsOf(ls)
<1>1. S = IdsOf({l \in ls : l.id \in S})
  BY DEF FirstIds, IdsOf
<1>2. Cardinality(ls) <= n => S = IdsOf(ls)
  BY DEF FirstIds, IdsOf
<1> QED BY <1>1, <1>2

\* What the caller sees of an organization concerns it.
LEMMA SeenConcerns ==
  ASSUME NEW a, NEW o, NEW u
  PROVE  /\ \A l \in MembersLinks(a, o) : l \in links /\ Concerns(l, o)
         /\ \A l \in CoordinatorsLinks(a, o) : l \in links /\ Concerns(l, o)
         /\ \A l \in StatusLinks(a, o) : l \in links /\ Concerns(l, o)
         /\ \A l \in AcceptedLinks(a, o) : l \in links /\ Concerns(l, o)
         /\ \A l \in To(UserOrganizationsLinks(a, u), o) : l \in links /\ Concerns(l, o)
         /\ \A l \in To(GetLinks(a, "AllOrganizations", AllPath), o) : l \in links /\ Concerns(l, o)
BY DEF MembersLinks, CoordinatorsLinks, StatusLinks, AcceptedLinks, UserOrganizationsLinks, To,
       GetLinks, Concerns

-----------------------------------------------------------------------------
(* Each call writes for one organization. *)

LEMMA AddMemberWrites ==
  ASSUME OrganizationsInv, NEW a \in Agents, NEW o \in orgs, NEW u \in Agents, AddMember(a, o, u)
  PROVE  Writes(a, o, 2, Membership(clock + 1, o, u), {}, {})
<1>1. clock \in Nat
  BY DEF OrganizationsInv, TypeOK, DhtTypeOK
<1>2. Commit(a, 2, Membership(clock + 1, o, u), {}) /\ orgs' = orgs
  BY DEF AddMember
<1>3. IdsOf({}) \cup {} = {}
  BY DEF IdsOf
<1>4. Membership(clock + 1, o, u) \subseteq NewLinks(o, clock + 1 .. clock + 2)
  BY <1>1 DEF Membership, Link, NewLinks
<1>5. \A l, m \in Membership(clock + 1, o, u) : l.id = m.id => l = m
  BY <1>1 DEF Membership, Link
<1> QED BY <1>2, <1>3, <1>4, <1>5 DEF Writes

LEMMA AddCoordinatorWrites ==
  ASSUME OrganizationsInv, NEW a \in Agents, NEW o \in orgs, NEW u \in Agents, AddCoordinator(a, o, u)
  PROVE  LET member == IF IsMember(a, o, u) THEN {} ELSE Membership(clock + 2, o, u)
         IN  \E n \in Nat : Writes(a, o, n, {Link(clock + 1, "OrganizationCoordinators", o, u)} \cup member, {}, {})
<1> DEFINE member == IF IsMember(a, o, u) THEN {} ELSE Membership(clock + 2, o, u)
           new == {Link(clock + 1, "OrganizationCoordinators", o, u)} \cup member
           n == 1 + Cardinality(member)
<1>1. clock \in Nat
  BY DEF OrganizationsInv, TypeOK, DhtTypeOK
<1>2. Commit(a, n, new, {}) /\ orgs' = orgs
  BY DEF AddCoordinator
<1>3. IdsOf({}) \cup {} = {}
  BY DEF IdsOf
<1>4. CASE IsMember(a, o, u)
  <2>1. member = {} /\ n = 1
    BY <1>4, FS_EmptySet
  <2>2. new = {Link(clock + 1, "OrganizationCoordinators", o, u)}
    BY <2>1
  <2>3. new \subseteq NewLinks(o, clock + 1 .. clock + 1)
    BY <1>1, <2>2 DEF Link, NewLinks
  <2>4. \A l, m \in new : l.id = m.id => l = m
    BY <2>2
  <2> QED BY <1>2, <1>3, <2>1, <2>3, <2>4 DEF Writes
<1>5. CASE ~IsMember(a, o, u)
  <2> DEFINE l1 == Link(clock + 2, "OrganizationMembers", o, u)
             l2 == Link(clock + 3, "UserOrganizations", u, o)
  <2>1. member = {l1, l2} /\ l1 # l2
    BY <1>1, <1>5 DEF Membership, Link
  <2>2. Cardinality({l1, l2}) = 2
    <3> HIDE DEF l1, l2
    <3>1. IsFiniteSet({l1}) /\ Cardinality({l1}) = 1
      BY FS_Singleton
    <3>2. Cardinality({l1} \cup {l2}) = Cardinality({l1}) + 1
      BY <2>1, <3>1, FS_AddElement
    <3>3. {l1} \cup {l2} = {l1, l2}
      OBVIOUS
    <3> QED BY <3>1, <3>2, <3>3
  <2>3. n = 3
    BY <2>1, <2>2
  <2>4. new \subseteq NewLinks(o, clock + 1 .. clock + 3)
    BY <1>1, <1>5 DEF Link, NewLinks, Membership
  <2>5. \A l, m \in new : l.id = m.id => l = m
    BY <1>1, <1>5 DEF Link, Membership
  <2> QED BY <1>2, <1>3, <2>3, <2>4, <2>5 DEF Writes
<1> QED BY <1>4, <1>5

LEMMA RemoveMemberWrites ==
  ASSUME OrganizationsInv, NEW a \in Agents, NEW o \in orgs, NEW u \in Agents, RemoveMember(a, o, u)
  PROVE  \E l \in To(MembersLinks(a, o), u), m \in To(UserOrganizationsLinks(a, u), o) :
           Writes(a, o, 0, {}, {l, m}, {})
<1>1. PICK l \in To(MembersLinks(a, o), u), m \in To(UserOrganizationsLinks(a, u), o) :
        Commit(a, 0, {}, {l.id, m.id})
  BY DEF RemoveMember
<1>2. {l.id, m.id} = IdsOf({l, m}) \cup {}
  BY DEF IdsOf
<1>3. {l, m} \subseteq links /\ \A k \in {l, m} : Concerns(k, o)
  BY SeenConcerns DEF To
<1>4. orgs' = orgs
  BY DEF RemoveMember
<1> QED BY <1>1, <1>2, <1>3, <1>4 DEF Writes

LEMMA RemoveCoordinatorWrites ==
  ASSUME OrganizationsInv, NEW a \in Agents, NEW o \in orgs, NEW u \in Agents, RemoveCoordinator(a, o, u)
  PROVE  \E l \in To(CoordinatorsLinks(a, o), u) : Writes(a, o, 0, {}, {l}, {})
<1>1. PICK l \in To(CoordinatorsLinks(a, o), u) : Commit(a, 0, {}, {l.id})
  BY DEF RemoveCoordinator
<1>2. {l.id} = IdsOf({l}) \cup {}
  BY DEF IdsOf
<1>3. {l} \subseteq links /\ \A k \in {l} : Concerns(k, o)
  BY SeenConcerns DEF To
<1>4. orgs' = orgs
  BY DEF RemoveCoordinator
<1> QED BY <1>1, <1>2, <1>3, <1>4 DEF Writes

LEMMA UpdateOrganizationWrites ==
  ASSUME OrganizationsInv, NEW a \in Agents, NEW o \in orgs, UpdateOrganization(a, o)
  PROVE  Writes(a, o, 2, {Link(clock + 2, "OrganizationUpdates", o, clock + 1)}, {}, {})
<1>1. clock \in Nat
  BY DEF OrganizationsInv, TypeOK, DhtTypeOK
<1>2. IdsOf({}) \cup {} = {}
  BY DEF IdsOf
<1>3. {Link(clock + 2, "OrganizationUpdates", o, clock + 1)} \subseteq NewLinks(o, clock + 1 .. clock + 2)
  BY <1>1 DEF Link, NewLinks
<1> QED BY <1>2, <1>3 DEF Writes, UpdateOrganization

LEMMA SetAcceptedWrites ==
  ASSUME OrganizationsInv, NEW a \in Agents, NEW o \in orgs, NEW accept \in BOOLEAN, SetAccepted(a, o, accept)
  PROVE  LET accepted == IF accept THEN {Link(clock + 2, "AcceptedEntity", AcceptedPath, o)} ELSE {}
         IN  \E n \in Nat, old \in StatusLinks(a, o), T \in SUBSET AcceptedLinks(a, o) :
               /\ Cardinality(AcceptedLinks(a, o)) <= 1 => IdsOf(T) = IdsOf(AcceptedLinks(a, o))
               /\ Writes(a, o, n, {Link(clock + 1, "EntityStatus", o, clock + 1)} \cup accepted,
                         {old} \cup T, {})
<1> DEFINE accepted == IF accept THEN {Link(clock + 2, "AcceptedEntity", AcceptedPath, o)} ELSE {}
           new == {Link(clock + 1, "EntityStatus", o, clock + 1)} \cup accepted
           n == 1 + Cardinality(accepted)
<1>1. clock \in Nat
  BY DEF OrganizationsInv, TypeOK, DhtTypeOK
<1>2. PICK old \in StatusLinks(a, o), S \in FirstIds(1, AcceptedLinks(a, o)) :
        Commit(a, n, new, {old.id} \cup S)
  BY DEF SetAccepted
<1>3. PICK T \in SUBSET AcceptedLinks(a, o) :
        /\ S = IdsOf(T)
        /\ Cardinality(AcceptedLinks(a, o)) <= 1 => S = IdsOf(AcceptedLinks(a, o))
  BY ChosenLinks
<1>4. {old.id} \cup S = IdsOf({old} \cup T) \cup {}
  BY <1>3 DEF IdsOf
<1>5. {old} \cup T \subseteq links /\ \A k \in {old} \cup T : Concerns(k, o)
  BY SeenConcerns
<1>6. orgs' = orgs
  BY DEF SetAccepted
<1>7. /\ n \in Nat /\ new \subseteq NewLinks(o, clock + 1 .. clock + n)
      /\ \A l, m \in new : l.id = m.id => l = m
  <2>1. CASE accept
    <3>1. accepted = {Link(clock + 2, "AcceptedEntity", AcceptedPath, o)}
      BY <2>1
    <3>2. Cardinality(accepted) = 1
      <4> HIDE DEF accepted
      <4> QED BY <3>1, FS_Singleton
    <3>3. n = 2
      BY <3>2
    <3>4. new \subseteq NewLinks(o, clock + 1 .. clock + 2)
      BY <1>1, <3>1 DEF Link, NewLinks
    <3>5. \A l, m \in new : l.id = m.id => l = m
      BY <1>1, <3>1 DEF Link
    <3> HIDE DEF new, n
    <3> QED BY <3>3, <3>4, <3>5
  <2>2. CASE ~accept
    <3>1. accepted = {}
      BY <2>2
    <3>2. n = 1
      BY <3>1, FS_EmptySet
    <3>3. new \subseteq NewLinks(o, clock + 1 .. clock + 1)
      BY <1>1, <3>1 DEF Link, NewLinks
    <3>4. \A l, m \in new : l.id = m.id => l = m
      BY <3>1
    <3> HIDE DEF new, n
    <3> QED BY <3>2, <3>3, <3>4
  <2> QED BY <2>1, <2>2
<1>8. Writes(a, o, n, new, {old} \cup T, {})
  BY <1>2, <1>4, <1>5, <1>6, <1>7 DEF Writes
<1> QED BY <1>3, <1>7, <1>8

\* What delete_organization deletes: the organization and links that concern it,
\* among them all links to members and coordinators, a status link, and what is
\* named once only.
LEMMA DeletionLinks ==
  ASSUME NEW a \in Agents, NEW o \in orgs, NEW del, NEW D \in Deletion(a, o, del)
  PROVE  /\ D = del \cup {o} \cup IdsOf({l \in links : Concerns(l, o) /\ l.id \in D})
         /\ del = {} =>
              /\ \A l \in MembersLinks(a, o) \cup CoordinatorsLinks(a, o) : l.id \in D
              /\ \E l \in StatusLinks(a, o) : l.id \in D
              /\ \A k \in MembersLinks(a, o) :
                   Cardinality(To(UserOrganizationsLinks(a, k.target), o))
                        <= Cardinality(To(MembersLinks(a, o), k.target)) =>
                     \A l \in To(UserOrganizationsLinks(a, k.target), o) : l.id \in D
              /\ Cardinality(To(GetLinks(a, "AllOrganizations", AllPath), o)) <= 1 =>
                   \A l \in To(GetLinks(a, "AllOrganizations", AllPath), o) : l.id \in D
              /\ Cardinality(AcceptedLinks(a, o)) <= 2 => \A l \in AcceptedLinks(a, o) : l.id \in D
<1> DEFINE members  == MembersLeft(a, o, del)
           users    == {l.target : l \in members}
           left(u)  == {l \in To(UserOrganizationsLinks(a, u), o) : l.id \notin del}
           listed   == To(GetLinks(a, "AllOrganizations", AllPath), o)
<1>1. PICK f \in AllLinksBack(a, o, del), A \in FirstIds(1, listed), S \in {{l.id} : l \in StatusLinks(a, o)},
           T \in FirstIds(2, AcceptedLinks(a, o)) :
        D = del \cup {o} \cup {l.id : l \in members \cup CoordinatorsLinks(a, o)}
              \cup (UNION {f[u] : u \in DOMAIN f}) \cup A \cup S \cup T
  BY DEF Deletion
<1>2. DOMAIN f = users /\ \A u \in users : f[u] \in LinksBack(a, o, u, del)
  BY DEF AllLinksBack
<1> HIDE DEF members, users, left, listed
<1>3. PICK status \in StatusLinks(a, o) : S = {status.id}
  BY <1>1
<1>4. A \subseteq IdsOf(listed) /\ (Cardinality(listed) <= 1 => A = IdsOf(listed))
  BY ChosenLinks DEF IdsOf
<1>5. T \subseteq IdsOf(AcceptedLinks(a, o))
      /\ (Cardinality(AcceptedLinks(a, o)) <= 2 => T = IdsOf(AcceptedLinks(a, o)))
  BY ChosenLinks DEF IdsOf
<1>6. ASSUME NEW u \in users
      PROVE  /\ f[u] \subseteq IdsOf(left(u))
             /\ Cardinality(left(u)) <= Cardinality(To(members, u)) => f[u] = IdsOf(left(u))
  <2>1. f[u] \in FirstIds(Cardinality(To(members, u)), left(u))
    BY <1>2 DEF LinksBack, members, left
  <2> QED BY <2>1 DEF FirstIds, IdsOf
<1>7. \A id \in D \ (del \cup {o}) : \E l \in links : l.id = id /\ Concerns(l, o)
  <2> SUFFICES ASSUME NEW id \in D \ (del \cup {o}) PROVE \E l \in links : l.id = id /\ Concerns(l, o)
    OBVIOUS
  <2>1. CASE id \in {l.id : l \in members \cup CoordinatorsLinks(a, o)}
    BY <2>1, SeenConcerns DEF members, MembersLeft
  <2>2. CASE id \in UNION {f[u] : u \in DOMAIN f}
    <3>1. PICK u \in users : id \in f[u]
      BY <1>2, <2>2
    <3>2. PICK l \in To(UserOrganizationsLinks(a, u), o) : l.id = id
      BY <1>6, <3>1 DEF IdsOf, left
    <3> QED BY <3>2, SeenConcerns
  <2>3. CASE id \in A
    <3>1. PICK l \in listed : l.id = id
      BY <1>4, <2>3 DEF IdsOf
    <3> QED BY <3>1, SeenConcerns DEF listed
  <2>4. CASE id \in S
    BY <1>3, <2>4, SeenConcerns
  <2>5. CASE id \in T
    <3>1. PICK l \in AcceptedLinks(a, o) : l.id = id
      BY <1>5, <2>5 DEF IdsOf
    <3> QED BY <3>1, SeenConcerns
  <2> QED BY <1>1, <2>1, <2>2, <2>3, <2>4, <2>5
<1>8. D = del \cup {o} \cup IdsOf({l \in links : Concerns(l, o) /\ l.id \in D})
  <2>1. del \subseteq D /\ o \in D
    BY <1>1
  <2> QED BY <1>7, <2>1 DEF IdsOf
<1>9. ASSUME del = {}
      PROVE  /\ \A l \in MembersLinks(a, o) \cup CoordinatorsLinks(a, o) : l.id \in D
             /\ \E l \in StatusLinks(a, o) : l.id \in D
             /\ \A k \in MembersLinks(a, o) :
                  Cardinality(To(UserOrganizationsLinks(a, k.target), o))
                       <= Cardinality(To(MembersLinks(a, o), k.target)) =>
                    \A l \in To(UserOrganizationsLinks(a, k.target), o) : l.id \in D
             /\ Cardinality(listed) <= 1 => \A l \in listed : l.id \in D
             /\ Cardinality(AcceptedLinks(a, o)) <= 2 => \A l \in AcceptedLinks(a, o) : l.id \in D
  <2>1. \A u : left(u) = To(UserOrganizationsLinks(a, u), o)
    BY <1>9 DEF left
  <2>2. members = MembersLinks(a, o)
    BY <1>9 DEF members, MembersLeft
  <2>3. \A l \in MembersLinks(a, o) \cup CoordinatorsLinks(a, o) : l.id \in D
    BY <1>1, <2>2
  <2>4. \E l \in StatusLinks(a, o) : l.id \in D
    BY <1>1, <1>3
  <2>5. (Cardinality(listed) <= 1 => \A l \in listed : l.id \in D)
        /\ (Cardinality(AcceptedLinks(a, o)) <= 2 => \A l \in AcceptedLinks(a, o) : l.id \in D)
    BY <1>1, <1>4, <1>5 DEF IdsOf
  <2>6. ASSUME NEW k \in MembersLinks(a, o),
               Cardinality(To(UserOrganizationsLinks(a, k.target), o))
                 <= Cardinality(To(MembersLinks(a, o), k.target)),
               NEW l \in To(UserOrganizationsLinks(a, k.target), o)
        PROVE  l.id \in D
    <3>1. k.target \in users
      BY <2>2 DEF users
    <3>2. f[k.target] = IdsOf(To(UserOrganizationsLinks(a, k.target), o))
      BY <1>6, <2>1, <2>2, <2>6, <3>1
    <3>3. f[k.target] \subseteq D
      BY <1>1, <1>2, <3>1
    <3> QED BY <3>2, <3>3 DEF IdsOf
  <2> QED BY <2>3, <2>4, <2>5, <2>6
<1> QED BY <1>8, <1>9 DEF listed

\* The first half of it, for a call that deleted something before.
LEMMA DeletionShape ==
  ASSUME NEW a \in Agents, NEW o \in orgs, NEW del, NEW D \in Deletion(a, o, del)
  PROVE  D = del \cup {o} \cup IdsOf({l \in links : Concerns(l, o) /\ l.id \in D})
BY DeletionLinks

LEMMA DeleteOrganizationWrites ==
  ASSUME OrganizationsInv, NEW a \in Agents, NEW o \in orgs, DeleteOrganization(a, o)
  PROVE  \E D \in Deletion(a, o, {}) : Writes(a, o, 0, {}, {l \in links : Concerns(l, o) /\ l.id \in D}, {o})
<1>1. PICK D \in Deletion(a, o, {}) : Commit(a, 0, {}, D)
  BY DEF DeleteOrganization
<1> DEFINE cut == {l \in links : Concerns(l, o) /\ l.id \in D}
<1>2. D = IdsOf(cut) \cup {o}
  BY DeletionLinks
<1>3. cut \subseteq links /\ \A l \in cut : Concerns(l, o)
  OBVIOUS
<1>4. orgs' = orgs
  BY DEF DeleteOrganization
<1> HIDE DEF cut
<1>5. Writes(a, o, 0, {}, cut, {o})
  BY <1>1, <1>2, <1>3, <1>4 DEF Writes
<1> QED BY <1>5 DEF cut

\* What a member takes along that leaves: its place, and its coordinator link if
\* it has one; as the last member the organization, if a link of it as a
\* coordinator is left.
LEMMA LeaveOrganizationWrites ==
  ASSUME OrganizationsInv, NEW a \in Agents, NEW o \in orgs, LeaveOrganization(a, o)
  PROVE  \E C \in SUBSET To(CoordinatorsLinks(a, o), a),
            l \in To(MembersLinks(a, o), a), m \in To(UserOrganizationsLinks(a, a), o) :
           /\ IsCoordinator(a, o, a) => /\ Cardinality(CoordinatorsLinks(a, o)) > 1
                                        /\ \E c \in To(CoordinatorsLinks(a, o), a) : C = {c}
           /\ \/ Writes(a, o, 0, {}, C \cup {l, m}, {})
              \/ /\ \E c \in To(CoordinatorsLinks(a, o), a) : c.id \notin IdsOf(C)
                 /\ \E cut \in SUBSET links : Writes(a, o, 0, {}, cut, {o})
<1>1. PICK R \in Resigned(a, o), l \in To(MembersLinks(a, o), a), m \in To(UserOrganizationsLinks(a, a), o) :
        \/ Commit(a, 0, {}, R \cup {l.id, m.id})
        \/ /\ \E c \in To(CoordinatorsLinks(a, o), a) : c.id \notin R
           /\ \E D \in Deletion(a, o, R \cup {l.id, m.id}) : Commit(a, 0, {}, D)
  BY DEF LeaveOrganization
<1>2. \E C \in SUBSET To(CoordinatorsLinks(a, o), a) :
        /\ R = IdsOf(C)
        /\ IsCoordinator(a, o, a) => /\ Cardinality(CoordinatorsLinks(a, o)) > 1
                                     /\ \E c \in To(CoordinatorsLinks(a, o), a) : C = {c}
  <2>1. CASE ~IsCoordinator(a, o, a)
    <3>1. R = {}
      BY <2>1 DEF Resigned
    <3>2. R = IdsOf({})
      BY <3>1 DEF IdsOf
    <3> QED BY <2>1, <3>2
  <2>2. CASE IsCoordinator(a, o, a)
    <3>1. PICK c \in To(CoordinatorsLinks(a, o), a) : R = {c.id}
      BY <2>2 DEF Resigned
    <3>2. Cardinality(CoordinatorsLinks(a, o)) > 1
      BY <2>2 DEF Resigned
    <3>3. R = IdsOf({c})
      BY <3>1 DEF IdsOf
    <3> QED BY <3>2, <3>3
  <2> QED BY <2>1, <2>2
<1>3. PICK C \in SUBSET To(CoordinatorsLinks(a, o), a) :
        /\ R = IdsOf(C)
        /\ IsCoordinator(a, o, a) => /\ Cardinality(CoordinatorsLinks(a, o)) > 1
                                     /\ \E c \in To(CoordinatorsLinks(a, o), a) : C = {c}
  BY <1>2
<1>4. R \cup {l.id, m.id} = IdsOf(C \cup {l, m})
  BY <1>3 DEF IdsOf
<1>5. C \cup {l, m} \subseteq links /\ \A k \in C \cup {l, m} : Concerns(k, o)
  BY SeenConcerns DEF To
<1>6. orgs' = orgs
  BY DEF LeaveOrganization
<1>7. CASE Commit(a, 0, {}, R \cup {l.id, m.id})
  <2>1. R \cup {l.id, m.id} = IdsOf(C \cup {l, m}) \cup {}
    BY <1>4
  <2>2. Writes(a, o, 0, {}, C \cup {l, m}, {})
    BY <1>5, <1>6, <1>7, <2>1 DEF Writes
  <2> QED BY <1>3, <2>2
<1>8. CASE /\ \E c \in To(CoordinatorsLinks(a, o), a) : c.id \notin R
           /\ \E D \in Deletion(a, o, R \cup {l.id, m.id}) : Commit(a, 0, {}, D)
  <2>1. PICK D \in Deletion(a, o, R \cup {l.id, m.id}) : Commit(a, 0, {}, D)
    BY <1>8
  <2> DEFINE rest == {k \in links : Concerns(k, o) /\ k.id \in D}
             cut == C \cup {l, m} \cup rest
  <2>2. D = R \cup {l.id, m.id} \cup {o} \cup IdsOf(rest)
    <3>1. PICK del : del = R \cup {l.id, m.id} /\ D \in Deletion(a, o, del)
      OBVIOUS
    <3>2. D = del \cup {o} \cup IdsOf(rest)
      BY <3>1, DeletionShape
    <3> QED BY <3>1, <3>2
  <2>3. D = IdsOf(cut) \cup {o}
    BY <1>4, <2>2 DEF IdsOf
  <2>4. cut \subseteq links /\ \A k \in cut : Concerns(k, o)
    BY <1>5
  <2> HIDE DEF cut
  <2>5. Writes(a, o, 0, {}, cut, {o})
    BY <1>6, <2>1, <2>3, <2>4 DEF Writes
  <2> QED BY <1>3, <1>8, <2>4, <2>5
<1> QED BY <1>1, <1>7, <1>8

\* The calls on an organization that is there.
CallOn(a, o) ==
  \/ \E accept \in BOOLEAN : SetAccepted(a, o, accept)
  \/ LeaveOrganization(a, o)
  \/ UpdateOrganization(a, o)
  \/ DeleteOrganization(a, o)
  \/ \E u \in Agents : \/ AddMember(a, o, u)
                       \/ AddCoordinator(a, o, u)
                       \/ RemoveMember(a, o, u)
                       \/ RemoveCoordinator(a, o, u)

LEMMA CallOnWrites ==
  ASSUME OrganizationsInv, NEW a \in Agents, NEW o \in orgs, CallOn(a, o)
  PROVE  \E n, new, cut, gonners : Writes(a, o, n, new, cut, gonners)
<1>1. ASSUME NEW accept \in BOOLEAN, SetAccepted(a, o, accept)
      PROVE  \E n, new, cut, gonners : Writes(a, o, n, new, cut, gonners)
  BY <1>1, SetAcceptedWrites
<1>2. ASSUME LeaveOrganization(a, o) PROVE \E n, new, cut, gonners : Writes(a, o, n, new, cut, gonners)
  BY <1>2, LeaveOrganizationWrites
<1>3. ASSUME UpdateOrganization(a, o) PROVE \E n, new, cut, gonners : Writes(a, o, n, new, cut, gonners)
  BY <1>3, UpdateOrganizationWrites
<1>4. ASSUME DeleteOrganization(a, o) PROVE \E n, new, cut, gonners : Writes(a, o, n, new, cut, gonners)
  BY <1>4, DeleteOrganizationWrites
<1>5. ASSUME NEW u \in Agents, AddMember(a, o, u)
      PROVE  \E n, new, cut, gonners : Writes(a, o, n, new, cut, gonners)
  BY <1>5, AddMemberWrites
<1>6. ASSUME NEW u \in Agents, AddCoordinator(a, o, u)
      PROVE  \E n, new, cut, gonners : Writes(a, o, n, new, cut, gonners)
  BY <1>6, AddCoordinatorWrites
<1>7. ASSUME NEW u \in Agents, RemoveMember(a, o, u)
      PROVE  \E n, new, cut, gonners : Writes(a, o, n, new, cut, gonners)
  BY <1>7, RemoveMemberWrites
<1>8. ASSUME NEW u \in Agents, RemoveCoordinator(a, o, u)
      PROVE  \E n, new, cut, gonners : Writes(a, o, n, new, cut, gonners)
  BY <1>8, RemoveCoordinatorWrites
<1> QED BY <1>1, <1>2, <1>3, <1>4, <1>5, <1>6, <1>7, <1>8 DEF CallOn

-----------------------------------------------------------------------------
(* The creation of an organization. *)

\* The links of a new organization, and that it is new.
LEMMA CreateOrganizationLinks ==
  ASSUME OrganizationsInv, NEW a \in Agents, CreateOrganization(a)
  PROVE  LET o == clock + 1
             new == {Link(clock + 2, "AllOrganizations", AllPath, o),
                     Link(clock + 3, "EntityStatus", o, clock + 3),
                     Link(clock + 6, "OrganizationCoordinators", o, a)} \cup Membership(clock + 4, o, a)
         IN  /\ OrganizationsInv'
             /\ \A type, base : Live(type, base)' = Live(type, base) \cup {l \in new : l.type = type /\ l.base = base}
             /\ dead' = dead /\ orgs' = orgs \cup {o} /\ o \notin Ids
             /\ \A l \in links : ~Concerns(l, o)
             /\ serial' => serial
<1> USE DEF OrganizationsInv, TypeOK
<1> DEFINE o == clock + 1
           new == {Link(clock + 2, "AllOrganizations", AllPath, o),
                   Link(clock + 3, "EntityStatus", o, clock + 3),
                   Link(clock + 6, "OrganizationCoordinators", o, a)} \cup Membership(clock + 4, o, a)
<1>1. clock \in Nat /\ orgs \subseteq Ids
  BY DEF DhtTypeOK
<1>2. Commit(a, 6, new, {}) /\ orgs' = orgs \cup {o}
  BY DEF CreateOrganization
<1>3. FreshLinks(6, new)
  BY <1>1 DEF FreshLinks, Membership, Link
<1>4. new \subseteq NewLinks(o, clock + 1 .. clock + 6)
  BY <1>1 DEF Membership, Link, NewLinks
<1>5. \A l \in new : l.id # o
  BY <1>1 DEF Membership, Link
<1> HIDE DEF new
<1>6. Publish(a, 6, new, {})
  BY <1>2 DEF Commit
<1>7. DhtTypeOK'
  BY <1>2, <1>3, CommitKeepsTable
<1>8. links' = links \cup new /\ clock' = clock + 6 /\ dead' = dead
  BY <1>6 DEF Publish
<1>9. Ids \subseteq Ids' /\ clock + 1 .. clock + 6 \subseteq Ids' /\ o \in Ids' /\ o \notin Ids
  BY <1>1, <1>8 DEF Ids
<1>10. TypeOK'
  <2>1. LinkType \subseteq LinkType'
    BY <1>2, <1>9 DEF LinkType
  <2>2. new \subseteq LinkType'
    <3>1. o \in orgs' /\ \A id \in clock + 1 .. clock + 6 : id \in Nat /\ id \in Ids'
      BY <1>1, <1>2, <1>9
    <3> HIDE DEF o
    <3>2. NewLinks(o, clock + 1 .. clock + 6) \subseteq LinkType'
      BY <3>1 DEF NewLinks, LinkType
    <3> QED BY <1>4, <3>2
  <2> QED BY <1>1, <1>2, <1>7, <1>8, <1>9, <2>1, <2>2
<1>11. \A l \in links' : l.id \notin orgs'
  <2>1. \A l \in links : l.id \in Ids
    BY DEF DhtTypeOK
  <2>2. \A l \in new : l.id \notin Ids
    BY <1>1, <1>3 DEF FreshLinks, Ids
  <2> QED BY <1>1, <1>2, <1>5, <1>8, <1>9, <2>1, <2>2
<1>12. \A type, base : Live(type, base)' = Live(type, base) \cup {l \in new : l.type = type /\ l.base = base}
  <2>1. \A l \in new : l.id \notin dead
    BY <1>1, <1>3 DEF FreshLinks, DhtTypeOK, Ids
  <2> QED BY <1>8, <2>1 DEF Live
<1>13. \A l \in links : ~Concerns(l, o)
  BY <1>1, <1>9, LinkTypes DEF Concerns
<1>14. serial' => serial
  BY <1>2 DEF Commit
<1> QED BY <1>2, <1>8, <1>9, <1>10, <1>11, <1>12, <1>13, <1>14 DEF new

\* Nothing of an organization that is there changes.
LEMMA CreateKeepsOthers ==
  ASSUME OrganizationsInv, NEW a \in Agents, CreateOrganization(a), NEW x \in orgs
  PROVE  /\ \A u \in Agents : Members(x, u)' = Members(x, u) /\ Memberships(u, x)' = Memberships(u, x)
         /\ Coordinators(x)' = Coordinators(x)
         /\ Lists(x)' = Lists(x) /\ AcceptedOnes(x)' = AcceptedOnes(x) /\ Status(x)' = Status(x)
         /\ x \in dead' <=> x \in dead
<1>1. PICK o, new :
        /\ o = clock + 1
        /\ new = {Link(clock + 2, "AllOrganizations", AllPath, o),
                  Link(clock + 3, "EntityStatus", o, clock + 3),
                  Link(clock + 6, "OrganizationCoordinators", o, a)} \cup Membership(clock + 4, o, a)
  OBVIOUS
<1>2. /\ \A type, base : Live(type, base)' = Live(type, base) \cup {l \in new : l.type = type /\ l.base = base}
      /\ dead' = dead /\ o \notin Ids
  BY <1>1, CreateOrganizationLinks
<1>3. x # o
  BY <1>2 DEF OrganizationsInv, TypeOK
<1>4. \A l \in new : Concerns(l, o)
  BY <1>1 DEF Membership, Link, Concerns
<1>5. ASSUME NEW type \in {"OrganizationMembers", "OrganizationCoordinators", "EntityStatus"}
      PROVE  Live(type, x)' = Live(type, x)
  <2>1. Live(type, x)' = Live(type, x) \cup {l \in new : l.type = type /\ l.base = x}
    BY <1>2
  <2>2. \A l \in new : l.type = type => l.base # x
    BY <1>3, <1>4 DEF Concerns
  <2> QED BY <2>1, <2>2
<1>6. ASSUME NEW type \in {"UserOrganizations", "AllOrganizations", "AcceptedEntity"}, NEW base
      PROVE  To(Live(type, base), x)' = To(Live(type, base), x)
  <2>1. Live(type, base)' = Live(type, base) \cup {l \in new : l.type = type /\ l.base = base}
    BY <1>2
  <2>2. \A l \in new : l.type = type => l.target # x
    BY <1>3, <1>4 DEF Concerns
  <2>3. To(Live(type, base), x)' = {l \in Live(type, base)' : l.target = x}
    BY DEF To
  <2> QED BY <2>1, <2>2, <2>3 DEF To
<1> QED BY <1>2, <1>5, <1>6 DEF Members, Memberships, Coordinators, Lists, AcceptedOnes, Status, To

-----------------------------------------------------------------------------
(* What holds of every behaviour. *)

\* A step is a creation, a call on one organization, a delivery, or nothing.
LEMMA NextCases ==
  ASSUME [Next]_vars
  PROVE  \/ \E a \in Agents : CreateOrganization(a)
         \/ \E a \in Agents, o \in orgs : CallOn(a, o)
         \/ Deliver
         \/ UNCHANGED vars
BY DEF Next, Call, CallOn

LEMMA InitOrganizations == Init => OrganizationsInv
BY DEF Init, DhtInit, OrganizationsInv, TypeOK, DhtTypeOK, Ids

LEMMA NextOrganizations ==
  ASSUME OrganizationsInv, [Next]_vars
  PROVE  OrganizationsInv'
<1>1. CASE \E a \in Agents : CreateOrganization(a)
  BY <1>1, CreateOrganizationLinks
<1>2. CASE \E a \in Agents, o \in orgs : CallOn(a, o)
  BY <1>2, CallOnWrites, AfterWrites
<1>3. CASE Deliver
  <2>1. DhtTypeOK' /\ UNCHANGED <<clock, links, dead, orgs>>
    BY <1>3, GossipKeepsTable DEF Deliver, OrganizationsInv, TypeOK
  <2> QED BY <2>1 DEF OrganizationsInv, TypeOK, LinkType, Ids
<1>4. CASE UNCHANGED vars
  BY <1>4 DEF vars, dhtVars, OrganizationsInv, TypeOK, DhtTypeOK, LinkType, Ids
<1> QED BY <1>1, <1>2, <1>3, <1>4, NextCases

LEMMA OrganizationsInvariance == Spec => []OrganizationsInv
<1> QED BY InitOrganizations, NextOrganizations, PTL DEF Spec

\* Every link joins what its type says (organization.rs:47-63, 119-131, 240-258).
THEOREM OrganizationsTypes == Spec => []TypeOK
<1>1. OrganizationsInv => TypeOK
  BY DEF OrganizationsInv
<1> QED BY <1>1, OrganizationsInvariance, PTL

\* A moderation of o touches no place.
LEMMA ModerationKeepsPlaces ==
  ASSUME OrganizationsInv, NEW a \in Agents, NEW o \in orgs, NEW accept \in BOOLEAN, SetAccepted(a, o, accept)
  PROVE  /\ o \in dead' <=> o \in dead
         /\ Coordinators(o)' = Coordinators(o)
         /\ \A u \in Agents : Members(o, u)' = Members(o, u) /\ Memberships(u, o)' = Memberships(u, o)
         /\ Lists(o)' = Lists(o)
<1>1. PICK new : /\ \A l \in new : l.type \in {"EntityStatus", "AcceptedEntity"}
                 /\ \E n \in Nat, old \in StatusLinks(a, o), T \in SUBSET AcceptedLinks(a, o) :
                      Writes(a, o, n, new, {old} \cup T, {})
  <2>1. PICK accepted :
          accepted = IF accept THEN {Link(clock + 2, "AcceptedEntity", AcceptedPath, o)} ELSE {}
    OBVIOUS
  <2>2. PICK new : new = {Link(clock + 1, "EntityStatus", o, clock + 1)} \cup accepted
    OBVIOUS
  <2>3. \E n \in Nat, old \in StatusLinks(a, o), T \in SUBSET AcceptedLinks(a, o) :
          Writes(a, o, n, new, {old} \cup T, {})
    BY <2>1, <2>2, SetAcceptedWrites
  <2>4. \A l \in new : l.type \in {"EntityStatus", "AcceptedEntity"}
    BY <2>1, <2>2 DEF Link
  <2> QED BY <2>3, <2>4
<1>2. PICK n \in Nat, old \in StatusLinks(a, o), T \in SUBSET AcceptedLinks(a, o) :
        Writes(a, o, n, new, {old} \cup T, {})
  BY <1>1
<1>3. PICK cut : cut = {old} \cup T
  OBVIOUS
<1>4. \A type, base : Live(type, base)' =
        (Live(type, base) \ cut) \cup {l \in new : l.type = type /\ l.base = base}
  BY <1>2, <1>3, AfterWrites
<1>5. \A l \in cut : l.type \in {"EntityStatus", "AcceptedEntity"}
  BY <1>3 DEF StatusLinks, AcceptedLinks, GetLinks
<1>6. ASSUME NEW type \in {"OrganizationMembers", "OrganizationCoordinators", "UserOrganizations",
                           "AllOrganizations"}, NEW base
      PROVE  Live(type, base)' = Live(type, base)
  <2>1. \A l \in Live(type, base) : l \notin cut
    BY <1>5 DEF Live
  <2>2. {l \in new : l.type = type /\ l.base = base} = {}
    BY <1>1
  <2>3. Live(type, base)' = (Live(type, base) \ cut) \cup {l \in new : l.type = type /\ l.base = base}
    BY <1>4
  <2> QED BY <2>1, <2>2, <2>3
<1>7. o \in dead' <=> o \in dead
  BY <1>2, AfterWrites
<1> QED BY <1>6, <1>7 DEF Coordinators, Members, Memberships, Lists, To

\* Whatever the calls overlap with, one who is no coordinator in its own copy
\* takes nobody else's place away, nor the organization (organization.rs:417-421,
\* 552-554).
THEOREM OnlyCoordinatorsRemove == Spec => [][OthersKeepPlaces]_vars
<1>1. OrganizationsInv /\ [Next]_vars => [OthersKeepPlaces]_vars
  <2> SUFFICES ASSUME OrganizationsInv, NEW a \in Agents, NEW o \in orgs, Call(a), ~IsCoordinator(a, o, a)
               PROVE  /\ o \in dead' <=> o \in dead
                      /\ Coordinators(o)' = Coordinators(o)
                      /\ \A u \in Agents \ {a} : Members(o, u)' = Members(o, u)
    BY DEF OthersKeepPlaces
  <2>1. CASE CreateOrganization(a)
    BY <2>1, CreateKeepsOthers
  <2>2. CASE \E x \in orgs \ {o} : CallOn(a, x)
    <3>1. PICK x \in orgs : x # o /\ CallOn(a, x)
      BY <2>2
    <3>2. PICK n, new, cut, gonners : Writes(a, x, n, new, cut, gonners)
      BY <3>1, CallOnWrites
    <3>3. o \in orgs \ {x}
      BY <3>1
    <3> QED BY <3>2, <3>3, OthersUntouched
  <2>3. CASE CallOn(a, o)
    <3>1. CASE \E accept \in BOOLEAN : SetAccepted(a, o, accept)
      BY <3>1, ModerationKeepsPlaces
    <3>2. CASE LeaveOrganization(a, o)
      <4>1. To(CoordinatorsLinks(a, o), a) = {}
        BY DEF IsCoordinator
      <4>2. PICK l \in To(MembersLinks(a, o), a), m \in To(UserOrganizationsLinks(a, a), o) :
              Writes(a, o, 0, {}, {} \cup {l, m}, {})
        BY <3>2, <4>1, LeaveOrganizationWrites
      <4>3. PICK cut : cut = {} \cup {l, m}
        OBVIOUS
      <4>4. \A type, base : Live(type, base)' =
              (Live(type, base) \ cut) \cup {k \in {} : k.type = type /\ k.base = base}
        BY <4>2, <4>3, AfterWrites
      <4>5. \A type, base : Live(type, base)' = Live(type, base) \ cut
        BY <4>4
      <4>6. o \in dead' <=> o \in dead
        BY <4>2, AfterWrites
      <4>7. \A k \in cut : \/ k.type = "OrganizationMembers" /\ k.target = a
                           \/ k.type = "UserOrganizations"
        BY <4>3 DEF To, MembersLinks, UserOrganizationsLinks, GetLinks
      <4>8. Coordinators(o)' = Coordinators(o)
        BY <4>5, <4>7 DEF Coordinators, Live
      <4>9. ASSUME NEW u \in Agents \ {a} PROVE Members(o, u)' = Members(o, u)
        <5>1. Members(o, u)' = {k \in Live("OrganizationMembers", o)' : k.target = u}
          BY DEF Members, To
        <5>2. \A k \in Live("OrganizationMembers", o) : k \in cut => k.target # u
          BY <4>7 DEF Live
        <5> QED BY <4>5, <5>1, <5>2 DEF Members, To
      <4> QED BY <4>6, <4>8, <4>9
    <3> QED BY <2>3, <3>1, <3>2
            DEF CallOn, UpdateOrganization, DeleteOrganization, AddMember, AddCoordinator, RemoveMember,
                RemoveCoordinator
  <2> QED BY <2>1, <2>2, <2>3 DEF Call, CallOn
<1> QED BY <1>1, OrganizationsInvariance, PTL DEF Spec
-----------------------------------------------------------------------------
(* As long as every call ran on a complete copy. *)

\* The places of u in o agree.
PlacesAgree(o, u) ==
  /\ AtMostOne(Members(o, u)) /\ AtMostOne(Memberships(u, o)) /\ AtMostOne(To(Coordinators(o), u))
  /\ Members(o, u) = {} <=> Memberships(u, o) = {}
  /\ To(Coordinators(o), u) # {} => Members(o, u) # {}

\* An organization and its places, moderation and place on the list agree.
Agrees(o) ==
  /\ \A u \in Agents : PlacesAgree(o, u)
  /\ AtMostOne(Lists(o)) /\ AtMostOne(AcceptedOnes(o)) /\ AtMostOne(Status(o))
  /\ o \in dead <=> Coordinators(o) = {}
  /\ o \in dead => /\ \A u \in Agents : Members(o, u) = {}
                   /\ Lists(o) = {} /\ AcceptedOnes(o) = {} /\ Status(o) = {}

OrganizationsAgree == serial => \A o \in orgs : Agrees(o)

\* What a caller with a complete copy reads.
LEMMA CompleteReads ==
  ASSUME OrganizationsInv, NEW a \in Agents, UpToDate(a), NEW o
  PROVE  /\ MembersLinks(a, o) = Live("OrganizationMembers", o)
         /\ \A u : To(MembersLinks(a, o), u) = Members(o, u)
         /\ \A u : To(UserOrganizationsLinks(a, u), o) = Memberships(u, o)
         /\ CoordinatorsLinks(a, o) = Coordinators(o)
         /\ StatusLinks(a, o) = Status(o)
         /\ AcceptedLinks(a, o) = AcceptedOnes(o)
         /\ To(GetLinks(a, "AllOrganizations", AllPath), o) = Lists(o)
<1>1. \A type, base : GetLinks(a, type, base) = Live(type, base)
  BY CompleteCopyReadsTable DEF OrganizationsInv, TypeOK
<1> QED BY <1>1 DEF MembersLinks, UserOrganizationsLinks, CoordinatorsLinks, StatusLinks, AcceptedLinks,
               Members, Memberships, Coordinators, Status, AcceptedOnes, Lists, To

\* The same for the guards.
LEMMA CompleteGuards ==
  ASSUME OrganizationsInv, NEW a \in Agents, UpToDate(a), NEW o, NEW u
  PROVE  /\ IsMember(a, o, u) <=> Members(o, u) # {} /\ Memberships(u, o) # {}
         /\ IsCoordinator(a, o, u) <=> To(Coordinators(o), u) # {}
BY CompleteReads DEF IsMember, IsCoordinator

\* What a link is that is found where.
LEMMA PartTypes ==
  ASSUME NEW o
  PROVE  /\ \A u : \A l \in Members(o, u) : l.type = "OrganizationMembers" /\ l.base = o /\ l.target = u
         /\ \A u : \A l \in Memberships(u, o) : l.type = "UserOrganizations" /\ l.base = u /\ l.target = o
         /\ \A l \in Coordinators(o) : l.type = "OrganizationCoordinators" /\ l.base = o
         /\ \A l \in Lists(o) : l.type = "AllOrganizations"
         /\ \A l \in AcceptedOnes(o) : l.type = "AcceptedEntity"
         /\ \A l \in Status(o) : l.type = "EntityStatus"
BY DEF Members, Memberships, Coordinators, Lists, AcceptedOnes, Status, To, Live

\* The parts of o after a call on it.
LEMMA Parts ==
  ASSUME OrganizationsInv, NEW a \in Agents, NEW o \in orgs, NEW n, NEW new, NEW cut, NEW gonners,
         Writes(a, o, n, new, cut, gonners)
  PROVE  /\ \A u : Members(o, u)' =
              (Members(o, u) \ cut)
              \cup {l \in new : l.type = "OrganizationMembers" /\ l.base = o /\ l.target = u}
         /\ \A u : Memberships(u, o)' =
              (Memberships(u, o) \ cut)
              \cup {l \in new : l.type = "UserOrganizations" /\ l.base = u /\ l.target = o}
         /\ Coordinators(o)' =
              (Coordinators(o) \ cut) \cup {l \in new : l.type = "OrganizationCoordinators" /\ l.base = o}
         /\ Lists(o)' =
              (Lists(o) \ cut)
              \cup {l \in new : l.type = "AllOrganizations" /\ l.base = AllPath /\ l.target = o}
         /\ AcceptedOnes(o)' =
              (AcceptedOnes(o) \ cut)
              \cup {l \in new : l.type = "AcceptedEntity" /\ l.base = AcceptedPath /\ l.target = o}
         /\ Status(o)' = (Status(o) \ cut) \cup {l \in new : l.type = "EntityStatus" /\ l.base = o}
         /\ o \in dead' <=> o \in dead \cup gonners
<1>1. \A type, base : Live(type, base)' =
        (Live(type, base) \ cut) \cup {l \in new : l.type = type /\ l.base = base}
  BY AfterWrites
<1>2. \A type, base, x : To(Live(type, base), x)' =
        (To(Live(type, base), x) \ cut) \cup {l \in new : l.type = type /\ l.base = base /\ l.target = x}
  BY <1>1 DEF To
<1>3. o \in dead' <=> o \in dead \cup gonners
  BY AfterWrites
<1> QED BY <1>1, <1>2, <1>3 DEF Members, Memberships, Coordinators, Lists, AcceptedOnes, Status

\* A part of which a call neither adds nor deletes a link.
LEMMA SamePart ==
  ASSUME NEW P, NEW Q, NEW cut, NEW R, Q = (P \ cut) \cup R, \A l \in P : l \notin cut, R = {}
  PROVE  Q = P
OBVIOUS

Touched(type, new, cut) == \E l \in new \cup cut : l.type = type

LEMMA PartsUntouched ==
  ASSUME OrganizationsInv, NEW a \in Agents, NEW o \in orgs, NEW n, NEW new, NEW cut, NEW gonners,
         Writes(a, o, n, new, cut, gonners)
  PROVE  /\ ~Touched("OrganizationCoordinators", new, cut) => Coordinators(o)' = Coordinators(o)
         /\ ~Touched("AllOrganizations", new, cut) => Lists(o)' = Lists(o)
         /\ ~Touched("AcceptedEntity", new, cut) => AcceptedOnes(o)' = AcceptedOnes(o)
         /\ ~Touched("EntityStatus", new, cut) => Status(o)' = Status(o)
         /\ ~Touched("OrganizationMembers", new, cut) => \A u : Members(o, u)' = Members(o, u)
         /\ ~Touched("UserOrganizations", new, cut) => \A u : Memberships(u, o)' = Memberships(u, o)
<1>1. ASSUME ~Touched("OrganizationCoordinators", new, cut) PROVE Coordinators(o)' = Coordinators(o)
  <2>1. Coordinators(o)' =
          (Coordinators(o) \ cut) \cup {l \in new : l.type = "OrganizationCoordinators" /\ l.base = o}
    BY Parts
  <2>2. \A l \in Coordinators(o) : l \notin cut
    BY <1>1, PartTypes DEF Touched
  <2>3. {l \in new : l.type = "OrganizationCoordinators" /\ l.base = o} = {}
    BY <1>1 DEF Touched
  <2> QED BY <2>1, <2>2, <2>3, SamePart
<1>2. ASSUME ~Touched("AllOrganizations", new, cut) PROVE Lists(o)' = Lists(o)
  <2>1. Lists(o)' =
          (Lists(o) \ cut) \cup {l \in new : l.type = "AllOrganizations" /\ l.base = AllPath /\ l.target = o}
    BY Parts
  <2>2. \A l \in Lists(o) : l \notin cut
    BY <1>2, PartTypes DEF Touched
  <2>3. {l \in new : l.type = "AllOrganizations" /\ l.base = AllPath /\ l.target = o} = {}
    BY <1>2 DEF Touched
  <2> QED BY <2>1, <2>2, <2>3, SamePart
<1>3. ASSUME ~Touched("AcceptedEntity", new, cut) PROVE AcceptedOnes(o)' = AcceptedOnes(o)
  <2>1. AcceptedOnes(o)' =
          (AcceptedOnes(o) \ cut)
          \cup {l \in new : l.type = "AcceptedEntity" /\ l.base = AcceptedPath /\ l.target = o}
    BY Parts
  <2>2. \A l \in AcceptedOnes(o) : l \notin cut
    BY <1>3, PartTypes DEF Touched
  <2>3. {l \in new : l.type = "AcceptedEntity" /\ l.base = AcceptedPath /\ l.target = o} = {}
    BY <1>3 DEF Touched
  <2> QED BY <2>1, <2>2, <2>3, SamePart
<1>4. ASSUME ~Touched("EntityStatus", new, cut) PROVE Status(o)' = Status(o)
  <2>1. Status(o)' = (Status(o) \ cut) \cup {l \in new : l.type = "EntityStatus" /\ l.base = o}
    BY Parts
  <2>2. \A l \in Status(o) : l \notin cut
    BY <1>4, PartTypes DEF Touched
  <2>3. {l \in new : l.type = "EntityStatus" /\ l.base = o} = {}
    BY <1>4 DEF Touched
  <2> QED BY <2>1, <2>2, <2>3, SamePart
<1>5. ASSUME ~Touched("OrganizationMembers", new, cut), NEW u PROVE Members(o, u)' = Members(o, u)
  <2>1. Members(o, u)' =
          (Members(o, u) \ cut)
          \cup {l \in new : l.type = "OrganizationMembers" /\ l.base = o /\ l.target = u}
    BY Parts
  <2>2. \A l \in Members(o, u) : l \notin cut
    BY <1>5, PartTypes DEF Touched
  <2>3. {l \in new : l.type = "OrganizationMembers" /\ l.base = o /\ l.target = u} = {}
    BY <1>5 DEF Touched
  <2> QED BY <2>1, <2>2, <2>3, SamePart
<1>6. ASSUME ~Touched("UserOrganizations", new, cut), NEW u PROVE Memberships(u, o)' = Memberships(u, o)
  <2>1. Memberships(u, o)' =
          (Memberships(u, o) \ cut)
          \cup {l \in new : l.type = "UserOrganizations" /\ l.base = u /\ l.target = o}
    BY Parts
  <2>2. \A l \in Memberships(u, o) : l \notin cut
    BY <1>6, PartTypes DEF Touched
  <2>3. {l \in new : l.type = "UserOrganizations" /\ l.base = u /\ l.target = o} = {}
    BY <1>6 DEF Touched
  <2> QED BY <2>1, <2>2, <2>3, SamePart
<1> QED BY <1>1, <1>2, <1>3, <1>4, <1>5, <1>6

\* A call that concerns the places of u alone.
OnlyOf(u, new, cut) ==
  \A l \in new \cup cut :
    \/ l.type \in {"OrganizationMembers", "OrganizationCoordinators"} /\ l.target = u
    \/ l.type = "UserOrganizations" /\ l.base = u

LEMMA PlacesOfOthers ==
  ASSUME OrganizationsInv, NEW a \in Agents, NEW o \in orgs, NEW n, NEW new, NEW cut, NEW gonners,
         Writes(a, o, n, new, cut, gonners), NEW u, OnlyOf(u, new, cut), NEW v, v # u
  PROVE  /\ Members(o, v)' = Members(o, v) /\ Memberships(v, o)' = Memberships(v, o)
         /\ To(Coordinators(o), v)' = To(Coordinators(o), v)
<1>1. Members(o, v)' = Members(o, v)
  <2>1. Members(o, v)' =
          (Members(o, v) \ cut)
          \cup {l \in new : l.type = "OrganizationMembers" /\ l.base = o /\ l.target = v}
    BY Parts
  <2>2. \A l \in Members(o, v) : l \notin cut
    BY PartTypes DEF OnlyOf
  <2>3. {l \in new : l.type = "OrganizationMembers" /\ l.base = o /\ l.target = v} = {}
    BY DEF OnlyOf
  <2> QED BY <2>1, <2>2, <2>3, SamePart
<1>2. Memberships(v, o)' = Memberships(v, o)
  <2>1. Memberships(v, o)' =
          (Memberships(v, o) \ cut)
          \cup {l \in new : l.type = "UserOrganizations" /\ l.base = v /\ l.target = o}
    BY Parts
  <2>2. \A l \in Memberships(v, o) : l \notin cut
    BY PartTypes DEF OnlyOf
  <2>3. {l \in new : l.type = "UserOrganizations" /\ l.base = v /\ l.target = o} = {}
    BY DEF OnlyOf
  <2> QED BY <2>1, <2>2, <2>3, SamePart
<1>3. To(Coordinators(o), v)' = To(Coordinators(o), v)
  <2>1. Coordinators(o)' =
          (Coordinators(o) \ cut) \cup {l \in new : l.type = "OrganizationCoordinators" /\ l.base = o}
    BY Parts
  <2>2. \A l \in Coordinators(o) : l \in cut => l.target # v
    BY PartTypes DEF OnlyOf
  <2>3. \A l \in new : l.type = "OrganizationCoordinators" => l.target # v
    BY DEF OnlyOf
  <2>4. To(Coordinators(o), v)' = {l \in Coordinators(o)' : l.target = v}
    BY DEF To
  <2> QED BY <2>1, <2>2, <2>3, <2>4 DEF To
<1> QED BY <1>1, <1>2, <1>3

\* If the places of u agree again, so does everything.
LEMMA AgreesAgain ==
  ASSUME OrganizationsInv, NEW a \in Agents, NEW o \in orgs, NEW n, NEW new, NEW cut,
         Writes(a, o, n, new, cut, {}), NEW u \in Agents, OnlyOf(u, new, cut),
         Agrees(o), o \notin dead, Coordinators(o)' # {}, PlacesAgree(o, u)'
  PROVE  Agrees(o)'
<1>1. Lists(o)' = Lists(o) /\ AcceptedOnes(o)' = AcceptedOnes(o) /\ Status(o)' = Status(o)
  BY PartsUntouched DEF OnlyOf, Touched
<1>2. o \notin dead'
  BY AfterWrites
<1>3. ASSUME NEW v \in Agents PROVE PlacesAgree(o, v)'
  <2>1. CASE v = u
    BY <2>1
  <2>2. CASE v # u
    BY <2>2, PlacesOfOthers DEF Agrees, PlacesAgree
  <2> QED BY <2>1, <2>2
<1> QED BY <1>1, <1>2, <1>3 DEF Agrees, PlacesAgree

LEMMA AddMemberAgrees ==
  ASSUME OrganizationsInv, NEW a \in Agents, NEW o \in orgs, NEW u \in Agents, UpToDate(a), Agrees(o),
         AddMember(a, o, u)
  PROVE  Agrees(o)'
<1>1. PICK l, m, new : /\ l = Link(clock + 1, "OrganizationMembers", o, u)
                       /\ m = Link(clock + 2, "UserOrganizations", u, o)
                       /\ new = {l, m}
  OBVIOUS
<1>2. Membership(clock + 1, o, u) = new
  BY <1>1 DEF Membership, OrganizationsInv, TypeOK, DhtTypeOK
<1>3. Writes(a, o, 2, new, {}, {}) /\ OnlyOf(u, new, {})
  BY <1>1, <1>2, AddMemberWrites DEF OnlyOf, Link
<1>4. Members(o, u) = {} /\ Memberships(u, o) = {} /\ Coordinators(o) # {} /\ o \notin dead
  BY CompleteGuards DEF AddMember, Agrees, PlacesAgree, To
<1>5. Members(o, u)' = {l}
  <2>1. Members(o, u)' =
          (Members(o, u) \ {})
          \cup {k \in new : k.type = "OrganizationMembers" /\ k.base = o /\ k.target = u}
    BY <1>3, Parts
  <2> QED BY <1>1, <1>4, <2>1 DEF Link
<1>6. Memberships(u, o)' = {m}
  <2>1. Memberships(u, o)' =
          (Memberships(u, o) \ {})
          \cup {k \in new : k.type = "UserOrganizations" /\ k.base = u /\ k.target = o}
    BY <1>3, Parts
  <2> QED BY <1>1, <1>4, <2>1 DEF Link
<1>7. Coordinators(o)' = Coordinators(o)
  <2>1. ~Touched("OrganizationCoordinators", new, {})
    BY <1>1 DEF Touched, Link
  <2> QED BY <1>3, <2>1, PartsUntouched
<1>8. PlacesAgree(o, u)'
  <2>1. To(Coordinators(o), u)' = To(Coordinators(o), u)
    BY <1>7 DEF To
  <2>2. AtMostOne(To(Coordinators(o), u))
    BY DEF Agrees, PlacesAgree
  <2> QED BY <1>5, <1>6, <2>1, <2>2 DEF PlacesAgree, AtMostOne
<1> QED BY <1>3, <1>4, <1>7, <1>8, AgreesAgain

LEMMA AddCoordinatorAgrees ==
  ASSUME OrganizationsInv, NEW a \in Agents, NEW o \in orgs, NEW u \in Agents, UpToDate(a), Agrees(o),
         AddCoordinator(a, o, u)
  PROVE  Agrees(o)'
<1>1. PICK c, l, m, member, new :
        /\ c = Link(clock + 1, "OrganizationCoordinators", o, u)
        /\ l = Link(clock + 2, "OrganizationMembers", o, u)
        /\ m = Link(clock + 3, "UserOrganizations", u, o)
        /\ member = IF IsMember(a, o, u) THEN {} ELSE {l, m}
        /\ new = {c} \cup member
  OBVIOUS
<1>2. member = IF IsMember(a, o, u) THEN {} ELSE Membership(clock + 2, o, u)
  BY <1>1 DEF Membership, OrganizationsInv, TypeOK, DhtTypeOK
<1>3. PICK n \in Nat : Writes(a, o, n, new, {}, {})
  BY <1>1, <1>2, AddCoordinatorWrites
<1>4. OnlyOf(u, new, {})
  BY <1>1 DEF OnlyOf, Link
<1>5. To(Coordinators(o), u) = {} /\ o \notin dead
  BY CompleteGuards DEF AddCoordinator, Agrees, To
<1>6. Coordinators(o)' = Coordinators(o) \cup {c}
  <2>1. Coordinators(o)' =
          (Coordinators(o) \ {}) \cup {k \in new : k.type = "OrganizationCoordinators" /\ k.base = o}
    BY <1>3, Parts
  <2> QED BY <1>1, <2>1 DEF Link
<1>7. AtMostOne(To(Coordinators(o), u)')
  <2>1. To(Coordinators(o), u)' = {k \in Coordinators(o)' : k.target = u}
    BY DEF To
  <2> QED BY <1>5, <1>6, <2>1 DEF To, AtMostOne
<1>8. /\ AtMostOne(Members(o, u)') /\ AtMostOne(Memberships(u, o)')
      /\ Members(o, u)' # {} /\ Memberships(u, o)' # {}
  <2>1. Members(o, u)' =
          (Members(o, u) \ {})
          \cup {k \in new : k.type = "OrganizationMembers" /\ k.base = o /\ k.target = u}
    BY <1>3, Parts
  <2>2. Memberships(u, o)' =
          (Memberships(u, o) \ {})
          \cup {k \in new : k.type = "UserOrganizations" /\ k.base = u /\ k.target = o}
    BY <1>3, Parts
  <2>3. CASE IsMember(a, o, u)
    <3>1. Members(o, u) # {} /\ Memberships(u, o) # {}
      BY <2>3, CompleteGuards
    <3>2. \A k \in new : k.type = "OrganizationCoordinators"
      BY <1>1, <2>3 DEF Link
    <3>3. Members(o, u)' = Members(o, u) /\ Memberships(u, o)' = Memberships(u, o)
      BY <2>1, <2>2, <3>2
    <3> QED BY <3>1, <3>3 DEF Agrees, PlacesAgree
  <2>4. CASE ~IsMember(a, o, u)
    <3>1. Members(o, u) = {} /\ Memberships(u, o) = {}
      BY <2>4, CompleteGuards DEF Agrees, PlacesAgree
    <3>2. Members(o, u)' = {l}
      BY <1>1, <2>1, <2>4, <3>1 DEF Link
    <3>3. Memberships(u, o)' = {m}
      BY <1>1, <2>2, <2>4, <3>1 DEF Link
    <3> QED BY <3>2, <3>3 DEF AtMostOne
  <2> QED BY <2>3, <2>4
<1>9. PlacesAgree(o, u)'
  BY <1>7, <1>8 DEF PlacesAgree
<1> QED BY <1>3, <1>4, <1>5, <1>6, <1>9, AgreesAgain

\* Of links of which there is one at most, none is left when one is deleted.
LEMMA TheOnlyOne ==
  ASSUME NEW S, AtMostOne(S), NEW l \in S, NEW cut, l \in cut
  PROVE  S \ cut = {}
BY DEF AtMostOne

LEMMA RemoveMemberAgrees ==
  ASSUME OrganizationsInv, NEW a \in Agents, NEW o \in orgs, NEW u \in Agents, UpToDate(a), Agrees(o),
         RemoveMember(a, o, u)
  PROVE  Agrees(o)'
<1>1. PICK l \in Members(o, u), m \in Memberships(u, o) : Writes(a, o, 0, {}, {l, m}, {})
  <2>1. /\ To(MembersLinks(a, o), u) = Members(o, u)
        /\ To(UserOrganizationsLinks(a, u), o) = Memberships(u, o)
    BY CompleteReads
  <2> QED BY <2>1, RemoveMemberWrites
<1>2. PICK cut : cut = {l, m}
  OBVIOUS
<1>3. Writes(a, o, 0, {}, cut, {}) /\ OnlyOf(u, {}, cut)
  BY <1>1, <1>2, PartTypes DEF OnlyOf
<1>4. To(Coordinators(o), u) = {} /\ Coordinators(o) # {} /\ o \notin dead
  BY CompleteGuards DEF RemoveMember, Agrees, To
<1>5. Members(o, u)' = {}
  <2>1. Members(o, u)' =
          (Members(o, u) \ cut)
          \cup {k \in {} : k.type = "OrganizationMembers" /\ k.base = o /\ k.target = u}
    BY <1>3, Parts
  <2>2. AtMostOne(Members(o, u)) /\ l \in cut
    BY <1>2 DEF Agrees, PlacesAgree
  <2> QED BY <1>1, <2>1, <2>2, TheOnlyOne
<1>6. Memberships(u, o)' = {}
  <2>1. Memberships(u, o)' =
          (Memberships(u, o) \ cut)
          \cup {k \in {} : k.type = "UserOrganizations" /\ k.base = u /\ k.target = o}
    BY <1>3, Parts
  <2>2. AtMostOne(Memberships(u, o)) /\ m \in cut
    BY <1>2 DEF Agrees, PlacesAgree
  <2> QED BY <1>1, <2>1, <2>2, TheOnlyOne
<1>7. Coordinators(o)' = Coordinators(o)
  <2>1. ~Touched("OrganizationCoordinators", {}, cut)
    BY <1>1, <1>2, PartTypes DEF Touched
  <2> QED BY <1>3, <2>1, PartsUntouched
<1>8. PlacesAgree(o, u)'
  <2>1. To(Coordinators(o), u)' = {}
    BY <1>4, <1>7 DEF To
  <2> QED BY <1>5, <1>6, <2>1 DEF PlacesAgree, AtMostOne
<1> QED BY <1>3, <1>4, <1>7, <1>8, AgreesAgain

\* Of two coordinators at least, the removal of one leaves one.
LEMMA OneIsLeft ==
  ASSUME NEW S, Cardinality(S) > 1, NEW l
  PROVE  S \ {l} # {}
<1> SUFFICES ASSUME S \ {l} = {} PROVE FALSE
  OBVIOUS
<1>1. AtMostOne(S)
  BY DEF AtMostOne
<1> QED BY <1>1, FewLinks

LEMMA RemoveCoordinatorAgrees ==
  ASSUME OrganizationsInv, NEW a \in Agents, NEW o \in orgs, NEW u \in Agents, UpToDate(a), Agrees(o),
         RemoveCoordinator(a, o, u)
  PROVE  Agrees(o)'
<1>1. PICK l \in To(Coordinators(o), u) : Writes(a, o, 0, {}, {l}, {})
  BY RemoveCoordinatorWrites, CompleteReads
<1>2. PICK cut : cut = {l}
  OBVIOUS
<1>3. Writes(a, o, 0, {}, cut, {}) /\ OnlyOf(u, {}, cut)
  BY <1>1, <1>2, PartTypes DEF OnlyOf, To
<1>4. Coordinators(o) # {} /\ o \notin dead
  BY <1>1 DEF Agrees, To
<1>5. Coordinators(o)' = Coordinators(o) \ {l}
  <2>1. Coordinators(o)' =
          (Coordinators(o) \ cut) \cup {k \in {} : k.type = "OrganizationCoordinators" /\ k.base = o}
    BY <1>3, Parts
  <2> QED BY <1>2, <2>1
<1>6. Coordinators(o)' # {}
  <2>1. Cardinality(Coordinators(o)) > 1
    BY CompleteReads DEF RemoveCoordinator
  <2> QED BY <1>5, <2>1, OneIsLeft
<1>7. Members(o, u)' = Members(o, u) /\ Memberships(u, o)' = Memberships(u, o)
  <2>1. ~Touched("OrganizationMembers", {}, cut) /\ ~Touched("UserOrganizations", {}, cut)
    BY <1>1, <1>2, PartTypes DEF Touched, To
  <2> QED BY <1>3, <2>1, PartsUntouched
<1>8. PlacesAgree(o, u)'
  <2>1. To(Coordinators(o), u)' = {k \in Coordinators(o)' : k.target = u}
    BY DEF To
  <2>2. To(Coordinators(o), u)' \subseteq To(Coordinators(o), u)
    BY <1>5, <2>1 DEF To
  <2>3. PlacesAgree(o, u)
    BY DEF Agrees
  <2> QED BY <1>7, <2>2, <2>3 DEF PlacesAgree, AtMostOne
<1> QED BY <1>3, <1>4, <1>6, <1>8, AgreesAgain

\* A call that touches no part of o.
LEMMA UpdateOrganizationAgrees ==
  ASSUME OrganizationsInv, NEW a \in Agents, NEW o \in orgs, UpToDate(a), Agrees(o), UpdateOrganization(a, o)
  PROVE  Agrees(o)'
<1>1. PICK new : new = {Link(clock + 2, "OrganizationUpdates", o, clock + 1)}
  OBVIOUS
<1>2. Writes(a, o, 2, new, {}, {})
  BY <1>1, UpdateOrganizationWrites
<1>3. \A l \in new \cup {} : l.type = "OrganizationUpdates"
  BY <1>1 DEF Link
<1>4. Coordinators(o)' = Coordinators(o)
      /\ Lists(o)' = Lists(o) /\ AcceptedOnes(o)' = AcceptedOnes(o) /\ Status(o)' = Status(o)
  BY <1>2, <1>3, PartsUntouched DEF Touched
<1>5. \A u : Members(o, u)' = Members(o, u) /\ Memberships(u, o)' = Memberships(u, o)
  BY <1>2, <1>3, PartsUntouched DEF Touched
<1>6. o \in dead' <=> o \in dead
  BY <1>2, AfterWrites
<1>7. \A u : To(Coordinators(o), u)' = To(Coordinators(o), u)
  BY <1>4 DEF To
<1>8. \A u \in Agents : PlacesAgree(o, u)'
  BY <1>5, <1>7 DEF Agrees, PlacesAgree
<1> QED BY <1>4, <1>5, <1>6, <1>8 DEF Agrees

LEMMA SetAcceptedAgrees ==
  ASSUME OrganizationsInv, NEW a \in Agents, NEW o \in orgs, NEW accept \in BOOLEAN, UpToDate(a), Agrees(o),
         SetAccepted(a, o, accept)
  PROVE  Agrees(o)'
<1>1. PICK s, accepted, new :
        /\ s = Link(clock + 1, "EntityStatus", o, clock + 1)
        /\ accepted = IF accept THEN {Link(clock + 2, "AcceptedEntity", AcceptedPath, o)} ELSE {}
        /\ new = {s} \cup accepted
  OBVIOUS
<1>2. PICK n \in Nat, old \in StatusLinks(a, o), T \in SUBSET AcceptedLinks(a, o) :
        /\ Cardinality(AcceptedLinks(a, o)) <= 1 => IdsOf(T) = IdsOf(AcceptedLinks(a, o))
        /\ Writes(a, o, n, new, {old} \cup T, {})
  BY <1>1, SetAcceptedWrites
<1>3. PICK cut : cut = {old} \cup T
  OBVIOUS
<1>4. old \in Status(o) /\ T \subseteq AcceptedOnes(o) /\ Writes(a, o, n, new, cut, {})
  BY <1>2, <1>3, CompleteReads
<1>5. T = AcceptedOnes(o)
  <2>1. Cardinality(AcceptedOnes(o)) <= 1
    BY FewLinks DEF Agrees
  <2>2. IdsOf(T) = IdsOf(AcceptedOnes(o))
    BY <1>2, <2>1, CompleteReads
  <2>3. \A l \in AcceptedOnes(o) : l \in T
    BY <1>4, <2>2 DEF IdsOf, AcceptedOnes, To, Live, OrganizationsInv, TypeOK, DhtTypeOK
  <2> QED BY <1>4, <2>3
<1>6. Status(o)' = {s}
  <2>1. Status(o)' = (Status(o) \ cut) \cup {l \in new : l.type = "EntityStatus" /\ l.base = o}
    BY <1>4, Parts
  <2>2. Status(o) \ cut = {}
    BY <1>3, <1>4, TheOnlyOne DEF Agrees
  <2> QED BY <1>1, <2>1, <2>2 DEF Link
<1>7. AcceptedOnes(o)' = accepted
  <2>1. AcceptedOnes(o)' =
          (AcceptedOnes(o) \ cut)
          \cup {l \in new : l.type = "AcceptedEntity" /\ l.base = AcceptedPath /\ l.target = o}
    BY <1>4, Parts
  <2>2. AcceptedOnes(o) \ cut = {}
    BY <1>3, <1>5
  <2> QED BY <1>1, <2>1, <2>2 DEF Link
<1>8. o \notin dead /\ o \notin dead'
  BY <1>4, AfterWrites DEF Agrees
<1>9. Coordinators(o)' = Coordinators(o) /\ Lists(o)' = Lists(o)
      /\ \A u \in Agents : Members(o, u)' = Members(o, u) /\ Memberships(u, o)' = Memberships(u, o)
  BY ModerationKeepsPlaces
<1>10. \A u : To(Coordinators(o), u)' = To(Coordinators(o), u)
  BY <1>9 DEF To
<1>11. \A u \in Agents : PlacesAgree(o, u)'
  BY <1>9, <1>10 DEF Agrees, PlacesAgree
<1>12. AtMostOne(AcceptedOnes(o)') /\ AtMostOne(Status(o)')
  BY <1>1, <1>6, <1>7 DEF AtMostOne
<1> QED BY <1>8, <1>9, <1>11, <1>12 DEF Agrees

\* A deletion takes every link along that concerns the organization.
LEMMA DeleteOrganizationAgrees ==
  ASSUME OrganizationsInv, NEW a \in Agents, NEW o \in orgs, UpToDate(a), Agrees(o), DeleteOrganization(a, o)
  PROVE  Agrees(o)'
<1>1. PICK D \in Deletion(a, o, {}) :
        Writes(a, o, 0, {}, {l \in links : Concerns(l, o) /\ l.id \in D}, {o})
  BY DeleteOrganizationWrites
<1>2. PICK cut : cut = {l \in links : Concerns(l, o) /\ l.id \in D}
  OBVIOUS
<1>3. Writes(a, o, 0, {}, cut, {o})
  BY <1>1, <1>2
<1>4. \A type, base : Live(type, base)' =
        (Live(type, base) \ cut) \cup {l \in {} : l.type = type /\ l.base = base}
  BY <1>3, AfterWrites
<1>5. \A l \in Live("OrganizationMembers", o) \cup Coordinators(o) : l.id \in D /\ l \in cut
  <2>1. \A l \in Live("OrganizationMembers", o) \cup Coordinators(o) : l.id \in D
    BY DeletionLinks, CompleteReads
  <2>2. \A l \in Live("OrganizationMembers", o) \cup Coordinators(o) : l \in links /\ Concerns(l, o)
    BY DEF Live, Coordinators, Concerns
  <2> QED BY <1>2, <2>1, <2>2
<1>6. Coordinators(o)' = {}
  BY <1>4, <1>5 DEF Coordinators
<1>7. ASSUME NEW u \in Agents PROVE Members(o, u)' = {}
  <2>1. Members(o, u)' = {l \in Live("OrganizationMembers", o)' : l.target = u}
    BY DEF Members, To
  <2> QED BY <1>4, <1>5, <2>1
<1>8. ASSUME NEW u \in Agents PROVE Memberships(u, o)' = {}
  <2>1. \A l \in Memberships(u, o) : l \in cut
    <3> SUFFICES ASSUME NEW l \in Memberships(u, o) PROVE l \in cut
      OBVIOUS
    <3>1. PlacesAgree(o, u)
      BY DEF Agrees
    <3>2. PICK k : k \in Members(o, u)
      BY <3>1 DEF PlacesAgree
    <3>3. k \in MembersLinks(a, o) /\ k.target = u
      BY <3>2, CompleteReads DEF Members, To
    <3>4. Cardinality(Members(o, u)) = 1
      <4>1. Members(o, u) = {k}
        BY <3>1, <3>2 DEF PlacesAgree, AtMostOne
      <4> QED BY <4>1, FS_Singleton
    <3>5. Cardinality(Memberships(u, o)) <= 1
      BY <3>1, FewLinks DEF PlacesAgree
    <3>6. Cardinality(To(UserOrganizationsLinks(a, k.target), o))
            <= Cardinality(To(MembersLinks(a, o), k.target))
      BY <3>3, <3>4, <3>5, CompleteReads
    <3>7. l \in To(UserOrganizationsLinks(a, k.target), o)
      BY <3>3, CompleteReads
    <3>8. l.id \in D
      BY <3>3, <3>6, <3>7, DeletionLinks
    <3> QED BY <1>2, <3>8 DEF Memberships, To, Live, Concerns
  <2>2. Memberships(u, o)' =
          (Memberships(u, o) \ cut)
          \cup {l \in {} : l.type = "UserOrganizations" /\ l.base = u /\ l.target = o}
    BY <1>3, Parts
  <2> QED BY <2>1, <2>2
<1>9. Lists(o)' = {}
  <2>1. Cardinality(Lists(o)) <= 1
    BY FewLinks DEF Agrees
  <2>2. \A l \in Lists(o) : l.id \in D
    BY <2>1, DeletionLinks, CompleteReads
  <2>3. \A l \in Lists(o) : l \in cut
    BY <1>2, <2>2 DEF Lists, To, Live, Concerns
  <2>4. Lists(o)' =
          (Lists(o) \ cut)
          \cup {l \in {} : l.type = "AllOrganizations" /\ l.base = AllPath /\ l.target = o}
    BY <1>3, Parts
  <2> QED BY <2>3, <2>4
<1>10. AcceptedOnes(o)' = {}
  <2>1. Cardinality(AcceptedOnes(o)) <= 2
    BY FewLinks DEF Agrees
  <2>2. \A l \in AcceptedOnes(o) : l.id \in D
    BY <2>1, DeletionLinks, CompleteReads
  <2>3. \A l \in AcceptedOnes(o) : l \in cut
    BY <1>2, <2>2 DEF AcceptedOnes, To, Live, Concerns
  <2>4. AcceptedOnes(o)' =
          (AcceptedOnes(o) \ cut)
          \cup {l \in {} : l.type = "AcceptedEntity" /\ l.base = AcceptedPath /\ l.target = o}
    BY <1>3, Parts
  <2> QED BY <2>3, <2>4
<1>11. Status(o)' = {}
  <2>1. PICK l \in Status(o) : l.id \in D
    BY DeletionLinks, CompleteReads
  <2>2. l \in cut
    BY <1>2, <2>1 DEF Status, Live, Concerns
  <2>3. Status(o)' = (Status(o) \ cut) \cup {k \in {} : k.type = "EntityStatus" /\ k.base = o}
    BY <1>3, Parts
  <2> QED BY <2>2, <2>3, TheOnlyOne DEF Agrees
<1>12. o \in dead'
  BY <1>3, AfterWrites
<1>13. \A u \in Agents : PlacesAgree(o, u)'
  BY <1>6, <1>7, <1>8 DEF PlacesAgree, AtMostOne, To
<1> QED BY <1>6, <1>7, <1>9, <1>10, <1>11, <1>12, <1>13 DEF Agrees, AtMostOne

\* Who leaves takes both links of its membership and its coordinator link along;
\* nobody who is the last member gets past the check of delete_organization.
LEMMA LeaveOrganizationAgrees ==
  ASSUME OrganizationsInv, NEW a \in Agents, NEW o \in orgs, UpToDate(a), Agrees(o), LeaveOrganization(a, o)
  PROVE  Agrees(o)'
<1>1. PICK C \in SUBSET To(Coordinators(o), a), l \in Members(o, a), m \in Memberships(a, o) :
        /\ IsCoordinator(a, o, a) => /\ Cardinality(Coordinators(o)) > 1
                                     /\ \E c \in To(Coordinators(o), a) : C = {c}
        /\ \/ Writes(a, o, 0, {}, C \cup {l, m}, {})
           \/ \E c \in To(Coordinators(o), a) : c.id \notin IdsOf(C)
  <2>1. To(CoordinatorsLinks(a, o), a) = To(Coordinators(o), a)
        /\ To(MembersLinks(a, o), a) = Members(o, a) /\ To(UserOrganizationsLinks(a, a), o) = Memberships(a, o)
        /\ CoordinatorsLinks(a, o) = Coordinators(o)
    BY CompleteReads
  <2>2. PICK C \in SUBSET To(CoordinatorsLinks(a, o), a),
             l \in To(MembersLinks(a, o), a), m \in To(UserOrganizationsLinks(a, a), o) :
          /\ IsCoordinator(a, o, a) => /\ Cardinality(CoordinatorsLinks(a, o)) > 1
                                       /\ \E c \in To(CoordinatorsLinks(a, o), a) : C = {c}
          /\ \/ Writes(a, o, 0, {}, C \cup {l, m}, {})
             \/ \E c \in To(CoordinatorsLinks(a, o), a) : c.id \notin IdsOf(C)
    BY LeaveOrganizationWrites
  <2> QED BY <2>1, <2>2
<1>2. PlacesAgree(o, a)
  BY DEF Agrees
<1>3. C = To(Coordinators(o), a)
  <2>1. CASE IsCoordinator(a, o, a)
    BY <1>1, <1>2, <2>1 DEF PlacesAgree, AtMostOne
  <2>2. CASE ~IsCoordinator(a, o, a)
    <3>1. To(Coordinators(o), a) = {}
      BY <2>2, CompleteGuards
    <3> QED BY <1>1, <3>1
  <2> QED BY <2>1, <2>2
<1>4. PICK cut : cut = C \cup {l, m}
  OBVIOUS
<1>5. Writes(a, o, 0, {}, cut, {})
  BY <1>1, <1>3, <1>4 DEF IdsOf
<1>6. OnlyOf(a, {}, cut)
  BY <1>1, <1>4, PartTypes DEF OnlyOf, To
<1>7. Members(o, a)' = {}
  <2>1. Members(o, a)' =
          (Members(o, a) \ cut)
          \cup {k \in {} : k.type = "OrganizationMembers" /\ k.base = o /\ k.target = a}
    BY <1>5, Parts
  <2> QED BY <1>1, <1>2, <1>4, <2>1, TheOnlyOne DEF PlacesAgree
<1>8. Memberships(a, o)' = {}
  <2>1. Memberships(a, o)' =
          (Memberships(a, o) \ cut)
          \cup {k \in {} : k.type = "UserOrganizations" /\ k.base = a /\ k.target = o}
    BY <1>5, Parts
  <2> QED BY <1>1, <1>2, <1>4, <2>1, TheOnlyOne DEF PlacesAgree
<1>9. Coordinators(o)' = Coordinators(o) \ To(Coordinators(o), a)
  <2>1. Coordinators(o)' =
          (Coordinators(o) \ cut) \cup {k \in {} : k.type = "OrganizationCoordinators" /\ k.base = o}
    BY <1>5, Parts
  <2>2. l \notin Coordinators(o) /\ m \notin Coordinators(o)
    BY <1>1, PartTypes
  <2> QED BY <1>3, <1>4, <2>1, <2>2
<1>10. To(Coordinators(o), a)' = {}
  <2>1. To(Coordinators(o), a)' = {k \in Coordinators(o)' : k.target = a}
    BY DEF To
  <2> QED BY <1>9, <2>1 DEF To
<1>11. o \notin dead
  BY <1>1 DEF Agrees
<1>12. Coordinators(o)' # {}
  <2>1. CASE IsCoordinator(a, o, a)
    <3>1. PICK c : To(Coordinators(o), a) = {c}
      BY <1>1, <1>3, <2>1
    <3>2. Cardinality(Coordinators(o)) > 1
      BY <1>1, <2>1
    <3> QED BY <1>9, <3>1, <3>2, OneIsLeft
  <2>2. CASE ~IsCoordinator(a, o, a)
    <3>1. To(Coordinators(o), a) = {}
      BY <2>2, CompleteGuards
    <3> QED BY <1>9, <1>11, <3>1 DEF Agrees
  <2> QED BY <2>1, <2>2
<1>13. PlacesAgree(o, a)'
  BY <1>7, <1>8, <1>10 DEF PlacesAgree, AtMostOne
<1> QED BY <1>5, <1>6, <1>11, <1>12, <1>13, AgreesAgain

\* A new organization has its creator as its only member and coordinator.
LEMMA NewOrganizationAgrees ==
  ASSUME OrganizationsInv, NEW a \in Agents, CreateOrganization(a), NEW o, o = clock + 1
  PROVE  Agrees(o)'
<1>1. PICK all, s, c, l, m, new :
        /\ all = Link(clock + 2, "AllOrganizations", AllPath, o)
        /\ s = Link(clock + 3, "EntityStatus", o, clock + 3)
        /\ c = Link(clock + 6, "OrganizationCoordinators", o, a)
        /\ l = Link(clock + 4, "OrganizationMembers", o, a)
        /\ m = Link(clock + 5, "UserOrganizations", a, o)
        /\ new = {all, s, c, l, m}
  OBVIOUS
<1>2. new = {Link(clock + 2, "AllOrganizations", AllPath, o),
             Link(clock + 3, "EntityStatus", o, clock + 3),
             Link(clock + 6, "OrganizationCoordinators", o, a)} \cup Membership(clock + 4, o, a)
  BY <1>1 DEF Membership, OrganizationsInv, TypeOK, DhtTypeOK
<1>3. /\ \A type, base : Live(type, base)' = Live(type, base) \cup {k \in new : k.type = type /\ k.base = base}
      /\ dead' = dead /\ o \notin Ids
      /\ \A k \in links : ~Concerns(k, o)
  BY <1>2, CreateOrganizationLinks
<1>4. \A type, base : \A k \in Live(type, base) : ~Concerns(k, o)
  BY <1>3 DEF Live
<1>5. o \notin dead'
  BY <1>3 DEF OrganizationsInv, TypeOK, DhtTypeOK
<1>6. Coordinators(o)' = {c}
  <2>1. Coordinators(o)' =
          Live("OrganizationCoordinators", o)
          \cup {k \in new : k.type = "OrganizationCoordinators" /\ k.base = o}
    BY <1>3 DEF Coordinators
  <2>2. Live("OrganizationCoordinators", o) = {}
    BY <1>4 DEF Concerns, Live
  <2> QED BY <1>1, <2>1, <2>2 DEF Link
<1>7. Live("OrganizationMembers", o)' = {l}
  <2>1. Live("OrganizationMembers", o)' =
          Live("OrganizationMembers", o) \cup {k \in new : k.type = "OrganizationMembers" /\ k.base = o}
    BY <1>3
  <2>2. Live("OrganizationMembers", o) = {}
    BY <1>4 DEF Concerns, Live
  <2> QED BY <1>1, <2>1, <2>2 DEF Link
<1>8. Status(o)' = {s}
  <2>1. Status(o)' = Live("EntityStatus", o) \cup {k \in new : k.type = "EntityStatus" /\ k.base = o}
    BY <1>3 DEF Status
  <2>2. Live("EntityStatus", o) = {}
    BY <1>4 DEF Concerns, Live
  <2> QED BY <1>1, <2>1, <2>2 DEF Link
<1>9. Lists(o)' = {all}
  <2>1. Lists(o)' = {k \in Live("AllOrganizations", AllPath)' : k.target = o}
    BY DEF Lists, To
  <2>2. \A k \in Live("AllOrganizations", AllPath) : k.target # o
    BY <1>4 DEF Concerns, Live
  <2>3. Live("AllOrganizations", AllPath)' =
          Live("AllOrganizations", AllPath) \cup {k \in new : k.type = "AllOrganizations" /\ k.base = AllPath}
    BY <1>3
  <2> QED BY <1>1, <2>1, <2>2, <2>3 DEF Link
<1>10. AcceptedOnes(o)' = {}
  <2>1. AcceptedOnes(o)' = {k \in Live("AcceptedEntity", AcceptedPath)' : k.target = o}
    BY DEF AcceptedOnes, To
  <2>2. \A k \in Live("AcceptedEntity", AcceptedPath) : k.target # o
    BY <1>4 DEF Concerns, Live
  <2>3. Live("AcceptedEntity", AcceptedPath)' =
          Live("AcceptedEntity", AcceptedPath)
          \cup {k \in new : k.type = "AcceptedEntity" /\ k.base = AcceptedPath}
    BY <1>3
  <2>4. \A k \in new : k.type # "AcceptedEntity"
    BY <1>1 DEF Link
  <2> QED BY <2>1, <2>2, <2>3, <2>4
<1>11. ASSUME NEW u \in Agents PROVE PlacesAgree(o, u)'
  <2>1. Members(o, u)' = {k \in Live("OrganizationMembers", o)' : k.target = u}
    BY DEF Members, To
  <2>2. To(Coordinators(o), u)' = {k \in Coordinators(o)' : k.target = u}
    BY DEF To
  <2>3. Memberships(u, o)' = {k \in Live("UserOrganizations", u)' : k.target = o}
    BY DEF Memberships, To
  <2>4. Live("UserOrganizations", u)' =
          Live("UserOrganizations", u) \cup {k \in new : k.type = "UserOrganizations" /\ k.base = u}
    BY <1>3
  <2>5. \A k \in Live("UserOrganizations", u) : k.target # o
    BY <1>4 DEF Concerns, Live
  <2>6. CASE u = a
    <3>1. Members(o, u)' = {l} /\ To(Coordinators(o), u)' = {c}
      BY <1>1, <1>6, <1>7, <2>1, <2>2, <2>6 DEF Link
    <3>2. Memberships(u, o)' = {m}
      BY <1>1, <2>3, <2>4, <2>5, <2>6 DEF Link
    <3> QED BY <3>1, <3>2 DEF PlacesAgree, AtMostOne
  <2>7. CASE u # a
    <3>1. Members(o, u)' = {} /\ To(Coordinators(o), u)' = {}
      BY <1>1, <1>6, <1>7, <2>1, <2>2, <2>7 DEF Link
    <3>2. Memberships(u, o)' = {}
      BY <1>1, <2>3, <2>4, <2>5, <2>7 DEF Link
    <3> QED BY <3>1, <3>2 DEF PlacesAgree, AtMostOne
  <2> QED BY <2>6, <2>7
<1> QED BY <1>5, <1>6, <1>8, <1>9, <1>10, <1>11 DEF Agrees, AtMostOne

LEMMA CallOnAgrees ==
  ASSUME OrganizationsInv, NEW a \in Agents, NEW o \in orgs, UpToDate(a), Agrees(o), CallOn(a, o)
  PROVE  Agrees(o)'
BY AddMemberAgrees, AddCoordinatorAgrees, RemoveMemberAgrees, RemoveCoordinatorAgrees,
   UpdateOrganizationAgrees, SetAcceptedAgrees, DeleteOrganizationAgrees, LeaveOrganizationAgrees
   DEF CallOn

\* An organization of which nothing changes agrees as before.
LEMMA StillAgrees ==
  ASSUME NEW x, Agrees(x),
         \A u \in Agents : Members(x, u)' = Members(x, u) /\ Memberships(u, x)' = Memberships(u, x),
         Coordinators(x)' = Coordinators(x),
         Lists(x)' = Lists(x), AcceptedOnes(x)' = AcceptedOnes(x), Status(x)' = Status(x),
         x \in dead' <=> x \in dead
  PROVE  Agrees(x)'
<1>1. \A u : To(Coordinators(x), u)' = To(Coordinators(x), u)
  BY DEF To
<1>2. \A u \in Agents : PlacesAgree(x, u)'
  BY <1>1 DEF Agrees, PlacesAgree
<1> QED BY <1>2 DEF Agrees

LEMMA NextAgree ==
  ASSUME OrganizationsInv, OrganizationsAgree, [Next]_vars
  PROVE  OrganizationsAgree'
<1> SUFFICES ASSUME serial', NEW x \in orgs' PROVE Agrees(x)'
  BY DEF OrganizationsAgree
<1>1. CASE \E a \in Agents : CreateOrganization(a)
  <2>1. PICK a \in Agents : CreateOrganization(a)
    BY <1>1
  <2>2. serial /\ orgs' = orgs \cup {clock + 1}
    BY <2>1, CreateOrganizationLinks
  <2>3. CASE x \in orgs
    <3>1. Agrees(x)
      BY <2>2, <2>3 DEF OrganizationsAgree
    <3> QED BY <2>1, <2>3, <3>1, CreateKeepsOthers, StillAgrees
  <2>4. CASE x = clock + 1
    BY <2>1, <2>4, NewOrganizationAgrees
  <2> QED BY <2>2, <2>3, <2>4
<1>2. CASE \E a \in Agents, o \in orgs : CallOn(a, o)
  <2>1. PICK a \in Agents, o \in orgs : CallOn(a, o)
    BY <1>2
  <2>2. PICK n, new, cut, gonners : Writes(a, o, n, new, cut, gonners)
    BY <2>1, CallOnWrites
  <2>3. serial /\ UpToDate(a) /\ orgs' = orgs
    <3>1. serial /\ UpToDate(a)
      BY <2>2, AfterWrites
    <3> QED BY <2>2, <3>1 DEF Writes
  <2>4. Agrees(x) /\ Agrees(o)
    BY <2>3 DEF OrganizationsAgree
  <2>5. CASE x = o
    BY <2>1, <2>3, <2>4, <2>5, CallOnAgrees
  <2>6. CASE x # o
    <3>1. x \in orgs \ {o}
      BY <2>3, <2>6
    <3> QED BY <2>2, <2>4, <3>1, OthersUntouched, StillAgrees
  <2> QED BY <2>5, <2>6
<1>3. CASE Deliver \/ UNCHANGED vars
  <2>1. UNCHANGED <<links, dead, serial, orgs>>
    BY <1>3, GossipKeepsTable DEF Deliver, vars, dhtVars, OrganizationsInv, TypeOK
  <2>2. Agrees(x)
    BY <2>1 DEF OrganizationsAgree
  <2>3. \A type, base : Live(type, base)' = Live(type, base)
    BY <2>1 DEF Live
  <2>4. \A type, base, y : To(Live(type, base), y)' = To(Live(type, base), y)
    BY <2>3 DEF To
  <2>5. /\ \A u \in Agents : Members(x, u)' = Members(x, u) /\ Memberships(u, x)' = Memberships(u, x)
        /\ Coordinators(x)' = Coordinators(x)
        /\ Lists(x)' = Lists(x) /\ AcceptedOnes(x)' = AcceptedOnes(x) /\ Status(x)' = Status(x)
    BY <2>3, <2>4 DEF Members, Memberships, Coordinators, Lists, AcceptedOnes, Status
  <2> QED BY <2>1, <2>2, <2>5, StillAgrees
<1> QED BY <1>1, <1>2, <1>3, NextCases

LEMMA OrganizationsKeepAgreeing == Spec => [](OrganizationsInv /\ OrganizationsAgree)
<1>1. Init => OrganizationsAgree
  BY DEF Init, OrganizationsAgree
<1> QED BY <1>1, InitOrganizations, NextOrganizations, NextAgree, PTL DEF Spec

\* As long as no call ran on an incomplete copy, a user is a member for the
\* organization exactly if the organization is one of the user's, by one link
\* each way (organization.rs:119-131, 393-415, 461-472, 560-581).
THEOREM MembersBothWays == Spec => []MembershipBothWays
<1>1. OrganizationsInv /\ OrganizationsAgree => MembershipBothWays
  <2> SUFFICES ASSUME OrganizationsAgree, serial, NEW o \in orgs, NEW u \in Agents
               PROVE  \/ Members(o, u) = {} /\ Memberships(u, o) = {}
                      \/ \E l, m \in links : Members(o, u) = {l} /\ Memberships(u, o) = {m}
    BY DEF MembershipBothWays
  <2>1. PlacesAgree(o, u)
    BY DEF OrganizationsAgree, Agrees
  <2>2. CASE Members(o, u) = {}
    BY <2>1, <2>2 DEF PlacesAgree
  <2>3. CASE Members(o, u) # {}
    <3>1. PICK l \in Members(o, u) : Members(o, u) = {l}
      BY <2>1, <2>3 DEF PlacesAgree, AtMostOne
    <3>2. PICK m \in Memberships(u, o) : Memberships(u, o) = {m}
      BY <2>1, <2>3 DEF PlacesAgree, AtMostOne
    <3>3. l \in links /\ m \in links
      BY DEF Members, Memberships, To, Live
    <3> QED BY <3>1, <3>2, <3>3
  <2> QED BY <2>2, <2>3
<1> QED BY <1>1, OrganizationsKeepAgreeing, PTL

\* As long as no call ran on an incomplete copy, a coordinator is a member, by
\* one link (organization.rs:243-246, 383-391, 444-446).
THEOREM CoordinatorsMember == Spec => []CoordinatorsAreMembers
<1>1. OrganizationsInv /\ OrganizationsAgree => CoordinatorsAreMembers
  <2> SUFFICES ASSUME OrganizationsAgree, serial, NEW o \in orgs, NEW u \in Agents
               PROVE  /\ Cardinality(To(Coordinators(o), u)) <= 1
                      /\ To(Coordinators(o), u) # {} => Members(o, u) # {}
    BY DEF CoordinatorsAreMembers
  <2>1. PlacesAgree(o, u)
    BY DEF OrganizationsAgree, Agrees
  <2> QED BY <2>1, FewLinks DEF PlacesAgree
<1> QED BY <1>1, OrganizationsKeepAgreeing, PTL

\* As long as no call ran on an incomplete copy, an organization that is not
\* deleted has a coordinator: the guards of three calls together see to it
\* (organization.rs:385-388, 444-446, 488-491; errors.rs:93).
THEOREM KeepsACoordinator == Spec => []CoordinatorRemains
<1>1. OrganizationsInv /\ OrganizationsAgree => CoordinatorRemains
  BY DEF OrganizationsAgree, Agrees, CoordinatorRemains
<1> QED BY <1>1, OrganizationsKeepAgreeing, PTL

\* As long as no call ran on an incomplete copy, nothing refers to a deleted
\* organization (organization.rs:548-634).
THEOREM DeletedAltogether == Spec => []DeletionIsComplete
<1>1. OrganizationsInv /\ OrganizationsAgree => DeletionIsComplete
  <2> SUFFICES ASSUME OrganizationsAgree, serial, NEW o \in orgs \cap dead
               PROVE  /\ Coordinators(o) = {}
                      /\ \A u \in Agents : Members(o, u) = {} /\ Memberships(u, o) = {}
                      /\ Lists(o) = {} /\ AcceptedOnes(o) = {}
    BY DEF DeletionIsComplete, Lists, AcceptedOnes
  <2> QED BY DEF OrganizationsAgree, Agrees, PlacesAgree
<1> QED BY <1>1, OrganizationsKeepAgreeing, PTL

-----------------------------------------------------------------------------
(* Mediums of exchange: the table and what calls do to it, in the words of the instance. *)

LEMMA MTable ==
  /\ M!Ids = Ids /\ (M!DhtTypeOK <=> DhtTypeOK)
  /\ \A a, n, new, del : M!Commit(a, n, new, del) <=> Commit(a, n, new, del)
  /\ \A a, n, new, del : M!Publish(a, n, new, del) <=> Publish(a, n, new, del)
  /\ \A type, base : M!Live(type, base) = Live(type, base)
  /\ \A a, type, base : M!GetLinks(a, type, base) = GetLinks(a, type, base)
  /\ \A a : M!UpToDate(a) <=> UpToDate(a)
  /\ M!Gossip <=> Gossip
<1>1. M!Ids = Ids
  BY DEF M!Ids, Ids
<1>2. M!DhtTypeOK <=> DhtTypeOK
  BY <1>1 DEF M!DhtTypeOK, DhtTypeOK
<1>3. \A a : M!UpToDate(a) <=> UpToDate(a)
  BY <1>1 DEF M!UpToDate, UpToDate
<1>4. \A a, n, new, del : M!Publish(a, n, new, del) <=> Publish(a, n, new, del)
  BY DEF M!Publish, Publish
<1>5. \A a, n, new, del : M!Commit(a, n, new, del) <=> Commit(a, n, new, del)
  BY <1>3, <1>4 DEF M!Commit, Commit
<1>6. M!Gossip <=> Gossip
  BY <1>1 DEF M!Gossip, Gossip, M!DeliverCreate, DeliverCreate, M!DeliverDelete, DeliverDelete
<1>7. \A type, base : M!Live(type, base) = Live(type, base)
  BY DEF M!Live, Live
<1>8. \A a, type, base : M!GetLinks(a, type, base) = GetLinks(a, type, base)
  BY DEF M!GetLinks, GetLinks
<1> QED BY <1>1, <1>2, <1>3, <1>4, <1>5, <1>6, <1>7, <1>8

LEMMA MCardinality ==
  ASSUME NEW S
  PROVE  M!Cardinality(S) = Cardinality(S)
BY DEF M!Cardinality, Cardinality

LEMMA MCommitKeepsTable ==
  ASSUME M!DhtTypeOK, NEW a \in Agents, NEW n \in Nat, NEW new, NEW del,
         FreshLinks(n, new), del \subseteq M!Ids, M!Commit(a, n, new, del)
  PROVE  M!DhtTypeOK'
<1>1. M!DhtTypeOK' <=> DhtTypeOK'
  BY DEF M!DhtTypeOK, DhtTypeOK, M!Ids, Ids
<1> QED BY <1>1, CommitKeepsTable, MTable

LEMMA MGossipKeepsTable ==
  ASSUME M!DhtTypeOK, M!Gossip
  PROVE  M!DhtTypeOK' /\ UNCHANGED <<clock, links, dead, serial>>
<1>1. M!DhtTypeOK' <=> DhtTypeOK'
  BY DEF M!DhtTypeOK, DhtTypeOK, M!Ids, Ids
<1> QED BY <1>1, GossipKeepsTable, MTable

LEMMA MCompleteCopyReadsTable ==
  ASSUME M!DhtTypeOK, NEW a \in Agents, M!UpToDate(a), NEW type, NEW base
  PROVE  M!GetLinks(a, type, base) = M!Live(type, base)
BY CompleteCopyReadsTable, MTable

LEMMA MLiveAfterPublish ==
  ASSUME M!DhtTypeOK, NEW a \in Agents, NEW n \in Nat, NEW new, NEW del,
         FreshLinks(n, new), del \subseteq M!Ids, M!Publish(a, n, new, del),
         NEW type, NEW base
  PROVE  M!Live(type, base)' =
           {l \in M!Live(type, base) : l.id \notin del} \cup
           {l \in new : l.type = type /\ l.base = base}
<1>1. M!Live(type, base)' = Live(type, base)'
  BY DEF M!Live, Live
<1> QED BY <1>1, LiveAfterPublish, MTable

LEMMA MLinksAreFinite ==
  ASSUME M!DhtTypeOK
  PROVE  IsFiniteSet(links)
BY LinksAreFinite, MTable

\* A deleted link is not a deleted medium, nor the other way round.
LinkIsNoMedium == \A l \in links : l.id \notin M!Mediums

MediumsInv ==
  /\ M!TypeOK
  /\ LinkIsNoMedium
  /\ M!NeverStatusless
  /\ M!OneStatus
  /\ M!LinkedWasApproved

PairTypes == {"MediumOfExchangeToEntity", "EntityToMediumOfExchange"}

\* The links an unlinking may delete.
PairIds == {l.id : l \in {m \in links : m.type \in PairTypes}}

\* The links a moderation may delete.
ListIds == {l.id : l \in {m \in links : m.type = "AllMediumsOfExchange"}}

-----------------------------------------------------------------------------
(* The records and the links after a call. *)

\* The records a call may make: each has an id of the call, and is an original or
\* a revision of one.
FreshRecords(n, new, rs) ==
  /\ rs \subseteq [id : clock + 1 .. clock + n, original : M!Mediums \cup (clock + 1 .. clock + n),
                   author : Agents, type : {"base", "currency"}, text : 0 .. clock + n, spec : BOOLEAN]
  /\ \A r \in rs : (r.original = r.id \/ r.original \in M!Mediums) /\ r.text <= r.id
  /\ \A r \in rs : \A l \in new : l.id # r.id

\* The mediums after a call are those before it and the originals it made.
LEMMA MediumsAfter ==
  ASSUME NEW rs, records' = records \cup rs
  PROVE  /\ M!Mediums' = M!Mediums \cup {r.id : r \in {q \in rs : q.id = q.original}}
         /\ (records \ M!Originals) \subseteq (records \ M!Originals)'
<1>1. M!Originals' = M!Originals \cup {q \in rs : q.id = q.original}
  BY DEF M!Originals
<1>2. (records \ M!Originals) \subseteq (records \ M!Originals)'
  BY DEF M!Originals
<1> QED BY <1>1, <1>2 DEF M!Mediums

\* A call whose links fit the records it made keeps the types.
LEMMA TypesAfter ==
  ASSUME MediumsInv, NEW a \in Agents, NEW n \in Nat, NEW new, NEW del, NEW rs,
         FreshLinks(n, new), del \subseteq M!Ids, M!Commit(a, n, new, del),
         records' = records \cup rs, FreshRecords(n, new, rs), new \subseteq M!LinkType'
  PROVE  /\ M!TypeOK' /\ LinkIsNoMedium'
         /\ clock \in Nat /\ clock' = clock + n /\ links' = links \cup new
         /\ dead' = dead \cup del /\ M!Mediums \subseteq M!Mediums'
<1>1. M!DhtTypeOK'
  BY MCommitKeepsTable DEF MediumsInv, M!TypeOK
<1>2. clock \in Nat /\ clock' = clock + n /\ links' = links \cup new /\ dead' = dead \cup del
  BY DEF MediumsInv, M!TypeOK, M!DhtTypeOK, M!Commit, M!Publish
<1>3. M!Ids \subseteq M!Ids' /\ clock + 1 .. clock + n \subseteq M!Ids' /\ 0 .. clock \subseteq 0 .. clock'
  BY <1>2 DEF M!Ids
<1>4. /\ M!Mediums' = M!Mediums \cup {r.id : r \in {q \in rs : q.id = q.original}}
      /\ (records \ M!Originals) \subseteq (records \ M!Originals)'
  BY MediumsAfter
<1>5. M!Mediums \subseteq M!Mediums' /\ M!Mediums \subseteq M!Ids
  BY <1>4 DEF M!Mediums, M!Originals, MediumsInv, M!TypeOK
<1>6. records' \subseteq [id : M!Ids', original : M!Ids', author : Agents, type : {"base", "currency"},
                          text : 0 .. clock', spec : BOOLEAN]
  <2>1. records \subseteq [id : M!Ids', original : M!Ids', author : Agents, type : {"base", "currency"},
                           text : 0 .. clock', spec : BOOLEAN]
    BY <1>3 DEF MediumsInv, M!TypeOK
  <2>2. rs \subseteq [id : M!Ids', original : M!Ids', author : Agents, type : {"base", "currency"},
                      text : 0 .. clock', spec : BOOLEAN]
    <3>1. M!Mediums \cup (clock + 1 .. clock + n) \subseteq M!Ids' /\ 0 .. clock + n \subseteq 0 .. clock'
      BY <1>2, <1>3, <1>5
    <3> QED BY <1>3, <3>1 DEF FreshRecords
  <2> QED BY <2>1, <2>2
<1>7. \A r \in records' : r.original \in M!Mediums' /\ r.text <= r.id
  <2>1. \A r \in records : r.original \in M!Mediums /\ r.text <= r.id
    BY DEF MediumsInv, M!TypeOK
  <2>2. \A r \in rs : r.original \in M!Mediums'
    BY <1>4 DEF FreshRecords
  <2> QED BY <1>5, <2>1, <2>2 DEF FreshRecords
<1>8. M!LinkType \subseteq M!LinkType'
  BY <1>4, <1>5 DEF M!LinkType
<1>9. M!TypeOK'
  BY <1>1, <1>2, <1>6, <1>7, <1>8 DEF MediumsInv, M!TypeOK
<1>10. LinkIsNoMedium'
  <2>1. \A r \in rs : r.id \in clock + 1 .. clock + n
    BY DEF FreshRecords
  <2>2. \A l \in links : l.id \notin M!Mediums /\ l.id \in M!Ids
    BY DEF MediumsInv, LinkIsNoMedium, M!TypeOK, M!DhtTypeOK
  <2>3. \A l \in links : \A r \in rs : l.id # r.id
    BY <1>2, <2>1, <2>2 DEF M!Ids
  <2>4. \A l \in new : l.id \notin M!Mediums
    BY <1>2, <1>5 DEF FreshLinks, M!Ids
  <2>5. \A l \in new : \A r \in rs : l.id # r.id
    BY DEF FreshRecords
  <2> QED BY <1>2, <1>4, <2>2, <2>3, <2>4, <2>5 DEF LinkIsNoMedium
<1> QED BY <1>2, <1>5, <1>9, <1>10

\* The status links of a medium after a call.
LEMMA StatusesAfter ==
  ASSUME M!TypeOK, NEW a \in Agents, NEW n \in Nat, NEW new, NEW del,
         FreshLinks(n, new), del \subseteq M!Ids, M!Publish(a, n, new, del), NEW m
  PROVE  M!Statuses(m)' =
           {l \in M!Statuses(m) : l.id \notin del} \cup
           {l \in new : l.type = "AllMediumsOfExchange" /\ l.base \in M!StatusPaths /\ l.target = m}
<1>1. \A base : M!Live("AllMediumsOfExchange", base)' =
                  {l \in M!Live("AllMediumsOfExchange", base) : l.id \notin del} \cup
                  {l \in new : l.type = "AllMediumsOfExchange" /\ l.base = base}
  BY MLiveAfterPublish DEF M!TypeOK
<1> QED BY <1>1 DEF M!Statuses

\* A link that ties a listing to a medium is made after an approval.
LEMMA ApprovedBeforeLinked ==
  ASSUME MediumsInv, NEW new, links' = links \cup new,
         \A l \in new : l.type = "EntityToMediumOfExchange" =>
           \E s \in links : /\ s.type = "AllMediumsOfExchange" /\ s.base = "approved"
                            /\ s.target = l.target /\ s.id < l.id
  PROVE  M!LinkedWasApproved'
BY DEF MediumsInv, M!LinkedWasApproved

-----------------------------------------------------------------------------
(* What calls delete. *)

LEMMA UnlinkedPairs ==
  ASSUME NEW a, NEW m, NEW x, NEW n, NEW S \in M!Unlinked(a, m, x, n)
  PROVE  S \subseteq PairIds
<1>1. PICK F \in M!Some(n, M!ToEntity(a, m, x)), B \in M!Some(n, M!ToMedium(a, x, m)) : S = F \cup B
  BY DEF M!Unlinked
<1>2. F \subseteq {l.id : l \in M!ToEntity(a, m, x)} /\ B \subseteq {l.id : l \in M!ToMedium(a, x, m)}
  BY DEF M!Some
<1>3. {l.id : l \in M!ToEntity(a, m, x)} \subseteq PairIds
  BY DEF M!ToEntity, M!GetLinks, PairIds, PairTypes
<1>4. {l.id : l \in M!ToMedium(a, x, m)} \subseteq PairIds
  BY DEF M!ToMedium, M!GetLinks, PairIds, PairTypes
<1> QED BY <1>1, <1>2, <1>3, <1>4

\* Each of the mediums is unlinked, as often as there are links back.
LEMMA UnlinkAllShape ==
  ASSUME NEW a, NEW x, NEW ms, NEW S \in M!UnlinkAll(a, x, ms)
  PROVE  \E f : /\ S = UNION {f[m] : m \in ms}
                /\ \A m \in ms : f[m] \in M!Unlinked(a, m, x, Cardinality(M!ToMedium(a, x, m)))
BY MCardinality DEF M!UnlinkAll

LEMMA AllUnlinkedPairs ==
  ASSUME NEW a, NEW x, NEW ms, NEW S \in M!UnlinkAll(a, x, ms)
  PROVE  S \subseteq PairIds
<1>1. PICK f : /\ S = UNION {f[m] : m \in ms}
               /\ \A m \in ms : f[m] \in M!Unlinked(a, m, x, Cardinality(M!ToMedium(a, x, m)))
  BY UnlinkAllShape
<1>2. \A m \in ms : f[m] \subseteq PairIds
  BY <1>1, UnlinkedPairs
<1> QED BY <1>1, <1>2

\* Links are no mediums, and those of pairs and those of lists are apart.
LEMMA DeletedLinks ==
  ASSUME MediumsInv
  PROVE  /\ PairIds \subseteq M!Ids /\ ListIds \subseteq M!Ids
         /\ PairIds \cap M!Mediums = {} /\ ListIds \cap M!Mediums = {} /\ PairIds \cap ListIds = {}
         /\ \A m : \A l \in M!Statuses(m) : l \in links /\ l.id \in ListIds
<1>1. \A l, m \in links : l.id = m.id => l = m
  BY DEF MediumsInv, M!TypeOK, M!DhtTypeOK
<1>2. PairIds \subseteq M!Ids /\ ListIds \subseteq M!Ids
  BY DEF PairIds, ListIds, MediumsInv, M!TypeOK, M!DhtTypeOK
<1>3. PairIds \cap M!Mediums = {} /\ ListIds \cap M!Mediums = {}
  BY DEF PairIds, ListIds, MediumsInv, LinkIsNoMedium
<1>4. PairIds \cap ListIds = {}
  BY <1>1 DEF PairIds, ListIds, PairTypes
<1>5. \A m : \A l \in M!Statuses(m) : l \in links /\ l.type = "AllMediumsOfExchange"
  BY DEF M!Statuses, M!Live
<1> QED BY <1>2, <1>3, <1>4, <1>5 DEF ListIds

\* What the caller clears from the status lists of a medium are its status links,
\* all of them when the caller has a complete copy.
LEMMA RemovedFromPaths ==
  ASSUME MediumsInv, NEW a \in Agents, NEW m
  PROVE  /\ M!RemoveFromStatusPaths(a, m) \subseteq ListIds
         /\ \A u : u # m => \A l \in M!Statuses(u) : l.id \notin M!RemoveFromStatusPaths(a, m)
         /\ M!UpToDate(a) => \A l \in M!Statuses(m) : l.id \in M!RemoveFromStatusPaths(a, m)
<1>1. \A l \in M!StatusLinks(a, m) : l \in links /\ l.target = m /\ l.type = "AllMediumsOfExchange"
  BY DEF M!StatusLinks, M!GetLinks
<1>2. M!RemoveFromStatusPaths(a, m) \subseteq ListIds
  BY <1>1 DEF M!RemoveFromStatusPaths, ListIds
<1>3. \A u : u # m => \A l \in M!Statuses(u) : l.id \notin M!RemoveFromStatusPaths(a, m)
  <2>1. \A u : \A l \in M!Statuses(u) : l \in links /\ l.target = u
    BY DEF M!Statuses, M!Live
  <2>2. \A l, k \in links : l.id = k.id => l = k
    BY DEF MediumsInv, M!TypeOK, M!DhtTypeOK
  <2> QED BY <1>1, <2>1, <2>2 DEF M!RemoveFromStatusPaths
<1>4. ASSUME M!UpToDate(a) PROVE \A l \in M!Statuses(m) : l.id \in M!RemoveFromStatusPaths(a, m)
  <2>1. \A path : M!GetLinks(a, "AllMediumsOfExchange", path) = M!Live("AllMediumsOfExchange", path)
    BY <1>4, MCompleteCopyReadsTable DEF MediumsInv, M!TypeOK
  <2> QED BY <2>1 DEF M!Statuses, M!StatusLinks, M!RemoveFromStatusPaths
<1> QED BY <1>2, <1>3, <1>4

-----------------------------------------------------------------------------
(* Each call keeps the invariant. *)

LEMMA InitMediums == M!Init => MediumsInv
BY DEF M!Init, M!DhtInit, MediumsInv, M!TypeOK, M!DhtTypeOK, M!Ids, LinkIsNoMedium, M!NeverStatusless, M!OneStatus,
       M!LinkedWasApproved, M!Mediums, M!Originals

\* A call that makes revisions only makes no medium.
LEMMA RevisionsOnly ==
  ASSUME MediumsInv, NEW n \in Nat, NEW new, NEW rs, FreshRecords(n, new, rs), records' = records \cup rs,
         \A r \in rs : r.original \in M!Mediums
  PROVE  M!Mediums' = M!Mediums
<1>1. clock \in Nat /\ M!Mediums \subseteq M!Ids
  BY DEF MediumsInv, M!TypeOK, M!DhtTypeOK, M!Mediums, M!Originals
<1>2. \A r \in rs : r.id # r.original
  BY <1>1 DEF FreshRecords, M!Ids
<1>3. {r.id : r \in {q \in rs : q.id = q.original}} = {}
  BY <1>2
<1>4. M!Mediums' = M!Mediums \cup {r.id : r \in {q \in rs : q.id = q.original}}
  BY MediumsAfter
<1> QED BY <1>3, <1>4

\* Calls that leave the status lists alone.
LEMMA OtherLinksInv ==
  ASSUME MediumsInv, NEW a \in Agents, NEW n \in Nat, NEW new, NEW del, NEW rs,
         FreshLinks(n, new), M!Commit(a, n, new, del),
         records' = records \cup rs, FreshRecords(n, new, rs), \A r \in rs : r.original \in M!Mediums,
         new \subseteq M!LinkType', \A l \in new : l.type # "AllMediumsOfExchange",
         del \subseteq PairIds,
         \A l \in new : l.type = "EntityToMediumOfExchange" =>
           \E s \in links : /\ s.type = "AllMediumsOfExchange" /\ s.base = "approved"
                            /\ s.target = l.target /\ s.id < l.id
  PROVE  MediumsInv'
<1>1. /\ del \subseteq M!Ids /\ del \cap M!Mediums = {}
      /\ \A m : \A l \in M!Statuses(m) : l \in links /\ l.id \notin del
  BY DeletedLinks
<1>2. M!TypeOK' /\ LinkIsNoMedium' /\ links' = links \cup new /\ dead' = dead \cup del
  BY <1>1, TypesAfter
<1>3. M!Mediums' = M!Mediums
  BY RevisionsOnly
<1>4. M!Publish(a, n, new, del) /\ (serial' => serial)
  BY DEF M!Commit
<1>5. \A m : M!Statuses(m)' = M!Statuses(m)
  <2> TAKE m
  <2>1. M!Statuses(m)' =
           {l \in M!Statuses(m) : l.id \notin del} \cup
           {l \in new : l.type = "AllMediumsOfExchange" /\ l.base \in M!StatusPaths /\ l.target = m}
    BY <1>1, <1>4, StatusesAfter DEF MediumsInv
  <2> QED BY <2>1, <1>1
<1>6. \A m \in M!Mediums : m \in dead' <=> m \in dead
  BY <1>1, <1>2
<1>7. M!NeverStatusless'
  BY <1>3, <1>5, <1>6 DEF MediumsInv, M!NeverStatusless
<1>8. M!OneStatus'
  BY <1>2, <1>3, <1>4, <1>5, <1>6 DEF MediumsInv, M!OneStatus
<1>9. M!LinkedWasApproved'
  BY <1>2, ApprovedBeforeLinked
<1> QED BY <1>2, <1>7, <1>8, <1>9 DEF MediumsInv

\* Approving and rejecting: one link on a status list, those the caller sees
\* removed.
LEMMA DecisionInv ==
  ASSUME MediumsInv, NEW a \in Agents, NEW n \in Nat, NEW new, NEW del, NEW rs,
         NEW m \in M!Mediums, NEW link \in new,
         FreshLinks(n, new), M!Commit(a, n, new, del), del = M!RemoveFromStatusPaths(a, m),
         records' = records \cup rs, FreshRecords(n, new, rs), \A r \in rs : r.original \in M!Mediums,
         new \subseteq M!LinkType', \A l \in new : l.type \notin PairTypes,
         link.type = "AllMediumsOfExchange", link.base \in M!StatusPaths, link.target = m,
         \A l \in new : l.type = "AllMediumsOfExchange" => l = link,
         M!UpToDate(a) /\ m \in dead => link.base = "rejected"
  PROVE  MediumsInv'
<1>1. /\ del \subseteq M!Ids /\ del \cap M!Mediums = {}
      /\ \A u : u # m => \A l \in M!Statuses(u) : l \in links /\ l.id \notin del
      /\ M!UpToDate(a) => \A l \in M!Statuses(m) : l.id \in del
  BY DeletedLinks, RemovedFromPaths
<1>2. M!TypeOK' /\ LinkIsNoMedium' /\ links' = links \cup new /\ dead' = dead \cup del
  BY <1>1, TypesAfter
<1>3. M!Mediums' = M!Mediums
  BY RevisionsOnly
<1>4. M!Publish(a, n, new, del) /\ (serial' => serial /\ M!UpToDate(a))
  BY DEF M!Commit
<1>5. \A u : M!Statuses(u)' =
           {l \in M!Statuses(u) : l.id \notin del} \cup
           {l \in new : l.type = "AllMediumsOfExchange" /\ l.base \in M!StatusPaths /\ l.target = u}
  BY <1>1, <1>4, StatusesAfter DEF MediumsInv
<1>6. /\ M!Statuses(m)' = {l \in M!Statuses(m) : l.id \notin del} \cup {link}
      /\ \A u : u # m => M!Statuses(u)' = M!Statuses(u)
  BY <1>1, <1>5
<1>7. \A u \in M!Mediums : u \in dead' <=> u \in dead
  BY <1>1, <1>2
<1>8. M!NeverStatusless'
  BY <1>3, <1>6, <1>7 DEF MediumsInv, M!NeverStatusless
<1>9. M!OneStatus'
  <2> SUFFICES ASSUME serial', NEW u \in M!Mediums
               PROVE \/ \E l \in links' : M!Statuses(u)' = {l} /\ (u \in dead' => l.base = "rejected")
                     \/ u \in dead' /\ M!Statuses(u)' = {}
    BY <1>3 DEF M!OneStatus
  <2>1. CASE u = m
    <3>1. M!Statuses(m)' = {link} /\ link \in links'
      BY <1>1, <1>2, <1>4, <1>6
    <3> QED BY <1>4, <1>7, <2>1, <3>1
  <2>2. CASE u # m
    BY <1>2, <1>4, <1>6, <1>7, <2>2 DEF MediumsInv, M!OneStatus
  <2> QED BY <2>1, <2>2
<1>10. M!LinkedWasApproved'
  BY <1>2, ApprovedBeforeLinked DEF PairTypes
<1> QED BY <1>2, <1>8, <1>9, <1>10 DEF MediumsInv

\* A call that makes no record.
LEMMA NoRecords ==
  ASSUME NEW n, NEW new, UNCHANGED records
  PROVE  /\ records' = records \cup {} /\ FreshRecords(n, new, {})
         /\ \A r \in {} : r.original \in M!Mediums
BY DEF FreshRecords

LEMMA RejectInv ==
  ASSUME MediumsInv, NEW a \in Agents, NEW m \in M!Mediums, M!RejectMedium(a, m)
  PROVE  MediumsInv'
<1>1. PICK n, link, new, del, rs : /\ n = 1 /\ link = M!StatusLink(clock + 1, "rejected", m) /\ new = {link}
                                   /\ del = M!RemoveFromStatusPaths(a, m) /\ rs = {}
  OBVIOUS
<1>2. clock \in Nat /\ M!Commit(a, n, new, del) /\ n \in Nat /\ UNCHANGED records /\ M!Mediums' = M!Mediums
  BY <1>1 DEF M!RejectMedium, MediumsInv, M!TypeOK, M!DhtTypeOK, M!Mediums, M!Originals
<1>3. /\ link.id = clock + 1 /\ link.type = "AllMediumsOfExchange"
      /\ link.base = "rejected" /\ link.target = m
  BY <1>1 DEF M!StatusLink, M!Link
<1>4. FreshLinks(n, new) /\ new \subseteq M!LinkType'
  BY <1>1, <1>2 DEF FreshLinks, M!LinkType, M!StatusLink, M!Link, M!StatusPaths
<1>5. /\ records' = records \cup rs /\ FreshRecords(n, new, rs)
      /\ \A r \in rs : r.original \in M!Mediums
  BY <1>1, <1>2, NoRecords
<1>6. \A l \in new : l.type \notin PairTypes /\ l = link
  BY <1>1, <1>3 DEF PairTypes
<1>7. "rejected" \in M!StatusPaths /\ link \in new
  BY <1>1 DEF M!StatusPaths
<1>8. del = M!RemoveFromStatusPaths(a, m)
  BY <1>1
<1> QED BY <1>2, <1>3, <1>4, <1>5, <1>6, <1>7, <1>8, DecisionInv

\* The revision a call makes, and the link to it.
LEMMA Revision ==
  ASSUME MediumsInv, NEW a \in Agents, NEW m \in M!Mediums, NEW text, NEW spec \in BOOLEAN,
         text \in {M!RecordOf(m).text, clock + 1}, M!Revised(a, m, text, spec), NEW n \in Nat, n >= 2
  PROVE  \E rs : /\ records' = records \cup rs /\ \A r \in rs : r.original = m
                 /\ \A new : (\A l \in new : l.id # clock + 1) => FreshRecords(n, new, rs)
                 /\ M!Link(clock + 2, "MediumOfExchangeUpdates", m, clock + 1) \in M!LinkType'
                 /\ M!Mediums' = M!Mediums
<1>1. PICK r : r = M!Record(clock + 1, m, a, M!RecordOf(m).type, text, spec)
  OBVIOUS
<1>2. /\ r.id = clock + 1 /\ r.original = m /\ r.author = a
      /\ r.type = M!RecordOf(m).type /\ r.text = text /\ r.spec = spec
  BY <1>1 DEF M!Record
<1>3. clock \in Nat /\ m \in M!Ids
  BY DEF MediumsInv, M!TypeOK, M!DhtTypeOK, M!Mediums, M!Originals
<1>4. M!RecordOf(m) \in records /\ M!RecordOf(m).id = m
  <2>1. \E q \in records : q.id = m
    BY DEF M!Mediums, M!Originals
  <2> QED BY <2>1 DEF M!RecordOf
<1>5. PICK old : old = M!RecordOf(m)
  OBVIOUS
<1>6. old.type \in {"base", "currency"} /\ old.text \in 0 .. clock /\ old.text <= old.id
  BY <1>4, <1>5 DEF MediumsInv, M!TypeOK
<1>7. text \in 0 .. clock + 1
  BY <1>3, <1>5, <1>6
<1>8. r \in [id : clock + 1 .. clock + n, original : M!Mediums \cup (clock + 1 .. clock + n),
             author : Agents, type : {"base", "currency"}, text : 0 .. clock + n, spec : BOOLEAN]
  <2>1. clock + 1 \in clock + 1 .. clock + n /\ text \in 0 .. clock + n
    BY <1>3, <1>7
  <2> QED BY <1>1, <1>5, <1>6, <2>1 DEF M!Record
<1>9. text <= clock + 1
  BY <1>3, <1>7
<1>10. ASSUME NEW new, \A l \in new : l.id # clock + 1 PROVE FreshRecords(n, new, {r})
  BY <1>2, <1>8, <1>9, <1>10 DEF FreshRecords
<1>11. records' = records \cup {r}
  BY <1>1 DEF M!Revised
<1>12. m \in M!Mediums' /\ r \in (records \ M!Originals)' /\ M!Mediums' = M!Mediums
  <2>1. M!Mediums' = M!Mediums \cup {q.id : q \in {p \in {r} : p.id = p.original}}
    BY <1>11, MediumsAfter
  <2>2. r.id # r.original
    BY <1>2, <1>3 DEF M!Ids
  <2> QED BY <1>11, <2>1, <2>2 DEF M!Originals
<1>13. M!Link(clock + 2, "MediumOfExchangeUpdates", m, clock + 1) \in M!LinkType'
  BY <1>2, <1>3, <1>12 DEF M!LinkType, M!Link
<1>14. PICK rs : rs = {r}
  OBVIOUS
<1>15. \A new : (\A l \in new : l.id # clock + 1) => FreshRecords(n, new, rs)
  BY <1>10, <1>14
<1>16. records' = records \cup rs /\ \A q \in rs : q.original = m
  BY <1>2, <1>11, <1>14
<1> QED BY <1>12, <1>13, <1>15, <1>16

LEMMA UpdateInv ==
  ASSUME MediumsInv, NEW a \in Agents, NEW m \in M!Mediums, M!UpdateMedium(a, m)
  PROVE  MediumsInv'
<1>1. PICK n, link, new, del : /\ n = 2 /\ link = M!Link(clock + 2, "MediumOfExchangeUpdates", m, clock + 1)
                               /\ new = {link} /\ del = {}
  OBVIOUS
<1>2. clock \in Nat /\ M!Commit(a, n, new, del) /\ n \in Nat /\ n >= 2 /\ M!Revised(a, m, clock + 1, FALSE)
  <2>1. M!Commit(a, 2, {M!Link(clock + 2, "MediumOfExchangeUpdates", m, clock + 1)}, {}) /\ M!Revised(a, m, clock + 1, FALSE)
    BY Zenon DEF M!UpdateMedium
  <2>2. clock \in Nat /\ n \in Nat /\ n >= 2
    BY <1>1 DEF MediumsInv, M!TypeOK, M!DhtTypeOK
  <2>3. M!Commit(a, n, new, del)
    BY <1>1, <2>1, Zenon
  <2> QED BY <2>1, <2>2, <2>3, Zenon
<1>3. link.id = clock + 2 /\ link.type = "MediumOfExchangeUpdates"
  BY <1>1 DEF M!Link
<1>4. PICK text, spec : text \in {M!RecordOf(m).text, clock + 1} /\ spec \in BOOLEAN /\ M!Revised(a, m, text, spec)
  BY <1>2, Zenon
<1>5. PICK rs : /\ records' = records \cup rs /\ \A q \in rs : q.original = m
                /\ \A k : (\A l \in k : l.id # clock + 1) => FreshRecords(n, k, rs)
                /\ M!Link(clock + 2, "MediumOfExchangeUpdates", m, clock + 1) \in M!LinkType'
  BY <1>2, <1>4, Revision
<1>6. /\ records' = records \cup rs /\ FreshRecords(n, new, rs)
      /\ \A q \in rs : q.original \in M!Mediums
  BY <1>1, <1>2, <1>3, <1>5
<1>7. FreshLinks(n, new) /\ new \subseteq M!LinkType'
  BY <1>1, <1>2, <1>3, <1>5 DEF FreshLinks
<1>8. /\ \A l \in new : l.type \notin {"AllMediumsOfExchange", "EntityToMediumOfExchange"}
      /\ del \subseteq PairIds
  BY <1>1, <1>3
<1> QED BY <1>2, <1>6, <1>7, <1>8, OtherLinksInv

LEMMA ApproveInv ==
  ASSUME MediumsInv, NEW a \in Agents, NEW m \in M!Mediums, M!ApproveMedium(a, m)
  PROVE  MediumsInv'
<1>1. PICK n, update, link, new, del :
        /\ n = 3 /\ update = M!Link(clock + 2, "MediumOfExchangeUpdates", m, clock + 1)
        /\ link = M!StatusLink(clock + 3, "approved", m) /\ new = {update, link}
        /\ del = M!RemoveFromStatusPaths(a, m)
  OBVIOUS
<1>2. /\ clock \in Nat /\ M!Commit(a, n, new, del) /\ n \in Nat /\ n >= 2
      /\ M!Revised(a, m, M!RecordOf(m).text, TRUE) /\ M!Found(a, m)
  <2>1. /\ M!Commit(a, 3, {M!Link(clock + 2, "MediumOfExchangeUpdates", m, clock + 1),
                         M!StatusLink(clock + 3, "approved", m)}, M!RemoveFromStatusPaths(a, m))
        /\ M!Revised(a, m, M!RecordOf(m).text, TRUE) /\ M!Found(a, m)
    BY Zenon DEF M!ApproveMedium
  <2>2. clock \in Nat /\ n \in Nat /\ n >= 2
    BY <1>1 DEF MediumsInv, M!TypeOK, M!DhtTypeOK
  <2>3. M!Commit(a, n, new, del)
    BY <1>1, <2>1, Zenon
  <2> QED BY <2>1, <2>2, <2>3, Zenon
<1>3. /\ update.id = clock + 2 /\ update.type = "MediumOfExchangeUpdates"
      /\ link.id = clock + 3 /\ link.type = "AllMediumsOfExchange"
      /\ link.base = "approved" /\ link.target = m
  BY <1>1 DEF M!StatusLink, M!Link
<1>4. PICK text, spec : text \in {M!RecordOf(m).text, clock + 1} /\ spec \in BOOLEAN /\ M!Revised(a, m, text, spec)
  BY <1>2, Zenon
<1>5. PICK rs : /\ records' = records \cup rs /\ \A q \in rs : q.original = m
                /\ \A k : (\A l \in k : l.id # clock + 1) => FreshRecords(n, k, rs)
                /\ M!Link(clock + 2, "MediumOfExchangeUpdates", m, clock + 1) \in M!LinkType' /\ M!Mediums' = M!Mediums
  BY <1>2, <1>4, Revision
<1>6. /\ records' = records \cup rs /\ FreshRecords(n, new, rs)
      /\ \A q \in rs : q.original \in M!Mediums
  BY <1>1, <1>2, <1>3, <1>5
<1>7. FreshLinks(n, new)
  BY <1>1, <1>2, <1>3 DEF FreshLinks
<1>8. "approved" \in M!StatusPaths /\ link \in new /\ link \in M!LinkType'
  BY <1>1, <1>2, <1>5 DEF M!StatusPaths, M!LinkType, M!StatusLink, M!Link
<1>9. /\ new \subseteq M!LinkType' /\ \A l \in new : l.type \notin PairTypes
      /\ \A l \in new : l.type = "AllMediumsOfExchange" => l = link
  BY <1>1, <1>3, <1>5, <1>8 DEF PairTypes
<1>10. ~(M!UpToDate(a) /\ m \in dead)
  BY <1>2 DEF M!Found, M!UpToDate
<1> QED BY <1>1, <1>2, <1>3, <1>6, <1>7, <1>8, <1>9, <1>10, DecisionInv

LEMMA DeleteInv ==
  ASSUME MediumsInv, NEW a \in Agents, NEW m \in M!Mediums, M!DeleteMedium(a, m)
  PROVE  MediumsInv'
<1>1. PICK n, new, del, rs : n = 0 /\ new = {} /\ del = M!RemoveFromStatusPaths(a, m) \cup {m} /\ rs = {}
  OBVIOUS
<1>2. M!Commit(a, n, new, del) /\ UNCHANGED records
  BY <1>1 DEF M!DeleteMedium
<1>3. n \in Nat /\ FreshLinks(n, new) /\ new \subseteq M!LinkType'
  BY <1>1 DEF FreshLinks
<1>4. /\ records' = records \cup rs /\ FreshRecords(n, new, rs)
      /\ \A r \in rs : r.original \in M!Mediums
  BY <1>1, <1>2, NoRecords
<1>5. \A u : \A l \in M!Statuses(u) : l \in links /\ l.id \notin M!Mediums
  BY DeletedLinks
<1>6. /\ del \subseteq M!Ids /\ del \cap M!Mediums = {m}
      /\ \A u : u # m => \A l \in M!Statuses(u) : l.id \notin del
      /\ M!UpToDate(a) => \A l \in M!Statuses(m) : l.id \in del
  <2>1. M!Mediums \subseteq M!Ids
    BY DEF M!Mediums, M!Originals, MediumsInv, M!TypeOK
  <2> QED BY <1>1, <1>5, <2>1, DeletedLinks, RemovedFromPaths
<1>7. M!TypeOK' /\ LinkIsNoMedium' /\ links' = links \cup new /\ dead' = dead \cup del
  BY <1>2, <1>3, <1>4, <1>6, TypesAfter
<1>8. M!Mediums' = M!Mediums
  BY <1>3, <1>4, RevisionsOnly
<1>9. M!Publish(a, n, new, del) /\ (serial' => serial /\ M!UpToDate(a))
  BY <1>2 DEF M!Commit
<1>10. \A u : M!Statuses(u)' = {l \in M!Statuses(u) : l.id \notin del}
  <2> TAKE u
  <2>1. M!Statuses(u)' =
           {l \in M!Statuses(u) : l.id \notin del} \cup
           {l \in new : l.type = "AllMediumsOfExchange" /\ l.base \in M!StatusPaths /\ l.target = u}
    BY <1>3, <1>6, <1>9, StatusesAfter DEF MediumsInv
  <2> QED BY <1>1, <2>1
<1>11. \A u : u # m => M!Statuses(u)' = M!Statuses(u)
  BY <1>6, <1>10
<1>12. m \in dead' /\ \A u \in M!Mediums : u # m => (u \in dead' <=> u \in dead)
  BY <1>6, <1>7
<1>13. M!NeverStatusless'
  BY <1>8, <1>11, <1>12 DEF MediumsInv, M!NeverStatusless
<1>14. M!OneStatus'
  <2> SUFFICES ASSUME serial', NEW u \in M!Mediums
               PROVE \/ \E l \in links' : M!Statuses(u)' = {l} /\ (u \in dead' => l.base = "rejected")
                     \/ u \in dead' /\ M!Statuses(u)' = {}
    BY <1>8 DEF M!OneStatus
  <2>1. CASE u = m
    BY <1>6, <1>9, <1>10, <1>12, <2>1
  <2>2. CASE u # m
    BY <1>7, <1>9, <1>11, <1>12, <2>2 DEF MediumsInv, M!OneStatus
  <2> QED BY <2>1, <2>2
<1>15. M!LinkedWasApproved'
  <2>1. \A l \in new : FALSE
    BY <1>1
  <2> QED BY <1>7, <2>1, ApprovedBeforeLinked
<1> QED BY <1>7, <1>13, <1>14, <1>15 DEF MediumsInv

LEMMA NewMediumInv ==
  ASSUME MediumsInv, NEW a \in Agents, NEW type \in {"base", "currency"}, NEW path \in {"pending", "approved"},
         M!NewMedium(a, type, path)
  PROVE  MediumsInv'
<1>1. PICK m, n, all, link, new, del, r, rs :
        /\ m = clock + 1 /\ n = 3 /\ del = {}
        /\ all = M!StatusLink(clock + 2, M!AllPath, m) /\ link = M!StatusLink(clock + 3, path, m)
        /\ new = {all, link} /\ r = M!Record(m, m, a, type, 0, FALSE) /\ rs = {r}
  OBVIOUS
<1>2. clock \in Nat /\ M!Commit(a, n, new, del) /\ records' = records \cup rs /\ n \in Nat
  <2>1. /\ M!Commit(a, 3, {M!StatusLink(clock + 2, M!AllPath, clock + 1), M!StatusLink(clock + 3, path, clock + 1)}, {})
        /\ records' = records \cup {M!Record(clock + 1, clock + 1, a, type, 0, FALSE)}
    BY DEF M!NewMedium
  <2>2. M!Commit(a, n, new, del) /\ records' = records \cup rs
    BY <1>1, <2>1, Zenon
  <2> QED BY <1>1, <2>2 DEF MediumsInv, M!TypeOK, M!DhtTypeOK
<1>3. /\ all.id = clock + 2 /\ all.type = "AllMediumsOfExchange" /\ all.base = M!AllPath /\ all.target = m
      /\ link.id = clock + 3 /\ link.type = "AllMediumsOfExchange" /\ link.base = path /\ link.target = m
  BY <1>1 DEF M!StatusLink, M!Link
<1>4. /\ r.id = m /\ r.original = m /\ r.text = 0
      /\ r \in [id : clock + 1 .. clock + n, original : M!Mediums \cup (clock + 1 .. clock + n),
                author : Agents, type : {"base", "currency"}, text : 0 .. clock + n, spec : BOOLEAN]
  BY <1>1, <1>2 DEF M!Record
<1>5. FreshRecords(n, new, rs)
  <2>1. m \in Nat /\ 0 <= m
    BY <1>1, <1>2
  <2>2. \A q \in rs : (q.original = q.id \/ q.original \in M!Mediums) /\ q.text <= q.id
    BY <1>1, <1>4, <2>1
  <2>3. \A q \in rs : \A l \in new : l.id # q.id
    <3>1. clock + 2 # clock + 1 /\ clock + 3 # clock + 1
      BY <1>2
    <3>2. r.id = clock + 1 /\ all.id # r.id /\ link.id # r.id
      BY <1>1, <1>3, <1>4, <3>1
    <3> QED BY <1>1, <3>2
  <2>4. rs \subseteq [id : clock + 1 .. clock + n, original : M!Mediums \cup (clock + 1 .. clock + n),
                      author : Agents, type : {"base", "currency"}, text : 0 .. clock + n, spec : BOOLEAN]
    BY <1>1, <1>4
  <2> QED BY <2>2, <2>3, <2>4 DEF FreshRecords
<1>6. M!Mediums' = M!Mediums \cup {m}
  <2>1. M!Mediums' = M!Mediums \cup {p.id : p \in {q \in rs : q.id = q.original}}
    BY <1>2, MediumsAfter
  <2>2. {p.id : p \in {q \in rs : q.id = q.original}} = {m}
    BY <1>1, <1>4
  <2> QED BY <2>1, <2>2
<1>7. FreshLinks(n, new) /\ del \subseteq M!Ids
  BY <1>1, <1>2, <1>3 DEF FreshLinks
<1>8. new \subseteq M!LinkType'
  <2>1. path \in M!StatusPaths /\ m \in M!Mediums'
    BY <1>6 DEF M!StatusPaths
  <2> QED BY <1>1, <1>2, <2>1 DEF M!LinkType, M!StatusLink, M!Link
<1>9. M!TypeOK' /\ LinkIsNoMedium' /\ links' = links \cup new /\ dead' = dead \cup del
  BY <1>2, <1>5, <1>7, <1>8, TypesAfter
<1>10. M!Publish(a, n, new, del) /\ (serial' => serial)
  BY <1>2 DEF M!Commit
<1>11. m \notin M!Mediums /\ m \notin dead /\ M!Statuses(m) = {}
  <2>1. M!Mediums \subseteq M!Ids /\ dead \subseteq M!Ids /\ m \notin M!Ids
    BY <1>1, <1>2 DEF M!Mediums, M!Originals, MediumsInv, M!TypeOK, M!DhtTypeOK, M!Ids
  <2>2. \A l \in links : l.type = "AllMediumsOfExchange" => l.target \in M!Mediums
    BY DEF MediumsInv, M!TypeOK, M!LinkType
  <2> QED BY <2>1, <2>2 DEF M!Statuses, M!Live
<1>12. \A u : M!Statuses(u)' =
           {l \in M!Statuses(u) : l.id \notin del} \cup
           {l \in new : l.type = "AllMediumsOfExchange" /\ l.base \in M!StatusPaths /\ l.target = u}
  BY <1>7, <1>2, <1>10, StatusesAfter DEF MediumsInv
<1>13. path \in M!StatusPaths /\ M!AllPath \notin M!StatusPaths
  BY DEF M!StatusPaths, M!AllPath
<1>14. M!Statuses(m)' = {link} /\ link \in links'
  BY <1>1, <1>3, <1>9, <1>11, <1>12, <1>13
<1>15. \A u : u # m => M!Statuses(u)' = M!Statuses(u)
  BY <1>1, <1>3, <1>12
<1>16. M!NeverStatusless'
  <2> SUFFICES ASSUME NEW u \in M!Mediums', u \notin dead' PROVE M!Statuses(u)' # {}
    BY DEF M!NeverStatusless
  <2>1. CASE u = m
    BY <1>14, <2>1
  <2>2. CASE u # m
    BY <1>6, <1>9, <1>15, <2>2 DEF MediumsInv, M!NeverStatusless
  <2> QED BY <2>1, <2>2
<1>17. M!OneStatus'
  <2> SUFFICES ASSUME serial', NEW u \in M!Mediums'
               PROVE \/ \E l \in links' : M!Statuses(u)' = {l} /\ (u \in dead' => l.base = "rejected")
                     \/ u \in dead' /\ M!Statuses(u)' = {}
    BY DEF M!OneStatus
  <2>1. CASE u = m
    BY <1>1, <1>9, <1>11, <1>14, <2>1
  <2>2. CASE u # m
    <3>1. u \in M!Mediums /\ serial
      BY <1>6, <1>10, <2>2
    <3>2. \/ \E l \in links : M!Statuses(u) = {l} /\ (u \in dead => l.base = "rejected")
          \/ u \in dead /\ M!Statuses(u) = {}
      BY <3>1 DEF MediumsInv, M!OneStatus
    <3> QED BY <1>1, <1>9, <1>15, <2>2, <3>2
  <2> QED BY <2>1, <2>2
<1>18. M!LinkedWasApproved'
  BY <1>1, <1>3, <1>9, ApprovedBeforeLinked
<1> QED BY <1>9, <1>16, <1>17, <1>18 DEF MediumsInv

\* Gossip moves copies and leaves the table.
LEMMA DeliverInv ==
  ASSUME MediumsInv, M!Deliver \/ UNCHANGED M!vars
  PROVE  MediumsInv'
<1>1. M!DhtTypeOK' /\ UNCHANGED <<clock, links, dead, serial, records>>
  <2>1. CASE M!Deliver
    BY <2>1, MGossipKeepsTable DEF MediumsInv, M!TypeOK, M!Deliver
  <2>2. CASE UNCHANGED M!vars
    BY <2>2 DEF MediumsInv, M!TypeOK, M!DhtTypeOK, M!Ids, M!vars, M!dhtVars
  <2> QED BY <2>1, <2>2
<1>2. M!Originals' = M!Originals /\ M!Mediums' = M!Mediums /\ M!Ids' = M!Ids /\ \A m : M!Statuses(m)' = M!Statuses(m)
  BY <1>1 DEF M!Ids, M!Originals, M!Mediums, M!Statuses, M!Live
<1>3. M!LinkType' = M!LinkType
  BY <1>1, <1>2 DEF M!LinkType
<1> QED BY <1>1, <1>2, <1>3 DEF MediumsInv, M!TypeOK, LinkIsNoMedium, M!NeverStatusless, M!OneStatus, M!LinkedWasApproved

-----------------------------------------------------------------------------
(* The calls that link and unlink. *)

\* The links of a pair, numbered from an id on.
LEMMA PairLinks ==
  ASSUME NEW id \in Nat, NEW m \in M!Mediums, NEW x \in Listings, UNCHANGED records
  PROVE  /\ M!Pair(id, m, x) \subseteq M!LinkType'
         /\ \A l \in M!Pair(id, m, x) :
               /\ l.id \in {id, id + 1} /\ l.type \in PairTypes
               /\ l.type = "EntityToMediumOfExchange" => l.target = m
         /\ \A l, k \in M!Pair(id, m, x) : l.id = k.id => l = k
<1>1. m \in M!Mediums'
  BY DEF M!Mediums, M!Originals
<1> QED BY <1>1 DEF M!Pair, M!Link, M!LinkType, PairTypes

\* What the caller finds approved was linked from the approved list before.
LEMMA FoundApproved ==
  ASSUME MediumsInv, NEW a, NEW m, M!IsMediumApproved(a, m)
  PROVE  \E s \in links : /\ s.type = "AllMediumsOfExchange" /\ s.base = "approved"
                          /\ s.target = m /\ s.id \in M!Ids
BY DEF M!IsMediumApproved, M!GetLinks, MediumsInv, M!TypeOK, M!DhtTypeOK

\* Calls that make and delete pairs only, each with a medium the caller found
\* approved.
LEMMA PairsInv ==
  ASSUME MediumsInv, NEW a \in Agents, NEW n \in Nat, NEW new, NEW del,
         FreshLinks(n, new), M!Commit(a, n, new, del), UNCHANGED records,
         new \subseteq M!LinkType', del \subseteq PairIds,
         \A l \in new : l.type \in PairTypes,
         \A l \in new : l.type = "EntityToMediumOfExchange" => M!IsMediumApproved(a, l.target)
  PROVE  MediumsInv'
<1>1. PICK rs : rs = {}
  OBVIOUS
<1>2. /\ records' = records \cup rs /\ FreshRecords(n, new, rs)
      /\ \A r \in rs : r.original \in M!Mediums
  BY <1>1, NoRecords
<1>3. \A l \in new : l.type # "AllMediumsOfExchange"
  BY DEF PairTypes
<1>4. ASSUME NEW l \in new, l.type = "EntityToMediumOfExchange"
      PROVE  \E s \in links : /\ s.type = "AllMediumsOfExchange" /\ s.base = "approved"
                              /\ s.target = l.target /\ s.id < l.id
  <2>0. PICK m : m = l.target
    OBVIOUS
  <2>1. PICK s \in links : /\ s.type = "AllMediumsOfExchange" /\ s.base = "approved"
                           /\ s.target = l.target /\ s.id \in M!Ids
    <3>1. M!IsMediumApproved(a, m)
      BY <1>4, <2>0, Zenon
    <3> QED BY <2>0, <3>1, FoundApproved
  <2>2. clock \in Nat /\ l.id \in clock + 1 .. clock + n
    BY DEF MediumsInv, M!TypeOK, M!DhtTypeOK, FreshLinks
  <2>3. s.id < l.id
    BY <2>1, <2>2 DEF M!Ids
  <2> QED BY <2>1, <2>3
<1> QED BY <1>2, <1>3, <1>4, OtherLinksInv

\* link_to_medium_of_exchange publishes one pair.
LEMMA LinkShape ==
  ASSUME MediumsInv, NEW a \in Agents, NEW m \in M!Mediums, NEW x \in Listings, M!LinkToMedium(a, m, x)
  PROVE  \E n \in Nat : \E id, new, del :
           /\ M!Commit(a, n, new, del) /\ UNCHANGED records /\ FreshLinks(n, new)
           /\ new \subseteq M!LinkType' /\ del = {} /\ new = M!Pair(id, m, x)
           /\ \A l \in new : /\ l.type \in PairTypes
                             /\ l.type = "EntityToMediumOfExchange" => M!IsMediumApproved(a, l.target)
<1>1. PICK n, id, new, del : n = 2 /\ id = clock + 1 /\ new = M!Pair(id, m, x) /\ del = {}
  OBVIOUS
<1>2. /\ clock \in Nat /\ id \in Nat /\ n \in Nat
      /\ M!Commit(a, n, new, del) /\ UNCHANGED records /\ M!IsMediumApproved(a, m)
  BY <1>1 DEF M!LinkToMedium, MediumsInv, M!TypeOK, M!DhtTypeOK
<1>3. /\ new \subseteq M!LinkType' /\ \A l, k \in new : l.id = k.id => l = k
      /\ \A l \in new : /\ l.id \in {id, id + 1} /\ l.type \in PairTypes
                        /\ l.type = "EntityToMediumOfExchange" => l.target = m
  BY <1>1, <1>2, PairLinks
<1>4. FreshLinks(n, new)
  BY <1>1, <1>2, <1>3 DEF FreshLinks
<1> QED BY <1>1, <1>2, <1>3, <1>4

LEMMA LinkInv ==
  ASSUME MediumsInv, NEW a \in Agents, NEW m \in M!Mediums, NEW x \in Listings, M!LinkToMedium(a, m, x)
  PROVE  MediumsInv'
<1>1. PICK n \in Nat : \E id, new, del :
        /\ M!Commit(a, n, new, del) /\ UNCHANGED records /\ FreshLinks(n, new)
        /\ new \subseteq M!LinkType' /\ del = {}
        /\ \A l \in new : /\ l.type \in PairTypes
                          /\ l.type = "EntityToMediumOfExchange" => M!IsMediumApproved(a, l.target)
  BY LinkShape
<1> QED BY <1>1, PairsInv

\* The calls that only unlink.
LEMMA UnlinkShape ==
  ASSUME NEW a, NEW m, NEW x, M!UnlinkFromMedium(a, m, x) \/ M!DeleteAllMediumLinks(a, x)
  PROVE  \E n \in Nat : \E new, del :
           /\ n = 0 /\ new = {} /\ M!Commit(a, n, new, del) /\ UNCHANGED records /\ del \subseteq PairIds
           /\ del \in M!Unlinked(a, m, x, 1) \/ \E ms : del \in M!UnlinkAll(a, x, ms)
<1>1. PICK n, new : n = 0 /\ new = {}
  OBVIOUS
<1>2. CASE M!UnlinkFromMedium(a, m, x)
  <2>1. PICK del \in M!Unlinked(a, m, x, 1) : M!Commit(a, n, new, del) /\ UNCHANGED records
    BY <1>1, <1>2 DEF M!UnlinkFromMedium
  <2> QED BY <1>1, <2>1, UnlinkedPairs
<1>3. CASE M!DeleteAllMediumLinks(a, x)
  <2>1. PICK ms : ms = M!MediumsForEntity(a, x)
    OBVIOUS
  <2>2. PICK del \in M!UnlinkAll(a, x, ms) : M!Commit(a, n, new, del) /\ UNCHANGED records
    BY <1>1, <1>3, <2>1 DEF M!DeleteAllMediumLinks
  <2> QED BY <1>1, <2>2, AllUnlinkedPairs
<1> QED BY <1>2, <1>3

LEMMA UnlinkInv ==
  ASSUME MediumsInv, NEW a \in Agents, NEW m, NEW x, M!UnlinkFromMedium(a, m, x) \/ M!DeleteAllMediumLinks(a, x)
  PROVE  MediumsInv'
<1>1. PICK n \in Nat : \E new, del :
        /\ n = 0 /\ new = {} /\ M!Commit(a, n, new, del) /\ UNCHANGED records /\ del \subseteq PairIds
  BY UnlinkShape
<1>2. PICK new, del : new = {} /\ M!Commit(a, n, new, del) /\ UNCHANGED records /\ del \subseteq PairIds
  BY <1>1
<1>3. FreshLinks(n, new) /\ new \subseteq M!LinkType'
  BY <1>2 DEF FreshLinks
<1> QED BY <1>2, <1>3, PairsInv

\* The links are a pair for each of the mediums, numbered from at[m] on.
PairsAt(new, at, added, x) == \A l : l \in new <=> \E m \in added : l \in M!Pair(at[m], m, x)

\* update_medium_of_exchange_links publishes one pair for each new medium, each
\* pair with ids of its own.
LEMMA UpdateLinksShape ==
  ASSUME MediumsInv, NEW a \in Agents, NEW x \in Listings, NEW ms \in SUBSET M!Mediums,
         M!UpdateMediumLinks(a, x, ms)
  PROVE  \E n \in Nat : \E new, unlinked, added, at, others :
           /\ M!Commit(a, n, new, unlinked) /\ UNCHANGED records
           /\ FreshLinks(n, new) /\ new \subseteq M!LinkType'
           /\ \A l \in new : l.type \in PairTypes
           /\ \A l \in new : l.type = "EntityToMediumOfExchange" => M!IsMediumApproved(a, l.target)
           /\ unlinked \in M!UnlinkAll(a, x, others)
           /\ PairsAt(new, at, added, x)
<1> DEFINE Added == ms \ M!MediumsForEntity(a, x)
           Links(new, at) == UNION {M!Pair(clock + 1 + 2 * at[m], m, x) : m \in new}
<1>1. PICK added, n, others : /\ added = Added /\ n = Cardinality(Added)
                              /\ others = M!MediumsForEntity(a, x) \ ms
  OBVIOUS
<1>2. PICK nth \in [added -> 0 .. n - 1], unlinked \in M!UnlinkAll(a, x, others) :
        /\ \A l, m \in added : nth[l] = nth[m] => l = m
        /\ M!Commit(a, 2 * n, UNION {M!Pair(clock + 1 + 2 * nth[m], m, x) : m \in added}, unlinked)
        /\ UNCHANGED records
  <2>1. /\ \E unlinked \in M!UnlinkAll(a, x, M!MediumsForEntity(a, x) \ ms),
               nth \in [Added -> 0 .. Cardinality(Added) - 1] :
              /\ \A l, m \in Added : nth[l] = nth[m] => l = m
              /\ M!Commit(a, 2 * Cardinality(Added), Links(Added, nth), unlinked)
        /\ UNCHANGED records
    BY MCardinality DEF M!UpdateMediumLinks
  <2> HIDE DEF Added, Links
  <2>2. /\ \E unlinked \in M!UnlinkAll(a, x, others), nth \in [added -> 0 .. n - 1] :
              /\ \A l, m \in added : nth[l] = nth[m] => l = m
              /\ M!Commit(a, 2 * n, Links(added, nth), unlinked)
        /\ UNCHANGED records
    BY <1>1, <2>1
  <2> QED BY <2>2 DEF Links
<1>3. clock \in Nat /\ M!Mediums \subseteq 1 .. clock
  BY DEF MediumsInv, M!TypeOK, M!DhtTypeOK, M!Ids, M!Mediums, M!Originals
<1>4. n \in Nat /\ 2 * n \in Nat
  <2>1. IsFiniteSet(1 .. clock)
    BY <1>3, FS_Interval
  <2>2. added \subseteq 1 .. clock
    BY <1>1, <1>3
  <2>3. IsFiniteSet(added)
    BY <2>1, <2>2, FS_Subset
  <2>4. n = Cardinality(added)
    BY <1>1
  <2>5. n \in Nat
    BY <2>3, <2>4, FS_CardinalityType
  <2> QED BY <2>5
<1>5. PICK new : new = UNION {M!Pair(clock + 1 + 2 * nth[m], m, x) : m \in added}
  OBVIOUS
<1>6. \A m \in added : /\ m \in M!Mediums
                       /\ nth[m] \in 0 .. n - 1
                       /\ clock + 1 + 2 * nth[m] \in Nat
  <2> TAKE m \in added
  <2>1. m \in M!Mediums
    BY <1>1
  <2>2. nth[m] \in 0 .. n - 1
    BY <1>2
  <2> QED BY <1>3, <1>4, <2>1, <2>2
<1>7. \A m \in added :
        /\ M!Pair(clock + 1 + 2 * nth[m], m, x) \subseteq M!LinkType'
        /\ \A l \in M!Pair(clock + 1 + 2 * nth[m], m, x) :
              /\ l.id \in {clock + 1 + 2 * nth[m], clock + 1 + 2 * nth[m] + 1}
              /\ l.type \in PairTypes
              /\ l.type = "EntityToMediumOfExchange" => l.target = m
        /\ \A l, k \in M!Pair(clock + 1 + 2 * nth[m], m, x) : l.id = k.id => l = k
  <2> TAKE m \in added
  <2>1. PICK id : id = clock + 1 + 2 * nth[m]
    OBVIOUS
  <2>2. id \in Nat /\ m \in M!Mediums /\ UNCHANGED records
    BY <1>2, <1>6, <2>1
  <2>3. /\ M!Pair(id, m, x) \subseteq M!LinkType'
        /\ \A l \in M!Pair(id, m, x) :
              /\ l.id \in {id, id + 1} /\ l.type \in PairTypes
              /\ l.type = "EntityToMediumOfExchange" => l.target = m
        /\ \A l, k \in M!Pair(id, m, x) : l.id = k.id => l = k
    BY <2>2, PairLinks
  <2> QED BY <2>1, <2>3
<1>8. /\ new \subseteq M!LinkType' /\ \A l \in new : l.type \in PairTypes
      /\ \A l \in new : l.type = "EntityToMediumOfExchange" => l.target \in added
  BY <1>5, <1>7
<1>9. FreshLinks(2 * n, new)
  <2>1. ASSUME NEW l \in new PROVE l.id \in clock + 1 .. clock + 2 * n
    <3>1. PICK m \in added : l \in M!Pair(clock + 1 + 2 * nth[m], m, x)
      BY <1>5
    <3>2. l.id \in {clock + 1 + 2 * nth[m], clock + 1 + 2 * nth[m] + 1}
      BY <1>7, <3>1
    <3> QED BY <1>3, <1>4, <1>6, <3>2
  <2>2. ASSUME NEW l \in new, NEW k \in new, l.id = k.id PROVE l = k
    <3>1. PICK m \in added : l \in M!Pair(clock + 1 + 2 * nth[m], m, x)
      BY <1>5
    <3>2. PICK u \in added : k \in M!Pair(clock + 1 + 2 * nth[u], u, x)
      BY <1>5
    <3>3. /\ l.id \in {clock + 1 + 2 * nth[m], clock + 1 + 2 * nth[m] + 1}
          /\ k.id \in {clock + 1 + 2 * nth[u], clock + 1 + 2 * nth[u] + 1}
      BY <1>7, <3>1, <3>2
    <3>4. nth[m] = nth[u]
      BY <1>3, <1>4, <1>6, <2>2, <3>3
    <3>5. m = u
      BY <1>2, <3>4
    <3> QED BY <1>7, <2>2, <3>1, <3>2, <3>5
  <2> QED BY <2>1, <2>2 DEF FreshLinks
<1>10. \A m \in added : M!IsMediumApproved(a, m)
  BY <1>1 DEF M!UpdateMediumLinks
<1>11. \A l \in new : l.type = "EntityToMediumOfExchange" => M!IsMediumApproved(a, l.target)
  BY <1>8, <1>10, Zenon
<1>12. PICK at, k : at = [m \in added |-> clock + 1 + 2 * nth[m]] /\ k = 2 * n
  OBVIOUS
<1>13. PairsAt(new, at, added, x)
  <2>1. \A m \in added : at[m] = clock + 1 + 2 * nth[m]
    BY <1>12
  <2>2. \A l : l \in new <=> \E m \in added : l \in M!Pair(clock + 1 + 2 * nth[m], m, x)
    BY <1>5
  <2>3. \A l : l \in new <=> \E m \in added : l \in M!Pair(at[m], m, x)
    BY <2>1, <2>2
  <2> QED BY <2>3 DEF PairsAt
<1>14. /\ k \in Nat /\ M!Commit(a, k, new, unlinked) /\ FreshLinks(k, new) /\ UNCHANGED records
       /\ unlinked \in M!UnlinkAll(a, x, others)
  BY <1>2, <1>4, <1>5, <1>9, <1>12
<1> HIDE DEF Added, Links
<1> k \in Nat
  BY <1>14
<1> WITNESS k \in Nat
<1> WITNESS new, unlinked, added, at, others
<1> QED BY <1>8, <1>11, <1>13, <1>14

LEMMA UpdateLinksInv ==
  ASSUME MediumsInv, NEW a \in Agents, NEW x \in Listings, NEW ms \in SUBSET M!Mediums,
         M!UpdateMediumLinks(a, x, ms)
  PROVE  MediumsInv'
<1>1. PICK n \in Nat : \E new, unlinked, others :
        /\ M!Commit(a, n, new, unlinked) /\ UNCHANGED records
        /\ FreshLinks(n, new) /\ new \subseteq M!LinkType'
        /\ \A l \in new : l.type \in PairTypes
        /\ \A l \in new : l.type = "EntityToMediumOfExchange" => M!IsMediumApproved(a, l.target)
        /\ unlinked \in M!UnlinkAll(a, x, others)
  BY UpdateLinksShape
<1> QED BY <1>1, AllUnlinkedPairs, PairsInv

LEMMA NextMediums == MediumsInv /\ [M!Next]_(M!vars) => MediumsInv'
<1> SUFFICES ASSUME MediumsInv, [M!Next]_(M!vars) PROVE MediumsInv'
  OBVIOUS
<1>1. ASSUME NEW a \in Agents, NEW type \in {"base", "currency"}, M!SuggestMedium(a, type) \/ M!CreateMedium(a, type)
      PROVE  MediumsInv'
  BY <1>1, NewMediumInv DEF M!SuggestMedium, M!CreateMedium
<1>2. ASSUME NEW a \in Agents, NEW m \in M!Mediums, M!UpdateMedium(a, m) PROVE MediumsInv'
  BY <1>2, UpdateInv
<1>3. ASSUME NEW a \in Agents, NEW m \in M!Mediums, M!DeleteMedium(a, m) PROVE MediumsInv'
  BY <1>3, DeleteInv
<1>4. ASSUME NEW a \in Agents, NEW m \in M!Mediums, M!ApproveMedium(a, m) PROVE MediumsInv'
  BY <1>4, ApproveInv
<1>5. ASSUME NEW a \in Agents, NEW m \in M!Mediums, M!RejectMedium(a, m) PROVE MediumsInv'
  BY <1>5, RejectInv
<1>6. ASSUME NEW a \in Agents, NEW m \in M!Mediums, NEW x \in Listings, M!LinkToMedium(a, m, x) PROVE MediumsInv'
  BY <1>6, LinkInv
<1>7. ASSUME NEW a \in Agents, NEW m, NEW x, M!UnlinkFromMedium(a, m, x) \/ M!DeleteAllMediumLinks(a, x)
      PROVE  MediumsInv'
  BY <1>7, UnlinkInv
<1>8. ASSUME NEW a \in Agents, NEW x \in Listings, NEW ms \in SUBSET (M!Mediums \cap seen[a]),
             M!UpdateMediumLinks(a, x, ms)
      PROVE  MediumsInv'
  BY <1>8, UpdateLinksInv
<1>9. CASE M!Deliver \/ UNCHANGED M!vars
  BY <1>9, DeliverInv
<1> QED BY <1>1, <1>2, <1>3, <1>4, <1>5, <1>6, <1>7, <1>8, <1>9 DEF M!Next, M!Call

LEMMA MediumsInvariance == M!Spec => []MediumsInv
BY InitMediums, NextMediums, PTL DEF M!Spec

\* Lists and pairs name originals and update links revisions, and an original is
\* there for each revision (medium_of_exchange.rs:30-100, 369-407).
THEOREM MediumsTypes == M!Spec => []M!TypeOK
BY MediumsInvariance, PTL DEF MediumsInv

\* Whatever the calls of other administrators overlap with, a medium that is not
\* deleted is on some status list (medium_of_exchange.rs:409-419, 434-443).
THEOREM StatusNeverLost == M!Spec => []M!NeverStatusless
BY MediumsInvariance, PTL DEF MediumsInv

\* As long as every call ran on a complete copy of the table, a medium is on
\* exactly one status list, by one link, and a deleted one on none or on the
\* rejected one (medium_of_exchange.rs:210-229, 369-371, 426-446).
THEOREM StatusIsUnique == M!Spec => []M!OneStatus
BY MediumsInvariance, PTL DEF MediumsInv

\* Whatever the calls overlap with, what a listing is linked to had been put on
\* the approved list before (medium_of_exchange.rs:567-577).
THEOREM UsedWasApproved == M!Spec => []M!LinkedWasApproved
BY MediumsInvariance, PTL DEF MediumsInv

-----------------------------------------------------------------------------
(* The pairs of links between mediums and listings. *)

\* What a call deletes is, of the two ways of every pair, equally many links.
Unlinks(del) ==
  \A t, x : \E n \in Nat : /\ del \cap IdsOf(M!Forth(t, x)) \in M!Some(n, M!Forth(t, x))
                           /\ del \cap IdsOf(M!Back(t, x)) \in M!Some(n, M!Back(t, x))

\* What a call creates is, for a pair, a link each way or none.
ForthIn(new, t, x) == {l \in new : l.type = "MediumOfExchangeToEntity" /\ l.base = t /\ l.target = x}
BackIn(new, t, x) == {l \in new : l.type = "EntityToMediumOfExchange" /\ l.base = x /\ l.target = t}

LinksPairs(new) ==
  \A t, x : \/ ForthIn(new, t, x) = {} /\ BackIn(new, t, x) = {}
            \/ \E l, m : ForthIn(new, t, x) = {l} /\ BackIn(new, t, x) = {m}

\* The links of the pairs are finitely many, and no link is in two of them.
LEMMA PairsApart ==
  ASSUME M!TypeOK
  PROVE  /\ \A t, x : IsFiniteSet(M!Forth(t, x)) /\ IsFiniteSet(M!Back(t, x))
         /\ \A t, x : M!Forth(t, x) \cup M!Back(t, x) \subseteq links
         /\ \A t, x : IdsOf(M!Forth(t, x)) \cup IdsOf(M!Back(t, x)) \subseteq PairIds
         /\ \A t, x, u, y : IdsOf(M!Forth(t, x)) \cap IdsOf(M!Back(u, y)) = {}
         /\ \A t, x, u, y : ~(t = u /\ x = y) =>
              /\ IdsOf(M!Forth(t, x)) \cap IdsOf(M!Forth(u, y)) = {}
              /\ IdsOf(M!Back(t, x)) \cap IdsOf(M!Back(u, y)) = {}
<1>1. \A t, x : /\ \A l \in M!Forth(t, x) : /\ l \in links /\ l.type = "MediumOfExchangeToEntity"
                                            /\ l.base = t /\ l.target = x
                /\ \A l \in M!Back(t, x) : /\ l \in links /\ l.type = "EntityToMediumOfExchange"
                                           /\ l.base = x /\ l.target = t
  BY DEF M!Forth, M!Back, M!Live
<1>2. \A l, m \in links : l.id = m.id => l = m
  BY DEF M!TypeOK, M!DhtTypeOK
<1>3. IsFiniteSet(links)
  BY MLinksAreFinite DEF M!TypeOK
<1>4. \A t, x : M!Forth(t, x) \cup M!Back(t, x) \subseteq links
  BY <1>1
<1>5. \A t, x : IsFiniteSet(M!Forth(t, x)) /\ IsFiniteSet(M!Back(t, x))
  BY <1>3, <1>4, FS_Subset
<1>6. \A t, x : IdsOf(M!Forth(t, x)) \cup IdsOf(M!Back(t, x)) \subseteq PairIds
  BY <1>1 DEF IdsOf, PairIds, PairTypes
<1>7. \A t, x, u, y : IdsOf(M!Forth(t, x)) \cap IdsOf(M!Back(u, y)) = {}
  BY <1>1, <1>2 DEF IdsOf
<1>8. \A t, x, u, y : ~(t = u /\ x = y) =>
              /\ IdsOf(M!Forth(t, x)) \cap IdsOf(M!Forth(u, y)) = {}
              /\ IdsOf(M!Back(t, x)) \cap IdsOf(M!Back(u, y)) = {}
  BY <1>1, <1>2 DEF IdsOf
<1> QED BY <1>4, <1>5, <1>6, <1>7, <1>8

\* The pairs of a medium and a listing after a call.
LEMMA PairsAfter ==
  ASSUME M!TypeOK, NEW a \in Agents, NEW n \in Nat, NEW new, NEW del,
         FreshLinks(n, new), del \subseteq M!Ids, M!Publish(a, n, new, del), NEW t, NEW x
  PROVE  /\ M!Forth(t, x)' = {l \in M!Forth(t, x) : l.id \notin del} \cup ForthIn(new, t, x)
         /\ M!Back(t, x)' = {l \in M!Back(t, x) : l.id \notin del} \cup BackIn(new, t, x)
<1>1. M!Live("MediumOfExchangeToEntity", t)' =
        {l \in M!Live("MediumOfExchangeToEntity", t) : l.id \notin del} \cup
        {l \in new : l.type = "MediumOfExchangeToEntity" /\ l.base = t}
  BY MLiveAfterPublish DEF M!TypeOK
<1>2. M!Live("EntityToMediumOfExchange", x)' =
        {l \in M!Live("EntityToMediumOfExchange", x) : l.id \notin del} \cup
        {l \in new : l.type = "EntityToMediumOfExchange" /\ l.base = x}
  BY MLiveAfterPublish DEF M!TypeOK
<1> QED BY <1>1, <1>2 DEF M!Forth, M!Back, ForthIn, BackIn

\* Equally many links each way stay when equally many go.
LEMMA TakenAlike ==
  ASSUME NEW F, NEW B, IsFiniteSet(F), IsFiniteSet(B), Cardinality(F) = Cardinality(B),
         \A l, m \in F : l.id = m.id => l = m, \A l, m \in B : l.id = m.id => l = m,
         NEW n \in Nat, NEW del, del \cap IdsOf(F) \in M!Some(n, F), del \cap IdsOf(B) \in M!Some(n, B)
  PROVE  /\ Cardinality({l \in F : l.id \notin del}) = Cardinality({l \in B : l.id \notin del})
         /\ Cardinality(F) <= n => \A l \in F \cup B : l.id \in del
<1>1. /\ {l \in F : l.id \notin del} = {l \in F : l.id \notin del \cap IdsOf(F)}
      /\ {l \in B : l.id \notin del} = {l \in B : l.id \notin del \cap IdsOf(B)}
  BY DEF IdsOf
<1>2. /\ Cardinality({l \in F : l.id \notin del}) = Cardinality(F) - Cardinality(del \cap IdsOf(F))
      /\ Cardinality({l \in B : l.id \notin del}) = Cardinality(B) - Cardinality(del \cap IdsOf(B))
  BY <1>1, LinksTakenAway
<1>3. CASE Cardinality(F) <= n
  <2>1. del \cap IdsOf(F) = IdsOf(F) /\ del \cap IdsOf(B) = IdsOf(B)
    BY <1>3, MCardinality DEF M!Some, IdsOf
  <2>2. \A l \in F \cup B : l.id \in del
    BY <2>1 DEF IdsOf
  <2>3. {l \in F : l.id \notin del} = {} /\ {l \in B : l.id \notin del} = {}
    BY <2>2
  <2> QED BY <2>2, <2>3
<1>4. CASE ~(Cardinality(F) <= n)
  <2>1. Cardinality(del \cap IdsOf(F)) = n /\ Cardinality(del \cap IdsOf(B)) = n
    BY <1>4, MCardinality DEF M!Some
  <2> QED BY <1>2, <1>4, <2>1
<1> QED BY <1>3, <1>4

\* Nothing of a pair is deleted, or all of it is looked at by one unlinking.
LEMMA UntouchedPairs ==
  ASSUME M!TypeOK, NEW del, NEW t, NEW x,
         del \cap IdsOf(M!Forth(t, x)) = {}, del \cap IdsOf(M!Back(t, x)) = {}
  PROVE  /\ del \cap IdsOf(M!Forth(t, x)) \in M!Some(0, M!Forth(t, x))
         /\ del \cap IdsOf(M!Back(t, x)) \in M!Some(0, M!Back(t, x))
<1>1. \A F : IsFiniteSet(F) => {} \in M!Some(0, F)
  <2> SUFFICES ASSUME NEW F, IsFiniteSet(F) PROVE {} \in M!Some(0, F)
    OBVIOUS
  <2>1. Cardinality(F) \in Nat /\ (Cardinality(F) = 0 => F = {}) /\ Cardinality({}) = 0
    BY FS_CardinalityType, FS_EmptySet
  <2> QED BY <2>1, MCardinality DEF M!Some
<1> QED BY <1>1, PairsApart

\* unlink_from_medium_of_exchange on a complete copy, n times.
LEMMA UnlinkedParts ==
  ASSUME M!TypeOK, NEW a \in Agents, M!UpToDate(a), NEW t, NEW x, NEW n, NEW S \in M!Unlinked(a, t, x, n)
  PROVE  /\ S \cap IdsOf(M!Forth(t, x)) \in M!Some(n, M!Forth(t, x))
         /\ S \cap IdsOf(M!Back(t, x)) \in M!Some(n, M!Back(t, x))
<1>1. M!ToEntity(a, t, x) = M!Forth(t, x) /\ M!ToMedium(a, x, t) = M!Back(t, x)
  BY MCompleteCopyReadsTable DEF M!TypeOK, M!ToEntity, M!ToMedium, M!Forth, M!Back
<1>2. PICK F \in M!Some(n, M!Forth(t, x)), B \in M!Some(n, M!Back(t, x)) : S = F \cup B
  BY <1>1 DEF M!Unlinked
<1>3. F \subseteq IdsOf(M!Forth(t, x)) /\ B \subseteq IdsOf(M!Back(t, x))
  BY DEF M!Some, IdsOf
<1>4. S \cap IdsOf(M!Forth(t, x)) = F /\ S \cap IdsOf(M!Back(t, x)) = B
  BY <1>2, <1>3, PairsApart
<1> QED BY <1>4

\* It deletes no link of another pair.
LEMMA UnlinkedElsewhere ==
  ASSUME M!TypeOK, NEW a \in Agents, M!UpToDate(a), NEW t, NEW x, NEW n, NEW S \in M!Unlinked(a, t, x, n),
         NEW v, NEW z, ~(t = v /\ x = z)
  PROVE  S \cap IdsOf(M!Forth(v, z)) = {} /\ S \cap IdsOf(M!Back(v, z)) = {}
<1>1. M!ToEntity(a, t, x) = M!Forth(t, x) /\ M!ToMedium(a, x, t) = M!Back(t, x)
  BY MCompleteCopyReadsTable DEF M!TypeOK, M!ToEntity, M!ToMedium, M!Forth, M!Back
<1>2. PICK F \in M!Some(n, M!Forth(t, x)), B \in M!Some(n, M!Back(t, x)) : S = F \cup B
  BY <1>1 DEF M!Unlinked
<1>3. F \subseteq IdsOf(M!Forth(t, x)) /\ B \subseteq IdsOf(M!Back(t, x))
  BY DEF M!Some, IdsOf
<1> QED BY <1>2, <1>3, PairsApart

\* Links of a medium or a listing that is not there do not exist.
LEMMA NoStrayPairs ==
  ASSUME M!TypeOK, NEW t, NEW x, t \notin M!Mediums \/ x \notin Listings
  PROVE  M!Forth(t, x) = {} /\ M!Back(t, x) = {}
BY DEF M!TypeOK, M!LinkType, M!Forth, M!Back, M!Live

LEMMA BalanceAfter ==
  ASSUME M!TypeOK, M!PairsBalance, NEW a \in Agents, NEW n \in Nat, NEW new, NEW del,
         FreshLinks(n, new), del \subseteq M!Ids, M!Commit(a, n, new, del), serial',
         Unlinks(del), LinksPairs(new), NEW t, NEW x
  PROVE  Cardinality(M!Forth(t, x)') = Cardinality(M!Back(t, x)')
<1>1. M!Publish(a, n, new, del) /\ serial
  BY DEF M!Commit
<1>2. /\ M!Forth(t, x)' = {l \in M!Forth(t, x) : l.id \notin del} \cup ForthIn(new, t, x)
      /\ M!Back(t, x)' = {l \in M!Back(t, x) : l.id \notin del} \cup BackIn(new, t, x)
  BY <1>1, PairsAfter
<1>3. Cardinality(M!Forth(t, x)) = Cardinality(M!Back(t, x))
  BY <1>1, NoStrayPairs, MCardinality DEF M!PairsBalance
<1>4. /\ IsFiniteSet(M!Forth(t, x)) /\ IsFiniteSet(M!Back(t, x))
      /\ M!Forth(t, x) \cup M!Back(t, x) \subseteq links
  BY PairsApart
<1>5. PICK c \in Nat : /\ del \cap IdsOf(M!Forth(t, x)) \in M!Some(c, M!Forth(t, x))
                       /\ del \cap IdsOf(M!Back(t, x)) \in M!Some(c, M!Back(t, x))
  BY DEF Unlinks
<1>6. Cardinality({l \in M!Forth(t, x) : l.id \notin del}) = Cardinality({l \in M!Back(t, x) : l.id \notin del})
  <2>1. \A l, m \in links : l.id = m.id => l = m
    BY DEF M!TypeOK, M!DhtTypeOK
  <2>2. /\ \A l, m \in M!Forth(t, x) : l.id = m.id => l = m
        /\ \A l, m \in M!Back(t, x) : l.id = m.id => l = m
    BY <1>4, <2>1
  <2> QED BY <1>3, <1>4, <1>5, <2>2, TakenAlike
<1>7. CASE ForthIn(new, t, x) = {} /\ BackIn(new, t, x) = {}
  BY <1>2, <1>6, <1>7
<1>8. ASSUME NEW l, NEW m, ForthIn(new, t, x) = {l}, BackIn(new, t, x) = {m}
      PROVE  Cardinality(M!Forth(t, x)') = Cardinality(M!Back(t, x)')
  <2>1. \A k \in new : k \notin links
    BY DEF M!TypeOK, M!DhtTypeOK, FreshLinks, M!Ids
  <2>2. l \notin M!Forth(t, x) /\ m \notin M!Back(t, x)
    BY <1>4, <1>8, <2>1 DEF ForthIn, BackIn
  <2>3. /\ IsFiniteSet({k \in M!Forth(t, x) : k.id \notin del})
        /\ IsFiniteSet({k \in M!Back(t, x) : k.id \notin del})
    BY <1>4, FS_Subset
  <2>4. /\ Cardinality({k \in M!Forth(t, x) : k.id \notin del} \cup {l})
             = Cardinality({k \in M!Forth(t, x) : k.id \notin del}) + 1
        /\ Cardinality({k \in M!Back(t, x) : k.id \notin del} \cup {m})
             = Cardinality({k \in M!Back(t, x) : k.id \notin del}) + 1
    BY <2>2, <2>3, FS_AddElement
  <2> QED BY <1>2, <1>6, <1>8, <2>4
<1> QED BY <1>7, <1>8 DEF LinksPairs

\* The links of a pair are that pair and no other.
LEMMA PairIsPair ==
  ASSUME NEW id, NEW t, NEW x, NEW new, new = M!Pair(id, t, x)
  PROVE  /\ LinksPairs(new)
         /\ \A u, y : ForthIn(new, u, y) \cup BackIn(new, u, y) # {} => u = t /\ y = x
<1>1. /\ ForthIn(new, t, x) = {M!Link(id, "MediumOfExchangeToEntity", t, x)}
      /\ BackIn(new, t, x) = {M!Link(id + 1, "EntityToMediumOfExchange", x, t)}
  BY DEF M!Pair, M!Link, ForthIn, BackIn
<1>2. \A u, y : ~(u = t /\ y = x) => ForthIn(new, u, y) = {} /\ BackIn(new, u, y) = {}
  BY DEF M!Pair, M!Link, ForthIn, BackIn
<1>3. ASSUME NEW u, NEW y
      PROVE  \/ ForthIn(new, u, y) = {} /\ BackIn(new, u, y) = {}
             \/ \E l, m : ForthIn(new, u, y) = {l} /\ BackIn(new, u, y) = {m}
  <2>1. CASE u = t /\ y = x
    BY <1>1, <2>1
  <2> QED BY <1>2, <2>1
<1> QED BY <1>2, <1>3 DEF LinksPairs

\* One pair for each of several mediums.
LEMMA ManyPairs ==
  ASSUME NEW x, NEW added, NEW at, NEW new, PairsAt(new, at, added, x)
  PROVE  /\ LinksPairs(new)
         /\ \A u, y : ForthIn(new, u, y) \cup BackIn(new, u, y) # {} => u \in added /\ y = x
<1>0. \A l : l \in new <=> \E t \in added : l \in M!Pair(at[t], t, x)
  BY DEF PairsAt
<1>1. \A t \in added : \A l \in M!Pair(at[t], t, x) :
        /\ l = M!Link(at[t], "MediumOfExchangeToEntity", t, x) \/ l = M!Link(at[t] + 1, "EntityToMediumOfExchange", x, t)
        /\ l.type = "MediumOfExchangeToEntity" => l.base = t /\ l.target = x
        /\ l.type = "EntityToMediumOfExchange" => l.base = x /\ l.target = t
  BY DEF M!Pair, M!Link
<1>2. \A u, y : ForthIn(new, u, y) \cup BackIn(new, u, y) # {} => u \in added /\ y = x
  BY <1>0, <1>1 DEF ForthIn, BackIn
<1>3. ASSUME NEW u \in added
      PROVE  \E l, m : ForthIn(new, u, x) = {l} /\ BackIn(new, u, x) = {m}
  <2>1. PICK id, pair : id = at[u] /\ pair = M!Pair(id, u, x)
    OBVIOUS
  <2>2. PICK l, m : l = M!Link(id, "MediumOfExchangeToEntity", u, x) /\ m = M!Link(id + 1, "EntityToMediumOfExchange", x, u)
    OBVIOUS
  <2>3. l \in new /\ m \in new
    BY <1>0, <2>1, <2>2 DEF M!Pair
  <2>4. /\ l.type = "MediumOfExchangeToEntity" /\ l.base = u /\ l.target = x
        /\ m.type = "EntityToMediumOfExchange" /\ m.base = x /\ m.target = u
    BY <2>2 DEF M!Link
  <2>5. \A k \in new : /\ k.type = "MediumOfExchangeToEntity" /\ k.base = u => k = l
                       /\ k.type = "EntityToMediumOfExchange" /\ k.target = u => k = m
    BY <1>0, <1>1, <2>1, <2>2 DEF M!Link
  <2>6. ForthIn(new, u, x) = {l}
    BY <2>3, <2>4, <2>5 DEF ForthIn
  <2>7. BackIn(new, u, x) = {m}
    BY <2>3, <2>4, <2>5 DEF BackIn
  <2> QED BY <2>6, <2>7
<1>4. ASSUME NEW u, NEW y
      PROVE  \/ ForthIn(new, u, y) = {} /\ BackIn(new, u, y) = {}
             \/ \E l, m : ForthIn(new, u, y) = {l} /\ BackIn(new, u, y) = {m}
  <2>1. CASE u \in added /\ y = x
    BY <1>3, <2>1
  <2>2. CASE ~(u \in added /\ y = x)
    BY <1>2, <2>2
  <2> QED BY <2>1, <2>2
<1> QED BY <1>2, <1>4 DEF LinksPairs

\* Unlinking x from mediums, once for each link it has to them, on a complete copy.
LEMMA UnlinkAllAlike ==
  ASSUME M!TypeOK, NEW a \in Agents, M!UpToDate(a), NEW x, NEW ms, NEW S \in M!UnlinkAll(a, x, ms)
  PROVE  Unlinks(S)
<1>1. PICK f : /\ S = UNION {f[m] : m \in ms}
               /\ \A m \in ms : f[m] \in M!Unlinked(a, m, x, Cardinality(M!ToMedium(a, x, m)))
  BY UnlinkAllShape
<1>2. ASSUME NEW u \in ms, NEW t, NEW y, ~(u = t /\ x = y)
      PROVE  f[u] \cap IdsOf(M!Forth(t, y)) = {} /\ f[u] \cap IdsOf(M!Back(t, y)) = {}
  <2>1. PICK n, U : n = Cardinality(M!ToMedium(a, x, u)) /\ U = f[u]
    OBVIOUS
  <2>2. U \in M!Unlinked(a, u, x, n)
    BY <1>1, <2>1
  <2>3. /\ U \cap IdsOf(M!Forth(t, y)) = {}
        /\ U \cap IdsOf(M!Back(t, y)) = {}
    BY <1>2, <2>2, UnlinkedElsewhere
  <2> QED BY <2>1, <2>3
<1> SUFFICES ASSUME NEW t, NEW y
             PROVE  \E n \in Nat : /\ S \cap IdsOf(M!Forth(t, y)) \in M!Some(n, M!Forth(t, y))
                                   /\ S \cap IdsOf(M!Back(t, y)) \in M!Some(n, M!Back(t, y))
  BY DEF Unlinks
<1>3. CASE t \in ms /\ y = x
  <2>1. PICK n, U : n = Cardinality(M!ToMedium(a, x, t)) /\ U = f[t]
    OBVIOUS
  <2>2. n \in Nat
    <3>1. M!ToMedium(a, x, t) = M!Back(t, x)
      BY MCompleteCopyReadsTable DEF M!TypeOK, M!ToMedium, M!Back
    <3> QED BY <2>1, <3>1, PairsApart, FS_CardinalityType
  <2>3. U \in M!Unlinked(a, t, x, n)
    BY <1>1, <1>3, <2>1
  <2>4. U \cap IdsOf(M!Forth(t, x)) \in M!Some(n, M!Forth(t, x)) /\ U \cap IdsOf(M!Back(t, x)) \in M!Some(n, M!Back(t, x))
    BY <2>3, UnlinkedParts
  <2>5. /\ S \cap IdsOf(M!Forth(t, x)) = U \cap IdsOf(M!Forth(t, x))
        /\ S \cap IdsOf(M!Back(t, x)) = U \cap IdsOf(M!Back(t, x))
    BY <1>1, <1>2, <1>3, <2>1
  <2> QED BY <1>3, <2>2, <2>4, <2>5
<1>4. CASE ~(t \in ms /\ y = x)
  <2>1. S \cap IdsOf(M!Forth(t, y)) = {} /\ S \cap IdsOf(M!Back(t, y)) = {}
    BY <1>1, <1>2, <1>4
  <2> QED BY <2>1, UntouchedPairs
<1> QED BY <1>3, <1>4

-----------------------------------------------------------------------------
(* Each call keeps the balance. *)

\* It is enough that a call on a complete copy unlinks alike and links in pairs.
LEMMA BalancedCall ==
  ASSUME MediumsInv, M!PairsBalance, NEW a \in Agents, NEW n \in Nat, NEW new, NEW del,
         FreshLinks(n, new), del \subseteq M!Ids, M!Commit(a, n, new, del),
         M!UpToDate(a) => Unlinks(del), LinksPairs(new)
  PROVE  M!PairsBalance'
<1> SUFFICES ASSUME serial', NEW m \in M!Mediums', NEW x \in Listings
             PROVE  Cardinality(M!Forth(m, x)') = Cardinality(M!Back(m, x)')
  BY MCardinality DEF M!PairsBalance
<1>1. M!UpToDate(a) /\ M!TypeOK
  BY DEF M!Commit, MediumsInv
<1> QED BY <1>1, BalanceAfter

\* Calls without links of pairs.
LEMMA OtherCallBalance ==
  ASSUME MediumsInv, M!PairsBalance, NEW a \in Agents, NEW n \in Nat, NEW new, NEW del,
         FreshLinks(n, new), del \subseteq M!Ids, M!Commit(a, n, new, del),
         \A l \in new : l.type \notin PairTypes, del \cap PairIds = {}
  PROVE  M!PairsBalance'
<1>1. LinksPairs(new)
  BY DEF LinksPairs, ForthIn, BackIn, PairTypes
<1>2. \A t, x : del \cap IdsOf(M!Forth(t, x)) = {} /\ del \cap IdsOf(M!Back(t, x)) = {}
  BY PairsApart DEF MediumsInv
<1>3. M!TypeOK
  BY DEF MediumsInv
<1>4. Unlinks(del)
  BY <1>2, <1>3, UntouchedPairs DEF Unlinks
<1> QED BY <1>1, <1>4, BalancedCall

LEMMA NewMediumBalance ==
  ASSUME MediumsInv, M!PairsBalance, NEW a \in Agents, NEW type, NEW path, M!NewMedium(a, type, path)
  PROVE  M!PairsBalance'
<1>1. PICK n, all, link, new, del :
        /\ n = 3 /\ del = {}
        /\ all = M!StatusLink(clock + 2, M!AllPath, clock + 1) /\ link = M!StatusLink(clock + 3, path, clock + 1)
        /\ new = {all, link}
  OBVIOUS
<1>2. clock \in Nat /\ n \in Nat /\ M!Commit(a, n, new, del)
  BY <1>1 DEF M!NewMedium, MediumsInv, M!TypeOK, M!DhtTypeOK
<1>3. /\ all.id = clock + 2 /\ all.type = "AllMediumsOfExchange"
      /\ link.id = clock + 3 /\ link.type = "AllMediumsOfExchange"
  BY <1>1 DEF M!StatusLink, M!Link
<1>4. FreshLinks(n, new)
  BY <1>1, <1>2, <1>3 DEF FreshLinks
<1>5. (\A l \in new : l.type \notin PairTypes) /\ del \subseteq M!Ids /\ del \cap PairIds = {}
  BY <1>1, <1>3 DEF PairTypes
<1> QED BY <1>2, <1>4, <1>5, OtherCallBalance

LEMMA ModerationBalance ==
  ASSUME MediumsInv, M!PairsBalance, NEW a \in Agents, NEW m \in M!Mediums,
         M!UpdateMedium(a, m) \/ M!DeleteMedium(a, m) \/ M!ApproveMedium(a, m) \/ M!RejectMedium(a, m)
  PROVE  M!PairsBalance'
<1>1. PICK removed : removed = M!RemoveFromStatusPaths(a, m)
  OBVIOUS
<1>2. clock \in Nat /\ m \in M!Ids /\ m \notin PairIds /\ removed \subseteq M!Ids /\ removed \cap PairIds = {}
  BY <1>1, RemovedFromPaths, DeletedLinks DEF MediumsInv, M!TypeOK, M!DhtTypeOK, M!Mediums, M!Originals
<1>3. CASE M!UpdateMedium(a, m)
  <2>1. PICK n, link, new, del : /\ n = 2 /\ link = M!Link(clock + 2, "MediumOfExchangeUpdates", m, clock + 1)
                                 /\ new = {link} /\ del = {}
    OBVIOUS
  <2>2. n \in Nat /\ M!Commit(a, n, new, del)
    BY <1>3, <2>1 DEF M!UpdateMedium
  <2>3. link.id = clock + 2 /\ link.type = "MediumOfExchangeUpdates"
    BY <2>1 DEF M!Link
  <2>4. FreshLinks(n, new) /\ del \subseteq M!Ids /\ del \cap PairIds = {} /\ \A l \in new : l.type \notin PairTypes
    BY <1>2, <2>1, <2>3 DEF FreshLinks, PairTypes
  <2> QED BY <2>2, <2>4, OtherCallBalance
<1>4. CASE M!DeleteMedium(a, m)
  <2>1. PICK n, new, del : n = 0 /\ new = {} /\ del = removed \cup {m}
    OBVIOUS
  <2>2. n \in Nat /\ M!Commit(a, n, new, del)
    BY <1>1, <1>4, <2>1 DEF M!DeleteMedium
  <2>3. FreshLinks(n, new) /\ del \subseteq M!Ids /\ del \cap PairIds = {} /\ \A l \in new : l.type \notin PairTypes
    BY <1>2, <2>1 DEF FreshLinks
  <2> QED BY <2>2, <2>3, OtherCallBalance
<1>5. CASE M!ApproveMedium(a, m)
  <2>1. PICK n, update, link, new :
          /\ n = 3 /\ update = M!Link(clock + 2, "MediumOfExchangeUpdates", m, clock + 1)
          /\ link = M!StatusLink(clock + 3, "approved", m) /\ new = {update, link}
    OBVIOUS
  <2>2. n \in Nat /\ M!Commit(a, n, new, removed)
    BY <1>1, <1>5, <2>1 DEF M!ApproveMedium
  <2>3. /\ update.id = clock + 2 /\ update.type = "MediumOfExchangeUpdates"
        /\ link.id = clock + 3 /\ link.type = "AllMediumsOfExchange"
    BY <2>1 DEF M!StatusLink, M!Link
  <2>4. FreshLinks(n, new) /\ \A l \in new : l.type \notin PairTypes
    BY <1>2, <2>1, <2>3 DEF FreshLinks, PairTypes
  <2> QED BY <1>2, <2>2, <2>4, OtherCallBalance
<1>6. CASE M!RejectMedium(a, m)
  <2>1. PICK n, link, new : n = 1 /\ link = M!StatusLink(clock + 1, "rejected", m) /\ new = {link}
    OBVIOUS
  <2>2. n \in Nat /\ M!Commit(a, n, new, removed)
    BY <1>1, <1>6, <2>1 DEF M!RejectMedium
  <2>3. link.id = clock + 1 /\ link.type = "AllMediumsOfExchange"
    BY <2>1 DEF M!StatusLink, M!Link
  <2>4. FreshLinks(n, new) /\ \A l \in new : l.type \notin PairTypes
    BY <1>2, <2>1, <2>3 DEF FreshLinks, PairTypes
  <2> QED BY <1>2, <2>2, <2>4, OtherCallBalance
<1> QED BY <1>3, <1>4, <1>5, <1>6

LEMMA LinkBalance ==
  ASSUME MediumsInv, M!PairsBalance, NEW a \in Agents, NEW m \in M!Mediums, NEW x \in Listings, M!LinkToMedium(a, m, x)
  PROVE  M!PairsBalance'
<1>1. PICK n \in Nat : \E id, new, del : /\ M!Commit(a, n, new, del) /\ FreshLinks(n, new)
                                         /\ del = {} /\ new = M!Pair(id, m, x)
  BY LinkShape
<1>2. PICK id, new, del : /\ M!Commit(a, n, new, del) /\ FreshLinks(n, new)
                          /\ del = {} /\ new = M!Pair(id, m, x)
  BY <1>1
<1>3. LinksPairs(new)
  BY <1>2, PairIsPair
<1>4. del \subseteq M!Ids /\ \A t, y : del \cap IdsOf(M!Forth(t, y)) = {} /\ del \cap IdsOf(M!Back(t, y)) = {}
  BY <1>2
<1>5. Unlinks(del)
  BY <1>4, UntouchedPairs DEF Unlinks, MediumsInv
<1> QED BY <1>2, <1>3, <1>4, <1>5, BalancedCall

LEMMA UnlinkBalance ==
  ASSUME MediumsInv, M!PairsBalance, NEW a \in Agents, NEW m, NEW x,
         M!UnlinkFromMedium(a, m, x) \/ M!DeleteAllMediumLinks(a, x)
  PROVE  M!PairsBalance'
<1>1. PICK n \in Nat : \E new, del :
        /\ new = {} /\ M!Commit(a, n, new, del) /\ del \subseteq PairIds
        /\ del \in M!Unlinked(a, m, x, 1) \/ \E ms : del \in M!UnlinkAll(a, x, ms)
  BY UnlinkShape
<1>2. PICK new, del :
        /\ new = {} /\ M!Commit(a, n, new, del) /\ del \subseteq PairIds
        /\ del \in M!Unlinked(a, m, x, 1) \/ \E ms : del \in M!UnlinkAll(a, x, ms)
  BY <1>1
<1>3. FreshLinks(n, new) /\ LinksPairs(new) /\ M!TypeOK /\ del \subseteq M!Ids
  BY <1>2, DeletedLinks DEF FreshLinks, LinksPairs, ForthIn, BackIn, MediumsInv
<1>4. ASSUME M!UpToDate(a) PROVE Unlinks(del)
  <2>1. CASE del \in M!Unlinked(a, m, x, 1)
    <3>1. PICK k \in Nat : del \in M!Unlinked(a, m, x, k)
      BY <2>1
    <3>2. /\ del \cap IdsOf(M!Forth(m, x)) \in M!Some(k, M!Forth(m, x))
          /\ del \cap IdsOf(M!Back(m, x)) \in M!Some(k, M!Back(m, x))
      BY <1>3, <1>4, <3>1, UnlinkedParts
    <3>3. ASSUME NEW u, NEW y, ~(m = u /\ x = y)
          PROVE  del \cap IdsOf(M!Forth(u, y)) = {} /\ del \cap IdsOf(M!Back(u, y)) = {}
      BY <1>3, <1>4, <3>1, <3>3, UnlinkedElsewhere
    <3> QED BY <1>3, <3>2, <3>3, UntouchedPairs DEF Unlinks
  <2>2. CASE \E ms : del \in M!UnlinkAll(a, x, ms)
    BY <1>3, <1>4, <2>2, UnlinkAllAlike
  <2> QED BY <1>2, <2>1, <2>2
<1> QED BY <1>2, <1>3, <1>4, BalancedCall

LEMMA UpdateLinksBalance ==
  ASSUME MediumsInv, M!PairsBalance, NEW a \in Agents, NEW x \in Listings, NEW ms \in SUBSET M!Mediums,
         M!UpdateMediumLinks(a, x, ms)
  PROVE  M!PairsBalance'
<1>1. PICK n \in Nat : \E new, unlinked, added, at, others :
        /\ M!Commit(a, n, new, unlinked) /\ FreshLinks(n, new)
        /\ unlinked \in M!UnlinkAll(a, x, others) /\ PairsAt(new, at, added, x)
  BY UpdateLinksShape
<1>2. PICK new, unlinked, added, at, others :
        /\ M!Commit(a, n, new, unlinked) /\ FreshLinks(n, new)
        /\ unlinked \in M!UnlinkAll(a, x, others) /\ PairsAt(new, at, added, x)
  BY <1>1
<1>3. M!TypeOK /\ unlinked \subseteq M!Ids /\ LinksPairs(new)
  BY <1>2, ManyPairs, AllUnlinkedPairs, DeletedLinks DEF MediumsInv
<1>4. M!UpToDate(a) => Unlinks(unlinked)
  BY <1>2, <1>3, UnlinkAllAlike
<1> QED BY <1>2, <1>3, <1>4, BalancedCall

LEMMA DeliverBalance ==
  ASSUME MediumsInv, M!PairsBalance, M!Deliver \/ UNCHANGED M!vars
  PROVE  M!PairsBalance'
<1>1. UNCHANGED <<links, dead, serial, records>>
  BY MGossipKeepsTable DEF MediumsInv, M!TypeOK, M!Deliver, M!vars, M!dhtVars
<1>2. M!Mediums' = M!Mediums
  BY <1>1 DEF M!Mediums, M!Originals
<1> QED BY <1>1, <1>2 DEF M!PairsBalance, M!Forth, M!Back, M!Live

LEMMA BalanceNext == MediumsInv /\ M!PairsBalance /\ [M!Next]_(M!vars) => M!PairsBalance'
<1> SUFFICES ASSUME MediumsInv, M!PairsBalance, [M!Next]_(M!vars) PROVE M!PairsBalance'
  OBVIOUS
<1>1. ASSUME NEW a \in Agents, NEW type \in {"base", "currency"}, M!SuggestMedium(a, type) \/ M!CreateMedium(a, type)
      PROVE  M!PairsBalance'
  BY <1>1, NewMediumBalance DEF M!SuggestMedium, M!CreateMedium
<1>2. ASSUME NEW a \in Agents, NEW m \in M!Mediums,
             M!UpdateMedium(a, m) \/ M!DeleteMedium(a, m) \/ M!ApproveMedium(a, m) \/ M!RejectMedium(a, m)
      PROVE  M!PairsBalance'
  BY <1>2, ModerationBalance
<1>3. ASSUME NEW a \in Agents, NEW m \in M!Mediums, NEW x \in Listings, M!LinkToMedium(a, m, x) PROVE M!PairsBalance'
  BY <1>3, LinkBalance
<1>4. ASSUME NEW a \in Agents, NEW m, NEW x, M!UnlinkFromMedium(a, m, x) \/ M!DeleteAllMediumLinks(a, x)
      PROVE  M!PairsBalance'
  BY <1>4, UnlinkBalance
<1>5. ASSUME NEW a \in Agents, NEW x \in Listings, NEW ms \in SUBSET (M!Mediums \cap seen[a]),
             M!UpdateMediumLinks(a, x, ms)
      PROVE  M!PairsBalance'
  BY <1>5, UpdateLinksBalance
<1>6. CASE M!Deliver \/ UNCHANGED M!vars
  BY <1>6, DeliverBalance
<1> QED BY <1>1, <1>2, <1>3, <1>4, <1>5, <1>6 DEF M!Next, M!Call

\* As long as every call ran on a complete copy of the table, the two ways of
\* every pair of a medium and a listing are equally many links, however often
\* they were linked, unlinked and updated (medium_of_exchange.rs:579-594,
\* 617-648).
THEOREM PairsStayBalanced == M!Spec => []M!PairsBalance
<1>1. M!Init => M!PairsBalance
  <2> SUFFICES ASSUME M!Init PROVE M!PairsBalance
    OBVIOUS
  <2>1. M!Mediums = {}
    BY DEF M!Init, M!Mediums, M!Originals
  <2> QED BY <2>1 DEF M!PairsBalance
<1> QED BY <1>1, InitMediums, NextMediums, BalanceNext, PTL DEF M!Spec

-----------------------------------------------------------------------------
(* Requests and offers: the table and what calls do to it, in the words of the instance. *)

LEMMA LTable ==
  /\ L!Ids = Ids /\ (L!DhtTypeOK <=> DhtTypeOK)
  /\ \A a, n, new, del : L!Commit(a, n, new, del) <=> Commit(a, n, new, del)
  /\ \A a, n, new, del : L!Publish(a, n, new, del) <=> Publish(a, n, new, del)
  /\ \A type, base : L!Live(type, base) = Live(type, base)
  /\ \A a, type, base : L!GetLinks(a, type, base) = GetLinks(a, type, base)
  /\ \A a : L!UpToDate(a) <=> UpToDate(a)
  /\ L!Gossip <=> Gossip
<1>1. L!Ids = Ids
  BY DEF L!Ids, Ids
<1>2. L!DhtTypeOK <=> DhtTypeOK
  BY <1>1 DEF L!DhtTypeOK, DhtTypeOK
<1>3. \A a : L!UpToDate(a) <=> UpToDate(a)
  BY <1>1 DEF L!UpToDate, UpToDate
<1>4. \A a, n, new, del : L!Publish(a, n, new, del) <=> Publish(a, n, new, del)
  BY DEF L!Publish, Publish
<1>5. \A a, n, new, del : L!Commit(a, n, new, del) <=> Commit(a, n, new, del)
  BY <1>3, <1>4 DEF L!Commit, Commit
<1>6. L!Gossip <=> Gossip
  BY <1>1 DEF L!Gossip, Gossip, L!DeliverCreate, DeliverCreate, L!DeliverDelete, DeliverDelete
<1>7. \A type, base : L!Live(type, base) = Live(type, base)
  BY DEF L!Live, Live
<1>8. \A a, type, base : L!GetLinks(a, type, base) = GetLinks(a, type, base)
  BY DEF L!GetLinks, GetLinks
<1> QED BY <1>1, <1>2, <1>3, <1>4, <1>5, <1>6, <1>7, <1>8

LEMMA LCardinality ==
  ASSUME NEW S
  PROVE  L!Cardinality(S) = Cardinality(S) /\ (L!IsFiniteSet(S) <=> IsFiniteSet(S))
BY DEF L!Cardinality, Cardinality, L!IsFiniteSet, IsFiniteSet

LEMMA LCommitKeepsTable ==
  ASSUME L!DhtTypeOK, NEW a \in Agents, NEW n \in Nat, NEW new, NEW del,
         FreshLinks(n, new), del \subseteq L!Ids, L!Commit(a, n, new, del)
  PROVE  L!DhtTypeOK'
<1>1. L!DhtTypeOK' <=> DhtTypeOK'
  BY DEF L!DhtTypeOK, DhtTypeOK, L!Ids, Ids
<1> QED BY <1>1, CommitKeepsTable, LTable

LEMMA LGossipKeepsTable ==
  ASSUME L!DhtTypeOK, L!Gossip
  PROVE  L!DhtTypeOK' /\ UNCHANGED <<clock, links, dead, serial>>
<1>1. L!DhtTypeOK' <=> DhtTypeOK'
  BY DEF L!DhtTypeOK, DhtTypeOK, L!Ids, Ids
<1> QED BY <1>1, GossipKeepsTable, LTable

-----------------------------------------------------------------------------
(* The newest update link. *)

\* A bounded set of numbers that is not empty has a largest one.
LEMMA Largest ==
  ASSUME NEW S, S \subseteq Nat, S # {}, NEW n \in Nat, \A i \in S : i <= n
  PROVE  \E i \in S : \A j \in S : j <= i
<1> DEFINE R == OpToRel(<, Nat)
           T == {k \in Nat : n - k \in S}
<1>1. IsWellFoundedOn(R, Nat)
  BY NatLessThanWellFounded, Zenon
<1>2. PICK s \in S : TRUE
  OBVIOUS
<1>3. n - s \in Nat /\ n - (n - s) = s
  BY <1>2
<1>4. T \subseteq Nat /\ T # {}
  BY <1>2, <1>3
<1>5. PICK k \in T : \A j \in T : <<j, k>> \notin R
  <2> HIDE DEF R, T
  <2> QED BY <1>1, <1>4, WFMin
<1>6. \A j \in T : ~(j < k)
  BY <1>5 DEF OpToRel
<1>7. ASSUME NEW j \in S PROVE j <= n - k
  <2>1. n - j \in Nat /\ n - (n - j) = j
    OBVIOUS
  <2>2. n - j \in T
    BY <2>1
  <2>3. ~(n - j < k)
    BY <2>2, <1>6
  <2> QED BY <2>1, <2>3
<1> QED BY <1>7

\* The newest of some links is one of them.
LEMMA NewestOfLinks ==
  ASSUME NEW U, U # {}, NEW n \in Nat, \A l \in U : l.id \in 1 .. n, NEW c,
         c = CHOOSE l \in U : \A m \in U : m.id <= l.id
  PROVE  c \in U /\ \A m \in U : m.id <= c.id
<1> DEFINE S == {l.id : l \in U}
<1>1. S \subseteq Nat /\ S # {} /\ \A i \in S : i <= n
  OBVIOUS
<1>2. PICK i \in S : \A j \in S : j <= i
  <2> HIDE DEF S
  <2> QED BY <1>1, Largest
<1>3. \E l \in U : \A m \in U : m.id <= l.id
  BY <1>2
<1> QED BY <1>3

-----------------------------------------------------------------------------
(* What the calls write. *)

\* The links of create_request for a listing o of a.
FirstLinks(a, k, o, n) ==
  [id : {o + 1}, type : {"Active"}, base : {L!Active(k)}, target : {o}]
  \cup [id : {o + 2}, type : {"UserListings"}, base : {a}, target : {o}]
  \cup [id : {o + 3}, type : {"Creator"}, base : {o}, target : {a}]
  \cup [id : {o + 4}, type : {"OrganizationListings"}, base : Orgs, target : {o}]
  \cup [id : {o + 5}, type : {"Organization"}, base : {o}, target : Orgs]
  \cup [id : o + 4 .. o + n, type : {"Tag"}, base : {o}, target : Tags]

\* A new listing: its links, for one organization at most.
Creates(a, k, n, new) ==
  LET o == clock + 1
  IN  /\ n \in Nat /\ n >= 4 /\ k \in Kinds
      /\ L!Commit(a, n, new, {})
      /\ new \subseteq FirstLinks(a, k, o, n)
      /\ FreshLinks(n, new)
      /\ {L!Link(o + 1, "Active", L!Active(k), o), L!Link(o + 2, "UserListings", a, o),
          L!Link(o + 3, "Creator", o, a)} \subseteq new
      /\ \A l \in new : l.type = "OrganizationListings" => L!Link(o + 5, "Organization", o, l.base) \in new
      /\ records' = records \cup {L!Record(o, k, o, a, "active")}

\* The links of an edit or an archival of o.
RevisionLinks(k, o, status, n) ==
  [id : {clock + 3}, type : {"Updates"}, base : {o}, target : {clock + 1}]
  \cup (IF status = "active"
        THEN [id : {clock + 2}, type : {"All"}, base : {k}, target : {clock + 1}]
             \cup [id : clock + 4 .. clock + n, type : {"Tag"}, base : {clock + 1}, target : Tags]
        ELSE [id : {clock + 2}, type : {"Archived"}, base : {L!Archived(k)}, target : {clock + 1}])

\* A new revision of o, which takes at most a place on the active list.
Revises(a, k, o, status, n, new, cut) ==
  /\ n \in Nat /\ n >= 3 /\ status \in {"active", "archived"}
  /\ L!Commit(a, n, new, IdsOf(cut))
  /\ new \subseteq RevisionLinks(k, o, status, n)
  /\ FreshLinks(n, new)
  /\ L!Link(clock + 3, "Updates", o, clock + 1) \in new
  /\ status = "active" => L!Link(clock + 2, "All", k, clock + 1) \in new /\ cut = {} /\ L!Found(a, o)
  /\ status = "archived" =>
       /\ L!Link(clock + 2, "Archived", L!Archived(k), clock + 1) \in new
       /\ L!LatestRecord(a, o) # {}
       /\ LET places == L!To(L!GetLinks(a, "Active", L!Active(k)), L!LatestId(a, o))
          IN  cut \subseteq places /\ (cut = {} => places = {})
  /\ records' = records \cup {L!Record(clock + 1, k, o, a, status)}

\* What a deletion takes of o.
OfListing(l, o) ==
  \/ l.type \in {"Updates", "Creator", "Organization", "Tag"} /\ l.base = o
  \/ l.type \in {"UserListings", "OrganizationListings"} /\ l.target = o

Deletes(a, o, cut) ==
  /\ L!Found(a, o)
  /\ L!Commit(a, 0, {}, IdsOf(cut) \cup {o})
  /\ cut \subseteq links /\ \A l \in cut : OfListing(l, o)
  /\ \A type \in {"Updates", "Tag", "Creator", "Organization"} : L!GetLinks(a, type, o) \subseteq cut
  /\ \A l \in L!GetLinks(a, "Creator", o) :
       LET back == L!To(L!GetLinks(a, "UserListings", l.target), o) IN back # {} => back \cap cut # {}
  /\ \A l \in L!GetLinks(a, "Organization", o) :
       LET back == L!To(L!GetLinks(a, "OrganizationListings", l.target), o) IN back # {} => back \cap cut # {}
  /\ records' = records

\* Links and records have ids of their own.
Apart ==
  /\ \A r, s \in records : r.id = s.id => r = s
  /\ \A l \in links, r \in records : l.id # r.id

LEMMA RecordOfIt ==
  ASSUME Apart, NEW r \in records
  PROVE  L!RecordOf(r.id) = r
BY DEF Apart, L!RecordOf

\* One link for each tag, each with an id of its own.
LEMMA TagLinksAreFresh ==
  ASSUME IsFiniteSet(Tags), NEW ts \in SUBSET Tags, NEW i \in Nat, NEW x, NEW f \in L!TagLinks(i, x, ts)
  PROVE  /\ Cardinality(ts) \in Nat
         /\ {f[t] : t \in ts} \subseteq [id : i .. i + Cardinality(ts) - 1, type : {"Tag"}, base : {x}, target : Tags]
         /\ \A l, m \in {f[t] : t \in ts} : l.id = m.id => l = m
<1>1. Cardinality(ts) \in Nat
  BY FS_Subset, FS_CardinalityType
<1>2. ASSUME NEW t \in ts
      PROVE  f[t] \in [id : i .. i + Cardinality(ts) - 1, type : {"Tag"}, base : {x}, target : Tags]
  <2>1. f[t] \in {L!Link(i + n, "Tag", x, u) : n \in 0 .. Cardinality(ts) - 1, u \in ts}
    BY LCardinality DEF L!TagLinks
  <2>2. PICK n \in 0 .. Cardinality(ts) - 1, u \in ts : f[t] = L!Link(i + n, "Tag", x, u)
    BY <2>1
  <2>3. i + n \in i .. i + Cardinality(ts) - 1
    BY <1>1, <2>2
  <2> QED BY <2>2, <2>3 DEF L!Link
<1>3. \A t, u \in ts : f[t].id = f[u].id => t = u
  BY DEF L!TagLinks
<1> QED BY <1>1, <1>2, <1>3

LEMMA CreateCreates ==
  ASSUME L!ListingsAssumption, L!TypeOK, NEW a \in Agents, NEW k \in Kinds,
         NEW gs \in SUBSET Orgs, NEW ts \in SUBSET Tags, Cardinality(gs) <= 1, L!Create(a, k, gs, ts)
  PROVE  \E n, new : Creates(a, k, n, new)
<1> DEFINE o == clock + 1
           c == L!Cardinality(gs)
           n == 4 + 2 * c
           size == n + L!Cardinality(ts)
<1>1. clock \in Nat /\ c \in Nat
  BY FS_Subset, FS_CardinalityType, LCardinality DEF L!ListingsAssumption, L!TypeOK, L!DhtTypeOK
<1>2. PICK f \in L!TagLinks(clock + n + 1, o, ts) :
        /\ L!Commit(a, size,
                  {L!Link(clock + 2, "Active", L!Active(k), o),
                   L!Link(clock + 3, "UserListings", a, o),
                   L!Link(clock + 4, "Creator", o, a)}
                  \cup {L!Link(clock + 5, "OrganizationListings", g, o) : g \in gs}
                  \cup {L!Link(clock + 6, "Organization", o, g) : g \in gs}
                  \cup {f[t] : t \in ts}, {})
        /\ records' = records \cup {L!Record(o, k, o, a, "active")}
  BY DEF L!Create
<1>3. PICK tags : tags = {f[t] : t \in ts}
  OBVIOUS
<1>4. PICK own : own = {L!Link(clock + 2, "Active", L!Active(k), o), L!Link(clock + 3, "UserListings", a, o),
                        L!Link(clock + 4, "Creator", o, a)}
  OBVIOUS
<1>5. PICK there, back : /\ there = {L!Link(clock + 5, "OrganizationListings", g, o) : g \in gs}
                         /\ back = {L!Link(clock + 6, "Organization", o, g) : g \in gs}
  OBVIOUS
<1>6. PICK new : new = own \cup there \cup back \cup tags
  OBVIOUS
<1>7. /\ L!Cardinality(ts) = Cardinality(ts) /\ Cardinality(ts) \in Nat
      /\ tags \subseteq [id : clock + n + 1 .. clock + n + Cardinality(ts), type : {"Tag"}, base : {o}, target : Tags]
      /\ \A l, m \in tags : l.id = m.id => l = m
  <2>1. clock + n + 1 \in Nat /\ IsFiniteSet(Tags)
    BY <1>1, LCardinality DEF L!ListingsAssumption
  <2>2. /\ Cardinality(ts) \in Nat
        /\ tags \subseteq [id : clock + n + 1 .. clock + n + 1 + Cardinality(ts) - 1, type : {"Tag"}, base : {o}, target : Tags]
        /\ \A l, m \in tags : l.id = m.id => l = m
    BY <1>2, <1>3, <2>1, TagLinksAreFresh
  <2>3. clock + n + 1 + Cardinality(ts) - 1 = clock + n + Cardinality(ts)
    BY <1>1, <2>2
  <2> QED BY <2>2, <2>3, LCardinality
<1>8. c = 0 \/ c = 1
  BY <1>1, LCardinality
<1>9. \A g, h \in gs : g = h
  <2>1. CASE c = 0
    BY <2>1, FS_EmptySet, FS_Subset, LCardinality DEF L!ListingsAssumption
  <2>2. CASE c = 1
    <3>1. PICK x : gs = {x}
      BY <2>2, FS_Singleton, FS_Subset, LCardinality DEF L!ListingsAssumption
    <3> QED BY <3>1
  <2> QED BY <1>8, <2>1, <2>2
<1>10. c = 0 => gs = {}
  BY FS_EmptySet, FS_Subset, LCardinality DEF L!ListingsAssumption
<1>11. L!Commit(a, size, new, {}) /\ size \in Nat /\ size >= 4
  BY <1>1, <1>2, <1>3, <1>4, <1>5, <1>6, <1>7
<1>12. /\ \A l \in own : l.id \in {clock + 2, clock + 3, clock + 4}
       /\ \A l, m \in own : l.id = m.id => l = m
       /\ own \subseteq FirstLinks(a, k, o, size)
  <2>1. /\ clock + 2 = o + 1 /\ clock + 3 = o + 2 /\ clock + 4 = o + 3
    BY <1>1
  <2> QED BY <1>1, <1>4, <2>1 DEF L!Link, FirstLinks
<1>13. /\ \A l \in there : l.id = clock + 5
       /\ \A l, m \in there : l = m
       /\ there \subseteq FirstLinks(a, k, o, size)
  <2>1. clock + 5 = o + 4
    BY <1>1
  <2> QED BY <1>5, <1>9, <2>1 DEF L!Link, FirstLinks
<1>14. /\ \A l \in back : l.id = clock + 6
       /\ \A l, m \in back : l = m
       /\ back \subseteq FirstLinks(a, k, o, size)
  <2>1. clock + 6 = o + 5
    BY <1>1
  <2> QED BY <1>5, <1>9, <2>1 DEF L!Link, FirstLinks
<1>15. \A l \in there \cup back : n = 6
  BY <1>5, <1>8, <1>10
<1>16. /\ \A l \in tags : l.id \in clock + n + 1 .. clock + size
       /\ there # {} => \A l \in tags : l.id > clock + 6
       /\ \A l \in tags : l.id > clock + 4
  BY <1>1, <1>7, <1>8, <1>15
<1>17. tags \subseteq FirstLinks(a, k, o, size)
  <2>1. clock + n + 1 .. clock + n + Cardinality(ts) \subseteq o + 4 .. o + size
    BY <1>1, <1>7, <1>8
  <2> QED BY <1>7, <2>1 DEF FirstLinks
<1>18. FreshLinks(size, new)
  <2>1. \A l \in new : l.id \in clock + 1 .. clock + size
    <3>1. \A l \in own : l.id \in clock + 1 .. clock + size
      BY <1>1, <1>11, <1>12
    <3>2. \A l \in there \cup back : l.id \in clock + 1 .. clock + size
      BY <1>1, <1>7, <1>13, <1>14, <1>15
    <3>3. \A l \in tags : l.id \in clock + 1 .. clock + size
      BY <1>1, <1>7, <1>8, <1>16
    <3> QED BY <1>6, <3>1, <3>2, <3>3
  <2>2. /\ \A l \in own, m \in there \cup back \cup tags : l.id # m.id
        /\ \A l \in there, m \in back \cup tags : l.id # m.id
        /\ \A l \in back, m \in tags : l.id # m.id
    <3>1. \A l \in own, m \in there \cup back : l.id # m.id
      BY <1>1, <1>12, <1>13, <1>14
    <3>2. \A l \in own, m \in tags : l.id # m.id
      BY <1>1, <1>7, <1>12, <1>16
    <3>3. \A l \in there, m \in back : l.id # m.id
      BY <1>1, <1>13, <1>14
    <3>4. \A l \in there \cup back, m \in tags : l.id # m.id
      BY <1>1, <1>7, <1>13, <1>14, <1>15, <1>16
    <3> QED BY <3>1, <3>2, <3>3, <3>4
  <2> QED BY <1>6, <1>7, <1>12, <1>13, <1>14, <2>1, <2>2 DEF FreshLinks
<1>19. \A l \in new : l.type = "OrganizationListings" => L!Link(clock + 6, "Organization", o, l.base) \in new
  <2>1. \A l \in own \cup back \cup tags : l.type # "OrganizationListings"
    BY <1>4, <1>5, <1>7 DEF L!Link
  <2>2. \A l \in there : L!Link(clock + 6, "Organization", o, l.base) \in back
    BY <1>5 DEF L!Link
  <2> QED BY <1>6, <2>1, <2>2
<1>20. own \subseteq new /\ clock + 2 = o + 1 /\ clock + 3 = o + 2 /\ clock + 4 = o + 3 /\ clock + 6 = o + 5
  BY <1>1, <1>6
<1>21. new \subseteq FirstLinks(a, k, o, size)
  BY <1>6, <1>12, <1>13, <1>14, <1>17
<1>22. Creates(a, k, size, new)
  BY <1>2, <1>4, <1>11, <1>18, <1>19, <1>20, <1>21 DEF Creates
<1> QED BY <1>22

\* The links of all listings name revisions, so no edit or deletion of an
\* original finds one to delete.
LEMMA NoneOnAllList ==
  ASSUME L!TypeOK, Apart, NEW r \in L!Originals, NEW a \in Agents, NEW k
  PROVE  L!FirstId(L!To(L!GetLinks(a, "All", k), r.id)) = {{}}
<1>1. ASSUME NEW l \in links, l.type = "All", l.target = r.id PROVE FALSE
  <2>1. l.target \in {s.id : s \in L!Revisions}
    BY <1>1 DEF L!TypeOK, L!LinkType
  <2>2. PICK s \in L!Revisions : s.id = r.id
    BY <1>1, <2>1
  <2> QED BY <2>2 DEF Apart, L!Revisions, L!Originals
<1>2. L!To(L!GetLinks(a, "All", k), r.id) = {}
  BY <1>1 DEF L!To, L!GetLinks
<1> QED BY <1>2 DEF L!FirstId

LEMMA UpdateRevises ==
  ASSUME L!ListingsAssumption, L!TypeOK, Apart, NEW a \in Agents, NEW k, NEW r \in L!Originals,
         NEW ts \in SUBSET Tags, L!Update(a, k, r.id, ts)
  PROVE  k = r.kind /\ \E n, new : Revises(a, k, r.id, "active", n, new, {})
<1> DEFINE o == r.id
           size == 3 + Cardinality(ts)
<1>1. clock \in Nat /\ r \in records /\ L!RecordOf(o) = r /\ IsFiniteSet(Tags)
  BY RecordOfIt, LCardinality DEF L!TypeOK, L!DhtTypeOK, L!Originals, L!ListingsAssumption
<1>2. k = r.kind /\ L!Found(a, o)
  BY <1>1 DEF L!Update
<1>3. PICK f \in L!TagLinks(clock + 4, clock + 1, ts), all \in L!FirstId(L!To(L!GetLinks(a, "All", k), o)) :
        L!Commit(a, size, {L!Link(clock + 2, "All", k, clock + 1), L!Link(clock + 3, "Updates", o, clock + 1)}
                        \cup {f[t] : t \in ts}, all)
  BY LCardinality DEF L!Update
<1>4. all = {}
  BY <1>3, NoneOnAllList
<1>5. records' = records \cup {L!Record(clock + 1, k, o, a, "active")}
  BY <1>1, <1>2 DEF L!Update, L!Revised
<1>6. PICK tags : tags = {f[t] : t \in ts}
  OBVIOUS
<1>7. PICK own : own = {L!Link(clock + 2, "All", k, clock + 1), L!Link(clock + 3, "Updates", o, clock + 1)}
  OBVIOUS
<1>8. PICK new : new = own \cup tags
  OBVIOUS
<1>9. /\ Cardinality(ts) \in Nat
      /\ tags \subseteq [id : clock + 4 .. clock + size, type : {"Tag"}, base : {clock + 1}, target : Tags]
      /\ \A l, m \in tags : l.id = m.id => l = m
  <2>1. clock + 4 \in Nat
    BY <1>1
  <2>2. /\ Cardinality(ts) \in Nat
        /\ tags \subseteq [id : clock + 4 .. clock + 4 + Cardinality(ts) - 1, type : {"Tag"}, base : {clock + 1}, target : Tags]
        /\ \A l, m \in tags : l.id = m.id => l = m
    BY <1>1, <1>3, <1>6, <2>1, TagLinksAreFresh
  <2>3. clock + 4 + Cardinality(ts) - 1 = clock + size
    BY <1>1, <2>2
  <2> QED BY <2>2, <2>3
<1>10. L!Commit(a, size, new, {}) /\ size \in Nat /\ size >= 3
  BY <1>3, <1>4, <1>6, <1>7, <1>8, <1>9
<1>11. FreshLinks(size, new)
  <2>1. /\ \A l \in own : l.id \in {clock + 2, clock + 3}
        /\ \A l, m \in own : l.id = m.id => l = m
    BY <1>1, <1>7 DEF L!Link
  <2>2. \A l \in tags : l.id \in clock + 4 .. clock + size
    BY <1>9
  <2> QED BY <1>1, <1>8, <1>9, <1>10, <2>1, <2>2 DEF FreshLinks
<1>12. new \subseteq RevisionLinks(k, o, "active", size)
  <2>1. own \subseteq RevisionLinks(k, o, "active", size)
    BY <1>7 DEF RevisionLinks, L!Link
  <2>2. tags \subseteq RevisionLinks(k, o, "active", size)
    BY <1>9 DEF RevisionLinks
  <2> QED BY <1>8, <2>1, <2>2
<1>13. own \subseteq new
  BY <1>8
<1>14. IdsOf({}) = {}
  BY DEF IdsOf
<1>15. Revises(a, k, o, "active", size, new, {})
  BY <1>2, <1>5, <1>7, <1>10, <1>11, <1>12, <1>13, <1>14 DEF Revises
<1> QED BY <1>2, <1>15

\* A read that takes the first of some links takes one of them, if there is one.
LEMMA FirstIdIsOfOne ==
  ASSUME NEW ls, NEW ids \in L!FirstId(ls)
  PROVE  \E cut \in SUBSET ls : ids = IdsOf(cut) /\ (cut = {} => ls = {})
<1>1. CASE ls = {}
  <2>1. ids = {} /\ IdsOf({}) = {}
    BY <1>1 DEF L!FirstId, IdsOf
  <2> QED BY <1>1, <2>1
<1>2. CASE ls # {}
  <2>1. PICK l \in ls : ids = {l.id}
    BY <1>2 DEF L!FirstId
  <2>2. PICK cut : cut = {l}
    OBVIOUS
  <2>3. cut \subseteq ls /\ ids = IdsOf(cut) /\ cut # {}
    BY <2>1, <2>2 DEF IdsOf
  <2> QED BY <2>3
<1> QED BY <1>1, <1>2

LEMMA ArchiveRevises ==
  ASSUME L!ListingsAssumption, L!TypeOK, Apart, NEW a \in Agents, NEW k, NEW r \in L!Originals,
         L!Archive(a, k, r.id)
  PROVE  k = r.kind /\ \E n, new, cut : Revises(a, k, r.id, "archived", n, new, cut)
<1> DEFINE o == r.id
           places == L!To(L!GetLinks(a, "Active", L!Active(k)), L!LatestId(a, o))
<1>1. clock \in Nat /\ r \in records /\ L!RecordOf(o) = r
  BY RecordOfIt DEF L!TypeOK, L!DhtTypeOK, L!Originals
<1>2. k = r.kind
  BY <1>1 DEF L!Archive
<1>3. PICK s \in L!LatestRecord(a, o) : \E active \in L!FirstId(L!To(L!GetLinks(a, "Active", L!Active(k)), s.id)) :
       /\ L!Commit(a, 3, {L!Link(clock + 2, "Archived", L!Archived(k), clock + 1),
                        L!Link(clock + 3, "Updates", o, clock + 1)}, active)
       /\ L!Revised(o, "archived", a)
  BY DEF L!Archive
<1>4. s.id = L!LatestId(a, o)
  BY <1>3 DEF L!LatestRecord
<1>5. PICK active \in L!FirstId(places) :
        L!Commit(a, 3, {L!Link(clock + 2, "Archived", L!Archived(k), clock + 1),
                      L!Link(clock + 3, "Updates", o, clock + 1)}, active)
  BY <1>3, <1>4
<1>6. PICK cut \in SUBSET places : active = IdsOf(cut) /\ (cut = {} => places = {})
  BY <1>5, FirstIdIsOfOne
<1>7. PICK new : new = {L!Link(clock + 2, "Archived", L!Archived(k), clock + 1), L!Link(clock + 3, "Updates", o, clock + 1)}
  OBVIOUS
<1>8. L!Commit(a, 3, new, IdsOf(cut))
  BY <1>5, <1>6, <1>7
<1>9. FreshLinks(3, new)
  BY <1>1, <1>7 DEF FreshLinks, L!Link
<1>10. new \subseteq RevisionLinks(k, o, "archived", 3)
  BY <1>7 DEF RevisionLinks, L!Link
<1>11. records' = records \cup {L!Record(clock + 1, k, o, a, "archived")}
  BY <1>1, <1>2, <1>3 DEF L!Revised
<1>12. L!LatestRecord(a, o) # {}
  BY <1>3
<1>13. Revises(a, k, o, "archived", 3, new, cut)
  <2> HIDE DEF places
  <2>1. cut \subseteq places /\ (cut = {} => places = {})
    BY <1>6
  <2> QED BY <1>7, <1>8, <1>9, <1>10, <1>11, <1>12, <2>1 DEF Revises, places
<1> QED BY <1>2, <1>13

\* The links of one type from o, and for each one of those back, if there is one.
LEMMA PairsOfCut ==
  ASSUME NEW a \in Agents, NEW o, NEW there, NEW back, NEW ids \in L!PairsOf(a, o, there, back)
  PROVE  \E cut \in SUBSET links :
           /\ ids = IdsOf(cut)
           /\ L!GetLinks(a, there, o) \subseteq cut
           /\ \A m \in cut : m \in L!GetLinks(a, there, o) \/ (m.type = back /\ m.target = o)
           /\ \A l \in L!GetLinks(a, there, o) :
                L!To(L!GetLinks(a, back, l.target), o) # {} => L!To(L!GetLinks(a, back, l.target), o) \cap cut # {}
<1> DEFINE ls == L!GetLinks(a, there, o)
           backOf(l) == L!To(L!GetLinks(a, back, l.target), o)
<1>1. PICK f \in [ls -> UNION {L!FirstId(backOf(l)) : l \in ls}] :
        /\ \A l \in ls : f[l] \in L!FirstId(backOf(l))
        /\ ids = {l.id : l \in ls} \cup UNION {f[l] : l \in ls}
  BY DEF L!PairsOf
<1>2. PICK rest : rest = {m \in links : m.type = back /\ m.target = o /\ \E l \in ls : m \in backOf(l) /\ m.id \in f[l]}
  OBVIOUS
<1>3. PICK cut : cut = ls \cup rest
  OBVIOUS
<1>4. \A l \in ls : \A m \in backOf(l) : m \in links /\ m.type = back /\ m.target = o
  BY DEF L!To, L!GetLinks
<1>5. ASSUME NEW l \in ls PROVE \A i \in f[l] : \E m \in backOf(l) : m.id = i
  <2>1. f[l] \in L!FirstId(backOf(l))
    BY <1>1
  <2>2. CASE backOf(l) = {}
    <3>1. f[l] = {}
      BY <2>1, <2>2 DEF L!FirstId
    <3> QED BY <3>1
  <2>3. CASE backOf(l) # {}
    <3>1. PICK m \in backOf(l) : f[l] = {m.id}
      BY <2>1, <2>3 DEF L!FirstId
    <3> QED BY <3>1
  <2> QED BY <2>2, <2>3
<1>6. IdsOf(rest) = UNION {f[l] : l \in ls}
  <2>1. ASSUME NEW l \in ls, NEW i \in f[l] PROVE i \in IdsOf(rest)
    <3>1. PICK m \in backOf(l) : m.id = i
      BY <1>5
    <3>2. m \in rest
      BY <1>2, <1>4, <3>1
    <3> QED BY <3>1, <3>2 DEF IdsOf
  <2>2. \A m \in rest : \E l \in ls : m.id \in f[l]
    BY <1>2
  <2> QED BY <2>1, <2>2 DEF IdsOf
<1>7. ids = IdsOf(cut)
  BY <1>1, <1>3, <1>6 DEF IdsOf
<1>8. cut \subseteq links /\ ls \subseteq cut
  BY <1>2, <1>3 DEF L!GetLinks
<1>9. \A m \in cut : m \in ls \/ (m.type = back /\ m.target = o)
  BY <1>2, <1>3
<1>10. ASSUME NEW l \in ls, backOf(l) # {} PROVE backOf(l) \cap cut # {}
  <2>1. f[l] \in L!FirstId(backOf(l))
    BY <1>1
  <2>2. PICK m \in backOf(l) : f[l] = {m.id}
    BY <1>10, <2>1 DEF L!FirstId
  <2>3. m \in rest
    BY <1>2, <1>4, <2>2
  <2> QED BY <1>3, <2>3
<1> HIDE DEF backOf
<1>11. \A l \in ls : backOf(l) # {} => backOf(l) \cap cut # {}
  BY <1>10
<1> USE DEF backOf
<1> QED BY <1>7, <1>8, <1>9, <1>11

LEMMA DeleteDeletes ==
  ASSUME L!TypeOK, Apart, NEW a \in Agents, NEW k, NEW r \in L!Originals, L!Delete(a, k, r.id)
  PROVE  \E cut : Deletes(a, r.id, cut)
<1> DEFINE o == r.id
<1>1. PICK all \in L!FirstId(L!To(L!GetLinks(a, "All", k), o)),
           users \in L!PairsOf(a, o, "Creator", "UserListings"),
           byOrg \in L!PairsOf(a, o, "Organization", "OrganizationListings") :
        L!Commit(a, 0, {}, all \cup users \cup byOrg \cup {o}
                         \cup {l.id : l \in L!GetLinks(a, "Tag", o) \cup L!GetLinks(a, "Updates", o)})
  BY DEF L!Delete
<1>2. all = {}
  BY <1>1, NoneOnAllList
<1>3. PICK cu \in SUBSET links :
        /\ users = IdsOf(cu)
        /\ L!GetLinks(a, "Creator", o) \subseteq cu
        /\ \A m \in cu : m \in L!GetLinks(a, "Creator", o) \/ (m.type = "UserListings" /\ m.target = o)
        /\ \A l \in L!GetLinks(a, "Creator", o) :
             L!To(L!GetLinks(a, "UserListings", l.target), o) # {} => L!To(L!GetLinks(a, "UserListings", l.target), o) \cap cu # {}
  BY <1>1, PairsOfCut
<1>4. PICK cg \in SUBSET links :
        /\ byOrg = IdsOf(cg)
        /\ L!GetLinks(a, "Organization", o) \subseteq cg
        /\ \A m \in cg : m \in L!GetLinks(a, "Organization", o) \/ (m.type = "OrganizationListings" /\ m.target = o)
        /\ \A l \in L!GetLinks(a, "Organization", o) :
             L!To(L!GetLinks(a, "OrganizationListings", l.target), o) # {}
               => L!To(L!GetLinks(a, "OrganizationListings", l.target), o) \cap cg # {}
  BY <1>1, PairsOfCut
<1>5. PICK ct : ct = L!GetLinks(a, "Tag", o) \cup L!GetLinks(a, "Updates", o)
  OBVIOUS
<1>6. PICK cut : cut = cu \cup cg \cup ct
  OBVIOUS
<1>7. L!Commit(a, 0, {}, IdsOf(cut) \cup {o})
  <2>1. IdsOf(cut) = users \cup byOrg \cup IdsOf(ct)
    BY <1>3, <1>4, <1>6 DEF IdsOf
  <2>2. IdsOf(ct) = {l.id : l \in L!GetLinks(a, "Tag", o) \cup L!GetLinks(a, "Updates", o)}
    BY <1>5 DEF IdsOf
  <2>3. all \cup users \cup byOrg \cup {o} \cup {l.id : l \in L!GetLinks(a, "Tag", o) \cup L!GetLinks(a, "Updates", o)}
          = IdsOf(cut) \cup {o}
    BY <1>2, <2>1, <2>2
  <2> QED BY <1>1, <2>3
<1>8. cut \subseteq links /\ \A l \in cut : OfListing(l, o)
  <2>1. ct \subseteq links /\ \A l \in ct : OfListing(l, o)
    BY <1>5 DEF L!GetLinks, OfListing
  <2>2. \A l \in cu \cup cg : OfListing(l, o)
    BY <1>3, <1>4 DEF L!GetLinks, OfListing
  <2> QED BY <1>3, <1>4, <1>6, <2>1, <2>2
<1>9. L!Found(a, o) /\ records' = records
  BY DEF L!Delete
<1>10. \A type \in {"Updates", "Tag", "Creator", "Organization"} : L!GetLinks(a, type, o) \subseteq cut
  BY <1>3, <1>4, <1>5, <1>6
<1>11. /\ \A l \in L!GetLinks(a, "Creator", o) :
            L!To(L!GetLinks(a, "UserListings", l.target), o) # {} => L!To(L!GetLinks(a, "UserListings", l.target), o) \cap cut # {}
       /\ \A l \in L!GetLinks(a, "Organization", o) :
            L!To(L!GetLinks(a, "OrganizationListings", l.target), o) # {}
              => L!To(L!GetLinks(a, "OrganizationListings", l.target), o) \cap cut # {}
  BY <1>3, <1>4, <1>6
<1>12. Deletes(a, o, cut)
  BY <1>7, <1>8, <1>9, <1>10, <1>11 DEF Deletes
<1> QED BY <1>12

-----------------------------------------------------------------------------
(* What holds whatever overlaps. *)

\* An update link is made with the revision it names, after the original, and
\* every revision has one.
Revisable ==
  /\ \A l \in links : l.type = "Updates" =>
       /\ l.base < l.target /\ l.target + 2 = l.id
       /\ \A r \in records : r.id = l.target => r.original = l.base
  /\ \A r \in L!Revisions : \E l \in links : l.type = "Updates" /\ l.base = r.original /\ l.target = r.id

\* A revision is active and on the list of all listings, or archived and on the
\* archived list.
Placed ==
  /\ \A r \in L!Originals : r.status = "active"
  /\ \A r \in L!Revisions :
       /\ r.status = "active" => \E l \in links : l.type = "All" /\ l.target = r.id
       /\ r.status = "archived" =>
            \E l \in links : l.type = "Archived" /\ l.base = L!Archived(r.kind) /\ l.target = r.id
  /\ \A l \in links, r \in records : l.target = r.id =>
       /\ l.type = "Active" => l.base = L!Active(r.kind)
       /\ l.type = "Archived" => r.status = "archived" /\ l.base = L!Archived(r.kind)
       /\ l.type = "All" => r.status = "active"

\* A listing has its author, and each place it was given is its only one.
Owned ==
  /\ \A r \in L!Originals : \E c, u \in links :
       /\ c.type = "Creator" /\ c.base = r.id /\ c.target = r.author
       /\ u.type = "UserListings" /\ u.base = r.author /\ u.target = r.id
  /\ \A l \in links : l.type = "OrganizationListings" =>
       \E m \in links : m.type = "Organization" /\ m.base = l.target /\ m.target = l.base
  /\ \A l, m \in links :
       (l.type = m.type /\ l.type \in {"Active", "UserListings", "OrganizationListings"} /\ l.target = m.target)
         => l = m

\* Only a place on the active list goes while its listing lives, and no revision
\* ever goes.
Lasting ==
  /\ \A l \in links : l.id \in dead => l.type = "Active" \/ \E o \in dead : OfListing(l, o)
  /\ \A r \in L!Revisions : r.id \notin dead

ListingsInv == L!TypeOK /\ Apart /\ Revisable /\ Placed /\ Owned /\ Lasting

\* The table after a call.
LEMMA TableAfter ==
  ASSUME L!DhtTypeOK, NEW a \in Agents, NEW n \in Nat, NEW new, NEW del,
         FreshLinks(n, new), del \subseteq L!Ids, L!Commit(a, n, new, del)
  PROVE  /\ L!DhtTypeOK'
         /\ clock' = clock + n /\ L!Ids \subseteq L!Ids' /\ clock + 1 .. clock + n \subseteq L!Ids'
         /\ links' = links \cup new /\ dead' = dead \cup del
         /\ \A b \in Agents : seen[b] \subseteq seen'[b]
         /\ \A l \in new : l.id \in clock + 1 .. clock + n /\ l.id \notin dead'
         /\ clock + 1 \notin dead'
         /\ serial' => serial /\ L!UpToDate(a)
<1>1. L!DhtTypeOK'
  BY LCommitKeepsTable
<1>2. clock' = clock + n /\ L!Ids \subseteq L!Ids' /\ clock + 1 .. clock + n \subseteq L!Ids'
  BY DEF L!DhtTypeOK, L!Commit, L!Publish, L!Ids
<1>3. links' = links \cup new /\ dead' = dead \cup del
  BY DEF L!Commit, L!Publish
<1>4. \A b \in Agents : seen[b] \subseteq seen'[b]
  BY DEF L!DhtTypeOK, L!Commit, L!Publish
<1>5. \A l \in new : l.id \in clock + 1 .. clock + n /\ l.id \notin dead'
  BY <1>3 DEF FreshLinks, L!DhtTypeOK, L!Ids
<1>6. clock + 1 \notin dead'
  BY <1>3 DEF L!DhtTypeOK, L!Ids
<1>7. serial' => serial /\ L!UpToDate(a)
  BY DEF L!Commit
<1> QED BY <1>1, <1>2, <1>3, <1>4, <1>5, <1>6, <1>7

\* Ids a call has not given out yet are nobody's.
LEMMA NotYetGiven ==
  ASSUME L!TypeOK
  PROVE  /\ clock \in Nat
         /\ \A r \in records : r.id \in 1 .. clock /\ r.original \in 1 .. clock
         /\ \A l \in links : /\ l.id \in 1 .. clock
                             /\ l.type \in {"Active", "Archived", "All", "Updates", "UserListings",
                                            "OrganizationListings"} => l.target \in 1 .. clock
                             /\ l.type \in {"Updates", "Creator", "Organization", "Tag"} => l.base \in 1 .. clock
<1>1. \A r \in records : r.id \in 1 .. clock /\ r.original \in 1 .. clock
  BY DEF L!TypeOK, L!Ids
<1>2. \A r \in L!Originals \cup L!Revisions : r.id \in 1 .. clock
  BY <1>1 DEF L!Originals, L!Revisions
<1>3. clock \in Nat /\ \A l \in links : l.id \in 1 .. clock
  BY DEF L!TypeOK, L!DhtTypeOK, L!Ids
<1>4. \A l \in L!LinkType : /\ l.type \in {"Active", "Archived", "All", "Updates", "UserListings",
                                              "OrganizationListings"} => l.target \in 1 .. clock
                            /\ l.type \in {"Updates", "Creator", "Organization", "Tag"} => l.base \in 1 .. clock
  BY <1>1, <1>2 DEF L!LinkType
<1> QED BY <1>1, <1>3, <1>4 DEF L!TypeOK

LEMMA CreateKeepsListings ==
  ASSUME ListingsInv, NEW a \in Agents, NEW k, NEW n, NEW new, Creates(a, k, n, new)
  PROVE  ListingsInv'
<1> DEFINE o == clock + 1
           rec == L!Record(o, k, o, a, "active")
<1>1. /\ n \in Nat /\ n >= 4 /\ k \in Kinds /\ clock \in Nat /\ L!DhtTypeOK
      /\ L!Commit(a, n, new, {}) /\ FreshLinks(n, new) /\ new \subseteq FirstLinks(a, k, o, n)
      /\ records' = records \cup {rec}
  BY DEF Creates, ListingsInv, L!TypeOK, L!DhtTypeOK
<1>2. /\ L!DhtTypeOK'
      /\ clock' = clock + n /\ L!Ids \subseteq L!Ids' /\ clock + 1 .. clock + n \subseteq L!Ids'
      /\ links' = links \cup new /\ dead' = dead
      /\ \A l \in new : l.id \in clock + 1 .. clock + n /\ l.id \notin dead'
      /\ clock + 1 \notin dead'
  <2>1. PICK del : del = {}
    OBVIOUS
  <2>2. L!Commit(a, n, new, del) /\ del \subseteq L!Ids
    BY <1>1, <2>1
  <2>3. /\ L!DhtTypeOK'
        /\ clock' = clock + n /\ L!Ids \subseteq L!Ids' /\ clock + 1 .. clock + n \subseteq L!Ids'
        /\ links' = links \cup new /\ dead' = dead \cup del
        /\ \A l \in new : l.id \in clock + 1 .. clock + n /\ l.id \notin dead'
        /\ clock + 1 \notin dead'
    BY <1>1, <2>2, TableAfter
  <2> QED BY <2>1, <2>3
<1>3. /\ \A r \in records : r.id \in 1 .. clock /\ r.original \in 1 .. clock
      /\ \A l \in links : /\ l.id \in 1 .. clock
                          /\ l.type \in {"Active", "Archived", "All", "Updates", "UserListings",
                                         "OrganizationListings"} => l.target \in 1 .. clock
                          /\ l.type \in {"Updates", "Creator", "Organization", "Tag"} => l.base \in 1 .. clock
  BY NotYetGiven DEF ListingsInv
<1>4. rec.id = o /\ rec.kind = k /\ rec.original = o /\ rec.author = a /\ rec.status = "active"
  BY DEF L!Record
<1>5. L!Originals' = L!Originals \cup {rec} /\ L!Revisions' = L!Revisions
  BY <1>1, <1>3, <1>4 DEF L!Originals, L!Revisions
<1>6. \A l \in new :
        /\ l.type \in {"Active", "UserListings", "Creator", "OrganizationListings", "Organization", "Tag"}
        /\ l.type \in {"Active", "UserListings", "OrganizationListings"} => l.target = o
        /\ l.type \in {"Creator", "Organization", "Tag"} => l.base = o
        /\ l.type = "Active" => l.base = L!Active(k) /\ l.id = o + 1
        /\ l.type = "UserListings" => l.id = o + 2
        /\ l.type = "OrganizationListings" => l.id = o + 4
        /\ l.id > o
  BY <1>1 DEF FirstLinks
<1>7. L!TypeOK'
  <2>1. records' \subseteq [id : L!Ids', kind : Kinds, original : L!Ids', author : Agents, status : {"active", "archived"}]
    <3>1. o \in L!Ids'
      BY <1>1, <1>2
    <3>2. rec \in [id : L!Ids', kind : Kinds, original : L!Ids', author : Agents, status : {"active", "archived"}]
      BY <1>1, <3>1 DEF L!Record
    <3> QED BY <1>1, <1>2, <3>2 DEF ListingsInv, L!TypeOK
  <2>2. \A r \in records' : \E q \in L!Originals' : r.original = q.id /\ r.kind = q.kind
    BY <1>1, <1>4, <1>5 DEF ListingsInv, L!TypeOK
  <2>3. L!LinkType \subseteq L!LinkType'
    BY <1>1, <1>5 DEF L!LinkType
  <2>4. new \subseteq L!LinkType'
    <3>1. \A l \in new : l.id \in Nat
      BY <1>1, <1>2
    <3>2. o \in {r.id : r \in L!Originals'} /\ o \in {r.id : r \in records'} /\ L!Active(k) \in {L!Active(j) : j \in Kinds}
      BY <1>1, <1>4, <1>5
    <3> QED BY <1>1, <3>1, <3>2 DEF FirstLinks, L!LinkType
  <2> QED BY <1>2, <2>1, <2>2, <2>3, <2>4 DEF ListingsInv, L!TypeOK
<1>8. Apart'
  <2>1. \A r, s \in records' : r.id = s.id => r = s
    BY <1>1, <1>3, <1>4 DEF ListingsInv, Apart
  <2>2. \A l \in links', r \in records' : l.id # r.id
    BY <1>1, <1>2, <1>3, <1>4, <1>6 DEF ListingsInv, Apart
  <2> QED BY <2>1, <2>2 DEF Apart
<1>9. Revisable'
  <2>1. ASSUME NEW l \in links', l.type = "Updates"
        PROVE  /\ l.base < l.target /\ l.target + 2 = l.id
               /\ \A r \in records' : r.id = l.target => r.original = l.base
    <3>1. l \in links
      BY <1>2, <1>6, <2>1
    <3>2. l.target # o
      BY <1>1, <1>3, <2>1, <3>1
    <3> QED BY <1>1, <1>4, <2>1, <3>1, <3>2 DEF ListingsInv, Revisable
  <2>2. \A r \in L!Revisions' : \E l \in links' : l.type = "Updates" /\ l.base = r.original /\ l.target = r.id
    BY <1>2, <1>5 DEF ListingsInv, Revisable
  <2> QED BY <2>1, <2>2 DEF Revisable
<1>10. Placed'
  <2>1. \A r \in L!Originals' : r.status = "active"
    BY <1>4, <1>5 DEF ListingsInv, Placed
  <2>2. \A r \in L!Revisions' :
          /\ r.status = "active" => \E l \in links' : l.type = "All" /\ l.target = r.id
          /\ r.status = "archived" =>
               \E l \in links' : l.type = "Archived" /\ l.base = L!Archived(r.kind) /\ l.target = r.id
    BY <1>2, <1>5 DEF ListingsInv, Placed
  <2>3. ASSUME NEW l \in links', NEW r \in records', l.target = r.id
        PROVE  /\ l.type = "Active" => l.base = L!Active(r.kind)
               /\ l.type = "Archived" => r.status = "archived" /\ l.base = L!Archived(r.kind)
               /\ l.type = "All" => r.status = "active"
    <3>1. CASE l \in links /\ r \in records
      BY <2>3, <3>1 DEF ListingsInv, Placed
    <3>2. CASE l \in links /\ r = rec
      BY <1>1, <1>3, <1>4, <2>3, <3>2
    <3>3. CASE l \in new /\ r \in records
      BY <1>1, <1>3, <1>6, <2>3, <3>3
    <3>4. CASE l \in new /\ r = rec
      BY <1>4, <1>6, <2>3, <3>4
    <3> QED BY <1>1, <1>2, <3>1, <3>2, <3>3, <3>4
  <2> QED BY <2>1, <2>2, <2>3 DEF Placed
<1>11. Owned'
  <2>1. ASSUME NEW r \in L!Originals'
        PROVE  \E c, u \in links' : /\ c.type = "Creator" /\ c.base = r.id /\ c.target = r.author
                                    /\ u.type = "UserListings" /\ u.base = r.author /\ u.target = r.id
    <3>1. CASE r \in L!Originals
      <4>1. \E c, u \in links : /\ c.type = "Creator" /\ c.base = r.id /\ c.target = r.author
                                /\ u.type = "UserListings" /\ u.base = r.author /\ u.target = r.id
        BY <3>1 DEF ListingsInv, Owned
      <4> QED BY <1>2, <4>1
    <3>2. CASE r = rec
      <4>1. PICK c, u : c = L!Link(o + 3, "Creator", o, a) /\ u = L!Link(o + 2, "UserListings", a, o)
        OBVIOUS
      <4>2. c \in links' /\ u \in links'
        BY <1>2, <4>1 DEF Creates
      <4> QED BY <1>4, <3>2, <4>1, <4>2 DEF L!Link
    <3> QED BY <1>5, <3>1, <3>2
  <2>2. ASSUME NEW l \in links', l.type = "OrganizationListings"
        PROVE  \E m \in links' : m.type = "Organization" /\ m.base = l.target /\ m.target = l.base
    <3>1. CASE l \in links
      BY <1>2, <2>2, <3>1 DEF ListingsInv, Owned
    <3>2. CASE l \in new
      <4>1. PICK m : m = L!Link(o + 5, "Organization", o, l.base)
        OBVIOUS
      <4>2. m \in new
        BY <2>2, <3>2, <4>1 DEF Creates
      <4> QED BY <1>2, <1>6, <2>2, <3>2, <4>1, <4>2 DEF L!Link
    <3> QED BY <1>2, <3>1, <3>2
  <2>3. ASSUME NEW l \in links', NEW m \in links', l.type = m.type,
               l.type \in {"Active", "UserListings", "OrganizationListings"}, l.target = m.target
        PROVE  l = m
    <3>1. CASE l \in links /\ m \in links
      BY <2>3, <3>1 DEF ListingsInv, Owned
    <3>2. CASE l \in new /\ m \in new
      <4>1. l.id = m.id
        BY <1>6, <2>3, <3>2
      <4> QED BY <1>1, <3>2, <4>1 DEF FreshLinks
    <3>3. CASE l \in links /\ m \in new
      BY <1>1, <1>3, <1>6, <2>3, <3>3
    <3>4. CASE l \in new /\ m \in links
      BY <1>1, <1>3, <1>6, <2>3, <3>4
    <3> QED BY <1>2, <3>1, <3>2, <3>3, <3>4
  <2> QED BY <2>1, <2>2, <2>3 DEF Owned
<1>12. Lasting'
  <2>1. \A l \in links' : l.id \in dead' => l.type = "Active" \/ \E x \in dead' : OfListing(l, x)
    BY <1>2 DEF ListingsInv, Lasting
  <2>2. \A r \in L!Revisions' : r.id \notin dead'
    BY <1>2, <1>5 DEF ListingsInv, Lasting
  <2> QED BY <2>1, <2>2 DEF Lasting
<1> QED BY <1>7, <1>8, <1>9, <1>10, <1>11, <1>12 DEF ListingsInv

LEMMA ReviseKeepsListings ==
  ASSUME ListingsInv, NEW a \in Agents, NEW q \in L!Originals, NEW status, NEW n, NEW new, NEW cut,
         Revises(a, q.kind, q.id, status, n, new, cut)
  PROVE  /\ ListingsInv'
         /\ cut \subseteq links /\ \A l \in cut : l.type = "Active" /\ l.target = L!LatestId(a, q.id)
<1> DEFINE o == q.id
           k == q.kind
           i == clock + 1
           rec == L!Record(i, k, o, a, status)
<1>1. /\ n \in Nat /\ n >= 3 /\ clock \in Nat /\ L!DhtTypeOK
      /\ status \in {"active", "archived"}
      /\ L!Commit(a, n, new, IdsOf(cut)) /\ FreshLinks(n, new) /\ new \subseteq RevisionLinks(k, o, status, n)
      /\ records' = records \cup {rec}
  BY DEF Revises, ListingsInv, L!TypeOK, L!DhtTypeOK
<1>2. cut \subseteq links /\ \A l \in cut : l.type = "Active" /\ l.target = L!LatestId(a, q.id)
  BY DEF Revises, L!To, L!GetLinks
<1>3. /\ \A r \in records : r.id \in 1 .. clock /\ r.original \in 1 .. clock
      /\ \A l \in links : /\ l.id \in 1 .. clock
                          /\ l.type \in {"Active", "Archived", "All", "Updates", "UserListings",
                                         "OrganizationListings"} => l.target \in 1 .. clock
                          /\ l.type \in {"Updates", "Creator", "Organization", "Tag"} => l.base \in 1 .. clock
  BY NotYetGiven DEF ListingsInv
<1>4. IdsOf(cut) \subseteq L!Ids
  BY <1>2, <1>3 DEF IdsOf, L!Ids
<1>5. /\ L!DhtTypeOK'
      /\ clock' = clock + n /\ L!Ids \subseteq L!Ids' /\ clock + 1 .. clock + n \subseteq L!Ids'
      /\ links' = links \cup new /\ dead' = dead \cup IdsOf(cut)
      /\ \A l \in new : l.id \in clock + 1 .. clock + n /\ l.id \notin dead'
      /\ clock + 1 \notin dead'
  BY <1>1, <1>4, TableAfter
<1>6. /\ q \in records /\ q.id = q.original /\ k \in Kinds /\ q.id \in 1 .. clock
  BY <1>3 DEF L!Originals, ListingsInv, L!TypeOK
<1>7. rec.id = i /\ rec.kind = k /\ rec.original = o /\ rec.author = a /\ rec.status = status
  BY DEF L!Record
<1>8. L!Originals' = L!Originals /\ L!Revisions' = L!Revisions \cup {rec}
  BY <1>1, <1>3, <1>6, <1>7 DEF L!Originals, L!Revisions
<1>9. \A l \in new :
        /\ l.type \in {"Updates", "All", "Archived", "Tag"}
        /\ l.type \in {"Updates", "All", "Archived"} => l.target = i
        /\ l.type = "Updates" => l.base = o /\ l.id = i + 2
        /\ l.type = "Archived" => status = "archived" /\ l.base = L!Archived(k)
        /\ l.type = "All" => status = "active"
        /\ l.type = "Tag" => l.base = i
        /\ l.id > i
  BY <1>1 DEF RevisionLinks
<1>10. L!TypeOK'
  <2>1. records' \subseteq [id : L!Ids', kind : Kinds, original : L!Ids', author : Agents, status : {"active", "archived"}]
    <3>1. i \in L!Ids' /\ o \in L!Ids'
      BY <1>1, <1>3, <1>5, <1>6 DEF L!Ids
    <3>2. rec \in [id : L!Ids', kind : Kinds, original : L!Ids', author : Agents, status : {"active", "archived"}]
      BY <1>1, <1>6, <3>1 DEF L!Record
    <3> QED BY <1>1, <1>5, <3>2 DEF ListingsInv, L!TypeOK
  <2>2. \A r \in records' : \E p \in L!Originals' : r.original = p.id /\ r.kind = p.kind
    BY <1>1, <1>7, <1>8 DEF ListingsInv, L!TypeOK
  <2>3. L!LinkType \subseteq L!LinkType'
    BY <1>1, <1>8 DEF L!LinkType
  <2>4. new \subseteq L!LinkType'
    <3>1. \A l \in new : l.id \in Nat
      BY <1>1, <1>5
    <3>2. /\ i \in {r.id : r \in L!Revisions'} /\ i \in {r.id : r \in records'}
          /\ o \in {r.id : r \in L!Originals'} /\ L!Archived(k) \in {L!Archived(j) : j \in Kinds}
      BY <1>1, <1>6, <1>7, <1>8
    <3>3. CASE status = "active"
      BY <1>1, <1>6, <3>1, <3>2, <3>3 DEF RevisionLinks, L!LinkType
    <3>4. CASE status = "archived"
      BY <1>1, <1>6, <3>1, <3>2, <3>4 DEF RevisionLinks, L!LinkType
    <3> QED BY <1>1, <3>3, <3>4
  <2> QED BY <1>5, <2>1, <2>2, <2>3, <2>4 DEF ListingsInv, L!TypeOK
<1>11. Apart'
  <2>1. \A r, s \in records' : r.id = s.id => r = s
    BY <1>1, <1>3, <1>7 DEF ListingsInv, Apart
  <2>2. \A l \in links', r \in records' : l.id # r.id
    BY <1>1, <1>3, <1>5, <1>7, <1>9 DEF ListingsInv, Apart
  <2> QED BY <2>1, <2>2 DEF Apart
<1>12. Revisable'
  <2>1. ASSUME NEW l \in links', l.type = "Updates"
        PROVE  /\ l.base < l.target /\ l.target + 2 = l.id
               /\ \A r \in records' : r.id = l.target => r.original = l.base
    <3>1. CASE l \in links
      <4>1. l.target # i
        BY <1>1, <1>3, <2>1, <3>1
      <4> QED BY <1>1, <1>7, <2>1, <3>1, <4>1 DEF ListingsInv, Revisable
    <3>2. CASE l \in new
      <4>1. \A r \in records : r.id # i
        BY <1>1, <1>3
      <4> QED BY <1>1, <1>6, <1>7, <1>9, <2>1, <3>2, <4>1
    <3> QED BY <1>5, <3>1, <3>2
  <2>2. ASSUME NEW r \in L!Revisions'
        PROVE  \E l \in links' : l.type = "Updates" /\ l.base = r.original /\ l.target = r.id
    <3>1. CASE r \in L!Revisions
      <4>1. \E l \in links : l.type = "Updates" /\ l.base = r.original /\ l.target = r.id
        BY <3>1 DEF ListingsInv, Revisable
      <4> QED BY <1>5, <4>1
    <3>2. CASE r = rec
      <4>1. PICK l : l = L!Link(clock + 3, "Updates", o, i)
        OBVIOUS
      <4>2. l \in links'
        BY <1>5, <4>1 DEF Revises
      <4> QED BY <1>7, <3>2, <4>1, <4>2 DEF L!Link
    <3> QED BY <1>8, <3>1, <3>2
  <2> QED BY <2>1, <2>2 DEF Revisable
<1>13. Placed'
  <2>1. \A r \in L!Originals' : r.status = "active"
    BY <1>8 DEF ListingsInv, Placed
  <2>2. ASSUME NEW r \in L!Revisions'
        PROVE  /\ r.status = "active" => \E l \in links' : l.type = "All" /\ l.target = r.id
               /\ r.status = "archived" =>
                    \E l \in links' : l.type = "Archived" /\ l.base = L!Archived(r.kind) /\ l.target = r.id
    <3>1. CASE r \in L!Revisions
      BY <1>5, <3>1 DEF ListingsInv, Placed
    <3>2. CASE r = rec /\ status = "active"
      <4>1. PICK l : l = L!Link(clock + 2, "All", k, i)
        OBVIOUS
      <4>2. l \in links'
        BY <1>5, <3>2, <4>1 DEF Revises
      <4> QED BY <1>7, <3>2, <4>1, <4>2 DEF L!Link
    <3>3. CASE r = rec /\ status = "archived"
      <4>1. PICK l : l = L!Link(clock + 2, "Archived", L!Archived(k), i)
        OBVIOUS
      <4>2. l \in links'
        BY <1>5, <3>3, <4>1 DEF Revises
      <4> QED BY <1>7, <3>3, <4>1, <4>2 DEF L!Link
    <3> QED BY <1>1, <1>8, <3>1, <3>2, <3>3
  <2>3. ASSUME NEW l \in links', NEW r \in records', l.target = r.id
        PROVE  /\ l.type = "Active" => l.base = L!Active(r.kind)
               /\ l.type = "Archived" => r.status = "archived" /\ l.base = L!Archived(r.kind)
               /\ l.type = "All" => r.status = "active"
    <3>1. CASE l \in links /\ r \in records
      BY <2>3, <3>1 DEF ListingsInv, Placed
    <3>2. CASE l \in links /\ r = rec
      BY <1>1, <1>3, <1>7, <2>3, <3>2
    <3>3. CASE l \in new /\ r \in records
      BY <1>1, <1>3, <1>9, <2>3, <3>3
    <3>4. CASE l \in new /\ r = rec
      BY <1>7, <1>9, <2>3, <3>4
    <3> QED BY <1>1, <1>5, <3>1, <3>2, <3>3, <3>4
  <2> QED BY <2>1, <2>2, <2>3 DEF Placed
<1>14. Owned'
  <2>1. \A l \in new : l.type \notin {"Active", "UserListings", "OrganizationListings"}
    BY <1>9
  <2>2. ASSUME NEW r \in L!Originals'
        PROVE  \E c, u \in links' : /\ c.type = "Creator" /\ c.base = r.id /\ c.target = r.author
                                    /\ u.type = "UserListings" /\ u.base = r.author /\ u.target = r.id
    <3>1. \E c, u \in links : /\ c.type = "Creator" /\ c.base = r.id /\ c.target = r.author
                              /\ u.type = "UserListings" /\ u.base = r.author /\ u.target = r.id
      BY <1>8 DEF ListingsInv, Owned
    <3> QED BY <1>5, <3>1
  <2>3. \A l \in links' : l.type = "OrganizationListings" =>
          \E m \in links' : m.type = "Organization" /\ m.base = l.target /\ m.target = l.base
    BY <1>5, <2>1 DEF ListingsInv, Owned
  <2>4. \A l, m \in links' :
          (l.type = m.type /\ l.type \in {"Active", "UserListings", "OrganizationListings"} /\ l.target = m.target)
            => l = m
    BY <1>5, <2>1 DEF ListingsInv, Owned
  <2> QED BY <2>2, <2>3, <2>4 DEF Owned
<1>15. Lasting'
  <2>1. ASSUME NEW l \in links', l.id \in dead' PROVE l.type = "Active" \/ \E x \in dead' : OfListing(l, x)
    <3>1. l \in links
      BY <1>5, <2>1
    <3>2. CASE l.id \in dead
      BY <1>5, <3>1, <3>2 DEF ListingsInv, Lasting
    <3>3. CASE l.id \in IdsOf(cut)
      <4>1. PICK m \in cut : m.id = l.id
        BY <3>3 DEF IdsOf
      <4>2. m = l
        BY <1>1, <1>2, <3>1, <4>1 DEF L!DhtTypeOK
      <4> QED BY <1>2, <4>1, <4>2
    <3> QED BY <1>5, <2>1, <3>2, <3>3
  <2>2. ASSUME NEW r \in L!Revisions' PROVE r.id \notin dead'
    <3>1. CASE r = rec
      BY <1>5, <1>7, <3>1
    <3>2. CASE r \in L!Revisions
      <4>1. r.id \notin dead /\ r \in records
        BY <3>2 DEF ListingsInv, Lasting, L!Revisions
      <4>2. r.id \notin IdsOf(cut)
        BY <1>2, <4>1 DEF ListingsInv, Apart, IdsOf
      <4> QED BY <1>5, <4>1, <4>2
    <3> QED BY <1>8, <3>1, <3>2
  <2> QED BY <2>1, <2>2 DEF Lasting
<1> QED BY <1>2, <1>10, <1>11, <1>12, <1>13, <1>14, <1>15 DEF ListingsInv

LEMMA DeleteKeepsListings ==
  ASSUME ListingsInv, NEW a \in Agents, NEW q \in L!Originals, NEW cut, Deletes(a, q.id, cut)
  PROVE  /\ ListingsInv'
         /\ links' = links /\ dead' = dead \cup IdsOf(cut) \cup {q.id}
         /\ \A l \in links : l.id \in dead' <=> l.id \in dead \/ l \in cut
         /\ \A r \in records : r.id \in dead' <=> r.id \in dead \/ r = q
<1> DEFINE o == q.id
<1>1. /\ clock \in Nat /\ L!DhtTypeOK /\ cut \subseteq links /\ \A l \in cut : OfListing(l, o)
      /\ L!Commit(a, 0, {}, IdsOf(cut) \cup {o}) /\ records' = records
  BY DEF Deletes, ListingsInv, L!TypeOK, L!DhtTypeOK
<1>2. q \in records /\ o \in L!Ids
  BY DEF ListingsInv, L!TypeOK, L!Originals
<1>3. IdsOf(cut) \cup {o} \subseteq L!Ids
  BY <1>1, <1>2 DEF IdsOf, L!DhtTypeOK
<1>4. /\ L!DhtTypeOK' /\ clock' = clock /\ L!Ids \subseteq L!Ids'
      /\ links' = links /\ dead' = dead \cup IdsOf(cut) \cup {o}
  <2>1. PICK n, new, del : n = 0 /\ new = {} /\ del = IdsOf(cut) \cup {o}
    OBVIOUS
  <2>2. n \in Nat /\ FreshLinks(n, new) /\ L!Commit(a, n, new, del) /\ del \subseteq L!Ids
    BY <1>1, <1>3, <2>1 DEF FreshLinks
  <2>3. /\ L!DhtTypeOK' /\ clock' = clock + n /\ L!Ids \subseteq L!Ids'
        /\ links' = links \cup new /\ dead' = dead \cup del
    BY <1>1, <2>2, TableAfter
  <2> QED BY <1>1, <2>1, <2>3
<1>5. \A l \in links : l.id \in dead' <=> l.id \in dead \/ l \in cut
  <2>1. \A l \in links : l.id # o
    BY <1>2 DEF ListingsInv, Apart
  <2>2. \A l \in links : l.id \in IdsOf(cut) <=> l \in cut
    BY <1>1 DEF IdsOf, L!DhtTypeOK
  <2> QED BY <1>4, <2>1, <2>2
<1>6. \A r \in records : r.id \in dead' <=> r.id \in dead \/ r = q
  <2>1. \A r \in records : r.id \notin IdsOf(cut)
    BY <1>1 DEF ListingsInv, Apart, IdsOf
  <2>2. \A r \in records : r.id = o <=> r = q
    BY <1>2 DEF ListingsInv, Apart
  <2> QED BY <1>4, <2>1, <2>2
<1>7. L!Originals' = L!Originals /\ L!Revisions' = L!Revisions
  BY <1>1 DEF L!Originals, L!Revisions
<1>8. L!TypeOK'
  <2>1. L!LinkType' = L!LinkType
    BY <1>1, <1>7 DEF L!LinkType
  <2> QED BY <1>1, <1>4, <1>7, <2>1 DEF ListingsInv, L!TypeOK
<1>9. Apart'
  BY <1>1, <1>4 DEF ListingsInv, Apart
<1>10. Revisable'
  BY <1>1, <1>4, <1>7 DEF ListingsInv, Revisable
<1>11. Placed'
  BY <1>1, <1>4, <1>7 DEF ListingsInv, Placed
<1>12. Owned'
  BY <1>1, <1>4, <1>7 DEF ListingsInv, Owned
<1>13. Lasting'
  <2>1. ASSUME NEW l \in links', l.id \in dead' PROVE l.type = "Active" \/ \E x \in dead' : OfListing(l, x)
    <3>1. CASE l.id \in dead
      BY <1>4, <3>1 DEF ListingsInv, Lasting
    <3>2. CASE l \in cut
      BY <1>1, <1>4, <3>2
    <3> QED BY <1>4, <1>5, <2>1, <3>1, <3>2
  <2>2. \A r \in L!Revisions : r \in records /\ r # q
    BY DEF L!Revisions
  <2>3. \A r \in L!Revisions' : r.id \notin dead'
    BY <1>6, <1>7, <2>2 DEF ListingsInv, Lasting
  <2> QED BY <2>1, <2>3 DEF Lasting
<1> QED BY <1>4, <1>5, <1>6, <1>8, <1>9, <1>10, <1>11, <1>12, <1>13 DEF ListingsInv

\* Every call makes a listing or a revision of one, or deletes one.
LEMMA CallShapes ==
  ASSUME L!ListingsAssumption, ListingsInv, NEW a \in Agents, L!Call(a)
  PROVE  \/ \E k, n, new : Creates(a, k, n, new)
         \/ \E q \in L!Originals : \E status, n, new, cut : Revises(a, q.kind, q.id, status, n, new, cut)
         \/ \E q \in L!Originals : \E cut : Deletes(a, q.id, cut)
<1> USE DEF ListingsInv
<1>1. CASE \E gs \in SUBSET Orgs, ts \in SUBSET Tags :
             /\ Cardinality(gs) <= 1
             /\ \/ "requests" \in Kinds /\ L!CreateRequest(a, gs, ts)
                \/ "offers" \in Kinds /\ L!CreateOffer(a, gs, ts)
  <2>1. PICK gs \in SUBSET Orgs, ts \in SUBSET Tags, k \in Kinds : Cardinality(gs) <= 1 /\ L!Create(a, k, gs, ts)
    BY <1>1 DEF L!CreateRequest, L!CreateOffer
  <2> QED BY <2>1, CreateCreates
<1>2. CASE \E q \in L!Originals, ts \in SUBSET Tags : L!UpdateRequest(a, q.id, ts) \/ L!UpdateOffer(a, q.id, ts)
  <2>1. PICK q \in L!Originals, ts \in SUBSET Tags, k \in {"requests", "offers"} : L!Update(a, k, q.id, ts)
    BY <1>2 DEF L!UpdateRequest, L!UpdateOffer
  <2>2. PICK n, new : k = q.kind /\ Revises(a, k, q.id, "active", n, new, {})
    BY <2>1, UpdateRevises
  <2> QED BY <2>2
<1>3. CASE \E q \in L!Originals : L!ArchiveRequest(a, q.id) \/ L!ArchiveOffer(a, q.id)
  <2>1. PICK q \in L!Originals, k \in {"requests", "offers"} : L!Archive(a, k, q.id)
    BY <1>3 DEF L!ArchiveRequest, L!ArchiveOffer
  <2>2. PICK n, new, cut : k = q.kind /\ Revises(a, k, q.id, "archived", n, new, cut)
    BY <2>1, ArchiveRevises
  <2> QED BY <2>2
<1>4. CASE \E q \in L!Originals : L!DeleteRequest(a, q.id) \/ L!DeleteOffer(a, q.id)
  <2>1. PICK q \in L!Originals, k \in {"requests", "offers"} : L!Delete(a, k, q.id)
    BY <1>4 DEF L!DeleteRequest, L!DeleteOffer
  <2> QED BY <2>1, DeleteDeletes
<1> QED BY <1>1, <1>2, <1>3, <1>4, LCardinality DEF L!Call

LEMMA GossipKeepsListings ==
  ASSUME ListingsInv, L!Deliver
  PROVE  /\ ListingsInv' /\ UNCHANGED <<clock, links, dead, serial, records>>
         /\ \A b \in Agents : seen[b] \subseteq seen'[b]
<1>1. L!DhtTypeOK' /\ UNCHANGED <<clock, links, dead, serial, records>>
  BY LGossipKeepsTable DEF L!Deliver, ListingsInv, L!TypeOK
<1>2. \A b \in Agents : seen[b] \subseteq seen'[b]
  BY DEF L!Deliver, L!Gossip, L!DeliverCreate, L!DeliverDelete, ListingsInv, L!TypeOK, L!DhtTypeOK
<1>3. L!Originals' = L!Originals /\ L!Revisions' = L!Revisions /\ L!Ids' = L!Ids
  BY <1>1 DEF L!Originals, L!Revisions, L!Ids
<1>4. L!TypeOK'
  <2>1. L!LinkType' = L!LinkType
    BY <1>1, <1>3 DEF L!LinkType
  <2> QED BY <1>1, <1>3, <2>1 DEF ListingsInv, L!TypeOK
<1>5. Apart' /\ Revisable'
  BY <1>1, <1>3 DEF ListingsInv, Apart, Revisable
<1>6. Placed' /\ Owned'
  BY <1>1, <1>3 DEF ListingsInv, Placed, Owned
<1>7. Lasting'
  BY <1>1, <1>3 DEF ListingsInv, Lasting
<1> QED BY <1>1, <1>2, <1>4, <1>5, <1>6, <1>7 DEF ListingsInv

\* A call makes no copy smaller.
LEMMA CopiesGrow ==
  ASSUME ListingsInv, NEW a \in Agents, NEW n, NEW new, NEW del, L!Commit(a, n, new, del)
  PROVE  links \subseteq links' /\ \A b \in Agents : seen[b] \subseteq seen'[b]
BY DEF ListingsInv, L!TypeOK, L!DhtTypeOK, L!Commit, L!Publish

LEMMA NextListings ==
  ASSUME L!ListingsAssumption, ListingsInv, [L!Next]_(L!vars)
  PROVE  ListingsInv' /\ links \subseteq links' /\ \A b \in Agents : seen[b] \subseteq seen'[b]
<1>1. CASE \E a \in Agents : L!Call(a)
  <2>1. PICK a \in Agents : L!Call(a)
    BY <1>1
  <2>2. CASE \E k, n, new : Creates(a, k, n, new)
    <3>1. PICK k, n, new : Creates(a, k, n, new)
      BY <2>2
    <3>2. PICK del : del = {}
      OBVIOUS
    <3>3. L!Commit(a, n, new, del)
      BY <3>1, <3>2 DEF Creates
    <3> QED BY <3>1, <3>3, CreateKeepsListings, CopiesGrow
  <2>3. CASE \E q \in L!Originals : \E status, n, new, cut : Revises(a, q.kind, q.id, status, n, new, cut)
    <3>1. PICK q \in L!Originals : \E status, n, new, cut : Revises(a, q.kind, q.id, status, n, new, cut)
      BY <2>3
    <3>2. PICK status, n, new, cut : Revises(a, q.kind, q.id, status, n, new, cut)
      BY <3>1
    <3>3. PICK del : del = IdsOf(cut)
      OBVIOUS
    <3>4. L!Commit(a, n, new, del)
      BY <3>2, <3>3 DEF Revises
    <3> QED BY <3>2, <3>4, ReviseKeepsListings, CopiesGrow
  <2>4. CASE \E q \in L!Originals : \E cut : Deletes(a, q.id, cut)
    <3>1. PICK q \in L!Originals : \E cut : Deletes(a, q.id, cut)
      BY <2>4
    <3>2. PICK cut : Deletes(a, q.id, cut)
      BY <3>1
    <3>3. PICK n, new, del : n = 0 /\ new = {} /\ del = IdsOf(cut) \cup {q.id}
      OBVIOUS
    <3>4. L!Commit(a, n, new, del)
      BY <3>2, <3>3 DEF Deletes
    <3> QED BY <3>2, <3>4, DeleteKeepsListings, CopiesGrow
  <2> QED BY <2>1, <2>2, <2>3, <2>4, CallShapes
<1>2. CASE L!Deliver
  BY <1>2, GossipKeepsListings
<1>3. CASE UNCHANGED L!vars
  <2>1. UNCHANGED <<clock, links, dead, seen, gone, serial, records>>
    BY <1>3 DEF L!vars, L!dhtVars
  <2>2. L!Originals' = L!Originals /\ L!Revisions' = L!Revisions /\ L!Ids' = L!Ids
    BY <2>1 DEF L!Originals, L!Revisions, L!Ids
  <2>3. L!TypeOK'
    <3>1. L!LinkType' = L!LinkType
      BY <2>1, <2>2 DEF L!LinkType
    <3> QED BY <2>1, <2>2, <3>1 DEF ListingsInv, L!TypeOK, L!DhtTypeOK
  <2>4. Apart' /\ Revisable'
    BY <2>1, <2>2 DEF ListingsInv, Apart, Revisable
  <2>5. Placed' /\ Owned'
    BY <2>1, <2>2 DEF ListingsInv, Placed, Owned
  <2>6. Lasting'
    BY <2>1, <2>2 DEF ListingsInv, Lasting
  <2> QED BY <2>1, <2>3, <2>4, <2>5, <2>6 DEF ListingsInv
<1> QED BY <1>1, <1>2, <1>3 DEF L!Next

LEMMA InitListings == L!Init => ListingsInv
<1> SUFFICES ASSUME L!Init PROVE ListingsInv
  OBVIOUS
<1>1. /\ records = {} /\ links = {} /\ dead = {} /\ clock = 0 /\ serial = TRUE
      /\ seen = [a \in Agents |-> {}] /\ gone = [a \in Agents |-> {}]
  BY DEF L!Init, L!DhtInit
<1>2. L!Originals = {} /\ L!Revisions = {}
  BY <1>1 DEF L!Originals, L!Revisions
<1>3. L!TypeOK
  BY <1>1, <1>2 DEF L!TypeOK, L!DhtTypeOK, L!Ids
<1>4. Apart /\ Revisable
  BY <1>1, <1>2 DEF Apart, Revisable
<1>5. Placed /\ Owned
  BY <1>1, <1>2 DEF Placed, Owned
<1>6. Lasting
  BY <1>1, <1>2 DEF Lasting
<1> QED BY <1>3, <1>4, <1>5, <1>6 DEF ListingsInv

LEMMA ListingsInvariance == L!ListingsAssumption /\ L!Spec => []ListingsInv
<1> SUFFICES ASSUME L!ListingsAssumption PROVE L!Spec => []ListingsInv
  OBVIOUS
<1>1. ListingsInv /\ [L!Next]_(L!vars) => ListingsInv'
  BY NextListings
<1> QED BY <1>1, InitListings, PTL DEF L!Spec

\* Each link uses the hash of its kind: a place on the active list and a
\* user's link name the original, a place on the archived list and one on the
\* list of all name a revision (request.rs:40-120, 400-448, 624-653).
THEOREM ListingsTypes == L!ListingsAssumption /\ L!Spec => []L!TypeOK
<1>1. ListingsInv => L!TypeOK
  BY DEF ListingsInv
<1> QED BY <1>1, ListingsInvariance, PTL

-----------------------------------------------------------------------------
(* The latest revision. *)

\* What an agent takes for the latest: the original, or what its newest link names.
LEMMA LatestOf ==
  ASSUME ListingsInv, NEW a \in Agents, NEW o
  PROVE  \/ L!GetLinks(a, "Updates", o) = {} /\ L!LatestId(a, o) = o
         \/ \E c \in L!GetLinks(a, "Updates", o) :
              L!LatestId(a, o) = c.target /\ \A m \in L!GetLinks(a, "Updates", o) : m.id <= c.id
<1>1. CASE L!GetLinks(a, "Updates", o) = {}
  BY <1>1 DEF L!LatestId
<1>2. CASE L!GetLinks(a, "Updates", o) # {}
  <2>1. PICK c : c = CHOOSE l \in L!GetLinks(a, "Updates", o) : \A m \in L!GetLinks(a, "Updates", o) : m.id <= l.id
    OBVIOUS
  <2>2. L!LatestId(a, o) = c.target
    BY <1>2, <2>1 DEF L!LatestId
  <2>3. PICK U : U = L!GetLinks(a, "Updates", o)
    OBVIOUS
  <2>4. clock \in Nat /\ \A l \in U : l.id \in 1 .. clock
    BY <2>3, NotYetGiven DEF ListingsInv, L!GetLinks
  <2>5. c \in U /\ \A m \in U : m.id <= c.id
    BY <1>2, <2>1, <2>3, <2>4, NewestOfLinks
  <2> QED BY <2>2, <2>3, <2>5
<1> QED BY <1>1, <1>2

LEMMA LatestOfNext ==
  ASSUME ListingsInv', NEW a \in Agents, NEW o
  PROVE  \/ L!GetLinks(a, "Updates", o)' = {} /\ L!LatestId(a, o)' = o
         \/ \E c \in L!GetLinks(a, "Updates", o)' :
              L!LatestId(a, o)' = c.target /\ \A m \in L!GetLinks(a, "Updates", o)' : m.id <= c.id
<1>1. L!LatestId(a, o)' =
        IF L!GetLinks(a, "Updates", o)' = {} THEN o
        ELSE (CHOOSE l \in L!GetLinks(a, "Updates", o)' : \A m \in L!GetLinks(a, "Updates", o)' : m.id <= l.id).target
  BY DEF L!LatestId
<1>2. PICK U : U = L!GetLinks(a, "Updates", o)'
  OBVIOUS
<1>3. PICK c : c = CHOOSE l \in U : \A m \in U : m.id <= l.id
  OBVIOUS
<1>4. CASE U = {}
  BY <1>1, <1>2, <1>4
<1>5. CASE U # {}
  <2>1. L!LatestId(a, o)' = c.target
    BY <1>1, <1>2, <1>3, <1>5
  <2>2. clock' \in Nat /\ \A l \in U : l.id \in 1 .. clock'
    BY <1>2 DEF ListingsInv, L!TypeOK, L!DhtTypeOK, L!Ids, L!GetLinks
  <2>3. c \in U /\ \A m \in U : m.id <= c.id
    BY <1>3, <1>5, <2>2, NewestOfLinks
  <2> QED BY <1>2, <2>1, <2>3
<1> QED BY <1>4, <1>5

\* Whatever the calls overlap with and in whatever order revisions arrive, the
\* revision an agent takes for the latest is never replaced by an older one
\* while the listing lives (request.rs:125-145).
THEOREM NeverGoesBack == L!ListingsAssumption /\ L!Spec => [][L!NeverOlder]_(L!vars)
<1> SUFFICES ASSUME L!ListingsAssumption PROVE L!Spec => [][L!NeverOlder]_(L!vars)
  OBVIOUS
<1>1. ASSUME ListingsInv, [L!Next]_(L!vars), NEW a \in Agents, NEW q \in L!Originals, q.id \notin dead'
      PROVE  L!LatestId(a, q.id)' >= L!LatestId(a, q.id)
  <2> DEFINE o == q.id
             old == L!GetLinks(a, "Updates", o)
             now == L!GetLinks(a, "Updates", o)'
  <2>1. ListingsInv' /\ links \subseteq links' /\ seen[a] \subseteq seen'[a]
    BY <1>1, NextListings
  <2>2. o \in Nat /\ \A l \in old \cup now : l.id \in Nat /\ l.base = o /\ l.type = "Updates"
    <3>1. o \in Nat /\ \A l \in old : l.id \in Nat
      BY <1>1, NotYetGiven DEF ListingsInv, L!GetLinks, L!Originals
    <3>2. \A l \in now : l.id \in Nat
      BY <2>1 DEF ListingsInv, L!TypeOK, L!DhtTypeOK, L!Ids, L!GetLinks
    <3> QED BY <3>1, <3>2 DEF L!GetLinks
  <2>3. old \subseteq now
    <3>1. ASSUME NEW l \in old PROVE l \in now
      <4>1. l \in links' /\ l.type = "Updates" /\ l.base = o /\ l.id \in seen'[a]
        BY <2>1 DEF L!GetLinks
      <4>2. l.id \notin dead'
        BY <1>1, <2>1, <4>1 DEF ListingsInv, Lasting, OfListing
      <4>3. l.id \notin gone'[a]
        BY <2>1, <4>2 DEF ListingsInv, L!TypeOK, L!DhtTypeOK
      <4> QED BY <4>1, <4>3 DEF L!GetLinks
    <3> QED BY <3>1
  <2>4. /\ \A l \in old : l.target + 2 = l.id /\ o < l.target /\ l.target \in Nat
        /\ \A l \in now : l.target + 2 = l.id /\ o < l.target /\ l.target \in Nat
    <3>1. \A l \in old : l.target + 2 = l.id /\ o < l.target /\ l.target \in Nat
      <4>1. \A l \in old : l \in links /\ l.type = "Updates" /\ l.base = o
        BY DEF L!GetLinks
      <4> QED BY <1>1, <4>1, NotYetGiven DEF ListingsInv, Revisable
    <3>2. \A l \in now : l.target + 2 = l.id /\ o < l.target /\ l.target \in Nat
      <4>1. \A l \in now : l \in links' /\ l.type = "Updates" /\ l.base = o
        BY DEF L!GetLinks
      <4>2. \A l \in links' : l.type = "Updates" => l.target \in Nat
        <5>1. \A l \in links' : l.type = "Updates" => l.target \in {r.id : r \in L!Revisions'}
          BY <2>1 DEF ListingsInv, L!TypeOK, L!LinkType
        <5>2. \A r \in L!Revisions' : r.id \in Nat
          BY <2>1 DEF ListingsInv, L!TypeOK, L!DhtTypeOK, L!Ids, L!Revisions
        <5> QED BY <5>1, <5>2
      <4> QED BY <2>1, <4>1, <4>2 DEF ListingsInv, Revisable
    <3> QED BY <3>1, <3>2
  <2>5. \/ old = {} /\ L!LatestId(a, o) = o
        \/ \E c \in old : L!LatestId(a, o) = c.target /\ \A m \in old : m.id <= c.id
    BY <1>1, LatestOf
  <2>6. \/ now = {} /\ L!LatestId(a, o)' = o
        \/ \E c \in now : L!LatestId(a, o)' = c.target /\ \A m \in now : m.id <= c.id
    BY <2>1, LatestOfNext
  <2> HIDE DEF old, now, o
  <2> QED BY <2>2, <2>3, <2>4, <2>5, <2>6 DEF o
<1>2. ListingsInv /\ [L!Next]_(L!vars) => [L!NeverOlder]_(L!vars)
  BY <1>1 DEF L!NeverOlder
<1>3. L!Spec => []ListingsInv
  BY ListingsInvariance
<1> QED BY <1>2, <1>3, PTL DEF L!Spec

-----------------------------------------------------------------------------
(* Calls that do not overlap. *)

Unrevised(r) == \A s \in L!Revisions : s.original # r.id

\* Nothing is left of a deleted listing; one without a revision is on the active
\* list, and one that was archived and never edited is not.
Kept(r) ==
  /\ r.id \in dead => \A l \in links : OfListing(l, r.id) => l.id \in dead
  /\ r.id \notin dead /\ Unrevised(r) => L!OnActiveList(r)
  /\ r.id \notin dead /\ ~Unrevised(r) /\ ~L!Edited(r) => ~L!OnActiveList(r)

ListingsKept == serial => \A r \in L!Originals : Kept(r)

LEMMA CreateKeepsKept ==
  ASSUME ListingsInv, ListingsKept, NEW a \in Agents, NEW k, NEW n, NEW new, Creates(a, k, n, new), serial'
  PROVE  \A r \in L!Originals' : Kept(r)'
<1>0. PICK o, rec : o = clock + 1 /\ rec = L!Record(o, k, o, a, "active")
  OBVIOUS
<1>1. /\ n \in Nat /\ n >= 4 /\ clock \in Nat /\ L!DhtTypeOK
      /\ L!Commit(a, n, new, {}) /\ FreshLinks(n, new) /\ new \subseteq FirstLinks(a, k, o, n)
      /\ records' = records \cup {rec}
  BY <1>0 DEF Creates, ListingsInv, L!TypeOK, L!DhtTypeOK
<1>2. /\ links' = links \cup new /\ dead' = dead
      /\ \A l \in new : l.id \notin dead'
      /\ clock + 1 \notin dead'
      /\ serial
  <2>1. PICK del : del = {}
    OBVIOUS
  <2>2. L!Commit(a, n, new, del) /\ del \subseteq L!Ids
    BY <1>1, <2>1
  <2>3. /\ links' = links \cup new /\ dead' = dead \cup del
        /\ \A l \in new : l.id \in clock + 1 .. clock + n /\ l.id \notin dead'
        /\ clock + 1 \notin dead'
        /\ serial' => serial /\ L!UpToDate(a)
    BY <1>1, <2>2, TableAfter
  <2> QED BY <2>1, <2>3
<1>3. /\ \A r \in records : r.id \in 1 .. clock /\ r.original \in 1 .. clock
      /\ \A l \in links : /\ l.type \in {"Active", "Archived", "All", "Updates", "UserListings",
                                         "OrganizationListings"} => l.target \in 1 .. clock
                          /\ l.type \in {"Updates", "Creator", "Organization", "Tag"} => l.base \in 1 .. clock
  BY NotYetGiven DEF ListingsInv
<1>4. o = clock + 1 /\ rec.id = o /\ rec.kind = k /\ rec.original = o
  BY <1>0 DEF L!Record
<1>5. L!Originals' = L!Originals \cup {rec} /\ L!Revisions' = L!Revisions
  BY <1>1, <1>3, <1>4 DEF L!Originals, L!Revisions
<1>6. \A l \in new :
        /\ l.type \in {"Active", "UserListings", "Creator", "OrganizationListings", "Organization", "Tag"}
        /\ l.type \in {"Active", "UserListings", "OrganizationListings"} => l.target = o
        /\ l.type \in {"Creator", "Organization", "Tag"} => l.base = o
  BY <1>1, <1>4 DEF FirstLinks
<1>7. ASSUME NEW r \in L!Originals PROVE Kept(r)'
  <2>1. Kept(r) /\ r.id \in 1 .. clock /\ r.id # o
    <3>1. r \in records
      BY DEF L!Originals
    <3> QED BY <1>1, <1>2, <1>3, <1>4, <3>1 DEF ListingsKept
  <2>2. \A l \in new : ~OfListing(l, r.id)
    BY <1>6, <2>1 DEF OfListing
  <2>3. Unrevised(r)' <=> Unrevised(r)
    BY <1>5 DEF Unrevised
  <2>4. L!OnActiveList(r)' <=> L!OnActiveList(r)
    <3>1. \A l \in new : l.type = "Active" => l.target # r.id
      BY <1>6, <2>1
    <3> QED BY <1>2, <3>1 DEF L!OnActiveList, L!Live
  <2>5. L!Edited(r)' <=> L!Edited(r)
    BY <1>2, <1>5, <1>6 DEF L!Edited
  <2>6. r.id \in dead => \A l \in links' : OfListing(l, r.id) => l.id \in dead'
    BY <1>2, <2>1, <2>2 DEF Kept
  <2> QED BY <1>2, <2>1, <2>3, <2>4, <2>5, <2>6 DEF Kept
<1>8. Kept(rec)'
  <2>1. Unrevised(rec)'
    BY <1>1, <1>3, <1>4, <1>5 DEF Unrevised, L!Revisions
  <2>2. L!OnActiveList(rec)'
    <3>1. PICK l : l = L!Link(o + 1, "Active", L!Active(k), o)
      OBVIOUS
    <3>2. l \in new
      BY <1>4, <3>1 DEF Creates
    <3>3. l \in links' /\ l.id \notin dead'
      BY <1>2, <3>2
    <3>4. l.type = "Active" /\ l.base = L!Active(rec.kind) /\ l.target = rec.id
      BY <1>4, <3>1 DEF L!Link
    <3> QED BY <3>3, <3>4 DEF L!OnActiveList, L!Live
  <2>3. rec.id \notin dead'
    BY <1>2, <1>4
  <2> QED BY <2>1, <2>2, <2>3 DEF Kept
<1> QED BY <1>5, <1>7, <1>8

\* The latest revision of a listing without one is the listing itself, and that
\* of another is no listing.
LEMMA LatestIsNoOther ==
  ASSUME ListingsInv, NEW a \in Agents, NEW q \in L!Originals
  PROVE  /\ Unrevised(q) => L!LatestId(a, q.id) = q.id
         /\ \A r \in L!Originals : L!LatestId(a, q.id) = r.id => r = q
<1>1. CASE L!GetLinks(a, "Updates", q.id) = {}
  BY <1>1 DEF L!LatestId, ListingsInv, Apart, L!Originals
<1>2. CASE L!GetLinks(a, "Updates", q.id) # {}
  <2>1. PICK c \in L!GetLinks(a, "Updates", q.id) : L!LatestId(a, q.id) = c.target
    BY <1>2, LatestOf
  <2>2. c \in links /\ c.type = "Updates" /\ c.base = q.id
    BY <2>1 DEF L!GetLinks
  <2>3. c.target \in {s.id : s \in L!Revisions}
    BY <2>2 DEF ListingsInv, L!TypeOK, L!LinkType
  <2>4. PICK s \in L!Revisions : s.id = c.target
    BY <2>3
  <2>5. s \in records /\ s \notin L!Originals /\ s.original = q.id
    BY <2>2, <2>4 DEF L!Revisions, ListingsInv, Revisable
  <2>6. ~Unrevised(q)
    BY <2>5 DEF Unrevised
  <2>7. \A r \in L!Originals : r.id # c.target
    BY <2>4, <2>5 DEF ListingsInv, Apart, L!Originals
  <2> QED BY <2>1, <2>6, <2>7
<1> QED BY <1>1, <1>2

LEMMA ReviseKeepsKept ==
  ASSUME ListingsInv, ListingsKept, NEW a \in Agents, NEW q \in L!Originals, NEW status, NEW n, NEW new, NEW cut,
         Revises(a, q.kind, q.id, status, n, new, cut), serial'
  PROVE  \A r \in L!Originals' : Kept(r)'
<1> DEFINE o == q.id
           k == q.kind
           i == clock + 1
           rec == L!Record(i, k, o, a, status)
<1>1. /\ n \in Nat /\ n >= 3 /\ clock \in Nat /\ L!DhtTypeOK
      /\ status \in {"active", "archived"}
      /\ L!Commit(a, n, new, IdsOf(cut)) /\ FreshLinks(n, new) /\ new \subseteq RevisionLinks(k, o, status, n)
      /\ records' = records \cup {rec}
  BY DEF Revises, ListingsInv, L!TypeOK, L!DhtTypeOK
<1>2. cut \subseteq links /\ \A l \in cut : l.type = "Active" /\ l.target = L!LatestId(a, o)
  BY DEF Revises, L!To, L!GetLinks
<1>3. /\ \A r \in records : r.id \in 1 .. clock /\ r.original \in 1 .. clock
      /\ \A l \in links : l.id \in 1 .. clock
  BY NotYetGiven DEF ListingsInv
<1>4. IdsOf(cut) \subseteq L!Ids
  BY <1>2, <1>3 DEF IdsOf, L!Ids
<1>5. /\ links' = links \cup new /\ dead' = dead \cup IdsOf(cut)
      /\ \A l \in new : l.id \notin dead'
      /\ serial /\ L!UpToDate(a)
  BY <1>1, <1>4, TableAfter
<1>6. q \in records /\ q.id = q.original
  BY DEF L!Originals
<1>7. rec.id = i /\ rec.original = o
  BY DEF L!Record
<1>8. L!Originals' = L!Originals /\ L!Revisions' = L!Revisions \cup {rec}
  BY <1>1, <1>3, <1>6, <1>7 DEF L!Originals, L!Revisions
<1>9. \A l \in new : /\ l.type \in {"Updates", "All", "Archived", "Tag"}
                     /\ l.type = "Updates" => l.base = o
                     /\ l.type \in {"Tag"} => l.base = i
                     /\ l.type = "All" => l.target = i
  BY <1>1 DEF RevisionLinks
<1>10. \A l \in links : l.id \in dead' <=> l.id \in dead \/ l \in cut
  <2>1. \A l \in links : l.id \in IdsOf(cut) <=> l \in cut
    BY <1>1, <1>2 DEF IdsOf, L!DhtTypeOK
  <2> QED BY <1>5, <2>1
<1>11. \A r \in records : r.id \in dead' <=> r.id \in dead
  <2>1. \A r \in records : r.id \notin IdsOf(cut)
    BY <1>2 DEF ListingsInv, Apart, IdsOf
  <2> QED BY <1>5, <2>1
<1>12. \A r \in L!Originals : Kept(r)
  BY <1>5 DEF ListingsKept
<1>13. o \notin dead
  <2>1. CASE status = "active"
    <3>1. L!Found(a, o)
      BY <2>1 DEF Revises
    <3> QED BY <1>5, <3>1 DEF L!Found, L!UpToDate
  <2>2. CASE status = "archived"
    <3>1. PICK s \in L!LatestRecord(a, o) : TRUE
      BY <2>2 DEF Revises
    <3>2. s.id = L!LatestId(a, o) /\ L!Found(a, s.id)
      BY <3>1 DEF L!LatestRecord
    <3>3. ASSUME o \in dead PROVE FALSE
      <4>1. \A l \in links : l.type = "Updates" /\ l.base = o => l.id \in dead
        BY <1>12, <3>3 DEF Kept, OfListing
      <4>2. L!GetLinks(a, "Updates", o) = {}
        BY <1>5, <4>1 DEF L!GetLinks, L!UpToDate
      <4>3. L!LatestId(a, o) = o
        BY <4>2 DEF L!LatestId
      <4> QED BY <1>5, <3>2, <3>3, <4>3 DEF L!Found, L!UpToDate
    <3> QED BY <3>3
  <2> QED BY <1>1, <2>1, <2>2
<1>14. ASSUME NEW r \in L!Originals, r # q PROVE Kept(r)'
  <2>1. Kept(r) /\ r \in records /\ r.id # o /\ r.id # i /\ r.id \in 1 .. clock
    BY <1>1, <1>3, <1>6, <1>12, <1>14 DEF ListingsInv, Apart, L!Originals
  <2>2. \A l \in new : ~OfListing(l, r.id)
    BY <1>9, <2>1 DEF OfListing
  <2>3. Unrevised(r)' <=> Unrevised(r)
    BY <1>7, <1>8, <2>1 DEF Unrevised
  <2>4. L!OnActiveList(r)' <=> L!OnActiveList(r)
    <3>1. \A l \in cut : l.target # r.id
      BY <1>2, <1>14, LatestIsNoOther
    <3>2. \A l \in new : l.type # "Active"
      BY <1>9
    <3> QED BY <1>5, <1>10, <3>1, <3>2 DEF L!OnActiveList, L!Live
  <2>5. L!Edited(r)' <=> L!Edited(r)
    <3>1. \A s \in L!Revisions : s.id # i
      BY <1>1, <1>3 DEF L!Revisions
    <3> QED BY <1>5, <1>7, <1>8, <1>9, <2>1, <3>1 DEF L!Edited
  <2>6. r.id \in dead' => \A l \in links' : OfListing(l, r.id) => l.id \in dead'
    BY <1>5, <1>11, <2>1, <2>2 DEF Kept
  <2> QED BY <1>11, <2>1, <2>3, <2>4, <2>5, <2>6 DEF Kept
<1>15. Kept(q)'
  <2>1. q.id \notin dead' /\ Kept(q)
    BY <1>6, <1>11, <1>12, <1>13
  <2>2. ~Unrevised(q)'
    BY <1>7, <1>8 DEF Unrevised
  <2>3. ASSUME ~L!Edited(q)' PROVE ~L!OnActiveList(q)'
    <3>1. ~L!Edited(q)
      BY <1>5, <1>8, <2>3 DEF L!Edited
    <3>2. status = "archived"
      <4>1. ASSUME status = "active" PROVE FALSE
        <5>1. PICK l : l = L!Link(clock + 2, "All", k, i)
          OBVIOUS
        <5>2. l \in links' /\ l.type = "All" /\ l.target = rec.id
          BY <1>5, <1>7, <4>1, <5>1 DEF Revises, L!Link
        <5> QED BY <1>7, <1>8, <2>3, <5>2 DEF L!Edited
      <4> QED BY <1>1, <4>1
    <3>3. \A l \in new : l.type # "Active"
      BY <1>9
    <3>4. CASE ~Unrevised(q)
      <4>1. ~L!OnActiveList(q)
        BY <1>13, <2>1, <3>1, <3>4 DEF Kept
      <4> QED BY <1>5, <3>3, <4>1 DEF L!OnActiveList, L!Live
    <3>5. CASE Unrevised(q)
      <4>1. L!LatestId(a, o) = o
        BY <3>5, LatestIsNoOther
      <4>2. PICK places : places = L!To(L!GetLinks(a, "Active", L!Active(k)), o)
        OBVIOUS
      <4>3. cut \subseteq places /\ (cut = {} => places = {})
        BY <3>2, <4>1, <4>2 DEF Revises
      <4>4. ASSUME NEW l \in links, l.type = "Active", l.base = L!Active(k), l.target = o, l.id \notin dead
            PROVE  l \in cut
        <5>1. l \in places
          BY <1>3, <1>5, <4>2, <4>4 DEF L!To, L!GetLinks, L!UpToDate, L!Ids
        <5>2. PICK m \in cut : TRUE
          BY <4>3, <5>1
        <5>3. m \in links /\ m.type = "Active" /\ m.target = o
          BY <1>2, <4>1, <5>2
        <5>4. m = l
          BY <4>4, <5>3 DEF ListingsInv, Owned
        <5> QED BY <5>2, <5>4
      <4> QED BY <1>5, <1>10, <3>3, <4>4 DEF L!OnActiveList, L!Live
    <3> QED BY <3>4, <3>5
  <2> QED BY <2>1, <2>2, <2>3 DEF Kept
<1> QED BY <1>8, <1>14, <1>15

LEMMA DeleteKeepsKept ==
  ASSUME ListingsInv, ListingsKept, NEW a \in Agents, NEW q \in L!Originals, NEW cut, Deletes(a, q.id, cut), serial'
  PROVE  \A r \in L!Originals' : Kept(r)'
<1> DEFINE o == q.id
<1>1. /\ links' = links
      /\ \A l \in links : l.id \in dead' <=> l.id \in dead \/ l \in cut
      /\ \A r \in records : r.id \in dead' <=> r.id \in dead \/ r = q
      /\ records' = records
  BY DeleteKeepsListings DEF Deletes
<1>2. serial /\ L!UpToDate(a)
  BY DEF Deletes, L!Commit
<1>3. L!Originals' = L!Originals /\ L!Revisions' = L!Revisions
  BY <1>1 DEF L!Originals, L!Revisions
<1>4. q \in records /\ o \notin dead
  BY <1>2 DEF L!Originals, Deletes, L!Found, L!UpToDate
<1>5. \A l \in cut : OfListing(l, o)
  BY DEF Deletes
<1>6. \A l \in links : l.id \in L!Ids
  BY DEF ListingsInv, L!TypeOK, L!DhtTypeOK
<1>7. ASSUME NEW r \in L!Originals, r # q PROVE Kept(r)'
  <2>1. Kept(r) /\ (r.id \in dead' <=> r.id \in dead)
    BY <1>1, <1>2, <1>7 DEF ListingsKept, L!Originals
  <2>2. Unrevised(r)' <=> Unrevised(r)
    BY <1>3 DEF Unrevised
  <2>3. L!Edited(r)' <=> L!Edited(r)
    BY <1>1, <1>3 DEF L!Edited
  <2>4. L!OnActiveList(r)' <=> L!OnActiveList(r)
    <3>1. \A l \in cut : l.type # "Active"
      BY <1>5 DEF OfListing
    <3> QED BY <1>1, <3>1 DEF L!OnActiveList, L!Live
  <2> QED BY <1>1, <2>1, <2>2, <2>3, <2>4 DEF Kept
<1>8. Kept(q)'
  <2>1. q.id \in dead'
    BY <1>1, <1>4
  <2>2. ASSUME NEW l \in links, OfListing(l, o), l.id \notin dead PROVE l \in cut
    <3>1. l.id \in seen[a] /\ l.id \notin gone[a]
      BY <1>2, <1>6, <2>2 DEF L!UpToDate
    <3>2. CASE l.type \in {"Updates", "Tag", "Creator", "Organization"} /\ l.base = o
      <4>1. l \in L!GetLinks(a, l.type, o)
        BY <3>1, <3>2 DEF L!GetLinks
      <4> QED BY <3>2, <4>1 DEF Deletes
    <3>3. CASE l.type = "UserListings" /\ l.target = o
      <4>1. PICK c, u : /\ c \in links /\ u \in links
                        /\ c.type = "Creator" /\ c.base = o /\ c.target = q.author
                        /\ u.type = "UserListings" /\ u.base = q.author /\ u.target = o
        BY DEF ListingsInv, Owned
      <4>2. c.id \notin dead
        BY <1>4, <4>1 DEF ListingsInv, Lasting, OfListing
      <4>3. c \in L!GetLinks(a, "Creator", o)
        BY <1>2, <1>6, <4>1, <4>2 DEF L!GetLinks, L!UpToDate
      <4>4. u = l
        BY <3>3, <4>1 DEF ListingsInv, Owned
      <4>5. PICK back : back = L!To(L!GetLinks(a, "UserListings", c.target), o)
        OBVIOUS
      <4>6. l \in back
        BY <3>1, <3>3, <4>1, <4>4, <4>5 DEF L!To, L!GetLinks
      <4>7. back \cap cut # {}
        BY <4>3, <4>5, <4>6 DEF Deletes
      <4>8. PICK m \in back : m \in cut
        BY <4>7
      <4>9. m \in links /\ m.type = "UserListings" /\ m.target = o
        BY <4>5, <4>8 DEF L!To, L!GetLinks
      <4>10. m = l
        BY <3>3, <4>9 DEF ListingsInv, Owned
      <4> QED BY <4>8, <4>10
    <3>4. CASE l.type = "OrganizationListings" /\ l.target = o
      <4>1. PICK c \in links : c.type = "Organization" /\ c.base = o /\ c.target = l.base
        BY <3>4 DEF ListingsInv, Owned
      <4>2. c.id \notin dead
        BY <1>4, <4>1 DEF ListingsInv, Lasting, OfListing
      <4>3. c \in L!GetLinks(a, "Organization", o)
        BY <1>2, <1>6, <4>1, <4>2 DEF L!GetLinks, L!UpToDate
      <4>4. PICK back : back = L!To(L!GetLinks(a, "OrganizationListings", c.target), o)
        OBVIOUS
      <4>5. l \in back
        BY <3>1, <3>4, <4>1, <4>4 DEF L!To, L!GetLinks
      <4>6. back \cap cut # {}
        BY <4>3, <4>4, <4>5 DEF Deletes
      <4>7. PICK m \in back : m \in cut
        BY <4>6
      <4>8. m \in links /\ m.type = "OrganizationListings" /\ m.target = o
        BY <4>4, <4>7 DEF L!To, L!GetLinks
      <4>9. m = l
        BY <3>4, <4>8 DEF ListingsInv, Owned
      <4> QED BY <4>7, <4>9
    <3> QED BY <2>2, <3>2, <3>3, <3>4 DEF OfListing
  <2>3. \A l \in links' : OfListing(l, q.id) => l.id \in dead'
    BY <1>1, <2>2
  <2> QED BY <2>1, <2>3 DEF Kept
<1> QED BY <1>3, <1>7, <1>8

LEMMA ListingsAreKept == L!ListingsAssumption /\ L!Spec => [](ListingsInv /\ ListingsKept)
<1> SUFFICES ASSUME L!ListingsAssumption PROVE L!Spec => [](ListingsInv /\ ListingsKept)
  OBVIOUS
<1>1. L!Init => ListingsInv /\ ListingsKept
  <2>1. L!Init => L!Originals = {}
    BY DEF L!Init, L!Originals
  <2> QED BY <2>1, InitListings DEF ListingsKept
<1>2. ListingsInv /\ ListingsKept /\ [L!Next]_(L!vars) => ListingsInv' /\ ListingsKept'
  <2> SUFFICES ASSUME ListingsInv, ListingsKept, [L!Next]_(L!vars) PROVE ListingsInv' /\ ListingsKept'
    OBVIOUS
  <2>1. ListingsInv'
    BY NextListings
  <2>2. CASE \E a \in Agents : L!Call(a)
    <3> SUFFICES ASSUME serial' PROVE \A r \in L!Originals' : Kept(r)'
      BY <2>1 DEF ListingsKept
    <3>1. PICK a \in Agents : L!Call(a)
      BY <2>2
    <3>2. CASE \E k, n, new : Creates(a, k, n, new)
      BY <3>2, CreateKeepsKept
    <3>3. CASE \E q \in L!Originals : \E status, n, new, cut : Revises(a, q.kind, q.id, status, n, new, cut)
      BY <3>3, ReviseKeepsKept
    <3>4. CASE \E q \in L!Originals : \E cut : Deletes(a, q.id, cut)
      BY <3>4, DeleteKeepsKept
    <3> QED BY <3>1, <3>2, <3>3, <3>4, CallShapes
  <2>3. CASE UNCHANGED <<links, dead, serial, records>>
    <3>1. L!Originals' = L!Originals /\ L!Revisions' = L!Revisions
      BY <2>3 DEF L!Originals, L!Revisions
    <3>2. ASSUME NEW r \in L!Originals PROVE Kept(r)' <=> Kept(r)
      <4>1. Unrevised(r)' <=> Unrevised(r)
        BY <3>1 DEF Unrevised
      <4>2. L!Edited(r)' <=> L!Edited(r)
        BY <2>3, <3>1 DEF L!Edited
      <4>3. L!OnActiveList(r)' <=> L!OnActiveList(r)
        BY <2>3 DEF L!OnActiveList, L!Live
      <4> QED BY <2>3, <4>1, <4>2, <4>3 DEF Kept
    <3> QED BY <2>1, <2>3, <3>1, <3>2 DEF ListingsKept
  <2>4. L!Deliver \/ UNCHANGED L!vars => UNCHANGED <<links, dead, serial, records>>
    BY GossipKeepsListings DEF L!vars, L!dhtVars
  <2> QED BY <2>2, <2>3, <2>4 DEF L!Next
<1> QED BY <1>1, <1>2, PTL DEF L!Spec

\* Without overlapping calls a listing that was never edited is on the active
\* list or on the archived list and not on both, however often it was archived
\* (request.rs:49-57, 624-653).
THEOREM OnOneList == L!ListingsAssumption /\ L!Spec => []L!UneditedOnOneList
<1>1. ListingsInv /\ ListingsKept => L!UneditedOnOneList
  <2> SUFFICES ASSUME ListingsInv, ListingsKept, serial, NEW r \in L!Originals, r.id \notin dead, ~L!Edited(r)
               PROVE  L!OnActiveList(r) <=> ~L!OnArchivedList(r)
    BY DEF L!UneditedOnOneList
  <2>1. Kept(r)
    BY DEF ListingsKept
  <2>2. CASE Unrevised(r)
    <3>1. L!OnActiveList(r)
      BY <2>1, <2>2 DEF Kept
    <3>2. ASSUME NEW l \in L!Live("Archived", L!Archived(r.kind)), L!RecordOf(l.target).original = r.id PROVE FALSE
      <4>1. l \in links /\ l.type = "Archived"
        BY DEF L!Live
      <4>2. l.target \in {s.id : s \in L!Revisions}
        BY <4>1 DEF ListingsInv, L!TypeOK, L!LinkType
      <4>3. PICK s \in L!Revisions : s.id = l.target
        BY <4>2
      <4>4. L!RecordOf(s.id) = s
        BY RecordOfIt DEF ListingsInv, L!Revisions
      <4> QED BY <2>2, <3>2, <4>3, <4>4 DEF Unrevised
    <3> QED BY <3>1, <3>2 DEF L!OnArchivedList
  <2>3. CASE ~Unrevised(r)
    <3>1. ~L!OnActiveList(r)
      BY <2>1, <2>3 DEF Kept
    <3>2. PICK s \in L!Revisions : s.original = r.id
      BY <2>3 DEF Unrevised
    <3>3. s \in records /\ s.status \in {"active", "archived"}
      BY <3>2 DEF L!Revisions, ListingsInv, L!TypeOK
    <3>4. s.status = "archived"
      BY <3>2, <3>3 DEF L!Edited, ListingsInv, Placed
    <3>5. s.kind = r.kind
      <4>1. PICK p \in L!Originals : s.original = p.id /\ s.kind = p.kind
        BY <3>3 DEF ListingsInv, L!TypeOK
      <4> QED BY <3>2, <4>1 DEF ListingsInv, Apart, L!Originals
    <3>6. PICK l \in links : l.type = "Archived" /\ l.base = L!Archived(r.kind) /\ l.target = s.id
      BY <3>2, <3>4, <3>5 DEF ListingsInv, Placed
    <3>7. l.id \notin dead
      BY <3>6 DEF ListingsInv, Lasting, OfListing
    <3>8. L!RecordOf(l.target) = s
      BY <3>3, <3>6, RecordOfIt DEF ListingsInv
    <3> QED BY <3>1, <3>2, <3>6, <3>7, <3>8 DEF L!OnArchivedList, L!Live
  <2> QED BY <2>2, <2>3
<1> QED BY <1>1, ListingsAreKept, PTL

\* Without overlapping calls a deleted listing is found by none of its names
\* (request.rs:450-585).
THEOREM DeletedIsGone == L!ListingsAssumption /\ L!Spec => []L!DeletedIsNotFound
<1>1. ListingsInv /\ ListingsKept => L!DeletedIsNotFound
  <2> SUFFICES ASSUME ListingsInv, ListingsKept, serial, NEW a \in Agents, NEW r \in L!Originals, L!UpToDate(a), r.id \in dead
               PROVE  /\ L!LatestRecord(a, r.id) = {}
                      /\ \A x \in Agents \cup Orgs :
                           L!To(L!GetLinks(a, "UserListings", x) \cup L!GetLinks(a, "OrganizationListings", x), r.id) = {}
                      /\ r \notin L!ActiveListings(a, r.kind)
    BY DEF L!DeletedIsNotFound
  <2>1. ~L!Found(a, r.id)
    BY DEF L!Found, L!UpToDate
  <2>2. \A l \in links : OfListing(l, r.id) => l.id \in gone[a]
    BY DEF ListingsKept, Kept, L!UpToDate
  <2>3. L!LatestRecord(a, r.id) = {}
    <3>1. L!GetLinks(a, "Updates", r.id) = {}
      BY <2>2 DEF L!GetLinks, OfListing
    <3>2. L!LatestId(a, r.id) = r.id
      BY <3>1 DEF L!LatestId
    <3> QED BY <2>1, <3>2 DEF L!LatestRecord
  <2>4. ASSUME NEW x PROVE L!To(L!GetLinks(a, "UserListings", x) \cup L!GetLinks(a, "OrganizationListings", x), r.id) = {}
    BY <2>2 DEF L!To, L!GetLinks, OfListing
  <2>5. r \notin L!ActiveListings(a, r.kind)
    BY <2>1 DEF L!ActiveListings, L!Listed
  <2> QED BY <2>3, <2>4, <2>5
<1> QED BY <1>1, ListingsAreKept, PTL

\* An agent with a complete copy finds a user's living listing either among the
\* active or among the archived ones, and what it finds of the latter is on the
\* archived list (request.rs:310-349, 645-660).
THEOREM SplitInTwo == L!ListingsAssumption /\ L!Spec => []L!MyListingsSplit
<1>1. ListingsInv => L!MyListingsSplit
  <2> SUFFICES ASSUME ListingsInv, NEW a \in Agents, NEW r \in L!Originals, L!UpToDate(a), r.id \notin dead
               PROVE  /\ r \in L!UserActive(a, r.author) <=> r \notin L!UserArchived(a, r.author)
                      /\ r \in L!UserArchived(a, r.author) => L!LatestRecord(a, r.id) \subseteq L!ArchivedListings(a, r.kind)
    BY DEF L!MyListingsSplit
  <2>1. r \in records /\ \A s \in records : s.id \in L!Ids /\ (s.id \notin dead => L!Found(a, s.id))
    BY DEF L!Originals, L!Found, L!UpToDate, ListingsInv, L!TypeOK
  <2>2. \A l \in links : l.id \notin dead => l.id \in seen[a] /\ l.id \notin gone[a]
    BY DEF L!UpToDate, ListingsInv, L!TypeOK, L!DhtTypeOK
  <2>3. r \in L!UserListings(a, r.author)
    <3>1. PICK u \in links : u.type = "UserListings" /\ u.base = r.author /\ u.target = r.id
      BY DEF ListingsInv, Owned
    <3>2. u.id \notin dead
      BY <3>1 DEF ListingsInv, Lasting, OfListing
    <3>3. u \in L!GetLinks(a, "UserListings", r.author)
      BY <2>2, <3>1, <3>2 DEF L!GetLinks
    <3> QED BY <2>1, <3>1, <3>3 DEF L!UserListings, L!Listed
  <2>4. PICK s \in records : s.id = L!LatestId(a, r.id) /\ s.id \notin dead /\ s.original = r.id
    <3>1. CASE L!GetLinks(a, "Updates", r.id) = {}
      BY <2>1, <3>1 DEF L!LatestId, L!Originals
    <3>2. CASE L!GetLinks(a, "Updates", r.id) # {}
      <4>1. PICK c \in L!GetLinks(a, "Updates", r.id) : L!LatestId(a, r.id) = c.target
        BY <3>2, LatestOf
      <4>2. c \in links /\ c.type = "Updates" /\ c.base = r.id
        BY <4>1 DEF L!GetLinks
      <4>3. c.target \in {t.id : t \in L!Revisions}
        BY <4>2 DEF ListingsInv, L!TypeOK, L!LinkType
      <4>4. PICK t \in L!Revisions : t.id = c.target
        BY <4>3
      <4>5. t \in records /\ t.id \notin dead /\ t.original = r.id
        BY <4>2, <4>4 DEF ListingsInv, Lasting, Revisable, L!Revisions
      <4> QED BY <4>1, <4>4, <4>5
    <3> QED BY <3>1, <3>2
  <2>5. L!LatestRecord(a, r.id) = {s}
    <3>1. \A t \in records : t.id = s.id => t = s
      BY DEF ListingsInv, Apart
    <3> QED BY <2>1, <2>4, <3>1 DEF L!LatestRecord
  <2>6. s.status \in {"active", "archived"}
    BY DEF ListingsInv, L!TypeOK
  <2>7. r \in L!UserActive(a, r.author) <=> r \notin L!UserArchived(a, r.author)
    BY <2>3, <2>5, <2>6 DEF L!UserActive, L!UserArchived
  <2>8. ASSUME s.status = "archived" PROVE s \in L!ArchivedListings(a, r.kind)
    <3>1. s \in L!Revisions
      BY <2>8 DEF ListingsInv, Placed, L!Revisions
    <3>2. PICK l \in links : l.type = "Archived" /\ l.base = L!Archived(s.kind) /\ l.target = s.id
      BY <2>8, <3>1 DEF ListingsInv, Placed
    <3>3. l.id \notin dead
      BY <3>2 DEF ListingsInv, Lasting, OfListing
    <3>4. s.kind = r.kind
      <4>1. PICK p \in L!Originals : s.original = p.id /\ s.kind = p.kind
        BY DEF ListingsInv, L!TypeOK
      <4> QED BY <2>4, <4>1 DEF ListingsInv, Apart, L!Originals
    <3>5. l \in L!GetLinks(a, "Archived", L!Archived(r.kind))
      BY <2>2, <3>2, <3>3, <3>4 DEF L!GetLinks
    <3> QED BY <2>1, <2>4, <3>2, <3>5 DEF L!ArchivedListings, L!Listed
  <2> QED BY <2>5, <2>7, <2>8 DEF L!UserArchived
<1> QED BY <1>1, ListingsInvariance, PTL
=============================================================================
