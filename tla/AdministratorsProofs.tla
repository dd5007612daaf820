------------------------ MODULE AdministratorsProofs ------------------------
(***************************************************************************)
(* The two records of an administrator agree, and the last administrator   *)
(* stays, on every network and for any number of calls, as long as no call *)
(* ran on an incomplete copy of the table.                                 *)
(***************************************************************************)
EXTENDS Administrators, DhtProofs, FiniteSetTheorems

\* A profile links a user to itself (user.rs:34-39) and is never unlinked.
ProfilesStay ==
  \A l \in links : l.type = "UserAgents" => l.target = l.base /\ l.id \notin dead

IInv == TypeOK /\ ProfilesStay /\ ListMatchesAgents

-----------------------------------------------------------------------------
(* The agents a caller passes for a user. *)

\* Whatever has reached the caller, it passes the user's agent or nobody.
LEMMA AgentsPassed ==
  ASSUME IInv, NEW a \in Agents, NEW user, NEW agents \in PassedAgents(a, user)
  PROVE  agents = {} \/ agents = {user}
<1>1. GetUserAgents(a, user) \subseteq {user}
  BY DEF IInv, ProfilesStay, GetUserAgents, GetLinks
<1>2. GetUserAgents(a, user) = {} \/ GetUserAgents(a, user) = {user}
  BY <1>1
<1> QED BY <1>2 DEF PassedAgents

-----------------------------------------------------------------------------
(* Each call keeps the invariant. *)

LEMMA InitInv == Init => IInv
BY DEF Init, DhtInit, IInv, TypeOK, DhtTypeOK, Ids, ProfilesStay,
       ListMatchesAgents, Listed, Live

LEMMA CreateUserInv ==
  ASSUME IInv, NEW a \in Agents, CreateUser(a)
  PROVE  IInv'
<1> DEFINE new == {Link(clock + 1, "UserAgents", a, a)}
<1>1. Commit(a, 1, new, {}) /\ clock \in Nat
  BY DEF CreateUser, IInv, TypeOK, DhtTypeOK
<1>2. FreshLinks(1, new)
  BY <1>1 DEF FreshLinks, Link
<1>3. DhtTypeOK'
  BY <1>1, <1>2, CommitKeepsTable DEF IInv, TypeOK
<1>4. links' = links \cup new /\ dead' = dead
  BY <1>1 DEF Commit, Publish
<1>5. TypeOK'
  BY <1>1, <1>3, <1>4 DEF IInv, TypeOK, LinkType, Link
<1>6. ProfilesStay'
  BY <1>1, <1>4 DEF IInv, TypeOK, DhtTypeOK, ProfilesStay, Link, Ids
<1>7. \A type, base : type # "UserAgents" => Live(type, base)' = Live(type, base)
  BY <1>4 DEF Live, Link
<1>8. ListMatchesAgents'
  <2>1. serial' => serial
    BY <1>1 DEF Commit, Publish
  <2>2. \A u : Listed(u)' = Listed(u)
    BY <1>7 DEF Listed
  <2> QED BY <1>4, <1>7, <2>1, <2>2 DEF IInv, ListMatchesAgents
<1> QED BY <1>5, <1>6, <1>8 DEF IInv

\* register_administrator, called for a user with what the caller sees of it.
LEMMA RegisterInv ==
  ASSUME IInv, NEW a \in Agents, NEW user \in Users, NEW agents,
         agents = {} \/ agents = {user},
         RegisterLinks(a, user, agents)
  PROVE  IInv'
<1> DEFINE entry == Link(clock + 1, "AllAdministrators", Path, user)
           right == Link(clock + 2, "AgentAdministrators", user, Path)
           new == {entry} \cup {Link(clock + 2, "AgentAdministrators", p, Path) : p \in agents}
           n == 1 + Cardinality(agents)
<1>1. clock \in Nat /\ user \in Agents
  BY DEF IInv, TypeOK, DhtTypeOK, Users, LinkType
<1>2. \/ agents = {} /\ n = 1 /\ new = {entry}
      \/ agents = {user} /\ n = 2 /\ new = {entry, right}
  BY FS_EmptySet, FS_Singleton
<1>3. Publish(a, n, new, {}) /\ serial' \in BOOLEAN
  BY DEF RegisterLinks, PublishFor
<1>4. FreshLinks(n, new) /\ n \in Nat
  BY <1>1, <1>2 DEF FreshLinks, Link
<1>5. DhtTypeOK'
  BY <1>3, <1>4, PublishKeepsTable DEF IInv, TypeOK
<1>6. links' = links \cup new /\ dead' = dead
  BY <1>3 DEF Publish
<1>7. TypeOK'
  BY <1>1, <1>2, <1>5, <1>6 DEF IInv, TypeOK, LinkType, Link
<1>8. ProfilesStay'
  BY <1>2, <1>6 DEF IInv, ProfilesStay, Link
<1>9. ListMatchesAgents'
  <2> SUFFICES ASSUME serial', NEW u \in Agents
               PROVE \/ Listed(u)' = {} /\ Live("AgentAdministrators", u)' = {}
                     \/ \E l, m \in links' : /\ Listed(u)' = {l}
                                             /\ Live("AgentAdministrators", u)' = {m}
    BY DEF ListMatchesAgents
  <2>1. serial /\ UpToDate(a) /\ agents # {}
    BY DEF RegisterLinks, PublishFor
  <2>2. new = {entry, right}
    BY <1>2, <2>1
  <2>3. Live("AllAdministrators", Path)' = Live("AllAdministrators", Path) \cup {entry}
    BY <1>3, <1>4, <2>2, LiveAfterPublish DEF IInv, TypeOK, Link
  <2>4. Live("AgentAdministrators", u)' =
          Live("AgentAdministrators", u) \cup {l \in {right} : u = user}
    BY <1>3, <1>4, <2>2, LiveAfterPublish DEF IInv, TypeOK, Link
  <2>5. CASE u # user
    <3>1. Listed(u)' = Listed(u)
      <4>1. entry.target # u
        BY <2>5 DEF Link
      <4> HIDE DEF entry
      <4> QED BY <2>3, <4>1 DEF Listed
    <3>2. Live("AgentAdministrators", u)' = Live("AgentAdministrators", u)
      BY <2>4, <2>5
    <3> QED BY <3>1, <3>2, <2>1, <1>6 DEF IInv, ListMatchesAgents
  <2>6. CASE u = user
    <3>1. GetLinks(a, "AllAdministrators", Path) = Live("AllAdministrators", Path)
      BY <2>1, CompleteCopyReadsTable DEF IInv, TypeOK
    <3>2. Listed(user) = {}
      BY <3>1 DEF RegisterLinks, CheckIfEntityIsAdministrator,
                  GetAllAdministratorsLinks, Listed
    <3>3. Live("AgentAdministrators", user) = {}
      BY <1>1, <2>1, <3>2 DEF IInv, ListMatchesAgents
    <3>4. Listed(u)' = {entry} /\ Live("AgentAdministrators", u)' = {right}
      BY <2>3, <2>4, <2>6, <3>2, <3>3 DEF Listed, Link
    <3> QED BY <3>4, <2>2, <1>6
  <2> QED BY <2>5, <2>6
<1> QED BY <1>7, <1>8, <1>9 DEF IInv

LEMMA RemoveInv ==
  ASSUME IInv, NEW a \in Agents, NEW user \in Users, RemoveAdministrator(a, user)
  PROVE  IInv'
<1>0. PICK l \in GetAllAdministratorsLinks(a), agents \in PassedAgents(a, user) :
        /\ l.target = user
        /\ \E first \in FirstAgentLinks(a, agents) :
             PublishFor(a, agents, 0, {}, {l.id} \cup {first[p].id : p \in agents})
  BY DEF RemoveAdministrator
<1>1. PICK first \in FirstAgentLinks(a, agents) :
        /\ l.target = user
        /\ PublishFor(a, agents, 0, {}, {l.id} \cup {first[p].id : p \in agents})
  BY <1>0
<1> DEFINE del == {l.id} \cup {first[p].id : p \in agents}
<1>2. /\ l \in links /\ l.type = "AllAdministrators" /\ l.base = Path
      /\ \A p \in agents : /\ first[p] \in links
                           /\ first[p].type = "AgentAdministrators"
                           /\ first[p].base = p
  BY <1>1 DEF GetAllAdministratorsLinks, FirstAgentLinks, GetLinks
<1>3. del \subseteq Ids
  BY <1>1, <1>2 DEF IInv, TypeOK, DhtTypeOK
<1>4. FreshLinks(0, {}) /\ Publish(a, 0, {}, del) /\ serial' \in BOOLEAN
  BY <1>1 DEF FreshLinks, PublishFor
<1>5. DhtTypeOK'
  BY <1>3, <1>4, PublishKeepsTable DEF IInv, TypeOK
<1>6. links' = links /\ dead' = dead \cup del
  BY <1>4 DEF Publish
<1>7. TypeOK'
  BY <1>5, <1>6 DEF IInv, TypeOK
<1>8. ProfilesStay'
  BY <1>2, <1>3, <1>6 DEF IInv, TypeOK, DhtTypeOK, ProfilesStay
<1>9. ListMatchesAgents'
  <2> SUFFICES ASSUME serial', NEW u \in Agents
               PROVE \/ Listed(u)' = {} /\ Live("AgentAdministrators", u)' = {}
                     \/ \E k, m \in links' : /\ Listed(u)' = {k}
                                             /\ Live("AgentAdministrators", u)' = {m}
    BY DEF ListMatchesAgents
  <2>1. serial /\ UpToDate(a) /\ agents # {}
    BY <1>1 DEF PublishFor
  <2>2. agents = {user}
    BY <1>1, <2>1, AgentsPassed
  <2>3. PICK right \in links : right = first[user]
    BY <1>2, <2>2
  <2>4. /\ del = {l.id, right.id}
        /\ right.type = "AgentAdministrators" /\ right.base = user
    BY <1>2, <1>3, <2>2, <2>3
  <2>5. \A k \in links : k.id \in del <=> (k = l \/ k = right)
    BY <1>2, <2>4 DEF IInv, TypeOK, DhtTypeOK
  <2>6. \A type, base : Live(type, base)' = {k \in Live(type, base) : k # l /\ k # right}
    BY <1>6, <2>5 DEF Live
  <2>7. CASE u # user
    <3>1. Listed(u)' = Listed(u) /\ Live("AgentAdministrators", u)' = Live("AgentAdministrators", u)
      BY <1>1, <1>2, <2>4, <2>6, <2>7 DEF Listed, Live
    <3> QED BY <3>1, <2>1, <1>6 DEF IInv, ListMatchesAgents
  <2>8. CASE u = user
    <3>1. /\ GetLinks(a, "AllAdministrators", Path) = Live("AllAdministrators", Path)
          /\ GetLinks(a, "AgentAdministrators", user) = Live("AgentAdministrators", user)
      BY <2>1, CompleteCopyReadsTable DEF IInv, TypeOK
    <3>2. l \in Listed(user) /\ right \in Live("AgentAdministrators", user)
      BY <1>1, <2>2, <2>3, <3>1 DEF GetAllAdministratorsLinks, FirstAgentLinks, Listed
    <3>3. Listed(user) = {l} /\ Live("AgentAdministrators", user) = {right}
      BY <2>1, <2>8, <3>2 DEF IInv, ListMatchesAgents
    <3>4. Listed(u)' = {} /\ Live("AgentAdministrators", u)' = {}
      BY <2>6, <2>8, <3>3 DEF Listed
    <3> QED BY <3>4
  <2> QED BY <2>7, <2>8
<1> QED BY <1>7, <1>8, <1>9 DEF IInv

LEMMA GossipInv ==
  ASSUME IInv, Gossip
  PROVE  IInv'
<1>1. DhtTypeOK' /\ UNCHANGED <<clock, links, dead, serial>>
  BY GossipKeepsTable DEF IInv, TypeOK
<1>2. TypeOK' /\ ProfilesStay'
  BY <1>1 DEF IInv, TypeOK, ProfilesStay
<1>3. ListMatchesAgents'
  <2>1. \A type, base : Live(type, base)' = Live(type, base)
    BY <1>1 DEF Live
  <2>2. \A u : Listed(u)' = Listed(u)
    BY <2>1 DEF Listed
  <2> QED BY <1>1, <2>1, <2>2 DEF IInv, ListMatchesAgents
<1> QED BY <1>2, <1>3 DEF IInv

LEMMA NextInv == IInv /\ [Next]_vars => IInv'
<1> SUFFICES ASSUME IInv, [Next]_vars PROVE IInv'
  OBVIOUS
<1>1. CASE UNCHANGED vars
  BY <1>1 DEF vars, dhtVars, IInv, TypeOK, DhtTypeOK, Ids, ProfilesStay,
              ListMatchesAgents, Listed, Live
<1>2. ASSUME NEW a \in Agents, CreateUser(a) PROVE IInv'
  BY <1>2, CreateUserInv
<1>3. ASSUME NEW a \in Agents, RegisterAdministrator(a) PROVE IInv'
  BY <1>3, RegisterInv DEF RegisterAdministrator
<1>4. ASSUME NEW a \in Agents, NEW user \in Users, AddAdministrator(a, user) PROVE IInv'
  BY <1>4, AgentsPassed, RegisterInv DEF AddAdministrator
<1>5. ASSUME NEW a \in Agents, NEW user \in Users, RemoveAdministrator(a, user) PROVE IInv'
  BY <1>5, RemoveInv
<1>6. CASE Gossip
  BY <1>6, GossipInv
<1> QED BY <1>1, <1>2, <1>3, <1>4, <1>5, <1>6 DEF Next

-----------------------------------------------------------------------------
(* The last administrator. *)

Registered == \E l \in links : l.type = "AllAdministrators"

\* No call takes the last entry away; with the records in agreement, an entry
\* left on the list is an administrator.
LEMMA NextRemains == IInv /\ AdministratorRemains /\ [Next]_vars => AdministratorRemains'
<1> SUFFICES ASSUME IInv, AdministratorRemains, [Next]_vars,
                    serial', Registered'
             PROVE  Live("AllAdministrators", Path)' # {}
  <2>1. ASSUME IInv', serial' => (Registered' => Live("AllAdministrators", Path)' # {})
        PROVE  AdministratorRemains'
    <3>1. SUFFICES ASSUME serial', Registered'
                   PROVE \E u \in Agents : Listed(u)' # {} /\ Live("AgentAdministrators", u)' # {}
      BY DEF AdministratorRemains, Registered
    <3>2. PICK l \in Live("AllAdministrators", Path)' : TRUE
      BY <2>1, <3>1
    <3>3. l.target \in Agents /\ l \in Listed(l.target)'
      BY <2>1, <3>2 DEF IInv, TypeOK, LinkType, Live, Listed
    <3> QED BY <2>1, <3>1, <3>3 DEF IInv, ListMatchesAgents
  <2> QED BY <2>1, NextInv
<1>1. Registered /\ serial => Live("AllAdministrators", Path) # {}
  BY DEF AdministratorRemains, Registered, Listed
<1>2. CASE UNCHANGED vars
  BY <1>1, <1>2 DEF vars, dhtVars, Registered, Live
<1>3. ASSUME NEW a \in Agents, CreateUser(a)
      PROVE  Live("AllAdministrators", Path)' # {}
  <2>1. /\ links' = links \cup {Link(clock + 1, "UserAgents", a, a)}
        /\ dead' = dead /\ serial
    BY <1>3 DEF CreateUser, Commit, Publish
  <2>2. Registered /\ Live("AllAdministrators", Path) \subseteq Live("AllAdministrators", Path)'
    BY <2>1 DEF Registered, Link, Live
  <2> QED BY <1>1, <2>1, <2>2
<1>4. ASSUME NEW a \in Agents, NEW user, NEW agents, RegisterLinks(a, user, agents)
      PROVE  Live("AllAdministrators", Path)' # {}
  <2> DEFINE entry == Link(clock + 1, "AllAdministrators", Path, user)
  <2>1. entry \in links' /\ dead' = dead /\ clock + 1 \notin dead
    BY <1>4 DEF RegisterLinks, PublishFor, Publish, IInv, TypeOK, DhtTypeOK, Ids
  <2> QED BY <2>1 DEF Live, Link
<1>5. ASSUME NEW a \in Agents, NEW user \in Users, RemoveAdministrator(a, user)
      PROVE  Live("AllAdministrators", Path)' # {}
  <2>0. PICK l \in GetAllAdministratorsLinks(a), agents \in PassedAgents(a, user) :
          \E first \in FirstAgentLinks(a, agents) :
            PublishFor(a, agents, 0, {}, {l.id} \cup {first[p].id : p \in agents})
    BY <1>5 DEF RemoveAdministrator
  <2>1. PICK first \in FirstAgentLinks(a, agents) :
          PublishFor(a, agents, 0, {}, {l.id} \cup {first[p].id : p \in agents})
    BY <2>0
  <2>2. UpToDate(a) /\ links' = links
        /\ dead' = dead \cup ({l.id} \cup {first[p].id : p \in agents})
    BY <2>1 DEF PublishFor, Publish
  <2>3. GetAllAdministratorsLinks(a) = Live("AllAdministrators", Path)
    BY <2>2, CompleteCopyReadsTable DEF IInv, TypeOK, GetAllAdministratorsLinks
  <2>4. PICK m \in Live("AllAdministrators", Path) : m # l
    <3>1. Cardinality({l}) = 1
      BY FS_Singleton
    <3>2. GetAllAdministratorsLinks(a) # {l}
      BY <1>5, <3>1 DEF RemoveAdministrator
    <3> QED BY <2>1, <2>3, <3>2
  <2>5. m \in links /\ l \in links /\ m.id # l.id /\ m.type = "AllAdministrators"
    BY <2>1, <2>3, <2>4 DEF Live, IInv, TypeOK, DhtTypeOK
  <2>6. \A p \in agents : m.id # first[p].id
    BY <2>1, <2>5 DEF FirstAgentLinks, GetLinks, IInv, TypeOK, DhtTypeOK
  <2> QED BY <2>2, <2>4, <2>5, <2>6 DEF Live
<1>6. CASE Gossip
  <2>1. UNCHANGED <<clock, links, dead, serial>>
    BY <1>6, GossipKeepsTable DEF IInv, TypeOK
  <2> QED BY <1>1, <2>1 DEF Registered, Live
<1> QED BY <1>2, <1>3, <1>4, <1>5, <1>6
        DEF Next, RegisterAdministrator, AddAdministrator

-----------------------------------------------------------------------------
(* The theorems. *)

LEMMA Invariance == Spec => [](IInv /\ AdministratorRemains)
<1>1. Init => IInv /\ AdministratorRemains
  BY InitInv DEF Init, DhtInit, AdministratorRemains
<1> QED BY <1>1, NextInv, NextRemains, PTL DEF Spec

\* Ids, copies and links keep their types in every behaviour of any network.
THEOREM TypeCorrect == Spec => []TypeOK
<1>1. IInv => TypeOK
  BY DEF IInv
<1> QED BY <1>1, Invariance, PTL

\* The list of administrators and the permission checks agree in every
\* behaviour without overlapping calls (administration.rs:17-32, 105-129).
THEOREM RecordsAgree == Spec => []ListMatchesAgents
<1>1. IInv => ListMatchesAgents
  BY DEF IInv
<1> QED BY <1>1, Invariance, PTL

\* Without overlapping calls the network never loses its last administrator
\* (administration.rs:101-103).
THEOREM LastAdministratorStays == Spec => []AdministratorRemains
BY Invariance, PTL
=============================================================================
