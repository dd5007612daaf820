--------------------------- MODULE Administrators ---------------------------
(***************************************************************************)
(* The administrators of the network: the calls of                         *)
(* administration/src/administration.rs, with the one link of create_user  *)
(* they depend on.                                                         *)
(*                                                                         *)
(* An administrator is recorded twice: an AllAdministrators link from the  *)
(* path "network.administrators" to the user, which the list and the       *)
(* last-administrator check read, and an AgentAdministrators link from     *)
(* each of the user's agents, which every permission check reads.          *)
(*                                                                         *)
(* create_user refuses a second profile for an agent and links the profile *)
(* to that agent only, so a user is named here by its agent.               *)
(***************************************************************************)
EXTENDS Dht

vars == dhtVars

Path == "network.administrators"

Init == DhtInit

\* The users whose profile exists somewhere on the network.
Users == {l.base : l \in {m \in links : m.type = "UserAgents"}}

\* get_user_agents: what agent a sees of a user's agents, possibly nothing yet.
GetUserAgents(a, user) == {l.target : l \in GetLinks(a, "UserAgents", user)}

\* The agents a caller passes for a user: getUserAgents is a call of its own,
\* awaited first, so what it returned may be older than what the caller sees by
\* now.  A user sees its own agent from the start.
PassedAgents(a, user) ==
  {GetUserAgents(a, user)} \cup {{} : other \in {user} \ {a}}

GetAllAdministratorsLinks(a) == GetLinks(a, "AllAdministrators", Path)

CheckIfEntityIsAdministrator(a, user) ==
  \E l \in GetAllAdministratorsLinks(a) : l.target = user

CheckIfAgentIsAdministrator(a, agent) ==
  GetLinks(a, "AgentAdministrators", agent) # {}

-----------------------------------------------------------------------------
\* create_user, of which this component reads the UserAgents link.
CreateUser(a) ==
  /\ GetUserAgents(a, a) = {}
  /\ Commit(a, 1, {Link(clock + 1, "UserAgents", a, a)}, {})

\* A call that is passed what an earlier call read.
PublishFor(a, agents, n, new, del) ==
  /\ Publish(a, n, new, del)
  /\ serial' = (serial /\ UpToDate(a) /\ agents # {})

\* Faults: the agents' links written the wrong way round; registering with no
\* check; registering without the agents' links.
RegisterSwapped(a, user, agents) ==
  /\ ~CheckIfEntityIsAdministrator(a, user)
  /\ PublishFor(a, agents, 1 + Cardinality(agents),
                {Link(clock + 1, "AllAdministrators", Path, user)} \cup
                  {Link(clock + 2, "AgentAdministrators", Path, p) : p \in agents},
                {})

RegisterTwice(a, user, agents) ==
  PublishFor(a, agents, 1 + Cardinality(agents),
             {Link(clock + 1, "AllAdministrators", Path, user)} \cup
               {Link(clock + 2, "AgentAdministrators", p, Path) : p \in agents},
             {})

\* register_administrator; `agents` holds at most the user's one agent.
RegisterLinks(a, user, agents) ==
  /\ ~CheckIfEntityIsAdministrator(a, user)
  /\ PublishFor(a, agents, 1 + Cardinality(agents),
                {Link(clock + 1, "AllAdministrators", Path, user)} \cup
                  {Link(clock + 2, "AgentAdministrators", p, Path) : p \in agents},
                {})

\* The "Become Network Administrator" modal: a user registers itself.
RegisterAdministrator(a) ==
  /\ a \in Users
  /\ RegisterLinks(a, a, {a})

\* The add-administrator modal: an administrator adds a user.
AddAdministrator(a, user) ==
  /\ CheckIfAgentIsAdministrator(a, a)
  /\ \E agents \in PassedAgents(a, user) : RegisterLinks(a, user, agents)

\* One AgentAdministrators link of each agent, where every agent has one.
FirstAgentLinks(a, agents) ==
  {first \in [agents -> links] :
     \A p \in agents : first[p] \in GetLinks(a, "AgentAdministrators", p)}

\* Faults: no last-administrator check; the agents' links are left behind.
RemoveAnyone(a, user) ==
  /\ CheckIfAgentIsAdministrator(a, a)
  /\ \E l \in GetAllAdministratorsLinks(a), agents \in PassedAgents(a, user) :
       /\ l.target = user
       /\ \E first \in FirstAgentLinks(a, agents) :
            PublishFor(a, agents, 0, {}, {l.id} \cup {first[p].id : p \in agents})

RemoveFromListOnly(a, user) ==
  /\ CheckIfAgentIsAdministrator(a, a)
  /\ Cardinality(GetAllAdministratorsLinks(a)) # 1
  /\ \E l \in GetAllAdministratorsLinks(a), agents \in PassedAgents(a, user) :
       /\ l.target = user
       /\ PublishFor(a, agents, 0, {}, {l.id})

\* remove_administrator: one link of the list and, for every agent given, one
\* of that agent's links; an agent without a link fails the whole call.
RemoveAdministrator(a, user) ==
  /\ CheckIfAgentIsAdministrator(a, a)
  /\ Cardinality(GetAllAdministratorsLinks(a)) # 1
  /\ \E l \in GetAllAdministratorsLinks(a), agents \in PassedAgents(a, user) :
       /\ l.target = user
       /\ \E first \in FirstAgentLinks(a, agents) :
            PublishFor(a, agents, 0, {}, {l.id} \cup {first[p].id : p \in agents})

Next ==
  \/ \E a \in Agents : CreateUser(a) \/ RegisterAdministrator(a)
  \/ \E a \in Agents, user \in Users : AddAdministrator(a, user)
                                       \/ RemoveAdministrator(a, user)
  \/ Gossip

Spec == Init /\ [][Next]_vars

-----------------------------------------------------------------------------
(* Properties. *)

LinkType ==
  [id : Nat, type : {"UserAgents"}, base : Agents, target : Agents] \cup
  [id : Nat, type : {"AllAdministrators"}, base : {Path}, target : Agents] \cup
  [id : Nat, type : {"AgentAdministrators"}, base : Agents, target : {Path}]

\* Type invariant: ids are never given twice, an agent holds only what was
\* published, and every link is of a shape the zome creates.
TypeOK ==
  /\ DhtTypeOK
  /\ links \subseteq LinkType

Listed(user) == {l \in Live("AllAdministrators", Path) : l.target = user}

\* The two records of an administrator agree (administration.rs:17-32, 105-129):
\* as long as every call ran on a complete copy of the table, a user is on the
\* list exactly when its agent passes the permission check, by one link each.
\* A stray agent link would leave a removed administrator in power, a stray
\* list entry would count as the remaining administrator of the last check.
ListMatchesAgents ==
  serial =>
    \A u \in Agents :
      \/ Listed(u) = {} /\ Live("AgentAdministrators", u) = {}
      \/ \E l, m \in links : /\ Listed(u) = {l}
                             /\ Live("AgentAdministrators", u) = {m}

\* remove_administrator never takes the last administrator away
\* (administration.rs:101-103): once there was one, the list keeps one, and so
\* do the permission checks, as long as every call saw the complete table.
AdministratorRemains ==
  (serial /\ \E l \in links : l.type = "AllAdministrators") =>
    \E u \in Agents : Listed(u) # {} /\ Live("AgentAdministrators", u) # {}

\* What administration.md:81 says of remove_administrator ("Ensures at least
\* one administrator remains"), of every behaviour: two administrators that
\* remove one another before they hear of it both pass the check.
AlwaysAnAdministrator ==
  (\E l \in links : l.type = "AllAdministrators") =>
    Live("AllAdministrators", Path) # {}
=============================================================================
