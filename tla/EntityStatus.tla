----------------------------- MODULE EntityStatus -----------------------------
(***************************************************************************)
(* The moderation status of users and organizations: the calls of          *)
(* administration/src/status.rs and the store functions that prepare their *)
(* inputs.                                                                 *)
(*                                                                         *)
(* An entity's current status is the target of its EntityStatus link, and  *)
(* the entities that may act are read from the AcceptedEntity links of one *)
(* path.  A change of status rewrites both, under what the caller sees.    *)
(*                                                                         *)
(* The AllStatuses links are left out: get_latest_status_record looks for  *)
(* them on a status, where none is ever created, and then takes the status *)
(* itself.  The paths of users and of organizations are kept apart and     *)
(* treated alike; the entities here are those of one kind.  Only an        *)
(* organization can be deleted: validation refuses a deleted user, and     *)
(* with it the whole call.                                                 *)
(***************************************************************************)
EXTENDS Dht, Integers

CONSTANTS
  Admins,       \* the agents with an AgentAdministrators link
  Decisions,    \* the statuses administrators set by hand
  Durations,    \* the lengths of temporary suspensions
  Hour,         \* one hour in ticks of the clock
  MaxTime,      \* bound: ticks
  MaxEntities   \* bound: entities created

StatusTypes == {"pending", "accepted", "rejected",
                "suspended indefinitely", "suspended temporarily"}

ASSUME StatusAssumption ==
  /\ Admins \subseteq Agents
  /\ Decisions \subseteq StatusTypes \ {"pending"}
  /\ Durations \subseteq Nat
  /\ Hour \in Nat \ {0}
  /\ MaxTime \in Nat
  /\ MaxEntities \in Nat

VARIABLES
  entities,   \* ids of the user and organization records
  statuses,   \* the status entries
  now,        \* the time of the agents' clocks, in ticks
  shown       \* shown[a][e]: the status of e that agent a's store holds, or 0

statusVars == <<entities, statuses, now, shown>>
vars == <<dhtVars, statusVars>>

AcceptedPath == "status.accepted"

\* A status entry; prev is the entry it updates, 0 for a created one.
Status(id, entity, type, until, prev) ==
  [id |-> id, entity |-> entity, type |-> type, until |-> until, prev |-> prev]

StatusOf(id) == CHOOSE s \in statuses : s.id = id

Init ==
  /\ DhtInit
  /\ entities = {}
  /\ statuses = {}
  /\ now = 0
  /\ shown = [a \in Agents |-> [e \in 1 .. MaxOps |-> 0]]

-----------------------------------------------------------------------------
(* Reads. *)

EntityStatusLinks(a, e) == GetLinks(a, "EntityStatus", e)

AcceptedLinks(a, e) == {l \in GetLinks(a, "AcceptedEntity", AcceptedPath) : l.target = e}

\* The first link of a list, as the set of its id; nothing of an empty list.
FirstId(ls) == IF ls = {} THEN {{}} ELSE {{l.id} : l \in ls}

\* getEntityStatusHistory: the entry the current one updates, or a created one
\* itself, with the direct updates of that entry.
History(a, e) ==
  UNION {LET root == IF StatusOf(l.target).prev = 0 THEN l.target
                                                    ELSE StatusOf(l.target).prev
         IN  {root} \cup {u.target : u \in GetLinks(a, "StatusUpdates", root)} :
           l \in EntityStatusLinks(a, e)}

-----------------------------------------------------------------------------
(* Calls. *)

\* Fault: the status link is written the wrong way round.
CreateSwapped(a) ==
  /\ Cardinality(entities) < MaxEntities
  /\ Commit(a, 3, {Link(clock + 3, "EntityStatus", clock + 2, clock + 1)}, {})
  /\ entities' = entities \cup {clock + 1}
  /\ statuses' = statuses \cup {Status(clock + 2, clock + 1, "pending", 0, 0)}
  /\ UNCHANGED <<now, shown>>

\* create_user and create_organization, up to the status: a new record, with
\* the pending status create_status gives it.
CreateEntity(a) ==
  LET e == clock + 1
      s == clock + 2
  IN  /\ Cardinality(entities) < MaxEntities
      /\ EntityStatusLinks(a, e) = {}
      /\ Commit(a, 3, {Link(clock + 3, "EntityStatus", e, s)}, {})
      /\ entities' = entities \cup {e}
      /\ statuses' = statuses \cup {Status(s, e, "pending", 0, 0)}
      /\ UNCHANGED <<now, shown>>

\* getLatestStatusForEntity: the store takes the entry behind the first link.
LoadStatus(a, e) ==
  /\ Found(a, e)
  /\ \E l \in EntityStatusLinks(a, e) :
       /\ Found(a, l.target)
       /\ shown' = [shown EXCEPT ![a][e] = l.target]
  /\ UNCHANGED <<dhtVars, entities, statuses, now>>

\* What every successful update leaves behind besides its links.
Recorded(a, e, type, until, prev) ==
  /\ statuses' = statuses \cup {Status(clock + 1, e, type, until, prev)}
  /\ shown' = [shown EXCEPT ![a][e] = clock + 1]
  /\ UNCHANGED <<entities, now>>

\* The links of a status that is accepted, with the given id.
AcceptedLink(id, e, type) ==
  IF type = "accepted" THEN {Link(id, "AcceptedEntity", AcceptedPath, e)} ELSE {}

\* Faults: the old accepted link, or the old status link, is not removed.
UpdateKeepsAccepted(a, e, type, until) ==
  /\ a \in Admins /\ Found(a, e) /\ shown[a][e] # 0
  /\ \E old \in EntityStatusLinks(a, e) :
       LET extra == AcceptedLink(clock + 4, e, type)
       IN  Commit(a, 3 + Cardinality(extra),
                  {Link(clock + 2, "EntityStatus", e, clock + 1),
                   Link(clock + 3, "StatusUpdates", shown[a][e], clock + 1)} \cup extra,
                  {old.id})
  /\ Recorded(a, e, type, until, shown[a][e])

UpdateKeepsStatus(a, e, type, until) ==
  /\ a \in Admins /\ Found(a, e) /\ shown[a][e] # 0
  /\ \E accepted \in FirstId(AcceptedLinks(a, e)) :
       LET extra == AcceptedLink(clock + 4, e, type)
       IN  Commit(a, 3 + Cardinality(extra),
                  {Link(clock + 2, "EntityStatus", e, clock + 1),
                   Link(clock + 3, "StatusUpdates", shown[a][e], clock + 1)} \cup extra,
                  accepted)
  /\ Recorded(a, e, type, until, shown[a][e])

UpdateForgetsStatus(a, e, type, until) ==
  /\ a \in Admins /\ Found(a, e) /\ shown[a][e] # 0
  /\ \E old \in EntityStatusLinks(a, e), accepted \in FirstId(AcceptedLinks(a, e)) :
       LET extra == AcceptedLink(clock + 3, e, type)
       IN  Commit(a, 2 + Cardinality(extra),
                  {Link(clock + 2, "StatusUpdates", shown[a][e], clock + 1)} \cup extra,
                  {old.id} \cup accepted)
  /\ Recorded(a, e, type, until, shown[a][e])

\* update_entity_status.  The store passes the status it holds both as the
\* original and as the previous one.  Without an EntityStatus link in sight a
\* status is created, otherwise the held one is updated and the first link is
\* replaced; then the first accepted link goes, and comes back if accepted.
UpdateEntityStatus(a, e, type, until) ==
  /\ a \in Admins
  /\ Found(a, e)
  /\ shown[a][e] # 0
  /\ \E accepted \in FirstId(AcceptedLinks(a, e)) :
       \/ LET extra == AcceptedLink(clock + 3, e, type)
          IN  /\ EntityStatusLinks(a, e) = {}
              /\ Commit(a, 2 + Cardinality(extra),
                        {Link(clock + 2, "EntityStatus", e, clock + 1)} \cup extra,
                        accepted)
              /\ Recorded(a, e, type, until, 0)
       \/ \E old \in EntityStatusLinks(a, e) :
            LET extra == AcceptedLink(clock + 4, e, type)
            IN  /\ Commit(a, 3 + Cardinality(extra),
                          {Link(clock + 2, "EntityStatus", e, clock + 1),
                           Link(clock + 3, "StatusUpdates", shown[a][e], clock + 1)} \cup extra,
                          {old.id} \cup accepted)
                /\ Recorded(a, e, type, until, shown[a][e])

\* approveUser, rejectUser, suspendUser without a date, unsuspendUser, and the
\* same for organizations; suspend_entity_indefinitely and unsuspend_entity.
Decide(a, e) ==
  \E type \in Decisions \ {"suspended temporarily"} : UpdateEntityStatus(a, e, type, 0)

\* suspendUser with a date and suspend_entity_temporarily.
SuspendTemporarily(a, e) ==
  /\ "suspended temporarily" \in Decisions
  /\ \E d \in Durations : UpdateEntityStatus(a, e, "suspended temporarily", now + d)

\* unsuspend_if_time_passed on a status entry.
TimePassed(s) == s.type = "suspended temporarily" /\ s.until - now < Hour

\* unsuspend_entity_if_time_passed.
UnsuspendIfTimePassed(a, e) ==
  /\ \E l \in EntityStatusLinks(a, e) :
       /\ Found(a, l.target)
       /\ TimePassed(StatusOf(l.target))
  /\ UpdateEntityStatus(a, e, "accepted", 0)

\* Fault: the accepted link outlives the entity.
DeleteKeepsAccepted(a, e) ==
  /\ e \in seen[a]
  /\ \E l \in EntityStatusLinks(a, e) : Commit(a, 0, {}, {l.id, e})
  /\ UNCHANGED statusVars

\* delete_status, which deletes the entry of the entity; deleting it again is
\* no error (delete_organization does so).
DeleteStatus(a, e) ==
  /\ e \in seen[a]
  /\ \E l \in EntityStatusLinks(a, e), accepted \in FirstId(AcceptedLinks(a, e)) :
       Commit(a, 0, {}, {l.id, e} \cup accepted)
  /\ UNCHANGED statusVars

Tick ==
  /\ now < MaxTime
  /\ now' = now + 1
  /\ UNCHANGED <<dhtVars, entities, statuses, shown>>

Deliver == Gossip /\ UNCHANGED statusVars

Next ==
  \/ \E a \in Agents : CreateEntity(a)
  \/ \E a \in Agents, e \in entities : \/ LoadStatus(a, e)
                                       \/ Decide(a, e)
                                       \/ SuspendTemporarily(a, e)
                                       \/ UnsuspendIfTimePassed(a, e)
                                       \/ DeleteStatus(a, e)
  \/ Tick
  \/ Deliver

Spec == Init /\ [][Next]_vars

\* The behaviours in which every call runs on a complete copy of the table.
NoOverlapSpec == Init /\ [][Next /\ serial']_vars

-----------------------------------------------------------------------------
(* Properties. *)

LinkType ==
  [id : Nat, type : {"EntityStatus"}, base : entities, target : {s.id : s \in statuses}]
  \cup
  [id : Nat, type : {"StatusUpdates"}, base : {s.id : s \in statuses},
   target : {s.id : s \in statuses}]
  \cup
  [id : Nat, type : {"AcceptedEntity"}, base : {AcceptedPath}, target : entities]

StatusType ==
  [id : Ids, entity : entities, type : StatusTypes, until : Nat,
   prev : {0} \cup {s.id : s \in statuses}]

\* Type invariant: every link joins records that exist, every status entry has
\* an id of its own, and a store only holds statuses of the entity it shows.
TypeOK ==
  /\ DhtTypeOK
  /\ links \subseteq LinkType
  /\ entities \subseteq Ids
  /\ statuses \subseteq StatusType
  /\ now \in Nat
  /\ shown \in [Agents -> [1 .. MaxOps -> {0} \cup {s.id : s \in statuses}]]
  /\ \A s, t \in statuses : s.id = t.id => s = t
  /\ \A l \in links : l.type = "EntityStatus" => StatusOf(l.target).entity = l.base
  /\ \A a \in Agents, e \in 1 .. MaxOps :
       shown[a][e] # 0 => StatusOf(shown[a][e]).entity = e

Accepted(e) == {l \in Live("AcceptedEntity", AcceptedPath) : l.target = e}

\* An entity never loses its status (status.rs:281-316, 446-458), whatever the
\* calls overlap with: an update that replaces a link others have replaced
\* already still adds its own, so some EntityStatus link remains until the
\* entity is deleted.
NeverStatusless ==
  \A e \in entities \ dead : Live("EntityStatus", e) # {}

\* Without overlapping calls an entity has one current status (status.rs:26-28,
\* 255-316), and none once it is deleted (446-458).
OneStatus ==
  serial =>
    \A e \in entities :
      IF e \in dead THEN Live("EntityStatus", e) = {}
                    ELSE \E l \in links : Live("EntityStatus", e) = {l}

\* Without overlapping calls the accepted list says what the status says
\* (status.rs:318-328): one accepted link for an accepted entity, none for any
\* other, none for a deleted one.
AcceptedMatchesStatus ==
  serial =>
    \A e \in entities :
      IF \E l \in Live("EntityStatus", e) : StatusOf(l.target).type = "accepted"
      THEN \E m \in links : Accepted(e) = {m}
      ELSE Accepted(e) = {}

\* What history-revision-feature.md:5 says of the status history ("a complete
\* audit trail of all status changes"): an agent with a complete copy is shown
\* every status an entity has had.
HistoryComplete ==
  \A a \in Agents, e \in entities \ dead :
    serial /\ UpToDate(a) => History(a, e) = {s.id : s \in {t \in statuses : t.entity = e}}

\* What administration.md:217 says of unsuspend_entity_if_time_passed
\* ("Auto-unsuspends if time passed"), where nobody accepts by hand: an accepted
\* status updates a suspension whose time has passed by now.
UnsuspendsOnceTimePassed ==
  "accepted" \notin Decisions =>
    \A s \in statuses :
      s.type = "accepted" => \E p \in statuses : p.id = s.prev /\ p.until <= now
-----------------------------------------------------------------------------
(* The refinement of StatusRegister. *)

\* The status behind the live link of an entity, "none" before and after its life.
CurrentStatus(e) ==
  IF e \in entities /\ Live("EntityStatus", e) # {}
  THEN StatusOf((CHOOSE l \in Live("EntityStatus", e) : TRUE).target).type
  ELSE "none"

Register ==
  INSTANCE StatusRegister WITH
    Entities <- 1 .. MaxOps,
    Types    <- StatusTypes \ {"pending"},
    register <- [e \in 1 .. MaxOps |-> CurrentStatus(e)],
    deleted  <- {e \in entities : e \in dead},
    accepted <- {l.target : l \in Live("AcceptedEntity", AcceptedPath)}

\* As long as calls do not overlap, they are atomic operations on a register
\* (status.rs:13-50, 242-334, 446-458).
ImplementsRegister ==
  /\ Register!Init
  /\ [][serial' => Register!Next]_Register!registerVars
=============================================================================
