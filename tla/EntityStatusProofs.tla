-------------------------- MODULE EntityStatusProofs --------------------------
(***************************************************************************)
(* An entity never loses its status, and without overlapping calls it has  *)
(* one, which the accepted list agrees with; calls that do not overlap are *)
(* operations of StatusRegister, and a suspension is lifted near its end   *)
(* only.  For any number of agents, entities and calls.                    *)
(***************************************************************************)
EXTENDS EntityStatus, DhtProofs, FiniteSetTheorems

\* A deleted link is not a deleted entity, nor the other way round.
LinkIsNoEntity == \A l \in links : l.id \notin entities

IInv ==
  /\ TypeOK
  /\ clock <= MaxOps
  /\ LinkIsNoEntity
  /\ NeverStatusless
  /\ OneStatus
  /\ AcceptedMatchesStatus

\* The entry with an id is found by its id.
LEMMA StatusById ==
  ASSUME \A s, t \in statuses : s.id = t.id => s = t, NEW s \in statuses
  PROVE  StatusOf(s.id) = s
BY DEF StatusOf

\* A new entry leaves the old ones where they were.
LEMMA StatusKept ==
  ASSUME TypeOK, NEW new, statuses' = statuses \cup {new}, new.id \notin Ids
  PROVE  /\ \A s, t \in statuses' : s.id = t.id => s = t
         /\ \A s \in statuses : StatusOf(s.id)' = StatusOf(s.id) /\ StatusOf(s.id) = s
         /\ StatusOf(new.id)' = new
<1>1. \A s \in statuses : s.id # new.id
  BY DEF TypeOK, StatusType
<1>2. \A s, t \in statuses' : s.id = t.id => s = t
  BY <1>1 DEF TypeOK
<1>3. \A s \in statuses : StatusOf(s.id) = s
  BY StatusById DEF TypeOK
<1>4. \A s \in statuses' : StatusOf(s.id)' = s
  BY <1>2 DEF StatusOf
<1> QED BY <1>2, <1>3, <1>4

-----------------------------------------------------------------------------
(* What an update publishes. *)

NewStatusLink(e) == Link(clock + 2, "EntityStatus", e, clock + 1)

UpdateShape(a, e, type, until, n, new, del, prev) ==
  /\ n \in Nat /\ n >= 2
  /\ Commit(a, n, new, del)
  /\ FreshLinks(n, new)
  /\ Recorded(a, e, type, until, prev)
  /\ prev \in {0, shown[a][e]}
  /\ NewStatusLink(e) \in new
  /\ \A l \in new :
       \/ l = NewStatusLink(e)
       \/ l = Link(clock + 3, "StatusUpdates", shown[a][e], clock + 1)
       \/ l \in AcceptedLink(clock + n, e, type)
  /\ AcceptedLink(clock + n, e, type) \subseteq new
  /\ del \subseteq {l.id : l \in EntityStatusLinks(a, e) \cup AcceptedLinks(a, e)}
  /\ EntityStatusLinks(a, e) # {} => \E l \in EntityStatusLinks(a, e) : l.id \in del
  /\ AcceptedLinks(a, e) # {} => \E l \in AcceptedLinks(a, e) : l.id \in del

LEMMA UpdateHasShape ==
  ASSUME IInv, NEW a \in Agents, NEW e \in entities, NEW type, NEW until,
         UpdateEntityStatus(a, e, type, until)
  PROVE  \E n, new, del, prev : UpdateShape(a, e, type, until, n, new, del, prev)
<1>1. clock \in Nat
  BY DEF IInv, TypeOK, DhtTypeOK
<1>2. PICK accepted \in FirstId(AcceptedLinks(a, e)) :
        \/ /\ EntityStatusLinks(a, e) = {}
           /\ Commit(a, 2 + Cardinality(AcceptedLink(clock + 3, e, type)),
                     {NewStatusLink(e)} \cup AcceptedLink(clock + 3, e, type), accepted)
           /\ Recorded(a, e, type, until, 0)
        \/ \E old \in EntityStatusLinks(a, e) :
             /\ Commit(a, 3 + Cardinality(AcceptedLink(clock + 4, e, type)),
                       {NewStatusLink(e), Link(clock + 3, "StatusUpdates", shown[a][e], clock + 1)}
                         \cup AcceptedLink(clock + 4, e, type),
                       {old.id} \cup accepted)
             /\ Recorded(a, e, type, until, shown[a][e])
  BY DEF UpdateEntityStatus, NewStatusLink
<1>3. /\ accepted \subseteq {l.id : l \in AcceptedLinks(a, e)}
      /\ AcceptedLinks(a, e) # {} => \E l \in AcceptedLinks(a, e) : l.id \in accepted
  BY DEF FirstId
<1>4. \A k \in Nat :
        \/ AcceptedLink(k, e, type) = {} /\ Cardinality(AcceptedLink(k, e, type)) = 0
        \/ /\ AcceptedLink(k, e, type) = {Link(k, "AcceptedEntity", AcceptedPath, e)}
           /\ Cardinality(AcceptedLink(k, e, type)) = 1
           /\ type = "accepted"
  BY FS_EmptySet, FS_Singleton DEF AcceptedLink
<1>5. CASE /\ EntityStatusLinks(a, e) = {}
           /\ Commit(a, 2 + Cardinality(AcceptedLink(clock + 3, e, type)),
                     {NewStatusLink(e)} \cup AcceptedLink(clock + 3, e, type), accepted)
           /\ Recorded(a, e, type, until, 0)
  <2> DEFINE n == 2 + Cardinality(AcceptedLink(clock + 3, e, type))
             new == {NewStatusLink(e)} \cup AcceptedLink(clock + 3, e, type)
  <2>1. \/ n = 2 /\ new = {NewStatusLink(e)} /\ AcceptedLink(clock + n, e, type) = {}
        \/ /\ n = 3 /\ AcceptedLink(clock + n, e, type) = AcceptedLink(clock + 3, e, type)
           /\ new = {NewStatusLink(e), Link(clock + 3, "AcceptedEntity", AcceptedPath, e)}
    BY <1>1, <1>4 DEF AcceptedLink
  <2>2. FreshLinks(n, new)
    BY <1>1, <2>1 DEF FreshLinks, NewStatusLink, Link
  <2>3. \A l \in new : l = NewStatusLink(e) \/ l \in AcceptedLink(clock + n, e, type)
    BY <2>1, <1>1, <1>4
  <2>4. AcceptedLink(clock + n, e, type) \subseteq new
    BY <2>1
  <2>5. UpdateShape(a, e, type, until, n, new, accepted, 0)
    BY <1>3, <1>5, <2>1, <2>2, <2>3, <2>4 DEF UpdateShape
  <2> QED BY <2>5
<1>6. ASSUME NEW old \in EntityStatusLinks(a, e),
             Commit(a, 3 + Cardinality(AcceptedLink(clock + 4, e, type)),
                    {NewStatusLink(e), Link(clock + 3, "StatusUpdates", shown[a][e], clock + 1)}
                      \cup AcceptedLink(clock + 4, e, type),
                    {old.id} \cup accepted),
             Recorded(a, e, type, until, shown[a][e])
      PROVE  \E n, new, del, prev : UpdateShape(a, e, type, until, n, new, del, prev)
  <2> DEFINE step == Link(clock + 3, "StatusUpdates", shown[a][e], clock + 1)
             n == 3 + Cardinality(AcceptedLink(clock + 4, e, type))
             new == {NewStatusLink(e), step} \cup AcceptedLink(clock + 4, e, type)
             del == {old.id} \cup accepted
  <2>1. \/ n = 3 /\ new = {NewStatusLink(e), step} /\ AcceptedLink(clock + n, e, type) = {}
        \/ /\ n = 4 /\ AcceptedLink(clock + n, e, type) = AcceptedLink(clock + 4, e, type)
           /\ new = {NewStatusLink(e), step, Link(clock + 4, "AcceptedEntity", AcceptedPath, e)}
    <3>1. CASE type = "accepted"
      <4>1. /\ AcceptedLink(clock + 4, e, type) = {Link(clock + 4, "AcceptedEntity", AcceptedPath, e)}
            /\ n = 4
        BY <3>1, FS_Singleton DEF AcceptedLink
      <4> QED BY <4>1
    <3>2. CASE type # "accepted"
      <4>1. \A k : AcceptedLink(k, e, type) = {}
        BY <3>2 DEF AcceptedLink
      <4>2. n = 3
        BY <4>1, FS_EmptySet
      <4> QED BY <4>1, <4>2
    <3> QED BY <3>1, <3>2
  <2>2. FreshLinks(n, new)
    BY <1>1, <2>1 DEF FreshLinks, NewStatusLink, Link
  <2>3. \A l \in new : l = NewStatusLink(e) \/ l = step \/ l \in AcceptedLink(clock + n, e, type)
    BY <2>1, <1>1, <1>4
  <2>4. AcceptedLink(clock + n, e, type) \subseteq new
    BY <2>1
  <2>5. /\ del \subseteq {l.id : l \in EntityStatusLinks(a, e) \cup AcceptedLinks(a, e)}
        /\ \E l \in EntityStatusLinks(a, e) : l.id \in del
        /\ AcceptedLinks(a, e) # {} => \E l \in AcceptedLinks(a, e) : l.id \in del
    BY <1>3
  <2>6. UpdateShape(a, e, type, until, n, new, del, shown[a][e])
    BY <1>6, <2>1, <2>2, <2>3, <2>4, <2>5 DEF UpdateShape
  <2> QED BY <2>6
<1>7. CASE EntityStatusLinks(a, e) = {}
  BY <1>2, <1>5, <1>7
<1>8. CASE EntityStatusLinks(a, e) # {}
  <2>1. PICK old \in EntityStatusLinks(a, e) :
          /\ Commit(a, 3 + Cardinality(AcceptedLink(clock + 4, e, type)),
                    {NewStatusLink(e), Link(clock + 3, "StatusUpdates", shown[a][e], clock + 1)}
                      \cup AcceptedLink(clock + 4, e, type),
                    {old.id} \cup accepted)
          /\ Recorded(a, e, type, until, shown[a][e])
    BY <1>2, <1>8
  <2> QED BY <1>6, <2>1
<1> QED BY <1>7, <1>8

-----------------------------------------------------------------------------
(* Each step keeps the invariant. *)

LEMMA InitInv == Init => IInv
<1> SUFFICES ASSUME Init PROVE IInv
  OBVIOUS
<1>1. DhtTypeOK
  BY DEF Init, DhtInit, DhtTypeOK, Ids
<1>2. TypeOK
  BY <1>1 DEF Init, DhtInit, TypeOK, LinkType, StatusType
<1> QED BY <1>2, DhtAssumption
        DEF Init, DhtInit, IInv, LinkIsNoEntity, NeverStatusless, OneStatus, AcceptedMatchesStatus

\* Records and links that are only added keep their type.
LEMMA TypesGrow ==
  ASSUME TypeOK, entities \subseteq entities', statuses \subseteq statuses', clock <= clock',
         clock' \in Nat
  PROVE  LinkType \subseteq LinkType' /\ StatusType \subseteq StatusType'
<1>1. Ids \subseteq Ids'
  BY DEF TypeOK, DhtTypeOK, Ids
<1> QED BY <1>1 DEF LinkType, StatusType

\* What a store holds is 0 or the id of an entry.
LEMMA ShownIsStatus ==
  ASSUME TypeOK, NEW a \in Agents, NEW e \in 1 .. MaxOps, shown[a][e] # 0
  PROVE  \E s \in statuses : shown[a][e] = s.id
<1>1. shown \in [Agents -> [1 .. MaxOps -> {0} \cup {s.id : s \in statuses}]]
  BY DEF TypeOK
<1>2. shown[a][e] \in {0} \cup {s.id : s \in statuses}
  BY <1>1
<1> QED BY <1>2

\* A call that publishes one status entry, with its links, keeps the types.
LEMMA NewStatusKeepsTypes ==
  ASSUME TypeOK, DhtTypeOK', clock <= clock', entities \subseteq entities', entities' \subseteq Ids',
         NEW s, statuses' = statuses \cup {s}, s.id \notin Ids, s \in StatusType',
         NEW new, links' = links \cup new, new \subseteq LinkType',
         \A l \in new : l.type = "EntityStatus" => l.target = s.id /\ l.base = s.entity,
         shown' = shown \/ \E a \in Agents : shown' = [shown EXCEPT ![a][s.entity] = s.id],
         now' = now
  PROVE  TypeOK'
<1>1. LinkType \subseteq LinkType' /\ StatusType \subseteq StatusType'
  BY TypesGrow DEF DhtTypeOK
<1>2. /\ \A t, u \in statuses' : t.id = u.id => t = u
      /\ \A t \in statuses : StatusOf(t.id)' = StatusOf(t.id) /\ StatusOf(t.id) = t
      /\ StatusOf(s.id)' = s
  BY StatusKept
<1>3. links' \subseteq LinkType' /\ statuses' \subseteq StatusType'
  BY <1>1 DEF TypeOK
<1>4. \A l \in links' : l.type = "EntityStatus" => StatusOf(l.target)'.entity = l.base
  <2>1. \A l \in links : l.type = "EntityStatus" => \E t \in statuses : l.target = t.id
    BY DEF TypeOK, LinkType
  <2>2. \A l \in links : l.type = "EntityStatus" => StatusOf(l.target)'.entity = l.base
    BY <1>2, <2>1 DEF TypeOK
  <2>3. \A l \in new : l.type = "EntityStatus" => StatusOf(l.target)'.entity = l.base
    BY <1>2
  <2> QED BY <2>2, <2>3
<1>5. /\ shown \in [Agents -> [1 .. MaxOps -> {0} \cup {t.id : t \in statuses'}]]
      /\ s.id \in {0} \cup {t.id : t \in statuses'}
  BY DEF TypeOK
<1>6. /\ shown' \in [Agents -> [1 .. MaxOps -> {0} \cup {t.id : t \in statuses'}]]
      /\ \A b \in Agents, k \in 1 .. MaxOps :
           shown'[b][k] = shown[b][k] \/ (shown'[b][k] = s.id /\ k = s.entity)
  <2>1. CASE shown' = shown
    BY <1>5, <2>1
  <2>2. ASSUME NEW a \in Agents, shown' = [shown EXCEPT ![a][s.entity] = s.id]
        PROVE  <1>6!1 /\ <1>6!2
    <3> DEFINE F == [1 .. MaxOps -> {0} \cup {t.id : t \in statuses'}]
    <3> HIDE DEF F
    <3>1. shown \in [Agents -> F]
      BY <1>5 DEF F
    <3>2. shown' = [shown EXCEPT ![a] = [shown[a] EXCEPT ![s.entity] = s.id]]
      BY <2>2
    <3>3. [shown[a] EXCEPT ![s.entity] = s.id] \in F
      BY <1>5 DEF F
    <3>4. shown' \in [Agents -> F]
      BY <3>1, <3>2, <3>3
    <3>5. \A k \in 1 .. MaxOps : [shown[a] EXCEPT ![s.entity] = s.id][k]
                                  = IF k = s.entity THEN s.id ELSE shown[a][k]
      BY <1>5
    <3>6. \A b \in Agents : shown'[b] = IF b = a THEN [shown[a] EXCEPT ![s.entity] = s.id]
                                                    ELSE shown[b]
      BY <3>1, <3>2
    <3> QED BY <3>4, <3>5, <3>6 DEF F
  <2> QED BY <2>1, <2>2
<1>7. ASSUME NEW b \in Agents, NEW k \in 1 .. MaxOps, shown'[b][k] # 0
      PROVE  StatusOf(shown[b][k])'.entity = k
  <2>1. shown'[b][k] = shown[b][k] \/ (shown'[b][k] = s.id /\ k = s.entity)
    BY <1>6
  <2>2. CASE shown'[b][k] = shown[b][k]
    <3>1. PICK t \in statuses : shown[b][k] = t.id
      BY <1>7, <2>2, ShownIsStatus
    <3>2. StatusOf(shown[b][k]).entity = k
      BY <1>7, <2>2 DEF TypeOK
    <3>3. StatusOf(shown[b][k])' = StatusOf(t.id)'
      BY <2>2, <3>1
    <3> QED BY <1>2, <3>1, <3>2, <3>3
  <2>3. CASE shown'[b][k] = s.id /\ k = s.entity
    <3>1. StatusOf(shown[b][k])' = StatusOf(s.id)'
      BY <2>3
    <3> QED BY <1>2, <2>3, <3>1
  <2> QED BY <2>1, <2>2, <2>3
<1>8. now' \in Nat
  BY DEF TypeOK
<1> QED BY <1>2, <1>3, <1>4, <1>6, <1>7, <1>8 DEF TypeOK

LEMMA CreateEntityInv ==
  ASSUME IInv, NEW a \in Agents, CreateEntity(a)
  PROVE  IInv'
<1>0. PICK c, e, s, link :
        /\ c = clock /\ e = c + 1
        /\ s = Status(c + 2, e, "pending", 0, 0)
        /\ link = Link(c + 3, "EntityStatus", e, c + 2)
  OBVIOUS
<1>1. c \in Nat /\ e \notin Ids /\ c + 2 \notin Ids
  BY <1>0 DEF IInv, TypeOK, DhtTypeOK, Ids
<1>2. /\ Commit(a, 3, {link}, {})
      /\ entities' = entities \cup {e} /\ statuses' = statuses \cup {s}
      /\ now' = now /\ shown' = shown
  BY <1>0 DEF CreateEntity
<1>3. FreshLinks(3, {link})
  BY <1>0, <1>1 DEF FreshLinks, Link
<1>4. DhtTypeOK'
  BY <1>2, <1>3, CommitKeepsTable DEF IInv, TypeOK
<1>5. /\ clock' = c + 3 /\ clock' <= MaxOps
      /\ links' = links \cup {link} /\ dead' = dead /\ (serial' => serial)
  BY <1>0, <1>2 DEF Commit, Publish
<1>6. /\ \A t, u \in statuses' : t.id = u.id => t = u
      /\ \A t \in statuses : StatusOf(t.id)' = StatusOf(t.id) /\ StatusOf(t.id) = t
      /\ StatusOf(c + 2)' = s
  BY <1>0, <1>1, <1>2, StatusKept DEF IInv, Status
<1>7. TypeOK'
  <2>1. clock <= clock' /\ s.id \notin Ids /\ Ids' = Ids \cup {e, e + 1, e + 2}
    BY <1>0, <1>1, <1>5 DEF Ids, Status
  <2>2. s \in StatusType' /\ {link} \subseteq LinkType'
    BY <1>0, <1>1, <1>2, <1>5 DEF StatusType, StatusTypes, Status, LinkType, Link, Ids
  <2>3. entities' \subseteq Ids'
    BY <1>2, <2>1 DEF IInv, TypeOK
  <2>4. link.target = s.id /\ link.base = s.entity
    BY <1>0 DEF Link, Status
  <2> QED BY <1>2, <1>4, <1>5, <2>1, <2>2, <2>3, <2>4, NewStatusKeepsTypes DEF IInv
<1>8. /\ Live("EntityStatus", e)' = {link}
      /\ \A k \in entities : Live("EntityStatus", k)' = Live("EntityStatus", k)
      /\ \A l \in links : l.type = "EntityStatus" => l.base \in entities
  <2>1. \A l \in links : l.type = "EntityStatus" => l.base \in entities
    BY DEF IInv, TypeOK, LinkType
  <2>2. e \notin entities /\ c + 3 \notin dead
    BY <1>0, <1>1 DEF IInv, TypeOK, DhtTypeOK, Ids
  <2> QED BY <1>0, <1>5, <2>1, <2>2 DEF Live, Link
<1>9. \A k : Accepted(k)' = Accepted(k)
  BY <1>0, <1>5 DEF Accepted, Live, Link
<1>10. e \notin dead /\ Accepted(e) = {}
  BY <1>0, <1>1 DEF IInv, TypeOK, DhtTypeOK, LinkType, Accepted, Live
<1>11. NeverStatusless'
  BY <1>2, <1>5, <1>8 DEF IInv, NeverStatusless
<1>12. OneStatus'
  BY <1>2, <1>5, <1>8, <1>10 DEF IInv, OneStatus
<1>13. AcceptedMatchesStatus'
  <2> SUFFICES ASSUME serial', NEW k \in entities'
               PROVE IF \E l \in Live("EntityStatus", k)' : StatusOf(l.target)'.type = "accepted"
                     THEN \E m \in links' : Accepted(k)' = {m}
                     ELSE Accepted(k)' = {}
    BY DEF AcceptedMatchesStatus
  <2>1. CASE k = e
    BY <1>0, <1>6, <1>8, <1>9, <1>10, <2>1 DEF Link, Status
  <2>2. CASE k \in entities
    <3>1. \A l \in Live("EntityStatus", k) : StatusOf(l.target)' = StatusOf(l.target)
      BY <1>6 DEF IInv, TypeOK, LinkType, Live
    <3> QED BY <1>5, <1>8, <1>9, <2>2, <3>1 DEF IInv, AcceptedMatchesStatus
  <2> QED BY <1>2, <2>1, <2>2
<1>14. LinkIsNoEntity'
  BY <1>0, <1>1, <1>2, <1>5 DEF IInv, LinkIsNoEntity, TypeOK, DhtTypeOK, Link, Ids
<1> QED BY <1>5, <1>7, <1>11, <1>12, <1>13, <1>14 DEF IInv

LEMMA UpdateInv ==
  ASSUME IInv, NEW a \in Agents, NEW e \in entities, NEW type \in StatusTypes, NEW until \in Nat,
         UpdateEntityStatus(a, e, type, until)
  PROVE  IInv'
<1>1. PICK n, new, del, prev : UpdateShape(a, e, type, until, n, new, del, prev)
  BY UpdateHasShape
<1>2. PICK c, s, link, extra :
        /\ c = clock
        /\ s = Status(c + 1, e, type, until, prev)
        /\ link = Link(c + 2, "EntityStatus", e, c + 1)
        /\ extra = AcceptedLink(c + n, e, type)
  OBVIOUS
<1>3. c \in Nat /\ n \in Nat /\ n >= 2 /\ Commit(a, n, new, del) /\ FreshLinks(n, new)
  BY <1>1, <1>2 DEF UpdateShape, IInv, TypeOK, DhtTypeOK
<1>4. /\ statuses' = statuses \cup {s} /\ shown' = [shown EXCEPT ![a][e] = c + 1]
      /\ entities' = entities /\ now' = now
  BY <1>1, <1>2 DEF UpdateShape, Recorded
<1>5. /\ clock' = c + n /\ clock' <= MaxOps /\ links' = links \cup new
      /\ dead' = dead \cup del /\ (serial' => serial /\ UpToDate(a))
  BY <1>2, <1>3 DEF Commit, Publish
<1>6. del \subseteq {l.id : l \in EntityStatusLinks(a, e) \cup AcceptedLinks(a, e)}
  BY <1>1 DEF UpdateShape
<1>7. /\ link \in new /\ extra \subseteq new
      /\ \A l \in new : \/ l = link
                        \/ l = Link(c + 3, "StatusUpdates", shown[a][e], c + 1)
                        \/ l \in extra
      /\ \A l \in extra : l = Link(c + n, "AcceptedEntity", AcceptedPath, e)
      /\ IF type = "accepted" THEN extra = {Link(c + n, "AcceptedEntity", AcceptedPath, e)}
                              ELSE extra = {}
  BY <1>1, <1>2 DEF UpdateShape, NewStatusLink, AcceptedLink
<1>8. del \subseteq Ids
  BY <1>6 DEF IInv, TypeOK, DhtTypeOK, EntityStatusLinks, AcceptedLinks, GetLinks
<1>9. DhtTypeOK'
  BY <1>3, <1>8, CommitKeepsTable DEF IInv, TypeOK
<1>10. Ids \subseteq Ids' /\ c + 1 \notin Ids /\ c + 1 \in Ids' /\ clock <= clock'
  BY <1>2, <1>3, <1>5 DEF Ids
<1>11. shown[a][e] # 0 /\ prev \in {0, shown[a][e]} /\ \E t \in statuses : shown[a][e] = t.id
  <2>1. e \in 1 .. MaxOps
    <3>1. e \in 1 .. clock /\ clock \in Nat /\ clock <= MaxOps
      BY <1>2, <1>3 DEF IInv, TypeOK, Ids
    <3> QED BY <3>1, DhtAssumption
  <2>2. shown[a][e] # 0
    BY DEF UpdateEntityStatus
  <2> QED BY <1>1, <2>1, <2>2, ShownIsStatus DEF UpdateShape, IInv
<1>12. s \in StatusType'
  BY <1>2, <1>4, <1>10, <1>11 DEF Status, StatusType
<1>13. new \subseteq LinkType'
  <2>1. link \in LinkType'
    BY <1>2, <1>3, <1>4 DEF Link, LinkType, Status
  <2>2. Link(c + 3, "StatusUpdates", shown[a][e], c + 1) \in LinkType'
    BY <1>2, <1>3, <1>4, <1>11 DEF Link, LinkType, Status
  <2>3. extra \subseteq LinkType'
    BY <1>3, <1>4, <1>7 DEF Link, LinkType
  <2> QED BY <1>7, <2>1, <2>2, <2>3
<1>14. TypeOK'
  <2>1. s.id = c + 1 /\ s.entity = e
    BY <1>2 DEF Status
  <2>2. \A l \in new : l.type = "EntityStatus" => l.target = s.id /\ l.base = s.entity
    BY <1>2, <1>7, <2>1 DEF Link
  <2>3. entities' \subseteq Ids'
    BY <1>4, <1>10 DEF IInv, TypeOK
  <2>4. TypeOK
    BY DEF IInv
  <2> QED BY <1>4, <1>5, <1>9, <1>10, <1>12, <1>13, <2>1, <2>2, <2>3, <2>4, NewStatusKeepsTypes
<1>15. LinkIsNoEntity'
  BY <1>2, <1>3, <1>4, <1>5 DEF IInv, LinkIsNoEntity, TypeOK, FreshLinks, Ids
<1>16. /\ Live("EntityStatus", e)' = {l \in Live("EntityStatus", e) : l.id \notin del} \cup {link}
       /\ Accepted(e)' = {l \in Accepted(e) : l.id \notin del} \cup extra
  <2>0. Publish(a, n, new, del)
    BY <1>3 DEF Commit
  <2>1. \A b : Live("EntityStatus", b)' = {l \in Live("EntityStatus", b) : l.id \notin del} \cup
                                            {l \in new : l.type = "EntityStatus" /\ l.base = b}
    BY <1>3, <1>8, <2>0, LiveAfterPublish DEF IInv, TypeOK
  <2>2. Live("AcceptedEntity", AcceptedPath)' =
          {l \in Live("AcceptedEntity", AcceptedPath) : l.id \notin del} \cup
          {l \in new : l.type = "AcceptedEntity" /\ l.base = AcceptedPath}
    BY <1>3, <1>8, <2>0, LiveAfterPublish DEF IInv, TypeOK
  <2>3. {l \in new : l.type = "EntityStatus" /\ l.base = e} = {link}
    BY <1>2, <1>7 DEF Link
  <2>4. {l \in new : l.type = "AcceptedEntity" /\ l.base = AcceptedPath /\ l.target = e} = extra
    BY <1>2, <1>7 DEF Link
  <2>5. Accepted(e)' = {l \in Live("AcceptedEntity", AcceptedPath)' : l.target = e}
    BY DEF Accepted
  <2> QED BY <2>1, <2>2, <2>3, <2>4, <2>5 DEF Accepted
<1>17. ASSUME NEW k \in entities, k # e
       PROVE  /\ Live("EntityStatus", k)' = Live("EntityStatus", k)
              /\ Accepted(k)' = Accepted(k)
  <2>1. \A l \in links : l.id \in del =>
          \/ l.type = "EntityStatus" /\ l.base = e
          \/ l.type = "AcceptedEntity" /\ l.target = e
    BY <1>6 DEF IInv, TypeOK, DhtTypeOK, EntityStatusLinks, AcceptedLinks, GetLinks
  <2>2. \A l \in new : l.id \notin dead' /\ (l.type = "EntityStatus" => l.base = e)
                     /\ (l.type = "AcceptedEntity" => l.target = e)
    BY <1>2, <1>7, <1>3, <1>5, <1>8 DEF Link, FreshLinks, IInv, TypeOK, DhtTypeOK, Ids
  <2>3. Live("EntityStatus", k)' = Live("EntityStatus", k)
    BY <1>5, <1>17, <2>1, <2>2 DEF Live
  <2>4. Accepted(k)' = Accepted(k)
    BY <1>5, <1>17, <2>1, <2>2 DEF Live, Accepted
  <2> QED BY <2>3, <2>4
<1>18. del \cap entities = {}
  BY <1>6 DEF IInv, LinkIsNoEntity, EntityStatusLinks, AcceptedLinks, GetLinks
<1>19. NeverStatusless'
  BY <1>4, <1>5, <1>16, <1>17 DEF IInv, NeverStatusless
<1>20. ASSUME serial'
       PROVE  /\ e \notin dead
              /\ Live("EntityStatus", e)' = {link}
              /\ Accepted(e)' = extra
  <2>1. UpToDate(a) /\ serial
    BY <1>5, <1>20
  <2>2. EntityStatusLinks(a, e) = Live("EntityStatus", e) /\ AcceptedLinks(a, e) = Accepted(e)
    BY <2>1, CompleteCopyReadsTable DEF IInv, TypeOK, EntityStatusLinks, AcceptedLinks, Accepted
  <2>3. e \notin dead
    BY <2>1 DEF UpdateEntityStatus, Found, UpToDate
  <2>4. \A l, m \in EntityStatusLinks(a, e) : l = m
    BY <2>1, <2>2, <2>3 DEF IInv, OneStatus
  <2>5. \A l, m \in AcceptedLinks(a, e) : l = m
    BY <2>1, <2>2 DEF IInv, AcceptedMatchesStatus
  <2>6. /\ EntityStatusLinks(a, e) # {} => \E l \in EntityStatusLinks(a, e) : l.id \in del
        /\ AcceptedLinks(a, e) # {} => \E l \in AcceptedLinks(a, e) : l.id \in del
    BY <1>1 DEF UpdateShape
  <2>7. \A l \in Live("EntityStatus", e) \cup Accepted(e) : l.id \in del
    BY <2>2, <2>4, <2>5, <2>6
  <2> QED BY <1>16, <2>3, <2>7
<1>21. OneStatus'
  <2> SUFFICES ASSUME serial', NEW k \in entities
               PROVE  IF k \in dead' THEN Live("EntityStatus", k)' = {}
                                     ELSE \E l \in links' : Live("EntityStatus", k)' = {l}
    BY <1>4 DEF OneStatus
  <2>1. CASE k = e
    BY <1>5, <1>7, <1>18, <1>20, <2>1
  <2>2. CASE k # e
    BY <1>5, <1>17, <1>18, <2>2 DEF IInv, OneStatus
  <2> QED BY <2>1, <2>2
<1>22. AcceptedMatchesStatus'
  <2> SUFFICES ASSUME serial', NEW k \in entities
               PROVE IF \E l \in Live("EntityStatus", k)' : StatusOf(l.target)'.type = "accepted"
                     THEN \E m \in links' : Accepted(k)' = {m}
                     ELSE Accepted(k)' = {}
    BY <1>4 DEF AcceptedMatchesStatus
  <2>1. /\ \A t \in statuses : StatusOf(t.id)' = StatusOf(t.id)
        /\ StatusOf(s.id)' = s
    BY <1>2, <1>4, <1>10, StatusKept DEF IInv, Status
  <2>2. CASE k = e
    <3>1. StatusOf(link.target)' = s
      BY <1>2, <2>1 DEF Link, Status
    <3>2. s.type = type
      BY <1>2 DEF Status
    <3> QED BY <1>5, <1>7, <1>20, <2>2, <3>1, <3>2
  <2>3. CASE k # e
    <3>1. \A l \in Live("EntityStatus", k) : \E t \in statuses : l.target = t.id
      BY DEF IInv, TypeOK, LinkType, Live
    <3>2. \A l \in Live("EntityStatus", k) : StatusOf(l.target)' = StatusOf(l.target)
      BY <2>1, <3>1
    <3> QED BY <1>5, <1>17, <2>3, <3>2 DEF IInv, AcceptedMatchesStatus
  <2> QED BY <2>2, <2>3
<1> QED BY <1>5, <1>14, <1>15, <1>19, <1>21, <1>22 DEF IInv

LEMMA DeleteStatusInv ==
  ASSUME IInv, NEW a \in Agents, NEW e \in entities, DeleteStatus(a, e)
  PROVE  IInv'
<1>1. PICK old \in EntityStatusLinks(a, e), accepted \in FirstId(AcceptedLinks(a, e)) :
        Commit(a, 0, {}, {old.id, e} \cup accepted)
  BY DEF DeleteStatus
<1>2. PICK del : del = {old.id, e} \cup accepted
  OBVIOUS
<1>3. /\ accepted \subseteq {l.id : l \in AcceptedLinks(a, e)}
      /\ AcceptedLinks(a, e) # {} => \E l \in AcceptedLinks(a, e) : l.id \in accepted
  BY DEF FirstId
<1>4. /\ clock' = clock /\ links' = links /\ dead' = dead \cup del
      /\ (serial' => serial /\ UpToDate(a))
      /\ UNCHANGED <<entities, statuses, now, shown>>
  <2>1. clock \in Nat
    BY DEF IInv, TypeOK, DhtTypeOK
  <2>2. clock' = clock + 0 /\ links' = links \cup {} /\ dead' = dead \cup del
    BY <1>1, <1>2 DEF Commit, Publish
  <2>3. serial' => serial /\ UpToDate(a)
    BY <1>1 DEF Commit, Publish
  <2>4. UNCHANGED <<entities, statuses, now, shown>>
    BY DEF DeleteStatus, statusVars
  <2> QED BY <2>1, <2>2, <2>3, <2>4
<1>5. del \subseteq Ids
  BY <1>2, <1>3 DEF IInv, TypeOK, DhtTypeOK, EntityStatusLinks, AcceptedLinks, GetLinks
<1>6. DhtTypeOK'
  <2>1. FreshLinks(0, {})
    BY DEF FreshLinks
  <2> QED BY <1>1, <1>2, <1>5, <2>1, CommitKeepsTable DEF IInv, TypeOK
<1>7. TypeOK'
  BY <1>4, <1>6 DEF IInv, TypeOK, LinkType, StatusType, StatusOf, Ids
<1>8. \A l \in links : l.id \in del =>
        \/ l.type = "EntityStatus" /\ l.base = e
        \/ l.type = "AcceptedEntity" /\ l.target = e
  BY <1>2, <1>3
     DEF IInv, LinkIsNoEntity, TypeOK, DhtTypeOK, EntityStatusLinks, AcceptedLinks, GetLinks
<1>9. ASSUME NEW k \in entities, k # e
      PROVE  /\ Live("EntityStatus", k)' = Live("EntityStatus", k)
             /\ Accepted(k)' = Accepted(k)
             /\ k \notin del
  <2>1. k \notin del
    BY <1>2, <1>3, <1>9
       DEF IInv, LinkIsNoEntity, EntityStatusLinks, AcceptedLinks, GetLinks
  <2> QED BY <1>4, <1>8, <1>9, <2>1 DEF Live, Accepted
<1>10. ASSUME serial'
       PROVE  Live("EntityStatus", e)' = {} /\ Accepted(e)' = {}
  <2>1. UpToDate(a) /\ serial
    BY <1>4, <1>10
  <2>2. EntityStatusLinks(a, e) = Live("EntityStatus", e) /\ AcceptedLinks(a, e) = Accepted(e)
    BY <2>1, CompleteCopyReadsTable DEF IInv, TypeOK, EntityStatusLinks, AcceptedLinks, Accepted
  <2>3. \A l, m \in EntityStatusLinks(a, e) : l = m
    BY <2>1, <2>2 DEF IInv, OneStatus
  <2>4. \A l, m \in AcceptedLinks(a, e) : l = m
    BY <2>1, <2>2 DEF IInv, AcceptedMatchesStatus
  <2>5. \A l \in Live("EntityStatus", e) \cup Accepted(e) : l.id \in del
    BY <1>2, <1>3, <2>2, <2>3, <2>4
  <2> QED BY <1>4, <2>5 DEF Live, Accepted
<1>11. NeverStatusless'
  BY <1>2, <1>4, <1>9 DEF IInv, NeverStatusless
<1>12. OneStatus'
  <2> SUFFICES ASSUME serial', NEW k \in entities
               PROVE  IF k \in dead' THEN Live("EntityStatus", k)' = {}
                                     ELSE \E l \in links' : Live("EntityStatus", k)' = {l}
    BY <1>4 DEF OneStatus
  <2>1. CASE k = e
    BY <1>2, <1>4, <1>10, <2>1
  <2>2. CASE k # e
    BY <1>4, <1>9, <2>2 DEF IInv, OneStatus
  <2> QED BY <2>1, <2>2
<1>13. AcceptedMatchesStatus'
  <2> SUFFICES ASSUME serial', NEW k \in entities
               PROVE IF \E l \in Live("EntityStatus", k)' : StatusOf(l.target)'.type = "accepted"
                     THEN \E m \in links' : Accepted(k)' = {m}
                     ELSE Accepted(k)' = {}
    BY <1>4 DEF AcceptedMatchesStatus
  <2>1. CASE k = e
    BY <1>10, <2>1
  <2>2. CASE k # e
    <3>1. \A l \in links : StatusOf(l.target)' = StatusOf(l.target)
      BY <1>4 DEF StatusOf
    <3>2. Live("EntityStatus", k) \subseteq links
      BY DEF Live
    <3> QED BY <1>4, <1>9, <2>2, <3>1, <3>2 DEF IInv, AcceptedMatchesStatus
  <2> QED BY <2>1, <2>2
<1>14. LinkIsNoEntity'
  BY <1>4 DEF IInv, LinkIsNoEntity
<1> QED BY <1>4, <1>7, <1>11, <1>12, <1>13, <1>14 DEF IInv

\* A step that publishes nothing keeps everything that is said of the table.
LEMMA NothingPublishedInv ==
  ASSUME IInv, TypeOK', UNCHANGED <<clock, links, dead, serial, entities, statuses>>
  PROVE  IInv'
BY DEF IInv, LinkIsNoEntity, NeverStatusless, OneStatus, AcceptedMatchesStatus,
       Live, Accepted, StatusOf

LEMMA LoadStatusInv ==
  ASSUME IInv, NEW a \in Agents, NEW e \in entities, LoadStatus(a, e)
  PROVE  IInv'
<1>1. PICK l \in EntityStatusLinks(a, e) : shown' = [shown EXCEPT ![a][e] = l.target]
  BY DEF LoadStatus
<1>2. UNCHANGED <<clock, links, dead, seen, gone, serial, entities, statuses, now>>
  BY DEF LoadStatus, dhtVars
<1>3. PICK t \in statuses : l.target = t.id
  BY DEF EntityStatusLinks, GetLinks, IInv, TypeOK, LinkType
<1>4. StatusOf(t.id).entity = e
  BY <1>3 DEF EntityStatusLinks, GetLinks, IInv, TypeOK
<1>5. shown' = [shown EXCEPT ![a] = [shown[a] EXCEPT ![e] = t.id]]
  BY <1>1, <1>3
<1> DEFINE F == [1 .. MaxOps -> {0} \cup {s.id : s \in statuses}]
<1>6. shown \in [Agents -> F]
  BY DEF IInv, TypeOK
<1>7. /\ [shown[a] EXCEPT ![e] = t.id] \in F
      /\ \A k \in 1 .. MaxOps : [shown[a] EXCEPT ![e] = t.id][k] \in {shown[a][k], t.id}
      /\ \A k \in 1 .. MaxOps : k # e => [shown[a] EXCEPT ![e] = t.id][k] = shown[a][k]
  BY <1>6
<1> HIDE DEF F
<1>8. shown' \in [Agents -> F] /\ \A b \in Agents : b # a => shown'[b] = shown[b]
  BY <1>5, <1>6, <1>7
<1>9. shown'[a] = [shown[a] EXCEPT ![e] = t.id]
  BY <1>5, <1>6
<1>10. ASSUME NEW b \in Agents, NEW k \in 1 .. MaxOps, shown'[b][k] # 0
       PROVE  StatusOf(shown[b][k])'.entity = k
  <2>1. \/ shown'[b][k] = shown[b][k]
        \/ shown'[b][k] = t.id /\ k = e
    BY <1>7, <1>8, <1>9
  <2>2. CASE shown'[b][k] = shown[b][k]
    <3>1. StatusOf(shown[b][k])' = StatusOf(shown[b][k])
      BY <1>2, <2>2 DEF StatusOf
    <3> QED BY <1>10, <2>2, <3>1 DEF IInv, TypeOK
  <2>3. CASE shown'[b][k] = t.id /\ k = e
    <3>1. StatusOf(shown[b][k])' = StatusOf(t.id)
      BY <1>2, <2>3 DEF StatusOf
    <3> QED BY <1>4, <2>3, <3>1
  <2> QED BY <2>1, <2>2, <2>3
<1>11. /\ DhtTypeOK' /\ links' \subseteq LinkType' /\ statuses' \subseteq StatusType'
       /\ entities' \subseteq Ids' /\ now' \in Nat
       /\ \A s, u \in statuses' : s.id = u.id => s = u
       /\ \A m \in links' : m.type = "EntityStatus" => StatusOf(m.target)'.entity = m.base
  BY <1>2 DEF IInv, TypeOK, DhtTypeOK, LinkType, StatusType, StatusOf, Ids
<1>12. TypeOK'
  BY <1>2, <1>8, <1>10, <1>11 DEF TypeOK, F
<1> QED BY <1>2, <1>12, NothingPublishedInv

LEMMA TickInv == ASSUME IInv, Tick PROVE IInv'
<1>1. TypeOK'
  BY DEF IInv, Tick, dhtVars, TypeOK, DhtTypeOK, LinkType, StatusType, StatusOf, Ids
<1> QED BY <1>1, NothingPublishedInv DEF Tick, dhtVars

LEMMA DeliverInv == ASSUME IInv, Deliver PROVE IInv'
<1>1. DhtTypeOK' /\ UNCHANGED <<clock, links, dead, serial>>
  BY GossipKeepsTable DEF IInv, TypeOK, Deliver
<1>2. UNCHANGED <<entities, statuses, now, shown>>
  BY DEF Deliver, statusVars
<1>3. TypeOK'
  BY <1>1, <1>2 DEF IInv, TypeOK, LinkType, StatusType, StatusOf, Ids
<1> QED BY <1>1, <1>2, <1>3, NothingPublishedInv

LEMMA StutterInv == ASSUME IInv, UNCHANGED vars PROVE IInv'
<1>1. TypeOK'
  BY DEF vars, dhtVars, statusVars, IInv, TypeOK, DhtTypeOK, LinkType, StatusType, StatusOf, Ids
<1> QED BY <1>1, NothingPublishedInv DEF vars, dhtVars, statusVars

LEMMA NextInv == ASSUME IInv, [Next]_vars PROVE IInv'
<1>1. ASSUME NEW a \in Agents, CreateEntity(a) PROVE IInv'
  BY <1>1, CreateEntityInv
<1>2. ASSUME NEW a \in Agents, NEW e \in entities, LoadStatus(a, e) PROVE IInv'
  BY <1>2, LoadStatusInv
<1>3. ASSUME NEW a \in Agents, NEW e \in entities, Decide(a, e) PROVE IInv'
  <2>1. PICK type \in Decisions : UpdateEntityStatus(a, e, type, 0)
    BY <1>3 DEF Decide
  <2> QED BY <2>1, UpdateInv, StatusAssumption
<1>4. ASSUME NEW a \in Agents, NEW e \in entities, SuspendTemporarily(a, e) PROVE IInv'
  <2>1. now \in Nat /\ Durations \subseteq Nat
    BY StatusAssumption DEF IInv, TypeOK
  <2>2. PICK until \in Nat : UpdateEntityStatus(a, e, "suspended temporarily", until)
    <3>1. PICK d \in Durations : UpdateEntityStatus(a, e, "suspended temporarily", now + d)
      BY <1>4 DEF SuspendTemporarily
    <3>2. now + d \in Nat
      BY <2>1
    <3>3. \E until : until = now + d
      OBVIOUS
    <3> QED BY <3>1, <3>2, <3>3
  <2>3. "suspended temporarily" \in StatusTypes
    BY DEF StatusTypes
  <2> QED BY <2>2, <2>3, UpdateInv
<1>5. ASSUME NEW a \in Agents, NEW e \in entities, UnsuspendIfTimePassed(a, e) PROVE IInv'
  <2>1. UpdateEntityStatus(a, e, "accepted", 0) /\ "accepted" \in StatusTypes /\ 0 \in Nat
    BY <1>5 DEF UnsuspendIfTimePassed, StatusTypes
  <2> QED BY <2>1, UpdateInv
<1>6. ASSUME NEW a \in Agents, NEW e \in entities, DeleteStatus(a, e) PROVE IInv'
  BY <1>6, DeleteStatusInv
<1> QED BY <1>1, <1>2, <1>3, <1>4, <1>5, <1>6, TickInv, DeliverInv, StutterInv DEF Next

-----------------------------------------------------------------------------
(* Without overlapping calls every step is a step of the register. *)

\* The status and the accepted links of an entity depend on the links that name
\* it, and on no others.
LEMMA OthersAlike ==
  ASSUME IInv, IInv', NEW e, NEW new, NEW del,
         links' = links \cup new, dead' = dead \cup del,
         \A l \in new : l.id \notin dead' /\ (l.type = "EntityStatus" => l.base = e),
         \A l \in new : l.type = "AcceptedEntity" => l.target = e,
         \A l \in links : l.id \in del => \/ l.type = "EntityStatus" /\ l.base = e
                                          \/ l.type = "AcceptedEntity" /\ l.target = e
                                          \/ l.type = "StatusUpdates",
         statuses \subseteq statuses', entities' \ {e} = entities \ {e}
  PROVE  /\ \A k : k # e => CurrentStatus(k)' = CurrentStatus(k) /\ Accepted(k)' = Accepted(k)
         /\ {l.target : l \in Live("AcceptedEntity", AcceptedPath)'} \ {e}
              = {l.target : l \in Live("AcceptedEntity", AcceptedPath)} \ {e}
<1>1. \A k : k # e => Live("EntityStatus", k)' = Live("EntityStatus", k)
  BY DEF Live
<1>2. \A k : k # e => Accepted(k)' = Accepted(k)
  BY DEF Live, Accepted
<1>3. \A s \in statuses : StatusOf(s.id) = s /\ StatusOf(s.id)' = s
  <2>1. \A s, t \in statuses' : s.id = t.id => s = t
    BY DEF IInv, TypeOK
  <2>2. \A s \in statuses' : StatusOf(s.id)' = s
    BY <2>1 DEF StatusOf
  <2> QED BY <2>2, StatusById DEF IInv, TypeOK
<1>4. ASSUME NEW k, k # e PROVE CurrentStatus(k)' = CurrentStatus(k)
  <2>1. CASE k \in entities /\ Live("EntityStatus", k) # {}
    <3>1. PICK m : m = CHOOSE l \in Live("EntityStatus", k) : TRUE
      OBVIOUS
    <3>2. m \in Live("EntityStatus", k)
      BY <2>1, <3>1
    <3>3. PICK s \in statuses : m.target = s.id
      BY <3>2 DEF IInv, TypeOK, LinkType, Live
    <3>4. CurrentStatus(k) = StatusOf(m.target).type
      BY <2>1, <3>1 DEF CurrentStatus
    <3>5. CurrentStatus(k)' = StatusOf(m.target)'.type
      BY <1>1, <1>4, <2>1, <3>1 DEF CurrentStatus
    <3>6. StatusOf(m.target) = s /\ StatusOf(m.target)' = s
      BY <1>3, <3>3
    <3> QED BY <3>4, <3>5, <3>6
  <2>2. CASE ~(k \in entities /\ Live("EntityStatus", k) # {})
    BY <1>1, <1>4, <2>2 DEF CurrentStatus
  <2> QED BY <2>1, <2>2
<1>5. \A k : k # e =>
        (k \in {l.target : l \in Live("AcceptedEntity", AcceptedPath)'}
           <=> k \in {l.target : l \in Live("AcceptedEntity", AcceptedPath)})
  BY <1>2 DEF Accepted
<1> QED BY <1>2, <1>4, <1>5

LEMMA EntityInRange ==
  ASSUME IInv, NEW e \in entities
  PROVE  e \in 1 .. MaxOps
<1>1. clock \in Nat /\ clock <= MaxOps /\ e \in 1 .. clock
  BY DEF IInv, TypeOK, DhtTypeOK, Ids
<1> QED BY <1>1, DhtAssumption

\* An entity that lives has a status, and a decision can find it.
LEMMA LivingHasStatus ==
  ASSUME IInv, NEW e \in entities \ dead
  PROVE  /\ e \in 1 .. MaxOps
         /\ CurrentStatus(e) \in StatusTypes /\ CurrentStatus(e) # "none"
<1>1. Live("EntityStatus", e) # {}
  BY DEF IInv, NeverStatusless
<1>2. PICK m : m = CHOOSE l \in Live("EntityStatus", e) : TRUE
  OBVIOUS
<1>3. PICK s \in statuses : m.target = s.id
  BY <1>1, <1>2 DEF IInv, TypeOK, LinkType, Live
<1>4. StatusOf(m.target) = s /\ s.type \in StatusTypes
  BY <1>3, StatusById DEF IInv, TypeOK, StatusType
<1>5. CurrentStatus(e) = s.type
  BY <1>1, <1>2, <1>4 DEF CurrentStatus
<1>6. e \in 1 .. MaxOps
  BY EntityInRange
<1> QED BY <1>4, <1>5, <1>6 DEF StatusTypes

LEMMA CreateIsRegister ==
  ASSUME IInv, IInv', NEW a \in Agents, CreateEntity(a)
  PROVE  Register!Next
<1>0. PICK c, e, s, link, new, del :
        /\ c = clock /\ e = c + 1 /\ new = {link} /\ del = {}
        /\ s = Status(c + 2, e, "pending", 0, 0)
        /\ link = Link(c + 3, "EntityStatus", e, c + 2)
  OBVIOUS
<1>1. c \in Nat /\ e \notin Ids
  BY <1>0 DEF IInv, TypeOK, DhtTypeOK, Ids
<1>2. /\ Commit(a, 3, new, del) /\ links' = links \cup new /\ dead' = dead \cup del /\ dead' = dead
      /\ entities' = entities \cup {e} /\ statuses' = statuses \cup {s}
  BY <1>0 DEF CreateEntity, Commit, Publish
<1>3. e \notin entities /\ e \notin dead /\ c + 3 \notin dead
  BY <1>0, <1>1 DEF IInv, TypeOK, DhtTypeOK, Ids
<1>4. /\ \A k : k # e => CurrentStatus(k)' = CurrentStatus(k) /\ Accepted(k)' = Accepted(k)
      /\ {l.target : l \in Live("AcceptedEntity", AcceptedPath)'} \ {e}
           = {l.target : l \in Live("AcceptedEntity", AcceptedPath)} \ {e}
  <2>1. /\ \A l \in new : l.id \notin dead' /\ (l.type = "EntityStatus" => l.base = e)
        /\ \A l \in new : l.type = "AcceptedEntity" => l.target = e
    BY <1>0, <1>2, <1>3 DEF Link
  <2>2. statuses \subseteq statuses' /\ entities' \ {e} = entities \ {e}
    BY <1>2
  <2>3. \A l \in links : l.id \notin del
    BY <1>0
  <2> QED BY <1>2, <2>1, <2>2, <2>3, OthersAlike
<1>5. CurrentStatus(e) = "none"
  BY <1>3 DEF CurrentStatus
<1>6. CurrentStatus(e)' = "pending"
  <2>1. \A l \in links : l.type = "EntityStatus" => l.base \in entities
    BY DEF IInv, TypeOK, LinkType
  <2>2. Live("EntityStatus", e)' = {link}
    BY <1>0, <1>2, <1>3, <2>1 DEF Live, Link
  <2>3. CurrentStatus(e)' = StatusOf(link.target)'.type
    BY <1>2, <2>2 DEF CurrentStatus
  <2>4. StatusOf(c + 2)' = s
    <3>1. \A t, u \in statuses' : t.id = u.id => t = u
      BY DEF IInv, TypeOK
    <3>2. s \in statuses' /\ s.id = c + 2
      BY <1>0, <1>2 DEF Status
    <3> QED BY <3>1, <3>2 DEF StatusOf
  <2> QED BY <1>0, <2>3, <2>4 DEF Link, Status
<1>7. e \in 1 .. MaxOps
  <2>1. clock' = c + 3 /\ clock' <= MaxOps
    BY <1>0, <1>2 DEF Commit, Publish, IInv
  <2> QED BY <1>0, <1>1, <2>1, DhtAssumption
<1>8. Accepted(e) = {} /\ Accepted(e)' = {}
  <2>1. \A l \in links : l.type = "AcceptedEntity" => l.target \in entities
    BY DEF IInv, TypeOK, LinkType
  <2> QED BY <1>0, <1>2, <1>3, <2>1 DEF Accepted, Live, Link
<1>9. {l.target : l \in Live("AcceptedEntity", AcceptedPath)'} = {l.target : l \in Live("AcceptedEntity", AcceptedPath)}
  BY <1>4, <1>8 DEF Accepted
<1>10. [k \in 1 .. MaxOps |-> CurrentStatus(k)'] =
         [[k \in 1 .. MaxOps |-> CurrentStatus(k)] EXCEPT ![e] = "pending"]
  BY <1>4, <1>6, <1>7
<1>11. {k \in entities' : k \in dead'} = {k \in entities : k \in dead}
  BY <1>2, <1>3
<1>12. Register!Create(e)
  BY <1>3, <1>5, <1>7, <1>9, <1>10, <1>11 DEF Register!Create
<1> QED BY <1>7, <1>12 DEF Register!Next


\* An update on a complete copy changes the status of one living entity, and
\* puts that entity on the accepted list or takes it off.
LEMMA UpdateInTurn ==
  ASSUME IInv, IInv', serial', NEW a \in Agents, NEW e \in entities, NEW type, NEW until,
         UpdateEntityStatus(a, e, type, until)
  PROVE  /\ UpToDate(a) /\ e \in entities \ dead /\ e \in 1 .. MaxOps
         /\ CurrentStatus(e) # "none" /\ CurrentStatus(e)' = type
         /\ \A k : k # e => CurrentStatus(k)' = CurrentStatus(k) /\ Accepted(k)' = Accepted(k)
         /\ {l.target : l \in Live("AcceptedEntity", AcceptedPath)'} \ {e}
              = {l.target : l \in Live("AcceptedEntity", AcceptedPath)} \ {e}
         /\ Accepted(e)' # {} <=> type = "accepted"
         /\ {k \in entities' : k \in dead'} = {k \in entities : k \in dead}
<1>1. PICK n, new, del, prev : UpdateShape(a, e, type, until, n, new, del, prev)
  BY UpdateHasShape
<1>2. PICK c, s, link :
        /\ c = clock
        /\ s = Status(c + 1, e, type, until, prev)
        /\ link = Link(c + 2, "EntityStatus", e, c + 1)
  OBVIOUS
<1>3. /\ c \in Nat /\ n \in Nat /\ Commit(a, n, new, del) /\ FreshLinks(n, new)
      /\ statuses' = statuses \cup {s} /\ entities' = entities
      /\ links' = links \cup new /\ dead' = dead \cup del /\ UpToDate(a)
  BY <1>1, <1>2 DEF UpdateShape, Recorded, Commit, Publish, IInv, TypeOK, DhtTypeOK
<1>4. /\ link \in new
      /\ \A l \in new : \/ l = link
                        \/ l.type = "StatusUpdates"
                        \/ l.type = "AcceptedEntity" /\ l.target = e
  BY <1>1, <1>2 DEF UpdateShape, NewStatusLink, AcceptedLink, Link
<1>5. /\ del \subseteq Ids
      /\ \A l \in links : l.id \in del => \/ l.type = "EntityStatus" /\ l.base = e
                                          \/ l.type = "AcceptedEntity" /\ l.target = e
      /\ \A k \in entities : k \notin del
  <2>1. \A i \in del : \E l \in links :
          /\ l.id = i
          /\ \/ l.type = "EntityStatus" /\ l.base = e
             \/ l.type = "AcceptedEntity" /\ l.target = e
    BY <1>1 DEF UpdateShape, EntityStatusLinks, AcceptedLinks, GetLinks
  <2>2. /\ \A l, m \in links : l.id = m.id => l = m
        /\ \A l \in links : l.id \notin entities /\ l.id \in Ids
    BY DEF IInv, TypeOK, DhtTypeOK, LinkIsNoEntity
  <2> QED BY <2>1, <2>2
<1>6. \A l \in new : l.id \notin dead'
  BY <1>2, <1>3, <1>5 DEF FreshLinks, IInv, TypeOK, DhtTypeOK, Ids
<1>7. /\ \A k : k # e => CurrentStatus(k)' = CurrentStatus(k) /\ Accepted(k)' = Accepted(k)
      /\ {l.target : l \in Live("AcceptedEntity", AcceptedPath)'} \ {e}
           = {l.target : l \in Live("AcceptedEntity", AcceptedPath)} \ {e}
  <2>1. /\ \A l \in new : l.id \notin dead' /\ (l.type = "EntityStatus" => l.base = e)
        /\ \A l \in new : l.type = "AcceptedEntity" => l.target = e
    BY <1>2, <1>4, <1>6 DEF Link
  <2>2. statuses \subseteq statuses' /\ entities' \ {e} = entities \ {e}
    BY <1>3
  <2> QED BY <1>3, <1>5, <2>1, <2>2, OthersAlike
<1>8. e \in entities \ dead
  BY <1>3 DEF UpdateEntityStatus, Found, UpToDate
<1>9. e \in 1 .. MaxOps /\ CurrentStatus(e) # "none"
  BY <1>8, LivingHasStatus
<1>10. Live("EntityStatus", e)' = {link}
  <2>1. link \in Live("EntityStatus", e)'
    BY <1>2, <1>3, <1>4, <1>6 DEF Live, Link
  <2>2. e \in entities' \ dead'
    BY <1>3, <1>5, <1>8
  <2>3. \E l \in links' : Live("EntityStatus", e)' = {l}
    BY <2>2 DEF IInv, OneStatus
  <2> QED BY <2>1, <2>3
<1>11. CurrentStatus(e)' = type /\ StatusOf(link.target)'.type = type
  <2>1. StatusOf(c + 1)' = s
    <3>1. \A t, u \in statuses' : t.id = u.id => t = u
      BY DEF IInv, TypeOK
    <3>2. s \in statuses' /\ s.id = c + 1
      BY <1>2, <1>3 DEF Status
    <3> QED BY <3>1, <3>2 DEF StatusOf
  <2>2. CurrentStatus(e)' = StatusOf(link.target)'.type
    BY <1>3, <1>10 DEF CurrentStatus
  <2> QED BY <1>2, <2>1, <2>2 DEF Link, Status
<1>12. Accepted(e)' # {} <=> type = "accepted"
  <2>1. (\E l \in Live("EntityStatus", e)' : StatusOf(l.target)'.type = "accepted") <=> type = "accepted"
    BY <1>10, <1>11
  <2>2. IF \E l \in Live("EntityStatus", e)' : StatusOf(l.target)'.type = "accepted"
        THEN \E m \in links' : Accepted(e)' = {m}
        ELSE Accepted(e)' = {}
    BY <1>3 DEF IInv, AcceptedMatchesStatus
  <2> QED BY <2>1, <2>2
<1>13. {k \in entities' : k \in dead'} = {k \in entities : k \in dead}
  BY <1>3, <1>5
<1> QED BY <1>3, <1>7, <1>8, <1>9, <1>11, <1>12, <1>13

LEMMA UpdateIsRegister ==
  ASSUME IInv, IInv', serial', NEW a \in Agents, NEW e \in entities,
         NEW type \in StatusTypes \ {"pending"}, NEW until,
         UpdateEntityStatus(a, e, type, until)
  PROVE  Register!Next
<1> DEFINE listed == {l.target : l \in Live("AcceptedEntity", AcceptedPath)}
<1>1. /\ e \in 1 .. MaxOps /\ CurrentStatus(e) # "none" /\ CurrentStatus(e)' = type
      /\ \A k : k # e => CurrentStatus(k)' = CurrentStatus(k)
      /\ listed' \ {e} = listed \ {e}
      /\ Accepted(e)' # {} <=> type = "accepted"
      /\ {k \in entities' : k \in dead'} = {k \in entities : k \in dead}
  BY UpdateInTurn
<1>2. listed' = IF type = "accepted" THEN listed \cup {e} ELSE listed \ {e}
  <2>1. e \in listed' <=> Accepted(e)' # {}
    BY DEF Accepted
  <2> HIDE DEF listed
  <2> QED BY <1>1, <2>1
<1>3. [k \in 1 .. MaxOps |-> CurrentStatus(k)'] =
        [[k \in 1 .. MaxOps |-> CurrentStatus(k)] EXCEPT ![e] = type]
  BY <1>1
<1>4. Register!Decide(e, type)
  BY <1>1, <1>2, <1>3 DEF Register!Decide
<1> QED BY <1>1, <1>4 DEF Register!Next

LEMMA DeleteIsRegister ==
  ASSUME IInv, IInv', serial', NEW a \in Agents, NEW e \in entities, DeleteStatus(a, e)
  PROVE  Register!Next
<1>1. PICK old \in EntityStatusLinks(a, e), accepted \in FirstId(AcceptedLinks(a, e)) :
        Commit(a, 0, {}, {old.id, e} \cup accepted)
  BY DEF DeleteStatus
<1>2. PICK new, del : new = {} /\ del = {old.id, e} \cup accepted
  OBVIOUS
<1>3. /\ links' = links \cup new /\ dead' = dead \cup del /\ UpToDate(a) /\ serial
      /\ statuses' = statuses /\ entities' = entities
  BY <1>1, <1>2 DEF DeleteStatus, Commit, Publish, statusVars
<1>4. /\ \A l \in links : l.id \in del => \/ l.type = "EntityStatus" /\ l.base = e
                                          \/ l.type = "AcceptedEntity" /\ l.target = e
      /\ \A k \in entities : k \in del <=> k = e
  <2>1. accepted \subseteq {l.id : l \in AcceptedLinks(a, e)}
    BY DEF FirstId
  <2>2. /\ \A l, m \in links : l.id = m.id => l = m
        /\ \A l \in links : l.id \notin entities
    BY DEF IInv, TypeOK, DhtTypeOK, LinkIsNoEntity
  <2>3. /\ old \in links /\ old.type = "EntityStatus" /\ old.base = e
        /\ \A i \in accepted : \E l \in links : l.id = i /\ l.type = "AcceptedEntity" /\ l.target = e
    BY <2>1 DEF EntityStatusLinks, AcceptedLinks, GetLinks
  <2> QED BY <1>2, <2>2, <2>3
<1>5. /\ \A k : k # e => CurrentStatus(k)' = CurrentStatus(k) /\ Accepted(k)' = Accepted(k)
      /\ {l.target : l \in Live("AcceptedEntity", AcceptedPath)'} \ {e}
           = {l.target : l \in Live("AcceptedEntity", AcceptedPath)} \ {e}
  <2>1. \A l : l \notin new
    BY <1>2
  <2> QED BY <1>3, <1>4, <2>1, OthersAlike
<1>6. e \notin dead
  <2>1. Live("EntityStatus", e) # {}
    BY <1>3, CompleteCopyReadsTable DEF EntityStatusLinks, IInv, TypeOK
  <2> QED BY <1>3, <2>1 DEF IInv, OneStatus
<1>7. e \in 1 .. MaxOps /\ CurrentStatus(e) # "none"
  BY <1>6, LivingHasStatus
<1>8. Live("EntityStatus", e)' = {} /\ CurrentStatus(e)' = "none"
  <2>1. e \in entities' /\ e \in dead'
    BY <1>3, <1>4
  <2>2. Live("EntityStatus", e)' = {}
    BY <2>1 DEF IInv, OneStatus
  <2> QED BY <2>2 DEF CurrentStatus
<1>9. Accepted(e)' = {}
  BY <1>3, <1>8 DEF IInv, AcceptedMatchesStatus
<1> DEFINE listed == {l.target : l \in Live("AcceptedEntity", AcceptedPath)}
<1>10. listed' = listed \ {e}
  <2>1. e \notin listed'
    BY <1>9 DEF Accepted
  <2>2. listed' \ {e} = listed \ {e}
    BY <1>5
  <2> HIDE DEF listed
  <2> QED BY <2>1, <2>2
<1>11. [k \in 1 .. MaxOps |-> CurrentStatus(k)'] =
         [[k \in 1 .. MaxOps |-> CurrentStatus(k)] EXCEPT ![e] = "none"]
  BY <1>5, <1>7, <1>8
<1>12. {k \in entities' : k \in dead'} = {k \in entities : k \in dead} \cup {e}
  BY <1>3, <1>4
<1>13. Register!Delete(e)
  BY <1>7, <1>10, <1>11, <1>12 DEF Register!Delete
<1> QED BY <1>7, <1>13 DEF Register!Next

\* Steps that publish nothing are none of the register.
LEMMA OthersAreStutters ==
  ASSUME UNCHANGED <<links, dead, entities, statuses>>
  PROVE  UNCHANGED Register!registerVars
<1>1. \A k : CurrentStatus(k)' = CurrentStatus(k)
  BY DEF CurrentStatus, StatusOf, Live
<1>2. [k \in 1 .. MaxOps |-> CurrentStatus(k)'] = [k \in 1 .. MaxOps |-> CurrentStatus(k)]
  BY <1>1
<1>3. /\ {k \in entities' : k \in dead'} = {k \in entities : k \in dead}
      /\ {l.target : l \in Live("AcceptedEntity", AcceptedPath)'}
           = {l.target : l \in Live("AcceptedEntity", AcceptedPath)}
  BY DEF Live
<1> QED BY <1>2, <1>3 DEF Register!registerVars

LEMMA StepIsRegister ==
  ASSUME IInv, IInv', [Next]_vars
  PROVE  [serial' => Register!Next]_Register!registerVars
<1> SUFFICES ASSUME serial' PROVE Register!Next \/ UNCHANGED Register!registerVars
  OBVIOUS
<1>1. ASSUME NEW a \in Agents, CreateEntity(a) PROVE Register!Next
  BY <1>1, CreateIsRegister
<1>2. ASSUME NEW a \in Agents, NEW e \in entities, LoadStatus(a, e) PROVE UNCHANGED Register!registerVars
  BY <1>2, OthersAreStutters DEF LoadStatus, dhtVars
<1>3. ASSUME NEW a \in Agents, NEW e \in entities, Decide(a, e) PROVE Register!Next
  <2>1. PICK type \in Decisions : UpdateEntityStatus(a, e, type, 0)
    BY <1>3 DEF Decide
  <2> QED BY <2>1, UpdateIsRegister, StatusAssumption
<1>4. ASSUME NEW a \in Agents, NEW e \in entities, SuspendTemporarily(a, e) PROVE Register!Next
  <2>1. PICK d \in Durations : UpdateEntityStatus(a, e, "suspended temporarily", now + d)
    BY <1>4 DEF SuspendTemporarily
  <2>2. PICK type, until : type = "suspended temporarily" /\ until = now + d
    OBVIOUS
  <2>3. UpdateEntityStatus(a, e, type, until) /\ type \in StatusTypes \ {"pending"}
    BY <2>1, <2>2 DEF StatusTypes
  <2> QED BY <2>3, UpdateIsRegister
<1>5. ASSUME NEW a \in Agents, NEW e \in entities, UnsuspendIfTimePassed(a, e) PROVE Register!Next
  <2>1. PICK type, until : type = "accepted" /\ until = 0
    OBVIOUS
  <2>2. UpdateEntityStatus(a, e, type, until) /\ type \in StatusTypes \ {"pending"}
    BY <1>5, <2>1 DEF UnsuspendIfTimePassed, StatusTypes
  <2> QED BY <2>2, UpdateIsRegister
<1>6. ASSUME NEW a \in Agents, NEW e \in entities, DeleteStatus(a, e) PROVE Register!Next
  BY <1>6, DeleteIsRegister
<1>7. CASE Tick \/ UNCHANGED vars
  BY <1>7, OthersAreStutters DEF Tick, vars, dhtVars, statusVars
<1>8. CASE Deliver
  <2>1. UNCHANGED <<links, dead>>
    BY <1>8, GossipKeepsTable DEF IInv, TypeOK, Deliver
  <2> QED BY <1>8, <2>1, OthersAreStutters DEF Deliver, statusVars
<1> QED BY <1>1, <1>2, <1>3, <1>4, <1>5, <1>6, <1>7, <1>8 DEF Next

LEMMA InitIsRegister == Init => Register!Init
<1> SUFFICES ASSUME Init PROVE Register!Init
  OBVIOUS
<1>1. entities = {} /\ links = {}
  BY DEF Init, DhtInit
<1>2. [k \in 1 .. MaxOps |-> CurrentStatus(k)] = [k \in 1 .. MaxOps |-> "none"]
  BY <1>1 DEF CurrentStatus
<1>3. {l.target : l \in Live("AcceptedEntity", AcceptedPath)} = {}
  BY <1>1 DEF Live
<1> QED BY <1>1, <1>2, <1>3 DEF Register!Init

-----------------------------------------------------------------------------
(* The theorems. *)

LEMMA Invariance == Spec => []IInv
<1>1. Init => IInv
  BY InitInv
<1>2. IInv /\ [Next]_vars => IInv'
  BY NextInv
<1> QED BY <1>1, <1>2, PTL DEF Spec

\* Links join records that exist and a store shows an entity's own statuses,
\* in every behaviour of any network (status.rs:12-50, 242-334).
THEOREM TypeCorrect == Spec => []TypeOK
<1>1. IInv => TypeOK
  BY DEF IInv
<1> QED BY <1>1, Invariance, PTL

\* No order of overlapping calls leaves an entity that was not deleted without
\* a status (status.rs:281-316).
THEOREM StatusNeverLost == Spec => []NeverStatusless
<1>1. IInv => NeverStatusless
  BY DEF IInv
<1> QED BY <1>1, Invariance, PTL

\* Calls that do not overlap leave one current status, and none once the entity
\* is deleted (status.rs:255-316, 446-458).
THEOREM StatusIsUnique == Spec => []OneStatus
<1>1. IInv => OneStatus
  BY DEF IInv
<1> QED BY <1>1, Invariance, PTL

\* Calls that do not overlap keep the accepted list and the statuses in
\* agreement (status.rs:318-328).
THEOREM AcceptedAgrees == Spec => []AcceptedMatchesStatus
<1>1. IInv => AcceptedMatchesStatus
  BY DEF IInv
<1> QED BY <1>1, Invariance, PTL

\* As long as every call ran on a complete copy of the table, each call is one
\* atomic operation on a register that holds one status for each entity and on a
\* list that holds the accepted ones, and no step besides changes either
\* (status.rs:13-50, 242-334, 446-458).
THEOREM RefinesRegister == Spec => ImplementsRegister
<1>1. Init => Register!Init
  BY InitIsRegister
<1>2. IInv /\ IInv' /\ [Next]_vars => [serial' => Register!Next]_Register!registerVars
  BY StepIsRegister
<1> QED BY <1>1, <1>2, Invariance, PTL DEF Spec, ImplementsRegister
=============================================================================
