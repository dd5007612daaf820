-------------------------- MODULE ServiceTypesProofs --------------------------
(***************************************************************************)
(* A service type that is not deleted is on some status list whatever the  *)
(* calls overlap with; a hash is on one list at most, by one link, when    *)
(* they do not, and again after the next decision about it on a complete   *)
(* copy when they did.  As long as calls do not overlap, the two ways of   *)
(* every pair of a type and a listing or a user stay in balance, and no    *)
(* listing is left linked to a type that is not approved.  For any number  *)
(* of agents, types, revisions, listings and calls.                        *)
(***************************************************************************)
EXTENDS ServiceTypes, DhtProofs

\* A deleted link is not a deleted service type, nor the other way round.
LinkIsNoType == \A l \in links : l.id \notin types

IInv ==
  /\ TypeOK
  /\ LinkIsNoType
  /\ NeverStatusless
  /\ OneStatus

\* The links an unlinking may delete.
PairIds == {l.id : l \in {m \in links : m.type \in {"ServiceTypeToEntity", "EntityToServiceType"}}}

\* The links on the list of all types.
AllPathIds == {l.id : l \in {m \in links : m.type = "AllServiceTypes" /\ m.base = AllPath}}

-----------------------------------------------------------------------------
(* What calls delete. *)

LEMMA UnlinkedPairs ==
  ASSUME NEW a, NEW t, NEW x, NEW n, NEW S \in Unlinked(a, t, x, n)
  PROVE  S \subseteq PairIds
<1>1. PICK F \in Some(n, ToEntity(a, t, x)), B \in Some(n, ToServiceType(a, x, t)) : S = F \cup B
  BY DEF Unlinked
<1>2. F \subseteq {l.id : l \in ToEntity(a, t, x)} /\ B \subseteq {l.id : l \in ToServiceType(a, x, t)}
  BY DEF Some
<1>3. {l.id : l \in ToEntity(a, t, x)} \subseteq PairIds
  BY DEF ToEntity, GetLinks, PairIds
<1>4. {l.id : l \in ToServiceType(a, x, t)} \subseteq PairIds
  BY DEF ToServiceType, GetLinks, PairIds
<1> QED BY <1>1, <1>2, <1>3, <1>4

LEMMA AllUnlinkedPairs ==
  ASSUME NEW a, NEW times, NEW S \in AllUnlinked(a, times)
  PROVE  S \subseteq PairIds
<1>1. PICK f : /\ S = UNION {f[p] : p \in DOMAIN times}
               /\ \A p \in DOMAIN times : f[p] \in Unlinked(a, p[1], p[2], times[p])
  BY DEF AllUnlinked
<1>2. \A p \in DOMAIN times : f[p] \subseteq PairIds
  BY <1>1, UnlinkedPairs
<1> QED BY <1>1, <1>2

\* The status links of a type after a call.
LEMMA StatusesAfter ==
  ASSUME TypeOK, NEW a \in Agents, NEW n \in Nat, NEW new, NEW del,
         FreshLinks(n, new), del \subseteq Ids, Publish(a, n, new, del), NEW t
  PROVE  Statuses(t)' =
           {l \in Statuses(t) : l.id \notin del} \cup
           {l \in new : l.type = "AllServiceTypes" /\ l.base \in StatusPaths /\ l.target = t}
<1>1. \A base : Live("AllServiceTypes", base)' =
                  {l \in Live("AllServiceTypes", base) : l.id \notin del} \cup
                  {l \in new : l.type = "AllServiceTypes" /\ l.base = base}
  BY LiveAfterPublish DEF TypeOK
<1> QED BY <1>1 DEF Statuses

\* The parts of the type invariant that do not depend on the call.
LEMMA TypesAfter ==
  ASSUME IInv, NEW a \in Agents, NEW n \in Nat, NEW new, NEW del,
         FreshLinks(n, new), del \subseteq Ids, Commit(a, n, new, del),
         types \subseteq types', types' \subseteq types \cup (clock + 1 .. clock + n),
         new \subseteq LinkType'
  PROVE  TypeOK' /\ clock \in Nat /\ clock' = clock + n /\ links' = links \cup new
                 /\ dead' = dead \cup del
<1>1. DhtTypeOK'
  BY CommitKeepsTable DEF IInv, TypeOK
<1>2. clock \in Nat /\ clock' = clock + n /\ links' = links \cup new /\ dead' = dead \cup del
  BY DEF IInv, TypeOK, DhtTypeOK, Commit, Publish
<1>3. Ids \subseteq Ids' /\ types' \subseteq Ids'
  BY <1>2 DEF IInv, TypeOK, Ids
<1>4. LinkType \subseteq LinkType'
  BY <1>3 DEF LinkType
<1> QED BY <1>1, <1>2, <1>3, <1>4 DEF IInv, TypeOK

\* Links the call may delete are links, so no type is among them.
LEMMA DeletedLinksAreNoTypes ==
  ASSUME IInv
  PROVE  /\ PairIds \subseteq Ids /\ AllPathIds \subseteq Ids
         /\ PairIds \cap types = {} /\ AllPathIds \cap types = {}
         /\ \A t : \A l \in Statuses(t) : l \in links /\ l.id \notin PairIds \cup AllPathIds
<1>1. \A l, m \in links : l.id = m.id => l = m
  BY DEF IInv, TypeOK, DhtTypeOK
<1>2. \A t : \A l \in Statuses(t) : /\ l \in links /\ l.type = "AllServiceTypes"
                                    /\ l.base \in StatusPaths
  BY DEF Statuses, Live
<1>3. AllPath \notin StatusPaths
  BY DEF AllPath, StatusPaths
<1>4. \A t : \A l \in Statuses(t) : l.id \notin PairIds
  BY <1>1, <1>2 DEF PairIds
<1>5. \A t : \A l \in Statuses(t) : l.id \notin AllPathIds
  BY <1>1, <1>2, <1>3 DEF AllPathIds
<1>6. PairIds \subseteq Ids /\ AllPathIds \subseteq Ids
  BY DEF PairIds, AllPathIds, IInv, TypeOK, DhtTypeOK
<1>7. PairIds \cap types = {} /\ AllPathIds \cap types = {}
  BY DEF PairIds, AllPathIds, IInv, LinkIsNoType
<1> QED BY <1>2, <1>4, <1>5, <1>6, <1>7

\* What the caller clears from the status lists of a type are its status links,
\* all of them when the caller has a complete copy.
LEMMA RemovedFromPaths ==
  ASSUME IInv, NEW a \in Agents, NEW t
  PROVE  /\ RemoveFromStatusPaths(a, t) \subseteq Ids
         /\ RemoveFromStatusPaths(a, t) \cap types = {}
         /\ \A u : u # t => \A l \in Statuses(u) : l.id \notin RemoveFromStatusPaths(a, t)
         /\ UpToDate(a) => \A l \in Statuses(t) : l.id \in RemoveFromStatusPaths(a, t)
<1>1. \A l \in StatusLinks(a, t) : l \in links /\ l.target = t
  BY DEF StatusLinks, GetLinks
<1>2. RemoveFromStatusPaths(a, t) \subseteq Ids /\ RemoveFromStatusPaths(a, t) \cap types = {}
  BY <1>1 DEF RemoveFromStatusPaths, IInv, LinkIsNoType, TypeOK, DhtTypeOK
<1>3. \A u : u # t => \A l \in Statuses(u) : l.id \notin RemoveFromStatusPaths(a, t)
  <2>1. \A u : \A l \in Statuses(u) : l \in links /\ l.target = u
    BY DEF Statuses, Live
  <2>2. \A l, m \in links : l.id = m.id => l = m
    BY DEF IInv, TypeOK, DhtTypeOK
  <2> QED BY <1>1, <2>1, <2>2 DEF RemoveFromStatusPaths
<1>4. ASSUME UpToDate(a) PROVE \A l \in Statuses(t) : l.id \in RemoveFromStatusPaths(a, t)
  <2>1. \A path : GetLinks(a, "AllServiceTypes", path) = Live("AllServiceTypes", path)
    BY <1>4, CompleteCopyReadsTable DEF IInv, TypeOK
  <2> QED BY <2>1 DEF Statuses, StatusLinks, RemoveFromStatusPaths
<1> QED BY <1>2, <1>3, <1>4

-----------------------------------------------------------------------------
(* Each call keeps the invariant. *)

LEMMA InitInv == Init => IInv
BY DEF Init, DhtInit, IInv, TypeOK, DhtTypeOK, Ids, LinkIsNoType, NeverStatusless, OneStatus, Originals

\* A call that makes no revision.
LEMMA RevisionsAfter ==
  ASSUME NEW new, links' = links \cup new, \A l \in new : l.type # "ServiceTypeUpdates"
  PROVE  Revisions' = Revisions
<1>1. \A l \in links' : l.type = "ServiceTypeUpdates" => l \in links
  OBVIOUS
<1> QED BY <1>1 DEF Revisions

\* Only the caller sees what a call creates.
LEMMA HealedByCaller ==
  ASSUME TypeOK, NEW a \in Agents, NEW n \in Nat, NEW new, NEW del, Commit(a, n, new, del),
         \A u : \/ Statuses(u)' \subseteq Statuses(u)
               \/ (UpToDate(a) => \E l \in links' : Statuses(u)' = {l})
  PROVE  Healed
<1> SUFFICES ASSUME NEW b \in Agents, NEW t \in types', UpToDate(b), clock' > clock,
                    clock' \in seen'[b], ~(Statuses(t)' \subseteq Statuses(t))
             PROVE  \E l \in links' : Statuses(t)' = {l}
  BY DEF Healed
<1>1. clock \in Nat /\ seen \in [Agents -> SUBSET (1 .. clock)]
  BY DEF TypeOK, DhtTypeOK, Ids
<1>2. clock' = clock + n /\ seen' = [seen EXCEPT ![a] = @ \cup (clock + 1 .. clock + n)]
  BY DEF Commit, Publish
<1>3. clock' \notin seen[b]
  BY <1>1, <1>2
<1>4. b = a
  BY <1>1, <1>2, <1>3
<1> QED BY <1>4

\* Calls that leave the status lists alone.
LEMMA OtherLinksInv ==
  ASSUME IInv, NEW a \in Agents, NEW n \in Nat, NEW new, NEW del,
         FreshLinks(n, new), Commit(a, n, new, del), types' = types,
         new \subseteq LinkType',
         \A l \in new : l.type # "AllServiceTypes" /\ l.type # "ServiceTypeUpdates",
         del \subseteq PairIds
  PROVE  IInv' /\ Healed
<1>1. /\ del \subseteq Ids /\ del \cap types = {}
      /\ \A t : \A l \in Statuses(t) : l \in links /\ l.id \notin del
  BY DeletedLinksAreNoTypes
<1>2. TypeOK' /\ clock \in Nat /\ links' = links \cup new /\ dead' = dead \cup del
  BY <1>1, TypesAfter
<1>3. LinkIsNoType'
  BY <1>2 DEF IInv, TypeOK, LinkIsNoType, FreshLinks, Ids
<1>4. Publish(a, n, new, del) /\ (serial' => serial)
  BY DEF Commit
<1>5. \A t : Statuses(t)' = Statuses(t)
  <2> TAKE t
  <2>1. Statuses(t)' =
           {l \in Statuses(t) : l.id \notin del} \cup
           {l \in new : l.type = "AllServiceTypes" /\ l.base \in StatusPaths /\ l.target = t}
    BY <1>1, <1>4, StatusesAfter DEF IInv
  <2> QED BY <2>1, <1>1
<1>6. \A t \in types : t \in dead' <=> t \in dead
  BY <1>1, <1>2
<1>0. Revisions' = Revisions
  BY <1>2, RevisionsAfter
<1>7. NeverStatusless'
  BY <1>0, <1>5, <1>6 DEF IInv, NeverStatusless, Originals
<1>8. OneStatus'
  BY <1>0, <1>2, <1>4, <1>5, <1>6 DEF IInv, OneStatus
<1>9. Healed
  BY <1>5, HealedByCaller DEF IInv
<1> QED BY <1>2, <1>3, <1>7, <1>8, <1>9 DEF IInv

\* Approving and rejecting.
LEMMA DecisionInv ==
  ASSUME IInv, NEW a \in Agents, NEW t \in types, NEW path \in StatusPaths, NEW unlinked,
         unlinked \subseteq PairIds, types' = types,
         Commit(a, 1, {StatusLink(clock + 1, path, t)},
                RemoveFromStatusPaths(a, t) \cup unlinked)
  PROVE  IInv' /\ Healed
<1> DEFINE link == StatusLink(clock + 1, path, t)
           del == RemoveFromStatusPaths(a, t) \cup unlinked
<1>1. /\ del \subseteq Ids /\ del \cap types = {}
      /\ \A u : u # t => \A l \in Statuses(u) : l \in links /\ l.id \notin del
      /\ UpToDate(a) => \A l \in Statuses(t) : l.id \in del
  BY DeletedLinksAreNoTypes, RemovedFromPaths
<1>2. clock \in Nat
  BY DEF IInv, TypeOK, DhtTypeOK
<1>3. FreshLinks(1, {link}) /\ {link} \subseteq LinkType'
  BY <1>2 DEF FreshLinks, LinkType, StatusLink, Link
<1>4. TypeOK' /\ links' = links \cup {link} /\ dead' = dead \cup del
  BY <1>1, <1>3, TypesAfter
<1>5. LinkIsNoType'
  BY <1>2, <1>4 DEF IInv, TypeOK, LinkIsNoType, StatusLink, Link, Ids
<1>6. Publish(a, 1, {link}, del) /\ (serial' => serial /\ UpToDate(a))
  BY DEF Commit
<1>7. \A u : Statuses(u)' = {l \in Statuses(u) : l.id \notin del} \cup
                            {l \in {link} : l.type = "AllServiceTypes" /\ l.base \in StatusPaths
                                            /\ l.target = u}
  BY <1>1, <1>3, <1>6, StatusesAfter DEF IInv
<1>8. Statuses(t)' = {l \in Statuses(t) : l.id \notin del} \cup {link}
  BY <1>7 DEF StatusLink, Link
<1>9. \A u : u # t => Statuses(u)' = Statuses(u)
  <2>1. link.target = t
    BY DEF StatusLink, Link
  <2> QED BY <1>1, <1>7, <2>1
<1>10. \A u \in types : u \in dead' <=> u \in dead
  BY <1>1, <1>4
<1>0. Revisions' = Revisions
  <2>1. PICK new : new = {link}
    OBVIOUS
  <2>2. links' = links \cup new /\ \A l \in new : l.type # "ServiceTypeUpdates"
    BY <1>4, <2>1 DEF StatusLink, Link
  <2> QED BY <2>2, RevisionsAfter
<1>11. NeverStatusless'
  BY <1>0, <1>8, <1>9, <1>10 DEF IInv, NeverStatusless, Originals
<1>12. OneStatus'
  <2> SUFFICES ASSUME serial', NEW u \in types
               PROVE \/ \E l \in links' : Statuses(u)' = {l}
                     \/ u \in (dead \cup Revisions)' /\ Statuses(u)' = {}
    BY DEF OneStatus
  <2>1. CASE u = t
    BY <1>1, <1>4, <1>6, <1>8, <2>1
  <2>2. CASE u # t
    BY <1>0, <1>4, <1>6, <1>9, <1>10, <2>2 DEF IInv, OneStatus
  <2> QED BY <2>1, <2>2
<1>13. Healed
  <2>1. UpToDate(a) => Statuses(t)' = {link} /\ link \in links'
    BY <1>1, <1>4, <1>8
  <2>2. \A u : \/ Statuses(u)' \subseteq Statuses(u)
              \/ (UpToDate(a) => \E l \in links' : Statuses(u)' = {l})
    BY <1>9, <2>1
  <2>3. PICK n, new : n = 1 /\ new = {link}
    OBVIOUS
  <2>4. TypeOK /\ n \in Nat /\ Commit(a, n, new, del)
    BY <2>3 DEF IInv
  <2> HIDE DEF link, del
  <2> QED BY <2>2, <2>4, HealedByCaller
<1> QED BY <1>4, <1>5, <1>11, <1>12, <1>13 DEF IInv

LEMMA NewTypeInv ==
  ASSUME IInv, NEW a \in Agents, NEW path \in StatusPaths, NewType(a, path)
  PROVE  IInv' /\ Healed
<1>1. PICK t, all, link : /\ t = clock + 1
                          /\ all = StatusLink(clock + 2, AllPath, t)
                          /\ link = StatusLink(clock + 3, path, t)
  OBVIOUS
<1> DEFINE new == {all, link}
<1>2. clock \in Nat /\ Commit(a, 3, new, {}) /\ types' = types \cup {t}
  BY <1>1 DEF NewType, IInv, TypeOK, DhtTypeOK
<1>3. FreshLinks(3, new) /\ new \subseteq LinkType' /\ types' \subseteq types \cup (clock + 1 .. clock + 3)
  BY <1>1, <1>2 DEF FreshLinks, LinkType, StatusLink, Link
<1>4. /\ t \notin types /\ t \notin dead
      /\ \A l \in links : l.id # t /\ (l.type = "AllServiceTypes" => l.target # t)
  <2>1. types \subseteq Ids /\ dead \subseteq Ids /\ \A l \in links : l.id \in Ids
    BY DEF IInv, TypeOK, DhtTypeOK
  <2>2. t \notin Ids
    BY <1>1, <1>2 DEF Ids
  <2>3. \A l \in links : l.type = "AllServiceTypes" => l.target \in types
    BY DEF IInv, TypeOK, LinkType
  <2> QED BY <2>1, <2>2, <2>3
<1>5. TypeOK' /\ links' = links \cup new /\ dead' = dead
  <2>1. {} \subseteq Ids /\ types \subseteq types'
    BY <1>2
  <2>2. TypeOK' /\ links' = links \cup new /\ dead' = dead \cup {}
    <3> HIDE DEF new
    <3> QED BY <1>2, <1>3, <2>1, TypesAfter
  <2> QED BY <2>2
<1>6. LinkIsNoType'
  <2>1. \A l \in links : l.id \notin types'
    BY <1>2, <1>4 DEF IInv, LinkIsNoType
  <2>2. \A l \in new : l.id \notin types'
    BY <1>1, <1>2 DEF IInv, TypeOK, StatusLink, Link, Ids
  <2> QED BY <1>5, <2>1, <2>2 DEF LinkIsNoType
<1>7. Publish(a, 3, new, {}) /\ (serial' => serial)
  BY <1>2 DEF Commit
<1>8. \A u : Statuses(u)' = {l \in Statuses(u) : l.id \notin {}} \cup
                            {l \in new : l.type = "AllServiceTypes" /\ l.base \in StatusPaths
                                         /\ l.target = u}
  <2> TAKE u
  <2>1. TypeOK /\ {} \subseteq Ids
    BY DEF IInv
  <2> HIDE DEF new
  <2> QED BY <1>3, <1>7, <2>1, StatusesAfter
<1>9. Statuses(t) = {}
  BY <1>4 DEF Statuses, Live
<1>10. \A u : {l \in new : l.type = "AllServiceTypes" /\ l.base \in StatusPaths /\ l.target = u} =
              IF u = t THEN {link} ELSE {}
  BY <1>1 DEF StatusLink, Link, AllPath, StatusPaths
<1>11. Statuses(t)' = {link}
  <2> HIDE DEF new
  <2>1. Statuses(t)' = {l \in Statuses(t) : l.id \notin {}} \cup {link}
    BY <1>8, <1>10
  <2> QED BY <1>9, <2>1
<1>12. \A u : u # t => Statuses(u)' = Statuses(u)
  <2> TAKE u
  <2> HAVE u # t
  <2> HIDE DEF new
  <2>1. Statuses(u)' = {l \in Statuses(u) : l.id \notin {}} \cup {}
    BY <1>8, <1>10
  <2> QED BY <2>1
<1>13. link \in links'
  BY <1>5
<1>0. Revisions' = Revisions
  <2>1. \A l \in new : l.type # "ServiceTypeUpdates"
    BY <1>1 DEF StatusLink, Link
  <2> HIDE DEF new
  <2> QED BY <1>5, <2>1, RevisionsAfter
<1> HIDE DEF new
<1>14. NeverStatusless'
  <2> SUFFICES ASSUME NEW u \in (Originals \ dead)' PROVE Statuses(u)' # {}
    BY DEF NeverStatusless
  <2>1. CASE u = t
    BY <1>11, <2>1
  <2>2. CASE u # t
    BY <1>0, <1>2, <1>5, <1>12, <2>2 DEF IInv, NeverStatusless, Originals
  <2> QED BY <2>1, <2>2
<1>15. OneStatus'
  <2> SUFFICES ASSUME serial', NEW u \in types'
               PROVE \/ \E l \in links' : Statuses(u)' = {l}
                     \/ u \in (dead \cup Revisions)' /\ Statuses(u)' = {}
    BY DEF OneStatus
  <2>1. CASE u = t
    BY <1>11, <1>13, <2>1
  <2>2. CASE u # t
    <3>1. u \in types /\ serial
      BY <1>2, <1>7, <2>2
    <3>2. \/ \E l \in links : Statuses(u) = {l}
          \/ u \in dead \cup Revisions /\ Statuses(u) = {}
      BY <3>1 DEF IInv, OneStatus
    <3> QED BY <1>0, <1>5, <1>12, <2>2, <3>2
  <2> QED BY <2>1, <2>2
<1>16. Healed
  <2>1. \A u : \/ Statuses(u)' \subseteq Statuses(u)
              \/ (UpToDate(a) => \E l \in links' : Statuses(u)' = {l})
    BY <1>11, <1>12, <1>13
  <2> QED BY <1>2, <2>1, HealedByCaller DEF IInv
<1> QED BY <1>5, <1>6, <1>14, <1>15, <1>16 DEF IInv

LEMMA DeleteInv ==
  ASSUME IInv, NEW a \in Agents, NEW t \in types, DeleteServiceType(a, t)
  PROVE  IInv' /\ Healed
<1>1. PICK all \in Some(1, {l \in GetLinks(a, "AllServiceTypes", AllPath) : l.target = t}) :
        Commit(a, 0, {}, all \cup RemoveFromStatusPaths(a, t) \cup {t})
  BY DEF DeleteServiceType
<1>0. PICK del : del = all \cup RemoveFromStatusPaths(a, t) \cup {t}
  OBVIOUS
<1>2. all \subseteq AllPathIds /\ types' = types
  <2>1. all \subseteq {l.id : l \in {m \in GetLinks(a, "AllServiceTypes", AllPath) : m.target = t}}
    BY DEF Some
  <2> QED BY <2>1 DEF GetLinks, AllPathIds, DeleteServiceType
<1>3. \A u : \A l \in Statuses(u) : l.id \notin types
  BY DeletedLinksAreNoTypes DEF IInv, LinkIsNoType
<1>4. /\ del \subseteq Ids /\ del \cap types = {t}
      /\ \A u : u # t => \A l \in Statuses(u) : l \in links /\ l.id \notin del
      /\ UpToDate(a) => \A l \in Statuses(t) : l.id \in del
  BY <1>0, <1>2, <1>3, DeletedLinksAreNoTypes, RemovedFromPaths DEF IInv, TypeOK
<1>5. FreshLinks(0, {})
  BY DEF FreshLinks
<1>6. TypeOK' /\ links' = links /\ dead' = dead \cup del
  <2>1. PICK n, new : n = 0 /\ new = {}
    OBVIOUS
  <2>2. /\ Commit(a, n, new, del) /\ n \in Nat /\ new \subseteq LinkType' /\ FreshLinks(n, new)
        /\ types \subseteq types' /\ types' \subseteq types \cup (clock + 1 .. clock + n)
    BY <1>0, <1>1, <1>2, <1>5, <2>1
  <2>3. TypeOK' /\ links' = links \cup new /\ dead' = dead \cup del
    BY <1>4, <2>2, TypesAfter
  <2> QED BY <2>1, <2>3
<1>7. LinkIsNoType'
  BY <1>2, <1>6 DEF IInv, LinkIsNoType
<1>8. Publish(a, 0, {}, del) /\ (serial' => serial /\ UpToDate(a))
  BY <1>0, <1>1 DEF Commit
<1>9. \A u : Statuses(u)' = {l \in Statuses(u) : l.id \notin del}
  <2> TAKE u
  <2>1. Statuses(u)' =
           {l \in Statuses(u) : l.id \notin del} \cup
           {l \in {} : l.type = "AllServiceTypes" /\ l.base \in StatusPaths /\ l.target = u}
    BY <1>4, <1>5, <1>8, StatusesAfter DEF IInv
  <2> QED BY <2>1
<1>10. \A u : u # t => Statuses(u)' = Statuses(u)
  BY <1>4, <1>9
<1>11. t \in dead' /\ \A u \in types : u # t => (u \in dead' <=> u \in dead)
  BY <1>4, <1>6
<1>14. Revisions' = Revisions
  BY <1>6 DEF Revisions
<1>12. NeverStatusless'
  BY <1>2, <1>10, <1>11, <1>14 DEF IInv, NeverStatusless, Originals
<1>13. OneStatus'
  <2> SUFFICES ASSUME serial', NEW u \in types
               PROVE \/ \E l \in links' : Statuses(u)' = {l}
                     \/ u \in (dead \cup Revisions)' /\ Statuses(u)' = {}
    BY <1>2 DEF OneStatus
  <2>1. CASE u = t
    BY <1>4, <1>8, <1>9, <1>11, <2>1
  <2>2. CASE u # t
    BY <1>6, <1>8, <1>10, <1>11, <1>14, <2>2 DEF IInv, OneStatus
  <2> QED BY <2>1, <2>2
<1>15. Healed
  <2>1. PICK n, new : n = 0 /\ new = {}
    OBVIOUS
  <2>2. n \in Nat /\ Commit(a, n, new, del) /\ \A u : Statuses(u)' \subseteq Statuses(u)
    BY <1>0, <1>1, <1>9, <2>1
  <2> QED BY <2>2, HealedByCaller DEF IInv
<1> QED BY <1>6, <1>7, <1>12, <1>13, <1>15 DEF IInv

\* Gossip moves copies and leaves the table.
LEMMA DeliverInv ==
  ASSUME IInv, Deliver
  PROVE  IInv' /\ Healed
<1>1. DhtTypeOK' /\ UNCHANGED <<clock, links, dead, serial, types>>
  BY GossipKeepsTable DEF IInv, TypeOK, Deliver
<1>2. Ids' = Ids /\ LinkType' = LinkType /\ \A t : Statuses(t)' = Statuses(t)
  BY <1>1 DEF Ids, LinkType, Statuses, Live
<1>3. Revisions' = Revisions /\ Originals' = Originals
  BY <1>1 DEF Revisions, Originals
<1>4. Healed
  BY <1>1 DEF Healed, IInv, TypeOK, DhtTypeOK
<1> QED BY <1>1, <1>2, <1>3, <1>4 DEF IInv, TypeOK, LinkIsNoType, NeverStatusless, OneStatus
-----------------------------------------------------------------------------
(* Every step keeps the invariant. *)

LEMMA ModerationInv ==
  ASSUME IInv, NEW a \in Agents, NEW t \in types,
         \/ ApproveServiceType(a, t)
         \/ RejectServiceType(a, t)
         \/ RejectApprovedServiceType(a, t)
  PROVE  IInv' /\ Healed
<1>1. PICK path \in StatusPaths, unlinked \in SUBSET PairIds :
        /\ Commit(a, 1, {StatusLink(clock + 1, path, t)}, RemoveFromStatusPaths(a, t) \cup unlinked)
        /\ types' = types
  <2>1. CASE ApproveServiceType(a, t)
    <3>1. /\ "approved" \in StatusPaths /\ {} \in SUBSET PairIds
          /\ RemoveFromStatusPaths(a, t) \cup {} = RemoveFromStatusPaths(a, t)
      BY DEF StatusPaths
    <3> QED BY <2>1, <3>1 DEF ApproveServiceType
  <2>2. CASE RejectServiceType(a, t)
    <3>1. /\ "rejected" \in StatusPaths /\ {} \in SUBSET PairIds
          /\ RemoveFromStatusPaths(a, t) \cup {} = RemoveFromStatusPaths(a, t)
      BY DEF StatusPaths
    <3> QED BY <2>2, <3>1 DEF RejectServiceType
  <2>3. CASE RejectApprovedServiceType(a, t)
    <3>1. PICK times : \E unlinked \in AllUnlinked(a, times) :
            Commit(a, 1, {StatusLink(clock + 1, "rejected", t)},
                   RemoveFromStatusPaths(a, t) \cup unlinked)
      BY <2>3 DEF RejectApprovedServiceType
    <3>2. \A unlinked \in AllUnlinked(a, times) : unlinked \in SUBSET PairIds
      BY AllUnlinkedPairs
    <3> QED BY <2>3, <3>1, <3>2 DEF RejectApprovedServiceType, StatusPaths
  <2> QED BY <2>1, <2>2, <2>3
<1> QED BY <1>1, DecisionInv

LEMMA UpdateTypeInv ==
  ASSUME IInv, NEW a \in Agents, NEW t \in types, UpdateServiceType(a, t)
  PROVE  IInv' /\ Healed
<1>1. PICK n, r, new, del : /\ n = 2 /\ r = clock + 1 /\ del = {}
                            /\ new = {Link(clock + 2, "ServiceTypeUpdates", t, r)}
  OBVIOUS
<1>2. /\ clock \in Nat /\ n \in Nat /\ Commit(a, n, new, del) /\ types' = types \cup {r}
      /\ TypeOK /\ del \subseteq Ids
  BY <1>1 DEF UpdateServiceType, IInv, TypeOK, DhtTypeOK
<1>3. FreshLinks(n, new) /\ new \subseteq LinkType'
  BY <1>1, <1>2 DEF FreshLinks, LinkType, Link
<1>4. /\ r \notin types
      /\ \A l \in links : l.id # r /\ (l.type = "AllServiceTypes" => l.target # r)
  <2>1. types \subseteq Ids /\ \A l \in links : l.id \in Ids
    BY DEF IInv, TypeOK, DhtTypeOK
  <2>2. r \notin Ids
    BY <1>1, <1>2 DEF Ids
  <2>3. \A l \in links : l.type = "AllServiceTypes" => l.target \in types
    BY DEF IInv, TypeOK, LinkType
  <2> QED BY <2>1, <2>2, <2>3
<1>5. TypeOK' /\ links' = links \cup new /\ dead' = dead
  <2>1. types \subseteq types' /\ types' \subseteq types \cup (clock + 1 .. clock + n)
    BY <1>1, <1>2
  <2>2. TypeOK' /\ links' = links \cup new /\ dead' = dead \cup del
    BY <1>2, <1>3, <2>1, TypesAfter
  <2> QED BY <1>1, <2>2
<1>6. LinkIsNoType'
  <2>1. \A l \in links : l.id \notin types'
    BY <1>2, <1>4 DEF IInv, LinkIsNoType
  <2>2. \A l \in new : l.id \notin types'
    BY <1>1, <1>2 DEF IInv, TypeOK, Link, Ids
  <2> QED BY <1>5, <2>1, <2>2 DEF LinkIsNoType
<1>7. \A u : Statuses(u)' = Statuses(u)
  <2> TAKE u
  <2>1. Publish(a, n, new, del)
    BY <1>2 DEF Commit
  <2>2. Statuses(u)' =
           {l \in Statuses(u) : l.id \notin del} \cup
           {l \in new : l.type = "AllServiceTypes" /\ l.base \in StatusPaths /\ l.target = u}
    BY <1>2, <1>3, <2>1, StatusesAfter
  <2>3. \A l \in new : l.type # "AllServiceTypes"
    BY <1>1 DEF Link
  <2> QED BY <1>1, <2>2, <2>3
<1>8. Revisions' = Revisions \cup {r}
  <2>1. \A l \in new : l.type = "ServiceTypeUpdates" /\ l.target = r
    BY <1>1 DEF Link
  <2>2. \E l \in new : TRUE
    BY <1>1
  <2> QED BY <1>5, <2>1, <2>2 DEF Revisions
<1>9. Statuses(r) = {}
  BY <1>4 DEF Statuses, Live
<1>10. serial' => serial
  BY <1>2 DEF Commit
<1>11. NeverStatusless'
  BY <1>2, <1>5, <1>7, <1>8 DEF IInv, NeverStatusless, Originals
<1>12. OneStatus'
  <2> SUFFICES ASSUME serial', NEW u \in types'
               PROVE \/ \E l \in links' : Statuses(u)' = {l}
                     \/ u \in (dead \cup Revisions)' /\ Statuses(u)' = {}
    BY DEF OneStatus
  <2>1. CASE u = r
    BY <1>7, <1>8, <1>9, <2>1
  <2>2. CASE u # r
    BY <1>2, <1>5, <1>7, <1>8, <1>10, <2>2 DEF IInv, OneStatus
  <2> QED BY <2>1, <2>2
<1>13. Healed
  BY <1>2, <1>7, HealedByCaller
<1> QED BY <1>5, <1>6, <1>11, <1>12, <1>13 DEF IInv

\* The links of a pair, numbered from an id on.
LEMMA PairLinks ==
  ASSUME NEW id \in Nat, NEW t \in types, NEW x \in Entities, types' = types
  PROVE  /\ Pair(id, t, x) \subseteq LinkType'
         /\ \A l \in Pair(id, t, x) : l.id \in {id, id + 1} /\ l.type # "AllServiceTypes"
                                    /\ l.type # "ServiceTypeUpdates"
         /\ \A l, m \in Pair(id, t, x) : l.id = m.id => l = m
BY DEF Pair, Link, LinkType

LEMMA LinkInv ==
  ASSUME IInv, NEW a \in Agents, NEW t \in types, NEW x \in Entities, LinkToServiceType(a, t, x)
  PROVE  IInv' /\ Healed
<1>1. PICK new : new = Pair(clock + 1, t, x)
  OBVIOUS
<1>2. clock \in Nat /\ clock + 1 \in Nat /\ Commit(a, 2, new, {}) /\ types' = types
  BY <1>1 DEF LinkToServiceType, IInv, TypeOK, DhtTypeOK
<1>3. /\ new \subseteq LinkType' /\ \A l, m \in new : l.id = m.id => l = m
      /\ \A l \in new : /\ l.id \in {clock + 1, clock + 1 + 1}
                         /\ l.type # "AllServiceTypes" /\ l.type # "ServiceTypeUpdates"
  BY <1>1, <1>2, PairLinks
<1>4. FreshLinks(2, new)
  BY <1>2, <1>3 DEF FreshLinks
<1>5. {} \subseteq PairIds /\ 2 \in Nat
  OBVIOUS
<1> QED BY <1>2, <1>3, <1>4, <1>5, OtherLinksInv

\* Calls that only delete links of pairs.
LEMMA UnlinkInv ==
  ASSUME IInv, NEW a \in Agents, NEW t, NEW x,
         UnlinkFromServiceType(a, t, x) \/ DeleteAllServiceTypeLinks(a, x)
  PROVE  IInv' /\ Healed
<1>1. PICK del : Commit(a, 0, {}, del) /\ types' = types /\ del \subseteq PairIds
  <2>1. CASE UnlinkFromServiceType(a, t, x)
    BY <2>1, UnlinkedPairs DEF UnlinkFromServiceType
  <2>2. CASE DeleteAllServiceTypeLinks(a, x)
    BY <2>2, AllUnlinkedPairs DEF DeleteAllServiceTypeLinks, UnlinkAll
  <2> QED BY <2>1, <2>2
<1>2. FreshLinks(0, {}) /\ {} \subseteq LinkType' /\ 0 \in Nat
  BY DEF FreshLinks
<1> QED BY <1>1, <1>2, OtherLinksInv

\* The links are a pair for each of the types, numbered from at[t] on.
PairsAt(new, at, added, x) == \A l : l \in new <=> \E t \in added : l \in Pair(at[t], t, x)

\* update_service_type_links publishes one pair for each new type, each pair
\* with ids of its own.
LEMMA UpdateLinksShape ==
  ASSUME IInv, NEW a \in Agents, NEW x \in Entities, NEW ts \in SUBSET types,
         UpdateServiceTypeLinks(a, x, ts)
  PROVE  \E n \in Nat : \E new, unlinked, added, at :
           /\ Commit(a, n, new, unlinked) /\ types' = types
           /\ FreshLinks(n, new) /\ new \subseteq LinkType'
           /\ \A l \in new : l.type # "AllServiceTypes" /\ l.type # "ServiceTypeUpdates"
           /\ unlinked \in UnlinkAll(a, x, GetServiceTypesForEntity(a, x) \ ts)
           /\ PairsAt(new, at, added, x) /\ added \subseteq types
           /\ x \in Listings => \A t \in added : IsServiceTypeApproved(a, t)
<1> DEFINE Added == ts \ GetServiceTypesForEntity(a, x)
           Links(new, at) == UNION {Pair(clock + 1 + 2 * at[t], t, x) : t \in new}
<1>1. PICK added, n : added = Added /\ n = Cardinality(Added)
  OBVIOUS
<1>2. PICK nth \in [added -> 0 .. n - 1], unlinked \in UnlinkAll(a, x, GetServiceTypesForEntity(a, x) \ ts) :
        /\ \A t, u \in added : nth[t] = nth[u] => t = u
        /\ Commit(a, 2 * n, UNION {Pair(clock + 1 + 2 * nth[t], t, x) : t \in added}, unlinked)
        /\ types' = types
  <2>1. /\ \E unlinked \in UnlinkAll(a, x, GetServiceTypesForEntity(a, x) \ ts),
               nth \in [Added -> 0 .. Cardinality(Added) - 1] :
              /\ \A t, u \in Added : nth[t] = nth[u] => t = u
              /\ Commit(a, 2 * Cardinality(Added), Links(Added, nth), unlinked)
        /\ types' = types
    BY DEF UpdateServiceTypeLinks
  <2> HIDE DEF Added, Links
  <2>2. /\ \E unlinked \in UnlinkAll(a, x, GetServiceTypesForEntity(a, x) \ ts), nth \in [added -> 0 .. n - 1] :
              /\ \A t, u \in added : nth[t] = nth[u] => t = u
              /\ Commit(a, 2 * n, Links(added, nth), unlinked)
        /\ types' = types
    BY <1>1, <2>1
  <2> QED BY <2>2 DEF Links
<1>3. clock \in Nat /\ types \subseteq 1 .. clock
  BY DEF IInv, TypeOK, DhtTypeOK, Ids
<1>4. n \in Nat /\ 2 * n \in Nat
  <2>1. IsFiniteSet(1 .. clock)
    BY <1>3, FS_Interval
  <2>2. added \subseteq 1 .. clock
    BY <1>1, <1>3
  <2>3. IsFiniteSet(added)
    BY <2>1, <2>2, FS_Subset
  <2>4. n = Cardinality(added)
    BY <1>1
  <2>5. n \in Nat
    BY <2>3, <2>4, FS_CardinalityType
  <2> QED BY <2>5
<1>5. PICK new : new = UNION {Pair(clock + 1 + 2 * nth[t], t, x) : t \in added}
  OBVIOUS
<1>6. \A t \in added : /\ t \in types
                       /\ nth[t] \in 0 .. n - 1
                       /\ clock + 1 + 2 * nth[t] \in Nat
  <2> TAKE t \in added
  <2>1. t \in types
    BY <1>1
  <2>2. nth[t] \in 0 .. n - 1
    BY <1>2
  <2> QED BY <1>3, <1>4, <2>1, <2>2
<1>7. \A t \in added :
        /\ Pair(clock + 1 + 2 * nth[t], t, x) \subseteq LinkType'
        /\ \A l \in Pair(clock + 1 + 2 * nth[t], t, x) :
              /\ l.id \in {clock + 1 + 2 * nth[t], clock + 1 + 2 * nth[t] + 1}
              /\ l.type # "AllServiceTypes" /\ l.type # "ServiceTypeUpdates"
        /\ \A l, m \in Pair(clock + 1 + 2 * nth[t], t, x) : l.id = m.id => l = m
  <2> TAKE t \in added
  <2>1. PICK id : id = clock + 1 + 2 * nth[t]
    OBVIOUS
  <2>2. id \in Nat /\ t \in types /\ types' = types
    BY <1>2, <1>6, <2>1
  <2>3. /\ Pair(id, t, x) \subseteq LinkType'
        /\ \A l \in Pair(id, t, x) : /\ l.id \in {id, id + 1}
                                     /\ l.type # "AllServiceTypes" /\ l.type # "ServiceTypeUpdates"
        /\ \A l, m \in Pair(id, t, x) : l.id = m.id => l = m
    BY <2>2, PairLinks
  <2> QED BY <2>1, <2>3
<1>8. /\ new \subseteq LinkType'
      /\ \A l \in new : l.type # "AllServiceTypes" /\ l.type # "ServiceTypeUpdates"
  BY <1>5, <1>7
<1>9. FreshLinks(2 * n, new)
  <2>1. ASSUME NEW l \in new PROVE l.id \in clock + 1 .. clock + 2 * n
    <3>1. PICK t \in added : l \in Pair(clock + 1 + 2 * nth[t], t, x)
      BY <1>5
    <3>2. l.id \in {clock + 1 + 2 * nth[t], clock + 1 + 2 * nth[t] + 1}
      BY <1>7, <3>1
    <3> QED BY <1>3, <1>4, <1>6, <3>2
  <2>2. ASSUME NEW l \in new, NEW m \in new, l.id = m.id PROVE l = m
    <3>1. PICK t \in added : l \in Pair(clock + 1 + 2 * nth[t], t, x)
      BY <1>5
    <3>2. PICK u \in added : m \in Pair(clock + 1 + 2 * nth[u], u, x)
      BY <1>5
    <3>3. /\ l.id \in {clock + 1 + 2 * nth[t], clock + 1 + 2 * nth[t] + 1}
          /\ m.id \in {clock + 1 + 2 * nth[u], clock + 1 + 2 * nth[u] + 1}
      BY <1>7, <3>1, <3>2
    <3>4. nth[t] = nth[u]
      BY <1>3, <1>4, <1>6, <2>2, <3>3
    <3>5. t = u
      BY <1>2, <3>4
    <3> QED BY <1>7, <2>2, <3>1, <3>2, <3>5
  <2> QED BY <2>1, <2>2 DEF FreshLinks
<1>10. Commit(a, 2 * n, new, unlinked) /\ types' = types
  BY <1>2, <1>5
<1>11. x \in Listings => \A t \in added : IsServiceTypeApproved(a, t)
  BY <1>1 DEF UpdateServiceTypeLinks
<1>12. PICK at, k : at = [t \in added |-> clock + 1 + 2 * nth[t]] /\ k = 2 * n
  OBVIOUS
<1>13. PairsAt(new, at, added, x) /\ added \subseteq types
  <2>1. \A t \in added : at[t] = clock + 1 + 2 * nth[t]
    BY <1>12
  <2>2. \A l : l \in new <=> \E t \in added : l \in Pair(clock + 1 + 2 * nth[t], t, x)
    BY <1>5
  <2>3. \A l : l \in new <=> \E t \in added : l \in Pair(at[t], t, x)
    BY <2>1, <2>2
  <2> QED BY <1>1, <2>3 DEF PairsAt
<1>14. /\ k \in Nat /\ Commit(a, k, new, unlinked) /\ FreshLinks(k, new)
       /\ unlinked \in UnlinkAll(a, x, GetServiceTypesForEntity(a, x) \ ts)
  BY <1>2, <1>4, <1>9, <1>10, <1>12
<1> HIDE DEF Added, Links
<1> k \in Nat
  BY <1>14
<1> WITNESS k \in Nat
<1> WITNESS new, unlinked, added, at
<1> QED BY <1>8, <1>10, <1>11, <1>13, <1>14

LEMMA UpdateLinksInv ==
  ASSUME IInv, NEW a \in Agents, NEW x \in Entities, NEW ts \in SUBSET types,
         UpdateServiceTypeLinks(a, x, ts)
  PROVE  IInv' /\ Healed
<1>1. PICK n, new, unlinked :
        /\ n \in Nat /\ Commit(a, n, new, unlinked) /\ types' = types
        /\ FreshLinks(n, new) /\ new \subseteq LinkType'
        /\ \A l \in new : l.type # "AllServiceTypes" /\ l.type # "ServiceTypeUpdates"
        /\ unlinked \in UnlinkAll(a, x, GetServiceTypesForEntity(a, x) \ ts)
  BY UpdateLinksShape
<1>2. unlinked \subseteq PairIds
  BY <1>1, AllUnlinkedPairs DEF UnlinkAll
<1> QED BY <1>1, <1>2, OtherLinksInv

LEMMA NextInv == IInv /\ [Next]_vars => IInv' /\ [Healed]_vars
<1> SUFFICES ASSUME IInv, [Next]_vars PROVE IInv' /\ [Healed]_vars
  OBVIOUS
<1>1. ASSUME NEW a \in Agents, CreateServiceType(a) \/ SuggestServiceType(a) PROVE IInv' /\ Healed
  BY <1>1, NewTypeInv DEF CreateServiceType, SuggestServiceType, StatusPaths
<1>2. ASSUME NEW a \in Agents, NEW t \in types, UpdateServiceType(a, t) PROVE IInv' /\ Healed
  BY <1>2, UpdateTypeInv
<1>3. ASSUME NEW a \in Agents, NEW t \in types,
             \/ ApproveServiceType(a, t)
             \/ RejectServiceType(a, t)
             \/ RejectApprovedServiceType(a, t)
      PROVE  IInv' /\ Healed
  BY <1>3, ModerationInv
<1>4. ASSUME NEW a \in Agents, NEW t \in types, DeleteServiceType(a, t) PROVE IInv' /\ Healed
  BY <1>4, DeleteInv
<1>5. ASSUME NEW a \in Agents, NEW t \in types, NEW x \in Entities, LinkToServiceType(a, t, x)
      PROVE  IInv' /\ Healed
  BY <1>5, LinkInv
<1>6. ASSUME NEW a \in Agents, NEW t \in types, NEW x \in Entities, UnlinkFromServiceType(a, t, x)
      PROVE  IInv' /\ Healed
  BY <1>6, UnlinkInv
<1>7. ASSUME NEW a \in Agents, NEW x \in Entities, DeleteAllServiceTypeLinks(a, x) PROVE IInv' /\ Healed
  BY <1>7, UnlinkInv
<1>8. ASSUME NEW a \in Agents, NEW x \in Entities, NEW ts \in SUBSET (types \cap seen[a]),
             UpdateServiceTypeLinks(a, x, ts)
      PROVE  IInv' /\ Healed
  BY <1>8, UpdateLinksInv
<1>9. CASE Deliver
  BY <1>9, DeliverInv
<1>10. CASE UNCHANGED vars
  BY <1>10 DEF vars, dhtVars, IInv, TypeOK, DhtTypeOK, Ids, LinkType, LinkIsNoType,
               NeverStatusless, OneStatus, Statuses, Live, Originals, Revisions
<1> QED BY <1>1, <1>2, <1>3, <1>4, <1>5, <1>6, <1>7, <1>8, <1>9, <1>10 DEF Next

LEMMA Invariance == Spec => []IInv
BY InitInv, NextInv, PTL DEF Spec

\* Every list holds service types and every pair of links joins a type with a
\* request, an offer or a user: no call writes a link the wrong way round
\* (service_type.rs:30-125, 699-713).
THEOREM TypeCorrect == Spec => []TypeOK
BY Invariance, PTL DEF IInv

\* Whatever the calls of other administrators overlap with, a service type that
\* is not deleted is on some status list (service_type.rs:300-309, 346-355,
\* 393-402).
THEOREM StatusNeverLost == Spec => []NeverStatusless
BY Invariance, PTL DEF IInv

\* As long as every call ran on a complete copy of the table, each hash a service
\* type goes by, revisions included, is on one status list, by one link, or on
\* none: on none only when it is a revision's or was deleted
\* (service_type.rs:55-56, 195-228, 300-301, 346-347, 393-394).
THEOREM StatusIsUnique == Spec => []OneStatus
BY Invariance, PTL DEF IInv

\* Whatever lists overlapping calls have left a hash on, whoever next puts it on
\* a list with a complete copy of the table leaves it on that list alone, by one
\* link (service_type.rs:300-309, 346-355, 393-402, 449-504).
THEOREM DecisionsAreHealing == Spec => DecisionsHeal
BY InitInv, NextInv, PTL DEF Spec, DecisionsHeal

-----------------------------------------------------------------------------
(* The pairs of links between types and entities. *)

\* What a call deletes is, of the two ways of every pair, equally many links.
Unlinks(del) ==
  \A t, x : \E n \in Nat : /\ del \cap IdsOf(Forth(t, x)) \in Some(n, Forth(t, x))
                           /\ del \cap IdsOf(Back(t, x)) \in Some(n, Back(t, x))

\* What a call creates is, for a pair, a link each way or none.
ForthIn(new, t, x) == {l \in new : l.type = "ServiceTypeToEntity" /\ l.base = t /\ l.target = x}
BackIn(new, t, x) == {l \in new : l.type = "EntityToServiceType" /\ l.base = x /\ l.target = t}

LinksPairs(new) ==
  \A t, x : \/ ForthIn(new, t, x) = {} /\ BackIn(new, t, x) = {}
            \/ \E l, m : ForthIn(new, t, x) = {l} /\ BackIn(new, t, x) = {m}

\* The type is on the approved list of the whole table.
Approved(t) == \E l \in Statuses(t) : l.base = "approved"

LEMMA ApprovedIsListed ==
  ASSUME NEW t
  PROVE  Approved(t) <=> \E l \in Live("AllServiceTypes", "approved") : l.target = t
BY DEF Approved, Statuses, Live, StatusPaths

\* The links of the pairs are finitely many, and no link is in two of them.
LEMMA PairsApart ==
  ASSUME TypeOK
  PROVE  /\ \A t, x : IsFiniteSet(Forth(t, x)) /\ IsFiniteSet(Back(t, x))
         /\ \A t, x : Forth(t, x) \cup Back(t, x) \subseteq links
         /\ \A t, x : IdsOf(Forth(t, x)) \cup IdsOf(Back(t, x)) \subseteq PairIds
         /\ \A t, x, u, y : IdsOf(Forth(t, x)) \cap IdsOf(Back(u, y)) = {}
         /\ \A t, x, u, y : ~(t = u /\ x = y) =>
              /\ IdsOf(Forth(t, x)) \cap IdsOf(Forth(u, y)) = {}
              /\ IdsOf(Back(t, x)) \cap IdsOf(Back(u, y)) = {}
<1>1. \A t, x : /\ \A l \in Forth(t, x) : /\ l \in links /\ l.type = "ServiceTypeToEntity"
                                          /\ l.base = t /\ l.target = x
                /\ \A l \in Back(t, x) : /\ l \in links /\ l.type = "EntityToServiceType"
                                         /\ l.base = x /\ l.target = t
  BY DEF Forth, Back, Live
<1>2. \A l, m \in links : l.id = m.id => l = m
  BY DEF TypeOK, DhtTypeOK
<1>3. IsFiniteSet(links)
  BY LinksAreFinite DEF TypeOK
<1>4. \A t, x : Forth(t, x) \cup Back(t, x) \subseteq links
  BY <1>1
<1>5. \A t, x : IsFiniteSet(Forth(t, x)) /\ IsFiniteSet(Back(t, x))
  BY <1>3, <1>4, FS_Subset
<1>6. \A t, x : IdsOf(Forth(t, x)) \cup IdsOf(Back(t, x)) \subseteq PairIds
  BY <1>1 DEF IdsOf, PairIds
<1>7. \A t, x, u, y : IdsOf(Forth(t, x)) \cap IdsOf(Back(u, y)) = {}
  BY <1>1, <1>2 DEF IdsOf
<1>8. \A t, x, u, y : ~(t = u /\ x = y) =>
              /\ IdsOf(Forth(t, x)) \cap IdsOf(Forth(u, y)) = {}
              /\ IdsOf(Back(t, x)) \cap IdsOf(Back(u, y)) = {}
  BY <1>1, <1>2 DEF IdsOf
<1> QED BY <1>4, <1>5, <1>6, <1>7, <1>8

\* The pairs of a type and an entity after a call.
LEMMA PairsAfter ==
  ASSUME TypeOK, NEW a \in Agents, NEW n \in Nat, NEW new, NEW del,
         FreshLinks(n, new), del \subseteq Ids, Publish(a, n, new, del), NEW t, NEW x
  PROVE  /\ Forth(t, x)' = {l \in Forth(t, x) : l.id \notin del} \cup ForthIn(new, t, x)
         /\ Back(t, x)' = {l \in Back(t, x) : l.id \notin del} \cup BackIn(new, t, x)
<1>1. Live("ServiceTypeToEntity", t)' =
        {l \in Live("ServiceTypeToEntity", t) : l.id \notin del} \cup
        {l \in new : l.type = "ServiceTypeToEntity" /\ l.base = t}
  BY LiveAfterPublish DEF TypeOK
<1>2. Live("EntityToServiceType", x)' =
        {l \in Live("EntityToServiceType", x) : l.id \notin del} \cup
        {l \in new : l.type = "EntityToServiceType" /\ l.base = x}
  BY LiveAfterPublish DEF TypeOK
<1> QED BY <1>1, <1>2 DEF Forth, Back, ForthIn, BackIn

\* Equally many links each way stay when equally many go.
LEMMA TakenAlike ==
  ASSUME NEW F, NEW B, IsFiniteSet(F), IsFiniteSet(B), Cardinality(F) = Cardinality(B),
         \A l, m \in F : l.id = m.id => l = m, \A l, m \in B : l.id = m.id => l = m,
         NEW n \in Nat, NEW del, del \cap IdsOf(F) \in Some(n, F), del \cap IdsOf(B) \in Some(n, B)
  PROVE  /\ Cardinality({l \in F : l.id \notin del}) = Cardinality({l \in B : l.id \notin del})
         /\ Cardinality(F) <= n => \A l \in F \cup B : l.id \in del
<1>1. /\ {l \in F : l.id \notin del} = {l \in F : l.id \notin del \cap IdsOf(F)}
      /\ {l \in B : l.id \notin del} = {l \in B : l.id \notin del \cap IdsOf(B)}
  BY DEF IdsOf
<1>2. /\ Cardinality({l \in F : l.id \notin del}) = Cardinality(F) - Cardinality(del \cap IdsOf(F))
      /\ Cardinality({l \in B : l.id \notin del}) = Cardinality(B) - Cardinality(del \cap IdsOf(B))
  BY <1>1, LinksTakenAway
<1>3. CASE Cardinality(F) <= n
  <2>1. del \cap IdsOf(F) = IdsOf(F) /\ del \cap IdsOf(B) = IdsOf(B)
    BY <1>3 DEF Some, IdsOf
  <2>2. \A l \in F \cup B : l.id \in del
    BY <2>1 DEF IdsOf
  <2>3. {l \in F : l.id \notin del} = {} /\ {l \in B : l.id \notin del} = {}
    BY <2>2
  <2> QED BY <2>2, <2>3
<1>4. CASE ~(Cardinality(F) <= n)
  <2>1. Cardinality(del \cap IdsOf(F)) = n /\ Cardinality(del \cap IdsOf(B)) = n
    BY <1>4 DEF Some
  <2> QED BY <1>2, <1>4, <2>1
<1> QED BY <1>3, <1>4

\* Nothing of a pair is deleted, or all of it is looked at by one unlinking.
LEMMA UntouchedPairs ==
  ASSUME TypeOK, NEW del, NEW t, NEW x,
         del \cap IdsOf(Forth(t, x)) = {}, del \cap IdsOf(Back(t, x)) = {}
  PROVE  /\ del \cap IdsOf(Forth(t, x)) \in Some(0, Forth(t, x))
         /\ del \cap IdsOf(Back(t, x)) \in Some(0, Back(t, x))
<1>1. \A F : IsFiniteSet(F) => {} \in Some(0, F)
  <2> SUFFICES ASSUME NEW F, IsFiniteSet(F) PROVE {} \in Some(0, F)
    OBVIOUS
  <2>1. Cardinality(F) \in Nat /\ (Cardinality(F) = 0 => F = {}) /\ Cardinality({}) = 0
    BY FS_CardinalityType, FS_EmptySet
  <2> QED BY <2>1 DEF Some
<1> QED BY <1>1, PairsApart

\* unlink_from_service_type on a complete copy, n times.
LEMMA UnlinkedParts ==
  ASSUME TypeOK, NEW a \in Agents, UpToDate(a), NEW t, NEW x, NEW n, NEW S \in Unlinked(a, t, x, n)
  PROVE  /\ S \cap IdsOf(Forth(t, x)) \in Some(n, Forth(t, x))
         /\ S \cap IdsOf(Back(t, x)) \in Some(n, Back(t, x))
         /\ \A u, y : ~(t = u /\ x = y) =>
              S \cap IdsOf(Forth(u, y)) = {} /\ S \cap IdsOf(Back(u, y)) = {}
<1>1. ToEntity(a, t, x) = Forth(t, x) /\ ToServiceType(a, x, t) = Back(t, x)
  BY CompleteCopyReadsTable DEF TypeOK, ToEntity, ToServiceType, Forth, Back
<1>2. PICK F \in Some(n, Forth(t, x)), B \in Some(n, Back(t, x)) : S = F \cup B
  BY <1>1 DEF Unlinked
<1>3. F \subseteq IdsOf(Forth(t, x)) /\ B \subseteq IdsOf(Back(t, x))
  BY DEF Some, IdsOf
<1>4. S \cap IdsOf(Forth(t, x)) = F /\ S \cap IdsOf(Back(t, x)) = B
  BY <1>2, <1>3, PairsApart
<1>5. \A u, y : ~(t = u /\ x = y) =>
              S \cap IdsOf(Forth(u, y)) = {} /\ S \cap IdsOf(Back(u, y)) = {}
  BY <1>2, <1>3, PairsApart
<1> QED BY <1>4, <1>5

\* The same for several pairs.
LEMMA AllUnlinkedParts ==
  ASSUME TypeOK, NEW a \in Agents, UpToDate(a), NEW T, NEW X, NEW times, DOMAIN times \subseteq T \X X,
         NEW S \in AllUnlinked(a, times), NEW t, NEW x
  PROVE  IF <<t, x>> \in DOMAIN times
         THEN /\ S \cap IdsOf(Forth(t, x)) \in Some(times[<<t, x>>], Forth(t, x))
              /\ S \cap IdsOf(Back(t, x)) \in Some(times[<<t, x>>], Back(t, x))
         ELSE S \cap IdsOf(Forth(t, x)) = {} /\ S \cap IdsOf(Back(t, x)) = {}
<1>1. PICK f : /\ S = UNION {f[p] : p \in DOMAIN times}
               /\ \A p \in DOMAIN times : f[p] \in Unlinked(a, p[1], p[2], times[p])
  BY DEF AllUnlinked
<1>2. \A p \in DOMAIN times : p = <<p[1], p[2]>>
  OBVIOUS
<1>3. ASSUME NEW p \in DOMAIN times, p # <<t, x>>
      PROVE  f[p] \cap IdsOf(Forth(t, x)) = {} /\ f[p] \cap IdsOf(Back(t, x)) = {}
  <2>1. PICK u, y, n, U : u = p[1] /\ y = p[2] /\ n = times[p] /\ U = f[p]
    OBVIOUS
  <2>2. ~(u = t /\ y = x) /\ U \in Unlinked(a, u, y, n)
    BY <1>1, <1>2, <1>3, <2>1
  <2>3. U \cap IdsOf(Forth(t, x)) = {} /\ U \cap IdsOf(Back(t, x)) = {}
    BY <2>2, UnlinkedParts
  <2> QED BY <2>1, <2>3
<1>4. CASE <<t, x>> \in DOMAIN times
  <2> DEFINE p == <<t, x>>
  <2>1. f[p] \in Unlinked(a, t, x, times[p])
    BY <1>1, <1>4
  <2>2. /\ f[p] \cap IdsOf(Forth(t, x)) \in Some(times[p], Forth(t, x))
        /\ f[p] \cap IdsOf(Back(t, x)) \in Some(times[p], Back(t, x))
    BY <2>1, UnlinkedParts
  <2>3. /\ S \cap IdsOf(Forth(t, x)) = f[p] \cap IdsOf(Forth(t, x))
        /\ S \cap IdsOf(Back(t, x)) = f[p] \cap IdsOf(Back(t, x))
    BY <1>1, <1>3, <1>4
  <2> QED BY <1>4, <2>2, <2>3
<1>5. CASE <<t, x>> \notin DOMAIN times
  BY <1>1, <1>3, <1>5
<1> QED BY <1>4, <1>5

\* So a call that unlinks several pairs, each as often as a number says, takes
\* equally many links each way.
LEMMA AllUnlinkedAlike ==
  ASSUME TypeOK, NEW a \in Agents, UpToDate(a), NEW T, NEW X, NEW times, DOMAIN times \subseteq T \X X,
         \A p \in DOMAIN times : times[p] \in Nat,
         NEW S \in AllUnlinked(a, times)
  PROVE  Unlinks(S)
<1> SUFFICES ASSUME NEW t, NEW x
             PROVE  \E n \in Nat : /\ S \cap IdsOf(Forth(t, x)) \in Some(n, Forth(t, x))
                                   /\ S \cap IdsOf(Back(t, x)) \in Some(n, Back(t, x))
  BY DEF Unlinks
<1>1. CASE <<t, x>> \in DOMAIN times
  BY <1>1, AllUnlinkedParts
<1>2. CASE <<t, x>> \notin DOMAIN times
  BY <1>2, AllUnlinkedParts, UntouchedPairs
<1> QED BY <1>1, <1>2

\* A call that deletes nothing of the pairs besides.
LEMMA UnlinksWith ==
  ASSUME TypeOK, NEW S, NEW del, Unlinks(S), del \cap PairIds = {}
  PROVE  Unlinks(S \cup del) /\ Unlinks(del)
<1>1. \A t, x : /\ del \cap IdsOf(Forth(t, x)) = {}
                /\ del \cap IdsOf(Back(t, x)) = {}
  BY PairsApart
<1>2. Unlinks(del)
  BY <1>1, UntouchedPairs DEF Unlinks
<1>3. \A t, x : /\ (S \cup del) \cap IdsOf(Forth(t, x)) = S \cap IdsOf(Forth(t, x))
                /\ (S \cup del) \cap IdsOf(Back(t, x)) = S \cap IdsOf(Back(t, x))
  BY <1>1
<1>4. Unlinks(S \cup del)
  BY <1>3 DEF Unlinks
<1> QED BY <1>2, <1>4

LEMMA UnlinksNothing == ASSUME TypeOK PROVE Unlinks({})
BY UntouchedPairs DEF Unlinks

\* Links of a type or an entity that is not there do not exist.
LEMMA NoStrayPairs ==
  ASSUME TypeOK, NEW t, NEW x, t \notin types \/ x \notin Entities
  PROVE  Forth(t, x) = {} /\ Back(t, x) = {}
BY DEF TypeOK, LinkType, Forth, Back, Live

LEMMA BalanceAfter ==
  ASSUME TypeOK, PairsBalance, NEW a \in Agents, NEW n \in Nat, NEW new, NEW del,
         FreshLinks(n, new), del \subseteq Ids, Commit(a, n, new, del), serial',
         Unlinks(del), LinksPairs(new), NEW t, NEW x
  PROVE  Cardinality(Forth(t, x)') = Cardinality(Back(t, x)')
<1>1. Publish(a, n, new, del) /\ serial
  BY DEF Commit
<1>2. /\ Forth(t, x)' = {l \in Forth(t, x) : l.id \notin del} \cup ForthIn(new, t, x)
      /\ Back(t, x)' = {l \in Back(t, x) : l.id \notin del} \cup BackIn(new, t, x)
  BY <1>1, PairsAfter
<1>3. Cardinality(Forth(t, x)) = Cardinality(Back(t, x))
  BY <1>1, NoStrayPairs DEF PairsBalance
<1>4. /\ IsFiniteSet(Forth(t, x)) /\ IsFiniteSet(Back(t, x))
      /\ Forth(t, x) \cup Back(t, x) \subseteq links
  BY PairsApart
<1>5. PICK c \in Nat : /\ del \cap IdsOf(Forth(t, x)) \in Some(c, Forth(t, x))
                       /\ del \cap IdsOf(Back(t, x)) \in Some(c, Back(t, x))
  BY DEF Unlinks
<1>6. Cardinality({l \in Forth(t, x) : l.id \notin del}) = Cardinality({l \in Back(t, x) : l.id \notin del})
  <2>1. \A l, m \in links : l.id = m.id => l = m
    BY DEF TypeOK, DhtTypeOK
  <2>2. /\ \A l, m \in Forth(t, x) : l.id = m.id => l = m
        /\ \A l, m \in Back(t, x) : l.id = m.id => l = m
    BY <1>4, <2>1
  <2> QED BY <1>3, <1>4, <1>5, <2>2, TakenAlike
<1>7. CASE ForthIn(new, t, x) = {} /\ BackIn(new, t, x) = {}
  BY <1>2, <1>6, <1>7
<1>8. ASSUME NEW l, NEW m, ForthIn(new, t, x) = {l}, BackIn(new, t, x) = {m}
      PROVE  Cardinality(Forth(t, x)') = Cardinality(Back(t, x)')
  <2>1. \A k \in new : k \notin links
    BY DEF TypeOK, DhtTypeOK, FreshLinks, Ids
  <2>2. l \notin Forth(t, x) /\ m \notin Back(t, x)
    BY <1>4, <1>8, <2>1 DEF ForthIn, BackIn
  <2>3. /\ IsFiniteSet({k \in Forth(t, x) : k.id \notin del})
        /\ IsFiniteSet({k \in Back(t, x) : k.id \notin del})
    BY <1>4, FS_Subset
  <2>4. /\ Cardinality({k \in Forth(t, x) : k.id \notin del} \cup {l})
             = Cardinality({k \in Forth(t, x) : k.id \notin del}) + 1
        /\ Cardinality({k \in Back(t, x) : k.id \notin del} \cup {m})
             = Cardinality({k \in Back(t, x) : k.id \notin del}) + 1
    BY <2>2, <2>3, FS_AddElement
  <2> QED BY <1>2, <1>6, <1>8, <2>4
<1> QED BY <1>7, <1>8 DEF LinksPairs

-----------------------------------------------------------------------------
(* Each call keeps the pairs in order. *)

PairsInv == PairsBalance /\ NoLinkToUnapproved

\* It is enough to look at calls on complete copies, and at the approvals.
LEMMA PairsInvAfter ==
  ASSUME IInv, PairsInv, NEW a \in Agents, NEW n \in Nat, NEW new, NEW del,
         FreshLinks(n, new), del \subseteq Ids, Commit(a, n, new, del),
         UpToDate(a) => Unlinks(del), LinksPairs(new),
         ASSUME serial', NEW t \in types' \ dead', NEW x \in Listings,
                Forth(t, x)' \cup Back(t, x)' # {}
         PROVE  Approved(t)'
  PROVE  PairsInv'
<1>1. PairsBalance'
  <2> SUFFICES ASSUME serial', NEW t \in types', NEW x \in Entities
               PROVE  Cardinality(Forth(t, x)') = Cardinality(Back(t, x)')
    BY DEF PairsBalance
  <2>1. UpToDate(a)
    BY DEF Commit
  <2> QED BY <2>1, BalanceAfter DEF IInv, PairsInv
<1>2. \A t : Approved(t)' <=> \E l \in Live("AllServiceTypes", "approved")' : l.target = t
  BY DEF Approved, Statuses, Live, StatusPaths
<1>3. NoLinkToUnapproved'
  BY <1>2 DEF NoLinkToUnapproved
<1> QED BY <1>1, <1>3 DEF PairsInv

\* A type that was linked before the call and keeps its place stays approved.
LEMMA StillApproved ==
  ASSUME IInv, PairsInv, NEW a \in Agents, NEW n \in Nat, NEW new, NEW del,
         FreshLinks(n, new), del \subseteq Ids, Commit(a, n, new, del), serial',
         NEW t \in types \ dead, NEW x \in Listings,
         \A l \in Statuses(t) : l.id \notin del,
         ForthIn(new, t, x) \cup BackIn(new, t, x) # {} => Approved(t),
         Forth(t, x)' \cup Back(t, x)' # {}
  PROVE  Approved(t)'
<1>1. Publish(a, n, new, del) /\ serial /\ TypeOK
  BY DEF Commit, IInv
<1>2. /\ Forth(t, x)' \subseteq Forth(t, x) \cup ForthIn(new, t, x)
      /\ Back(t, x)' \subseteq Back(t, x) \cup BackIn(new, t, x)
  BY <1>1, PairsAfter
<1>3. Approved(t)
  <2>1. CASE Forth(t, x) \cup Back(t, x) # {}
    BY <1>1, <2>1, ApprovedIsListed DEF PairsInv, NoLinkToUnapproved
  <2>2. CASE Forth(t, x) \cup Back(t, x) = {}
    BY <1>2, <2>2
  <2> QED BY <2>1, <2>2
<1>4. Statuses(t) \subseteq Statuses(t)'
  BY <1>1, StatusesAfter
<1> QED BY <1>3, <1>4 DEF Approved

\* A call without links of pairs.
LEMMA NoPairsMade ==
  ASSUME NEW new, \A l \in new : l.type \notin {"ServiceTypeToEntity", "EntityToServiceType"}
  PROVE  LinksPairs(new) /\ \A t, x : ForthIn(new, t, x) = {} /\ BackIn(new, t, x) = {}
BY DEF LinksPairs, ForthIn, BackIn

\* Calls that leave the status lists alone.
LEMMA OtherLinksPairs ==
  ASSUME IInv, PairsInv, NEW a \in Agents, NEW n \in Nat, NEW new, NEW del,
         FreshLinks(n, new), Commit(a, n, new, del), types' = types,
         del \subseteq PairIds, UpToDate(a) => Unlinks(del), LinksPairs(new),
         ASSUME UpToDate(a), NEW t \in types, NEW x \in Listings,
                ForthIn(new, t, x) \cup BackIn(new, t, x) # {}
         PROVE  Approved(t)
  PROVE  PairsInv'
<1>1. /\ del \subseteq Ids
      /\ \A t : \A l \in Statuses(t) : l.id \notin del
  BY DeletedLinksAreNoTypes
<1>2. ASSUME serial', NEW t \in types' \ dead', NEW x \in Listings,
             Forth(t, x)' \cup Back(t, x)' # {}
      PROVE  Approved(t)'
  <2>1. t \in types \ dead /\ UpToDate(a)
    BY <1>2 DEF Commit, Publish
  <2>2. ForthIn(new, t, x) \cup BackIn(new, t, x) # {} => Approved(t)
    BY <2>1
  <2> QED BY <1>1, <1>2, <2>1, <2>2, StillApproved
<1> QED BY <1>1, <1>2, PairsInvAfter

\* Approving and rejecting.
LEMMA DecisionPairs ==
  ASSUME IInv, PairsInv, NEW a \in Agents, NEW t \in types, NEW path \in StatusPaths, NEW unlinked,
         unlinked \subseteq PairIds, types' = types,
         Commit(a, 1, {StatusLink(clock + 1, path, t)}, RemoveFromStatusPaths(a, t) \cup unlinked),
         UpToDate(a) => Unlinks(unlinked),
         ASSUME UpToDate(a), serial, t \notin dead, path # "approved", NEW x \in Listings
         PROVE  \A l \in Forth(t, x) \cup Back(t, x) : l.id \in unlinked
  PROVE  PairsInv'
<1>1. PICK n, link, new, del : /\ n = 1 /\ link = StatusLink(clock + 1, path, t) /\ new = {link}
                               /\ del = RemoveFromStatusPaths(a, t) \cup unlinked
  OBVIOUS
<1>2. TypeOK /\ clock \in Nat
  BY DEF IInv, TypeOK, DhtTypeOK
<1>3. n \in Nat /\ FreshLinks(n, new) /\ Commit(a, n, new, del)
  BY <1>1, <1>2 DEF FreshLinks, StatusLink, Link
<1>4. /\ del \subseteq Ids
      /\ \A u : u # t => \A l \in Statuses(u) : l.id \notin del
  BY <1>1, DeletedLinksAreNoTypes, RemovedFromPaths
<1>5. LinksPairs(new) /\ \A u, x : ForthIn(new, u, x) = {} /\ BackIn(new, u, x) = {}
  BY <1>1, NoPairsMade DEF StatusLink, Link
<1>6. RemoveFromStatusPaths(a, t) \cap PairIds = {}
  <2>1. \A l \in StatusLinks(a, t) : l \in links /\ l.type = "AllServiceTypes"
    BY DEF StatusLinks, GetLinks
  <2>2. \A l, m \in links : l.id = m.id => l = m
    BY <1>2 DEF TypeOK, DhtTypeOK
  <2> QED BY <2>1, <2>2 DEF RemoveFromStatusPaths, PairIds
<1>7. UpToDate(a) => Unlinks(del)
  BY <1>1, <1>2, <1>6, UnlinksWith
<1>8. ASSUME serial', NEW u \in types' \ dead', NEW x \in Listings,
             Forth(u, x)' \cup Back(u, x)' # {}
      PROVE  Approved(u)'
  <2>1. u \in types \ dead /\ UpToDate(a) /\ serial /\ Publish(a, n, new, del)
    BY <1>3, <1>8 DEF Commit, Publish
  <2>2. CASE u # t
    BY <1>3, <1>4, <1>5, <1>8, <2>1, <2>2, StillApproved
  <2>3. CASE u = t /\ path = "approved"
    <3>1. link \in Statuses(t)'
      BY <1>1, <1>2, <1>3, <1>4, <2>1, StatusesAfter DEF StatusLink, Link
    <3> QED BY <1>1, <2>3, <3>1 DEF Approved, StatusLink, Link
  <2>4. CASE u = t /\ path # "approved"
    <3>1. \A l \in Forth(t, x) \cup Back(t, x) : l.id \in del
      BY <1>1, <2>1, <2>4
    <3>2. /\ Forth(t, x)' = {l \in Forth(t, x) : l.id \notin del} \cup ForthIn(new, t, x)
          /\ Back(t, x)' = {l \in Back(t, x) : l.id \notin del} \cup BackIn(new, t, x)
      BY <1>2, <1>3, <1>4, <2>1, PairsAfter
    <3> QED BY <1>5, <1>8, <2>4, <3>1, <3>2
  <2> QED BY <2>2, <2>3, <2>4
<1> QED BY <1>3, <1>4, <1>5, <1>7, <1>8, PairsInvAfter

LEMMA NewTypePairs ==
  ASSUME IInv, PairsInv, NEW a \in Agents, NEW path, NewType(a, path)
  PROVE  PairsInv'
<1>1. PICK n, t, new, del : /\ n = 3 /\ t = clock + 1 /\ del = {}
                            /\ new = {StatusLink(clock + 2, AllPath, t), StatusLink(clock + 3, path, t)}
  OBVIOUS
<1>2. clock \in Nat /\ Commit(a, n, new, del) /\ types' = types \cup {t} /\ n \in Nat /\ TypeOK
  BY <1>1 DEF NewType, IInv, TypeOK, DhtTypeOK
<1>3. FreshLinks(n, new) /\ \A l \in new : l.type = "AllServiceTypes"
  BY <1>1, <1>2 DEF FreshLinks, StatusLink, Link
<1>4. LinksPairs(new) /\ \A u, x : ForthIn(new, u, x) = {} /\ BackIn(new, u, x) = {}
  BY <1>3, NoPairsMade
<1>5. del \subseteq Ids /\ Unlinks(del) /\ \A l : l.id \notin del
  BY <1>1, <1>2, UnlinksNothing
<1>6. t \notin types
  BY <1>1, <1>2 DEF TypeOK, Ids
<1>7. ASSUME serial', NEW u \in types' \ dead', NEW x \in Listings,
             Forth(u, x)' \cup Back(u, x)' # {}
      PROVE  Approved(u)'
  <2>1. Publish(a, n, new, del)
    BY <1>2 DEF Commit
  <2>2. CASE u = t
    <3>1. Forth(u, x) = {} /\ Back(u, x) = {}
      BY <1>2, <1>6, <2>2, NoStrayPairs
    <3>2. Forth(u, x)' = {} /\ Back(u, x)' = {}
      BY <1>2, <1>3, <1>4, <1>5, <2>1, <3>1, PairsAfter
    <3> QED BY <1>7, <3>2
  <2>3. CASE u # t
    <3>1. u \in types \ dead
      BY <1>2, <1>7, <2>1, <2>3 DEF Publish
    <3> QED BY <1>2, <1>3, <1>4, <1>5, <1>7, <3>1, StillApproved
  <2> QED BY <2>2, <2>3
<1> QED BY <1>2, <1>3, <1>4, <1>5, <1>7, PairsInvAfter

LEMMA UpdateTypePairs ==
  ASSUME IInv, PairsInv, NEW a \in Agents, NEW t, UpdateServiceType(a, t)
  PROVE  PairsInv'
<1>1. PICK n, r, new, del : /\ n = 2 /\ r = clock + 1 /\ del = {}
                            /\ new = {Link(clock + 2, "ServiceTypeUpdates", t, r)}
  OBVIOUS
<1>2. Commit(a, n, new, del) /\ types' = types \cup {r} /\ n \in Nat /\ clock \in Nat /\ TypeOK
  BY <1>1 DEF UpdateServiceType, IInv, TypeOK, DhtTypeOK
<1>3. FreshLinks(n, new) /\ \A l \in new : l.type = "ServiceTypeUpdates"
  BY <1>1, <1>2 DEF FreshLinks, Link
<1>4. LinksPairs(new) /\ \A u, x : ForthIn(new, u, x) = {} /\ BackIn(new, u, x) = {}
  BY <1>3, NoPairsMade
<1>5. del \subseteq Ids /\ Unlinks(del) /\ \A l : l.id \notin del
  BY <1>1, <1>2, UnlinksNothing
<1>6. r \notin types
  BY <1>1, <1>2 DEF TypeOK, Ids
<1>7. ASSUME serial', NEW u \in types' \ dead', NEW x \in Listings,
             Forth(u, x)' \cup Back(u, x)' # {}
      PROVE  Approved(u)'
  <2>1. Publish(a, n, new, del)
    BY <1>2 DEF Commit
  <2>2. u # r
    <3>1. SUFFICES ASSUME u = r PROVE FALSE
      OBVIOUS
    <3>2. Forth(u, x) = {} /\ Back(u, x) = {}
      BY <1>2, <1>6, <3>1, NoStrayPairs
    <3>3. Forth(u, x)' = {} /\ Back(u, x)' = {}
      BY <1>2, <1>3, <1>4, <1>5, <2>1, <3>2, PairsAfter
    <3> QED BY <1>7, <3>3
  <2>3. u \in types \ dead
    BY <1>2, <1>7, <2>1, <2>2 DEF Publish
  <2> QED BY <1>2, <1>3, <1>4, <1>5, <1>7, <2>3, StillApproved
<1> QED BY <1>2, <1>3, <1>4, <1>5, <1>7, PairsInvAfter

\* Rejecting a type that was approved takes its links to requests and offers along.
LEMMA RejectApprovedPairs ==
  ASSUME IInv, PairsInv, NEW a \in Agents, NEW t \in types, RejectApprovedServiceType(a, t)
  PROVE  PairsInv'
<1>1. PICK linked, times :
        /\ linked = {x \in Listings : ToEntity(a, t, x) # {}}
        /\ times = [p \in {t} \X linked |-> Cardinality(ToEntity(a, t, p[2]))]
  OBVIOUS
<1>2. PICK unlinked \in AllUnlinked(a, times) :
        /\ Commit(a, 1, {StatusLink(clock + 1, "rejected", t)}, RemoveFromStatusPaths(a, t) \cup unlinked)
        /\ types' = types
  BY <1>1 DEF RejectApprovedServiceType
<1>3. unlinked \subseteq PairIds /\ "rejected" \in StatusPaths /\ TypeOK
  BY AllUnlinkedPairs DEF StatusPaths, IInv
<1>4. DOMAIN times \subseteq {t} \X linked
  BY <1>1
<1>5. ASSUME UpToDate(a)
      PROVE  /\ Unlinks(unlinked)
             /\ serial => \A x \in Listings : \A l \in Forth(t, x) \cup Back(t, x) : l.id \in unlinked
  <2>1. \A x : ToEntity(a, t, x) = Forth(t, x)
    BY <1>3, <1>5, CompleteCopyReadsTable DEF TypeOK, ToEntity, Forth
  <2>2. \A x \in linked : <<t, x>> \in DOMAIN times /\ times[<<t, x>>] = Cardinality(Forth(t, x))
    BY <1>1, <2>1
  <2>3. \A p \in DOMAIN times : times[p] \in Nat
    <3>1. \A p \in DOMAIN times : times[p] = Cardinality(Forth(t, p[2]))
      BY <1>1, <2>1
    <3>2. \A x : IsFiniteSet(Forth(t, x))
      BY <1>3, PairsApart
    <3> QED BY <3>1, <3>2, FS_CardinalityType
  <2>4. Unlinks(unlinked)
    BY <1>3, <1>4, <1>5, <2>3, AllUnlinkedAlike
  <2>5. ASSUME serial, NEW x \in Listings PROVE \A l \in Forth(t, x) \cup Back(t, x) : l.id \in unlinked
    <3>1. /\ IsFiniteSet(Forth(t, x)) /\ IsFiniteSet(Back(t, x))
          /\ Forth(t, x) \cup Back(t, x) \subseteq links
      BY <1>3, PairsApart
    <3>2. Cardinality(Forth(t, x)) = Cardinality(Back(t, x)) /\ Cardinality(Forth(t, x)) \in Nat
      BY <2>5, <3>1, FS_CardinalityType DEF PairsInv, PairsBalance, Entities
    <3>3. CASE x \in linked
      <4>1. <<t, x>> \in DOMAIN times /\ times[<<t, x>>] = Cardinality(Forth(t, x))
        BY <2>2, <3>3
      <4>2. /\ unlinked \cap IdsOf(Forth(t, x)) \in Some(Cardinality(Forth(t, x)), Forth(t, x))
            /\ unlinked \cap IdsOf(Back(t, x)) \in Some(Cardinality(Forth(t, x)), Back(t, x))
        BY <1>3, <1>4, <1>5, <4>1, AllUnlinkedParts
      <4>3. \A l, m \in links : l.id = m.id => l = m
        BY <1>3 DEF TypeOK, DhtTypeOK
      <4>4. PICK n, F, B : n = Cardinality(Forth(t, x)) /\ F = Forth(t, x) /\ B = Back(t, x)
        OBVIOUS
      <4>5. /\ n \in Nat /\ Cardinality(F) <= n /\ Cardinality(F) = Cardinality(B)
            /\ IsFiniteSet(F) /\ IsFiniteSet(B)
            /\ unlinked \cap IdsOf(F) \in Some(n, F) /\ unlinked \cap IdsOf(B) \in Some(n, B)
            /\ \A l, m \in F : l.id = m.id => l = m
            /\ \A l, m \in B : l.id = m.id => l = m
        BY <3>1, <3>2, <4>2, <4>3, <4>4
      <4>6. \A l \in F \cup B : l.id \in unlinked
        BY <4>5, TakenAlike
      <4> QED BY <4>4, <4>6
    <3>4. CASE x \notin linked
      <4>1. Forth(t, x) = {}
        BY <1>1, <2>1, <3>4
      <4>2. Back(t, x) = {}
        BY <3>1, <3>2, <4>1, FS_EmptySet
      <4> QED BY <4>1, <4>2
    <3> QED BY <3>3, <3>4
  <2> QED BY <2>4, <2>5
<1> QED BY <1>2, <1>3, <1>5, DecisionPairs

LEMMA ModerationPairs ==
  ASSUME IInv, PairsInv, NEW a \in Agents, NEW t \in types,
         \/ ApproveServiceType(a, t)
         \/ RejectServiceType(a, t)
         \/ RejectApprovedServiceType(a, t)
  PROVE  PairsInv'
<1>1. PICK unlinked : /\ unlinked \subseteq PairIds /\ Unlinks(unlinked)
                      /\ RemoveFromStatusPaths(a, t) \cup unlinked = RemoveFromStatusPaths(a, t)
  <2>1. {} \subseteq PairIds /\ Unlinks({}) /\ RemoveFromStatusPaths(a, t) \cup {} = RemoveFromStatusPaths(a, t)
    BY UnlinksNothing DEF IInv
  <2> QED BY <2>1
<1>2. CASE ApproveServiceType(a, t)
  <2>1. PICK path : path = "approved" /\ path \in StatusPaths
    BY DEF StatusPaths
  <2>2. /\ Commit(a, 1, {StatusLink(clock + 1, path, t)}, RemoveFromStatusPaths(a, t) \cup unlinked)
        /\ types' = types
    BY <1>1, <1>2, <2>1 DEF ApproveServiceType
  <2> QED BY <1>1, <2>1, <2>2, DecisionPairs
<1>3. CASE RejectServiceType(a, t)
  <2>1. PICK path : path = "rejected" /\ path \in StatusPaths
    BY DEF StatusPaths
  <2>2. /\ Commit(a, 1, {StatusLink(clock + 1, path, t)}, RemoveFromStatusPaths(a, t) \cup unlinked)
        /\ types' = types
    BY <1>1, <1>3, <2>1 DEF RejectServiceType
  <2>3. ASSUME UpToDate(a), serial, t \notin dead, NEW x \in Listings
        PROVE  \A l \in Forth(t, x) \cup Back(t, x) : l.id \in unlinked
    <3>1. PICK p \in Live("AllServiceTypes", "pending") : p.target = t
      BY <1>3, <2>3, CompleteCopyReadsTable DEF RejectServiceType, IInv, TypeOK
    <3>2. p \in Statuses(t) /\ p.base = "pending"
      BY <3>1 DEF Statuses, Live, StatusPaths
    <3>3. PICK l : Statuses(t) = {l}
      BY <2>3, <3>2 DEF IInv, OneStatus
    <3>4. ~Approved(t)
      BY <3>2, <3>3 DEF Approved
    <3> QED BY <2>3, <3>4, ApprovedIsListed DEF PairsInv, NoLinkToUnapproved
  <2> QED BY <1>1, <2>1, <2>2, <2>3, DecisionPairs
<1> QED BY <1>2, <1>3, RejectApprovedPairs

LEMMA DeletePairs ==
  ASSUME IInv, PairsInv, NEW a \in Agents, NEW t \in types, DeleteServiceType(a, t)
  PROVE  PairsInv'
<1>1. PICK all \in Some(1, {l \in GetLinks(a, "AllServiceTypes", AllPath) : l.target = t}) :
        Commit(a, 0, {}, all \cup RemoveFromStatusPaths(a, t) \cup {t})
  BY DEF DeleteServiceType
<1>2. PICK n, new, del : n = 0 /\ new = {} /\ del = all \cup RemoveFromStatusPaths(a, t) \cup {t}
  OBVIOUS
<1>3. n \in Nat /\ FreshLinks(n, new) /\ Commit(a, n, new, del) /\ types' = types /\ TypeOK
  BY <1>1, <1>2 DEF FreshLinks, DeleteServiceType, IInv
<1>4. all \subseteq AllPathIds
  <2>1. all \subseteq {l.id : l \in {m \in GetLinks(a, "AllServiceTypes", AllPath) : m.target = t}}
    BY DEF Some
  <2> QED BY <2>1 DEF GetLinks, AllPathIds
<1>5. /\ del \subseteq Ids
      /\ \A u \in types : u # t => \A l \in Statuses(u) : l.id \notin del
  <2>1. \A u : \A l \in Statuses(u) : l.id # t
    BY DeletedLinksAreNoTypes DEF IInv, LinkIsNoType
  <2> QED BY <1>2, <1>4, <2>1, DeletedLinksAreNoTypes, RemovedFromPaths DEF IInv, TypeOK
<1>6. del \cap PairIds = {}
  <2>1. \A l \in StatusLinks(a, t) : l \in links /\ l.type = "AllServiceTypes"
    BY DEF StatusLinks, GetLinks
  <2>2. \A l, m \in links : l.id = m.id => l = m
    BY <1>3 DEF TypeOK, DhtTypeOK
  <2>3. RemoveFromStatusPaths(a, t) \cap PairIds = {} /\ AllPathIds \cap PairIds = {}
    BY <2>1, <2>2 DEF RemoveFromStatusPaths, PairIds, AllPathIds
  <2> QED BY <1>2, <1>4, <2>3, DeletedLinksAreNoTypes
<1>7. Unlinks(del)
  BY <1>3, <1>6, UnlinksNothing, UnlinksWith
<1>8. LinksPairs(new) /\ \A u, x : ForthIn(new, u, x) = {} /\ BackIn(new, u, x) = {}
  BY <1>2, NoPairsMade
<1>9. ASSUME serial', NEW u \in types' \ dead', NEW x \in Listings,
             Forth(u, x)' \cup Back(u, x)' # {}
      PROVE  Approved(u)'
  <2>1. u \in types \ dead /\ u # t
    BY <1>2, <1>3, <1>9 DEF Commit, Publish
  <2> QED BY <1>3, <1>5, <1>8, <1>9, <2>1, StillApproved
<1> QED BY <1>3, <1>5, <1>7, <1>8, <1>9, PairsInvAfter

\* An approval looked up in a complete copy is one of the table.
LEMMA ApprovedInCopy ==
  ASSUME TypeOK, NEW a \in Agents, UpToDate(a), NEW t, IsServiceTypeApproved(a, t)
  PROVE  Approved(t)
<1>1. GetLinks(a, "AllServiceTypes", "approved") = Live("AllServiceTypes", "approved")
  BY CompleteCopyReadsTable DEF TypeOK
<1> QED BY <1>1, ApprovedIsListed DEF IsServiceTypeApproved

\* The links of a pair are that pair and no other.
LEMMA PairIsPair ==
  ASSUME NEW id, NEW t, NEW x, NEW new, new = Pair(id, t, x)
  PROVE  /\ LinksPairs(new)
         /\ \A u, y : ForthIn(new, u, y) \cup BackIn(new, u, y) # {} => u = t /\ y = x
<1>1. /\ ForthIn(new, t, x) = {Link(id, "ServiceTypeToEntity", t, x)}
      /\ BackIn(new, t, x) = {Link(id + 1, "EntityToServiceType", x, t)}
  BY DEF Pair, Link, ForthIn, BackIn
<1>2. \A u, y : ~(u = t /\ y = x) => ForthIn(new, u, y) = {} /\ BackIn(new, u, y) = {}
  BY DEF Pair, Link, ForthIn, BackIn
<1>3. ASSUME NEW u, NEW y
      PROVE  \/ ForthIn(new, u, y) = {} /\ BackIn(new, u, y) = {}
             \/ \E l, m : ForthIn(new, u, y) = {l} /\ BackIn(new, u, y) = {m}
  <2>1. CASE u = t /\ y = x
    BY <1>1, <2>1
  <2> QED BY <1>2, <2>1
<1> QED BY <1>2, <1>3 DEF LinksPairs

LEMMA LinkPairs ==
  ASSUME IInv, PairsInv, NEW a \in Agents, NEW t \in types, NEW x \in Entities, LinkToServiceType(a, t, x)
  PROVE  PairsInv'
<1>1. PICK n, id, new, del : n = 2 /\ id = clock + 1 /\ new = Pair(id, t, x) /\ del = {}
  OBVIOUS
<1>2. /\ clock \in Nat /\ id \in Nat /\ Commit(a, n, new, del) /\ types' = types
      /\ n \in Nat /\ TypeOK
  BY <1>1 DEF LinkToServiceType, IInv, TypeOK, DhtTypeOK
<1>3. /\ \A l, m \in new : l.id = m.id => l = m
      /\ \A l \in new : l.id \in {id, id + 1}
  <2>1. /\ \A l \in Pair(id, t, x) : l.id \in {id, id + 1} /\ l.type # "AllServiceTypes"
        /\ \A l, m \in Pair(id, t, x) : l.id = m.id => l = m
    BY <1>2, PairLinks
  <2> QED BY <1>1, <2>1
<1>4. FreshLinks(n, new)
  BY <1>1, <1>2, <1>3 DEF FreshLinks
<1>5. LinksPairs(new) /\ \A u, y : ForthIn(new, u, y) \cup BackIn(new, u, y) # {} => u = t /\ y = x
  BY <1>1, PairIsPair
<1>6. ASSUME UpToDate(a), NEW u \in types, NEW y \in Listings, ForthIn(new, u, y) \cup BackIn(new, u, y) # {}
      PROVE  Approved(u)
  <2>1. u = t /\ y = x
    BY <1>5, <1>6
  <2> QED BY <1>2, <1>6, <2>1, ApprovedInCopy DEF LinkToServiceType
<1>7. del \subseteq PairIds /\ Unlinks(del)
  BY <1>1, <1>2, UnlinksNothing
<1> QED BY <1>2, <1>4, <1>5, <1>6, <1>7, OtherLinksPairs

\* Unlinking x from types, once for each link it has to them.
LEMMA UnlinkAllAlike ==
  ASSUME TypeOK, NEW a \in Agents, UpToDate(a), NEW x, NEW ts, NEW S \in UnlinkAll(a, x, ts)
  PROVE  Unlinks(S)
<1>1. PICK X, times : X = {x} /\ times = [p \in ts \X {x} |-> Cardinality(ToServiceType(a, x, p[1]))]
  OBVIOUS
<1>2. S \in AllUnlinked(a, times) /\ DOMAIN times \subseteq ts \X X
  BY <1>1 DEF UnlinkAll
<1>3. \A t : IsFiniteSet(ToServiceType(a, x, t))
  <2>1. \A t : ToServiceType(a, x, t) = Back(t, x)
    BY CompleteCopyReadsTable DEF TypeOK, ToServiceType, Back
  <2> QED BY <2>1, PairsApart
<1>4. \A p \in DOMAIN times : times[p] \in Nat
  BY <1>1, <1>3, FS_CardinalityType
<1> QED BY <1>2, <1>4, AllUnlinkedAlike

LEMMA UnlinkPairs ==
  ASSUME IInv, PairsInv, NEW a \in Agents, NEW t, NEW x,
         UnlinkFromServiceType(a, t, x) \/ DeleteAllServiceTypeLinks(a, x)
  PROVE  PairsInv'
<1>1. PICK n, new : n = 0 /\ new = {}
  OBVIOUS
<1>2. TypeOK
  BY DEF IInv
<1>3. PICK del : /\ Commit(a, n, new, del) /\ types' = types /\ del \subseteq PairIds
                 /\ UpToDate(a) => Unlinks(del)
  <2>1. CASE UnlinkFromServiceType(a, t, x)
    <3>1. PICK del \in Unlinked(a, t, x, 1) : Commit(a, n, new, del) /\ types' = types
      BY <1>1, <2>1 DEF UnlinkFromServiceType
    <3>2. ASSUME UpToDate(a) PROVE Unlinks(del)
      <4>1. PICK k \in Nat : del \in Unlinked(a, t, x, k)
        BY <3>1
      <4>2. /\ del \cap IdsOf(Forth(t, x)) \in Some(k, Forth(t, x))
            /\ del \cap IdsOf(Back(t, x)) \in Some(k, Back(t, x))
            /\ \A u, y : ~(t = u /\ x = y) =>
                 del \cap IdsOf(Forth(u, y)) = {} /\ del \cap IdsOf(Back(u, y)) = {}
        BY <1>2, <3>2, <4>1, UnlinkedParts
      <4> QED BY <1>2, <4>2, UntouchedPairs DEF Unlinks
    <3> QED BY <3>1, <3>2, UnlinkedPairs
  <2>2. CASE DeleteAllServiceTypeLinks(a, x)
    <3>0. PICK ts : ts = GetServiceTypesForEntity(a, x)
      OBVIOUS
    <3>1. PICK del \in UnlinkAll(a, x, ts) : Commit(a, n, new, del) /\ types' = types
      BY <1>1, <2>2, <3>0 DEF DeleteAllServiceTypeLinks
    <3>2. del \subseteq PairIds
      BY <3>1, AllUnlinkedPairs DEF UnlinkAll
    <3> QED BY <1>2, <3>1, <3>2, UnlinkAllAlike
  <2> QED BY <2>1, <2>2
<1>4. n \in Nat /\ FreshLinks(n, new) /\ LinksPairs(new) /\ \A u, y : ForthIn(new, u, y) = {} /\ BackIn(new, u, y) = {}
  BY <1>1, NoPairsMade DEF FreshLinks
<1> QED BY <1>3, <1>4, OtherLinksPairs

\* One pair for each of several types.
LEMMA ManyPairs ==
  ASSUME NEW x, NEW added, NEW at, NEW new, PairsAt(new, at, added, x)
  PROVE  /\ LinksPairs(new)
         /\ \A u, y : ForthIn(new, u, y) \cup BackIn(new, u, y) # {} => u \in added /\ y = x
<1>0. \A l : l \in new <=> \E t \in added : l \in Pair(at[t], t, x)
  BY DEF PairsAt
<1>1. \A t \in added : \A l \in Pair(at[t], t, x) :
        /\ l = Link(at[t], "ServiceTypeToEntity", t, x) \/ l = Link(at[t] + 1, "EntityToServiceType", x, t)
        /\ l.type = "ServiceTypeToEntity" => l.base = t /\ l.target = x
        /\ l.type = "EntityToServiceType" => l.base = x /\ l.target = t
  BY DEF Pair, Link
<1>2. \A u, y : ForthIn(new, u, y) \cup BackIn(new, u, y) # {} => u \in added /\ y = x
  BY <1>0, <1>1 DEF ForthIn, BackIn
<1>3. ASSUME NEW u \in added
      PROVE  \E l, m : ForthIn(new, u, x) = {l} /\ BackIn(new, u, x) = {m}
  <2>1. PICK id, pair : id = at[u] /\ pair = Pair(id, u, x)
    OBVIOUS
  <2>2. PICK l, m : l = Link(id, "ServiceTypeToEntity", u, x) /\ m = Link(id + 1, "EntityToServiceType", x, u)
    OBVIOUS
  <2>3. l \in new /\ m \in new
    BY <1>0, <2>1, <2>2 DEF Pair
  <2>4. /\ l.type = "ServiceTypeToEntity" /\ l.base = u /\ l.target = x
        /\ m.type = "EntityToServiceType" /\ m.base = x /\ m.target = u
    BY <2>2 DEF Link
  <2>5. \A k \in new : /\ k.type = "ServiceTypeToEntity" /\ k.base = u => k = l
                       /\ k.type = "EntityToServiceType" /\ k.target = u => k = m
    BY <1>0, <1>1, <2>1, <2>2 DEF Link
  <2>6. ForthIn(new, u, x) = {l}
    BY <2>3, <2>4, <2>5 DEF ForthIn
  <2>7. BackIn(new, u, x) = {m}
    BY <2>3, <2>4, <2>5 DEF BackIn
  <2> QED BY <2>6, <2>7
<1>4. ASSUME NEW u, NEW y
      PROVE  \/ ForthIn(new, u, y) = {} /\ BackIn(new, u, y) = {}
             \/ \E l, m : ForthIn(new, u, y) = {l} /\ BackIn(new, u, y) = {m}
  <2>1. CASE u \in added /\ y = x
    BY <1>3, <2>1
  <2>2. CASE ~(u \in added /\ y = x)
    BY <1>2, <2>2
  <2> QED BY <2>1, <2>2
<1> QED BY <1>2, <1>4 DEF LinksPairs

LEMMA UpdateLinksPairs ==
  ASSUME IInv, PairsInv, NEW a \in Agents, NEW x \in Entities, NEW ts \in SUBSET types,
         UpdateServiceTypeLinks(a, x, ts)
  PROVE  PairsInv'
<1>1. PICK n \in Nat : \E new, unlinked, added, at :
        /\ Commit(a, n, new, unlinked) /\ types' = types
        /\ FreshLinks(n, new)
        /\ unlinked \in UnlinkAll(a, x, GetServiceTypesForEntity(a, x) \ ts)
        /\ PairsAt(new, at, added, x)
        /\ added \subseteq types
        /\ x \in Listings => \A t \in added : IsServiceTypeApproved(a, t)
  BY UpdateLinksShape
<1>0. PICK new, unlinked, added, at :
        /\ Commit(a, n, new, unlinked) /\ types' = types
        /\ FreshLinks(n, new)
        /\ unlinked \in UnlinkAll(a, x, GetServiceTypesForEntity(a, x) \ ts)
        /\ PairsAt(new, at, added, x)
        /\ added \subseteq types
        /\ x \in Listings => \A t \in added : IsServiceTypeApproved(a, t)
  BY <1>1
<1>2. PICK others : others = GetServiceTypesForEntity(a, x) \ ts
  OBVIOUS
<1>3. TypeOK /\ unlinked \in UnlinkAll(a, x, others) /\ unlinked \subseteq PairIds
  BY <1>0, <1>2, AllUnlinkedPairs DEF UnlinkAll, IInv
<1>4. UpToDate(a) => Unlinks(unlinked)
  BY <1>3, UnlinkAllAlike
<1>5. LinksPairs(new) /\ \A u, y : ForthIn(new, u, y) \cup BackIn(new, u, y) # {} => u \in added /\ y = x
  BY <1>0, ManyPairs
<1>6. ASSUME UpToDate(a), NEW u \in types, NEW y \in Listings, ForthIn(new, u, y) \cup BackIn(new, u, y) # {}
      PROVE  Approved(u)
  <2>1. u \in added /\ y = x
    BY <1>5, <1>6
  <2> QED BY <1>0, <1>3, <1>6, <2>1, ApprovedInCopy
<1> QED BY <1>0, <1>3, <1>4, <1>5, <1>6, OtherLinksPairs

LEMMA DeliverPairs ==
  ASSUME IInv, PairsInv, Deliver \/ UNCHANGED vars
  PROVE  PairsInv'
<1>1. UNCHANGED <<links, dead, serial, types>>
  BY GossipKeepsTable DEF IInv, TypeOK, Deliver, vars, dhtVars
<1> QED BY <1>1 DEF PairsInv, PairsBalance, NoLinkToUnapproved, Forth, Back, Live

LEMMA PairsNext == IInv /\ PairsInv /\ [Next]_vars => PairsInv'
<1> SUFFICES ASSUME IInv, PairsInv, [Next]_vars PROVE PairsInv'
  OBVIOUS
<1>1. ASSUME NEW a \in Agents, CreateServiceType(a) \/ SuggestServiceType(a) PROVE PairsInv'
  BY <1>1, NewTypePairs DEF CreateServiceType, SuggestServiceType
<1>2. ASSUME NEW a \in Agents, NEW t \in types, UpdateServiceType(a, t) PROVE PairsInv'
  BY <1>2, UpdateTypePairs
<1>3. ASSUME NEW a \in Agents, NEW t \in types,
             \/ ApproveServiceType(a, t)
             \/ RejectServiceType(a, t)
             \/ RejectApprovedServiceType(a, t)
      PROVE  PairsInv'
  BY <1>3, ModerationPairs, RejectApprovedPairs
<1>4. ASSUME NEW a \in Agents, NEW t \in types, DeleteServiceType(a, t) PROVE PairsInv'
  BY <1>4, DeletePairs
<1>5. ASSUME NEW a \in Agents, NEW t \in types, NEW x \in Entities, LinkToServiceType(a, t, x)
      PROVE  PairsInv'
  BY <1>5, LinkPairs
<1>6. ASSUME NEW a \in Agents, NEW t \in types, NEW x \in Entities, UnlinkFromServiceType(a, t, x)
      PROVE  PairsInv'
  BY <1>6, UnlinkPairs
<1>7. ASSUME NEW a \in Agents, NEW x \in Entities, DeleteAllServiceTypeLinks(a, x) PROVE PairsInv'
  BY <1>7, UnlinkPairs
<1>8. ASSUME NEW a \in Agents, NEW x \in Entities, NEW ts \in SUBSET (types \cap seen[a]),
             UpdateServiceTypeLinks(a, x, ts)
      PROVE  PairsInv'
  BY <1>8, UpdateLinksPairs
<1>9. CASE Deliver \/ UNCHANGED vars
  BY <1>9, DeliverPairs
<1> QED BY <1>1, <1>2, <1>3, <1>4, <1>5, <1>6, <1>7, <1>8, <1>9 DEF Next

LEMMA PairsInit == Init => PairsInv
<1> SUFFICES ASSUME Init PROVE PairsInv
  OBVIOUS
<1>1. types = {}
  BY DEF Init
<1> QED BY <1>1 DEF PairsInv, PairsBalance, NoLinkToUnapproved

LEMMA PairsInvariance == Spec => []PairsInv
BY InitInv, NextInv, PairsInit, PairsNext, PTL DEF Spec

\* As long as every call ran on a complete copy of the table, the two ways of
\* every pair of a service type and a request, offer or user are equally many
\* links, however often they were linked, unlinked, updated, rejected or deleted
\* (service_type.rs:404-443, 699-713, 733-767).
THEOREM PairsStayBalanced == Spec => []PairsBalance
BY PairsInvariance, PTL DEF PairsInv

\* As long as every call ran on a complete copy of the table, a request or an
\* offer that is linked to a type which is not deleted, either way, is linked to
\* an approved type: rejecting an approved type takes every link along, which
\* rests on the balance above, for the links to remove are counted one way only
\* (service_type.rs:404-443, 688-697, 733-767).
THEOREM LinkedIsApproved == Spec => []NoLinkToUnapproved
BY PairsInvariance, PTL DEF PairsInv
=============================================================================
