----------------------------- MODULE ServiceTypes -----------------------------
(***************************************************************************)
(* The service types and their moderation: the calls of                    *)
(* service_types/src/service_type.rs.                                      *)
(*                                                                         *)
(* A type is on the list of all types and on the list of its status, and   *)
(* requests, offers and users are tied to types by a pair of links, one    *)
(* each way.  Requests and offers are treated alike, and only they need an *)
(* approved type.                                                          *)
(*                                                                         *)
(* Agents find types on the lists, which leave out a type whose record has *)
(* not arrived (get_service_types_by_status), and may act on a list they   *)
(* fetched long ago: a call names any hash that has ever reached its       *)
(* caller.  A type that was revised goes by several hashes: the lists link *)
(* to the hash a call named and show the record of its latest revision     *)
(* (service_type.rs:270-286), whose hash the client takes for the type's   *)
(* own (serviceTypes.store.svelte.ts:90-100).  So every call may name an   *)
(* original or a revision, and each hash has a status of its own.          *)
(***************************************************************************)
EXTENDS Dht

CONSTANTS
  Admins,        \* the agents with an AgentAdministrators link
  Accepted,      \* the agents of accepted users
  Listings,      \* requests and offers
  Profiles,      \* users
  MaxTypes,      \* bound: service types created
  MaxRevisions   \* bound: updates of service types

ASSUME ServiceTypesAssumption ==
  /\ Admins \subseteq Agents
  /\ Accepted \subseteq Agents
  /\ Listings \cap Profiles = {}
  /\ MaxTypes \in Nat
  /\ MaxRevisions \in Nat

VARIABLE types   \* the hashes service types go by: every type created and every revision

vars == <<dhtVars, types>>

AllPath == "service_types"
StatusPaths == {"pending", "approved", "rejected"}

Entities == Listings \cup Profiles

Revisions == {l.target : l \in {m \in links : m.type = "ServiceTypeUpdates"}}

Originals == types \ Revisions

Init == DhtInit /\ types = {}

-----------------------------------------------------------------------------
(* Reads. *)

\* The links of a type on the status lists that agent a sees.
StatusLinks(a, t) ==
  {l \in UNION {GetLinks(a, "AllServiceTypes", path) : path \in StatusPaths} : l.target = t}

IsServiceTypeApproved(a, t) ==
  \E l \in GetLinks(a, "AllServiceTypes", "approved") : l.target = t

ToEntity(a, t, x) == {l \in GetLinks(a, "ServiceTypeToEntity", t) : l.target = x}

ToServiceType(a, x, t) == {l \in GetLinks(a, "EntityToServiceType", x) : l.target = t}

\* get_service_types_for_entity.
GetServiceTypesForEntity(a, x) == {l.target : l \in GetLinks(a, "EntityToServiceType", x)}

-----------------------------------------------------------------------------
(* What calls publish. *)

StatusLink(id, path, t) == Link(id, "AllServiceTypes", path, t)

\* Fault: both links point the same way.
PairOneWay(id, t, x) == {Link(id, "ServiceTypeToEntity", t, x),
                         Link(id + 1, "EntityToServiceType", t, x)}

\* link_to_service_type: one link each way.
Pair(id, t, x) == {Link(id, "ServiceTypeToEntity", t, x),
                   Link(id + 1, "EntityToServiceType", x, t)}

\* Fault: the removal stops at the first link it finds.
RemoveFirstStatus(a, t) ==
  {l.id : l \in {m \in StatusLinks(a, t) : \A k \in StatusLinks(a, t) : m.id <= k.id}}

\* remove_service_type_from_status_paths.
RemoveFromStatusPaths(a, t) == {l.id : l \in StatusLinks(a, t)}

\* The choices of n of some links, or of all when there are fewer.
Some(n, ls) ==
  {S \in SUBSET {l.id : l \in ls} :
     IF Cardinality(ls) <= n THEN S = {l.id : l \in ls} ELSE Cardinality(S) = n}

\* Fault: the link back is forgotten.
UnlinkedOneSide(a, t, x, n) == Some(n, ToEntity(a, t, x))

\* unlink_from_service_type, n times: each removes the first link of each way.
Unlinked(a, t, x, n) ==
  {S \cup T : S \in Some(n, ToEntity(a, t, x)), T \in Some(n, ToServiceType(a, x, t))}

\* The same for several pairs; times[<<t, x>>] says how often.
AllUnlinked(a, times) ==
  LET one(p) == Unlinked(a, p[1], p[2], times[p])
  IN  {UNION {f[p] : p \in DOMAIN times} :
         f \in {g \in [DOMAIN times -> UNION {one(p) : p \in DOMAIN times}] :
                  \A p \in DOMAIN times : g[p] \in one(p)}}

\* Unlinking x from some types, once for each link x has to them.
UnlinkAll(a, x, ts) ==
  AllUnlinked(a, [p \in ts \X {x} |-> Cardinality(ToServiceType(a, x, p[1]))])

-----------------------------------------------------------------------------
(* Calls. *)

\* The start of create_service_type and suggest_service_type: a new type is on
\* no status list that could be cleared.
NewType(a, path) ==
  LET t == clock + 1
  IN  /\ Cardinality(Originals) < MaxTypes
      /\ Commit(a, 3, {StatusLink(clock + 2, AllPath, t), StatusLink(clock + 3, path, t)}, {})
      /\ types' = types \cup {t}

CreateServiceType(a) == a \in Admins /\ NewType(a, "approved")

SuggestServiceType(a) == a \in Admins \cup Accepted /\ NewType(a, "pending")

\* update_service_type: a new revision, linked to the hash the caller takes for
\* the original; it is put on no list.
UpdateServiceType(a, t) ==
  /\ a \in Admins
  /\ t \in seen[a]
  /\ Cardinality({l \in links : l.type = "ServiceTypeUpdates"}) < MaxRevisions
  /\ Commit(a, 2, {Link(clock + 2, "ServiceTypeUpdates", t, clock + 1)}, {})
  /\ types' = types \cup {clock + 1}

\* Faults: the other lists keep the type.
ApproveAddsOnly(a, t) ==
  /\ a \in Admins
  /\ t \in seen[a]
  /\ Commit(a, 1, {StatusLink(clock + 1, "approved", t)}, {})
  /\ UNCHANGED types

ApproveServiceType(a, t) ==
  /\ a \in Admins
  /\ t \in seen[a]
  /\ Commit(a, 1, {StatusLink(clock + 1, "approved", t)}, RemoveFromStatusPaths(a, t))
  /\ UNCHANGED types

\* Fault: the lists are cleared after the new link is made.
RejectClearsLast(a, t) ==
  /\ a \in Admins
  /\ t \in seen[a]
  /\ \E l \in GetLinks(a, "AllServiceTypes", "pending") : l.target = t
  /\ Commit(a, 1, {StatusLink(clock + 1, "rejected", t)},
            {clock + 1} \cup RemoveFromStatusPaths(a, t))
  /\ UNCHANGED types

RejectServiceType(a, t) ==
  /\ a \in Admins
  /\ t \in seen[a]
  /\ \E l \in GetLinks(a, "AllServiceTypes", "pending") : l.target = t
  /\ Commit(a, 1, {StatusLink(clock + 1, "rejected", t)}, RemoveFromStatusPaths(a, t))
  /\ UNCHANGED types

\* Fault: requests and offers stay linked.
RejectApprovedKeepsLinks(a, t) ==
  /\ a \in Admins
  /\ t \in seen[a]
  /\ IsServiceTypeApproved(a, t)
  /\ Commit(a, 1, {StatusLink(clock + 1, "rejected", t)}, RemoveFromStatusPaths(a, t))
  /\ UNCHANGED types

\* reject_approved_service_type: every request and offer found from the type is
\* unlinked, once for each link to it.
RejectApprovedServiceType(a, t) ==
  LET linked == {x \in Listings : ToEntity(a, t, x) # {}}
  IN  /\ a \in Admins
      /\ t \in seen[a]
      /\ IsServiceTypeApproved(a, t)
      /\ \E unlinked \in AllUnlinked(a, [p \in {t} \X linked |-> Cardinality(ToEntity(a, t, p[2]))]) :
           Commit(a, 1, {StatusLink(clock + 1, "rejected", t)},
                  RemoveFromStatusPaths(a, t) \cup unlinked)
      /\ UNCHANGED types

\* delete_service_type: off the list of all types (one link) and off the status
\* lists; its links to requests, offers and users stay.
DeleteServiceType(a, t) ==
  /\ a \in Admins
  /\ t \in seen[a]
  /\ \E all \in Some(1, {l \in GetLinks(a, "AllServiceTypes", AllPath) : l.target = t}) :
       Commit(a, 0, {}, all \cup RemoveFromStatusPaths(a, t) \cup {t})
  /\ UNCHANGED types

\* link_to_service_type.
LinkToServiceType(a, t, x) ==
  /\ t \in seen[a]
  /\ x \in Listings => IsServiceTypeApproved(a, t)
  /\ Commit(a, 2, Pair(clock + 1, t, x), {})
  /\ UNCHANGED types

\* unlink_from_service_type, which is no error without a link.
UnlinkFromServiceType(a, t, x) ==
  /\ t \in seen[a]
  /\ \E unlinked \in Unlinked(a, t, x, 1) : Commit(a, 0, {}, unlinked)
  /\ UNCHANGED types

\* update_service_type_links: unlinks what is not in ts, then links what is new,
\* in any order; one new type that is not approved fails the whole call.
UpdateServiceTypeLinks(a, x, ts) ==
  LET had == GetServiceTypesForEntity(a, x)
      added == ts \ had
      n == Cardinality(added)
  IN  /\ x \in Listings => \A t \in added : IsServiceTypeApproved(a, t)
      /\ \E unlinked \in UnlinkAll(a, x, had \ ts), nth \in [added -> 0 .. n - 1] :
           /\ \A t, u \in added : nth[t] = nth[u] => t = u
           /\ Commit(a, 2 * n, UNION {Pair(clock + 1 + 2 * nth[t], t, x) : t \in added}, unlinked)
      /\ UNCHANGED types

\* delete_all_service_type_links_for_entity, called when a listing is deleted.
DeleteAllServiceTypeLinks(a, x) ==
  /\ \E unlinked \in UnlinkAll(a, x, GetServiceTypesForEntity(a, x)) : Commit(a, 0, {}, unlinked)
  /\ UNCHANGED types

Deliver == Gossip /\ UNCHANGED types

Next ==
  \/ \E a \in Agents : CreateServiceType(a) \/ SuggestServiceType(a)
  \/ \E a \in Agents, t \in types : \/ UpdateServiceType(a, t)
                                    \/ ApproveServiceType(a, t)
                                    \/ RejectServiceType(a, t)
                                    \/ RejectApprovedServiceType(a, t)
                                    \/ DeleteServiceType(a, t)
  \/ \E a \in Agents, t \in types, x \in Entities : \/ LinkToServiceType(a, t, x)
                                                    \/ UnlinkFromServiceType(a, t, x)
  \/ \E a \in Agents, x \in Entities : \/ DeleteAllServiceTypeLinks(a, x)
                                       \/ \E ts \in SUBSET (types \cap seen[a]) :
                                            UpdateServiceTypeLinks(a, x, ts)
  \/ Deliver

Spec == Init /\ [][Next]_vars

-----------------------------------------------------------------------------
(* Properties. *)

LinkType ==
  [id : Nat, type : {"AllServiceTypes"}, base : {AllPath} \cup StatusPaths, target : types]
  \cup [id : Nat, type : {"ServiceTypeUpdates"}, base : types, target : types]
  \cup [id : Nat, type : {"ServiceTypeToEntity"}, base : types, target : Entities]
  \cup [id : Nat, type : {"EntityToServiceType"}, base : Entities, target : types]

\* Type invariant: lists hold types, and a pair joins a type and an entity.
TypeOK ==
  /\ DhtTypeOK
  /\ types \subseteq Ids
  /\ links \subseteq LinkType

\* The links of a type on the status lists of the whole table.
Statuses(t) == {l \in UNION {Live("AllServiceTypes", path) : path \in StatusPaths} : l.target = t}

\* The two ways of a pair of a type and an entity, in the whole table.
Forth(t, x) == {l \in Live("ServiceTypeToEntity", t) : l.target = x}
Back(t, x) == {l \in Live("EntityToServiceType", x) : l.target = t}

\* Without overlapping calls a hash is on one status list, by one link, or, when
\* it is a revision's or was deleted, on none (service_type.rs:55-56, 300-301,
\* 346-347, 393-394).  Of one hash, not of the type: deciding about a revised
\* type by its revision's hash leaves the original on the list it was on.
OneStatus ==
  serial =>
    \A t \in types : \/ \E l \in links : Statuses(t) = {l}
                     \/ t \in dead \cup Revisions /\ Statuses(t) = {}

\* Whatever the calls overlap with, a type that is not deleted is on some status
\* list: a call that clears the lists it sees adds a link no earlier call can
\* have cleared (service_type.rs:300-309, 346-355, 393-402).
NeverStatusless == \A t \in Originals \ dead : Statuses(t) # {}

\* A call on a complete copy that puts a hash on a status list.
Healed ==
  \A a \in Agents, t \in types' :
    /\ UpToDate(a)
    /\ clock' > clock
    /\ clock' \in seen'[a]
    /\ ~(Statuses(t)' \subseteq Statuses(t))
    => \E l \in links' : Statuses(t)' = {l}

\* However many lists calls that overlapped have left a hash on, whoever next
\* puts it on a list with a complete copy of the table leaves it on that list
\* alone, by one link (service_type.rs:300-309, 346-355, 393-402, 449-504).
DecisionsHeal == [][Healed]_vars

\* Without overlapping calls the two ways of the pairs stay in balance
\* (service_type.rs:699-713, 733-767): the types shown for a request are the
\* types it is shown for, however often it was linked to them.
PairsBalance ==
  serial => \A t \in types, x \in Entities : Cardinality(Forth(t, x)) = Cardinality(Back(t, x))

\* Without overlapping calls no request or offer is linked, either way, to a
\* type that is pending or rejected (service_type.rs:688-697, 404-443).
NoLinkToUnapproved ==
  serial =>
    \A t \in types \ dead, x \in Listings :
      Forth(t, x) \cup Back(t, x) # {} => \E l \in Live("AllServiceTypes", "approved") : l.target = t

\* What service_types.md:244 says of rejected and deleted types ("cross-zome
\* calls are made to clean up links from existing Request and Offer entries"):
\* without overlapping calls, no request or offer is left linked to a type that
\* has been deleted and is on no list.
DeletedTypesUnlinked ==
  serial =>
    \A t \in types \cap dead, x \in Listings :
      Statuses(t) = {} => Forth(t, x) \cup Back(t, x) = {}

\* What edge-cases.test.ts:142 says ("Service type cannot be in multiple status
\* lists simultaneously"), of every behaviour.
NeverOnTwoLists ==
  \A t \in types : Cardinality({l.base : l \in Statuses(t)}) <= 1
=============================================================================
