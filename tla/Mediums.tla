-------------------------------- MODULE Mediums --------------------------------
(***************************************************************************)
(* The mediums of exchange and their moderation: the calls of              *)
(* mediums_of_exchange/src/medium_of_exchange.rs.                          *)
(*                                                                         *)
(* A medium is on the list of all mediums and on the list of its status,   *)
(* and is tied to requests and offers by a pair of links.  Unlike a        *)
(* service type it is rewritten when it is approved: the approval makes a  *)
(* revision that carries the id of a resource specification.               *)
(*                                                                         *)
(* The lists give the records they link to, the originals; only            *)
(* LatestRecord gives a revision.                                          *)
(***************************************************************************)
EXTENDS Dht

CONSTANTS
  Admins,        \* the agents with an AgentAdministrators link
  Accepted,      \* the agents of accepted users
  Listings,      \* requests and offers
  MaxMediums,    \* bound: mediums created
  MaxRevisions   \* bound: revisions made

\* What the constants must be.
MediumsAssumption ==
  /\ Admins \subseteq Agents
  /\ Accepted \subseteq Agents
  /\ MaxMediums \in Nat
  /\ MaxRevisions \in Nat

VARIABLE records   \* the medium entries ever made, originals and revisions

vars == <<dhtVars, records>>

AllPath == "mediums_of_exchange"
StatusPaths == {"pending", "approved", "rejected"}

\* text: 0, or the id of the edit that wrote what the record says; spec: has it
\* the id of a resource specification.
Record(id, original, author, type, text, spec) ==
  [id |-> id, original |-> original, author |-> author, type |-> type, text |-> text, spec |-> spec]

Originals == {r \in records : r.id = r.original}

Mediums == {r.id : r \in Originals}

RecordOf(id) == CHOOSE r \in records : r.id = id

Init == DhtInit /\ records = {}

-----------------------------------------------------------------------------
(* Reads. *)

\* get_latest_medium_of_exchange_record: the newest update link counts.
LatestId(a, m) ==
  LET updates == GetLinks(a, "MediumOfExchangeUpdates", m)
  IN  IF updates = {} THEN m
      ELSE (CHOOSE l \in updates : \A k \in updates : k.id <= l.id).target

StatusLinks(a, m) ==
  {l \in UNION {GetLinks(a, "AllMediumsOfExchange", path) : path \in StatusPaths} : l.target = m}

\* get_mediums_of_exchange_by_status.
ByStatus(a, path) ==
  {r \in records : Found(a, r.id) /\ \E l \in GetLinks(a, "AllMediumsOfExchange", path) : l.target = r.id}

IsMediumApproved(a, m) == \E l \in GetLinks(a, "AllMediumsOfExchange", "approved") : l.target = m

ToEntity(a, m, x) == {l \in GetLinks(a, "MediumOfExchangeToEntity", m) : l.target = x}

ToMedium(a, x, m) == {l \in GetLinks(a, "EntityToMediumOfExchange", x) : l.target = m}

MediumsForEntity(a, x) == {l.target : l \in GetLinks(a, "EntityToMediumOfExchange", x)}

-----------------------------------------------------------------------------
(* Calls. *)

StatusLink(id, path, m) == Link(id, "AllMediumsOfExchange", path, m)

Pair(id, m, x) == {Link(id, "MediumOfExchangeToEntity", m, x),
                   Link(id + 1, "EntityToMediumOfExchange", x, m)}

RemoveFromStatusPaths(a, m) == {l.id : l \in StatusLinks(a, m)}

NewMedium(a, type, path) ==
  LET m == clock + 1
  IN  /\ Cardinality(Mediums) < MaxMediums
      /\ Commit(a, 3, {StatusLink(clock + 2, AllPath, m), StatusLink(clock + 3, path, m)}, {})
      /\ records' = records \cup {Record(m, m, a, type, 0, FALSE)}

\* suggest_medium_of_exchange: a user who is no administrator, only a currency.
SuggestMedium(a, type) ==
  /\ a \in Admins \cup Accepted
  /\ a \in Admins \/ type = "currency"
  /\ NewMedium(a, type, "pending")

\* create_medium_of_exchange: approved from the start.
CreateMedium(a, type) == a \in Admins /\ NewMedium(a, type, "approved")

Revised(a, m, text, spec) ==
  /\ Cardinality(records \ Originals) < MaxRevisions
  /\ records' = records \cup {Record(clock + 1, m, a, RecordOf(m).type, text, spec)}

\* update_medium_of_exchange: the forms pass no resource specification.
UpdateMedium(a, m) ==
  /\ a \in Admins
  /\ Found(a, m)
  /\ Commit(a, 2, {Link(clock + 2, "MediumOfExchangeUpdates", m, clock + 1)}, {})
  /\ Revised(a, m, clock + 1, FALSE)

\* delete_medium_of_exchange: its place on the list of all mediums and its links
\* to listings stay.
DeleteMedium(a, m) ==
  /\ a \in Admins
  /\ Found(a, m)
  /\ Commit(a, 0, {}, RemoveFromStatusPaths(a, m) \cup {m})
  /\ UNCHANGED records

\* Fault: the approved list names the revision.
ApproveListsRevision(a, m) ==
  /\ a \in Admins
  /\ Found(a, m)
  /\ Commit(a, 3, {Link(clock + 2, "MediumOfExchangeUpdates", m, clock + 1),
                   StatusLink(clock + 3, "approved", clock + 1)}, RemoveFromStatusPaths(a, m))
  /\ Revised(a, m, RecordOf(m).text, TRUE)

\* approve_medium_of_exchange: the revision is made of the record that was named.
ApproveMedium(a, m) ==
  /\ a \in Admins
  /\ Found(a, m)
  /\ Commit(a, 3, {Link(clock + 2, "MediumOfExchangeUpdates", m, clock + 1),
                   StatusLink(clock + 3, "approved", m)}, RemoveFromStatusPaths(a, m))
  /\ Revised(a, m, RecordOf(m).text, TRUE)

\* reject_medium_of_exchange, which looks neither for the medium nor at its status.
RejectMedium(a, m) ==
  /\ a \in Admins
  /\ m \in seen[a]
  /\ Commit(a, 1, {StatusLink(clock + 1, "rejected", m)}, RemoveFromStatusPaths(a, m))
  /\ UNCHANGED records

\* Fault: any medium will do.
LinkUnchecked(a, m, x) ==
  /\ m \in seen[a]
  /\ Commit(a, 2, Pair(clock + 1, m, x), {})
  /\ UNCHANGED records

\* link_to_medium_of_exchange.
LinkToMedium(a, m, x) ==
  /\ m \in seen[a]
  /\ IsMediumApproved(a, m)
  /\ Commit(a, 2, Pair(clock + 1, m, x), {})
  /\ UNCHANGED records

\* The choices of n of some links, or of all when there are fewer.
Some(n, ls) ==
  {S \in SUBSET {l.id : l \in ls} :
     IF Cardinality(ls) <= n THEN S = {l.id : l \in ls} ELSE Cardinality(S) = n}

\* unlink_from_medium_of_exchange, n times.
Unlinked(a, m, x, n) == {S \cup T : S \in Some(n, ToEntity(a, m, x)), T \in Some(n, ToMedium(a, x, m))}

UnlinkFromMedium(a, m, x) ==
  /\ \E unlinked \in Unlinked(a, m, x, 1) : Commit(a, 0, {}, unlinked)
  /\ UNCHANGED records

\* Unlinking x from mediums, once for each link x has to them.
UnlinkAll(a, x, ms) ==
  LET one(m) == Unlinked(a, m, x, Cardinality(ToMedium(a, x, m)))
  IN  {UNION {f[m] : m \in ms} : f \in {g \in [ms -> UNION {one(m) : m \in ms}] : \A m \in ms : g[m] \in one(m)}}

\* update_medium_of_exchange_links: unlinks what is not in ms, then links what
\* is new; one medium that is not approved fails the whole call.
UpdateMediumLinks(a, x, ms) ==
  LET had == MediumsForEntity(a, x)
      added == ms \ had
      n == Cardinality(added)
  IN  /\ \A m \in added : IsMediumApproved(a, m)
      /\ \E unlinked \in UnlinkAll(a, x, had \ ms), nth \in [added -> 0 .. n - 1] :
           /\ \A l, m \in added : nth[l] = nth[m] => l = m
           /\ Commit(a, 2 * n, UNION {Pair(clock + 1 + 2 * nth[m], m, x) : m \in added}, unlinked)
      /\ UNCHANGED records

\* delete_all_medium_of_exchange_links_for_entity.
DeleteAllMediumLinks(a, x) ==
  /\ \E unlinked \in UnlinkAll(a, x, MediumsForEntity(a, x)) : Commit(a, 0, {}, unlinked)
  /\ UNCHANGED records

Call(a) ==
  \/ \E type \in {"base", "currency"} : SuggestMedium(a, type) \/ CreateMedium(a, type)
  \/ \E m \in Mediums : \/ UpdateMedium(a, m)
                        \/ DeleteMedium(a, m)
                        \/ ApproveMedium(a, m)
                        \/ RejectMedium(a, m)
  \/ \E m \in Mediums, x \in Listings : LinkToMedium(a, m, x) \/ UnlinkFromMedium(a, m, x)
  \/ \E x \in Listings : \/ DeleteAllMediumLinks(a, x)
                         \/ \E ms \in SUBSET (Mediums \cap seen[a]) : UpdateMediumLinks(a, x, ms)

Deliver == Gossip /\ UNCHANGED records

Next == (\E a \in Agents : Call(a)) \/ Deliver

Spec == Init /\ [][Next]_vars

-----------------------------------------------------------------------------
(* Properties. *)

LinkType ==
  [id : Nat, type : {"AllMediumsOfExchange"}, base : {AllPath} \cup StatusPaths, target : Mediums]
  \cup [id : Nat, type : {"MediumOfExchangeUpdates"}, base : Mediums, target : {r.id : r \in records \ Originals}]
  \cup [id : Nat, type : {"MediumOfExchangeToEntity"}, base : Mediums, target : Listings]
  \cup [id : Nat, type : {"EntityToMediumOfExchange"}, base : Listings, target : Mediums]

\* Type invariant: lists and pairs name originals, update links revisions.
TypeOK ==
  /\ DhtTypeOK
  /\ records \subseteq [id : Ids, original : Ids, author : Agents, type : {"base", "currency"},
                          text : 0 .. clock, spec : BOOLEAN]
  /\ \A r \in records : r.original \in Mediums /\ r.text <= r.id
  /\ links \subseteq LinkType

Statuses(m) == {l \in UNION {Live("AllMediumsOfExchange", path) : path \in StatusPaths} : l.target = m}

Forth(m, x) == {l \in Live("MediumOfExchangeToEntity", m) : l.target = x}
Back(m, x) == {l \in Live("EntityToMediumOfExchange", x) : l.target = m}

\* Without overlapping calls a medium is on one status list by one link, and a
\* deleted one at most on the rejected list: rejecting, unlike approving, does
\* not ask whether the medium is there (medium_of_exchange.rs:210-229, 369-371,
\* 426-446).
OneStatus ==
  serial =>
    \A m \in Mediums : \/ \E l \in links : Statuses(m) = {l}
                                           /\ (m \in dead => l.base = "rejected")
                       \/ m \in dead /\ Statuses(m) = {}

\* Whatever the calls overlap with, a medium that is not deleted is on some
\* status list: a call that clears the lists adds a link no earlier call can
\* have cleared (medium_of_exchange.rs:409-419, 434-443).
NeverStatusless == \A m \in Mediums \ dead : Statuses(m) # {}

\* Whatever the calls overlap with, a listing is only ever linked to a medium
\* that some administrator had approved before (medium_of_exchange.rs:567-577).
LinkedWasApproved ==
  \A l \in links :
    l.type = "EntityToMediumOfExchange" =>
      \E s \in links : /\ s.type = "AllMediumsOfExchange"
                       /\ s.base = "approved"
                       /\ s.target = l.target
                       /\ s.id < l.id

\* Without overlapping calls the mediums shown for a listing are those it is
\* shown for, however often it was linked to them (medium_of_exchange.rs:579-594,
\* 617-648).
PairsBalance ==
  serial => \A m \in Mediums, x \in Listings : Cardinality(Forth(m, x)) = Cardinality(Back(m, x))

\* What mediums_of_exchange.md:7 says ("Only `approved` mediums can be actively
\* used in requests and offers"), without overlap.
RejectedNotUsed ==
  serial =>
    \A m \in Mediums \ dead, x \in Listings :
      Back(m, x) # {} => \E l \in Statuses(m) : l.base = "approved"

\* What mediums-of-exchange.test.ts:130 says ("Verify the approved medium has
\* hREA resource spec ID") of what get_approved_mediums_of_exchange returns,
\* for a medium that was suggested and then approved.
ApprovedHasSpec ==
  serial =>
    \A a \in Agents : UpToDate(a) =>
      \A r \in ByStatus(a, "approved") :
        (\E s \in records : s.original = r.id /\ s.spec) => r.spec

\* What mediums_of_exchange.md:47 says ("Only original author can update/delete
\* entries (author validation enforced)").
OnlyAuthorRevises == \A r \in records : r.author = RecordOf(r.original).author

\* What medium_of_exchange.rs:368 says of an approval ("Get the current
\* record"): without overlap the approval keeps the text of the latest revision.
ApprovalKeepsEdits ==
  \A a \in Agents, m \in Mediums :
    (UpToDate(a) /\ ApproveMedium(a, m)) =>
      \A r \in records' : r.id = LatestId(a, m)' => r.text = RecordOf(LatestId(a, m)).text
=============================================================================
