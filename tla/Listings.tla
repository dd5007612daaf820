------------------------------- MODULE Listings -------------------------------
(***************************************************************************)
(* Requests and offers: the calls of requests/src/request.rs and of        *)
(* offers/src/offer.rs, which are the same code for the two kinds.         *)
(*                                                                         *)
(* A listing goes by three hashes.  Its original names it everywhere; an   *)
(* edit and an archival each add a revision, linked to the original, and   *)
(* the newest such link tells which revision is the latest.  The lists of  *)
(* active and archived listings, the author check and the links to service *)
(* types and mediums of exchange ("tags" here) each use one of the hashes, *)
(* and not always the same.                                                *)
(*                                                                         *)
(* Of a tag this module keeps one link from the listing; ServiceTypes and  *)
(* Mediums have the pairs and the approval.  A user is named by its agent. *)
(***************************************************************************)
EXTENDS Dht

CONSTANTS
  Kinds,         \* "requests", "offers"
  Admins,        \* the agents with an AgentAdministrators link
  Accepted,      \* the agents of accepted users
  Orgs,          \* organizations a listing may be made for
  Tags,          \* approved service types and mediums of exchange
  MaxListings,   \* bound: listings created
  MaxRevisions   \* bound: revisions made, by edits and archivals

\* What the constants must be.
ListingsAssumption ==
  /\ Kinds \subseteq {"requests", "offers"}
  /\ Admins \subseteq Agents
  /\ Accepted \subseteq Agents
  /\ Orgs \cap Agents = {}
  /\ IsFiniteSet(Orgs) /\ IsFiniteSet(Tags)
  /\ MaxListings \in Nat
  /\ MaxRevisions \in Nat

VARIABLE records   \* the listing entries ever made, originals and revisions

vars == <<dhtVars, records>>

Active(k) == <<k, "active">>
Archived(k) == <<k, "archived">>

Record(id, kind, original, author, status) ==
  [id |-> id, kind |-> kind, original |-> original, author |-> author, status |-> status]

Originals == {r \in records : r.id = r.original}

Revisions == records \ Originals

RecordOf(id) == CHOOSE r \in records : r.id = id

Init == DhtInit /\ records = {}

-----------------------------------------------------------------------------
(* Reads. *)

To(ls, x) == {l \in ls : l.target = x}

\* The ids of the first of some links, whichever that is.
FirstId(ls) == IF ls = {} THEN {{}} ELSE {{l.id} : l \in ls}

\* Fault: the oldest update link counts.
OldestId(a, o) ==
  LET updates == GetLinks(a, "Updates", o)
  IN  IF updates = {} THEN o
      ELSE (CHOOSE l \in updates : \A m \in updates : l.id <= m.id).target

\* The target of the newest update link, or the original.
LatestId(a, o) ==
  LET updates == GetLinks(a, "Updates", o)
  IN  IF updates = {} THEN o
      ELSE (CHOOSE l \in updates : \A m \in updates : m.id <= l.id).target

LatestRecord(a, o) == {r \in records : r.id = LatestId(a, o) /\ Found(a, r.id)}

\* The records behind some links, without those that are not found.
Listed(a, ls) == {r \in records : Found(a, r.id) /\ \E l \in ls : l.target = r.id}

ActiveListings(a, k) == Listed(a, GetLinks(a, "Active", Active(k)))

ArchivedListings(a, k) == Listed(a, GetLinks(a, "Archived", Archived(k)))

UserListings(a, u) == Listed(a, GetLinks(a, "UserListings", u))

OrganizationListings(a, g) == Listed(a, GetLinks(a, "OrganizationListings", g))

\* The listings of a user whose latest revision has a status.
UserActive(a, u) ==
  {r \in UserListings(a, u) : \E s \in LatestRecord(a, r.id) : s.status = "active"}

UserArchived(a, u) ==
  {r \in UserListings(a, u) : \E s \in LatestRecord(a, r.id) : s.status = "archived"}

MayChange(a, r) == r.author = a \/ a \in Admins

-----------------------------------------------------------------------------
(* Calls. *)

\* Links from id i on, one for each tag.
TagLinks(i, x, ts) ==
  {f \in [ts -> {Link(i + n, "Tag", x, t) : n \in 0 .. Cardinality(ts) - 1, t \in ts}] :
     /\ \A t \in ts : f[t].target = t
     /\ \A t, u \in ts : f[t].id = f[u].id => t = u}

\* create_request and create_offer, by an accepted user.
Create(a, k, gs, ts) ==
  LET o == clock + 1
      n == 4 + 2 * Cardinality(gs)
  IN  /\ Cardinality(Originals) < MaxListings
      /\ a \in Accepted
      /\ \E f \in TagLinks(clock + n + 1, o, ts) :
           Commit(a, n + Cardinality(ts),
                  {Link(clock + 2, "Active", Active(k), o),
                   Link(clock + 3, "UserListings", a, o),
                   Link(clock + 4, "Creator", o, a)}
                  \cup {Link(clock + 5, "OrganizationListings", g, o) : g \in gs}
                  \cup {Link(clock + 6, "Organization", o, g) : g \in gs}
                  \cup {f[t] : t \in ts}, {})
      /\ records' = records \cup {Record(o, k, o, a, "active")}

CreateRequest(a, gs, ts) == Create(a, "requests", gs, ts)

CreateOffer(a, gs, ts) == Create(a, "offers", gs, ts)

\* A new revision s of the listing o, made on the revision prev.
Revised(o, status, a) ==
  /\ Cardinality(Revisions) < MaxRevisions
  /\ records' = records \cup {Record(clock + 1, RecordOf(o).kind, o, a, status)}

\* update_request and update_offer.  The status of the original is what is
\* looked at, and the original is never archived.  The services pass an active
\* status, the latest revision they hold, and the tags, which are linked to the
\* new revision.  The link on the list of all listings names the revision; the
\* one to be replaced would name the original.
Update(a, k, o, ts) ==
  /\ RecordOf(o).kind = k
  /\ Found(a, o)
  /\ MayChange(a, RecordOf(o))
  /\ RecordOf(o).status # "archived"
  /\ \E f \in TagLinks(clock + 4, clock + 1, ts), all \in FirstId(To(GetLinks(a, "All", k), o)) :
       Commit(a, 3 + Cardinality(ts),
              {Link(clock + 2, "All", k, clock + 1), Link(clock + 3, "Updates", o, clock + 1)}
              \cup {f[t] : t \in ts}, all)
  /\ Revised(o, "active", a)

UpdateRequest(a, o, ts) == Update(a, "requests", o, ts)

UpdateOffer(a, o, ts) == Update(a, "offers", o, ts)

\* Fault: the archived list does not name the listing.
ArchiveListsNothing(a, k, o) ==
  /\ RecordOf(o).kind = k
  /\ \E r \in LatestRecord(a, o) : \E active \in FirstId(To(GetLinks(a, "Active", Active(k)), r.id)) :
       /\ MayChange(a, r)
       /\ Commit(a, 2, {Link(clock + 2, "Updates", o, clock + 1)}, active)
       /\ Revised(o, "archived", a)

\* archive_request and archive_offer: the author looked at, and the hash looked
\* for on the active list, are those of the latest revision.
Archive(a, k, o) ==
  /\ RecordOf(o).kind = k
  /\ \E r \in LatestRecord(a, o) : \E active \in FirstId(To(GetLinks(a, "Active", Active(k)), r.id)) :
       /\ MayChange(a, r)
       /\ Commit(a, 3, {Link(clock + 2, "Archived", Archived(k), clock + 1),
                        Link(clock + 3, "Updates", o, clock + 1)}, active)
       /\ Revised(o, "archived", a)

ArchiveRequest(a, o) == Archive(a, "requests", o)

ArchiveOffer(a, o) == Archive(a, "offers", o)

\* The links of one type from o, and for each the first link back.
PairsOf(a, o, there, back) ==
  LET ls == GetLinks(a, there, o)
      choices(l) == FirstId(To(GetLinks(a, back, l.target), o))
      chosen == {f \in [ls -> UNION {choices(l) : l \in ls}] : \A l \in ls : f[l] \in choices(l)}
  IN  {{l.id : l \in ls} \cup UNION {f[l] : l \in ls} : f \in chosen}

\* delete_request and delete_offer: the links from and to the original and its
\* entry; not the places on the active and the archived list, nor revisions.
Delete(a, k, o) ==
  /\ RecordOf(o).kind = k
  /\ Found(a, o)
  /\ MayChange(a, RecordOf(o))
  /\ \E all \in FirstId(To(GetLinks(a, "All", k), o)),
        users \in PairsOf(a, o, "Creator", "UserListings"),
        orgs \in PairsOf(a, o, "Organization", "OrganizationListings") :
       Commit(a, 0, {}, all \cup users \cup orgs \cup {o}
                        \cup {l.id : l \in GetLinks(a, "Tag", o) \cup GetLinks(a, "Updates", o)})
  /\ UNCHANGED records

DeleteRequest(a, o) == Delete(a, "requests", o)

DeleteOffer(a, o) == Delete(a, "offers", o)

Call(a) ==
  \/ \E gs \in SUBSET Orgs, ts \in SUBSET Tags :
       /\ Cardinality(gs) <= 1
       /\ \/ "requests" \in Kinds /\ CreateRequest(a, gs, ts)
          \/ "offers" \in Kinds /\ CreateOffer(a, gs, ts)
  \/ \E r \in Originals : \/ \E ts \in SUBSET Tags : UpdateRequest(a, r.id, ts) \/ UpdateOffer(a, r.id, ts)
                          \/ ArchiveRequest(a, r.id) \/ ArchiveOffer(a, r.id)
                          \/ DeleteRequest(a, r.id) \/ DeleteOffer(a, r.id)

Deliver == Gossip /\ UNCHANGED records

Next == (\E a \in Agents : Call(a)) \/ Deliver

Spec == Init /\ [][Next]_vars

-----------------------------------------------------------------------------
(* Properties. *)

LinkType ==
  [id : Nat, type : {"Active"}, base : {Active(k) : k \in Kinds}, target : {r.id : r \in Originals}]
  \cup [id : Nat, type : {"Archived"}, base : {Archived(k) : k \in Kinds}, target : {r.id : r \in Revisions}]
  \cup [id : Nat, type : {"All"}, base : Kinds, target : {r.id : r \in Revisions}]
  \cup [id : Nat, type : {"Updates"}, base : {r.id : r \in Originals}, target : {r.id : r \in Revisions}]
  \cup [id : Nat, type : {"UserListings"}, base : Agents, target : {r.id : r \in Originals}]
  \cup [id : Nat, type : {"OrganizationListings"}, base : Orgs, target : {r.id : r \in Originals}]
  \cup [id : Nat, type : {"Creator"}, base : {r.id : r \in Originals}, target : Agents]
  \cup [id : Nat, type : {"Organization"}, base : {r.id : r \in Originals}, target : Orgs]
  \cup [id : Nat, type : {"Tag"}, base : {r.id : r \in records}, target : Tags]

\* Type invariant: which of the three hashes each link uses.
TypeOK ==
  /\ DhtTypeOK
  /\ records \subseteq [id : Ids, kind : Kinds, original : Ids, author : Agents,
                          status : {"active", "archived"}]
  /\ \A r \in records : \E o \in Originals : r.original = o.id /\ r.kind = o.kind
  /\ links \subseteq LinkType

\* The revisions of o that an edit made: those on the list of all listings.
Edited(o) == \E r \in Revisions : r.original = o.id /\ \E l \in links : l.type = "All" /\ l.target = r.id

OnActiveList(o) == \E l \in Live("Active", Active(o.kind)) : l.target = o.id

OnArchivedList(o) ==
  \E l \in Live("Archived", Archived(o.kind)) : RecordOf(l.target).original = o.id

\* Without overlapping calls a listing that was never edited is on the active
\* list or on the archived list and not on both, however often it was archived
\* (request.rs:49-57, 624-653).
UneditedOnOneList ==
  serial =>
    \A o \in Originals :
      (o.id \notin dead /\ ~Edited(o)) => (OnActiveList(o) <=> ~OnArchivedList(o))

\* Without overlapping calls a listing of a user is either among the user's
\* active or among the user's archived listings, and one of the latter is on
\* the archived list (request.rs:310-349, 645-660).
MyListingsSplit ==
  serial =>
    \A a \in Agents, o \in Originals :
      (UpToDate(a) /\ o.id \notin dead) =>
        /\ o \in UserActive(a, o.author) <=> o \notin UserArchived(a, o.author)
        /\ o \in UserArchived(a, o.author) => LatestRecord(a, o.id) \subseteq ArchivedListings(a, o.kind)

\* Without overlapping calls a deleted listing is found by none of its names:
\* not as the latest revision of its original, not by user, organization or on
\* the active list, and nothing of it is left at its creator
\* (request.rs:450-585).
DeletedIsNotFound ==
  serial =>
    \A a \in Agents, o \in Originals :
      (UpToDate(a) /\ o.id \in dead) =>
        /\ LatestRecord(a, o.id) = {}
        /\ \A x \in Agents \cup Orgs :
             To(GetLinks(a, "UserListings", x) \cup GetLinks(a, "OrganizationListings", x), o.id) = {}
        /\ o \notin ActiveListings(a, o.kind)

\* Whatever the calls overlap with and in whatever order revisions arrive, the
\* revision an agent takes for the latest is never replaced by an older one
\* while the listing lives (request.rs:125-145).
NeverOlder ==
  \A a \in Agents, o \in Originals : o.id \notin dead' => LatestId(a, o.id)' >= LatestId(a, o.id)

\* What requests.md:125 says of archiving ("the link is deleted from
\* `requests.active` and created in `requests.archived`"), without overlap.
ArchivedLeavesActive ==
  serial => \A o \in Originals : o.id \notin dead => ~(OnActiveList(o) /\ OnArchivedList(o))

\* What request.rs:376 says ("archived requests cannot be edited"): an edit is
\* made only of a listing whose latest revision is not archived.
ArchivedNotEdited ==
  \A a \in Agents, o \in Originals, ts \in SUBSET Tags :
    (UpToDate(a) /\ UpdateRequest(a, o.id, ts)) =>
      \A r \in LatestRecord(a, o.id) : r.status # "archived"

\* What requests.md:226 says of deletion ("Deletes a request and all associated
\* links"), for reading: without overlap the archived list, read from a complete
\* copy, shows nothing of a deleted listing.
DeletedNotOnArchivedList ==
  serial =>
    \A a \in Agents, o \in Originals :
      (UpToDate(a) /\ o.id \in dead) => \A r \in ArchivedListings(a, o.kind) : r.original # o.id

\* What requests.md:311 says ("Only the original author or an administrator can
\* archive a request"): the original author can, without overlap.
AuthorMayArchive ==
  serial =>
    \A o \in Originals : (UpToDate(o.author) /\ o.id \notin dead) =>
      \A r \in LatestRecord(o.author, o.id) : MayChange(o.author, r)
=============================================================================
