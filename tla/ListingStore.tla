------------------------------ MODULE ListingStore ------------------------------
(***************************************************************************)
(* The stores of the requests and of the offers                            *)
(* (requests.store.svelte.ts, offers.store.svelte.ts), which are nearly    *)
(* the same code, of a user who may change what its pages show, and the    *)
(* pages that open and edit one listing.                                   *)
(*                                                                         *)
(* Of the zome the model keeps what its answers depend on; the module      *)
(* Listings has the zome itself.  Lists name originals, except that the    *)
(* archived list names the revision an archival made; a listing is opened  *)
(* by its latest revision.  The stores take the hash of any record for the *)
(* hash of its listing.  Status strings of listings ("Active") are none of *)
(* the keys of the arrays ("active"), so an entity that is added goes to   *)
(* the array of all listings and out of every other.                       *)
(***************************************************************************)
EXTENDS StoreHelpers, FiniteSets

CONSTANTS
  Kind,         \* "requests" or "offers"
  Groups,       \* lists by organization and by tag: a subset of {"org", "tag"}
  MaxHashes,    \* bound: records made, of listings and of revisions
  MaxEdits,     \* bound: edits among them
  Others        \* whether other users create, edit, archive and delete

\* What the constants must be.
ListingStoreAssumption ==
  /\ Kind \in {"requests", "offers"}
  /\ Groups \subseteq {"org", "tag"}
  /\ MaxHashes \in Nat
  /\ MaxEdits \in Nat
  /\ Others \in BOOLEAN

VARIABLES
  lists,     \* the lists of the zome: active, archived, user and those of Groups
  latest,    \* where the update links of each record lead
  shelved,   \* the revisions that are archived
  edits,     \* the revisions that edits made, and what they are edits of
  last,      \* the last record made
  dead,      \* the deleted records
  arrays,    \* the arrays of the store
  cache,     \* its cache
  page,      \* what the page holds that shows or edits one listing
  removed    \* history: the hashes this store deleted or archived

zomeVars == <<lists, latest, shelved, edits, last, dead>>
storeVars == <<arrays, cache, page, removed>>
vars == <<callVars, zomeVars, storeVars>>

Hashes == 1 .. MaxHashes
Made == 1 .. last
Revisions == shelved \cup {e[2] : e \in edits}
Originals == Made \ Revisions
Names == {"active", "archived", "user"} \cup Groups

\* Offers have no array of search results.
Empty ==
  [n \in {"all", "active", "archived"} \cup (IF Kind = "requests" THEN {"found"} ELSE {}) |-> <<>>]

\* The array a list by user, organization or tag replaces.
Found == IF Kind = "requests" THEN "found" ELSE "all"

Entity(h) == [hash |-> h, status |-> "listing"]

\* The page after it asked for one listing.
Page(on, es) == IF es = <<>> THEN [on |-> on, hash |-> 0] ELSE [on |-> on, hash |-> es[1].hash]
NoPage == Page("elsewhere", <<>>)

Init ==
  /\ CallsInit
  /\ lists = [n \in Names |-> {}]
  /\ latest = [h \in Hashes |-> h]
  /\ shelved = {}
  /\ edits = {}
  /\ last = 0
  /\ dead = {}
  /\ arrays = Empty
  /\ cache = NoCache
  /\ page = NoPage
  /\ removed = [op \in {"delete", "archive"} |-> {}]

\* The hashes the pages show, and may call the store with.
Shown ==
  {e.hash : e \in UNION {ToSet(arrays[n]) : n \in DOMAIN arrays}} \cup ({page.hash} \ {0})

-----------------------------------------------------------------------------
(* The zome. *)

Entities(hs) == LET ls == SetToSeq(hs \ dead) IN [i \in DOMAIN ls |-> Entity(ls[i])]

\* get_latest_request_record.
Latest(h) == Entities({latest[h]})

\* The listings of the user whose latest revision is archived, or is active.
UserArchived == {h \in lists["user"] : latest[h] \notin dead /\ latest[h] \in shelved}
UserActive == {h \in lists["user"] : latest[h] \notin dead /\ latest[h] \notin shelved}

NewListing(names) ==
  /\ last < MaxHashes
  /\ last' = last + 1
  /\ lists' = [n \in Names |-> IF n \in names THEN lists[n] \cup {last + 1} ELSE lists[n]]
  /\ UNCHANGED <<latest, shelved, edits, dead>>

NewRevision(h) ==
  /\ last < MaxHashes
  /\ last' = last + 1
  /\ latest' = [latest EXCEPT ![h] = last + 1]
  /\ UNCHANGED dead

\* The tags name the edit as well.
Edit(h) ==
  /\ h \notin dead \cup shelved
  /\ Cardinality(edits) < MaxEdits
  /\ NewRevision(h)
  /\ edits' = edits \cup {<<h, last + 1>>}
  /\ lists' = [n \in Names |-> IF n = "tag" /\ h \in lists[n] THEN lists[n] \cup {last + 1} ELSE lists[n]]
  /\ UNCHANGED shelved

Archive(h) ==
  /\ latest[h] \notin dead
  /\ NewRevision(h)
  /\ shelved' = shelved \cup {last + 1}
  /\ lists' = [lists EXCEPT !["active"] = @ \ {latest[h]}, !["archived"] = @ \cup {last + 1}]
  /\ UNCHANGED edits

Delete(h) ==
  /\ h \notin dead
  /\ dead' = dead \cup {h}
  /\ latest' = [latest EXCEPT ![h] = h]
  /\ lists' = [n \in Names |-> IF n \in {"active", "archived"} THEN lists[n] ELSE lists[n] \ {h}]
  /\ UNCHANGED <<shelved, edits, last>>

\* Other users, and this user elsewhere.
Elsewhere ==
  /\ Others
  /\ \/ \E gs \in SUBSET (Groups \cup {"user"}) : NewListing({"active"} \cup gs)
     \/ \E h \in Made : Edit(h) \/ Archive(h) \/ Delete(h)
  /\ UNCHANGED <<callVars, storeVars>>

-----------------------------------------------------------------------------
(* The store. *)

\* A call that only reads.
Read(c, op, h, es) == Begin(c, op, h, es) /\ UNCHANGED <<zomeVars, storeVars>>

\* The call comes back, and its entities are cached.
Come(c) ==
  /\ End(c)
  /\ LET came == {e.hash : e \in ToSet(calls[c].answer)}
     IN  cache' = [h \in DOMAIN cache \cup came |-> IF h \in came THEN Entity(h) ELSE cache[h]]
  /\ UNCHANGED <<zomeVars, removed>>

Create(c) ==
  \/ /\ \E gs \in SUBSET Groups : NewListing({"active", "user"} \cup gs)
     /\ Begin(c, "create", 0, <<Entity(last + 1)>>)
     /\ UNCHANGED storeVars
  \/ /\ UnderWay(c, "create", 0)
     /\ Come(c)
     /\ arrays' = SyncAll(arrays, calls[c].answer)
     /\ UNCHANGED page

\* The array of a status anew.
Fetch(c, op, name, hs) ==
  \/ Read(c, op, 0, Entities(hs))
  \/ /\ UnderWay(c, op, 0)
     /\ Come(c)
     /\ arrays' = [arrays EXCEPT ![name] = calls[c].answer]
     /\ UNCHANGED page

\* Without a connection these two answer that there is nothing.
FetchAll(c, op, name, hs) ==
  \/ Fetch(c, op, name, hs)
  \/ /\ Fail(c)
     /\ calls[c].op = op
     /\ arrays' = [arrays EXCEPT ![name] = <<>>]
     /\ UNCHANGED <<zomeVars, cache, page, removed>>

\* Fault: what is found is not put among all listings.
ReplaceOnly(c, op, hs) == Fetch(c, op, Found, hs)

Search(c, op, hs) ==
  \/ Read(c, op, 0, Entities(hs))
  \/ /\ UnderWay(c, op, 0)
     /\ Come(c)
     /\ arrays' = [SyncAll(arrays, calls[c].answer) EXCEPT ![Found] = calls[c].answer]
     /\ UNCHANGED page

\* A page opens a listing: by the cache, or by its latest revision, which is
\* cached under the hash that was asked for.
Open(c, h) ==
  \/ /\ h \in Shown /\ h \in DOMAIN cache
     /\ AtOnce(c)
     /\ page' = Page("details", <<cache[h]>>)
     /\ UNCHANGED <<zomeVars, arrays, cache, removed>>
  \/ h \in Shown /\ h \notin DOMAIN cache /\ Read(c, "open", h, Latest(h))
  \/ /\ UnderWay(c, "open", h)
     /\ End(c)
     /\ arrays' = SyncAll(arrays, calls[c].answer)
     /\ cache' = IF calls[c].answer = <<>> THEN cache ELSE CacheSet(cache, h, calls[c].answer[1])
     /\ page' = Page("details", calls[c].answer)
     /\ UNCHANGED <<zomeVars, removed>>

\* The page that edits a listing takes its latest revision; the store takes
\* nothing.
Latestly(c, h) ==
  \/ h \in Shown /\ Read(c, "latest", h, Latest(h))
  \/ /\ UnderWay(c, "latest", h)
     /\ End(c)
     /\ page' = Page("edit", calls[c].answer)
     /\ UNCHANGED <<zomeVars, arrays, cache, removed>>

\* The page calls with the record it holds, and the entity that comes back is
\* given that record's hash.
Update(c, h) ==
  \/ /\ page = Page("edit", <<Entity(h)>>)
     /\ Edit(h)
     /\ Begin(c, "update", h, <<Entity(h)>>)
     /\ UNCHANGED storeVars
  \/ /\ UnderWay(c, "update", h)
     /\ Come(c)
     /\ arrays' = SyncAll(arrays, calls[c].answer)
     /\ page' = NoPage

\* What a deletion takes out of the arrays: of offers, only what the array of
\* all offers has.
RemoveDeleted(arrs, h) ==
  IF Kind = "requests" \/ Lists(arrs["all"], h) THEN SyncRemove(arrs, h) ELSE arrs

RemoveArchived(arrs, h) == RemoveDeleted([arrs EXCEPT !["active"] = Without(@, h)], h)

Removed(c, op, h, arrs) ==
  /\ UnderWay(c, op, h)
  /\ End(c)
  /\ arrays' = arrs
  /\ cache' = CacheDrop(cache, h)
  /\ removed' = [removed EXCEPT ![op] = @ \cup {h}]
  /\ page' = IF page.hash = h THEN NoPage ELSE page
  /\ UNCHANGED zomeVars

DeleteListing(c, h) ==
  \/ /\ h \in Shown
     /\ Delete(h)
     /\ Begin(c, "delete", h, <<>>)
     /\ UNCHANGED storeVars
  \/ Removed(c, "delete", h, RemoveDeleted(arrays, h))

ArchiveListing(c, h) ==
  \/ /\ h \in Shown \ {page.hash}
     /\ Archive(h)
     /\ Begin(c, "archive", h, <<>>)
     /\ UNCHANGED storeVars
  \/ Removed(c, "archive", h, RemoveArchived(arrays, h))

\* The cache of requests also stops what is loading from showing so.
InvalidateCache ==
  /\ arrays' = Empty
  /\ cache' = NoCache
  /\ loading' = (Kind = "offers" /\ loading)
  /\ UNCHANGED <<calls, zomeVars, page, removed>>

\* An entry of the cache expires.
Expire(h) ==
  /\ cache' = CacheDrop(cache, h)
  /\ UNCHANGED <<callVars, zomeVars, arrays, page, removed>>

CallFails(c) == (Fail(c) \/ AtOnce(c)) /\ UNCHANGED <<zomeVars, storeVars>>

-----------------------------------------------------------------------------
(* The calls of the two stores. *)

CreateRequest(c) == Create(c)
GetActiveRequests(c) == FetchAll(c, "active", "active", lists["active"])
GetArchivedRequests(c) == FetchAll(c, "archived", "archived", lists["archived"])
GetRequest(c, h) == Open(c, h)
UpdateRequest(c, h) == Update(c, h)
DeleteRequest(c, h) == DeleteListing(c, h)
ArchiveRequest(c, h) == ArchiveListing(c, h)
GetUserRequests(c) == Search(c, "user", lists["user"])
GetUserActiveRequests(c) == Fetch(c, "userActive", "active", UserActive)
GetUserArchivedRequests(c) == Fetch(c, "userArchived", "archived", UserArchived)
GetOrganizationRequests(c) == "org" \in Groups /\ Search(c, "org", lists["org"])
GetMyRequests(c) == Search(c, "mine", lists["user"])
GetLatestRequest(c, h) == Latestly(c, h)
GetRequestsByTag(c) == "tag" \in Groups /\ Search(c, "tag", lists["tag"])

RequestCalls(c) ==
  /\ Kind = "requests"
  /\ \/ CreateRequest(c)
     \/ GetActiveRequests(c) \/ GetArchivedRequests(c)
     \/ GetUserRequests(c) \/ GetUserActiveRequests(c) \/ GetUserArchivedRequests(c)
     \/ GetOrganizationRequests(c) \/ GetMyRequests(c) \/ GetRequestsByTag(c)
     \/ \E h \in Made : \/ GetRequest(c, h) \/ GetLatestRequest(c, h) \/ UpdateRequest(c, h)
                        \/ DeleteRequest(c, h) \/ ArchiveRequest(c, h)

CreateOffer(c) == Create(c)
GetActiveOffers(c) == FetchAll(c, "active", "active", lists["active"])
GetArchivedOffers(c) == FetchAll(c, "archived", "archived", lists["archived"])
GetOffer(c, h) == Open(c, h)
UpdateOffer(c, h) == Update(c, h)
DeleteOffer(c, h) == DeleteListing(c, h)
ArchiveOffer(c, h) == ArchiveListing(c, h)
GetUserOffers(c) == Search(c, "user", lists["user"])
GetUserActiveOffers(c) == Fetch(c, "userActive", "active", UserActive)
GetUserArchivedOffers(c) == Fetch(c, "userArchived", "archived", UserArchived)
GetOrganizationOffers(c) == "org" \in Groups /\ Search(c, "org", lists["org"])
GetMyOffers(c) == Search(c, "mine", lists["user"])
GetLatestOffer(c, h) == Latestly(c, h)
GetOffersByTag(c) == "tag" \in Groups /\ Search(c, "tag", lists["tag"])

OfferCalls(c) ==
  /\ Kind = "offers"
  /\ \/ CreateOffer(c)
     \/ GetActiveOffers(c) \/ GetArchivedOffers(c)
     \/ GetUserOffers(c) \/ GetUserActiveOffers(c) \/ GetUserArchivedOffers(c)
     \/ GetOrganizationOffers(c) \/ GetMyOffers(c) \/ GetOffersByTag(c)
     \/ \E h \in Made : \/ GetOffer(c, h) \/ GetLatestOffer(c, h) \/ UpdateOffer(c, h)
                        \/ DeleteOffer(c, h) \/ ArchiveOffer(c, h)

Next ==
  \/ \E c \in Callers : RequestCalls(c) \/ OfferCalls(c) \/ CallFails(c)
  \/ InvalidateCache
  \/ \E h \in DOMAIN cache : Expire(h)
  \/ Elsewhere

Spec == Init /\ [][Next]_vars

-----------------------------------------------------------------------------
(* Properties. *)

\* Type invariant.
TypeOK ==
  /\ loading \in BOOLEAN
  /\ last \in 0 .. MaxHashes
  /\ page.hash \in 0 .. last
  /\ \A n \in Names : lists[n] \subseteq Made
  /\ \A h \in Made : latest[h] \in Made /\ latest[h] >= h
  /\ \A e \in edits : e[1] < e[2]
  /\ Shown \subseteq Made
  /\ \A h \in DOMAIN cache : h \in Made /\ cache[h].hash \in Made

\* However calls overlap, fail and come back late, no array of requests shows a record twice,
\* and what the search found is also among all listings
\* (requests.store.svelte.ts:592-598, cache-helpers.ts:70-90).
SearchAmongAll ==
  /\ \A n \in DOMAIN arrays : \A i, j \in DOMAIN arrays[n] :
       arrays[n][i].hash = arrays[n][j].hash => i = j
  /\ \A e \in ToSet(arrays[Found]) : Lists(arrays["all"], e.hash)

\* A user who waits for each call does not see again a request it deleted, by
\* the hash of its original, whatever others do and whatever calls fail (requests.store.svelte.ts:536-540).
\* offers.store.test.ts:109 says it of offers ("should delete a offer").
DeletedNotShown == (removed["delete"] \cap Originals) \cap (Shown \cup DOMAIN cache) = {}

\* A user who waits for each call does not see again, among the active listings,
\* a listing that it archived and nobody edited (requests.store.svelte.ts:555-570,
\* request.rs:624-640).
ArchivedNotActive ==
  \A h \in removed["archive"] :
    (\A e \in edits : e[1] # h /\ e[2] # h) => ~Lists(arrays["active"], h)

\* What the comment at requests.store.svelte.ts:510-511 says ("The list contains
\* entities with original_action_hash pointing to the creation hash"), of the
\* array of all listings.
AllAreOriginals == \A e \in ToSet(arrays["all"]), d \in edits : e.hash # d[2]

\* What requests.md:164 says ("Retrieves the latest record for a request, following
\* any update links"): of the edits of a listing, the last is the latest.
LastEditIsLatest ==
  \A d, e \in edits : (d[2] = e[1] /\ d[1] \notin dead /\ d[2] \notin dead /\ e[2] \notin dead) =>
    latest[d[1]] # d[2]

\* What requests.md:226 says of deletion ("Deletes a request and all associated
\* links"): what a page deleted is not opened by its original any more.
DeletedEditGone ==
  \A e \in edits : e[2] \in removed["delete"] => e[1] \notin lists["active"] \ dead
=============================================================================
