------------------------------- MODULE MCStores -------------------------------
(***************************************************************************)
(* The stores of the UI, each with the zome behind it.  A behaviour is of  *)
(* one store: `scenario` says of which, and whether its calls overlap.  In *)
(* the scenarios of one caller the user waits for each call.               *)
(***************************************************************************)
EXTENDS Naturals, FiniteSets

CONSTANTS
  Scenarios,   \* the scenarios looked at
  c1, c2       \* callers of a store

VARIABLES
  scenario,
  calls, loading,                        \* of StoreHelpers
  lists, latest, last, dead, arrays,     \* of every store
  cache, lookups, deleted,               \* of ServiceTypesStore, with cache and deleted of others
  mediums,                               \* of MediumsStore
  shelved, edits, page, removed          \* of ListingStore

every == <<calls, loading, lists, latest, last, dead, arrays>>
some == <<cache, lookups, deleted, mediums, shelved, edits, page, removed>>
vars == <<scenario, every, some>>

TypesAlone ==
  INSTANCE ServiceTypesStore WITH
    Callers <- {c1}, MaxHashes <- 2, MaxUpdates <- 0, MaxListed <- 1, Others <- FALSE

TypesRevised ==
  INSTANCE ServiceTypesStore WITH
    Callers <- {c1}, MaxHashes <- 2, MaxUpdates <- 1, MaxListed <- 1, Others <- FALSE

TypesOverlap ==
  INSTANCE ServiceTypesStore WITH
    Callers <- {c1, c2}, MaxHashes <- 1, MaxUpdates <- 0, MaxListed <- 2, Others <- TRUE

MediumsAlone ==
  INSTANCE MediumsStore WITH Callers <- {c1}, MaxHashes <- 2, Others <- TRUE

MediumsOverlap ==
  INSTANCE MediumsStore WITH Callers <- {c1, c2}, MaxHashes <- 1, Others <- FALSE

RequestsAlone ==
  INSTANCE ListingStore WITH
    Callers <- {c1}, Kind <- "requests", Groups <- {}, MaxHashes <- 2, MaxEdits <- 1, Others <- TRUE

RequestsOverlap ==
  INSTANCE ListingStore WITH
    Callers <- {c1, c2}, Kind <- "requests", Groups <- {"org", "tag"},
    MaxHashes <- 1, MaxEdits <- 0, Others <- TRUE

OffersAlone ==
  INSTANCE ListingStore WITH
    Callers <- {c1}, Kind <- "offers", Groups <- {"tag"},
    MaxHashes <- 2, MaxEdits <- 1, Others <- TRUE

\* The constants are what the components assume of them.
ASSUME Parameters ==
  /\ TypesAlone!ServiceTypesStoreAssumption
  /\ TypesRevised!ServiceTypesStoreAssumption
  /\ TypesOverlap!ServiceTypesStoreAssumption
  /\ MediumsAlone!MediumsStoreAssumption
  /\ MediumsOverlap!MediumsStoreAssumption
  /\ RequestsAlone!ListingStoreAssumption
  /\ RequestsOverlap!ListingStoreAssumption
  /\ OffersAlone!ListingStoreAssumption

In(s) == scenario = s /\ s \in Scenarios

NoTypes == lookups = 0
NoMediums == mediums = 0
NoListings == shelved = 0 /\ edits = 0 /\ page = 0 /\ removed = 0

Init ==
  \/ In("service types") /\ TypesAlone!Init /\ NoMediums /\ NoListings
  \/ In("service types revised") /\ TypesRevised!Init /\ NoMediums /\ NoListings
  \/ In("service types overlap") /\ TypesOverlap!Init /\ NoMediums /\ NoListings
  \/ In("mediums") /\ MediumsAlone!Init /\ cache = 0 /\ NoTypes /\ NoListings
  \/ In("mediums overlap") /\ MediumsOverlap!Init /\ cache = 0 /\ NoTypes /\ NoListings
  \/ In("requests") /\ RequestsAlone!Init /\ deleted = 0 /\ NoTypes /\ NoMediums
  \/ In("requests overlap") /\ RequestsOverlap!Init /\ deleted = 0 /\ NoTypes /\ NoMediums
  \/ In("offers") /\ OffersAlone!Init /\ deleted = 0 /\ NoTypes /\ NoMediums

TypesStep ==
  /\ \/ In("service types") /\ TypesAlone!Next
     \/ In("service types revised") /\ TypesRevised!Next
     \/ In("service types overlap") /\ TypesOverlap!Next
  /\ UNCHANGED <<mediums, shelved, edits, page, removed>>

MediumsStep ==
  /\ \/ In("mediums") /\ MediumsAlone!Next
     \/ In("mediums overlap") /\ MediumsOverlap!Next
  /\ UNCHANGED <<cache, lookups, shelved, edits, page, removed>>

ListingsStep ==
  /\ \/ In("requests") /\ RequestsAlone!Next
     \/ In("requests overlap") /\ RequestsOverlap!Next
     \/ In("offers") /\ OffersAlone!Next
  /\ UNCHANGED <<lookups, deleted, mediums>>

Next == (TypesStep \/ MediumsStep \/ ListingsStep) /\ UNCHANGED scenario

Spec == Init /\ [][Next]_vars

-----------------------------------------------------------------------------
(* Properties: those of the stores, each in the scenarios it is about. *)

\* Type invariant.
TypeOK ==
  /\ In("service types") => TypesAlone!TypeOK
  /\ In("service types revised") => TypesRevised!TypeOK
  /\ In("service types overlap") => TypesOverlap!TypeOK
  /\ In("mediums") => MediumsAlone!TypeOK
  /\ In("mediums overlap") => MediumsOverlap!TypeOK
  /\ In("requests") => RequestsAlone!TypeOK
  /\ In("requests overlap") => RequestsOverlap!TypeOK
  /\ In("offers") => OffersAlone!TypeOK

\* A user who waits for each call does not see again what it deleted, whatever
\* calls failed before: a service type among all of them or in the cache, a
\* medium or a request anywhere; nor, as active, what it archived
\* (serviceTypes.store.svelte.ts:438-442, mediums_of_exchange.store.svelte.ts:797-802,
\* requests.store.svelte.ts:536-570, offers.store.svelte.ts:528-552).
DeletedStaysAway ==
  /\ In("service types") => TypesAlone!DeletedStaysAway
  /\ In("mediums") => MediumsAlone!DeletedNotShown
  /\ In("requests") => RequestsAlone!DeletedNotShown /\ RequestsAlone!ArchivedNotActive
  /\ In("offers") => OffersAlone!ArchivedNotActive

\* Fetching all service types shows each under its status, whatever failed calls
\* left before (cache-helpers.ts:211-239).
AllIsWhatIs == [][In("service types") => TypesAlone!AllIsWhatIs]_vars

\* A medium is shown once and under one status however calls overlap, and a
\* service type once among all, also after a revision
\* (mediums_of_exchange.store.svelte.ts:205-269, cache-helpers.ts:70-90).
ShownOnce ==
  /\ In("mediums") => MediumsAlone!OneStatusArray /\ MediumsAlone!TablesAgree
  /\ In("mediums overlap") => MediumsOverlap!OneStatusArray /\ MediumsOverlap!TablesAgree
  /\ In("service types revised") => TypesRevised!AllOnce

\* However searches overlap, what they found is among all listings, once
\* (requests.store.svelte.ts:592-598).
SearchAmongAll == In("requests overlap") => RequestsOverlap!SearchAmongAll
=============================================================================
