# Requests and Offers: a TLA+ model

*Requests and Offers* is a Holochain application: a bulletin board on which accepted
users and organizations post requests and offers, moderated by administrators.  Its
back end is a DNA of coordinator and integrity zomes in Rust
(`dnas/requests_and_offers`), its front end a SvelteKit application with Effect stores
(`ui/`).  There is no server.  Every agent runs the zomes on its own device, against its
own part of a distributed hash table (DHT) that gossip fills in over time.

The difficulty lies in two places.  A zome call is a sequence of reads and writes that
takes effect at once on the caller's device, on a copy that may lack what others have
done; nothing locks, nothing is serialized, and most facts are stored twice, as links in
both directions or as a list beside a flag.  And the front end keeps copies of these
facts, in stores, caches and pages, through chains of asynchronous calls that overlap,
fail, lose their answers and end after the page that made them is gone.  These modules
state what stays true of the facts and of the copies, and when.

Paths below are relative to the repository; `zomes/` stands for
`dnas/requests_and_offers/zomes/`, `lib/` for `ui/src/lib/`, `routes/` for
`ui/src/routes/`.

## Inventory

| Component | State | Operations | Hard parts | What makes it correct |
|---|---|---|---|---|
| Administrators, `zomes/coordinator/administration/src/administration.rs` | `AllAdministrators` links (the list), `AgentAdministrators` links (the permission) | register, add, remove, the two checks | two records of one fact; the last-administrator check on a partial copy; agents fetched by an earlier call | list and permission agree; one administrator remains; a removal takes effect |
| Moderation status, `.../administration/src/status.rs` | status entries, `EntityStatus`, `StatusUpdates`, `AcceptedEntity` links; the status each store holds | create, update, suspend, unsuspend, delete, history | a link replaced under a stale read; a status passed from a store; time | one status per entity; the accepted list agrees; never none |
| Service types, `zomes/coordinator/service_types/src/service_type.rs` | list and status links, pairs of links to listings and users | create, suggest, update, approve, reject, delete, link, unlink | overlapping moderation; pairs removed by first match; a rejection reaches into links | one status list; pairs balance; only approved types are linked |
| Users, `.../users_organizations/src/user.rs` | the profile and its links | create, update, read | a status is made in another zome | one profile, one status |
| Organizations, `.../users_organizations/src/organization.rs` | membership pairs, coordinator links | create, update, add, leave, remove, delete | last-coordinator and last-member checks; nested calls that check again after they removed | pairs agree; a coordinator remains; a deletion is complete |
| Requests and offers, `.../requests/src/request.rs`, `.../offers/src/offer.rs` | active, archived, creator and organization links, revisions | create, update, archive, delete, lists | three hashes of one listing used as keys; revisions that arrive out of order | one list; nobody goes back to an older revision; a deleted one is not found |
| Mediums of exchange, `.../mediums_of_exchange/src/medium_of_exchange.rs` | as service types | as service types, and an approval that rewrites the entry | as service types | one status list; what is in use was approved |
| Client and connection, `lib/services/HolochainClientService.svelte.ts`, `lib/utils/simple-connection.ts`, `lib/services/connection.service.ts`, `routes/+layout.svelte` | client, flags, retries, the stage of the start | connect, wait, guard, call, start | waiters that poll; a time-out that does not stop the attempt; a late failure | one attempt at a time; timed waits end |
| Initialization lock, `lib/utils/initialization-lock.ts` and the two initializers | promises of running initializations | withLock, the runs under it | waiters that wake together; calls that lose their answer | one run at a time; what a run reports done is done |
| Stores, `lib/stores/`, `lib/utils/store-helpers/`, `lib/utils/cache.svelte.ts` | arrays by status, caches, a loading flag | fetch, search, create, update, decide, delete | answers out of order; a decision made again; keys in two forms | what is deleted stays away; shown once, under its status |
| hREA integration, `lib/stores/hrea.store.svelte.ts` and the test page | agents and specifications on the hREA host, what the page fetched of them | make and remove on events, synchronise by hand | an event while an earlier one is under way; a partial failure | one agent each; no specification too many |
| Administration store and pages, `lib/stores/administration.store.svelte.ts`, `routes/admin/` | arrays of users and organizations, copies on the dashboard and in the action bar | fetch, decide, add and remove administrators | events that arrive before what they are about is read again | the copies show the statuses |
| Session of a person, `routes/+layout.svelte`, `lib/stores/users.store.svelte.ts`, `lib/services/adminStatus.service.svelte.ts`, the guards | the current user, whether an administrator, what a guard decided | start, refresh, revise, check | overlapping refreshes; time-outs and checks every minute | the profile shown is the profile; nobody with one is taken for new |
| Pages of organizations, listings, service types and mediums, `routes/`, `lib/components/`, `lib/composables/` | the page, its form, its copy of a store's arrays | open, load, edit, send, decide | arrays shared by pages; a form that outlives what it was filled from | a page shows what is, offers what can be done, sends what it shows |

Not modelled: the Misc zome, the wrappers of single zome calls, schemas, texts, the
signals of the zomes, tests.  `PROJECT.json` lists these too, with the reason.

How they interact: the administration zome is called by the others for the permission of
an agent (`check_if_agent_is_administrator`) and for the acceptance of a user or an
organization (`check_if_entity_is_accepted`); `users_organizations` calls it to create
and delete statuses; requests and offers call `service_types` and `mediums_of_exchange`
to keep their links.  All these calls run in one zome call of one agent and are one step.
The UI calls zomes one at a time, and what one call returned is the input of the next:
the agents of a user for `remove_administrator`, the status a store holds for
`update_entity_status`, the fetched list for a moderation.  These are the places where
something may happen in between, and each is a separate read in the modules.

## The modules

```
zomes     Dht ── Administrators ── MCAdministrators
           │  ├─ EntityStatus ── (INSTANCE) StatusRegister
           │  │   └─ MCEntityStatus
           │  ├─ ServiceTypes ──── MCServiceTypes
           │  └─ Organizations, Listings, Mediums ── MCZomes (with EntityStatus)
           └─ DhtProofs ── AdministratorsProofs, EntityStatusProofs, ServiceTypesProofs,
                           ZomesProofs (of Organizations, and of Mediums and Listings as
                           instances M and L)
stores    StoreHelpers ── ServiceTypesStore, MediumsStore, ListingStore ── MCStores
           └─ StoresProofs (of MediumsStore, and of the other two and of ListingTabs as
                            instances T, L and G)
client    InitializationLock, Connection, Hrea, HreaTestPage ── MCClient
           └─ ClientProofs (of Hrea, and of InitializationLock, Connection and
                            HreaTestPage as instances L, C and T)
pages     Moderation, Session, OrganizationPages, ListingTabs, ListingForm,
          ServiceTypePages, MediumPages ── MCPages
           └─ PagesProofs (of ListingForm, and of Session, MediumPages, OrganizationPages,
                           ServiceTypePages and Moderation as instances S, M, O, T and B)
liveness  Administrators, InitializationLock, Connection, ServiceTypesStore, Session ── MCLive
```

`MCZomes`, `MCStores`, `MCClient`, `MCPages` and `MCLive` are suites: each instantiates
components that share no state, several times with different constants, and a variable
`scenario` says of which instance a behaviour is.  A property of a suite is a property of
the components under one name, with each conjunct in the scenarios it is about.

### The host and the zomes

**Dht** is the host: not part of the repository, modelled from how the zomes use it and
mapped as external.  Every published action has an id from `clock`; `links` are all the
links ever made, `dead` the ids whose deletion was published; `seen[a]` and `gone[a]` are
the creations and the deletions that have reached agent `a`.  `GetLinks(a, type, base)`
is `get_links` on `a`'s device.  A zome call is one `Commit`: the writes of a call that
returns `Ok` are published together, those of a call that returns `Err` are not published
at all, so such a call is no step.  `DeliverCreate` and `DeliverDelete` bring one id to
one agent, in any order, a deletion possibly before the creation it names.

`serial` is a history variable: it holds as long as every call so far ran on a complete
copy of the table.  It splits the questions in two.  What the code promises when calls do
not overlap is stated as `serial => ...`; what it promises whatever overlaps is stated
without it.  It is not a guard: the actions do not read it.

**Administrators** has one action per call.  A user is named by its agent, since
`create_user` refuses a second profile and links the profile to that agent only.  The UI
fetches the agents of a user and passes them to the next call, so `PassedAgents` may
be what the caller sees or the empty answer from before the user's link arrived; a call
made with an old answer ends `serial`, as a call on an incomplete copy does.

**EntityStatus** covers users and organizations alike.  `UpdateEntityStatus` is the whole
of `update_entity_status`: a new entry or an update of the one the store holds, the first
status link replaced, the first accepted link removed, and one made when the new status
is "accepted".  Where the code takes the first of several links the model takes any,
since their order depends on what arrived.  `shown[a][e]` is the status agent `a`'s store
holds.  `now` counts ticks; `Hour` is the number of ticks of the hour that
`unsuspend_if_time_passed` compares with.

**StatusRegister** is what the zome promises: a register per entity and an accepted list
that always agrees with it.  `ImplementsRegister` of EntityStatus says that it implements
this when calls do not overlap, with the register read off the live links; the run checks
it and EntityStatusProofs proves it.

**ServiceTypes** keeps the list of all types, the three status lists, and a pair of links,
one each way, for a type and a request, an offer or a user.  Requests and offers are
treated alike (`Listings`) and only they need an approved type.  A call on a type needs
only that the type has reached the caller, since agents act on lists fetched earlier:
approving a deleted type is possible, and the model allows it.  It names a type by any of its hashes:
the lists answer with the latest revision (`service_type.rs:270-286`), and the store takes
that record's hash for the original (`serviceTypes.store.svelte.ts:90-100`), so a type
that was revised is approved, rejected and deleted by the hash of its revision.  `types`
are all the hashes, `Revisions` those that revisions go by.  `OneStatus` is therefore of
each hash; that a revised *type* is on one list does not hold, as `RevisedOnOneList`
(below) shows.  `Unlinked(a, t, x, n)` is
what `n` calls of `unlink_from_service_type` in a row may delete, each taking the first
link of each way.

**Organizations** has the membership pairs and the coordinator links.  `leave_organization`
and `delete_organization` are one step each with the checks of the calls they nest, made
on the links the earlier ones left; of an organization's moderation it keeps the two
links these calls read and delete.

**Listings** is both zomes of requests and offers, which are one code under two names.  A
revision is a record linked to the original; `LatestId` is what the newest update link
the agent has names.  Which of its three hashes a call uses is kept, since the calls do
not agree on it.

**Mediums** is as ServiceTypes, except that an approval writes a revision with the id of
a resource specification.

### The stores, the client, the pages

**StoreHelpers** is what every store is built from: a call goes out, is handled by the
host, and comes back, or fails before or after it was handled; the loading flag around
it; arrays by status and a cache.  **ServiceTypesStore**, **MediumsStore** and
**ListingStore** add to it their zome, reduced to what its answers depend on, and one
action per store function for the call and one for its answer.  With one caller the user
waits for each call; with two, calls overlap.  `Others` lets other agents act on the zome.

**InitializationLock** steps from await to await.  `Unapproved` are the predefined service
types that are there from the start as pending or rejected: the initializer reads all three
lists, passes over what it finds on any, and reports success
(`ServiceTypesInitializer.svelte:128, 192-256`).  Promises that settle wake those who
wait in the order of the microtasks, which is what decides who takes the lock.
**Connection** has seconds: `delay` is a pause of the back-off, `limit` a time-out, and
`Tick` passes no timer that is due.  **Hrea** keeps the objects on the host, the arrays
the page has of them as sets (the code takes the first match in an array, whose order is
the host's; the module takes any), what each entity is mapped to, and the agents in flight; **HreaTestPage** is the page that
synchronises by hand, one call after the other.

**Moderation**, **Session**, **OrganizationPages**, **ListingTabs**, **ListingForm**,
**ServiceTypePages** and **MediumPages** are pages with what they keep beside the stores.
An open page is a record; a chain of calls that a page starts is a run that goes on when
the page is left.  `Waits` says whether the person waits for each run (in Session nobody waits for the check of
the administrator: the layout and the home page each run theirs, with their own
timers, and the service does not look whether one is under way), `failures`,
`others` and the like count what the bounds limit.  Each header says what is left out.

Operators named as faults (`RegisterTwice`, `UnlinkedOneSide`, ...) stand beside the
definitions they are a faulty variant of and are used by no specification; with one in
the place of its definition the property it is paired with in `PROJECT.json` fails.

## What is checked

| Run | Scenarios | Shows |
|---|---|---|
| Administrators | 3 agents, 7 ids | list and permissions agree (`ListMatchesAgents`), a last administrator stays (`AdministratorRemains`) |
| EntityStatus | 2 administrators, 1 entity, 10 ids, with overlap up to 8; suspensions of 3 ticks with an hour of 2 | `OneStatus`, `AcceptedMatchesStatus`, `NeverStatusless`, and the refinement `ImplementsRegister` |
| ServiceTypes | 1 agent on 2 types, 2 listings and a user; 2 administrators on 1 type | `OneStatus`, `PairsBalance`, `NoLinkToUnapproved`, `NeverStatusless`, `DecisionsHeal` |
| Zomes | organizations, listings and mediums, each with calls that do not overlap (larger) and that do (smaller) | `NothingHalfRemoved`, `CoordinatorRemains`, `ListedOnce`, `LatestNeverOlder`, `MediumsModerated` |
| Client | two clicks on one initializer, one on each, the latter with a type there that is not approved; a page, a waiter, a guard and a user who connect; hREA agents, specifications and both with overlap; the test page, with and without decisions, with overlap | `MutualExclusion`, `ServicesComplete`, `OneConnects`, `OneAgentEach`, `NoSpareSpecification`, `SyncedIsThere` |
| Stores | each store with a user who waits; service types with a revision; service types, mediums and requests with overlap | `DeletedStaysAway`, `ShownOnce`, `SearchAmongAll`, `AllIsWhatIs` |
| Pages | each page, with a person who waits, with calls that fail and others who act, and session and tabs with overlap | `ShownAsItIs`, `OfferedRightly`, `SentAsShown`, `NothingLost` |
| Live | a removal; four clicks on the initializers; the start of a page with a guard; a store; a session | `RemovalTakesEffect`, `EveryRunEnds`, `TimedWaitsEnd` |
| EntityStatusHistory | 1 administrator, 12 ids | `HistoryComplete` fails |
| ListingsBothLists | listings without overlap | `ArchivedLeavesActive` fails |
| OrganizationRemoval | pages of an organization | `RemovedMeansGone` fails |
| MyListings | tabs of two users' listings | `MineAreMine` fails |

Every passing run but Live also checks `TypeOK`.  The comment above each property says
what it means and where the code is that it is about.

**The bounds.**  `MaxOps` bounds the ids a behaviour of a zome gives out, and with it the
creations; deletions use no id but only name existing ones.  Seven ids let two of three
agents make a profile and register (3 ids each) with one to spare; ten let an entity be
created and changed twice, or created, changed and deleted; nine let a type be made,
linked twice, rejected and approved again, or two be made and one of them linked and
rejected.  The overlapping scenarios of a zome are
smaller than the others and start, where that saves ids, in a state an earlier call
leaves (`Founded`, `Offered` in MCZomes): two calls that overlap and one that follows is
what they are about, and a third agent only adds another stale copy.  `MaxOverlapping`,
`MaxTimed` and `Bounded` in MCEntityStatus and MCServiceTypes say which overlapping behaviours are
cut short, `NoOverlap` in MCAdministrators that its run stops where `serial` is false, as
its properties say nothing of the rest.  In the scenarios of MCZomes without overlap each
call is made on a complete copy, and gossip is one step.

In the front end `MaxHashes`, `MaxEdits`, `MaxObjects` and `MaxRevisions` bound what is
made, `MaxFailures`, `MaxLost`, `MaxOthers`, `MaxChanges`, `MaxDecisions` and `MaxReloads`
what happens meanwhile.  Two of a kind let an answer for one arrive after a call about
the other; one failure and one act of another let each call fail once and each read be
stale once; the scenarios of one of a kind have more of these than those of two.  Every
scenario is finite or quiet in the end, so that a state without a step is no deadlock,
and the runs switch that check off; that nothing waits for ever is what Live is for.

The passing runs go through 0.2 (EntityStatus 278 541, Live 194 518) to 2.4 million
(Pages 2 378 245) distinct states, in seconds to two minutes each.

**Fairness** is stated in MCLive only.  Gossip: what is published keeps being gossiped,
which is the host's service.  Steps of the initializers: microtasks run, and zome calls
are answered or fail; a run under the lock is such steps.  Of the connection, timers
(`Tick`, a poll, the end of a pause, the time-outs) and what follows them, but not an
attempt to connect nor hREA, either of which may stay without an answer for ever.  A call
of a store is answered or fails, since the client library gives each zome call a
time-out.  Of the session only the time-out of the administrator check.  No act of a user is
assumed fair.

## What the runs that fail show

* **EntityStatusHistory.**  `documentation/technical-specs/history-revision-feature.md:5`
  promises a "complete audit trail of all status changes".  The store passes the status
  it holds as the original of each update, so each update hangs on its predecessor, and
  the history shows the predecessor of the current status and its direct updates only.
* **ListingsBothLists.**  `documentation/technical-specs/zomes/requests.md:125` says that
  archiving deletes the link of the active list.  It looks there for the hash of the
  latest revision, but the list names the original: a listing that was edited is on both.
* **OrganizationRemoval.**  `OrganizationMembersTable.svelte:151` says "Member removed
  successfully" after awaiting an Effect that nothing runs, so no call is made.  The
  table of coordinators (113-118), the deletion on the edit page (90-96) and
  `useOrganizationsManagement` (102) do the same.
* **MyListings.**  `routes/my-listings/+page.svelte:57` says "Manage your requests and
  offers".  The page shows the arrays of the stores, which the pages of all requests and
  offers fill with everybody's, until its own answer for a kind arrives, and for good if
  that call fails.

## Other disagreements

Definitions that state what the repository says, which the code does not do, and which no
run is kept for.  To see one fail, check it in the suite named, as an invariant or as
`[][In("...") => ...]_vars`, with the scenario given.

| Definition | Suite, scenario | What the repository says |
|---|---|---|
| `AlwaysAnAdministrator` | MCAdministrators, 2 agents, 8 ids, no constraint | administration.md:81 "Ensures at least one administrator remains"; two who remove one another both pass the check |
| `UnsuspendsOnceTimePassed` | MCEntityStatus, decision "suspended temporarily" for 3 ticks | administration.md:217 "Auto-unsuspends if time passed"; a suspension is lifted up to an hour before its end |
| `DeletedTypesUnlinked`, `NeverOnTwoLists` | MCServiceTypes | service_types.md:244, of links to deleted types; edge-cases.test.ts:142, when an approval and a rejection overlap |
| `AlwaysACoordinator` | MCZomes, organizations overlap, 12 ids | errors.rs:93 "Cannot remove last coordinator"; two who leave at once |
| `DeletedIsNotFound` of Organizations | MCZomes, organizations with a revision | organizations.md, of deletion; the revision is found |
| `ArchivedNotEdited`, `DeletedNotOnArchivedList`, `AuthorMayArchive` | MCZomes, listings | request.rs:376 (the check reads the original, never archived); requests.md:226; requests.md:311 (the author of the latest revision is asked, which an administrator may be) |
| `RejectedNotUsed`, `ApprovedHasSpec`, `OnlyAuthorRevises`, `ApprovalKeepsEdits` | MCZomes, mediums | mediums_of_exchange.md:7; mediums-of-exchange.test.ts:130; mediums_of_exchange.md:47; medium_of_exchange.rs:368 |
| `DomainsExclude` | MCClient, lock of three | initialization-lock.ts:2 "prevent concurrent initialization of different domains"; a waiter does not look again |
| `EachServiceApproved`, `EachMediumApproved` | MCClient, lock of two; two clicks on the mediums | ServiceTypesInitializer.svelte:224 "Create and approve each service type"; MoEInitializer.svelte:124; what is there and not approved is passed over, and the run reports success |
| `FailureIsCurrent`, `ThreeAttempts` | MCClient, connection (the first with two users) | HolochainClientService.svelte.ts:155, a late failure drops a client that works; +layout.svelte:243 "Max 3 attempts", given up before them |
| `OneSpecificationEach`, `NoMediumTwice` | MCClient, hREA overlap and test page decided | hrea.store.svelte.ts:955-968; MediumOfExchangeResourceSpecManager.svelte:121 "Resource spec already exists for medium" |
| `AllAreOriginals`, `LastEditIsLatest`, `DeletedEditGone` | MCStores, requests (the second with 2 edits) | requests.store.svelte.ts:510-511; requests.md:164; requests.md:226 |
| `ApprovedIsApproved` | MCStores, mediums | mediums_of_exchange.md:89 |
| `CachedStatus`, `LoadingWhileBusy`, `RevisedOnOneList`, `DeletedNotShown` | MCStores, service types; the second with overlap, the others with a revision | guides/architectural-patterns.md:112; serviceTypes.store.test.ts:395; edge-cases.test.ts:142; serviceTypes.store.test.ts:608 |
| `SuccessIsSaved`, `NothingIsLost` | MCPages, listing form | RequestForm.svelte:277-280 "created successfully", though the page swallowed the error; edit/+page.svelte:279, an edit drops what a lookup failed to fetch |
| `TellsTheStatus` | MCPages, service types of one | serviceTypes.store.svelte.ts:133; the page of a type keeps the old status until the cache expires |
| `CanTryAgain`, `FailureMakesNothing` | MCPages, mediums of one | MediumOfExchangeForm.svelte:328, no second try after a failure; a suggestion that is made is reported as failed |
| `AdministratorsStay` | MCPages, session | who has just registered as administrator is sent home again |

Met while modelling, and in the actions as the code has it:

* An administrator who is removed with the answer from before their agent's link arrived,
  or an empty one, leaves the list and keeps the permission links (`PassedAgents`).
* A decision on a service type whose answer is lost and that is made again may leave a
  second copy in the array of its status; `ShownOnce` is of all types and of the mediums.
* A profile update that fails resolves to nothing, and the page says it was updated; a
  refresh that is told "already running" clears the flag of the one that runs; once the
  profile guard's five seconds have passed it stays timed out; the check every minute
  takes the page of an administrator away while it runs.
* The organizations store takes the hash of an update for the original (the users store
  was mended in this, Issue #57), so the edit button is lost after a revision; adding a
  member refreshes the store and not the page; the public list calls what only
  administrators may call.
* On the dashboard the second event of a decision brings the old status back until a
  refresh; the modal of administrators still offers who was just added, since
  the administrators held are not fetched again
  (`administration.store.svelte.ts:789-792`); users without a
  known status are on none of the pages.
* A listing with a medium that was rejected since cannot be edited until the choice is
  cleared; the edit page of requests ignores the chosen organization; details offer an
  edit that the edit page refuses.
* "Reject" of an approved type always fails in the table; a rejected type that is approved
  stays under rejected until it is fetched; an edit of a medium drops its description and
  its specification; an administrator's new medium is only suggested.
* Proposals and intents of hREA are never made: the events of new listings carry no
  creator, and the retroactive mappings are called by nobody.

## What is proved

For every value of the constants, by the TLA+ proof system:

| Module | Theorem | Says |
|---|---|---|
| AdministratorsProofs | `TypeCorrect`, `RecordsAgree`, `LastAdministratorStays` | `[]TypeOK`, `[]ListMatchesAgents`, `[]AdministratorRemains` |
| EntityStatusProofs | `TypeCorrect`, `StatusNeverLost`, `StatusIsUnique`, `AcceptedAgrees` | `[]TypeOK`, `[]NeverStatusless`, `[]OneStatus`, `[]AcceptedMatchesStatus` |
| | `RefinesRegister` | `ImplementsRegister`: every step of a call is a step of the register or leaves it |
| ServiceTypesProofs | `TypeCorrect`, `StatusNeverLost`, `StatusIsUnique` | `[]TypeOK`, `[]NeverStatusless`, `[]OneStatus`, of each hash, those of revisions too |
| | `DecisionsAreHealing` | `DecisionsHeal`: a decision on a complete copy leaves its hash on one list, whatever overlapped before |
| | `PairsStayBalanced`, `LinkedIsApproved` | `[]PairsBalance`, `[]NoLinkToUnapproved` |
| ZomesProofs | `OrganizationsTypes`, `MembersBothWays`, `CoordinatorsMember`, `KeepsACoordinator`, `DeletedAltogether` | of organizations: `[]TypeOK`, `[]MembershipBothWays`, `[]CoordinatorsAreMembers`, `[]CoordinatorRemains`, `[]DeletionIsComplete` |
| | `OnlyCoordinatorsRemove` | `[][OthersKeepPlaces]_vars` |
| | `MediumsTypes`, `StatusNeverLost`, `StatusIsUnique`, `UsedWasApproved`, `PairsStayBalanced` | of mediums: `[]TypeOK`, `[]NeverStatusless`, `[]OneStatus`, `[]LinkedWasApproved`, `[]PairsBalance` |
| | `ListingsTypes`, `OnOneList`, `DeletedIsGone`, `SplitInTwo` | of requests and offers: `[]TypeOK`, `[]UneditedOnOneList`, `[]DeletedIsNotFound`, `[]MyListingsSplit` |
| | `NeverGoesBack` | `[][NeverOlder]_vars` |
| StoresProofs | `MediumsStoreTypes`, `MediumsStoreShowsOnce`, `MediumsStoreTablesAgree`, `MediumsStoreForgets` | of the mediums: `[]TypeOK`, `[]OneStatusArray`, `[]TablesAgree`; with one caller `[]DeletedNotShown` |
| | `TypesStoreTypes`, `TypesStoreAllOnce`, `TypesStoreForgets`, `TypesStoreAllIsWhatIs` | of the service types: `[]TypeOK`, `[]AllOnce`; with one caller and no revisions `[]DeletedStaysAway`, and if nobody else acts `[][AllIsWhatIs]_vars` |
| | `ListingStoreTypes`, `ListingStoreSearches`, `RequestsStoreForgets`, `ListingStoreArchives` | of requests and offers: `[]TypeOK`, `[]SearchAmongAll`; with one caller `[]ArchivedNotActive`, and of requests `[]DeletedNotShown` |
| | `ListingTabsTypesHold`, `ArchivedTabHoldsArchived`, `PagesShowOnlyTheirOwn` | of the pages that list requests and offers: `[]TypeOK`, `[]ArchivedUnderArchived`; under `Waits` `[]PagesShowTheirOwn` |
| ClientProofs | `LockTypeCorrect`, `ServicesAreComplete`, `ExclusiveWhileOneWaits`, `TwoClicksExclude` | of the lock: `[]TypeOK`; `[]ServicesComplete`, whichever types were there unapproved; two runs under it work at once only after two have waited, so never with two runs: `[](MutualExclusion /\ CopiesAreLostAnswers)` |
| | `ConnectionTypeCorrect`, `OneConnectsAtATime`, `ConnectedWithTheNewest`, `HeldUntilAFailure` | of the connection: `[]TypeOK`, `[]OneConnects`, `[]ConnectedHasClient`; the client that is held is the newest made, and a step that drops it is a failure of a call |
| | `HreaTypeCorrect`, `NoneLeftInFlight`, `OneAgentUnlessLost`, `NoneLeftOverAlone`, `OneSpecificationAlone` | of hREA: `[]TypeOK`, `[]InFlightIsUnderWay`; `[]OneAgentEach` where the pages fetch first, unless the answer of a call that made an agent is lost; with one caller `[]NoneLeftOver`, and one specification of a service type at most unless a call about it was cut short |
| | `TestPageTypes`, `TheTabTells`, `NoneIsMadeTwice`, `SynchronisedIsThere` | of the test page: `[]TypeOK`, `[]TabTells`; under `Waits` `[]NoneTwice` and `[][SyncedIsThere]_testPageVars` |
| PagesProofs | `FormTypesHold`, `FormSendsWhatItShows`, `FormOffersWhatIsAllowed` | of the form of a listing: `[]TypeOK`, `[][ShownIsSent /\ UntouchedIsKept]_vars`, `[]OfferedIsAllowed` |
| | `SessionTypesHold`, `SessionMissingMeansNone`, `SessionShowsWhatIs`, `SessionNeverOlder` | of the session: `[]TypeOK`, `[]MissingMeansNone`; under `Waits` `[]CurrentUserIsWhatIs` and `[][ProfileNeverOlder]_vars` |
| | `MediumPagesTypesHold`, `MediumsListIsWhatIs`, `MediumFormsKeepFailed` | of the mediums: `[]TypeOK`, `[]ListIsWhatIs`, `[][FailedIsKept]_vars` |
| | `OrganizationPagesTypesHold`, `OrganizationShownAsItIs`, `OrganizationOfferedToMembers` | of an organization: `[]TypeOK`, `[]ShownAsItIs`, `[]OfferedToMembers` |
| | `ServiceTypePagesTypesHold`, `TypesListTheApproved`, `TypesOfferedSucceed`, `TypeFormsKeepFailed` | of the service types: `[]TypeOK`, `[]ListsTheApproved`, `[]OfferedSucceeds`, `[][FailedIsKept]_vars` |
| | `ModerationTypesHold`, `AdministratorsShownAreSo`, `StatusesShownAreSo` | of the pages of an administrator: `[]TypeOK`; under `Waits` `[]AdministratorsShown`, `[]StatusesShown` |

The properties of the suites `MCZomes`, `MCStores`, `MCClient` and `MCPages` are
conjunctions of these formulas: the run shows them on the instances of the suite, the
theorems for all.  One exception: of a person who does not wait for the test page of hREA
(the scenario with overlap) the run checks `SyncedIsThere` before anything is decided, and
the theorem is of one who waits.

**From which assumptions.**  Those named in the modules: bounds are natural numbers,
administrators are agents, an hour is not nothing, listings are not users, organizations
and tags are finitely many, runs of the two initializers differ from one another and the
names of types from the labels of `pc`, no waiter or guard of the connection is named
like the layout, users and organizations are no service types or mediums, nor are
service types mediums, of which the test page has finitely many, and the tabs of listings
are of some kind.  All are evaluated by a run on its constants.  Of hREA three
theorems assume more, and say so: `Waits`, the pages fetch first and wait for a fetch, as
the test page does; that no answer is lost; or `OneCaller`, that each call is waited for,
as by an administrator who does one thing at a time.  Without them the theorems are false:
an answer that is lost leaves an agent the page does not know of until it fetches again,
and two calls at once make two specifications (`OneSpecificationEach`, see above).  Of the
stores, what is deleted or archived stays away under `OneCaller` as well: a list that was
asked for before a deletion and answered after it brings the record back.  Of the service
types two theorems take `MaxUpdates = 0`, because a revised type goes by two hashes and the
store does not take both away (`DeletedNotShown`, `RevisedOnOneList`, see above), and
`AllIsWhatIs` takes `~Others`, because an answer is of when the call was made, and another
administrator may move a type before it comes back.  Of the pages four theorems take
`Waits`, that the person waits for each call: of two refreshes of a profile the one that
began first may end last, and of two pages that load into the same arrays the one that
was left may answer last (`MineAreMine`, see above, fails for a like reason).

**DhtProofs** holds what the zomes share.  A call keeps the table well formed, gossip
changes no link, a complete copy reads what the table holds, the live links after a call
are those before it, less what it deleted, plus what it added, and a set of links loses
as many members as a call deletes of it.

**Status lists.**  `NeverStatusless` and `OneStatus` are not inductive by themselves.  What
makes them so is that ids are given out once: a link a call adds cannot be among those an
earlier or an overlapping call deletes, because deletions name links that existed
(`del \subseteq Ids`, `FreshLinks`), and a deleted id never stands for both a link and a
record (in ServiceTypes `LinkIsNoType`, in Mediums `LinkIsNoMedium`; in EntityStatus the
corresponding parts of `IInv`).  So a call that clears what it sees and adds a link of its
own leaves at least that link, whatever others cleared.  When the caller's copy is
complete, what it sees is what there is (`CompleteCopyReadsTable`), so exactly that link
is left; this is the step from `NeverStatusless` to `OneStatus`.  Before `serial` ends
every call is of this kind.  In Mediums an approval also adds a revision, which is on no
status list; `LinkedWasApproved` holds whatever overlaps, since it speaks of the
approvals made and not of the present list.

`DecisionsHeal` asks nothing of the calls before: a caller with a complete copy clears every
list the hash is on, however many, and adds one link of its own, so it needs only that a
complete copy reads the table and that the new link is not among those cleared.

**Pairs of links.**  `PairsBalance` counts links that the code takes away one at a time,
the first match each way, so that which of several goes is open.  The proof shows of each
call that it takes equally many links of both ways, `Some(n, Forth)` and `Some(n, Back)`
for the same `n`, and adds one each way or none.  `NoLinkToUnapproved` rests on it: a
rejection unlinks a type as often as it has links one way, and only the balance says that
no link the other way is left.

**Records that agree.**  `RecordsAgree` carries for each agent that list link and
permission link come and go together; `LastAdministratorStays` needs in addition that the
number of list links the caller counts is that of the table.  For organizations the
invariant `Agrees` says of each pair of a user and an organization that the links each way
and the coordinator's link come in the combinations the code makes, and of a deleted
organization that there are none; each call is shown to write links of the one
organization it concerns and to leave the rest alone.  `OthersKeepPlaces` needs no
history: the check a call starts with is on the copy the caller has.

**Listings.**  Which link each call uses as a key is what the type invariant keeps: the
active list and the links of a user name originals, the archived list and the list of
all revisions.  `NeverOlder` says that of a listing that is not deleted, and follows with the ids: an
agent takes the update link with the largest id it has, what it has seen it keeps, and
only the call that deletes the listing deletes its update links (`Lasting`).
The others need that a call on a complete copy makes or deletes a listing with all its
links, and that the status of an unedited listing and the list it is on change together.

**The lock and the connection.**  With any number of clicks the lock does not exclude, as
`DomainsExclude` shows; what does hold is that while at most one run waits at the lock at
most one works, with the invariant `LockExcludes`: the promise stored is that of the run that
works, and whoever waits waits for it.  `ServicesComplete` needs that what a run has
ticked off is approved, or was there unapproved, and stays so.  The connection turns on `isConnecting` being set before the first await and cleared
only by the one who set it.

**hREA.**  `HreaInv` ties the set of agents in flight to the calls under way: an agent is in
it exactly while a call makes it, and no two calls make the same one (`FliesAlone`), also
where a run of `createRetroactiveMappings` goes from one agent to the next.  `AInv` adds
what the pages' order gives: once the agents are fetched, each agent of the host is in the
array or made by a call whose answer has yet to come (`Noticed`), because a fetch has the
page to itself.  So who is not found and not in flight has no agent (`NoneFound`), and a
second one is never made.  `SInv` says, of a service type about which no call was cut
short, what is on the host at each stage of a call: nothing while a specification is being
asked for, its own answer until that arrives, at most what the call deletes until it is
deleted, and otherwise what is in the array.

The test page goes through a list by calls of its own.  `WaitsInv`: to one who waits, one
call is under way besides those that ask for the lists last.  `OnceInv` is about a
specification that is on the host and not among those of the store: while the store is
known to hold all (`whole`), it is the answer a call has just given, whose item is the one
the run is at; in any case no run has its item still to come, so that it is not made
again.  `SyncedInv`: what a run has counted is on the host under a name the run was given,
what it was given is counted or to come, and the reload at the end brings all the host
has.  `TabInv` needs no waiting: as long as nothing was decided and nothing failed, a
list is empty or all that is approved, and so is what a synchronisation was given, which
it has counted or has to come.  `SyncedIsThere` asks for a specification under *a* name
that was given for the type: a list that was loaded while others act may hold a type once
under its name before and once under that after, of which the synchronisation leaves
the later.  When several overlap it is stated of the time before any decision, since with
two names around the one that ends last may not be the one that was asked last.

**The stores.**  An array is a sequence that one helper filters and appends to, and a call
that fetches many does so once for each of them.  The lemmas say of each helper which
records an array has afterwards and that none is repeated (`SyncAddIs`, `SyncRemoveIs`);
what holds after each step of the fold holds after the last (`SyncAllIs`), by the least
step at which it does not.  `MInv`, `TInv` and `LInv` hold however calls overlap: an answer
under way is of records there are and repeats nothing, an answer for one status is of that
status, and the arrays agree, of mediums that a record is under its own status and, as
that, among all.  They say nothing of whether an answer is still true, and nothing of that
holds.  With one caller they are joined by `MGone`, `TGone` and `LGone`: what was deleted
is in no array, not in the cache, not in the answer under way and not what the page is
about to ask for, and is deleted in the zome, so no later answer has it; and by `LFiled`
for what was archived, as long as nobody edits it, since an edit makes a new revision that
is active.  `TCalm` adds that the answer of the call for all types has each under the
status it has in the zome.

**The pages.**  A page keeps copies, and a chain of calls that fills them goes on while
others act, so what each invariant says is which of the facts that go into a page may
still be on their way.

The form of a listing (`FormSendsWhatItShows`): a selector holds what the form will send
from the moment it has loaded, and what it has not loaded it does not offer.
`UntouchedIsKept` is about an edit of what was read: a type that is unlinked from the
listing after the page has read it, and approved again before the form is saved, comes
back with the edit.  That takes two acts of others, which the run has.

The session: that who has a profile is never taken for new holds whatever overlaps.  Only
the start decides that somebody is new, and as long as nothing failed, who has a profile
and is not shown as a user has just created it or is about to be read by the start
(`StartInv`, `BroughtInv`, `FoundInv`).  To one who waits, one call at a time writes or
refreshes (`AloneInv`), what it brings is the latest revision and what is shown is no
later (`LatestInv`); and unless something changed or failed since the last refresh began,
its answer is what is, and after it so is the user that is shown (`CertainInv`).

Mediums and service types: while nobody else acts, a list that is asked for is what there
is and one that has loaded shows it, but for what is being decided on (`ListInv`,
`ListsInv`, `ArraysInv`); and a form that was sent keeps what it was filled with until the
answer.  The page of an organization reads the revision, the members, the status and the
coordinators one after the other, and what it has read so far is what is unless somebody
acted since (`ReadSoFar`, `PageInv`).  The form of a listing offers what its own call
answers, filtered to what is accepted (`choices`), and not the store's accepted
organizations; what that call has read so far is what is likewise (`ListingInv`).

The administrator: administrators and candidates are those of the last fetch, but for who
was added or removed since (`changed`, in `KnownInv`); nothing stronger holds, as the modal
goes on offering who was just added.  For the statuses (`WaitingInv`) one
call is under way; the bar, if it is open, is told of decisions or makes none; the
dashboard has copies of what the store has, unless a refresh has stored and not yet
copied (`SharedInv`); what is shown is so unless the answer to a decision is on its way,
and of the dashboard also until the refresh after it, and of the bar until it has asked
again (`ShownInv`).

The pages that list requests and offers, proved with the stores whose arrays they share:
what is archived never becomes active, so an answer under the archived tab stays right
however late it comes.  To a user who waits, the run is of the page that is open
(`OfPage`), and what a profile or a list shows of a kind is its own or has yet to be
loaded (`ProfileInv`, `ListPageInv`).

**The refinement** is proved step by step: the initial states map to the empty register;
a call made on a complete copy while `serial` holds changes the status of one entity, by
`OneStatus` the one status there is, and the accepted link with it, by
`AcceptedMatchesStatus`; gossip, loading and the clock leave the register's variables as they are.  Of steps once
`serial` has ended it says nothing, as the register is promised only until then.

Each proof has one lemma per kind of call, an invariance lemma, and theorems that take
the parts out of it.

Only model-checked: liveness (`RemovalTakesEffect`, `EveryRunEnds`, `TimedWaitsEnd`), which
with fairness and ENABLED is beyond the prover; `SyncedIsThere` of a person who does not
wait for the test page of hREA; and the suites' own steps, where `Settle` stands for many steps of gossip and a scenario may start after its
component's first calls (`Founded`, `Offered`), so that a suite's state is one its
component reaches but its step is not one of the component's.

## What is left out

* Validation by other agents: the integrity zomes check entries (no empty name, known
  status) and leave the validation of links to be done; the one rule that matters here,
  that a user cannot be deleted, is in EntityStatus.
* Source-chain conflicts: a device runs the calls of its one user one after the other.
* `AllStatuses` links, which nothing reads where they are written; `UserStatus`,
  `MyUser` and `AllUsers` links, which are written once.
* The extern `create_accepted_entity_link` as a call of its own: in the repository only
  `update_entity_status` uses it.
* The lists of users and organizations by status, the page of the history of all
  statuses, the forms of users and organizations, filters, sorting and pagination.
* `useUserAccessGuard`, `userAccessGuard`, `useProfileValidation` and `ConnectionGuard`,
  which no page uses; the bulk buttons of "My listings", which only log.
* The event bus, which carries no state: what its handlers do is where they are.
* Texts, formats and signals (`post_commit` emits them, the UI listens to none).
* A zome and a store or a page over it are in different modules, the upper one with the
  lower reduced to what its answers depend on; that the reduction is what the zome does
  is argued in the headers and not checked.

## What could be proved next

`SyncedIsThere` of overlapping synchronisations before any decision, with an invariant of
each run that does not ask what the others do; the properties of the suites themselves,
from the theorems of their components.
