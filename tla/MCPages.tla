------------------------------- MODULE MCPages -------------------------------
(***************************************************************************)
(* The pages of the UI: those of the administrator who moderates users and *)
(* organizations, the session of a person, the pages of organizations, the *)
(* tabs and forms of requests and offers, the pages of service types and   *)
(* of mediums of exchange.  A behaviour is of one of them: `scenario` says *)
(* of which, and whether its calls overlap.  In the others the person      *)
(* waits for each call.                                                    *)
(***************************************************************************)
EXTENDS Naturals, FiniteSets, Sequences

CONSTANTS
  Scenarios,         \* the scenarios looked at
  c1, c2,            \* calls
  me, you,           \* users
  o1,                \* an organization
  ra, rb, oa, ob,    \* requests and offers
  ta, tb, ma, mb     \* service types and mediums of exchange

VARIABLES
  scenario,
  all, fetchedBy, administrators, nonAdministrators,               \* of Moderation
  mounted, board, shared, bar, uncertain, changed, decisions,
  profile, standing, user, refreshing, error, agentIsAdministrator,  \* of Session
  adminStatus, recent, started, timedOut, prerequisites, doubtful,
  revision, members, coordinators, accepted, current,              \* of OrganizationPages
  at, organization, mayEdit, choices, fresh,
  store, failed,                                                   \* of ListingTabs
  listing, approved, form, picked, touched, call,                  \* of ListingForm
  arrays, related, search,                                         \* of ServiceTypePages
  tab, blocked,                                                    \* of MediumPages
  failures, others, page, status, runs, run, listed, offered,      \* of several
  loading, cache, said, shown, view, zome, filled

moderation ==
  <<all, fetchedBy, administrators, nonAdministrators, mounted, board, shared, bar, uncertain, changed, decisions>>
session ==
  <<profile, standing, user, refreshing, error, agentIsAdministrator, adminStatus, recent,
    started, timedOut, prerequisites, doubtful>>
organizations == <<revision, members, coordinators, accepted, current, at, organization, mayEdit, choices, fresh>>
tabs == <<store, failed>>
listings == <<listing, approved, form, picked, touched, call>>
types == <<arrays, related, search>>
mediums == <<tab, blocked>>
several == <<failures, others, page, status, runs, run, listed, offered, loading, cache, said, shown, view, zome, filled>>
vars == <<scenario, moderation, session, organizations, tabs, listings, types, mediums, several>>

-----------------------------------------------------------------------------
(* The scenarios. *)

\* Two users and an organization are moderated, and administrators added and removed.
Board ==
  INSTANCE Moderation WITH
    Callers <- {c1, c2}, Users <- {me, you}, Organizations <- {o1},
    MaxDecisions <- 2, MaxFailures <- 0, MaxOthers <- 0, Waits <- TRUE

\* The same of one user, while calls fail and another administrator decides.
BoardOfTwo ==
  INSTANCE Moderation WITH
    Callers <- {c1, c2}, Users <- {you}, Organizations <- {o1},
    MaxDecisions <- 1, MaxFailures <- 1, MaxOthers <- 1, Waits <- TRUE

\* A person whose profile others moderate, and one whose calls fail.
Person ==
  INSTANCE Session WITH
    Callers <- {c1, c2}, MaxRevisions <- 2, MaxOthers <- 1, MaxFailures <- 0, Waits <- TRUE

PersonFailing ==
  INSTANCE Session WITH
    Callers <- {c1, c2}, MaxRevisions <- 2, MaxOthers <- 0, MaxFailures <- 1, Waits <- TRUE

PersonOverlap ==
  INSTANCE Session WITH
    Callers <- {c1, c2}, MaxRevisions <- 1, MaxOthers <- 0, MaxFailures <- 0, Waits <- FALSE

Organizing ==
  INSTANCE OrganizationPages WITH
    People <- {me, you}, MaxRevisions <- 3, MaxOthers <- 1, MaxFailures <- 1

KindOfListing == [l \in {ra, rb, oa, ob} |-> IF l \in {ra, rb} THEN "requests" ELSE "offers"]
OwnerOfListing == [l \in {ra, rb, oa, ob} |-> IF l \in {ra, oa} THEN me ELSE you]
Of(f, S) == [l \in S |-> f[l]]

\* A request and an offer of each of two users.
Tabs ==
  INSTANCE ListingTabs WITH
    Kinds <- <<"requests", "offers">>, Listings <- {ra, rb, oa, ob}, KindOf <- KindOfListing,
    Owner <- OwnerOfListing, Admin <- FALSE, Runs <- {1}, Waits <- TRUE,
    MaxChanges <- 1, MaxFailures <- 1

TabsOverlap ==
  INSTANCE ListingTabs WITH
    Kinds <- <<"requests", "offers">>, Listings <- {ra, ob}, KindOf <- Of(KindOfListing, {ra, ob}),
    Owner <- Of(OwnerOfListing, {ra, ob}), Admin <- FALSE, Runs <- {1, 2}, Waits <- FALSE,
    MaxChanges <- 0, MaxFailures <- 0

\* An administrator writes a listing, and opens another user's.
Form ==
  INSTANCE ListingForm WITH
    Types <- {ta}, Mediums <- {ma}, Listings <- {1, 2}, Mine <- {1}, Admin <- TRUE,
    MaxSaves <- 2, MaxOthers <- 2, MaxFailures <- 1

\* An administrator's pages of two service types, one of which a search finds.
TypesOfTwo ==
  INSTANCE ServiceTypePages WITH
    Types <- {ta, tb}, Matching <- {ta}, Admin <- TRUE, Retries <- 0,
    MaxEdits <- 0, MaxOthers <- 0, MaxFailures <- 0

\* The same of one that is revised, and that others change.
TypesOfOne ==
  INSTANCE ServiceTypePages WITH
    Types <- {ta}, Matching <- {ta}, Admin <- TRUE, Retries <- 1,
    MaxEdits <- 1, MaxOthers <- 1, MaxFailures <- 1

MediumsOfTwo ==
  INSTANCE MediumPages WITH
    Mediums <- {ma, mb}, MaxRevisions <- 1, MaxOthers <- 0, MaxFailures <- 1

MediumsOfOne ==
  INSTANCE MediumPages WITH
    Mediums <- {ma}, MaxRevisions <- 2, MaxOthers <- 1, MaxFailures <- 1

\* The constants are what the components assume of them.
ASSUME Parameters ==
  /\ Board!ModerationAssumption /\ BoardOfTwo!ModerationAssumption
  /\ Person!SessionAssumption /\ PersonFailing!SessionAssumption /\ PersonOverlap!SessionAssumption
  /\ Organizing!OrganizationPagesAssumption
  /\ Tabs!ListingTabsAssumption /\ TabsOverlap!ListingTabsAssumption
  /\ Form!ListingFormAssumption
  /\ TypesOfTwo!ServiceTypePagesAssumption /\ TypesOfOne!ServiceTypePagesAssumption
  /\ MediumsOfTwo!MediumPagesAssumption /\ MediumsOfOne!MediumPagesAssumption

In(s) == scenario = s /\ s \in Scenarios

-----------------------------------------------------------------------------
(* Variables that a scenario does not use. *)

NoModeration ==
  /\ all = 0 /\ fetchedBy = 0 /\ administrators = 0 /\ nonAdministrators = 0 /\ mounted = 0
  /\ board = 0 /\ shared = 0 /\ bar = 0 /\ uncertain = 0 /\ changed = 0 /\ decisions = 0

NoSession ==
  /\ profile = 0 /\ standing = 0 /\ user = 0 /\ refreshing = 0 /\ error = 0 /\ agentIsAdministrator = 0
  /\ adminStatus = 0 /\ recent = 0 /\ started = 0 /\ timedOut = 0 /\ prerequisites = 0 /\ doubtful = 0

NoOrganizations ==
  /\ revision = 0 /\ members = 0 /\ coordinators = 0 /\ accepted = 0 /\ current = 0
  /\ at = 0 /\ organization = 0 /\ mayEdit = 0 /\ choices = 0 /\ fresh = 0

NoTabs == store = 0 /\ failed = 0
NoForm == listing = 0 /\ approved = 0 /\ form = 0 /\ picked = 0 /\ touched = 0 /\ call = 0
NoTypes == arrays = 0 /\ related = 0 /\ search = 0
NoMediums == tab = 0 /\ blocked = 0
NoListings == NoTabs /\ NoForm
NoEntries == NoTypes /\ NoMediums

Init ==
  \/ /\ \/ In("moderation") /\ Board!Init
        \/ In("moderation of two") /\ BoardOfTwo!Init
     /\ NoSession /\ NoOrganizations /\ NoListings /\ NoEntries
     /\ page = 0 /\ run = 0 /\ offered = 0 /\ loading = 0 /\ cache = 0
     /\ said = 0 /\ shown = 0 /\ view = 0 /\ zome = 0 /\ filled = 0
  \/ /\ \/ In("session") /\ Person!Init
        \/ In("session failing") /\ PersonFailing!Init
        \/ In("session overlap") /\ PersonOverlap!Init
     /\ NoModeration /\ NoOrganizations /\ NoListings /\ NoEntries
     /\ status = 0 /\ run = 0 /\ cache = 0 /\ said = 0 /\ shown = 0 /\ view = 0 /\ zome = 0 /\ filled = 0
  \/ /\ In("organization pages") /\ Organizing!Init
     /\ NoModeration /\ NoSession /\ NoListings /\ NoEntries
     /\ runs = 0 /\ listed = 0 /\ offered = 0 /\ loading = 0 /\ shown = 0 /\ view = 0 /\ zome = 0 /\ filled = 0
  \/ /\ \/ In("listing tabs") /\ Tabs!Init
        \/ In("listing tabs overlap") /\ TabsOverlap!Init
     /\ NoModeration /\ NoSession /\ NoOrganizations /\ NoForm /\ NoEntries
     /\ others = 0 /\ run = 0 /\ listed = 0 /\ offered = 0 /\ cache = 0
     /\ said = 0 /\ view = 0 /\ zome = 0 /\ filled = 0
  \/ /\ In("listing form") /\ Form!Init
     /\ NoModeration /\ NoSession /\ NoOrganizations /\ NoTabs /\ NoEntries
     /\ status = 0 /\ runs = 0 /\ run = 0 /\ listed = 0 /\ loading = 0
     /\ cache = 0 /\ shown = 0 /\ zome = 0 /\ filled = 0
  \/ /\ \/ In("service types of two") /\ TypesOfTwo!Init
        \/ In("service types of one") /\ TypesOfOne!Init
     /\ NoModeration /\ NoSession /\ NoOrganizations /\ NoListings /\ NoMediums
     /\ status = 0 /\ runs = 0 /\ listed = 0 /\ offered = 0 /\ loading = 0 /\ said = 0 /\ shown = 0
  \/ /\ \/ In("mediums of two") /\ MediumsOfTwo!Init
        \/ In("mediums of one") /\ MediumsOfOne!Init
     /\ NoModeration /\ NoSession /\ NoOrganizations /\ NoListings /\ NoTypes
     /\ status = 0 /\ runs = 0 /\ listed = 0 /\ offered = 0 /\ loading = 0 /\ cache = 0 /\ said = 0 /\ view = 0

ModerationStep ==
  /\ \/ In("moderation") /\ Board!Next
     \/ In("moderation of two") /\ BoardOfTwo!Next
  /\ UNCHANGED <<session, organizations, tabs, listings, types, mediums>>
  /\ UNCHANGED <<page, run, offered, loading, cache, said, shown, view, zome, filled>>

SessionStep ==
  /\ \/ In("session") /\ Person!Next
     \/ In("session failing") /\ PersonFailing!Next
     \/ In("session overlap") /\ PersonOverlap!Next
  /\ UNCHANGED <<moderation, organizations, tabs, listings, types, mediums>>
  /\ UNCHANGED <<status, run, cache, said, shown, view, zome, filled>>

OrganizationsStep ==
  /\ In("organization pages") /\ Organizing!Next
  /\ UNCHANGED <<moderation, session, tabs, listings, types, mediums>>
  /\ UNCHANGED <<runs, listed, offered, loading, shown, view, zome, filled>>

TabsStep ==
  /\ \/ In("listing tabs") /\ Tabs!Next
     \/ In("listing tabs overlap") /\ TabsOverlap!Next
  /\ UNCHANGED <<moderation, session, organizations, listings, types, mediums>>
  /\ UNCHANGED <<others, run, listed, offered, cache, said, view, zome, filled>>

FormStep ==
  /\ In("listing form") /\ Form!Next
  /\ UNCHANGED <<moderation, session, organizations, tabs, types, mediums>>
  /\ UNCHANGED <<status, runs, run, listed, loading, cache, shown, zome, filled>>

TypesStep ==
  /\ \/ In("service types of two") /\ TypesOfTwo!Next
     \/ In("service types of one") /\ TypesOfOne!Next
  /\ UNCHANGED <<moderation, session, organizations, tabs, listings, mediums>>
  /\ UNCHANGED <<status, runs, listed, offered, loading, said, shown>>

MediumsStep ==
  /\ \/ In("mediums of two") /\ MediumsOfTwo!Next
     \/ In("mediums of one") /\ MediumsOfOne!Next
  /\ UNCHANGED <<moderation, session, organizations, tabs, listings, types>>
  /\ UNCHANGED <<status, runs, listed, offered, loading, cache, said, view>>

Next ==
  /\ \/ ModerationStep \/ SessionStep \/ OrganizationsStep \/ TabsStep
     \/ FormStep \/ TypesStep \/ MediumsStep
  /\ UNCHANGED scenario

Spec == Init /\ [][Next]_vars

-----------------------------------------------------------------------------
(* Properties: those of the pages, each in the scenarios it is about. *)

\* Type invariant.
TypeOK ==
  /\ In("moderation") => Board!TypeOK
  /\ In("moderation of two") => BoardOfTwo!TypeOK
  /\ In("session") => Person!TypeOK
  /\ In("session failing") => PersonFailing!TypeOK
  /\ In("session overlap") => PersonOverlap!TypeOK
  /\ In("organization pages") => Organizing!TypeOK
  /\ In("listing tabs") => Tabs!TypeOK
  /\ In("listing tabs overlap") => TabsOverlap!TypeOK
  /\ In("listing form") => Form!TypeOK
  /\ In("service types of two") => TypesOfTwo!TypeOK
  /\ In("service types of one") => TypesOfOne!TypeOK
  /\ In("mediums of two") => MediumsOfTwo!TypeOK
  /\ In("mediums of one") => MediumsOfOne!TypeOK

\* What a page shows of statuses, of the person, of an organization, of listings, of
\* service types and of mediums is what the zomes hold, to a person who waits and
\* unless a call failed or another acted meanwhile; and whatever overlaps, nothing
\* active is shown as archived, and nobody who has a profile is taken for new
\* (routes/admin/+page.svelte:62-185, users.store.svelte.ts:294-412,
\* organizations/[id]/+page.svelte:86-142, MyListings.svelte:60-110).
ShownAsItIs ==
  /\ In("moderation") => Board!StatusesShown
  /\ In("moderation of two") => BoardOfTwo!StatusesShown
  /\ In("session") => Person!CurrentUserIsWhatIs /\ Person!MissingMeansNone
  /\ In("session failing") => PersonFailing!CurrentUserIsWhatIs /\ PersonFailing!MissingMeansNone
  /\ In("session overlap") => PersonOverlap!MissingMeansNone
  /\ In("organization pages") => Organizing!ShownAsItIs
  /\ In("listing tabs") => Tabs!PagesShowTheirOwn /\ Tabs!ArchivedUnderArchived
  /\ In("listing tabs overlap") => TabsOverlap!ArchivedUnderArchived
  /\ In("service types of two") => TypesOfTwo!ListsTheApproved
  /\ In("service types of one") => TypesOfOne!ListsTheApproved
  /\ In("mediums of two") => MediumsOfTwo!ListIsWhatIs
  /\ In("mediums of one") => MediumsOfOne!ListIsWhatIs

\* What a page offers can be done: nobody who is an administrator is offered to
\* become one, but for those just added; an organization is offered for a listing
\* exactly to its members while it is accepted; the form of a listing offers what
\* may be chosen; and a decision on a service type succeeds
\* (administration.store.svelte.ts:507-530, RequestForm.svelte:126-143,
\* OfferForm.svelte:110-127, ServiceTypesTable.svelte:80-140).
OfferedRightly ==
  /\ In("moderation") => Board!AdministratorsShown
  /\ In("moderation of two") => BoardOfTwo!AdministratorsShown
  /\ In("organization pages") => Organizing!OfferedToMembers
  /\ In("listing form") => Form!OfferedIsAllowed
  /\ In("service types of two") => TypesOfTwo!OfferedSucceeds
  /\ In("service types of one") => TypesOfOne!OfferedSucceeds

\* The form of a listing sends what it shows, and what the user did not touch is
\* sent as it was (ServiceTypeSelector.svelte:60-130,
\* MediumOfExchangeSelector.svelte:60-130, RequestForm.svelte:150-300).
SentAsShown == [][In("listing form") => Form!ShownIsSent /\ Form!UntouchedIsKept]_vars

\* What a person sees of their own profile is never replaced by an older revision,
\* and a form that suggests a service type or a medium loses what was written only
\* once it is saved or left (users.store.svelte.ts:329-396,
\* useServiceTypeFormManagement.svelte.ts:108-140).
NothingLost ==
  [][/\ In("session") => Person!ProfileNeverOlder
     /\ In("session failing") => PersonFailing!ProfileNeverOlder
     /\ In("service types of two") => TypesOfTwo!FailedIsKept
     /\ In("service types of one") => TypesOfOne!FailedIsKept
     /\ In("mediums of two") => MediumsOfTwo!FailedIsKept
     /\ In("mediums of one") => MediumsOfOne!FailedIsKept]_vars

\* What OrganizationMembersTable.svelte:151 says, "Member removed successfully"; the
\* code removes nobody.
RemovedMeansGone == [][In("organization pages") => Organizing!RemovedMeansGone]_vars

\* What routes/my-listings/+page.svelte:57 says, "Manage your requests and offers";
\* the code shows the listings of others there.
MineAreMine == In("listing tabs") => Tabs!MineAreMine
=============================================================================
