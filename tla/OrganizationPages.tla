-------------------------- MODULE OrganizationPages --------------------------
(***************************************************************************)
(* One person at the pages of one organization: organizations.store.svelte *)
(* .ts with its array and its cache, the page of the organization, the     *)
(* forms, the modals that add people, and the pages that choose the        *)
(* organization of a listing.  The zome (Organizations) is a register here.*)
(*                                                                         *)
(* A hash is the number of a revision: 1 is the original, which is what    *)
(* the zome knows the organization by.  The store takes the hash of the    *)
(* record it read for the one of the original.  The person waits for each  *)
(* call; others act between its steps.                                     *)
(***************************************************************************)
EXTENDS Naturals, FiniteSets

CONSTANTS
  People, me,    \* all are accepted users
  MaxRevisions,  \* bound: revisions of the organization
  MaxOthers,     \* bound: changes made by others
  MaxFailures    \* bound: calls that fail

OrganizationPagesAssumption ==
  /\ me \in People
  /\ MaxRevisions \in Nat \ {0}
  /\ MaxOthers \in Nat
  /\ MaxFailures \in Nat

VARIABLES
  revision, members, coordinators, status,  \* in the zomes; revision 0: there is none
  accepted,      \* the array of the store: a view for each hash, or Absent
  cache,         \* of the store: the same
  current,       \* currentOrganization of the store
  page, at,      \* the page, and the hash in its address
  organization,  \* the copy of the page
  mayEdit,       \* agentIsCoordinator of the page
  choices,       \* userCoordinatedOrganizations of the form of a listing
  run,           \* the call under way
  said,          \* the last success the person was told of
  fresh,         \* history: nothing changed since the page began to load
  others, failures    \* bounds

pagesVars ==
  <<revision, members, coordinators, status, accepted, cache, current, page, at,
    organization, mayEdit, choices, run, said, fresh, others, failures>>

Zomes == <<revision, members, coordinators, status>>
Store == <<accepted, cache, current>>
Shown == <<page, at, organization, mayEdit, choices>>
Bounds == <<others, failures>>

Hashes == 1 .. MaxRevisions
Statuses == {"none", "pending", "accepted"}
View(h, ms, cs, s) == [hash |-> h, members |-> ms, coordinators |-> cs, status |-> s]
Absent == View(0, {}, {}, "none")
Views == [hash : 0 .. MaxRevisions, members : SUBSET People, coordinators : SUBSET People, status : Statuses]

Run(op, hash, stage) == [op |-> op, hash |-> hash, stage |-> stage, answer |-> Absent]
NoRun == Run("none", 0, "none")
Nothing == [what |-> "nothing", who |-> me]

Init ==
  /\ \/ revision = 0 /\ members = {} /\ coordinators = {} /\ status = "none"
     \/ /\ revision = 1
        /\ members = People /\ coordinators \in {{p} : p \in People}
        /\ status = "accepted"
  /\ accepted = [h \in Hashes |-> Absent] /\ cache = accepted
  /\ current = Absent
  /\ page = "list" /\ at = 0 /\ organization = Absent /\ mayEdit = FALSE /\ choices = {}
  /\ run = NoRun /\ said = Nothing
  /\ fresh = FALSE
  /\ others = 0 /\ failures = 0

-----------------------------------------------------------------------------
(* What the zomes answer for a hash. *)

MembersOf(h) == IF h = 1 THEN members ELSE {}
CoordinatorsOf(h) == IF h = 1 THEN coordinators ELSE {}
StatusOf(h) == IF h = 1 THEN status ELSE "none"
LatestOf(h) == IF h = 1 THEN revision ELSE h

At(op, stage) == run.op = op /\ run.stage = stage
Acts == run = NoRun
To(stage) == run' = [run EXCEPT !.stage = stage]
Failing == failures < MaxFailures /\ failures' = failures + 1 /\ UNCHANGED others

-----------------------------------------------------------------------------
(* The pages load. *)

\* A page opened: what it holds is new, and it asks.
Open(p, h, op, stage) ==
  /\ page' = p /\ at' = h
  /\ organization' = Absent /\ mayEdit' = FALSE /\ choices' = {}
  /\ run' = Run(op, h, stage)
  /\ fresh' = TRUE

VisitOrganization ==
  /\ Acts /\ revision # 0
  /\ \E h \in {1} \cup {i \in Hashes : accepted[i] # Absent} : Open("organization", h, "show", "record")
  /\ UNCHANGED <<Zomes, Store, said, Bounds>>

\* The button of the page of the organization
VisitEdit ==
  /\ Acts /\ page = "organization" /\ mayEdit
  /\ Open("edit", at, "edit", "record")
  /\ UNCHANGED <<Zomes, Store, said, Bounds>>

VisitCreate ==
  /\ Acts /\ revision = 0
  /\ Open("create", 0, "none", "none")
  /\ UNCHANGED <<Zomes, Store, said, Bounds>>

\* The list asks for what is accepted; the form of a listing, and a profile, for
\* the organizations of the person.
VisitList ==
  /\ Acts
  /\ Open("list", 0, "accepted", "links")
  /\ UNCHANGED <<Zomes, Store, said, Bounds>>

VisitListing ==
  /\ Acts
  /\ Open("listing", 0, "mine", "links")
  /\ UNCHANGED <<Zomes, Store, said, Bounds>>

-----------------------------------------------------------------------------
(* getLatestOrganization, in the calls that contain it. *)

ReadRecord ==
  /\ run.stage = "record"
  /\ run' = [run EXCEPT !.stage = "people", !.answer.hash = LatestOf(run.hash)]
  /\ UNCHANGED <<Zomes, Store, Shown, said, fresh, Bounds>>

\* createEnhancedUIOrganization; without an answer there is no status.
ReadPeople ==
  \/ /\ run.stage = "people"
     /\ run' = [run EXCEPT !.stage = "status",
                           !.answer.members = MembersOf(run.hash),
                           !.answer.coordinators = CoordinatorsOf(run.hash)]
     /\ UNCHANGED <<Zomes, Store, Shown, said, fresh, Bounds>>
  \/ /\ run.stage = "status"
     /\ \/ run' = [run EXCEPT !.stage = "read", !.answer.status = StatusOf(run.hash)]
           /\ UNCHANGED <<fresh, Bounds>>
        \/ Failing /\ To("read") /\ fresh' = FALSE
     /\ UNCHANGED <<Zomes, Store, Shown, said>>

\* cache.set, and syncCacheToState
Kept(h, v) ==
  /\ cache' = [cache EXCEPT ![h] = v]
  /\ accepted' = [accepted EXCEPT ![v.hash] = v]

Answer == run.answer

AskCoordinator(v) == [run EXCEPT !.stage = "coordinator", !.hash = v.hash]

\* The page shows it, makes it the current one, and asks whether the person is a
\* coordinator; the form of a revision holds it; the modal that added someone
\* leaves the page as it is.
Loaded ==
  /\ run.stage = "read"
  /\ run.op \in {"show", "edit", "added", "update"}
  /\ Kept(run.hash, Answer)
  /\ CASE run.op = "show" ->
            /\ organization' = Answer /\ current' = Answer
            /\ run' = AskCoordinator(Answer)
            /\ UNCHANGED <<page, at, mayEdit, choices, fresh>>
       [] run.op = "edit" ->
            /\ organization' = Answer
            /\ run' = NoRun
            /\ UNCHANGED <<current, page, at, mayEdit, choices, fresh>>
       [] run.op = "added" ->
            /\ run' = NoRun
            /\ UNCHANGED <<current, Shown, fresh>>
       [] run.op = "update" ->
            /\ Open("organization", at, "show", "record")
            /\ UNCHANGED current
  /\ said' = IF run.op = "update" THEN [what |-> "updated", who |-> me] ELSE said
  /\ UNCHANGED <<Zomes, Bounds>>

IsCoordinator ==
  /\ run.stage = "coordinator"
  /\ mayEdit' = (me \in CoordinatorsOf(run.hash))
  /\ run' = NoRun
  /\ UNCHANGED <<Zomes, Store, page, at, organization, choices, said, fresh, Bounds>>

\* getAcceptedOrganizations and getUserOrganizations
AskLinks ==
  /\ run.stage = "links"
  /\ IF \/ run.op = "accepted" /\ status = "accepted"
        \/ run.op = "mine" /\ me \in members
       THEN run' = [run EXCEPT !.stage = "record", !.hash = 1]
       ELSE To("read")
  /\ UNCHANGED <<Zomes, Store, Shown, said, fresh, Bounds>>

\* What was fetched takes the place of the array.
Replaced(v) == accepted' = [h \in Hashes |-> IF h = v.hash THEN v ELSE Absent]

\* Fault: whatever the status is.
WhateverStatus(v) == {v} \ {Absent}

\* The form of a listing keeps what is accepted of the answer it gets.
OnlyAccepted(v) == IF v.status = "accepted" THEN {v} ELSE {}

Fetched ==
  /\ run.stage = "read"
  /\ run.op \in {"accepted", "mine"}
  /\ Replaced(run.answer)
  /\ cache' = IF run.answer = Absent THEN cache
              ELSE [cache EXCEPT ![1] = run.answer, ![run.answer.hash] = run.answer]
  /\ choices' = IF run.op = "mine" THEN OnlyAccepted(run.answer) ELSE choices
  /\ run' = NoRun
  /\ UNCHANGED <<Zomes, current, page, at, organization, mayEdit, said, fresh, Bounds>>

\* What fails shows an error, and what a page held is gone.
LoadFails ==
  /\ run.stage \in {"links", "record", "people"}
  /\ Failing
  /\ organization' = IF run.op \in {"added", "update"} THEN organization ELSE Absent
  /\ run' = NoRun /\ fresh' = FALSE
  /\ UNCHANGED <<Zomes, Store, page, at, mayEdit, choices, said>>

CacheExpires ==
  /\ \E h \in Hashes : cache[h] # Absent /\ cache' = [cache EXCEPT ![h] = Absent]
  /\ UNCHANGED <<Zomes, accepted, current, Shown, run, said, fresh, Bounds>>

-----------------------------------------------------------------------------
(* What the person does. *)

\* The store adds it without people or a status; its page loads it.
CreateOrganization ==
  \/ /\ Acts /\ page = "create" /\ revision = 0
     /\ revision' = 1 /\ members' = {me} /\ coordinators' = {me} /\ status' = "pending"
     /\ run' = Run("create", 1, "created")
     /\ UNCHANGED <<Store, Shown, said, fresh, Bounds>>
  \/ /\ At("create", "created")
     /\ Kept(1, View(1, {}, {}, "none"))
     /\ Open("organization", 1, "show", "record")
     /\ UNCHANGED <<Zomes, current, said, Bounds>>

\* updateOrganization: what is revised is what the cache holds, under the hash
\* the store took for the one of the original.
SubmitEdit ==
  \/ /\ Acts /\ page = "edit" /\ organization # Absent
     /\ run' = IF cache[at] # Absent THEN [Run("update", at, "send") EXCEPT !.answer = cache[at]]
               ELSE Run("refetch", at, "record")
     /\ UNCHANGED <<Zomes, Store, Shown, said, fresh, Bounds>>
  \/ /\ At("refetch", "read")
     /\ Kept(run.hash, run.answer)
     /\ run' = [run EXCEPT !.op = "update", !.stage = "send"]
     /\ UNCHANGED <<Zomes, current, Shown, said, fresh, Bounds>>

UpdateInZome ==
  /\ At("update", "send")
  /\ IF me \in CoordinatorsOf(run.answer.hash) /\ revision < MaxRevisions
       THEN /\ revision' = revision + 1
            /\ run' = Run("update", run.hash, "record")
       ELSE run' = NoRun /\ UNCHANGED revision
  /\ UNCHANGED <<members, coordinators, status, Store, Shown, said, fresh, Bounds>>

\* Those the modals offer: who the page does not know as one already.
Offered(role) == People \ (IF role = "member" THEN organization.members ELSE current.coordinators)

\* What the page of the organization offers: to coordinate it, once it is accepted,
\* to leave it, and to make a listing of it.
Manages ==
  Acts /\ page = "organization" /\ mayEdit /\ organization.status = "accepted"

LeaveOffered == Acts /\ page = "organization" /\ ~mayEdit /\ me \in organization.members

ListingOffered ==
  page = "organization" /\ organization.status = "accepted" /\ (mayEdit \/ me \in organization.members)

\* The tables show the people of the current organization.  To a coordinator they
\* offer to remove each, but for the last coordinator.
MembersShown == current.members \ current.coordinators
CoordinatorsShown == current.coordinators

Removing == Acts /\ page = "organization" /\ mayEdit
RemovableMembers == IF Removing THEN MembersShown ELSE {}
RemovableCoordinators == IF Removing /\ Cardinality(CoordinatorsShown) > 1 THEN CoordinatorsShown ELSE {}

Refuses(role, p) ==
  \/ me \notin CoordinatorsOf(organization.hash)
  \/ status # "accepted"
  \/ p \in IF role = "member" THEN members ELSE coordinators

\* Added, and the store reads the organization again under the hash the page has.
Add(role) ==
  /\ Manages
  /\ \E p \in Offered(role) :
       /\ ~Refuses(role, p)
       /\ members' = members \cup {p}
       /\ coordinators' = IF role = "coordinator" THEN coordinators \cup {p} ELSE coordinators
       /\ said' = [what |-> role, who |-> p]
  /\ cache' = [cache EXCEPT ![organization.hash] = Absent]
  /\ run' = Run("added", organization.hash, "record")
  /\ fresh' = FALSE
  /\ UNCHANGED <<revision, status, accepted, current, Shown, Bounds>>

\* handleRemoveMember, handleRemoveCoordinator and handleDeleteOrganization await
\* an effect that is not run, and go on as after a success.
SayRemoved ==
  /\ \E p \in RemovableMembers : said' = [what |-> "member removed", who |-> p]
  /\ UNCHANGED <<Zomes, Store, Shown, run, fresh, Bounds>>

SayCoordinatorRemoved ==
  /\ \E p \in RemovableCoordinators : said' = [what |-> "coordinator removed", who |-> p]
  /\ UNCHANGED <<Zomes, Store, Shown, run, fresh, Bounds>>

SayDeleted ==
  /\ Acts /\ page = "edit" /\ organization # Absent
  /\ said' = [what |-> "deleted", who |-> me]
  /\ Open("list", 0, "accepted", "links")
  /\ UNCHANGED <<Zomes, Store, Bounds>>

\* Who leaves as the last member would have to delete it, and may not.
LeaveOrganization ==
  /\ LeaveOffered
  /\ me \in MembersOf(at) /\ members # {me}
  /\ me \in coordinators => coordinators # {me} /\ status = "accepted"
  /\ members' = members \ {me} /\ coordinators' = coordinators \ {me}
  /\ cache' = [cache EXCEPT ![at] = Absent]
  /\ accepted' = [accepted EXCEPT ![at] = Absent]
  /\ said' = [what |-> "left", who |-> me]
  /\ Open("list", 0, "accepted", "links")
  /\ UNCHANGED <<revision, status, current, Bounds>>

-----------------------------------------------------------------------------
(* Others. *)

OthersAct ==
  /\ revision # 0
  /\ others < MaxOthers
  /\ others' = others + 1
  /\ fresh' = FALSE
  /\ \/ status' \in {"pending", "accepted"} \ {status} /\ UNCHANGED <<revision, members, coordinators>>
     \/ /\ coordinators \ {me} # {} /\ status = "accepted"
        /\ \/ members' = members \cup {me} /\ coordinators' \in {coordinators, coordinators \cup {me}}
           \/ coordinators' = coordinators \ {me} /\ members' \in {members, members \ {me}}
        /\ UNCHANGED <<revision, status>>
     \/ /\ coordinators \ {me} # {} /\ revision < MaxRevisions
        /\ revision' = revision + 1
        /\ UNCHANGED <<members, coordinators, status>>
  /\ UNCHANGED <<Store, Shown, run, said, failures>>

Next ==
  \/ VisitOrganization \/ VisitEdit \/ VisitCreate \/ VisitList \/ VisitListing
  \/ ReadRecord \/ ReadPeople \/ Loaded \/ IsCoordinator \/ AskLinks \/ Fetched
  \/ LoadFails \/ CacheExpires
  \/ CreateOrganization \/ SubmitEdit \/ UpdateInZome
  \/ Add("member") \/ Add("coordinator") \/ SayRemoved \/ SayCoordinatorRemoved \/ SayDeleted \/ LeaveOrganization
  \/ OthersAct

Spec == Init /\ [][Next]_pagesVars

-----------------------------------------------------------------------------
(* Properties. *)

\* Type invariant.
TypeOK ==
  /\ revision \in 0 .. MaxRevisions /\ status \in Statuses
  /\ members \subseteq People /\ coordinators \subseteq People
  /\ accepted \in [Hashes -> Views] /\ cache \in [Hashes -> Views]
  /\ current \in Views /\ organization \in Views /\ choices \subseteq Views
  /\ mayEdit \in BOOLEAN /\ fresh \in BOOLEAN
  /\ others \in 0 .. MaxOthers /\ failures \in 0 .. MaxFailures

\* The page of an organization, opened under its original hash and loaded without
\* a change or a failure meanwhile, shows its latest revision, its people and its
\* status, offers a listing of it to its members once it is accepted; and as long as
\* it was never revised, the person may edit it exactly if they coordinate it
\* (organizations/[id]/+page.svelte:86-142, 419, OrganizationMembersTable.svelte:41).
ShownAsItIs ==
  (page = "organization" /\ at = 1 /\ Acts /\ fresh) =>
    /\ organization = View(revision, members, coordinators, status)
    /\ MembersShown = members \ coordinators /\ CoordinatorsShown = coordinators
    /\ mayEdit => me \in coordinators
    /\ revision = 1 => (mayEdit <=> me \in coordinators)
    /\ ListingOffered <=> me \in members /\ status = "accepted"

\* The form of a listing, loaded without a change or a failure meanwhile, offers an
\* organization exactly to its members while it is accepted, as its latest revision
\* (RequestForm.svelte:126-143, OfferForm.svelte:110-127,
\* organizations.store.svelte.ts:608-640).
OfferedToMembers ==
  (page = "listing" /\ Acts /\ fresh) =>
    choices = IF me \in members /\ status = "accepted"
              THEN {View(revision, members, coordinators, status)}
              ELSE {}

\* What the pages say of a removal (OrganizationMembersTable.svelte:151 "Member
\* removed successfully"): when it is said, who was removed is no member any more.
RemovedMeansGone ==
  (said' # said /\ said'.what = "member removed") => said'.who \notin members'
=============================================================================
