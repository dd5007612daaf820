------------------------------- MODULE Session -------------------------------
(***************************************************************************)
(* The session of one person in the browser: the start of the page         *)
(* (routes/+layout.svelte), their own profile in users.store.svelte.ts,    *)
(* whether they are an administrator (adminStatus.service.svelte.ts), and  *)
(* the guards of the pages that read both (ProfileGuard.svelte,            *)
(* usePrerequisitesGuard.svelte.ts).                                       *)
(*                                                                         *)
(* The profile is the number of its latest revision, 0 if there is none.   *)
(* Administrators change its status and the list of administrators         *)
(* meanwhile, and what is asked of the zomes may fail or lose its answer.  *)
(***************************************************************************)
EXTENDS Naturals, FiniteSets

CONSTANTS
  Callers,       \* calls that can be under way at once
  MaxRevisions,  \* bound: revisions of the profile
  MaxOthers,     \* bound: changes made by others
  MaxFailures,   \* bound: calls that fail
  Waits          \* whether the person waits for what a page does

SessionAssumption ==
  /\ MaxRevisions \in Nat \ {0}
  /\ MaxOthers \in Nat
  /\ MaxFailures \in Nat
  /\ Waits \in BOOLEAN

VARIABLES
  profile, standing,     \* in the zomes: latest revision, status
  listed,                \* in the zomes: whether they are an administrator
  offered,               \* in the zomes: what is approved to choose from
  user,                  \* currentUser of the store
  refreshing, loading, error,    \* flags of the store
  agentIsAdministrator,  \* of the administration store
  adminStatus, recent,   \* of the admin status service; checked within thirty seconds
  started,               \* how far the start of the page has come
  page,                  \* the page that is shown
  timedOut,              \* of ProfileGuard
  prerequisites,         \* of the prerequisites guard
  runs,                  \* the calls under way
  doubtful,              \* history: something changed or failed since the last refresh began
  others, failures       \* bounds

sessionVars ==
  <<profile, standing, listed, offered, user, refreshing, loading, error, agentIsAdministrator,
    adminStatus, recent, started, page, timedOut, prerequisites, runs, doubtful, others, failures>>

Zomes == <<profile, standing, listed, offered>>
UsersStore == <<user, refreshing, loading, error>>
Admin == <<agentIsAdministrator, adminStatus, recent>>
Shown == <<page, timedOut, prerequisites>>
Bounds == <<others, failures>>

Standings == {"none", "pending", "accepted", "suspended"}
Choices == {"types", "mediums"}
NoUser == [revision |-> 0, status |-> "none"]

Run(op, stage) == [op |-> op, stage |-> stage, revision |-> 0, status |-> "none", seen |-> {}]
NoRun == Run("none", "none")

Init ==
  /\ \/ profile = 0 /\ standing = "none"
     \/ profile = 1 /\ standing \in {"pending", "accepted"}
  /\ listed \in BOOLEAN
  /\ offered \in {{}, Choices}
  /\ user = NoUser
  /\ refreshing = FALSE /\ loading = FALSE /\ error = FALSE
  /\ agentIsAdministrator = FALSE
  /\ adminStatus = "unknown" /\ recent = FALSE
  /\ started = "pending"
  /\ page = "home"
  /\ timedOut = FALSE
  /\ prerequisites = "unchecked"
  /\ runs = [c \in Callers |-> NoRun]
  /\ doubtful = TRUE
  /\ others = 0 /\ failures = 0

-----------------------------------------------------------------------------
(* Calls. *)

Idle(c) == runs[c] = NoRun
At(c, op, stage) == runs[c].op = op /\ runs[c].stage = stage
Put(c, r) == runs' = [runs EXCEPT ![c] = r]
To(c, stage) == runs' = [runs EXCEPT ![c].stage = stage]

\* A start that failed is passed over when the connection comes after all.
InPages == started \in {"complete", "late"}

\* What the person starts: the pages are shown, and nothing they wait for is
\* under way.  The checks of the administrator go on behind them.
Behind == {"none", "verify", "late"}
Acts(c) ==
  /\ Idle(c) /\ InPages
  /\ Waits => \A d \in Callers : runs[d].op \in Behind

\* withLoadingState
Load == loading' = TRUE /\ error' = FALSE
Loaded == loading' = FALSE /\ UNCHANGED error
LoadFailed == loading' = FALSE /\ error' = TRUE

Failing == failures < MaxFailures /\ failures' = failures + 1 /\ UNCHANGED others

-----------------------------------------------------------------------------
(* The current user. *)

\* A refresh that finds another under way answers at once, and clears the flag of
\* the other.
RefreshCurrentUser(c, kept) ==
  IF refreshing
    THEN /\ refreshing' = FALSE
         /\ Put(c, NoRun)
         /\ UNCHANGED <<loading, error, doubtful>>
    ELSE /\ refreshing' = TRUE
         /\ Put(c, Run("refresh", "links"))
         /\ Load
         /\ doubtful' = kept

\* The links of the agent: without one there is no user, and the one held is kept.
FindUser(c) ==
  /\ At(c, "refresh", "links")
  /\ IF profile = 0
       THEN Put(c, NoRun) /\ Loaded /\ refreshing' = FALSE
       ELSE To(c, "record") /\ Load /\ UNCHANGED refreshing
  /\ UNCHANGED <<Zomes, user, Admin, started, Shown, doubtful, Bounds>>

LatestRecord == profile

GetLatestUser(c) ==
  \/ /\ At(c, "refresh", "record")
     /\ runs' = [runs EXCEPT ![c].stage = "status", ![c].revision = LatestRecord]
     /\ UNCHANGED <<Zomes, UsersStore, Admin, started, Shown, doubtful, Bounds>>
  \/ \* its status; the inner call clears the flag of the outer one
     /\ At(c, "refresh", "status")
     /\ To(c, "again")
     /\ Loaded
     /\ UNCHANGED <<Zomes, user, refreshing, Admin, started, Shown, doubtful, Bounds>>
  \/ \* the status is asked for again
     /\ At(c, "refresh", "again")
     /\ runs' = [runs EXCEPT ![c].stage = "answered", ![c].status = standing]
     /\ UNCHANGED <<Zomes, UsersStore, Admin, started, Shown, doubtful, Bounds>>

SetUser(c) == user' = [revision |-> runs[c].revision, status |-> runs[c].status]

Refreshed(c) ==
  /\ At(c, "refresh", "answered")
  /\ SetUser(c)
  /\ Loaded /\ refreshing' = FALSE
  /\ Put(c, NoRun)
  /\ UNCHANGED <<Zomes, Admin, started, Shown, doubtful, Bounds>>

RefreshFails(c) ==
  /\ runs[c].op = "refresh" /\ runs[c].stage # "answered"
  /\ Failing
  /\ LoadFailed /\ refreshing' = FALSE
  /\ Put(c, NoRun)
  /\ doubtful' = TRUE
  /\ UNCHANGED <<Zomes, user, Admin, started, Shown>>

\* The profile page refreshes when it is shown, whatever its user came from.
ShowUser(c) ==
  /\ IF page = "leaving" THEN Idle(c) ELSE Acts(c)
  /\ page' = "user"
  /\ RefreshCurrentUser(c, FALSE)
  /\ UNCHANGED <<Zomes, user, Admin, started, timedOut, prerequisites, Bounds>>

-----------------------------------------------------------------------------
(* Creation and revision of the profile. *)

Visit(p) ==
  /\ InPages
  /\ page # "leaving"
  /\ Waits => \A d \in Callers : runs[d].op \in Behind
  /\ page' = p
  /\ timedOut' = FALSE
  /\ prerequisites' = "unchecked"
  /\ UNCHANGED <<Zomes, UsersStore, Admin, started, runs, doubtful, Bounds>>

\* The form of a new profile is left at once by someone who has one.
VisitCreate == user = NoUser /\ Visit("create")
VisitEdit == user # NoUser /\ Visit("edit")

Submit(c, op) ==
  /\ Acts(c)
  /\ page = op
  /\ \A d \in Callers : runs[d].op # op
  /\ Put(c, Run(op, "sent"))
  /\ Load
  /\ UNCHANGED <<Zomes, user, refreshing, Admin, started, Shown, doubtful, Bounds>>

\* The zome keeps one profile per agent, and gives it a status.
CreateInZome(c) ==
  /\ At(c, "create", "sent")
  /\ profile = 0
  /\ profile' = 1 /\ standing' = "pending"
  /\ To(c, "done")
  /\ doubtful' = TRUE
  /\ UNCHANGED <<listed, offered, UsersStore, Admin, started, Shown, Bounds>>

\* The new user has no status yet; the page refreshes, and is left for the
\* profile page, which refreshes too.
UserCreated(c) ==
  /\ At(c, "create", "done")
  /\ user' = [revision |-> 1, status |-> "none"]
  /\ page' = "leaving"
  /\ RefreshCurrentUser(c, FALSE)
  /\ UNCHANGED <<Zomes, Admin, started, timedOut, prerequisites, Bounds>>

UpdateInZome(c) ==
  /\ At(c, "edit", "sent")
  /\ profile < MaxRevisions
  /\ profile' = profile + 1
  /\ runs' = [runs EXCEPT ![c].stage = "done", ![c].revision = profile + 1]
  /\ UNCHANGED <<standing, listed, offered, UsersStore, Admin, started, Shown, doubtful, Bounds>>

\* The status is the one that was held.
UpdateCurrentUser(c) ==
  /\ At(c, "edit", "done")
  /\ user' = [user EXCEPT !.revision = runs[c].revision]
  /\ page' = "leaving"
  /\ Loaded
  /\ Put(c, NoRun)
  /\ UNCHANGED <<Zomes, refreshing, Admin, started, timedOut, prerequisites, doubtful, Bounds>>

\* A creation that fails keeps its form.  A revision that fails answers null, which
\* the page takes for success.
SubmitFails(c) ==
  /\ runs[c].op \in {"create", "edit"}
  /\ \/ At(c, "create", "sent") /\ profile # 0 /\ UNCHANGED Bounds
     \/ Failing
  /\ doubtful' = TRUE
  /\ IF runs[c].op = "create"
       THEN LoadFailed /\ UNCHANGED page
       ELSE Loaded /\ page' = "leaving"
  /\ Put(c, NoRun)
  /\ UNCHANGED <<Zomes, user, refreshing, Admin, started, timedOut, prerequisites>>

\* Other calls of the store: lists of users, and users of listings.
FetchUsers(c) ==
  \/ /\ Acts(c)
     /\ Put(c, Run("fetch", "sent"))
     /\ Load
     /\ UNCHANGED <<Zomes, user, refreshing, Admin, started, Shown, doubtful, Bounds>>
  \/ /\ At(c, "fetch", "sent")
     /\ \/ Loaded /\ UNCHANGED <<Bounds, doubtful>>
        \/ Failing /\ LoadFailed /\ doubtful' = TRUE
     /\ Put(c, NoRun)
     /\ UNCHANGED <<Zomes, user, refreshing, Admin, started, Shown>>

-----------------------------------------------------------------------------
(* Administrator or not. *)

Checking(c) == runs[c].op \in {"verify", "late"}

\* ensureAdminStatusChecked, of the layout and of the home page, each with a timer
\* of its own: one does not know of the other's check.
EnsureAdminStatusChecked(c) ==
  /\ Idle(c)
  /\ ~(recent /\ adminStatus \in {"admin", "non-admin"})
  /\ adminStatus' = "checking"
  /\ Put(c, Run("verify", "first"))
  /\ UNCHANGED <<Zomes, UsersStore, agentIsAdministrator, recent, started, Shown, doubtful, Bounds>>

CheckIfAgentIsAdministrator(c) ==
  /\ Checking(c) /\ runs[c].stage # "pausing"
  /\ agentIsAdministrator' = listed
  /\ IF runs[c].op = "verify"
       THEN adminStatus' = (IF listed THEN "admin" ELSE "non-admin") /\ recent' = TRUE
       ELSE UNCHANGED <<adminStatus, recent>>
  /\ Put(c, NoRun)
  /\ UNCHANGED <<Zomes, UsersStore, started, Shown, doubtful, Bounds>>

\* It is tried once more, after a pause.
CheckFails(c) ==
  /\ Checking(c) /\ runs[c].stage # "pausing"
  /\ Failing
  /\ IF At(c, "verify", "first")
       THEN To(c, "pausing") /\ UNCHANGED adminStatus
       ELSE /\ adminStatus' = IF runs[c].op = "verify" THEN "error" ELSE adminStatus
            /\ Put(c, NoRun)
  /\ UNCHANGED <<Zomes, UsersStore, agentIsAdministrator, recent, started, Shown, doubtful>>

CheckAgain(c) ==
  /\ At(c, "verify", "pausing")
  /\ To(c, "second")
  /\ adminStatus' = "checking"
  /\ UNCHANGED <<Zomes, UsersStore, agentIsAdministrator, recent, started, Shown, doubtful, Bounds>>

\* Fault: the check is given up without a word.
GiveUpQuietly(c) == adminStatus' = adminStatus

GiveUp(c) == adminStatus' = "error"

\* After five seconds the answer, if one is awaited, is waited for no more, and
\* still sets the store.
CheckTimesOut(c) ==
  /\ runs[c].op = "verify"
  /\ GiveUp(c)
  /\ Put(c, IF runs[c].stage = "pausing" THEN NoRun ELSE Run("late", "late"))
  /\ UNCHANGED <<Zomes, UsersStore, agentIsAdministrator, recent, started, Shown, doubtful, Bounds>>

ThirtySeconds ==
  /\ recent /\ recent' = FALSE
  /\ UNCHANGED <<Zomes, UsersStore, agentIsAdministrator, adminStatus, started, Shown, runs, doubtful, Bounds>>

\* The first user of a network may become its administrator.  Nothing checks again
\* afterwards.
RegisterAsAdmin(c) ==
  \/ /\ Acts(c)
     /\ user # NoUser /\ adminStatus # "admin" /\ page # "leaving"
     /\ Put(c, Run("register", "sent"))
     /\ UNCHANGED <<Zomes, UsersStore, Admin, started, Shown, doubtful, Bounds>>
  \/ /\ At(c, "register", "sent")
     /\ \/ listed' = TRUE /\ page' = "admin" /\ UNCHANGED Bounds
        \/ UNCHANGED <<listed, page, Bounds>>      \* there is another
        \/ Failing /\ UNCHANGED <<listed, page>>
     /\ Put(c, NoRun)
     /\ UNCHANGED <<profile, standing, offered, UsersStore, Admin, started, timedOut, prerequisites,
                    doubtful>>

-----------------------------------------------------------------------------
(* The way to the pages. *)

\* The menu offers the profile to who has one and its form to who has none.
ProfileLink == IF user = NoUser THEN "create" ELSE "user"

\* The menu goes by the store, the home page and the keys by the service.
AdminLink == agentIsAdministrator \/ adminStatus = "admin"
VisitAdmin == AdminLink /\ Visit("admin")

VisitHome == page # "home" /\ Visit("home")

\* Who is no administrator once that is known is sent home from there.
RedirectHome ==
  /\ InPages
  /\ page = "admin"
  /\ adminStatus \notin {"unknown", "checking"} /\ ~agentIsAdministrator
  /\ page' = "home"
  /\ UNCHANGED <<Zomes, UsersStore, Admin, started, timedOut, prerequisites, runs, doubtful, Bounds>>

-----------------------------------------------------------------------------
(* The guards. *)

\* ProfileGuard
ProfileState ==
  IF timedOut THEN (IF user = NoUser THEN "unknown" ELSE user.status)
  ELSE IF error THEN "error"
  ELSE IF loading /\ user = NoUser THEN "loading"
  ELSE IF user = NoUser THEN "missing"
  ELSE user.status

CanCreate == page = "new" /\ ProfileState = "accepted"
CanBrowse == page = "listings" /\ ProfileState \in {"accepted", "pending", "error", "unknown"}

\* The pages that list requests or offers, and those that make one.
VisitListings == Visit("listings")
VisitNew == Visit("new")

Guarded == InPages /\ page \in {"listings", "new"}
BlockedShown == Guarded /\ ProfileState # "loading" /\ ~CanCreate /\ ~CanBrowse

\* What the page offers who is kept out; the other ways lead to pages of text.
PrimaryAction ==
  IF ProfileState = "missing" THEN "create"
  ELSE IF ProfileState = "error" THEN "reload" ELSE "help"

\* Five seconds of loading
GuardTimesOut ==
  /\ Guarded /\ ProfileState = "loading"
  /\ timedOut' = TRUE
  /\ UNCHANGED <<Zomes, UsersStore, Admin, started, page, prerequisites, runs, doubtful, Bounds>>

\* Who has no profile is sent to make one, from the listings when they ask.
RedirectToProfile ==
  /\ Guarded /\ ProfileState = "missing"
  /\ page = "new" \/ PrimaryAction = "create"
  /\ page' = "create"
  /\ UNCHANGED <<Zomes, UsersStore, Admin, started, timedOut, prerequisites, runs, doubtful, Bounds>>

\* usePrerequisitesGuard asks for what is approved and whether the agent is an
\* administrator; what fails counts as missing.
CheckPrerequisites(c) ==
  \/ /\ Idle(c) /\ InPages
     /\ page = "new" /\ CanCreate
     /\ prerequisites = "unchecked"
     /\ prerequisites' = "checking"
     /\ Put(c, Run("prerequisites", "sent"))
     /\ UNCHANGED <<Zomes, UsersStore, Admin, started, page, timedOut, doubtful, Bounds>>
  \/ /\ At(c, "prerequisites", "sent")
     /\ \/ UNCHANGED failures /\ runs' = [runs EXCEPT ![c].stage = "asked", ![c].seen = offered]
        \/ Failing /\ \E k \in Choices : runs' = [runs EXCEPT ![c].stage = "asked", ![c].seen = offered \ {k}]
     /\ UNCHANGED <<Zomes, UsersStore, Admin, started, Shown, doubtful, others>>
  \/ /\ At(c, "prerequisites", "asked")
     /\ prerequisites' = IF prerequisites # "checking" THEN prerequisites
                         ELSE IF runs[c].seen = Choices THEN "met" ELSE "missing"
     /\ agentIsAdministrator' = listed
     /\ Put(c, NoRun)
     /\ UNCHANGED <<Zomes, UsersStore, adminStatus, recent, started, page, timedOut, doubtful, Bounds>>

RetryPrerequisites ==
  /\ prerequisites = "missing" /\ prerequisites' = "unchecked"
  /\ UNCHANGED <<Zomes, UsersStore, Admin, started, page, timedOut, runs, doubtful, Bounds>>

-----------------------------------------------------------------------------
(* The start of the page: connection, hREA, network, user. *)

StartTo(s) ==
  /\ started' = s
  /\ UNCHANGED <<Zomes, UsersStore, Admin, Shown, runs, doubtful>>

Begin == started = "pending" /\ StartTo("connecting") /\ UNCHANGED Bounds

\* Three attempts within ten seconds
Connected ==
  \/ started = "connecting" /\ StartTo("hrea") /\ UNCHANGED Bounds
  \/ started = "connecting" /\ Failing /\ StartTo("failed")

ConnectedLate == started = "failed" /\ StartTo("late") /\ UNCHANGED Bounds

\* A failure of either step, or fifteen seconds of hREA, is passed over.
PassStep ==
  \/ started = "hrea" /\ StartTo("network") /\ UNCHANGED Bounds
  \/ started = "network" /\ StartTo("user") /\ UNCHANGED Bounds

LoadUser(c) ==
  /\ started = "user" /\ Idle(c)
  /\ started' = "loading"
  /\ RefreshCurrentUser(c, FALSE)
  /\ UNCHANGED <<Zomes, user, Admin, Shown, Bounds>>

UserLoaded == \A d \in Callers : runs[d].op # "refresh"

Complete ==
  /\ started = "loading"
  /\ UserLoaded
  /\ StartTo("complete")
  /\ UNCHANGED Bounds

\* The page is loaded again: the stores are new.
Reload ==
  /\ \/ started = "failed"
     \/ BlockedShown /\ PrimaryAction = "reload"
     \/ InPages /\ page = "admin" /\ adminStatus = "error"
  /\ user' = NoUser /\ refreshing' = FALSE /\ loading' = FALSE /\ error' = FALSE
  /\ agentIsAdministrator' = FALSE /\ adminStatus' = "unknown" /\ recent' = FALSE
  /\ started' = "pending" /\ timedOut' = FALSE /\ prerequisites' = "unchecked"
  /\ runs' = [c \in Callers |-> NoRun]
  /\ doubtful' = TRUE
  /\ UNCHANGED <<Zomes, page, Bounds>>

-----------------------------------------------------------------------------
(* Others. *)

OthersAct ==
  /\ others < MaxOthers
  /\ others' = others + 1
  /\ doubtful' = TRUE
  /\ \/ /\ profile # 0
        /\ standing' \in {"accepted", "suspended"} \ {standing}
        /\ UNCHANGED <<listed, offered>>
     \/ listed' = ~listed /\ UNCHANGED <<standing, offered>>
     \/ offered' \in {{}, {"types"}, Choices} \ {offered} /\ UNCHANGED <<standing, listed>>
  /\ UNCHANGED <<profile, UsersStore, Admin, started, Shown, runs, failures>>

Next ==
  \/ \E c \in Callers :
       \/ FindUser(c) \/ GetLatestUser(c) \/ Refreshed(c) \/ RefreshFails(c) \/ ShowUser(c)
       \/ Submit(c, "create") \/ Submit(c, "edit")
       \/ CreateInZome(c) \/ UserCreated(c) \/ UpdateInZome(c) \/ UpdateCurrentUser(c)
       \/ SubmitFails(c) \/ FetchUsers(c)
       \/ EnsureAdminStatusChecked(c) \/ CheckIfAgentIsAdministrator(c)
       \/ CheckFails(c) \/ CheckAgain(c) \/ CheckTimesOut(c)
       \/ RegisterAsAdmin(c) \/ CheckPrerequisites(c) \/ LoadUser(c)
  \/ ThirtySeconds \/ GuardTimesOut \/ RedirectToProfile \/ RetryPrerequisites
  \/ VisitCreate \/ VisitEdit \/ VisitListings \/ VisitNew \/ VisitHome \/ VisitAdmin \/ RedirectHome
  \/ Begin \/ Connected \/ ConnectedLate \/ PassStep \/ Complete \/ Reload \/ OthersAct

Spec == Init /\ [][Next]_sessionVars

-----------------------------------------------------------------------------
(* Properties. *)

\* Type invariant.
TypeOK ==
  /\ profile \in 0 .. MaxRevisions /\ standing \in Standings
  /\ listed \in BOOLEAN /\ offered \subseteq Choices
  /\ user \in [revision : 0 .. MaxRevisions, status : Standings]
  /\ refreshing \in BOOLEAN /\ loading \in BOOLEAN /\ error \in BOOLEAN
  /\ adminStatus \in {"unknown", "checking", "admin", "non-admin", "error"}
  /\ prerequisites \in {"unchecked", "checking", "met", "missing"}
  /\ others \in 0 .. MaxOthers /\ failures \in 0 .. MaxFailures

Settled == \A c \in Callers : Idle(c)

\* A person who waits sees, once all calls have ended, their latest revision and
\* its status as they were when the last refresh began, though the page of a new
\* profile and the page it leads to both refresh, and each call of the store
\* clears the one flag they share (users.store.svelte.ts:294-412,
\* routes/(public)/user/create/+page.svelte:10-23).
CurrentUserIsWhatIs ==
  (Settled /\ ~doubtful /\ InPages /\ page # "leaving") =>
    user = IF profile = 0 THEN NoUser ELSE [revision |-> profile, status |-> standing]

\* Whatever overlaps, nobody who has a profile is welcomed as new, offered the form
\* of a profile by the menu, or sent to it by a guard, unless a call failed or makes
\* the profile just now: the start of the page waits for the user before it shows
\* any of them (routes/+layout.svelte:336-352, ProfileGuard.svelte:100-121,
\* 265-269, NavBar.svelte:60-66, routes/+page.svelte:144-160).
MissingMeansNone ==
  (failures = 0 /\ InPages /\ ProfileLink = "create") =>
    profile = 0 \/ \E c \in Callers : runs[c].op = "create"

\* What a person sees of their own profile is never replaced by an older revision
\* (users.store.svelte.ts:329-396, 444-470).
ProfileNeverOlder == started' = "pending" \/ user'.revision >= user.revision

\* Who the zomes list as administrator stays on the pages of administrators.  Not
\* what the code does: who has just registered is sent there, and home again by the
\* answer of an earlier check (routes/+layout.svelte:164-171, admin/+layout.svelte:42-44).
AdministratorsStay == (page = "admin" /\ page' = "home" /\ RedirectHome) => ~listed
===============================================================================
