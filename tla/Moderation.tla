------------------------------ MODULE Moderation ------------------------------
(***************************************************************************)
(* What one administrator sees of the statuses of users and organizations: *)
(* the arrays of administration.store.svelte.ts, the dashboard of the      *)
(* admin pages (routes/admin/+page.svelte) with copies of its own, and the *)
(* action bar of a user or an organization that was opened.  Decisions go  *)
(* to the administration zome (EntityStatus), here a register of one       *)
(* status per entity, and come back as events of the store.                *)
(*                                                                         *)
(* A fetch asks for the entities and then for the status of each.          *)
(***************************************************************************)
EXTENDS Naturals, FiniteSets

CONSTANTS
  Callers,        \* calls that can be under way at once
  Users, Organizations,
  MaxDecisions,   \* bound: statuses changed and administrators added or removed
  MaxFailures,    \* bound: calls that fail
  MaxOthers,      \* bound: decisions of other administrators
  Waits           \* whether the administrator waits for each call

ModerationAssumption ==
  /\ MaxDecisions \in Nat
  /\ MaxFailures \in Nat
  /\ MaxOthers \in Nat
  /\ Waits \in BOOLEAN

VARIABLES
  status,              \* the status of each entity in the zome
  listed,              \* the administrators in the zome
  all,                 \* allUsers and allOrganizations of the store: the status of each
  fetchedBy,           \* the call each of the two arrays is from
  administrators,      \* of the store
  nonAdministrators,   \* of the store
  mounted,             \* whether the dashboard is shown
  board,               \* the copies of the dashboard: the status of each
  shared,              \* the kinds whose copies are from the fetch the store's are from
  bar,                 \* the action bar: its entity, the status it holds, its page
  runs,                \* the calls under way
  uncertain,           \* history: entities a call about which failed, or another changed
  changed,             \* history: users added or removed since the administrators were fetched
  decisions, failures, others    \* bounds

moderationVars ==
  <<status, listed, all, fetchedBy, administrators, nonAdministrators, mounted, board,
    shared, bar, runs, uncertain, changed, decisions, failures, others>>

Entities == Users \cup Organizations
Kinds == {"users", "organizations"}
Of(k) == IF k = "users" THEN Users ELSE Organizations
KindOf(e) == IF e \in Users THEN "users" ELSE "organizations"

Statuses == {"pending", "accepted", "rejected", "suspended"}
Shown == Statuses \cup {"unknown", "absent"}   \* without a status, and not in the array

Run(op, of, to, kinds, rest) ==
  [op |-> op, of |-> of, to |-> to, kinds |-> kinds, rest |-> rest,
   answer |-> [e \in Entities |-> "absent"], stage |-> "sent"]

NoRun == Run("none", {}, "none", {}, {})
NoBar == [of |-> {}, held |-> "none", shared |-> FALSE, on |-> "none"]

Init ==
  /\ status = [e \in Entities |-> "pending"]
  /\ \E u \in Users : listed = {u}
  /\ all = [e \in Entities |-> "absent"]
  /\ fetchedBy = [k \in Kinds |-> "none"]
  /\ administrators = {} /\ nonAdministrators = {}
  /\ mounted = FALSE
  /\ board = [e \in Entities |-> "absent"]
  /\ shared = {}
  /\ bar = NoBar
  /\ runs = [c \in Callers |-> NoRun]
  /\ uncertain = {} /\ changed = {}
  /\ decisions = 0 /\ failures = 0 /\ others = 0

-----------------------------------------------------------------------------
(* Calls. *)

Idle(c) == runs[c] = NoRun
Asks(c) == Idle(c) /\ (Waits => \A d \in Callers : Idle(d))
At(c, op, stage) == runs[c].op = op /\ runs[c].stage = stage

Put(c, r) == runs' = [runs EXCEPT ![c] = r]

Zome == <<status, listed>>
Store == <<all, fetchedBy, administrators, nonAdministrators>>
Pages == <<mounted, board, shared, bar>>
Bounds == <<uncertain, changed, decisions, failures, others>>

-----------------------------------------------------------------------------
(* Fetches. *)

Fetch(op, about, ks) == Run(op, about, "none", ks, UNION {Of(k) : k \in ks})

Fetching(c) == runs[c].op \in {"load", "refresh", "fetch"}

\* The dashboard, when it is shown, fetches both kinds.
FetchDashboardData(c) ==
  /\ Asks(c) /\ ~mounted /\ bar = NoBar
  /\ mounted' = TRUE
  /\ Put(c, Fetch("load", {}, Kinds))
  /\ UNCHANGED <<Zome, Store, board, shared, bar, Bounds>>

\* It is left once its own calls have ended, and loses its copies.
LeaveDashboard ==
  /\ mounted /\ bar = NoBar
  /\ \A c \in Callers : runs[c].op \notin {"load", "refresh", "decide"}
  /\ mounted' = FALSE
  /\ board' = [e \in Entities |-> "absent"] /\ shared' = {}
  /\ UNCHANGED <<Zome, Store, bar, runs, Bounds>>

\* Another page fetches one kind.
FetchAll(c, k) ==
  /\ Asks(c) /\ ~mounted /\ bar = NoBar
  /\ Put(c, Fetch("fetch", {}, {k}))
  /\ UNCHANGED <<Zome, Store, Pages, Bounds>>

Told(c, e, s) ==
  runs' = [runs EXCEPT ![c].rest = @ \ {e}, ![c].answer[e] = s]

\* The status of an entity is read.  If that fails it is shown without one, and
\* if its record cannot be read it is not shown.
ReadStatus(c, e) ==
  /\ Fetching(c) /\ e \in runs[c].rest
  /\ \/ Told(c, e, status[e]) /\ UNCHANGED <<uncertain, failures>>
     \/ /\ failures < MaxFailures
        /\ failures' = failures + 1
        /\ uncertain' = uncertain \cup {e}
        /\ Told(c, e, "unknown") \/ Told(c, e, "absent")
  /\ UNCHANGED <<Zome, Store, Pages, changed, decisions, others>>

Merge(of, new, old) == [e \in Entities |-> IF e \in of THEN new[e] ELSE old[e]]

Stored(c, k) ==
  /\ Fetching(c) /\ k \in runs[c].kinds /\ runs[c].rest \cap Of(k) = {}
  /\ all' = Merge(Of(k), runs[c].answer, all)
  /\ fetchedBy' = [fetchedBy EXCEPT ![k] = c]
  /\ shared' = shared \ {k}
  /\ bar' = IF bar.of \subseteq Of(k) THEN [bar EXCEPT !.shared = FALSE] ELSE bar
  /\ runs' = [runs EXCEPT ![c].kinds = @ \ {k}, ![c].stage = "stored"]
  /\ UNCHANGED <<Zome, administrators, nonAdministrators, mounted, board, Bounds>>

\* The kinds a call fetched and has stored.
Fetched(c) ==
  IF runs[c].op = "load" THEN Kinds ELSE {KindOf(e) : e \in runs[c].of}

\* The page has its answer.  The dashboard copies it.
Boarded(c) ==
  /\ Fetching(c) /\ runs[c].kinds = {}
  /\ IF runs[c].op = "fetch"
       THEN UNCHANGED <<board, shared>>
       ELSE /\ board' = Merge(UNION {Of(k) : k \in Fetched(c)}, runs[c].answer, board)
            /\ shared' = (shared \ Fetched(c)) \cup {k \in Fetched(c) : fetchedBy[k] = c}
  /\ fetchedBy' = [k \in Kinds |-> IF fetchedBy[k] = c THEN "done" ELSE fetchedBy[k]]
  /\ Put(c, NoRun)
  /\ UNCHANGED <<Zome, all, administrators, nonAdministrators, mounted, bar, Bounds>>

-----------------------------------------------------------------------------
(* Decisions. *)

\* The moderation queue shows what is pending in the copies, except while they are
\* loaded, and the users not while these are fetched again.
Queued(e) ==
  /\ mounted /\ board[e] = "pending"
  /\ \A c \in Callers : /\ runs[c].op # "load"
                       /\ e \in Users => ~(runs[c].op = "refresh" /\ runs[c].of \subseteq Users)

\* Its buttons.
Decide(c, e, s) ==
  /\ Asks(c) /\ bar = NoBar
  /\ Queued(e)
  /\ Put(c, Run("decide", {e}, s, {}, {}))
  /\ UNCHANGED <<Zome, Store, Pages, Bounds>>

ApproveUser(c, u) == u \in Users /\ Decide(c, u, "accepted")
RejectUser(c, u) == u \in Users /\ Decide(c, u, "rejected")
ApproveOrganization(c, o) == o \in Organizations /\ Decide(c, o, "accepted")
RejectOrganization(c, o) == o \in Organizations /\ Decide(c, o, "rejected")

\* What the action bar offers depends on the status it holds; on the page of the
\* administrators it offers none of these.
BarOffers(s) ==
  /\ bar.on # "administrators"
  /\ \/ bar.held \in {"pending", "rejected", "suspended"} /\ s = "accepted"
     \/ bar.held = "pending" /\ s = "rejected"
     \/ bar.held = "accepted" /\ s = "suspended"

UpdateStatus(c, s) ==
  /\ Asks(c)
  /\ BarOffers(s)
  /\ Put(c, Run("update", bar.of, s, {}, {}))
  /\ UNCHANGED <<Zome, Store, Pages, Bounds>>

HandleSuspend(c) == UpdateStatus(c, "suspended")

\* The zome changes the status.
UpdateEntityStatus(c) ==
  /\ At(c, "decide", "sent") \/ At(c, "update", "sent")
  /\ decisions < MaxDecisions
  /\ decisions' = decisions + 1
  /\ status' = [e \in Entities |-> IF e \in runs[c].of THEN runs[c].to ELSE status[e]]
  /\ runs' = [runs EXCEPT ![c].stage = "done"]
  /\ UNCHANGED <<listed, Store, Pages, uncertain, changed, failures, others>>

\* Another administrator changes it.
OtherDecides(e, s) ==
  /\ others < MaxOthers
  /\ others' = others + 1
  /\ status' = [status EXCEPT ![e] = s]
  /\ uncertain' = uncertain \cup {e}
  /\ UNCHANGED <<listed, Store, Pages, runs, changed, decisions, failures>>

InStore(e) == all[e] # "absent"

\* The store shows the new status of what it has.
Updated(e, s) == all' = IF InStore(e) THEN [all EXCEPT ![e] = s] ELSE all

\* The dashboard copies the entity of an event, if it has it.
UpdateInDashboard(e, s) == board' = IF board[e] = "absent" THEN board ELSE [board EXCEPT ![e] = s]

\* The bar that gets an event about the hash it was opened with asks again.
BarAsks(e) == bar.of = {e} /\ bar.shared /\ InStore(e)

AskStatus(e) == Run("status", {e}, "none", {}, {})

\* The answer to a decision of the dashboard: after the event with the new status
\* comes one with the entity as it was, and a refresh.
Decided(c) ==
  \E e \in runs[c].of :
    /\ At(c, "decide", "done")
    /\ Updated(e, runs[c].to)
    /\ UpdateInDashboard(e, "pending")
    /\ IF BarAsks(e)
         THEN \E d \in Callers : /\ Idle(d)
                                 /\ runs' = [runs EXCEPT ![c] = Fetch("refresh", {e}, {KindOf(e)}),
                                                         ![d] = AskStatus(e)]
         ELSE Put(c, Fetch("refresh", {e}, {KindOf(e)}))
    /\ UNCHANGED <<Zome, fetchedBy, administrators, nonAdministrators, mounted, shared, bar, Bounds>>

\* The answer to a change by the action bar.  A suspension asks for the status
\* whatever the event does.
StatusUpdated(c) ==
  \E e \in runs[c].of :
    /\ At(c, "update", "done")
    /\ Updated(e, runs[c].to)
    /\ IF InStore(e) THEN UpdateInDashboard(e, runs[c].to) ELSE UNCHANGED board
    /\ Put(c, IF bar.of = {e} /\ (bar.shared \/ runs[c].to = "suspended") THEN AskStatus(e) ELSE NoRun)
    /\ UNCHANGED <<Zome, fetchedBy, administrators, nonAdministrators, mounted, shared, bar, Bounds>>

-----------------------------------------------------------------------------
(* The action bar. *)

OpenedOn(page, e, same) == bar' = [of |-> {e}, held |-> "none", shared |-> same, on |-> page]

\* The pages of the users and of the organizations show the arrays of the store by
\* status: what has none there is on neither.
Categorized(e) == ~mounted /\ all[e] \in Statuses

\* The page of the administrators shows those of the store.
Listed(e) == ~mounted /\ e \in administrators

\* It is opened from the queue of the dashboard or from one of these pages.
OpenBar(c, e) ==
  /\ Asks(c) /\ bar = NoBar
  /\ \/ Queued(e) /\ e \in Users /\ OpenedOn("dashboard", e, KindOf(e) \in shared)
     \/ Categorized(e) /\ OpenedOn(KindOf(e), e, TRUE)
     \/ Listed(e) /\ OpenedOn("administrators", e, FALSE)
  /\ Put(c, AskStatus(e))
  /\ UNCHANGED <<Zome, Store, mounted, board, shared, Bounds>>

CloseBar ==
  /\ bar # NoBar
  /\ Waits => \A d \in Callers : Idle(d)
  /\ bar' = NoBar
  /\ runs' = [c \in Callers |-> IF runs[c].op = "status" THEN NoRun ELSE runs[c]]
  /\ UNCHANGED <<Zome, Store, mounted, board, shared, Bounds>>

LoadStatusRecord(c) ==
  \/ /\ At(c, "status", "sent")
     /\ runs' = [runs EXCEPT ![c].stage = "done",
                             ![c].answer = [e \in Entities |-> IF e \in runs[c].of THEN status[e] ELSE "absent"]]
     /\ UNCHANGED <<Zome, Store, Pages, Bounds>>
  \/ /\ At(c, "status", "done")
     /\ \E e \in runs[c].of : bar' = [bar EXCEPT !.held = runs[c].answer[e]]
     /\ Put(c, NoRun)
     /\ UNCHANGED <<Zome, Store, mounted, board, shared, Bounds>>

-----------------------------------------------------------------------------
(* Administrators. *)

\* Fault: all users are taken for candidates.
NobodyLeftOut == nonAdministrators' = {u \in Users : InStore(u)}

UpdateAdministratorLists == nonAdministrators' = {u \in Users : InStore(u)} \ administrators'

GetAllNetworkAdministrators(c) ==
  \/ /\ Asks(c) /\ bar = NoBar
     /\ Put(c, Run("administrators", {}, "none", {}, {}))
     /\ UNCHANGED <<Zome, Store, Pages, Bounds>>
  \/ /\ At(c, "administrators", "sent")
     /\ runs' = [runs EXCEPT ![c].of = listed, ![c].stage = "done"]
     /\ UNCHANGED <<Zome, Store, Pages, Bounds>>
  \/ /\ At(c, "administrators", "done")
     /\ administrators' = runs[c].of
     /\ UpdateAdministratorLists
     /\ changed' = {}
     /\ Put(c, NoRun)
     /\ UNCHANGED <<Zome, all, fetchedBy, Pages, uncertain, decisions, failures, others>>

\* The zome keeps the last administrator.
ChangeList(c, op, new) ==
  /\ At(c, op, "sent")
  /\ decisions < MaxDecisions
  /\ decisions' = decisions + 1
  /\ new # {} /\ listed' = new
  /\ changed' = changed \cup runs[c].of
  /\ runs' = [runs EXCEPT ![c].stage = "done"]
  /\ UNCHANGED <<status, Store, Pages, uncertain, failures, others>>

\* The users that may be added, all or those a search finds.
Candidates == nonAdministrators

\* Adding one works out who is none from the administrators fetched before, and
\* fetches the users.
AddNetworkAdministrator(c) ==
  \/ /\ Asks(c) /\ bar = NoBar /\ ~mounted
     /\ \E u \in Candidates : Put(c, Run("add", {u}, "none", {}, {}))
     /\ UNCHANGED <<Zome, Store, Pages, Bounds>>
  \/ ChangeList(c, "add", listed \cup runs[c].of)
  \/ /\ At(c, "add", "done")
     /\ UNCHANGED administrators /\ UpdateAdministratorLists
     /\ Put(c, Fetch("fetch", {}, {"users"}))
     /\ UNCHANGED <<Zome, all, fetchedBy, Pages, Bounds>>

\* The page of the administrators offers it unless there is only one.
RemoveNetworkAdministrator(c) ==
  \/ /\ Asks(c)
     /\ bar.on = "administrators" /\ Cardinality(administrators) # 1
     /\ Put(c, Run("remove", bar.of, "none", {}, {}))
     /\ UNCHANGED <<Zome, Store, Pages, Bounds>>
  \/ ChangeList(c, "remove", listed \ runs[c].of)
  \/ /\ At(c, "remove", "done")
     /\ UNCHANGED administrators /\ UpdateAdministratorLists
     /\ Put(c, NoRun)
     /\ UNCHANGED <<Zome, all, fetchedBy, Pages, Bounds>>

-----------------------------------------------------------------------------
(* The page. *)

\* Clears the arrays of the store, from a page that shows neither the dashboard nor
\* a bar.
InvalidateCache ==
  /\ ~mounted /\ bar = NoBar
  /\ Waits => \A c \in Callers : Idle(c)
  /\ all' = [e \in Entities |-> "absent"]
  /\ fetchedBy' = [k \in Kinds |-> "none"]
  /\ administrators' = {} /\ nonAdministrators' = {}
  /\ UNCHANGED <<Zome, Pages, runs, Bounds>>

\* A call fails: what was asked is not done, or its answer is lost.
Fails(c) ==
  /\ ~Idle(c)
  /\ Fetching(c) => runs[c].kinds # {}
  /\ failures < MaxFailures
  /\ failures' = failures + 1
  /\ uncertain' = uncertain \cup (IF runs[c].op \in {"decide", "update", "refresh", "status"} THEN runs[c].of ELSE {})
  /\ Put(c, NoRun)
  /\ UNCHANGED <<Zome, Store, Pages, changed, decisions, others>>

Next ==
  \/ \E c \in Callers :
       \/ FetchDashboardData(c) \/ Boarded(c)
       \/ \E k \in Kinds : FetchAll(c, k) \/ Stored(c, k)
       \/ \E e \in Entities : ReadStatus(c, e) \/ OpenBar(c, e)
       \/ \E u \in Users : ApproveUser(c, u) \/ RejectUser(c, u)
       \/ \E o \in Organizations : ApproveOrganization(c, o) \/ RejectOrganization(c, o)
       \/ \E s \in {"accepted", "rejected"} : UpdateStatus(c, s)
       \/ HandleSuspend(c) \/ UpdateEntityStatus(c) \/ Decided(c) \/ StatusUpdated(c)
       \/ LoadStatusRecord(c)
       \/ GetAllNetworkAdministrators(c) \/ AddNetworkAdministrator(c) \/ RemoveNetworkAdministrator(c)
       \/ Fails(c)
  \/ \E e \in Entities, s \in Statuses : OtherDecides(e, s)
  \/ LeaveDashboard \/ CloseBar \/ InvalidateCache

Spec == Init /\ [][Next]_moderationVars

-----------------------------------------------------------------------------
(* Properties. *)

\* Type invariant.
TypeOK ==
  /\ status \in [Entities -> Statuses] /\ listed \in (SUBSET Users) \ {{}}
  /\ all \in [Entities -> Shown] /\ board \in [Entities -> Shown]
  /\ administrators \subseteq Users /\ nonAdministrators \subseteq Users
  /\ bar.held \in Shown \cup {"none"} /\ bar.of \subseteq Entities /\ shared \subseteq Kinds
  /\ decisions \in 0 .. MaxDecisions /\ failures \in 0 .. MaxFailures /\ others \in 0 .. MaxOthers

Tells(shown, e) == shown \in {"absent", "none", status[e]}

\* An administrator who is alone and waits for each call is shown, once all calls
\* have ended, the status of everything no call about which failed and nobody
\* else decided on: in the
\* arrays, on the dashboard, which a decision sets back before it is fetched
\* again, and on the action bar, which a decision does not always reach
\* (administration.store.svelte.ts:905-945, 1010-1032, routes/admin/+page.svelte:62-150,
\* ActionBar.svelte:83-108).
StatusesShown ==
  (\A c \in Callers : Idle(c)) =>
    \A e \in Entities \ uncertain :
      /\ Tells(all[e], e) /\ Tells(board[e], e)
      /\ bar.of = {e} => Tells(bar.held, e)

\* To an administrator who is alone and waits for each call, whoever is shown as an
\* administrator is one and whoever is offered to become one is none, but for those
\* added or removed since the administrators were last fetched: the lists are worked
\* out again then from the administrators fetched before
\* (administration.store.svelte.ts:507-530, 789-792, 811-815, 885-888).
AdministratorsShown ==
  (\A c \in Callers : Idle(c)) =>
    /\ administrators \subseteq listed \cup changed
    /\ nonAdministrators \cap listed \subseteq changed
=============================================================================
