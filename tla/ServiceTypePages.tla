---------------------------- MODULE ServiceTypePages ----------------------------
(***************************************************************************)
(* The pages of the service types: the lists of everybody and of the       *)
(* administrators (useServiceTypesManagement, ServiceTypesTable), the      *)
(* moderation table (ServiceTypeModerationTable), the pages that show one  *)
(* type, and the forms that create, suggest and edit one                   *)
(* (useServiceTypeFormManagement, useServiceTypeDetails).                  *)
(*                                                                         *)
(* Of the store (ServiceTypesStore) the model keeps which types its arrays *)
(* name and what its cache says of a type; of the zome (ServiceTypes) the  *)
(* status of each type, and whether it was revised.  A type is named by    *)
(* the hash of its first record or of its revision, <<t, 0>> or <<t, 1>>;  *)
(* what a decision about a revision does is left to ServiceTypesStore.     *)
(* One call, or chain of calls, is under way at a time; it goes on when    *)
(* its page is left.                                                       *)
(***************************************************************************)
EXTENDS Naturals, Sequences

CONSTANTS
  Types,        \* the service types there are or may be
  Matching,     \* those the user's search term finds
  Admin,        \* whether the user is an administrator
  Retries,      \* how often a list asks again when a call fails
  MaxEdits,     \* bound: revisions of a type, 0 or 1
  MaxOthers,    \* bound: what others do
  MaxFailures   \* bound: calls that fail

\* What the constants must be.
ServiceTypePagesAssumption ==
  /\ Matching \subseteq Types
  /\ Admin \in BOOLEAN
  /\ {Retries, MaxOthers, MaxFailures} \subseteq Nat
  /\ MaxEdits \in {0, 1}

VARIABLES
  zome,      \* the status and the revision of each type
  arrays,    \* the types in the store's array of each status
  cache,     \* what the store holds of a type by each of its hashes
  page,      \* the page that is open
  view,      \* the type that a page of one type loaded
  related,   \* whether the requests and offers of the type are shown with it
  search,    \* whether the search term of a list is written
  filled,    \* whether the form is filled in
  run,       \* the call under way
  others,    \* what others did
  failures   \* calls that failed

typesVars == <<zome, arrays, cache, page, view, related, search, filled, run, others, failures>>
shownVars == <<page, view, related, search, filled>>

Statuses == {"pending", "approved", "rejected"}
Decisions == {"approve", "reject", "delete"}
Hashes == Types \X {0, 1}

\* A type that nobody suggested yet, and one that is deleted; what the cache does
\* not hold.
None == [status |-> "none", rev |-> 0]
Gone == [status |-> "gone", rev |-> 0]
Unknown == [status |-> "unknown", rev |-> 0]

There(t) == zome[t].status \in Statuses
WithStatus(s) == {t \in Types : zome[t].status = s}

NoHash == <<"none", 0>>
Page(at) == [at |-> at, id |-> NoHash, phase |-> "ready"]
PageOf(at, h) == [at |-> at, id |-> h, phase |-> "loading"]

Lists == {"list", "admin list"}
Pages == IF Admin THEN {"elsewhere", "suggest", "create", "moderate"} \cup Lists ELSE {"elsewhere", "suggest", "list"}
PagesOfOne == IF Admin THEN {"public details", "details", "edit"} ELSE {"public details"}

Idle == [on |-> "idle", id |-> NoHash, todo |-> <<>>, answer |-> {}, tries |-> 0, ok |-> FALSE, live |-> FALSE]

Init ==
  /\ zome \in [Types -> {None} \cup [status : Statuses, rev : {0}]]
  /\ arrays = [s \in Statuses |-> {}]
  /\ cache = [h \in Hashes |-> Unknown]
  /\ page = Page("elsewhere")
  /\ view = None
  /\ related = FALSE
  /\ search = FALSE
  /\ filled = FALSE
  /\ run = Idle
  /\ others = 0
  /\ failures = 0

-----------------------------------------------------------------------------
(* What the pages show and offer. *)

\* A list shows the approved types that the search finds.
Filtered == {t \in arrays["approved"] : search => t \in Matching}
Listed == IF page.at \in Lists /\ page.phase = "ready" THEN Filtered ELSE {}

\* The moderation table shows its tabs whether it has loaded or not.
Tabled(s) == IF page.at = "moderate" THEN arrays[s] ELSE {}

PublicDetailsShown == page.at = "public details" /\ page.phase = "ready"
AdminDetailsShown == page.at = "details" /\ page.phase = "ready"
DetailsShown == PublicDetailsShown \/ AdminDetailsShown

TypeFormShown == page.at = "create" \/ (page.at = "edit" /\ page.phase = "ready")
SuggestionShown == page.at = "suggest"
FormShown == TypeFormShown \/ SuggestionShown

OfferedInTable(t) ==
  {d \in Decisions : \/ t \in Tabled("pending") /\ d # "delete"
                     \/ t \in Tabled("approved") /\ d = "delete"
                     \/ t \in Tabled("rejected") /\ d # "reject"}

OfferedInDetails ==
  {d \in Decisions : /\ AdminDetailsShown
                     /\ <<d, view.status>> \notin {<<"approve", "approved">>, <<"reject", "rejected">>}}

-----------------------------------------------------------------------------
(* Pages are opened, and load. *)

\* A list asks for the types of one status after the other.
Asking(on, todo, tries, live) ==
  [Idle EXCEPT !.on = on, !.todo = todo, !.answer = WithStatus(Head(todo)), !.tries = tries, !.live = live]

ListNeeds == IF Admin THEN <<"approved", "pending">> ELSE <<"approved">>
TableNeeds == <<"pending", "approved", "rejected">>

\* get_service_type and get_service_type_status, which does not know a revision.
LookUp(h) ==
  LET t == h[1] IN
  IF ~There(t) THEN Gone ELSE IF h[2] = 0 THEN zome[t] ELSE [zome[t] EXCEPT !.status = "pending"]

\* getServiceType: what is cached, or what the zome says.
Getting(h, live) ==
  [Idle EXCEPT !.on = "get", !.id = h, !.answer = {IF cache[h] = Unknown THEN LookUp(h) ELSE cache[h]}, !.live = live]

Needs(p) ==
  CASE p.at \in Lists -> Asking("list", ListNeeds, 0, TRUE)
    [] p.at = "moderate" -> Asking("table", TableNeeds, 0, TRUE)
    [] p.at \in PagesOfOne -> Getting(p.id, TRUE)
    [] OTHER -> [run EXCEPT !.live = FALSE]

Open(p) ==
  /\ p.at \in {"elsewhere", "suggest", "create"} \/ run = Idle
  /\ page' = IF p.at \in Lists THEN [p EXCEPT !.phase = "loading"] ELSE p
  /\ run' = Needs(p)
  /\ view' = None
  /\ related' = FALSE
  /\ search' = FALSE
  /\ filled' = FALSE

Visit ==
  /\ \E at \in Pages : page.at # at /\ Open(Page(at))
  /\ UNCHANGED <<zome, arrays, cache, others, failures>>

\* The hash by which a list names a type is that of its latest record.
HandleView(t) ==
  /\ t \in Listed
  /\ \E at \in PagesOfOne : /\ at # "public details" <=> page.at = "admin list"
                            /\ Open(PageOf(at, <<t, zome[t].rev>>))
  /\ UNCHANGED <<zome, arrays, cache, others, failures>>

HandleEdit(t) ==
  /\ \/ page.at = "admin list" /\ t \in Listed /\ Open(PageOf("edit", <<t, zome[t].rev>>))
     \/ AdminDetailsShown /\ t = page.id[1] /\ Open(PageOf("edit", page.id))
  /\ UNCHANGED <<zome, arrays, cache, others, failures>>

\* A page of any type there is or was is opened by its address.
VisitAddress(t) ==
  /\ zome[t] # None
  /\ \E at \in PagesOfOne : /\ <<at, <<t, 0>>>> # <<page.at, page.id>>
                            /\ Open(PageOf(at, <<t, 0>>))
  /\ UNCHANGED <<zome, arrays, cache, others, failures>>

\* A tag of a type on the page of a listing gets it, too.
ShowTag(t) ==
  /\ page.at = "elsewhere" /\ run = Idle
  /\ zome[t].status = "approved"
  /\ run' = Getting(<<t, 0>>, FALSE)
  /\ UNCHANGED <<zome, arrays, cache, shownVars, others, failures>>

\* A list loads again when its window is shown again, or on "Try Again"; a page
\* of one type on "Retry".
LoadAgain ==
  /\ run = Idle
  /\ page.at \in Lists \/ (page.at \in PagesOfOne /\ page.phase = "failed")
  /\ page' = [page EXCEPT !.phase = "loading"]
  /\ run' = Needs(page)
  /\ UNCHANGED <<zome, arrays, cache, view, related, search, filled, others, failures>>

Phase(phase) == page' = IF run.live THEN [page EXCEPT !.phase = phase] ELSE page

\* The next of a list's calls, or the page is ready.
Goes(rest) ==
  IF rest = <<>> THEN run' = Idle /\ Phase("ready")
  ELSE run' = Asking(run.on, rest, 0, run.live) /\ UNCHANGED page

\* The array of the status is replaced.  The search starts anew when there are more
\* or fewer types.
Answered ==
  LET s == Head(run.todo) IN
  /\ run.on \in {"list", "table"}
  /\ arrays' = [arrays EXCEPT ![s] = run.answer]
  /\ Goes(Tail(run.todo))
  /\ search' = (search /\ arrays'["approved"] = arrays["approved"])
  /\ UNCHANGED <<zome, cache, view, related, filled, others, failures>>

Fails == failures < MaxFailures /\ failures' = failures + 1

\* A list asks again a few times; it shows an error for the approved types only.
\* The moderation table gives up at once, and says nothing.
LoadFails ==
  /\ run.on \in {"list", "table"}
  /\ Fails
  /\ IF run.on = "list" /\ run.tries < Retries
     THEN run' = Asking("list", run.todo, run.tries + 1, run.live) /\ UNCHANGED page
     ELSE run' = Idle /\ Phase(IF run.todo = ListNeeds THEN "failed" ELSE "ready")
  /\ UNCHANGED <<zome, arrays, cache, view, related, search, filled, others>>

\* What was looked up is remembered, that it is missing or that the call failed
\* included.  An edit form is filled in with it; a page that shows the type then asks
\* for the requests and offers, the one for everybody if the type is approved.
GetAnswered ==
  /\ run.on = "get"
  /\ \/ (\E e \in run.answer : cache' = [cache EXCEPT ![run.id] = e]) /\ UNCHANGED failures
     \/ cache[run.id] = Unknown /\ Fails /\ cache' = [cache EXCEPT ![run.id] = Gone]
  /\ LET e == cache'[run.id]
         more == page.at = "details" \/ (page.at = "public details" /\ e.status = "approved") IN
     IF ~run.live \/ e = Gone
     THEN Phase("failed") /\ run' = Idle /\ UNCHANGED <<view, filled>>
     ELSE /\ view' = e
          /\ filled' = (page.at = "edit")
          /\ IF more THEN run' = [run EXCEPT !.on = "related"] /\ UNCHANGED page ELSE run' = Idle /\ Phase("ready")
  /\ UNCHANGED <<zome, arrays, related, search, others>>

\* Without them the page is shown as well.
RelatedAnswered ==
  /\ run.on = "related"
  /\ related' \in {run.live, related}
  /\ IF related' = run.live THEN UNCHANGED failures ELSE Fails
  /\ Phase("ready")
  /\ run' = Idle
  /\ UNCHANGED <<zome, arrays, cache, view, search, filled, others>>

HandleSearch ==
  /\ page.at \in Lists /\ page.phase = "ready"
  /\ search' = ~search
  /\ UNCHANGED <<zome, arrays, cache, page, view, related, filled, run, others, failures>>

-----------------------------------------------------------------------------
(* Administrators decide. *)

\* What the zome does: it rejects only what is pending.
Succeeds(d, t) == IF d = "reject" THEN zome[t].status = "pending" ELSE There(t)

StatusAfter(d) == IF d = "approve" THEN "approved" ELSE IF d = "reject" THEN "rejected" ELSE "gone"

Decides(d, t) == zome' = [zome EXCEPT ![t] = IF d = "delete" THEN Gone ELSE [@ EXCEPT !.status = StatusAfter(d)]]

Offered(d, t) ==
  \/ d \in OfferedInTable(t)
  \/ d \in OfferedInDetails /\ page.id = <<t, 0>>
  \/ d = "delete" /\ page.at = "admin list" /\ t \in Listed

Calls(on, t, ok) == run' = [Idle EXCEPT !.on = on, !.id = <<t, 0>>, !.ok = ok, !.live = TRUE]

\* Not of a revision.  A call that is refused or that fails changes nothing.
Decide(d, t) ==
  /\ run = Idle
  /\ Offered(d, t)
  /\ zome[t].rev = 0
  /\ \/ Succeeds(d, t) /\ Decides(d, t) /\ Calls(d, t, TRUE) /\ UNCHANGED failures
     \/ ~Succeeds(d, t) /\ Calls(d, t, FALSE) /\ UNCHANGED <<zome, failures>>
     \/ Fails /\ Calls(d, t, FALSE) /\ UNCHANGED zome
  /\ UNCHANGED <<arrays, cache, shownVars, others>>

\* The store moves only what was pending.
Moved(d, t) ==
  arrays' = IF t \notin arrays["pending"] THEN arrays
            ELSE [arrays EXCEPT !["pending"] = @ \ {t}, ![StatusAfter(d)] = @ \cup {t}]

Removed(t) ==
  /\ arrays' = [s \in Statuses |-> arrays[s] \ {t}]
  /\ cache' = [cache EXCEPT ![<<t, 0>>] = Unknown]

\* The page of the type gets it again, from the cache; a failure is shown there
\* only.
Decided ==
  /\ run.on \in {"approve", "reject"}
  /\ LET here == page.at = "details" /\ run.live IN
     IF run.ok
     THEN /\ Moved(run.on, run.id[1])
          /\ run' = IF here THEN Getting(run.id, TRUE) ELSE Idle
          /\ IF here THEN Phase("loading") ELSE UNCHANGED page
     ELSE /\ run' = Idle
          /\ IF here THEN Phase("failed") ELSE UNCHANGED page
          /\ UNCHANGED arrays
  /\ UNCHANGED <<zome, cache, view, related, search, filled, others, failures>>

\* From the page of the type on to the list of the administrators, which loads;
\* from that list likewise.  The table does neither.
Deleted ==
  /\ run.on = "delete"
  /\ IF run.ok THEN Removed(run.id[1]) ELSE UNCHANGED <<arrays, cache>>
  /\ IF run.ok /\ page.at \in {"details", "admin list"} /\ run.live
     THEN /\ page' = [Page("admin list") EXCEPT !.phase = "loading"]
          /\ run' = Asking("list", ListNeeds, 0, TRUE)
     ELSE /\ IF ~run.ok /\ page.at = "details" THEN Phase("failed") ELSE UNCHANGED page
          /\ run' = Idle
  /\ UNCHANGED <<zome, view, related, search, filled, others, failures>>

-----------------------------------------------------------------------------
(* Forms. *)

WriteForm ==
  /\ FormShown /\ ~filled
  /\ filled' = TRUE
  /\ UNCHANGED <<zome, arrays, cache, page, view, related, search, run, others, failures>>

\* A new type is approved or pending; an edit revises one that is there.
Sends(t) ==
  IF page.at = "edit"
  THEN page.id = <<t, 0>> /\ There(t) /\ zome[t].rev < MaxEdits
  ELSE zome[t] = None

Saves(t) ==
  zome' = [zome EXCEPT ![t] = CASE page.at = "create" -> [status |-> "approved", rev |-> 0]
                                [] page.at = "suggest" -> [status |-> "pending", rev |-> 0]
                                [] page.at = "edit" -> [status |-> @.status, rev |-> @.rev + 1]]

Submit(t) ==
  /\ FormShown /\ filled /\ run = Idle
  /\ Sends(t)
  /\ \/ Saves(t) /\ Calls(page.at, t, TRUE) /\ UNCHANGED failures
     \/ Fails /\ Calls(page.at, t, FALSE) /\ UNCHANGED zome
  /\ UNCHANGED <<arrays, cache, shownVars, others>>

\* The store keeps what was saved in the array of one status; what was edited it
\* takes for approved.
Kept(t, status) ==
  /\ arrays' = [s \in Statuses |-> IF s = status THEN arrays[s] \cup {t} ELSE arrays[s] \ {t}]
  /\ cache' = [cache EXCEPT ![<<t, 0>>] = [status |-> status, rev |-> zome[t].rev]]

\* A suggestion empties its form; when it failed, the form says so and stays as
\* it is.
Suggested ==
  /\ run.on = "suggest"
  /\ IF run.ok THEN Kept(run.id[1], "pending") ELSE UNCHANGED <<arrays, cache>>
  /\ filled' = (filled /\ ~(run.ok /\ run.live))
  /\ run' = Idle
  /\ UNCHANGED <<zome, page, view, related, search, others, failures>>

\* What is created or edited is shown in the list of the administrators, wherever
\* the user is by then.
Saved ==
  /\ run.on \in {"create", "edit"}
  /\ IF run.ok
     THEN /\ Kept(run.id[1], "approved")
          /\ page' = [Page("admin list") EXCEPT !.phase = "loading"]
          /\ run' = Asking("list", ListNeeds, 0, TRUE)
          /\ view' = None /\ related' = FALSE /\ search' = FALSE /\ filled' = FALSE
     ELSE /\ run' = Idle
          /\ UNCHANGED <<arrays, cache, shownVars>>
  /\ UNCHANGED <<zome, others, failures>>

-----------------------------------------------------------------------------

\* The cache forgets what is old.
CacheExpires(h) ==
  /\ cache[h] # Unknown
  /\ cache' = [cache EXCEPT ![h] = Unknown]
  /\ UNCHANGED <<zome, arrays, shownVars, run, others, failures>>

OthersAct ==
  /\ others < MaxOthers
  /\ others' = others + 1
  /\ \E t \in Types :
       \/ zome[t] = None /\ zome' = [zome EXCEPT ![t].status = "pending"]
       \/ \E d \in Decisions : zome[t].rev = 0 /\ Succeeds(d, t) /\ Decides(d, t)
  /\ UNCHANGED <<arrays, cache, shownVars, run, failures>>

Next ==
  \/ Visit \/ RelatedAnswered \/ LoadAgain \/ Answered \/ LoadFails \/ GetAnswered \/ HandleSearch
  \/ Decided \/ Deleted \/ WriteForm \/ Suggested \/ Saved \/ OthersAct
  \/ \E t \in Types : HandleView(t) \/ HandleEdit(t) \/ VisitAddress(t) \/ ShowTag(t) \/ Submit(t) \/ \E d \in Decisions : Decide(d, t)
  \/ \E h \in Hashes : CacheExpires(h)

Spec == Init /\ [][Next]_typesVars

-----------------------------------------------------------------------------
(* Properties. *)

\* Type invariant.
TypeOK ==
  /\ \A t \in Types : zome[t].status \in Statuses \cup {"none", "gone"} /\ zome[t].rev \in 0 .. MaxEdits
  /\ \A s \in Statuses : arrays[s] \subseteq Types
  /\ page.at \in Pages \cup PagesOfOne /\ page.phase \in {"loading", "ready", "failed"}
  /\ \A b \in {related, search, filled, run.ok, run.live} : b \in BOOLEAN
  /\ run.on \in {"idle", "list", "table", "get", "related", "create", "suggest", "edit"} \cup Decisions
  /\ others \in 0 .. MaxOthers /\ failures \in 0 .. MaxFailures

\* To an administrator who is alone, a list that is ready and has not failed shows
\* the types that are approved, and no others, whatever was decided, edited, deleted
\* or failed before (useServiceTypesManagement.svelte.ts:80-94, 114-168).
ListsTheApproved ==
  (others = 0 /\ run = Idle /\ page.at \in Lists /\ page.phase = "ready") =>
     Filtered = {t \in WithStatus("approved") : search => t \in Matching}

\* Every decision that the moderation table offers to an administrator who is alone
\* and waits for the last one is one that the zome accepts
\* (ServiceTypeModerationTable.svelte:107-156).
OfferedSucceeds ==
  (others = 0 /\ run = Idle) =>
     \A t \in Types : \A d \in OfferedInTable(t) : zome[t].rev = 0 => Succeeds(d, t)

\* A form loses what was written only when that was saved, or the page is left
\* (useServiceTypeFormManagement.svelte.ts:108-140).
FailedIsKept ==
  (filled /\ ~filled' /\ <<page'.at, page'.id>> = <<page.at, page.id>>) => (run.on = "suggest" /\ run.ok)

\* What serviceTypes.store.svelte.ts says of the status it takes from the zome, of
\* the page of a type after a decision made there.
TellsTheStatus ==
  (others = 0 /\ run = Idle /\ DetailsShown) => view.status = zome[page.id[1]].status
=============================================================================
