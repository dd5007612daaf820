------------------------------- MODULE MediumPages -------------------------------
(***************************************************************************)
(* The pages of the mediums of exchange: the list of the administrators    *)
(* (admin/mediums-of-exchange, MediumsOfExchangeTable), the pages with     *)
(* MediumOfExchangeForm that create and edit one, the modal that suggests  *)
(* one (MediumOfExchangeSuggestionForm), and the tags on the listings      *)
(* (MediumOfExchangeTag), before the store (MediumsStore) and the zome     *)
(* (Mediums).                                                              *)
(*                                                                         *)
(* A medium is named by the hash of its first record or of a revision,     *)
(* <<m, 0>>, <<m, 1>> ..; of the store's arrays, which agree with each     *)
(* other (MediumsStore.OneStatusArray, TablesAgree), the model keeps the   *)
(* status under which each hash is shown.  One call, or chain of calls, is *)
(* under way at a time; it goes on when its page is left.                  *)
(***************************************************************************)
EXTENDS Naturals

CONSTANTS
  Mediums,       \* the mediums there are or may be
  MaxRevisions,  \* bound: revisions of a medium
  MaxOthers,     \* bound: what others do
  MaxFailures    \* bound: calls that fail

\* What the constants must be.
MediumPagesAssumption == {MaxRevisions, MaxOthers, MaxFailures} \subseteq Nat

VARIABLES
  zome,      \* the status and the latest revision of each medium
  shown,     \* the status under which the store's arrays name each hash, or "none"
  page,      \* the page that is open
  tab,       \* the tab of the list
  filled,    \* whether the form is filled in
  blocked,   \* whether its last error keeps it from being sent
  run,       \* the call under way
  others,    \* what others did
  failures   \* calls that failed

formVars == <<filled, blocked>>
mediumsVars == <<zome, shown, page, tab, formVars, run, others, failures>>

Statuses == {"pending", "approved", "rejected"}
Decisions == {"approve", "reject", "delete"}
Hashes == Mediums \X (0 .. MaxRevisions)

NoHash == <<"none", 0>>
None == [status |-> "none", rev |-> 0]
Gone == [status |-> "gone", rev |-> 0]
There(m) == zome[m].status \in Statuses

\* Nothing in any array.
Empty == [h \in Hashes |-> "none"]

Page(at, h, phase) == [at |-> at, id |-> h, phase |-> phase]
Idle == [on |-> "idle", id |-> NoHash, answer |-> {}, ok |-> FALSE, live |-> FALSE]
Call(on, h, answer, ok) == [on |-> on, id |-> h, answer |-> answer, ok |-> ok, live |-> TRUE]

Init ==
  /\ zome \in [Mediums -> {None} \cup [status : Statuses, rev : {0}]]
  /\ shown = Empty
  /\ page = Page("elsewhere", NoHash, "ready")
  /\ tab = "approved"
  /\ filled = FALSE
  /\ blocked = FALSE
  /\ run = Idle
  /\ others = 0
  /\ failures = 0

-----------------------------------------------------------------------------
(* What the pages show and offer. *)

\* The hashes under the tab, each once; in which order is left out.
Tabled == IF page.at # "list" THEN {} ELSE {h \in Hashes : shown[h] # "none" /\ tab \in {"all", shown[h]}}

\* The buttons of a row go by the status of its entity.
OfferedFor(h) ==
  IF h \notin Tabled THEN {}
  ELSE {"delete"} \cup (IF shown[h] = "approved" THEN {} ELSE {"approve"})
                  \cup (IF shown[h] = "pending" THEN {"reject"} ELSE {})

MediumFormShown == page.at = "create" \/ (page.at = "edit" /\ page.phase = "ready")
ModalShown == page.at = "suggest"
FormShown == MediumFormShown \/ ModalShown

\* The form with an error is not sent again; the modal is.
isValid == filled /\ ~blocked

Fails == failures < MaxFailures /\ failures' = failures + 1

-----------------------------------------------------------------------------
(* Pages are opened, and load. *)

Open(p) ==
  /\ page' = p
  /\ tab' = "approved"
  /\ filled' = FALSE
  /\ blocked' = FALSE

Leaves == run' = [run EXCEPT !.live = FALSE]

\* getAllMediumsOfExchangeByStatus, getMediumOfExchange.
AskAll == run' = Call("list", NoHash, {<<m, zome[m].status>> : m \in {n \in Mediums : There(n)}}, TRUE)
AskOne(h) == run' = Call("get", h, IF There(h[1]) THEN {h} ELSE {}, TRUE)

Visit ==
  /\ \E at \in {"create", "suggest", "elsewhere"} : page.at # at /\ Open(Page(at, NoHash, "ready"))
  /\ Leaves
  /\ UNCHANGED <<zome, shown, others, failures>>

VisitList ==
  /\ run = Idle /\ page.at # "list"
  /\ Open(Page("list", NoHash, "loading"))
  /\ AskAll
  /\ UNCHANGED <<zome, shown, others, failures>>

\* The button empties the arrays first.
Refresh ==
  /\ run = Idle /\ page.at = "list"
  /\ page' = [page EXCEPT !.phase = "loading"]
  /\ shown' = Empty
  /\ AskAll
  /\ UNCHANGED <<zome, tab, formVars, others, failures>>

\* The arrays anew: the first record of each medium under its status.
Listed ==
  /\ run.on = "list"
  /\ shown' = [h \in Hashes |-> IF \E e \in run.answer : h = <<e[1], 0>>
                                THEN (CHOOSE e \in run.answer : e[1] = h[1])[2] ELSE "none"]
  /\ page' = IF page.at = "list" THEN [page EXCEPT !.phase = "ready"] ELSE page
  /\ run' = Idle
  /\ UNCHANGED <<zome, tab, formVars, others, failures>>

\* Nobody is told; what the arrays had stays.
ListFails ==
  /\ run.on = "list"
  /\ Fails
  /\ page' = IF page.at = "list" THEN [page EXCEPT !.phase = "failed"] ELSE page
  /\ run' = Idle
  /\ UNCHANGED <<zome, shown, tab, formVars, others>>

ChooseTab ==
  /\ page.at = "list"
  /\ \E t \in Statuses \cup {"all"} : tab' = t
  /\ UNCHANGED <<zome, shown, page, formVars, run, others, failures>>

HandleEdit(h) ==
  /\ run = Idle
  /\ h \in Tabled
  /\ Open(Page("edit", h, "loading"))
  /\ AskOne(h)
  /\ UNCHANGED <<zome, shown, others, failures>>

\* A tag on a listing gets the medium it names.
ShowTag(m) ==
  /\ run = Idle /\ page.at = "elsewhere"
  /\ zome[m].status \in {"approved", "rejected"}
  /\ AskOne(<<m, 0>>)
  /\ UNCHANGED <<zome, shown, page, tab, formVars, others, failures>>

\* The one entity that is got goes to the array of the approved, whatever its status
\* is; the edit form is filled in with it.
Got ==
  /\ run.on = "get"
  /\ LET here == page.at = "edit" /\ run.live IN
     \/ /\ shown' = [h \in Hashes |-> IF h \in run.answer THEN "approved" ELSE shown[h]]
        /\ page' = IF here THEN [page EXCEPT !.phase = IF run.answer = {} THEN "failed" ELSE "ready"] ELSE page
        /\ filled' = (filled \/ (here /\ run.answer # {}))
        /\ UNCHANGED failures
     \/ /\ Fails
        /\ page' = IF here THEN [page EXCEPT !.phase = "failed"] ELSE page
        /\ UNCHANGED <<shown, filled>>
  /\ run' = Idle
  /\ UNCHANGED <<zome, tab, blocked, others>>

-----------------------------------------------------------------------------
(* Administrators decide. *)

\* What the zome does: an approval makes a revision, a deleted medium is neither
\* approved nor deleted.
Decides(d, m) ==
  zome' = [zome EXCEPT ![m] = CASE d = "approve" -> [status |-> "approved", rev |-> @.rev + 1]
                                [] d = "reject" -> [@ EXCEPT !.status = "rejected"]
                                [] d = "delete" -> Gone]

\* Not of a revision: what that does is left to MediumsStore.
Decide(d, m) ==
  /\ run = Idle
  /\ d \in OfferedFor(<<m, 0>>)
  /\ d = "approve" => zome[m].rev < MaxRevisions
  /\ \/ There(m) /\ Decides(d, m) /\ run' = Call(d, <<m, 0>>, {}, TRUE) /\ UNCHANGED failures
     \/ run' = Call(d, <<m, 0>>, {}, FALSE) /\ UNCHANGED zome /\ (IF There(m) THEN Fails ELSE UNCHANGED failures)
  /\ UNCHANGED <<shown, page, tab, formVars, others>>

\* The store moves only what it shows as pending; nobody is told of a failure.
Decided ==
  /\ run.on \in {"approve", "reject"}
  /\ shown' = [shown EXCEPT ![run.id] = IF run.ok /\ @ = "pending"
                                        THEN (IF run.on = "approve" THEN "approved" ELSE "rejected") ELSE @]
  /\ run' = Idle
  /\ UNCHANGED <<zome, page, tab, formVars, others, failures>>

Deleted ==
  /\ run.on = "delete"
  /\ shown' = [shown EXCEPT ![run.id] = IF run.ok THEN "none" ELSE @]
  /\ run' = Idle
  /\ UNCHANGED <<zome, page, tab, formVars, others, failures>>

-----------------------------------------------------------------------------
(* Forms. *)

WriteForm ==
  /\ FormShown /\ ~filled
  /\ filled' = TRUE
  /\ UNCHANGED <<zome, shown, page, tab, blocked, run, others, failures>>

\* Whoever creates only suggests.
Submit(m) ==
  /\ FormShown /\ isValid /\ run = Idle
  /\ IF page.at = "edit" THEN m = page.id[1] ELSE zome[m] = None
  /\ zome[m].rev < MaxRevisions
  /\ blocked' = FALSE
  /\ \/ /\ page.at = "edit" => There(m)
        /\ zome' = IF page.at = "edit" THEN [zome EXCEPT ![m].rev = @ + 1] ELSE [zome EXCEPT ![m].status = "pending"]
        /\ run' = Call(page.at, <<m, zome'[m].rev>>, {page.id}, TRUE)
        /\ UNCHANGED failures
     \/ /\ IF page.at = "edit" /\ ~There(m) THEN UNCHANGED failures ELSE Fails
        /\ run' = Call(page.at, <<m, zome[m].rev>>, {}, FALSE)
        /\ UNCHANGED zome
  /\ UNCHANGED <<shown, page, tab, filled, others>>

\* The form says that it failed, and cannot be sent any more.
Blocks == blocked' = (blocked \/ run.live) /\ run' = Idle

\* Fault: the modal's form is emptied whatever came of it.
SuggestedAndReset ==
  /\ run.on = "suggest"
  /\ shown' = IF run.ok THEN [shown EXCEPT ![run.id] = "pending"] ELSE shown
  /\ filled' = (filled /\ ~run.live)
  /\ run' = Idle
  /\ UNCHANGED <<zome, page, tab, blocked, others, failures>>

\* The modal closes; when the call failed, it says so and stays as it is.
Suggested ==
  /\ run.on = "suggest"
  /\ shown' = IF run.ok THEN [shown EXCEPT ![run.id] = "pending"] ELSE shown
  /\ filled' = (filled /\ ~(run.ok /\ run.live))
  /\ page' = IF run.ok /\ run.live THEN Page("elsewhere", NoHash, "ready") ELSE page
  /\ run' = Idle
  /\ UNCHANGED <<zome, tab, blocked, others, failures>>

\* What is created is shown as pending; an edit takes the place of what it edits, as
\* approved.  The form then gets what it saved.
Saved ==
  /\ run.on \in {"create", "edit"}
  /\ IF run.ok
     THEN /\ shown' = [h \in Hashes |-> CASE h = run.id -> IF run.on = "create" THEN "pending" ELSE "approved"
                                          [] run.on = "edit" /\ h \in run.answer -> "none"
                                          [] OTHER -> shown[h]]
          /\ run' = [run EXCEPT !.on = "get saved"]
          /\ UNCHANGED blocked
     ELSE Blocks /\ UNCHANGED shown
  /\ UNCHANGED <<zome, page, tab, filled, others, failures>>

\* Then the list of the administrators is opened, wherever the user is.
GotSaved ==
  /\ run.on = "get saved"
  /\ \/ /\ There(run.id[1])
        /\ shown' = [shown EXCEPT ![run.id] = "approved"]
        /\ Open(Page("list", NoHash, "loading"))
        /\ AskAll
        /\ UNCHANGED failures
     \/ /\ IF There(run.id[1]) THEN Fails ELSE UNCHANGED failures
        /\ Blocks
        /\ UNCHANGED <<shown, page, tab, filled>>
  /\ UNCHANGED <<zome, others>>

-----------------------------------------------------------------------------

OthersAct ==
  /\ others < MaxOthers
  /\ others' = others + 1
  /\ \E m \in Mediums :
       \/ zome[m] = None /\ zome' = [zome EXCEPT ![m].status = "pending"]
       \/ \E d \in Decisions : There(m) /\ zome[m].rev < MaxRevisions /\ Decides(d, m)
  /\ UNCHANGED <<shown, page, tab, formVars, run, failures>>

Next ==
  \/ Visit \/ VisitList \/ Refresh \/ Listed \/ ListFails \/ ChooseTab \/ Got
  \/ Decided \/ Deleted \/ WriteForm \/ Suggested \/ Saved \/ GotSaved \/ OthersAct
  \/ \E m \in Mediums : ShowTag(m) \/ Submit(m) \/ \E d \in Decisions : Decide(d, m)
  \/ \E h \in Hashes : HandleEdit(h)

Spec == Init /\ [][Next]_mediumsVars

-----------------------------------------------------------------------------
(* Properties. *)

\* Type invariant.
TypeOK ==
  /\ \A m \in Mediums : zome[m].status \in Statuses \cup {"none", "gone"} /\ zome[m].rev \in 0 .. MaxRevisions
  /\ \A h \in Hashes : shown[h] \in Statuses \cup {"none"}
  /\ page.at \in {"elsewhere", "list", "create", "suggest", "edit"} /\ page.phase \in {"loading", "ready", "failed"}
  /\ tab \in Statuses \cup {"all"}
  /\ \A b \in {filled, blocked, run.ok, run.live} : b \in BOOLEAN
  /\ others \in 0 .. MaxOthers /\ failures \in 0 .. MaxFailures

\* To an administrator who is alone, the list that has loaded shows each medium
\* there is once, as pending if and only if it waits for a decision, and as approved
\* only what is approved, though a medium that was edited, got by a tag or suggested
\* was among the approved ones before, and whatever failed since
\* (admin/mediums-of-exchange/+page.svelte:28-57, mediums_of_exchange.store:395-419).
ListIsWhatIs ==
  (others = 0 /\ run = Idle /\ page.at = "list" /\ page.phase = "ready") =>
    \A m \in Mediums :
      /\ shown[<<m, 0>>] # "none" <=> There(m)
      /\ shown[<<m, 0>>] = "pending" <=> zome[m].status = "pending"
      /\ shown[<<m, 0>>] = "approved" => zome[m].status = "approved"
      /\ \A r \in 1 .. MaxRevisions : shown[<<m, r>>] = "none"

\* A form loses what was written only when that was saved, or the page is left
\* (MediumOfExchangeSuggestionForm.svelte:61-96, MediumOfExchangeForm.svelte:39-98).
FailedIsKept == (filled /\ ~filled') => (page' # page \/ (run.on = "suggest" /\ run.ok))

\* What MediumOfExchangeForm.svelte:328 lets the user do once a call has failed ("Save
\* Changes"): send the form again.
CanTryAgain == (FormShown /\ filled /\ run = Idle) => isValid

\* What the alert of the create page's form says ("Failed"): nothing was made.
FailureMakesNothing == (run.on = "get saved" /\ blocked') => zome[run.id[1]] = None
=============================================================================
