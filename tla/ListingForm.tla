------------------------------ MODULE ListingForm ------------------------------
(***************************************************************************)
(* The pages that make, show and edit one request or offer:                *)
(* requests/create, requests/[id] and requests/[id]/edit with              *)
(* RequestForm.svelte, the same pages of offers with OfferForm.svelte,     *)
(* which are nearly the same code, the selectors of service types and      *)
(* mediums of exchange in the forms, and the administrators' tables with   *)
(* RequestDetailsModal.svelte and OfferDetailsModal.svelte.                *)
(*                                                                         *)
(* A form holds the types and mediums that will be sent; each selector     *)
(* holds its own selection and the approved entries it offers, and shows   *)
(* only the part of the selection that it offers.  Of the other fields the *)
(* model keeps whether they are filled in.  It leaves out the choice of an *)
(* organization and the store's cache (ListingStore has the cache).        *)
(***************************************************************************)
EXTENDS Naturals

CONSTANTS
  Types, Mediums,  \* the service types and mediums of exchange
  Listings,        \* the listings there may be
  Mine,            \* those this user makes or made; the others are another user's
  Admin,           \* whether this user is an administrator
  MaxSaves,        \* bound: revisions of a listing
  MaxOthers,       \* bound: what others do
  MaxFailures      \* bound: calls that fail

\* What the constants must be.
ListingFormAssumption ==
  /\ Mine \subseteq Listings
  /\ Admin \in BOOLEAN
  /\ MaxSaves \in Nat \ {0}
  /\ {MaxOthers, MaxFailures} \subseteq Nat

VARIABLES
  listing,   \* the latest revision of each listing
  approved,  \* the approved entries of both kinds
  page,      \* the page that is open
  view,      \* the listing it loaded
  form,      \* what the form would send
  picked,    \* the selections of its selectors
  offered,   \* the entries they offer
  touched,   \* history: the fields the user changed
  call,      \* the call under way
  said,      \* history: what the form said of the last call, and what came of it
  others,    \* what others did
  failures   \* calls that failed

formVars == <<form, picked, offered, touched>>
listingFormVars == <<listing, approved, page, view, formVars, call, said, others, failures>>

Fields == {"types", "mediums"}
All == [types |-> Types, mediums |-> Mediums]

Absent == [rev |-> 0, types |-> {}, mediums |-> {}, archived |-> FALSE]
There(id) == listing[id].rev > 0

\* What a page knows of a listing: its record, whose it is as far as the profile
\* of its author was found, and whether no lookup failed.
NoView == [rev |-> 0, types |-> {}, mediums |-> {}, archived |-> FALSE, creator |-> "unknown", whole |-> FALSE]

Page(at, id, phase) == [at |-> at, id |-> id, phase |-> phase]
Elsewhere == Page("list", 0, "ready")

Blank == [filled |-> FALSE, types |-> {}, mediums |-> {}]
Unloaded == [f \in Fields |-> [phase |-> "loading", has |-> {}]]
NoCall == [on |-> "none", id |-> 0, ok |-> FALSE, here |-> FALSE]

\* The other user's listings exist, and one of this user's may.
Init ==
  /\ listing \in [Listings -> {Absent} \cup [rev : {1}, types : (SUBSET Types) \ {{}}, mediums : SUBSET Mediums, archived : {FALSE}]]
  /\ \A id \in Listings \ Mine : There(id)
  /\ approved = All
  /\ page = Elsewhere
  /\ view = NoView
  /\ form = Blank
  /\ picked = [f \in Fields |-> {}]
  /\ offered = Unloaded
  /\ touched = {}
  /\ call = NoCall
  /\ said = [success |-> FALSE, ok |-> FALSE]
  /\ others = 0
  /\ failures = 0

-----------------------------------------------------------------------------
(* What the pages offer. *)

\* The page of a listing, and the modal of it, offer to edit and to delete it; its
\* organization is never known, so of a listing without a known creator only
\* administrators may.
CanDelete == view.rev > 0 /\ IF view.creator = "unknown" THEN Admin ELSE view.creator = "me"
CanEdit == CanDelete /\ ~view.archived

\* The modal offers both of an archived listing too, and to administrators of all
\* of them.
OfferedInModal == CanDelete \/ (view.rev > 0 /\ Admin)

\* The page that edits goes by the author's key when there is no creator.
CanEditHere(id) ==
  /\ view.rev > 0 /\ ~view.archived
  /\ IF view.creator = "unknown" THEN id \in Mine ELSE view.creator = "me"

\* What is on the screen: the table of the administrators, the modal over it, the
\* page of a listing, and the form.
TableShown == page.at = "admin" /\ page.phase = "ready" /\ view.rev > 0
ModalShown == page.at = "modal"
DetailsShown == page.at = "details" /\ page.phase = "ready" /\ view.rev > 0
FormShown ==
  /\ page.phase = "ready"
  /\ page.at = "create" \/ (page.at = "edit" /\ CanEditHere(page.id))

isValid == form.filled /\ form.types # {}

\* The selector shows the selected entries it offers.
Chips(f) == picked[f] \cap offered[f].has

-----------------------------------------------------------------------------
(* Pages are opened and load. *)

Fresh == /\ form' = Blank
         /\ picked' = [f \in Fields |-> {}]
         /\ offered' = Unloaded
         /\ touched' = {}

\* Fault: the listing of the page before stays.
OpenOver(p) ==
  /\ page' = p
  /\ UNCHANGED view
  /\ Fresh
  /\ call' = [call EXCEPT !.here = FALSE]

\* The user leaves the page: what it does goes on without it.
Open(p) ==
  /\ page' = p
  /\ view' = NoView
  /\ Fresh
  /\ call' = [call EXCEPT !.here = FALSE]

Visit ==
  /\ \/ \E id \in Listings : Open(Page("details", id, "loading")) \/ Open(Page("edit", id, "loading"))
     \/ Open(Page("create", 0, "loading")) \/ (page # Elsewhere /\ Open(Elsewhere))
  /\ UNCHANGED <<listing, approved, said, others, failures>>

\* The table of the administrators, of which one listing is kept, as the table read
\* it; its modal shows it without reading it again.
VisitAdminTable ==
  /\ Admin
  /\ \E id \in Listings : Open(Page("admin", id, "loading"))
  /\ UNCHANGED <<listing, approved, said, others, failures>>

HandleAdminAction ==
  /\ TableShown
  /\ page' = [page EXCEPT !.at = "modal"]
  /\ UNCHANGED <<listing, approved, view, formVars, call, said, others, failures>>

HandleViewDetails ==
  /\ ModalShown
  /\ Open(Page("details", page.id, "loading"))
  /\ UNCHANGED <<listing, approved, said, others, failures>>

\* The edit page is opened, which decides for itself.
HandleEdit ==
  /\ (DetailsShown /\ CanEdit) \/ (ModalShown /\ OfferedInModal)
  /\ Open(Page("edit", page.id, "loading"))
  /\ UNCHANGED <<listing, approved, said, others, failures>>

\* The form is shown whether or not the organizations could be read.
LoadData ==
  /\ page.at = "create" /\ page.phase = "loading"
  /\ page' = [page EXCEPT !.phase = "ready"]
  /\ UNCHANGED <<listing, approved, view, formVars, call, said, others, failures>>

\* What is read of a listing.  A lookup of its types, of its mediums or of its
\* author's profile that fails counts as finding none.
Reads(id, v) ==
  /\ There(id)
  /\ \E lost \in SUBSET (Fields \cup {"creator"}) :
       /\ lost = {} \/ failures < MaxFailures
       /\ failures' = failures + (IF lost = {} THEN 0 ELSE 1)
       /\ v = [rev |-> listing[id].rev,
               types |-> IF "types" \in lost THEN {} ELSE listing[id].types,
               mediums |-> IF "mediums" \in lost THEN {} ELSE listing[id].mediums,
               archived |-> listing[id].archived,
               creator |-> IF "creator" \in lost THEN "unknown" ELSE IF id \in Mine THEN "me" ELSE "other",
               whole |-> lost = {}]

FormOf(v) == [filled |-> TRUE, types |-> v.types, mediums |-> v.mediums]

LoadListing ==
  /\ page.at \in {"details", "edit", "admin"} /\ page.phase = "loading"
  /\ page' = [page EXCEPT !.phase = "ready"]
  /\ \/ /\ Reads(page.id, view')
        /\ IF page.at = "edit"
           THEN /\ form' = FormOf(view')
                /\ picked' = [f \in Fields |-> form'[f]]
           ELSE UNCHANGED <<form, picked>>
     \/ ~There(page.id) /\ UNCHANGED <<view, form, picked, failures>>
  /\ UNCHANGED <<listing, approved, offered, touched, call, said, others>>

LoadFails ==
  /\ page.phase = "loading" /\ page.at # "create"
  /\ failures < MaxFailures
  /\ failures' = failures + 1
  /\ page' = [page EXCEPT !.phase = "failed"]
  /\ UNCHANGED <<listing, approved, view, formVars, call, said, others>>

\* Fault: what is not approved any more is dropped from the selection.
LoadAndPrune(f) ==
  /\ FormShown /\ offered[f].phase = "loading"
  /\ offered' = [offered EXCEPT ![f] = [phase |-> "loaded", has |-> approved[f]]]
  /\ picked' = [picked EXCEPT ![f] = @ \cap approved[f]]
  /\ form' = [form EXCEPT ![f] = picked'[f]]
  /\ UNCHANGED <<listing, approved, page, view, touched, call, said, others, failures>>

\* A selector has loaded the approved entries; the selection stays as it is.
LoadSelector(f) ==
  /\ FormShown /\ offered[f].phase = "loading"
  /\ offered' = [offered EXCEPT ![f] = [phase |-> "loaded", has |-> approved[f]]]
  /\ UNCHANGED <<listing, approved, page, view, form, picked, touched, call, said, others, failures>>

SelectorFails(f) ==
  /\ FormShown /\ offered[f].phase = "loading"
  /\ failures < MaxFailures
  /\ failures' = failures + 1
  /\ offered' = [offered EXCEPT ![f] = [phase |-> "failed", has |-> {}]]
  /\ UNCHANGED <<listing, approved, page, view, form, picked, touched, call, said, others>>

\* Only the selector of types can be told to load again.
RetryLoading ==
  /\ FormShown /\ offered["types"].phase = "failed"
  /\ offered' = [offered EXCEPT !["types"] = [phase |-> "loading", has |-> {}]]
  /\ UNCHANGED <<listing, approved, page, view, form, picked, touched, call, said, others, failures>>

-----------------------------------------------------------------------------
(* The user fills in the form. *)

\* The selector tells the form its selection.
Select(f, s) ==
  /\ FormShown
  /\ picked' = [picked EXCEPT ![f] = s]
  /\ form' = [form EXCEPT ![f] = s]
  /\ touched' = touched \cup {f}
  /\ UNCHANGED <<listing, approved, page, view, offered, call, said, others, failures>>

HandleCheckboxChange(f, x) ==
  /\ x \in offered[f].has
  /\ Select(f, IF x \in picked[f] THEN picked[f] \ {x} ELSE picked[f] \cup {x})

ClearSelection(f) == Chips(f) # {} /\ Select(f, {})

WriteFields ==
  /\ FormShown /\ ~form.filled
  /\ form' = [form EXCEPT !.filled = TRUE]
  /\ UNCHANGED <<listing, approved, page, view, picked, offered, touched, call, said, others, failures>>

-----------------------------------------------------------------------------
(* The form is sent. *)

\* The zome links a listing only to approved entries, or refuses it.
Accepts == form.types \subseteq approved.types /\ form.mediums \subseteq approved.mediums

Sent == [rev |-> 1, types |-> form.types, mediums |-> form.mediums, archived |-> FALSE]

Calls(on, id, ok) == call' = [on |-> on, id |-> id, ok |-> ok, here |-> TRUE]

\* A call that is refused or that fails changes nothing.
Refused(on, id, ok) ==
  /\ \/ ~ok /\ failures' = failures
     \/ failures < MaxFailures /\ failures' = failures + 1
  /\ Calls(on, id, FALSE)
  /\ UNCHANGED listing

Create ==
  /\ page.at = "create"
  /\ \E id \in {i \in Mine : ~There(i)} :
       \/ /\ Accepts
          /\ listing' = [listing EXCEPT ![id] = Sent]
          /\ Calls("create", id, TRUE)
          /\ UNCHANGED failures
       \/ Refused("create", id, Accepts)

Update ==
  /\ page.at = "edit"
  /\ LET id == page.id  may == There(id) /\ (id \in Mine \/ Admin) /\ Accepts IN
     /\ listing[id].rev < MaxSaves
     /\ \/ /\ may
           /\ listing' = [listing EXCEPT ![id] = [Sent EXCEPT !.rev = listing[id].rev + 1]]
           /\ Calls("edit", id, TRUE)
           /\ UNCHANGED failures
        \/ Refused("edit", id, may)

HandleSubmit ==
  /\ FormShown /\ isValid /\ call.on = "none"
  /\ Create \/ Update
  /\ UNCHANGED <<approved, page, view, formVars, said, others>>

\* The button for developers: without a type the listing has none.
MockRequest ==
  /\ FormShown /\ call.on = "none"
  /\ Create
  /\ UNCHANGED <<approved, page, view, formVars, said, others>>

\* The form is emptied, and its selectors follow.
ResetForm ==
  /\ form' = Blank
  /\ picked' = [f \in Fields |-> {}]
  /\ touched' = {}
  /\ UNCHANGED offered

\* The page moves on to the list or to the listing, wherever the user is by now.
\* When the call failed it says so and tells nobody else: the form says that all
\* went well, and a form that creates is emptied.
SaveDone ==
  /\ call.on \in {"create", "edit"}
  /\ said' = [success |-> TRUE, ok |-> call.ok]
  /\ call' = NoCall
  /\ IF call.ok
     THEN /\ page' = IF call.on = "create" THEN Elsewhere ELSE Page("details", call.id, "loading")
          /\ view' = NoView
          /\ Fresh
     ELSE /\ IF call.on = "create" /\ call.here THEN ResetForm ELSE UNCHANGED formVars
          /\ UNCHANGED <<page, view>>
  /\ UNCHANGED <<listing, approved, others, failures>>

\* The page or the modal of a listing deletes it.
HandleDelete ==
  /\ (DetailsShown /\ CanDelete) \/ (ModalShown /\ OfferedInModal)
  /\ call.on = "none"
  /\ LET id == page.id
         on == IF page.at = "modal" THEN "delete in modal" ELSE "delete"
         may == There(id) /\ (id \in Mine \/ Admin) IN
     \/ /\ may
        /\ listing' = [listing EXCEPT ![id] = Absent]
        /\ Calls(on, id, TRUE)
        /\ UNCHANGED failures
     \/ Refused(on, id, may)
  /\ UNCHANGED <<approved, page, view, formVars, said, others>>

\* Then the page moves on to the list; from a modal, which closes, only a user who
\* is not with the administrators' pages is moved.
DeleteDone ==
  /\ call.on \in {"delete", "delete in modal"}
  /\ call' = NoCall
  /\ IF ~call.ok THEN UNCHANGED <<page, view, formVars>>
     ELSE /\ page' = IF call.on = "delete in modal" /\ page.at \in {"admin", "modal"}
                     THEN Page("admin", page.id, "ready") ELSE Elsewhere
          /\ view' = NoView
          /\ Fresh
  /\ UNCHANGED <<listing, approved, said, others, failures>>

-----------------------------------------------------------------------------
(* What others do meanwhile. *)

\* An approval is taken back or given again.  A type is unlinked from what it
\* classifies; a medium is not.
Moderate(f, x) ==
  /\ approved' = [approved EXCEPT ![f] = IF x \in @ THEN @ \ {x} ELSE @ \cup {x}]
  /\ listing' = IF f = "types" /\ x \in approved[f]
                THEN [id \in Listings |-> [listing[id] EXCEPT !.types = @ \ {x}]] ELSE listing

\* The listing is archived, by its author elsewhere or by an administrator.
ArchiveElsewhere(id) ==
  /\ There(id) /\ ~listing[id].archived
  /\ listing[id].rev < MaxSaves
  /\ listing' = [listing EXCEPT ![id].archived = TRUE, ![id].rev = @ + 1]
  /\ UNCHANGED approved

OthersAct ==
  /\ others < MaxOthers
  /\ others' = others + 1
  /\ \/ \E f \in Fields : \E x \in All[f] : Moderate(f, x)
     \/ \E id \in Listings : ArchiveElsewhere(id)
  /\ UNCHANGED <<page, view, formVars, call, said, failures>>

Next ==
  \/ Visit \/ VisitAdminTable \/ HandleAdminAction \/ HandleViewDetails \/ HandleEdit \/ LoadData \/ LoadListing \/ LoadFails
  \/ \E f \in Fields : \/ LoadSelector(f) \/ SelectorFails(f) \/ ClearSelection(f)
                       \/ \E x \in All[f] : HandleCheckboxChange(f, x)
  \/ RetryLoading \/ WriteFields
  \/ HandleSubmit \/ MockRequest \/ SaveDone \/ HandleDelete \/ DeleteDone
  \/ OthersAct

Spec == Init /\ [][Next]_listingFormVars

-----------------------------------------------------------------------------
(* Properties. *)

\* Type invariant.
TypeOK ==
  /\ \A id \in Listings : listing[id].rev \in 0 .. MaxSaves
  /\ page.at \in {"list", "create", "details", "edit", "admin", "modal"} /\ page.id \in Listings \cup {0}
  /\ page.at \in {"list", "create"} => view = NoView
  /\ \A f \in Fields : form[f] \cup picked[f] \cup offered[f].has \cup approved[f] \subseteq All[f]
  /\ touched \subseteq Fields
  /\ call.id \in Listings \cup {0}
  /\ others \in 0 .. MaxOthers /\ failures \in 0 .. MaxFailures

\* Whatever loads late, fails to load or is moderated meanwhile, a selector selects
\* what its form will send, also after the form was emptied, and a form that
\* creates sends nothing its selectors do not show
\* (RequestForm.svelte:282-298, ServiceTypeSelector.svelte:118-127).
ShownIsSent ==
  FormShown => \A f \in Fields :
    /\ picked[f] = form[f]
    /\ page.at = "create" => form[f] = Chips(f)

\* An edit changes only what the user changed: when the page could read the whole
\* listing, nobody revised it since and no type of it was unlinked, the types and
\* the mediums the user did not touch are the same in the new revision, those that
\* are not offered any more included
\* (RequestForm.svelte:39-92, 262-275, ServiceTypeSelector.svelte:153-190).
UntouchedIsKept ==
  \A id \in Listings :
    (/\ call.on = "none" /\ call'.on = "edit" /\ call'.ok /\ call'.id = id
     /\ view.whole /\ view.rev = listing[id].rev /\ view.types = listing[id].types)
    => \A f \in Fields \ touched : listing'[id][f] = listing[id][f]

\* Whoever is offered to edit or delete a listing is one whom the zome lets
\* (requests/[id]/+page.svelte:45-85, edit/+page.svelte:31-91, request.rs:359-375).
OfferedIsAllowed ==
  page.phase = "ready" =>
    /\ (DetailsShown /\ CanDelete) \/ (ModalShown /\ OfferedInModal) => page.id \in Mine \/ Admin
    /\ (page.at = "edit" /\ FormShown) => page.id \in Mine

\* What the form says when it is emptied (RequestForm.svelte:277-280, "created
\* successfully").
SuccessIsSaved == said.success => said.ok

\* What the page says of an edit ("Modify the request details", edit/+page.svelte:279),
\* for a listing one of whose lookups failed.
NothingIsLost ==
  \A id \in Listings :
    (/\ call.on = "none" /\ call'.on = "edit" /\ call'.ok /\ call'.id = id
     /\ view.rev = listing[id].rev)
    => \A f \in Fields \ touched : listing'[id][f] = listing[id][f]
=============================================================================
