------------------------------ MODULE PagesProofs ------------------------------
(***************************************************************************)
(* The pages of the UI, for any number of entries, of calls and of changes *)
(* by others.                                                              *)
(*                                                                         *)
(* The form of a listing: it sends what its selectors show, what the user  *)
(* did not touch is sent as it was, and who is offered to edit or delete a *)
(* listing may.                                                            *)
(*                                                                         *)
(* The session of a person: who has a profile is never taken for new,      *)
(* whatever overlaps; and to a person who waits for each call, the profile *)
(* that is shown is never replaced by an older revision, and is the latest *)
(* one once all calls have ended.                                          *)
(*                                                                         *)
(* The pages of the mediums of exchange: the list of an administrator says *)
(* of each medium what the zome says, and a form keeps what it was filled  *)
(* with when its call fails.                                               *)
(*                                                                         *)
(* The pages of an organization: its page shows it as it is, and the form  *)
(* of a listing offers it to its members while it is accepted.             *)
(*                                                                         *)
(* The pages of the service types: to a user who is alone the list shows   *)
(* the approved types, the moderation table offers what the zome accepts,  *)
(* and a form keeps what was written when its call fails.                  *)
(*                                                                         *)
(* The pages of an administrator: who waits for each call is shown, once   *)
(* all calls have ended, the statuses that are, and the administrators     *)
(* that are but for those changed since these were fetched.                *)
(***************************************************************************)
EXTENDS ListingForm, Sequences, TLAPS

CONSTANTS Callers, MaxRevisions, Waits, People, me, Matching, Retries, MaxEdits,
          Users, Organizations, MaxDecisions
VARIABLES profile, standing, listed, user, refreshing, loading, error, agentIsAdministrator,
          adminStatus, recent, started, timedOut, prerequisites, runs, doubtful,
          zome, shown, tab, filled, blocked, run,
          revision, members, coordinators, status, accepted, cache, current, address, organization, mayEdit, choices, fresh,
          arrays, related, search,
          all, fetchedBy, administrators, nonAdministrators, mounted, board, shared, bar, uncertain, changed, decisions

\* The session; its page, what is offered and its bounds are those declared above.
S == INSTANCE Session
\* The pages of the mediums of exchange, likewise.
M == INSTANCE MediumPages
\* The pages of an organization, which is at an address.
O == INSTANCE OrganizationPages WITH at <- address
\* The pages of the service types.
T == INSTANCE ServiceTypePages
\* The pages of an administrator.
B == INSTANCE Moderation

-----------------------------------------------------------------------------
(* The form of a listing: what the variables hold. *)

Sets == [types : SUBSET Types, mediums : SUBSET Mediums]
Records == [rev : 0 .. MaxSaves, types : SUBSET Types, mediums : SUBSET Mediums, archived : BOOLEAN]
Views == [rev : 0 .. MaxSaves, types : SUBSET Types, mediums : SUBSET Mediums, archived : BOOLEAN,
          creator : {"unknown", "me", "other"}, whole : BOOLEAN]
OfOne == {"details", "edit", "admin", "modal"}

PagesOpen == [at : {"list", "create"} \cup OfOne, id : Listings \cup {0}, phase : {"loading", "ready", "failed"}]
Calling == [on : {"none", "create", "edit", "delete", "delete in modal"}, id : Listings \cup {0},
            ok : BOOLEAN, here : BOOLEAN]

FormTypes ==
  /\ listing \in [Listings -> Records]
  /\ approved \in Sets
  /\ page \in PagesOpen
  /\ page.at \in OfOne => page.id \in Listings
  /\ view \in Views
  /\ page.at \in {"list", "create"} => view = NoView
  /\ touched \subseteq Fields
  /\ call \in Calling
  /\ call.on = "edit" => call.id \in Listings
  /\ others \in 0 .. MaxOthers /\ failures \in 0 .. MaxFailures

\* What a form would send, its selections and what it offers.
FieldTypes ==
  /\ form \in [filled : BOOLEAN, types : SUBSET Types, mediums : SUBSET Mediums]
  /\ picked \in [Fields -> SUBSET (Types \cup Mediums)]
  /\ offered \in [Fields -> [phase : {"loading", "loaded", "failed"}, has : SUBSET (Types \cup Mediums)]]
  /\ \A f \in Fields : picked[f] = form[f]
  /\ \A f \in Fields : offered[f].has \subseteq All[f]

\* A form that creates has what its selectors offer.
SentInv ==
  /\ \A f \in Fields : offered[f].phase # "loaded" => offered[f].has = {}
  /\ page.at = "create" => \A f \in Fields : form[f] \subseteq offered[f].has

\* What is known of the listing that a page has read.
ReadInv ==
  view.rev > 0 =>
    /\ page.at \in OfOne
    /\ page.phase = "ready"
    /\ view.creator = "me" => page.id \in Mine
    /\ There(page.id) => view.rev <= listing[page.id].rev
    /\ view.whole /\ view.rev = listing[page.id].rev => view.mediums = listing[page.id].mediums

\* The form that edits it has what the page read but for what was touched.
EditInv ==
  view.rev > 0 /\ page.at = "edit" => \A f \in Fields \ touched : form[f] = view[f]

\* The bounds are numbers.
LEMMA FormBounds ==
  ASSUME ListingFormAssumption
  PROVE  MaxSaves \in Nat /\ 1 <= MaxSaves /\ MaxOthers \in Nat /\ MaxFailures \in Nat
<1>1. MaxSaves \in Nat \ {0} /\ {MaxOthers, MaxFailures} \subseteq Nat
  BY DEF ListingFormAssumption
<1> QED BY <1>1

\* The page that creates waits for the call it made until it is left.
HereInv == call.on = "create" /\ call.here => page.at = "create"

\* The invariant holds at first.
LEMMA FormTypesInit ==
  ASSUME ListingFormAssumption, Init
  PROVE  FormTypes /\ FieldTypes /\ SentInv /\ ReadInv /\ EditInv /\ HereInv
<1> USE DEF Init, NoView, Blank, Unloaded, NoCall, Elsewhere, Page, All, Fields, Absent
<1>1. listing \in [Listings -> Records]
  <2>1. \A r \in {Absent} \cup [rev : {1}, types : (SUBSET Types) \ {{}}, mediums : SUBSET Mediums, archived : {FALSE}] :
          r \in Records
    <3>1. 0 \in 0 .. MaxSaves /\ 1 \in 0 .. MaxSaves
      BY FormBounds
    <3>2. Absent \in Records
      BY <3>1 DEF Records
    <3>3. \A r \in [rev : {1}, types : (SUBSET Types) \ {{}}, mediums : SUBSET Mediums, archived : {FALSE}] : r \in Records
      BY <3>1 DEF Records
    <3> QED BY <3>2, <3>3
  <2>2. listing \in [Listings -> {Absent} \cup [rev : {1}, types : (SUBSET Types) \ {{}}, mediums : SUBSET Mediums,
                                              archived : {FALSE}]]
    BY DEF Init
  <2> QED BY <2>1, <2>2
<1>2. view \in Views
  BY DEF ListingFormAssumption, Views
<1>3. others \in 0 .. MaxOthers /\ failures \in 0 .. MaxFailures
  BY DEF ListingFormAssumption
<1>5. FormTypes
  BY <1>1, <1>2, <1>3 DEF FormTypes, Sets, OfOne, PagesOpen, Calling
<1>6. FieldTypes
  BY DEF FieldTypes
<1>7. SentInv /\ ReadInv /\ EditInv /\ HereInv
  BY DEF SentInv, ReadInv, EditInv, HereInv
<1> QED BY <1>5, <1>6, <1>7

\* Failures are counted up to their bound.
LEMMA FailureCounted ==
  ASSUME ListingFormAssumption, failures \in 0 .. MaxFailures, NEW n, n \in {0, 1},
         n = 0 \/ failures < MaxFailures, failures' = failures + n
  PROVE  failures' \in 0 .. MaxFailures
BY FormBounds

\* The page that is opened.
LEMMA PageIs ==
  ASSUME NEW at \in {"list", "create"} \cup OfOne, NEW id \in Listings \cup {0},
         NEW phase \in {"loading", "ready", "failed"}
  PROVE  /\ Page(at, id, phase) \in PagesOpen
         /\ Page(at, id, phase).at = at /\ Page(at, id, phase).id = id /\ Page(at, id, phase).phase = phase
BY DEF Page, PagesOpen

\* The page that is open when none of these is.
LEMMA ElsewhereIs == Elsewhere \in PagesOpen /\ Elsewhere.at = "list" /\ "list" \notin OfOne /\ "create" \notin OfOne
BY PageIs DEF Elsewhere, OfOne

\* A page that goes on to another phase.
LEMMA PageKept ==
  ASSUME page \in PagesOpen
  PROVE  /\ page.at \in {"list", "create"} \cup OfOne /\ page.id \in Listings \cup {0}
         /\ \A phase \in {"loading", "ready", "failed"} :
              /\ [page EXCEPT !.phase = phase] \in PagesOpen
              /\ [page EXCEPT !.phase = phase].at = page.at
              /\ [page EXCEPT !.phase = phase].id = page.id
              /\ [page EXCEPT !.phase = phase].phase = phase
BY DEF PagesOpen

\* A call that its page leaves alone is still the same call.
LEMMA CallKept ==
  ASSUME call \in Calling
  PROVE  LET left == [call EXCEPT !.here = FALSE] IN
         left \in Calling /\ left.on = call.on /\ left.id = call.id /\ left.ok = call.ok
BY DEF Calling

\* A call that begins, and none.
LEMMA CallIs ==
  ASSUME NEW on \in {"create", "edit", "delete", "delete in modal"}, NEW id \in Listings \cup {0}, NEW ok \in BOOLEAN,
         Calls(on, id, ok)
  PROVE  call' \in Calling /\ call'.on = on /\ call'.id = id /\ call'.ok = ok
BY DEF Calling, Calls

LEMMA NoCallIs == NoCall \in Calling /\ NoCall.on = "none"
BY DEF Calling, NoCall

\* What a page knows when it has read nothing.
LEMMA NoViewIs ==
  ASSUME ListingFormAssumption
  PROVE  NoView \in Views /\ NoView.rev = 0 /\ NoView.creator = "unknown" /\ NoView.whole = FALSE
BY DEF ListingFormAssumption, NoView, Views

\* What a page reads of a listing.
LEMMA ReadsIs ==
  ASSUME ListingFormAssumption, FormTypes, NEW id \in Listings, Reads(id, view')
  PROVE  /\ view' \in Views
         /\ failures' \in 0 .. MaxFailures
         /\ There(id)
         /\ view'.rev = listing[id].rev
         /\ view'.creator = "me" => id \in Mine
         /\ view'.whole => view'.mediums = listing[id].mediums /\ view'.types = listing[id].types
<1>1. PICK lost \in SUBSET (Fields \cup {"creator"}) :
        /\ lost = {} \/ failures < MaxFailures
        /\ failures' = failures + (IF lost = {} THEN 0 ELSE 1)
        /\ view' = [rev |-> listing[id].rev,
                    types |-> IF "types" \in lost THEN {} ELSE listing[id].types,
                    mediums |-> IF "mediums" \in lost THEN {} ELSE listing[id].mediums,
                    archived |-> listing[id].archived,
                    creator |-> IF "creator" \in lost THEN "unknown" ELSE IF id \in Mine THEN "me" ELSE "other",
                    whole |-> lost = {}]
  BY DEF Reads
<1>2. There(id)
  BY DEF Reads
<1>3. listing[id] \in Records
  BY DEF FormTypes
<1>4. view' \in Views
  <2>1. /\ listing[id].rev \in 0 .. MaxSaves /\ listing[id].types \in SUBSET Types
        /\ listing[id].mediums \in SUBSET Mediums /\ listing[id].archived \in BOOLEAN
    BY <1>3 DEF Records
  <2>2. (lost = {}) \in BOOLEAN
    OBVIOUS
  <2>3. (IF "creator" \in lost THEN "unknown" ELSE IF id \in Mine THEN "me" ELSE "other") \in {"unknown", "me", "other"}
    OBVIOUS
  <2> QED BY <1>1, <2>1, <2>2, <2>3 DEF Views
<1>5. failures' \in 0 .. MaxFailures
  <2>1. failures \in 0 .. MaxFailures
    BY DEF FormTypes
  <2>2. (IF lost = {} THEN 0 ELSE 1) \in {0, 1} /\ (lost = {} => (IF lost = {} THEN 0 ELSE 1) = 0)
    OBVIOUS
  <2> QED BY <1>1, <2>1, <2>2, FailureCounted
<1> QED BY <1>1, <1>2, <1>4, <1>5

\* A call that is refused.
LEMMA RefusedIs ==
  ASSUME ListingFormAssumption, FormTypes, NEW on \in {"create", "edit", "delete", "delete in modal"},
         NEW id \in Listings, NEW ok, Refused(on, id, ok)
  PROVE  /\ UNCHANGED listing /\ failures' \in 0 .. MaxFailures
         /\ call' \in Calling /\ call'.on = on /\ call'.id = id /\ call'.ok = FALSE
<1>1. failures \in 0 .. MaxFailures
  BY DEF FormTypes
<1>2. failures' \in 0 .. MaxFailures
  BY <1>1, FailureCounted DEF Refused
<1> QED BY <1>2, CallIs DEF Refused

\* What is sent.
LEMMA SentIsRecord ==
  ASSUME ListingFormAssumption, FieldTypes
  PROVE  /\ \A n \in 0 .. MaxSaves : [Sent EXCEPT !.rev = n] \in Records /\ [Sent EXCEPT !.rev = n].rev = n
         /\ \A n : [Sent EXCEPT !.rev = n].types = form.types /\ [Sent EXCEPT !.rev = n].mediums = form.mediums
         /\ Sent \in Records /\ Sent.rev = 1
<1>1. 1 \in 0 .. MaxSaves
  BY FormBounds
<1>2. form.types \in SUBSET Types /\ form.mediums \in SUBSET Mediums
  BY DEF FieldTypes
<1> QED BY <1>1, <1>2 DEF Sent, Records

\* A listing is made, by someone who makes it.
LEMMA CreateIs ==
  ASSUME ListingFormAssumption, FormTypes, FieldTypes, Create
  PROVE  /\ page.at = "create" /\ failures' \in 0 .. MaxFailures
         /\ call' \in Calling /\ call'.on = "create"
         /\ \/ UNCHANGED listing
            \/ \E id \in Listings : listing' = [listing EXCEPT ![id] = Sent]
         /\ listing' \in [Listings -> Records]
<1>1. PICK id \in {i \in Mine : ~There(i)} :
        \/ /\ Accepts
           /\ listing' = [listing EXCEPT ![id] = Sent]
           /\ Calls("create", id, TRUE)
           /\ UNCHANGED failures
        \/ Refused("create", id, Accepts)
  BY DEF Create
<1>2. id \in Listings
  BY DEF ListingFormAssumption
<1>3. page.at = "create"
  BY DEF Create
<1>4. failures \in 0 .. MaxFailures /\ listing \in [Listings -> Records]
  BY DEF FormTypes
<1>5. CASE Refused("create", id, Accepts)
  BY <1>2, <1>3, <1>4, <1>5, RefusedIs
<1>6. CASE listing' = [listing EXCEPT ![id] = Sent] /\ Calls("create", id, TRUE) /\ UNCHANGED failures
  <2>1. call' \in Calling /\ call'.on = "create"
    BY <1>2, <1>6, CallIs
  <2>2. listing' \in [Listings -> Records]
    BY <1>4, <1>6, SentIsRecord
  <2> QED BY <1>2, <1>3, <1>4, <1>6, <2>1, <2>2
<1> QED BY <1>1, <1>5, <1>6

\* The listing of the page is revised.
LEMMA UpdateIs ==
  ASSUME ListingFormAssumption, FormTypes, FieldTypes, Update
  PROVE  /\ page.at = "edit" /\ page.id \in Listings /\ failures' \in 0 .. MaxFailures
         /\ call' \in Calling /\ call'.on = "edit" /\ call'.id = page.id
         /\ \/ UNCHANGED listing /\ ~call'.ok
            \/ /\ There(page.id)
               /\ listing' = [listing EXCEPT ![page.id] = [Sent EXCEPT !.rev = listing[page.id].rev + 1]]
         /\ listing' \in [Listings -> Records]
<1>1. page.at = "edit" /\ page.id \in Listings
  BY DEF Update, FormTypes, OfOne
<1>2. failures \in 0 .. MaxFailures /\ listing \in [Listings -> Records]
  BY DEF FormTypes
<1>3. listing[page.id].rev < MaxSaves
  BY DEF Update
<1>4. ASSUME NEW may, Refused("edit", page.id, may)
      PROVE  /\ UNCHANGED listing /\ ~call'.ok /\ failures' \in 0 .. MaxFailures
             /\ call' \in Calling /\ call'.on = "edit" /\ call'.id = page.id
  BY <1>1, <1>4, RefusedIs
<1>5. CASE /\ There(page.id)
           /\ listing' = [listing EXCEPT ![page.id] = [Sent EXCEPT !.rev = listing[page.id].rev + 1]]
           /\ Calls("edit", page.id, TRUE)
           /\ UNCHANGED failures
  <2>1. call' \in Calling /\ call'.on = "edit" /\ call'.id = page.id
    BY <1>1, <1>5, CallIs
  <2>2. listing[page.id].rev \in 0 .. MaxSaves
    BY <1>1, <1>2 DEF Records
  <2>3. listing[page.id].rev + 1 \in 0 .. MaxSaves
    BY <1>3, <2>2, FormBounds
  <2>4. listing' \in [Listings -> Records]
    BY <1>2, <1>5, <2>3, SentIsRecord
  <2> QED BY <1>1, <1>2, <1>5, <2>1, <2>4
<1> QED BY <1>1, <1>2, <1>4, <1>5 DEF Update

\* A listing that is not there.
LEMMA AbsentIs ==
  ASSUME ListingFormAssumption
  PROVE  Absent \in Records /\ Absent.rev = 0
<1>1. 0 \in 0 .. MaxSaves
  BY FormBounds
<1> QED BY <1>1 DEF Absent, Records

\* The listing of the page is deleted.
LEMMA HandleDeleteIs ==
  ASSUME ListingFormAssumption, FormTypes, HandleDelete
  PROVE  /\ page.id \in Listings /\ failures' \in 0 .. MaxFailures
         /\ call' \in Calling /\ call'.on \in {"delete", "delete in modal"}
         /\ listing' = listing \/ listing' = [listing EXCEPT ![page.id] = Absent]
         /\ listing' \in [Listings -> Records]
         /\ UNCHANGED <<approved, page, view, formVars, said, others>>
<1>1. page.id \in Listings
  BY DEF HandleDelete, DetailsShown, ModalShown, FormTypes, OfOne
<1>2. failures \in 0 .. MaxFailures /\ listing \in [Listings -> Records]
  BY DEF FormTypes
<1>3. PICK on \in {"delete", "delete in modal"}, may \in {TRUE, FALSE} :
        \/ /\ listing' = [listing EXCEPT ![page.id] = Absent]
           /\ Calls(on, page.id, TRUE)
           /\ UNCHANGED failures
        \/ Refused(on, page.id, may)
  BY DEF HandleDelete
<1>4. CASE Refused(on, page.id, may)
  BY <1>1, <1>2, <1>4, RefusedIs DEF HandleDelete
<1>5. CASE listing' = [listing EXCEPT ![page.id] = Absent] /\ Calls(on, page.id, TRUE) /\ UNCHANGED failures
  <2>1. call' \in Calling /\ call'.on = on
    BY <1>1, <1>5, CallIs
  <2>2. Absent \in Records
    BY AbsentIs
  <2>3. listing' \in [Listings -> Records]
    BY <1>2, <1>5, <2>2
  <2> QED BY <1>1, <1>2, <1>5, <2>1, <2>3 DEF HandleDelete
<1> QED BY <1>3, <1>4, <1>5

\* What others do to a listing: a type is unlinked from it, or it is archived.
LEMMA OthersActIs ==
  ASSUME ListingFormAssumption, FormTypes, OthersAct
  PROVE  /\ others' \in 0 .. MaxOthers
         /\ approved' \in Sets
         /\ listing' \in [Listings -> Records]
         /\ \A id \in Listings :
              \/ listing'[id].rev = listing[id].rev /\ listing'[id].mediums = listing[id].mediums
              \/ There(id) /\ listing'[id].rev = listing[id].rev + 1
         /\ UNCHANGED <<page, view, formVars, call, said, failures>>
<1>0. /\ others \in 0 .. MaxOthers /\ approved \in Sets /\ listing \in [Listings -> Records]
      /\ \A id \in Listings : /\ listing[id] \in Records /\ listing[id].rev \in 0 .. MaxSaves
                             /\ listing[id].types \in SUBSET Types
  BY DEF FormTypes, Records
<1>1. others' \in 0 .. MaxOthers
  BY <1>0, FormBounds DEF OthersAct
<1>2. UNCHANGED <<page, view, formVars, call, said, failures>>
  BY DEF OthersAct
<1>3. ASSUME NEW f \in Fields, NEW x \in All[f], Moderate(f, x)
      PROVE  /\ approved' \in Sets /\ listing' \in [Listings -> Records]
             /\ \A id \in Listings : listing'[id].rev = listing[id].rev /\ listing'[id].mediums = listing[id].mediums
  <2>1. approved' \in Sets
    <3>1. CASE f = "types"
      BY <1>0, <1>3, <3>1 DEF Moderate, Sets, All
    <3>2. CASE f = "mediums"
      BY <1>0, <1>3, <3>2 DEF Moderate, Sets, All
    <3> QED BY <3>1, <3>2 DEF Fields
  <2>2. \A id \in Listings : LET r == [listing[id] EXCEPT !.types = listing[id].types \ {x}] IN
          r \in Records /\ r.rev = listing[id].rev /\ r.mediums = listing[id].mediums
    BY <1>0 DEF Records
  <2>3. \/ listing' = listing
        \/ listing' = [id \in Listings |-> [listing[id] EXCEPT !.types = listing[id].types \ {x}]]
    BY <1>3 DEF Moderate
  <2> QED BY <1>0, <2>1, <2>2, <2>3
<1>4. ASSUME NEW k \in Listings, ArchiveElsewhere(k)
      PROVE  /\ approved' \in Sets /\ listing' \in [Listings -> Records]
             /\ \A id \in Listings :
                  \/ listing'[id].rev = listing[id].rev /\ listing'[id].mediums = listing[id].mediums
                  \/ There(id) /\ listing'[id].rev = listing[id].rev + 1
  <2>1. There(k) /\ listing[k].rev < MaxSaves /\ UNCHANGED approved
        /\ listing' = [listing EXCEPT ![k].archived = TRUE, ![k].rev = @ + 1]
    BY <1>4 DEF ArchiveElsewhere
  <2>2. listing[k].rev + 1 \in 0 .. MaxSaves
    BY <1>0, <2>1, FormBounds
  <2>3. listing'[k] \in Records /\ listing'[k].rev = listing[k].rev + 1
    BY <1>0, <2>1, <2>2 DEF Records
  <2>4. \A id \in Listings \ {k} : listing'[id] = listing[id]
    BY <1>0, <2>1
  <2>5. listing' \in [Listings -> Records]
    <3>1. DOMAIN listing' = Listings /\ listing' = [id \in Listings |-> listing'[id]]
      BY <1>0, <2>1
    <3> QED BY <1>0, <2>3, <2>4, <3>1
  <2> QED BY <1>0, <2>1, <2>3, <2>4, <2>5
<1> QED BY <1>1, <1>2, <1>3, <1>4 DEF OthersAct

\* Another page is opened.
LEMMA OpenTypes ==
  ASSUME ListingFormAssumption, FormTypes, NEW p \in PagesOpen, p.at \in OfOne => p.id \in Listings,
         Open(p), UNCHANGED <<listing, approved, others, failures>>
  PROVE  FormTypes'
<1>1. /\ page' = p /\ view' = NoView /\ touched' = {}
      /\ call' = [call EXCEPT !.here = FALSE]
  BY DEF Open, Fresh
<1>2. call' \in Calling /\ call'.on = call.on /\ call'.id = call.id
  BY <1>1, CallKept DEF FormTypes
<1> QED BY <1>1, <1>2, NoViewIs DEF FormTypes

\* Every step keeps the types.
LEMMA FormTypesStep ==
  ASSUME ListingFormAssumption, FormTypes, FieldTypes, [Next]_listingFormVars
  PROVE  FormTypes'
<1>a. /\ page \in PagesOpen /\ (page.at \in OfOne => page.id \in Listings)
      /\ call \in Calling /\ failures \in 0 .. MaxFailures /\ others \in 0 .. MaxOthers
      /\ listing \in [Listings -> Records] /\ approved \in Sets
  BY DEF FormTypes
<1>b. \A at \in OfOne : at \in {"list", "create"} \cup OfOne /\ at \notin {"list", "create"}
  BY DEF OfOne
<1>c. {"details", "edit", "admin", "modal"} = OfOne
  BY DEF OfOne
<1>0. CASE UNCHANGED listingFormVars
  BY <1>0 DEF listingFormVars, formVars, FormTypes
<1>1. CASE Visit
  <2>1. PICK p \in PagesOpen : (p.at \in OfOne => p.id \in Listings) /\ Open(p)
    <3>1. ASSUME NEW id \in Listings, NEW at \in {"details", "edit"}, Open(Page(at, id, "loading"))
          PROVE  \E p \in PagesOpen : (p.at \in OfOne => p.id \in Listings) /\ Open(p)
      BY <3>1, <1>b, <1>c, PageIs
    <3>2. ASSUME Open(Page("create", 0, "loading"))
          PROVE  \E p \in PagesOpen : (p.at \in OfOne => p.id \in Listings) /\ Open(p)
      BY <3>2, PageIs, ElsewhereIs
    <3>3. ASSUME Open(Elsewhere)
          PROVE  \E p \in PagesOpen : (p.at \in OfOne => p.id \in Listings) /\ Open(p)
      BY <3>3, ElsewhereIs
    <3> QED BY <1>1, <3>1, <3>2, <3>3 DEF Visit
  <2> QED BY <1>1, <2>1, OpenTypes DEF Visit
<1>2. CASE VisitAdminTable
  <2>1. PICK id \in Listings : Open(Page("admin", id, "loading"))
    BY <1>2 DEF VisitAdminTable
  <2>2. Page("admin", id, "loading") \in PagesOpen /\ Page("admin", id, "loading").id = id
    BY <1>b, <1>c, PageIs
  <2> QED BY <1>2, <2>1, <2>2, OpenTypes DEF VisitAdminTable
<1>3. CASE HandleAdminAction
  <2>1. page' = [page EXCEPT !.at = "modal"] /\ page.at = "admin"
    BY <1>3 DEF HandleAdminAction, TableShown
  <2>2. page' \in PagesOpen /\ page'.at = "modal" /\ page'.id = page.id
    BY <1>a, <2>1, <1>b, <1>c DEF PagesOpen
  <2> QED BY <1>3, <1>a, <2>1, <2>2, <1>c DEF HandleAdminAction, formVars, FormTypes
<1>4. CASE HandleViewDetails
  <2>1. page.id \in Listings
    BY <1>4, <1>a, <1>c DEF HandleViewDetails, ModalShown
  <2>2. Page("details", page.id, "loading") \in PagesOpen /\ Page("details", page.id, "loading").id = page.id
    BY <1>b, <1>c, <2>1, PageIs
  <2> QED BY <1>4, <2>1, <2>2, OpenTypes DEF HandleViewDetails
<1>5. CASE HandleEdit
  <2>1. page.id \in Listings
    BY <1>5, <1>a, <1>c DEF HandleEdit, ModalShown, DetailsShown
  <2>2. Page("edit", page.id, "loading") \in PagesOpen /\ Page("edit", page.id, "loading").id = page.id
    BY <1>b, <1>c, <2>1, PageIs
  <2> QED BY <1>5, <2>1, <2>2, OpenTypes DEF HandleEdit
<1>6. CASE LoadData
  BY <1>6, <1>a, PageKept DEF LoadData, formVars, FormTypes
<1>7. CASE LoadListing
  <2>1. page.id \in Listings /\ page.at \in OfOne /\ page' = [page EXCEPT !.phase = "ready"]
    BY <1>7, <1>a, <1>c DEF LoadListing
  <2>2. page' \in PagesOpen /\ page'.at = page.at /\ page'.id = page.id
    BY <1>a, <2>1, PageKept
  <2>3. view' \in Views /\ failures' \in 0 .. MaxFailures
    <3>1. CASE Reads(page.id, view')
      BY <2>1, <3>1, ReadsIs
    <3>2. CASE UNCHANGED <<view, failures>>
      BY <3>2 DEF FormTypes
    <3> QED BY <1>7, <3>1, <3>2 DEF LoadListing
  <2> QED BY <1>7, <1>b, <2>1, <2>2, <2>3 DEF LoadListing, FormTypes
<1>8. CASE LoadFails
  <2>1. page' = [page EXCEPT !.phase = "failed"] /\ failures' = failures + 1 /\ failures < MaxFailures
    BY <1>8 DEF LoadFails
  <2>2. page' \in PagesOpen /\ page'.at = page.at /\ page'.id = page.id
    BY <1>a, <2>1, PageKept
  <2>3. failures' \in 0 .. MaxFailures
    BY <1>a, <2>1, FailureCounted
  <2> QED BY <1>8, <2>1, <2>2, <2>3 DEF LoadFails, formVars, FormTypes
<1>9. ASSUME NEW f \in Fields,
             \/ LoadSelector(f) \/ SelectorFails(f) \/ ClearSelection(f)
             \/ \E x \in All[f] : HandleCheckboxChange(f, x)
      PROVE  FormTypes'
  <2>1. /\ failures' \in 0 .. MaxFailures
        /\ touched' \subseteq Fields
        /\ UNCHANGED <<listing, approved, page, view, call, others>>
    <3>1. CASE LoadSelector(f)
      BY <3>1, <1>a DEF LoadSelector, FormTypes
    <3>2. CASE SelectorFails(f)
      BY <3>2, <1>a, FailureCounted DEF SelectorFails, FormTypes
    <3>3. ASSUME NEW s, Select(f, s)
          PROVE  failures' \in 0 .. MaxFailures /\ touched' \subseteq Fields
                 /\ UNCHANGED <<listing, approved, page, view, call, others>>
      BY <3>3, <1>a DEF Select, FormTypes
    <3> QED BY <1>9, <3>1, <3>2, <3>3 DEF ClearSelection, HandleCheckboxChange
  <2> QED BY <2>1 DEF FormTypes
<1>10. CASE RetryLoading
  BY <1>10 DEF RetryLoading, FormTypes
<1>11. CASE WriteFields
  BY <1>11 DEF WriteFields, FormTypes
<1>12. CASE HandleSubmit
  <2>1. CASE Create
    BY <1>12, <2>1, CreateIs DEF HandleSubmit, formVars, FormTypes
  <2>2. CASE Update
    BY <1>12, <2>2, UpdateIs DEF HandleSubmit, formVars, FormTypes
  <2> QED BY <1>12, <2>1, <2>2 DEF HandleSubmit
<1>13. CASE MockRequest
  BY <1>13, CreateIs DEF MockRequest, formVars, FormTypes
<1>14. CASE SaveDone
  <2>1. /\ page' \in PagesOpen /\ (page'.at \in OfOne => page'.id \in Listings)
        /\ view' \in Views /\ (page'.at \in {"list", "create"} => view' = NoView)
        /\ touched' \subseteq Fields
    <3>1. CASE call.ok /\ call.on = "create"
      BY <1>14, <3>1, ElsewhereIs, NoViewIs DEF SaveDone, Fresh
    <3>2. CASE call.ok /\ call.on = "edit"
      <4>1. call.id \in Listings
        BY <3>2 DEF FormTypes
      <4> QED BY <1>14, <3>2, <4>1, <1>b, <1>c, PageIs, NoViewIs DEF SaveDone, Fresh
    <3>3. CASE ~call.ok
      BY <1>14, <3>3 DEF SaveDone, ResetForm, formVars, FormTypes
    <3> QED BY <1>14, <3>1, <3>2, <3>3 DEF SaveDone
  <2>2. call' = NoCall /\ UNCHANGED <<listing, approved, others, failures>>
    BY <1>14 DEF SaveDone
  <2> QED BY <2>1, <2>2, NoCallIs DEF FormTypes
<1>16. CASE DeleteDone
  <2>1. /\ page' \in PagesOpen /\ (page'.at \in OfOne => page'.id \in Listings)
        /\ view' \in Views /\ (page'.at \in {"list", "create"} => view' = NoView)
        /\ touched' \subseteq Fields
    <3>1. CASE call.ok /\ page.at \in {"admin", "modal"} /\ call.on = "delete in modal"
      <4>1. page.id \in Listings
        BY <3>1, <1>a, <1>c
      <4>2. page' = Page("admin", page.id, "ready") /\ view' = NoView /\ touched' = {}
        BY <1>16, <3>1 DEF DeleteDone, Fresh
      <4>3. page' \in PagesOpen /\ page'.at = "admin" /\ page'.id = page.id
        BY <4>1, <4>2, <1>b, <1>c, PageIs
      <4> QED BY <4>1, <4>2, <4>3, NoViewIs
    <3>2. CASE call.ok /\ ~(page.at \in {"admin", "modal"} /\ call.on = "delete in modal")
      <4>1. page' = Elsewhere /\ view' = NoView /\ touched' = {}
        BY <1>16, <3>2 DEF DeleteDone, Fresh
      <4> QED BY <4>1, ElsewhereIs, NoViewIs
    <3>3. CASE ~call.ok
      BY <1>16, <3>3 DEF DeleteDone, formVars, FormTypes
    <3> QED BY <3>1, <3>2, <3>3
  <2>2. call' = NoCall /\ UNCHANGED <<listing, approved, others, failures>>
    BY <1>16 DEF DeleteDone
  <2> QED BY <2>1, <2>2, NoCallIs DEF FormTypes
<1>15. CASE HandleDelete
  BY <1>15, HandleDeleteIs DEF formVars, FormTypes
<1>17. CASE OthersAct
  BY <1>17, OthersActIs DEF formVars, FormTypes
<1> QED
  BY <1>0, <1>1, <1>2, <1>3, <1>4, <1>5, <1>6, <1>7, <1>8, <1>9, <1>10, <1>11, <1>12, <1>13, <1>14, <1>15, <1>16,
     <1>17 DEF Next

\* The form when a page is opened, and when it is emptied.
LEMMA FreshIs ==
  ASSUME Fresh
  PROVE  /\ FieldTypes'
         /\ \A f \in Fields : form'[f] = {} /\ offered'[f].has = {}
<1> USE DEF Fresh, Blank, Unloaded, Fields
<1>1. form' = Blank /\ picked' = [f \in Fields |-> {}] /\ offered' = Unloaded
  OBVIOUS
<1>2. \A f \in Fields : form'[f] = {} /\ offered'[f].has = {} /\ picked'[f] = {}
  BY <1>1
<1>3. \A f \in Fields : offered'[f] \in [phase : {"loading", "loaded", "failed"}, has : SUBSET (Types \cup Mediums)]
  BY <1>1
<1>4. form' \in [filled : BOOLEAN, types : SUBSET Types, mediums : SUBSET Mediums]
  BY <1>1
<1> QED BY <1>1, <1>2, <1>3, <1>4 DEF FieldTypes

\* A form that is emptied.
LEMMA ResetFormIs ==
  ASSUME FieldTypes, ResetForm
  PROVE  /\ FieldTypes'
         /\ UNCHANGED offered
         /\ \A f \in Fields : form'[f] = {}
<1>1. form' = Blank /\ picked' = [f \in Fields |-> {}] /\ offered' = offered
  BY DEF ResetForm
<1>2. \A f \in Fields : form'[f] = {} /\ picked'[f] = {}
  BY <1>1 DEF Blank, Fields
<1>3. form' \in [filled : BOOLEAN, types : SUBSET Types, mediums : SUBSET Mediums]
  BY <1>1 DEF Blank
<1> QED BY <1>1, <1>2, <1>3 DEF FieldTypes

\* The user selects for one field what it offers or held.
LEMMA SelectIs ==
  ASSUME FieldTypes, NEW f \in Fields, NEW s \in SUBSET All[f], Select(f, s)
  PROVE  /\ FieldTypes'
         /\ form'[f] = s /\ \A g \in Fields \ {f} : form'[g] = form[g]
         /\ touched' = touched \cup {f}
         /\ UNCHANGED <<page, view, offered>>
<1>1. /\ picked' = [picked EXCEPT ![f] = s] /\ form' = [form EXCEPT ![f] = s]
      /\ touched' = touched \cup {f} /\ UNCHANGED <<page, view, offered>>
  BY DEF Select
<1>2. form'[f] = s /\ \A g \in Fields \ {f} : form'[g] = form[g]
  BY <1>1 DEF FieldTypes, Fields
<1>3. picked' \in [Fields -> SUBSET (Types \cup Mediums)]
  BY <1>1 DEF FieldTypes, Fields, All
<1>4. \A g \in Fields : picked'[g] = form'[g]
  BY <1>1, <1>2 DEF FieldTypes
<1>5. form' \in [filled : BOOLEAN, types : SUBSET Types, mediums : SUBSET Mediums]
  <2>1. CASE f = "types"
    BY <1>1, <2>1 DEF FieldTypes, All
  <2>2. CASE f = "mediums"
    BY <1>1, <2>2 DEF FieldTypes, All
  <2> QED BY <2>1, <2>2 DEF Fields
<1> QED BY <1>1, <1>2, <1>3, <1>4, <1>5 DEF FieldTypes

\* Both ways to select: what is selected was offered, or selected before.
LEMMA SelectsIs ==
  ASSUME FieldTypes, NEW f \in Fields,
         ClearSelection(f) \/ \E x \in All[f] : HandleCheckboxChange(f, x)
  PROVE  \E s \in SUBSET All[f] : Select(f, s) /\ s \subseteq form[f] \cup offered[f].has
<1>1. CASE ClearSelection(f)
  BY <1>1 DEF ClearSelection
<1>2. ASSUME NEW x \in All[f], HandleCheckboxChange(f, x)
      PROVE  \E s \in SUBSET All[f] : Select(f, s) /\ s \subseteq form[f] \cup offered[f].has
  <2>1. form[f] \subseteq All[f] /\ picked[f] = form[f]
    <3>1. CASE f = "types"
      BY <3>1 DEF FieldTypes, All
    <3>2. CASE f = "mediums"
      BY <3>2 DEF FieldTypes, All
    <3>3. picked[f] = form[f]
      BY DEF FieldTypes
    <3> QED BY <3>1, <3>2, <3>3 DEF Fields
  <2>2. x \in offered[f].has /\ Select(f, IF x \in picked[f] THEN picked[f] \ {x} ELSE picked[f] \cup {x})
    BY <1>2 DEF HandleCheckboxChange
  <2>3. CASE x \in picked[f]
    BY <2>1, <2>2, <2>3
  <2>4. CASE x \notin picked[f]
    BY <2>1, <2>2, <2>4
  <2> QED BY <2>3, <2>4
<1> QED BY <1>1, <1>2

\* A selector loads, fails to load, or begins again.
LEMMA OfferIs ==
  ASSUME FormTypes, FieldTypes, NEW f \in Fields, NEW p \in {"loading", "loaded", "failed"}, NEW h \in SUBSET All[f],
         offered' = [offered EXCEPT ![f] = [phase |-> p, has |-> h]], UNCHANGED <<form, picked>>
  PROVE  /\ FieldTypes'
         /\ offered'[f].phase = p /\ offered'[f].has = h
         /\ \A g \in Fields \ {f} : offered'[g] = offered[g]
<1>1. h \in SUBSET (Types \cup Mediums)
  BY DEF All, Fields
<1>2. offered'[f] = [phase |-> p, has |-> h] /\ \A g \in Fields \ {f} : offered'[g] = offered[g]
  BY DEF FieldTypes
<1>3. offered' \in [Fields -> [phase : {"loading", "loaded", "failed"}, has : SUBSET (Types \cup Mediums)]]
  BY <1>1 DEF FieldTypes
<1>4. \A g \in Fields : offered'[g].has \subseteq All[g]
  BY <1>2 DEF FieldTypes
<1> QED BY <1>2, <1>3, <1>4 DEF FieldTypes

\* What is approved is of the kind of its field.
LEMMA ApprovedIs ==
  ASSUME FormTypes, NEW f \in Fields
  PROVE  approved[f] \in SUBSET All[f]
BY DEF FormTypes, Sets, All, Fields

\* What the form does with the page: what is said of its fields below goes by these
\* cases.
LEMMA FieldsStep ==
  ASSUME ListingFormAssumption, FormTypes, FieldTypes, SentInv, [Next]_listingFormVars
  PROVE  FieldTypes' /\ SentInv'
<1> DEFINE Emptied == \A f \in Fields : form'[f] = {} /\ offered'[f].has = {}
           Kept == UNCHANGED <<form, picked, offered>> /\ (page'.at = "create" => page.at = "create")
<1>a. ASSUME Fresh PROVE FieldTypes' /\ SentInv'
  BY <1>a, FreshIs DEF SentInv
<1>b. ASSUME Kept PROVE FieldTypes' /\ SentInv'
  BY <1>b DEF FieldTypes, SentInv
<1>c. ASSUME NEW p, Open(p) PROVE Fresh
  BY <1>c DEF Open
<1>d. ASSUME NEW f \in Fields, NEW p \in {"loading", "loaded", "failed"}, NEW h \in SUBSET All[f],
             offered' = [offered EXCEPT ![f] = [phase |-> p, has |-> h]], UNCHANGED <<form, picked, page>>,
             p # "loaded" => h = {}, offered[f].phase # "loaded"
      PROVE  FieldTypes' /\ SentInv'
  <2>1. FieldTypes' /\ offered'[f].phase = p /\ offered'[f].has = h
        /\ \A g \in Fields \ {f} : offered'[g] = offered[g]
    BY <1>d, OfferIs
  <2>2. page.at = "create" => form[f] = {}
    BY <1>d DEF SentInv
  <2>3. \A g \in Fields : offered'[g].phase # "loaded" => offered'[g].has = {}
    BY <1>d, <2>1 DEF SentInv
  <2>4. page.at = "create" => \A g \in Fields : form[g] \subseteq offered'[g].has
    BY <2>1, <2>2 DEF SentInv
  <2> QED BY <1>d, <2>1, <2>3, <2>4 DEF SentInv
<1>0. CASE UNCHANGED listingFormVars
  BY <1>0, <1>b DEF listingFormVars, formVars
<1>1. CASE Visit
  BY <1>1, <1>a, <1>c DEF Visit
<1>2. CASE VisitAdminTable
  BY <1>2, <1>a, <1>c DEF VisitAdminTable
<1>3. CASE HandleAdminAction
  <2>1. page'.at = "modal"
    BY <1>3 DEF HandleAdminAction, FormTypes, PagesOpen
  <2> QED BY <1>3, <1>b, <2>1 DEF HandleAdminAction, formVars
<1>4. CASE HandleViewDetails
  BY <1>4, <1>a, <1>c DEF HandleViewDetails
<1>5. CASE HandleEdit
  BY <1>5, <1>a, <1>c DEF HandleEdit
<1>6. CASE LoadData
  <2>1. page'.at = page.at
    BY <1>6, PageKept DEF LoadData, FormTypes
  <2> QED BY <1>6, <1>b, <2>1 DEF LoadData, formVars
<1>7. CASE LoadListing
  <2>1. page.id \in Listings /\ page.at # "create" /\ page'.at = page.at /\ UNCHANGED offered
    BY <1>7, PageKept DEF LoadListing, FormTypes, OfOne
  <2>2. CASE UNCHANGED <<form, picked>>
    BY <1>b, <2>1, <2>2
  <2>3. CASE Reads(page.id, view') /\ form' = FormOf(view') /\ picked' = [f \in Fields |-> form'[f]]
    <3>1. view' \in Views
      BY <2>1, <2>3, ReadsIs
    <3>2. form' \in [filled : BOOLEAN, types : SUBSET Types, mediums : SUBSET Mediums]
      BY <2>3, <3>1 DEF FormOf, Views
    <3>3. \A f \in Fields : form'[f] \in SUBSET (Types \cup Mediums)
      BY <3>2 DEF Fields
    <3> QED BY <2>1, <2>3, <3>2, <3>3 DEF FieldTypes, SentInv
  <2> QED BY <1>7, <2>2, <2>3 DEF LoadListing
<1>8. CASE LoadFails
  <2>1. page'.at = page.at
    BY <1>8, PageKept DEF LoadFails, FormTypes
  <2> QED BY <1>8, <1>b, <2>1 DEF LoadFails, formVars
<1>9. ASSUME NEW f \in Fields,
             \/ LoadSelector(f) \/ SelectorFails(f) \/ ClearSelection(f)
             \/ \E x \in All[f] : HandleCheckboxChange(f, x)
      PROVE  FieldTypes' /\ SentInv'
  <2>1. CASE LoadSelector(f)
    BY <1>d, <2>1, ApprovedIs DEF LoadSelector
  <2>2. CASE SelectorFails(f)
    <3>1. offered' = [offered EXCEPT ![f] = [phase |-> "failed", has |-> {}]] /\ offered[f].phase # "loaded"
          /\ UNCHANGED <<form, picked, page>>
      BY <2>2 DEF SelectorFails
    <3>2. {} \in SUBSET All[f]
      OBVIOUS
    <3> QED BY <1>d, <3>1, <3>2
  <2>3. CASE ClearSelection(f) \/ \E x \in All[f] : HandleCheckboxChange(f, x)
    <3>1. PICK s \in SUBSET All[f] : Select(f, s) /\ s \subseteq form[f] \cup offered[f].has
      BY <2>3, SelectsIs
    <3>2. FieldTypes' /\ form'[f] = s /\ (\A g \in Fields \ {f} : form'[g] = form[g]) /\ UNCHANGED <<page, offered>>
      BY <3>1, SelectIs
    <3> QED BY <3>1, <3>2 DEF SentInv
  <2> QED BY <1>9, <2>1, <2>2, <2>3
<1>10. CASE RetryLoading
  <2>1. "types" \in Fields
    BY DEF Fields
  <2>2. offered' = [offered EXCEPT !["types"] = [phase |-> "loading", has |-> {}]] /\ offered["types"].phase # "loaded"
        /\ UNCHANGED <<form, picked, page>>
    BY <1>10 DEF RetryLoading
  <2>3. {} \in SUBSET All["types"]
    OBVIOUS
  <2> QED BY <1>d, <2>1, <2>2, <2>3
<1>11. CASE WriteFields
  <2>1. form' = [form EXCEPT !.filled = TRUE] /\ UNCHANGED <<picked, offered, page>>
    BY <1>11 DEF WriteFields
  <2>2. \A f \in Fields : form'[f] = form[f]
    BY <2>1 DEF FieldTypes, Fields
  <2>3. form' \in [filled : BOOLEAN, types : SUBSET Types, mediums : SUBSET Mediums]
    BY <2>1 DEF FieldTypes
  <2> QED BY <2>1, <2>2, <2>3 DEF FieldTypes, SentInv
<1>12. CASE HandleSubmit
  BY <1>12, <1>b DEF HandleSubmit, formVars
<1>13. CASE MockRequest
  BY <1>13, <1>b DEF MockRequest, formVars
<1>14. CASE SaveDone
  <2>1. CASE Fresh
    BY <1>a, <2>1
  <2>2. CASE ResetForm
    BY <2>2, ResetFormIs DEF SentInv
  <2>3. CASE UNCHANGED <<formVars, page>>
    BY <1>b, <2>3 DEF formVars
  <2> QED BY <1>14, <2>1, <2>2, <2>3 DEF SaveDone
<1>15. CASE HandleDelete
  BY <1>15, <1>b DEF HandleDelete, formVars
<1>16. CASE DeleteDone
  BY <1>16, <1>a, <1>b DEF DeleteDone, formVars
<1>17. CASE OthersAct
  BY <1>17, <1>b DEF OthersAct, formVars
<1> QED
  BY <1>0, <1>1, <1>2, <1>3, <1>4, <1>5, <1>6, <1>7, <1>8, <1>9, <1>10, <1>11, <1>12, <1>13, <1>14, <1>15, <1>16,
     <1>17 DEF Next

\* Who leaves the page that creates leaves its call.
LEMMA HereStep ==
  ASSUME ListingFormAssumption, FormTypes, FieldTypes, HereInv, [Next]_listingFormVars
  PROVE  HereInv'
<1>a. ASSUME NEW p, Open(p) PROVE HereInv'
  <2>1. call' = [call EXCEPT !.here = FALSE] /\ call \in Calling
    BY <1>a DEF Open, FormTypes
  <2>2. call'.here = FALSE
    BY <2>1 DEF Calling
  <2> QED BY <2>2 DEF HereInv
<1>b. ASSUME UNCHANGED call, page'.at = page.at PROVE HereInv'
  BY <1>b DEF HereInv
<1>c. ASSUME call' = NoCall PROVE HereInv'
  BY <1>c DEF HereInv, NoCall
<1>0. CASE UNCHANGED listingFormVars
  BY <1>0, <1>b DEF listingFormVars
<1>1. CASE Visit
  BY <1>1, <1>a DEF Visit
<1>2. CASE VisitAdminTable
  BY <1>2, <1>a DEF VisitAdminTable
<1>3. CASE HandleAdminAction
  BY <1>3 DEF HandleAdminAction, TableShown, HereInv
<1>4. CASE HandleViewDetails
  BY <1>4, <1>a DEF HandleViewDetails
<1>5. CASE HandleEdit
  BY <1>5, <1>a DEF HandleEdit
<1>6. CASE LoadData
  BY <1>6, <1>b, PageKept DEF LoadData, FormTypes
<1>7. CASE LoadListing
  BY <1>7, <1>b, PageKept DEF LoadListing, FormTypes
<1>8. CASE LoadFails
  BY <1>8, <1>b, PageKept DEF LoadFails, FormTypes
<1>9. ASSUME NEW f \in Fields,
             \/ LoadSelector(f) \/ SelectorFails(f) \/ ClearSelection(f)
             \/ \E x \in All[f] : HandleCheckboxChange(f, x)
      PROVE  HereInv'
  BY <1>9, <1>b DEF LoadSelector, SelectorFails, ClearSelection, HandleCheckboxChange, Select
<1>10. CASE RetryLoading
  BY <1>10, <1>b DEF RetryLoading
<1>11. CASE WriteFields
  BY <1>11, <1>b DEF WriteFields
<1>12. CASE HandleSubmit
  <2>1. CASE Create
    BY <1>12, <2>1 DEF HandleSubmit, Create, HereInv
  <2>2. CASE Update
    BY <2>2, UpdateIs DEF HereInv
  <2> QED BY <1>12, <2>1, <2>2 DEF HandleSubmit
<1>13. CASE MockRequest
  BY <1>13 DEF MockRequest, Create, HereInv
<1>14. CASE SaveDone
  BY <1>14, <1>c DEF SaveDone
<1>15. CASE HandleDelete
  BY <1>15, HandleDeleteIs DEF HereInv
<1>16. CASE DeleteDone
  BY <1>16, <1>c DEF DeleteDone
<1>17. CASE OthersAct
  BY <1>17, <1>b DEF OthersAct
<1> QED
  BY <1>0, <1>1, <1>2, <1>3, <1>4, <1>5, <1>6, <1>7, <1>8, <1>9, <1>10, <1>11, <1>12, <1>13, <1>14, <1>15, <1>16,
     <1>17 DEF Next

\* What a page has read stays read: another is opened, or nothing but the listing,
\* what was touched and the modal changes, or the page reads it now.
LEMMA ReadStep ==
  ASSUME ListingFormAssumption, FormTypes, FieldTypes, ReadInv, EditInv, HereInv, [Next]_listingFormVars
  PROVE  ReadInv' /\ EditInv'
<1>a. ASSUME view'.rev = 0 PROVE ReadInv' /\ EditInv'
  BY <1>a DEF ReadInv, EditInv
<1>b. ASSUME NEW p, Open(p) PROVE ReadInv' /\ EditInv'
  BY <1>a, <1>b, NoViewIs DEF Open
<1>c. ASSUME UNCHANGED <<view, listing>>, page'.id = page.id, page'.phase = page.phase,
             page'.at \in OfOne, page'.at = "edit" => page.at = "edit",
             UNCHANGED <<form, touched>> \/ page'.at # "edit"
      PROVE  ReadInv' /\ EditInv'
  BY <1>c DEF ReadInv, EditInv, There
<1>d. ASSUME UNCHANGED <<view, page, listing, form, touched>> PROVE ReadInv' /\ EditInv'
  BY <1>d DEF ReadInv, EditInv, There
<1>f. ASSUME page.phase # "ready" PROVE view.rev = 0
  <2>1. view.rev \in Nat
    BY DEF FormTypes, Views
  <2> QED BY <1>f, <2>1 DEF ReadInv
<1>0. CASE UNCHANGED listingFormVars
  BY <1>0, <1>d DEF listingFormVars, formVars
<1>1. CASE Visit
  BY <1>1, <1>b DEF Visit
<1>2. CASE VisitAdminTable
  BY <1>2, <1>b DEF VisitAdminTable
<1>3. CASE HandleAdminAction
  <2>1. page'.at = "modal" /\ page'.id = page.id /\ page'.phase = page.phase /\ "modal" \in OfOne
    BY <1>3 DEF HandleAdminAction, FormTypes, PagesOpen, OfOne
  <2>2. UNCHANGED <<view, listing>>
    BY <1>3 DEF HandleAdminAction
  <2> QED BY <1>c, <2>1, <2>2
<1>4. CASE HandleViewDetails
  BY <1>4, <1>b DEF HandleViewDetails
<1>5. CASE HandleEdit
  BY <1>5, <1>b DEF HandleEdit
<1>6. CASE LoadData
  BY <1>6, <1>a, <1>f DEF LoadData
<1>7. CASE LoadListing
  <2>1. /\ page.id \in Listings /\ page.at \in OfOne
        /\ page'.at = page.at /\ page'.id = page.id /\ page'.phase = "ready" /\ UNCHANGED <<listing, touched>>
    BY <1>7, PageKept DEF LoadListing, FormTypes, OfOne
  <2>2. CASE UNCHANGED view
    BY <1>7, <1>a, <1>f, <2>2 DEF LoadListing
  <2>3. CASE /\ Reads(page.id, view')
             /\ page.at = "edit" => form' = FormOf(view')
    <3>1. /\ There(page.id) /\ view' \in Views
          /\ view'.rev = listing[page.id].rev
          /\ view'.creator = "me" => page.id \in Mine
          /\ view'.whole => view'.mediums = listing[page.id].mediums
      BY <2>1, <2>3, ReadsIs
    <3>2. view'.rev <= listing[page.id].rev
      BY <3>1 DEF Views
    <3>3. ReadInv'
      BY <2>1, <3>1, <3>2 DEF ReadInv, There
    <3>4. EditInv'
      BY <2>1, <2>3 DEF EditInv, FormOf, Fields
    <3> QED BY <3>3, <3>4
  <2> QED BY <1>7, <2>2, <2>3 DEF LoadListing
<1>8. CASE LoadFails
  BY <1>8, <1>a, <1>f DEF LoadFails
<1>9. ASSUME NEW f \in Fields,
             \/ LoadSelector(f) \/ SelectorFails(f) \/ ClearSelection(f)
             \/ \E x \in All[f] : HandleCheckboxChange(f, x)
      PROVE  ReadInv' /\ EditInv'
  <2>1. CASE LoadSelector(f)
    BY <1>d, <2>1 DEF LoadSelector
  <2>2. CASE SelectorFails(f)
    BY <1>d, <2>2 DEF SelectorFails
  <2>3. CASE ClearSelection(f) \/ \E x \in All[f] : HandleCheckboxChange(f, x)
    <3>1. PICK s \in SUBSET All[f] : Select(f, s)
      BY <2>3, SelectsIs
    <3>2. /\ \A g \in Fields \ {f} : form'[g] = form[g]
          /\ touched' = touched \cup {f}
          /\ UNCHANGED <<page, view, listing>>
      BY <3>1, SelectIs DEF Select
    <3> QED BY <3>2 DEF ReadInv, EditInv, There
  <2> QED BY <1>9, <2>1, <2>2, <2>3
<1>10. CASE RetryLoading
  BY <1>10, <1>d DEF RetryLoading
<1>11. CASE WriteFields
  <2>1. \A f \in Fields : form'[f] = form[f]
    BY <1>11 DEF WriteFields, FieldTypes, Fields
  <2>2. UNCHANGED <<listing, page, view, touched>>
    BY <1>11 DEF WriteFields
  <2> QED BY <2>1, <2>2 DEF ReadInv, EditInv, There
<1>g. ASSUME Create, UNCHANGED view PROVE ReadInv' /\ EditInv'
  <2>1. page.at = "create" /\ view = NoView
    BY <1>g, CreateIs DEF FormTypes
  <2> QED BY <1>a, <1>g, <2>1, NoViewIs
<1>h. /\ view.rev \in Nat
      /\ \A id \in Listings : listing[id].rev \in Nat
  BY DEF FormTypes, Views, Records
<1>i. ASSUME ReadInv', UNCHANGED <<view, page, form, touched>> PROVE ReadInv' /\ EditInv'
  BY <1>i DEF EditInv
<1>12. CASE HandleSubmit
  <2>1. CASE Create
    BY <1>12, <1>g, <2>1 DEF HandleSubmit
  <2>2. CASE Update
    <3>1. UNCHANGED <<view, page, form, touched>>
      BY <1>12 DEF HandleSubmit, formVars
    <3>2. CASE UNCHANGED listing
      BY <1>d, <3>1, <3>2
    <3>3. CASE /\ There(page.id) /\ page.id \in Listings
               /\ listing' = [listing EXCEPT ![page.id] = [Sent EXCEPT !.rev = listing[page.id].rev + 1]]
      <4>1. listing'[page.id].rev = listing[page.id].rev + 1
        BY <3>3 DEF Sent, FormTypes
      <4>2. view.rev > 0 => view.rev <= listing[page.id].rev
        BY <3>3 DEF ReadInv
      <4>3. view.rev > 0 => view.rev <= listing'[page.id].rev /\ view.rev # listing'[page.id].rev
        BY <1>h, <3>3, <4>1, <4>2
      <4>4. ReadInv'
        BY <3>1, <4>3 DEF ReadInv
      <4> QED BY <1>i, <3>1, <4>4
    <3> QED BY <2>2, <3>2, <3>3, UpdateIs
  <2> QED BY <1>12, <2>1, <2>2 DEF HandleSubmit
<1>13. CASE MockRequest
  BY <1>13, <1>g DEF MockRequest
<1>14. CASE SaveDone
  <2>1. CASE view' = NoView
    BY <1>a, <2>1, NoViewIs
  <2>2. CASE UNCHANGED <<formVars, page, view>>
    BY <1>14, <1>d, <2>2 DEF formVars, SaveDone
  <2>3. CASE call.on = "create" /\ call.here /\ UNCHANGED <<page, view>>
    <3>1. view' = NoView
      BY <2>3 DEF HereInv, FormTypes
    <3> QED BY <1>a, <3>1, NoViewIs
  <2> QED BY <1>14, <2>1, <2>2, <2>3 DEF SaveDone
<1>15. CASE HandleDelete
  <2>1. UNCHANGED <<view, page, form, touched>> /\ page.id \in Listings
    BY <1>15, HandleDeleteIs DEF formVars
  <2>2. CASE listing' = listing
    BY <1>d, <2>1, <2>2
  <2>3. CASE listing' = [listing EXCEPT ![page.id] = Absent]
    <3>1. listing'[page.id].rev = 0
      BY <2>1, <2>3 DEF Absent, FormTypes
    <3>2. ReadInv'
      BY <1>h, <2>1, <3>1 DEF ReadInv, There
    <3> QED BY <1>i, <2>1, <3>2
  <2> QED BY <1>15, <2>2, <2>3, HandleDeleteIs
<1>16. CASE DeleteDone
  <2>1. CASE view' = NoView
    BY <1>a, <2>1, NoViewIs
  <2>2. CASE UNCHANGED <<formVars, page, view>>
    BY <1>16, <1>d, <2>2 DEF formVars, DeleteDone
  <2> QED BY <1>16, <2>1, <2>2 DEF DeleteDone
<1>17. CASE OthersAct
  <2>1. UNCHANGED <<view, page, form, touched>>
    BY <1>17, OthersActIs DEF formVars
  <2>2. CASE view.rev = 0
    BY <1>a, <2>1, <2>2
  <2>3. CASE view.rev > 0
    <3>1. page.id \in Listings
      BY <2>3 DEF ReadInv, FormTypes
    <3>2. \/ listing'[page.id].rev = listing[page.id].rev /\ listing'[page.id].mediums = listing[page.id].mediums
          \/ There(page.id) /\ listing'[page.id].rev = listing[page.id].rev + 1
      BY <1>17, <3>1, OthersActIs
    <3>3. CASE listing'[page.id].rev = listing[page.id].rev /\ listing'[page.id].mediums = listing[page.id].mediums
      <4>1. ReadInv'
        BY <2>1, <2>3, <3>3 DEF ReadInv, There
      <4> QED BY <1>i, <2>1, <4>1
    <3>4. CASE There(page.id) /\ listing'[page.id].rev = listing[page.id].rev + 1
      <4>1. view.rev <= listing[page.id].rev
        BY <2>3, <3>4 DEF ReadInv
      <4>2. view.rev <= listing'[page.id].rev /\ view.rev # listing'[page.id].rev
        BY <1>h, <3>1, <3>4, <4>1
      <4>3. ReadInv'
        BY <2>1, <2>3, <4>2 DEF ReadInv
      <4> QED BY <1>i, <2>1, <4>3
    <3> QED BY <3>2, <3>3, <3>4
  <2> QED BY <1>h, <2>2, <2>3
<1> QED
  BY <1>0, <1>1, <1>2, <1>3, <1>4, <1>5, <1>6, <1>7, <1>8, <1>9, <1>10, <1>11, <1>12, <1>13, <1>14, <1>15, <1>16,
     <1>17 DEF Next
FormInv == ListingFormAssumption /\ FormTypes /\ FieldTypes /\ SentInv /\ ReadInv /\ EditInv /\ HereInv

\* The invariant holds throughout.
LEMMA FormInvariant == ListingFormAssumption /\ Spec => []FormInv
<1> SUFFICES ASSUME ListingFormAssumption PROVE Spec => []FormInv
  OBVIOUS
<1>1. Init => FormInv
  BY FormTypesInit DEF FormInv
<1>2. FormInv /\ [Next]_listingFormVars => FormInv'
  BY FormTypesStep, FieldsStep, ReadStep, HereStep DEF FormInv
<1> QED BY <1>1, <1>2, PTL DEF Spec

\* The types of the variables of the form of a listing.
THEOREM FormTypesHold == ListingFormAssumption /\ Spec => []TypeOK
<1>1. FormInv => TypeOK
  <2> SUFFICES ASSUME FormInv PROVE TypeOK
    OBVIOUS
  <2> USE DEF FormInv, FormTypes
  <2>1. \A id \in Listings : listing[id].rev \in 0 .. MaxSaves
    BY DEF Records
  <2>2. page.at \in {"list", "create", "details", "edit", "admin", "modal"} /\ page.id \in Listings \cup {0}
    BY DEF PagesOpen, OfOne
  <2>3. \A f \in Fields : form[f] \cup picked[f] \cup offered[f].has \cup approved[f] \subseteq All[f]
    BY DEF FieldTypes, Sets, Fields, All
  <2>4. call.id \in Listings \cup {0}
    BY DEF Calling
  <2> QED BY <2>1, <2>2, <2>3, <2>4 DEF TypeOK
<1> QED BY <1>1, FormInvariant, PTL

\* What is sent is what is shown.
LEMMA SentIs == FormInv => ShownIsSent
<1> SUFFICES ASSUME FormInv, NEW f \in Fields
             PROVE  picked[f] = form[f] /\ (page.at = "create" => form[f] = Chips(f))
  BY DEF ShownIsSent
<1>1. picked[f] = form[f]
  BY DEF FormInv, FieldTypes
<1>2. page.at = "create" => form[f] \subseteq offered[f].has
  BY DEF FormInv, SentInv
<1> QED BY <1>1, <1>2 DEF Chips

\* Only the form that edits, when it sends, makes an edit.
LEMMA EditIsUpdate ==
  ASSUME FormInv, [Next]_listingFormVars, call.on = "none", call'.on = "edit", call'.ok
  PROVE  Update /\ FormShown
<1>0. ListingFormAssumption /\ FormTypes /\ FieldTypes /\ call \in Calling
  BY DEF FormInv, FormTypes
<1>a. ASSUME NEW p, Open(p) PROVE FALSE
  BY <1>a, <1>0, CallKept DEF Open
<1>b. ASSUME UNCHANGED call PROVE FALSE
  BY <1>b
<1>c. ASSUME Create PROVE FALSE
  BY <1>c, <1>0, CreateIs
<1>d. ASSUME HandleDelete PROVE FALSE
  BY <1>d, <1>0, HandleDeleteIs
<1>1. CASE UNCHANGED listingFormVars
  BY <1>1, <1>b DEF listingFormVars
<1>2. CASE Visit \/ VisitAdminTable \/ HandleViewDetails \/ HandleEdit
  BY <1>2, <1>a DEF Visit, VisitAdminTable, HandleViewDetails, HandleEdit
<1>3. CASE HandleAdminAction \/ LoadData \/ LoadListing \/ LoadFails \/ RetryLoading \/ WriteFields \/ OthersAct
  BY <1>3, <1>b DEF HandleAdminAction, LoadData, LoadListing, LoadFails, RetryLoading, WriteFields, OthersAct
<1>4. CASE \E f \in Fields : \/ LoadSelector(f) \/ SelectorFails(f) \/ ClearSelection(f)
                            \/ \E x \in All[f] : HandleCheckboxChange(f, x)
  BY <1>4, <1>b DEF LoadSelector, SelectorFails, ClearSelection, HandleCheckboxChange, Select
<1>5. CASE HandleSubmit
  BY <1>5, <1>c DEF HandleSubmit
<1>6. CASE MockRequest
  BY <1>6, <1>c DEF MockRequest
<1>7. CASE SaveDone \/ DeleteDone
  BY <1>7 DEF SaveDone, DeleteDone, NoCall
<1>8. CASE HandleDelete
  BY <1>8, <1>d
<1> QED BY <1>1, <1>2, <1>3, <1>4, <1>5, <1>6, <1>7, <1>8 DEF Next

\* A step that saves an edit leaves what the user did not touch.
LEMMA UntouchedSent == FormInv /\ [Next]_listingFormVars => UntouchedIsKept
<1> SUFFICES ASSUME FormInv, [Next]_listingFormVars, NEW id \in Listings,
                    call.on = "none", call'.on = "edit", call'.ok, call'.id = id,
                    view.whole, view.rev = listing[id].rev, view.types = listing[id].types,
                    NEW f \in Fields \ touched
             PROVE  listing'[id][f] = listing[id][f]
  BY DEF UntouchedIsKept
<1>0. /\ ListingFormAssumption /\ FormTypes /\ FieldTypes /\ ReadInv /\ EditInv
      /\ listing \in [Listings -> Records]
  BY DEF FormInv, FormTypes
<1>1. Update /\ FormShown
  BY EditIsUpdate
<1>2. /\ page.at = "edit" /\ page.id = id
      /\ listing' = [listing EXCEPT ![id] = [Sent EXCEPT !.rev = listing[id].rev + 1]]
  BY <1>0, <1>1, UpdateIs
<1>3. listing'[id].types = form.types /\ listing'[id].mediums = form.mediums
  BY <1>0, <1>2, SentIsRecord
<1>4. view.rev > 0
  BY <1>1, <1>2 DEF FormShown, CanEditHere
<1>5. form[f] = view[f] /\ view.mediums = listing[id].mediums
  BY <1>0, <1>2, <1>4 DEF EditInv, ReadInv
<1>6. CASE f = "types"
  BY <1>3, <1>5, <1>6
<1>7. CASE f = "mediums"
  BY <1>3, <1>5, <1>7
<1> QED BY <1>6, <1>7 DEF Fields

\* However the selectors load, fail and are loaded again, and whatever is moderated
\* meanwhile, what a selector holds is what its form will send, a form that creates
\* sends nothing its selectors do not show, and an edit of a listing that was read
\* whole and that nobody changed since leaves what the user did not touch.
THEOREM FormSendsWhatItShows ==
  ListingFormAssumption /\ Spec => [][ShownIsSent /\ UntouchedIsKept]_listingFormVars
<1>1. FormInv /\ [Next]_listingFormVars => [ShownIsSent /\ UntouchedIsKept]_listingFormVars
  BY SentIs, UntouchedSent
<1> QED BY <1>1, FormInvariant, PTL DEF Spec

\* Who is offered to edit or to delete a listing is one whom the zome lets.
THEOREM FormOffersWhatIsAllowed == ListingFormAssumption /\ Spec => []OfferedIsAllowed
<1>1. FormInv => OfferedIsAllowed
  <2> SUFFICES ASSUME FormInv PROVE OfferedIsAllowed
    OBVIOUS
  <2>1. view.rev > 0 /\ view.creator = "me" => page.id \in Mine
    BY DEF FormInv, ReadInv
  <2> QED BY <2>1 DEF OfferedIsAllowed, CanDelete, OfferedInModal, FormShown, CanEditHere
<1> QED BY <1>1, FormInvariant, PTL

-----------------------------------------------------------------------------
(* The session: what the variables hold. *)

Writes(c) == runs[c].op \in {"create", "edit"}
Refreshes(c) == runs[c].op = "refresh"
Read(c) == Refreshes(c) /\ runs[c].stage \in {"status", "again", "answered"}

Ops == {"none", "refresh", "create", "edit", "fetch", "verify", "late", "register", "prerequisites"}
Stages == {"none", "links", "record", "status", "again", "answered", "sent", "done", "first", "second", "pausing", "late", "asked"}
RunsOf == [op : Ops, stage : Stages, revision : 0 .. MaxRevisions, status : S!Standings, seen : SUBSET S!Choices]

\* The types of all but the calls under way.
Others ==
  /\ profile \in 0 .. MaxRevisions /\ standing \in S!Standings
  /\ listed \in BOOLEAN /\ offered \subseteq S!Choices
  /\ refreshing \in BOOLEAN /\ loading \in BOOLEAN /\ error \in BOOLEAN
  /\ others \in 0 .. MaxOthers /\ failures \in 0 .. MaxFailures

SessionTypes ==
  /\ Others
  /\ user \in [revision : 0 .. MaxRevisions, status : S!Standings]
  /\ adminStatus \in {"unknown", "checking", "admin", "non-admin", "error"}
  /\ prerequisites \in {"unchecked", "checking", "met", "missing"}
  /\ runs \in [Callers -> RunsOf]
  /\ started \in {"pending", "connecting", "hrea", "network", "user", "loading", "complete", "failed", "late"}

\* Before the pages are shown nothing writes, and only the start itself refreshes.
StartInv ==
  /\ ~S!InPages => page # "leaving" /\ \A c \in Callers : runs[c].op \in S!Behind \cup {"refresh"}
  /\ ~S!InPages /\ started # "loading" => ~refreshing /\ \A c \in Callers : ~Refreshes(c)
  /\ started \in {"failed", "late"} => failures > 0

\* What a refresh or an edit brings is a revision, and who edits has a user.
BroughtInv ==
  /\ user # S!NoUser => user.revision > 0
  /\ page = "edit" => S!InPages /\ user # S!NoUser
  /\ \A c \in Callers : runs[c].op = "edit" => user # S!NoUser
  /\ \A c \in Callers : S!At(c, "refresh", "record") => profile > 0
  /\ \A c \in Callers : Read(c) \/ S!At(c, "edit", "done") => runs[c].revision > 0

\* Unless a call failed, who has a profile and no user is about to get one.
FoundInv ==
  failures = 0 /\ started \in {"loading", "complete"} /\ user = S!NoUser =>
    \/ profile = 0
    \/ \E c \in Callers : S!At(c, "create", "done")
    \/ started = "loading" /\ \E c \in Callers : Refreshes(c)

\* To a person who waits, one call at a time writes or refreshes.
AloneInv ==
  /\ \A c, d \in Callers : c # d /\ Writes(c) => ~Writes(d) /\ ~Refreshes(d)
  /\ \A c, d \in Callers : c # d /\ Refreshes(c) => ~Refreshes(d)
  /\ refreshing => \E c \in Callers : Refreshes(c)
  /\ page = "leaving" => \A c \in Callers : ~Writes(c) /\ (Refreshes(c) => refreshing)

\* What it brings is the latest revision.
LatestInv ==
  /\ user.revision <= profile
  /\ \A c \in Callers : Read(c) \/ S!At(c, "edit", "done") => runs[c].revision = profile
  /\ \A c \in Callers : S!At(c, "create", "done") => profile = 1

WhatIs == IF profile = 0 THEN S!NoUser ELSE [revision |-> profile, status |-> standing]
Refreshing == \E c \in Callers : Refreshes(c)
Edited == \E c \in Callers : S!At(c, "edit", "done")

\* Unless something changed or failed since the last refresh began, its answer is
\* what is, and once it has ended the user is.
CertainInv ==
  ~doubtful =>
    /\ \A c \in Callers : S!At(c, "refresh", "answered") => runs[c].status = standing
    /\ ~Refreshing => IF Edited THEN user # S!NoUser /\ user.status = standing ELSE user = WhatIs

\* The bounds are numbers.
LEMMA SessionBounds ==
  ASSUME S!SessionAssumption
  PROVE  MaxRevisions \in Nat /\ 1 <= MaxRevisions /\ MaxOthers \in Nat /\ MaxFailures \in Nat
BY DEF S!SessionAssumption

\* A run that begins, and one that is no more.
LEMMA RunIs ==
  ASSUME S!SessionAssumption, NEW op \in Ops, NEW stage \in Stages
  PROVE  /\ S!Run(op, stage) \in RunsOf
         /\ S!Run(op, stage).op = op /\ S!Run(op, stage).stage = stage
<1>1. 0 \in 0 .. MaxRevisions
  BY SessionBounds
<1> QED BY <1>1 DEF S!Run, RunsOf, S!Standings

\* No call.
LEMMA NoRunIs == S!SessionAssumption => S!NoRun \in RunsOf /\ S!NoRun.op = "none"
BY RunIs DEF S!NoRun, Ops, Stages

\* What a step does to the calls: one is put in its place, or goes on.
LEMMA PutIs ==
  ASSUME runs \in [Callers -> RunsOf], NEW c \in Callers, NEW r \in RunsOf, S!Put(c, r)
  PROVE  /\ runs' \in [Callers -> RunsOf] /\ runs'[c] = r
         /\ \A d \in Callers \ {c} : runs'[d] = runs[d]
BY DEF S!Put

LEMMA ToIs ==
  ASSUME runs \in [Callers -> RunsOf], NEW c \in Callers, NEW stage \in Stages, S!To(c, stage)
  PROVE  /\ runs' \in [Callers -> RunsOf]
         /\ runs'[c].op = runs[c].op /\ runs'[c].stage = stage /\ runs'[c].revision = runs[c].revision
         /\ runs'[c].status = runs[c].status
         /\ \A d \in Callers \ {c} : runs'[d] = runs[d]
BY DEF S!To, RunsOf

\* A refresh reads the latest revision.
LEMMA RecordIsRead ==
  ASSUME SessionTypes, NEW c \in Callers, runs' = [runs EXCEPT ![c].stage = "status", ![c].revision = profile]
  PROVE  /\ runs' \in [Callers -> RunsOf]
         /\ runs'[c].op = runs[c].op /\ runs'[c].stage = "status" /\ runs'[c].revision = profile
         /\ runs'[c].status = runs[c].status
         /\ \A d \in Callers \ {c} : runs'[d] = runs[d]
<1>1. runs \in [Callers -> RunsOf]
  BY DEF SessionTypes
<1>0. profile \in 0 .. MaxRevisions
  BY DEF SessionTypes, Others
<1>2. runs'[c] = [[runs[c] EXCEPT !.stage = "status"] EXCEPT !.revision = profile]
  BY <1>1
<1>3. runs'[c] \in RunsOf
  BY <1>0, <1>1, <1>2 DEF RunsOf, Stages
<1>4. \A d \in Callers \ {c} : runs'[d] = runs[d]
  BY <1>1
<1>5. runs' \in [Callers -> RunsOf]
  BY <1>1, <1>3, <1>4
<1> QED BY <1>1, <1>2, <1>4, <1>5 DEF RunsOf

\* An edit makes one.
LEMMA RevisionIsMade ==
  ASSUME SessionTypes, profile + 1 \in 0 .. MaxRevisions, NEW c \in Callers, runs' = [runs EXCEPT ![c].stage = "done", ![c].revision = profile + 1]
  PROVE  /\ runs' \in [Callers -> RunsOf]
         /\ runs'[c].op = runs[c].op /\ runs'[c].stage = "done" /\ runs'[c].revision = profile + 1
         /\ runs'[c].status = runs[c].status
         /\ \A d \in Callers \ {c} : runs'[d] = runs[d]
<1>1. runs \in [Callers -> RunsOf]
  BY DEF SessionTypes
<1>2. runs'[c] = [[runs[c] EXCEPT !.stage = "done"] EXCEPT !.revision = profile + 1]
  BY <1>1
<1>3. runs'[c] \in RunsOf
  BY <1>1, <1>2 DEF RunsOf, Stages
<1>4. \A d \in Callers \ {c} : runs'[d] = runs[d]
  BY <1>1
<1>5. runs' \in [Callers -> RunsOf]
  BY <1>1, <1>3, <1>4
<1> QED BY <1>1, <1>2, <1>4, <1>5 DEF RunsOf

\* A refresh is answered the status.
LEMMA StatusAnswered ==
  ASSUME SessionTypes, NEW c \in Callers, NEW s \in S!Standings,
         runs' = [runs EXCEPT ![c].stage = "answered", ![c].status = s]
  PROVE  /\ runs' \in [Callers -> RunsOf]
         /\ runs'[c].op = runs[c].op /\ runs'[c].stage = "answered" /\ runs'[c].revision = runs[c].revision
         /\ runs'[c].status = s
         /\ \A d \in Callers \ {c} : runs'[d] = runs[d]
<1>1. runs \in [Callers -> RunsOf]
  BY DEF SessionTypes
<1>2. runs'[c] = [[runs[c] EXCEPT !.stage = "answered"] EXCEPT !.status = s]
  BY <1>1
<1>3. runs'[c] \in RunsOf
  BY <1>1, <1>2 DEF RunsOf, Stages
<1>4. \A d \in Callers \ {c} : runs'[d] = runs[d]
  BY <1>1
<1>5. runs' \in [Callers -> RunsOf]
  BY <1>1, <1>3, <1>4
<1> QED BY <1>1, <1>2, <1>4, <1>5 DEF RunsOf

\* The prerequisites are answered.
LEMMA AskedIs ==
  ASSUME SessionTypes, NEW c \in Callers, NEW s \in SUBSET S!Choices,
         runs' = [runs EXCEPT ![c].stage = "asked", ![c].seen = s]
  PROVE  /\ runs' \in [Callers -> RunsOf]
         /\ runs'[c].op = runs[c].op
         /\ \A d \in Callers \ {c} : runs'[d] = runs[d]
<1>1. runs \in [Callers -> RunsOf]
  BY DEF SessionTypes
<1>2. runs'[c] = [[runs[c] EXCEPT !.stage = "asked"] EXCEPT !.seen = s]
  BY <1>1
<1>3. runs'[c] \in RunsOf
  BY <1>1, <1>2 DEF RunsOf, Stages
<1>4. \A d \in Callers \ {c} : runs'[d] = runs[d]
  BY <1>1
<1>5. runs' \in [Callers -> RunsOf]
  BY <1>1, <1>3, <1>4
<1> QED BY <1>1, <1>2, <1>4, <1>5 DEF RunsOf

\* A refresh that begins, or that finds another under way.
LEMMA RefreshIs ==
  ASSUME S!SessionAssumption, SessionTypes, NEW c \in Callers, S!RefreshCurrentUser(c, FALSE)
  PROVE  /\ runs' \in [Callers -> RunsOf]
         /\ \A d \in Callers \ {c} : runs'[d] = runs[d]
         /\ refreshing => refreshing' = FALSE /\ runs'[c].op = "none" /\ UNCHANGED <<loading, error, doubtful>>
         /\ ~refreshing => /\ refreshing' = TRUE /\ runs'[c].op = "refresh" /\ runs'[c].stage = "links"
                           /\ loading' = TRUE /\ error' = FALSE /\ doubtful' = FALSE
<1>0. runs \in [Callers -> RunsOf]
  BY DEF SessionTypes
<1>1. CASE refreshing
  BY <1>0, <1>1, PutIs, NoRunIs DEF S!RefreshCurrentUser
<1>2. CASE ~refreshing
  <2>1. S!Run("refresh", "links") \in RunsOf /\ S!Run("refresh", "links").op = "refresh" /\ S!Run("refresh", "links").stage = "links"
    BY RunIs DEF Ops, Stages
  <2> QED BY <1>0, <1>2, <2>1, PutIs DEF S!RefreshCurrentUser, S!Load
<1> QED BY <1>1, <1>2

-----------------------------------------------------------------------------
(* The session: the types. *)

\* A call fails.
LEMMA FailingIs ==
  ASSUME S!SessionAssumption, SessionTypes, S!Failing
  PROVE  failures' \in 0 .. MaxFailures /\ others' \in 0 .. MaxOthers /\ failures' > 0 /\ failures' = failures + 1
<1>1. failures \in 0 .. MaxFailures /\ others \in 0 .. MaxOthers /\ MaxFailures \in Nat
  BY SessionBounds DEF SessionTypes, Others
<1> QED BY <1>1 DEF S!Failing

\* An action that concerns neither the profile nor the user.
Aside ==
  /\ UNCHANGED <<profile, user, refreshing, started>>
  /\ \A d \in Callers :
       \/ runs'[d] = runs[d]
       \/ /\ runs[d].op \notin {"refresh", "create", "edit"} /\ runs'[d].op \notin {"refresh", "create", "edit"}
          /\ runs'[d].op \in S!Behind \/ S!InPages
  /\ page' = "leaving" => page = "leaving"
  /\ page' = "edit" => page = "edit" \/ (S!InPages /\ user # S!NoUser)
  /\ failures' = failures \/ failures' = failures + 1
  /\ doubtful' \/ (doubtful' = doubtful /\ standing' = standing)

\* It keeps the invariants.
LEMMA AsideKeeps ==
  ASSUME S!SessionAssumption, SessionTypes, Aside
  PROVE  /\ StartInv => StartInv'
         /\ BroughtInv => BroughtInv'
         /\ FoundInv => FoundInv'
         /\ AloneInv => AloneInv'
         /\ LatestInv => LatestInv'
         /\ CertainInv => CertainInv'
<1>0. failures \in Nat
  BY DEF SessionTypes, Others
<1>1. /\ UNCHANGED <<profile, user, refreshing, started>>
      /\ page' = "leaving" => page = "leaving"
      /\ page' = "edit" => page = "edit" \/ (S!InPages /\ user # S!NoUser)
      /\ failures' = failures \/ failures' = failures + 1
      /\ doubtful' \/ (doubtful' = doubtful /\ standing' = standing)
  BY DEF Aside
<1>2. \A d \in Callers :
        /\ Writes(d)' <=> Writes(d)
        /\ Refreshes(d)' <=> Refreshes(d)
        /\ Read(d)' <=> Read(d)
        /\ \A op \in {"refresh", "create", "edit"} : \A stage : S!At(d, op, stage)' <=> S!At(d, op, stage)
        /\ Writes(d) \/ Refreshes(d) => runs'[d] = runs[d]
  BY DEF Aside, Writes, Refreshes, Read, S!At
<1>3. \A d \in Callers : runs'[d] = runs[d] \/ runs'[d].op \in S!Behind \/ S!InPages
  BY DEF Aside
<1>4. StartInv => StartInv'
  BY <1>0, <1>1, <1>2, <1>3 DEF StartInv, S!InPages
<1>5. BroughtInv => BroughtInv'
  BY <1>1, <1>2 DEF BroughtInv, S!InPages, Read, Refreshes, Writes, S!At
<1>6. FoundInv => FoundInv'
  BY <1>0, <1>1, <1>2 DEF FoundInv
<1>7. AloneInv => AloneInv'
  BY <1>1, <1>2 DEF AloneInv
<1>8. LatestInv => LatestInv'
  BY <1>1, <1>2 DEF LatestInv, Read, Refreshes, Writes, S!At
<1>9. CertainInv => CertainInv'
  <2> SUFFICES ASSUME CertainInv, ~doubtful' PROVE CertainInv'
    BY DEF CertainInv
  <2>1. ~doubtful /\ standing' = standing
    BY <1>1
  <2>2. (Refreshing' <=> Refreshing) /\ (Edited' <=> Edited)
    BY <1>2 DEF Refreshing, Edited
  <2>3. \A c \in Callers : S!At(c, "refresh", "answered")' => S!At(c, "refresh", "answered") /\ runs'[c] = runs[c]
    BY <1>2 DEF S!At, Refreshes
  <2> QED BY <1>1, <2>1, <2>2, <2>3 DEF CertainInv, WhatIs
<1> QED BY <1>4, <1>5, <1>6, <1>7, <1>8, <1>9

\* One call goes on, of those that concern neither.
LEMMA OneAside ==
  ASSUME S!SessionAssumption, SessionTypes, NEW c \in Callers,
         runs[c].op \notin {"refresh", "create", "edit"}, runs'[c].op \notin {"refresh", "create", "edit"},
         runs'[c].op \in S!Behind \/ S!InPages,
         \A d \in Callers \ {c} : runs'[d] = runs[d],
         UNCHANGED <<profile, user, refreshing, started>>,
         page' = "leaving" => page = "leaving", page' = "edit" => page = "edit" \/ (S!InPages /\ user # S!NoUser),
         failures' = failures \/ failures' = failures + 1,
         doubtful' \/ (doubtful' = doubtful /\ standing' = standing)
  PROVE  Aside
BY DEF Aside

\* So is a step that leaves the calls alone.
LEMMA NoneAside ==
  ASSUME UNCHANGED <<profile, user, refreshing, started, runs>>,
         page' = "leaving" => page = "leaving", page' = "edit" => page = "edit" \/ (S!InPages /\ user # S!NoUser),
         failures' = failures \/ failures' = failures + 1,
         doubtful' \/ (doubtful' = doubtful /\ standing' = standing)
  PROVE  Aside
BY DEF Aside

\* What the lists of users, the checks of the administrator and the guards do with
\* their calls.
LEMMA CallsAside ==
  ASSUME S!SessionAssumption, SessionTypes, StartInv, NEW c \in Callers,
         \/ S!FetchUsers(c) \/ S!EnsureAdminStatusChecked(c) \/ S!CheckIfAgentIsAdministrator(c)
         \/ S!CheckFails(c) \/ S!CheckAgain(c) \/ S!CheckTimesOut(c) \/ S!RegisterAsAdmin(c) \/ S!CheckPrerequisites(c)
  PROVE  SessionTypes' /\ Aside
<1> USE DEF S!Zomes, S!UsersStore, S!Admin, S!Shown, S!Bounds
<1>0. /\ runs \in [Callers -> RunsOf] /\ S!NoRun \in RunsOf /\ S!NoRun.op = "none"
      /\ Others /\ user \in [revision : 0 .. MaxRevisions, status : S!Standings]
      /\ adminStatus \in {"unknown", "checking", "admin", "non-admin", "error"}
      /\ prerequisites \in {"unchecked", "checking", "met", "missing"}
      /\ started \in {"pending", "connecting", "hrea", "network", "user", "loading", "complete", "failed", "late"}
  BY NoRunIs DEF SessionTypes
<1>a. ASSUME runs[c].op \notin S!Behind \cup {"refresh"} PROVE S!InPages
  BY <1>a DEF StartInv
<1>1. CASE S!FetchUsers(c)
  <2>1. CASE S!Acts(c) /\ S!Put(c, S!Run("fetch", "sent"))
    <3>1. S!Run("fetch", "sent") \in RunsOf /\ S!Run("fetch", "sent").op = "fetch"
      BY RunIs DEF Ops, Stages
    <3>2. runs[c].op = "none" /\ S!InPages
      BY <2>1, <1>0 DEF S!Acts, S!Idle
    <3>3. ~S!At(c, "fetch", "sent")
      BY <3>2 DEF S!At
    <3>4. /\ UNCHANGED <<S!Zomes, user, refreshing, S!Admin, started, S!Shown, doubtful, S!Bounds>> /\ S!Load
      BY <1>1, <3>3 DEF S!FetchUsers
    <3>5. runs' \in [Callers -> RunsOf] /\ runs'[c].op = "fetch" /\ \A d \in Callers \ {c} : runs'[d] = runs[d]
      BY <1>0, <2>1, <3>1, PutIs
    <3>6. Others'
      BY <1>0, <3>4 DEF Others, S!Load
    <3>7. SessionTypes'
      BY <1>0, <3>4, <3>5, <3>6 DEF SessionTypes
    <3>8. Aside
      BY <3>2, <3>4, <3>5, OneAside
    <3> QED BY <3>7, <3>8
  <2>2. CASE S!At(c, "fetch", "sent")
    <3>1. runs[c].op = "fetch"
      BY <2>2 DEF S!At
    <3>2. /\ S!Put(c, S!NoRun) /\ UNCHANGED <<S!Zomes, user, refreshing, S!Admin, started, S!Shown>>
          /\ \/ S!Loaded /\ UNCHANGED <<S!Bounds, doubtful>>
             \/ S!Failing /\ S!LoadFailed /\ doubtful' = TRUE
      BY <1>0, <1>1, <3>1 DEF S!FetchUsers, S!Acts, S!Idle
    <3>3. runs' \in [Callers -> RunsOf] /\ runs'[c].op = "none" /\ \A d \in Callers \ {c} : runs'[d] = runs[d]
      BY <1>0, <3>2, PutIs
    <3>4. Others' /\ (failures' = failures \/ failures' = failures + 1)
      BY <1>0, <3>2, FailingIs DEF Others, S!Loaded, S!LoadFailed
    <3>5. SessionTypes'
      BY <1>0, <3>2, <3>3, <3>4 DEF SessionTypes
    <3>6. Aside
      BY <3>1, <3>2, <3>3, <3>4, OneAside DEF S!Behind
    <3> QED BY <3>5, <3>6
  <2> QED BY <1>1, <2>1, <2>2 DEF S!FetchUsers
<1>2. CASE S!EnsureAdminStatusChecked(c)
  <2>1. S!Run("verify", "first") \in RunsOf /\ S!Run("verify", "first").op = "verify"
    BY RunIs DEF Ops, Stages
  <2>2. /\ runs[c].op = "none" /\ S!Put(c, S!Run("verify", "first")) /\ adminStatus' = "checking"
        /\ UNCHANGED <<S!Zomes, S!UsersStore, agentIsAdministrator, recent, started, S!Shown, doubtful, S!Bounds>>
    BY <1>0, <1>2 DEF S!EnsureAdminStatusChecked, S!Idle
  <2>3. runs' \in [Callers -> RunsOf] /\ runs'[c].op = "verify" /\ \A d \in Callers \ {c} : runs'[d] = runs[d]
    BY <1>0, <2>1, <2>2, PutIs
  <2>4. Others'
    BY <1>0, <2>2 DEF Others
  <2>5. SessionTypes'
    BY <1>0, <2>2, <2>3, <2>4 DEF SessionTypes
  <2>6. Aside
    BY <2>2, <2>3, OneAside DEF S!Behind
  <2> QED BY <2>5, <2>6
<1>3. CASE S!CheckIfAgentIsAdministrator(c)
  <2>1. /\ runs[c].op \in {"verify", "late"} /\ S!Put(c, S!NoRun)
        /\ UNCHANGED <<S!Zomes, S!UsersStore, started, S!Shown, doubtful, S!Bounds>>
        /\ adminStatus' \in {adminStatus, "admin", "non-admin"}
    BY <1>3 DEF S!CheckIfAgentIsAdministrator, S!Checking
  <2>2. runs' \in [Callers -> RunsOf] /\ runs'[c].op = "none" /\ \A d \in Callers \ {c} : runs'[d] = runs[d]
    BY <1>0, <2>1, PutIs
  <2>3. Others'
    BY <1>0, <2>1 DEF Others
  <2>4. SessionTypes'
    BY <1>0, <2>1, <2>2, <2>3 DEF SessionTypes
  <2>5. Aside
    BY <2>1, <2>2, OneAside DEF S!Behind
  <2> QED BY <2>4, <2>5
<1>4. CASE S!CheckFails(c)
  <2>1. /\ runs[c].op \in {"verify", "late"} /\ S!Failing
        /\ UNCHANGED <<S!Zomes, S!UsersStore, agentIsAdministrator, recent, started, S!Shown, doubtful>>
        /\ adminStatus' \in {adminStatus, "error"}
        /\ S!To(c, "pausing") \/ S!Put(c, S!NoRun)
    BY <1>4 DEF S!CheckFails, S!Checking
  <2>2. runs' \in [Callers -> RunsOf] /\ runs'[c].op \in S!Behind /\ \A d \in Callers \ {c} : runs'[d] = runs[d]
    <3>1. CASE S!To(c, "pausing")
      BY <1>0, <2>1, <3>1, ToIs DEF Stages, S!Behind
    <3>2. CASE S!Put(c, S!NoRun)
      BY <1>0, <3>2, PutIs DEF S!Behind
    <3> QED BY <2>1, <3>1, <3>2
  <2>3. Others' /\ failures' = failures + 1
    BY <1>0, <2>1, FailingIs DEF Others
  <2>4. SessionTypes'
    BY <1>0, <2>1, <2>2, <2>3 DEF SessionTypes
  <2>5. Aside
    BY <2>1, <2>2, <2>3, OneAside DEF S!Behind
  <2> QED BY <2>4, <2>5
<1>5. CASE S!CheckTimesOut(c)
  <2>1. /\ S!Run("late", "late") \in RunsOf /\ S!Run("late", "late").op \in S!Behind
        /\ S!NoRun.op \in S!Behind
    BY <1>0, RunIs DEF Ops, Stages, S!Behind
  <2>2. PICK r \in {S!NoRun, S!Run("late", "late")} : S!Put(c, r)
    BY <1>5 DEF S!CheckTimesOut
  <2>3. /\ runs[c].op = "verify" /\ adminStatus' = "error"
        /\ UNCHANGED <<S!Zomes, S!UsersStore, agentIsAdministrator, recent, started, S!Shown, doubtful, S!Bounds>>
    BY <1>5 DEF S!CheckTimesOut, S!GiveUp
  <2>4. r \in RunsOf /\ r.op \in S!Behind
    BY <1>0, <2>1
  <2>5. runs' \in [Callers -> RunsOf] /\ runs'[c].op \in S!Behind /\ \A d \in Callers \ {c} : runs'[d] = runs[d]
    BY <1>0, <2>2, <2>4, PutIs
  <2>6. Others'
    BY <1>0, <2>3 DEF Others
  <2>7. SessionTypes'
    BY <1>0, <2>3, <2>5, <2>6 DEF SessionTypes
  <2>8. Aside
    BY <2>3, <2>5, OneAside DEF S!Behind
  <2> QED BY <2>7, <2>8
<1>b. CASE S!CheckAgain(c)
  <2>1. /\ runs[c].op = "verify" /\ S!To(c, "second") /\ adminStatus' = "checking"
        /\ UNCHANGED <<S!Zomes, S!UsersStore, agentIsAdministrator, recent, started, S!Shown, doubtful, S!Bounds>>
    BY <1>b DEF S!CheckAgain, S!At
  <2>2. runs' \in [Callers -> RunsOf] /\ runs'[c].op = "verify" /\ \A d \in Callers \ {c} : runs'[d] = runs[d]
    BY <1>0, <2>1, ToIs DEF Stages
  <2>3. Others'
    BY <1>0, <2>1 DEF Others
  <2>4. SessionTypes'
    BY <1>0, <2>1, <2>2, <2>3 DEF SessionTypes
  <2>5. Aside
    BY <2>1, <2>2, OneAside DEF S!Behind
  <2> QED BY <2>4, <2>5
<1>6. CASE S!RegisterAsAdmin(c)
  <2>1. CASE S!Acts(c) /\ page # "leaving" /\ S!Put(c, S!Run("register", "sent"))
             /\ UNCHANGED <<S!Zomes, S!UsersStore, S!Admin, started, S!Shown, doubtful, S!Bounds>>
    <3>1. S!Run("register", "sent") \in RunsOf /\ S!Run("register", "sent").op = "register"
      BY RunIs DEF Ops, Stages
    <3>2. runs[c].op = "none" /\ S!InPages
      BY <2>1, <1>0 DEF S!Acts, S!Idle
    <3>3. runs' \in [Callers -> RunsOf] /\ runs'[c].op = "register" /\ \A d \in Callers \ {c} : runs'[d] = runs[d]
      BY <1>0, <2>1, <3>1, PutIs
    <3>4. Others'
      BY <1>0, <2>1 DEF Others
    <3>5. SessionTypes'
      BY <1>0, <2>1, <3>3, <3>4 DEF SessionTypes
    <3>6. Aside
      BY <2>1, <3>2, <3>3, OneAside
    <3> QED BY <3>5, <3>6
  <2>2. CASE /\ S!At(c, "register", "sent") /\ S!Put(c, S!NoRun)
             /\ \/ listed' = TRUE /\ page' = "admin" /\ UNCHANGED S!Bounds
                \/ UNCHANGED <<listed, page, S!Bounds>>
                \/ S!Failing /\ UNCHANGED <<listed, page>>
             /\ UNCHANGED <<profile, standing, offered, S!UsersStore, S!Admin, started, timedOut, prerequisites, doubtful>>
    <3>1. runs' \in [Callers -> RunsOf] /\ runs'[c].op = "none" /\ \A d \in Callers \ {c} : runs'[d] = runs[d]
      BY <1>0, <2>2, PutIs
    <3>2. Others' /\ (failures' = failures \/ failures' = failures + 1)
      BY <1>0, <2>2, FailingIs DEF Others
    <3>3. SessionTypes'
      BY <1>0, <2>2, <3>1, <3>2 DEF SessionTypes
    <3>4. /\ runs[c].op = "register" /\ (page' = "leaving" => page = "leaving")
          /\ page' = "edit" => page = "edit"
      BY <2>2 DEF S!At
    <3>5. Aside
      BY <2>2, <3>1, <3>2, <3>4, OneAside DEF S!Behind
    <3> QED BY <3>3, <3>5
  <2> QED BY <1>6, <2>1, <2>2 DEF S!RegisterAsAdmin
<1>7. CASE S!CheckPrerequisites(c)
  <2>1. CASE /\ S!Idle(c) /\ S!InPages /\ prerequisites' = "checking" /\ S!Put(c, S!Run("prerequisites", "sent"))
             /\ UNCHANGED <<S!Zomes, S!UsersStore, S!Admin, started, page, timedOut, doubtful, S!Bounds>>
    <3>1. S!Run("prerequisites", "sent") \in RunsOf /\ S!Run("prerequisites", "sent").op = "prerequisites"
      BY RunIs DEF Ops, Stages
    <3>2. runs[c].op = "none"
      BY <2>1, <1>0 DEF S!Idle
    <3>3. runs' \in [Callers -> RunsOf] /\ runs'[c].op = "prerequisites" /\ \A d \in Callers \ {c} : runs'[d] = runs[d]
      BY <1>0, <2>1, <3>1, PutIs
    <3>4. Others'
      BY <1>0, <2>1 DEF Others
    <3>5. SessionTypes'
      BY <1>0, <2>1, <3>3, <3>4 DEF SessionTypes
    <3>6. Aside
      BY <2>1, <3>2, <3>3, OneAside
    <3> QED BY <3>5, <3>6
  <2>2. CASE /\ S!At(c, "prerequisites", "sent")
             /\ \/ UNCHANGED failures /\ runs' = [runs EXCEPT ![c].stage = "asked", ![c].seen = offered]
                \/ /\ S!Failing
                   /\ \E k \in S!Choices : runs' = [runs EXCEPT ![c].stage = "asked", ![c].seen = offered \ {k}]
             /\ UNCHANGED <<S!Zomes, S!UsersStore, S!Admin, started, S!Shown, doubtful, others>>
    <3>1. PICK s \in SUBSET S!Choices : runs' = [runs EXCEPT ![c].stage = "asked", ![c].seen = s]
      BY <1>0, <2>2 DEF Others
    <3>2. runs' \in [Callers -> RunsOf] /\ runs'[c].op = runs[c].op /\ \A d \in Callers \ {c} : runs'[d] = runs[d]
      BY <3>1, AskedIs
    <3>3. Others' /\ (failures' = failures \/ failures' = failures + 1)
      BY <1>0, <2>2, FailingIs DEF Others
    <3>4. SessionTypes'
      BY <1>0, <2>2, <3>2, <3>3 DEF SessionTypes
    <3>5. runs[c].op = "prerequisites"
      BY <2>2 DEF S!At
    <3>6. S!InPages
      BY <1>a, <3>5 DEF S!Behind
    <3>7. Aside
      BY <2>2, <3>2, <3>3, <3>5, <3>6, OneAside
    <3> QED BY <3>4, <3>7
  <2>3. CASE /\ S!At(c, "prerequisites", "asked")
             /\ prerequisites' = IF prerequisites # "checking" THEN prerequisites
                                 ELSE IF runs[c].seen = S!Choices THEN "met" ELSE "missing"
             /\ S!Put(c, S!NoRun)
             /\ UNCHANGED <<S!Zomes, S!UsersStore, adminStatus, recent, started, page, timedOut, doubtful, S!Bounds>>
    <3>1. runs' \in [Callers -> RunsOf] /\ runs'[c].op = "none" /\ \A d \in Callers \ {c} : runs'[d] = runs[d]
      BY <1>0, <2>3, PutIs
    <3>2. Others' /\ prerequisites' \in {"unchecked", "checking", "met", "missing"}
      BY <1>0, <2>3 DEF Others
    <3>3. SessionTypes'
      BY <1>0, <2>3, <3>1, <3>2 DEF SessionTypes
    <3>4. runs[c].op = "prerequisites"
      BY <2>3 DEF S!At
    <3>5. Aside
      BY <2>3, <3>1, <3>4, OneAside DEF S!Behind
    <3> QED BY <3>3, <3>5
  <2> QED BY <1>7, <2>1, <2>2, <2>3 DEF S!CheckPrerequisites
<1> QED BY <1>1, <1>2, <1>3, <1>4, <1>5, <1>b, <1>6, <1>7

\* The pages that are opened, what they do by themselves, and what others do.
LEMMA PagesAside ==
  ASSUME S!SessionAssumption, SessionTypes,
         \/ UNCHANGED S!sessionVars
         \/ S!ThirtySeconds \/ S!GuardTimesOut \/ S!RedirectToProfile \/ S!RetryPrerequisites
         \/ S!VisitCreate \/ S!VisitEdit \/ S!VisitListings \/ S!VisitNew \/ S!VisitHome \/ S!VisitAdmin \/ S!RedirectHome
         \/ S!OthersAct
  PROVE  SessionTypes' /\ Aside
<1> USE DEF S!Zomes, S!UsersStore, S!Admin, S!Shown, S!Bounds
<1>0. /\ runs \in [Callers -> RunsOf]
      /\ Others /\ user \in [revision : 0 .. MaxRevisions, status : S!Standings]
      /\ adminStatus \in {"unknown", "checking", "admin", "non-admin", "error"}
      /\ prerequisites \in {"unchecked", "checking", "met", "missing"}
      /\ started \in {"pending", "connecting", "hrea", "network", "user", "loading", "complete", "failed", "late"}
  BY DEF SessionTypes
<1>a. ASSUME UNCHANGED <<S!Zomes, S!UsersStore, adminStatus, started, runs, doubtful, S!Bounds>>,
             prerequisites' \in {prerequisites, "unchecked"}, page' = "leaving" => page = "leaving",
             page' = "edit" => page = "edit" \/ (S!InPages /\ user # S!NoUser)
      PROVE  SessionTypes' /\ Aside
  <2>1. Others'
    BY <1>0, <1>a DEF Others
  <2>2. SessionTypes'
    BY <1>0, <1>a, <2>1 DEF SessionTypes
  <2> QED BY <1>a, <2>2, NoneAside
<1>b. ASSUME NEW p, p # "leaving", p = "edit" => user # S!NoUser, S!Visit(p) PROVE SessionTypes' /\ Aside
  BY <1>a, <1>b DEF S!Visit
<1>1. CASE UNCHANGED S!sessionVars
  BY <1>1, <1>a DEF S!sessionVars
<1>2. CASE S!ThirtySeconds
  BY <1>2, <1>a DEF S!ThirtySeconds
<1>3. CASE S!GuardTimesOut
  BY <1>3, <1>a DEF S!GuardTimesOut
<1>4. CASE S!RedirectToProfile
  BY <1>4, <1>a DEF S!RedirectToProfile
<1>5. CASE S!RetryPrerequisites
  BY <1>5, <1>a DEF S!RetryPrerequisites
<1>6. CASE S!VisitCreate \/ S!VisitEdit \/ S!VisitListings \/ S!VisitNew \/ S!VisitHome \/ S!VisitAdmin
  BY <1>6, <1>b DEF S!VisitCreate, S!VisitEdit, S!VisitListings, S!VisitNew, S!VisitHome, S!VisitAdmin
<1>7. CASE S!RedirectHome
  BY <1>7, <1>a DEF S!RedirectHome
<1>8. CASE S!OthersAct
  <2>1. /\ UNCHANGED <<profile, S!UsersStore, S!Admin, started, S!Shown, runs, failures>>
        /\ doubtful' = TRUE /\ others < MaxOthers /\ others' = others + 1
        /\ standing' \in {standing, "accepted", "suspended"}
        /\ listed' = listed \/ listed' = ~listed
        /\ offered' = offered \/ offered' \in {{}, {"types"}, S!Choices}
    BY <1>8 DEF S!OthersAct
  <2>2. others' \in 0 .. MaxOthers
    BY <1>0, <2>1, SessionBounds DEF Others
  <2>3. listed' \in BOOLEAN
    BY <1>0, <2>1, Zenon DEF Others
  <2>4. offered' \subseteq S!Choices /\ standing' \in S!Standings
    BY <1>0, <2>1 DEF Others, S!Choices, S!Standings
  <2>5. Others'
    BY <1>0, <2>1, <2>2, <2>3, <2>4 DEF Others
  <2>6. SessionTypes'
    BY <1>0, <2>1, <2>5 DEF SessionTypes
  <2> QED BY <2>1, <2>6, NoneAside
<1> QED BY <1>1, <1>2, <1>3, <1>4, <1>5, <1>6, <1>7, <1>8

-----------------------------------------------------------------------------
(* The session: each step of the calls that write and that refresh. *)

SessionInv == S!SessionAssumption /\ SessionTypes /\ StartInv /\ BroughtInv /\ FoundInv
WaitInv == Waits => AloneInv /\ LatestInv /\ CertainInv
WholeInv == SessionInv /\ WaitInv

\* The links of the agent are read.
LEMMA FindUserStep ==
  ASSUME WholeInv, NEW c \in Callers, S!FindUser(c)
  PROVE  WholeInv'
<1> USE DEF S!At, Refreshes, Read, Writes
<1>0. /\ S!SessionAssumption /\ SessionTypes /\ StartInv /\ BroughtInv /\ FoundInv
      /\ Waits => AloneInv /\ LatestInv /\ CertainInv
  BY DEF WholeInv, SessionInv, WaitInv
<1>a. /\ runs \in [Callers -> RunsOf] /\ S!NoRun \in RunsOf /\ S!NoRun.op = "none"
      /\ profile \in 0 .. MaxRevisions /\ standing \in S!Standings /\ failures \in 0 .. MaxFailures
      /\ user \in [revision : 0 .. MaxRevisions, status : S!Standings]
  BY <1>0, NoRunIs DEF SessionTypes, Others
<1>1. /\ UNCHANGED <<profile, standing, listed, offered, adminStatus, started, prerequisites, others, failures>>
      /\ UNCHANGED <<user, page, doubtful>>
      /\ loading' \in BOOLEAN /\ error' \in BOOLEAN
      /\ runs' \in [Callers -> RunsOf]
      /\ \A d \in Callers \ {c} : runs'[d] = runs[d]
      /\ runs[c].op = "refresh" /\ runs[c].stage = "links"
      /\ \/ profile = 0 /\ runs'[c].op = "none" /\ refreshing' = FALSE
         \/ profile # 0 /\ runs'[c].op = "refresh" /\ runs'[c].stage = "record" /\ refreshing' = refreshing
  <2>1. CASE profile = 0
    BY <1>0, <1>a, <2>1, PutIs DEF S!FindUser, S!Loaded, SessionTypes, Others, S!Zomes, S!Admin, S!Shown, S!Bounds
  <2>2. CASE profile # 0
    <3>1. S!To(c, "record")
      BY <2>2 DEF S!FindUser
    <3> QED BY <1>0, <1>a, <2>2, <3>1, ToIs DEF S!FindUser, S!Load, Stages, S!Zomes, S!Admin, S!Shown, S!Bounds
  <2> QED BY <2>1, <2>2
<1>2. SessionTypes'
  BY <1>0, <1>a, <1>1 DEF SessionTypes, Others
<1>3. StartInv'
  BY <1>0, <1>a, <1>1 DEF StartInv, S!InPages, S!Behind
<1>4. BroughtInv'
  BY <1>0, <1>a, <1>1 DEF BroughtInv, S!NoUser, S!InPages
<1>5. FoundInv'
  BY <1>0, <1>a, <1>1 DEF FoundInv, BroughtInv, S!NoUser, S!InPages
<1>6. ASSUME Waits PROVE AloneInv /\ LatestInv /\ CertainInv
  BY <1>0, <1>6
<1>7. ASSUME Waits PROVE AloneInv'
  BY <1>0, <1>a, <1>1, <1>6, <1>7 DEF AloneInv
<1>8. ASSUME Waits PROVE LatestInv'
  BY <1>0, <1>a, <1>1, <1>6, <1>8 DEF LatestInv, AloneInv
<1>9. ASSUME Waits PROVE CertainInv'
  <2>1. \A d \in Callers : ~doubtful' /\ S!At(d, "refresh", "answered")' => runs'[d].status = standing'
    BY <1>a, <1>1, <1>6, <1>9 DEF CertainInv, AloneInv
  <2>2. ~doubtful' /\ ~Refreshing' => IF Edited' THEN user' # S!NoUser /\ user'.status = standing' ELSE user' = WhatIs'
    <3>1. CASE profile # 0
      BY <1>1, <3>1 DEF Refreshing
    <3>2. CASE profile = 0
      <4>1. ~Edited'
        BY <1>1, <1>6, <1>9, <3>2 DEF Edited, AloneInv
      <4>2. user.revision = 0
        BY <1>a, <1>6, <1>9, <3>2 DEF LatestInv
      <4>3. user = S!NoUser
        BY <1>0, <4>2 DEF BroughtInv
      <4> QED BY <1>1, <3>2, <4>1, <4>3 DEF WhatIs
    <3> QED BY <3>1, <3>2
  <2> QED BY <2>1, <2>2 DEF CertainInv
<1> QED BY <1>0, <1>2, <1>3, <1>4, <1>5, <1>7, <1>8, <1>9 DEF WholeInv, SessionInv, WaitInv

\* The latest record is read, and its status twice.
LEMMA GetLatestUserStep ==
  ASSUME WholeInv, NEW c \in Callers, S!GetLatestUser(c)
  PROVE  WholeInv'
<1> USE DEF S!At, Refreshes, Read, Writes
<1>0. /\ S!SessionAssumption /\ SessionTypes /\ StartInv /\ BroughtInv /\ FoundInv
      /\ Waits => AloneInv /\ LatestInv /\ CertainInv
  BY DEF WholeInv, SessionInv, WaitInv
<1>a. /\ runs \in [Callers -> RunsOf] /\ S!NoRun \in RunsOf /\ S!NoRun.op = "none"
      /\ profile \in 0 .. MaxRevisions /\ standing \in S!Standings /\ failures \in 0 .. MaxFailures
      /\ user \in [revision : 0 .. MaxRevisions, status : S!Standings]
  BY <1>0, NoRunIs DEF SessionTypes, Others
<1>1. /\ UNCHANGED <<profile, standing, listed, offered, adminStatus, started, prerequisites, others, failures>>
      /\ UNCHANGED <<user, page, refreshing, doubtful>>
      /\ loading' \in BOOLEAN /\ error' \in BOOLEAN
      /\ runs' \in [Callers -> RunsOf]
      /\ \A d \in Callers \ {c} : runs'[d] = runs[d]
      /\ runs[c].op = "refresh" /\ runs'[c].op = "refresh"
      /\ \/ /\ runs[c].stage = "record" /\ runs'[c].stage = "status"
            /\ runs'[c].revision = profile
         \/ /\ runs[c].stage = "status" /\ runs'[c].stage = "again"
            /\ runs'[c].revision = runs[c].revision
         \/ /\ runs[c].stage = "again" /\ runs'[c].stage = "answered"
            /\ runs'[c].revision = runs[c].revision /\ runs'[c].status = standing
  <2>1. CASE S!At(c, "refresh", "record")
    <3>1. runs' = [runs EXCEPT ![c].stage = "status", ![c].revision = profile]
      BY <2>1 DEF S!GetLatestUser, S!LatestRecord
    <3>2. "status" \in Stages
      BY DEF Stages
    <3>4. SessionTypes /\ profile \in 0 .. MaxRevisions
      BY <1>0, <1>a
    <3>3. /\ runs' \in [Callers -> RunsOf] /\ runs'[c].op = runs[c].op /\ runs'[c].stage = "status"
          /\ runs'[c].revision = profile /\ \A d \in Callers \ {c} : runs'[d] = runs[d]
      BY <3>1, <3>4, RecordIsRead
    <3> QED BY <1>0, <2>1, <3>3 DEF S!GetLatestUser, SessionTypes, Others, S!Zomes, S!UsersStore, S!Admin, S!Shown, S!Bounds
  <2>2. CASE S!At(c, "refresh", "status")
    <3>1. S!To(c, "again") /\ "again" \in Stages
      BY <2>2 DEF S!GetLatestUser, Stages
    <3>2. /\ runs' \in [Callers -> RunsOf] /\ runs'[c].op = runs[c].op /\ runs'[c].stage = "again"
          /\ runs'[c].revision = runs[c].revision /\ \A d \in Callers \ {c} : runs'[d] = runs[d]
      BY <1>a, <3>1, ToIs
    <3> QED BY <1>0, <2>2, <3>2 DEF S!GetLatestUser, S!Loaded, SessionTypes, Others, S!Zomes, S!Admin, S!Shown, S!Bounds
  <2>3. CASE S!At(c, "refresh", "again")
    <3>1. runs' = [runs EXCEPT ![c].stage = "answered", ![c].status = standing]
      BY <2>3 DEF S!GetLatestUser
    <3>2. /\ runs' \in [Callers -> RunsOf] /\ runs'[c].op = runs[c].op /\ runs'[c].stage = "answered"
          /\ runs'[c].revision = runs[c].revision /\ runs'[c].status = standing
          /\ \A d \in Callers \ {c} : runs'[d] = runs[d]
      BY <1>0, <1>a, <3>1, StatusAnswered
    <3> QED BY <1>0, <2>3, <3>2 DEF S!GetLatestUser, SessionTypes, Others, S!Zomes, S!UsersStore, S!Admin, S!Shown, S!Bounds
  <2> QED BY <2>1, <2>2, <2>3 DEF S!GetLatestUser
<1>2. SessionTypes'
  BY <1>0, <1>a, <1>1 DEF SessionTypes, Others
<1>3. StartInv'
  BY <1>0, <1>a, <1>1 DEF StartInv, S!InPages, S!Behind
<1>4. BroughtInv'
  BY <1>0, <1>a, <1>1 DEF BroughtInv, S!NoUser, S!InPages
<1>5. FoundInv'
  BY <1>0, <1>a, <1>1 DEF FoundInv, BroughtInv, S!NoUser, S!InPages
<1>6. ASSUME Waits PROVE AloneInv /\ LatestInv /\ CertainInv
  BY <1>0, <1>6
<1>7. ASSUME Waits PROVE AloneInv'
  BY <1>0, <1>a, <1>1, <1>6, <1>7 DEF AloneInv
<1>8. ASSUME Waits PROVE LatestInv'
  BY <1>0, <1>a, <1>1, <1>6, <1>8 DEF LatestInv, AloneInv
<1>9. ASSUME Waits PROVE CertainInv'
  <2>1. \A d \in Callers : ~doubtful' /\ S!At(d, "refresh", "answered")' => runs'[d].status = standing'
    BY <1>a, <1>1, <1>6, <1>9 DEF CertainInv, AloneInv
  <2>2. ~doubtful' /\ ~Refreshing' => IF Edited' THEN user' # S!NoUser /\ user'.status = standing' ELSE user' = WhatIs'
    BY <1>1 DEF Refreshing
  <2> QED BY <2>1, <2>2 DEF CertainInv
<1> QED BY <1>0, <1>2, <1>3, <1>4, <1>5, <1>7, <1>8, <1>9 DEF WholeInv, SessionInv, WaitInv

\* Its answer is the user.
LEMMA RefreshedStep ==
  ASSUME WholeInv, NEW c \in Callers, S!Refreshed(c)
  PROVE  WholeInv'
<1> USE DEF S!At, Refreshes, Read, Writes
<1>0. /\ S!SessionAssumption /\ SessionTypes /\ StartInv /\ BroughtInv /\ FoundInv
      /\ Waits => AloneInv /\ LatestInv /\ CertainInv
  BY DEF WholeInv, SessionInv, WaitInv
<1>a. /\ runs \in [Callers -> RunsOf] /\ S!NoRun \in RunsOf /\ S!NoRun.op = "none"
      /\ profile \in 0 .. MaxRevisions /\ standing \in S!Standings /\ failures \in 0 .. MaxFailures
      /\ user \in [revision : 0 .. MaxRevisions, status : S!Standings]
  BY <1>0, NoRunIs DEF SessionTypes, Others
<1>1. /\ UNCHANGED <<profile, standing, listed, offered, adminStatus, started, prerequisites, others, failures>>
      /\ UNCHANGED <<page, doubtful>>
      /\ refreshing' = FALSE /\ loading' \in BOOLEAN /\ error' \in BOOLEAN
      /\ runs' \in [Callers -> RunsOf]
      /\ \A d \in Callers \ {c} : runs'[d] = runs[d]
      /\ runs'[c].op = "none"
      /\ runs[c].op = "refresh" /\ runs[c].stage = "answered" /\ runs[c] \in RunsOf
      /\ user' = [revision |-> runs[c].revision, status |-> runs[c].status]
      /\ user'.revision = runs[c].revision /\ user'.status = runs[c].status
      /\ user' \in [revision : 0 .. MaxRevisions, status : S!Standings]
  <2>1. S!Put(c, S!NoRun) /\ runs[c] \in RunsOf
    BY <1>a DEF S!Refreshed
  <2>2. runs' \in [Callers -> RunsOf] /\ runs'[c] = S!NoRun /\ \A d \in Callers \ {c} : runs'[d] = runs[d]
    BY <1>a, <2>1, PutIs
  <2>3. user' = [revision |-> runs[c].revision, status |-> runs[c].status]
    BY DEF S!Refreshed, S!SetUser
  <2>4. user' \in [revision : 0 .. MaxRevisions, status : S!Standings]
    BY <2>1, <2>3 DEF RunsOf
  <2> QED BY <1>0, <1>a, <2>1, <2>2, <2>3, <2>4 DEF S!Refreshed, S!Loaded, SessionTypes, Others, S!Zomes, S!Admin, S!Shown, S!Bounds
<1>2. SessionTypes'
  BY <1>0, <1>a, <1>1 DEF SessionTypes, Others
<1>3. StartInv'
  BY <1>0, <1>a, <1>1 DEF StartInv, S!InPages, S!Behind
<1>4. BroughtInv'
  BY <1>0, <1>a, <1>1 DEF BroughtInv, S!NoUser, S!InPages
<1>5. FoundInv'
  BY <1>0, <1>a, <1>1 DEF FoundInv, BroughtInv, S!NoUser, S!InPages
<1>6. ASSUME Waits PROVE AloneInv /\ LatestInv /\ CertainInv
  BY <1>0, <1>6
<1>7. ASSUME Waits PROVE AloneInv'
  BY <1>0, <1>a, <1>1, <1>6, <1>7 DEF AloneInv
<1>8. ASSUME Waits PROVE LatestInv'
  BY <1>0, <1>a, <1>1, <1>6, <1>8 DEF LatestInv, AloneInv
<1>9. ASSUME Waits PROVE CertainInv'
  <2>1. \A d \in Callers : ~doubtful' /\ S!At(d, "refresh", "answered")' => runs'[d].status = standing'
    BY <1>a, <1>1, <1>6, <1>9 DEF CertainInv, AloneInv
  <2>2. ~doubtful' /\ ~Refreshing' => IF Edited' THEN user' # S!NoUser /\ user'.status = standing' ELSE user' = WhatIs'
    <3>1. ~Edited'
      BY <1>1, <1>6, <1>9 DEF Edited, AloneInv
    <3>2. runs[c].revision = profile /\ runs[c].revision > 0
      BY <1>0, <1>1, <1>6, <1>9 DEF BroughtInv, LatestInv
    <3>3. ~doubtful => runs[c].status = standing
      BY <1>1, <1>6, <1>9 DEF CertainInv
    <3>4. profile' # 0 /\ WhatIs' = [revision |-> profile, status |-> standing]
      BY <1>a, <1>1, <3>2 DEF WhatIs
    <3> QED BY <1>1, <3>1, <3>2, <3>3, <3>4
  <2> QED BY <2>1, <2>2 DEF CertainInv
<1> QED BY <1>0, <1>2, <1>3, <1>4, <1>5, <1>7, <1>8, <1>9 DEF WholeInv, SessionInv, WaitInv

\* A refresh fails.
LEMMA RefreshFailsStep ==
  ASSUME WholeInv, NEW c \in Callers, S!RefreshFails(c)
  PROVE  WholeInv'
<1> USE DEF S!At, Refreshes, Read, Writes
<1>0. /\ S!SessionAssumption /\ SessionTypes /\ StartInv /\ BroughtInv /\ FoundInv
      /\ Waits => AloneInv /\ LatestInv /\ CertainInv
  BY DEF WholeInv, SessionInv, WaitInv
<1>a. /\ runs \in [Callers -> RunsOf] /\ S!NoRun \in RunsOf /\ S!NoRun.op = "none"
      /\ profile \in 0 .. MaxRevisions /\ standing \in S!Standings /\ failures \in 0 .. MaxFailures
      /\ user \in [revision : 0 .. MaxRevisions, status : S!Standings]
  BY <1>0, NoRunIs DEF SessionTypes, Others
<1>1. /\ UNCHANGED <<profile, standing, listed, offered, adminStatus, started, prerequisites>>
      /\ UNCHANGED <<page, user>>
      /\ refreshing' = FALSE /\ loading' \in BOOLEAN /\ error' \in BOOLEAN
      /\ runs' \in [Callers -> RunsOf]
      /\ \A d \in Callers \ {c} : runs'[d] = runs[d]
      /\ runs'[c].op = "none"
      /\ runs[c].op = "refresh" /\ doubtful'
      /\ failures' \in 0 .. MaxFailures /\ others' \in 0 .. MaxOthers /\ failures' > 0
  <2>1. S!Put(c, S!NoRun) /\ S!Failing
    BY DEF S!RefreshFails
  <2>2. runs' \in [Callers -> RunsOf] /\ runs'[c] = S!NoRun /\ \A d \in Callers \ {c} : runs'[d] = runs[d]
    BY <1>a, <2>1, PutIs
  <2> QED BY <1>0, <1>a, <2>1, <2>2, FailingIs DEF S!RefreshFails, S!LoadFailed, S!Zomes, S!Admin, S!Shown
<1>2. SessionTypes'
  BY <1>0, <1>a, <1>1 DEF SessionTypes, Others
<1>3. StartInv'
  BY <1>0, <1>a, <1>1 DEF StartInv, S!InPages, S!Behind
<1>4. BroughtInv'
  BY <1>0, <1>a, <1>1 DEF BroughtInv, S!NoUser, S!InPages
<1>5. FoundInv'
  BY <1>0, <1>a, <1>1 DEF FoundInv, BroughtInv, S!NoUser, S!InPages
<1>6. ASSUME Waits PROVE AloneInv /\ LatestInv /\ CertainInv
  BY <1>0, <1>6
<1>7. ASSUME Waits PROVE AloneInv'
  BY <1>0, <1>a, <1>1, <1>6, <1>7 DEF AloneInv
<1>8. ASSUME Waits PROVE LatestInv'
  BY <1>0, <1>a, <1>1, <1>6, <1>8 DEF LatestInv, AloneInv
<1>9. ASSUME Waits PROVE CertainInv'
  BY <1>1 DEF CertainInv
<1> QED BY <1>0, <1>2, <1>3, <1>4, <1>5, <1>7, <1>8, <1>9 DEF WholeInv, SessionInv, WaitInv

\* The profile page refreshes when it is shown.
LEMMA ShowUserStep ==
  ASSUME WholeInv, NEW c \in Callers, S!ShowUser(c)
  PROVE  WholeInv'
<1> USE DEF S!At, Refreshes, Read, Writes
<1>0. /\ S!SessionAssumption /\ SessionTypes /\ StartInv /\ BroughtInv /\ FoundInv
      /\ Waits => AloneInv /\ LatestInv /\ CertainInv
  BY DEF WholeInv, SessionInv, WaitInv
<1>a. /\ runs \in [Callers -> RunsOf] /\ S!NoRun \in RunsOf /\ S!NoRun.op = "none"
      /\ profile \in 0 .. MaxRevisions /\ standing \in S!Standings /\ failures \in 0 .. MaxFailures
      /\ user \in [revision : 0 .. MaxRevisions, status : S!Standings]
  BY <1>0, NoRunIs DEF SessionTypes, Others
<1>1. /\ UNCHANGED <<profile, standing, listed, offered, adminStatus, started, prerequisites, others, failures>>
      /\ UNCHANGED user
      /\ page' = "user"
      /\ refreshing' \in BOOLEAN /\ loading' \in BOOLEAN /\ error' \in BOOLEAN
      /\ runs' \in [Callers -> RunsOf]
      /\ \A d \in Callers \ {c} : runs'[d] = runs[d]
      /\ runs[c].op = "none" /\ S!InPages
      /\ page = "leaving" \/ (Waits => \A d \in Callers : runs[d].op \in S!Behind)
      /\ /\ refreshing => refreshing' = FALSE /\ runs'[c].op = "none" /\ UNCHANGED doubtful
         /\ ~refreshing => /\ refreshing' = TRUE /\ runs'[c].op = "refresh" /\ runs'[c].stage = "links"
                           /\ doubtful' = FALSE
  <2>1. S!RefreshCurrentUser(c, FALSE)
    BY DEF S!ShowUser
  <2>2. runs[c].op = "none" /\ (page = "leaving" \/ (S!InPages /\ (Waits => \A d \in Callers : runs[d].op \in S!Behind)))
    BY <1>a DEF S!ShowUser, S!Acts, S!Idle
  <2>3. S!InPages
    BY <1>0, <2>2 DEF StartInv
  <2> QED BY <1>0, <2>1, <2>2, <2>3, RefreshIs DEF S!ShowUser, SessionTypes, Others, S!Zomes, S!Admin, S!Bounds
<1>2. SessionTypes'
  BY <1>0, <1>a, <1>1 DEF SessionTypes, Others
<1>3. StartInv'
  BY <1>0, <1>a, <1>1 DEF StartInv, S!InPages, S!Behind
<1>4. BroughtInv'
  BY <1>0, <1>a, <1>1 DEF BroughtInv, S!NoUser, S!InPages
<1>5. FoundInv'
  BY <1>0, <1>a, <1>1 DEF FoundInv, BroughtInv, S!NoUser, S!InPages
<1>6. ASSUME Waits PROVE AloneInv /\ LatestInv /\ CertainInv
  BY <1>0, <1>6
<1>7. ASSUME Waits PROVE AloneInv'
  <2>0. ~refreshing => \A d \in Callers : ~Refreshes(d) /\ ~Writes(d)
    BY <1>1, <1>6, <1>7 DEF AloneInv, S!Behind
  <2>1. CASE refreshing
    BY <1>1, <1>6, <1>7, <2>1 DEF AloneInv
  <2>2. CASE ~refreshing
    <3>1. page' # "leaving"
      BY <1>0, <1>1 DEF StartInv, S!InPages
    <3> QED BY <1>1, <2>0, <2>2, <3>1 DEF AloneInv
  <2> QED BY <2>1, <2>2
<1>8. ASSUME Waits PROVE LatestInv'
  BY <1>0, <1>a, <1>1, <1>6, <1>8 DEF LatestInv, AloneInv
<1>9. ASSUME Waits PROVE CertainInv'
  <2>0. ~refreshing => \A d \in Callers : ~Refreshes(d) /\ ~Writes(d)
    BY <1>1, <1>6, <1>9 DEF AloneInv, S!Behind
  <2>1. \A d \in Callers : ~doubtful' /\ S!At(d, "refresh", "answered")' => runs'[d].status = standing'
    BY <1>a, <1>1, <1>6, <1>9, <2>0 DEF CertainInv
  <2>2. ~doubtful' /\ ~Refreshing' => IF Edited' THEN user' # S!NoUser /\ user'.status = standing' ELSE user' = WhatIs'
    <3>1. CASE ~refreshing
      BY <1>1, <3>1 DEF Refreshing
    <3>2. CASE refreshing
      BY <1>1, <1>6, <1>9, <3>2 DEF Refreshing, AloneInv
    <3> QED BY <3>1, <3>2
  <2> QED BY <2>1, <2>2 DEF CertainInv
<1> QED BY <1>0, <1>2, <1>3, <1>4, <1>5, <1>7, <1>8, <1>9 DEF WholeInv, SessionInv, WaitInv

\* The start of the page loads the user.
LEMMA LoadUserStep ==
  ASSUME WholeInv, NEW c \in Callers, S!LoadUser(c)
  PROVE  WholeInv'
<1> USE DEF S!At, Refreshes, Read, Writes
<1>0. /\ S!SessionAssumption /\ SessionTypes /\ StartInv /\ BroughtInv /\ FoundInv
      /\ Waits => AloneInv /\ LatestInv /\ CertainInv
  BY DEF WholeInv, SessionInv, WaitInv
<1>a. /\ runs \in [Callers -> RunsOf] /\ S!NoRun \in RunsOf /\ S!NoRun.op = "none"
      /\ profile \in 0 .. MaxRevisions /\ standing \in S!Standings /\ failures \in 0 .. MaxFailures
      /\ user \in [revision : 0 .. MaxRevisions, status : S!Standings]
  BY <1>0, NoRunIs DEF SessionTypes, Others
<1>1. /\ UNCHANGED <<profile, standing, listed, offered, adminStatus, prerequisites, others, failures>>
      /\ UNCHANGED <<user, page>>
      /\ started = "user" /\ started' = "loading"
      /\ refreshing' \in BOOLEAN /\ loading' \in BOOLEAN /\ error' \in BOOLEAN
      /\ runs' \in [Callers -> RunsOf]
      /\ \A d \in Callers \ {c} : runs'[d] = runs[d]
      /\ runs[c].op = "none" /\ ~refreshing
      /\ /\ refreshing => refreshing' = FALSE /\ runs'[c].op = "none" /\ UNCHANGED doubtful
         /\ ~refreshing => /\ refreshing' = TRUE /\ runs'[c].op = "refresh" /\ runs'[c].stage = "links"
                           /\ doubtful' = FALSE
  <2>1. S!RefreshCurrentUser(c, FALSE) /\ started = "user" /\ runs[c].op = "none"
    BY <1>a DEF S!LoadUser, S!Idle
  <2>2. ~refreshing
    BY <1>0, <2>1 DEF StartInv, S!InPages
  <2> QED BY <1>0, <2>1, <2>2, RefreshIs DEF S!LoadUser, SessionTypes, Others, S!Zomes, S!Admin, S!Shown, S!Bounds
<1>2. SessionTypes'
  BY <1>0, <1>a, <1>1 DEF SessionTypes, Others
<1>3. StartInv'
  BY <1>0, <1>a, <1>1 DEF StartInv, S!InPages, S!Behind
<1>4. BroughtInv'
  BY <1>0, <1>a, <1>1 DEF BroughtInv, S!NoUser, S!InPages
<1>5. FoundInv'
  BY <1>0, <1>a, <1>1 DEF FoundInv, BroughtInv, S!NoUser, S!InPages
<1>6. ASSUME Waits PROVE AloneInv /\ LatestInv /\ CertainInv
  BY <1>0, <1>6
<1>7. ASSUME Waits PROVE AloneInv'
  <2>0. \A d \in Callers : ~Refreshes(d) /\ ~Writes(d)
    BY <1>0, <1>1 DEF StartInv, S!InPages, S!Behind
  <2>2. CASE ~refreshing
    <3>1. page' # "leaving"
      BY <1>0, <1>1 DEF StartInv, S!InPages
    <3> QED BY <1>1, <2>0, <2>2, <3>1 DEF AloneInv
  <2> QED BY <1>1, <2>2
<1>8. ASSUME Waits PROVE LatestInv'
  BY <1>0, <1>a, <1>1, <1>6, <1>8 DEF LatestInv, AloneInv
<1>9. ASSUME Waits PROVE CertainInv'
  <2>0. \A d \in Callers : ~Refreshes(d) /\ ~Writes(d)
    BY <1>0, <1>1 DEF StartInv, S!InPages, S!Behind
  <2>1. \A d \in Callers : ~doubtful' /\ S!At(d, "refresh", "answered")' => runs'[d].status = standing'
    BY <1>a, <1>1, <1>6, <1>9, <2>0 DEF CertainInv
  <2>2. ~doubtful' /\ ~Refreshing' => IF Edited' THEN user' # S!NoUser /\ user'.status = standing' ELSE user' = WhatIs'
    <3>1. CASE ~refreshing
      BY <1>1, <3>1 DEF Refreshing
    <3>2. CASE refreshing
      BY <1>1, <1>6, <1>9, <3>2 DEF Refreshing, AloneInv
    <3> QED BY <3>1, <3>2
  <2> QED BY <2>1, <2>2 DEF CertainInv
<1> QED BY <1>0, <1>2, <1>3, <1>4, <1>5, <1>7, <1>8, <1>9 DEF WholeInv, SessionInv, WaitInv

\* A form is sent.
LEMMA SubmitStep ==
  ASSUME WholeInv, NEW c \in Callers, NEW op \in {"create", "edit"}, S!Submit(c, op)
  PROVE  WholeInv'
<1> USE DEF S!At, Refreshes, Read, Writes
<1>0. /\ S!SessionAssumption /\ SessionTypes /\ StartInv /\ BroughtInv /\ FoundInv
      /\ Waits => AloneInv /\ LatestInv /\ CertainInv
  BY DEF WholeInv, SessionInv, WaitInv
<1>a. /\ runs \in [Callers -> RunsOf] /\ S!NoRun \in RunsOf /\ S!NoRun.op = "none"
      /\ profile \in 0 .. MaxRevisions /\ standing \in S!Standings /\ failures \in 0 .. MaxFailures
      /\ user \in [revision : 0 .. MaxRevisions, status : S!Standings]
  BY <1>0, NoRunIs DEF SessionTypes, Others
<1>1. /\ UNCHANGED <<profile, standing, listed, offered, adminStatus, started, prerequisites, others, failures>>
      /\ UNCHANGED <<user, page, refreshing, doubtful>>
      /\ loading' \in BOOLEAN /\ error' \in BOOLEAN
      /\ runs' \in [Callers -> RunsOf]
      /\ \A d \in Callers \ {c} : runs'[d] = runs[d]
      /\ runs[c].op = "none" /\ S!InPages /\ page = op
      /\ Waits => \A d \in Callers : runs[d].op \in S!Behind
      /\ runs'[c].op = op /\ runs'[c].stage = "sent"
  <2>1. S!Run(op, "sent") \in RunsOf /\ S!Run(op, "sent").op = op /\ S!Run(op, "sent").stage = "sent"
    BY <1>0, RunIs DEF Ops, Stages
  <2>2. S!Put(c, S!Run(op, "sent"))
    BY DEF S!Submit
  <2>3. runs' \in [Callers -> RunsOf] /\ runs'[c] = S!Run(op, "sent") /\ \A d \in Callers \ {c} : runs'[d] = runs[d]
    BY <1>a, <2>1, <2>2, PutIs
  <2> QED BY <1>0, <1>a, <2>1, <2>3 DEF S!Submit, S!Acts, S!Idle, S!Load, SessionTypes, Others, S!Zomes, S!Admin, S!Shown, S!Bounds
<1>2. SessionTypes'
  BY <1>0, <1>a, <1>1 DEF SessionTypes, Others
<1>3. StartInv'
  BY <1>0, <1>a, <1>1 DEF StartInv, S!InPages, S!Behind
<1>4. BroughtInv'
  BY <1>0, <1>a, <1>1 DEF BroughtInv, S!NoUser, S!InPages
<1>5. FoundInv'
  BY <1>0, <1>a, <1>1 DEF FoundInv, BroughtInv, S!NoUser, S!InPages
<1>6. ASSUME Waits PROVE AloneInv /\ LatestInv /\ CertainInv
  BY <1>0, <1>6
<1>7. ASSUME Waits PROVE AloneInv'
  BY <1>0, <1>a, <1>1, <1>6, <1>7 DEF AloneInv, S!Behind
<1>8. ASSUME Waits PROVE LatestInv'
  BY <1>0, <1>a, <1>1, <1>6, <1>8 DEF LatestInv
<1>9. ASSUME Waits PROVE CertainInv'
  BY <1>0, <1>a, <1>1, <1>6, <1>9 DEF CertainInv, WhatIs, Refreshing, Edited, S!Behind
<1> QED BY <1>0, <1>2, <1>3, <1>4, <1>5, <1>7, <1>8, <1>9 DEF WholeInv, SessionInv, WaitInv

\* The zome makes the profile.
LEMMA CreateInZomeStep ==
  ASSUME WholeInv, NEW c \in Callers, S!CreateInZome(c)
  PROVE  WholeInv'
<1> USE DEF S!At, Refreshes, Read, Writes
<1>0. /\ S!SessionAssumption /\ SessionTypes /\ StartInv /\ BroughtInv /\ FoundInv
      /\ Waits => AloneInv /\ LatestInv /\ CertainInv
  BY DEF WholeInv, SessionInv, WaitInv
<1>a. /\ runs \in [Callers -> RunsOf] /\ S!NoRun \in RunsOf /\ S!NoRun.op = "none"
      /\ profile \in 0 .. MaxRevisions /\ standing \in S!Standings /\ failures \in 0 .. MaxFailures
      /\ user \in [revision : 0 .. MaxRevisions, status : S!Standings]
  BY <1>0, NoRunIs DEF SessionTypes, Others
<1>1. /\ UNCHANGED <<listed, offered, adminStatus, started, prerequisites, others, failures>>
      /\ UNCHANGED <<user, page, refreshing, loading, error>>
      /\ profile = 0 /\ profile' = 1 /\ profile' \in 0 .. MaxRevisions /\ standing' = "pending" /\ standing' \in S!Standings /\ doubtful'
      /\ runs' \in [Callers -> RunsOf]
      /\ \A d \in Callers \ {c} : runs'[d] = runs[d]
      /\ runs[c].op = "create" /\ runs[c].stage = "sent" /\ runs'[c].op = "create" /\ runs'[c].stage = "done"
  <2>1. S!To(c, "done") /\ "done" \in Stages
    BY DEF S!CreateInZome, Stages
  <2>2. 1 \in 0 .. MaxRevisions /\ "pending" \in S!Standings
    BY <1>0, SessionBounds DEF S!Standings
  <2> QED BY <1>a, <2>1, <2>2, ToIs DEF S!CreateInZome, S!Zomes, S!UsersStore, S!Admin, S!Shown, S!Bounds
<1>2. SessionTypes'
  BY <1>0, <1>a, <1>1 DEF SessionTypes, Others
<1>3. StartInv'
  BY <1>0, <1>a, <1>1 DEF StartInv, S!InPages, S!Behind
<1>4. BroughtInv'
  BY <1>0, <1>a, <1>1 DEF BroughtInv, S!NoUser, S!InPages
<1>5. FoundInv'
  BY <1>0, <1>a, <1>1 DEF FoundInv, BroughtInv, S!NoUser, S!InPages
<1>6. ASSUME Waits PROVE AloneInv /\ LatestInv /\ CertainInv
  BY <1>0, <1>6
<1>7. ASSUME Waits PROVE AloneInv'
  BY <1>0, <1>a, <1>1, <1>6, <1>7 DEF AloneInv
<1>8. ASSUME Waits PROVE LatestInv'
  BY <1>0, <1>a, <1>1, <1>6, <1>8 DEF LatestInv, AloneInv
<1>9. ASSUME Waits PROVE CertainInv'
  BY <1>1 DEF CertainInv
<1> QED BY <1>0, <1>2, <1>3, <1>4, <1>5, <1>7, <1>8, <1>9 DEF WholeInv, SessionInv, WaitInv

\* The new user is held, and read again.
LEMMA UserCreatedStep ==
  ASSUME WholeInv, NEW c \in Callers, S!UserCreated(c)
  PROVE  WholeInv'
<1> USE DEF S!At, Refreshes, Read, Writes
<1>0. /\ S!SessionAssumption /\ SessionTypes /\ StartInv /\ BroughtInv /\ FoundInv
      /\ Waits => AloneInv /\ LatestInv /\ CertainInv
  BY DEF WholeInv, SessionInv, WaitInv
<1>a. /\ runs \in [Callers -> RunsOf] /\ S!NoRun \in RunsOf /\ S!NoRun.op = "none"
      /\ profile \in 0 .. MaxRevisions /\ standing \in S!Standings /\ failures \in 0 .. MaxFailures
      /\ user \in [revision : 0 .. MaxRevisions, status : S!Standings]
  BY <1>0, NoRunIs DEF SessionTypes, Others
<1>1. /\ UNCHANGED <<profile, standing, listed, offered, adminStatus, started, prerequisites, others, failures>>
      /\ page' = "leaving"
      /\ user' = [revision |-> 1, status |-> "none"] /\ user'.revision = 1
      /\ user' \in [revision : 0 .. MaxRevisions, status : S!Standings]
      /\ refreshing' \in BOOLEAN /\ loading' \in BOOLEAN /\ error' \in BOOLEAN
      /\ runs' \in [Callers -> RunsOf]
      /\ \A d \in Callers \ {c} : runs'[d] = runs[d]
      /\ runs[c].op = "create" /\ runs[c].stage = "done" /\ S!InPages
      /\ /\ refreshing => refreshing' = FALSE /\ runs'[c].op = "none" /\ UNCHANGED doubtful
         /\ ~refreshing => /\ refreshing' = TRUE /\ runs'[c].op = "refresh" /\ runs'[c].stage = "links"
                           /\ doubtful' = FALSE
  <2>1. S!RefreshCurrentUser(c, FALSE) /\ runs[c].op = "create" /\ runs[c].stage = "done"
    BY DEF S!UserCreated
  <2>2. S!InPages
    BY <1>0, <2>1 DEF StartInv, S!Behind
  <2>3. user' = [revision |-> 1, status |-> "none"] /\ 1 \in 0 .. MaxRevisions
    BY <1>0, SessionBounds DEF S!UserCreated
  <2>4. user' \in [revision : 0 .. MaxRevisions, status : S!Standings]
    BY <2>3 DEF S!Standings
  <2>5. /\ runs' \in [Callers -> RunsOf]
        /\ \A d \in Callers \ {c} : runs'[d] = runs[d]
        /\ refreshing => refreshing' = FALSE /\ runs'[c].op = "none" /\ UNCHANGED <<loading, error, doubtful>>
        /\ ~refreshing => /\ refreshing' = TRUE /\ runs'[c].op = "refresh" /\ runs'[c].stage = "links"
                          /\ loading' = TRUE /\ error' = FALSE /\ doubtful' = FALSE
    BY <1>0, <2>1, RefreshIs
  <2>6. refreshing' \in BOOLEAN /\ loading' \in BOOLEAN /\ error' \in BOOLEAN
    BY <1>0, <2>5 DEF SessionTypes, Others
  <2>7. UNCHANGED <<profile, standing, listed, offered, adminStatus, started, prerequisites, others, failures>> /\ page' = "leaving"
    BY DEF S!UserCreated, S!Zomes, S!Admin, S!Bounds
  <2> QED BY <2>1, <2>2, <2>3, <2>4, <2>5, <2>6, <2>7
<1>2. SessionTypes'
  BY <1>0, <1>a, <1>1 DEF SessionTypes, Others
<1>3. StartInv'
  BY <1>0, <1>a, <1>1 DEF StartInv, S!InPages, S!Behind
<1>4. BroughtInv'
  BY <1>0, <1>a, <1>1 DEF BroughtInv, S!NoUser, S!InPages
<1>5. FoundInv'
  BY <1>0, <1>a, <1>1 DEF FoundInv, BroughtInv, S!NoUser, S!InPages
<1>6. ASSUME Waits PROVE AloneInv /\ LatestInv /\ CertainInv
  BY <1>0, <1>6
<1>7. ASSUME Waits PROVE AloneInv'
  BY <1>0, <1>a, <1>1, <1>6, <1>7 DEF AloneInv
<1>8. ASSUME Waits PROVE LatestInv'
  BY <1>0, <1>a, <1>1, <1>6, <1>8 DEF LatestInv, AloneInv
<1>9. ASSUME Waits PROVE CertainInv'
  <2>1. \A d \in Callers : ~doubtful' /\ S!At(d, "refresh", "answered")' => runs'[d].status = standing'
    BY <1>1, <1>6, <1>9 DEF AloneInv
  <2>2. ~doubtful' /\ ~Refreshing' => IF Edited' THEN user' # S!NoUser /\ user'.status = standing' ELSE user' = WhatIs'
    <3>1. ~refreshing
      BY <1>1, <1>6, <1>9 DEF AloneInv
    <3> QED BY <1>1, <3>1 DEF Refreshing
  <2> QED BY <2>1, <2>2 DEF CertainInv
<1> QED BY <1>0, <1>2, <1>3, <1>4, <1>5, <1>7, <1>8, <1>9 DEF WholeInv, SessionInv, WaitInv

\* The zome revises the profile.
LEMMA UpdateInZomeStep ==
  ASSUME WholeInv, NEW c \in Callers, S!UpdateInZome(c)
  PROVE  WholeInv'
<1> USE DEF S!At, Refreshes, Read, Writes
<1>0. /\ S!SessionAssumption /\ SessionTypes /\ StartInv /\ BroughtInv /\ FoundInv
      /\ Waits => AloneInv /\ LatestInv /\ CertainInv
  BY DEF WholeInv, SessionInv, WaitInv
<1>a. /\ runs \in [Callers -> RunsOf] /\ S!NoRun \in RunsOf /\ S!NoRun.op = "none"
      /\ profile \in 0 .. MaxRevisions /\ standing \in S!Standings /\ failures \in 0 .. MaxFailures
      /\ user \in [revision : 0 .. MaxRevisions, status : S!Standings]
  BY <1>0, NoRunIs DEF SessionTypes, Others
<1>1. /\ UNCHANGED <<standing, listed, offered, adminStatus, started, prerequisites, others, failures>>
      /\ UNCHANGED <<user, page, refreshing, loading, error, doubtful>>
      /\ profile' = profile + 1 /\ profile' \in 0 .. MaxRevisions
      /\ runs' \in [Callers -> RunsOf]
      /\ \A d \in Callers \ {c} : runs'[d] = runs[d]
      /\ runs[c].op = "edit" /\ runs[c].stage = "sent" /\ runs'[c].op = "edit" /\ runs'[c].stage = "done" /\ runs'[c].revision = profile + 1
  <2>1. profile + 1 \in 0 .. MaxRevisions
    BY <1>0, <1>a, SessionBounds DEF S!UpdateInZome
  <2>2. runs' = [runs EXCEPT ![c].stage = "done", ![c].revision = profile + 1] /\ "done" \in Stages
    BY DEF S!UpdateInZome, Stages
  <2>3. SessionTypes
    BY <1>0
  <2>4. /\ runs' \in [Callers -> RunsOf] /\ runs'[c].op = runs[c].op /\ runs'[c].stage = "done"
        /\ runs'[c].revision = profile + 1 /\ \A d \in Callers \ {c} : runs'[d] = runs[d]
    BY <2>1, <2>2, <2>3, RevisionIsMade
  <2> QED BY <2>1, <2>4 DEF S!UpdateInZome, S!At, S!Zomes, S!UsersStore, S!Admin, S!Shown, S!Bounds
<1>2. SessionTypes'
  BY <1>0, <1>a, <1>1 DEF SessionTypes, Others
<1>3. StartInv'
  BY <1>0, <1>a, <1>1 DEF StartInv, S!InPages, S!Behind
<1>4. BroughtInv'
  BY <1>0, <1>a, <1>1 DEF BroughtInv, S!NoUser, S!InPages
<1>5. FoundInv'
  BY <1>0, <1>a, <1>1 DEF FoundInv, BroughtInv
<1>6. ASSUME Waits PROVE AloneInv /\ LatestInv /\ CertainInv
  BY <1>0, <1>6
<1>7. ASSUME Waits PROVE AloneInv'
  BY <1>0, <1>a, <1>1, <1>6, <1>7 DEF AloneInv
<1>8. ASSUME Waits PROVE LatestInv'
  BY <1>0, <1>a, <1>1, <1>6, <1>8 DEF LatestInv, AloneInv
<1>9. ASSUME Waits PROVE CertainInv'
  <2>1. \A d \in Callers : ~doubtful' /\ S!At(d, "refresh", "answered")' => runs'[d].status = standing'
    BY <1>a, <1>1, <1>6, <1>9 DEF CertainInv, AloneInv
  <2>2. ~doubtful' /\ ~Refreshing' => IF Edited' THEN user' # S!NoUser /\ user'.status = standing' ELSE user' = WhatIs'
    <3>1. ~Refreshing /\ ~Edited /\ Edited'
      BY <1>1, <1>6, <1>9 DEF AloneInv, Refreshing, Edited
    <3>2. user # S!NoUser
      BY <1>0, <1>1 DEF BroughtInv
    <3>3. ~doubtful => user = WhatIs
      BY <1>6, <1>9, <3>1 DEF CertainInv
    <3>4. ~doubtful => user.status = standing
      BY <3>2, <3>3 DEF WhatIs
    <3> QED BY <1>1, <3>1, <3>2, <3>4
  <2> QED BY <2>1, <2>2 DEF CertainInv
<1> QED BY <1>0, <1>2, <1>3, <1>4, <1>5, <1>7, <1>8, <1>9 DEF WholeInv, SessionInv, WaitInv

\* The user that is held is revised too.
LEMMA UpdateCurrentUserStep ==
  ASSUME WholeInv, NEW c \in Callers, S!UpdateCurrentUser(c)
  PROVE  WholeInv'
<1> USE DEF S!At, Refreshes, Read, Writes
<1>0. /\ S!SessionAssumption /\ SessionTypes /\ StartInv /\ BroughtInv /\ FoundInv
      /\ Waits => AloneInv /\ LatestInv /\ CertainInv
  BY DEF WholeInv, SessionInv, WaitInv
<1>a. /\ runs \in [Callers -> RunsOf] /\ S!NoRun \in RunsOf /\ S!NoRun.op = "none"
      /\ profile \in 0 .. MaxRevisions /\ standing \in S!Standings /\ failures \in 0 .. MaxFailures
      /\ user \in [revision : 0 .. MaxRevisions, status : S!Standings]
  BY <1>0, NoRunIs DEF SessionTypes, Others
<1>1. /\ UNCHANGED <<profile, standing, listed, offered, adminStatus, started, prerequisites, others, failures>>
      /\ UNCHANGED <<refreshing, doubtful>>
      /\ page' = "leaving"
      /\ loading' \in BOOLEAN /\ error' \in BOOLEAN
      /\ runs' \in [Callers -> RunsOf]
      /\ \A d \in Callers \ {c} : runs'[d] = runs[d]
      /\ runs'[c].op = "none"
      /\ runs[c].op = "edit" /\ runs[c].stage = "done" /\ S!InPages
      /\ user'.revision = runs[c].revision /\ user'.status = user.status
      /\ user' \in [revision : 0 .. MaxRevisions, status : S!Standings]
  <2>1. S!Put(c, S!NoRun) /\ runs[c].op = "edit" /\ runs[c].stage = "done" /\ runs[c] \in RunsOf
    BY <1>a DEF S!UpdateCurrentUser
  <2>2. runs' \in [Callers -> RunsOf] /\ runs'[c] = S!NoRun /\ \A d \in Callers \ {c} : runs'[d] = runs[d]
    BY <1>a, <2>1, PutIs
  <2>3. S!InPages
    BY <1>0, <2>1 DEF StartInv, S!Behind
  <2>4. user' = [user EXCEPT !.revision = runs[c].revision] /\ runs[c].revision \in 0 .. MaxRevisions
    BY <2>1 DEF S!UpdateCurrentUser, RunsOf
  <2>5. /\ user' \in [revision : 0 .. MaxRevisions, status : S!Standings]
        /\ user'.revision = runs[c].revision /\ user'.status = user.status
    BY <1>a, <2>4
  <2> QED BY <1>0, <1>a, <2>1, <2>2, <2>3, <2>5 DEF S!UpdateCurrentUser, S!Loaded, SessionTypes, Others, S!Zomes, S!Admin, S!Shown, S!Bounds
<1>2. SessionTypes'
  BY <1>0, <1>a, <1>1 DEF SessionTypes, Others
<1>3. StartInv'
  BY <1>0, <1>a, <1>1 DEF StartInv, S!InPages, S!Behind
<1>4. BroughtInv'
  BY <1>0, <1>a, <1>1 DEF BroughtInv, S!NoUser, S!InPages
<1>5. FoundInv'
  BY <1>0, <1>a, <1>1 DEF FoundInv, BroughtInv, S!NoUser, S!InPages
<1>6. ASSUME Waits PROVE AloneInv /\ LatestInv /\ CertainInv
  BY <1>0, <1>6
<1>7. ASSUME Waits PROVE AloneInv'
  BY <1>0, <1>a, <1>1, <1>6, <1>7 DEF AloneInv
<1>8. ASSUME Waits PROVE LatestInv'
  BY <1>0, <1>a, <1>1, <1>6, <1>8 DEF LatestInv, AloneInv
<1>9. ASSUME Waits PROVE CertainInv'
  <2>1. \A d \in Callers : ~doubtful' /\ S!At(d, "refresh", "answered")' => runs'[d].status = standing'
    BY <1>a, <1>1, <1>6, <1>9 DEF CertainInv, AloneInv
  <2>2. ~doubtful' /\ ~Refreshing' => IF Edited' THEN user' # S!NoUser /\ user'.status = standing' ELSE user' = WhatIs'
    <3>1. ~Refreshing /\ Edited /\ ~Edited'
      BY <1>1, <1>6, <1>9 DEF AloneInv, Refreshing, Edited
    <3>2. ~doubtful => user.status = standing
      BY <1>6, <1>9, <3>1 DEF CertainInv
    <3>3. runs[c].revision = profile /\ runs[c].revision > 0
      BY <1>0, <1>1, <1>6, <1>9 DEF BroughtInv, LatestInv
    <3>4. profile # 0
      BY <1>a, <3>3
    <3>5. ~doubtful => user'.revision = profile /\ user'.status = standing
      BY <1>1, <3>2, <3>3
    <3>6. ~doubtful => user' = [revision |-> profile, status |-> standing]
      BY <1>1, <3>5
    <3> QED BY <1>1, <3>1, <3>4, <3>6 DEF WhatIs
  <2> QED BY <2>1, <2>2 DEF CertainInv
<1> QED BY <1>0, <1>2, <1>3, <1>4, <1>5, <1>7, <1>8, <1>9 DEF WholeInv, SessionInv, WaitInv

\* A form is refused, or its call fails.
LEMMA SubmitFailsStep ==
  ASSUME WholeInv, NEW c \in Callers, S!SubmitFails(c)
  PROVE  WholeInv'
<1> USE DEF S!At, Refreshes, Read, Writes
<1>0. /\ S!SessionAssumption /\ SessionTypes /\ StartInv /\ BroughtInv /\ FoundInv
      /\ Waits => AloneInv /\ LatestInv /\ CertainInv
  BY DEF WholeInv, SessionInv, WaitInv
<1>a. /\ runs \in [Callers -> RunsOf] /\ S!NoRun \in RunsOf /\ S!NoRun.op = "none"
      /\ profile \in 0 .. MaxRevisions /\ standing \in S!Standings /\ failures \in 0 .. MaxFailures
      /\ user \in [revision : 0 .. MaxRevisions, status : S!Standings]
  BY <1>0, NoRunIs DEF SessionTypes, Others
<1>1. /\ UNCHANGED <<profile, standing, listed, offered, adminStatus, started, prerequisites>>
      /\ UNCHANGED <<user, refreshing>>
      /\ loading' \in BOOLEAN /\ error' \in BOOLEAN
      /\ runs' \in [Callers -> RunsOf]
      /\ \A d \in Callers \ {c} : runs'[d] = runs[d]
      /\ runs'[c].op = "none"
      /\ runs[c].op \in {"create", "edit"} /\ doubtful' /\ S!InPages
      /\ page' = page \/ page' = "leaving"
      /\ failures' \in 0 .. MaxFailures /\ others' \in 0 .. MaxOthers
      /\ failures' > 0 \/ (runs[c].op = "create" /\ runs[c].stage = "sent" /\ failures' = failures)
      /\ failures' = 0 => failures = 0
      /\ failures > 0 => failures' > 0
  <2>1. S!Put(c, S!NoRun) /\ runs[c].op \in {"create", "edit"} /\ doubtful' = TRUE
    BY DEF S!SubmitFails
  <2>2. runs' \in [Callers -> RunsOf] /\ runs'[c] = S!NoRun /\ \A d \in Callers \ {c} : runs'[d] = runs[d]
    BY <1>a, <2>1, PutIs
  <2>3. S!InPages
    BY <1>0, <2>1 DEF StartInv, S!Behind
  <2>4. \/ failures' = failures /\ others' = others /\ runs[c].op = "create" /\ runs[c].stage = "sent"
        \/ failures' \in 0 .. MaxFailures /\ others' \in 0 .. MaxOthers /\ failures' > 0
    BY <1>0, FailingIs DEF S!SubmitFails, S!Bounds
  <2>5. failures \in 0 .. MaxFailures /\ others \in 0 .. MaxOthers
    BY <1>0 DEF SessionTypes, Others
  <2>6. /\ loading' \in BOOLEAN /\ error' \in BOOLEAN /\ (page' = page \/ page' = "leaving")
        /\ UNCHANGED <<profile, standing, listed, offered, adminStatus, started, prerequisites, user, refreshing>>
    BY <1>0 DEF S!SubmitFails, S!Loaded, S!LoadFailed, SessionTypes, Others, S!Zomes, S!Admin
  <2> QED BY <1>a, <2>1, <2>2, <2>3, <2>4, <2>5, <2>6
<1>2. SessionTypes'
  BY <1>0, <1>a, <1>1 DEF SessionTypes, Others
<1>3. StartInv'
  BY <1>0, <1>a, <1>1 DEF StartInv, S!InPages, S!Behind
<1>4. BroughtInv'
  BY <1>0, <1>a, <1>1 DEF BroughtInv, S!NoUser, S!InPages
<1>5. FoundInv'
  BY <1>0, <1>a, <1>1 DEF FoundInv, BroughtInv, S!NoUser, S!InPages
<1>6. ASSUME Waits PROVE AloneInv /\ LatestInv /\ CertainInv
  BY <1>0, <1>6
<1>7. ASSUME Waits PROVE AloneInv'
  BY <1>0, <1>a, <1>1, <1>6, <1>7 DEF AloneInv
<1>8. ASSUME Waits PROVE LatestInv'
  BY <1>0, <1>a, <1>1, <1>6, <1>8 DEF LatestInv, AloneInv
<1>9. ASSUME Waits PROVE CertainInv'
  BY <1>1 DEF CertainInv
<1> QED BY <1>0, <1>2, <1>3, <1>4, <1>5, <1>7, <1>8, <1>9 DEF WholeInv, SessionInv, WaitInv

\* The start of the page goes on.
LEMMA StartStep ==
  ASSUME WholeInv, S!Begin \/ S!Connected \/ S!ConnectedLate \/ S!PassStep \/ S!Complete
  PROVE  WholeInv'
<1> USE DEF S!At, Refreshes, Read, Writes
<1>0. /\ S!SessionAssumption /\ SessionTypes /\ StartInv /\ BroughtInv /\ FoundInv
      /\ Waits => AloneInv /\ LatestInv /\ CertainInv
  BY DEF WholeInv, SessionInv, WaitInv
<1>1. /\ UNCHANGED <<S!Zomes, S!UsersStore, S!Admin, S!Shown, runs, doubtful>>
      /\ \/ /\ UNCHANGED S!Bounds
            /\ \/ started = "pending" /\ started' = "connecting"
               \/ started = "connecting" /\ started' = "hrea"
               \/ started = "hrea" /\ started' = "network"
               \/ started = "network" /\ started' = "user"
               \/ started = "failed" /\ started' = "late"
               \/ started = "loading" /\ started' = "complete" /\ \A c \in Callers : runs[c].op # "refresh"
         \/ S!Failing /\ started = "connecting" /\ started' = "failed"
  BY DEF S!Begin, S!Connected, S!ConnectedLate, S!PassStep, S!Complete, S!StartTo, S!UserLoaded
<1>2. /\ failures' \in 0 .. MaxFailures /\ others' \in 0 .. MaxOthers
      /\ failures' = failures \/ failures' > 0
      /\ started' = "failed" => failures' > 0
  BY <1>0, <1>1, FailingIs DEF S!Bounds, SessionTypes, Others
<1>3. UNCHANGED <<profile, standing, listed, offered, user, refreshing, loading, error, adminStatus, page, prerequisites, runs,
                  doubtful>>
  BY <1>1 DEF S!Zomes, S!UsersStore, S!Admin, S!Shown
<1>4. /\ started' \in {"connecting", "hrea", "network", "user", "late", "complete", "failed"}
      /\ ~S!InPages
      /\ started' = "complete" => started = "loading" /\ \A c \in Callers : runs[c].op # "refresh"
      /\ started' = "late" => started = "failed" /\ failures' = failures
      /\ started' \notin {"late", "complete"} => started # "loading"
  BY <1>1 DEF S!InPages, S!Bounds
<1>5. SessionTypes'
  BY <1>0, <1>2, <1>3, <1>4 DEF SessionTypes, Others
<1>6. StartInv'
  BY <1>0, <1>2, <1>3, <1>4 DEF StartInv, S!InPages
<1>7. BroughtInv'
  BY <1>0, <1>3, <1>4 DEF BroughtInv
<1>8. FoundInv'
  <2> SUFFICES ASSUME failures' = 0, started' \in {"loading", "complete"}, user' = S!NoUser
               PROVE  profile' = 0 \/ \E c \in Callers : S!At(c, "create", "done")'
    BY DEF FoundInv
  <2>1. failures = 0 /\ started = "loading" /\ user = S!NoUser
    BY <1>0, <1>2, <1>3, <1>4 DEF SessionTypes, Others
  <2>2. profile = 0 \/ \E c \in Callers : S!At(c, "create", "done")
    BY <1>0, <1>4, <2>1 DEF FoundInv
  <2> QED BY <1>3, <2>2
<1>9. /\ AloneInv => AloneInv'
      /\ LatestInv => LatestInv'
      /\ CertainInv => CertainInv'
  BY <1>3 DEF AloneInv, LatestInv, CertainInv, WhatIs, Refreshing, Edited
<1> QED BY <1>0, <1>5, <1>6, <1>7, <1>8, <1>9 DEF WholeInv, SessionInv, WaitInv

\* The page is loaded again.
LEMMA ReloadStep ==
  ASSUME WholeInv, S!Reload
  PROVE  WholeInv'
<1> USE DEF S!At, Refreshes, Read, Writes
<1>0. S!SessionAssumption /\ SessionTypes /\ StartInv /\ BroughtInv
  BY DEF WholeInv, SessionInv
<1>1. /\ UNCHANGED <<S!Zomes, page, S!Bounds>>
      /\ user' = S!NoUser /\ refreshing' = FALSE /\ loading' = FALSE /\ error' = FALSE
      /\ adminStatus' = "unknown" /\ started' = "pending" /\ prerequisites' = "unchecked"
      /\ runs' = [c \in Callers |-> S!NoRun] /\ doubtful' = TRUE
  BY DEF S!Reload
<1>2. page # "leaving" /\ page # "edit"
  BY <1>0 DEF S!Reload, S!BlockedShown, S!Guarded, StartInv, BroughtInv, S!InPages
<1>3. runs' \in [Callers -> RunsOf] /\ \A c \in Callers : runs'[c].op = "none"
  BY <1>0, <1>1, NoRunIs
<1>4. user' \in [revision : 0 .. MaxRevisions, status : S!Standings] /\ user'.revision = 0
  <2>1. 0 \in 0 .. MaxRevisions
    BY <1>0, SessionBounds
  <2> QED BY <1>1, <2>1 DEF S!NoUser, S!Standings
<1>5. SessionTypes'
  BY <1>0, <1>1, <1>3, <1>4 DEF SessionTypes, Others, S!Zomes, S!Bounds
<1>6. StartInv'
  BY <1>1, <1>2, <1>3 DEF StartInv, S!InPages, S!Behind
<1>7. BroughtInv'
  BY <1>1, <1>2, <1>3 DEF BroughtInv
<1>8. FoundInv'
  BY <1>1 DEF FoundInv
<1>9. AloneInv' /\ CertainInv'
  BY <1>1, <1>2, <1>3 DEF AloneInv, CertainInv
<1>10. LatestInv'
  BY <1>0, <1>1, <1>3, <1>4 DEF LatestInv, S!Zomes, SessionTypes, Others
<1> QED BY <1>0, <1>5, <1>6, <1>7, <1>8, <1>9, <1>10 DEF WholeInv, SessionInv, WaitInv

\* Such an action keeps all of the invariant.
LEMMA WholeAside ==
  ASSUME WholeInv, SessionTypes', Aside
  PROVE  WholeInv'
BY AsideKeeps DEF WholeInv, SessionInv, WaitInv

\* It holds at first, and every step keeps it.
LEMMA WholeInit ==
  ASSUME S!SessionAssumption, S!Init
  PROVE  WholeInv
<1> USE DEF S!Init, S!At, Refreshes, Read, Writes
<1>1. runs \in [Callers -> RunsOf] /\ \A c \in Callers : runs[c].op = "none"
  BY NoRunIs
<1>2. 0 \in 0 .. MaxRevisions /\ 1 \in 0 .. MaxRevisions /\ 0 \in 0 .. MaxOthers /\ 0 \in 0 .. MaxFailures
  BY SessionBounds
<1>3. user \in [revision : 0 .. MaxRevisions, status : S!Standings] /\ user.revision = 0
  BY <1>2 DEF S!NoUser, S!Standings
<1>4. SessionTypes
  BY <1>1, <1>2, <1>3 DEF SessionTypes, Others, S!Standings, S!Choices
<1>5. StartInv /\ BroughtInv /\ FoundInv /\ AloneInv /\ CertainInv
  BY <1>1 DEF StartInv, BroughtInv, FoundInv, AloneInv, CertainInv, S!InPages, S!Behind
<1>6. LatestInv
  BY <1>1, <1>3 DEF LatestInv
<1> QED BY <1>4, <1>5, <1>6 DEF WholeInv, SessionInv, WaitInv

LEMMA WholeNext ==
  ASSUME WholeInv, [S!Next]_(S!sessionVars)
  PROVE  WholeInv'
<1>0. S!SessionAssumption /\ SessionTypes /\ StartInv
  BY DEF WholeInv, SessionInv
<1>1. ASSUME NEW c \in Callers,
             \/ S!FindUser(c) \/ S!GetLatestUser(c) \/ S!Refreshed(c) \/ S!RefreshFails(c) \/ S!ShowUser(c)
             \/ S!Submit(c, "create") \/ S!Submit(c, "edit")
             \/ S!CreateInZome(c) \/ S!UserCreated(c) \/ S!UpdateInZome(c) \/ S!UpdateCurrentUser(c)
             \/ S!SubmitFails(c) \/ S!LoadUser(c)
      PROVE  WholeInv'
  BY <1>1, FindUserStep, GetLatestUserStep, RefreshedStep, RefreshFailsStep, ShowUserStep, SubmitStep, CreateInZomeStep,
     UserCreatedStep, UpdateInZomeStep, UpdateCurrentUserStep, SubmitFailsStep, LoadUserStep
<1>2. ASSUME NEW c \in Callers,
             \/ S!FetchUsers(c) \/ S!EnsureAdminStatusChecked(c) \/ S!CheckIfAgentIsAdministrator(c)
             \/ S!CheckFails(c) \/ S!CheckAgain(c) \/ S!CheckTimesOut(c) \/ S!RegisterAsAdmin(c) \/ S!CheckPrerequisites(c)
      PROVE  WholeInv'
  BY <1>0, <1>2, CallsAside, WholeAside
<1>3. CASE \/ UNCHANGED S!sessionVars
           \/ S!ThirtySeconds \/ S!GuardTimesOut \/ S!RedirectToProfile \/ S!RetryPrerequisites
           \/ S!VisitCreate \/ S!VisitEdit \/ S!VisitListings \/ S!VisitNew \/ S!VisitHome \/ S!VisitAdmin \/ S!RedirectHome
           \/ S!OthersAct
  BY <1>0, <1>3, PagesAside, WholeAside
<1>4. CASE S!Begin \/ S!Connected \/ S!ConnectedLate \/ S!PassStep \/ S!Complete
  BY <1>4, StartStep
<1>5. CASE S!Reload
  BY <1>5, ReloadStep
<1> QED BY <1>1, <1>2, <1>3, <1>4, <1>5 DEF S!Next

\* It holds throughout.
LEMMA WholeInvariant == S!SessionAssumption /\ S!Spec => []WholeInv
<1> SUFFICES ASSUME S!SessionAssumption PROVE S!Spec => []WholeInv
  OBVIOUS
<1>1. S!Init => WholeInv
  BY WholeInit
<1>2. WholeInv /\ [S!Next]_(S!sessionVars) => WholeInv'
  BY WholeNext
<1> QED BY <1>1, <1>2, PTL DEF S!Spec

\* The types of the variables of the session.
THEOREM SessionTypesHold == S!SessionAssumption /\ S!Spec => []S!TypeOK
<1>1. WholeInv => S!TypeOK
  BY DEF WholeInv, SessionInv, SessionTypes, Others, S!TypeOK
<1> QED BY <1>1, WholeInvariant, PTL

\* Whatever overlaps, nobody who has a profile is welcomed as new, offered the form
\* of a profile, or sent to it, unless a call failed or makes the profile just now.
THEOREM SessionMissingMeansNone == S!SessionAssumption /\ S!Spec => []S!MissingMeansNone
<1>1. WholeInv => S!MissingMeansNone
  <2> SUFFICES ASSUME WholeInv, failures = 0, S!InPages, S!ProfileLink = "create"
               PROVE  profile = 0 \/ \E c \in Callers : runs[c].op = "create"
    BY DEF S!MissingMeansNone
  <2>1. SessionTypes /\ StartInv /\ FoundInv
    BY DEF WholeInv, SessionInv
  <2>2. user = S!NoUser
    BY DEF S!ProfileLink
  <2>3. started = "complete"
    BY <2>1 DEF StartInv, S!InPages
  <2> QED BY <2>1, <2>2, <2>3 DEF FoundInv, S!At
<1> QED BY <1>1, WholeInvariant, PTL

\* To a person who waits, once all calls have ended the user that is shown is the
\* latest revision with its status, as they were when the last refresh began.
THEOREM SessionShowsWhatIs == S!SessionAssumption /\ Waits /\ S!Spec => []S!CurrentUserIsWhatIs
<1> SUFFICES ASSUME Waits PROVE S!SessionAssumption /\ S!Spec => []S!CurrentUserIsWhatIs
  OBVIOUS
<1>1. WholeInv => S!CurrentUserIsWhatIs
  <2> SUFFICES ASSUME WholeInv, S!Settled, ~doubtful PROVE user = WhatIs
    BY DEF S!CurrentUserIsWhatIs, WhatIs
  <2>1. CertainInv /\ S!SessionAssumption
    BY DEF WholeInv, SessionInv, WaitInv
  <2>2. \A c \in Callers : runs[c].op = "none"
    BY <2>1, NoRunIs DEF S!Settled, S!Idle
  <2> QED BY <2>1, <2>2 DEF CertainInv, Refreshing, Edited, Refreshes, S!At
<1> QED BY <1>1, WholeInvariant, PTL

\* And what they see of their profile is never replaced by an older revision,
\* until the page is loaded again.
THEOREM SessionNeverOlder == S!SessionAssumption /\ Waits /\ S!Spec => [][S!ProfileNeverOlder]_(S!sessionVars)
<1> SUFFICES ASSUME Waits PROVE S!SessionAssumption /\ S!Spec => [][S!ProfileNeverOlder]_(S!sessionVars)
  OBVIOUS
<1>1. WholeInv /\ [S!Next]_(S!sessionVars) => [S!ProfileNeverOlder]_(S!sessionVars)
  <2> SUFFICES ASSUME WholeInv, [S!Next]_(S!sessionVars), started' # "pending" PROVE user'.revision >= user.revision
    BY DEF S!ProfileNeverOlder
  <2>0. /\ S!SessionAssumption /\ SessionTypes /\ StartInv /\ AloneInv /\ LatestInv
        /\ user.revision \in Nat /\ profile \in Nat
    BY DEF WholeInv, SessionInv, WaitInv, SessionTypes, Others
  <2>a. ASSUME UNCHANGED user PROVE user'.revision >= user.revision
    BY <2>0, <2>a
  <2>1. ASSUME NEW c \in Callers, S!Refreshed(c) PROVE user'.revision >= user.revision
    <3>1. runs[c].revision = profile /\ user'.revision = runs[c].revision
      BY <2>0, <2>1 DEF S!Refreshed, S!SetUser, LatestInv, Read, Refreshes, S!At
    <3> QED BY <2>0, <3>1 DEF LatestInv
  <2>2. ASSUME NEW c \in Callers, S!UserCreated(c) PROVE user'.revision >= user.revision
    <3>1. profile = 1 /\ user'.revision = 1
      BY <2>0, <2>2 DEF S!UserCreated, LatestInv
    <3> QED BY <2>0, <3>1 DEF LatestInv
  <2>3. ASSUME NEW c \in Callers, S!UpdateCurrentUser(c) PROVE user'.revision >= user.revision
    <3>1. runs[c].revision = profile
      BY <2>0, <2>3 DEF S!UpdateCurrentUser, LatestInv
    <3>2. user'.revision = runs[c].revision
      BY <2>0, <2>3 DEF S!UpdateCurrentUser, SessionTypes
    <3> QED BY <2>0, <3>1, <3>2 DEF LatestInv
  <2>4. ASSUME NEW c \in Callers,
               \/ S!FindUser(c) \/ S!GetLatestUser(c) \/ S!RefreshFails(c) \/ S!ShowUser(c)
               \/ S!Submit(c, "create") \/ S!Submit(c, "edit") \/ S!CreateInZome(c) \/ S!UpdateInZome(c)
               \/ S!SubmitFails(c) \/ S!LoadUser(c)
        PROVE  UNCHANGED user
    BY <2>4 DEF S!FindUser, S!GetLatestUser, S!RefreshFails, S!ShowUser, S!Submit, S!CreateInZome, S!UpdateInZome, S!SubmitFails, S!LoadUser,
                S!UsersStore
  <2>5. ASSUME NEW c \in Callers,
               \/ S!FetchUsers(c) \/ S!EnsureAdminStatusChecked(c) \/ S!CheckIfAgentIsAdministrator(c)
               \/ S!CheckFails(c) \/ S!CheckAgain(c) \/ S!CheckTimesOut(c) \/ S!RegisterAsAdmin(c) \/ S!CheckPrerequisites(c)
        PROVE  UNCHANGED user
    BY <2>0, <2>5, CallsAside DEF Aside
  <2>6. CASE \/ UNCHANGED S!sessionVars
             \/ S!ThirtySeconds \/ S!GuardTimesOut \/ S!RedirectToProfile \/ S!RetryPrerequisites
             \/ S!VisitCreate \/ S!VisitEdit \/ S!VisitListings \/ S!VisitNew \/ S!VisitHome \/ S!VisitAdmin \/ S!RedirectHome
             \/ S!OthersAct
    BY <2>0, <2>6, <2>a, PagesAside DEF Aside
  <2>7. CASE S!Begin \/ S!Connected \/ S!ConnectedLate \/ S!PassStep \/ S!Complete
    BY <2>7, <2>a DEF S!Begin, S!Connected, S!ConnectedLate, S!PassStep, S!Complete, S!StartTo, S!UsersStore
  <2>8. CASE S!Reload
    BY <2>8 DEF S!Reload
  <2> QED BY <2>a, <2>1, <2>2, <2>3, <2>4, <2>5, <2>6, <2>7, <2>8 DEF S!Next
<1> QED BY <1>1, WholeInvariant, PTL DEF S!Spec

-----------------------------------------------------------------------------
(* The pages of mediums of exchange: what the variables hold. *)

Deciding == {"approve", "reject", "delete"}
Saving == {"create", "suggest", "edit", "get saved"}
OfMediums == [Mediums -> [status : M!Statuses \cup {"none", "gone"}, rev : 0 .. MaxRevisions]]
ShownUnder == [M!Hashes -> M!Statuses \cup {"none"}]
Named == M!Hashes \cup {M!NoHash}
MediumPagesOpen ==
  [at : {"elsewhere", "list", "create", "suggest", "edit"}, id : Named, phase : {"loading", "ready", "failed"}]
CallsOfPages ==
  [on : {"idle", "list", "get"} \cup Deciding \cup Saving, id : Named,
   answer : SUBSET (Named \cup (Mediums \X M!Statuses)), ok : BOOLEAN, live : BOOLEAN]

MediumTypes ==
  /\ zome \in OfMediums
  /\ shown \in ShownUnder
  /\ page \in MediumPagesOpen
  /\ page.at = "edit" => page.id \in M!Hashes
  /\ tab \in M!Statuses \cup {"all"}
  /\ filled \in BOOLEAN /\ blocked \in BOOLEAN
  /\ run \in CallsOfPages
  /\ run.on \in Deciding \cup Saving => run.id \in M!Hashes
  /\ run.on = "list" => run.answer \subseteq Mediums \X M!Statuses
  /\ others \in 0 .. MaxOthers /\ failures \in 0 .. MaxFailures

\* The list is not open while one medium is got or saved.
AwayInv == run.on \in {"get"} \cup Saving => page.at # "list"

\* What the list shows of a medium.
Matches(m) ==
  /\ shown[<<m, 0>>] # "none" <=> M!There(m)
  /\ shown[<<m, 0>>] = "pending" <=> zome[m].status = "pending"
  /\ shown[<<m, 0>>] = "approved" => zome[m].status = "approved"
RevisionsHidden == \A m \in Mediums, r \in 1 .. MaxRevisions : shown[<<m, r>>] = "none"

\* What a decision that succeeded leaves to be shown.
Awaits(m) ==
  /\ run.on = "approve" => zome[m].status = "approved" /\ shown[<<m, 0>>] \in {"pending", "rejected"}
  /\ run.on = "reject" => zome[m].status = "rejected" /\ shown[<<m, 0>>] = "pending"
  /\ run.on = "delete" => zome[m].status = "gone"

\* A list that is asked for is what there is, and one that has loaded shows it, but
\* for the medium that is being decided on.
ListInv ==
  others = 0 =>
    /\ run.on = "list" => run.answer = {<<m, zome[m].status>> : m \in {n \in Mediums : M!There(n)}}
    /\ page.at = "list" /\ page.phase = "ready" /\ run.on \in {"idle"} \cup Deciding =>
         /\ RevisionsHidden
         /\ \A m \in Mediums :
              IF run.on \in Deciding /\ run.ok /\ run.id = <<m, 0>> THEN Awaits(m) ELSE Matches(m)

MediumsInv == M!MediumPagesAssumption /\ MediumTypes /\ AwayInv /\ ListInv

LEMMA HashIs ==
  ASSUME M!MediumPagesAssumption
  PROVE  /\ 0 \in 0 .. MaxRevisions /\ MaxRevisions \in Nat /\ MaxOthers \in Nat /\ MaxFailures \in Nat
         /\ \A m \in Mediums : <<m, 0>> \in M!Hashes
         /\ M!NoHash \in Named
<1>1. MaxRevisions \in Nat /\ MaxOthers \in Nat /\ MaxFailures \in Nat
  BY DEF M!MediumPagesAssumption
<1> QED BY <1>1 DEF M!Hashes, Named

\* A call that begins.
LEMMA MediumCallIs ==
  ASSUME NEW on \in {"list", "get"} \cup Deciding \cup Saving, NEW h \in Named,
         NEW answer \in SUBSET (Named \cup (Mediums \X M!Statuses)), NEW ok \in BOOLEAN
  PROVE  /\ M!Call(on, h, answer, ok) \in CallsOfPages
         /\ M!Call(on, h, answer, ok).on = on /\ M!Call(on, h, answer, ok).id = h
         /\ M!Call(on, h, answer, ok).answer = answer /\ M!Call(on, h, answer, ok).ok = ok
BY DEF M!Call, CallsOfPages

LEMMA IdleIs == M!Idle \in CallsOfPages /\ M!Idle.on = "idle"
BY DEF M!Idle, CallsOfPages, Named

LEMMA AskAllIs ==
  ASSUME M!AskAll, MediumTypes
  PROVE  /\ run' \in CallsOfPages /\ run'.on = "list"
         /\ run'.answer = {<<m, zome[m].status>> : m \in {n \in Mediums : M!There(n)}}
         /\ run'.answer \subseteq Mediums \X M!Statuses
<1> DEFINE every == {<<m, zome[m].status>> : m \in {n \in Mediums : M!There(n)}}
<1>1. every \in SUBSET (Named \cup (Mediums \X M!Statuses)) /\ every \subseteq Mediums \X M!Statuses
  BY DEF M!There, MediumTypes
<1>2. run' = M!Call("list", M!NoHash, every, TRUE) /\ M!NoHash \in Named
  BY DEF M!AskAll, Named
<1> HIDE DEF every
<1>3. run' \in CallsOfPages /\ run'.on = "list" /\ run'.answer = every
  BY <1>1, <1>2, MediumCallIs
<1> QED BY <1>1, <1>3 DEF every

LEMMA AskOneIs ==
  ASSUME NEW h \in M!Hashes, M!AskOne(h)
  PROVE  run' \in CallsOfPages /\ run'.on = "get"
<1> DEFINE one == IF M!There(h[1]) THEN {h} ELSE {}
<1>1. one \in SUBSET (Named \cup (Mediums \X M!Statuses)) /\ h \in Named
  BY DEF Named
<1>2. run' = M!Call("get", h, one, TRUE)
  BY DEF M!AskOne
<1> HIDE DEF one
<1> QED BY <1>1, <1>2, MediumCallIs

LEMMA MediumPageIs ==
  ASSUME NEW at \in {"elsewhere", "list", "create", "suggest", "edit"}, NEW h \in Named,
         NEW phase \in {"loading", "ready", "failed"}
  PROVE  /\ M!Page(at, h, phase) \in MediumPagesOpen
         /\ M!Page(at, h, phase).at = at /\ M!Page(at, h, phase).id = h /\ M!Page(at, h, phase).phase = phase
BY DEF M!Page, MediumPagesOpen

\* A call that fails counts.
LEMMA FailsIs ==
  ASSUME M!MediumPagesAssumption, MediumTypes, M!Fails
  PROVE  failures' \in 0 .. MaxFailures
<1>1. failures \in 0 .. MaxFailures /\ MaxFailures \in Nat
  BY HashIs DEF MediumTypes
<1> QED BY <1>1 DEF M!Fails

\* A decision in the zome.
LEMMA DecidesIs ==
  ASSUME M!MediumPagesAssumption, MediumTypes, NEW d \in M!Decisions, NEW m \in Mediums, M!Decides(d, m),
         d = "approve" => zome[m].rev < MaxRevisions
  PROVE  /\ zome' \in OfMediums
         /\ \A n \in Mediums \ {m} : zome'[n] = zome[n]
         /\ d = "approve" => zome'[m].status = "approved"
         /\ d = "reject" => zome'[m].status = "rejected"
         /\ d = "delete" => zome'[m].status = "gone"
<1>1. zome \in OfMediums /\ MaxRevisions \in Nat /\ zome[m].rev \in 0 .. MaxRevisions /\ 0 \in 0 .. MaxRevisions
  BY HashIs DEF MediumTypes, OfMediums
<1>2. CASE d = "approve"
  <2>1. zome' = [zome EXCEPT ![m] = [status |-> "approved", rev |-> zome[m].rev + 1]]
    BY <1>1, <1>2 DEF M!Decides, OfMediums
  <2>2. zome[m].rev + 1 \in 0 .. MaxRevisions
    BY <1>1, <1>2
  <2> QED BY <1>1, <1>2, <2>1, <2>2 DEF OfMediums, M!Statuses
<1>3. CASE d = "reject"
  <2>1. zome' = [zome EXCEPT ![m] = [zome[m] EXCEPT !.status = "rejected"]]
    BY <1>1, <1>3 DEF M!Decides, OfMediums
  <2> QED BY <1>1, <1>3, <2>1 DEF OfMediums, M!Statuses
<1>4. CASE d = "delete"
  <2>1. zome' = [zome EXCEPT ![m] = M!Gone]
    BY <1>1, <1>4 DEF M!Decides, OfMediums
  <2> QED BY <1>1, <1>4, <2>1 DEF OfMediums, M!Statuses, M!Gone
<1> QED BY <1>2, <1>3, <1>4 DEF M!Decisions

\* A decision changes neither what is shown nor the page, and is about a row.
LEMMA DecideIs ==
  ASSUME MediumsInv, NEW d \in M!Decisions, NEW m \in Mediums, M!Decide(d, m)
  PROVE  /\ UNCHANGED <<shown, page, tab, M!formVars, others>>
         /\ run.on = "idle" /\ page.at = "list"
         /\ run' \in CallsOfPages /\ run'.on = d /\ run'.id = <<m, 0>> /\ run'.id \in M!Hashes
         /\ failures' \in 0 .. MaxFailures
         /\ shown[<<m, 0>>] # "none"
         /\ d = "approve" => shown[<<m, 0>>] # "approved"
         /\ d = "reject" => shown[<<m, 0>>] = "pending"
         /\ \/ run'.ok /\ M!There(m) /\ M!Decides(d, m)
            \/ ~run'.ok /\ UNCHANGED zome
         /\ zome' \in OfMediums
         /\ d = "approve" => zome[m].rev < MaxRevisions
<1>1. <<m, 0>> \in M!Hashes /\ <<m, 0>> \in Named /\ {} \in SUBSET (Named \cup (Mediums \X M!Statuses))
  BY HashIs DEF Named, MediumsInv
<1>2. d \in {"list", "get"} \cup Deciding \cup Saving
  BY DEF M!Decisions, Deciding
<1>3. run = M!Idle /\ d \in M!OfferedFor(<<m, 0>>)
  BY DEF M!Decide
<1>4. /\ page.at = "list" /\ shown[<<m, 0>>] # "none"
      /\ d = "approve" => shown[<<m, 0>>] # "approved"
      /\ d = "reject" => shown[<<m, 0>>] = "pending"
  BY <1>1, <1>3 DEF M!OfferedFor, M!Tabled
<1>5. PICK ok \in BOOLEAN :
        /\ run' = M!Call(d, <<m, 0>>, {}, ok)
        /\ ok => M!There(m) /\ M!Decides(d, m) /\ UNCHANGED failures
        /\ ~ok => UNCHANGED zome /\ (M!Fails \/ UNCHANGED failures)
  BY DEF M!Decide
<1>6. run' \in CallsOfPages /\ run'.on = d /\ run'.id = <<m, 0>> /\ run'.ok = ok
  BY <1>1, <1>2, <1>5, MediumCallIs
<1>7. failures' \in 0 .. MaxFailures
  BY <1>5, FailsIs DEF MediumsInv, MediumTypes
<1>8. /\ UNCHANGED <<shown, page, tab, M!formVars, others>>
      /\ d = "approve" => zome[m].rev < MaxRevisions
  BY DEF M!Decide
<1>9. zome' \in OfMediums
  BY <1>5, <1>8, DecidesIs DEF MediumsInv, MediumTypes
<1> QED BY <1>1, <1>3, <1>4, <1>5, <1>6, <1>7, <1>8, <1>9, IdleIs

\* A form that is sent.
LEMMA SubmitIs ==
  ASSUME MediumsInv, NEW m \in Mediums, M!Submit(m)
  PROVE  /\ UNCHANGED <<shown, page, tab, filled, others>>
         /\ run.on = "idle" /\ page.at # "list"
         /\ run' \in CallsOfPages /\ run'.on \in {"create", "suggest", "edit"} /\ run'.id \in M!Hashes
         /\ failures' \in 0 .. MaxFailures /\ blocked' = FALSE
         /\ zome' \in OfMediums
<1> USE DEF MediumsInv
<1>1. page.at \in {"create", "suggest", "edit"} /\ run = M!Idle /\ zome[m].rev < MaxRevisions
  BY DEF M!Submit, M!FormShown, M!MediumFormShown, M!ModalShown
<1>2. page.id \in Named /\ {page.id} \in SUBSET (Named \cup (Mediums \X M!Statuses)) /\ {} \in SUBSET (Named \cup (Mediums \X M!Statuses))
  BY DEF MediumTypes, MediumPagesOpen
<1>3. MaxRevisions \in Nat /\ zome[m].rev \in 0 .. MaxRevisions /\ zome[m].rev + 1 \in 0 .. MaxRevisions
  BY <1>1, HashIs DEF MediumTypes, OfMediums
<1>4. \/ /\ zome' = IF page.at = "edit" THEN [zome EXCEPT ![m].rev = @ + 1] ELSE [zome EXCEPT ![m].status = "pending"]
         /\ run' = M!Call(page.at, <<m, zome'[m].rev>>, {page.id}, TRUE)
         /\ UNCHANGED failures
      \/ /\ M!Fails \/ UNCHANGED failures
         /\ run' = M!Call(page.at, <<m, zome[m].rev>>, {}, FALSE)
         /\ UNCHANGED zome
  BY DEF M!Submit
<1>5. zome' \in OfMediums
  <2>1. CASE UNCHANGED zome
    BY <2>1 DEF MediumTypes
  <2>2. CASE page.at = "edit" /\ zome' = [zome EXCEPT ![m].rev = @ + 1]
    BY <1>3, <2>2 DEF MediumTypes, OfMediums
  <2>3. CASE page.at # "edit" /\ zome' = [zome EXCEPT ![m].status = "pending"]
    BY <1>3, <2>3 DEF MediumTypes, OfMediums, M!Statuses
  <2> QED BY <1>4, <2>1, <2>2, <2>3 DEF MediumTypes, OfMediums
<1>6. <<m, zome[m].rev>> \in M!Hashes /\ <<m, zome'[m].rev>> \in M!Hashes
  BY <1>3, <1>5 DEF M!Hashes, OfMediums
<1>7. run' \in CallsOfPages /\ run'.on = page.at /\ run'.id \in M!Hashes
  <2>1. PICK h \in M!Hashes, a \in {{}, {page.id}}, ok \in BOOLEAN : run' = M!Call(page.at, h, a, ok)
    BY <1>4, <1>6
  <2>2. h \in Named /\ a \in SUBSET (Named \cup (Mediums \X M!Statuses)) /\ page.at \in {"list", "get"} \cup Deciding \cup Saving
    BY <1>1, <1>2, <2>1 DEF Named, Saving
  <2>3. PICK on \in {"list", "get"} \cup Deciding \cup Saving : on = page.at
    BY <2>2
  <2>4. PICK ans \in SUBSET (Named \cup (Mediums \X M!Statuses)) : ans = a
    BY <2>2
  <2>5. run' = M!Call(on, h, ans, ok) /\ h \in Named
    BY <2>1, <2>2, <2>3, <2>4
  <2>6. run' \in CallsOfPages /\ run'.on = on /\ run'.id = h
    BY <2>5, MediumCallIs
  <2> QED BY <2>1, <2>3, <2>6
<1>8. failures' \in 0 .. MaxFailures
  BY <1>4, FailsIs DEF MediumTypes
<1>9. UNCHANGED <<shown, page, tab, filled, others>> /\ blocked' = FALSE
  BY DEF M!Submit
<1> QED BY <1>1, <1>5, <1>7, <1>8, <1>9, IdleIs

\* What a page that opens, and the call it leaves, are.
LEMMA LeavesIs ==
  ASSUME MediumTypes, M!Leaves
  PROVE  /\ run' \in CallsOfPages
         /\ UNCHANGED <<run.on, run.id, run.answer, run.ok>>
BY DEF MediumTypes, CallsOfPages, M!Leaves

LEMMA PhaseIs ==
  ASSUME page \in MediumPagesOpen, NEW phase \in {"loading", "ready", "failed"}
  PROVE  /\ [page EXCEPT !.phase = phase] \in MediumPagesOpen
         /\ [page EXCEPT !.phase = phase].at = page.at /\ [page EXCEPT !.phase = phase].id = page.id
         /\ [page EXCEPT !.phase = phase].phase = phase
BY DEF MediumPagesOpen

\* The invariant of the list from where it loads, or is not open.
LEMMA NotReady ==
  ASSUME page'.at # "list" \/ page'.phase # "ready", run'.on # "list" \/ others' # 0
  PROVE  ListInv'
BY DEF ListInv

LEMMA VisitStepOfMediums ==
  ASSUME MediumsInv, M!Visit
  PROVE  MediumsInv'
<1>1. PICK at \in {"create", "suggest", "elsewhere"} : page.at # at /\ M!Open(M!Page(at, M!NoHash, "ready"))
  BY DEF M!Visit
<1>2. page' \in MediumPagesOpen /\ page'.at = at
  <2>1. at \in {"elsewhere", "list", "create", "suggest", "edit"} /\ M!NoHash \in Named /\ page' = M!Page(at, M!NoHash, "ready")
    BY <1>1, HashIs DEF M!Open, MediumsInv
  <2> QED BY <2>1, MediumPageIs
<1>3. run' \in CallsOfPages /\ run'.on = run.on /\ run'.id = run.id /\ run'.answer = run.answer
  BY LeavesIs DEF M!Visit, MediumsInv
<1>4. UNCHANGED <<zome, shown, others, failures>> /\ tab' = "approved" /\ filled' = FALSE /\ blocked' = FALSE
  BY <1>1 DEF M!Visit, M!Open
<1>5. MediumTypes'
  BY <1>1, <1>2, <1>3, <1>4 DEF MediumsInv, MediumTypes, M!Statuses
<1>6. AwayInv' /\ ListInv'
  BY <1>1, <1>2, <1>3, <1>4 DEF MediumsInv, AwayInv, ListInv, M!There
<1> QED BY <1>5, <1>6 DEF MediumsInv, M!MediumPagesAssumption

\* The list is opened, or fetched again.
LEMMA ListAsked ==
  ASSUME MediumsInv, M!VisitList \/ M!Refresh
  PROVE  MediumsInv'
<1>1. /\ run' \in CallsOfPages /\ run'.on = "list"
      /\ run'.answer = {<<m, zome[m].status>> : m \in {n \in Mediums : M!There(n)}}
      /\ run'.answer \subseteq Mediums \X M!Statuses
  BY AskAllIs DEF M!VisitList, M!Refresh, MediumsInv
<1>2. page' \in MediumPagesOpen /\ page'.at = "list" /\ page'.phase = "loading"
  <2>1. CASE M!VisitList
    <3>1. page' = M!Page("list", M!NoHash, "loading") /\ M!NoHash \in Named
      BY <2>1, HashIs DEF M!VisitList, M!Open, MediumsInv
    <3> QED BY <3>1, MediumPageIs
  <2>2. CASE M!Refresh
    BY <2>2, PhaseIs DEF M!Refresh, MediumsInv, MediumTypes
  <2> QED BY <2>1, <2>2
<1>3. /\ UNCHANGED <<zome, others, failures>>
      /\ shown' \in ShownUnder /\ tab' \in M!Statuses \cup {"all"} /\ filled' \in BOOLEAN /\ blocked' \in BOOLEAN
  BY DEF M!VisitList, M!Refresh, M!Open, MediumsInv, MediumTypes, ShownUnder, M!Empty, M!Statuses, M!formVars
<1>4. MediumTypes'
  BY <1>1, <1>2, <1>3 DEF MediumsInv, MediumTypes, Deciding, Saving
<1>5. AwayInv'
  BY <1>1 DEF AwayInv, Saving
<1>6. ListInv'
  BY <1>1, <1>2, <1>3 DEF ListInv, M!There, Deciding
<1> QED BY <1>4, <1>5, <1>6 DEF MediumsInv, M!MediumPagesAssumption

\* What the list shows once it has loaded.
LEMMA ListedShows ==
  ASSUME MediumsInv, M!Listed, others = 0
  PROVE  /\ \A m \in Mediums, r \in 1 .. MaxRevisions : shown'[<<m, r>>] = "none"
         /\ \A m \in Mediums : shown'[<<m, 0>>] = IF M!There(m) THEN zome[m].status ELSE "none"
<1>1. run.answer = {<<m, zome[m].status>> : m \in {n \in Mediums : M!There(n)}}
  BY DEF MediumsInv, ListInv, M!Listed
<1>2. shown' = [h \in M!Hashes |-> IF \E e \in run.answer : h = <<e[1], 0>>
                                 THEN (CHOOSE e \in run.answer : e[1] = h[1])[2] ELSE "none"]
  BY DEF M!Listed
<1>3. ASSUME NEW m \in Mediums, NEW r \in 1 .. MaxRevisions PROVE shown'[<<m, r>>] = "none"
  <2>1. <<m, r>> \in M!Hashes /\ r # 0
    BY HashIs DEF M!Hashes, MediumsInv
  <2>2. \A e \in run.answer : <<m, r>> # <<e[1], 0>>
    BY <2>1
  <2> QED BY <1>2, <2>1, <2>2
<1>4. ASSUME NEW m \in Mediums PROVE shown'[<<m, 0>>] = IF M!There(m) THEN zome[m].status ELSE "none"
  <2>1. <<m, 0>> \in M!Hashes
    BY HashIs DEF MediumsInv
  <2>2. CASE M!There(m)
    <3>1. <<m, zome[m].status>> \in run.answer
      BY <1>1, <2>2
    <3>2. \A e \in run.answer : e[1] = m => e = <<m, zome[m].status>>
      BY <1>1
    <3>3. (CHOOSE e \in run.answer : e[1] = m) = <<m, zome[m].status>>
      BY <3>1, <3>2
    <3>4. \E e \in run.answer : <<m, 0>> = <<e[1], 0>>
      BY <3>1
    <3>5. <<m, 0>>[1] = m
      OBVIOUS
    <3> QED BY <1>2, <2>1, <2>2, <3>3, <3>4, <3>5
  <2>3. CASE ~M!There(m)
    <3>1. ~\E e \in run.answer : <<m, 0>> = <<e[1], 0>>
      BY <1>1, <2>3
    <3> QED BY <1>2, <2>1, <2>3, <3>1
  <2> QED BY <2>2, <2>3
<1> QED BY <1>3, <1>4

LEMMA ListedStep ==
  ASSUME MediumsInv, M!Listed
  PROVE  MediumsInv'
<1>1. run' = M!Idle /\ UNCHANGED <<zome, tab, M!formVars, others, failures>> /\ run.on = "list"
  BY DEF M!Listed
<1>2. page' \in MediumPagesOpen /\ page'.at = page.at /\ page'.id = page.id
  <2>1. page \in MediumPagesOpen /\ (page' = page \/ page' = [page EXCEPT !.phase = "ready"])
    BY DEF M!Listed, MediumsInv, MediumTypes
  <2> QED BY <2>1, PhaseIs
<1>3. shown' \in ShownUnder
  <2> DEFINE under(h) == IF \E e \in run.answer : h = <<e[1], 0>>
                         THEN (CHOOSE e \in run.answer : e[1] = h[1])[2] ELSE "none"
  <2>1. run.answer \subseteq Mediums \X M!Statuses /\ shown' = [h \in M!Hashes |-> under(h)]
    BY DEF M!Listed, MediumsInv, MediumTypes
  <2>2. ASSUME NEW h \in M!Hashes PROVE under(h) \in M!Statuses \cup {"none"}
    <3>1. CASE \E e \in run.answer : h = <<e[1], 0>>
      <4>1. \E e \in run.answer : e[1] = h[1]
        BY <3>1
      <4>2. (CHOOSE e \in run.answer : e[1] = h[1]) \in run.answer
        BY <4>1
      <4> QED BY <2>1, <3>1, <4>2
    <3>2. CASE ~\E e \in run.answer : h = <<e[1], 0>>
      BY <3>2
    <3> QED BY <3>1, <3>2
  <2> HIDE DEF under
  <2> QED BY <2>1, <2>2 DEF ShownUnder
<1>4. MediumTypes'
  BY <1>1, <1>2, <1>3, IdleIs DEF MediumsInv, MediumTypes, M!formVars, Deciding, Saving
<1>5. AwayInv'
  BY <1>1, IdleIs DEF AwayInv, Saving
<1>6. ListInv'
  <2> SUFFICES ASSUME others = 0
               PROVE  RevisionsHidden' /\ \A m \in Mediums : Matches(m)'
    BY <1>1, IdleIs DEF ListInv, Deciding
  <2>1. RevisionsHidden'
    BY ListedShows DEF RevisionsHidden
  <2>2. ASSUME NEW m \in Mediums PROVE Matches(m)'
    BY <1>1, ListedShows DEF Matches, M!There, M!Statuses
  <2> QED BY <2>1, <2>2
<1> QED BY <1>4, <1>5, <1>6 DEF MediumsInv, M!MediumPagesAssumption

LEMMA ListFailsStep ==
  ASSUME MediumsInv, M!ListFails
  PROVE  MediumsInv'
<1>1. run' = M!Idle /\ UNCHANGED <<zome, shown, tab, M!formVars, others>> /\ failures' \in 0 .. MaxFailures
  BY FailsIs DEF M!ListFails, MediumsInv
<1>2. page' \in MediumPagesOpen /\ page'.at = page.at /\ page'.id = page.id /\ (page.at = "list" => page'.phase = "failed")
  <2>1. page \in MediumPagesOpen /\ page' = IF page.at = "list" THEN [page EXCEPT !.phase = "failed"] ELSE page
    BY DEF M!ListFails, MediumsInv, MediumTypes
  <2> QED BY <2>1, PhaseIs
<1>3. MediumTypes'
  BY <1>1, <1>2, IdleIs DEF MediumsInv, MediumTypes, M!formVars, Deciding, Saving
<1>4. AwayInv' /\ ListInv'
  BY <1>1, <1>2, IdleIs, NotReady DEF AwayInv, Saving
<1> QED BY <1>3, <1>4 DEF MediumsInv, M!MediumPagesAssumption

\* A tab is chosen, a form written in, or nothing happens.
LEMMA TabStep ==
  ASSUME MediumsInv, UNCHANGED <<zome, shown, page, blocked, run, others, failures>>,
         tab' \in M!Statuses \cup {"all"}, filled' \in BOOLEAN
  PROVE  MediumsInv'
<1>1. MediumTypes' /\ AwayInv'
  BY DEF MediumsInv, MediumTypes, AwayInv
<1>2. ListInv'
  BY DEF MediumsInv, ListInv, RevisionsHidden, Matches, Awaits, M!There
<1> QED BY <1>1, <1>2 DEF MediumsInv, M!MediumPagesAssumption

LEMMA HandleEditStep ==
  ASSUME MediumsInv, NEW h \in M!Hashes, M!HandleEdit(h)
  PROVE  MediumsInv'
<1>1. run' \in CallsOfPages /\ run'.on = "get"
  BY AskOneIs DEF M!HandleEdit
<1>2. h \in Named /\ page' = M!Page("edit", h, "loading")
  BY DEF M!HandleEdit, M!Open, Named
<1>3. page' \in MediumPagesOpen /\ page'.at = "edit" /\ page'.id = h
  BY <1>2, MediumPageIs
<1>4. UNCHANGED <<zome, shown, others, failures>> /\ tab' = "approved" /\ filled' = FALSE /\ blocked' = FALSE
  BY DEF M!HandleEdit, M!Open
<1>5. MediumTypes'
  BY <1>1, <1>3, <1>4 DEF MediumsInv, MediumTypes, M!Statuses, Deciding, Saving
<1>6. AwayInv' /\ ListInv'
  BY <1>1, <1>3, NotReady DEF AwayInv
<1> QED BY <1>5, <1>6 DEF MediumsInv, M!MediumPagesAssumption

LEMMA ShowTagStep ==
  ASSUME MediumsInv, NEW m \in Mediums, M!ShowTag(m)
  PROVE  MediumsInv'
<1>1. <<m, 0>> \in M!Hashes
  BY HashIs DEF MediumsInv
<1>2. run' \in CallsOfPages /\ run'.on = "get"
  BY <1>1, AskOneIs DEF M!ShowTag
<1>3. UNCHANGED <<zome, shown, page, tab, M!formVars, others, failures>> /\ page.at = "elsewhere"
  BY DEF M!ShowTag
<1>4. MediumTypes'
  BY <1>2, <1>3 DEF MediumsInv, MediumTypes, Deciding, Saving, M!formVars
<1>5. AwayInv' /\ ListInv'
  BY <1>2, <1>3, NotReady DEF AwayInv
<1> QED BY <1>4, <1>5 DEF MediumsInv, M!MediumPagesAssumption

LEMMA GotStep ==
  ASSUME MediumsInv, M!Got
  PROVE  MediumsInv'
<1>1. /\ run.on = "get" /\ run' = M!Idle /\ UNCHANGED <<zome, tab, blocked, others>>
      /\ failures' \in 0 .. MaxFailures /\ filled' \in BOOLEAN
      /\ \/ page' = page
         \/ \E phase \in {"loading", "ready", "failed"} : page' = [page EXCEPT !.phase = phase]
      /\ shown' = shown \/ shown' = [h \in M!Hashes |-> IF h \in run.answer THEN "approved" ELSE shown[h]]
  BY FailsIs DEF M!Got, MediumsInv, MediumTypes
<1>2. page' \in MediumPagesOpen /\ page'.at = page.at /\ page'.id = page.id
  BY <1>1, PhaseIs DEF MediumsInv, MediumTypes
<1>3. shown' \in ShownUnder
  BY <1>1 DEF MediumsInv, MediumTypes, ShownUnder, M!Statuses
<1>4. MediumTypes'
  BY <1>1, <1>2, <1>3, IdleIs DEF MediumsInv, MediumTypes, Deciding, Saving
<1>5. page.at # "list"
  BY <1>1 DEF MediumsInv, AwayInv
<1>6. AwayInv' /\ ListInv'
  BY <1>1, <1>2, <1>5, IdleIs, NotReady DEF AwayInv, Saving
<1> QED BY <1>4, <1>6 DEF MediumsInv, M!MediumPagesAssumption

LEMMA DecideStep ==
  ASSUME MediumsInv, NEW d \in M!Decisions, NEW m \in Mediums, M!Decide(d, m)
  PROVE  MediumsInv'
<1>1. /\ UNCHANGED <<shown, page, tab, M!formVars, others>>
      /\ run.on = "idle" /\ page.at = "list"
      /\ run' \in CallsOfPages /\ run'.on = d /\ run'.id = <<m, 0>> /\ run'.id \in M!Hashes
      /\ failures' \in 0 .. MaxFailures
      /\ shown[<<m, 0>>] # "none"
      /\ d = "approve" => shown[<<m, 0>>] # "approved"
      /\ d = "reject" => shown[<<m, 0>>] = "pending"
      /\ zome' \in OfMediums
  BY DecideIs
<1>2. \/ run'.ok /\ M!There(m) /\ M!Decides(d, m)
      \/ ~run'.ok /\ UNCHANGED zome
  BY DecideIs
<1>3. \A n \in Mediums \ {m} : zome'[n] = zome[n]
  <2>1. CASE UNCHANGED zome
    BY <2>1
  <2>2. CASE M!Decides(d, m)
    BY <2>2, DecidesIs, DecideIs DEF MediumsInv
  <2> QED BY <1>2, <2>1, <2>2
<1>4. d \in Deciding /\ d # "list" /\ d \notin {"get"} \cup Saving
  BY DEF M!Decisions, Deciding, Saving
<1>5. MediumTypes'
  BY <1>1, <1>4 DEF MediumsInv, MediumTypes, M!formVars
<1>6. AwayInv'
  BY <1>1, <1>4 DEF AwayInv
<1>7. ListInv'
  <2> SUFFICES ASSUME others = 0, page.at = "list", page.phase = "ready"
               PROVE  /\ RevisionsHidden'
                      /\ \A n \in Mediums : IF run'.ok /\ run'.id = <<n, 0>> THEN Awaits(n)' ELSE Matches(n)'
    BY <1>1, <1>4 DEF ListInv
  <2>1. RevisionsHidden /\ \A n \in Mediums : Matches(n)
    BY <1>1 DEF MediumsInv, ListInv, Deciding
  <2>2. RevisionsHidden'
    BY <1>1, <2>1 DEF RevisionsHidden
  <2>3. ASSUME NEW n \in Mediums \ {m} PROVE Matches(n)'
    BY <1>1, <1>3, <2>1, <2>3 DEF Matches, M!There
  <2>4. IF run'.ok /\ run'.id = <<m, 0>> THEN Awaits(m)' ELSE Matches(m)'
    <3>1. CASE ~run'.ok /\ UNCHANGED zome
      BY <1>1, <2>1, <3>1 DEF Matches, M!There
    <3>2. CASE run'.ok /\ M!Decides(d, m)
      <4>1. /\ d = "approve" => zome'[m].status = "approved"
            /\ d = "reject" => zome'[m].status = "rejected"
            /\ d = "delete" => zome'[m].status = "gone"
        BY <3>2, DecidesIs, DecideIs DEF MediumsInv
      <4>2. shown[<<m, 0>>] \in M!Statuses \cup {"none"}
        BY HashIs DEF MediumsInv, MediumTypes, ShownUnder
      <4> QED BY <1>1, <3>2, <4>1, <4>2 DEF Awaits, M!Statuses
    <3> QED BY <1>2, <3>1, <3>2
  <2>5. \A n \in Mediums \ {m} : run'.id # <<n, 0>>
    BY <1>1
  <2> QED BY <2>2, <2>3, <2>4, <2>5
<1> QED BY <1>5, <1>6, <1>7 DEF MediumsInv, M!MediumPagesAssumption

\* The answer to a decision.
LEMMA DecidedStep ==
  ASSUME MediumsInv, M!Decided \/ M!Deleted
  PROVE  MediumsInv'
<1>1. run' = M!Idle /\ UNCHANGED <<zome, page, tab, M!formVars, others, failures>> /\ run.on \in Deciding /\ run.id \in M!Hashes
  BY DEF M!Decided, M!Deleted, Deciding, MediumsInv, MediumTypes
<1>2. /\ \A h \in M!Hashes \ {run.id} : shown'[h] = shown[h]
      /\ run.on # "delete" =>
           shown'[run.id] = IF run.ok /\ shown[run.id] = "pending"
                            THEN (IF run.on = "approve" THEN "approved" ELSE "rejected") ELSE shown[run.id]
      /\ run.on = "delete" => shown'[run.id] = IF run.ok THEN "none" ELSE shown[run.id]
      /\ shown' \in ShownUnder
  BY <1>1 DEF M!Decided, M!Deleted, MediumsInv, MediumTypes, ShownUnder, M!Statuses
<1>3. MediumTypes' /\ AwayInv'
  BY <1>1, <1>2, IdleIs DEF MediumsInv, MediumTypes, M!formVars, Deciding, Saving, AwayInv
<1>4. ListInv'
  <2> SUFFICES ASSUME others = 0, page.at = "list", page.phase = "ready"
               PROVE  RevisionsHidden' /\ \A m \in Mediums : Matches(m)'
    BY <1>1, IdleIs DEF ListInv, Deciding
  <2>1. RevisionsHidden /\ \A m \in Mediums : IF run.ok /\ run.id = <<m, 0>> THEN Awaits(m) ELSE Matches(m)
    BY <1>1 DEF MediumsInv, ListInv
  <2>2. ASSUME NEW h \in M!Hashes, shown[h] = "none" PROVE shown'[h] = "none"
    BY <1>1, <1>2, <2>2
  <2>3. RevisionsHidden'
    <3>1. \A m \in Mediums, r \in 1 .. MaxRevisions : <<m, r>> \in M!Hashes
      BY HashIs DEF M!Hashes, MediumsInv
    <3> QED BY <2>1, <2>2, <3>1 DEF RevisionsHidden
  <2>4. ASSUME NEW m \in Mediums PROVE Matches(m)'
    <3>1. <<m, 0>> \in M!Hashes
      BY HashIs DEF MediumsInv
    <3>2. CASE run.id # <<m, 0>>
      BY <1>1, <1>2, <2>1, <3>1, <3>2 DEF Matches, M!There
    <3>3. CASE run.id = <<m, 0>> /\ ~run.ok
      BY <1>1, <1>2, <2>1, <3>1, <3>3 DEF Matches, M!There
    <3>4. CASE run.id = <<m, 0>> /\ run.ok /\ Awaits(m)
      BY <1>1, <1>2, <3>1, <3>4 DEF Matches, M!There, Awaits, Deciding, M!Statuses
    <3> QED BY <2>1, <3>2, <3>3, <3>4
  <2> QED BY <2>3, <2>4
<1> QED BY <1>3, <1>4 DEF MediumsInv, M!MediumPagesAssumption

LEMMA SubmitStepOfMediums ==
  ASSUME MediumsInv, NEW m \in Mediums, M!Submit(m)
  PROVE  MediumsInv'
<1>1. /\ UNCHANGED <<shown, page, tab, filled, others>>
      /\ page.at # "list"
      /\ run' \in CallsOfPages /\ run'.on \in {"create", "suggest", "edit"} /\ run'.id \in M!Hashes
      /\ failures' \in 0 .. MaxFailures /\ blocked' = FALSE
      /\ zome' \in OfMediums
  BY SubmitIs
<1>2. MediumTypes'
  BY <1>1 DEF MediumsInv, MediumTypes, Deciding, Saving
<1>3. AwayInv' /\ ListInv'
  BY <1>1, NotReady DEF AwayInv
<1> QED BY <1>2, <1>3 DEF MediumsInv, M!MediumPagesAssumption

\* The answer to a suggestion.
LEMMA SuggestedStep ==
  ASSUME MediumsInv, M!Suggested
  PROVE  MediumsInv'
<1>1. /\ run.on = "suggest" /\ run' = M!Idle /\ UNCHANGED <<zome, tab, blocked, others, failures>>
      /\ run.id \in M!Hashes /\ page.at # "list"
      /\ shown' = IF run.ok THEN [shown EXCEPT ![run.id] = "pending"] ELSE shown
      /\ filled' \in BOOLEAN
      /\ page' = M!Page("elsewhere", M!NoHash, "ready") \/ page' = page
  BY DEF M!Suggested, MediumsInv, MediumTypes, AwayInv, Saving
<1>2. page' \in MediumPagesOpen /\ page'.at # "list" /\ (page'.at = "edit" => page'.id \in M!Hashes)
  <2>1. M!NoHash \in Named /\ M!Page("elsewhere", M!NoHash, "ready").at = "elsewhere"
    BY HashIs, MediumPageIs DEF MediumsInv
  <2>2. M!Page("elsewhere", M!NoHash, "ready") \in MediumPagesOpen
    BY <2>1, MediumPageIs
  <2> QED BY <1>1, <2>1, <2>2 DEF MediumsInv, MediumTypes
<1>3. shown' \in ShownUnder
  BY <1>1 DEF MediumsInv, MediumTypes, ShownUnder, M!Statuses
<1>4. MediumTypes'
  BY <1>1, <1>2, <1>3, IdleIs DEF MediumsInv, MediumTypes, Deciding, Saving
<1>5. AwayInv' /\ ListInv'
  BY <1>1, <1>2, IdleIs, NotReady DEF AwayInv, Saving
<1> QED BY <1>4, <1>5 DEF MediumsInv, M!MediumPagesAssumption

\* The answer to a creation or an edit, after which the form gets what it saved.
LEMMA SavedStep ==
  ASSUME MediumsInv, M!Saved
  PROVE  MediumsInv'
<1>1. /\ run.on \in {"create", "edit"} /\ UNCHANGED <<zome, page, tab, filled, others, failures>>
      /\ run.id \in M!Hashes /\ page.at # "list"
  BY DEF M!Saved, MediumsInv, MediumTypes, AwayInv, Saving
<1>2. /\ shown' \in ShownUnder /\ blocked' \in BOOLEAN
      /\ run' \in CallsOfPages
      /\ \/ run'.on = "get saved" /\ run'.id = run.id
         \/ run'.on = "idle"
  <2>1. CASE run.ok
    <3>1. run' = [run EXCEPT !.on = "get saved"] /\ blocked' = blocked
      BY <2>1 DEF M!Saved
    <3>2. shown' = [h \in M!Hashes |-> CASE h = run.id -> IF run.on = "create" THEN "pending" ELSE "approved"
                                       [] run.on = "edit" /\ h \in run.answer -> "none"
                                       [] OTHER -> shown[h]]
      BY <2>1 DEF M!Saved
    <3>3. shown' \in ShownUnder
      BY <3>2 DEF MediumsInv, MediumTypes, ShownUnder, M!Statuses
    <3> QED BY <3>1, <3>3 DEF MediumsInv, MediumTypes, CallsOfPages, Saving
  <2>2. CASE ~run.ok
    BY <2>2, IdleIs DEF M!Saved, M!Blocks, MediumsInv, MediumTypes, CallsOfPages
  <2> QED BY <2>1, <2>2
<1>3. MediumTypes'
  BY <1>1, <1>2 DEF MediumsInv, MediumTypes, Deciding, Saving
<1>4. AwayInv' /\ ListInv'
  BY <1>1, <1>2, NotReady DEF AwayInv, Saving
<1> QED BY <1>3, <1>4 DEF MediumsInv, M!MediumPagesAssumption

LEMMA GotSavedStep ==
  ASSUME MediumsInv, M!GotSaved
  PROVE  MediumsInv'
<1>1. run.on = "get saved" /\ run.id \in M!Hashes /\ page.at # "list" /\ UNCHANGED <<zome, others>>
  BY DEF M!GotSaved, MediumsInv, MediumTypes, AwayInv, Saving
<1>2. CASE /\ shown' = [shown EXCEPT ![run.id] = "approved"]
           /\ M!Open(M!Page("list", M!NoHash, "loading")) /\ M!AskAll /\ UNCHANGED failures
  <2>1. /\ run' \in CallsOfPages /\ run'.on = "list"
        /\ run'.answer = {<<m, zome[m].status>> : m \in {n \in Mediums : M!There(n)}}
        /\ run'.answer \subseteq Mediums \X M!Statuses
    BY <1>2, AskAllIs DEF MediumsInv
  <2>2. page' \in MediumPagesOpen /\ page'.at = "list" /\ page'.phase = "loading"
    <3>1. page' = M!Page("list", M!NoHash, "loading") /\ M!NoHash \in Named
      BY <1>2, HashIs DEF M!Open, MediumsInv
    <3> QED BY <3>1, MediumPageIs
  <2>3. shown' \in ShownUnder /\ tab' = "approved" /\ filled' = FALSE /\ blocked' = FALSE
    BY <1>2 DEF M!Open, MediumsInv, MediumTypes, ShownUnder, M!Statuses
  <2>4. MediumTypes'
    BY <1>1, <1>2, <2>1, <2>2, <2>3 DEF MediumsInv, MediumTypes, Deciding, Saving, M!Statuses
  <2>5. AwayInv'
    BY <2>1 DEF AwayInv, Saving
  <2>6. ListInv'
    BY <1>1, <2>1, <2>2 DEF ListInv, M!There, Deciding
  <2> QED BY <2>4, <2>5, <2>6 DEF MediumsInv, M!MediumPagesAssumption
<1>3. CASE M!Blocks /\ UNCHANGED <<shown, page, tab, filled>> /\ (M!Fails \/ UNCHANGED failures)
  <2>1. run' = M!Idle /\ blocked' \in BOOLEAN /\ failures' \in 0 .. MaxFailures
    BY <1>3, FailsIs DEF M!Blocks, MediumsInv, MediumTypes, CallsOfPages
  <2>2. MediumTypes'
    BY <1>1, <1>3, <2>1, IdleIs DEF MediumsInv, MediumTypes, Deciding, Saving
  <2>3. AwayInv' /\ ListInv'
    BY <1>1, <1>3, <2>1, IdleIs, NotReady DEF AwayInv, Saving
  <2> QED BY <2>2, <2>3 DEF MediumsInv, M!MediumPagesAssumption
<1> QED BY <1>2, <1>3 DEF M!GotSaved

\* Once others have acted nothing is said of the list.
LEMMA OthersStepOfMediums ==
  ASSUME MediumsInv, M!OthersAct
  PROVE  MediumsInv'
<1>1. UNCHANGED <<shown, page, tab, M!formVars, run, failures>> /\ others' \in 0 .. MaxOthers /\ others' # 0
  BY HashIs DEF M!OthersAct, MediumsInv, MediumTypes
<1>2. zome' \in OfMediums
  <2>1. PICK m \in Mediums :
          \/ zome[m] = M!None /\ zome' = [zome EXCEPT ![m].status = "pending"]
          \/ \E d \in M!Decisions : M!There(m) /\ zome[m].rev < MaxRevisions /\ M!Decides(d, m)
    BY DEF M!OthersAct
  <2>2. CASE zome' = [zome EXCEPT ![m].status = "pending"]
    BY <2>2 DEF MediumsInv, MediumTypes, OfMediums, M!Statuses
  <2> QED BY <2>1, <2>2, DecidesIs DEF MediumsInv
<1>3. MediumTypes' /\ AwayInv' /\ ListInv'
  BY <1>1, <1>2 DEF MediumsInv, MediumTypes, AwayInv, ListInv, M!formVars
<1> QED BY <1>3 DEF MediumsInv, M!MediumPagesAssumption

LEMMA MediumsInit ==
  ASSUME M!MediumPagesAssumption, M!Init
  PROVE  MediumsInv
<1>1. zome \in OfMediums
  <2>1. \A z \in {M!None} \cup [status : M!Statuses, rev : {0}] : z \in [status : M!Statuses \cup {"none", "gone"}, rev : 0 .. MaxRevisions]
    BY HashIs DEF M!None
  <2> QED BY <2>1 DEF M!Init, OfMediums
<1>2. page \in MediumPagesOpen /\ page.at = "elsewhere"
  BY HashIs, MediumPageIs DEF M!Init
<1>3. MediumTypes
  <2>1. 0 \in 0 .. MaxOthers /\ 0 \in 0 .. MaxFailures
    BY HashIs
  <2>2. shown \in ShownUnder
    BY DEF M!Init, ShownUnder, M!Empty
  <2>3. run \in CallsOfPages /\ run.on \notin Deciding \cup Saving /\ run.on # "list"
    BY IdleIs DEF M!Init, Deciding, Saving
  <2> QED BY <1>1, <1>2, <2>1, <2>2, <2>3 DEF M!Init, MediumTypes, M!Statuses
<1>4. AwayInv /\ ListInv
  BY <1>2, IdleIs DEF M!Init, AwayInv, ListInv, Saving
<1> QED BY <1>3, <1>4 DEF MediumsInv

LEMMA MediumsNext ==
  ASSUME MediumsInv, [M!Next]_(M!mediumsVars)
  PROVE  MediumsInv'
<1>1. CASE M!ChooseTab \/ M!WriteForm \/ UNCHANGED M!mediumsVars
  BY <1>1, TabStep DEF M!ChooseTab, M!WriteForm, M!mediumsVars, M!formVars, MediumsInv, MediumTypes
<1>2. CASE \/ M!Visit \/ M!VisitList \/ M!Refresh \/ M!Listed \/ M!ListFails \/ M!Got
           \/ M!Decided \/ M!Deleted \/ M!Suggested \/ M!Saved \/ M!GotSaved \/ M!OthersAct
  BY <1>2, VisitStepOfMediums, ListAsked, ListedStep, ListFailsStep, GotStep, DecidedStep, SuggestedStep, SavedStep, GotSavedStep,
     OthersStepOfMediums
<1>3. CASE \E m \in Mediums : M!ShowTag(m) \/ M!Submit(m) \/ \E d \in M!Decisions : M!Decide(d, m)
  BY <1>3, ShowTagStep, SubmitStepOfMediums, DecideStep
<1>4. CASE \E h \in M!Hashes : M!HandleEdit(h)
  BY <1>4, HandleEditStep
<1> QED BY <1>1, <1>2, <1>3, <1>4 DEF M!Next

LEMMA MediumsInvariance == M!MediumPagesAssumption /\ M!Spec => []MediumsInv
<1> SUFFICES ASSUME M!MediumPagesAssumption PROVE M!Spec => []MediumsInv
  OBVIOUS
<1>1. M!Init => MediumsInv
  BY MediumsInit
<1>2. MediumsInv /\ [M!Next]_(M!mediumsVars) => MediumsInv'
  BY MediumsNext
<1> QED BY <1>1, <1>2, PTL DEF M!Spec

\* The types of the variables of the pages of mediums of exchange.
THEOREM MediumPagesTypesHold == M!MediumPagesAssumption /\ M!Spec => []M!TypeOK
<1>1. MediumsInv => M!TypeOK
  <2> SUFFICES ASSUME MediumsInv PROVE M!TypeOK
    OBVIOUS
  <2> USE DEF MediumsInv, MediumTypes
  <2>1. \A m \in Mediums : zome[m].status \in M!Statuses \cup {"none", "gone"} /\ zome[m].rev \in 0 .. MaxRevisions
    BY DEF OfMediums
  <2>2. \A h \in M!Hashes : shown[h] \in M!Statuses \cup {"none"}
    BY DEF ShownUnder
  <2>3. page.at \in {"elsewhere", "list", "create", "suggest", "edit"} /\ page.phase \in {"loading", "ready", "failed"}
    BY DEF MediumPagesOpen
  <2>4. run.ok \in BOOLEAN /\ run.live \in BOOLEAN
    BY DEF CallsOfPages
  <2> QED BY <2>1, <2>2, <2>3, <2>4 DEF M!TypeOK
<1> QED BY <1>1, MediumsInvariance, PTL

\* To an administrator who is alone the list that has loaded is what is, whatever
\* was edited, got by a tag or suggested before, and whatever failed.
THEOREM MediumsListIsWhatIs == M!MediumPagesAssumption /\ M!Spec => []M!ListIsWhatIs
<1>1. MediumsInv => M!ListIsWhatIs
  <2> SUFFICES ASSUME MediumsInv, others = 0, run = M!Idle, page.at = "list", page.phase = "ready", NEW m \in Mediums
               PROVE  Matches(m) /\ \A r \in 1 .. MaxRevisions : shown[<<m, r>>] = "none"
    BY DEF M!ListIsWhatIs, Matches
  <2>1. run.on = "idle" /\ run.on \notin Deciding
    BY IdleIs DEF Deciding
  <2> QED BY <2>1 DEF MediumsInv, ListInv, RevisionsHidden
<1> QED BY <1>1, MediumsInvariance, PTL

\* A form loses what was written only when that was saved, or the page is left.
THEOREM MediumFormsKeepFailed == M!MediumPagesAssumption /\ M!Spec => [][M!FailedIsKept]_(M!mediumsVars)
<1>1. MediumsInv /\ [M!Next]_(M!mediumsVars) => [M!FailedIsKept]_(M!mediumsVars)
  <2> SUFFICES ASSUME MediumsInv, M!Next, filled, ~filled'
               PROVE  page' # page \/ (run.on = "suggest" /\ run.ok)
    BY DEF M!FailedIsKept, M!mediumsVars
  <2>1. \/ M!Visit \/ M!VisitList \/ M!Suggested \/ M!GotSaved
        \/ \E h \in M!Hashes : M!HandleEdit(h)
    BY DEF M!Next, M!Refresh, M!Listed, M!ListFails, M!ChooseTab, M!Got, M!Decided, M!Deleted, M!WriteForm, M!Saved, M!OthersAct, M!ShowTag, M!Submit,
           M!Decide, M!formVars, MediumsInv, MediumTypes
  <2>2. CASE M!Visit
    <3>1. PICK at \in {"create", "suggest", "elsewhere"} : page.at # at /\ page' = M!Page(at, M!NoHash, "ready")
      BY <2>2 DEF M!Visit, M!Open
    <3> QED BY <3>1 DEF M!Page
  <2>3. CASE M!VisitList
    BY <2>3 DEF M!VisitList, M!Open, M!Page
  <2>4. CASE M!Suggested
    BY <2>4 DEF M!Suggested
  <2>5. CASE M!GotSaved
    <3>1. page.at # "list"
      BY <2>5 DEF M!GotSaved, MediumsInv, AwayInv, Saving
    <3>2. page' = M!Page("list", M!NoHash, "loading")
      BY <2>5 DEF M!GotSaved, M!Open
    <3> QED BY <3>1, <3>2 DEF M!Page
  <2>6. ASSUME NEW h \in M!Hashes, M!HandleEdit(h) PROVE page' # page
    <3>1. page.at = "list" /\ page' = M!Page("edit", h, "loading")
      BY <2>6 DEF M!HandleEdit, M!Tabled, M!Open
    <3> QED BY <3>1 DEF M!Page
  <2> QED BY <2>1, <2>2, <2>3, <2>4, <2>5, <2>6
<1> QED BY <1>1, MediumsInvariance, PTL DEF M!Spec

-----------------------------------------------------------------------------
(* The pages of an organization: what the variables hold. *)

\* What is read of an organization, and the calls that read it.
ReadsOrganization == {"record", "people", "status", "read"}
CallsOn(p) ==
  CASE p = "list" -> {"accepted"}
    [] p = "organization" -> {"show", "added"}
    [] p = "edit" -> {"edit", "update", "refetch"}
    [] p = "create" -> {"create"}
    [] OTHER -> {"mine"}
PagesOfOrganizations == {"list", "organization", "edit", "create", "listing"}
CallsOfOrganizations ==
  [op : {"none", "accepted", "show", "added", "edit", "update", "refetch", "create", "mine"},
   hash : 0 .. MaxRevisions,
   stage : {"none", "links", "coordinator", "created", "send"} \cup ReadsOrganization,
   answer : O!Views]

OrganizationTypes ==
  /\ revision \in 0 .. MaxRevisions /\ status \in O!Statuses
  /\ members \subseteq People /\ coordinators \subseteq members
  /\ revision = 0 => members = {}
  /\ accepted \in [O!Hashes -> O!Views] /\ cache \in [O!Hashes -> O!Views]
  /\ current \in O!Views /\ organization \in O!Views /\ choices \subseteq O!Views
  /\ page \in PagesOfOrganizations /\ address \in 0 .. MaxRevisions
  /\ page \in {"organization", "edit"} => address \in O!Hashes
  /\ mayEdit \in BOOLEAN /\ fresh \in BOOLEAN
  /\ run \in CallsOfOrganizations
  /\ others \in 0 .. MaxOthers /\ failures \in 0 .. MaxFailures

\* The call under way is one of the page that is open.
CalledInv ==
  /\ run # O!NoRun => run.op \in CallsOn(page)
  /\ run.op = "added" => ~fresh

\* What a call has read so far is what is.
ReadSoFar ==
  /\ run.stage \in {"people", "status", "read"} => run.answer.hash = revision
  /\ run.stage \in {"status", "read"} => run.answer.members = members /\ run.answer.coordinators = coordinators
  /\ run.stage = "read" => run.answer.status = status

\* The page of the organization holds what is once its call has got so far.
Now == O!View(revision, members, coordinators, status)
PageInv ==
  page = "organization" /\ address = 1 /\ fresh =>
    /\ run.op = "show" /\ run.stage # "coordinator" => run.stage \in ReadsOrganization /\ run.hash = 1 /\ ReadSoFar
    /\ run.op = "show" /\ run.stage = "coordinator" => run.hash = revision
    /\ run = O!NoRun => mayEdit = (me \in O!CoordinatorsOf(revision))
    /\ run = O!NoRun \/ run.stage = "coordinator" => organization = Now /\ current = Now

\* The form of a listing has asked for the organization of the person, if there is one.
ListingInv ==
  page = "listing" /\ fresh =>
    /\ run.op = "mine" => run.stage \in {"links"} \cup ReadsOrganization
    /\ run.stage = "links" => run.answer = O!Absent
    /\ run.stage \in {"record", "people", "status"} => me \in members /\ run.hash = 1
    /\ run.stage \in {"people", "status"} => ReadSoFar
    /\ run.stage = "read" => IF me \in members THEN run.answer = Now ELSE run.answer = O!Absent
    /\ run = O!NoRun => choices = IF me \in members /\ status = "accepted" THEN {Now} ELSE {}

OrganizationInv == O!OrganizationPagesAssumption /\ OrganizationTypes /\ CalledInv /\ PageInv /\ ListingInv

\* The bounds are numbers, and the hash of the original is one of the hashes.
LEMMA OrganizationBounds ==
  ASSUME O!OrganizationPagesAssumption
  PROVE  /\ MaxRevisions \in Nat /\ MaxOthers \in Nat /\ MaxFailures \in Nat
         /\ 0 \in 0 .. MaxRevisions /\ 1 \in 0 .. MaxRevisions /\ 1 \in O!Hashes
         /\ O!Hashes \subseteq 0 .. MaxRevisions /\ \A h \in 0 .. MaxRevisions : h # 0 => h \in O!Hashes
         /\ me \in People
BY DEF O!OrganizationPagesAssumption, O!Hashes

\* A view of an organization.
LEMMA ViewIs ==
  ASSUME NEW h \in 0 .. MaxRevisions, NEW ms \in SUBSET People, NEW cs \in SUBSET People, NEW s \in O!Statuses
  PROVE  /\ O!View(h, ms, cs, s) \in O!Views
         /\ O!View(h, ms, cs, s).hash = h /\ O!View(h, ms, cs, s).members = ms
         /\ O!View(h, ms, cs, s).coordinators = cs /\ O!View(h, ms, cs, s).status = s
BY DEF O!View, O!Views

\* No organization.
LEMMA AbsentViewIs ==
  ASSUME O!OrganizationPagesAssumption
  PROVE  O!Absent \in O!Views /\ O!Absent.hash = 0 /\ O!Absent.members = {} /\ O!Absent.status = "none"
<1>1. 0 \in 0 .. MaxRevisions /\ "none" \in O!Statuses /\ {} \in SUBSET People
  BY OrganizationBounds DEF O!Statuses
<1> QED BY <1>1, ViewIs DEF O!Absent

\* A call that begins.
LEMMA OrganizationCallIs ==
  ASSUME O!OrganizationPagesAssumption, NEW op, NEW h \in 0 .. MaxRevisions, NEW stage,
         op \in {"none", "accepted", "show", "added", "edit", "update", "refetch", "create", "mine"},
         stage \in {"none", "links", "coordinator", "created", "send"} \cup ReadsOrganization
  PROVE  /\ O!Run(op, h, stage) \in CallsOfOrganizations
         /\ O!Run(op, h, stage).op = op /\ O!Run(op, h, stage).hash = h /\ O!Run(op, h, stage).stage = stage
         /\ O!Run(op, h, stage).answer = O!Absent
BY AbsentViewIs DEF O!Run, CallsOfOrganizations

\* No call.
LEMMA NoOrganizationCall ==
  ASSUME O!OrganizationPagesAssumption
  PROVE  O!NoRun \in CallsOfOrganizations /\ O!NoRun.op = "none" /\ O!NoRun.stage = "none"
<1>1. 0 \in 0 .. MaxRevisions
  BY OrganizationBounds
<1> QED BY <1>1, OrganizationCallIs DEF O!NoRun

\* A call that goes on.
LEMMA StageIs ==
  ASSUME run \in CallsOfOrganizations, NEW stage,
         stage \in {"none", "links", "coordinator", "created", "send"} \cup ReadsOrganization
  PROVE  LET r == [run EXCEPT !.stage = stage] IN
         r \in CallsOfOrganizations /\ r.op = run.op /\ r.hash = run.hash /\ r.stage = stage /\ r.answer = run.answer
BY DEF CallsOfOrganizations

\* A call that fails counts.
LEMMA OrganizationFailure ==
  ASSUME OrganizationInv, O!Failing
  PROVE  failures' \in 0 .. MaxFailures /\ others' = others
<1>1. failures \in 0 .. MaxFailures /\ MaxFailures \in Nat
  BY OrganizationBounds DEF OrganizationInv, OrganizationTypes
<1> QED BY <1>1 DEF O!Failing

\* Nothing is claimed of other pages, nor once something changed or failed.
LEMMA NothingClaimed ==
  ASSUME ~fresh' \/ page' \notin {"organization", "listing"}
  PROVE  PageInv' /\ ListingInv'
BY DEF PageInv, ListingInv

\* A page that is opened has its call, which has read nothing yet.
LEMMA PageOpened ==
  ASSUME O!OrganizationPagesAssumption, NEW p \in PagesOfOrganizations, NEW h \in 0 .. MaxRevisions, NEW op, NEW stage,
         O!Open(p, h, op, stage),
         \/ op = "none" /\ stage = "none" /\ h = 0 /\ p \in {"list", "create", "edit"}
         \/ op \in CallsOn(p) /\ op # "added" /\ stage \in {"links", "record"},
         p \in {"organization", "edit"} => h \in O!Hashes,
         p = "organization" => op = "show" /\ stage = "record",
         p = "listing" => op = "mine" /\ stage = "links"
  PROVE  /\ page' = p /\ address' = h /\ run' \in CallsOfOrganizations
         /\ page' \in {"organization", "edit"} => address' \in O!Hashes
         /\ organization' \in O!Views /\ choices' \subseteq O!Views /\ mayEdit' \in BOOLEAN /\ fresh' \in BOOLEAN
         /\ CalledInv' /\ PageInv' /\ ListingInv'
<1>1. /\ page' = p /\ address' = h /\ organization' = O!Absent /\ mayEdit' = FALSE /\ choices' = {} /\ fresh' = TRUE
      /\ run' = O!Run(op, h, stage)
  BY DEF O!Open
<1>2. /\ op \in {"none", "accepted", "show", "added", "edit", "update", "refetch", "create", "mine"}
      /\ stage \in {"none", "links", "coordinator", "created", "send"} \cup ReadsOrganization
  BY DEF CallsOn, ReadsOrganization
<1>3. run' \in CallsOfOrganizations /\ run'.op = op /\ run'.hash = h /\ run'.stage = stage /\ run'.answer = O!Absent
  BY <1>1, <1>2, OrganizationCallIs
<1>4. CalledInv'
  <2>1. op = "none" /\ stage = "none" /\ h = 0 => run' = O!NoRun
    BY <1>1 DEF O!NoRun
  <2> QED BY <1>1, <1>3, <2>1 DEF CalledInv
<1>5. op # "none" => run' # O!NoRun
  BY <1>3, NoOrganizationCall
<1>6. PageInv'
  <2>1. p = "organization" => op = "show" /\ stage = "record" /\ run' # O!NoRun
    BY <1>5
  <2> QED BY <1>1, <1>3, <2>1 DEF PageInv, ReadSoFar, ReadsOrganization
<1>7. ListingInv'
  <2>1. p = "listing" => op = "mine" /\ stage = "links" /\ run' # O!NoRun
    BY <1>5
  <2> QED BY <1>1, <1>3, <2>1 DEF ListingInv
<1> QED BY <1>1, <1>3, <1>4, <1>6, <1>7, AbsentViewIs

\* A page is opened.
LEMMA VisitsOfOrganizations ==
  ASSUME OrganizationInv, O!VisitOrganization \/ O!VisitEdit \/ O!VisitCreate \/ O!VisitList \/ O!VisitListing
  PROVE  OrganizationInv'
<1> USE DEF OrganizationInv
<1>1. UNCHANGED <<O!Zomes, O!Store, said, O!Bounds>>
  BY DEF O!VisitOrganization, O!VisitEdit, O!VisitCreate, O!VisitList, O!VisitListing
<1>2. PICK p \in PagesOfOrganizations, h \in 0 .. MaxRevisions,
           op \in {"none", "show", "edit", "accepted", "mine"}, stage \in {"none", "record", "links"} :
        /\ O!Open(p, h, op, stage)
        /\ \/ op = "none" /\ stage = "none" /\ h = 0 /\ p \in {"list", "create", "edit"}
           \/ op \in CallsOn(p) /\ op # "added" /\ stage \in {"links", "record"}
        /\ p \in {"organization", "edit"} => h \in O!Hashes
        /\ p = "organization" => op = "show" /\ stage = "record"
        /\ p = "listing" => op = "mine" /\ stage = "links"
  <2>1. address \in 0 .. MaxRevisions /\ 0 \in 0 .. MaxRevisions
    BY OrganizationBounds DEF OrganizationTypes
  <2>2. CASE O!VisitOrganization
    <3>1. PICK h \in O!Hashes : O!Open("organization", h, "show", "record")
      BY <2>2, OrganizationBounds DEF O!VisitOrganization
    <3> QED BY <3>1, OrganizationBounds DEF PagesOfOrganizations, CallsOn
  <2>3. CASE O!VisitEdit
    BY <2>1, <2>3 DEF O!VisitEdit, PagesOfOrganizations, CallsOn, OrganizationTypes
  <2>4. CASE O!VisitCreate
    BY <2>1, <2>4 DEF O!VisitCreate, PagesOfOrganizations, CallsOn
  <2>5. CASE O!VisitList
    BY <2>1, <2>5 DEF O!VisitList, PagesOfOrganizations, CallsOn
  <2>6. CASE O!VisitListing
    BY <2>1, <2>6 DEF O!VisitListing, PagesOfOrganizations, CallsOn
  <2> QED BY <2>2, <2>3, <2>4, <2>5, <2>6
<1>3. /\ page' = p /\ address' = h /\ run' \in CallsOfOrganizations
      /\ page' \in {"organization", "edit"} => address' \in O!Hashes
      /\ organization' \in O!Views /\ choices' \subseteq O!Views /\ mayEdit' \in BOOLEAN /\ fresh' \in BOOLEAN
      /\ CalledInv' /\ PageInv' /\ ListingInv'
  BY <1>2, PageOpened
<1>4. OrganizationTypes'
  BY <1>1, <1>3 DEF OrganizationTypes, O!Zomes, O!Store, O!Bounds
<1> QED BY <1>3, <1>4 DEF O!OrganizationPagesAssumption

\* A call that goes on is still one of its page, and has read what it had.
LEMMA GoesOn ==
  ASSUME OrganizationInv, run' \in CallsOfOrganizations, run'.op = run.op, run.op # "none",
         UNCHANGED <<O!Zomes, accepted, current, O!Shown, O!Bounds>>, cache' \in [O!Hashes -> O!Views], fresh' \in BOOLEAN,
         fresh' => fresh
  PROVE  OrganizationTypes' /\ CalledInv'
<1>1. OrganizationTypes'
  BY DEF OrganizationInv, OrganizationTypes, O!Zomes, O!Shown, O!Bounds
<1>2. run # O!NoRun
  BY NoOrganizationCall DEF OrganizationInv
<1> QED BY <1>1, <1>2 DEF OrganizationInv, CalledInv, O!Shown

\* The latest record is read.
LEMMA ReadRecordStep ==
  ASSUME OrganizationInv, O!ReadRecord
  PROVE  OrganizationInv'
<1> USE DEF OrganizationInv
<1>1. run.stage = "record" /\ UNCHANGED <<O!Zomes, O!Store, O!Shown, said, fresh, O!Bounds>>
  BY DEF O!ReadRecord
<1>2. run \in CallsOfOrganizations /\ O!LatestOf(run.hash) \in 0 .. MaxRevisions /\ (run.hash = 1 => O!LatestOf(run.hash) = revision)
  BY DEF OrganizationTypes, O!LatestOf, CallsOfOrganizations
<1>3. PICK v \in 0 .. MaxRevisions : v = O!LatestOf(run.hash)
  BY <1>2
<1>4. run' = [run EXCEPT !.stage = "people", !.answer.hash = v]
  BY <1>3 DEF O!ReadRecord
<1>5. /\ run' \in CallsOfOrganizations /\ run'.op = run.op /\ run'.hash = run.hash
      /\ run'.stage = "people" /\ run'.answer.hash = v
  BY <1>2, <1>3, <1>4 DEF CallsOfOrganizations, O!Views, ReadsOrganization
<1>6. run.op # "none" /\ run # O!NoRun /\ run' # O!NoRun
  <2>1. run # O!NoRun /\ run' # O!NoRun
    BY <1>1, <1>5, NoOrganizationCall
  <2> QED BY <2>1 DEF CalledInv, CallsOn
<1>7. OrganizationTypes' /\ CalledInv'
  BY <1>1, <1>5, <1>6, GoesOn DEF O!Store, OrganizationTypes
<1>8. PageInv'
  <2> SUFFICES ASSUME page = "organization", address = 1, fresh, run.op = "show"
               PROVE  run.hash = 1
    BY <1>1, <1>2, <1>3, <1>5, <1>6 DEF PageInv, ReadSoFar, ReadsOrganization, O!Shown, O!Zomes
  <2> QED BY <1>1 DEF PageInv
<1>9. ListingInv'
  <2> SUFFICES ASSUME page = "listing", fresh
               PROVE  me \in members /\ run.hash = 1
    BY <1>1, <1>2, <1>3, <1>5, <1>6 DEF ListingInv, ReadSoFar, ReadsOrganization, O!Shown, O!Zomes
  <2> QED BY <1>1 DEF ListingInv
<1> QED BY <1>7, <1>8, <1>9 DEF O!OrganizationPagesAssumption

\* The people are read, or the status.
LEMMA ReadPeopleStep ==
  ASSUME OrganizationInv, O!ReadPeople
  PROVE  OrganizationInv'
<1> USE DEF OrganizationInv
<1>1. run \in CallsOfOrganizations /\ run.stage \in {"people", "status"} /\ UNCHANGED <<O!Zomes, O!Store, O!Shown, said>>
  BY DEF O!ReadPeople, OrganizationTypes
<1>2. run # O!NoRun /\ run.op # "none"
  <2>1. run # O!NoRun
    BY <1>1, NoOrganizationCall
  <2> QED BY <2>1 DEF CalledInv, CallsOn
<1>3. CASE run.stage = "people"
  <2>1. PICK ms \in SUBSET People, cs \in SUBSET People :
          ms = O!MembersOf(run.hash) /\ cs = O!CoordinatorsOf(run.hash)
    BY DEF OrganizationTypes, O!MembersOf, O!CoordinatorsOf
  <2>2. run' = [run EXCEPT !.stage = "status", !.answer.members = ms, !.answer.coordinators = cs] /\ UNCHANGED <<fresh, O!Bounds>>
    BY <1>3, <2>1 DEF O!ReadPeople
  <2>3. /\ run' \in CallsOfOrganizations /\ run'.op = run.op /\ run'.hash = run.hash /\ run'.stage = "status"
        /\ run'.answer.hash = run.answer.hash /\ run'.answer.members = ms /\ run'.answer.coordinators = cs
    BY <1>1, <2>1, <2>2 DEF CallsOfOrganizations, O!Views, ReadsOrganization
  <2>4. run' # O!NoRun
    BY <2>3, NoOrganizationCall
  <2>5. OrganizationTypes' /\ CalledInv'
    BY <1>1, <1>2, <2>2, <2>3, GoesOn DEF O!Store, OrganizationTypes
  <2>6. PageInv'
    <3> SUFFICES ASSUME page = "organization", address = 1, fresh, run.op = "show"
                 PROVE  run.hash = 1 /\ run.answer.hash = revision
      BY <1>1, <2>1, <2>2, <2>3, <2>4 DEF PageInv, ReadSoFar, ReadsOrganization, O!Shown, O!Zomes, O!MembersOf, O!CoordinatorsOf
    <3> QED BY <1>3 DEF PageInv, ReadSoFar
  <2>7. ListingInv'
    <3> SUFFICES ASSUME page = "listing", fresh
                 PROVE  me \in members /\ run.hash = 1 /\ run.answer.hash = revision
      BY <1>1, <2>1, <2>2, <2>3, <2>4
         DEF ListingInv, ReadSoFar, ReadsOrganization, O!Shown, O!Zomes, O!MembersOf, O!CoordinatorsOf
    <3> QED BY <1>3 DEF ListingInv, ReadSoFar
  <2> QED BY <2>5, <2>6, <2>7 DEF O!OrganizationPagesAssumption
<1>4. CASE run.stage = "status" /\ fresh' = FALSE /\ O!Failing
  <2>1. PICK s \in O!Statuses : s = O!StatusOf(run.hash)
    BY DEF OrganizationTypes, O!StatusOf, O!Statuses
  <2>2. run' \in CallsOfOrganizations /\ run'.op = run.op
    <3>1. CASE run' = [run EXCEPT !.stage = "read"]
      BY <1>1, <3>1, StageIs DEF ReadsOrganization
    <3>2. CASE run' = [run EXCEPT !.stage = "read", !.answer.status = s]
      BY <1>1, <3>2 DEF CallsOfOrganizations, O!Views, ReadsOrganization
    <3> QED BY <1>4, <2>1, <3>1, <3>2 DEF O!ReadPeople, O!To
  <2>3. OrganizationTypes'
    BY <1>1, <1>4, <2>2, OrganizationFailure DEF OrganizationTypes, O!Zomes, O!Store, O!Shown
  <2>4. CalledInv'
    BY <1>1, <1>2, <1>4, <2>2 DEF CalledInv, O!Shown
  <2> QED BY <1>4, <2>3, <2>4, NothingClaimed DEF O!OrganizationPagesAssumption
<1>5. CASE run.stage = "status" /\ UNCHANGED <<fresh, O!Bounds>> /\ run' = [run EXCEPT !.stage = "read", !.answer.status = O!StatusOf(run.hash)]
  <2>1. PICK s \in O!Statuses : s = O!StatusOf(run.hash)
    BY DEF OrganizationTypes, O!StatusOf, O!Statuses
  <2>2. /\ run' \in CallsOfOrganizations /\ run'.op = run.op /\ run'.hash = run.hash /\ run'.stage = "read"
        /\ run'.answer.hash = run.answer.hash /\ run'.answer.members = run.answer.members
        /\ run'.answer.coordinators = run.answer.coordinators /\ run'.answer.status = s
    BY <1>1, <1>5, <2>1 DEF CallsOfOrganizations, O!Views, ReadsOrganization
  <2>3. run' # O!NoRun
    BY <2>2, NoOrganizationCall
  <2>4. OrganizationTypes' /\ CalledInv'
    BY <1>1, <1>2, <1>5, <2>2, GoesOn DEF O!Store, OrganizationTypes
  <2>5. PageInv'
    <3> SUFFICES ASSUME page = "organization", address = 1, fresh, run.op = "show"
                 PROVE  /\ run.hash = 1 /\ run.answer.hash = revision
                        /\ run.answer.members = members /\ run.answer.coordinators = coordinators
      BY <1>1, <1>5, <2>1, <2>2, <2>3 DEF PageInv, ReadSoFar, ReadsOrganization, O!Shown, O!Zomes, O!StatusOf
    <3> QED BY <1>5 DEF PageInv, ReadSoFar
  <2>6. ListingInv'
    <3> SUFFICES ASSUME page = "listing", fresh
                 PROVE  me \in members /\ run'.answer = Now
      BY <1>1, <1>5, <2>2, <2>3 DEF ListingInv, ReadsOrganization, O!Shown, O!Zomes, Now
    <3>1. me \in members /\ run.hash = 1 /\ ReadSoFar
      BY <1>5 DEF ListingInv
    <3>2. s = status
      BY <2>1, <3>1 DEF O!StatusOf
    <3>3. /\ run'.answer \in O!Views
          /\ run'.answer.hash = revision /\ run'.answer.members = members
          /\ run'.answer.coordinators = coordinators /\ run'.answer.status = status
      BY <1>5, <2>2, <3>1, <3>2 DEF ReadSoFar, CallsOfOrganizations
    <3> QED BY <3>1, <3>3 DEF Now, O!View, O!Views
  <2> QED BY <2>4, <2>5, <2>6 DEF O!OrganizationPagesAssumption
<1>6. \/ run.stage = "people"
      \/ run.stage = "status" /\ fresh' = FALSE /\ O!Failing
      \/ run.stage = "status" /\ UNCHANGED <<fresh, O!Bounds>> /\ run' = [run EXCEPT !.stage = "read", !.answer.status = O!StatusOf(run.hash)]
  BY DEF O!ReadPeople
<1> QED BY <1>3, <1>4, <1>5, <1>6

\* What is kept is a view of the store.
LEMMA KeptIs ==
  ASSUME OrganizationTypes, NEW h, NEW v \in O!Views, O!Kept(h, v)
  PROVE  accepted' \in [O!Hashes -> O!Views] /\ cache' \in [O!Hashes -> O!Views]
BY DEF O!Kept, OrganizationTypes

\* The page shows what was read and goes on to ask whether the person is a
\* coordinator; forms and modals are done with it.
LEMMA LoadedStep ==
  ASSUME OrganizationInv, O!Loaded
  PROVE  OrganizationInv'
<1> USE DEF OrganizationInv
<1>1. /\ run \in CallsOfOrganizations /\ run.stage = "read" /\ run.op \in {"show", "edit", "added", "update"}
      /\ run.answer \in O!Views /\ run.answer.hash \in 0 .. MaxRevisions /\ run # O!NoRun
      /\ UNCHANGED <<O!Zomes, O!Bounds>>
  BY NoOrganizationCall DEF O!Loaded, OrganizationTypes, CallsOfOrganizations, O!Views
<1>2. accepted' \in [O!Hashes -> O!Views] /\ cache' \in [O!Hashes -> O!Views]
  <2>1. O!Kept(run.hash, run.answer)
    BY DEF O!Loaded, O!Answer
  <2> QED BY <1>1, <2>1, KeptIs
<1>3. CASE run.op = "show"
  <2>1. /\ organization' = run.answer /\ current' = run.answer /\ UNCHANGED <<page, address, mayEdit, choices, fresh>>
        /\ run' = [run EXCEPT !.stage = "coordinator", !.hash = run.answer.hash]
    BY <1>3 DEF O!Loaded, O!Answer, O!AskCoordinator
  <2>2. /\ run' \in CallsOfOrganizations /\ run'.op = "show" /\ run'.stage = "coordinator"
        /\ run'.hash = run.answer.hash
    BY <1>1, <1>3, <2>1 DEF CallsOfOrganizations
  <2>3. OrganizationTypes'
    BY <1>1, <1>2, <2>1, <2>2 DEF OrganizationTypes, O!Zomes, O!Bounds
  <2>4. page = "organization"
    BY <1>1, <1>3 DEF CalledInv, CallsOn
  <2>5. CalledInv' /\ run' # O!NoRun
    <3>1. run' # O!NoRun
      BY <2>2, NoOrganizationCall
    <3>2. run'.op \in CallsOn(page')
      BY <2>1, <2>2, <2>4 DEF CallsOn
    <3> QED BY <2>2, <3>1, <3>2 DEF CalledInv
  <2>6. PageInv'
    <3> SUFFICES ASSUME address = 1, fresh
                 PROVE  run.answer.hash = revision /\ run.answer = Now
      BY <1>1, <2>1, <2>2, <2>4, <2>5 DEF PageInv, O!Zomes, Now
    <3>1. ReadSoFar
      BY <1>1, <1>3, <2>4 DEF PageInv
    <3> QED BY <1>1, <3>1 DEF ReadSoFar, Now, O!View, O!Views
  <2>7. ListingInv'
    BY <2>1, <2>4 DEF ListingInv
  <2> QED BY <2>3, <2>5, <2>6, <2>7 DEF O!OrganizationPagesAssumption
<1>4. CASE run.op \in {"edit", "added"}
  <2>1. /\ run' = O!NoRun /\ organization' \in O!Views /\ UNCHANGED <<current, page, address, mayEdit, choices, fresh>>
    <3>1. CASE run.op = "edit"
      BY <1>1, <3>1 DEF O!Loaded, O!Answer
    <3>2. CASE run.op = "added"
      BY <1>1, <3>2 DEF O!Loaded, O!Shown, OrganizationTypes
    <3> QED BY <1>4, <3>1, <3>2
  <2>2. OrganizationTypes'
    BY <1>1, <1>2, <2>1, NoOrganizationCall DEF OrganizationTypes, O!Zomes, O!Bounds
  <2>3. CalledInv' /\ (~fresh' \/ page' \notin {"organization", "listing"})
    BY <1>1, <1>4, <2>1, NoOrganizationCall DEF CalledInv, CallsOn
  <2> QED BY <2>2, <2>3, NothingClaimed DEF O!OrganizationPagesAssumption
<1>5. CASE run.op = "update"
  <2>1. O!Open("organization", address, "show", "record") /\ UNCHANGED current
    BY <1>5 DEF O!Loaded
  <2>2. "organization" \in PagesOfOrganizations /\ "show" \in CallsOn("organization")
    BY DEF PagesOfOrganizations, CallsOn
  <2>3. PICK h \in O!Hashes : h = address
    <3>1. page = "edit"
      BY <1>1, <1>5 DEF CalledInv, CallsOn, OrganizationTypes, PagesOfOrganizations
    <3> QED BY <3>1 DEF OrganizationTypes
  <2>4. /\ page' = "organization" /\ address' = h /\ run' \in CallsOfOrganizations
        /\ organization' \in O!Views /\ choices' \subseteq O!Views /\ mayEdit' \in BOOLEAN /\ fresh' \in BOOLEAN
        /\ CalledInv' /\ PageInv' /\ ListingInv'
    BY <2>1, <2>2, <2>3, PageOpened, OrganizationBounds
  <2>5. OrganizationTypes'
    <3>1. address' \in 0 .. MaxRevisions /\ address' \in O!Hashes /\ page' \in PagesOfOrganizations
      BY <2>2, <2>3, <2>4, OrganizationBounds
    <3> QED BY <1>1, <1>2, <2>1, <2>4, <3>1 DEF OrganizationTypes, O!Zomes, O!Bounds
  <2> QED BY <2>4, <2>5 DEF O!OrganizationPagesAssumption
<1> QED BY <1>1, <1>3, <1>4, <1>5

\* The page learns whether the person is a coordinator.
LEMMA IsCoordinatorStep ==
  ASSUME OrganizationInv, O!IsCoordinator
  PROVE  OrganizationInv'
<1> USE DEF OrganizationInv
<1>1. /\ run.stage = "coordinator" /\ run' = O!NoRun /\ mayEdit' = (me \in O!CoordinatorsOf(run.hash))
      /\ UNCHANGED <<O!Zomes, O!Store, page, address, organization, choices, fresh, O!Bounds>>
  BY DEF O!IsCoordinator
<1>2. OrganizationTypes' /\ CalledInv'
  BY <1>1, NoOrganizationCall DEF OrganizationTypes, CalledInv, O!Zomes, O!Store, O!Bounds
<1>3. run # O!NoRun
  BY <1>1, NoOrganizationCall
<1>4. PageInv'
  <2> SUFFICES ASSUME page = "organization", address = 1, fresh
               PROVE  run.hash = revision /\ organization = Now /\ current = Now
    BY <1>1, NoOrganizationCall DEF PageInv, O!Zomes, O!Store, Now, O!CoordinatorsOf
  <2>1. run.op = "show"
    BY <1>3 DEF CalledInv, CallsOn
  <2> QED BY <1>1, <2>1 DEF PageInv
<1>5. ListingInv'
  <2> SUFFICES page = "listing" /\ fresh => FALSE
    BY <1>1 DEF ListingInv
  <2>1. page = "listing" => run.op = "mine"
    BY <1>3 DEF CalledInv, CallsOn
  <2> QED BY <1>1, <2>1 DEF ListingInv, ReadsOrganization
<1> QED BY <1>2, <1>4, <1>5 DEF O!OrganizationPagesAssumption

\* The links are asked for.
LEMMA AskLinksStep ==
  ASSUME OrganizationInv, O!AskLinks
  PROVE  OrganizationInv'
<1> USE DEF OrganizationInv
<1>1. /\ run.stage = "links" /\ run \in CallsOfOrganizations
      /\ UNCHANGED <<O!Zomes, O!Store, O!Shown, said, fresh, O!Bounds>>
  BY DEF O!AskLinks, OrganizationTypes
<1>2. run # O!NoRun /\ run.op # "none"
  <2>1. run # O!NoRun
    BY <1>1, NoOrganizationCall
  <2> QED BY <2>1 DEF CalledInv, CallsOn
<1>3. /\ run' \in CallsOfOrganizations /\ run'.op = run.op /\ run'.answer = run.answer
      /\ run'.stage \in {"record", "read"}
      /\ run'.stage = "record" => run'.hash = 1
      /\ run.op = "mine" => (run'.stage = "record" <=> me \in members)
  <2>1. CASE run' = [run EXCEPT !.stage = "record", !.hash = 1]
    <3>1. run.op = "mine" => me \in members
      BY <1>1, <2>1 DEF O!AskLinks, O!To, CallsOfOrganizations
    <3> QED BY <1>1, <2>1, <3>1, OrganizationBounds DEF CallsOfOrganizations, ReadsOrganization
  <2>2. CASE run' = [run EXCEPT !.stage = "read"]
    <3>1. run' \in CallsOfOrganizations /\ run'.op = run.op /\ run'.answer = run.answer /\ run'.stage = "read"
      BY <1>1, <2>2, StageIs DEF ReadsOrganization
    <3>2. [run EXCEPT !.stage = "record", !.hash = 1].stage = "record"
      BY <1>1 DEF CallsOfOrganizations
    <3>3. run.op = "mine" => me \notin members
      BY <3>1, <3>2 DEF O!AskLinks
    <3> QED BY <3>1, <3>3
  <2> QED BY <2>1, <2>2 DEF O!AskLinks, O!To
<1>4. run' # O!NoRun
  BY <1>3, NoOrganizationCall
<1>5. OrganizationTypes' /\ CalledInv'
  BY <1>1, <1>2, <1>3, GoesOn DEF O!Store, OrganizationTypes
<1>6. PageInv'
  <2> SUFFICES page = "organization" /\ address = 1 /\ fresh => FALSE
    BY <1>1 DEF PageInv, O!Shown
  <2>1. page = "organization" /\ fresh => run.op = "show"
    BY <1>2 DEF CalledInv, CallsOn
  <2> QED BY <1>1, <2>1 DEF PageInv, ReadsOrganization
<1>7. ListingInv'
  <2> SUFFICES ASSUME page = "listing", fresh
               PROVE  run.op = "mine" /\ run.answer = O!Absent
    BY <1>1, <1>3, <1>4 DEF ListingInv, O!Shown, O!Zomes, ReadsOrganization
  <2> QED BY <1>1, <1>2 DEF ListingInv, CalledInv, CallsOn
<1> QED BY <1>5, <1>6, <1>7 DEF O!OrganizationPagesAssumption

\* The organization of the person takes the place of the array.
LEMMA FetchedStep ==
  ASSUME OrganizationInv, O!Fetched
  PROVE  OrganizationInv'
<1> USE DEF OrganizationInv
<1>1. /\ run.stage = "read" /\ run' = O!NoRun /\ run.op \in {"accepted", "mine"} /\ run.answer \in O!Views
      /\ choices' = IF run.op = "mine" THEN O!OnlyAccepted(run.answer) ELSE choices
      /\ UNCHANGED <<O!Zomes, current, page, address, organization, mayEdit, said, fresh, O!Bounds>>
  BY DEF O!Fetched, OrganizationTypes, CallsOfOrganizations
<1>2. accepted' = [h \in O!Hashes |-> IF h = run.answer.hash THEN run.answer ELSE O!Absent] /\ accepted' \in [O!Hashes -> O!Views]
  BY <1>1, AbsentViewIs DEF O!Fetched, O!Replaced
<1>3. cache' \in [O!Hashes -> O!Views]
  <2>1. \/ cache' = cache
        \/ cache' = [cache EXCEPT ![1] = run.answer, ![run.answer.hash] = run.answer]
    BY DEF O!Fetched
  <2> QED BY <1>1, <2>1 DEF OrganizationTypes
<1>4. OrganizationTypes' /\ CalledInv'
  <2>1. choices' \subseteq O!Views
    BY <1>1 DEF O!OnlyAccepted, OrganizationTypes
  <2> QED BY <1>1, <1>2, <1>3, <2>1, NoOrganizationCall DEF OrganizationTypes, CalledInv, O!Zomes, O!Bounds
<1>5. page \in {"list", "listing"}
  <2>1. run # O!NoRun
    BY <1>1, NoOrganizationCall
  <2> QED BY <1>1, <2>1 DEF CalledInv, CallsOn, OrganizationTypes, PagesOfOrganizations
<1>6. PageInv'
  BY <1>1, <1>5 DEF PageInv
<1>7. ListingInv'
  <2> SUFFICES ASSUME page = "listing", fresh
               PROVE  choices' = IF me \in members /\ status = "accepted" THEN {Now} ELSE {}
    BY <1>1, NoOrganizationCall DEF ListingInv, O!Zomes, Now
  <2>1. IF me \in members THEN run.answer = Now ELSE run.answer = O!Absent
    BY <1>1 DEF ListingInv
  <2>2. run.op = "mine"
    BY <1>1, NoOrganizationCall DEF CalledInv, CallsOn
  <2>3. Now.status = status /\ O!Absent.status = "none"
    BY AbsentViewIs DEF Now, O!View
  <2> QED BY <1>1, <2>1, <2>2, <2>3 DEF O!OnlyAccepted
<1> QED BY <1>4, <1>6, <1>7 DEF O!OrganizationPagesAssumption

\* A load that fails leaves nothing to claim.
LEMMA LoadFailsStepOfOrganizations ==
  ASSUME OrganizationInv, O!LoadFails
  PROVE  OrganizationInv'
<1> USE DEF OrganizationInv
<1>1. /\ run' = O!NoRun /\ fresh' = FALSE /\ O!Failing /\ organization' \in O!Views
      /\ UNCHANGED <<O!Zomes, O!Store, page, address, mayEdit, choices, said>>
  BY AbsentViewIs DEF O!LoadFails, OrganizationTypes
<1>2. OrganizationTypes'
  BY <1>1, NoOrganizationCall, OrganizationFailure DEF OrganizationTypes, O!Zomes, O!Store
<1>3. CalledInv'
  BY <1>1 DEF CalledInv
<1> QED BY <1>1, <1>2, <1>3, NothingClaimed DEF O!OrganizationPagesAssumption

\* The cache forgets.
LEMMA CacheExpiresStep ==
  ASSUME OrganizationInv, O!CacheExpires
  PROVE  OrganizationInv'
<1> USE DEF OrganizationInv
<1>1. UNCHANGED <<O!Zomes, accepted, current, O!Shown, run, said, fresh, O!Bounds>> /\ cache' \in [O!Hashes -> O!Views]
  BY AbsentViewIs DEF O!CacheExpires, OrganizationTypes
<1>2. OrganizationTypes' /\ CalledInv'
  BY <1>1 DEF OrganizationTypes, CalledInv, O!Zomes, O!Shown, O!Bounds
<1>3. PageInv' /\ ListingInv'
  BY <1>1 DEF PageInv, ListingInv, O!Zomes, O!Shown, Now, ReadSoFar, O!CoordinatorsOf
<1> QED BY <1>2, <1>3 DEF O!OrganizationPagesAssumption

\* The organization is created, and its page opened.
LEMMA CreateStepOfOrganizations ==
  ASSUME OrganizationInv, O!CreateOrganization
  PROVE  OrganizationInv'
<1> USE DEF OrganizationInv
<1>1. CASE O!Acts
  <2>1. /\ page = "create" /\ run' = O!Run("create", 1, "created")
        /\ revision' = 1 /\ members' = {me} /\ coordinators' = {me} /\ status' = "pending"
        /\ UNCHANGED <<O!Store, O!Shown, said, fresh, O!Bounds>>
    BY <1>1, NoOrganizationCall DEF O!CreateOrganization, O!Acts, O!At
  <2>2. run' \in CallsOfOrganizations /\ run'.op = "create"
    <3>1. 1 \in 0 .. MaxRevisions
      BY OrganizationBounds
    <3> QED BY <2>1, <3>1, OrganizationCallIs
  <2>3. OrganizationTypes'
    BY <2>1, <2>2, OrganizationBounds DEF OrganizationTypes, O!Store, O!Shown, O!Bounds, O!Statuses
  <2>4. CalledInv' /\ PageInv' /\ ListingInv'
    BY <2>1, <2>2, NothingClaimed DEF CalledInv, CallsOn, O!Shown
  <2> QED BY <2>3, <2>4 DEF O!OrganizationPagesAssumption
<1>2. CASE O!At("create", "created")
  <2>1. /\ O!Kept(1, O!View(1, {}, {}, "none")) /\ O!Open("organization", 1, "show", "record")
        /\ UNCHANGED <<O!Zomes, current, said, O!Bounds>>
    BY <1>2, NoOrganizationCall DEF O!CreateOrganization, O!Acts, O!At
  <2>2. /\ 1 \in 0 .. MaxRevisions /\ "none" \in O!Statuses /\ {} \in SUBSET People
        /\ "organization" \in PagesOfOrganizations /\ "show" \in CallsOn("organization")
    BY OrganizationBounds DEF O!Statuses, PagesOfOrganizations, CallsOn
  <2>3. O!View(1, {}, {}, "none") \in O!Views
    BY <2>2, ViewIs
  <2>4. accepted' \in [O!Hashes -> O!Views] /\ cache' \in [O!Hashes -> O!Views]
    BY <2>1, <2>3, KeptIs
  <2>5. /\ page' = "organization" /\ address' = 1 /\ run' \in CallsOfOrganizations
        /\ organization' \in O!Views /\ choices' \subseteq O!Views /\ mayEdit' \in BOOLEAN /\ fresh' \in BOOLEAN
        /\ CalledInv' /\ PageInv' /\ ListingInv'
    BY <2>1, <2>2, PageOpened, OrganizationBounds
  <2>6. OrganizationTypes'
    BY <2>1, <2>2, <2>4, <2>5, OrganizationBounds DEF OrganizationTypes, O!Zomes, O!Bounds
  <2> QED BY <2>5, <2>6 DEF O!OrganizationPagesAssumption
<1> QED BY <1>1, <1>2 DEF O!CreateOrganization

\* The form that revises it is sent.
LEMMA SubmitEditStep ==
  ASSUME OrganizationInv, O!SubmitEdit
  PROVE  OrganizationInv'
<1> USE DEF OrganizationInv
<1>1. page = "edit"
  <2>1. CASE O!Acts /\ page = "edit"
    BY <2>1
  <2>2. CASE O!At("refetch", "read")
    <3>1. run # O!NoRun /\ run.op = "refetch"
      BY <2>2, NoOrganizationCall DEF O!At
    <3> QED BY <3>1 DEF CalledInv, CallsOn, OrganizationTypes, PagesOfOrganizations
  <2> QED BY <2>1, <2>2 DEF O!SubmitEdit
<1>2. /\ run' \in CallsOfOrganizations /\ run'.op \in {"update", "refetch"}
      /\ UNCHANGED <<O!Zomes, current, O!Shown, said, fresh, O!Bounds>>
      /\ accepted' \in [O!Hashes -> O!Views] /\ cache' \in [O!Hashes -> O!Views]
  <2>1. CASE O!Acts
    <3>1. /\ UNCHANGED <<O!Zomes, O!Store, O!Shown, said, fresh, O!Bounds>>
          /\ run' = IF cache[address] # O!Absent THEN [O!Run("update", address, "send") EXCEPT !.answer = cache[address]]
                    ELSE O!Run("refetch", address, "record")
      BY <2>1, NoOrganizationCall DEF O!SubmitEdit, O!Acts, O!At
    <3>2. address \in 0 .. MaxRevisions /\ cache[address] \in O!Views
      BY <1>1 DEF OrganizationTypes
    <3>3. PICK h \in 0 .. MaxRevisions, v \in O!Views : h = address /\ v = cache[address]
      BY <3>2
    <3>4. O!Run("update", h, "send") \in CallsOfOrganizations /\ O!Run("update", h, "send").op = "update"
      BY OrganizationCallIs
    <3>5. O!Run("refetch", h, "record") \in CallsOfOrganizations /\ O!Run("refetch", h, "record").op = "refetch"
      BY OrganizationCallIs DEF ReadsOrganization
    <3>6. run' \in CallsOfOrganizations /\ run'.op \in {"update", "refetch"}
      BY <3>1, <3>3, <3>4, <3>5 DEF CallsOfOrganizations
    <3> QED BY <3>1, <3>6 DEF O!Store, OrganizationTypes
  <2>2. CASE O!At("refetch", "read")
    <3>1. /\ O!Kept(run.hash, run.answer) /\ run' = [run EXCEPT !.op = "update", !.stage = "send"]
          /\ UNCHANGED <<O!Zomes, current, O!Shown, said, fresh, O!Bounds>>
      BY <2>2, NoOrganizationCall DEF O!SubmitEdit, O!Acts, O!At
    <3>2. run \in CallsOfOrganizations /\ run.answer \in O!Views
      BY DEF OrganizationTypes, CallsOfOrganizations
    <3>3. run' \in CallsOfOrganizations /\ run'.op = "update"
      BY <3>1, <3>2 DEF CallsOfOrganizations
    <3> QED BY <3>1, <3>2, <3>3, KeptIs
  <2> QED BY <2>1, <2>2 DEF O!SubmitEdit
<1>3. OrganizationTypes'
  BY <1>2 DEF OrganizationTypes, O!Zomes, O!Shown, O!Bounds
<1>4. CalledInv' /\ PageInv' /\ ListingInv'
  BY <1>1, <1>2, NothingClaimed DEF CalledInv, CallsOn, O!Shown
<1> QED BY <1>3, <1>4 DEF O!OrganizationPagesAssumption

\* It is revised, or not.
LEMMA UpdateStepOfOrganizations ==
  ASSUME OrganizationInv, O!UpdateInZome
  PROVE  OrganizationInv'
<1> USE DEF OrganizationInv
<1>1. /\ run.op = "update" /\ run \in CallsOfOrganizations
      /\ UNCHANGED <<members, coordinators, status, O!Store, O!Shown, said, fresh, O!Bounds>>
  BY DEF O!UpdateInZome, O!At, OrganizationTypes
<1>2. page = "edit"
  <2>1. run # O!NoRun
    BY <1>1, NoOrganizationCall
  <2> QED BY <1>1, <2>1 DEF CalledInv, CallsOn, OrganizationTypes, PagesOfOrganizations
<1>3. /\ revision' \in 0 .. MaxRevisions /\ (revision' = 0 => revision = 0)
      /\ run' \in CallsOfOrganizations /\ (run' = O!NoRun \/ run'.op = "update") /\ run'.op # "added"
  <2>1. CASE run' = O!NoRun /\ UNCHANGED revision
    BY <2>1, NoOrganizationCall DEF OrganizationTypes
  <2>2. CASE revision < MaxRevisions /\ revision' = revision + 1 /\ run' = O!Run("update", run.hash, "record")
    <3>1. PICK h \in 0 .. MaxRevisions : h = run.hash
      BY <1>1 DEF CallsOfOrganizations
    <3>2. run' \in CallsOfOrganizations /\ run'.op = "update"
      BY <2>2, <3>1, OrganizationCallIs DEF ReadsOrganization
    <3> QED BY <2>2, <3>2, OrganizationBounds DEF OrganizationTypes
  <2> QED BY <2>1, <2>2 DEF O!UpdateInZome
<1>4. OrganizationTypes'
  BY <1>1, <1>3 DEF OrganizationTypes, O!Store, O!Shown, O!Bounds
<1>5. CalledInv' /\ PageInv' /\ ListingInv'
  BY <1>1, <1>2, <1>3, NothingClaimed DEF CalledInv, CallsOn, O!Shown
<1> QED BY <1>4, <1>5 DEF O!OrganizationPagesAssumption

\* Somebody is added, and the store reads the organization again.
LEMMA AddStep ==
  ASSUME OrganizationInv, NEW role \in {"member", "coordinator"}, O!Add(role)
  PROVE  OrganizationInv'
<1> USE DEF OrganizationInv
<1>1. /\ page = "organization" /\ fresh' = FALSE
      /\ run' = O!Run("added", organization.hash, "record")
      /\ cache' = [cache EXCEPT ![organization.hash] = O!Absent]
      /\ UNCHANGED <<revision, status, accepted, current, O!Shown, O!Bounds>>
  BY DEF O!Add, O!Manages
<1>2. members' \subseteq People /\ coordinators' \subseteq members' /\ (revision = 0 => members' = {})
  <2>1. PICK p \in O!Offered(role) :
          /\ ~O!Refuses(role, p)
          /\ members' = members \cup {p}
          /\ coordinators' = IF role = "coordinator" THEN coordinators \cup {p} ELSE coordinators
    BY DEF O!Add
  <2>2. p \in People
    BY <2>1 DEF O!Offered
  <2>3. me \in members
    BY <2>1 DEF O!Refuses, O!CoordinatorsOf, OrganizationTypes
  <2> QED BY <2>1, <2>2, <2>3 DEF OrganizationTypes
<1>3. run' \in CallsOfOrganizations /\ run'.op = "added"
  <2>1. PICK h \in 0 .. MaxRevisions : h = organization.hash
    BY DEF OrganizationTypes, O!Views
  <2> QED BY <1>1, <2>1, OrganizationCallIs DEF ReadsOrganization
<1>4. OrganizationTypes'
  BY <1>1, <1>2, <1>3, AbsentViewIs DEF OrganizationTypes, O!Shown, O!Bounds
<1>5. CalledInv' /\ PageInv' /\ ListingInv'
  BY <1>1, <1>3, NothingClaimed DEF CalledInv, CallsOn, O!Shown
<1> QED BY <1>4, <1>5 DEF O!OrganizationPagesAssumption

\* Somebody is said to be removed.
LEMMA SayStep ==
  ASSUME OrganizationInv, UNCHANGED <<O!Zomes, O!Store, O!Shown, run, fresh, O!Bounds>>
  PROVE  OrganizationInv'
<1>1. OrganizationTypes' /\ CalledInv' /\ PageInv' /\ ListingInv'
  BY DEF OrganizationInv, OrganizationTypes, CalledInv, PageInv, ListingInv, O!Zomes, O!Store, O!Shown, O!Bounds, Now, ReadSoFar,
         O!CoordinatorsOf
<1> QED BY <1>1 DEF OrganizationInv, O!OrganizationPagesAssumption

\* The organization is said to be deleted, or is left, and the list opened.
LEMMA ToTheListStep ==
  ASSUME OrganizationInv, O!SayDeleted \/ O!LeaveOrganization
  PROVE  OrganizationInv'
<1> USE DEF OrganizationInv
<1>1. O!Open("list", 0, "accepted", "links") /\ UNCHANGED <<revision, status, current, O!Bounds>>
  BY DEF O!SayDeleted, O!LeaveOrganization, O!Zomes, O!Store
<1>2. /\ members' \subseteq members /\ coordinators' \subseteq members'
      /\ accepted' \in [O!Hashes -> O!Views] /\ cache' \in [O!Hashes -> O!Views]
  <2>1. CASE O!SayDeleted
    BY <2>1 DEF O!SayDeleted, O!Zomes, O!Store, OrganizationTypes
  <2>2. CASE O!LeaveOrganization
    BY <2>2, AbsentViewIs DEF O!LeaveOrganization, OrganizationTypes
  <2> QED BY <2>1, <2>2
<1>3. /\ page' = "list" /\ address' = 0 /\ run' \in CallsOfOrganizations
      /\ organization' \in O!Views /\ choices' \subseteq O!Views /\ mayEdit' \in BOOLEAN /\ fresh' \in BOOLEAN
      /\ CalledInv' /\ PageInv' /\ ListingInv'
  <2>1. 0 \in 0 .. MaxRevisions /\ "list" \in PagesOfOrganizations /\ "accepted" \in CallsOn("list")
    BY OrganizationBounds DEF PagesOfOrganizations, CallsOn
  <2> QED BY <1>1, <2>1, PageOpened
<1>4. OrganizationTypes'
  BY <1>1, <1>2, <1>3, OrganizationBounds DEF OrganizationTypes, O!Bounds, PagesOfOrganizations
<1> QED BY <1>3, <1>4 DEF O!OrganizationPagesAssumption

\* Others act.
LEMMA OthersStepOfOrganizations ==
  ASSUME OrganizationInv, O!OthersAct
  PROVE  OrganizationInv'
<1> USE DEF OrganizationInv
<1>1. /\ revision # 0 /\ fresh' = FALSE /\ others' = others + 1 /\ others < MaxOthers
      /\ UNCHANGED <<O!Store, O!Shown, run, said, failures>>
  BY DEF O!OthersAct
<1>2. /\ revision' \in 0 .. MaxRevisions /\ revision' # 0 /\ status' \in O!Statuses
      /\ members' \subseteq People /\ coordinators' \subseteq members'
  BY <1>1, OrganizationBounds DEF O!OthersAct, OrganizationTypes, O!Statuses
<1>3. others' \in 0 .. MaxOthers
  BY <1>1, OrganizationBounds DEF OrganizationTypes
<1>4. OrganizationTypes'
  BY <1>1, <1>2, <1>3 DEF OrganizationTypes, O!Store, O!Shown
<1>5. CalledInv' /\ PageInv' /\ ListingInv'
  BY <1>1, NothingClaimed DEF CalledInv, O!Shown
<1> QED BY <1>4, <1>5 DEF O!OrganizationPagesAssumption

\* The invariant holds at first.
LEMMA OrganizationsInit ==
  ASSUME O!OrganizationPagesAssumption, O!Init
  PROVE  OrganizationInv
<1>1. /\ revision \in 0 .. MaxRevisions /\ status \in O!Statuses /\ members \subseteq People /\ coordinators \subseteq members
      /\ revision = 0 => members = {}
  BY OrganizationBounds DEF O!Init, O!Statuses
<1>2. accepted \in [O!Hashes -> O!Views] /\ cache \in [O!Hashes -> O!Views] /\ current \in O!Views /\ organization \in O!Views
  BY AbsentViewIs DEF O!Init
<1>3. run = O!NoRun /\ page = "list" /\ address = 0 /\ mayEdit = FALSE /\ choices = {} /\ fresh = FALSE /\ others = 0 /\ failures = 0
  BY DEF O!Init
<1>4. OrganizationTypes
  <2>1. 0 \in 0 .. MaxRevisions /\ 0 \in 0 .. MaxOthers /\ 0 \in 0 .. MaxFailures
    BY OrganizationBounds
  <2> QED BY <1>1, <1>2, <1>3, <2>1, NoOrganizationCall DEF OrganizationTypes, PagesOfOrganizations
<1>5. CalledInv /\ PageInv /\ ListingInv
  BY <1>3, NoOrganizationCall DEF CalledInv, PageInv, ListingInv
<1> QED BY <1>4, <1>5 DEF OrganizationInv

\* Every step keeps it.
LEMMA OrganizationsNext ==
  ASSUME OrganizationInv, [O!Next]_(O!pagesVars)
  PROVE  OrganizationInv'
<1>1. CASE O!SayRemoved \/ O!SayCoordinatorRemoved \/ UNCHANGED O!pagesVars
  <2>1. UNCHANGED <<O!Zomes, O!Store, O!Shown, run, fresh, O!Bounds>>
    BY <1>1 DEF O!SayRemoved, O!SayCoordinatorRemoved, O!pagesVars, O!Zomes, O!Store, O!Shown, O!Bounds
  <2> QED BY <2>1, SayStep
<1>2. CASE O!VisitOrganization \/ O!VisitEdit \/ O!VisitCreate \/ O!VisitList \/ O!VisitListing
  BY <1>2, VisitsOfOrganizations
<1>3. CASE O!ReadRecord \/ O!ReadPeople \/ O!Loaded \/ O!IsCoordinator \/ O!AskLinks \/ O!Fetched \/ O!LoadFails \/ O!CacheExpires
  BY <1>3, ReadRecordStep, ReadPeopleStep, LoadedStep, IsCoordinatorStep, AskLinksStep, FetchedStep,
     LoadFailsStepOfOrganizations, CacheExpiresStep
<1>4. CASE \/ O!CreateOrganization \/ O!SubmitEdit \/ O!UpdateInZome \/ O!Add("member") \/ O!Add("coordinator")
           \/ O!SayDeleted \/ O!LeaveOrganization \/ O!OthersAct
  BY <1>4, CreateStepOfOrganizations, SubmitEditStep, UpdateStepOfOrganizations, AddStep, ToTheListStep,
     OthersStepOfOrganizations
<1> QED BY <1>1, <1>2, <1>3, <1>4 DEF O!Next

\* It always holds.
LEMMA OrganizationsInvariance == O!OrganizationPagesAssumption /\ O!Spec => []OrganizationInv
<1> SUFFICES ASSUME O!OrganizationPagesAssumption PROVE O!Spec => []OrganizationInv
  OBVIOUS
<1>1. O!Init => OrganizationInv
  BY OrganizationsInit
<1>2. OrganizationInv /\ [O!Next]_(O!pagesVars) => OrganizationInv'
  BY OrganizationsNext
<1> QED BY <1>1, <1>2, PTL DEF O!Spec

\* The types of the variables of the pages of an organization.
THEOREM OrganizationPagesTypesHold == O!OrganizationPagesAssumption /\ O!Spec => []O!TypeOK
<1>1. OrganizationInv => O!TypeOK
  BY DEF OrganizationInv, OrganizationTypes, O!TypeOK
<1> QED BY <1>1, OrganizationsInvariance, PTL

\* The page of an organization, opened under its original hash and loaded without a
\* change or a failure meanwhile, shows it as it is, offers a listing of it to its
\* members once it is accepted, and lets who coordinates it edit it until it was
\* revised, whatever was created, revised, added, left or forgotten before.
THEOREM OrganizationShownAsItIs == O!OrganizationPagesAssumption /\ O!Spec => []O!ShownAsItIs
<1>1. OrganizationInv => O!ShownAsItIs
  <2> SUFFICES ASSUME OrganizationInv, page = "organization", address = 1, O!Acts, fresh
               PROVE  /\ organization = Now
                      /\ O!MembersShown = members \ coordinators /\ O!CoordinatorsShown = coordinators
                      /\ mayEdit => me \in coordinators
                      /\ revision = 1 => (mayEdit <=> me \in coordinators)
                      /\ O!ListingOffered <=> me \in members /\ status = "accepted"
    BY DEF O!ShownAsItIs, Now
  <2>1. organization = Now /\ current = Now /\ mayEdit = (me \in O!CoordinatorsOf(revision))
    BY DEF OrganizationInv, PageInv, O!Acts
  <2>2. Now.members = members /\ Now.coordinators = coordinators /\ Now.status = status
    BY DEF Now, O!View
  <2>3. mayEdit => me \in coordinators
    BY <2>1 DEF O!CoordinatorsOf
  <2>4. revision = 1 => (mayEdit <=> me \in coordinators)
    BY <2>1 DEF O!CoordinatorsOf
  <2>5. O!ListingOffered <=> me \in members /\ status = "accepted"
    BY <2>1, <2>2, <2>3 DEF O!ListingOffered, OrganizationInv, OrganizationTypes
  <2> QED BY <2>1, <2>2, <2>3, <2>4, <2>5 DEF O!MembersShown, O!CoordinatorsShown
<1> QED BY <1>1, OrganizationsInvariance, PTL

\* The form of a listing, loaded without a change or a failure meanwhile, offers the
\* organization exactly to its members while it is accepted, as it is now, whatever was
\* fetched, revised, added or left before.
THEOREM OrganizationOfferedToMembers == O!OrganizationPagesAssumption /\ O!Spec => []O!OfferedToMembers
<1>1. OrganizationInv => O!OfferedToMembers
  BY DEF OrganizationInv, ListingInv, O!OfferedToMembers, O!Acts, Now
<1> QED BY <1>1, OrganizationsInvariance, PTL

-----------------------------------------------------------------------------
(* The pages of the service types: what the variables hold. *)

Entries == [status : T!Statuses \cup {"none", "gone", "unknown"}, rev : 0 .. MaxEdits]
PagesOfTypes ==
  [at : {"elsewhere", "suggest", "create", "moderate", "list", "admin list", "public details", "details", "edit"},
   id : T!Hashes \cup {T!NoHash}, phase : {"loading", "ready", "failed"}]
SavesOfTypes == {"create", "suggest", "edit"}
ToAsk ==
  {<<"approved">>, <<"approved", "pending">>, <<"pending">>, <<"pending", "approved", "rejected">>,
   <<"approved", "rejected">>, <<"rejected">>}
CallsOfTypes ==
  [on : {"idle", "list", "table", "get", "related"} \cup SavesOfTypes \cup T!Decisions, id : T!Hashes \cup {T!NoHash},
   todo : ToAsk \cup {<<>>}, answer : SUBSET (Types \cup Entries), tries : 0 .. Retries, ok : BOOLEAN, live : BOOLEAN]

TypesOfPages ==
  /\ zome \in [Types -> [status : T!Statuses \cup {"none", "gone"}, rev : 0 .. MaxEdits]]
  /\ arrays \in [T!Statuses -> SUBSET Types]
  /\ cache \in [T!Hashes -> Entries]
  /\ page \in PagesOfTypes
  /\ page.at \in T!Pages \cup T!PagesOfOne
  /\ page.at \in {"public details", "details", "edit"} => page.id \in T!Hashes
  /\ related \in BOOLEAN /\ search \in BOOLEAN /\ filled \in BOOLEAN
  /\ run \in CallsOfTypes
  /\ run.on \in {"list", "table"} => run.todo \in ToAsk /\ run.answer \subseteq Types
  /\ run.on = "list" => run.todo \in {T!ListNeeds, <<"pending">>}
  /\ run.on = "get" => run.answer \subseteq Entries
  /\ run.on \in {"get", "related"} => run.id \in T!Hashes
  /\ run.on \in SavesOfTypes \cup T!Decisions => \E t \in Types : run.id = <<t, 0>>
  /\ run.on \in {"create", "edit"} => Admin
  /\ others \in 0 .. MaxOthers /\ failures \in 0 .. MaxFailures

\* Which calls are under way while a page is open, and which forms are filled in.
UnderWay ==
  /\ page.at \in T!Lists => /\ run.on \in {"idle", "list", "delete"}
                            /\ run.on = "list" => run.live /\ page.phase = "loading"
                            /\ run.on = "delete" => run.live /\ page.at = "admin list"
  /\ run.on \in {"get", "related"} /\ run.live => page.at \in {"public details", "details", "edit"}
  /\ filled => page.at \in SavesOfTypes

\* A list has got its approved types, and holds them.
HasApproved ==
  \/ run.on = "list" /\ run.todo = <<"pending">>
  \/ run.on # "list" /\ page.phase = "ready" /\ (run.on = "idle" \/ ~run.ok)
ListsInv ==
  others = 0 =>
    /\ run.on \in {"list", "table"} => run.answer = T!WithStatus(Head(run.todo))
    /\ page.at \in T!Lists /\ HasApproved => arrays["approved"] = T!WithStatus("approved")

\* What an array names is there, and pending if it is the array of the pending, but
\* for the type that was decided on.
DecidedOn(t) == run.on \in T!Decisions /\ run.ok /\ run.id = <<t, 0>>
SavedNow(t) == run.on \in SavesOfTypes /\ run.ok /\ run.id = <<t, 0>>
ArraysInv ==
  others = 0 =>
    \A t \in Types :
      /\ \A s \in T!Statuses : t \in arrays[s] => T!There(t) \/ (run.on = "delete" /\ DecidedOn(t))
      /\ t \in arrays["pending"] /\ zome[t].rev = 0 => zome[t].status = "pending" \/ DecidedOn(t)
      /\ SavedNow(t) => T!There(t) /\ (run.on = "suggest" => zome[t].status = "pending")

TypesInv == T!ServiceTypePagesAssumption /\ TypesOfPages /\ UnderWay /\ ListsInv /\ ArraysInv

\* The bounds are numbers, and the hashes of a type are hashes.
LEMMA TypeBounds ==
  ASSUME T!ServiceTypePagesAssumption
  PROVE  /\ 0 \in 0 .. MaxEdits /\ 0 .. MaxEdits \subseteq {0, 1} /\ MaxEdits \in Nat
         /\ Retries \in Nat /\ MaxOthers \in Nat /\ MaxFailures \in Nat
         /\ 0 \in 0 .. Retries /\ 0 \in 0 .. MaxOthers /\ 0 \in 0 .. MaxFailures
         /\ \A t \in Types, r \in 0 .. MaxEdits : <<t, r>> \in T!Hashes
         /\ Admin \in BOOLEAN
<1>1. MaxEdits \in {0, 1} /\ Retries \in Nat /\ MaxOthers \in Nat /\ MaxFailures \in Nat /\ Admin \in BOOLEAN
  BY DEF T!ServiceTypePagesAssumption
<1>2. 0 \in 0 .. MaxEdits /\ 0 .. MaxEdits \subseteq {0, 1}
  BY <1>1
<1> QED BY <1>1, <1>2 DEF T!Hashes

\* What is asked for, one status after the other.
LEMMA ToAskIs ==
  /\ \A q \in ToAsk : Head(q) \in T!Statuses /\ Tail(q) \in ToAsk \cup {<<>>} /\ q # <<>>
  /\ Head(<<"approved">>) = "approved" /\ Tail(<<"approved">>) = <<>>
  /\ Head(<<"approved", "pending">>) = "approved" /\ Tail(<<"approved", "pending">>) = <<"pending">>
  /\ Head(<<"pending">>) = "pending" /\ Tail(<<"pending">>) = <<>>
  /\ <<"pending">> # <<"approved">> /\ <<"pending">> # <<"approved", "pending">>
BY DEF ToAsk, T!Statuses

\* What a list, and the moderation table, ask for.
LEMMA NeedsIs ==
  ASSUME T!ServiceTypePagesAssumption
  PROVE  /\ T!ListNeeds \in {<<"approved">>, <<"approved", "pending">>} /\ T!ListNeeds \in ToAsk
         /\ T!TableNeeds \in ToAsk
<1>1. CASE Admin
  BY <1>1 DEF T!ListNeeds, T!TableNeeds, ToAsk
<1>2. CASE ~Admin
  BY <1>2 DEF T!ListNeeds, T!TableNeeds, ToAsk
<1> QED BY <1>1, <1>2

\* No call.
LEMMA IdleCall ==
  ASSUME T!ServiceTypePagesAssumption
  PROVE  T!Idle \in CallsOfTypes /\ T!Idle.on = "idle" /\ T!Idle.ok = FALSE
<1>1. 0 \in 0 .. Retries
  BY TypeBounds
<1> QED BY <1>1 DEF T!Idle, CallsOfTypes

\* A list that asks.
LEMMA AskingIs ==
  ASSUME T!ServiceTypePagesAssumption, NEW on \in {"list", "table"}, NEW todo \in ToAsk, NEW tries \in 0 .. Retries,
         NEW live \in BOOLEAN
  PROVE  /\ T!Asking(on, todo, tries, live) \in CallsOfTypes
         /\ T!Asking(on, todo, tries, live).on = on /\ T!Asking(on, todo, tries, live).todo = todo /\ T!Asking(on, todo, tries, live).live = live
         /\ T!Asking(on, todo, tries, live).answer = T!WithStatus(Head(todo)) /\ T!Asking(on, todo, tries, live).answer \subseteq Types
<1>1. T!WithStatus(Head(todo)) \in SUBSET Types
  BY DEF T!WithStatus
<1>2. PICK a \in SUBSET Types : a = T!WithStatus(Head(todo))
  BY <1>1
<1>3. T!Asking(on, todo, tries, live) = [T!Idle EXCEPT !.on = on, !.todo = todo, !.answer = a, !.tries = tries, !.live = live]
  BY <1>2 DEF T!Asking
<1> QED BY <1>2, <1>3, IdleCall DEF CallsOfTypes

\* A list asks for what it needs.
LEMMA ListAsks ==
  ASSUME T!ServiceTypePagesAssumption
  PROVE  /\ T!Asking("list", T!ListNeeds, 0, TRUE) \in CallsOfTypes
         /\ T!Asking("list", T!ListNeeds, 0, TRUE).on = "list" /\ T!Asking("list", T!ListNeeds, 0, TRUE).todo = T!ListNeeds /\ T!Asking("list", T!ListNeeds, 0, TRUE).live = TRUE
         /\ T!Asking("list", T!ListNeeds, 0, TRUE).answer = T!WithStatus(Head(T!ListNeeds)) /\ T!Asking("list", T!ListNeeds, 0, TRUE).answer \subseteq Types
         /\ T!ListNeeds \in ToAsk
<1>1. PICK q \in ToAsk : q = T!ListNeeds
  BY NeedsIs
<1>2. PICK n \in 0 .. Retries : n = 0
  BY TypeBounds
<1>3. PICK on \in {"list", "table"}, live \in BOOLEAN : on = "list" /\ live = TRUE
  OBVIOUS
<1>4. /\ T!Asking(on, q, n, live) \in CallsOfTypes
      /\ T!Asking(on, q, n, live).on = on /\ T!Asking(on, q, n, live).todo = q /\ T!Asking(on, q, n, live).live = live
      /\ T!Asking(on, q, n, live).answer = T!WithStatus(Head(q)) /\ T!Asking(on, q, n, live).answer \subseteq Types
  BY AskingIs
<1> QED BY <1>1, <1>2, <1>3, <1>4

\* The moderation table does.
LEMMA TableAsks ==
  ASSUME T!ServiceTypePagesAssumption
  PROVE  /\ T!Asking("table", T!TableNeeds, 0, TRUE) \in CallsOfTypes
         /\ T!Asking("table", T!TableNeeds, 0, TRUE).on = "table" /\ T!Asking("table", T!TableNeeds, 0, TRUE).todo = T!TableNeeds /\ T!Asking("table", T!TableNeeds, 0, TRUE).live = TRUE
         /\ T!Asking("table", T!TableNeeds, 0, TRUE).answer = T!WithStatus(Head(T!TableNeeds)) /\ T!Asking("table", T!TableNeeds, 0, TRUE).answer \subseteq Types
         /\ T!TableNeeds \in ToAsk
<1>1. PICK q \in ToAsk : q = T!TableNeeds
  BY NeedsIs
<1>2. PICK n \in 0 .. Retries : n = 0
  BY TypeBounds
<1>3. PICK on \in {"list", "table"}, live \in BOOLEAN : on = "table" /\ live = TRUE
  OBVIOUS
<1>4. /\ T!Asking(on, q, n, live) \in CallsOfTypes
      /\ T!Asking(on, q, n, live).on = on /\ T!Asking(on, q, n, live).todo = q /\ T!Asking(on, q, n, live).live = live
      /\ T!Asking(on, q, n, live).answer = T!WithStatus(Head(q)) /\ T!Asking(on, q, n, live).answer \subseteq Types
  BY AskingIs
<1> QED BY <1>1, <1>2, <1>3, <1>4

\* A type that is got, from the cache or from the zome.
LEMMA GettingIs ==
  ASSUME T!ServiceTypePagesAssumption, TypesOfPages, NEW h \in T!Hashes, NEW live \in BOOLEAN
  PROVE  /\ T!Getting(h, live) \in CallsOfTypes
         /\ T!Getting(h, live).on = "get" /\ T!Getting(h, live).id = h /\ T!Getting(h, live).live = live /\ T!Getting(h, live).answer \subseteq Entries
<1>1. PICK e \in Entries : e = IF cache[h] = T!Unknown THEN T!LookUp(h) ELSE cache[h]
  <2>1. cache[h] \in Entries
    BY DEF TypesOfPages
  <2>2. T!LookUp(h) \in Entries
    <3>1. h[1] \in Types /\ zome[h[1]] \in [status : T!Statuses \cup {"none", "gone"}, rev : 0 .. MaxEdits]
      BY DEF T!Hashes, TypesOfPages
    <3>2. T!Gone \in Entries
      BY TypeBounds DEF T!Gone, Entries
    <3>3. zome[h[1]] \in Entries /\ [zome[h[1]] EXCEPT !.status = "pending"] \in Entries
      BY <3>1 DEF Entries, T!Statuses
    <3> QED BY <3>2, <3>3 DEF T!LookUp
  <2> QED BY <2>1, <2>2
<1>2. PICK a \in SUBSET Entries : a = {e}
  OBVIOUS
<1>3. T!Getting(h, live) = [T!Idle EXCEPT !.on = "get", !.id = h, !.answer = a, !.live = live]
  BY <1>1, <1>2 DEF T!Getting
<1>4. a \in SUBSET (Types \cup Entries)
  BY <1>2
<1> QED BY <1>2, <1>3, <1>4, IdleCall DEF CallsOfTypes

\* A call that changes something in the zome.
LEMMA CallsIs ==
  ASSUME T!ServiceTypePagesAssumption, NEW on \in SavesOfTypes \cup T!Decisions, NEW t \in Types, NEW ok \in BOOLEAN,
         T!Calls(on, t, ok)
  PROVE  /\ run' \in CallsOfTypes /\ run'.on = on /\ run'.id = <<t, 0>> /\ run'.ok = ok /\ run'.live = TRUE
<1>1. <<t, 0>> \in T!Hashes
  BY TypeBounds
<1>2. run' = [T!Idle EXCEPT !.on = on, !.id = <<t, 0>>, !.ok = ok, !.live = TRUE]
  BY DEF T!Calls
<1> QED BY <1>1, <1>2, IdleCall DEF CallsOfTypes

\* The phase of a page.
LEMMA PhaseOfTypes ==
  ASSUME TypesOfPages, NEW phase \in {"loading", "ready", "failed"}
  PROVE  LET p == [page EXCEPT !.phase = phase] IN
         p \in PagesOfTypes /\ p.at = page.at /\ p.id = page.id /\ p.phase = phase
BY DEF TypesOfPages, PagesOfTypes

\* A call that ends may change the phase of the page.
LEMMA PhaseKept ==
  ASSUME TypesOfPages, NEW phase \in {"loading", "ready", "failed"}, T!Phase(phase)
  PROVE  page' \in PagesOfTypes /\ page'.at = page.at /\ page'.id = page.id /\ (run.live => page'.phase = phase)
BY PhaseOfTypes DEF T!Phase, TypesOfPages

\* A failure is counted.
LEMMA FailureOfTypes ==
  ASSUME T!ServiceTypePagesAssumption, TypesOfPages, T!Fails \/ UNCHANGED failures
  PROVE  failures' \in 0 .. MaxFailures
<1>1. failures \in 0 .. MaxFailures /\ MaxFailures \in Nat
  BY TypeBounds DEF TypesOfPages
<1> QED BY <1>1 DEF T!Fails

\* The pages there are.
LEMMA PagesAre ==
  /\ T!Lists \subseteq {"list", "admin list"}
  /\ T!PagesOfOne \subseteq {"public details", "details", "edit"}
  /\ T!Pages \subseteq {"elsewhere", "suggest", "create", "moderate", "list", "admin list"}
  /\ "elsewhere" \in T!Pages /\ "suggest" \in T!Pages /\ "list" \in T!Lists /\ "list" \in T!Pages
  /\ "public details" \in T!PagesOfOne
  /\ Admin => "admin list" \in T!Pages
  /\ ~Admin => \A at \in T!Pages \cup T!PagesOfOne : at \notin {"create", "edit", "moderate", "admin list", "details"}
BY DEF T!Pages, T!PagesOfOne, T!Lists

\* Of the arrays the same holds, if nothing they are about changed.
LEMMA ArraysKept ==
  ASSUME TypesInv, UNCHANGED <<zome, arrays, others>>,
         \/ UNCHANGED <<run.on, run.ok, run.id>>
         \/ (run.on \notin T!Decisions \/ ~run.ok) /\ run'.on \notin SavesOfTypes
  PROVE  ArraysInv'
<1>1. CASE UNCHANGED <<run.on, run.ok, run.id>>
  BY <1>1 DEF TypesInv, ArraysInv, DecidedOn, SavedNow, T!There
<1>2. CASE (run.on \notin T!Decisions \/ ~run.ok) /\ run'.on \notin SavesOfTypes
  BY <1>2 DEF TypesInv, ArraysInv, DecidedOn, SavedNow, T!There, T!Decisions
<1> QED BY <1>1, <1>2

\* A page is opened.
LEMMA OpenStepOfTypes ==
  ASSUME TypesInv, NEW p \in PagesOfTypes, T!Open(p), p.at \in T!Pages \cup T!PagesOfOne,
         p.at \in {"public details", "details", "edit"} => p.id \in T!Hashes,
         UNCHANGED <<zome, arrays, cache, others, failures>>
  PROVE  TypesInv'
<1> USE DEF TypesInv
<1>1. /\ run' = T!Needs(p) /\ related' = FALSE /\ search' = FALSE /\ filled' = FALSE
      /\ page' = IF p.at \in T!Lists THEN [p EXCEPT !.phase = "loading"] ELSE p
      /\ p.at \notin {"elsewhere", "suggest", "create"} => run = T!Idle
  BY DEF T!Open
<1>2. page' \in PagesOfTypes /\ page'.at = p.at /\ page'.id = p.id /\ (p.at \in T!Lists => page'.phase = "loading")
  BY <1>1 DEF PagesOfTypes
<1>3. /\ zome' \in [Types -> [status : T!Statuses \cup {"none", "gone"}, rev : 0 .. MaxEdits]]
      /\ arrays' \in [T!Statuses -> SUBSET Types] /\ cache' \in [T!Hashes -> Entries]
      /\ related' \in BOOLEAN /\ search' \in BOOLEAN /\ filled' \in BOOLEAN
      /\ others' \in 0 .. MaxOthers /\ failures' \in 0 .. MaxFailures
      /\ T!ServiceTypePagesAssumption'
  BY <1>1 DEF TypesOfPages, T!ServiceTypePagesAssumption
<1>4. run # T!Idle \/ run.on = "idle"
  BY IdleCall
<1>5. CASE p.at \in T!Lists
  <2>1. run' = T!Asking("list", T!ListNeeds, 0, TRUE)
    <3>1. p.at # "moderate" /\ p.at \notin T!PagesOfOne
      BY <1>5 DEF T!Lists, T!PagesOfOne
    <3> QED BY <1>1, <1>5, <3>1 DEF T!Needs
  <2>2. /\ run' \in CallsOfTypes /\ run'.on = "list" /\ run'.todo = T!ListNeeds /\ run'.live = TRUE
        /\ run'.answer = T!WithStatus(Head(T!ListNeeds)) /\ run'.answer \subseteq Types /\ T!ListNeeds \in ToAsk
    BY <2>1, ListAsks
  <2>3. TypesOfPages'
    BY <1>2, <1>3, <2>2 DEF TypesOfPages, SavesOfTypes, T!Decisions
  <2>4. UnderWay'
    BY <1>1, <1>2, <1>5, <2>2 DEF UnderWay
  <2>5. ListsInv'
    BY <2>2, NeedsIs, ToAskIs DEF ListsInv, HasApproved, T!WithStatus
  <2>6. ArraysInv'
    BY <1>1, <1>4, <1>5, <2>2, PagesAre, ArraysKept DEF T!Decisions, SavesOfTypes
  <2> QED BY <1>3, <2>3, <2>4, <2>5, <2>6
<1>6. CASE p.at = "moderate"
  <2>1. run' = T!Asking("table", T!TableNeeds, 0, TRUE) /\ p.at \notin T!Lists
    <3>1. p.at \notin T!Lists /\ p.at \notin T!PagesOfOne
      BY <1>6 DEF T!Lists, T!PagesOfOne
    <3> QED BY <1>1, <1>6, <3>1 DEF T!Needs
  <2>2. /\ run' \in CallsOfTypes /\ run'.on = "table" /\ run'.todo = T!TableNeeds /\ run'.live = TRUE
        /\ run'.answer = T!WithStatus(Head(T!TableNeeds)) /\ run'.answer \subseteq Types /\ T!TableNeeds \in ToAsk
    BY <2>1, TableAsks
  <2>3. TypesOfPages'
    BY <1>2, <1>3, <1>6, <2>2 DEF TypesOfPages, SavesOfTypes, T!Decisions
  <2>4. UnderWay'
    BY <1>1, <1>2, <2>1, <2>2 DEF UnderWay
  <2>5. ListsInv'
    BY <1>2, <2>1, <2>2 DEF ListsInv, T!WithStatus, T!Lists
  <2>6. ArraysInv'
    BY <1>1, <1>4, <1>6, <2>2, ArraysKept DEF T!Decisions, SavesOfTypes
  <2> QED BY <1>3, <2>3, <2>4, <2>5, <2>6
<1>7. CASE p.at \in T!PagesOfOne
  <2>1. p.id \in T!Hashes /\ p.at \notin T!Lists /\ p.at \notin {"elsewhere", "suggest", "create", "moderate"}
    BY <1>7, PagesAre
  <2>2. run' = T!Getting(p.id, TRUE)
    BY <1>1, <1>7, <2>1 DEF T!Needs
  <2>3. run' \in CallsOfTypes /\ run'.on = "get" /\ run'.id = p.id /\ run'.live = TRUE /\ run'.answer \subseteq Entries
    BY <2>1, <2>2, GettingIs
  <2>4. TypesOfPages'
    BY <1>2, <1>3, <2>1, <2>3 DEF TypesOfPages, SavesOfTypes, T!Decisions
  <2>5. UnderWay'
    BY <1>1, <1>2, <1>7, <2>1, <2>3, PagesAre DEF UnderWay, T!Lists
  <2>6. ListsInv'
    BY <1>2, <2>1, <2>3 DEF ListsInv, T!Lists
  <2>7. ArraysInv'
    BY <1>1, <1>4, <2>1, <2>3, ArraysKept DEF T!Decisions, SavesOfTypes
  <2> QED BY <1>3, <2>4, <2>5, <2>6, <2>7
<1>8. CASE p.at \in {"elsewhere", "suggest", "create"}
  <2>1. run' = [run EXCEPT !.live = FALSE] /\ p.at \notin T!Lists
    BY <1>1, <1>8 DEF T!Needs, T!Lists, T!PagesOfOne
  <2>2. /\ run' \in CallsOfTypes /\ run'.live = FALSE
        /\ UNCHANGED <<run.on, run.id, run.todo, run.answer, run.ok>>
    BY <2>1 DEF TypesOfPages, CallsOfTypes
  <2>3. TypesOfPages'
    BY <1>2, <1>3, <1>8, <2>2 DEF TypesOfPages
  <2>4. UnderWay'
    BY <1>1, <1>2, <2>1, <2>2 DEF UnderWay, T!Lists
  <2>5. ListsInv'
    BY <1>2, <2>1, <2>2 DEF ListsInv, T!WithStatus, T!Lists
  <2>6. ArraysInv'
    BY <2>2, ArraysKept
  <2> QED BY <1>3, <2>3, <2>4, <2>5, <2>6
<1> QED BY <1>5, <1>6, <1>7, <1>8, PagesAre DEF T!Lists

\* Of the lists nothing is claimed while none is open and nothing is asked for.
LEMMA AwayFromLists ==
  ASSUME page'.at \notin T!Lists, run'.on \notin {"list", "table"}
  PROVE  ListsInv'
BY DEF ListsInv

\* A list, or a page of one type, loads again.
LEMMA LoadAgainStep ==
  ASSUME TypesInv, T!LoadAgain
  PROVE  TypesInv'
<1> USE DEF TypesInv
<1>1. /\ run = T!Idle /\ run.on = "idle" /\ run' = T!Needs(page)
      /\ UNCHANGED <<zome, arrays, cache, related, search, filled, others, failures>>
  BY IdleCall DEF T!LoadAgain
<1>2. page' \in PagesOfTypes /\ page'.at = page.at /\ page'.id = page.id /\ page'.phase = "loading"
  <2>1. page' = [page EXCEPT !.phase = "loading"]
    BY DEF T!LoadAgain
  <2> QED BY <2>1, PhaseOfTypes
<1>3. CASE page.at \in T!Lists
  <2>1. run' = T!Asking("list", T!ListNeeds, 0, TRUE)
    <3>1. page.at # "moderate" /\ page.at \notin T!PagesOfOne
      BY <1>3 DEF T!Lists, T!PagesOfOne
    <3> QED BY <1>1, <1>3, <3>1 DEF T!Needs
  <2>2. /\ run' \in CallsOfTypes /\ run'.on = "list" /\ run'.todo = T!ListNeeds /\ run'.live = TRUE
        /\ run'.answer = T!WithStatus(Head(T!ListNeeds)) /\ run'.answer \subseteq Types /\ T!ListNeeds \in ToAsk
    BY <2>1, ListAsks
  <2>3. TypesOfPages'
    BY <1>1, <1>2, <2>2 DEF TypesOfPages, SavesOfTypes, T!Decisions
  <2>4. UnderWay'
    BY <1>1, <1>2, <1>3, <2>2 DEF UnderWay
  <2>5. ListsInv'
    BY <1>1, <2>2, NeedsIs, ToAskIs DEF ListsInv, HasApproved, T!WithStatus
  <2>6. ArraysInv'
    BY <1>1, <2>2, ArraysKept DEF T!Decisions, SavesOfTypes
  <2> QED BY <2>3, <2>4, <2>5, <2>6 DEF T!ServiceTypePagesAssumption
<1>4. CASE page.at \in T!PagesOfOne
  <2>1. page.id \in T!Hashes /\ page.at \notin T!Lists /\ page.at # "moderate"
    BY <1>4, PagesAre DEF TypesOfPages, T!Lists
  <2>2. run' = T!Getting(page.id, TRUE)
    BY <1>1, <1>4, <2>1 DEF T!Needs
  <2>3. run' \in CallsOfTypes /\ run'.on = "get" /\ run'.id = page.id /\ run'.live = TRUE /\ run'.answer \subseteq Entries
    BY <2>1, <2>2, GettingIs
  <2>4. TypesOfPages'
    BY <1>1, <1>2, <2>1, <2>3 DEF TypesOfPages, SavesOfTypes, T!Decisions
  <2>5. UnderWay'
    BY <1>1, <1>2, <1>4, <2>1, <2>3, PagesAre DEF UnderWay
  <2>6. ListsInv'
    BY <1>2, <2>1, <2>3, AwayFromLists
  <2>7. ArraysInv'
    BY <1>1, <2>3, ArraysKept DEF T!Decisions, SavesOfTypes
  <2> QED BY <2>4, <2>5, <2>6, <2>7 DEF T!ServiceTypePagesAssumption
<1> QED BY <1>3, <1>4 DEF T!LoadAgain

\* A tag gets its type.
LEMMA ShowTagStepOfTypes ==
  ASSUME TypesInv, NEW t \in Types, T!ShowTag(t)
  PROVE  TypesInv'
<1> USE DEF TypesInv
<1>1. /\ page.at = "elsewhere" /\ run = T!Idle /\ run.on = "idle" /\ run' = T!Getting(<<t, 0>>, FALSE)
      /\ UNCHANGED <<zome, arrays, cache, T!shownVars, others, failures>>
  BY IdleCall DEF T!ShowTag
<1>2. PICK h \in T!Hashes, live \in BOOLEAN : h = <<t, 0>> /\ live = FALSE
  BY TypeBounds
<1>3. run' \in CallsOfTypes /\ run'.on = "get" /\ run'.id = h /\ run'.live = live /\ run'.answer \subseteq Entries
  BY <1>1, <1>2, GettingIs
<1>4. TypesOfPages'
  BY <1>1, <1>3 DEF TypesOfPages, SavesOfTypes, T!Decisions, T!shownVars
<1>5. UnderWay'
  BY <1>1, <1>2, <1>3 DEF UnderWay, T!shownVars, T!Lists
<1>6. ListsInv'
  BY <1>1, <1>3, AwayFromLists DEF T!shownVars, T!Lists
<1>7. ArraysInv'
  BY <1>1, <1>3, ArraysKept DEF T!Decisions, SavesOfTypes
<1> QED BY <1>4, <1>5, <1>6, <1>7 DEF T!ServiceTypePagesAssumption

\* The next call of a list, or of the table.
LEMMA GoesIs ==
  ASSUME T!ServiceTypePagesAssumption, TypesOfPages, run.on \in {"list", "table"}, T!Goes(Tail(run.todo))
  PROVE  /\ run' \in CallsOfTypes /\ page' \in PagesOfTypes /\ page'.at = page.at /\ page'.id = page.id
         /\ \/ Tail(run.todo) = <<>> /\ run'.on = "idle" /\ (run.live => page'.phase = "ready")
            \/ /\ Tail(run.todo) \in ToAsk /\ run'.on = run.on /\ run'.todo = Tail(run.todo) /\ run'.live = run.live
               /\ run'.answer = T!WithStatus(Head(Tail(run.todo))) /\ run'.answer \subseteq Types /\ UNCHANGED page
<1>1. run.todo \in ToAsk /\ Tail(run.todo) \in ToAsk \cup {<<>>}
  BY ToAskIs DEF TypesOfPages
<1>2. CASE Tail(run.todo) = <<>>
  <2>1. run' = T!Idle /\ T!Phase("ready")
    BY <1>2 DEF T!Goes
  <2> QED BY <1>2, <2>1, IdleCall, PhaseKept
<1>3. CASE Tail(run.todo) # <<>>
  <2>1. PICK q \in ToAsk : q = Tail(run.todo)
    BY <1>1, <1>3
  <2>2. PICK n \in 0 .. Retries, live \in BOOLEAN, on \in {"list", "table"} : n = 0 /\ live = run.live /\ on = run.on
    BY TypeBounds DEF TypesOfPages, CallsOfTypes
  <2>3. run' = T!Asking(on, q, n, live) /\ UNCHANGED page
    BY <1>3, <2>1, <2>2 DEF T!Goes
  <2>4. /\ T!Asking(on, q, n, live) \in CallsOfTypes
        /\ T!Asking(on, q, n, live).on = on /\ T!Asking(on, q, n, live).todo = q /\ T!Asking(on, q, n, live).live = live
        /\ T!Asking(on, q, n, live).answer = T!WithStatus(Head(q)) /\ T!Asking(on, q, n, live).answer \subseteq Types
    BY AskingIs
  <2> QED BY <2>1, <2>2, <2>3, <2>4 DEF TypesOfPages
<1> QED BY <1>2, <1>3

\* The array of a status is replaced.
LEMMA AnsweredStep ==
  ASSUME TypesInv, T!Answered
  PROVE  TypesInv'
<1> USE DEF TypesInv
<1> DEFINE s == Head(run.todo)
<1>1. /\ run.on \in {"list", "table"} /\ arrays' = [arrays EXCEPT ![s] = run.answer] /\ T!Goes(Tail(run.todo))
      /\ search' = (search /\ arrays'["approved"] = arrays["approved"])
      /\ UNCHANGED <<zome, cache, related, filled, others, failures>>
  BY DEF T!Answered
<1>2. run.todo \in ToAsk /\ s \in T!Statuses /\ run.answer \subseteq Types
  BY <1>1, ToAskIs DEF TypesOfPages
<1>3. /\ run' \in CallsOfTypes /\ page' \in PagesOfTypes /\ page'.at = page.at /\ page'.id = page.id
      /\ \/ Tail(run.todo) = <<>> /\ run'.on = "idle" /\ (run.live => page'.phase = "ready")
         \/ /\ Tail(run.todo) \in ToAsk /\ run'.on = run.on /\ run'.todo = Tail(run.todo) /\ run'.live = run.live
            /\ run'.answer = T!WithStatus(Head(Tail(run.todo))) /\ run'.answer \subseteq Types /\ UNCHANGED page
  BY <1>1, GoesIs
<1>4. run.on = "list" => Tail(run.todo) \in {<<>>, <<"pending">>}
  BY NeedsIs, ToAskIs DEF TypesOfPages
<1> HIDE DEF s
<1>5. arrays' \in [T!Statuses -> SUBSET Types]
  BY <1>1, <1>2 DEF TypesOfPages
<1>6. search' \in BOOLEAN
  BY <1>1
<1>7. TypesOfPages'
  BY <1>1, <1>3, <1>4, <1>5, <1>6, ToAskIs DEF TypesOfPages, SavesOfTypes, T!Decisions
<1>8. UnderWay'
  BY <1>1, <1>3 DEF UnderWay
<1>9. ListsInv'
  <2> SUFFICES ASSUME others = 0
               PROVE  /\ run'.on \in {"list", "table"} => run'.answer = T!WithStatus(Head(run'.todo))
                      /\ page'.at \in T!Lists => arrays'["approved"] = T!WithStatus("approved")
    BY <1>1 DEF ListsInv, T!WithStatus
  <2>1. run'.on \in {"list", "table"} => run'.answer = T!WithStatus(Head(run'.todo))
    BY <1>1, <1>3 DEF T!WithStatus
  <2>2. ASSUME page'.at \in T!Lists
        PROVE  arrays'["approved"] = T!WithStatus("approved")
    <3>1. run.on = "list" /\ run.todo \in {<<"approved">>, <<"approved", "pending">>, <<"pending">>}
      BY <1>1, <1>3, <2>2, NeedsIs DEF UnderWay, TypesOfPages
    <3>2. CASE run.todo = <<"pending">>
      <4>1. s = "pending" /\ arrays["approved"] = T!WithStatus("approved")
        BY <1>3, <2>2, <3>1, <3>2, ToAskIs DEF ListsInv, HasApproved, s
      <4> QED BY <1>1, <4>1 DEF TypesOfPages, T!Statuses
    <3>3. CASE run.todo # <<"pending">>
      <4>1. s = "approved" /\ run.answer = T!WithStatus("approved")
        BY <3>1, <3>3, ToAskIs DEF ListsInv, s
      <4> QED BY <1>1, <4>1 DEF TypesOfPages, T!Statuses
    <3> QED BY <3>2, <3>3
  <2> QED BY <2>1, <2>2
<1>10. ArraysInv'
  <2> SUFFICES ASSUME others = 0, NEW t \in Types
               PROVE  /\ \A r \in T!Statuses : t \in arrays'[r] => T!There(t)
                      /\ t \in arrays'["pending"] /\ zome[t].rev = 0 => zome[t].status = "pending"
    BY <1>1, <1>3 DEF ArraysInv, T!There, SavedNow, SavesOfTypes
  <2>1. ~DecidedOn(t)
    BY <1>1 DEF DecidedOn, T!Decisions
  <2>2. t \in run.answer => zome[t].status = s
    BY <1>1 DEF ListsInv, T!WithStatus, s
  <2>3. ASSUME NEW r \in T!Statuses, t \in arrays'[r]
        PROVE  T!There(t)
    BY <1>1, <1>2, <2>1, <2>2, <2>3 DEF ArraysInv, T!There, TypesOfPages
  <2>4. t \in arrays'["pending"] /\ zome[t].rev = 0 => zome[t].status = "pending"
    BY <1>1, <1>2, <2>1, <2>2 DEF ArraysInv, TypesOfPages, T!Statuses
  <2> QED BY <2>3, <2>4
<1> QED BY <1>7, <1>8, <1>9, <1>10 DEF T!ServiceTypePagesAssumption

\* A load that fails is repeated, or given up.
LEMMA LoadFailsStepOfTypes ==
  ASSUME TypesInv, T!LoadFails
  PROVE  TypesInv'
<1> USE DEF TypesInv
<1>1. /\ run.on \in {"list", "table"} /\ T!Fails
      /\ UNCHANGED <<zome, arrays, cache, related, search, filled, others>>
  BY DEF T!LoadFails
<1>2. failures' \in 0 .. MaxFailures
  BY <1>1, FailureOfTypes
<1>3. CASE run.on = "list" /\ run.tries < Retries
  <2>1. PICK q \in ToAsk, live \in BOOLEAN, on \in {"list", "table"} : q = run.todo /\ live = run.live /\ on = "list"
    BY <1>1 DEF TypesOfPages, CallsOfTypes
  <2>2. PICK n \in 0 .. Retries : n = run.tries + 1
    <3>1. run.tries \in 0 .. Retries /\ Retries \in Nat
      BY TypeBounds DEF TypesOfPages, CallsOfTypes
    <3> QED BY <1>3, <3>1
  <2>3. run' = T!Asking(on, q, n, live) /\ UNCHANGED page
    BY <1>3, <2>1, <2>2 DEF T!LoadFails
  <2>4. /\ T!Asking(on, q, n, live) \in CallsOfTypes
        /\ T!Asking(on, q, n, live).on = on /\ T!Asking(on, q, n, live).todo = q /\ T!Asking(on, q, n, live).live = live
        /\ T!Asking(on, q, n, live).answer = T!WithStatus(Head(q)) /\ T!Asking(on, q, n, live).answer \subseteq Types
    BY AskingIs
  <2>5. /\ run' \in CallsOfTypes /\ run'.on = "list" /\ run'.todo = run.todo /\ run'.live = run.live
        /\ run'.answer = T!WithStatus(Head(run.todo)) /\ run'.answer \subseteq Types
    BY <2>1, <2>3, <2>4
  <2>6. TypesOfPages'
    BY <1>1, <1>2, <1>3, <2>3, <2>5 DEF TypesOfPages, SavesOfTypes, T!Decisions
  <2>7. UnderWay'
    BY <1>1, <1>3, <2>3, <2>5 DEF UnderWay
  <2>8. ListsInv'
    BY <1>1, <1>3, <2>3, <2>5 DEF ListsInv, HasApproved, T!WithStatus
  <2>9. ArraysInv'
    BY <1>1, <2>5, ArraysKept DEF T!Decisions, SavesOfTypes
  <2> QED BY <2>6, <2>7, <2>8, <2>9 DEF T!ServiceTypePagesAssumption
<1>4. CASE ~(run.on = "list" /\ run.tries < Retries)
  <2>1. run' = T!Idle /\ T!Phase(IF run.todo = T!ListNeeds THEN "failed" ELSE "ready")
    BY <1>4 DEF T!LoadFails
  <2>2. PICK phase \in {"loading", "ready", "failed"} : phase = IF run.todo = T!ListNeeds THEN "failed" ELSE "ready"
    OBVIOUS
  <2>3. page' \in PagesOfTypes /\ page'.at = page.at /\ page'.id = page.id /\ (run.live => page'.phase = phase)
    BY <2>1, <2>2, PhaseKept
  <2>4. TypesOfPages'
    BY <1>1, <1>2, <2>1, <2>3, IdleCall DEF TypesOfPages, SavesOfTypes, T!Decisions
  <2>5. UnderWay'
    BY <1>1, <2>1, <2>3, IdleCall DEF UnderWay
  <2>6. ListsInv'
    <3> SUFFICES ASSUME others = 0, page.at \in T!Lists, page'.phase = "ready"
                 PROVE  arrays["approved"] = T!WithStatus("approved")
      BY <1>1, <2>1, <2>3, IdleCall DEF ListsInv, HasApproved, T!WithStatus
    <3>1. run.on = "list" /\ run.live
      BY <1>1 DEF UnderWay
    <3>2. run.todo = <<"pending">>
      BY <2>2, <2>3, <3>1 DEF TypesOfPages
    <3> QED BY <3>1, <3>2 DEF ListsInv, HasApproved
  <2>7. ArraysInv'
    BY <1>1, <2>1, IdleCall, ArraysKept DEF T!Decisions, SavesOfTypes
  <2> QED BY <2>4, <2>5, <2>6, <2>7 DEF T!ServiceTypePagesAssumption
<1> QED BY <1>3, <1>4

\* What was looked up is remembered, and shown or filled in.
LEMMA GetAnsweredStep ==
  ASSUME TypesInv, T!GetAnswered
  PROVE  TypesInv'
<1> USE DEF TypesInv
<1>1. run.on = "get" /\ run \in CallsOfTypes /\ run.id \in T!Hashes /\ run.answer \subseteq Entries
      /\ UNCHANGED <<zome, arrays, related, search, others>>
  BY DEF T!GetAnswered, TypesOfPages
<1>2. page.at \notin T!Lists
  BY <1>1 DEF UnderWay
<1>3. cache' \in [T!Hashes -> Entries] /\ failures' \in 0 .. MaxFailures
  <2>1. T!Gone \in Entries
    BY TypeBounds DEF T!Gone, Entries
  <2>2. \E e \in Entries : cache' = [cache EXCEPT ![run.id] = e]
    BY <1>1, <2>1 DEF T!GetAnswered
  <2> QED BY <1>1, <2>2, FailureOfTypes DEF T!GetAnswered, TypesOfPages
<1>4. /\ run' \in CallsOfTypes /\ run'.on \in {"idle", "related"}
      /\ run'.on = "related" => run'.live = run.live /\ run'.id = run.id
      /\ page' \in PagesOfTypes /\ page'.at = page.at /\ page'.id = page.id
      /\ filled' \in {filled, page.at = "edit"}
  <2>1. CASE run' = T!Idle /\ T!Phase("failed") /\ UNCHANGED filled
    BY <2>1, IdleCall, PhaseKept
  <2>2. CASE run' = T!Idle /\ T!Phase("ready") /\ filled' = (page.at = "edit")
    BY <2>2, IdleCall, PhaseKept
  <2>3. CASE run' = [run EXCEPT !.on = "related"] /\ UNCHANGED page /\ filled' = (page.at = "edit")
    BY <1>1, <2>3 DEF CallsOfTypes, TypesOfPages
  <2> QED BY <2>1, <2>2, <2>3 DEF T!GetAnswered
<1>5. TypesOfPages'
  <2>1. filled' \in BOOLEAN
    BY <1>4 DEF TypesOfPages
  <2> QED BY <1>1, <1>3, <1>4, <2>1 DEF TypesOfPages, SavesOfTypes, T!Decisions
<1>6. UnderWay'
  BY <1>1, <1>2, <1>4 DEF UnderWay, SavesOfTypes
<1>7. ListsInv'
  BY <1>2, <1>4, AwayFromLists
<1>8. ArraysInv'
  BY <1>1, <1>4, ArraysKept DEF T!Decisions, SavesOfTypes
<1> QED BY <1>5, <1>6, <1>7, <1>8 DEF T!ServiceTypePagesAssumption

\* The page is shown, with the requests and offers or without them.
LEMMA RelatedAnsweredStep ==
  ASSUME TypesInv, T!RelatedAnswered
  PROVE  TypesInv'
<1> USE DEF TypesInv
<1>1. /\ run.on = "related" /\ run \in CallsOfTypes /\ run' = T!Idle /\ T!Phase("ready")
      /\ UNCHANGED <<zome, arrays, cache, search, filled, others>>
  BY DEF T!RelatedAnswered, TypesOfPages
<1>2. page.at \notin T!Lists
  BY <1>1 DEF UnderWay
<1>3. related' \in BOOLEAN /\ failures' \in 0 .. MaxFailures
  BY <1>1, FailureOfTypes DEF T!RelatedAnswered, CallsOfTypes, TypesOfPages
<1>4. page' \in PagesOfTypes /\ page'.at = page.at /\ page'.id = page.id
  BY <1>1, PhaseKept
<1>5. TypesOfPages'
  BY <1>1, <1>3, <1>4, IdleCall DEF TypesOfPages, SavesOfTypes, T!Decisions
<1>6. UnderWay'
  BY <1>1, <1>2, <1>4, IdleCall DEF UnderWay
<1>7. ListsInv'
  BY <1>1, <1>2, <1>4, IdleCall, AwayFromLists
<1>8. ArraysInv'
  BY <1>1, IdleCall, ArraysKept DEF T!Decisions, SavesOfTypes
<1> QED BY <1>5, <1>6, <1>7, <1>8 DEF T!ServiceTypePagesAssumption

\* A search is written, or a form, the cache forgets, or nothing happens.
LEMMA QuietStepOfTypes ==
  ASSUME TypesInv, UNCHANGED <<zome, arrays, page, run, others, failures>>,
         related' \in BOOLEAN, search' \in BOOLEAN, filled' \in BOOLEAN, cache' \in [T!Hashes -> Entries],
         filled' => filled \/ page.at \in SavesOfTypes
  PROVE  TypesInv'
<1> USE DEF TypesInv
<1>1. TypesOfPages'
  BY DEF TypesOfPages
<1>2. UnderWay' /\ ListsInv'
  BY DEF UnderWay, ListsInv, HasApproved, T!WithStatus
<1>3. ArraysInv'
  BY ArraysKept
<1> QED BY <1>1, <1>2, <1>3 DEF T!ServiceTypePagesAssumption

\* What a decision does in the zome.
LEMMA DecidesOnType ==
  ASSUME T!ServiceTypePagesAssumption, TypesOfPages, NEW d \in T!Decisions, NEW t \in Types, T!Decides(d, t)
  PROVE  /\ zome' \in [Types -> [status : T!Statuses \cup {"none", "gone"}, rev : 0 .. MaxEdits]]
         /\ \A u \in Types \ {t} : zome'[u] = zome[u]
         /\ d # "delete" => zome'[t].status \in T!Statuses
         /\ d # "delete" => zome'[t].rev = zome[t].rev
<1> DEFINE z == IF d = "delete" THEN T!Gone ELSE [zome[t] EXCEPT !.status = T!StatusAfter(d)]
<1>1. zome \in [Types -> [status : T!Statuses \cup {"none", "gone"}, rev : 0 .. MaxEdits]] /\ 0 \in 0 .. MaxEdits
  BY TypeBounds DEF TypesOfPages
<1>2. zome' = [zome EXCEPT ![t] = z]
  BY DEF T!Decides
<1>3. T!StatusAfter(d) \in T!Statuses \cup {"gone"} /\ (d # "delete" => T!StatusAfter(d) \in T!Statuses)
  BY DEF T!StatusAfter, T!Statuses, T!Decisions
<1>4. /\ z \in [status : T!Statuses \cup {"none", "gone"}, rev : 0 .. MaxEdits]
      /\ d # "delete" => z.status = T!StatusAfter(d) /\ z.rev = zome[t].rev
  BY <1>1, <1>3 DEF T!Gone
<1> HIDE DEF z
<1> QED BY <1>1, <1>2, <1>3, <1>4

\* A decision that is offered is sent.
LEMMA DecideStepOfTypes ==
  ASSUME TypesInv, NEW d \in T!Decisions, NEW t \in Types, T!Decide(d, t)
  PROVE  TypesInv'
<1> USE DEF TypesInv
<1>1. /\ run = T!Idle /\ run.on = "idle" /\ T!Offered(d, t) /\ zome[t].rev = 0
      /\ UNCHANGED <<arrays, cache, T!shownVars, others>>
  BY IdleCall DEF T!Decide
<1>2. PICK ok \in BOOLEAN : T!Calls(d, t, ok) /\ (IF ok THEN T!Decides(d, t) ELSE UNCHANGED zome)
  BY DEF T!Decide
<1>3. run' \in CallsOfTypes /\ run'.on = d /\ run'.id = <<t, 0>> /\ run'.ok = ok /\ run'.live = TRUE
  BY <1>2, CallsIs
<1>4. failures' \in 0 .. MaxFailures
  BY FailureOfTypes DEF T!Decide
<1>5. zome' \in [Types -> [status : T!Statuses \cup {"none", "gone"}, rev : 0 .. MaxEdits]]
  BY <1>2, DecidesOnType DEF TypesOfPages
<1>6. TypesOfPages'
  <2>1. d \notin {"list", "table", "get", "related", "create", "edit"}
    BY DEF T!Decisions
  <2> QED BY <1>1, <1>3, <1>4, <1>5, <2>1 DEF TypesOfPages, T!shownVars
<1>7. page.at \in T!Lists => d = "delete" /\ page.at = "admin list"
  BY <1>1 DEF T!Offered, T!OfferedInTable, T!OfferedInDetails, T!AdminDetailsShown, T!Tabled, T!Lists
<1>8. UnderWay'
  BY <1>1, <1>3, <1>7 DEF UnderWay, T!shownVars, T!Decisions
<1>9. ListsInv'
  <2> SUFFICES ASSUME others = 0, page.at \in T!Lists, page.phase = "ready", ~ok
               PROVE  arrays["approved"] = T!WithStatus("approved") /\ UNCHANGED zome
    BY <1>1, <1>3 DEF ListsInv, HasApproved, T!WithStatus, T!shownVars, T!Decisions
  <2> QED BY <1>1, <1>2 DEF ListsInv, HasApproved
<1>10. ArraysInv'
  <2> SUFFICES ASSUME others = 0, NEW u \in Types
               PROVE  /\ \A s \in T!Statuses : u \in arrays[s] => T!There(u)' \/ (d = "delete" /\ DecidedOn(u)')
                      /\ u \in arrays["pending"] /\ zome'[u].rev = 0 => zome'[u].status = "pending" \/ DecidedOn(u)'
    BY <1>1, <1>3 DEF ArraysInv, SavedNow, SavesOfTypes, T!Decisions
  <2>1. ~DecidedOn(u)
    BY <1>1 DEF DecidedOn, T!Decisions
  <2>2. CASE zome'[u] = zome[u]
    BY <2>1, <2>2 DEF ArraysInv, T!There
  <2>3. CASE zome'[u] # zome[u]
    <3>1. ok /\ u = t
      BY <1>2, <2>3, DecidesOnType
    <3>2. DecidedOn(u)'
      BY <1>3, <3>1 DEF DecidedOn
    <3>3. d # "delete" => T!There(u)'
      BY <1>2, <3>1, DecidesOnType DEF T!There
    <3> QED BY <3>2, <3>3
  <2> QED BY <2>2, <2>3
<1> QED BY <1>6, <1>8, <1>9, <1>10 DEF T!ServiceTypePagesAssumption

\* The store moves what was pending, and the page of the type gets it again.
LEMMA DecidedStepOfTypes ==
  ASSUME TypesInv, T!Decided
  PROVE  TypesInv'
<1> USE DEF TypesInv
<1>1. /\ run.on \in {"approve", "reject"} /\ run \in CallsOfTypes
      /\ UNCHANGED <<zome, cache, related, search, filled, others, failures>>
  BY DEF T!Decided, TypesOfPages
<1>2. page.at \notin T!Lists
  BY <1>1 DEF UnderWay
<1>3. PICK t \in Types : run.id = <<t, 0>>
  BY <1>1 DEF TypesOfPages, T!Decisions
<1>4. <<t, 0>> \in T!Hashes /\ run.id[1] = t
  BY <1>3, TypeBounds
<1>5. IF run.ok THEN T!Moved(run.on, t) ELSE UNCHANGED arrays
  BY <1>4 DEF T!Decided
<1>6. /\ run' \in CallsOfTypes /\ page' \in PagesOfTypes /\ page'.at = page.at /\ page'.id = page.id
      /\ \/ run' = T!Idle
         \/ run'.on = "get" /\ run'.id = run.id /\ run'.answer \subseteq Entries /\ page.at = "details"
  <2>1. CASE run' = T!Idle /\ (UNCHANGED page \/ T!Phase("failed"))
    BY <2>1, IdleCall, PhaseKept DEF TypesOfPages
  <2>2. CASE run' = T!Getting(run.id, TRUE) /\ page.at = "details" /\ T!Phase("loading")
    <3>1. PICK h \in T!Hashes, live \in BOOLEAN : h = run.id /\ live = TRUE
      BY <1>3, <1>4
    <3>2. run' \in CallsOfTypes /\ run'.on = "get" /\ run'.id = h /\ run'.answer \subseteq Entries
      BY <2>2, <3>1, GettingIs
    <3> QED BY <2>2, <3>1, <3>2, PhaseKept
  <2> QED BY <2>1, <2>2 DEF T!Decided
<1>7. arrays' \in [T!Statuses -> SUBSET Types]
  <2>1. T!StatusAfter(run.on) \in T!Statuses
    BY <1>1 DEF T!StatusAfter, T!Statuses
  <2> QED BY <1>5, <2>1 DEF T!Moved, TypesOfPages
<1>8. TypesOfPages'
  <2>1. run'.on = "get" => run'.id \in T!Hashes
    BY <1>3, <1>4, <1>6, IdleCall
  <2> QED BY <1>1, <1>6, <1>7, <2>1, IdleCall DEF TypesOfPages, SavesOfTypes, T!Decisions
<1>9. UnderWay'
  BY <1>1, <1>2, <1>6, IdleCall DEF UnderWay
<1>10. ListsInv'
  BY <1>2, <1>6, IdleCall, AwayFromLists
<1>11. ArraysInv'
  <2> SUFFICES ASSUME others = 0, NEW u \in Types
               PROVE  /\ \A s \in T!Statuses : u \in arrays'[s] => T!There(u)
                      /\ u \in arrays'["pending"] /\ zome[u].rev = 0 => zome[u].status = "pending"
    BY <1>1, <1>6, IdleCall DEF ArraysInv, T!There, SavedNow, SavesOfTypes
  <2>1. DecidedOn(u) => run.ok /\ u = t
    BY <1>3 DEF DecidedOn
  <2>2. \A s \in T!Statuses : u \in arrays[s] => T!There(u)
    BY <1>1 DEF ArraysInv
  <2>3. u \in arrays["pending"] /\ zome[u].rev = 0 => zome[u].status = "pending" \/ (run.ok /\ u = t)
    BY <2>1 DEF ArraysInv
  <2>4. CASE arrays' = arrays /\ (run.ok => t \notin arrays["pending"])
    BY <2>2, <2>3, <2>4
  <2>5. CASE run.ok /\ t \in arrays["pending"]
    <3>1. PICK s \in T!Statuses : s = T!StatusAfter(run.on) /\ s # "pending"
      BY <1>1 DEF T!StatusAfter, T!Statuses
    <3>2. arrays' = [arrays EXCEPT !["pending"] = arrays["pending"] \ {t}, ![s] = arrays[s] \cup {t}]
      BY <1>5, <2>5, <3>1 DEF T!Moved, TypesOfPages
    <3>3. arrays'["pending"] = arrays["pending"] \ {t} /\ "pending" \in T!Statuses
      BY <3>1, <3>2 DEF TypesOfPages, T!Statuses
    <3>4. \A r \in T!Statuses : arrays'[r] \subseteq arrays[r] \cup {t}
      BY <3>1, <3>2 DEF TypesOfPages
    <3> QED BY <2>2, <2>3, <2>5, <3>3, <3>4
  <2> QED BY <1>5, <2>4, <2>5 DEF T!Moved
<1> QED BY <1>8, <1>9, <1>10, <1>11 DEF T!ServiceTypePagesAssumption

\* A change is of the first record of a type.
LEMMA ChangeIs ==
  ASSUME TypesOfPages, run.on \in SavesOfTypes \cup T!Decisions
  PROVE  \E t \in Types : run.id = <<t, 0>> /\ run.id[1] = t
<1>1. PICK t \in Types : run.id = <<t, 0>>
  BY DEF TypesOfPages
<1>2. run.id[1] = t
  BY <1>1
<1> QED BY <1>1, <1>2

\* What is deleted is in no array.
LEMMA RemovedIs ==
  ASSUME T!ServiceTypePagesAssumption, TypesOfPages, NEW t \in Types, T!Removed(t)
  PROVE  /\ arrays' \in [T!Statuses -> SUBSET Types] /\ cache' \in [T!Hashes -> Entries]
         /\ \A s \in T!Statuses : arrays'[s] = arrays[s] \ {t}
<1>1. T!Unknown \in Entries
  BY TypeBounds DEF T!Unknown, Entries
<1> QED BY <1>1 DEF T!Removed, TypesOfPages

\* The list of the administrators is opened after a change.
LEMMA ListOpens ==
  ASSUME TypesInv, Admin, page' = [T!Page("admin list") EXCEPT !.phase = "loading"], run' = T!Asking("list", T!ListNeeds, 0, TRUE),
         ~filled', related' \in BOOLEAN, search' \in BOOLEAN, filled' \in BOOLEAN,
         arrays' \in [T!Statuses -> SUBSET Types], cache' \in [T!Hashes -> Entries], UNCHANGED <<zome, others, failures>>
  PROVE  /\ TypesOfPages' /\ UnderWay' /\ ListsInv'
         /\ run'.on = "list"
<1> USE DEF TypesInv
<1>1. /\ run' \in CallsOfTypes /\ run'.on = "list" /\ run'.todo = T!ListNeeds /\ run'.live = TRUE
      /\ run'.answer = T!WithStatus(Head(T!ListNeeds)) /\ run'.answer \subseteq Types /\ T!ListNeeds \in ToAsk
  BY ListAsks
<1>2. page' \in PagesOfTypes /\ page'.at = "admin list" /\ page'.phase = "loading"
  BY DEF T!Page, PagesOfTypes
<1>3. TypesOfPages'
  BY <1>1, <1>2, PagesAre DEF TypesOfPages, SavesOfTypes, T!Decisions
<1>4. UnderWay'
  BY <1>1, <1>2 DEF UnderWay
<1>5. ListsInv'
  BY <1>1, NeedsIs, ToAskIs DEF ListsInv, HasApproved, T!WithStatus
<1> QED BY <1>1, <1>3, <1>4, <1>5

\* What is deleted leaves the arrays; the list loads.
LEMMA DeletedStep ==
  ASSUME TypesInv, T!Deleted
  PROVE  TypesInv'
<1> USE DEF TypesInv
<1>1. /\ run.on = "delete" /\ run \in CallsOfTypes
      /\ UNCHANGED <<zome, related, search, filled, others, failures>>
  BY DEF T!Deleted, TypesOfPages
<1>2. PICK t \in Types : run.id = <<t, 0>> /\ run.id[1] = t
  BY <1>1, ChangeIs DEF T!Decisions
<1>3. IF run.ok THEN T!Removed(t) ELSE UNCHANGED <<arrays, cache>>
  BY <1>2 DEF T!Deleted
<1>4. arrays' \in [T!Statuses -> SUBSET Types] /\ cache' \in [T!Hashes -> Entries]
  BY <1>3, RemovedIs DEF TypesOfPages
<1>5. run'.on \notin SavesOfTypes => ArraysInv'
  <2>1. CASE run.ok
    <3> SUFFICES ASSUME others = 0, NEW u \in Types, run'.on \notin SavesOfTypes
                 PROVE  /\ \A s \in T!Statuses : u \in arrays'[s] => T!There(u)
                        /\ u \in arrays'["pending"] /\ zome[u].rev = 0 => zome[u].status = "pending"
      BY <1>1 DEF ArraysInv, T!There, SavedNow
    <3>1. \A s \in T!Statuses : arrays'[s] = arrays[s] \ {t}
      BY <1>3, <2>1, RemovedIs
    <3>2. DecidedOn(u) => u = t
      BY <1>2 DEF DecidedOn
    <3>3. \A s \in T!Statuses : u \in arrays'[s] => T!There(u)
      BY <1>1, <3>1, <3>2 DEF ArraysInv
    <3>4. u \in arrays'["pending"] /\ zome[u].rev = 0 => zome[u].status = "pending"
      BY <1>1, <3>1, <3>2 DEF ArraysInv, T!Statuses
    <3> QED BY <3>3, <3>4
  <2>2. CASE ~run.ok
    BY <1>1, <1>3, <2>2, ArraysKept
  <2> QED BY <2>1, <2>2
<1>6. CASE run.ok /\ page.at \in {"details", "admin list"} /\ run.live
  <2>1. page' = [T!Page("admin list") EXCEPT !.phase = "loading"] /\ run' = T!Asking("list", T!ListNeeds, 0, TRUE)
    BY <1>6 DEF T!Deleted
  <2>2. Admin
    BY <1>6, TypeBounds, PagesAre DEF TypesOfPages
  <2>3. ~filled'
    BY <1>1, <1>6 DEF UnderWay, SavesOfTypes
  <2>4. related' \in BOOLEAN /\ search' \in BOOLEAN /\ filled' \in BOOLEAN
    BY <1>1 DEF TypesOfPages
  <2>5. TypesOfPages' /\ UnderWay' /\ ListsInv' /\ run'.on = "list"
    BY <1>1, <1>4, <2>1, <2>2, <2>3, <2>4, ListOpens
  <2> QED BY <1>5, <2>5 DEF SavesOfTypes, T!ServiceTypePagesAssumption
<1>7. CASE ~(run.ok /\ page.at \in {"details", "admin list"} /\ run.live)
  <2>1. run' = T!Idle /\ (UNCHANGED page \/ (page.at = "details" /\ T!Phase("failed")))
    BY <1>7 DEF T!Deleted
  <2>2. page' \in PagesOfTypes /\ page'.at = page.at /\ page'.id = page.id
    BY <2>1, PhaseKept DEF TypesOfPages
  <2>3. TypesOfPages'
    BY <1>1, <1>4, <2>1, <2>2, IdleCall DEF TypesOfPages, SavesOfTypes, T!Decisions
  <2>4. UnderWay'
    BY <1>1, <2>1, <2>2, IdleCall DEF UnderWay
  <2>5. ListsInv'
    <3> SUFFICES ASSUME others = 0, page.at \in T!Lists, page'.phase = "ready"
                 PROVE  arrays'["approved"] = T!WithStatus("approved")
      BY <1>1, <2>1, <2>2, IdleCall DEF ListsInv, HasApproved, T!WithStatus
    <3>1. page.at = "admin list" /\ run.live /\ ~run.ok
      BY <1>1, <1>7 DEF UnderWay
    <3>2. UNCHANGED page /\ UNCHANGED arrays
      BY <1>3, <2>1, <3>1
    <3> QED BY <1>1, <3>1, <3>2 DEF ListsInv, HasApproved
  <2> QED BY <1>5, <2>1, <2>3, <2>4, <2>5, IdleCall DEF SavesOfTypes, T!ServiceTypePagesAssumption
<1> QED BY <1>6, <1>7

\* What a form that is sent does in the zome.
LEMMA SavesIs ==
  ASSUME T!ServiceTypePagesAssumption, TypesOfPages, page.at \in SavesOfTypes, NEW t \in Types, T!Sends(t), T!Saves(t)
  PROVE  /\ zome' \in [Types -> [status : T!Statuses \cup {"none", "gone"}, rev : 0 .. MaxEdits]]
         /\ \A u \in Types \ {t} : zome'[u] = zome[u]
         /\ zome'[t].status \in T!Statuses
         /\ page.at = "suggest" => zome'[t].status = "pending"
         /\ ~T!There(t) \/ zome'[t].rev # 0
<1>1. zome \in [Types -> [status : T!Statuses \cup {"none", "gone"}, rev : 0 .. MaxEdits]]
  BY DEF TypesOfPages
<1>2. 0 \in 0 .. MaxEdits /\ MaxEdits \in Nat
  BY TypeBounds
<1>3. CASE page.at = "create"
  <2>1. zome' = [zome EXCEPT ![t] = [status |-> "approved", rev |-> 0]] /\ zome[t] = T!None
    BY <1>3 DEF T!Saves, T!Sends
  <2> QED BY <1>1, <1>2, <1>3, <2>1 DEF T!None, T!There, T!Statuses
<1>4. CASE page.at = "suggest"
  <2>1. zome' = [zome EXCEPT ![t] = [status |-> "pending", rev |-> 0]] /\ zome[t] = T!None
    BY <1>4 DEF T!Saves, T!Sends
  <2> QED BY <1>1, <1>2, <2>1 DEF T!None, T!There, T!Statuses
<1>5. CASE page.at = "edit"
  <2>1. PICK z : z = [status |-> zome[t].status, rev |-> zome[t].rev + 1]
    OBVIOUS
  <2>2. zome' = [zome EXCEPT ![t] = z] /\ zome[t].status \in T!Statuses /\ zome[t].rev < MaxEdits
    BY <1>5, <2>1 DEF T!Saves, T!Sends, T!There
  <2>3. zome[t].rev \in 0 .. MaxEdits
    BY <1>1
  <2>4. zome[t].rev + 1 \in 0 .. MaxEdits /\ zome[t].rev + 1 # 0
    BY <1>2, <2>2, <2>3
  <2>5. z \in [status : T!Statuses \cup {"none", "gone"}, rev : 0 .. MaxEdits] /\ z.status \in T!Statuses /\ z.rev # 0
    BY <2>1, <2>2, <2>4
  <2> QED BY <1>1, <1>5, <2>2, <2>5
<1> QED BY <1>3, <1>4, <1>5 DEF SavesOfTypes

\* A form is sent.
LEMMA SubmitStepOfTypes ==
  ASSUME TypesInv, NEW t \in Types, T!Submit(t)
  PROVE  TypesInv'
<1> USE DEF TypesInv
<1>1. /\ run = T!Idle /\ run.on = "idle" /\ T!Sends(t) /\ page.at \in SavesOfTypes
      /\ UNCHANGED <<arrays, cache, T!shownVars, others>>
  BY IdleCall DEF T!Submit, T!FormShown, T!TypeFormShown, T!SuggestionShown, SavesOfTypes
<1>2. PICK ok \in BOOLEAN : T!Calls(page.at, t, ok) /\ (IF ok THEN T!Saves(t) ELSE UNCHANGED zome)
  BY DEF T!Submit
<1>3. PICK on \in SavesOfTypes \cup T!Decisions : on = page.at
  BY <1>1
<1>4. run' \in CallsOfTypes /\ run'.on = on /\ run'.id = <<t, 0>> /\ run'.ok = ok /\ run'.live = TRUE
  BY <1>2, <1>3, CallsIs
<1>5. failures' \in 0 .. MaxFailures
  BY FailureOfTypes DEF T!Submit
<1>6. /\ zome' \in [Types -> [status : T!Statuses \cup {"none", "gone"}, rev : 0 .. MaxEdits]]
      /\ \A u \in Types \ {t} : zome'[u] = zome[u]
      /\ IF ok THEN /\ zome'[t].status \in T!Statuses /\ (page.at = "suggest" => zome'[t].status = "pending")
                    /\ ~T!There(t) \/ zome'[t].rev # 0
         ELSE UNCHANGED zome
  BY <1>1, <1>2, SavesIs DEF TypesOfPages
<1>7. on \notin {"list", "table", "get", "related", "delete", "idle"} /\ on \notin T!Decisions
  BY <1>1, <1>3 DEF SavesOfTypes, T!Decisions
<1>8. on \in {"create", "edit"} => Admin
  BY <1>3, PagesAre, TypeBounds DEF TypesOfPages
<1>9. TypesOfPages'
  BY <1>1, <1>4, <1>5, <1>6, <1>7, <1>8 DEF TypesOfPages, T!shownVars
<1>10. page.at \notin T!Lists
  BY <1>1 DEF SavesOfTypes, T!Lists
<1>11. UnderWay'
  BY <1>1, <1>4, <1>7, <1>10 DEF UnderWay, T!shownVars
<1>12. ListsInv'
  BY <1>1, <1>4, <1>7, <1>10, AwayFromLists DEF T!shownVars
<1>13. ArraysInv'
  <2> SUFFICES ASSUME others = 0, NEW u \in Types
               PROVE  /\ \A s \in T!Statuses : u \in arrays[s] => T!There(u)'
                      /\ u \in arrays["pending"] /\ zome'[u].rev = 0 => zome'[u].status = "pending"
                      /\ ok /\ u = t => T!There(u)' /\ (page.at = "suggest" => zome'[u].status = "pending")
    BY <1>1, <1>3, <1>4, <1>7 DEF ArraysInv, SavedNow
  <2>1. ~DecidedOn(u)
    BY <1>1 DEF DecidedOn, T!Decisions
  <2>2. /\ \A s \in T!Statuses : u \in arrays[s] => T!There(u)
        /\ u \in arrays["pending"] /\ zome[u].rev = 0 => zome[u].status = "pending"
    BY <2>1 DEF ArraysInv
  <2>3. CASE ok /\ u = t
    BY <1>6, <2>2, <2>3 DEF T!There, T!Statuses
  <2>4. CASE ~(ok /\ u = t)
    BY <1>6, <2>2, <2>4 DEF T!There
  <2> QED BY <2>3, <2>4
<1> QED BY <1>9, <1>11, <1>12, <1>13 DEF T!ServiceTypePagesAssumption

\* What is saved is kept in one array.
LEMMA KeptOfType ==
  ASSUME T!ServiceTypePagesAssumption, TypesOfPages, NEW t \in Types, NEW state \in T!Statuses, T!Kept(t, state)
  PROVE  /\ arrays' \in [T!Statuses -> SUBSET Types] /\ cache' \in [T!Hashes -> Entries]
         /\ \A s \in T!Statuses : arrays'[s] \subseteq arrays[s] \cup {t}
         /\ \A s \in T!Statuses : s # state => t \notin arrays'[s]
<1>1. [status |-> state, rev |-> zome[t].rev] \in Entries
  BY DEF TypesOfPages, Entries
<1>2. PICK e \in Entries : e = [status |-> state, rev |-> zome[t].rev]
  BY <1>1
<1>3. cache' = [cache EXCEPT ![<<t, 0>>] = e]
  BY <1>2 DEF T!Kept
<1>4. arrays' = [s \in T!Statuses |-> IF s = state THEN arrays[s] \cup {t} ELSE arrays[s] \ {t}]
  BY DEF T!Kept
<1>5. arrays' \in [T!Statuses -> SUBSET Types]
  BY <1>4 DEF TypesOfPages
<1>6. \A s \in T!Statuses : arrays'[s] \subseteq arrays[s] \cup {t} /\ (s # state => t \notin arrays'[s])
  BY <1>4
<1> QED BY <1>3, <1>5, <1>6 DEF TypesOfPages

\* The arrays, when what was saved is kept.
LEMMA ArraysWithSaved ==
  ASSUME TypesInv, NEW t \in Types, NEW state \in T!Statuses, T!Kept(t, state), run.id = <<t, 0>>, run.ok, run.on \in SavesOfTypes,
         state = "pending" => run.on = "suggest", run'.on \notin SavesOfTypes, UNCHANGED <<zome, others>>
  PROVE  ArraysInv'
<1> USE DEF TypesInv
<1> SUFFICES ASSUME others = 0, NEW u \in Types
             PROVE  /\ \A s \in T!Statuses : u \in arrays'[s] => T!There(u)
                    /\ u \in arrays'["pending"] /\ zome[u].rev = 0 => zome[u].status = "pending"
  BY DEF ArraysInv, T!There, SavedNow
<1>1. ~DecidedOn(u) /\ (u = t => SavedNow(u))
  BY DEF DecidedOn, T!Decisions, SavedNow, SavesOfTypes
<1>2. /\ \A s \in T!Statuses : arrays'[s] \subseteq arrays[s] \cup {t}
      /\ \A s \in T!Statuses : s # state => t \notin arrays'[s]
  BY KeptOfType
<1>3. /\ \A s \in T!Statuses : u \in arrays[s] => T!There(u)
      /\ u \in arrays["pending"] /\ zome[u].rev = 0 => zome[u].status = "pending"
      /\ u = t => T!There(u) /\ (run.on = "suggest" => zome[u].status = "pending")
  BY <1>1 DEF ArraysInv
<1>4. "pending" \in T!Statuses
  BY DEF T!Statuses
<1> QED BY <1>2, <1>3, <1>4

\* What was suggested is among the pending, and the form is empty.
LEMMA SuggestedStepOfTypes ==
  ASSUME TypesInv, T!Suggested
  PROVE  TypesInv'
<1> USE DEF TypesInv
<1>1. /\ run.on = "suggest" /\ run \in CallsOfTypes /\ run' = T!Idle /\ filled' = (filled /\ ~(run.ok /\ run.live))
      /\ UNCHANGED <<zome, page, related, search, others, failures>>
  BY DEF T!Suggested, TypesOfPages
<1>2. PICK t \in Types : run.id = <<t, 0>> /\ run.id[1] = t
  BY <1>1, ChangeIs DEF SavesOfTypes
<1>3. PICK state \in T!Statuses : state = "pending"
  BY DEF T!Statuses
<1>4. IF run.ok THEN T!Kept(t, state) ELSE UNCHANGED <<arrays, cache>>
  BY <1>2, <1>3 DEF T!Suggested
<1>5. arrays' \in [T!Statuses -> SUBSET Types] /\ cache' \in [T!Hashes -> Entries]
  BY <1>4, KeptOfType DEF TypesOfPages
<1>6. filled' \in BOOLEAN
  BY <1>1
<1>7. TypesOfPages'
  BY <1>1, <1>5, <1>6, IdleCall DEF TypesOfPages, SavesOfTypes, T!Decisions
<1>8. page.at \notin T!Lists
  BY <1>1 DEF UnderWay
<1>9. UnderWay'
  BY <1>1, <1>8, IdleCall DEF UnderWay
<1>10. ListsInv'
  BY <1>1, <1>8, IdleCall, AwayFromLists
<1>11. ArraysInv'
  <2>1. CASE run.ok
    BY <1>1, <1>2, <1>3, <1>4, <2>1, IdleCall, ArraysWithSaved DEF SavesOfTypes
  <2>2. CASE ~run.ok
    BY <1>1, <1>4, <2>2, IdleCall, ArraysKept DEF SavesOfTypes
  <2> QED BY <2>1, <2>2
<1> QED BY <1>7, <1>9, <1>10, <1>11 DEF T!ServiceTypePagesAssumption

\* What was created or edited is among the approved, and the list loads.
LEMMA SavedStepOfTypes ==
  ASSUME TypesInv, T!Saved
  PROVE  TypesInv'
<1> USE DEF TypesInv
<1>1. /\ run.on \in {"create", "edit"} /\ run \in CallsOfTypes
      /\ UNCHANGED <<zome, others, failures>>
  BY DEF T!Saved, TypesOfPages
<1>2. PICK t \in Types : run.id = <<t, 0>> /\ run.id[1] = t
  BY <1>1, ChangeIs DEF SavesOfTypes
<1>3. CASE run.ok
  <2>1. PICK state \in T!Statuses : state = "approved"
    BY DEF T!Statuses
  <2>2. /\ T!Kept(t, state) /\ page' = [T!Page("admin list") EXCEPT !.phase = "loading"]
        /\ run' = T!Asking("list", T!ListNeeds, 0, TRUE) /\ related' = FALSE /\ search' = FALSE /\ filled' = FALSE
    BY <1>2, <1>3, <2>1 DEF T!Saved
  <2>3. arrays' \in [T!Statuses -> SUBSET Types] /\ cache' \in [T!Hashes -> Entries]
    BY <2>2, KeptOfType
  <2>4. Admin
    BY <1>1 DEF TypesOfPages
  <2>5. TypesOfPages' /\ UnderWay' /\ ListsInv' /\ run'.on = "list"
    BY <1>1, <2>2, <2>3, <2>4, ListOpens
  <2>6. ArraysInv'
    BY <1>1, <1>2, <1>3, <2>1, <2>2, <2>5, ArraysWithSaved DEF SavesOfTypes
  <2> QED BY <2>5, <2>6 DEF T!ServiceTypePagesAssumption
<1>4. CASE ~run.ok
  <2>1. run' = T!Idle /\ UNCHANGED <<arrays, cache, T!shownVars>>
    BY <1>4 DEF T!Saved
  <2>2. TypesOfPages'
    BY <1>1, <2>1, IdleCall DEF TypesOfPages, SavesOfTypes, T!Decisions, T!shownVars
  <2>3. page.at \notin T!Lists
    BY <1>1 DEF UnderWay
  <2>4. UnderWay'
    BY <1>1, <2>1, <2>3, IdleCall DEF UnderWay, T!shownVars
  <2>5. ListsInv'
    BY <2>1, <2>3, IdleCall, AwayFromLists DEF T!shownVars
  <2>6. ArraysInv'
    BY <1>1, <1>4, <2>1, IdleCall, ArraysKept DEF SavesOfTypes
  <2> QED BY <2>2, <2>4, <2>5, <2>6 DEF T!ServiceTypePagesAssumption
<1> QED BY <1>3, <1>4

\* Others suggest a type, or decide.
LEMMA OthersActStepOfTypes ==
  ASSUME TypesInv, T!OthersAct
  PROVE  TypesInv'
<1> USE DEF TypesInv
<1>1. others' = others + 1 /\ others < MaxOthers /\ UNCHANGED <<arrays, cache, T!shownVars, run, failures>>
  BY DEF T!OthersAct
<1>2. others' \in 0 .. MaxOthers /\ others' # 0
  <2>1. others \in 0 .. MaxOthers /\ MaxOthers \in Nat
    BY TypeBounds DEF TypesOfPages
  <2> QED BY <1>1, <2>1
<1>3. zome' \in [Types -> [status : T!Statuses \cup {"none", "gone"}, rev : 0 .. MaxEdits]]
  <2>1. PICK t \in Types : \/ zome' = [zome EXCEPT ![t].status = "pending"]
                           \/ \E d \in T!Decisions : T!Decides(d, t)
    BY DEF T!OthersAct
  <2>2. CASE zome' = [zome EXCEPT ![t].status = "pending"]
    BY <2>2 DEF TypesOfPages, T!Statuses
  <2>3. CASE \E d \in T!Decisions : T!Decides(d, t)
    BY <2>3, DecidesOnType
  <2> QED BY <2>1, <2>2, <2>3
<1>4. TypesOfPages'
  BY <1>1, <1>2, <1>3 DEF TypesOfPages, T!shownVars
<1>5. UnderWay' /\ ListsInv' /\ ArraysInv'
  BY <1>1, <1>2 DEF UnderWay, ListsInv, ArraysInv, T!shownVars
<1> QED BY <1>4, <1>5 DEF T!ServiceTypePagesAssumption

\* A page is visited.
LEMMA VisitStepOfTypes ==
  ASSUME TypesInv, T!Visit
  PROVE  TypesInv'
<1>1. PICK at \in T!Pages : page.at # at /\ T!Open(T!Page(at)) /\ UNCHANGED <<zome, arrays, cache, others, failures>>
  BY DEF T!Visit
<1>2. PICK p : p = T!Page(at)
  OBVIOUS
<1>3. p \in PagesOfTypes /\ p.at = at
  BY <1>1, <1>2, PagesAre DEF T!Page, PagesOfTypes
<1>4. at \notin {"public details", "details", "edit"}
  BY PagesAre
<1> QED BY <1>1, <1>2, <1>3, <1>4, OpenStepOfTypes

\* A page of one type is opened.
LEMMA OpenOfOne ==
  ASSUME TypesInv, NEW at \in T!PagesOfOne, NEW h \in T!Hashes, T!Open(T!PageOf(at, h)), UNCHANGED <<zome, arrays, cache, others, failures>>
  PROVE  TypesInv'
<1>1. PICK p : p = T!PageOf(at, h)
  OBVIOUS
<1>2. at \in {"public details", "details", "edit"}
  BY PagesAre
<1>3. p \in PagesOfTypes /\ p.at = at /\ p.id = h
  BY <1>1, <1>2 DEF T!PageOf, PagesOfTypes
<1> QED BY <1>1, <1>3, OpenStepOfTypes

\* A list shows types there are, and names them by their latest record.
LEMMA ListedIs ==
  ASSUME TypesInv, NEW t \in Types
  PROVE  <<t, zome[t].rev>> \in T!Hashes /\ <<t, 0>> \in T!Hashes
BY TypeBounds DEF TypesInv, TypesOfPages

\* A page of one type is opened from a list, or by its address.
LEMMA PageOfOneStep ==
  ASSUME TypesInv, NEW t \in Types, T!HandleView(t) \/ T!HandleEdit(t) \/ T!VisitAddress(t)
  PROVE  TypesInv'
<1>1. PICK h \in T!Hashes : h = <<t, zome[t].rev>>
  BY ListedIs
<1>2. PICK g \in T!Hashes : g = <<t, 0>>
  BY ListedIs
<1>3. CASE T!HandleView(t)
  <2>1. \E at \in T!PagesOfOne : T!Open(T!PageOf(at, h)) /\ UNCHANGED <<zome, arrays, cache, others, failures>>
    BY <1>1, <1>3 DEF T!HandleView
  <2> QED BY <2>1, OpenOfOne
<1>4. CASE T!VisitAddress(t)
  <2>1. \E at \in T!PagesOfOne : T!Open(T!PageOf(at, g)) /\ UNCHANGED <<zome, arrays, cache, others, failures>>
    BY <1>2, <1>4 DEF T!VisitAddress
  <2> QED BY <2>1, OpenOfOne
<1>5. CASE T!HandleEdit(t)
  <2>1. page.at \in {"admin list", "details"}
    BY <1>5 DEF T!HandleEdit, T!AdminDetailsShown
  <2>2. Admin
    BY <2>1, TypeBounds, PagesAre DEF TypesInv, TypesOfPages
  <2>3. PICK at \in T!PagesOfOne : at = "edit"
    BY <2>2 DEF T!PagesOfOne
  <2>4. CASE page.at = "admin list"
    <3>1. T!Open(T!PageOf(at, h)) /\ UNCHANGED <<zome, arrays, cache, others, failures>>
      BY <1>1, <1>5, <2>3, <2>4 DEF T!HandleEdit, T!AdminDetailsShown
    <3> QED BY <3>1, OpenOfOne
  <2>5. CASE page.at = "details"
    <3>1. PICK i \in T!Hashes : i = page.id
      BY <2>5 DEF TypesInv, TypesOfPages
    <3>2. T!Open(T!PageOf(at, i)) /\ UNCHANGED <<zome, arrays, cache, others, failures>>
      BY <1>5, <2>3, <2>5, <3>1 DEF T!HandleEdit, T!AdminDetailsShown
    <3> QED BY <3>2, OpenOfOne
  <2> QED BY <2>1, <2>4, <2>5
<1> QED BY <1>3, <1>4, <1>5

\* At first nothing is shown and nothing is under way.
LEMMA TypesInit ==
  ASSUME T!ServiceTypePagesAssumption, T!Init
  PROVE  TypesInv
<1>1. /\ zome \in [Types -> {T!None} \cup [status : T!Statuses, rev : {0}]] /\ arrays = [s \in T!Statuses |-> {}]
      /\ cache = [h \in T!Hashes |-> T!Unknown] /\ page = T!Page("elsewhere")
      /\ related = FALSE /\ search = FALSE /\ filled = FALSE /\ run = T!Idle /\ others = 0 /\ failures = 0
  BY DEF T!Init
<1>2. 0 \in 0 .. MaxEdits /\ 0 \in 0 .. MaxOthers /\ 0 \in 0 .. MaxFailures /\ T!Unknown \in Entries
  BY TypeBounds DEF T!Unknown, Entries
<1>3. \A t \in Types : zome[t] \in [status : T!Statuses \cup {"none", "gone"}, rev : 0 .. MaxEdits]
  BY <1>1, <1>2 DEF T!None
<1>4. page \in PagesOfTypes /\ page.at = "elsewhere"
  BY <1>1 DEF T!Page, PagesOfTypes
<1>5. TypesOfPages
  BY <1>1, <1>2, <1>3, <1>4, IdleCall, PagesAre DEF TypesOfPages, SavesOfTypes, T!Decisions
<1>6. UnderWay /\ ListsInv
  BY <1>1, <1>4, IdleCall DEF UnderWay, ListsInv, T!Lists
<1>7. ArraysInv
  BY <1>1, IdleCall DEF ArraysInv, SavedNow, SavesOfTypes, T!Statuses
<1> QED BY <1>5, <1>6, <1>7 DEF TypesInv

\* A search or a form is written, or the cache forgets.
LEMMA WrittenStep ==
  ASSUME TypesInv, T!HandleSearch \/ T!WriteForm \/ (\E h \in T!Hashes : T!CacheExpires(h)) \/ UNCHANGED T!typesVars
  PROVE  TypesInv'
<1>1. T!Unknown \in Entries
  BY TypeBounds DEF TypesInv, T!Unknown, Entries
<1>2. related \in BOOLEAN /\ search \in BOOLEAN /\ filled \in BOOLEAN /\ cache \in [T!Hashes -> Entries]
  BY DEF TypesInv, TypesOfPages
<1>3. CASE T!HandleSearch
  <2>1. search' = ~search /\ UNCHANGED <<zome, arrays, cache, page, related, filled, run, others, failures>>
    BY <1>3 DEF T!HandleSearch
  <2>2. search' \in BOOLEAN
    BY <2>1
  <2> QED BY <1>2, <2>1, <2>2, QuietStepOfTypes
<1>4. CASE T!WriteForm
  BY <1>2, <1>4, QuietStepOfTypes DEF T!WriteForm, T!FormShown, T!TypeFormShown, T!SuggestionShown, SavesOfTypes
<1>5. CASE \E h \in T!Hashes : T!CacheExpires(h)
  BY <1>1, <1>2, <1>5, QuietStepOfTypes DEF T!CacheExpires, T!shownVars
<1>6. CASE UNCHANGED T!typesVars
  BY <1>2, <1>6, QuietStepOfTypes DEF T!typesVars
<1> QED BY <1>3, <1>4, <1>5, <1>6

\* Every step keeps the invariant.
LEMMA TypesNext ==
  ASSUME TypesInv, [T!Next]_(T!typesVars)
  PROVE  TypesInv'
<1>1. CASE T!Visit \/ T!RelatedAnswered \/ T!LoadAgain \/ T!Answered \/ T!LoadFails \/ T!GetAnswered
  BY <1>1, VisitStepOfTypes, RelatedAnsweredStep, LoadAgainStep, AnsweredStep, LoadFailsStepOfTypes, GetAnsweredStep
<1>2. CASE T!Decided \/ T!Deleted \/ T!Suggested \/ T!Saved \/ T!OthersAct
  BY <1>2, DecidedStepOfTypes, DeletedStep, SuggestedStepOfTypes, SavedStepOfTypes, OthersActStepOfTypes
<1>3. CASE T!HandleSearch \/ T!WriteForm \/ (\E h \in T!Hashes : T!CacheExpires(h)) \/ UNCHANGED T!typesVars
  BY <1>3, WrittenStep
<1>4. CASE \E t \in Types : T!HandleView(t) \/ T!HandleEdit(t) \/ T!VisitAddress(t) \/ T!ShowTag(t) \/ T!Submit(t)
  BY <1>4, PageOfOneStep, ShowTagStepOfTypes, SubmitStepOfTypes
<1>5. CASE \E t \in Types, d \in T!Decisions : T!Decide(d, t)
  BY <1>5, DecideStepOfTypes
<1> QED BY <1>1, <1>2, <1>3, <1>4, <1>5 DEF T!Next

\* The invariant holds throughout.
LEMMA TypesInvariance == T!ServiceTypePagesAssumption /\ T!Spec => []TypesInv
<1> SUFFICES ASSUME T!ServiceTypePagesAssumption
             PROVE  T!Spec => []TypesInv
  OBVIOUS
<1>1. T!Init => TypesInv
  BY TypesInit
<1>2. TypesInv /\ [T!Next]_(T!typesVars) => TypesInv'
  BY TypesNext
<1> QED BY <1>1, <1>2, PTL DEF T!Spec

\* The variables hold what they should.
LEMMA TypesOKOfPages ==
  ASSUME TypesInv
  PROVE  T!TypeOK
<1>1. \A b \in {related, search, filled, run.ok, run.live} : b \in BOOLEAN
  BY DEF TypesInv, TypesOfPages, CallsOfTypes
<1>2. page.at \in T!Pages \cup T!PagesOfOne /\ page.phase \in {"loading", "ready", "failed"}
  BY DEF TypesInv, TypesOfPages, PagesOfTypes
<1>3. run.on \in {"idle", "list", "table", "get", "related", "create", "suggest", "edit"} \cup T!Decisions
  BY DEF TypesInv, TypesOfPages, CallsOfTypes, SavesOfTypes
<1>4. /\ \A t \in Types : zome[t].status \in T!Statuses \cup {"none", "gone"} /\ zome[t].rev \in 0 .. MaxEdits
      /\ \A s \in T!Statuses : arrays[s] \subseteq Types
      /\ others \in 0 .. MaxOthers /\ failures \in 0 .. MaxFailures
  BY DEF TypesInv, TypesOfPages
<1> QED BY <1>1, <1>2, <1>3, <1>4 DEF T!TypeOK

\* Of the pages of the service types.
THEOREM ServiceTypePagesTypesHold == T!ServiceTypePagesAssumption /\ T!Spec => []T!TypeOK
<1>1. TypesInv => T!TypeOK
  BY TypesOKOfPages
<1> QED BY <1>1, TypesInvariance, PTL

\* To a user who is alone, a list that is ready and has not failed shows the types
\* that are approved, and no others, whatever was decided, edited, deleted or failed
\* before (useServiceTypesManagement.svelte.ts:80-94, 114-168).
THEOREM TypesListTheApproved == T!ServiceTypePagesAssumption /\ T!Spec => []T!ListsTheApproved
<1>1. TypesInv => T!ListsTheApproved
  BY IdleCall DEF TypesInv, ListsInv, HasApproved, T!ListsTheApproved, T!Filtered
<1> QED BY <1>1, TypesInvariance, PTL

\* The decisions that the moderation table offers.
LEMMA OfferedIs ==
  ASSUME TypesInv
  PROVE  T!OfferedSucceeds
<1> SUFFICES ASSUME others = 0, run = T!Idle, NEW t \in Types, NEW d \in T!OfferedInTable(t), zome[t].rev = 0
             PROVE  T!Succeeds(d, t)
  BY DEF T!OfferedSucceeds
<1>1. ~DecidedOn(t)
  BY IdleCall DEF TypesInv, DecidedOn, T!Decisions
<1>2. \A s \in T!Statuses : t \in arrays[s] => T!There(t)
  BY <1>1 DEF TypesInv, ArraysInv
<1>3. t \in arrays["pending"] => zome[t].status = "pending"
  BY <1>1 DEF TypesInv, ArraysInv
<1>4. \/ t \in arrays["pending"] /\ d # "delete"
      \/ t \in arrays["approved"] /\ d = "delete"
      \/ t \in arrays["rejected"] /\ d # "reject"
  BY DEF T!OfferedInTable, T!Tabled
<1>5. T!There(t)
  BY <1>2, <1>4 DEF T!Statuses
<1>6. d = "reject" => zome[t].status = "pending"
  BY <1>3, <1>4
<1> QED BY <1>5, <1>6 DEF T!Succeeds

\* Every decision that the moderation table offers to an administrator who is alone
\* and waits for the last one is one that the zome accepts
\* (ServiceTypeModerationTable.svelte:107-156).
THEOREM TypesOfferedSucceed == T!ServiceTypePagesAssumption /\ T!Spec => []T!OfferedSucceeds
<1>1. TypesInv => T!OfferedSucceeds
  BY OfferedIs
<1> QED BY <1>1, TypesInvariance, PTL

\* What was written stays while the page does, but for a suggestion that was saved.
LEMMA WrittenIsKept ==
  ASSUME TypesInv, [T!Next]_(T!typesVars)
  PROVE  T!FailedIsKept
<1> USE DEF TypesInv
<1> SUFFICES ASSUME filled, ~filled', page'.at = page.at, page'.id = page.id
             PROVE  run.on = "suggest" /\ run.ok
  BY DEF T!FailedIsKept
<1>1. page.at \in SavesOfTypes
  BY DEF UnderWay
<1>2. /\ ~T!Answered /\ ~T!LoadFails /\ ~T!RelatedAnswered /\ ~T!LoadAgain /\ ~T!HandleSearch /\ ~T!Decided /\ ~T!Deleted /\ ~T!WriteForm
      /\ ~T!OthersAct /\ ~UNCHANGED T!typesVars
  BY DEF T!Answered, T!LoadFails, T!RelatedAnswered, T!LoadAgain, T!HandleSearch, T!Decided, T!Deleted, T!WriteForm, T!OthersAct, T!shownVars, T!typesVars
<1>3. \A t \in Types : ~T!ShowTag(t) /\ ~T!Submit(t) /\ \A d \in T!Decisions : ~T!Decide(d, t)
  BY DEF T!ShowTag, T!Submit, T!Decide, T!shownVars
<1>4. \A h \in T!Hashes : ~T!CacheExpires(h)
  BY DEF T!CacheExpires, T!shownVars
<1>5. ASSUME NEW p, T!Open(p), p.at # page.at \/ p.id # page.id
      PROVE  FALSE
  <2>1. page' = IF p.at \in T!Lists THEN [p EXCEPT !.phase = "loading"] ELSE p
    BY <1>5 DEF T!Open
  <2>2. p.at \in T!Lists => page.at # p.at
    BY <1>1 DEF T!Lists, SavesOfTypes
  <2> QED BY <1>5, <2>1, <2>2
<1>6. ~T!Visit
  BY <1>5 DEF T!Visit, T!Page
<1>7. \A t \in Types : ~T!VisitAddress(t)
  BY <1>5 DEF T!VisitAddress, T!PageOf
<1>8. \A t \in Types : ~T!HandleView(t) /\ ~T!HandleEdit(t)
  BY <1>1 DEF T!HandleView, T!HandleEdit, T!Listed, T!AdminDetailsShown, T!Lists, SavesOfTypes
<1>9. ~T!GetAnswered
  <2> SUFFICES ASSUME T!GetAnswered
               PROVE  FALSE
    OBVIOUS
  <2>1. run.live /\ filled' = (page.at = "edit") /\ run.on = "get"
    BY DEF T!GetAnswered
  <2> QED BY <1>1, <2>1 DEF UnderWay, SavesOfTypes
<1>10. ~T!Saved
  <2> SUFFICES ASSUME T!Saved
               PROVE  FALSE
    OBVIOUS
  <2>1. page' = [T!Page("admin list") EXCEPT !.phase = "loading"]
    BY DEF T!Saved, T!shownVars
  <2> QED BY <1>1, <2>1 DEF T!Page, SavesOfTypes
<1>11. CASE T!Suggested
  BY <1>11 DEF T!Suggested
<1> QED BY <1>2, <1>3, <1>4, <1>6, <1>7, <1>8, <1>9, <1>10, <1>11 DEF T!Next

\* A form loses what was written only when that was saved, or the page is left
\* (useServiceTypeFormManagement.svelte.ts:108-140).
THEOREM TypeFormsKeepFailed == T!ServiceTypePagesAssumption /\ T!Spec => [][T!FailedIsKept]_(T!typesVars)
<1>1. TypesInv /\ [T!Next]_(T!typesVars) => [T!FailedIsKept]_(T!typesVars)
  BY WrittenIsKept
<1> QED BY <1>1, TypesInvariance, PTL DEF T!Spec

-----------------------------------------------------------------------------
(* The moderation pages: what the variables hold. *)

FetchOps == {"load", "refresh", "fetch"}
RunOps == FetchOps \cup {"none", "decide", "update", "status", "administrators", "add", "remove"}
RunsOfBoard ==
  [op : RunOps, of : SUBSET B!Entities, to : B!Statuses \cup {"none"}, kinds : SUBSET B!Kinds, rest : SUBSET B!Entities,
   answer : [B!Entities -> B!Shown], stage : {"sent", "stored", "done"}]
BarsOfBoard ==
  [of : SUBSET B!Entities, held : B!Shown \cup {"none"}, shared : BOOLEAN,
   on : {"none", "dashboard", "users", "organizations", "administrators"}]

BoardTypes ==
  /\ status \in [B!Entities -> B!Statuses] /\ listed \in (SUBSET Users) \ {{}}
  /\ all \in [B!Entities -> B!Shown] /\ board \in [B!Entities -> B!Shown]
  /\ administrators \subseteq Users /\ nonAdministrators \subseteq Users
  /\ bar \in BarsOfBoard /\ shared \subseteq B!Kinds /\ mounted \in BOOLEAN
  /\ runs \in [Callers -> RunsOfBoard]
  /\ \A c \in Callers : /\ runs[c].op = "none" => runs[c] = B!NoRun
                        /\ runs[c].op \in {"decide", "update"} => runs[c].to \in B!Statuses
                        /\ runs[c].op \in {"administrators", "add"} => runs[c].of \subseteq Users
  /\ DOMAIN fetchedBy = B!Kinds
  /\ decisions \in 0 .. MaxDecisions /\ failures \in 0 .. MaxFailures /\ others \in 0 .. MaxOthers

BoardInv == B!ModerationAssumption /\ BoardTypes

\* The kinds, and the entities of each.
LEMMA KindsAre ==
  /\ \A k \in B!Kinds : B!Of(k) \subseteq B!Entities
  /\ \A e \in B!Entities : B!KindOf(e) \in B!Kinds /\ e \in B!Of(B!KindOf(e))
BY DEF B!Kinds, B!Of, B!KindOf, B!Entities

\* The entities of some kinds, and an answer that has nothing yet.
AllOf(ks) == UNION {B!Of(k) : k \in ks}
NoAnswer == [e \in B!Entities |-> "absent"]

\* Nobody calls.
LEMMA NoRunOfBoard ==
  B!NoRun \in RunsOfBoard /\ B!NoRun.op = "none"
<1>1. [e \in B!Entities |-> "absent"] \in [B!Entities -> B!Shown]
  BY DEF B!Shown
<1>2. PICK a \in [B!Entities -> B!Shown] : a = [e \in B!Entities |-> "absent"]
  BY <1>1
<1>3. B!NoRun = [op |-> "none", of |-> {}, to |-> "none", kinds |-> {}, rest |-> {}, answer |-> a, stage |-> "sent"]
  BY <1>2 DEF B!NoRun, B!Run
<1> QED BY <1>3 DEF RunsOfBoard, RunOps

\* A call that begins.
LEMMA RunOfBoard ==
  ASSUME NEW op \in RunOps, NEW of \in SUBSET B!Entities, NEW to \in B!Statuses \cup {"none"},
         NEW kinds \in SUBSET B!Kinds, NEW rest \in SUBSET B!Entities
  PROVE  /\ B!Run(op, of, to, kinds, rest) \in RunsOfBoard
         /\ B!Run(op, of, to, kinds, rest).op = op /\ B!Run(op, of, to, kinds, rest).of = of /\ B!Run(op, of, to, kinds, rest).to = to
         /\ B!Run(op, of, to, kinds, rest).kinds = kinds /\ B!Run(op, of, to, kinds, rest).rest = rest
         /\ B!Run(op, of, to, kinds, rest).stage = "sent"
         /\ B!Run(op, of, to, kinds, rest).answer = NoAnswer
<1>1. NoAnswer \in [B!Entities -> B!Shown]
  BY DEF B!Shown, NoAnswer
<1>2. PICK a \in [B!Entities -> B!Shown] : a = NoAnswer
  BY <1>1
<1>3. B!Run(op, of, to, kinds, rest) = [op |-> op, of |-> of, to |-> to, kinds |-> kinds, rest |-> rest, answer |-> a, stage |-> "sent"]
  BY <1>2 DEF B!Run, NoAnswer
<1> QED BY <1>2, <1>3 DEF RunsOfBoard

\* A fetch that begins.
LEMMA FetchIs ==
  ASSUME NEW op \in FetchOps, NEW of \in SUBSET B!Entities, NEW ks \in SUBSET B!Kinds
  PROVE  /\ B!Fetch(op, of, ks) \in RunsOfBoard
         /\ B!Fetch(op, of, ks).op = op /\ B!Fetch(op, of, ks).of = of /\ B!Fetch(op, of, ks).kinds = ks
         /\ B!Fetch(op, of, ks).rest = AllOf(ks)
         /\ B!Fetch(op, of, ks).answer = NoAnswer
<1>1. AllOf(ks) \in SUBSET B!Entities
  BY KindsAre DEF AllOf
<1>2. PICK r \in SUBSET B!Entities, to \in B!Statuses \cup {"none"} : r = AllOf(ks) /\ to = "none"
  BY <1>1
<1>3. op \in RunOps
  BY DEF RunOps
<1>4. B!Fetch(op, of, ks) = B!Run(op, of, to, ks, r)
  BY <1>2 DEF B!Fetch, AllOf
<1>5. /\ B!Run(op, of, to, ks, r) \in RunsOfBoard
      /\ B!Run(op, of, to, ks, r).op = op /\ B!Run(op, of, to, ks, r).of = of /\ B!Run(op, of, to, ks, r).kinds = ks
      /\ B!Run(op, of, to, ks, r).rest = r /\ B!Run(op, of, to, ks, r).answer = NoAnswer
  BY <1>3, RunOfBoard
<1> QED BY <1>2, <1>4, <1>5

\* The bar asks for a status.
LEMMA AskStatusIs ==
  ASSUME NEW e \in B!Entities
  PROVE  B!AskStatus(e) \in RunsOfBoard /\ B!AskStatus(e).op = "status" /\ B!AskStatus(e).of = {e} /\ B!AskStatus(e).stage = "sent"
<1>1. PICK op \in RunOps, of \in SUBSET B!Entities, to \in B!Statuses \cup {"none"}, none \in SUBSET {} :
         op = "status" /\ of = {e} /\ to = "none" /\ none = {}
  BY DEF RunOps
<1>2. none \in SUBSET B!Kinds /\ none \in SUBSET B!Entities
  BY <1>1
<1>3. /\ B!Run(op, of, to, none, none) \in RunsOfBoard
      /\ B!Run(op, of, to, none, none).op = op /\ B!Run(op, of, to, none, none).of = of /\ B!Run(op, of, to, none, none).stage = "sent"
  BY <1>2, RunOfBoard
<1> QED BY <1>1, <1>3 DEF B!AskStatus

\* A call begins, goes on or ends.
LEMMA PutOfBoard ==
  ASSUME BoardTypes, NEW c \in Callers, NEW r \in RunsOfBoard, B!Put(c, r)
  PROVE  runs' \in [Callers -> RunsOfBoard] /\ runs'[c] = r /\ \A d \in Callers \ {c} : runs'[d] = runs[d]
BY DEF B!Put, BoardTypes

\* One call changes, to one that is well formed.
Changes(c) ==
  /\ runs' \in [Callers -> RunsOfBoard] /\ \A d \in Callers \ {c} : runs'[d] = runs[d]
  /\ runs'[c].op = "none" => runs'[c] = B!NoRun
  /\ runs'[c].op \in {"decide", "update"} => runs'[c].to \in B!Statuses
  /\ runs'[c].op \in {"administrators", "add"} => runs'[c].of \subseteq Users

\* What such a step keeps, if it does nothing else.
LEMMA OnlyRuns ==
  ASSUME BoardInv, NEW c \in Callers, Changes(c), UNCHANGED <<B!Zome, B!Store, B!Pages, decisions, others>>, failures' \in 0 .. MaxFailures
  PROVE  BoardInv'
BY DEF BoardInv, BoardTypes, Changes, B!Zome, B!Store, B!Pages, B!ModerationAssumption

\* The bounds.
LEMMA BoundsAre ==
  ASSUME BoardInv
  PROVE  /\ failures < MaxFailures => failures + 1 \in 0 .. MaxFailures
         /\ decisions < MaxDecisions => decisions + 1 \in 0 .. MaxDecisions
         /\ others < MaxOthers => others + 1 \in 0 .. MaxOthers
         /\ 0 \in 0 .. MaxFailures /\ 0 \in 0 .. MaxDecisions /\ 0 \in 0 .. MaxOthers
<1>1. /\ failures \in 0 .. MaxFailures /\ MaxFailures \in Nat /\ decisions \in 0 .. MaxDecisions /\ MaxDecisions \in Nat
      /\ others \in 0 .. MaxOthers /\ MaxOthers \in Nat
  BY DEF BoardInv, BoardTypes, B!ModerationAssumption
<1> QED BY <1>1

\* A call that begins about some entities.
LEMMA Begins ==
  ASSUME BoardTypes, NEW c \in Callers, NEW op \in {"decide", "update", "administrators", "add", "remove"}, NEW of \in SUBSET B!Entities,
         NEW to \in B!Statuses \cup {"none"}, B!Put(c, B!Run(op, of, to, {}, {})),
         op \in {"decide", "update"} => to \in B!Statuses, op \in {"administrators", "add"} => of \subseteq Users
  PROVE  Changes(c) /\ runs'[c].op = op /\ runs'[c].of = of /\ runs'[c].to = to /\ runs'[c].stage = "sent"
<1>1. PICK o \in RunOps : o = op
  BY DEF RunOps
<1>2. PICK ks \in SUBSET B!Kinds, rest \in SUBSET B!Entities : ks = {} /\ rest = {}
  OBVIOUS
<1>3. /\ B!Run(o, of, to, ks, rest) \in RunsOfBoard
      /\ B!Run(o, of, to, ks, rest).op = o /\ B!Run(o, of, to, ks, rest).of = of /\ B!Run(o, of, to, ks, rest).to = to
      /\ B!Run(o, of, to, ks, rest).stage = "sent"
  BY RunOfBoard
<1>4. PICK r \in RunsOfBoard : r = B!Run(op, of, to, {}, {}) /\ r.op = op /\ r.of = of /\ r.to = to /\ r.stage = "sent"
  BY <1>1, <1>2, <1>3
<1>5. B!Put(c, r)
  BY <1>4
<1>6. runs' \in [Callers -> RunsOfBoard] /\ runs'[c] = r /\ \A d \in Callers \ {c} : runs'[d] = runs[d]
  BY <1>5, PutOfBoard
<1> QED BY <1>4, <1>6 DEF Changes

\* A fetch that begins.
LEMMA FetchBegins ==
  ASSUME BoardTypes, NEW c \in Callers, NEW op \in FetchOps, NEW of \in SUBSET B!Entities, NEW ks \in SUBSET B!Kinds,
         B!Put(c, B!Fetch(op, of, ks))
  PROVE  /\ Changes(c) /\ runs'[c].op = op /\ runs'[c].of = of /\ runs'[c].kinds = ks
         /\ runs'[c].rest = AllOf(ks) /\ \A e \in B!Entities : runs'[c].answer[e] = "absent"
<1>1. /\ B!Fetch(op, of, ks) \in RunsOfBoard
      /\ B!Fetch(op, of, ks).op = op /\ B!Fetch(op, of, ks).of = of /\ B!Fetch(op, of, ks).kinds = ks
      /\ B!Fetch(op, of, ks).rest = AllOf(ks)
      /\ B!Fetch(op, of, ks).answer = NoAnswer
  BY FetchIs
<1>2. PICK r \in RunsOfBoard : r = B!Fetch(op, of, ks)
  BY <1>1
<1>3. B!Put(c, r)
  BY <1>2
<1>4. runs' \in [Callers -> RunsOfBoard] /\ runs'[c] = r /\ \A d \in Callers \ {c} : runs'[d] = runs[d]
  BY <1>3, PutOfBoard
<1>5. r.op = op /\ r.of = of /\ r.kinds = ks /\ r.rest = AllOf(ks) /\ \A e \in B!Entities : r.answer[e] = "absent"
  BY <1>1, <1>2 DEF NoAnswer
<1> QED BY <1>4, <1>5 DEF Changes, FetchOps

\* The bar asks.
LEMMA AskBegins ==
  ASSUME BoardTypes, NEW c \in Callers, NEW e \in B!Entities, B!Put(c, B!AskStatus(e))
  PROVE  Changes(c) /\ runs'[c].op = "status" /\ runs'[c].of = {e} /\ runs'[c].stage = "sent"
<1>1. PICK r \in RunsOfBoard : r = B!AskStatus(e) /\ r.op = "status" /\ r.of = {e} /\ r.stage = "sent"
  BY AskStatusIs
<1>2. runs' \in [Callers -> RunsOfBoard] /\ runs'[c] = r /\ \A d \in Callers \ {c} : runs'[d] = runs[d]
  BY <1>1, PutOfBoard
<1> QED BY <1>1, <1>2 DEF Changes

\* A call ends.
LEMMA Ends ==
  ASSUME BoardTypes, NEW c \in Callers, B!Put(c, B!NoRun)
  PROVE  Changes(c) /\ runs'[c] = B!NoRun
<1>1. PICK r \in RunsOfBoard : r = B!NoRun
  BY NoRunOfBoard
<1>2. runs' \in [Callers -> RunsOfBoard] /\ runs'[c] = r /\ \A d \in Callers \ {c} : runs'[d] = runs[d]
  BY <1>1, PutOfBoard
<1> QED BY <1>1, <1>2, NoRunOfBoard DEF Changes

-----------------------------------------------------------------------------
(* Every step keeps what the variables hold. *)

\* A page asks: one call begins, and a page may be shown.
LEMMA AsksKeepTypes ==
  ASSUME BoardInv, NEW c \in Callers, Changes(c), UNCHANGED <<B!Zome, B!Store, board, shared, B!Bounds>>, bar' \in BarsOfBoard,
         mounted' \in BOOLEAN
  PROVE  BoardInv'
BY DEF BoardInv, BoardTypes, Changes, B!Zome, B!Store, B!Bounds, B!ModerationAssumption

\* An entity is read.
LEMMA ToldIs ==
  ASSUME BoardTypes, NEW c \in Callers, NEW e \in B!Entities, NEW s \in B!Shown, B!Told(c, e, s), B!Fetching(c)
  PROVE  /\ Changes(c) /\ runs'[c].op = runs[c].op /\ runs'[c].of = runs[c].of /\ runs'[c].kinds = runs[c].kinds
         /\ runs'[c].rest = runs[c].rest \ {e} /\ runs'[c].answer = [runs[c].answer EXCEPT ![e] = s]
<1>1. runs[c] \in RunsOfBoard /\ runs[c].op \in FetchOps
  BY DEF BoardTypes, B!Fetching, FetchOps
<1>2. PICK a \in [B!Entities -> B!Shown] : a = [runs[c].answer EXCEPT ![e] = s]
  BY <1>1 DEF RunsOfBoard
<1>3. PICK r : r = [runs[c] EXCEPT !.rest = runs[c].rest \ {e}, !.answer = a]
  OBVIOUS
<1>4. /\ r \in RunsOfBoard /\ r.op = runs[c].op /\ r.of = runs[c].of /\ r.kinds = runs[c].kinds /\ r.to = runs[c].to
      /\ r.rest = runs[c].rest \ {e} /\ r.answer = a
  BY <1>1, <1>3 DEF RunsOfBoard
<1>5. runs' = [runs EXCEPT ![c] = r]
  <2>1. runs' = [runs EXCEPT ![c].rest = runs[c].rest \ {e}, ![c].answer[e] = s]
    BY DEF B!Told, BoardTypes
  <2> QED BY <1>1, <1>2, <1>3, <2>1 DEF BoardTypes, RunsOfBoard
<1>6. runs' \in [Callers -> RunsOfBoard] /\ runs'[c] = r /\ \A d \in Callers \ {c} : runs'[d] = runs[d]
  BY <1>4, <1>5 DEF BoardTypes
<1> QED BY <1>1, <1>2, <1>4, <1>6 DEF Changes, FetchOps

\* What a fetch reads.
LEMMA ReadIs ==
  ASSUME BoardInv, NEW c \in Callers, NEW e \in B!Entities, B!ReadStatus(c, e)
  PROVE  \E s \in B!Shown : /\ B!Told(c, e, s) /\ B!Fetching(c) /\ e \in runs[c].rest /\ failures' \in 0 .. MaxFailures
                            /\ UNCHANGED <<B!Zome, B!Store, B!Pages, decisions, others>>
                            /\ IF s = status[e] /\ UNCHANGED <<uncertain, failures>> THEN TRUE ELSE uncertain' = uncertain \cup {e}
<1>1. B!Fetching(c) /\ e \in runs[c].rest /\ UNCHANGED <<B!Zome, B!Store, B!Pages, decisions, others>>
  BY DEF B!ReadStatus
<1>2. status[e] \in B!Shown /\ "unknown" \in B!Shown /\ "absent" \in B!Shown
  BY DEF BoardInv, BoardTypes, B!Shown
<1>3. failures \in 0 .. MaxFailures
  BY DEF BoardInv, BoardTypes
<1>4. CASE B!Told(c, e, status[e]) /\ UNCHANGED <<uncertain, failures>>
  BY <1>1, <1>2, <1>3, <1>4
<1>5. CASE failures < MaxFailures /\ failures' = failures + 1 /\ uncertain' = uncertain \cup {e} /\ B!Told(c, e, "unknown")
  BY <1>1, <1>2, <1>5, BoundsAre
<1>6. CASE failures < MaxFailures /\ failures' = failures + 1 /\ uncertain' = uncertain \cup {e} /\ B!Told(c, e, "absent")
  BY <1>1, <1>2, <1>6, BoundsAre
<1> QED BY <1>4, <1>5, <1>6 DEF B!ReadStatus

\* A call goes on.
LEMMA BoardGoesOn ==
  ASSUME BoardTypes, NEW c \in Callers, NEW r \in RunsOfBoard, runs' = [runs EXCEPT ![c] = r], r.op = runs[c].op, r.to = runs[c].to,
         r.op # "none", r.op \in {"administrators", "add"} => r.of \subseteq Users
  PROVE  Changes(c) /\ runs'[c] = r
<1>1. runs' \in [Callers -> RunsOfBoard] /\ runs'[c] = r /\ \A d \in Callers \ {c} : runs'[d] = runs[d]
  BY DEF BoardTypes
<1>2. runs[c].op \in {"decide", "update"} => runs[c].to \in B!Statuses
  BY DEF BoardTypes
<1> QED BY <1>1, <1>2 DEF Changes

\* A call has been done.
LEMMA StageDone ==
  ASSUME BoardTypes, NEW c \in Callers, runs[c].op # "none", runs' = [runs EXCEPT ![c].stage = "done"]
  PROVE  /\ Changes(c) /\ runs'[c].op = runs[c].op /\ runs'[c].of = runs[c].of /\ runs'[c].to = runs[c].to
         /\ runs'[c].stage = "done"
<1>1. PICK r : r = [runs[c] EXCEPT !.stage = "done"]
  OBVIOUS
<1>2. r \in RunsOfBoard /\ r.op = runs[c].op /\ r.of = runs[c].of /\ r.to = runs[c].to /\ r.stage = "done"
  BY <1>1 DEF BoardTypes, RunsOfBoard
<1>3. runs' = [runs EXCEPT ![c] = r]
  BY <1>1 DEF BoardTypes, RunsOfBoard
<1>4. r.op # "none"
  BY <1>2
<1>5. r.op \in {"administrators", "add"} => r.of \subseteq Users
  BY <1>2 DEF BoardTypes
<1>6. Changes(c) /\ runs'[c] = r
  BY <1>2, <1>3, <1>4, <1>5, BoardGoesOn
<1> QED BY <1>2, <1>6

\* The status of the bar's entity has been read.
LEMMA StatusRead ==
  ASSUME BoardTypes, NEW c \in Callers, B!At(c, "status", "sent"),
         runs' = [runs EXCEPT ![c].stage = "done", ![c].answer = [e \in B!Entities |-> IF e \in runs[c].of THEN status[e] ELSE "absent"]]
  PROVE  /\ Changes(c) /\ runs'[c].op = "status" /\ runs'[c].of = runs[c].of /\ runs'[c].stage = "done"
         /\ \A e \in runs[c].of : runs'[c].answer[e] = status[e]
<1>1. runs[c] \in RunsOfBoard /\ runs[c].op = "status" /\ runs[c].of \subseteq B!Entities
  BY DEF BoardTypes, B!At, RunsOfBoard
<1>2. [e \in B!Entities |-> IF e \in runs[c].of THEN status[e] ELSE "absent"] \in [B!Entities -> B!Shown]
  BY DEF BoardTypes, B!Shown
<1>3. PICK answer \in [B!Entities -> B!Shown] : answer = [e \in B!Entities |-> IF e \in runs[c].of THEN status[e] ELSE "absent"]
  BY <1>2
<1>4. PICK r : r = [runs[c] EXCEPT !.stage = "done", !.answer = answer]
  OBVIOUS
<1>5. /\ r \in RunsOfBoard /\ r.op = "status" /\ r.of = runs[c].of /\ r.to = runs[c].to /\ r.stage = "done" /\ r.answer = answer
  BY <1>1, <1>4 DEF RunsOfBoard
<1>6. runs' = [runs EXCEPT ![c].stage = "done", ![c].answer = answer]
  BY <1>3
<1>7. runs' = [runs EXCEPT ![c] = r]
  BY <1>1, <1>4, <1>6 DEF BoardTypes, RunsOfBoard
<1>8. r.op = runs[c].op /\ r.op # "none" /\ (r.op \in {"administrators", "add"} => r.of \subseteq Users)
  BY <1>1, <1>5
<1>9. Changes(c) /\ runs'[c] = r
  BY <1>5, <1>7, <1>8, BoardGoesOn
<1>10. \A e \in runs[c].of : answer[e] = status[e]
  BY <1>1, <1>3
<1> QED BY <1>5, <1>9, <1>10

\* A kind has been stored.
LEMMA StoredIs ==
  ASSUME BoardTypes, NEW c \in Callers, NEW k \in B!Kinds, B!Fetching(c),
         runs' = [runs EXCEPT ![c].kinds = @ \ {k}, ![c].stage = "stored"]
  PROVE  /\ Changes(c) /\ runs'[c].op = runs[c].op /\ runs'[c].of = runs[c].of /\ runs'[c].kinds = runs[c].kinds \ {k}
         /\ runs'[c].rest = runs[c].rest /\ runs'[c].answer = runs[c].answer
<1>1. runs[c] \in RunsOfBoard /\ runs[c].op \in FetchOps
  BY DEF BoardTypes, B!Fetching, FetchOps
<1>2. PICK r : r = [runs[c] EXCEPT !.kinds = runs[c].kinds \ {k}, !.stage = "stored"]
  OBVIOUS
<1>3. /\ r \in RunsOfBoard /\ r.op = runs[c].op /\ r.of = runs[c].of /\ r.kinds = runs[c].kinds \ {k}
      /\ r.rest = runs[c].rest /\ r.answer = runs[c].answer /\ r.to = runs[c].to
  BY <1>1, <1>2 DEF RunsOfBoard
<1>4. runs' = [runs EXCEPT ![c] = r]
  BY <1>1, <1>2 DEF BoardTypes, RunsOfBoard
<1>5. runs' \in [Callers -> RunsOfBoard] /\ runs'[c] = r /\ \A d \in Callers \ {c} : runs'[d] = runs[d]
  BY <1>3, <1>4 DEF BoardTypes
<1> QED BY <1>1, <1>3, <1>5 DEF Changes, FetchOps

\* An answer is taken over.
LEMMA MergeIs ==
  ASSUME NEW of \in SUBSET B!Entities, NEW new \in [B!Entities -> B!Shown], NEW old \in [B!Entities -> B!Shown]
  PROVE  /\ B!Merge(of, new, old) \in [B!Entities -> B!Shown]
         /\ \A e \in B!Entities : B!Merge(of, new, old)[e] = IF e \in of THEN new[e] ELSE old[e]
BY DEF B!Merge

\* The bar is opened.
LEMMA OpenedIs ==
  ASSUME NEW p \in {"dashboard", "users", "organizations", "administrators"}, NEW e \in B!Entities, NEW b \in BOOLEAN, B!OpenedOn(p, e, b)
  PROVE  bar' \in BarsOfBoard /\ bar'.of = {e} /\ bar'.on = p /\ bar'.shared = b /\ bar'.held = "none"
BY DEF BarsOfBoard, B!OpenedOn

\* The bar is opened from one of three places.
LEMMA OpenBarIs ==
  ASSUME NEW c \in Callers, NEW e \in B!Entities, B!OpenBar(c, e)
  PROVE  /\ bar' \in BarsOfBoard /\ bar'.of = {e} /\ bar'.held = "none" /\ bar'.on # "none"
         /\ bar'.shared \/ bar'.on = "administrators" \/ (B!Queued(e) /\ B!KindOf(e) \notin shared)
<1>1. CASE B!Queued(e) /\ B!OpenedOn("dashboard", e, B!KindOf(e) \in shared)
  <2>1. CASE B!KindOf(e) \in shared
    <3>1. B!OpenedOn("dashboard", e, TRUE)
      BY <1>1, <2>1 DEF B!OpenedOn
    <3> QED BY <3>1, OpenedIs
  <2>2. CASE B!KindOf(e) \notin shared
    <3>1. (B!KindOf(e) \in shared) = FALSE
      BY <2>2
    <3>2. B!OpenedOn("dashboard", e, FALSE)
      BY <1>1, <3>1
    <3> QED BY <1>1, <2>2, <3>2, OpenedIs
  <2> QED BY <2>1, <2>2
<1>2. CASE B!OpenedOn(B!KindOf(e), e, TRUE)
  <2>1. B!KindOf(e) \in {"users", "organizations"}
    BY DEF B!KindOf
  <2>2. PICK p \in {"dashboard", "users", "organizations", "administrators"}, b \in BOOLEAN : p = B!KindOf(e) /\ p # "none" /\ b = TRUE
    BY <2>1
  <2>3. B!OpenedOn(p, e, b)
    BY <1>2, <2>2
  <2> QED BY <2>2, <2>3, OpenedIs
<1>3. CASE B!OpenedOn("administrators", e, FALSE)
  BY <1>3, OpenedIs
<1> QED BY <1>1, <1>2, <1>3 DEF B!OpenBar

\* The bar is closed, or changes what it holds.
LEMMA BarIs ==
  ASSUME BoardTypes
  PROVE  /\ B!NoBar \in BarsOfBoard /\ B!NoBar.of = {} /\ B!NoBar.held = "none" /\ B!NoBar.on = "none"
         /\ [bar EXCEPT !.shared = FALSE] \in BarsOfBoard
         /\ bar = B!NoBar => [bar EXCEPT !.shared = FALSE] = B!NoBar
<1>1. B!NoBar \in BarsOfBoard /\ B!NoBar.of = {} /\ B!NoBar.held = "none" /\ B!NoBar.on = "none"
  BY DEF BarsOfBoard, B!NoBar
<1>2. [bar EXCEPT !.shared = FALSE] \in BarsOfBoard
  BY DEF BoardTypes, BarsOfBoard
<1>3. PICK b \in BarsOfBoard : b = B!NoBar /\ b.shared = FALSE
  BY <1>1 DEF B!NoBar
<1>4. [b EXCEPT !.shared = FALSE] = b
  BY <1>3 DEF BarsOfBoard
<1> QED BY <1>1, <1>2, <1>3, <1>4

\* The bar holds a status.
LEMMA HeldIs ==
  ASSUME BoardTypes, NEW h \in B!Shown, bar' = [bar EXCEPT !.held = h]
  PROVE  bar' \in BarsOfBoard /\ bar'.of = bar.of /\ bar'.on = bar.on /\ bar'.shared = bar.shared /\ bar'.held = h
BY DEF BoardTypes, BarsOfBoard

\* A call is asked for.
LEMMA AskStepTypes ==
  ASSUME BoardInv, NEW c \in Callers,
         \/ B!FetchDashboardData(c) \/ \E k \in B!Kinds : B!FetchAll(c, k)
         \/ \E e \in B!Entities, s \in {"accepted", "rejected"} : B!Decide(c, e, s)
         \/ \E s \in {"accepted", "rejected", "suspended"} : B!UpdateStatus(c, s)
         \/ \E e \in B!Entities : B!OpenBar(c, e)
  PROVE  BoardInv'
<1> USE DEF BoardInv
<1>0. mounted \in BOOLEAN /\ bar \in BarsOfBoard /\ bar.of \in SUBSET B!Entities
  BY DEF BoardTypes, BarsOfBoard
<1>1. CASE B!FetchDashboardData(c)
  <2>1. B!Put(c, B!Fetch("load", {}, B!Kinds)) /\ mounted' = TRUE /\ UNCHANGED <<B!Zome, B!Store, board, shared, bar, B!Bounds>>
    BY <1>1 DEF B!FetchDashboardData
  <2>2. PICK op \in FetchOps, of \in SUBSET B!Entities, ks \in SUBSET B!Kinds : op = "load" /\ of = {} /\ ks = B!Kinds
    BY DEF FetchOps
  <2>3. Changes(c)
    BY <2>1, <2>2, FetchBegins
  <2> QED BY <1>0, <2>1, <2>3, AsksKeepTypes
<1>2. CASE \E k \in B!Kinds : B!FetchAll(c, k)
  <2>1. PICK k \in B!Kinds : B!Put(c, B!Fetch("fetch", {}, {k})) /\ UNCHANGED <<B!Zome, B!Store, B!Pages, B!Bounds>>
    BY <1>2 DEF B!FetchAll
  <2>2. PICK op \in FetchOps, of \in SUBSET B!Entities, ks \in SUBSET B!Kinds : op = "fetch" /\ of = {} /\ ks = {k}
    BY DEF FetchOps
  <2>3. Changes(c)
    BY <2>1, <2>2, FetchBegins
  <2> QED BY <1>0, <2>1, <2>3, AsksKeepTypes DEF B!Pages
<1>3. CASE \E e \in B!Entities, s \in {"accepted", "rejected"} : B!Decide(c, e, s)
  <2>1. PICK e \in B!Entities, s \in {"accepted", "rejected"} : B!Put(c, B!Run("decide", {e}, s, {}, {})) /\ UNCHANGED <<B!Zome, B!Store, B!Pages, B!Bounds>>
    BY <1>3 DEF B!Decide
  <2>2. PICK op \in {"decide", "update", "administrators", "add", "remove"}, of \in SUBSET B!Entities, to \in B!Statuses \cup {"none"} :
           op = "decide" /\ of = {e} /\ to = s
    BY DEF B!Statuses
  <2>3. Changes(c)
    BY <2>1, <2>2, Begins DEF B!Statuses
  <2> QED BY <1>0, <2>1, <2>3, AsksKeepTypes DEF B!Pages
<1>4. CASE \E s \in {"accepted", "rejected", "suspended"} : B!UpdateStatus(c, s)
  <2>1. PICK s \in {"accepted", "rejected", "suspended"} : B!Put(c, B!Run("update", bar.of, s, {}, {})) /\ UNCHANGED <<B!Zome, B!Store, B!Pages, B!Bounds>>
    BY <1>4 DEF B!UpdateStatus
  <2>2. PICK op \in {"decide", "update", "administrators", "add", "remove"}, of \in SUBSET B!Entities, to \in B!Statuses \cup {"none"} :
           op = "update" /\ of = bar.of /\ to = s
    BY <1>0 DEF B!Statuses
  <2>3. Changes(c)
    BY <2>1, <2>2, Begins DEF B!Statuses
  <2> QED BY <1>0, <2>1, <2>3, AsksKeepTypes DEF B!Pages
<1>5. CASE \E e \in B!Entities : B!OpenBar(c, e)
  <2>1. PICK e \in B!Entities : B!OpenBar(c, e)
    BY <1>5
  <2>2. B!Put(c, B!AskStatus(e)) /\ UNCHANGED <<B!Zome, B!Store, mounted, board, shared, B!Bounds>>
    BY <2>1 DEF B!OpenBar
  <2>3. Changes(c)
    BY <2>2, AskBegins
  <2>4. bar' \in BarsOfBoard
    BY <2>1, OpenBarIs
  <2> QED BY <1>0, <2>2, <2>3, <2>4, AsksKeepTypes
<1> QED BY <1>1, <1>2, <1>3, <1>4, <1>5

\* The dashboard or the bar is left, or the arrays are cleared.
LEMMA LeaveStepTypes ==
  ASSUME BoardInv, B!LeaveDashboard \/ B!CloseBar \/ B!InvalidateCache
  PROVE  BoardInv'
<1> USE DEF BoardInv
<1>0. NoAnswer \in [B!Entities -> B!Shown]
  BY DEF NoAnswer, B!Shown
<1>1. CASE B!LeaveDashboard
  BY <1>0, <1>1 DEF B!LeaveDashboard, BoardTypes, B!Zome, B!Store, B!Bounds, B!ModerationAssumption, NoAnswer
<1>2. CASE B!CloseBar
  <2>1. bar' = B!NoBar /\ UNCHANGED <<B!Zome, B!Store, mounted, board, shared, B!Bounds>>
    BY <1>2 DEF B!CloseBar
  <2>2. /\ runs' \in [Callers -> RunsOfBoard]
        /\ \A c \in Callers : runs'[c] = B!NoRun \/ runs'[c] = runs[c]
    BY <1>2, NoRunOfBoard DEF B!CloseBar, BoardTypes
  <2>3. BoardTypes'
    BY <2>1, <2>2, NoRunOfBoard, BarIs DEF BoardTypes, B!Zome, B!Store, B!Bounds
  <2> QED BY <2>3 DEF B!ModerationAssumption
<1>3. CASE B!InvalidateCache
  BY <1>0, <1>3 DEF B!InvalidateCache, BoardTypes, B!Zome, B!Pages, B!Bounds, B!ModerationAssumption, NoAnswer
<1> QED BY <1>1, <1>2, <1>3

\* A fetch goes on.
LEMMA FetchStepTypes ==
  ASSUME BoardInv, NEW c \in Callers,
         (\E e \in B!Entities : B!ReadStatus(c, e)) \/ (\E k \in B!Kinds : B!Stored(c, k)) \/ B!Boarded(c)
  PROVE  BoardInv'
<1> USE DEF BoardInv
<1>0. runs[c] \in RunsOfBoard /\ runs[c].answer \in [B!Entities -> B!Shown] /\ all \in [B!Entities -> B!Shown] /\ board \in [B!Entities -> B!Shown]
  BY DEF BoardTypes, RunsOfBoard
<1>1. CASE \E e \in B!Entities : B!ReadStatus(c, e)
  <2>1. PICK e \in B!Entities, s \in B!Shown :
           B!Told(c, e, s) /\ B!Fetching(c) /\ failures' \in 0 .. MaxFailures /\ UNCHANGED <<B!Zome, B!Store, B!Pages, decisions, others>>
    BY <1>1, ReadIs
  <2>2. Changes(c)
    BY <2>1, ToldIs
  <2> QED BY <2>1, <2>2, OnlyRuns
<1>2. CASE \E k \in B!Kinds : B!Stored(c, k)
  <2>1. PICK k \in B!Kinds : B!Stored(c, k)
    BY <1>2
  <2>2. Changes(c)
    BY <2>1, StoredIs DEF B!Stored
  <2>3. PICK of \in SUBSET B!Entities : of = B!Of(k)
    BY KindsAre
  <2>4. all' \in [B!Entities -> B!Shown]
    <3>1. PICK new \in [B!Entities -> B!Shown] : new = runs[c].answer
      BY <1>0
    <3>2. all' = B!Merge(of, new, all)
      BY <2>1, <2>3, <3>1 DEF B!Stored
    <3> QED BY <1>0, <3>2, MergeIs
  <2>5. bar' \in BarsOfBoard
    BY <2>1, BarIs DEF B!Stored, BoardTypes
  <2>6. /\ DOMAIN fetchedBy' = B!Kinds /\ shared' \subseteq B!Kinds
        /\ UNCHANGED <<B!Zome, administrators, nonAdministrators, mounted, board, B!Bounds>>
    BY <2>1 DEF B!Stored, BoardTypes
  <2>7. BoardTypes'
    BY <2>2, <2>4, <2>5, <2>6 DEF BoardTypes, Changes, B!Zome, B!Bounds
  <2> QED BY <2>7 DEF B!ModerationAssumption
<1>3. CASE B!Boarded(c)
  <2>1. Changes(c)
    BY <1>3, Ends DEF B!Boarded
  <2>2. PICK of \in SUBSET B!Entities : of = UNION {B!Of(k) : k \in B!Fetched(c)}
    <3>1. B!Fetched(c) \subseteq B!Kinds
      BY <1>0, KindsAre DEF B!Fetched, RunsOfBoard
    <3> QED BY <3>1, KindsAre
  <2>3. board' \in [B!Entities -> B!Shown]
    <3>1. PICK new \in [B!Entities -> B!Shown] : new = runs[c].answer
      BY <1>0
    <3>2. board' = board \/ board' = B!Merge(of, new, board)
      BY <1>3, <2>2, <3>1 DEF B!Boarded
    <3>3. B!Merge(of, new, board) \in [B!Entities -> B!Shown]
      BY <1>0, MergeIs
    <3> QED BY <1>0, <3>2, <3>3
  <2>4. shared' \subseteq B!Kinds
    <3>1. B!Fetched(c) \subseteq B!Kinds
      BY <1>0, KindsAre DEF B!Fetched, RunsOfBoard
    <3> QED BY <1>3, <3>1 DEF B!Boarded, BoardTypes
  <2>5. DOMAIN fetchedBy' = B!Kinds /\ UNCHANGED <<B!Zome, all, administrators, nonAdministrators, mounted, bar, B!Bounds>>
    BY <1>3 DEF B!Boarded
  <2>6. BoardTypes'
    BY <2>1, <2>3, <2>4, <2>5 DEF BoardTypes, Changes, B!Zome, B!Bounds
  <2> QED BY <2>6 DEF B!ModerationAssumption
<1> QED BY <1>1, <1>2, <1>3

\* The store and the dashboard show a new status.
LEMMA ShownIs ==
  ASSUME BoardTypes, NEW e \in B!Entities, NEW s \in B!Shown
  PROVE  /\ B!Updated(e, s) => /\ all' \in [B!Entities -> B!Shown] /\ \A x \in B!Entities \ {e} : all'[x] = all[x]
                               /\ all'[e] = IF all[e] = "absent" THEN "absent" ELSE s
         /\ B!UpdateInDashboard(e, s) => /\ board' \in [B!Entities -> B!Shown] /\ \A x \in B!Entities \ {e} : board'[x] = board[x]
                                         /\ board'[e] = IF board[e] = "absent" THEN "absent" ELSE s
BY DEF BoardTypes, B!Updated, B!UpdateInDashboard, B!InStore

\* A decision has been done.
LEMMA DecisionStepTypes ==
  ASSUME BoardInv, NEW c \in Callers, B!UpdateEntityStatus(c) \/ B!Decided(c) \/ B!StatusUpdated(c)
  PROVE  BoardInv'
<1> USE DEF BoardInv
<1>0. runs[c] \in RunsOfBoard /\ runs[c].of \subseteq B!Entities /\ all \in [B!Entities -> B!Shown] /\ board \in [B!Entities -> B!Shown]
  BY DEF BoardTypes, RunsOfBoard
<1>1. CASE B!UpdateEntityStatus(c)
  <2>1. /\ runs[c].op \in {"decide", "update"} /\ runs' = [runs EXCEPT ![c].stage = "done"]
        /\ decisions < MaxDecisions /\ decisions' = decisions + 1
        /\ status' = [e \in B!Entities |-> IF e \in runs[c].of THEN runs[c].to ELSE status[e]]
        /\ UNCHANGED <<listed, B!Store, B!Pages, uncertain, failures, others>>
    BY <1>1 DEF B!UpdateEntityStatus, B!At
  <2>2. Changes(c)
    BY <2>1, StageDone
  <2>3. status' \in [B!Entities -> B!Statuses]
    BY <2>1 DEF BoardTypes
  <2>4. decisions' \in 0 .. MaxDecisions
    BY <2>1, BoundsAre
  <2>5. BoardTypes'
    BY <2>1, <2>2, <2>3, <2>4 DEF BoardTypes, Changes, B!Store, B!Pages
  <2> QED BY <2>5 DEF B!ModerationAssumption
<1>2. CASE B!Decided(c)
  <2>1. PICK e \in B!Entities :
           /\ B!At(c, "decide", "done") /\ B!Updated(e, runs[c].to) /\ B!UpdateInDashboard(e, "pending")
           /\ IF B!BarAsks(e)
                THEN \E d \in Callers : /\ B!Idle(d)
                                        /\ runs' = [runs EXCEPT ![c] = B!Fetch("refresh", {e}, {B!KindOf(e)}), ![d] = B!AskStatus(e)]
                ELSE B!Put(c, B!Fetch("refresh", {e}, {B!KindOf(e)}))
           /\ UNCHANGED <<B!Zome, fetchedBy, administrators, nonAdministrators, mounted, shared, bar, B!Bounds>>
    BY <1>0, <1>2 DEF B!Decided
  <2>2. PICK s \in B!Shown : s = runs[c].to
    BY <2>1 DEF BoardTypes, B!At, B!Shown
  <2>3. PICK p \in B!Shown : p = "pending"
    BY DEF B!Shown, B!Statuses
  <2>4. all' \in [B!Entities -> B!Shown] /\ board' \in [B!Entities -> B!Shown]
    BY <2>1, <2>2, <2>3, ShownIs
  <2>5. PICK op \in FetchOps, of \in SUBSET B!Entities, ks \in SUBSET B!Kinds : op = "refresh" /\ of = {e} /\ ks = {B!KindOf(e)}
    BY KindsAre DEF FetchOps
  <2>6. PICK r \in RunsOfBoard : r = B!Fetch("refresh", {e}, {B!KindOf(e)}) /\ r.op = "refresh"
    <3>1. B!Fetch(op, of, ks) \in RunsOfBoard /\ B!Fetch(op, of, ks).op = op
      BY FetchIs
    <3> QED BY <2>5, <3>1
  <2>7. PICK a \in RunsOfBoard : a = B!AskStatus(e) /\ a.op = "status"
    BY AskStatusIs
  <2>8. /\ runs' \in [Callers -> RunsOfBoard]
        /\ \A d \in Callers : runs'[d] = runs[d] \/ runs'[d].op \in {"refresh", "status"}
    <3>1. CASE B!BarAsks(e)
      <4>1. PICK d \in Callers : runs' = [runs EXCEPT ![c] = r, ![d] = a]
        BY <2>1, <2>6, <2>7, <3>1
      <4> QED BY <2>6, <2>7, <4>1 DEF BoardTypes
    <3>2. CASE ~B!BarAsks(e)
      <4>1. B!Put(c, r)
        BY <2>1, <2>6, <3>2
      <4> QED BY <2>6, <4>1, PutOfBoard
    <3> QED BY <3>1, <3>2
  <2>9. BoardTypes'
    BY <2>1, <2>4, <2>8 DEF BoardTypes, B!Zome, B!Bounds
  <2> QED BY <2>9 DEF B!ModerationAssumption
<1>3. CASE B!StatusUpdated(c)
  <2>1. PICK e \in B!Entities :
           /\ B!At(c, "update", "done") /\ B!Updated(e, runs[c].to)
           /\ IF B!InStore(e) THEN B!UpdateInDashboard(e, runs[c].to) ELSE UNCHANGED board
           /\ B!Put(c, B!AskStatus(e)) \/ B!Put(c, B!NoRun)
           /\ UNCHANGED <<B!Zome, fetchedBy, administrators, nonAdministrators, mounted, shared, bar, B!Bounds>>
    BY <1>0, <1>3 DEF B!StatusUpdated
  <2>2. PICK s \in B!Shown : s = runs[c].to
    BY <2>1 DEF BoardTypes, B!At, B!Shown
  <2>3. all' \in [B!Entities -> B!Shown] /\ board' \in [B!Entities -> B!Shown]
    BY <1>0, <2>1, <2>2, ShownIs
  <2>4. Changes(c)
    BY <2>1, AskBegins, Ends
  <2>5. BoardTypes'
    BY <2>1, <2>3, <2>4 DEF BoardTypes, Changes, B!Zome, B!Bounds
  <2> QED BY <2>5 DEF B!ModerationAssumption
<1> QED BY <1>1, <1>2, <1>3

\* Another administrator decides.
LEMMA OtherStepTypes ==
  ASSUME BoardInv, NEW e \in B!Entities, NEW s \in B!Statuses, B!OtherDecides(e, s)
  PROVE  BoardInv'
<1> USE DEF BoardInv
<1>1. others' \in 0 .. MaxOthers
  BY BoundsAre DEF B!OtherDecides
<1>2. BoardTypes'
  BY <1>1 DEF B!OtherDecides, BoardTypes, B!Store, B!Pages
<1> QED BY <1>2 DEF B!ModerationAssumption, B!OtherDecides

\* The bar is told the status.
LEMMA StatusStepTypes ==
  ASSUME BoardInv, NEW c \in Callers, B!LoadStatusRecord(c)
  PROVE  BoardInv'
<1> USE DEF BoardInv
<1>1. CASE B!At(c, "status", "sent")
  <2>1. /\ runs' = [runs EXCEPT ![c].stage = "done", ![c].answer = [e \in B!Entities |-> IF e \in runs[c].of THEN status[e] ELSE "absent"]]
        /\ UNCHANGED <<B!Zome, B!Store, B!Pages, B!Bounds>>
    BY <1>1 DEF B!LoadStatusRecord, B!At
  <2>2. Changes(c)
    BY <1>1, <2>1, StatusRead
  <2>3. failures' \in 0 .. MaxFailures
    BY <2>1 DEF B!Bounds, BoardTypes
  <2> QED BY <2>1, <2>2, <2>3, OnlyRuns DEF B!Bounds
<1>2. CASE B!At(c, "status", "done")
  <2>1. /\ \E e \in runs[c].of : bar' = [bar EXCEPT !.held = runs[c].answer[e]]
        /\ B!Put(c, B!NoRun)
        /\ UNCHANGED <<B!Zome, B!Store, mounted, board, shared, B!Bounds>>
    BY <1>2 DEF B!LoadStatusRecord, B!At
  <2>2. PICK h \in B!Shown : bar' = [bar EXCEPT !.held = h]
    BY <2>1 DEF BoardTypes, RunsOfBoard
  <2>3. bar' \in BarsOfBoard
    BY <2>2, HeldIs
  <2>4. Changes(c)
    BY <2>1, Ends
  <2>5. mounted' \in BOOLEAN
    BY <2>1 DEF BoardTypes
  <2> QED BY <2>1, <2>3, <2>4, <2>5, AsksKeepTypes
<1> QED BY <1>1, <1>2 DEF B!LoadStatusRecord

\* The lists of the administrators change.
LEMMA AdministratorsStepTypes ==
  ASSUME BoardInv, NEW c \in Callers,
         B!GetAllNetworkAdministrators(c) \/ B!AddNetworkAdministrator(c) \/ B!RemoveNetworkAdministrator(c)
  PROVE  BoardInv'
<1> USE DEF BoardInv
<1>0. /\ runs[c] \in RunsOfBoard /\ mounted \in BOOLEAN /\ bar \in BarsOfBoard /\ bar.of \in SUBSET B!Entities
      /\ listed \subseteq Users /\ Users \subseteq B!Entities /\ nonAdministrators \subseteq Users /\ failures \in 0 .. MaxFailures
  BY DEF BoardTypes, BarsOfBoard, B!Entities
<1>1. ASSUME NEW op \in {"decide", "update", "administrators", "add", "remove"}, op \notin {"decide", "update"}, NEW of \in SUBSET B!Entities,
             op \in {"administrators", "add"} => of \subseteq Users,
             B!Put(c, B!Run(op, of, "none", {}, {})), UNCHANGED <<B!Zome, B!Store, B!Pages, B!Bounds>>
      PROVE  BoardInv'
  <2>1. PICK to \in B!Statuses \cup {"none"} : to = "none"
    OBVIOUS
  <2>2. B!Put(c, B!Run(op, of, to, {}, {}))
    BY <1>1, <2>1
  <2>3. op \in {"decide", "update"} => to \in B!Statuses
    BY <1>1
  <2>4. Changes(c)
    BY <1>1, <2>2, <2>3, Begins
  <2> QED BY <1>0, <1>1, <2>4, AsksKeepTypes DEF B!Pages
<1>2. ASSUME NEW op \in {"add", "remove"}, NEW new, B!ChangeList(c, op, new), new \subseteq Users
      PROVE  BoardInv'
  <2>1. /\ B!At(c, op, "sent") /\ decisions < MaxDecisions /\ decisions' = decisions + 1 /\ new # {} /\ listed' = new
        /\ runs' = [runs EXCEPT ![c].stage = "done"] /\ UNCHANGED <<status, B!Store, B!Pages, uncertain, failures, others>>
    BY <1>2 DEF B!ChangeList
  <2>2. Changes(c)
    <3>1. runs[c].op # "none"
      BY <2>1 DEF B!At
    <3> QED BY <2>1, <3>1, StageDone
  <2>3. decisions' \in 0 .. MaxDecisions
    BY <2>1, BoundsAre
  <2>4. BoardTypes'
    BY <1>2, <2>1, <2>2, <2>3 DEF BoardTypes, Changes, B!Store, B!Pages
  <2> QED BY <2>4 DEF B!ModerationAssumption
<1>3. ASSUME Changes(c), B!UpdateAdministratorLists, administrators' \subseteq Users,
             UNCHANGED <<B!Zome, all, fetchedBy, B!Pages, uncertain, decisions, failures, others>>
      PROVE  BoardInv'
  <2>1. nonAdministrators' \subseteq Users
    BY <1>3 DEF B!UpdateAdministratorLists
  <2>2. BoardTypes'
    BY <1>3, <2>1 DEF BoardTypes, Changes, B!Zome, B!Pages
  <2> QED BY <2>2 DEF B!ModerationAssumption
<1>4. CASE B!GetAllNetworkAdministrators(c)
  <2>1. CASE B!Put(c, B!Run("administrators", {}, "none", {}, {})) /\ UNCHANGED <<B!Zome, B!Store, B!Pages, B!Bounds>>
    BY <1>1, <2>1
  <2>2. CASE /\ B!At(c, "administrators", "sent") /\ runs' = [runs EXCEPT ![c].of = listed, ![c].stage = "done"]
             /\ UNCHANGED <<B!Zome, B!Store, B!Pages, B!Bounds>>
    <3>1. PICK r : r = [runs[c] EXCEPT !.of = listed, !.stage = "done"]
      OBVIOUS
    <3>2. r \in RunsOfBoard /\ r.op = "administrators" /\ r.op = runs[c].op /\ r.to = runs[c].to /\ r.of \subseteq Users
      BY <1>0, <2>2, <3>1 DEF RunsOfBoard, B!At
    <3>3. runs' = [runs EXCEPT ![c] = r]
      BY <1>0, <2>2, <3>1 DEF BoardTypes, RunsOfBoard
    <3>4. r.op # "none" /\ (r.op \in {"administrators", "add"} => r.of \subseteq Users)
      BY <3>2
    <3>5. Changes(c)
      BY <3>2, <3>3, <3>4, BoardGoesOn
    <3>6. failures' \in 0 .. MaxFailures
      BY <1>0, <2>2 DEF B!Bounds
    <3> QED BY <2>2, <3>5, <3>6, OnlyRuns DEF B!Bounds
  <2>3. CASE /\ B!At(c, "administrators", "done") /\ administrators' = runs[c].of /\ B!UpdateAdministratorLists
             /\ B!Put(c, B!NoRun) /\ UNCHANGED <<B!Zome, all, fetchedBy, B!Pages, uncertain, decisions, failures, others>>
    <3>1. Changes(c)
      BY <2>3, Ends
    <3>2. administrators' \subseteq Users
      BY <2>3 DEF BoardTypes, B!At
    <3> QED BY <1>3, <2>3, <3>1, <3>2
  <2> QED BY <1>4, <2>1, <2>2, <2>3 DEF B!GetAllNetworkAdministrators
<1>5. CASE B!AddNetworkAdministrator(c)
  <2>1. CASE (\E u \in B!Candidates : B!Put(c, B!Run("add", {u}, "none", {}, {}))) /\ UNCHANGED <<B!Zome, B!Store, B!Pages, B!Bounds>>
    <3>1. PICK u \in Users : B!Put(c, B!Run("add", {u}, "none", {}, {}))
      BY <1>0, <2>1 DEF B!Candidates
    <3>2. {u} \in SUBSET B!Entities /\ {u} \subseteq Users
      BY <1>0
    <3> QED BY <1>1, <2>1, <3>1, <3>2
  <2>2. CASE B!ChangeList(c, "add", listed \cup runs[c].of)
    <3>1. listed \cup runs[c].of \subseteq Users
      BY <1>0, <2>2 DEF B!ChangeList, B!At, BoardTypes
    <3> QED BY <1>2, <2>2, <3>1
  <2>3. CASE /\ UNCHANGED administrators /\ B!UpdateAdministratorLists /\ B!Put(c, B!Fetch("fetch", {}, {"users"}))
             /\ UNCHANGED <<B!Zome, all, fetchedBy, B!Pages, B!Bounds>>
    <3>1. PICK op \in FetchOps, of \in SUBSET B!Entities, ks \in SUBSET B!Kinds : op = "fetch" /\ of = {} /\ ks = {"users"}
      BY DEF FetchOps, B!Kinds
    <3>2. Changes(c)
      BY <2>3, <3>1, FetchBegins
    <3>3. administrators' \subseteq Users
      BY <2>3 DEF BoardTypes
    <3> QED BY <1>3, <2>3, <3>2, <3>3 DEF B!Bounds
  <2> QED BY <1>5, <2>1, <2>2, <2>3 DEF B!AddNetworkAdministrator
<1>6. CASE B!RemoveNetworkAdministrator(c)
  <2>1. CASE B!Put(c, B!Run("remove", bar.of, "none", {}, {})) /\ UNCHANGED <<B!Zome, B!Store, B!Pages, B!Bounds>>
    BY <1>0, <1>1, <2>1
  <2>2. CASE B!ChangeList(c, "remove", listed \ runs[c].of)
    <3>1. listed \ runs[c].of \subseteq Users
      BY <1>0
    <3> QED BY <1>2, <2>2, <3>1
  <2>3. CASE /\ UNCHANGED administrators /\ B!UpdateAdministratorLists /\ B!Put(c, B!NoRun)
             /\ UNCHANGED <<B!Zome, all, fetchedBy, B!Pages, B!Bounds>>
    <3>1. Changes(c)
      BY <2>3, Ends
    <3>2. administrators' \subseteq Users
      BY <2>3 DEF BoardTypes
    <3> QED BY <1>3, <2>3, <3>1, <3>2 DEF B!Bounds
  <2> QED BY <1>6, <2>1, <2>2, <2>3 DEF B!RemoveNetworkAdministrator
<1> QED BY <1>4, <1>5, <1>6

\* A call fails.
LEMMA FailsStepTypes ==
  ASSUME BoardInv, NEW c \in Callers, B!Fails(c)
  PROVE  BoardInv'
<1> USE DEF BoardInv
<1>1. /\ failures < MaxFailures /\ failures' = failures + 1 /\ B!Put(c, B!NoRun) /\ UNCHANGED <<B!Zome, B!Store, B!Pages, decisions, others>>
  BY DEF B!Fails
<1>2. Changes(c)
  BY <1>1, Ends
<1>3. failures' \in 0 .. MaxFailures
  BY <1>1, BoundsAre
<1> QED BY <1>1, <1>2, <1>3, OnlyRuns

\* At first.
LEMMA BoardInit ==
  ASSUME B!ModerationAssumption, B!Init
  PROVE  BoardInv
<1>1. /\ status = [e \in B!Entities |-> "pending"] /\ (\E u \in Users : listed = {u}) /\ all = NoAnswer /\ board = NoAnswer
      /\ fetchedBy = [k \in B!Kinds |-> "none"] /\ administrators = {} /\ nonAdministrators = {} /\ mounted = FALSE
      /\ shared = {} /\ bar = B!NoBar /\ runs = [c \in Callers |-> B!NoRun] /\ decisions = 0 /\ failures = 0 /\ others = 0
  BY DEF B!Init, NoAnswer
<1>2. NoAnswer \in [B!Entities -> B!Shown] /\ status \in [B!Entities -> B!Statuses]
  BY <1>1 DEF NoAnswer, B!Shown, B!Statuses
<1>3. B!NoBar \in BarsOfBoard
  BY DEF B!NoBar, BarsOfBoard
<1>4. 0 \in 0 .. MaxFailures /\ 0 \in 0 .. MaxDecisions /\ 0 \in 0 .. MaxOthers
  BY DEF B!ModerationAssumption
<1>5. BoardTypes
  BY <1>1, <1>2, <1>3, <1>4, NoRunOfBoard DEF BoardTypes
<1> QED BY <1>5 DEF BoardInv

\* Every step.
LEMMA BoardNext ==
  ASSUME BoardInv, [B!Next]_(B!moderationVars)
  PROVE  BoardInv'
<1>1. CASE \E c \in Callers :
             \/ B!FetchDashboardData(c) \/ \E k \in B!Kinds : B!FetchAll(c, k)
             \/ \E e \in B!Entities, s \in {"accepted", "rejected"} : B!Decide(c, e, s)
             \/ \E s \in {"accepted", "rejected", "suspended"} : B!UpdateStatus(c, s)
             \/ \E e \in B!Entities : B!OpenBar(c, e)
  BY <1>1, AskStepTypes
<1>2. CASE B!LeaveDashboard \/ B!CloseBar \/ B!InvalidateCache
  BY <1>2, LeaveStepTypes
<1>3. CASE \E c \in Callers : (\E e \in B!Entities : B!ReadStatus(c, e)) \/ (\E k \in B!Kinds : B!Stored(c, k)) \/ B!Boarded(c)
  BY <1>3, FetchStepTypes
<1>4. CASE \E c \in Callers : B!UpdateEntityStatus(c) \/ B!Decided(c) \/ B!StatusUpdated(c) \/ B!LoadStatusRecord(c) \/ B!Fails(c)
  BY <1>4, DecisionStepTypes, StatusStepTypes, FailsStepTypes
<1>5. CASE \E c \in Callers : B!GetAllNetworkAdministrators(c) \/ B!AddNetworkAdministrator(c) \/ B!RemoveNetworkAdministrator(c)
  BY <1>5, AdministratorsStepTypes
<1>6. CASE \E e \in B!Entities, s \in B!Statuses : B!OtherDecides(e, s)
  BY <1>6, OtherStepTypes
<1>7. CASE UNCHANGED B!moderationVars
  BY <1>7 DEF B!moderationVars, BoardInv, BoardTypes, B!ModerationAssumption
<1>8. Users \subseteq B!Entities /\ Organizations \subseteq B!Entities
  BY DEF B!Entities
<1>9. \A c \in Callers : /\ \A u \in Users : B!ApproveUser(c, u) => B!Decide(c, u, "accepted")
                         /\ \A u \in Users : B!RejectUser(c, u) => B!Decide(c, u, "rejected")
                         /\ \A o \in Organizations : B!ApproveOrganization(c, o) => B!Decide(c, o, "accepted")
                         /\ \A o \in Organizations : B!RejectOrganization(c, o) => B!Decide(c, o, "rejected")
                         /\ B!HandleSuspend(c) => B!UpdateStatus(c, "suspended")
  BY DEF B!ApproveUser, B!RejectUser, B!ApproveOrganization, B!RejectOrganization, B!HandleSuspend
<1> QED BY <1>1, <1>2, <1>3, <1>4, <1>5, <1>6, <1>7, <1>8, <1>9 DEF B!Next

\* The types hold throughout.
LEMMA BoardInvariance == B!ModerationAssumption /\ B!Spec => []BoardInv
<1> SUFFICES ASSUME B!ModerationAssumption
             PROVE  B!Spec => []BoardInv
  OBVIOUS
<1>1. B!Init => BoardInv
  BY BoardInit
<1>2. BoardInv /\ [B!Next]_(B!moderationVars) => BoardInv'
  BY BoardNext
<1> QED BY <1>1, <1>2, PTL DEF B!Spec

\* Of the moderation pages.
THEOREM ModerationTypesHold == B!ModerationAssumption /\ B!Spec => []B!TypeOK
<1>1. BoardInv => B!TypeOK
  BY DEF BoardInv, BoardTypes, BarsOfBoard, B!TypeOK
<1> QED BY <1>1, BoardInvariance, PTL

-----------------------------------------------------------------------------
(* The moderation pages of an administrator who waits for each call.       *)

\* One call is under way at a time.
Sole(c) == \A d \in Callers \ {c} : runs[d].op = "none"
Single == \A c \in Callers : runs[c].op # "none" => Sole(c)

\* Without the dashboard there are no copies, and nobody asks for any.
Bare == \A e \in B!Entities : board[e] = "absent"
MountedOf(c) ==
  /\ ~mounted => runs[c].op \notin {"load", "refresh", "decide"}
  /\ mounted => runs[c].op \notin {"fetch", "add"}

\* While the bar is open, only it asks; it is told of decisions, or makes none.
BarInv == bar # B!NoBar => (\E e \in B!Entities : bar.of = {e}) /\ (bar.shared \/ bar.on = "administrators")
BarOf(c) ==
  /\ bar # B!NoBar => runs[c].op \in {"none", "status", "update", "remove"}
  /\ runs[c].op \in {"status", "update"} => bar # B!NoBar /\ runs[c].of = bar.of
  /\ runs[c].op = "update" => bar.on # "administrators"

\* The copies are those of the store, unless these are being fetched again.
StoredBy(c, k) == runs[c].op \in {"load", "refresh"} /\ k \in B!Fetched(c) \ runs[c].kinds
SharedInv ==
  (~Bare \/ \E c \in Callers : runs[c].op \in {"decide", "refresh"}) =>
    \A k \in B!Kinds : k \in shared \/ \E c \in Callers : runs[c].op = "refresh" /\ StoredBy(c, k)

\* What a fetch has read, and what of it is stored.
ReadOf(c) ==
  B!Fetching(c) =>
    \A e \in B!Entities \ uncertain :
      /\ B!Tells(runs[c].answer[e], e)
      /\ \A k \in runs[c].kinds : e \in B!Of(k) \ runs[c].rest => runs[c].answer[e] = status[e]
StoredOf(c) ==
  /\ runs[c].op \in {"load", "refresh"} => runs[c].kinds \subseteq B!Fetched(c)
  /\ \A k \in B!Kinds : StoredBy(c, k) =>
       /\ fetchedBy[k] = c
       /\ \A e \in B!Of(k) \ uncertain : all[e] # "absent"
  /\ runs[c].op = "load" => Bare
  /\ runs[c].op \in {"refresh", "decide", "update", "status"} => \E e \in B!Entities : runs[c].of = {e}

\* What has been done, and what has been read.
DoneOf(c) ==
  runs[c].stage = "done" =>
    \A e \in runs[c].of \ uncertain :
      /\ runs[c].op \in {"decide", "update"} => status[e] = runs[c].to
      /\ runs[c].op = "status" => runs[c].answer[e] = status[e]

\* What is shown is so, unless an answer is on its way.
Busy(op, e) == \E c \in Callers : runs[c].op = op /\ e \in runs[c].of
Answers(c, e) == runs[c].op \in {"decide", "update"} /\ runs[c].stage = "done" /\ e \in runs[c].of
Answering(e) == \E c \in Callers : Answers(c, e)
ShownInv ==
  \A e \in B!Entities \ uncertain :
    /\ B!Tells(all[e], e) \/ Answering(e)
    /\ B!Tells(board[e], e) \/ Answering(e) \/ Busy("refresh", e)
    /\ board[e] # "absent" => all[e] # "absent"
    /\ bar.of = {e} => B!Tells(bar.held, e) \/ Answering(e) \/ Busy("status", e)

CallInv(c) == MountedOf(c) /\ BarOf(c) /\ ReadOf(c) /\ StoredOf(c) /\ DoneOf(c)
WaitingInv ==
  /\ Single /\ (~mounted => Bare) /\ BarInv /\ SharedInv /\ ShownInv
  /\ \A c \in Callers : CallInv(c)

\* The same of the one call there may be.
SharedOf(c) ==
  (~Bare \/ runs[c].op \in {"decide", "refresh"}) =>
    \A k \in B!Kinds : k \in shared \/ (runs[c].op = "refresh" /\ StoredBy(c, k))
ShownOf(c) ==
  \A e \in B!Entities \ uncertain :
    /\ B!Tells(all[e], e) \/ Answers(c, e)
    /\ B!Tells(board[e], e) \/ Answers(c, e) \/ (runs[c].op = "refresh" /\ e \in runs[c].of)
    /\ board[e] # "absent" => all[e] # "absent"
    /\ bar.of = {e} => B!Tells(bar.held, e) \/ Answers(c, e) \/ (runs[c].op = "status" /\ e \in runs[c].of)
SoleInv(c) == (~mounted => Bare) /\ BarInv /\ SharedOf(c) /\ ShownOf(c) /\ CallInv(c)

\* It holds of one call if the others are idle.
LEMMA SoleHolds ==
  ASSUME WaitingInv, NEW c \in Callers, Sole(c)
  PROVE  SoleInv(c)
<1>1. SharedOf(c)
  BY DEF WaitingInv, SharedInv, SharedOf, Sole
<1>2. ShownOf(c)
  <2>1. \A e \in B!Entities : Answering(e) => Answers(c, e)
    BY DEF Answering, Answers, Sole
  <2>2. \A e \in B!Entities : Busy("refresh", e) => runs[c].op = "refresh" /\ e \in runs[c].of
    BY DEF Busy, Sole
  <2>3. \A e \in B!Entities : Busy("status", e) => runs[c].op = "status" /\ e \in runs[c].of
    BY DEF Busy, Sole
  <2> QED BY <2>1, <2>2, <2>3 DEF WaitingInv, ShownInv, ShownOf
<1> QED BY <1>1, <1>2 DEF WaitingInv, SoleInv

\* And the other way round, after a step of that call.
LEMMA SoleKeeps ==
  ASSUME NEW c \in Callers, Sole(c)', SoleInv(c)'
  PROVE  WaitingInv'
<1>1. Single'
  BY DEF Single, Sole
<1>2. SharedInv'
  BY DEF SoleInv, SharedOf, SharedInv, Sole
<1>3. ShownInv'
  <2>1. \A e \in B!Entities : Answers(c, e)' => Answering(e)'
    BY DEF Answering
  <2>2. \A e \in B!Entities : runs'[c].op = "refresh" /\ e \in runs'[c].of => Busy("refresh", e)'
    BY DEF Busy
  <2>3. \A e \in B!Entities : runs'[c].op = "status" /\ e \in runs'[c].of => Busy("status", e)'
    BY DEF Busy
  <2> QED BY <2>1, <2>2, <2>3 DEF SoleInv, ShownInv, ShownOf
<1>4. ASSUME NEW d \in Callers
      PROVE  CallInv(d)'
  <2>1. CASE d = c
    BY <2>1 DEF SoleInv
  <2>2. CASE d # c
    BY <2>2 DEF Sole, CallInv, MountedOf, BarOf, ReadOf, StoredOf, DoneOf, StoredBy, B!Fetching
  <2> QED BY <2>1, <2>2
<1> QED BY <1>1, <1>2, <1>3, <1>4 DEF WaitingInv, SoleInv

\* Who asks is alone, and so is who is not idle.
LEMMA AloneIs ==
  ASSUME BoardTypes, WaitingInv, Waits, NEW c \in Callers, B!Asks(c) \/ runs[c].op # "none"
  PROVE  /\ Sole(c) /\ SoleInv(c)
         /\ B!Asks(c) => runs[c].op = "none"
<1>1. B!Asks(c) => Sole(c) /\ runs[c].op = "none"
  BY NoRunOfBoard DEF B!Asks, B!Idle, Sole
<1>2. Sole(c)
  BY <1>1 DEF WaitingInv, Single
<1> QED BY <1>1, <1>2, SoleHolds

\* After a step of it it is still alone.
LEMMA StaysSole ==
  ASSUME NEW c \in Callers, Sole(c), Changes(c)
  PROVE  Sole(c)'
BY DEF Sole, Changes

\* The entities of some kinds.
LEMMA AllOfIs ==
  ASSUME NEW ks \in SUBSET B!Kinds, NEW e \in B!Entities
  PROVE  e \in AllOf(ks) <=> \E k \in ks : e \in B!Of(k)
BY DEF AllOf

\* Calls that nothing shown depends on.
Quiet == {"none", "administrators", "add", "remove"}

\* A step of such calls.
LEMMA QuietStepOfBoard ==
  ASSUME WaitingInv, NEW c \in Callers, Sole(c), Changes(c), runs[c].op \in Quiet, runs'[c].op \in Quiet,
         UNCHANGED <<status, all, mounted, board, shared, bar, uncertain>>,
         bar # B!NoBar => runs'[c].op \in {"none", "remove"}, mounted => runs'[c].op # "add"
  PROVE  WaitingInv'
<1> USE DEF Quiet
<1>1. SoleInv(c)
  BY SoleHolds
<1>2. (~mounted => Bare)' /\ BarInv'
  BY <1>1 DEF SoleInv, Bare, BarInv
<1>3. SharedOf(c)'
  BY <1>1 DEF SoleInv, SharedOf, Bare
<1>4. ShownOf(c)'
  BY <1>1 DEF SoleInv, ShownOf, Answers, B!Tells
<1>5. CallInv(c)'
  BY <1>1 DEF SoleInv, CallInv, MountedOf, BarOf, ReadOf, StoredOf, DoneOf, StoredBy, B!Fetching
<1> QED BY <1>2, <1>3, <1>4, <1>5, StaysSole, SoleKeeps DEF SoleInv

\* A fetch begins.
LEMMA FetchStarts ==
  ASSUME BoardTypes, WaitingInv, NEW c \in Callers, Sole(c), runs[c].op \in Quiet, bar = B!NoBar,
         NEW op \in {"load", "fetch"}, NEW ks \in SUBSET B!Kinds, B!Put(c, B!Fetch(op, {}, ks)), ~mounted,
         op = "load" => mounted' /\ ks = B!Kinds, op = "fetch" => ~mounted',
         UNCHANGED <<status, all, board, shared, bar, uncertain>>
  PROVE  WaitingInv'
<1> USE DEF Quiet
<1>1. SoleInv(c)
  BY SoleHolds
<1>2. PICK o \in FetchOps, of \in SUBSET B!Entities : o = op /\ of = {}
  BY DEF FetchOps
<1>3. /\ Changes(c) /\ runs'[c].op = o /\ runs'[c].of = of /\ runs'[c].kinds = ks
      /\ runs'[c].rest = AllOf(ks) /\ \A e \in B!Entities : runs'[c].answer[e] = "absent"
  BY <1>2, FetchBegins
<1>4. Bare /\ Bare' /\ BarInv'
  BY <1>1 DEF SoleInv, Bare, BarInv
<1>5. SharedOf(c)'
  BY <1>2, <1>3, <1>4 DEF SharedOf
<1>6. ShownOf(c)'
  BY <1>1 DEF SoleInv, ShownOf, Answers, B!Tells
<1>7. MountedOf(c)' /\ BarOf(c)' /\ DoneOf(c)'
  BY <1>2, <1>3 DEF MountedOf, BarOf, DoneOf
<1>8. ReadOf(c)'
  <2>1. \A e \in B!Entities, k \in ks : e \in B!Of(k) => e \in AllOf(ks)
    BY DEF AllOf
  <2> QED BY <1>3, <2>1 DEF ReadOf, B!Tells
<1>9. StoredOf(c)'
  <2>1. op = "load" => B!Fetched(c)' = B!Kinds
    BY <1>2, <1>3 DEF B!Fetched
  <2> QED BY <1>2, <1>3, <1>4, <2>1 DEF StoredOf, StoredBy
<1> QED BY <1>3, <1>4, <1>5, <1>6, <1>7, <1>8, <1>9, StaysSole, SoleKeeps DEF SoleInv, CallInv

\* A fetch is asked for.
LEMMA FetchAsked ==
  ASSUME BoardTypes, WaitingInv, Waits, NEW c \in Callers, B!FetchDashboardData(c) \/ \E k \in B!Kinds : B!FetchAll(c, k)
  PROVE  WaitingInv'
<1>1. Sole(c) /\ runs[c].op \in Quiet
  BY AloneIs DEF B!FetchDashboardData, B!FetchAll, Quiet
<1>2. CASE B!FetchDashboardData(c)
  <2>1. /\ ~mounted /\ bar = B!NoBar /\ mounted' = TRUE /\ B!Put(c, B!Fetch("load", {}, B!Kinds))
        /\ UNCHANGED <<status, all, board, shared, bar, uncertain>>
    BY <1>2 DEF B!FetchDashboardData, B!Zome, B!Store, B!Bounds
  <2>2. PICK op \in {"load", "fetch"}, ks \in SUBSET B!Kinds : op = "load" /\ ks = B!Kinds
    OBVIOUS
  <2>3. B!Put(c, B!Fetch(op, {}, ks)) /\ (op = "load" => mounted' /\ ks = B!Kinds) /\ (op = "fetch" => ~mounted')
    BY <2>1, <2>2
  <2> QED BY <1>1, <2>1, <2>3, FetchStarts
<1>3. CASE \E k \in B!Kinds : B!FetchAll(c, k)
  <2>1. PICK k \in B!Kinds : /\ ~mounted /\ bar = B!NoBar /\ B!Put(c, B!Fetch("fetch", {}, {k}))
                              /\ UNCHANGED <<status, all, mounted, board, shared, bar, uncertain>>
    BY <1>3 DEF B!FetchAll, B!Zome, B!Store, B!Pages, B!Bounds
  <2>2. PICK op \in {"load", "fetch"}, ks \in SUBSET B!Kinds : op = "fetch" /\ ks = {k}
    OBVIOUS
  <2>3. B!Put(c, B!Fetch(op, {}, ks)) /\ (op = "load" => mounted' /\ ks = B!Kinds) /\ (op = "fetch" => ~mounted')
    BY <2>1, <2>2
  <2> QED BY <1>1, <2>1, <2>3, FetchStarts
<1> QED BY <1>2, <1>3

\* A decision is made on the dashboard.
LEMMA DecideAsked ==
  ASSUME BoardTypes, WaitingInv, Waits, NEW c \in Callers, NEW e \in B!Entities, NEW s \in {"accepted", "rejected"}, B!Decide(c, e, s)
  PROVE  WaitingInv'
<1>1. Sole(c) /\ runs[c].op = "none" /\ SoleInv(c)
  BY AloneIs DEF B!Decide
<1>2. /\ bar = B!NoBar /\ mounted /\ board[e] = "pending" /\ B!Put(c, B!Run("decide", {e}, s, {}, {}))
      /\ UNCHANGED <<status, all, mounted, board, shared, bar, uncertain, fetchedBy>>
  BY DEF B!Decide, B!Queued, B!Zome, B!Store, B!Pages, B!Bounds
<1>3. PICK op \in {"decide", "update", "administrators", "add", "remove"}, of \in SUBSET B!Entities, to \in B!Statuses \cup {"none"} :
         op = "decide" /\ of = {e} /\ to = s
  BY DEF B!Statuses
<1>4. Changes(c) /\ runs'[c].op = op /\ runs'[c].of = of /\ runs'[c].to = to /\ runs'[c].stage = "sent"
  BY <1>2, <1>3, Begins DEF B!Statuses
<1>5. (~mounted => Bare)' /\ BarInv'
  BY <1>1, <1>2 DEF SoleInv, Bare, BarInv
<1>6. SharedOf(c)'
  BY <1>1, <1>2 DEF SoleInv, SharedOf, Bare
<1>7. ShownOf(c)'
  BY <1>1, <1>2 DEF SoleInv, ShownOf, Answers, B!Tells
<1>8. CallInv(c)'
  BY <1>1, <1>2, <1>3, <1>4 DEF SoleInv, CallInv, MountedOf, BarOf, ReadOf, StoredOf, DoneOf, StoredBy, B!Fetching
<1> QED BY <1>1, <1>4, <1>5, <1>6, <1>7, <1>8, StaysSole, SoleKeeps DEF SoleInv

\* A status is changed from the bar.
LEMMA UpdateAsked ==
  ASSUME BoardTypes, WaitingInv, Waits, NEW c \in Callers, NEW s \in {"accepted", "rejected", "suspended"}, B!UpdateStatus(c, s)
  PROVE  WaitingInv'
<1>1. Sole(c) /\ runs[c].op = "none" /\ SoleInv(c)
  BY AloneIs DEF B!UpdateStatus
<1>2. /\ bar.on # "administrators" /\ bar.held # "none" /\ B!Put(c, B!Run("update", bar.of, s, {}, {}))
      /\ UNCHANGED <<status, all, mounted, board, shared, bar, uncertain, fetchedBy>>
  BY DEF B!UpdateStatus, B!BarOffers, B!Zome, B!Store, B!Pages, B!Bounds
<1>3. bar # B!NoBar /\ bar.of \in SUBSET B!Entities
  BY <1>2, BarIs DEF BoardTypes, BarsOfBoard
<1>4. PICK op \in {"decide", "update", "administrators", "add", "remove"}, of \in SUBSET B!Entities, to \in B!Statuses \cup {"none"} :
         op = "update" /\ of = bar.of /\ to = s
  BY <1>3 DEF B!Statuses
<1>5. Changes(c) /\ runs'[c].op = op /\ runs'[c].of = of /\ runs'[c].to = to /\ runs'[c].stage = "sent"
  BY <1>2, <1>4, Begins DEF B!Statuses
<1>6. (~mounted => Bare)' /\ BarInv'
  BY <1>1, <1>2 DEF SoleInv, Bare, BarInv
<1>7. SharedOf(c)'
  BY <1>1, <1>2, <1>4, <1>5 DEF SoleInv, SharedOf, Bare
<1>8. ShownOf(c)'
  BY <1>1, <1>2 DEF SoleInv, ShownOf, Answers, B!Tells
<1>9. \E e \in B!Entities : runs'[c].of = {e}
  BY <1>1, <1>3, <1>4, <1>5 DEF SoleInv, BarInv
<1>10. CallInv(c)'
  BY <1>1, <1>2, <1>3, <1>4, <1>5, <1>9 DEF SoleInv, CallInv, MountedOf, BarOf, ReadOf, StoredOf, DoneOf, StoredBy, B!Fetching
<1> QED BY <1>1, <1>5, <1>6, <1>7, <1>8, <1>10, StaysSole, SoleKeeps DEF SoleInv

\* The bar is opened.
LEMMA BarOpened ==
  ASSUME BoardTypes, WaitingInv, Waits, NEW c \in Callers, NEW e \in B!Entities, B!OpenBar(c, e)
  PROVE  WaitingInv'
<1>1. Sole(c) /\ runs[c].op = "none" /\ SoleInv(c)
  BY AloneIs DEF B!OpenBar
<1>2. B!Put(c, B!AskStatus(e)) /\ UNCHANGED <<status, all, mounted, board, shared, uncertain, fetchedBy>>
  BY DEF B!OpenBar, B!Zome, B!Store, B!Bounds
<1>3. Changes(c) /\ runs'[c].op = "status" /\ runs'[c].of = {e} /\ runs'[c].stage = "sent"
  BY <1>2, AskBegins
<1>4. /\ bar'.of = {e} /\ bar'.held = "none" /\ bar'.on # "none"
      /\ bar'.shared \/ bar'.on = "administrators" \/ (B!Queued(e) /\ B!KindOf(e) \notin shared)
  BY OpenBarIs
<1>5. ~(B!Queued(e) /\ B!KindOf(e) \notin shared)
  BY <1>1, KindsAre DEF B!Queued, SoleInv, SharedOf, Bare
<1>6. (~mounted => Bare)' /\ BarInv' /\ bar' # B!NoBar
  BY <1>1, <1>2, <1>4, <1>5, BarIs DEF SoleInv, Bare, BarInv
<1>7. SharedOf(c)'
  BY <1>1, <1>2, <1>3 DEF SoleInv, SharedOf, Bare
<1>8. ShownOf(c)'
  BY <1>1, <1>2, <1>4 DEF SoleInv, ShownOf, Answers, B!Tells
<1>9. CallInv(c)'
  BY <1>1, <1>2, <1>3, <1>4, <1>6 DEF SoleInv, CallInv, MountedOf, BarOf, ReadOf, StoredOf, DoneOf, StoredBy, B!Fetching
<1> QED BY <1>1, <1>3, <1>6, <1>7, <1>8, <1>9, StaysSole, SoleKeeps DEF SoleInv

\* A fetch reads an entity.
LEMMA FetchReadStep ==
  ASSUME BoardInv, WaitingInv, Waits, NEW c \in Callers, NEW e \in B!Entities, B!ReadStatus(c, e)
  PROVE  WaitingInv'
<1>1. PICK s \in B!Shown : /\ B!Told(c, e, s) /\ B!Fetching(c) /\ e \in runs[c].rest
                           /\ UNCHANGED <<status, all, mounted, board, shared, bar, fetchedBy>>
                           /\ uncertain \subseteq uncertain' /\ (s = status[e] \/ e \in uncertain')
  BY ReadIs DEF B!Zome, B!Store, B!Pages
<1>2. Sole(c) /\ SoleInv(c)
  BY <1>1, AloneIs DEF BoardInv, B!Fetching
<1>3. /\ Changes(c) /\ runs'[c].op = runs[c].op /\ runs'[c].of = runs[c].of /\ runs'[c].kinds = runs[c].kinds
      /\ runs'[c].rest = runs[c].rest \ {e} /\ runs'[c].answer = [runs[c].answer EXCEPT ![e] = s]
  BY <1>1, ToldIs DEF BoardInv
<1>4. runs[c].answer \in [B!Entities -> B!Shown] /\ runs[c].op \in FetchOps
  BY <1>1 DEF BoardInv, BoardTypes, RunsOfBoard, B!Fetching, FetchOps
<1>5. \A x \in B!Entities : runs'[c].answer[x] = IF x = e THEN s ELSE runs[c].answer[x]
  BY <1>3, <1>4
<1>6. (~mounted => Bare)' /\ BarInv'
  BY <1>1, <1>2 DEF SoleInv, Bare, BarInv
<1>7. B!Fetched(c)' = B!Fetched(c)
  BY <1>3 DEF B!Fetched
<1>8. SharedOf(c)'
  BY <1>1, <1>2, <1>3, <1>7 DEF SoleInv, SharedOf, Bare, StoredBy
<1>9. ShownOf(c)'
  BY <1>1, <1>2, <1>3, <1>4 DEF SoleInv, ShownOf, Answers, B!Tells, FetchOps
<1>10. MountedOf(c)' /\ BarOf(c)' /\ DoneOf(c)'
  BY <1>1, <1>2, <1>3, <1>4 DEF SoleInv, CallInv, MountedOf, BarOf, DoneOf, FetchOps
<1>11. ReadOf(c)'
  BY <1>1, <1>2, <1>3, <1>5 DEF SoleInv, CallInv, ReadOf, B!Tells, B!Fetching
<1>12. StoredOf(c)'
  BY <1>1, <1>2, <1>3, <1>4, <1>7 DEF SoleInv, CallInv, StoredOf, StoredBy, Bare, FetchOps
<1> QED BY <1>2, <1>3, <1>6, <1>8, <1>9, <1>10, <1>11, <1>12, StaysSole, SoleKeeps DEF SoleInv, CallInv

\* A kind is stored.
LEMMA StoredStep ==
  ASSUME BoardTypes, WaitingInv, Waits, NEW c \in Callers, NEW k \in B!Kinds, B!Stored(c, k)
  PROVE  WaitingInv'
<1>1. /\ B!Fetching(c) /\ k \in runs[c].kinds /\ runs[c].rest \cap B!Of(k) = {}
      /\ all' = B!Merge(B!Of(k), runs[c].answer, all)
      /\ fetchedBy' = [fetchedBy EXCEPT ![k] = c] /\ shared' = shared \ {k}
      /\ bar' = IF bar.of \subseteq B!Of(k) THEN [bar EXCEPT !.shared = FALSE] ELSE bar
      /\ runs' = [runs EXCEPT ![c].kinds = @ \ {k}, ![c].stage = "stored"]
      /\ UNCHANGED <<status, mounted, board, uncertain>>
  BY DEF B!Stored, B!Zome, B!Bounds
<1>2. Sole(c) /\ SoleInv(c)
  BY <1>1, AloneIs DEF B!Fetching
<1>3. /\ Changes(c) /\ runs'[c].op = runs[c].op /\ runs'[c].of = runs[c].of /\ runs'[c].kinds = runs[c].kinds \ {k}
      /\ runs'[c].rest = runs[c].rest /\ runs'[c].answer = runs[c].answer
  BY <1>1, StoredIs
<1>4. /\ runs[c].answer \in [B!Entities -> B!Shown] /\ all \in [B!Entities -> B!Shown] /\ runs[c].op \in FetchOps
      /\ DOMAIN fetchedBy = B!Kinds /\ runs[c].kinds \subseteq B!Kinds
  BY <1>1 DEF BoardTypes, RunsOfBoard, B!Fetching, FetchOps
<1>5. bar = B!NoBar /\ bar' = bar
  <2>1. bar = B!NoBar
    BY <1>2, <1>4 DEF SoleInv, CallInv, BarOf, FetchOps
  <2> QED BY <1>1, <2>1, BarIs
<1>6. \A e \in B!Entities : all'[e] = IF e \in B!Of(k) THEN runs[c].answer[e] ELSE all[e]
  <2>1. PICK of \in SUBSET B!Entities, new \in [B!Entities -> B!Shown] : of = B!Of(k) /\ new = runs[c].answer
    BY <1>4, KindsAre
  <2>2. all' = B!Merge(of, new, all)
    BY <1>1, <2>1
  <2>3. PICK old \in [B!Entities -> B!Shown] : old = all
    BY <1>4
  <2>4. \A e \in B!Entities : B!Merge(of, new, old)[e] = IF e \in of THEN new[e] ELSE old[e]
    BY DEF B!Merge
  <2> QED BY <2>1, <2>2, <2>3, <2>4
<1>7. \A e \in B!Of(k) \ uncertain : e \in B!Entities /\ all'[e] = status[e] /\ all'[e] # "absent"
  <2> SUFFICES ASSUME NEW e \in B!Of(k) \ uncertain
               PROVE  e \in B!Entities /\ all'[e] = status[e] /\ all'[e] # "absent"
    OBVIOUS
  <2>1. e \in B!Entities
    BY KindsAre
  <2>2. all'[e] = status[e]
    BY <1>1, <1>2, <1>6, <2>1 DEF SoleInv, CallInv, ReadOf
  <2>3. status[e] # "absent"
    BY <2>1 DEF BoardTypes, B!Statuses
  <2> QED BY <2>1, <2>2, <2>3
<1>8. (~mounted => Bare)' /\ BarInv'
  BY <1>1, <1>2, <1>5 DEF SoleInv, Bare, BarInv
<1>9. B!Fetched(c)' = B!Fetched(c)
  BY <1>3 DEF B!Fetched
<1>10. \A j \in B!Kinds : StoredBy(c, j)' <=> (StoredBy(c, j) \/ (j = k /\ runs[c].op \in {"load", "refresh"}))
  BY <1>1, <1>2, <1>3, <1>9 DEF StoredBy, SoleInv, CallInv, StoredOf
<1>11. SharedOf(c)'
  <2>1. CASE runs[c].op = "load"
    BY <1>1, <1>2, <1>3, <2>1 DEF SoleInv, CallInv, StoredOf, SharedOf, Bare
  <2>2. CASE runs[c].op = "fetch"
    BY <1>1, <1>2, <1>3, <2>2 DEF SoleInv, CallInv, MountedOf, SharedOf, Bare
  <2>3. CASE runs[c].op = "refresh"
    BY <1>1, <1>2, <1>3, <1>10, <2>3 DEF SoleInv, SharedOf
  <2> QED BY <1>4, <2>1, <2>2, <2>3 DEF FetchOps
<1>12. ShownOf(c)'
  <2> SUFFICES ASSUME NEW e \in B!Entities \ uncertain
               PROVE  /\ B!Tells(all'[e], e)
                      /\ B!Tells(board[e], e) \/ (runs[c].op = "refresh" /\ e \in runs[c].of)
                      /\ board[e] # "absent" => all'[e] # "absent"
                      /\ bar.of = {e} => B!Tells(bar.held, e)
    BY <1>1, <1>3, <1>5 DEF ShownOf, B!Tells
  <2>1. ~Answers(c, e) /\ runs[c].op # "status"
    BY <1>4 DEF Answers, FetchOps
  <2>2. CASE e \in B!Of(k)
    BY <1>2, <1>7, <2>1, <2>2 DEF SoleInv, ShownOf, B!Tells
  <2>3. CASE e \notin B!Of(k)
    BY <1>2, <1>6, <2>1, <2>3 DEF SoleInv, ShownOf, B!Tells
  <2> QED BY <2>2, <2>3
<1>13. MountedOf(c)' /\ BarOf(c)' /\ DoneOf(c)'
  BY <1>1, <1>2, <1>3, <1>4, <1>5 DEF SoleInv, CallInv, MountedOf, BarOf, DoneOf, FetchOps
<1>14. ReadOf(c)'
  BY <1>1, <1>2, <1>3 DEF SoleInv, CallInv, ReadOf, B!Tells, B!Fetching
<1>15. StoredOf(c)'
  <2>1. \A j \in B!Kinds : StoredBy(c, j)' => fetchedBy'[j] = c /\ \A e \in B!Of(j) \ uncertain' : all'[e] # "absent"
    <3> SUFFICES ASSUME NEW j \in B!Kinds, StoredBy(c, j)'
                 PROVE  fetchedBy'[j] = c /\ \A e \in B!Of(j) \ uncertain : all'[e] # "absent"
      BY <1>1
    <3>1. CASE j = k
      BY <1>1, <1>4, <1>7, <3>1
    <3>2. CASE j # k
      <4>1. StoredBy(c, j)
        BY <1>10, <3>2
      <4>2. fetchedBy'[j] = fetchedBy[j] /\ fetchedBy[j] = c
        BY <1>1, <1>2, <1>4, <3>2, <4>1 DEF SoleInv, CallInv, StoredOf
      <4>3. ASSUME NEW e \in B!Of(j) \ uncertain
            PROVE  all'[e] # "absent"
        <5>1. e \in B!Entities /\ all[e] # "absent"
          BY <1>2, <4>1, <4>3, KindsAre DEF SoleInv, CallInv, StoredOf
        <5> QED BY <1>6, <1>7, <4>3, <5>1
      <4> QED BY <4>2, <4>3
    <3> QED BY <3>1, <3>2
  <2> QED BY <1>1, <1>2, <1>3, <1>4, <1>9, <2>1 DEF SoleInv, CallInv, StoredOf, Bare, FetchOps
<1> QED BY <1>2, <1>3, <1>8, <1>11, <1>12, <1>13, <1>14, <1>15, StaysSole, SoleKeeps DEF SoleInv, CallInv

\* The page has its answer.
LEMMA BoardedStep ==
  ASSUME BoardTypes, WaitingInv, Waits, NEW c \in Callers, B!Boarded(c)
  PROVE  WaitingInv'
<1>1. /\ B!Fetching(c) /\ runs[c].kinds = {} /\ B!Put(c, B!NoRun)
      /\ fetchedBy' = [k \in B!Kinds |-> IF fetchedBy[k] = c THEN "done" ELSE fetchedBy[k]]
      /\ UNCHANGED <<status, all, mounted, bar, uncertain>>
  BY DEF B!Boarded, B!Zome, B!Bounds
<1>2. Sole(c) /\ SoleInv(c)
  BY <1>1, AloneIs DEF B!Fetching
<1>3. Changes(c) /\ runs'[c] = B!NoRun /\ runs'[c].op = "none"
  BY <1>1, Ends, NoRunOfBoard
<1>4. runs[c].answer \in [B!Entities -> B!Shown] /\ board \in [B!Entities -> B!Shown] /\ runs[c].op \in FetchOps /\ runs[c].of \subseteq B!Entities
  BY <1>1 DEF BoardTypes, RunsOfBoard, B!Fetching, FetchOps
<1>5. CallInv(c)'
  BY <1>3 DEF CallInv, MountedOf, BarOf, ReadOf, StoredOf, DoneOf, StoredBy, B!Fetching
<1>6. BarInv'
  BY <1>1, <1>2 DEF SoleInv, BarInv
<1>7. \A e \in B!Entities : ~Answers(c, e) /\ runs[c].op # "status"
  BY <1>4 DEF Answers, FetchOps
<1>8. CASE runs[c].op = "fetch"
  <2>1. UNCHANGED <<board, shared>> /\ Bare
    BY <1>2, <1>8 DEF B!Boarded, SoleInv, CallInv, MountedOf
  <2>2. (~mounted => Bare)' /\ SharedOf(c)'
    BY <1>3, <2>1 DEF Bare, SharedOf
  <2>3. ShownOf(c)'
    BY <1>1, <1>2, <1>3, <1>7, <1>8, <2>1 DEF SoleInv, ShownOf, Answers, B!Tells
  <2> QED BY <1>2, <1>3, <1>5, <1>6, <2>2, <2>3, StaysSole, SoleKeeps DEF SoleInv
<1>9. CASE runs[c].op \in {"load", "refresh"}
  <2>1. PICK F \in SUBSET B!Kinds : F = B!Fetched(c)
    BY <1>4, KindsAre DEF B!Fetched
  <2>2. /\ board' = B!Merge(AllOf(F), runs[c].answer, board)
        /\ shared' = (shared \ F) \cup {k \in F : fetchedBy[k] = c}
    BY <1>9, <2>1 DEF B!Boarded, AllOf
  <2>3. \A k \in F : StoredBy(c, k)
    BY <1>1, <1>9, <2>1 DEF StoredBy
  <2>4. \A k \in F : fetchedBy[k] = c /\ \A e \in B!Of(k) \ uncertain : all[e] # "absent"
    BY <1>2, <2>3 DEF SoleInv, CallInv, StoredOf
  <2>5. \A e \in B!Entities : board'[e] = IF e \in AllOf(F) THEN runs[c].answer[e] ELSE board[e]
    BY <2>2 DEF B!Merge
  <2>6. mounted
    BY <1>2, <1>9 DEF SoleInv, CallInv, MountedOf
  <2>7. SharedOf(c)'
    <3> SUFFICES ASSUME NEW k \in B!Kinds
                 PROVE  k \in shared'
      BY <1>3 DEF SharedOf
    <3>1. CASE k \in F
      BY <2>2, <2>4, <3>1
    <3>2. CASE k \notin F
      <4>1. runs[c].op = "refresh"
        BY <1>9, <2>1, <3>2 DEF B!Fetched
      <4>2. k \in shared
        BY <1>2, <2>1, <3>2, <4>1 DEF SoleInv, SharedOf, StoredBy
      <4> QED BY <2>2, <3>2, <4>2
    <3> QED BY <3>1, <3>2
  <2>8. ShownOf(c)'
    <3> SUFFICES ASSUME NEW e \in B!Entities \ uncertain
                 PROVE  /\ B!Tells(all[e], e) /\ B!Tells(board'[e], e)
                        /\ board'[e] # "absent" => all[e] # "absent"
                        /\ bar.of = {e} => B!Tells(bar.held, e)
      BY <1>1 DEF ShownOf, B!Tells
    <3>1. /\ B!Tells(all[e], e) /\ (bar.of = {e} => B!Tells(bar.held, e))
          /\ B!Tells(board[e], e) \/ (runs[c].op = "refresh" /\ e \in runs[c].of)
          /\ board[e] # "absent" => all[e] # "absent"
      BY <1>2, <1>7 DEF SoleInv, ShownOf
    <3>2. CASE e \in AllOf(F)
      <4>1. B!Tells(runs[c].answer[e], e)
        BY <1>1, <1>2 DEF SoleInv, CallInv, ReadOf
      <4>2. PICK k \in F : e \in B!Of(k)
        BY <3>2, AllOfIs
      <4> QED BY <2>4, <2>5, <3>1, <3>2, <4>1, <4>2
    <3>3. CASE e \notin AllOf(F)
      <4>1. ~(runs[c].op = "refresh" /\ e \in runs[c].of)
        <5> SUFFICES ASSUME runs[c].op = "refresh", e \in runs[c].of
                     PROVE  FALSE
          OBVIOUS
        <5>1. B!KindOf(e) \in F
          BY <2>1 DEF B!Fetched
        <5>2. e \in AllOf(F)
          BY <5>1, KindsAre, AllOfIs
        <5> QED BY <3>3, <5>2
      <4> QED BY <2>5, <3>1, <3>3, <4>1
    <3> QED BY <3>2, <3>3
  <2> QED BY <1>1, <1>2, <1>3, <1>5, <1>6, <2>6, <2>7, <2>8, StaysSole, SoleKeeps DEF SoleInv
<1> QED BY <1>4, <1>8, <1>9 DEF FetchOps

\* The zome changes a status.
LEMMA UpdateStep ==
  ASSUME BoardTypes, WaitingInv, Waits, NEW c \in Callers, B!UpdateEntityStatus(c)
  PROVE  WaitingInv'
<1>1. /\ runs[c].op \in {"decide", "update"} /\ runs' = [runs EXCEPT ![c].stage = "done"]
      /\ status' = [e \in B!Entities |-> IF e \in runs[c].of THEN runs[c].to ELSE status[e]]
      /\ UNCHANGED <<all, mounted, board, shared, bar, uncertain, fetchedBy>>
  BY DEF B!UpdateEntityStatus, B!At, B!Store, B!Pages
<1>2. Sole(c) /\ SoleInv(c)
  BY <1>1, AloneIs
<1>3. /\ Changes(c) /\ runs'[c].op = runs[c].op /\ runs'[c].of = runs[c].of /\ runs'[c].to = runs[c].to
      /\ runs'[c].stage = "done"
  BY <1>1, StageDone
<1>4. PICK e \in B!Entities : runs[c].of = {e}
  BY <1>1, <1>2 DEF SoleInv, CallInv, StoredOf
<1>5. status'[e] = runs[c].to /\ \A x \in B!Entities \ {e} : status'[x] = status[x]
  BY <1>1, <1>4
<1>6. (~mounted => Bare)' /\ BarInv'
  BY <1>1, <1>2 DEF SoleInv, Bare, BarInv
<1>7. SharedOf(c)'
  BY <1>1, <1>2, <1>3 DEF SoleInv, SharedOf, Bare, StoredBy
<1>8. ShownOf(c)'
  <2> SUFFICES ASSUME NEW x \in B!Entities \ uncertain
               PROVE  /\ B!Tells(all[x], x)' \/ Answers(c, x)'
                      /\ B!Tells(board[x], x)' \/ Answers(c, x)'
                      /\ board[x] # "absent" => all[x] # "absent"
                      /\ bar.of = {x} => B!Tells(bar.held, x)' \/ Answers(c, x)'
    BY <1>1 DEF ShownOf
  <2>1. CASE x = e
    BY <1>1, <1>2, <1>3, <1>4, <2>1 DEF Answers, SoleInv, ShownOf
  <2>2. CASE x # e
    BY <1>1, <1>2, <1>4, <1>5, <2>2 DEF Answers, SoleInv, ShownOf, B!Tells
  <2> QED BY <2>1, <2>2
<1>9. MountedOf(c)' /\ BarOf(c)'
  BY <1>1, <1>2, <1>3 DEF SoleInv, CallInv, MountedOf, BarOf
<1>10. ReadOf(c)' /\ StoredOf(c)'
  BY <1>1, <1>2, <1>3, <1>4 DEF ReadOf, StoredOf, StoredBy, B!Fetching
<1>11. DoneOf(c)'
  BY <1>1, <1>3, <1>4, <1>5 DEF DoneOf
<1> QED BY <1>2, <1>3, <1>6, <1>7, <1>8, <1>9, <1>10, <1>11, StaysSole, SoleKeeps DEF SoleInv, CallInv

\* A decision of the dashboard has been done: the queue is fetched again.
LEMMA DecidedStepOfBoard ==
  ASSUME BoardTypes, WaitingInv, Waits, NEW c \in Callers, B!Decided(c)
  PROVE  WaitingInv'
<1>0. runs[c].of \subseteq B!Entities
  BY DEF BoardTypes, RunsOfBoard
<1>1. PICK e \in B!Entities :
         /\ e \in runs[c].of /\ B!At(c, "decide", "done") /\ B!Updated(e, runs[c].to) /\ B!UpdateInDashboard(e, "pending")
         /\ ~B!BarAsks(e) => B!Put(c, B!Fetch("refresh", {e}, {B!KindOf(e)}))
         /\ UNCHANGED <<status, fetchedBy, mounted, shared, bar, uncertain>>
  BY <1>0 DEF B!Decided, B!Zome, B!Bounds
<1>2. runs[c].op = "decide" /\ runs[c].stage = "done"
  BY <1>1 DEF B!At
<1>3. Sole(c) /\ SoleInv(c)
  BY <1>2, AloneIs
<1>4. bar = B!NoBar /\ mounted /\ runs[c].of = {e}
  BY <1>1, <1>2, <1>3 DEF SoleInv, CallInv, BarOf, MountedOf, StoredOf
<1>5. B!Put(c, B!Fetch("refresh", {e}, {B!KindOf(e)}))
  <2>1. ~B!BarAsks(e)
    BY <1>4, BarIs DEF B!BarAsks
  <2> QED BY <1>1, <2>1
<1>6. PICK op \in FetchOps, of \in SUBSET B!Entities, ks \in SUBSET B!Kinds : op = "refresh" /\ of = {e} /\ ks = {B!KindOf(e)}
  BY KindsAre DEF FetchOps
<1>7. /\ Changes(c) /\ runs'[c].op = op /\ runs'[c].of = of /\ runs'[c].kinds = ks
      /\ runs'[c].rest = AllOf(ks) /\ \A x \in B!Entities : runs'[c].answer[x] = "absent"
  BY <1>5, <1>6, FetchBegins
<1>8. PICK s \in B!Shown, p \in B!Shown : s = runs[c].to /\ p = "pending"
  BY <1>2 DEF BoardTypes, B!Shown, B!Statuses
<1>9. /\ \A x \in B!Entities \ {e} : all'[x] = all[x] /\ board'[x] = board[x]
      /\ all'[e] = IF all[e] = "absent" THEN "absent" ELSE s
      /\ board'[e] = IF board[e] = "absent" THEN "absent" ELSE p
  BY <1>1, <1>8, ShownIs
<1>10. s # "absent"
  BY <1>2, <1>8 DEF BoardTypes, B!Statuses
<1>11. (~mounted => Bare)' /\ BarInv'
  BY <1>1, <1>3, <1>4 DEF SoleInv, BarInv
<1>12. SharedOf(c)'
  BY <1>1, <1>2, <1>3 DEF SoleInv, SharedOf
<1>13. ShownOf(c)'
  <2> SUFFICES ASSUME NEW x \in B!Entities \ uncertain
               PROVE  /\ B!Tells(all'[x], x)
                      /\ B!Tells(board'[x], x) \/ x = e
                      /\ board'[x] # "absent" => all'[x] # "absent"
                      /\ bar.of # {x}
    BY <1>1, <1>6, <1>7 DEF ShownOf, B!Tells
  <2>1. bar.of # {x}
    BY <1>4, BarIs
  <2>2. CASE x = e
    <3>1. status[e] = runs[c].to
      BY <1>1, <1>2, <1>3, <2>2 DEF SoleInv, CallInv, DoneOf
    <3> QED BY <1>3, <1>8, <1>9, <1>10, <2>1, <2>2, <3>1 DEF SoleInv, ShownOf, B!Tells
  <2>3. CASE x # e
    <3>1. ~Answers(c, x)
      BY <1>4, <2>3 DEF Answers
    <3> QED BY <1>2, <1>3, <1>9, <2>1, <2>3, <3>1 DEF SoleInv, ShownOf
  <2> QED BY <2>2, <2>3
<1>14. MountedOf(c)' /\ BarOf(c)' /\ DoneOf(c)'
  BY <1>1, <1>4, <1>6, <1>7 DEF MountedOf, BarOf, DoneOf
<1>15. ReadOf(c)'
  <2>1. \A x \in B!Entities, k \in ks : x \in B!Of(k) => x \in AllOf(ks)
    BY DEF AllOf
  <2> QED BY <1>7, <2>1 DEF ReadOf, B!Tells
<1>16. StoredOf(c)'
  <2>1. B!Fetched(c)' = ks
    BY <1>6, <1>7 DEF B!Fetched
  <2> QED BY <1>6, <1>7, <2>1 DEF StoredOf, StoredBy
<1> QED BY <1>3, <1>7, <1>11, <1>12, <1>13, <1>14, <1>15, <1>16, StaysSole, SoleKeeps DEF SoleInv, CallInv

\* A change by the bar has been done: it asks for the status.
LEMMA StatusUpdatedStep ==
  ASSUME BoardTypes, WaitingInv, Waits, NEW c \in Callers, B!StatusUpdated(c)
  PROVE  WaitingInv'
<1>0. runs[c].of \subseteq B!Entities
  BY DEF BoardTypes, RunsOfBoard
<1>1. PICK e \in B!Entities :
         /\ e \in runs[c].of /\ B!At(c, "update", "done") /\ B!Updated(e, runs[c].to)
         /\ IF B!InStore(e) THEN B!UpdateInDashboard(e, runs[c].to) ELSE UNCHANGED board
         /\ B!Put(c, IF bar.of = {e} /\ (bar.shared \/ runs[c].to = "suspended") THEN B!AskStatus(e) ELSE B!NoRun)
         /\ UNCHANGED <<status, fetchedBy, mounted, shared, bar, uncertain>>
  BY <1>0 DEF B!StatusUpdated, B!Zome, B!Bounds
<1>2. runs[c].op = "update" /\ runs[c].stage = "done"
  BY <1>1 DEF B!At
<1>3. Sole(c) /\ SoleInv(c)
  BY <1>2, AloneIs
<1>4. bar # B!NoBar /\ bar.of = {e} /\ bar.shared /\ runs[c].of = {e}
  BY <1>1, <1>2, <1>3 DEF SoleInv, CallInv, BarOf, BarInv, StoredOf
<1>5. Changes(c) /\ runs'[c].op = "status" /\ runs'[c].of = {e} /\ runs'[c].stage = "sent"
  <2>1. B!Put(c, B!AskStatus(e))
    BY <1>1, <1>4
  <2> QED BY <2>1, AskBegins
<1>6. PICK s \in B!Shown : s = runs[c].to
  BY <1>2 DEF BoardTypes, B!Shown, B!Statuses
<1>7. /\ \A x \in B!Entities \ {e} : all'[x] = all[x] /\ board'[x] = board[x]
      /\ all'[e] = IF all[e] = "absent" THEN "absent" ELSE s
      /\ IF all[e] = "absent" THEN board'[e] = board[e] ELSE board'[e] = IF board[e] = "absent" THEN "absent" ELSE s
  BY <1>1, <1>6, ShownIs DEF B!InStore
<1>8. s # "absent"
  BY <1>2, <1>6 DEF BoardTypes, B!Statuses
<1>9. (~mounted => Bare)' /\ BarInv'
  BY <1>1, <1>3, <1>7 DEF SoleInv, Bare, BarInv
<1>10. SharedOf(c)'
  BY <1>1, <1>2, <1>3, <1>5, <1>7 DEF SoleInv, SharedOf, Bare
<1>11. ShownOf(c)'
  <2> SUFFICES ASSUME NEW x \in B!Entities \ uncertain
               PROVE  /\ B!Tells(all'[x], x) /\ B!Tells(board'[x], x)
                      /\ board'[x] # "absent" => all'[x] # "absent"
                      /\ bar.of = {x} => x = e
    BY <1>1, <1>5 DEF ShownOf, B!Tells
  <2>1. bar.of = {x} => x = e
    BY <1>4
  <2>2. CASE x = e
    <3>1. status[e] = runs[c].to
      BY <1>1, <1>2, <1>3, <2>2 DEF SoleInv, CallInv, DoneOf
    <3>2. board[e] # "absent" => all[e] # "absent"
      BY <1>3, <2>2 DEF SoleInv, ShownOf
    <3> QED BY <1>6, <1>7, <1>8, <2>1, <2>2, <3>1, <3>2 DEF B!Tells
  <2>3. CASE x # e
    <3>1. ~Answers(c, x)
      BY <1>4, <2>3 DEF Answers
    <3> QED BY <1>2, <1>3, <1>7, <2>1, <2>3, <3>1 DEF SoleInv, ShownOf
  <2> QED BY <2>2, <2>3
<1>12. CallInv(c)'
  BY <1>1, <1>4, <1>5 DEF CallInv, MountedOf, BarOf, ReadOf, StoredOf, DoneOf, StoredBy, B!Fetching
<1> QED BY <1>3, <1>5, <1>9, <1>10, <1>11, <1>12, StaysSole, SoleKeeps DEF SoleInv

\* The bar is told the status.
LEMMA StatusReadStep ==
  ASSUME BoardTypes, WaitingInv, Waits, NEW c \in Callers, B!LoadStatusRecord(c)
  PROVE  WaitingInv'
<1>1. runs[c].op = "status"
  BY DEF B!LoadStatusRecord, B!At
<1>2. Sole(c) /\ SoleInv(c)
  BY <1>1, AloneIs
<1>3. PICK e \in B!Entities : runs[c].of = {e} /\ bar # B!NoBar /\ bar.of = {e}
  BY <1>1, <1>2 DEF SoleInv, CallInv, StoredOf, BarOf
<1>4. CASE B!At(c, "status", "sent")
  <2>1. /\ runs' = [runs EXCEPT ![c].stage = "done", ![c].answer = [x \in B!Entities |-> IF x \in runs[c].of THEN status[x] ELSE "absent"]]
        /\ UNCHANGED <<status, all, mounted, board, shared, bar, uncertain, fetchedBy>>
    BY <1>4 DEF B!LoadStatusRecord, B!At, B!Zome, B!Store, B!Pages, B!Bounds
  <2>2. /\ Changes(c) /\ runs'[c].op = "status" /\ runs'[c].of = runs[c].of /\ runs'[c].stage = "done"
        /\ \A x \in runs[c].of : runs'[c].answer[x] = status[x]
    BY <1>4, <2>1, StatusRead
  <2>3. (~mounted => Bare)' /\ BarInv'
    BY <1>2, <2>1 DEF SoleInv, Bare, BarInv
  <2>4. SharedOf(c)'
    BY <1>1, <1>2, <2>1, <2>2 DEF SoleInv, SharedOf, Bare
  <2>5. ShownOf(c)'
    BY <1>1, <1>2, <2>1, <2>2 DEF SoleInv, ShownOf, Answers, B!Tells
  <2>6. CallInv(c)'
    BY <1>1, <1>2, <1>3, <2>1, <2>2 DEF SoleInv, CallInv, MountedOf, BarOf, ReadOf, StoredOf, DoneOf, StoredBy, B!Fetching
  <2> QED BY <1>2, <2>2, <2>3, <2>4, <2>5, <2>6, StaysSole, SoleKeeps DEF SoleInv
<1>5. CASE B!At(c, "status", "done")
  <2>1. /\ \E x \in runs[c].of : bar' = [bar EXCEPT !.held = runs[c].answer[x]]
        /\ B!Put(c, B!NoRun) /\ UNCHANGED <<status, all, mounted, board, shared, uncertain, fetchedBy>>
    BY <1>5 DEF B!LoadStatusRecord, B!At, B!Zome, B!Store, B!Bounds
  <2>0. runs[c].answer[e] \in B!Shown /\ bar' = [bar EXCEPT !.held = runs[c].answer[e]]
    <3>1. runs[c].answer \in [B!Entities -> B!Shown]
      BY DEF BoardTypes, RunsOfBoard
    <3>2. \A x \in runs[c].of : x = e
      BY <1>3
    <3> QED BY <2>1, <3>1, <3>2
  <2>2. PICK h \in B!Shown : bar' = [bar EXCEPT !.held = h] /\ h = runs[c].answer[e]
    BY <2>0
  <2>3. bar'.of = bar.of /\ bar'.on = bar.on /\ bar'.shared = bar.shared /\ bar'.held = h
    BY <2>2, HeldIs
  <2>4. Changes(c) /\ runs'[c].op = "none"
    BY <2>1, Ends, NoRunOfBoard
  <2>5. (~mounted => Bare)' /\ BarInv'
    BY <1>2, <1>3, <2>1, <2>3 DEF SoleInv, Bare, BarInv
  <2>6. SharedOf(c)'
    BY <1>1, <1>2, <2>1, <2>4 DEF SoleInv, SharedOf, Bare
  <2>7. ShownOf(c)'
    <3> SUFFICES ASSUME NEW x \in B!Entities \ uncertain
                 PROVE  /\ B!Tells(all[x], x) /\ B!Tells(board[x], x) /\ (board[x] # "absent" => all[x] # "absent")
                        /\ bar.of = {x} => B!Tells(h, x)
      BY <2>1, <2>3 DEF ShownOf, B!Tells
    <3>1. ~Answers(c, x) /\ runs[c].op # "refresh"
      BY <1>1 DEF Answers
    <3>2. bar.of = {x} => B!Tells(h, x)
      BY <1>1, <1>2, <1>3, <1>5, <2>2 DEF SoleInv, CallInv, DoneOf, B!At, B!Tells
    <3> QED BY <1>2, <3>1, <3>2 DEF SoleInv, ShownOf
  <2>8. CallInv(c)'
    BY <2>4 DEF CallInv, MountedOf, BarOf, ReadOf, StoredOf, DoneOf, StoredBy, B!Fetching
  <2> QED BY <1>2, <2>4, <2>5, <2>6, <2>7, <2>8, StaysSole, SoleKeeps DEF SoleInv
<1> QED BY <1>4, <1>5 DEF B!LoadStatusRecord

\* The lists of the administrators change.
LEMMA AdministratorsStep ==
  ASSUME BoardTypes, WaitingInv, Waits, NEW c \in Callers,
         B!GetAllNetworkAdministrators(c) \/ B!AddNetworkAdministrator(c) \/ B!RemoveNetworkAdministrator(c)
  PROVE  WaitingInv'
<1>1. Sole(c) /\ SoleInv(c) /\ runs[c].op \in Quiet /\ (B!Asks(c) => runs[c].op = "none")
  BY AloneIs DEF B!GetAllNetworkAdministrators, B!AddNetworkAdministrator, B!RemoveNetworkAdministrator, B!ChangeList, B!At, Quiet
<1>2. bar.of \in SUBSET B!Entities /\ Users \subseteq B!Entities /\ nonAdministrators \subseteq Users
  BY DEF BoardTypes, BarsOfBoard, B!Entities
<1>3. ASSUME NEW op \in {"administrators", "add", "remove"}, NEW of \in SUBSET B!Entities,
             op \in {"administrators", "add"} => of \subseteq Users, op # "remove" => bar = B!NoBar, op = "add" => ~mounted,
             B!Put(c, B!Run(op, of, "none", {}, {})), UNCHANGED <<B!Zome, B!Store, B!Pages, B!Bounds>>
      PROVE  WaitingInv'
  <2>1. PICK to \in B!Statuses \cup {"none"}, o \in {"decide", "update", "administrators", "add", "remove"} : to = "none" /\ o = op
    OBVIOUS
  <2>2. B!Put(c, B!Run(o, of, to, {}, {}))
    BY <1>3, <2>1
  <2>3. (o \in {"decide", "update"} => to \in B!Statuses) /\ (o \in {"administrators", "add"} => of \subseteq Users)
    BY <1>3, <2>1
  <2>4. Changes(c) /\ runs'[c].op = o
    BY <2>2, <2>3, Begins
  <2>5. UNCHANGED <<status, all, mounted, board, shared, bar, uncertain>>
    BY <1>3 DEF B!Zome, B!Store, B!Pages, B!Bounds
  <2>6. runs'[c].op \in Quiet /\ (bar # B!NoBar => runs'[c].op \in {"none", "remove"}) /\ (mounted => runs'[c].op # "add")
    BY <1>3, <2>1, <2>4 DEF Quiet
  <2> QED BY <1>1, <2>4, <2>5, <2>6, QuietStepOfBoard
<1>4. ASSUME Changes(c), runs'[c].op \in {"none", runs[c].op}, UNCHANGED <<status, all, mounted, board, shared, bar, uncertain>>
      PROVE  WaitingInv'
  <2>1. runs'[c].op \in Quiet
    BY <1>1, <1>4 DEF Quiet
  <2>2. (bar # B!NoBar => runs'[c].op \in {"none", "remove"}) /\ (mounted => runs'[c].op # "add")
    BY <1>1, <1>4 DEF SoleInv, CallInv, BarOf, MountedOf, Quiet
  <2> QED BY <1>1, <1>4, <2>1, <2>2, QuietStepOfBoard
<1>5. ASSUME NEW op \in {"add", "remove"}, NEW new, B!ChangeList(c, op, new)
      PROVE  WaitingInv'
  <2>1. /\ runs[c].op = op /\ runs' = [runs EXCEPT ![c].stage = "done"]
        /\ UNCHANGED <<status, all, mounted, board, shared, bar, uncertain>>
    BY <1>5 DEF B!ChangeList, B!At, B!Store, B!Pages
  <2>2. Changes(c) /\ runs'[c].op = runs[c].op
    <3>1. runs[c].op # "none"
      BY <2>1
    <3> QED BY <2>1, <3>1, StageDone
  <2> QED BY <1>4, <2>1, <2>2
<1>6. ASSUME B!Put(c, B!NoRun), UNCHANGED <<B!Zome, all, fetchedBy, B!Pages, uncertain>>
      PROVE  WaitingInv'
  <2>1. Changes(c) /\ runs'[c].op = "none"
    BY <1>6, Ends, NoRunOfBoard
  <2> QED BY <1>4, <1>6, <2>1 DEF B!Zome, B!Pages
<1>7. CASE B!GetAllNetworkAdministrators(c)
  <2>1. CASE /\ bar = B!NoBar /\ B!Put(c, B!Run("administrators", {}, "none", {}, {})) /\ UNCHANGED <<B!Zome, B!Store, B!Pages, B!Bounds>>
    BY <1>3, <2>1
  <2>2. CASE /\ B!At(c, "administrators", "sent") /\ runs' = [runs EXCEPT ![c].of = listed, ![c].stage = "done"]
             /\ UNCHANGED <<B!Zome, B!Store, B!Pages, B!Bounds>>
    <3>0. runs[c] \in RunsOfBoard /\ listed \subseteq Users
      BY DEF BoardTypes
    <3>1. PICK r : r = [runs[c] EXCEPT !.of = listed, !.stage = "done"]
      OBVIOUS
    <3>2. r \in RunsOfBoard /\ r.op = "administrators" /\ r.op = runs[c].op /\ r.to = runs[c].to /\ r.of \subseteq Users
      BY <1>2, <2>2, <3>0, <3>1 DEF RunsOfBoard, B!At
    <3>3. runs' = [runs EXCEPT ![c] = r]
      BY <2>2, <3>0, <3>1 DEF BoardTypes, RunsOfBoard
    <3>4. r.op # "none" /\ (r.op \in {"administrators", "add"} => r.of \subseteq Users)
      BY <3>2
    <3>5. Changes(c) /\ runs'[c] = r
      BY <3>2, <3>3, <3>4, BoardGoesOn
    <3> QED BY <1>4, <2>2, <3>2, <3>5 DEF B!Zome, B!Store, B!Pages, B!Bounds
  <2>3. CASE B!Put(c, B!NoRun) /\ UNCHANGED <<B!Zome, all, fetchedBy, B!Pages, uncertain>>
    BY <1>6, <2>3
  <2> QED BY <1>7, <2>1, <2>2, <2>3 DEF B!GetAllNetworkAdministrators
<1>8. CASE B!AddNetworkAdministrator(c)
  <2>1. CASE /\ bar = B!NoBar /\ ~mounted /\ (\E u \in B!Candidates : B!Put(c, B!Run("add", {u}, "none", {}, {})))
             /\ UNCHANGED <<B!Zome, B!Store, B!Pages, B!Bounds>>
    <3>1. PICK u \in Users : B!Put(c, B!Run("add", {u}, "none", {}, {}))
      BY <1>2, <2>1 DEF B!Candidates
    <3>2. {u} \in SUBSET B!Entities /\ {u} \subseteq Users
      BY <1>2
    <3> QED BY <1>3, <2>1, <3>1, <3>2
  <2>2. CASE B!ChangeList(c, "add", listed \cup runs[c].of)
    BY <1>5, <2>2
  <2>3. CASE /\ B!At(c, "add", "done") /\ B!Put(c, B!Fetch("fetch", {}, {"users"})) /\ UNCHANGED <<B!Zome, all, fetchedBy, B!Pages, B!Bounds>>
    <3>1. ~mounted /\ bar = B!NoBar
      BY <1>1, <2>3 DEF B!At, SoleInv, CallInv, MountedOf, BarOf
    <3>2. UNCHANGED <<status, all, mounted, board, shared, bar, uncertain>>
      BY <2>3 DEF B!Zome, B!Pages, B!Bounds
    <3>3. PICK op \in {"load", "fetch"}, ks \in SUBSET B!Kinds : op = "fetch" /\ ks = {"users"}
      BY DEF B!Kinds
    <3>4. B!Put(c, B!Fetch(op, {}, ks)) /\ (op = "load" => mounted' /\ ks = B!Kinds) /\ (op = "fetch" => ~mounted')
      BY <2>3, <3>1, <3>2, <3>3
    <3> QED BY <1>1, <3>1, <3>2, <3>4, FetchStarts
  <2> QED BY <1>8, <2>1, <2>2, <2>3 DEF B!AddNetworkAdministrator
<1>9. CASE B!RemoveNetworkAdministrator(c)
  <2>1. CASE B!Put(c, B!Run("remove", bar.of, "none", {}, {})) /\ UNCHANGED <<B!Zome, B!Store, B!Pages, B!Bounds>>
    BY <1>2, <1>3, <2>1
  <2>2. CASE B!ChangeList(c, "remove", listed \ runs[c].of)
    BY <1>5, <2>2
  <2>3. CASE B!Put(c, B!NoRun) /\ UNCHANGED <<B!Zome, all, fetchedBy, B!Pages, uncertain>>
    BY <1>6, <2>3
  <2> QED BY <1>9, <2>1, <2>2, <2>3 DEF B!RemoveNetworkAdministrator, B!Bounds
<1> QED BY <1>7, <1>8, <1>9

\* A call fails: what it was about is uncertain.
LEMMA FailsStep ==
  ASSUME BoardTypes, WaitingInv, Waits, NEW c \in Callers, B!Fails(c)
  PROVE  WaitingInv'
<1>1. /\ runs[c] # B!NoRun /\ (B!Fetching(c) => runs[c].kinds # {}) /\ B!Put(c, B!NoRun)
      /\ uncertain' = uncertain \cup (IF runs[c].op \in {"decide", "update", "refresh", "status"} THEN runs[c].of ELSE {})
      /\ UNCHANGED <<status, all, mounted, board, shared, bar, fetchedBy>>
  BY DEF B!Fails, B!Idle, B!Zome, B!Store, B!Pages
<1>2. Sole(c) /\ SoleInv(c)
  BY <1>1, AloneIs DEF BoardTypes
<1>3. Changes(c) /\ runs'[c].op = "none"
  BY <1>1, Ends, NoRunOfBoard
<1>4. (~mounted => Bare)' /\ BarInv'
  BY <1>1, <1>2 DEF SoleInv, Bare, BarInv
<1>5. SharedOf(c)'
  <2>1. ASSUME NEW k \in B!Kinds, ~Bare
        PROVE  k \in shared
    <3>1. ~(runs[c].op = "refresh" /\ StoredBy(c, k))
      <4> SUFFICES ASSUME runs[c].op = "refresh", StoredBy(c, k)
                   PROVE  FALSE
        OBVIOUS
      <4>1. PICK e \in B!Entities : runs[c].of = {e}
        BY <1>2 DEF SoleInv, CallInv, StoredOf
      <4>2. B!Fetched(c) = {B!KindOf(e)}
        BY <4>1 DEF B!Fetched
      <4>3. runs[c].kinds = {}
        BY <1>2, <4>2 DEF SoleInv, CallInv, StoredOf, StoredBy
      <4> QED BY <1>1, <4>3 DEF B!Fetching
    <3> QED BY <1>2, <2>1, <3>1 DEF SoleInv, SharedOf
  <2> QED BY <1>1, <1>3, <2>1 DEF SharedOf, Bare
<1>6. ShownOf(c)'
  BY <1>1, <1>2, <1>3 DEF SoleInv, ShownOf, Answers, B!Tells
<1>7. CallInv(c)'
  BY <1>3 DEF CallInv, MountedOf, BarOf, ReadOf, StoredOf, DoneOf, StoredBy, B!Fetching
<1> QED BY <1>2, <1>3, <1>4, <1>5, <1>6, <1>7, StaysSole, SoleKeeps DEF SoleInv

\* When nothing is under way nothing of a call matters.
LEMMA AllIdle ==
  ASSUME \A c \in Callers : runs'[c].op = "none"
  PROVE  Single' /\ \A c \in Callers : CallInv(c)'
BY DEF Single, Sole, CallInv, MountedOf, BarOf, ReadOf, StoredOf, DoneOf, StoredBy, B!Fetching

\* The dashboard or the bar is left, or the cache is cleared.
LEMMA LeaveStep ==
  ASSUME BoardTypes, WaitingInv, Waits, B!LeaveDashboard \/ B!CloseBar \/ B!InvalidateCache
  PROVE  WaitingInv'
<1>1. CASE B!LeaveDashboard
  <2>1. /\ mounted /\ bar = B!NoBar /\ (\A c \in Callers : runs[c].op \notin {"load", "refresh", "decide"})
        /\ mounted' = FALSE /\ board' = NoAnswer /\ shared' = {}
        /\ UNCHANGED <<status, all, fetchedBy, bar, runs, uncertain>>
    BY <1>1 DEF B!LeaveDashboard, B!Zome, B!Store, B!Bounds, NoAnswer
  <2>2. \A c \in Callers : runs[c].op \notin {"load", "refresh", "decide", "fetch", "add", "status", "update"}
    BY <2>1 DEF WaitingInv, CallInv, MountedOf, BarOf
  <2>3. \A e \in B!Entities : board'[e] = "absent"
    BY <2>1 DEF NoAnswer
  <2>4. Single' /\ Bare' /\ BarInv'
    BY <2>1, <2>3 DEF WaitingInv, Single, Sole, Bare, BarInv
  <2>5. SharedInv'
    BY <2>1, <2>2, <2>4 DEF SharedInv
  <2>6. ShownInv'
    BY <2>1, <2>3 DEF WaitingInv, ShownInv, B!Tells, Answering, Answers, Busy
  <2>7. ASSUME NEW c \in Callers
        PROVE  CallInv(c)'
    BY <2>1, <2>2 DEF WaitingInv, CallInv, MountedOf, BarOf, ReadOf, StoredOf, DoneOf, StoredBy, B!Fetching
  <2> QED BY <2>4, <2>5, <2>6, <2>7 DEF WaitingInv
<1>2. CASE B!CloseBar
  <2>1. /\ \A c \in Callers : runs[c].op = "none"
        /\ bar' = B!NoBar /\ UNCHANGED <<status, all, fetchedBy, mounted, board, shared, uncertain>>
        /\ runs' = [c \in Callers |-> IF runs[c].op = "status" THEN B!NoRun ELSE runs[c]]
    BY <1>2, NoRunOfBoard DEF B!CloseBar, B!Idle, B!Zome, B!Store, B!Bounds
  <2>2. \A c \in Callers : runs'[c].op = "none"
    BY <2>1
  <2>3. ~Bare' \/ (\E c \in Callers : runs'[c].op \in {"decide", "refresh"}) => ~Bare
    BY <2>1, <2>2 DEF Bare
  <2>4. SharedInv'
    BY <2>1, <2>3 DEF WaitingInv, SharedInv
  <2>5. bar'.of = {} /\ BarInv'
    BY <2>1 DEF B!NoBar, BarInv
  <2>6. ShownInv'
    <3>1. \A e \in B!Entities : ~Answering(e) /\ ~Busy("refresh", e)
      BY <2>1 DEF Answering, Answers, Busy
    <3> QED BY <2>1, <2>5, <3>1 DEF WaitingInv, ShownInv, B!Tells
  <2>7. (~mounted => Bare)'
    BY <2>1 DEF WaitingInv, Bare
  <2> QED BY <2>2, <2>4, <2>5, <2>6, <2>7, AllIdle DEF WaitingInv
<1>3. CASE B!InvalidateCache
  <2>1. /\ ~mounted /\ bar = B!NoBar /\ (\A c \in Callers : runs[c].op = "none")
        /\ all' = NoAnswer /\ UNCHANGED <<status, mounted, board, shared, bar, runs, uncertain>>
    BY <1>3, NoRunOfBoard DEF B!InvalidateCache, B!Idle, B!Zome, B!Pages, B!Bounds, NoAnswer
  <2>2. Bare /\ Bare' /\ \A e \in B!Entities : all'[e] = "absent"
    BY <2>1 DEF WaitingInv, Bare, NoAnswer
  <2>3. SharedInv' /\ BarInv'
    BY <2>1, <2>2 DEF SharedInv, BarInv
  <2>4. bar'.of = {}
    BY <2>1 DEF B!NoBar
  <2>5. ShownInv'
    BY <2>1, <2>2, <2>4 DEF ShownInv, B!Tells, Bare
  <2>6. \A c \in Callers : runs'[c].op = "none"
    BY <2>1
  <2> QED BY <2>1, <2>2, <2>3, <2>5, <2>6, AllIdle DEF WaitingInv
<1> QED BY <1>1, <1>2, <1>3

\* Another administrator decides: what it is about is uncertain.
LEMMA OtherStep ==
  ASSUME BoardTypes, WaitingInv, NEW e \in B!Entities, NEW s \in B!Statuses, B!OtherDecides(e, s)
  PROVE  WaitingInv'
<1>1. /\ status' = [status EXCEPT ![e] = s] /\ uncertain' = uncertain \cup {e}
      /\ UNCHANGED <<all, fetchedBy, mounted, board, shared, bar, runs>>
  BY DEF B!OtherDecides, B!Store, B!Pages
<1>2. \A x \in B!Entities \ uncertain' : x \in B!Entities \ uncertain /\ status'[x] = status[x]
  BY <1>1 DEF BoardTypes
<1>3. Single' /\ (~mounted => Bare)' /\ BarInv' /\ SharedInv'
  BY <1>1 DEF WaitingInv, Single, Sole, Bare, BarInv, SharedInv, StoredBy, B!Fetched
<1>4. ShownInv'
  BY <1>1, <1>2 DEF WaitingInv, ShownInv, B!Tells, Answering, Answers, Busy
<1>5. ASSUME NEW c \in Callers
      PROVE  CallInv(c)'
  <2>1. MountedOf(c)' /\ BarOf(c)'
    BY <1>1 DEF WaitingInv, CallInv, MountedOf, BarOf
  <2>2. ReadOf(c)'
    BY <1>1, <1>2 DEF WaitingInv, CallInv, ReadOf, B!Fetching, B!Tells
  <2>3. StoredOf(c)'
    BY <1>1 DEF WaitingInv, CallInv, StoredOf, StoredBy, B!Fetched, Bare
  <2>4. DoneOf(c)'
    <3>1. runs[c].of \subseteq B!Entities
      BY DEF BoardTypes, RunsOfBoard
    <3> QED BY <1>1, <1>2, <3>1 DEF WaitingInv, CallInv, DoneOf
  <2> QED BY <2>1, <2>2, <2>3, <2>4 DEF CallInv
<1> QED BY <1>3, <1>4, <1>5 DEF WaitingInv

\* At first.
LEMMA WaitingInit ==
  ASSUME B!Init
  PROVE  WaitingInv
<1>1. /\ all = NoAnswer /\ board = NoAnswer /\ mounted = FALSE /\ bar = B!NoBar /\ runs = [c \in Callers |-> B!NoRun]
  BY DEF B!Init, NoAnswer
<1>2. /\ \A e \in B!Entities : all[e] = "absent" /\ board[e] = "absent"
      /\ \A c \in Callers : runs[c].op = "none"
      /\ bar.of = {}
  BY <1>1, NoRunOfBoard DEF NoAnswer, B!NoBar
<1>3. Single /\ Bare /\ BarInv /\ SharedInv
  BY <1>1, <1>2 DEF Single, Sole, Bare, BarInv, SharedInv
<1>4. ShownInv
  BY <1>2 DEF ShownInv, B!Tells
<1>5. \A c \in Callers : CallInv(c)
  BY <1>2 DEF CallInv, MountedOf, BarOf, ReadOf, StoredOf, DoneOf, StoredBy, B!Fetching
<1> QED BY <1>3, <1>4, <1>5 DEF WaitingInv

\* Every step.
LEMMA WaitingNext ==
  ASSUME BoardInv, WaitingInv, Waits, [B!Next]_(B!moderationVars)
  PROVE  WaitingInv'
<1>0. BoardTypes
  BY DEF BoardInv
<1>1. CASE \E c \in Callers : B!FetchDashboardData(c) \/ \E k \in B!Kinds : B!FetchAll(c, k)
  BY <1>0, <1>1, FetchAsked
<1>2. CASE \E c \in Callers : \E e \in B!Entities, s \in {"accepted", "rejected"} : B!Decide(c, e, s)
  BY <1>0, <1>2, DecideAsked
<1>3. CASE \E c \in Callers : \E s \in {"accepted", "rejected", "suspended"} : B!UpdateStatus(c, s)
  BY <1>0, <1>3, UpdateAsked
<1>4. CASE \E c \in Callers : \E e \in B!Entities : B!OpenBar(c, e)
  BY <1>0, <1>4, BarOpened
<1>5. CASE \E c \in Callers : \E e \in B!Entities : B!ReadStatus(c, e)
  BY <1>0, <1>5, FetchReadStep
<1>6. CASE \E c \in Callers : \E k \in B!Kinds : B!Stored(c, k)
  BY <1>0, <1>6, StoredStep
<1>7. CASE \E c \in Callers : B!Boarded(c)
  BY <1>0, <1>7, BoardedStep
<1>8. CASE \E c \in Callers : B!UpdateEntityStatus(c)
  BY <1>0, <1>8, UpdateStep
<1>9. CASE \E c \in Callers : B!Decided(c)
  BY <1>0, <1>9, DecidedStepOfBoard
<1>10. CASE \E c \in Callers : B!StatusUpdated(c)
  BY <1>0, <1>10, StatusUpdatedStep
<1>11. CASE \E c \in Callers : B!LoadStatusRecord(c)
  BY <1>0, <1>11, StatusReadStep
<1>12. CASE \E c \in Callers : B!GetAllNetworkAdministrators(c) \/ B!AddNetworkAdministrator(c) \/ B!RemoveNetworkAdministrator(c)
  BY <1>0, <1>12, AdministratorsStep
<1>13. CASE \E c \in Callers : B!Fails(c)
  BY <1>0, <1>13, FailsStep
<1>14. CASE B!LeaveDashboard \/ B!CloseBar \/ B!InvalidateCache
  BY <1>0, <1>14, LeaveStep
<1>15. CASE \E e \in B!Entities, s \in B!Statuses : B!OtherDecides(e, s)
  BY <1>0, <1>15, OtherStep
<1>16. CASE UNCHANGED B!moderationVars
  BY <1>16 DEF B!moderationVars, WaitingInv, Single, Sole, Bare, BarInv, SharedInv, ShownInv, CallInv, MountedOf, BarOf,
     ReadOf, StoredOf, DoneOf, StoredBy, B!Fetching, B!Fetched, B!Tells, Answering, Answers, Busy
<1>17. Users \subseteq B!Entities /\ Organizations \subseteq B!Entities
  BY DEF B!Entities
<1>18. \A c \in Callers : /\ \A u \in Users : B!ApproveUser(c, u) => B!Decide(c, u, "accepted")
                          /\ \A u \in Users : B!RejectUser(c, u) => B!Decide(c, u, "rejected")
                          /\ \A o \in Organizations : B!ApproveOrganization(c, o) => B!Decide(c, o, "accepted")
                          /\ \A o \in Organizations : B!RejectOrganization(c, o) => B!Decide(c, o, "rejected")
                          /\ B!HandleSuspend(c) => B!UpdateStatus(c, "suspended")
  BY DEF B!ApproveUser, B!RejectUser, B!ApproveOrganization, B!RejectOrganization, B!HandleSuspend
<1> QED BY <1>1, <1>2, <1>3, <1>4, <1>5, <1>6, <1>7, <1>8, <1>9, <1>10, <1>11, <1>12, <1>13, <1>14, <1>15, <1>16,
           <1>17, <1>18 DEF B!Next

\* When all calls have ended, nothing is on its way.
LEMMA EndedShows ==
  ASSUME WaitingInv
  PROVE  B!StatusesShown
<1> SUFFICES ASSUME \A c \in Callers : B!Idle(c), NEW e \in B!Entities \ uncertain
             PROVE  /\ B!Tells(all[e], e) /\ B!Tells(board[e], e)
                    /\ bar.of = {e} => B!Tells(bar.held, e)
  BY DEF B!StatusesShown
<1>1. \A c \in Callers : runs[c].op = "none"
  BY NoRunOfBoard DEF B!Idle
<1>2. ~Answering(e) /\ ~Busy("refresh", e) /\ ~Busy("status", e)
  BY <1>1 DEF Answering, Answers, Busy
<1> QED BY <1>2 DEF WaitingInv, ShownInv

\* An administrator who is alone and waits for each call is shown, once all calls
\* have ended, the status of everything no call about which failed and nobody
\* else decided on: in the arrays, on the dashboard, which a decision sets back
\* before it is fetched again, and on the action bar, which a decision does not
\* always reach (administration.store.svelte.ts:905-945, 1010-1032,
\* routes/admin/+page.svelte:62-150, ActionBar.svelte:83-108).
THEOREM StatusesShownAreSo == B!ModerationAssumption /\ Waits /\ B!Spec => []B!StatusesShown
<1> SUFFICES ASSUME B!ModerationAssumption, Waits
             PROVE  B!Spec => []B!StatusesShown
  OBVIOUS
<1>1. B!Init => BoardInv /\ WaitingInv
  BY BoardInit, WaitingInit
<1>2. BoardInv /\ WaitingInv /\ [B!Next]_(B!moderationVars) => BoardInv' /\ WaitingInv'
  BY BoardNext, WaitingNext
<1>3. WaitingInv => B!StatusesShown
  BY EndedShows
<1> QED BY <1>1, <1>2, <1>3, PTL DEF B!Spec

-----------------------------------------------------------------------------
(* The administrators such an administrator is shown. *)

\* Calls about the list of the administrators.
Listing == {"administrators", "add", "remove"}

\* But for those changed since the administrators were fetched, who is shown is one,
\* and once they were fetched every one is shown; they were when one is added or
\* removed.
ListCall(c) ==
  /\ runs[c].op \in {"add", "remove"} => administrators # {}
  /\ B!At(c, "administrators", "done") => runs[c].of = listed
KnownInv ==
  /\ administrators \subseteq listed \cup changed
  /\ administrators # {} => listed \subseteq administrators \cup changed
  /\ nonAdministrators \cap listed \subseteq changed
  /\ nonAdministrators # {} \/ bar.on = "administrators" => administrators # {}
  /\ \A c \in Callers : ListCall(c)

\* A step that leaves the lists alone keeps it.
LEMMA KnownAside ==
  ASSUME KnownInv, UNCHANGED <<listed, administrators, nonAdministrators, changed>>,
         bar'.on = "administrators" => administrators # {},
         \A d \in Callers : runs'[d] = runs[d] \/ runs'[d].op \notin Listing
  PROVE  KnownInv'
<1>1. \A d \in Callers : ListCall(d)'
  BY DEF KnownInv, ListCall, Listing, B!At
<1> QED BY <1>1 DEF KnownInv

\* So does a call that goes on and is not about them.
LEMMA KnownCall ==
  ASSUME KnownInv, NEW c \in Callers, Changes(c), runs'[c].op \notin Listing,
         UNCHANGED <<listed, administrators, nonAdministrators, changed>>,
         bar'.on = "administrators" => administrators # {}
  PROVE  KnownInv'
<1>1. \A d \in Callers : runs'[d] = runs[d] \/ runs'[d].op \notin Listing
  BY DEF Changes
<1> QED BY <1>1, KnownAside

\* A call that is not about them is asked for.
LEMMA KnownAsked ==
  ASSUME BoardTypes, KnownInv, NEW c \in Callers,
         \/ B!FetchDashboardData(c) \/ \E k \in B!Kinds : B!FetchAll(c, k)
         \/ \E e \in B!Entities : B!OpenBar(c, e) \/ \E s \in {"accepted", "rejected"} : B!Decide(c, e, s)
         \/ \E s \in {"accepted", "rejected", "suspended"} : B!UpdateStatus(c, s)
  PROVE  KnownInv'
<1>1. UNCHANGED <<listed, administrators, nonAdministrators, changed>>
  BY DEF B!FetchDashboardData, B!FetchAll, B!OpenBar, B!Decide, B!UpdateStatus, B!Zome, B!Store, B!Bounds
<1>2. CASE B!FetchDashboardData(c) \/ \E k \in B!Kinds : B!FetchAll(c, k)
  <2>1. PICK op \in FetchOps, of \in SUBSET B!Entities, ks \in SUBSET B!Kinds : B!Put(c, B!Fetch(op, of, ks)) /\ UNCHANGED bar
    BY <1>2 DEF B!FetchDashboardData, B!FetchAll, FetchOps, B!Pages
  <2>2. Changes(c) /\ runs'[c].op = op
    BY <2>1, FetchBegins
  <2> QED BY <1>1, <2>1, <2>2, KnownCall DEF FetchOps, Listing, KnownInv
<1>3. CASE \E e \in B!Entities : B!OpenBar(c, e)
  <2>1. PICK e \in B!Entities : B!OpenBar(c, e)
    BY <1>3
  <2>2. Changes(c) /\ runs'[c].op = "status"
    BY <2>1, AskBegins DEF B!OpenBar
  <2>3. bar'.on = "administrators" => e \in administrators
    BY <2>1 DEF B!OpenBar, B!OpenedOn, B!Listed, B!KindOf
  <2> QED BY <1>1, <2>2, <2>3, KnownCall DEF Listing
<1>4. CASE (\E s \in {"accepted", "rejected", "suspended"} : B!UpdateStatus(c, s))
           \/ \E e \in B!Entities, s \in {"accepted", "rejected"} : B!Decide(c, e, s)
  <2>1. PICK op \in {"decide", "update"}, of \in SUBSET B!Entities, to \in B!Statuses :
          B!Put(c, B!Run(op, of, to, {}, {})) /\ UNCHANGED bar
    <3>1. bar.of \in SUBSET B!Entities /\ \A s \in {"accepted", "rejected", "suspended"} : s \in B!Statuses
      BY DEF BoardTypes, BarsOfBoard, B!Statuses
    <3> QED BY <1>4, <3>1 DEF B!UpdateStatus, B!Decide, B!Pages
  <2>2. PICK o \in {"decide", "update", "administrators", "add", "remove"}, t \in B!Statuses \cup {"none"} : o = op /\ t = to
    OBVIOUS
  <2>3. Changes(c) /\ runs'[c].op = op
    BY <2>1, <2>2, Begins
  <2> QED BY <1>1, <2>1, <2>3, KnownCall DEF Listing, KnownInv
<1> QED BY <1>2, <1>3, <1>4

\* Such a call goes on, ends or fails.
LEMMA KnownGoesOn ==
  ASSUME BoardInv, KnownInv, NEW c \in Callers,
         \/ B!Boarded(c) \/ (\E k \in B!Kinds : B!Stored(c, k)) \/ (\E e \in B!Entities : B!ReadStatus(c, e))
         \/ B!UpdateEntityStatus(c) \/ B!StatusUpdated(c) \/ B!LoadStatusRecord(c) \/ B!Fails(c)
  PROVE  KnownInv'
<1>0. BoardTypes
  BY DEF BoardInv
<1>1. UNCHANGED <<listed, administrators, nonAdministrators, changed>>
  BY DEF B!Boarded, B!Stored, B!ReadStatus, B!UpdateEntityStatus, B!StatusUpdated, B!LoadStatusRecord, B!Fails,
         B!Zome, B!Store, B!Bounds
<1>2. bar'.on = bar.on
  BY <1>0 DEF BoardTypes, BarsOfBoard, B!Boarded, B!Stored, B!ReadStatus, B!UpdateEntityStatus, B!StatusUpdated,
              B!LoadStatusRecord, B!Fails, B!Pages
<1>3. Changes(c) /\ runs'[c].op \notin Listing
  <2>1. CASE \E e \in B!Entities : B!ReadStatus(c, e)
    BY <1>0, <2>1, ReadIs, ToldIs DEF Listing, B!Fetching
  <2>2. CASE \E k \in B!Kinds : B!Stored(c, k)
    <3>1. PICK k \in B!Kinds : B!Fetching(c) /\ runs' = [runs EXCEPT ![c].kinds = @ \ {k}, ![c].stage = "stored"]
      BY <2>2 DEF B!Stored
    <3> QED BY <1>0, <3>1, StoredIs DEF Listing, B!Fetching
  <2>3. CASE B!Put(c, B!NoRun)
    BY <1>0, <2>3, Ends, NoRunOfBoard DEF Listing
  <2>4. CASE B!UpdateEntityStatus(c)
    <3>1. runs[c].op \in {"decide", "update"} /\ runs' = [runs EXCEPT ![c].stage = "done"]
      BY <2>4 DEF B!UpdateEntityStatus, B!At
    <3> QED BY <1>0, <3>1, StageDone DEF Listing
  <2>5. CASE B!StatusUpdated(c)
    <3>1. runs[c].of \subseteq B!Entities
      BY <1>0 DEF BoardTypes, RunsOfBoard
    <3>2. PICK e \in B!Entities : B!Put(c, B!AskStatus(e)) \/ B!Put(c, B!NoRun)
      BY <2>5, <3>1 DEF B!StatusUpdated
    <3> QED BY <1>0, <3>2, AskBegins, Ends, NoRunOfBoard DEF Listing
  <2>6. CASE B!LoadStatusRecord(c)
    <3>1. CASE /\ B!At(c, "status", "sent")
               /\ runs' = [runs EXCEPT ![c].stage = "done",
                                       ![c].answer = [e \in B!Entities |-> IF e \in runs[c].of THEN status[e] ELSE "absent"]]
      BY <1>0, <3>1, StatusRead DEF Listing
    <3> QED BY <2>3, <2>6, <3>1 DEF B!LoadStatusRecord
  <2> QED BY <2>1, <2>2, <2>3, <2>4, <2>5, <2>6 DEF B!Boarded, B!Fails
<1> QED BY <1>1, <1>2, <1>3, KnownCall DEF KnownInv

\* The answer to a decision begins up to two calls.
LEMMA KnownDecided ==
  ASSUME BoardTypes, KnownInv, NEW c \in Callers, B!Decided(c)
  PROVE  KnownInv'
<1>1. PICK e \in B!Entities :
         /\ IF B!BarAsks(e)
              THEN \E d \in Callers : runs' = [runs EXCEPT ![c] = B!Fetch("refresh", {e}, {B!KindOf(e)}), ![d] = B!AskStatus(e)]
              ELSE B!Put(c, B!Fetch("refresh", {e}, {B!KindOf(e)}))
         /\ UNCHANGED <<listed, administrators, nonAdministrators, bar, changed>>
  <2>1. runs[c].of \subseteq B!Entities
    BY DEF BoardTypes, RunsOfBoard
  <2> QED BY <2>1 DEF B!Decided, B!Zome, B!Bounds
<1>2. PICK r \in RunsOfBoard : r = B!Fetch("refresh", {e}, {B!KindOf(e)}) /\ r.op = "refresh"
  <2>1. PICK op \in FetchOps, of \in SUBSET B!Entities, ks \in SUBSET B!Kinds : op = "refresh" /\ of = {e} /\ ks = {B!KindOf(e)}
    BY KindsAre DEF FetchOps
  <2>2. B!Fetch(op, of, ks) \in RunsOfBoard /\ B!Fetch(op, of, ks).op = op
    BY FetchIs
  <2> QED BY <2>1, <2>2
<1>3. PICK a \in RunsOfBoard : a = B!AskStatus(e) /\ a.op = "status"
  BY AskStatusIs
<1>4. \A d \in Callers : runs'[d] = runs[d] \/ runs'[d].op \notin Listing
  <2>1. CASE B!BarAsks(e)
    <3>1. PICK d \in Callers : runs' = [runs EXCEPT ![c] = r, ![d] = a]
      BY <1>1, <1>2, <1>3, <2>1
    <3> QED BY <1>2, <1>3, <3>1 DEF BoardTypes, Listing
  <2>2. CASE ~B!BarAsks(e)
    <3>1. B!Put(c, r)
      BY <1>1, <1>2, <2>2
    <3> QED BY <1>2, <3>1, PutOfBoard DEF Listing
  <2> QED BY <2>1, <2>2
<1> QED BY <1>1, <1>4, KnownAside DEF KnownInv

\* The administrators are fetched, added or removed.
LEMMA KnownChanges ==
  ASSUME BoardTypes, WaitingInv, KnownInv, Waits, NEW c \in Callers,
         B!GetAllNetworkAdministrators(c) \/ B!AddNetworkAdministrator(c) \/ B!RemoveNetworkAdministrator(c)
  PROVE  KnownInv'
<1>1. Sole(c) /\ listed \in (SUBSET Users) \ {{}} /\ runs[c] \in RunsOfBoard
  BY AloneIs DEF BoardTypes, B!GetAllNetworkAdministrators, B!AddNetworkAdministrator, B!RemoveNetworkAdministrator,
                 B!ChangeList, B!At
<1>2. ASSUME NEW op \in Listing, NEW of \in SUBSET B!Entities, op \in {"administrators", "add"} => of \subseteq Users,
             B!Put(c, B!Run(op, of, "none", {}, {})), UNCHANGED <<B!Zome, B!Store, B!Pages, B!Bounds>>,
             op # "administrators" => administrators # {}
      PROVE  KnownInv'
  <2>1. PICK o \in {"decide", "update", "administrators", "add", "remove"}, to \in B!Statuses \cup {"none"} : o = op /\ to = "none"
    BY <1>2 DEF Listing
  <2>2. Changes(c) /\ runs'[c].op = op /\ runs'[c].stage = "sent"
    <3>1. B!Put(c, B!Run(o, of, to, {}, {})) /\ (o \in {"administrators", "add"} => of \subseteq Users)
      BY <1>2, <2>1
    <3>2. o \notin {"decide", "update"}
      BY <2>1 DEF Listing
    <3> QED BY <2>1, <3>1, <3>2, Begins
  <2>3. ListCall(c)'
    BY <1>2, <2>2 DEF ListCall, B!At, B!Store
  <2>4. \A d \in Callers \ {c} : ListCall(d)'
    BY <1>2, <2>2 DEF Changes, KnownInv, ListCall, B!At, B!Zome, B!Store
  <2> QED BY <1>2, <2>3, <2>4 DEF KnownInv, B!Zome, B!Store, B!Pages, B!Bounds
<1>3. ASSUME NEW op \in {"add", "remove"}, NEW new, B!ChangeList(c, op, new),
             new \ runs[c].of = listed \ runs[c].of
      PROVE  KnownInv'
  <2>1. /\ runs[c].op = op /\ listed' = new /\ changed' = changed \cup runs[c].of
        /\ runs' = [runs EXCEPT ![c].stage = "done"] /\ UNCHANGED <<administrators, nonAdministrators, bar>>
    BY <1>3 DEF B!ChangeList, B!At, B!Store, B!Pages
  <2>2. Changes(c) /\ runs'[c].op = op
    BY <2>1, StageDone
  <2>3. \A d \in Callers : ListCall(d)'
    BY <1>1, <2>1, <2>2 DEF Changes, Sole, KnownInv, ListCall, B!At
  <2> QED BY <1>3, <2>1, <2>3 DEF KnownInv
<1>4. ASSUME B!UpdateAdministratorLists, Changes(c), runs'[c].op \notin Listing, UNCHANGED <<listed, administrators, bar, changed>>,
             administrators # {}
      PROVE  KnownInv'
  <2>1. \A d \in Callers : ListCall(d)'
    BY <1>4 DEF Changes, KnownInv, ListCall, Listing, B!At
  <2> QED BY <1>4, <2>1 DEF KnownInv, B!UpdateAdministratorLists
<1>5. CASE B!GetAllNetworkAdministrators(c)
  <2>1. CASE B!Put(c, B!Run("administrators", {}, "none", {}, {})) /\ UNCHANGED <<B!Zome, B!Store, B!Pages, B!Bounds>>
    <3>1. PICK op \in Listing, of \in SUBSET B!Entities : op = "administrators" /\ of = {}
      BY DEF Listing
    <3> QED BY <1>2, <2>1, <3>1
  <2>2. CASE /\ B!At(c, "administrators", "sent") /\ runs' = [runs EXCEPT ![c].of = listed, ![c].stage = "done"]
             /\ UNCHANGED <<B!Zome, B!Store, B!Pages, B!Bounds>>
    <3>1. runs'[c].of = listed /\ runs'[c].op = "administrators" /\ \A d \in Callers \ {c} : runs'[d] = runs[d]
      BY <1>1, <2>2 DEF BoardTypes, RunsOfBoard, B!At
    <3>2. \A d \in Callers : ListCall(d)'
      BY <2>2, <3>1 DEF KnownInv, ListCall, B!At, B!Zome, B!Store
    <3> QED BY <2>2, <3>2 DEF KnownInv, B!Zome, B!Store, B!Pages, B!Bounds
  <2>3. CASE /\ B!At(c, "administrators", "done") /\ administrators' = runs[c].of /\ B!UpdateAdministratorLists
             /\ changed' = {} /\ B!Put(c, B!NoRun) /\ UNCHANGED <<listed, bar>>
    <3>1. administrators' = listed /\ listed # {}
      BY <1>1, <2>3 DEF KnownInv, ListCall
    <3>2. Changes(c) /\ runs'[c].op = "none"
      BY <2>3, Ends, NoRunOfBoard
    <3>3. \A d \in Callers : ListCall(d)'
      BY <1>1, <3>2 DEF Changes, Sole, ListCall, B!At
    <3> QED BY <2>3, <3>1, <3>3 DEF KnownInv, B!UpdateAdministratorLists
  <2> QED BY <1>5, <2>1, <2>2, <2>3 DEF B!GetAllNetworkAdministrators, B!Zome, B!Pages
<1>6. CASE B!AddNetworkAdministrator(c)
  <2>1. CASE (\E u \in B!Candidates : B!Put(c, B!Run("add", {u}, "none", {}, {}))) /\ UNCHANGED <<B!Zome, B!Store, B!Pages, B!Bounds>>
    <3>1. PICK u \in nonAdministrators : B!Put(c, B!Run("add", {u}, "none", {}, {}))
      BY <2>1 DEF B!Candidates
    <3>2. administrators # {}
      BY <3>1 DEF KnownInv
    <3>3. PICK op \in Listing, of \in SUBSET B!Entities : op = "add" /\ of = {u} /\ of \subseteq Users
      BY <3>1 DEF Listing, BoardTypes, B!Entities
    <3> QED BY <1>2, <2>1, <3>1, <3>2, <3>3
  <2>2. CASE B!ChangeList(c, "add", listed \cup runs[c].of)
    BY <1>3, <2>2
  <2>3. CASE /\ B!At(c, "add", "done") /\ UNCHANGED administrators /\ B!UpdateAdministratorLists
             /\ B!Put(c, B!Fetch("fetch", {}, {"users"})) /\ UNCHANGED <<B!Zome, all, fetchedBy, B!Pages, B!Bounds>>
    <3>1. PICK op \in FetchOps, of \in SUBSET B!Entities, ks \in SUBSET B!Kinds : op = "fetch" /\ of = {} /\ ks = {"users"}
      BY DEF FetchOps, B!Kinds
    <3>2. Changes(c) /\ runs'[c].op = "fetch"
      BY <2>3, <3>1, FetchBegins
    <3>3. administrators # {}
      BY <2>3 DEF KnownInv, ListCall, B!At
    <3> QED BY <1>4, <2>3, <3>2, <3>3 DEF Listing, B!Zome, B!Pages, B!Bounds
  <2> QED BY <1>6, <2>1, <2>2, <2>3 DEF B!AddNetworkAdministrator
<1>7. CASE B!RemoveNetworkAdministrator(c)
  <2>1. CASE bar.on = "administrators" /\ B!Put(c, B!Run("remove", bar.of, "none", {}, {})) /\ UNCHANGED <<B!Zome, B!Store, B!Pages, B!Bounds>>
    <3>1. PICK op \in Listing, of \in SUBSET B!Entities : op = "remove" /\ of = bar.of
      BY DEF Listing, BoardTypes, BarsOfBoard
    <3>2. administrators # {}
      BY <2>1 DEF KnownInv
    <3> QED BY <1>2, <2>1, <3>1, <3>2
  <2>2. CASE B!ChangeList(c, "remove", listed \ runs[c].of)
    BY <1>3, <2>2
  <2>3. CASE /\ B!At(c, "remove", "done") /\ UNCHANGED administrators /\ B!UpdateAdministratorLists
             /\ B!Put(c, B!NoRun) /\ UNCHANGED <<B!Zome, all, fetchedBy, B!Pages, B!Bounds>>
    <3>1. Changes(c) /\ runs'[c].op = "none"
      BY <2>3, Ends, NoRunOfBoard
    <3>2. administrators # {}
      BY <2>3 DEF KnownInv, ListCall, B!At
    <3> QED BY <1>4, <2>3, <3>1, <3>2 DEF Listing, B!Zome, B!Pages, B!Bounds
  <2> QED BY <1>7, <2>1, <2>2, <2>3 DEF B!RemoveNetworkAdministrator
<1> QED BY <1>5, <1>6, <1>7

\* A page is left, or the arrays are cleared.
LEMMA KnownLeft ==
  ASSUME BoardTypes, KnownInv, Waits, B!LeaveDashboard \/ B!CloseBar \/ B!InvalidateCache
  PROVE  KnownInv'
<1>1. CASE B!LeaveDashboard
  <2>1. UNCHANGED <<listed, administrators, nonAdministrators, changed, bar, runs>>
    BY <1>1 DEF B!LeaveDashboard, B!Zome, B!Store, B!Bounds
  <2> QED BY <2>1, KnownAside DEF KnownInv
<1>2. CASE B!CloseBar
  <2>1. /\ UNCHANGED <<listed, administrators, nonAdministrators, changed>> /\ bar' = B!NoBar
        /\ \A d \in Callers : runs'[d] = runs[d] \/ runs'[d] = B!NoRun
    BY <1>2 DEF B!CloseBar, B!Zome, B!Store, B!Bounds
  <2> QED BY <2>1, BarIs, NoRunOfBoard, KnownAside DEF Listing
<1>3. CASE B!InvalidateCache
  <2>1. /\ \A d \in Callers : runs[d].op = "none"
        /\ administrators' = {} /\ nonAdministrators' = {} /\ bar' = B!NoBar
        /\ UNCHANGED <<listed, changed, runs>>
    BY <1>3, NoRunOfBoard DEF B!InvalidateCache, B!Idle, B!Zome, B!Pages, B!Bounds
  <2>2. bar'.on = "none"
    BY <2>1, BarIs
  <2>3. \A d \in Callers : ListCall(d)'
    BY <2>1 DEF ListCall, B!At
  <2> QED BY <2>1, <2>2, <2>3 DEF KnownInv
<1> QED BY <1>1, <1>2, <1>3

\* Every step keeps it.
LEMMA KnownNext ==
  ASSUME BoardInv, WaitingInv, KnownInv, Waits, [B!Next]_(B!moderationVars)
  PROVE  KnownInv'
<1>0. BoardTypes
  BY DEF BoardInv
<1>1. CASE \E c \in Callers :
             \/ B!FetchDashboardData(c) \/ \E k \in B!Kinds : B!FetchAll(c, k)
             \/ \E e \in B!Entities : B!OpenBar(c, e) \/ \E s \in {"accepted", "rejected"} : B!Decide(c, e, s)
             \/ \E s \in {"accepted", "rejected", "suspended"} : B!UpdateStatus(c, s)
  BY <1>0, <1>1, KnownAsked
<1>2. CASE \E c \in Callers :
             \/ B!Boarded(c) \/ (\E k \in B!Kinds : B!Stored(c, k)) \/ (\E e \in B!Entities : B!ReadStatus(c, e))
             \/ B!UpdateEntityStatus(c) \/ B!StatusUpdated(c) \/ B!LoadStatusRecord(c) \/ B!Fails(c)
  BY <1>2, KnownGoesOn
<1>3. CASE \E c \in Callers : B!Decided(c)
  BY <1>0, <1>3, KnownDecided
<1>4. CASE \E c \in Callers : B!GetAllNetworkAdministrators(c) \/ B!AddNetworkAdministrator(c) \/ B!RemoveNetworkAdministrator(c)
  BY <1>0, <1>4, KnownChanges
<1>5. CASE B!LeaveDashboard \/ B!CloseBar \/ B!InvalidateCache
  BY <1>0, <1>5, KnownLeft
<1>6. CASE (\E e \in B!Entities, s \in B!Statuses : B!OtherDecides(e, s)) \/ UNCHANGED B!moderationVars
  <2>1. UNCHANGED <<listed, administrators, nonAdministrators, changed, bar, runs>>
    BY <1>6 DEF B!OtherDecides, B!moderationVars, B!Store, B!Pages
  <2> QED BY <2>1, KnownAside DEF KnownInv
<1>7. Users \subseteq B!Entities /\ Organizations \subseteq B!Entities
  BY DEF B!Entities
<1>8. \A c \in Callers : /\ \A u \in Users : B!ApproveUser(c, u) => B!Decide(c, u, "accepted")
                         /\ \A u \in Users : B!RejectUser(c, u) => B!Decide(c, u, "rejected")
                         /\ \A o \in Organizations : B!ApproveOrganization(c, o) => B!Decide(c, o, "accepted")
                         /\ \A o \in Organizations : B!RejectOrganization(c, o) => B!Decide(c, o, "rejected")
                         /\ B!HandleSuspend(c) => B!UpdateStatus(c, "suspended")
  BY DEF B!ApproveUser, B!RejectUser, B!ApproveOrganization, B!RejectOrganization, B!HandleSuspend
<1> QED BY <1>1, <1>2, <1>3, <1>4, <1>5, <1>6, <1>7, <1>8 DEF B!Next

\* To an administrator who is alone and waits for each call, whoever is shown as an
\* administrator is one and whoever is offered to become one is none, but for those
\* added or removed since the administrators were last fetched, whatever was fetched,
\* cleared or lost in between (administration.store.svelte.ts:507-530, 789-792,
\* 811-815, 885-888).
THEOREM AdministratorsShownAreSo == B!ModerationAssumption /\ Waits /\ B!Spec => []B!AdministratorsShown
<1> SUFFICES ASSUME B!ModerationAssumption, Waits
             PROVE  B!Spec => []B!AdministratorsShown
  OBVIOUS
<1>1. B!Init => BoardInv /\ WaitingInv /\ KnownInv
  <2>1. B!Init => KnownInv
    <3> SUFFICES ASSUME B!Init PROVE KnownInv
      OBVIOUS
    <3>1. bar.on = "none" /\ \A c \in Callers : runs[c].op = "none"
      BY NoRunOfBoard DEF B!Init, B!NoBar
    <3>2. administrators = {} /\ nonAdministrators = {}
      BY DEF B!Init
    <3> QED BY <3>1, <3>2 DEF KnownInv, ListCall, B!At
  <2> QED BY <2>1, BoardInit, WaitingInit
<1>2. BoardInv /\ WaitingInv /\ KnownInv /\ [B!Next]_(B!moderationVars) => BoardInv' /\ WaitingInv' /\ KnownInv'
  BY BoardNext, WaitingNext, KnownNext
<1>3. KnownInv => B!AdministratorsShown
  BY DEF KnownInv, B!AdministratorsShown
<1> QED BY <1>1, <1>2, <1>3, PTL DEF B!Spec
=============================================================================
