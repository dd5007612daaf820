------------------------------ MODULE ListingTabs ------------------------------
(***************************************************************************)
(* The pages that list requests and offers: the page of each kind, which   *)
(* lists everybody's (requests/+page.svelte, useRequestsManagement, and    *)
(* the same for offers), the page of the user's own (MyListings.svelte)    *)
(* with its cards (RequestCard.svelte, OfferCard.svelte), and the profile  *)
(* of a user (UserProfile.svelte).                                         *)
(*                                                                         *)
(* All of them load through the two stores, and each store has one array   *)
(* of active and one of archived listings: what one page asked for takes   *)
(* the place of what another did.  The page of a kind and the page of the  *)
(* user's own show these arrays; a profile keeps the answers to itself.    *)
(* A run is a function of a page that loads one kind after the other; it   *)
(* goes on when its page is left.  The model leaves out who edits a        *)
(* listing, the filters and the search, which choose among what is shown.  *)
(***************************************************************************)
EXTENDS Naturals, Sequences, FiniteSets, SequencesExt

CONSTANTS
  Kinds,        \* the kinds, in the order in which pages load them
  Listings,     \* the listings
  KindOf,       \* the kind of each
  Owner,        \* the user who made each
  me,           \* the user of this window
  Admin,        \* whether this user is an administrator
  Runs,         \* bound: the runs that may be under way
  Waits,        \* whether the user waits for each page to load
  MaxChanges,   \* bound: listings archived or deleted
  MaxFailures   \* bound: calls that fail

\* What the constants must be.
ListingTabsAssumption ==
  /\ Kinds \in Seq({"requests", "offers"}) /\ Kinds # <<>>
  /\ KindOf \in [Listings -> ToSet(Kinds)]
  /\ \E us \in {{Owner[l] : l \in Listings} \cup {me}} : Owner \in [Listings -> us]
  /\ {Admin, Waits} \subseteq BOOLEAN
  /\ {MaxChanges, MaxFailures} \subseteq Nat

VARIABLES
  status,    \* of each listing, on the DHT
  store,     \* the arrays of active and archived listings of each kind
  page,      \* the page that is open
  shown,     \* what a profile keeps of each kind
  loading,   \* the kinds the page shows as loading
  failed,    \* the kinds whose error the page shows
  runs,      \* the runs under way
  failures   \* calls that failed

tabsVars == <<status, store, page, shown, loading, failed, runs, failures>>

KindSet == ToSet(Kinds)
Tabs == {"active", "archived"}
Users == {Owner[l] : l \in Listings} \cup {me}
NoListings == [k \in KindSet |-> {}]

\* The pages.  The tabs of a profile are chosen for each kind, those of the
\* user's own listings for both.
Page(at, who, ks) == [at |-> at, who |-> who, kinds |-> ks, tab |-> [k \in KindSet |-> "active"]]
Start == Page("elsewhere", me, <<>>)

Idle == [on |-> "idle", todo |-> <<>>, tab |-> "active", answer |-> {}, left |-> Start, live |-> FALSE]

Init ==
  /\ status \in [Listings -> Tabs]
  /\ store = [k \in KindSet |-> [t \in Tabs |-> {}]]
  /\ page = Start
  /\ shown = NoListings
  /\ loading = {}
  /\ failed = {}
  /\ runs = [r \in Runs |-> Idle]
  /\ failures = 0

Quiet == \A r \in Runs : runs[r].on = "idle"
Free(r) == runs[r].on = "idle" /\ (Waits => Quiet)

\* What the zome answers of a kind: everybody's, or one user's.
Records(at, who, k, t) ==
  {l \in Listings : KindOf[l] = k /\ status[l] = t /\ (at # "list" => Owner[l] = who)}

\* A run asks for its next kind, under the tab its page has at the time.
Asking(p, todo, live) ==
  [on |-> "load", todo |-> todo, tab |-> p.tab[Head(todo)], live |-> live,
   left |-> IF live THEN Start ELSE p,
   answer |-> Records(p.at, p.who, Head(todo), p.tab[Head(todo)])]

\* The page a run belongs to, as it is or as it was left.
PageOf(r) == IF runs[r].live THEN page ELSE runs[r].left

\* Runs of a page that is left.
Leaving == [r \in Runs |->
  IF runs[r].on = "idle" \/ ~runs[r].live THEN runs[r]
  ELSE [runs[r] EXCEPT !.live = FALSE, !.left = page]]

Begin(r, rs, p, ks) ==
  /\ runs' = [rs EXCEPT ![r] = Asking(p, ks, TRUE)]
  /\ loading' = loading \cup {Head(ks)}

-----------------------------------------------------------------------------
(* The user goes to a page, which loads. *)

\* The page of a kind, with the arrays as they are until it has loaded.
OpenList(r, k) ==
  /\ Free(r)
  /\ page.at # "list" \/ page.kinds # <<k>>
  /\ page' = Page("list", me, <<k>>)
  /\ runs' = [Leaving EXCEPT ![r] = Asking(page', <<k>>, TRUE)]
  /\ loading' = {k}
  /\ failed' = {}
  /\ UNCHANGED <<status, store, shown, failures>>

OpenMyListings(r) ==
  /\ Free(r)
  /\ page.at # "mine"
  /\ page' = Page("mine", me, Kinds)
  /\ runs' = [Leaving EXCEPT ![r] = Asking(page', Kinds, TRUE)]
  /\ loading' = {Head(Kinds)}
  /\ failed' = {}
  /\ UNCHANGED <<status, store, shown, failures>>

\* The profile of the user and those of the others are pages of their own.
OpenProfile(r, u) ==
  /\ Free(r)
  /\ page.at # "profile" \/ (page.who = me) # (u = me)
  /\ page' = Page("profile", u, Kinds)
  /\ shown' = NoListings
  /\ runs' = [Leaving EXCEPT ![r] = Asking(page', Kinds, TRUE)]
  /\ loading' = {Head(Kinds)}
  /\ failed' = {}
  /\ UNCHANGED <<status, store, failures>>

\* The profile of the user loads again when the user was read again.
ProfileChanges(r) ==
  /\ Free(r)
  /\ page.at = "profile" /\ page.who = me
  /\ Begin(r, runs, page, Kinds)
  /\ UNCHANGED <<status, store, page, shown, failed, failures>>

OtherTab(t) == CHOOSE o \in Tabs : o # t

\* A tab of the page is chosen.  The page of a kind shows no spinner then.
SetListingTab(r, k) ==
  /\ Free(r)
  /\ page.at = "list" /\ page.kinds = <<k>>
  /\ page' = [page EXCEPT !.tab[k] = OtherTab(@)]
  /\ runs' = [runs EXCEPT ![r] = Asking(page', <<k>>, TRUE)]
  /\ failed' = {}
  /\ UNCHANGED <<status, store, shown, loading, failures>>

SwitchTab(r) ==
  /\ Free(r)
  /\ page.at = "mine"
  /\ page' = [page EXCEPT !.tab = [k \in KindSet |-> OtherTab(@[k])]]
  /\ Begin(r, runs, page', Kinds)
  /\ failed' = failed \ {Head(Kinds)}
  /\ UNCHANGED <<status, store, shown, failures>>

SetProfileTab(r, k) ==
  /\ Free(r)
  /\ page.at = "profile" /\ failed = {}
  /\ page' = [page EXCEPT !.tab[k] = OtherTab(@)]
  /\ Begin(r, runs, page', <<k>>)
  /\ UNCHANGED <<status, store, shown, failed, failures>>

\* "Refresh", "Retry" and "Try Again".
TryAgain(r) ==
  /\ Free(r)
  /\ page.at \in {"list", "mine"} /\ failed # {}
  /\ Begin(r, runs, page, page.kinds)
  /\ failed' = failed \ {Head(page.kinds)}
  /\ UNCHANGED <<status, store, page, shown, failures>>

-----------------------------------------------------------------------------
(* What was asked for comes back. *)

\* The next kind, if there is one.  The spinner of this one stops, even when
\* another run has started it again.  The user's own listings forget the error
\* of a kind when they ask for it.
Go(r, errors) ==
  LET p == PageOf(r)  rest == Tail(runs[r].todo)  next == IF rest = <<>> THEN {} ELSE {Head(rest)} IN
  /\ runs' = [runs EXCEPT ![r] = IF rest = <<>> THEN Idle ELSE Asking(p, rest, @.live)]
  /\ loading' = IF ~runs[r].live THEN loading ELSE (loading \ {Head(runs[r].todo)}) \cup next
  /\ failed' = IF ~runs[r].live THEN failed
               ELSE (failed \cup errors) \ (IF page.at = "mine" THEN next ELSE {})

\* Fault: a profile shows what the store has.
AnsweredFromStore(r) ==
  LET k == Head(runs[r].todo) IN
  /\ runs[r].on = "load"
  /\ store' = [store EXCEPT ![k][runs[r].tab] = runs[r].answer]
  /\ shown' = IF runs[r].live /\ page.at = "profile" THEN [shown EXCEPT ![k] = store[k][runs[r].tab]] ELSE shown
  /\ Go(r, {})
  /\ UNCHANGED <<status, page, failures>>

\* The array of the tab that was asked for is replaced, and a profile keeps
\* the answer, whichever tab and user it shows by now.
Answered(r) ==
  LET k == Head(runs[r].todo) IN
  /\ runs[r].on = "load"
  /\ store' = [store EXCEPT ![k][runs[r].tab] = runs[r].answer]
  /\ shown' = IF runs[r].live /\ page.at = "profile" THEN [shown EXCEPT ![k] = runs[r].answer] ELSE shown
  /\ Go(r, {})
  /\ UNCHANGED <<status, page, failures>>

\* Without a connection the list of everybody's is emptied; the lists of one
\* user stay, and a profile shows nothing.
NotConnected(r) ==
  LET k == Head(runs[r].todo) IN
  /\ runs[r].on = "load"
  /\ failures < MaxFailures
  /\ failures' = failures + 1
  /\ store' = IF PageOf(r).at = "list" THEN [store EXCEPT ![k][runs[r].tab] = {}] ELSE store
  /\ shown' = IF runs[r].live /\ page.at = "profile" THEN [shown EXCEPT ![k] = {}] ELSE shown
  /\ Go(r, {})
  /\ UNCHANGED <<status, page>>

\* Any other failure shows an error, on a profile instead of everything.
LoadFails(r) ==
  LET k == Head(runs[r].todo) IN
  /\ runs[r].on = "load"
  /\ failures < MaxFailures
  /\ failures' = failures + 1
  /\ Go(r, IF page.at = "profile" THEN KindSet ELSE {k})
  /\ UNCHANGED <<status, store, page, shown>>

-----------------------------------------------------------------------------
(* What the pages show of the kinds they have loaded, and what the cards do. *)

\* What the arrays give the tab of a page.
Filtered(k) == store[k][page.tab[k]]

\* The table on the page of a kind, and the one on a profile.
Listed(k) == {l \in Filtered(k) : page.at = "list" /\ k \notin loading}
Profiled(k) == {l \in shown[k] : page.at = "profile" /\ failed = {} /\ k \notin loading}

\* The cards of the user's own listings.
Cards == {l \in Listings :
  /\ page.at = "mine"
  /\ KindOf[l] \notin loading \cup failed
  /\ l \in Filtered(KindOf[l])}

\* The zome lets the author and administrators archive and delete.
May(l) == status[l] # "gone" /\ (Owner[l] = me \/ Admin)

Changed == Cardinality({l \in Listings : status[l] = "gone"})

\* A card archives or deletes its listing.
CardCalls(r, l, s) ==
  /\ Free(r)
  /\ l \in Cards
  /\ s = "archived" => page.tab[KindOf[l]] = "active"
  /\ s = "gone" => Changed < MaxChanges
  /\ May(l)
  /\ status' = [status EXCEPT ![l] = s]
  /\ runs' = [runs EXCEPT ![r] = [Idle EXCEPT !.on = "card", !.answer = {l}, !.live = TRUE]]
  /\ UNCHANGED <<store, page, shown, loading, failed, failures>>

\* The store drops it, and the page loads again, also when it was left.
CardDone(r) ==
  /\ runs[r].on = "card"
  /\ store' = [k \in KindSet |-> [t \in Tabs |-> store[k][t] \ runs[r].answer]]
  /\ LET p == PageOf(r) IN
     /\ runs' = [runs EXCEPT ![r] = Asking(p, Kinds, @.live)]
     /\ loading' = IF runs[r].live THEN loading \cup {Head(Kinds)} ELSE loading
     /\ failed' = IF runs[r].live THEN failed \ {Head(Kinds)} ELSE failed
  /\ UNCHANGED <<status, page, shown, failures>>

\* "Restore functionality coming soon".
HandleRestore(r) ==
  /\ Free(r)
  /\ \E l \in Cards : page.tab[KindOf[l]] = "archived"
  /\ Begin(r, runs, page, Kinds)
  /\ failed' = failed \ {Head(Kinds)}
  /\ UNCHANGED <<status, store, page, shown, failures>>

Next ==
  \E r \in Runs :
    \/ \E k \in KindSet : OpenList(r, k) \/ SetListingTab(r, k) \/ SetProfileTab(r, k)
    \/ \E u \in Users : OpenProfile(r, u)
    \/ ProfileChanges(r) \/ OpenMyListings(r) \/ SwitchTab(r) \/ TryAgain(r) \/ HandleRestore(r)
    \/ Answered(r) \/ NotConnected(r) \/ LoadFails(r) \/ CardDone(r)
    \/ \E l \in Listings, s \in {"archived", "gone"} : CardCalls(r, l, s)

Spec == Init /\ [][Next]_tabsVars

-----------------------------------------------------------------------------
(* Properties. *)

\* Type invariant.
TypeOK ==
  /\ status \in [Listings -> Tabs \cup {"gone"}]
  /\ \A k \in KindSet, t \in Tabs : store[k][t] \subseteq {l \in Listings : KindOf[l] = k}
  /\ page.at \in {"elsewhere", "list", "mine", "profile"}
  /\ \A k \in KindSet : shown[k] \subseteq {l \in Listings : KindOf[l] = k}
  /\ loading \subseteq KindSet /\ failed \subseteq KindSet
  /\ failures \in 0 .. MaxFailures

\* However the user changes pages and tabs while they load, what is under the
\* tab of archived listings was archived (MyListings.svelte:30-72,
\* useRequestsManagement.svelte.ts:141-170).
ArchivedUnderArchived ==
  \A k \in KindSet, l \in Listings : l \in store[k]["archived"] => status[l] # "active"

\* When the user waits for each page, a profile that has loaded shows listings of
\* its user and its tab and no other, and the page of a kind that has loaded
\* lists all there are, whatever the pages before put in the same arrays
\* (UserProfile.svelte:105-160, requests.store.svelte.ts:614-645).
PagesShowTheirOwn ==
  (Quiet /\ failed = {}) => \A k \in ToSet(page.kinds) :
    /\ Profiled(k) \subseteq Records("profile", page.who, k, page.tab[k])
    /\ (page.at = "list" /\ failures = 0) => Listed(k) = Records("list", me, k, page.tab[k])

\* What the page my-listings/+page.svelte:57 says of itself ("Manage your requests
\* and offers"): the cards are the user's own.
MineAreMine == \A l \in Cards : Owner[l] = me
=============================================================================
