----------------------------- MODULE HreaTestPage -----------------------------
(***************************************************************************)
(* The test page of hREA (HREATestInterface.svelte): its tabs of the       *)
(* resource specifications of service types (ResourceSpecManager.svelte)   *)
(* and of mediums (MediumOfExchangeResourceSpecManager.svelte), over the   *)
(* hREA store.  A person loads what there is and synchronises by hand:     *)
(* the store is asked, one after the other, to make or rename the          *)
(* specification of each approved type it holds.                           *)
(*                                                                         *)
(* A name is the number of its revision.  Others rename, approve and       *)
(* reject meanwhile.  Decisions made on another page may still be under    *)
(* way when the tab is opened.                                             *)
(***************************************************************************)
EXTENDS Naturals, FiniteSets, SequencesExt

CONSTANTS
  Types, Mediums,
  Callers,       \* calls that can be under way at once
  MaxObjects,    \* bound: specifications made on the host
  MaxDecisions,  \* bound: decisions of the person
  MaxOthers,     \* bound: changes made by others
  MaxFailures,   \* bound: calls that fail before they are done, and answers lost
  Waits          \* whether the person waits for what is under way

HreaTestPageAssumption ==
  /\ IsFiniteSet(Types) /\ IsFiniteSet(Mediums) /\ Types \cap Mediums = {}
  /\ MaxObjects \in Nat
  /\ MaxDecisions \in Nat
  /\ MaxOthers \in Nat
  /\ MaxFailures \in Nat
  /\ Waits \in BOOLEAN

VARIABLES
  approved, named,   \* in the zomes: what is approved, the name of each
  host,              \* specifications on the hREA host: of what, name, whether there
  specs,             \* resourceSpecifications of the hREA store: the host's number and name
  lists,             \* approved types and mediums, as their stores hold them
  storeLoading,      \* flag of the hREA store
  tab,               \* the tab that is shown
  loading, syncing, error, results,   \* of the component that is shown
  runs,              \* the calls under way
  whole, doubtful,   \* history: specs has all; something was made while it had not
  decisions, others, failures         \* bounds

testPageVars ==
  <<approved, named, host, specs, lists, storeLoading, tab, loading, syncing, error, results,
    runs, whole, doubtful, decisions, others, failures>>

Zomes == <<approved, named>>
Component == <<loading, syncing, error, results>>
History == <<whole, doubtful>>
Bounds == <<decisions, others, failures>>

Entities == Types \cup Mediums
Tabs == {"types", "mediums"}
TabOf(e) == IF e \in Types THEN "types" ELSE "mediums"
NoResults == [created |-> {}, updated |-> {}, errors |-> {}]

Run(op, stage, of, items) ==
  [op |-> op, stage |-> stage, of |-> of, mounted |-> TRUE, alone |-> TRUE,
   given |-> items, rest |-> SetToSeq(items), answer |-> <<>>, results |-> NoResults]
NoRun == Run("none", "none", "none", {})

Item(e) == [of |-> e, name |-> named[e]]

Init ==
  /\ approved \in SUBSET Entities
  /\ named = [e \in Entities |-> 1]
  /\ \E made \in SUBSET approved :
       host = [n \in 1 .. Cardinality(made) |-> [of |-> SetToSeq(made)[n], name |-> 1, there |-> TRUE]]
  /\ specs = <<>>
  /\ lists = [t \in Tabs |-> {}]
  /\ storeLoading = FALSE
  /\ tab = "elsewhere"
  /\ loading = FALSE /\ syncing = FALSE /\ error = FALSE /\ results = NoResults
  /\ runs = [c \in Callers |-> NoRun]
  /\ whole = FALSE /\ doubtful = FALSE
  /\ decisions = 0 /\ others = 0 /\ failures = 0

-----------------------------------------------------------------------------
(* Calls. *)

Idle(c) == runs[c] = NoRun
At(c, op, stage) == runs[c].op = op /\ runs[c].stage = stage
Put(c, r) == runs' = [runs EXCEPT ![c] = r]
To(c, stage) == runs' = [runs EXCEPT ![c].stage = stage]
Answered(c, stage, answer) == runs' = [runs EXCEPT ![c].stage = stage, ![c].answer = answer]
Failing == failures < MaxFailures /\ failures' = failures + 1 /\ UNCHANGED <<decisions, others>>
Waited == Waits => \A d \in Callers : Idle(d)

\* A component that is left sets its own state in vain.
Mounted(c) == runs[c].mounted

There(i) == host[i].there
Listing == SetToSeq({[id |-> i, name |-> host[i].name] : i \in {j \in DOMAIN host : There(j)}})

\* The note looked for is that of a service type: no medium is ever found.
Found(e) == {n \in DOMAIN specs : e \in Types /\ host[specs[n].id].of = e}
FirstFound(e) == specs[CHOOSE n \in Found(e) : \A m \in Found(e) : n <= m].id

-----------------------------------------------------------------------------
(* Loading. *)

\* What is approved is asked for last.
Unmounted == [c \in Callers |-> IF Idle(c) THEN runs[c] ELSE [runs[c] EXCEPT !.mounted = FALSE]]

Open(c, t) ==
  /\ Idle(c) /\ Waited
  /\ tab # t
  /\ tab' = t
  /\ runs' = [Unmounted EXCEPT ![c] = Run("load", "agents", t, {})]
  /\ loading' = TRUE /\ syncing' = FALSE /\ error' = FALSE /\ results' = NoResults
  /\ storeLoading' = TRUE
  /\ UNCHANGED <<Zomes, host, specs, lists, History, Bounds>>

Leave ==
  /\ tab # "elsewhere" /\ Waited
  /\ tab' = "elsewhere"
  /\ runs' = Unmounted
  /\ loading' = FALSE /\ syncing' = FALSE /\ error' = FALSE /\ results' = NoResults
  /\ UNCHANGED <<Zomes, host, specs, lists, storeLoading, History, Bounds>>

Free == ~loading /\ ~storeLoading /\ ~syncing

Refresh(c) ==
  /\ Idle(c)
  /\ tab \in Tabs /\ Free
  /\ Put(c, Run("load", "agents", tab, {}))
  /\ loading' = TRUE /\ error' = FALSE /\ storeLoading' = TRUE
  /\ UNCHANGED <<Zomes, host, specs, lists, tab, syncing, results, History, Bounds>>

LoadAgents(c) ==
  /\ At(c, "load", "agents")
  /\ To(c, "specs")
  /\ storeLoading' = TRUE
  /\ UNCHANGED <<Zomes, host, specs, lists, tab, Component, History, Bounds>>

FetchSpecs(c) ==
  /\ \/ At(c, "load", "specs")
     \/ At(c, "sync", "reload")
  /\ Answered(c, "fetched", Listing)
  /\ UNCHANGED <<Zomes, host, specs, lists, storeLoading, tab, Component, History, Bounds>>

\* loadHreaData is over: a load that an event began ends there, another goes on.
LoadOver(c) ==
  /\ IF runs[c].of = "event" THEN Put(c, NoRun) ELSE To(c, "list")
  /\ storeLoading' = FALSE
  /\ loading' = (loading /\ ~Mounted(c))

SpecsFetched(c) ==
  /\ At(c, "load", "fetched")
  /\ specs' = runs[c].answer
  /\ whole' = TRUE
  /\ LoadOver(c)
  /\ UNCHANGED <<Zomes, host, lists, tab, syncing, error, results, doubtful, Bounds>>

LoadFails(c) ==
  /\ runs[c].op = "load" /\ runs[c].stage # "list"
  /\ Failing
  /\ LoadOver(c)
  /\ error' = (error \/ Mounted(c))
  /\ UNCHANGED <<Zomes, host, specs, lists, tab, syncing, results, History>>

\* A failure here is only logged.
LoadList(c) ==
  /\ At(c, "load", "list")
  /\ \/ /\ lists' = [lists EXCEPT ![runs[c].of] = {Item(e) : e \in {x \in approved : TabOf(x) = runs[c].of}}]
        /\ UNCHANGED Bounds
     \/ Failing /\ UNCHANGED lists
  /\ Put(c, NoRun)
  /\ UNCHANGED <<Zomes, host, specs, storeLoading, tab, Component, History>>

CloseError ==
  /\ error /\ error' = FALSE
  /\ UNCHANGED <<Zomes, host, specs, lists, storeLoading, tab, loading, syncing, results, runs, History, Bounds>>

-----------------------------------------------------------------------------
(* Synchronisation by hand. *)

ManualSync(c) ==
  /\ Idle(c)
  /\ tab \in Tabs /\ Free
  /\ Put(c, Run("sync", "next", tab, lists[tab]))
  /\ syncing' = TRUE
  /\ doubtful' = (doubtful \/ ~whole)
  /\ UNCHANGED <<Zomes, host, specs, lists, storeLoading, tab, loading, error, results, whole, Bounds>>

Current(c) == Head(runs[c].rest)

\* Fault: what is found is only counted, as the tab of mediums does.
CountFound(c) ==
  IF Found(Current(c).of) = {}
    THEN To(c, "create")
    ELSE runs' = [runs EXCEPT ![c].rest = Tail(@), ![c].results.updated = @ \cup {Current(c).of}]

\* What is found is renamed, and for the rest one is made.
SyncItem(c) ==
  IF Found(Current(c).of) = {}
    THEN To(c, "create")
    ELSE Answered(c, "update", <<FirstFound(Current(c).of)>>)

SyncNext(c) ==
  /\ At(c, "sync", "next")
  /\ runs[c].rest # <<>>
  /\ SyncItem(c)
  /\ UNCHANGED <<Zomes, host, specs, lists, storeLoading, tab, Component, History, Bounds>>

UpdateOnHost(c) ==
  /\ At(c, "sync", "update") /\ There(runs[c].answer[1])
  /\ host' = [host EXCEPT ![runs[c].answer[1]].name = Current(c).name]
  /\ To(c, "updated")
  /\ UNCHANGED <<Zomes, specs, lists, storeLoading, tab, Component, History, Bounds>>

\* The run goes on to what comes after the current item, which is counted.
Counted(c, field) ==
  runs' = [runs EXCEPT ![c].stage = "next", ![c].rest = Tail(@),
                       ![c].results[field] = @ \cup {Current(c).of}]

Updated(c) ==
  /\ At(c, "sync", "updated")
  /\ specs' = [n \in DOMAIN specs |->
                 IF specs[n].id = runs[c].answer[1] THEN [specs[n] EXCEPT !.name = Current(c).name]
                 ELSE specs[n]]
  /\ Counted(c, "updated")
  /\ UNCHANGED <<Zomes, host, lists, storeLoading, tab, Component, History, Bounds>>

CreateOnHost(c) ==
  /\ runs[c].op \in {"sync", "decide"} /\ runs[c].stage = "create"
  /\ Len(host) < MaxObjects
  /\ host' = Append(host, [of |-> Current(c).of, name |-> Current(c).name, there |-> TRUE])
  /\ Answered(c, "created", <<Len(host) + 1>>)
  /\ UNCHANGED <<Zomes, specs, lists, storeLoading, tab, Component, History, Bounds>>

Created(c) ==
  /\ runs[c].stage = "created"
  /\ specs' = Append(specs, [id |-> runs[c].answer[1], name |-> Current(c).name])
  /\ IF runs[c].op = "sync" THEN Counted(c, "created") ELSE Put(c, NoRun)
  /\ UNCHANGED <<Zomes, host, lists, storeLoading, tab, Component, History, Bounds>>

\* What fails is counted, and the next is tried.
ItemFails(c) ==
  /\ runs[c].op = "sync" /\ runs[c].stage \in {"create", "created", "update", "updated"}
  /\ \/ Failing
     \/ At(c, "sync", "update") /\ ~There(runs[c].answer[1]) /\ UNCHANGED Bounds
  /\ whole' = (whole /\ runs[c].stage # "created")
  /\ Counted(c, "errors")
  /\ UNCHANGED <<Zomes, host, specs, lists, storeLoading, tab, Component, doubtful>>

\* The counts are shown, and the specifications fetched again.
SyncReload(c) ==
  /\ At(c, "sync", "next") /\ runs[c].rest = <<>>
  /\ results' = IF Mounted(c) THEN runs[c].results ELSE results
  /\ To(c, "reload")
  /\ storeLoading' = TRUE
  /\ UNCHANGED <<Zomes, host, specs, lists, tab, loading, syncing, error, History, Bounds>>

SyncOver(c) ==
  /\ storeLoading' = FALSE
  /\ syncing' = (syncing /\ ~Mounted(c))
  /\ Put(c, NoRun)

SyncEnds(c) ==
  /\ At(c, "sync", "fetched")
  /\ specs' = runs[c].answer
  /\ whole' = TRUE
  /\ SyncOver(c)
  /\ UNCHANGED <<Zomes, host, lists, tab, loading, error, results, doubtful, Bounds>>

SyncFails(c) ==
  /\ At(c, "sync", "reload")
  /\ Failing
  /\ SyncOver(c)
  /\ error' = (error \/ Mounted(c))
  /\ UNCHANGED <<Zomes, host, specs, lists, tab, loading, results, History>>

\* The specifications a tab shows, and what it says of each.
ShownOf(S) == {n \in DOMAIN specs : host[specs[n].id].of \in S}
TypesShown == tab = "types" /\ ~loading /\ ~storeLoading
MediumsShown == tab = "mediums" /\ ~loading /\ ~storeLoading
Shown == IF TypesShown THEN ShownOf(Types) ELSE IF MediumsShown THEN ShownOf(Mediums) ELSE {}
SaysFound(n) == \E r \in lists[tab] : r.of = host[specs[n].id].of

\* What it says of the last synchronisation, if anything was synchronised.
Totals == IF results.created \cup results.updated = {} THEN NoResults ELSE results

-----------------------------------------------------------------------------
(* Decisions made in this page before the tab was opened. *)

Decide(c, e, s) ==
  /\ tab = "elsewhere" /\ Idle(c) /\ Waited
  /\ decisions < MaxDecisions /\ decisions' = decisions + 1
  /\ s = "rejected" <=> e \in approved
  /\ Put(c, Run("decide", s, "event", {Item(e)}))
  /\ UNCHANGED <<Zomes, host, specs, lists, storeLoading, tab, Component, History, others, failures>>

\* The event: the store makes or deletes the specification, and the tab of mediums
\* loads what there is.
EventRun(c) ==
  LET e == Current(c).of
  IN  IF At(c, "decide", "approved") /\ Found(e) = {} THEN [runs[c] EXCEPT !.stage = "create"]
      ELSE IF At(c, "decide", "rejected") /\ Found(e) # {}
        THEN [runs[c] EXCEPT !.stage = "delete", !.answer = <<FirstFound(e)>>]
      ELSE NoRun

Disturbed == [d \in Callers |-> IF Idle(d) THEN runs[d] ELSE [runs[d] EXCEPT !.alone = FALSE]]

Hears(e) == tab = "mediums" /\ e \in Mediums

Decided(c) ==
  /\ runs[c].op = "decide" /\ runs[c].stage \in {"approved", "rejected"}
  /\ LET r == Current(c)
         t == TabOf(r.of)
     IN  /\ IF runs[c].stage = "approved"
              THEN /\ approved' = approved \cup {r.of}
                   /\ lists' = [lists EXCEPT ![t] = @ \cup {r}]
                   /\ doubtful' = (doubtful \/ ~whole)
              ELSE /\ approved' = approved \ {r.of}
                   /\ lists' = [lists EXCEPT ![t] = {x \in @ : x.of # r.of}]
                   /\ UNCHANGED doubtful
         /\ \/ Hears(r.of) /\ loading' = TRUE /\ error' = FALSE /\ storeLoading' = TRUE
               /\ \E d \in Callers : Idle(d) /\
                    runs' = [Disturbed EXCEPT ![c] = EventRun(c), ![d] = Run("load", "agents", "event", {})]
            \/ ~Hears(r.of) /\ UNCHANGED <<loading, error, storeLoading>>
               /\ runs' = [Disturbed EXCEPT ![c] = EventRun(c)]
  /\ UNCHANGED <<named, host, specs, tab, syncing, results, whole, Bounds>>

DeleteOnHost(c) ==
  /\ At(c, "decide", "delete") /\ There(runs[c].answer[1])
  /\ host' = [host EXCEPT ![runs[c].answer[1]].there = FALSE]
  /\ To(c, "deleted")
  /\ UNCHANGED <<Zomes, specs, lists, storeLoading, tab, Component, History, Bounds>>

\* The entries that are not those of the specification i.
Without(i) ==
  LET kept[n \in 0 .. Len(specs)] ==
        IF n = 0 THEN <<>> ELSE IF specs[n].id = i THEN kept[n - 1] ELSE Append(kept[n - 1], specs[n])
  IN  kept[Len(specs)]

Deleted(c) ==
  /\ At(c, "decide", "deleted")
  /\ specs' = Without(runs[c].answer[1])
  /\ Put(c, NoRun)
  /\ UNCHANGED <<Zomes, host, lists, storeLoading, tab, Component, History, Bounds>>

DecisionFails(c) ==
  /\ runs[c].op = "decide"
  /\ \/ Failing
     \/ At(c, "decide", "delete") /\ ~There(runs[c].answer[1]) /\ UNCHANGED Bounds
  /\ whole' = (whole /\ runs[c].stage # "created")
  /\ Put(c, NoRun)
  /\ UNCHANGED <<Zomes, host, specs, lists, storeLoading, tab, Component, doubtful>>

-----------------------------------------------------------------------------
(* Others rename, and decide in pages of their own, which make and delete
   specifications too. *)

OthersAct ==
  /\ others < MaxOthers
  /\ others' = others + 1
  /\ \E e \in Entities :
       \/ named' = [named EXCEPT ![e] = @ + 1] /\ UNCHANGED <<approved, host>>
       \/ /\ e \notin approved /\ Len(host) < MaxObjects
          /\ approved' = approved \cup {e}
          /\ host' = Append(host, [of |-> e, name |-> named[e], there |-> TRUE])
          /\ UNCHANGED named
       \/ /\ e \in approved
          /\ approved' = approved \ {e}
          /\ host' = [i \in DOMAIN host |-> [host[i] EXCEPT !.there = @ /\ host[i].of # e]]
          /\ UNCHANGED named
  /\ whole' = FALSE
  /\ runs' = Disturbed
  /\ UNCHANGED <<specs, lists, storeLoading, tab, Component, doubtful, decisions, failures>>

Next ==
  \/ \E c \in Callers :
       \/ \E t \in Tabs : Open(c, t)
       \/ Refresh(c) \/ LoadAgents(c) \/ FetchSpecs(c) \/ SpecsFetched(c) \/ LoadFails(c) \/ LoadList(c)
       \/ ManualSync(c) \/ SyncNext(c) \/ UpdateOnHost(c) \/ Updated(c) \/ CreateOnHost(c)
       \/ Created(c) \/ ItemFails(c) \/ SyncReload(c) \/ SyncEnds(c) \/ SyncFails(c)
       \/ \E e \in Entities, s \in {"approved", "rejected"} : Decide(c, e, s)
       \/ Decided(c) \/ DeleteOnHost(c) \/ Deleted(c) \/ DecisionFails(c)
  \/ Leave \/ CloseError \/ OthersAct

Spec == Init /\ [][Next]_testPageVars

-----------------------------------------------------------------------------
(* Properties. *)

\* Type invariant.
TypeOK ==
  /\ approved \subseteq Entities
  /\ \A i \in DOMAIN host : host[i].of \in Entities /\ There(i) \in BOOLEAN
  /\ \A n \in DOMAIN specs : specs[n].id \in DOMAIN host
  /\ \A t \in Tabs : \A r \in lists[t] : r.of \in Entities
  /\ tab \in Tabs \cup {"elsewhere"}
  /\ loading \in BOOLEAN /\ syncing \in BOOLEAN /\ error \in BOOLEAN /\ storeLoading \in BOOLEAN
  /\ results.created \cup results.updated \cup results.errors \subseteq Entities

\* A synchronisation that says it had no errors leaves in the page, for every
\* service type it was given, a specification with a name it was given for it,
\* whichever calls failed before or load at the same time, unless a decision came in
\* meanwhile; and of two synchronisations at once each does, before anything is
\* decided (ResourceSpecManager.svelte:221-268, hrea.store.svelte.ts:1544-1571).
SyncedIsThere ==
  \A c \in Callers :
    (/\ SyncEnds(c) /\ runs[c].of = "types" /\ runs[c].alone /\ runs[c].results.errors = {}
     /\ Waits \/ (others = 0 /\ decisions = 0)) =>
      \A r \in runs[c].given :
        \E n \in DOMAIN specs' : /\ host[specs'[n].id].of = r.of
                                  /\ [of |-> r.of, name |-> specs'[n].name] \in runs[c].given

\* Once nothing is under way, before anything fails or is decided, each specification
\* of the tab is that of something approved, and a synchronisation without errors
\* has gone through all that is (ResourceSpecManager.svelte:36-38, 318-325, 442-520,
\* MediumOfExchangeResourceSpecManager.svelte:30-34, 370-470).
TabTells ==
  (tab \in Tabs /\ others = 0 /\ decisions = 0 /\ failures = 0 /\ \A c \in Callers : Idle(c)) =>
    /\ \A n \in Shown : SaysFound(n)
    /\ (Totals # NoResults /\ Totals.errors = {}) =>
         Totals.created \cup Totals.updated = {r.of : r \in lists[tab]}

\* A person who waits makes no second specification of a service type, however
\* often they synchronise and whatever fails, while the store holds all there is:
\* the buttons are off during a load and a synchronisation
\* (ResourceSpecManager.svelte:372-396, hrea.store.svelte.ts:954-968).
NoneTwice ==
  (~doubtful /\ others = 0) =>
    \A e \in Types : Cardinality({i \in DOMAIN host : There(i) /\ host[i].of = e}) <= 1

\* The same of mediums, which "Resource spec already exists for medium"
\* (MediumOfExchangeResourceSpecManager.svelte:121) is for.  Not what the code does: it
\* looks for the note of a service type, and makes another at each synchronisation.
NoMediumTwice ==
  (~doubtful /\ others = 0) =>
    \A e \in Mediums : Cardinality({i \in DOMAIN host : There(i) /\ host[i].of = e}) <= 1
===============================================================================
