--------------------------- MODULE InitializationLock ---------------------------
(***************************************************************************)
(* The initializers of the administration page, which create the           *)
(* predefined service types (ServiceTypesInitializer.svelte) and mediums   *)
(* of exchange (MoEInitializer.svelte), and the lock they run under        *)
(* (initialization-lock.ts).                                               *)
(*                                                                         *)
(* A click starts a run.  The buttons do not stop a second click: what     *)
(* they look at is set only under the lock, or not tracked by the page.    *)
(* The lock holds at most one promise of a domain; a run that finds it     *)
(* taken awaits what it finds and does not look again.  Whoever awaits a   *)
(* promise goes on in the order of the microtasks, before anything else    *)
(* happens in the page: the run that made the promise first, then who      *)
(* awaits it alone, then who awaits it with Promise.all.                   *)
(*                                                                         *)
(* The initializers show while nothing is approved, as far as the page     *)
(* knows; some items may be there all the same, approved or not.  Nobody   *)
(* else decides on the items while a run is under way.                     *)
(***************************************************************************)
EXTENDS Naturals, FiniteSets

CONSTANTS
  ServiceRuns,   \* runs of the service types initializer, one for each click
  MediumRuns,    \* runs of the mediums initializer
  Services,      \* the predefined service types
  Mediums,       \* the predefined mediums of exchange
  Unapproved,    \* those of both that are there before the first click, pending or rejected
  MaxFailures,   \* bound: zome calls that answer with an error
  MaxLost        \* bound: those of them that are carried out all the same

\* Where a run is, unless it approves a medium.
Labels == {"idle", "awaitsOne", "awaitsAll", "checking", "creating", "done"}

\* What the constants must be.
InitializationLockAssumption ==
  /\ ServiceRuns \cap MediumRuns = {}
  /\ Services \cap Mediums = {}
  /\ Labels \cap Mediums = {}
  /\ Unapproved \subseteq Services \cup Mediums
  /\ MaxFailures \in Nat
  /\ MaxLost \in Nat

Runs == ServiceRuns \cup MediumRuns
Items == Services \cup Mediums
Domains == {"service-types", "mediums-of-exchange"}

Domain(r) == IF r \in ServiceRuns THEN "service-types" ELSE "mediums-of-exchange"

Predefined(r) == IF r \in ServiceRuns THEN Services ELSE Mediums

MaxRetries == 3

VARIABLES
  locks,      \* locks[d]: the run whose promise is stored for d, as a set
  pc,         \* where each run is
  awaits,     \* awaits[r]: the runs whose promises r awaits
  todo,       \* todo[r]: the items r has yet to create
  tries,      \* tries[r]: failed attempts at the item r is at
  copies,     \* copies[i]: entries created of item i
  approved,   \* the items with an approved entry
  failed,     \* history: the runs that gave something up
  failures,   \* zome calls that answered with an error
  lost        \* those of them that were carried out

lockVars == <<locks, pc, awaits>>
bodyVars == <<todo, tries, copies, approved, failed, failures, lost>>
vars == <<lockVars, bodyVars>>

Init ==
  /\ locks = [d \in Domains |-> {}]
  /\ pc = [r \in Runs |-> "idle"]
  /\ awaits = [r \in Runs |-> {}]
  /\ todo = [r \in Runs |-> {}]
  /\ tries = [r \in Runs |-> 0]
  /\ approved \in SUBSET (Items \ Unapproved)
  /\ copies = [i \in Items |-> IF i \in approved \cup Unapproved THEN 1 ELSE 0]
  /\ failed = {}
  /\ failures = 0
  /\ lost = 0

-----------------------------------------------------------------------------
(* The lock. *)

\* The runs whose awaited promises have settled.
Woken == {r \in Runs : pc[r] \in {"awaitsOne", "awaitsAll"} /\ \A p \in awaits[r] : pc[p] = "done"}

\* The page has nothing left to do but wait for input and answers.
Quiet == Woken = {}

Goto(r, label, promises) ==
  /\ pc' = [pc EXCEPT ![r] = label]
  /\ awaits' = [awaits EXCEPT ![r] = promises]

\* The promise is stored in place of whatever is stored for the domain.
Acquire(r) ==
  /\ Goto(r, "checking", {})
  /\ locks' = [locks EXCEPT ![Domain(r)] = {r}]

\* Faults: only the promise of the same domain is waited for; the promise is
\* stored before the look.
SecondLookSkipped(r) == Acquire(r)

StoreThenLook(r) ==
  /\ Goto(r, "awaitsAll", {r} \cup UNION {locks[d] : d \in Domains})
  /\ locks' = [locks EXCEPT ![Domain(r)] = {r}]

\* The second look of withLock: at the promises of every domain.
SecondLook(r) ==
  LET active == UNION {locks[d] : d \in Domains}
  IN  IF active = {} THEN Acquire(r)
      ELSE Goto(r, "awaitsAll", active) /\ UNCHANGED locks

\* A click, and the first look of withLock.
Click(r) ==
  /\ Quiet
  /\ pc[r] = "idle"
  /\ IF locks[Domain(r)] # {}
     THEN Goto(r, "awaitsOne", locks[Domain(r)]) /\ UNCHANGED locks
     ELSE SecondLook(r)
  /\ UNCHANGED bodyVars

WakeOne(r) ==
  /\ r \in Woken
  /\ pc[r] = "awaitsOne"
  /\ SecondLook(r)
  /\ UNCHANGED bodyVars

WakeAll(r) ==
  /\ r \in Woken
  /\ pc[r] = "awaitsAll"
  /\ \A s \in Woken : pc[s] = "awaitsAll"
  /\ Acquire(r)
  /\ UNCHANGED bodyVars

\* The entry of the domain is deleted, whoever stored it.
Release(r) == locks' = [locks EXCEPT ![Domain(r)] = {}]

-----------------------------------------------------------------------------
(* What a run does under the lock. *)

\* The items that exist, whatever their status, are left out.
CheckExisting(r) ==
  /\ Quiet
  /\ pc[r] = "checking"
  /\ Goto(r, "creating", {})
  /\ todo' = [todo EXCEPT ![r] = {i \in Predefined(r) : copies[i] = 0}]
  /\ UNCHANGED <<locks, tries, copies, approved, failed, failures, lost>>

\* The look fails: the run ends.
CheckFails(r) ==
  /\ Quiet
  /\ pc[r] = "checking"
  /\ failures < MaxFailures
  /\ failures' = failures + 1
  /\ Goto(r, "done", {})
  /\ Release(r)
  /\ failed' = failed \cup {r}
  /\ UNCHANGED <<todo, tries, copies, approved, lost>>

NextItem(r, i) ==
  /\ todo' = [todo EXCEPT ![r] = @ \ {i}]
  /\ tries' = [tries EXCEPT ![r] = 0]

\* Fault: the service type is suggested and stays pending.
SuggestService(r, i) ==
  /\ copies' = [copies EXCEPT ![i] = @ + 1]
  /\ NextItem(r, i)
  /\ UNCHANGED <<approved, failed, failures, lost, pc, awaits>>

\* The create call of a service type, which is approved at once.
CreateService(r, i) ==
  /\ copies' = [copies EXCEPT ![i] = @ + 1]
  /\ approved' = approved \cup {i}
  /\ NextItem(r, i)
  /\ UNCHANGED <<failed, failures, lost, pc, awaits>>

\* The suggest call of a medium, which is approved by the next call.
SuggestMedium(r, i) ==
  /\ copies' = [copies EXCEPT ![i] = @ + 1]
  /\ NextItem(r, i)
  /\ Goto(r, i, {})
  /\ UNCHANGED <<approved, failed, failures, lost>>

Create(r, i) ==
  /\ Quiet
  /\ pc[r] = "creating"
  /\ i \in todo[r]
  /\ IF r \in ServiceRuns THEN CreateService(r, i) ELSE SuggestMedium(r, i)
  /\ UNCHANGED locks

\* Fault: one failed attempt is one too few.
GiveUpLate(r, i) ==
  IF r \in ServiceRuns /\ tries[r] < MaxRetries
  THEN tries' = [tries EXCEPT ![r] = @ + 1] /\ UNCHANGED <<todo, failed>>
  ELSE NextItem(r, i) /\ failed' = failed \cup {r}

\* A service type is tried three times in all, a medium once.
GiveUp(r, i) ==
  IF r \in ServiceRuns /\ tries[r] + 1 < MaxRetries
  THEN tries' = [tries EXCEPT ![r] = @ + 1] /\ UNCHANGED <<todo, failed>>
  ELSE NextItem(r, i) /\ failed' = failed \cup {r}

\* The call fails; when it is lost it has been carried out before.
CreateFails(r, i, isLost) ==
  /\ Quiet
  /\ pc[r] = "creating"
  /\ i \in todo[r]
  /\ failures < MaxFailures
  /\ failures' = failures + 1
  /\ IF isLost
     THEN /\ lost < MaxLost
          /\ lost' = lost + 1
          /\ copies' = [copies EXCEPT ![i] = @ + 1]
          /\ approved' = IF r \in ServiceRuns THEN approved \cup {i} ELSE approved
     ELSE UNCHANGED <<lost, copies, approved>>
  /\ GiveUp(r, i)
  /\ UNCHANGED lockVars

Approve(r) ==
  /\ Quiet
  /\ pc[r] \in Mediums
  /\ approved' = approved \cup {pc[r]}
  /\ Goto(r, "creating", {})
  /\ UNCHANGED <<locks, todo, tries, copies, failed, failures, lost>>

\* A failure is reported, and the next medium comes.
ApproveFails(r) ==
  /\ Quiet
  /\ pc[r] \in Mediums
  /\ failures < MaxFailures
  /\ failures' = failures + 1
  /\ failed' = failed \cup {r}
  /\ Goto(r, "creating", {})
  /\ UNCHANGED <<locks, todo, tries, copies, approved, lost>>

Finish(r) ==
  /\ Quiet
  /\ pc[r] = "creating"
  /\ todo[r] = {}
  /\ Goto(r, "done", {})
  /\ Release(r)
  /\ UNCHANGED bodyVars

Step(r) ==
  \/ WakeOne(r) \/ WakeAll(r)
  \/ CheckExisting(r) \/ CheckFails(r)
  \/ \E i \in Items : \/ Create(r, i)
                      \/ \E isLost \in BOOLEAN : CreateFails(r, i, isLost)
  \/ Approve(r) \/ ApproveFails(r)
  \/ Finish(r)

Next == \E r \in Runs : Click(r) \/ Step(r)

\* Microtasks run, and zome calls are answered or time out.
Spec == Init /\ [][Next]_vars /\ \A r \in Runs : WF_vars(Step(r))

-----------------------------------------------------------------------------
(* Properties. *)

Active(r) == pc[r] \notin {"idle", "awaitsOne", "awaitsAll", "done"}

\* Type invariant.
TypeOK ==
  /\ locks \in [Domains -> SUBSET Runs]
  /\ \A d \in Domains : \A r, s \in locks[d] : r = s /\ Domain(r) = d
  /\ pc \in [Runs -> Labels \cup Mediums]
  /\ awaits \in [Runs -> SUBSET Runs]
  /\ todo \in [Runs -> SUBSET Items]
  /\ tries \in [Runs -> 0 .. MaxRetries - 1]
  /\ copies \in [Items -> Nat]
  /\ approved \subseteq Items
  /\ failed \subseteq Runs
  /\ failures \in 0 .. MaxFailures
  /\ lost \in 0 .. MaxLost

\* Two runs never work at the same time (initialization-lock.ts:17-31), which
\* holds as long as there are no more than two of them.
MutualExclusion == \A r, s \in Runs : (Active(r) /\ Active(s)) => r = s

\* A retry and a second run create again only what a call created without
\* saying so (ServiceTypesInitializer.svelte:138-161, 208-212).
CopiesAreLostAnswers == \A i \in Items : copies[i] <= 1 + lost

\* A run of the service types that gave nothing up leaves all of them approved
\* that were not there already, pending or rejected, whatever other runs gave up
\* before (ServiceTypesInitializer.svelte:192-244).
ServicesComplete ==
  \A r \in ServiceRuns :
    (pc[r] = "done" /\ r \notin failed) => Services \subseteq approved \cup Unapproved

\* What ServiceTypesInitializer.svelte:224 says ("Create and approve each service
\* type"), of a run that gave nothing up: what is there pending is passed over.
EachServiceApproved ==
  \A r \in ServiceRuns : (pc[r] = "done" /\ r \notin failed) => Services \subseteq approved

\* What initialization-lock.ts:2 says ("prevent concurrent initialization of
\* different domains"), with more than two clicks.
DomainsExclude == \A r \in ServiceRuns, s \in MediumRuns : ~(Active(r) /\ Active(s))

\* What MoEInitializer.svelte:124 says ("Create and approve each medium"), of a
\* run that gave nothing up.
EachMediumApproved ==
  \A r \in MediumRuns : (pc[r] = "done" /\ r \notin failed) => Mediums \subseteq approved
=============================================================================
