------------------------------- MODULE MCClient -------------------------------
(***************************************************************************)
(* What runs in one page of the UI beside the stores of its lists: the     *)
(* initializers of the administration page with their lock, the connection *)
(* to the conductor, the mapping of entities to hREA, and the page that    *)
(* synchronises it by hand.  They share no state, so a behaviour is of one *)
(* of them: `scenario` says of which.                                      *)
(***************************************************************************)
EXTENDS Naturals, FiniteSets

CONSTANTS
  Scenarios,    \* the scenarios looked at
  r1, r2, r3,   \* runs of an initializer
  s1, s2,       \* predefined service types
  m1,           \* a predefined medium of exchange
  w1, g1, u1,   \* a waiter, a guard and a caller of the connection
  c1, c2, c3,   \* calls of the hREA store
  p1, o1        \* a user and an organization

VARIABLES
  scenario,
  pc,                                                     \* of InitializationLock and of Connection
  failed, lost,                                           \* of InitializationLock and of Hrea
  approved, failures,                                     \* of InitializationLock and of HreaTestPage
  host, runs,                                             \* of Hrea and of HreaTestPage
  locks, awaits, todo, tries, copies,                     \* of InitializationLock
  client, isConnected, isConnecting, made, broken,        \* of Connection
  retryCount, delay, repeats, limit, calls, stage, steps,
  known, mapping, inFlight, status, fetched, cutShort, reloads,   \* of Hrea
  named, specs, lists, storeLoading, tab, loading, syncing, error, results,   \* of HreaTestPage
  whole, doubtful, decisions, others

lock == <<locks, awaits, todo, tries, copies>>
connection == <<client, isConnected, isConnecting, made, broken, retryCount, delay, repeats, limit, calls, stage, steps>>
hrea == <<known, mapping, inFlight, status, fetched, cutShort, reloads>>
testPage ==
  <<named, specs, lists, storeLoading, tab, loading, syncing, error, results, whole, doubtful, decisions, others>>
vars == <<scenario, pc, failed, lost, approved, failures, host, runs, lock, connection, hrea, testPage>>

\* Two clicks on one initializer, with calls that fail or lose their answer.
LockOfOne ==
  INSTANCE InitializationLock WITH
    ServiceRuns <- {r1, r2}, MediumRuns <- {}, Services <- {s1, s2}, Mediums <- {}, Unapproved <- {},
    MaxFailures <- 5, MaxLost <- 2

\* A click on each initializer, when one of the service types is there, pending.
LockOfTwo ==
  INSTANCE InitializationLock WITH
    ServiceRuns <- {r1}, MediumRuns <- {r2}, Services <- {s1, s2}, Mediums <- {m1},
    Unapproved <- {s2}, MaxFailures <- 2, MaxLost <- 1

\* Three clicks on two initializers.
LockOfThree ==
  INSTANCE InitializationLock WITH
    ServiceRuns <- {r1, r2}, MediumRuns <- {r3}, Services <- {s1}, Mediums <- {m1}, Unapproved <- {},
    MaxFailures <- 0, MaxLost <- 0

Connecting ==
  INSTANCE Connection WITH
    Waiters <- {w1}, Guards <- {g1}, Users <- {u1}, MaxConnections <- 2

\* The agents of a user and of an organization, while the pages fetch first.
HreaAgents ==
  INSTANCE Hrea WITH
    Callers <- {c1, c2, c3}, Users <- {p1}, Organizations <- {o1}, ServiceTypes <- {}, Mediums <- {},
    MaxObjects <- 3, MaxFailures <- 1, MaxLost <- 0, MaxReloads <- 1, Waits <- TRUE

\* The specifications of service types and of a medium, one call at a time.
HreaSpecifications ==
  INSTANCE Hrea WITH
    Callers <- {c1}, Users <- {}, Organizations <- {}, ServiceTypes <- {s1, s2}, Mediums <- {m1},
    MaxObjects <- 4, MaxFailures <- 1, MaxLost <- 0, MaxReloads <- 1, Waits <- TRUE

\* Agents and specifications, with calls at any time and answers lost.
HreaOverlap ==
  INSTANCE Hrea WITH
    Callers <- {c1, c2}, Users <- {p1}, Organizations <- {}, ServiceTypes <- {s1}, Mediums <- {},
    MaxObjects <- 2, MaxFailures <- 1, MaxLost <- 1, MaxReloads <- 0, Waits <- FALSE

\* A person synchronises two service types while calls fail.
TestPageOfTypes ==
  INSTANCE HreaTestPage WITH
    Types <- {s1, s2}, Mediums <- {}, Callers <- {1, 2}, MaxObjects <- 4,
    MaxDecisions <- 0, MaxOthers <- 1, MaxFailures <- 1, Waits <- TRUE

\* They decide on service types and on a medium between the synchronisations.
TestPageDecided ==
  INSTANCE HreaTestPage WITH
    Types <- {s1}, Mediums <- {m1}, Callers <- {1, 2}, MaxObjects <- 3,
    MaxDecisions <- 1, MaxOthers <- 0, MaxFailures <- 1, Waits <- TRUE

\* They do not wait.
TestPageOverlap ==
  INSTANCE HreaTestPage WITH
    Types <- {s1}, Mediums <- {}, Callers <- {1, 2}, MaxObjects <- 3,
    MaxDecisions <- 1, MaxOthers <- 0, MaxFailures <- 1, Waits <- FALSE

\* The constants are what the components assume of them.
ASSUME Parameters ==
  /\ LockOfOne!InitializationLockAssumption
  /\ LockOfTwo!InitializationLockAssumption
  /\ LockOfThree!InitializationLockAssumption
  /\ Connecting!ConnectionAssumption
  /\ HreaAgents!HreaAssumption
  /\ HreaSpecifications!HreaAssumption
  /\ HreaOverlap!HreaAssumption
  /\ TestPageOfTypes!HreaTestPageAssumption
  /\ TestPageDecided!HreaTestPageAssumption
  /\ TestPageOverlap!HreaTestPageAssumption

In(s) == scenario = s /\ s \in Scenarios

NoLock ==
  locks = 0 /\ awaits = 0 /\ todo = 0 /\ tries = 0 /\ copies = 0

NoConnection ==
  /\ client = 0 /\ isConnected = 0 /\ isConnecting = 0 /\ made = 0 /\ broken = 0 /\ retryCount = 0
  /\ delay = 0 /\ repeats = 0 /\ limit = 0 /\ calls = 0 /\ stage = 0 /\ steps = 0

NoHrea ==
  /\ known = 0 /\ mapping = 0 /\ inFlight = 0
  /\ status = 0 /\ fetched = 0 /\ cutShort = 0 /\ reloads = 0

NoTestPage ==
  /\ named = 0 /\ specs = 0 /\ lists = 0 /\ storeLoading = 0 /\ tab = 0 /\ loading = 0 /\ syncing = 0
  /\ error = 0 /\ results = 0 /\ whole = 0 /\ doubtful = 0 /\ decisions = 0 /\ others = 0

Init ==
  \/ /\ \/ In("lock of one") /\ LockOfOne!Init
        \/ In("lock of two") /\ LockOfTwo!Init
        \/ In("lock of three") /\ LockOfThree!Init
     /\ NoConnection /\ NoHrea /\ NoTestPage /\ host = 0 /\ runs = 0
  \/ /\ In("connection") /\ Connecting!Init
     /\ NoLock /\ NoHrea /\ NoTestPage
     /\ failed = 0 /\ lost = 0 /\ approved = 0 /\ failures = 0 /\ host = 0 /\ runs = 0
  \/ /\ \/ In("hREA agents") /\ HreaAgents!Init
        \/ In("hREA specifications") /\ HreaSpecifications!Init
        \/ In("hREA overlap") /\ HreaOverlap!Init
     /\ NoLock /\ NoConnection /\ NoTestPage /\ pc = 0 /\ approved = 0 /\ failures = 0
  \/ /\ \/ In("test page of types") /\ TestPageOfTypes!Init
        \/ In("test page decided") /\ TestPageDecided!Init
        \/ In("test page overlap") /\ TestPageOverlap!Init
     /\ NoLock /\ NoConnection /\ NoHrea /\ pc = 0 /\ failed = 0 /\ lost = 0

LockStep ==
  /\ \/ In("lock of one") /\ LockOfOne!Next
     \/ In("lock of two") /\ LockOfTwo!Next
     \/ In("lock of three") /\ LockOfThree!Next
  /\ UNCHANGED <<host, runs, connection, hrea, testPage>>

ConnectionStep ==
  /\ In("connection") /\ Connecting!Next
  /\ UNCHANGED <<failed, lost, approved, failures, host, runs, lock, hrea, testPage>>

HreaStep ==
  /\ \/ In("hREA agents") /\ HreaAgents!Next
     \/ In("hREA specifications") /\ HreaSpecifications!Next
     \/ In("hREA overlap") /\ HreaOverlap!Next
  /\ UNCHANGED <<pc, approved, failures, lock, connection, testPage>>

TestPageStep ==
  /\ \/ In("test page of types") /\ TestPageOfTypes!Next
     \/ In("test page decided") /\ TestPageDecided!Next
     \/ In("test page overlap") /\ TestPageOverlap!Next
  /\ UNCHANGED <<pc, failed, lost, lock, connection, hrea>>

Next == (LockStep \/ ConnectionStep \/ HreaStep \/ TestPageStep) /\ UNCHANGED scenario

Spec == Init /\ [][Next]_vars

-----------------------------------------------------------------------------
(* Properties: those of the components, each in the scenarios it is about. *)

\* Type invariant.
TypeOK ==
  /\ In("lock of one") => LockOfOne!TypeOK
  /\ In("lock of two") => LockOfTwo!TypeOK
  /\ In("connection") => Connecting!TypeOK
  /\ In("hREA agents") => HreaAgents!TypeOK
  /\ In("hREA specifications") => HreaSpecifications!TypeOK
  /\ In("hREA overlap") => HreaOverlap!TypeOK
  /\ In("test page of types") => TestPageOfTypes!TypeOK
  /\ In("test page decided") => TestPageDecided!TypeOK
  /\ In("test page overlap") => TestPageOverlap!TypeOK

\* Two runs under the lock never work at the same time
\* (initialization-lock.ts:17-31).
MutualExclusion ==
  /\ In("lock of one") => LockOfOne!MutualExclusion
  /\ In("lock of two") => LockOfTwo!MutualExclusion

\* A run that gave nothing up leaves every predefined type approved that was not
\* there before, pending or rejected, and only a lost answer makes a second copy
\* (ServiceTypesInitializer.svelte:138-161, 192-244).
ServicesComplete ==
  /\ In("lock of one") => LockOfOne!ServicesComplete /\ LockOfOne!CopiesAreLostAnswers
  /\ In("lock of two") => LockOfTwo!ServicesComplete

\* One caller connects at a time, while isConnecting says so, and the service is
\* connected exactly if it has a client (HolochainClientService.svelte.ts:66-112).
OneConnects == In("connection") => Connecting!OneConnects /\ Connecting!ConnectedHasClient

\* Each user and each organization gets one agent, and is in flight exactly while
\* it is made, whatever fails (hrea.store.svelte.ts:738-776, 825-881).
OneAgentEach ==
  /\ In("hREA agents") => HreaAgents!OneAgentEach /\ HreaAgents!InFlightIsUnderWay
  /\ In("hREA overlap") => HreaOverlap!InFlightIsUnderWay

\* A service type that was rejected or deleted leaves no specification, and one
\* that is synchronised by hand, by a person who waits, gets no second one; before
\* anything is decided the page shows the specifications of what is approved
\* (hrea.store.svelte.ts:365-396, 954-968, 1138-1184, ResourceSpecManager.svelte:372-396).
NoSpareSpecification ==
  /\ In("hREA specifications") => HreaSpecifications!NoneLeftOver
  /\ In("test page of types") => TestPageOfTypes!NoneTwice /\ TestPageOfTypes!TabTells
  /\ In("test page decided") => TestPageDecided!NoneTwice /\ TestPageDecided!TabTells
  /\ In("test page overlap") => TestPageOverlap!TabTells

\* A synchronisation by hand that says it had no errors leaves a specification of
\* every service type it was given (ResourceSpecManager.svelte:221-268).
SyncedIsThere ==
  [][/\ In("test page of types") => TestPageOfTypes!SyncedIsThere
     /\ In("test page decided") => TestPageDecided!SyncedIsThere
     /\ In("test page overlap") => TestPageOverlap!SyncedIsThere]_vars

\* What initialization-lock.ts:2 says, with three clicks; the code does not.
DomainsExclude == In("lock of three") => LockOfThree!DomainsExclude
=============================================================================
