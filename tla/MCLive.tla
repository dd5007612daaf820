-------------------------------- MODULE MCLive --------------------------------
(***************************************************************************)
(* What must eventually happen: in the administration zome, under the lock *)
(* of the initializers, while the page connects, in a store, and in the    *)
(* session of a person.  A behaviour is of one of them, and fairness is    *)
(* stated for its steps:                                                   *)
(* gossip goes on, microtasks run and timers fire, zome calls are answered *)
(* or time out.  An attempt to connect may stay without an answer.         *)
(***************************************************************************)
EXTENDS Naturals, FiniteSets

CONSTANTS
  a1, a2,             \* agents
  r1, r2, r3, r4,     \* runs of an initializer
  s1,                 \* a predefined service type
  m1,                 \* a predefined medium of exchange
  g1,                 \* a guard of the connection
  c1, c2              \* calls of a store or of a session

VARIABLES
  scenario,
  clock, links, dead, seen, gone, serial,                                    \* of Administrators
  pc, locks, awaits, todo, tries, copies, approved, failed, lost,            \* of InitializationLock
  client, isConnected, isConnecting, made, broken,                           \* of Connection
  retryCount, delay, repeats, limit, calls, stage, steps,
  lists, latest, last, arrays, cache, lookups, deleted,                      \* of ServiceTypesStore
  profile, standing, listed, offered, user, refreshing, error,               \* of Session
  agentIsAdministrator, adminStatus, recent, started, page, timedOut,
  prerequisites, runs, doubtful, others,
  failures, loading                        \* of Session and of InitializationLock or ServiceTypesStore

dht == <<clock, links, seen, gone, serial>>
lock == <<locks, awaits, todo, tries, copies, approved, failed, lost>>
connection == <<client, isConnected, isConnecting, made, broken, retryCount, delay, repeats, limit, stage, steps>>
store == <<lists, latest, last, arrays, cache, lookups, deleted>>
session ==
  <<profile, standing, listed, offered, user, refreshing, error, agentIsAdministrator, adminStatus,
    recent, started, page, timedOut, prerequisites, runs, doubtful, others>>
vars == <<scenario, dead, pc, calls, failures, loading, dht, lock, connection, store, session>>

Zome == INSTANCE Administrators WITH Agents <- {a1, a2}, MaxOps <- 6

Lock ==
  INSTANCE InitializationLock WITH
    ServiceRuns <- {r1, r2}, MediumRuns <- {r3, r4}, Services <- {s1}, Mediums <- {m1}, Unapproved <- {},
    MaxFailures <- 1, MaxLost <- 1

Page == INSTANCE Connection WITH Waiters <- {}, Guards <- {g1}, Users <- {}, MaxConnections <- 1

Store ==
  INSTANCE ServiceTypesStore WITH
    Callers <- {c1}, MaxHashes <- 1, MaxUpdates <- 0, MaxListed <- 2, Others <- TRUE

Person ==
  INSTANCE Session WITH
    Callers <- {c1, c2}, MaxRevisions <- 1, MaxOthers <- 0, MaxFailures <- 1, Waits <- TRUE

In(s) == scenario = s

NoDht == clock = 0 /\ links = 0 /\ seen = 0 /\ gone = 0 /\ serial = 0

NoLock ==
  /\ locks = 0 /\ awaits = 0 /\ todo = 0 /\ tries = 0 /\ copies = 0
  /\ approved = 0 /\ failed = 0 /\ lost = 0

NoConnection ==
  /\ client = 0 /\ isConnected = 0 /\ isConnecting = 0 /\ made = 0 /\ broken = 0 /\ retryCount = 0
  /\ delay = 0 /\ repeats = 0 /\ limit = 0 /\ stage = 0 /\ steps = 0

NoStore ==
  /\ lists = 0 /\ latest = 0 /\ last = 0 /\ arrays = 0
  /\ cache = 0 /\ lookups = 0 /\ deleted = 0

NoSession ==
  /\ profile = 0 /\ standing = 0 /\ listed = 0 /\ offered = 0 /\ user = 0 /\ refreshing = 0 /\ error = 0
  /\ agentIsAdministrator = 0 /\ adminStatus = 0 /\ recent = 0 /\ started = 0 /\ page = 0 /\ timedOut = 0
  /\ prerequisites = 0 /\ runs = 0 /\ doubtful = 0 /\ others = 0

Init ==
  \/ /\ In("administrators") /\ Zome!Init /\ NoLock /\ NoConnection /\ NoStore /\ NoSession
     /\ pc = 0 /\ calls = 0 /\ failures = 0 /\ loading = 0
  \/ /\ In("lock") /\ Lock!Init /\ NoDht /\ NoConnection /\ NoStore /\ NoSession
     /\ dead = 0 /\ calls = 0 /\ loading = 0
  \/ /\ In("page") /\ Page!Init /\ NoDht /\ NoLock /\ NoStore /\ NoSession
     /\ dead = 0 /\ failures = 0 /\ loading = 0
  \/ /\ In("store") /\ Store!Init /\ NoDht /\ NoLock /\ NoConnection /\ NoSession
     /\ pc = 0 /\ failures = 0
  \/ /\ In("session") /\ Person!Init /\ NoDht /\ NoLock /\ NoConnection /\ NoStore
     /\ dead = 0 /\ pc = 0 /\ calls = 0

\* A step of one scenario leaves the variables of the others alone.
OfZome(A) ==
  In("administrators") /\ A /\ UNCHANGED <<scenario, pc, calls, failures, loading, lock, connection, store, session>>
OfLock(A) == In("lock") /\ A /\ UNCHANGED <<scenario, dead, calls, loading, dht, connection, store, session>>
OfPage(A) == In("page") /\ A /\ UNCHANGED <<scenario, dead, failures, loading, dht, lock, store, session>>
OfStore(A) == In("store") /\ A /\ UNCHANGED <<scenario, pc, failures, dht, lock, connection, session>>
OfSession(A) == In("session") /\ A /\ UNCHANGED <<scenario, dead, pc, calls, dht, lock, connection, store>>

Next ==
  \/ OfZome(Zome!Next) \/ OfLock(Lock!Next) \/ OfPage(Page!Next)
  \/ OfStore(Store!Next) \/ OfSession(Person!Next)

Spec ==
  /\ Init /\ [][Next]_vars
  /\ WF_vars(OfZome(Zome!Gossip))
  /\ \A r \in {r1, r2, r3, r4} : WF_vars(OfLock(Lock!Step(r)))
  /\ WF_vars(OfPage(Page!Tick))
  /\ \A c \in {g1, "layout"} : WF_vars(OfPage(Page!Poll(c))) /\ WF_vars(OfPage(Page!Retry(c)))
  /\ WF_vars(OfPage(Page!EnsureEnds(g1) \/ Page!EnsureAgain(g1)))
  /\ WF_vars(OfPage(Page!EnsureTimesOut(g1)))
  /\ WF_vars(OfPage(Page!PageConnected \/ Page!PageNotConnected))
  /\ WF_vars(OfPage(limit["layout"] = 0 /\ Page!HreaDone("skipped")))
  /\ WF_vars(OfPage(\E status \in {"completed", "skipped"} : Page!NetworkDone(status)))
  /\ WF_vars(OfPage(Page!UserDone))
  /\ WF_vars(OfStore(Store!Progress(c1)))
  /\ \A c \in {c1, c2} : WF_vars(OfSession(Person!CheckTimesOut(c)))

-----------------------------------------------------------------------------
(* Properties. *)

\* The device of a removed administrator ends up refusing it, unless it is made
\* administrator again or calls start to overlap (administration.rs:110-129).
RemovalTakesEffect ==
  \A u \in {a1, a2} :
    (In("administrators") /\ serial /\ Zome!Listed(u) = {}) ~>
      (In("administrators") => ~Zome!CheckIfAgentIsAdministrator(u, u) \/ ~serial \/ Zome!Listed(u) # {})

\* Every click on an initializer comes to an end, however many there are and
\* whatever fails; and a store stops loading, though another administrator may
\* have taken away what its call is about (initialization-lock.ts:15-50,
\* store-helpers/core.ts:33-49).
EveryRunEnds ==
  /\ \A r \in {r1, r2, r3, r4} : (In("lock") /\ pc[r] # "idle") ~> (In("lock") /\ pc[r] = "done")
  /\ (In("store") /\ loading) ~> (In("store") /\ ~loading)

\* Though an attempt never answers, the page and the guard stop waiting, and a
\* page that got past the connection completes its start, whether hREA answers,
\* fails or does neither; and the check of the administrator ends, answered or not
\* (simple-connection.ts:35, connection.service.ts:65-80, +layout.svelte:262-360,
\* adminStatus.service.svelte.ts:98-120).
TimedWaitsEnd ==
  /\ (In("page") /\ stage = "connect") ~> (In("page") /\ stage # "connect")
  /\ (In("page") /\ stage = "hrea") ~> (In("page") /\ stage = "complete")
  /\ (In("page") /\ repeats[g1] > 0) ~> (In("page") /\ repeats[g1] = 0)
  /\ (In("session") /\ adminStatus = "checking") ~> (In("session") /\ adminStatus # "checking")
=============================================================================
