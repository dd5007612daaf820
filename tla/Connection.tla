------------------------------- MODULE Connection -------------------------------
(***************************************************************************)
(* The connection of the page to the conductor: the client service         *)
(* (HolochainClientService.svelte.ts), the guard every zome call of the    *)
(* services goes through (connection.service.ts), and the start of the     *)
(* page (simple-connection.ts and the initialization of +layout.svelte).   *)
(*                                                                         *)
(* Several callers may want a connection at once.  One of them connects,   *)
(* with three attempts; the others poll.  A time-out ends the waiting of   *)
(* the page or of a guard, and not the attempts, which go on.  An attempt  *)
(* may stay without an answer.  Time passes in seconds, and never past a   *)
(* timer that is due.                                                      *)
(***************************************************************************)
EXTENDS Naturals, FiniteSets

CONSTANTS
  Waiters,          \* callers of waitForConnection
  Guards,           \* callers of ensureConnection
  Users,            \* callers of callZome and verifyConnection
  MaxConnections    \* bound: connections made

\* What the constants must be.
ConnectionAssumption == MaxConnections \in Nat /\ "layout" \notin Waiters \cup Guards

Layout == "layout"
Callers == Waiters \cup Guards \cup {Layout}

MaxRetries == 3

VARIABLES
  client,        \* the connection the service holds, 0 for null
  isConnected,
  isConnecting,
  made,          \* connections made so far
  broken,        \* connections that no longer work
  pc,            \* where connectClient of each caller is
  retryCount,    \* failed attempts of the caller that connects
  delay,         \* seconds until a caller tries again
  repeats,       \* calls of connectClient a guard has left
  limit,         \* seconds until the page or a guard waits no longer
  calls,         \* the connection the call of a user is on, 0 for none
  stage,         \* the step of the initialization of the page
  steps          \* what the page shows of each step

serviceVars == <<client, isConnected, isConnecting, made>>
connectVars == <<pc, retryCount, delay>>
pageVars == <<stage, steps>>
vars == <<serviceVars, broken, connectVars, repeats, limit, calls, pageVars>>

Timed == Guards \cup {Layout}
Settled == {"idle", "returned", "threw"}

Init ==
  /\ client = 0 /\ isConnected = FALSE /\ isConnecting = FALSE /\ made = 0
  /\ broken = {}
  /\ pc = [c \in Callers |-> "idle"]
  /\ retryCount = [c \in Callers |-> 0]
  /\ delay = [c \in Callers |-> 0]
  /\ repeats = [c \in Guards |-> 0]
  /\ limit = [c \in Timed |-> 0]
  /\ calls = [u \in Users |-> 0]
  /\ stage = "pending"
  /\ steps = [s \in {"client", "hrea", "network"} |-> "pending"]

-----------------------------------------------------------------------------
(* connectClient. *)

Goto(c, label) == pc' = [pc EXCEPT ![c] = label]

\* The state is reset and the first attempt begins.
BeginAttempts(c) ==
  /\ isConnected' = FALSE
  /\ client' = 0
  /\ isConnecting' = TRUE
  /\ retryCount' = [retryCount EXCEPT ![c] = 0]
  /\ Goto(c, "connecting")
  /\ UNCHANGED made

\* A call: nothing to do, somebody else at it, or begin.
Enter(c) ==
  \/ isConnected /\ Goto(c, "returned") /\ UNCHANGED <<serviceVars, retryCount>>
  \/ ~isConnected /\ isConnecting /\ Goto(c, "polling") /\ UNCHANGED <<serviceVars, retryCount>>
  \/ ~isConnected /\ ~isConnecting /\ BeginAttempts(c)

\* waitForConnection, which polls as connectClient does.
WaitForConnection(c) ==
  /\ c \in Waiters
  /\ pc[c] = "idle"
  /\ Enter(c)
  /\ UNCHANGED <<broken, delay, repeats, limit, calls, pageVars>>

\* A poll that finds nobody connecting.
Poll(c) ==
  /\ pc[c] = "polling"
  /\ ~isConnecting
  /\ IF isConnected THEN Goto(c, "returned") /\ UNCHANGED <<serviceVars, retryCount>>
     ELSE BeginAttempts(c)
  /\ UNCHANGED <<broken, delay, repeats, limit, calls, pageVars>>

AttemptSucceeds(c) ==
  /\ pc[c] = "connecting"
  /\ made < MaxConnections
  /\ made' = made + 1
  /\ client' = made + 1
  /\ isConnected' = TRUE
  /\ isConnecting' = FALSE
  /\ Goto(c, "returned")
  /\ UNCHANGED <<broken, retryCount, delay, repeats, limit, calls, pageVars>>

\* Fault: isConnecting is reset between attempts.
AttemptFailsOpenly(c) ==
  /\ pc[c] = "connecting"
  /\ retryCount' = [retryCount EXCEPT ![c] = @ + 1]
  /\ IF retryCount[c] + 1 = MaxRetries THEN Goto(c, "threw") /\ UNCHANGED delay
     ELSE Goto(c, "backoff") /\ delay' = [delay EXCEPT ![c] = 2 ^ (retryCount[c] + 1)]
  /\ isConnected' = FALSE
  /\ isConnecting' = FALSE
  /\ client' = 0
  /\ UNCHANGED <<made, broken, repeats, limit, calls, pageVars>>

\* After the third failure the call throws; before, it waits two and four seconds.
AttemptFails(c) ==
  /\ pc[c] = "connecting"
  /\ retryCount' = [retryCount EXCEPT ![c] = @ + 1]
  /\ IF retryCount[c] + 1 = MaxRetries
     THEN /\ Goto(c, "threw")
          /\ isConnected' = FALSE
          /\ isConnecting' = FALSE
          /\ client' = 0
          /\ UNCHANGED <<made, delay>>
     ELSE /\ Goto(c, "backoff")
          /\ delay' = [delay EXCEPT ![c] = 2 ^ (retryCount[c] + 1)]
          /\ UNCHANGED serviceVars
  /\ UNCHANGED <<broken, repeats, limit, calls, pageVars>>

Retry(c) ==
  /\ pc[c] = "backoff"
  /\ delay[c] = 0
  /\ Goto(c, "connecting")
  /\ UNCHANGED <<serviceVars, broken, retryCount, delay, repeats, limit, calls, pageVars>>

-----------------------------------------------------------------------------
(* ensureConnection: three calls of connectClient within ten seconds. *)

EnsureConnection(g) ==
  /\ g \in Guards
  /\ pc[g] = "idle"
  /\ repeats[g] = 0
  /\ limit[g] = 0
  /\ IF isConnected /\ client # 0
     THEN Goto(g, "returned") /\ UNCHANGED <<serviceVars, retryCount, repeats, limit>>
     ELSE /\ Enter(g)
          /\ repeats' = [repeats EXCEPT ![g] = 3]
          /\ limit' = [limit EXCEPT ![g] = 10]
  /\ UNCHANGED <<broken, delay, calls, pageVars>>

\* connectClient returned, or threw for the last time.
EnsureEnds(g) ==
  /\ g \in Guards
  /\ repeats[g] > 0
  /\ pc[g] = "returned" \/ (pc[g] = "threw" /\ repeats[g] = 1)
  /\ repeats' = [repeats EXCEPT ![g] = 0]
  /\ limit' = [limit EXCEPT ![g] = 0]
  /\ UNCHANGED <<serviceVars, broken, connectVars, calls, pageVars>>

EnsureAgain(g) ==
  /\ g \in Guards
  /\ repeats[g] > 1
  /\ pc[g] = "threw"
  /\ Enter(g)
  /\ repeats' = [repeats EXCEPT ![g] = @ - 1]
  /\ UNCHANGED <<broken, delay, limit, calls, pageVars>>

EnsureTimesOut(g) ==
  /\ g \in Guards
  /\ repeats[g] > 0
  /\ limit[g] = 0
  /\ repeats' = [repeats EXCEPT ![g] = 0]
  /\ UNCHANGED <<serviceVars, broken, connectVars, limit, calls, pageVars>>

-----------------------------------------------------------------------------
(* The start of the page. *)

Show(s, status) == steps' = [steps EXCEPT ![s] = status]

StartPage ==
  /\ stage = "pending"
  /\ stage' = "connect"
  /\ Show("client", "running")
  /\ Enter(Layout)
  /\ limit' = [limit EXCEPT ![Layout] = 5]
  /\ UNCHANGED <<broken, delay, repeats, calls>>

ToHrea ==
  /\ stage' = "hrea"
  /\ steps' = [steps EXCEPT !["client"] = "completed", !["hrea"] = "running"]
  /\ limit' = [limit EXCEPT ![Layout] = 15]

ToFailed ==
  /\ stage' = "failed"
  /\ Show("client", "failed")
  /\ limit' = [limit EXCEPT ![Layout] = 0]

\* connectToHolochain looks at the service when connectClient has returned.
PageConnected ==
  /\ stage = "connect"
  /\ pc[Layout] = "returned"
  /\ IF isConnected /\ client # 0 THEN ToHrea ELSE ToFailed
  /\ UNCHANGED <<serviceVars, broken, connectVars, repeats, calls>>

\* It answers false when connectClient threw or five seconds have passed.
PageNotConnected ==
  /\ stage = "connect"
  /\ pc[Layout] = "threw" \/ limit[Layout] = 0
  /\ ToFailed
  /\ UNCHANGED <<serviceVars, broken, connectVars, repeats, calls>>

\* initializeWithRetry answers, or the step is skipped after an error or fifteen
\* seconds.
HreaDone(status) ==
  /\ stage = "hrea"
  /\ status = "completed" => limit[Layout] > 0
  /\ stage' = "network"
  /\ steps' = [steps EXCEPT !["hrea"] = status, !["network"] = "running"]
  /\ limit' = [limit EXCEPT ![Layout] = 0]
  /\ UNCHANGED <<serviceVars, broken, connectVars, repeats, calls>>

NetworkDone(status) ==
  /\ stage = "network"
  /\ stage' = "user"
  /\ Show("network", status)
  /\ UNCHANGED <<serviceVars, broken, connectVars, repeats, limit, calls>>

\* The user was loaded or not.
UserDone ==
  /\ stage = "user"
  /\ stage' = "complete"
  /\ UNCHANGED <<serviceVars, broken, connectVars, repeats, limit, calls, steps>>

PageStep ==
  \/ PageConnected \/ PageNotConnected
  \/ \E status \in {"completed", "skipped"} : HreaDone(status) \/ NetworkDone(status)
  \/ UserDone

-----------------------------------------------------------------------------
(* Zome calls. *)

\* A call goes out on the connection of the moment; without one it throws.
StartCall(u) ==
  /\ calls[u] = 0
  /\ client # 0
  /\ calls' = [calls EXCEPT ![u] = client]
  /\ UNCHANGED <<serviceVars, broken, connectVars, repeats, limit, pageVars>>

CallAnswered(u) ==
  /\ calls[u] # 0
  /\ calls[u] \notin broken
  /\ calls' = [calls EXCEPT ![u] = 0]
  /\ UNCHANGED <<serviceVars, broken, connectVars, repeats, limit, pageVars>>

\* callZome or verifyConnection fails on a connection that is broken: the
\* service drops the connection it holds by then.
CallFails(u) ==
  /\ calls[u] \in broken
  /\ calls' = [calls EXCEPT ![u] = 0]
  /\ isConnected' = FALSE
  /\ client' = 0
  /\ UNCHANGED <<isConnecting, made, broken, connectVars, repeats, limit, pageVars>>

\* The conductor closes a connection, which nobody is told.
Break ==
  /\ \E n \in 1 .. made : n \notin broken /\ broken' = broken \cup {n}
  /\ UNCHANGED <<serviceVars, connectVars, repeats, limit, calls, pageVars>>

\* A second passes; nothing that is due is late.
Tick ==
  LET down(n) == IF n = 0 THEN 0 ELSE n - 1
      armed(c) == IF c = Layout THEN stage \in {"connect", "hrea"} ELSE repeats[c] > 0
  IN  /\ \E c \in Callers : delay[c] > 0 \/ (c \in Timed /\ limit[c] > 0)
      /\ \A c \in Callers : ~(pc[c] = "backoff" /\ delay[c] = 0)
      /\ \A c \in Timed : ~(armed(c) /\ limit[c] = 0)
      /\ delay' = [c \in Callers |-> down(delay[c])]
      /\ limit' = [c \in Timed |-> down(limit[c])]
      /\ UNCHANGED <<serviceVars, broken, pc, retryCount, repeats, calls, pageVars>>

Next ==
  \/ Tick
  \/ \E c \in Callers : \/ WaitForConnection(c) \/ Poll(c)
                        \/ AttemptSucceeds(c) \/ AttemptFails(c) \/ Retry(c)
  \/ \E g \in Guards : EnsureConnection(g) \/ EnsureEnds(g) \/ EnsureAgain(g) \/ EnsureTimesOut(g)
  \/ StartPage \/ PageStep
  \/ \E u \in Users : StartCall(u) \/ CallAnswered(u) \/ CallFails(u)
  \/ Break

Spec == Init /\ [][Next]_vars

-----------------------------------------------------------------------------
(* Properties. *)

\* Type invariant.
TypeOK ==
  /\ client \in 0 .. made
  /\ isConnected \in BOOLEAN /\ isConnecting \in BOOLEAN
  /\ made \in 0 .. MaxConnections
  /\ broken \subseteq 1 .. made
  /\ pc \in [Callers -> Settled \cup {"polling", "connecting", "backoff"}]
  /\ retryCount \in [Callers -> 0 .. MaxRetries]
  /\ delay \in [Callers -> {0, 1, 2, 3, 4}]
  /\ repeats \in [Guards -> 0 .. 3]
  /\ limit \in [Timed -> 0 .. 15]
  /\ calls \in [Users -> 0 .. made]
  /\ stage \in {"pending", "connect", "hrea", "network", "user", "complete", "failed"}
  /\ steps \in [{"client", "hrea", "network"} -> {"pending", "running", "completed", "failed", "skipped"}]

\* At most one caller connects, with its pauses, and exactly while isConnecting
\* says so: no second caller resets what the first has made
\* (HolochainClientService.svelte.ts:66-112, 118-132).
OneConnects ==
  /\ \A c, d \in Callers :
       ({pc[c], pc[d]} \subseteq {"connecting", "backoff"}) => c = d
  /\ isConnecting <=> \E c \in Callers : pc[c] \in {"connecting", "backoff"}

\* The service says that it is connected exactly if it holds a client, whichever
\* call failed in between (HolochainClientService.svelte.ts:78-79, 88-89, 100-102,
\* 168-169, 350-351), and never while somebody connects.
ConnectedHasClient ==
  /\ isConnected <=> client # 0
  /\ isConnecting => ~isConnected

\* What HolochainClientService.svelte.ts:155 says of verifyConnection ("Verifies
\* if the client is truly connected and working"): a failure is about the client
\* the service holds.
FailureIsCurrent == \A u \in Users : (CallFails(u) /\ client # 0) => client \in broken

\* What +layout.svelte:243 says ("Max 3 attempts"): the page gives up after
\* three attempts.
ThreeAttempts == (stage = "connect" /\ stage' = "failed") => retryCount[Layout] = MaxRetries
=============================================================================
