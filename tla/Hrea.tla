--------------------------------- MODULE Hrea ---------------------------------
(***************************************************************************)
(* The hREA store of one page (hrea.store.svelte.ts): it makes an agent on *)
(* the hREA host for each user and each organization, and a resource       *)
(* specification for each approved service type and medium of exchange.    *)
(*                                                                         *)
(* What is made there bears, in its note, the hash of what it was made     *)
(* for, and the store looks for it in the array of what it last fetched    *)
(* or made.  It takes the first it finds; their order is that of the host, *)
(* so here it takes any.  An update leaves the note as it is and is left   *)
(* out.  Users and organizations come from the pages, which call the       *)
(* store; service types and mediums from the events their stores emit in   *)
(* this page.                                                              *)
(*                                                                         *)
(* A call is sent, done on the host, and answered, and may fail before it  *)
(* is done or after.                                                       *)
(***************************************************************************)
EXTENDS Naturals, FiniteSets, Sequences

CONSTANTS
  Callers,        \* calls that can be under way at once
  Users, Organizations,
  ServiceTypes, Mediums,
  MaxObjects,     \* bound: agents and specifications made on the host
  MaxFailures,    \* bound: calls that fail before they are done
  MaxLost,        \* bound: agents and specifications made whose answer is lost
  MaxReloads,     \* bound: times the page is loaded anew
  Waits           \* whether the pages fetch first, and wait for a fetch

HreaAssumption ==
  /\ MaxObjects \in Nat
  /\ MaxFailures \in Nat
  /\ MaxLost \in Nat
  /\ MaxReloads \in Nat
  /\ Waits \in BOOLEAN
  /\ (Users \cup Organizations) \cap (ServiceTypes \cup Mediums) = {}
  /\ ServiceTypes \cap Mediums = {}

VARIABLES
  host,        \* the objects of the host: what each is of, and whether it is there
  known,       \* the arrays of agents and of resourceSpecifications
  mapping,     \* the object each entity is mapped to, or 0
  inFlight,    \* the entities an agent is being made for
  runs,        \* the calls under way
  status,      \* of service types and mediums, as their stores show it
  fetched,     \* the arrays fetched since the page was loaded
  cutShort,    \* history: the entities a call about which failed or was left
  failed,      \* bound: calls that failed before they were done
  lost,        \* bound: answers that were lost
  reloads      \* bound: times the page was loaded anew

hreaVars == <<host, known, mapping, inFlight, runs, status, fetched, cutShort, failed, lost, reloads>>

Agents == Users \cup Organizations
Specified == ServiceTypes \cup Mediums
Entities == Agents \cup Specified

\* The array that has the objects of an entity.
ArrayOf(e) == IF e \in Agents THEN "agents" ELSE "specifications"

Run(op, of, stage, rest, answer) ==
  [op |-> op, of |-> of, stage |-> stage, rest |-> rest, answer |-> answer]

NoRun == Run("none", {}, "none", {}, {})

Init ==
  /\ host = <<>>
  /\ known = [a \in {"agents", "specifications"} |-> {}]
  /\ mapping = [e \in Entities |-> 0]
  /\ inFlight = {}
  /\ runs = [c \in Callers |-> NoRun]
  /\ status = [e \in Specified |-> "pending"]
  /\ fetched = {}
  /\ cutShort = {}
  /\ failed = 0
  /\ lost = 0
  /\ reloads = 0

-----------------------------------------------------------------------------
(* The host. *)

Objects == DOMAIN host
There(i) == host[i].there

\* The agents or specifications of the host.
Listing(a) == {i \in Objects : There(i) /\ ArrayOf(host[i].of) = a}

Made(e) == Append(host, [of |-> e, there |-> TRUE])
Unmade(i) == [host EXCEPT ![i].there = FALSE]

-----------------------------------------------------------------------------
(* Lookups in the store. *)

Found(a, e) == {i \in known[a] : host[i].of = e}

FindAgent(e) == Found("agents", e)

\* Fault: what is found is what was mapped when it was made.
FindByMapping(e) == {mapping[e]} \ {0}

\* The note looked for is that of a service type: no medium is ever found.
FindSpecification(e) == IF e \in Mediums THEN {} ELSE Found("specifications", e)

\* An entity is mapped to one of the objects found.
MapTo(e, found) == \E i \in found : mapping' = [mapping EXCEPT ![e] = i]

-----------------------------------------------------------------------------
(* Calls. *)

Idle(c) == runs[c] = NoRun

Put(c, r) == runs' = [runs EXCEPT ![c] = r]

Sent(c, op, of, rest) == Put(c, Run(op, of, "sent", rest, {}))

At(c, op, stage) == runs[c].op = op /\ runs[c].stage = stage

Answered(c, answer) == runs' = [runs EXCEPT ![c].stage = "done", ![c].answer = answer]

\* When an event or a page may ask for an object to be made or deleted.
Asks(c, a) ==
  /\ Idle(c)
  /\ Waits => a \in fetched /\ \A d \in Callers : runs[d].op # "fetch"

Elsewhere == UNCHANGED <<status, fetched, cutShort, failed, lost, reloads>>

\* Fault: nobody looks whether an agent is in flight.
AgentAgain(c, e) ==
  \/ /\ MapTo(e, FindAgent(e))
     /\ UNCHANGED <<runs, inFlight>>
  \/ /\ FindAgent(e) = {}
     /\ Sent(c, "create", e, {})
     /\ inFlight' = inFlight \cup {e}
     /\ UNCHANGED mapping

\* The agent of an entity that has one is mapped, one that is in flight is left
\* alone, and for another an agent is made.
AgentOf(c, e) ==
  \/ /\ e \in inFlight
     /\ UNCHANGED <<runs, mapping, inFlight>>
  \/ /\ e \notin inFlight
     /\ MapTo(e, FindAgent(e))
     /\ UNCHANGED <<runs, inFlight>>
  \/ /\ e \notin inFlight
     /\ FindAgent(e) = {}
     /\ Sent(c, "create", e, {})
     /\ inFlight' = inFlight \cup {e}
     /\ UNCHANGED mapping

CreatePersonFromUser(c, u) ==
  /\ u \in Users /\ Asks(c, "agents")
  /\ AgentOf(c, u)
  /\ UNCHANGED <<host, known>> /\ Elsewhere

CreateOrganizationFromOrg(c, o) ==
  /\ o \in Organizations /\ Asks(c, "agents")
  /\ AgentOf(c, o)
  /\ UNCHANGED <<host, known>> /\ Elsewhere

SpecificationOf(c, e) ==
  \/ /\ MapTo(e, FindSpecification(e))
     /\ UNCHANGED <<runs, inFlight>>
  \/ /\ FindSpecification(e) = {}
     /\ Sent(c, "create", e, {})
     /\ UNCHANGED <<mapping, inFlight>>

\* The host makes the object.
Create(c) ==
  /\ At(c, "create", "sent")
  /\ Len(host) < MaxObjects
  /\ host' = Made(runs[c].of)
  /\ Answered(c, {Len(host) + 1})
  /\ UNCHANGED <<known, mapping, inFlight>> /\ Elsewhere

\* The entities without a mapping for which nobody makes an agent.
Unserved(es, flying, mapped) == {e \in es \ flying : mapped[e] = 0}

\* The objects that entities may be mapped to.
Matches(es, objects) == {p \in [es -> objects] : \A e \in es : host[p[e]].of = e}

Mapped(mapped, p) == [e \in Entities |-> IF e \in DOMAIN p THEN p[e] ELSE mapped[e]]

\* A run of createRetroactiveMappings goes on with the rest: it maps or leaves
\* alone those it comes to, up to the first that needs an agent, and makes one
\* for it, or is over.
GoOn(c, rest, flying, mapped) ==
  LET unserved == Unserved(rest, flying, mapped)
      missing == {e \in unserved : FindAgent(e) = {}}
  IN  \E passed \in SUBSET (rest \ missing) :
        /\ \E p \in Matches(passed \cap unserved, known["agents"]) : mapping' = Mapped(mapped, p)
        /\ \/ /\ missing = {} /\ passed = rest
              /\ Put(c, NoRun)
              /\ inFlight' = flying
           \/ \E e \in missing :
                /\ Sent(c, "create", e, rest \ (passed \cup {e}))
                /\ inFlight' = flying \cup {e}

\* The answer: the object is mapped, joins its array, and is in flight no more.
Created(c) ==
  LET e == runs[c].of
  IN  /\ At(c, "create", "done")
      /\ known' = [known EXCEPT ![ArrayOf(e)] = @ \cup runs[c].answer]
      /\ \E i \in runs[c].answer :
           GoOn(c, runs[c].rest, inFlight \ {e}, [mapping EXCEPT ![e] = i])
      /\ UNCHANGED host /\ Elsewhere

\* Deletes the first specification found, and nothing if none is.
DeleteSpecification(c, e) ==
  \/ FindSpecification(e) = {} /\ UNCHANGED runs
  \/ \E i \in FindSpecification(e) : Put(c, Run("delete", e, "sent", {}, {i}))

Delete(c) ==
  /\ At(c, "delete", "sent")
  /\ \E i \in runs[c].answer : There(i) /\ host' = Unmade(i)
  /\ Answered(c, runs[c].answer)
  /\ UNCHANGED <<known, mapping, inFlight>> /\ Elsewhere

Deleted(c) ==
  /\ At(c, "delete", "done")
  /\ mapping' = [mapping EXCEPT ![runs[c].of] = 0]
  /\ known' = [known EXCEPT !["specifications"] = @ \ runs[c].answer]
  /\ Put(c, NoRun)
  /\ UNCHANGED <<host, inFlight>> /\ Elsewhere

-----------------------------------------------------------------------------
(* Fetches. *)

\* What the host lists when it is asked.
Fetch(c) ==
  /\ At(c, "fetch", "sent")
  /\ Answered(c, Listing(runs[c].of))
  /\ UNCHANGED <<host, known, mapping, inFlight>> /\ Elsewhere

GetAll(c, a) ==
  \/ /\ Idle(c)
     /\ Waits => \A d \in Callers : Idle(d)
     /\ Sent(c, "fetch", a, {})
     /\ UNCHANGED <<host, known, mapping, inFlight>> /\ Elsewhere
  \/ /\ At(c, "fetch", "done") /\ runs[c].of = a
     /\ known' = [known EXCEPT ![a] = runs[c].answer]
     /\ fetched' = fetched \cup {a}
     /\ Put(c, NoRun)
     /\ UNCHANGED <<host, mapping, inFlight, status, cutShort, failed, lost, reloads>>

GetAllAgents(c) == Agents # {} /\ GetAll(c, "agents")
GetAllResourceSpecifications(c) == Specified # {} /\ GetAll(c, "specifications")

Unmapped(S) == {e \in S : mapping[e] = 0}

\* The page asks for the agents of all users, or organizations, that have no
\* mapping.  What is fetched for them is mapped but does not join the array.
CreateRetroactiveMappings(c) ==
  \/ /\ Asks(c, "agents")
     /\ \E S \in {Users, Organizations} :
          Unmapped(S) # {} /\ Sent(c, "retro", "agents", Unmapped(S))
     /\ UNCHANGED <<host, known, mapping, inFlight>> /\ Elsewhere
  \/ /\ At(c, "retro", "sent")
     /\ Answered(c, Listing("agents"))
     /\ UNCHANGED <<host, known, mapping, inFlight>> /\ Elsewhere
  \/ /\ At(c, "retro", "done")
     /\ LET found == {e \in runs[c].rest : \E i \in runs[c].answer : host[i].of = e}
        IN  \E p \in Matches(found, runs[c].answer) :
              GoOn(c, runs[c].rest \ found, inFlight, Mapped(mapping, p))
     /\ UNCHANGED <<host, known>> /\ Elsewhere

-----------------------------------------------------------------------------
(* Pages and events. *)

SyncUserToAgent(c, u) == FindAgent(u) = {} /\ CreatePersonFromUser(c, u)

SyncOrganizationToAgent(c, o) == FindAgent(o) = {} /\ CreateOrganizationFromOrg(c, o)

Becomes(e, s) == status' = [status EXCEPT ![e] = s]

SpecificationOnly == UNCHANGED <<host, known, fetched, cutShort, failed, lost, reloads>>

\* createServiceType of an administrator emits serviceType:created and
\* serviceType:approved, one right after the other.
ServiceTypeCreated(c, d, t) ==
  /\ t \in ServiceTypes /\ c # d
  /\ status[t] = "pending"
  /\ Asks(c, "specifications") /\ Asks(d, "specifications")
  /\ Becomes(t, "approved")
  /\ \/ MapTo(t, FindSpecification(t)) /\ UNCHANGED runs
     \/ /\ FindSpecification(t) = {}
        /\ runs' = [r \in Callers |->
                      IF r \in {c, d} THEN Run("create", t, "sent", {}, {}) ELSE runs[r]]
        /\ UNCHANGED mapping
  /\ UNCHANGED inFlight /\ SpecificationOnly

Approved(c, e) ==
  /\ Asks(c, "specifications")
  /\ SpecificationOf(c, e)
  /\ Becomes(e, "approved") /\ SpecificationOnly

Withdrawn(c, e, s) ==
  /\ Asks(c, "specifications")
  /\ DeleteSpecification(c, e)
  /\ Becomes(e, s)
  /\ UNCHANGED <<mapping, inFlight>> /\ SpecificationOnly

ServiceTypeApproved(c, t) == t \in ServiceTypes /\ status[t] = "pending" /\ Approved(c, t)
ServiceTypeRejected(c, t) == t \in ServiceTypes /\ status[t] = "pending" /\ Withdrawn(c, t, "rejected")
ServiceTypeDeleted(c, t) == t \in ServiceTypes /\ status[t] # "deleted" /\ Withdrawn(c, t, "deleted")

\* A medium may be approved and rejected again and again.
MediumApproved(c, m) == m \in Mediums /\ status[m] # "deleted" /\ Approved(c, m)
MediumRejected(c, m) == m \in Mediums /\ status[m] # "deleted" /\ Withdrawn(c, m, "rejected")
MediumDeleted(c, m) == m \in Mediums /\ status[m] # "deleted" /\ Withdrawn(c, m, "deleted")

\* The page looks for what is approved and creates what it does not find.
SyncServiceType(c, t) ==
  /\ t \in ServiceTypes /\ status[t] = "approved" /\ FindSpecification(t) = {}
  /\ Asks(c, "specifications")
  /\ SpecificationOf(c, t)
  /\ UNCHANGED status /\ SpecificationOnly

SyncMedium(c, m) ==
  /\ m \in Mediums /\ status[m] = "approved" /\ FindSpecification(m) = {}
  /\ Asks(c, "specifications")
  /\ SpecificationOf(c, m)
  /\ UNCHANGED status /\ SpecificationOnly

-----------------------------------------------------------------------------
(* Failures. *)

\* The entities of calls under way that make or delete an object.
AboutIn(cs) == {runs[c].of : c \in {d \in cs : runs[d].op \in {"create", "delete"}}}

\* A call fails, before it is done or after; an agent is in flight no more, and
\* a run of createRetroactiveMappings is over.
Fails(c) ==
  /\ ~Idle(c)
  /\ IF At(c, "create", "done")
       THEN lost < MaxLost /\ lost' = lost + 1 /\ UNCHANGED failed
       ELSE failed < MaxFailures /\ failed' = failed + 1 /\ UNCHANGED lost
  /\ Put(c, NoRun)
  /\ cutShort' = cutShort \cup AboutIn({c})
  /\ inFlight' = IF runs[c].op = "create" THEN inFlight \ {runs[c].of} ELSE inFlight
  /\ UNCHANGED <<host, known, mapping, status, fetched, reloads>>

\* The page is loaded anew.  What is not done yet is never done.
Reload ==
  /\ reloads < MaxReloads
  /\ reloads' = reloads + 1
  /\ known' = [a \in DOMAIN known |-> {}]
  /\ mapping' = [e \in Entities |-> 0]
  /\ inFlight' = {}
  /\ runs' = [c \in Callers |-> NoRun]
  /\ fetched' = {}
  /\ cutShort' = cutShort \cup AboutIn(Callers)
  /\ UNCHANGED <<host, status, failed, lost>>

Serve(c) == Create(c) \/ Delete(c) \/ Fetch(c)

Next ==
  \/ \E c \in Callers :
       \/ Serve(c) \/ Created(c) \/ Deleted(c) \/ Fails(c)
       \/ GetAllAgents(c) \/ GetAllResourceSpecifications(c) \/ CreateRetroactiveMappings(c)
       \/ \E u \in Users : SyncUserToAgent(c, u)
       \/ \E o \in Organizations : SyncOrganizationToAgent(c, o)
       \/ \E t \in ServiceTypes : \/ ServiceTypeApproved(c, t) \/ ServiceTypeRejected(c, t)
                                  \/ ServiceTypeDeleted(c, t) \/ SyncServiceType(c, t)
                                  \/ \E d \in Callers : ServiceTypeCreated(c, d, t)
       \/ \E m \in Mediums : \/ MediumApproved(c, m) \/ MediumRejected(c, m)
                             \/ MediumDeleted(c, m) \/ SyncMedium(c, m)
  \/ Reload

Spec == Init /\ [][Next]_hreaVars

-----------------------------------------------------------------------------
(* Properties. *)

\* Type invariant.
TypeOK ==
  /\ \A i \in Objects : host[i].of \in Entities /\ There(i) \in BOOLEAN
  /\ \A a \in DOMAIN known : known[a] \subseteq Objects
  /\ \A e \in Entities : mapping[e] \in {0} \cup Objects
  /\ \A e \in Specified : status[e] \in {"pending", "approved", "rejected", "deleted"}
  /\ failed \in 0 .. MaxFailures /\ lost \in 0 .. MaxLost /\ reloads \in 0 .. MaxReloads

ObjectsOf(e) == {i \in Objects : There(i) /\ host[i].of = e}

\* An entity is mapped to what was made for it, and is in flight exactly while
\* one call, and no other, makes its agent: no failure leaves it in flight, where
\* it would never get one (hrea.store.svelte.ts:738-776).
InFlightIsUnderWay ==
  /\ \A e \in Entities : mapping[e] # 0 => host[mapping[e]].of = e
  /\ \A e \in Agents :
       Cardinality({c \in Callers : runs[c].op = "create" /\ runs[c].of = e}) =
         (IF e \in inFlight THEN 1 ELSE 0)

\* However the pages' calls overlap, and whatever fails before it is done, each
\* user and each organization gets one agent, if the pages fetch first and wait
\* for a fetch (hrea.store.svelte.ts:738-747, 825-835).
OneAgentEach == \A e \in Agents : Cardinality(ObjectsOf(e)) <= 1

\* What documentation/tasks-lists/hrea-entity-mapping-plan.md:22 says of agents
\* ("Implemented robust race condition protection in hrea.store.svelte.ts to
\* prevent duplicate agent creation") and the check of
\* hrea.store.svelte.ts:955-968 is for, of specifications: there is one.
OneSpecificationEach == \A e \in ServiceTypes : Cardinality(ObjectsOf(e)) <= 1

\* A service type that is rejected or deleted by an administrator who waits for
\* each call leaves no specification, unless a call about it failed or the page
\* was left during one (hrea.store.svelte.ts:365-396, 1138-1184).
NoneLeftOver ==
  \A e \in ServiceTypes \ cutShort :
    (status[e] \in {"rejected", "deleted"} /\ \A c \in Callers : Idle(c)) => ObjectsOf(e) = {}
===============================================================================
