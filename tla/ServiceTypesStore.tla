--------------------------- MODULE ServiceTypesStore ---------------------------
(***************************************************************************)
(* The store of the service types (serviceTypes.store.svelte.ts) of an     *)
(* administrator, before the service types zome.                           *)
(*                                                                         *)
(* Of the zome the model keeps what its answers depend on: the status      *)
(* lists, the latest revision of each type, and what is deleted; the       *)
(* module ServiceTypes has the zome itself.  Its status lists name         *)
(* originals, and it answers with the records of latest revisions, whose   *)
(* hash the store takes for the hash of the type.  Other administrators    *)
(* moderate meanwhile.                                                     *)
(*                                                                         *)
(* The store names an entity in its cache by two different strings: the    *)
(* base64 form of the hash, under which getServiceType looks, and the      *)
(* plain string of its bytes, under which nothing looks: what              *)
(* getAllServiceTypes and a decision put there is left out.                *)
(***************************************************************************)
EXTENDS StoreHelpers, FiniteSets

CONSTANTS
  MaxHashes,    \* bound: records made, of types and of revisions
  MaxUpdates,   \* bound: revisions among them
  MaxListed,    \* bound: entries of an array a decision adds to
  Others        \* whether other administrators moderate

\* What the constants must be.
ServiceTypesStoreAssumption ==
  /\ MaxHashes \in Nat
  /\ MaxUpdates \in Nat
  /\ MaxListed \in Nat
  /\ Others \in BOOLEAN

VARIABLES
  lists,       \* the status lists of the zome
  latest,      \* the latest revision of each record
  last,        \* the last record made
  dead,        \* the deleted records
  arrays,      \* the arrays of the store: all, and one for each status
  cache,       \* what the store put into its cache
  lookups,     \* what the cache looked up itself, failures included
  deleted      \* history: deletions of this store that have come back

zomeVars == <<lists, latest, last, dead>>
storeVars == <<arrays, cache, lookups, deleted>>
vars == <<callVars, zomeVars, storeVars>>

Statuses == {"pending", "approved", "rejected"}
Hashes == 1 .. MaxHashes
Made == 1 .. last

Entity(h, status) == [hash |-> h, status |-> status]

Init ==
  /\ CallsInit
  /\ lists = [s \in Statuses |-> {}]
  /\ latest = [h \in Hashes |-> h]
  /\ last = 0
  /\ dead = {}
  /\ arrays = [n \in Statuses \cup {"all"} |-> <<>>]
  /\ cache = NoCache
  /\ lookups = NoCache
  /\ deleted = {}

\* The hashes the pages show, and may call the store with.
Shown == {e.hash : e \in UNION {ToSet(arrays[n]) : n \in DOMAIN arrays}}

-----------------------------------------------------------------------------
(* The zome. *)

\* get_service_types_by_status.
ByStatus(status) ==
  LET ts == SetToSeq({t \in lists[status] : latest[t] \notin dead})
  IN  [i \in DOMAIN ts |-> Entity(latest[ts[i]], status)]

\* get_service_type_status.
StatusOf(h) ==
  IF h \in lists["pending"] THEN "pending"
  ELSE IF h \in lists["approved"] THEN "approved"
  ELSE IF h \in lists["rejected"] THEN "rejected" ELSE "pending"

\* The lookup of the cache: the record and its status, or <<>>.
LookUp(h) == IF h \in dead THEN <<>> ELSE <<Entity(h, StatusOf(h))>>

Listed(h, status) == [s \in Statuses |-> IF s = status THEN lists[s] \cup {h} ELSE lists[s] \ {h}]

\* Fault: the type is on its list before its record is there.
ListFirst(status) ==
  /\ last < MaxHashes
  /\ lists' = Listed(last + 1, status)
  /\ UNCHANGED <<latest, dead, last>>

NewType(status) ==
  /\ last < MaxHashes
  /\ last' = last + 1
  /\ lists' = Listed(last + 1, status)
  /\ UNCHANGED <<latest, dead>>

NewRevision(h) ==
  /\ last < MaxHashes
  /\ last' = last + 1
  /\ latest' = [latest EXCEPT ![h] = last + 1]
  /\ UNCHANGED <<lists, dead>>

Approve(h) == lists' = Listed(h, "approved") /\ UNCHANGED <<latest, last, dead>>

Reject(h) ==
  /\ h \in lists["pending"]
  /\ lists' = Listed(h, "rejected")
  /\ UNCHANGED <<latest, last, dead>>

Delete(h) ==
  /\ lists' = [s \in Statuses |-> lists[s] \ {h}]
  /\ dead' = dead \cup {h}
  /\ UNCHANGED <<latest, last>>

\* Another administrator moderates.
Elsewhere ==
  /\ Others
  /\ \/ NewType("pending")
     \/ \E h \in Made \ dead : Approve(h) \/ Reject(h) \/ Delete(h)
  /\ UNCHANGED <<callVars, storeVars>>

-----------------------------------------------------------------------------
(* The store. *)

\* A call that only reads.
Read(c, op, h, es) == Begin(c, op, h, es) /\ UNCHANGED <<zomeVars, storeVars>>

Kept == UNCHANGED <<zomeVars, lookups, deleted>>

AddNew(c) ==
  LET e == calls[c].answer[1]
  IN  /\ End(c)
      /\ arrays' = SyncAdd(arrays, e)
      /\ cache' = CacheSet(cache, e.hash, e)
      /\ Kept

CreateServiceType(c) ==
  \/ /\ NewType("approved")
     /\ Begin(c, "create", 0, <<Entity(last + 1, "approved")>>)
     /\ UNCHANGED storeVars
  \/ UnderWay(c, "create", 0) /\ AddNew(c)

SuggestServiceType(c) ==
  \/ /\ NewType("pending")
     /\ Begin(c, "suggest", 0, <<Entity(last + 1, "pending")>>)
     /\ UNCHANGED storeVars
  \/ UnderWay(c, "suggest", 0) /\ AddNew(c)

GetAllServiceTypes(c) ==
  \/ Read(c, "getAll", 0, ByStatus("pending") \o ByStatus("approved") \o ByStatus("rejected"))
  \/ /\ UnderWay(c, "getAll", 0)
     /\ End(c)
     /\ arrays' = Collections(arrays, calls[c].answer)
     /\ UNCHANGED <<zomeVars, cache, lookups, deleted>>

\* getServiceType of what is cached, or has been looked up, answers at once.
GetCached(c, h) ==
  /\ h \in Shown
  /\ h \in DOMAIN cache \/ h \in DOMAIN lookups
  /\ AtOnce(c)
  /\ UNCHANGED <<zomeVars, storeVars>>

\* getServiceType of what is not: the lookup of the cache, which is shared by
\* all that ask for the same hash, and asks the zome for the record and its
\* status.  A record that is not there is remembered as well, as <<>>.
GetServiceType(c, h) ==
  \/ GetCached(c, h)
  \/ /\ h \notin DOMAIN cache /\ h \notin DOMAIN lookups
     /\ \A d \in Callers : ~UnderWay(d, "get", h)
     /\ h \in Shown
     /\ Read(c, "get", h, LookUp(h))
  \/ /\ UnderWay(c, "get", h)
     /\ End(c)
     /\ lookups' = CacheSet(lookups, h, calls[c].answer)
     /\ UNCHANGED <<zomeVars, arrays, cache, deleted>>

\* The entity an update leaves has the hash the update was called with, and is
\* approved.
UpdateServiceType(c, h) ==
  \/ /\ h \in Shown
     /\ Cardinality({g \in Made : latest[g] # g}) < MaxUpdates
     /\ NewRevision(h)
     /\ Begin(c, "update", h, <<Entity(h, "approved")>>)
     /\ UNCHANGED storeVars
  \/ UnderWay(c, "update", h) /\ AddNew(c)

\* Fault: the cache keeps a deleted type.
ForgetArraysOnly(c, h) ==
  /\ End(c)
  /\ arrays' = SyncRemove(arrays, h)
  /\ deleted' = deleted \cup {h}
  /\ UNCHANGED <<zomeVars, cache, lookups>>

Forget(c, h) ==
  /\ End(c)
  /\ arrays' = SyncRemove(arrays, h)
  /\ cache' = CacheDrop(cache, h)
  /\ lookups' = CacheDrop(lookups, h)
  /\ deleted' = deleted \cup {h}
  /\ UNCHANGED zomeVars

DeleteServiceType(c, h) ==
  \/ /\ h \in Shown
     /\ Delete(h)
     /\ Begin(c, "delete", h, <<>>)
     /\ UNCHANGED storeVars
  \/ UnderWay(c, "delete", h) /\ Forget(c, h)

\* What a decision leaves in the store.
Decided(c, h, status) ==
  /\ Len(arrays[status]) < MaxListed
  /\ End(c)
  /\ arrays' = Transition(arrays, h, status)
  /\ UNCHANGED <<zomeVars, cache, lookups, deleted>>

ApproveServiceType(c, h) ==
  \/ /\ h \in Shown
     /\ Approve(h)
     /\ Begin(c, "approve", h, <<>>)
     /\ UNCHANGED storeVars
  \/ UnderWay(c, "approve", h) /\ Decided(c, h, "approved")

RejectServiceType(c, h) ==
  \/ /\ h \in Shown
     /\ Reject(h)
     /\ Begin(c, "reject", h, <<>>)
     /\ UNCHANGED storeVars
  \/ UnderWay(c, "reject", h) /\ Decided(c, h, "rejected")

\* The array of a status anew.
Replaced(c, op, status) ==
  \/ Read(c, op, 0, ByStatus(status))
  \/ /\ UnderWay(c, op, 0)
     /\ End(c)
     /\ arrays' = [arrays EXCEPT ![status] = calls[c].answer]
     /\ UNCHANGED <<zomeVars, cache, lookups, deleted>>

GetPendingServiceTypes(c) == Replaced(c, "getPending", "pending")
GetApprovedServiceTypes(c) == Replaced(c, "getApproved", "approved")
GetRejectedServiceTypes(c) == Replaced(c, "getRejected", "rejected")

\* The cache clears itself, or is cleared; the arrays stay.
InvalidateCache ==
  /\ cache' = NoCache
  /\ lookups' = NoCache
  /\ UNCHANGED <<callVars, zomeVars, arrays, deleted>>

\* A lookup that fails is remembered, too.
CallFails(c) ==
  /\ Fail(c) \/ AtOnce(c)
  /\ lookups' = IF calls[c].op = "get" THEN CacheSet(lookups, calls[c].arg, <<>>) ELSE lookups
  /\ UNCHANGED <<zomeVars, arrays, cache, deleted>>

Calls(c) ==
  \/ CreateServiceType(c) \/ SuggestServiceType(c)
  \/ GetAllServiceTypes(c)
  \/ GetPendingServiceTypes(c) \/ GetApprovedServiceTypes(c) \/ GetRejectedServiceTypes(c)
  \/ \E h \in Made : \/ GetServiceType(c, h) \/ UpdateServiceType(c, h)
                     \/ DeleteServiceType(c, h)
                     \/ ApproveServiceType(c, h) \/ RejectServiceType(c, h)

Next ==
  \/ \E c \in Callers : Calls(c) \/ CallFails(c)
  \/ InvalidateCache
  \/ Elsewhere

Spec == Init /\ [][Next]_vars

\* A call that is under way goes on, or fails.
Progress(c) == Busy(c) /\ (Calls(c) \/ CallFails(c))

-----------------------------------------------------------------------------
(* Properties. *)

\* Type invariant.
TypeOK ==
  /\ loading \in BOOLEAN
  /\ last \in 0 .. MaxHashes
  /\ \A s \in Statuses : lists[s] \subseteq Made
  /\ \A h \in Hashes : latest[h] \in Hashes
  /\ Shown \subseteq Made
  /\ \A n \in DOMAIN arrays : \A i \in DOMAIN arrays[n] : arrays[n][i].status \in Statuses

\* The array of all types names each type once: what the calls put there takes
\* the place of what was there (cache-helpers.ts:70-90).
AllOnce == \A i, j \in DOMAIN arrays["all"] : arrays["all"][i].hash = arrays["all"][j].hash => i = j

\* An administrator alone, who waits for each call, finds no type it has
\* deleted in the array of all types or in the cache, whatever calls failed
\* before (serviceTypes.store.svelte.ts:438-442).
DeletedStaysAway ==
  deleted \cap ({e.hash : e \in ToSet(arrays["all"])} \cup DOMAIN cache \cup
                {h \in DOMAIN lookups : lookups[h] # <<>>}) = {}

\* What a call of getAllServiceTypes leaves, without overlapping calls and
\* revisions: each type in the array of its status in the zome, and in no other
\* (cache-helpers.ts:211-239).
AllIsWhatIs ==
  \A c \in Callers :
    (UnderWay(c, "getAll", 0) /\ GetAllServiceTypes(c)) =>
      \A s \in Statuses : {e.hash : e \in ToSet(arrays'[s])} = lists[s] \ dead

\* What guides/architectural-patterns.md:112 says of the cache helper ("Maintains
\* consistency between reactive state and cached data"): a type that an array
\* of a status names is not cached with another status.
CachedStatus ==
  \A h \in Made, s \in Statuses :
    (h \in DOMAIN cache /\ Lists(arrays[s], h)) => cache[h].status = s

\* What edge-cases.test.ts:142 says ("Service type cannot be in multiple status
\* lists simultaneously"), of a type with a revision.
RevisedOnOneList ==
  \A t \in Made :
    Cardinality({s \in Statuses : t \in lists[s] \/ latest[t] \in lists[s]}) <= 1

\* What serviceTypes.store.test.ts:608 says ("should remove from serviceTypes array
\* when service type is deleted"), of every array, and of an administrator who
\* is alone and waits for each call.
DeletedNotShown == deleted \cap Shown = {}

\* What serviceTypes.store.test.ts:395 says ("should set loading to true during
\* operations").
LoadingWhileBusy == (\E c \in Callers : Busy(c)) => loading
=============================================================================
