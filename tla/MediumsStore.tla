------------------------------ MODULE MediumsStore ------------------------------
(***************************************************************************)
(* The store of the mediums of exchange                                    *)
(* (mediums_of_exchange.store.svelte.ts) of an administrator, before the   *)
(* mediums of exchange zome.                                               *)
(*                                                                         *)
(* Of the zome the model keeps the status lists, which name originals and  *)
(* are answered with the records of originals, the latest revision of each *)
(* record, and what is deleted; the module Mediums has the zome itself.    *)
(* The cache of this store is written and never read, and is left out.     *)
(***************************************************************************)
EXTENDS StoreHelpers, FiniteSets

CONSTANTS
  MaxHashes,    \* bound: records made, of mediums and of revisions
  Others        \* whether other administrators moderate

\* What the constants must be.
MediumsStoreAssumption ==
  /\ MaxHashes \in Nat
  /\ Others \in BOOLEAN

VARIABLES
  lists,       \* the status lists of the zome
  mediums,     \* the list of all mediums
  latest,      \* the latest revision of each record
  last,        \* the last record made
  dead,        \* the deleted records
  arrays,      \* the arrays of the store: all, and one for each status
  deleted      \* history: deletions of this store that have come back

zomeVars == <<lists, mediums, latest, last, dead>>
storeVars == <<arrays, deleted>>
vars == <<callVars, zomeVars, storeVars>>

Statuses == {"pending", "approved", "rejected"}
Hashes == 1 .. MaxHashes
Made == 1 .. last

Entity(h, status) == [hash |-> h, status |-> status]
Empty == [n \in Statuses \cup {"all"} |-> <<>>]

Init ==
  /\ CallsInit
  /\ lists = [s \in Statuses |-> {}]
  /\ mediums = {}
  /\ latest = [h \in Hashes |-> h]
  /\ last = 0
  /\ dead = {}
  /\ arrays = Empty
  /\ deleted = {}

\* The hashes the pages show.
Shown == {e.hash : e \in UNION {ToSet(arrays[n]) : n \in DOMAIN arrays}}

-----------------------------------------------------------------------------
(* The zome. *)

Entities(hs, status) ==
  LET ms == SetToSeq(hs \ dead) IN [i \in DOMAIN ms |-> Entity(ms[i], status)]

\* get_mediums_of_exchange_by_status.
ByStatus(status) == Entities(lists[status], status)

Listed(h, status) == [s \in Statuses |-> IF s = status THEN lists[s] \cup {h} ELSE lists[s] \ {h}]

NewMedium(status) ==
  /\ last < MaxHashes
  /\ last' = last + 1
  /\ mediums' = mediums \cup {last + 1}
  /\ lists' = Listed(last + 1, status)
  /\ UNCHANGED <<latest, dead>>

NewRevision(h) ==
  /\ h \notin dead
  /\ last < MaxHashes
  /\ last' = last + 1
  /\ latest' = [latest EXCEPT ![h] = last + 1]
  /\ UNCHANGED <<mediums, dead>>

\* approve_medium_of_exchange makes a revision, and lists the record it was
\* called with.
Approve(h) == NewRevision(h) /\ lists' = Listed(h, "approved")

Reject(h) == lists' = Listed(h, "rejected") /\ UNCHANGED <<mediums, latest, last, dead>>

Delete(h) ==
  /\ h \notin dead
  /\ lists' = [s \in Statuses |-> lists[s] \ {h}]
  /\ dead' = dead \cup {h}
  /\ UNCHANGED <<mediums, latest, last>>

\* Another administrator moderates.
Elsewhere ==
  /\ Others
  /\ \/ NewMedium("pending")
     \/ \E h \in Made : Approve(h) \/ Reject(h) \/ Delete(h)
  /\ UNCHANGED <<callVars, storeVars>>

-----------------------------------------------------------------------------
(* The arrays. *)

\* Fault: a medium stays in the array of its last status.
SyncTargetOnly(arrs, e) ==
  [n \in DOMAIN arrs |-> IF n \in {"all", e.status} THEN Put(arrs[n], e) ELSE arrs[n]]

\* createStatusCacheSyncHelper.
SyncCacheToState(arrs, e) == SyncAdd(arrs, e)

SyncEach(arrs, es) ==
  LET synced[n \in 0 .. Len(es)] ==
        IF n = 0 THEN arrs ELSE SyncCacheToState(synced[n - 1], es[n])
  IN  synced[Len(es)]

\* transitionMediumOfExchangeStatus: only what is pending moves.
TransitionMedium(arrs, h, status) ==
  IF Lists(arrs["pending"], h) THEN SyncCacheToState(arrs, Entity(h, status)) ELSE arrs

-----------------------------------------------------------------------------
(* The store. *)

\* A call that only reads.
Read(c, op, h, es) == Begin(c, op, h, es) /\ UNCHANGED <<zomeVars, storeVars>>

\* The call comes back and leaves the arrays as they are given.
Leave(c, arrs) == End(c) /\ arrays' = arrs /\ UNCHANGED <<zomeVars, deleted>>

CreateMediumOfExchange(c) ==
  \/ /\ NewMedium("approved")
     /\ Begin(c, "create", 0, <<Entity(last + 1, "approved")>>)
     /\ UNCHANGED storeVars
  \/ UnderWay(c, "create", 0) /\ Leave(c, SyncEach(arrays, calls[c].answer))

SuggestMediumOfExchange(c) ==
  \/ /\ NewMedium("pending")
     /\ Begin(c, "suggest", 0, <<Entity(last + 1, "pending")>>)
     /\ UNCHANGED storeVars
  \/ UnderWay(c, "suggest", 0) /\ Leave(c, SyncEach(arrays, calls[c].answer))

\* The record with the hash, shown as approved whatever its status is.
GetMediumOfExchange(c, h) ==
  \/ Read(c, "get", h, Entities({h}, "approved"))
  \/ UnderWay(c, "get", h) /\ Leave(c, SyncEach(arrays, calls[c].answer))

GetLatestMediumOfExchangeRecord(c, h) ==
  \/ Read(c, "getLatest", h, Entities({latest[h]}, "approved"))
  \/ UnderWay(c, "getLatest", h) /\ Leave(c, SyncEach(arrays, calls[c].answer))

\* All mediums, each shown as pending.
GetAllMediumsOfExchange(c) ==
  \/ Read(c, "getAll", 0, Entities(mediums, "pending"))
  \/ /\ UnderWay(c, "getAll", 0)
     /\ Leave(c, [SyncEach(arrays, calls[c].answer) EXCEPT !["all"] = calls[c].answer])

\* What the calls for one status list do.
GetByStatus(c, op, status) ==
  \/ Read(c, op, 0, ByStatus(status))
  \/ /\ UnderWay(c, op, 0)
     /\ Leave(c, [SyncEach(arrays, calls[c].answer) EXCEPT ![status] = calls[c].answer])

GetPendingMediumsOfExchange(c) == GetByStatus(c, "getPending", "pending")
GetApprovedMediumsOfExchange(c) == GetByStatus(c, "getApproved", "approved")
GetRejectedMediumsOfExchange(c) == GetByStatus(c, "getRejected", "rejected")

GetAllMediumsOfExchangeByStatus(c) ==
  \/ Read(c, "getAllByStatus", 0,
          ByStatus("pending") \o ByStatus("approved") \o ByStatus("rejected"))
  \/ UnderWay(c, "getAllByStatus", 0) /\ Leave(c, SyncEach(Empty, calls[c].answer))

ApproveMediumOfExchange(c, h) ==
  \/ /\ h \in Shown
     /\ Approve(h)
     /\ Begin(c, "approve", h, <<>>)
     /\ UNCHANGED storeVars
  \/ /\ UnderWay(c, "approve", h)
     /\ Leave(c, TransitionMedium(arrays, h, "approved"))

RejectMediumOfExchange(c, h) ==
  \/ /\ h \in Shown
     /\ Reject(h)
     /\ Begin(c, "reject", h, <<>>)
     /\ UNCHANGED storeVars
  \/ /\ UnderWay(c, "reject", h)
     /\ Leave(c, TransitionMedium(arrays, h, "rejected"))

\* The medium that is edited goes, and its revision is shown as approved.
UpdateMediumOfExchange(c, h) ==
  \/ /\ h \in Shown
     /\ NewRevision(h)
     /\ UNCHANGED lists
     /\ Begin(c, "update", h, <<Entity(last + 1, "approved")>>)
     /\ UNCHANGED storeVars
  \/ /\ UnderWay(c, "update", h)
     /\ Leave(c, SyncEach(SyncRemove(arrays, h), calls[c].answer))

DeleteMediumOfExchange(c, h) ==
  \/ /\ h \in Shown
     /\ Delete(h)
     /\ Begin(c, "delete", h, <<>>)
     /\ UNCHANGED storeVars
  \/ /\ UnderWay(c, "delete", h)
     /\ End(c)
     /\ arrays' = SyncRemove(arrays, h)
     /\ deleted' = deleted \cup {h}
     /\ UNCHANGED zomeVars

InvalidateCache == arrays' = Empty /\ UNCHANGED <<callVars, zomeVars, deleted>>

CallFails(c) == (Fail(c) \/ AtOnce(c)) /\ UNCHANGED <<zomeVars, storeVars>>

Calls(c) ==
  \/ CreateMediumOfExchange(c) \/ SuggestMediumOfExchange(c)
  \/ GetAllMediumsOfExchange(c) \/ GetAllMediumsOfExchangeByStatus(c)
  \/ GetPendingMediumsOfExchange(c) \/ GetApprovedMediumsOfExchange(c)
  \/ GetRejectedMediumsOfExchange(c)
  \/ \E h \in Made : \/ GetMediumOfExchange(c, h) \/ GetLatestMediumOfExchangeRecord(c, h)
                     \/ UpdateMediumOfExchange(c, h) \/ DeleteMediumOfExchange(c, h)
                     \/ ApproveMediumOfExchange(c, h) \/ RejectMediumOfExchange(c, h)

Next ==
  \/ \E c \in Callers : Calls(c) \/ CallFails(c)
  \/ InvalidateCache
  \/ Elsewhere

Spec == Init /\ [][Next]_vars

-----------------------------------------------------------------------------
(* Properties. *)

\* Type invariant.
TypeOK ==
  /\ loading \in BOOLEAN
  /\ last \in 0 .. MaxHashes
  /\ mediums \subseteq Made
  /\ \A s \in Statuses : lists[s] \subseteq Made
  /\ \A h \in Hashes : latest[h] \in Hashes
  /\ \A n \in DOMAIN arrays, e \in UNION {ToSet(arrays[m]) : m \in DOMAIN arrays} :
       /\ e.hash \in Made
       /\ n \in Statuses /\ e \in ToSet(arrays[n]) => e.status = n

\* However calls overlap, fail and answer late, the pages show a medium under
\* one status only, and once (mediums_of_exchange.store.svelte.ts:205-269, 494,
\* 528, 562, 596).
OneStatusArray ==
  \A h \in Made :
    \E s \in Statuses :
      /\ \A t \in Statuses \ {s} : ~Lists(arrays[t], h)
      /\ \A n \in {s, "all"} : \A i, j \in DOMAIN arrays[n] :
           (arrays[n][i].hash = h /\ arrays[n][j].hash = h) => i = j

\* Nor do the table of all mediums and the tables of the statuses disagree on the
\* status of a medium (mediums_of_exchange.store.svelte.ts:240-261, 371-372).
TablesAgree ==
  \A e \in ToSet(arrays["all"]), s \in Statuses : Lists(arrays[s], e.hash) => e.status = s

\* An administrator who waits for each call does not see again what it deleted,
\* whatever other administrators do and whatever calls fail
\* (mediums_of_exchange.store.svelte.ts:797-802).
DeletedNotShown == deleted \cap Shown = {}

\* What mediums_of_exchange.md:89 says of the approved list ("For `MediumOfExchange`
\* entries approved by an admin and usable in requests/offers"): an
\* administrator, alone, sees as approved only mediums that are on that list, or
\* have a revision of one that is.
ApprovedIsApproved ==
  \A h \in {e.hash : e \in ToSet(arrays["approved"])} :
    \E m \in lists["approved"] : h \in {m, latest[m]}
=============================================================================
