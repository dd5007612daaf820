------------------------------ MODULE StoreHelpers ------------------------------
(***************************************************************************)
(* What the stores of the UI are built from: the loading state around      *)
(* their calls (store-helpers/core.ts), their arrays of entities           *)
(* (store-helpers/cache-helpers.ts) and their caches (cache.svelte.ts).    *)
(*                                                                         *)
(* A store call goes out to the host, which handles it at once, and comes  *)
(* back later with entities: what happens before the host handles a call   *)
(* is the same as if the call had been made later.  Calls overlap, answers *)
(* come back in any order or not at all, and the host may refuse a call.   *)
(* The error a store then shows is left out.                               *)
(***************************************************************************)
EXTENDS Naturals, SequencesExt

CONSTANT Callers   \* the calls of a store that may be under way at once

VARIABLES
  calls,     \* the call of each caller
  loading    \* one flag for all calls of the store

callVars == <<calls, loading>>

Idle == [op |-> "none", arg |-> 0, answer |-> <<>>]

CallsInit ==
  /\ calls = [c \in Callers |-> Idle]
  /\ loading = FALSE

Busy(c) == calls[c] # Idle
UnderWay(c, op, arg) == calls[c].op = op /\ calls[c].arg = arg

-----------------------------------------------------------------------------
(* The loading state: withLoadingState around a call. *)

\* The call goes out, and the host handles it and answers es.
Begin(c, op, arg, es) ==
  /\ ~Busy(c)
  /\ calls' = [calls EXCEPT ![c] = [op |-> op, arg |-> arg, answer |-> es]]
  /\ loading' = TRUE

End(c) ==
  /\ calls' = [calls EXCEPT ![c] = Idle]
  /\ loading' = FALSE

\* The call fails though the host has handled it.
Fail(c) == Busy(c) /\ End(c)

\* A call that the store answers at once, or the host refuses.
AtOnce(c) ==
  /\ ~Busy(c)
  /\ loading' = FALSE
  /\ UNCHANGED calls

-----------------------------------------------------------------------------
(* The arrays: sequences of entities, found by their hash. *)

Index(array, h) == SelectInSeq(array, LAMBDA e : e.hash = h)
Lists(array, h) == Index(array, h) # 0

\* findAndRemoveFromArray: the first entity with the hash.
Without(array, h) == RemoveFirstMatch(array, LAMBDA e : e.hash = h)

\* addToArray.
Put(array, e) ==
  IF Lists(array, e.hash) THEN ReplaceAt(array, Index(array, e.hash), e) ELSE Append(array, e)

\* syncCacheToState, for add and update.
SyncAdd(arrays, e) ==
  [n \in DOMAIN arrays |->
     LET rest == Without(arrays[n], e.hash)
     IN  IF n \in {"all", e.status} THEN Put(rest, e) ELSE rest]

\* syncCacheToState, for remove.
SyncRemove(arrays, h) == [n \in DOMAIN arrays |-> Without(arrays[n], h)]

\* One entity after the other.
SyncAll(arrays, es) ==
  LET synced[n \in 0 .. Len(es)] == IF n = 0 THEN arrays ELSE SyncAdd(synced[n - 1], es[n])
  IN  synced[Len(es)]

\* Fault: the arrays are not emptied first.
KeepCollections(arrays, es) == SyncAll(arrays, es)

\* processMultipleRecordCollections: everything anew.
Collections(arrays, es) == SyncAll([n \in DOMAIN arrays |-> <<>>], es)

\* transitionEntityStatus: only what is pending moves, and `all` is not touched.
Transition(arrays, h, status) ==
  IF Lists(arrays["pending"], h)
    THEN LET e == [arrays["pending"][Index(arrays["pending"], h)] EXCEPT !.status = status]
         IN  [arrays EXCEPT !["pending"] = Without(@, h), ![status] = Append(@, e)]
    ELSE arrays

-----------------------------------------------------------------------------
(* The caches: functions from some keys to entities. *)

NoCache == <<>>

CacheSet(cache, key, e) == [k \in DOMAIN cache \cup {key} |-> IF k = key THEN e ELSE cache[k]]

CacheDrop(cache, key) == [k \in DOMAIN cache \ {key} |-> cache[k]]
=============================================================================
