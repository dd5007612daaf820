-------------------------------- MODULE ClientProofs --------------------------------
(***************************************************************************)
(* The parts of the client that callers fight over, for any number of      *)
(* callers.                                                                *)
(*                                                                         *)
(* The initialization lock, as the instance L: what a run of the           *)
(* initializers reports done is done, and runs exclude each other as long  *)
(* as no two of them wait.  The connection, as the instance C: one caller  *)
(* connects at a time, however the attempts, the time-outs and the         *)
(* conductor interleave, and the service holds the newest client exactly   *)
(* while it says it is connected.  The hREA store: an agent is in flight   *)
(* exactly while one call makes it, each user and each organization gets   *)
(* one agent, and what is rejected or deleted leaves no specification.     *)
(* The test page of hREA, as the instance T: a person who waits makes no   *)
(* second specification of a type, what is synchronised is there, and the  *)
(* tab tells what is.                                                      *)
(***************************************************************************)
EXTENDS Hrea, FiniteSetTheorems, SequenceTheorems, TLAPS

CONSTANTS ServiceRuns, MediumRuns, Services, Unapproved   \* of InitializationLock
CONSTANTS Waiters, Guards, MaxConnections           \* of Connection
VARIABLES pc, locks, awaits, todo, tries, copies, approved, failures    \* of InitializationLock
VARIABLES                                                               \* of Connection
  client, isConnected, isConnecting, made, broken, retryCount, delay, repeats, limit, calls, stage, steps
CONSTANTS Types, MaxDecisions, MaxOthers            \* of HreaTestPage
VARIABLES                                           \* of HreaTestPage
  specs, lists, storeLoading, tab, loading, syncing, error, results, named, whole, doubtful, decisions, others

\* The parts share nothing but names: pc, failed, host, runs, and those of some constants.
L == INSTANCE InitializationLock
C == INSTANCE Connection
T == INSTANCE HreaTestPage

Waiting(r) == pc[r] \in {"awaitsOne", "awaitsAll"}

\* A run that is past the look at what exists.
Working(r) == pc[r] \in {"creating"} \cup Mediums

-----------------------------------------------------------------------------
(* The lock: the invariants. *)

\* A promise is stored only while its run works.
LockedIsActive == \A d \in L!Domains : \A r \in locks[d] : L!Active(r)

\* A run waits for others, which work or have ended.
WaitsForOther ==
  \A r \in L!Runs : Waiting(r) => /\ awaits[r] # {}
                                  /\ \A p \in awaits[r] : p # r /\ (L!Active(p) \/ pc[p] = "done")

\* A run creates what its initializer predefines, and only mediums are approved apart.
OwnItems ==
  /\ \A r \in L!Runs : todo[r] \subseteq L!Predefined(r)
  /\ \A r \in ServiceRuns : pc[r] \notin Mediums

\* The create call of a service type approves it, and what a run has not given up
\* is approved, was there before, or is still ahead of it.
ServicesInv ==
  /\ \A i \in Services : copies[i] > 0 => i \in approved \cup Unapproved
  /\ \A r \in ServiceRuns :
       (Working(r) /\ r \notin failed) => Services \subseteq approved \cup Unapproved \cup todo[r]

\* What holds of any number of runs.
LockGood == L!TypeOK /\ LockedIsActive /\ WaitsForOther /\ OwnItems /\ ServicesInv /\ L!ServicesComplete

\* No two runs wait at the same time.
OneWaits == \A r, s \in L!Runs : (Waiting(r) /\ Waiting(s)) => r = s

\* While a run works its promise is stored, and whoever waits waits for it.
ActiveIsLocked == \A r \in L!Runs : L!Active(r) => locks[L!Domain(r)] = {r}
AwaitsTheActive == \A r, s \in L!Runs : (Waiting(r) /\ L!Active(s)) => s \in awaits[r]

\* What a run has yet to create exists only as far as answers were lost.
TodoIsNew == \A r \in L!Runs : \A i \in todo[r] : Working(r) => copies[i] <= lost

\* What holds as long as no two runs wait.
LockExcludes ==
  /\ L!MutualExclusion /\ ActiveIsLocked /\ AwaitsTheActive
  /\ TodoIsNew /\ L!CopiesAreLostAnswers

-----------------------------------------------------------------------------
(* The four ways a run moves. *)

\* It begins to wait for promises that are stored.
BeginsToWait(r) ==
  /\ pc[r] \in {"idle", "awaitsOne"}
  /\ \E label \in {"awaitsOne", "awaitsAll"} : pc' = [pc EXCEPT ![r] = label]
  /\ \/ awaits' = [awaits EXCEPT ![r] = locks[L!Domain(r)]] /\ locks[L!Domain(r)] # {}
     \/ /\ awaits' = [awaits EXCEPT ![r] = UNION {locks[d] : d \in L!Domains}]
        /\ UNION {locks[d] : d \in L!Domains} # {}
  /\ UNCHANGED locks
  /\ UNCHANGED L!bodyVars

\* It begins to work: it was woken, or nothing is stored and nobody was woken.
Begins(r) ==
  /\ r \in L!Woken \/ (pc[r] = "idle" /\ L!Quiet /\ \A d \in L!Domains : locks[d] = {})
  /\ L!Acquire(r)
  /\ UNCHANGED L!bodyVars

\* It goes on with its work.
TakesUp(r) ==
  /\ L!Active(r)
  /\ \/ UNCHANGED <<pc, awaits>>
     \/ \E label \in {"creating"} \cup Mediums : L!Goto(r, label, {})
  /\ UNCHANGED locks

\* It ends.
Ends(r) == L!Active(r) /\ L!Goto(r, "done", {}) /\ L!Release(r)

LEMMA ClickMoves == ASSUME NEW r \in L!Runs, L!Click(r) PROVE BeginsToWait(r) \/ Begins(r)
<1>1. pc[r] = "idle" /\ L!Quiet /\ UNCHANGED L!bodyVars
  BY DEF L!Click
<1>2. CASE locks[L!Domain(r)] # {}
  BY <1>1, <1>2 DEF L!Click, BeginsToWait, L!Goto
<1>3. CASE locks[L!Domain(r)] = {} /\ UNION {locks[d] : d \in L!Domains} # {}
  BY <1>1, <1>3 DEF L!Click, L!SecondLook, BeginsToWait, L!Goto
<1>4. CASE locks[L!Domain(r)] = {} /\ UNION {locks[d] : d \in L!Domains} = {}
  <2>1. \A d \in L!Domains : locks[d] = {}
    BY <1>4
  <2>2. L!Acquire(r)
    BY <1>4 DEF L!Click, L!SecondLook
  <2> QED BY <1>1, <2>1, <2>2 DEF Begins
<1> QED BY <1>2, <1>3, <1>4

LEMMA WakeMoves ==
  ASSUME NEW r \in L!Runs, L!WakeOne(r) \/ L!WakeAll(r)
  PROVE  BeginsToWait(r) \/ Begins(r)
<1>1. CASE L!WakeOne(r) /\ UNION {locks[d] : d \in L!Domains} # {}
  BY <1>1 DEF L!WakeOne, L!SecondLook, BeginsToWait, L!Goto
<1>2. CASE L!WakeOne(r) /\ UNION {locks[d] : d \in L!Domains} = {}
  BY <1>2 DEF L!WakeOne, L!SecondLook, Begins
<1>3. CASE L!WakeAll(r)
  BY <1>3 DEF L!WakeAll, Begins
<1> QED BY <1>1, <1>2, <1>3

\* What a run does under the lock.
Work(r) ==
  \/ L!CheckExisting(r) \/ L!CheckFails(r)
  \/ \E i \in L!Items : L!Create(r, i) \/ \E isLost \in BOOLEAN : L!CreateFails(r, i, isLost)
  \/ L!Approve(r) \/ L!ApproveFails(r)
  \/ L!Finish(r)

LEMMA WorkMoves ==
  ASSUME L!InitializationLockAssumption, LockGood, NEW r \in L!Runs, Work(r)
  PROVE  TakesUp(r) \/ Ends(r)
<1>1. \A l \in {"checking", "creating"} \cup Mediums : l \notin {"idle", "awaitsOne", "awaitsAll", "done"}
  BY DEF L!InitializationLockAssumption, L!Labels
<1>2. ASSUME L!CheckExisting(r) PROVE TakesUp(r)
  BY <1>1, <1>2 DEF L!CheckExisting, TakesUp, L!Active
<1>3. ASSUME L!CheckFails(r) \/ L!Finish(r) PROVE Ends(r)
  BY <1>1, <1>3 DEF L!CheckFails, L!Finish, Ends, L!Active
<1>4. ASSUME NEW i \in L!Items, L!Create(r, i) PROVE TakesUp(r)
  <2>1. L!Active(r) /\ UNCHANGED locks /\ i \in todo[r]
    BY <1>1, <1>4 DEF L!Create, L!Active
  <2>2. CASE r \in ServiceRuns
    BY <1>4, <2>1, <2>2 DEF L!Create, L!CreateService, TakesUp
  <2>3. CASE r \notin ServiceRuns
    <3>1. i \in Mediums
      BY <2>1, <2>3 DEF LockGood, OwnItems, L!Predefined
    <3> QED BY <1>4, <2>1, <2>3, <3>1 DEF L!Create, L!SuggestMedium, TakesUp
  <2> QED BY <2>2, <2>3
<1>5. ASSUME NEW i \in L!Items, NEW isLost \in BOOLEAN, L!CreateFails(r, i, isLost) PROVE TakesUp(r)
  BY <1>1, <1>5 DEF L!CreateFails, TakesUp, L!Active, L!lockVars
<1>6. ASSUME L!Approve(r) \/ L!ApproveFails(r) PROVE TakesUp(r)
  BY <1>1, <1>6 DEF L!Approve, L!ApproveFails, TakesUp, L!Active
<1> QED BY <1>2, <1>3, <1>4, <1>5, <1>6 DEF Work

-----------------------------------------------------------------------------
(* What the moves do to the lock. *)

LockTypes ==
  /\ locks \in [L!Domains -> SUBSET L!Runs]
  /\ \A d \in L!Domains : \A r, s \in locks[d] : r = s /\ L!Domain(r) = d
  /\ pc \in [L!Runs -> L!Labels \cup Mediums]
  /\ awaits \in [L!Runs -> SUBSET L!Runs]

LockInv == LockTypes /\ LockedIsActive /\ WaitsForOther

ExclusionInv == L!MutualExclusion /\ ActiveIsLocked /\ AwaitsTheActive

\* What a run works on is in one domain.
LEMMA DomainType == \A r \in L!Runs : L!Domain(r) \in L!Domains
BY DEF L!Domain, L!Domains

LEMMA BeginsToWaitKeeps ==
  ASSUME L!InitializationLockAssumption, LockInv, NEW r \in L!Runs, BeginsToWait(r)
  PROVE  /\ LockInv'
         /\ ExclusionInv => ExclusionInv'
<1> USE DEF LockInv, LockTypes
<1>1. PICK label \in {"awaitsOne", "awaitsAll"} : pc' = [pc EXCEPT ![r] = label]
  BY DEF BeginsToWait
<1>2. PICK P \in SUBSET L!Runs :
        /\ awaits' = [awaits EXCEPT ![r] = P] /\ P # {}
        /\ P = locks[L!Domain(r)] \/ P = UNION {locks[d] : d \in L!Domains}
  BY DomainType DEF BeginsToWait
<1>3. locks' = locks /\ pc[r] \in {"idle", "awaitsOne"}
  BY DEF BeginsToWait
<1>4. \A p \in P : L!Active(p)
  BY <1>2, DomainType DEF LockedIsActive
<1>5. ~L!Active(r) /\ pc[r] # "done"
  BY <1>3 DEF L!Active
<1>6. pc' \in [L!Runs -> L!Labels \cup Mediums] /\ \A p \in L!Runs : p # r => pc'[p] = pc[p]
  BY <1>1 DEF L!Labels
<1>7. \A p \in L!Runs : L!Active(p)' <=> L!Active(p)
  BY <1>1, <1>5, <1>6 DEF L!Active
<1>8. \A p \in L!Runs : (L!Active(p) \/ pc[p] = "done") => (L!Active(p)' \/ pc'[p] = "done")
  BY <1>5, <1>6, <1>7
<1>9. LockedIsActive'
  BY <1>3, <1>7 DEF LockedIsActive
<1>10. WaitsForOther'
  <2>1. ASSUME NEW q \in L!Runs, Waiting(q)', NEW p \in awaits'[q]
        PROVE  p # q /\ (L!Active(p)' \/ pc'[p] = "done") /\ awaits'[q] # {}
    <3>1. CASE q = r
      BY <1>2, <1>4, <1>5, <1>7, <2>1, <3>1
    <3>2. CASE q # r
      <4>1. Waiting(q) /\ awaits'[q] = awaits[q] /\ p \in L!Runs
        BY <1>2, <1>6, <2>1, <3>2 DEF Waiting
      <4> QED BY <1>8, <2>1, <4>1 DEF WaitsForOther
    <3> QED BY <3>1, <3>2
  <2>2. ASSUME NEW q \in L!Runs, Waiting(q)' PROVE awaits'[q] # {}
    BY <1>2, <1>6, <2>2 DEF WaitsForOther, Waiting
  <2> QED BY <2>1, <2>2 DEF WaitsForOther
<1>11. ASSUME ExclusionInv PROVE ExclusionInv'
  <2> USE <1>11 DEF ExclusionInv
  <2>1. L!MutualExclusion' /\ ActiveIsLocked'
    BY <1>3, <1>7 DEF L!MutualExclusion, ActiveIsLocked
  <2>2. \A s \in L!Runs : L!Active(s) => s \in P
    <3> SUFFICES ASSUME NEW s \in L!Runs, L!Active(s) PROVE s \in P
      OBVIOUS
    <3>1. locks[L!Domain(s)] = {s} /\ L!Domain(s) \in L!Domains
      BY DomainType DEF ActiveIsLocked
    <3>2. CASE P = UNION {locks[d] : d \in L!Domains}
      BY <3>1, <3>2
    <3>3. CASE P = locks[L!Domain(r)]
      <4>1. PICK p \in P : p \in L!Runs /\ L!Active(p)
        BY <1>2, <1>4
      <4>2. p = s
        BY <4>1 DEF L!MutualExclusion
      <4> QED BY <4>1, <4>2
    <3> QED BY <1>2, <3>2, <3>3
  <2>3. AwaitsTheActive'
    BY <1>2, <1>6, <1>7, <2>2 DEF AwaitsTheActive, Waiting
  <2> QED BY <2>1, <2>3
<1>12. LockTypes'
  BY <1>2, <1>3, <1>6
<1> QED BY <1>9, <1>10, <1>11, <1>12

\* A run that works goes on.
LEMMA TakesUpKeeps ==
  ASSUME L!InitializationLockAssumption, LockInv, NEW r \in L!Runs, TakesUp(r)
  PROVE  /\ LockInv'
         /\ ExclusionInv => ExclusionInv'
         /\ \A p \in L!Runs : p # r => pc'[p] = pc[p]
<1> USE DEF LockInv, LockTypes
<1>1. CASE UNCHANGED <<pc, awaits>>
  BY <1>1 DEF TakesUp, ExclusionInv, L!MutualExclusion, ActiveIsLocked, AwaitsTheActive, LockedIsActive,
              WaitsForOther, L!Active, Waiting
<1>2. CASE \E label \in {"creating"} \cup Mediums : L!Goto(r, label, {})
  <2>1. PICK label \in {"creating"} \cup Mediums :
          pc' = [pc EXCEPT ![r] = label] /\ awaits' = [awaits EXCEPT ![r] = {}]
    BY <1>2 DEF L!Goto
  <2>2. label \notin {"idle", "awaitsOne", "awaitsAll", "done"} /\ label \in L!Labels \cup Mediums
    BY DEF L!InitializationLockAssumption, L!Labels
  <2>3. \A p \in L!Runs : p # r => pc'[p] = pc[p] /\ awaits'[p] = awaits[p]
    BY <2>1
  <2>4. pc'[r] = label /\ L!Active(r) /\ locks' = locks
    BY <2>1 DEF TakesUp
  <2>5. \A p \in L!Runs : L!Active(p)' <=> L!Active(p)
    BY <2>2, <2>3, <2>4 DEF L!Active
  <2>6. \A p \in L!Runs : (Waiting(p)' <=> Waiting(p)) /\ (Waiting(p) => awaits'[p] = awaits[p])
    BY <2>2, <2>3, <2>4 DEF L!Active, Waiting
  <2>7. \A p \in L!Runs : pc'[p] = "done" <=> pc[p] = "done"
    BY <2>2, <2>3, <2>4 DEF L!Active
  <2>8. LockTypes'
    BY <2>1, <2>2, <2>4
  <2>9. LockedIsActive' /\ WaitsForOther'
    BY <2>4, <2>5, <2>6, <2>7 DEF LockedIsActive, WaitsForOther
  <2>10. ExclusionInv => ExclusionInv'
    BY <2>4, <2>5, <2>6 DEF ExclusionInv, L!MutualExclusion, ActiveIsLocked, AwaitsTheActive
  <2> QED BY <2>3, <2>8, <2>9, <2>10
<1> QED BY <1>1, <1>2 DEF TakesUp

LEMMA EndsKeeps ==
  ASSUME L!InitializationLockAssumption, LockInv, NEW r \in L!Runs, Ends(r)
  PROVE  /\ LockInv'
         /\ ExclusionInv => ExclusionInv'
<1> USE DEF LockInv, LockTypes
<1>1. /\ pc' = [pc EXCEPT ![r] = "done"] /\ awaits' = [awaits EXCEPT ![r] = {}]
      /\ locks' = [locks EXCEPT ![L!Domain(r)] = {}] /\ L!Active(r)
  BY DEF Ends, L!Goto, L!Release
<1>2. \A p \in L!Runs : p # r => pc'[p] = pc[p] /\ awaits'[p] = awaits[p]
  BY <1>1
<1>3. pc'[r] = "done" /\ ~L!Active(r)' /\ ~Waiting(r)'
  BY <1>1 DEF L!Active, Waiting
<1>4. \A d \in L!Domains : locks'[d] \subseteq locks[d]
  BY <1>1, DomainType
<1>5. r \notin locks'[L!Domain(r)] /\ \A d \in L!Domains : r \notin locks'[d]
  BY <1>1, <1>4, DomainType
<1>6. LockTypes'
  <2>1. locks' \in [L!Domains -> SUBSET L!Runs]
    BY <1>1
  <2>2. pc' \in [L!Runs -> L!Labels \cup Mediums] /\ awaits' \in [L!Runs -> SUBSET L!Runs]
    BY <1>1 DEF L!Labels
  <2> QED BY <1>4, <2>1, <2>2
<1>7. LockedIsActive'
  BY <1>2, <1>4, <1>5 DEF LockedIsActive, L!Active
<1>8. WaitsForOther'
  <2>1. \A q \in L!Runs : Waiting(q)' => q # r /\ Waiting(q) /\ awaits'[q] = awaits[q]
    BY <1>2, <1>3 DEF Waiting
  <2>2. \A p \in L!Runs : (L!Active(p) \/ pc[p] = "done") => (L!Active(p)' \/ pc'[p] = "done")
    BY <1>2, <1>3 DEF L!Active
  <2> QED BY <2>1, <2>2 DEF WaitsForOther
<1>9. ASSUME ExclusionInv PROVE ExclusionInv'
  <2>1. \A p \in L!Runs : ~L!Active(p)'
    BY <1>1, <1>2, <1>3, <1>9 DEF ExclusionInv, L!MutualExclusion, L!Active
  <2> QED BY <2>1 DEF ExclusionInv, L!MutualExclusion, ActiveIsLocked, AwaitsTheActive
<1> QED BY <1>6, <1>7, <1>8, <1>9

\* A run that begins while nobody else works, or that was woken by whoever did.
LEMMA BeginsKeeps ==
  ASSUME L!InitializationLockAssumption, LockInv, NEW r \in L!Runs, Begins(r)
  PROVE  /\ LockInv'
         /\ ExclusionInv /\ OneWaits => ExclusionInv'
<1> USE DEF LockInv, LockTypes
<1>1. /\ pc' = [pc EXCEPT ![r] = "checking"] /\ awaits' = [awaits EXCEPT ![r] = {}]
      /\ locks' = [locks EXCEPT ![L!Domain(r)] = {r}]
  BY DEF Begins, L!Acquire, L!Goto
<1>2. pc[r] \in {"idle", "awaitsOne", "awaitsAll"} /\ ~L!Active(r)
  BY DEF Begins, L!Woken, L!Active
<1>3. \A p \in L!Runs : p # r => pc'[p] = pc[p] /\ awaits'[p] = awaits[p]
  BY <1>1
<1>4. pc'[r] = "checking" /\ L!Active(r)' /\ ~Waiting(r)'
  BY <1>1 DEF L!Active, Waiting
<1>5. /\ \A d \in L!Domains : d # L!Domain(r) => locks'[d] = locks[d]
      /\ locks'[L!Domain(r)] = {r}
  BY <1>1, DomainType
<1>6. LockTypes'
  <2>1. locks' \in [L!Domains -> SUBSET L!Runs]
    BY <1>1
  <2>2. pc' \in [L!Runs -> L!Labels \cup Mediums] /\ awaits' \in [L!Runs -> SUBSET L!Runs]
    BY <1>1 DEF L!Labels
  <2>3. \A d \in L!Domains : \A p, q \in locks'[d] : p = q /\ L!Domain(p) = d
    BY <1>5
  <2> QED BY <2>1, <2>2, <2>3
<1>7. LockedIsActive'
  BY <1>3, <1>4, <1>5 DEF LockedIsActive, L!Active
<1>8. WaitsForOther'
  <2>1. \A q \in L!Runs : Waiting(q)' => q # r /\ Waiting(q) /\ awaits'[q] = awaits[q]
    BY <1>3, <1>4 DEF Waiting
  <2>2. \A p \in L!Runs : (L!Active(p) \/ pc[p] = "done") => (L!Active(p)' \/ pc'[p] = "done")
    BY <1>2, <1>3, <1>4 DEF L!Active
  <2> QED BY <2>1, <2>2 DEF WaitsForOther
<1>9. ASSUME ExclusionInv, OneWaits PROVE ExclusionInv'
  <2> USE <1>9 DEF ExclusionInv
  <2>1. \A p \in L!Runs : ~L!Active(p) /\ (Waiting(p) => p = r)
    <3>1. CASE r \in L!Woken
      <4>1. Waiting(r) /\ \A p \in awaits[r] : pc[p] = "done"
        BY <3>1 DEF L!Woken, Waiting
      <4>2. \A p \in L!Runs : ~L!Active(p)
        BY <4>1 DEF AwaitsTheActive, L!Active
      <4> QED BY <4>1, <4>2 DEF OneWaits
    <3>2. CASE L!Quiet /\ \A d \in L!Domains : locks[d] = {}
      <4>1. \A p \in L!Runs : ~L!Active(p)
        BY <3>2, DomainType DEF ActiveIsLocked
      <4>2. \A p \in L!Runs : ~Waiting(p)
        BY <3>2, <4>1 DEF L!Quiet, L!Woken, Waiting, WaitsForOther
      <4> QED BY <4>1, <4>2
    <3> QED BY <3>1, <3>2 DEF Begins
  <2>2. \A p \in L!Runs : L!Active(p)' => p = r
    BY <1>3, <2>1 DEF L!Active
  <2>3. \A p \in L!Runs : ~Waiting(p)'
    BY <1>3, <1>4, <2>1 DEF Waiting
  <2> QED BY <1>5, <2>2, <2>3 DEF L!MutualExclusion, ActiveIsLocked, AwaitsTheActive
<1> QED BY <1>6, <1>7, <1>8, <1>9

-----------------------------------------------------------------------------
(* What the moves do to the entries. *)

BodyTypes ==
  /\ todo \in [L!Runs -> SUBSET L!Items]
  /\ tries \in [L!Runs -> 0 .. L!MaxRetries - 1]
  /\ copies \in [L!Items -> Nat]
  /\ approved \subseteq L!Items
  /\ failed \subseteq L!Runs
  /\ failures \in 0 .. MaxFailures
  /\ lost \in 0 .. MaxLost

\* The entries of any number of runs, and of runs that exclude each other.
BodyInv == OwnItems /\ ServicesInv /\ L!ServicesComplete

NewOnce == TodoIsNew /\ L!CopiesAreLostAnswers

\* The invariants are about the lock and about the entries.
LEMMA TwoHalves == /\ LockGood <=> LockInv /\ BodyTypes /\ BodyInv
                   /\ LockExcludes <=> ExclusionInv /\ NewOnce
                   /\ LockGood' <=> LockInv' /\ BodyTypes' /\ BodyInv'
                   /\ LockExcludes' <=> ExclusionInv' /\ NewOnce'
BY DEF LockGood, L!TypeOK, LockInv, LockTypes, BodyTypes, BodyInv, LockExcludes, ExclusionInv, NewOnce

\* A run that begins, or begins to wait, has nothing to create and nothing to show.
LEMMA OutsideKeeps ==
  ASSUME L!InitializationLockAssumption, LockGood, NEW r \in L!Runs,
         UNCHANGED L!bodyVars, \A p \in L!Runs : p # r => pc'[p] = pc[p],
         pc'[r] \in {"awaitsOne", "awaitsAll", "checking"}
  PROVE  /\ BodyTypes' /\ BodyInv'
         /\ NewOnce => NewOnce'
<1> USE DEF LockGood, L!TypeOK, L!bodyVars
<1>1. pc'[r] \notin {"creating", "done"} \cup Mediums
  BY DEF L!InitializationLockAssumption, L!Labels
<1>2. BodyTypes'
  BY DEF BodyTypes
<1>3. OwnItems'
  BY <1>1 DEF OwnItems, L!Predefined, L!Runs
<1>4. \A p \in ServiceRuns : /\ p \in L!Runs
                             /\ Working(p)' => Working(p)
                             /\ pc'[p] = "done" => pc[p] = "done"
  BY <1>1 DEF Working, L!Runs
<1>6. ServicesInv' /\ L!ServicesComplete'
  BY <1>4 DEF ServicesInv, L!ServicesComplete
<1>5. NewOnce => NewOnce'
  BY <1>1 DEF NewOnce, TodoIsNew, L!CopiesAreLostAnswers, Working
<1> QED BY <1>2, <1>3, <1>5, <1>6 DEF BodyInv

\* The look leaves out what exists.
LEMMA CheckExistingKeeps ==
  ASSUME L!InitializationLockAssumption, LockGood, NEW r \in L!Runs, L!CheckExisting(r)
  PROVE  /\ BodyTypes' /\ BodyInv'
         /\ NewOnce => NewOnce'
<1> USE DEF LockGood, L!TypeOK
<1>1. /\ pc' = [pc EXCEPT ![r] = "creating"]
      /\ todo' = [todo EXCEPT ![r] = {i \in L!Predefined(r) : copies[i] = 0}]
      /\ UNCHANGED <<tries, copies, approved, failed, failures, lost>>
  BY DEF L!CheckExisting, L!Goto
<1>2. /\ pc'[r] = "creating"
      /\ todo'[r] = {i \in L!Predefined(r) : copies[i] = 0}
      /\ \A p \in L!Runs : p # r => pc'[p] = pc[p] /\ todo'[p] = todo[p]
  BY <1>1
<1>3. L!Predefined(r) \subseteq L!Items
  BY DEF L!Predefined, L!Items
<1>4. BodyTypes'
  BY <1>1, <1>2, <1>3 DEF BodyTypes
<1>5. OwnItems'
  BY <1>2 DEF OwnItems, L!Predefined, L!Runs, L!InitializationLockAssumption, L!Labels
<1>6. ServicesInv'
  <2>1. \A p \in ServiceRuns : p \in L!Runs
    BY DEF L!Runs
  <2>2. r \in ServiceRuns => Services \subseteq approved \cup Unapproved \cup todo'[r]
    BY <1>2 DEF ServicesInv, L!Predefined, L!Items
  <2>3. \A p \in ServiceRuns :
         (p # r /\ Working(p)' /\ p \notin failed) => Services \subseteq approved \cup Unapproved \cup todo'[p]
    BY <1>2, <2>1 DEF ServicesInv, Working
  <2> QED BY <1>1, <2>2, <2>3 DEF ServicesInv
<1>7. L!ServicesComplete'
  BY <1>1, <1>2 DEF L!ServicesComplete, L!Runs
<1>8. ASSUME NewOnce PROVE NewOnce'
  <2>1. \A i \in todo'[r] : copies[i] <= lost
    BY <1>2
  <2>2. \A p \in L!Runs : p # r => (Working(p)' <=> Working(p))
    BY <1>2 DEF Working
  <2> QED BY <1>1, <1>2, <1>8, <2>1, <2>2 DEF NewOnce, TodoIsNew, L!CopiesAreLostAnswers
<1> QED BY <1>4, <1>5, <1>6, <1>7, <1>8 DEF BodyInv

\* A run ends: it looked in vain, or has nothing left to create.
LEMMA EndingKeeps ==
  ASSUME L!InitializationLockAssumption, LockGood, NEW r \in L!Runs, L!CheckFails(r) \/ L!Finish(r)
  PROVE  /\ BodyTypes' /\ BodyInv'
         /\ NewOnce => NewOnce'
<1> USE DEF LockGood, L!TypeOK
<1>1. /\ pc' = [pc EXCEPT ![r] = "done"]
      /\ UNCHANGED <<todo, tries, copies, approved, lost>>
      /\ failed' \in {failed, failed \cup {r}}
  BY DEF L!CheckFails, L!Finish, L!Goto, L!bodyVars
<1>2. pc'[r] = "done" /\ \A p \in L!Runs : p # r => pc'[p] = pc[p]
  BY <1>1
<1>3. ~Working(r)'
  BY <1>2 DEF Working, L!InitializationLockAssumption, L!Labels
<1>4. failures' \in 0 .. MaxFailures
  <2>1. CASE L!CheckFails(r)
    BY <2>1 DEF L!CheckFails, L!InitializationLockAssumption
  <2>2. CASE L!Finish(r)
    BY <2>2 DEF L!Finish, L!bodyVars
  <2> QED BY <2>1, <2>2
<1>5. BodyTypes'
  BY <1>1, <1>4 DEF BodyTypes
<1>6. OwnItems'
  BY <1>1, <1>2 DEF OwnItems, L!Predefined, L!Runs, L!InitializationLockAssumption, L!Labels
<1>7. \A p \in ServiceRuns : p \in L!Runs
  BY DEF L!Runs
<1>8. ServicesInv'
  BY <1>1, <1>2, <1>3, <1>7 DEF ServicesInv, Working
<1>9. L!ServicesComplete'
  <2>1. CASE L!CheckFails(r)
    BY <1>1, <1>2, <1>7, <2>1 DEF L!CheckFails, L!ServicesComplete
  <2>2. CASE L!Finish(r)
    <3>1. pc[r] = "creating" /\ todo[r] = {} /\ failed' = failed
      BY <2>2 DEF L!Finish, L!bodyVars
    <3>2. (r \in ServiceRuns /\ r \notin failed) => Services \subseteq approved \cup Unapproved
      BY <3>1 DEF ServicesInv, Working
    <3> QED BY <1>1, <1>2, <1>7, <3>1, <3>2 DEF L!ServicesComplete
  <2> QED BY <2>1, <2>2
<1>10. NewOnce => NewOnce'
  BY <1>1, <1>2, <1>3 DEF NewOnce, TodoIsNew, L!CopiesAreLostAnswers, Working
<1> QED BY <1>5, <1>6, <1>8, <1>9, <1>10 DEF BodyInv

\* Only one run works.
LEMMA AloneAtWork ==
  ASSUME L!InitializationLockAssumption, ExclusionInv, NEW r \in L!Runs, NEW s \in L!Runs, Working(r), Working(s)
  PROVE  r = s
BY DEF ExclusionInv, L!MutualExclusion, Working, L!Active, L!InitializationLockAssumption, L!Labels

\* A create call that is carried out and answered.
LEMMA ItemCreateKeeps ==
  ASSUME L!InitializationLockAssumption, LockGood, NEW r \in L!Runs, NEW i \in L!Items, L!Create(r, i)
  PROVE  /\ BodyTypes' /\ BodyInv'
         /\ NewOnce /\ ExclusionInv => NewOnce'
<1> USE DEF LockGood, L!TypeOK
<1>1. /\ pc[r] = "creating" /\ i \in todo[r]
      /\ copies' = [copies EXCEPT ![i] = @ + 1]
      /\ todo' = [todo EXCEPT ![r] = @ \ {i}]
      /\ tries' = [tries EXCEPT ![r] = 0]
      /\ UNCHANGED <<failed, failures, lost>>
  BY DEF L!Create, L!CreateService, L!SuggestMedium, L!NextItem
<1>2. \/ r \in ServiceRuns /\ pc' = pc /\ approved' = approved \cup {i}
      \/ r \notin ServiceRuns /\ pc' = [pc EXCEPT ![r] = i] /\ approved' = approved
  BY DEF L!Create, L!CreateService, L!SuggestMedium, L!Goto
<1>3. \A p \in L!Runs : p # r => pc'[p] = pc[p] /\ todo'[p] = todo[p]
  BY <1>1, <1>2
<1>4. todo'[r] = todo[r] \ {i} /\ Working(r)
  BY <1>1 DEF Working
<1>5. r \notin ServiceRuns => i \in Mediums /\ i \notin Services
  BY <1>1 DEF OwnItems, L!Predefined, L!InitializationLockAssumption
<1>6. \A p \in ServiceRuns : p \in L!Runs /\ pc'[p] = pc[p]
  BY <1>2, <1>3 DEF L!Runs
<1>7. BodyTypes'
  <2>1. tries' \in [L!Runs -> 0 .. L!MaxRetries - 1]
    BY <1>1 DEF L!MaxRetries
  <2> QED BY <1>1, <1>2, <2>1 DEF BodyTypes
<1>8. OwnItems'
  BY <1>3, <1>4, <1>6 DEF OwnItems
<1>9. ServicesInv'
  <2>1. \A j \in Services : copies'[j] > 0 => j \in approved' \cup Unapproved
    <3> SUFFICES ASSUME NEW j \in Services, copies'[j] > 0 PROVE j \in approved' \cup Unapproved
      OBVIOUS
    <3>1. j \in L!Items
      BY DEF L!Items
    <3>2. CASE j = i
      BY <1>2, <1>5, <3>2
    <3>3. CASE j # i
      BY <1>1, <1>2, <3>1, <3>3 DEF ServicesInv
    <3> QED BY <3>2, <3>3
  <2>2. \A p \in ServiceRuns : approved \cup todo[p] \subseteq approved' \cup todo'[p]
    BY <1>2, <1>3, <1>4, <1>6
  <2> QED BY <1>1, <1>6, <2>1, <2>2 DEF ServicesInv, Working
<1>10. L!ServicesComplete'
  BY <1>1, <1>2, <1>6 DEF L!ServicesComplete
<1>11. ASSUME NewOnce, ExclusionInv PROVE NewOnce'
  <2>1. \A p \in L!Runs : Working(p) => p = r
    BY <1>4, <1>11, AloneAtWork
  <2>2. copies[i] \in Nat /\ lost \in Nat /\ copies[i] <= lost
    BY <1>1, <1>4, <1>11 DEF NewOnce, TodoIsNew, L!InitializationLockAssumption
  <2>3. \A j \in L!Items : j # i => copies'[j] = copies[j]
    BY <1>1
  <2>4. \A p \in L!Runs : Working(p)' => p = r
    BY <1>3, <2>1 DEF Working
  <2>5. \A j \in todo'[r] : j \in L!Items /\ j # i /\ j \in todo[r]
    BY <1>4
  <2>6. TodoIsNew'
    BY <1>1, <1>4, <1>11, <2>3, <2>4, <2>5 DEF NewOnce, TodoIsNew
  <2>7. copies'[i] <= 1 + lost
    BY <1>1, <2>2
  <2>8. L!CopiesAreLostAnswers'
    BY <1>1, <1>11, <2>3, <2>7 DEF NewOnce, L!CopiesAreLostAnswers
  <2> QED BY <2>6, <2>8 DEF NewOnce
<1> QED BY <1>7, <1>8, <1>9, <1>10, <1>11 DEF BodyInv

\* A create call that fails, carried out or not.
LEMMA CreateFailsKeeps ==
  ASSUME L!InitializationLockAssumption, LockGood, NEW r \in L!Runs, NEW i \in L!Items, NEW isLost \in BOOLEAN,
         L!CreateFails(r, i, isLost)
  PROVE  /\ BodyTypes' /\ BodyInv'
         /\ NewOnce /\ ExclusionInv => NewOnce'
<1> USE DEF LockGood, L!TypeOK
<1>1. /\ pc[r] = "creating" /\ i \in todo[r] /\ pc' = pc
      /\ failures < MaxFailures /\ failures' = failures + 1
      /\ L!GiveUp(r, i)
  BY DEF L!CreateFails, L!lockVars
<1>2. \/ /\ lost' = lost /\ copies' = copies /\ approved' = approved
      \/ /\ lost < MaxLost /\ lost' = lost + 1
         /\ copies' = [copies EXCEPT ![i] = @ + 1]
         /\ approved' = IF r \in ServiceRuns THEN approved \cup {i} ELSE approved
  BY DEF L!CreateFails
<1>3. \/ /\ todo' = todo /\ failed' = failed
         /\ tries[r] + 1 < L!MaxRetries /\ tries' = [tries EXCEPT ![r] = @ + 1]
      \/ /\ todo' = [todo EXCEPT ![r] = @ \ {i}] /\ failed' = failed \cup {r}
         /\ tries' = [tries EXCEPT ![r] = 0]
  BY <1>1 DEF L!GiveUp, L!NextItem
<1>4. /\ \A p \in L!Runs : p # r => todo'[p] = todo[p]
      /\ \A p \in L!Runs : todo'[p] \subseteq todo[p]
      /\ todo'[r] = todo[r] \/ r \in failed'
      /\ failed \subseteq failed' /\ failed' \subseteq failed \cup {r}
  BY <1>3
<1>5. r \notin ServiceRuns => i \in Mediums /\ i \notin Services
  BY <1>1 DEF OwnItems, L!Predefined, L!InitializationLockAssumption
<1>6. \A p \in ServiceRuns : p \in L!Runs
  BY DEF L!Runs
<1>7. /\ approved \subseteq approved' /\ approved' \subseteq L!Items
      /\ lost' \in 0 .. MaxLost /\ failures' \in 0 .. MaxFailures
      /\ copies' \in [L!Items -> Nat]
  <2>1. lost \in Nat /\ failures \in Nat /\ MaxLost \in Nat /\ MaxFailures \in Nat
    BY DEF L!InitializationLockAssumption
  <2> QED BY <1>1, <1>2, <2>1
<1>8. BodyTypes'
  <2>1. tries' \in [L!Runs -> 0 .. L!MaxRetries - 1]
    BY <1>3 DEF L!MaxRetries
  <2>2. todo' \in [L!Runs -> SUBSET L!Items] /\ failed' \subseteq L!Runs
    BY <1>3, <1>4
  <2> QED BY <1>7, <2>1, <2>2 DEF BodyTypes
<1>9. OwnItems'
  BY <1>1, <1>4 DEF OwnItems
<1>10. ServicesInv'
  <2>1. \A j \in Services : copies'[j] > 0 => j \in approved' \cup Unapproved
    <3> SUFFICES ASSUME NEW j \in Services, copies'[j] > 0 PROVE j \in approved' \cup Unapproved
      OBVIOUS
    <3>1. j \in L!Items
      BY DEF L!Items
    <3>2. CASE copies' = copies
      BY <1>7, <3>2 DEF ServicesInv
    <3>3. CASE copies' # copies /\ j = i
      BY <1>2, <1>5, <3>3
    <3>4. CASE copies' # copies /\ j # i
      BY <1>2, <1>7, <3>1, <3>4 DEF ServicesInv
    <3> QED BY <3>2, <3>3, <3>4
  <2>2. \A p \in ServiceRuns : p \notin failed' => todo'[p] = todo[p] /\ p \notin failed
    BY <1>4, <1>6
  <2> QED BY <1>1, <1>7, <2>1, <2>2 DEF ServicesInv, Working
<1>11. L!ServicesComplete'
  BY <1>1, <1>4, <1>7 DEF L!ServicesComplete
<1>12. ASSUME NewOnce, ExclusionInv PROVE NewOnce'
  <2>1. \A p \in L!Runs : Working(p) => p = r
    BY <1>1, <1>12, AloneAtWork DEF Working
  <2>2. copies[i] \in Nat /\ lost \in Nat /\ copies[i] <= lost
    BY <1>1, <1>12 DEF NewOnce, TodoIsNew, L!InitializationLockAssumption, Working
  <2>3. CASE lost' = lost /\ copies' = copies
    BY <1>1, <1>4, <1>12, <2>3 DEF NewOnce, TodoIsNew, L!CopiesAreLostAnswers, Working
  <2>4. CASE lost' = lost + 1 /\ copies' = [copies EXCEPT ![i] = @ + 1]
    <3>1. \A j \in L!Items : copies[j] \in Nat /\ copies'[j] = IF j = i THEN copies[j] + 1 ELSE copies[j]
      BY <2>4
    <3>2. \A j \in L!Items : copies[j] <= lost => copies'[j] <= lost'
      BY <2>2, <2>4, <3>1
    <3>3. TodoIsNew'
      <4> SUFFICES ASSUME NEW p \in L!Runs, NEW j \in todo'[p], Working(p)' PROVE copies'[j] <= lost'
        BY DEF TodoIsNew
      <4>1. Working(p) /\ j \in todo[p] /\ j \in L!Items
        BY <1>1, <1>4 DEF Working
      <4>2. copies[j] <= lost
        BY <1>12, <4>1 DEF NewOnce, TodoIsNew
      <4> QED BY <3>2, <4>1, <4>2
    <3>4. \A j \in L!Items : copies'[j] <= 1 + lost'
      <4> SUFFICES ASSUME NEW j \in L!Items PROVE copies'[j] <= 1 + lost'
        OBVIOUS
      <4>1. copies[j] <= 1 + lost
        BY <1>12 DEF NewOnce, L!CopiesAreLostAnswers
      <4> QED BY <2>2, <2>4, <3>1, <4>1
    <3> QED BY <3>3, <3>4 DEF NewOnce, L!CopiesAreLostAnswers
  <2> QED BY <1>2, <2>3, <2>4
<1> QED BY <1>8, <1>9, <1>10, <1>11, <1>12 DEF BodyInv

\* The approval of a medium, and its failure.
LEMMA ApproveKeeps ==
  ASSUME L!InitializationLockAssumption, LockGood, NEW r \in L!Runs, L!Approve(r) \/ L!ApproveFails(r)
  PROVE  /\ BodyTypes' /\ BodyInv'
         /\ NewOnce => NewOnce'
<1> USE DEF LockGood, L!TypeOK
<1>1. /\ pc[r] \in Mediums /\ pc' = [pc EXCEPT ![r] = "creating"]
      /\ UNCHANGED <<todo, tries, copies, lost>>
  BY DEF L!Approve, L!ApproveFails, L!Goto
<1>2. /\ approved \subseteq approved' /\ approved' \subseteq L!Items
      /\ failed \subseteq failed' /\ failed' \subseteq L!Runs
  BY <1>1 DEF L!Approve, L!ApproveFails, L!Items
<1>3. failures' \in 0 .. MaxFailures
  <2>1. CASE L!Approve(r)
    BY <2>1 DEF L!Approve
  <2>2. CASE L!ApproveFails(r)
    BY <2>2 DEF L!ApproveFails, L!InitializationLockAssumption
  <2> QED BY <2>1, <2>2
<1>4. \A p \in L!Runs : (pc'[p] = "creating" /\ p = r) \/ pc'[p] = pc[p]
  BY <1>1
<1>5. \A p \in ServiceRuns : p \in L!Runs /\ pc'[p] = pc[p]
  BY <1>1, <1>4 DEF OwnItems, L!Runs
<1>6. BodyTypes'
  BY <1>1, <1>2, <1>3 DEF BodyTypes
<1>7. OwnItems'
  BY <1>1, <1>5 DEF OwnItems, L!Predefined
<1>8. ServicesInv' /\ L!ServicesComplete'
  BY <1>1, <1>2, <1>5 DEF ServicesInv, L!ServicesComplete, Working
<1>9. NewOnce => NewOnce'
  <2>1. \A p \in L!Runs : Working(p)' => Working(p)
    BY <1>1, <1>4 DEF Working
  <2> QED BY <1>1, <2>1 DEF NewOnce, TodoIsNew, L!CopiesAreLostAnswers
<1> QED BY <1>6, <1>7, <1>8, <1>9 DEF BodyInv

-----------------------------------------------------------------------------
(* The invariants hold. *)

\* A step of a run.
LEMMA RunKeeps ==
  ASSUME L!InitializationLockAssumption, LockGood, NEW r \in L!Runs, L!Click(r) \/ L!Step(r)
  PROVE  /\ LockGood'
         /\ LockExcludes /\ OneWaits => LockExcludes'
<1>1. LockInv
  BY TwoHalves
<1>2. CASE BeginsToWait(r) \/ Begins(r)
  <2>1. /\ UNCHANGED L!bodyVars
        /\ \A p \in L!Runs : p # r => pc'[p] = pc[p]
        /\ pc'[r] \in {"awaitsOne", "awaitsAll", "checking"}
    BY <1>2 DEF BeginsToWait, Begins, L!Acquire, L!Goto, LockGood, L!TypeOK
  <2>2. BodyTypes' /\ BodyInv' /\ (NewOnce => NewOnce')
    BY <2>1, OutsideKeeps
  <2>3. LockInv' /\ (ExclusionInv /\ OneWaits => ExclusionInv')
    BY <1>1, <1>2, BeginsToWaitKeeps, BeginsKeeps
  <2> QED BY <2>2, <2>3, TwoHalves
<1>3. CASE Work(r)
  <2>1. LockInv' /\ (ExclusionInv => ExclusionInv')
    BY <1>1, <1>3, WorkMoves, TakesUpKeeps, EndsKeeps
  <2>2. BodyTypes' /\ BodyInv' /\ (NewOnce /\ ExclusionInv => NewOnce')
    BY <1>3, CheckExistingKeeps, EndingKeeps, ItemCreateKeeps, CreateFailsKeeps, ApproveKeeps DEF Work
  <2> QED BY <2>1, <2>2, TwoHalves
<1> QED BY <1>2, <1>3, ClickMoves, WakeMoves DEF L!Step, Work

LEMMA LockInitInv == L!InitializationLockAssumption /\ L!Init => LockGood /\ LockExcludes
<1> SUFFICES ASSUME L!InitializationLockAssumption, L!Init PROVE LockGood /\ LockExcludes
  OBVIOUS
<1>1. L!TypeOK
  BY DEF L!InitializationLockAssumption, L!Init, L!TypeOK, L!Labels, L!MaxRetries
<1>2. \A r \in L!Runs : ~L!Active(r) /\ ~Waiting(r) /\ ~Working(r) /\ pc[r] # "done" /\ pc[r] \notin Mediums
  BY DEF L!InitializationLockAssumption, L!Init, L!Labels, L!Active, Waiting, Working
<1>3. \A r \in ServiceRuns : r \in L!Runs
  BY DEF L!Runs
<1>4. LockedIsActive /\ WaitsForOther /\ OwnItems
  BY <1>2, <1>3 DEF L!Init, LockedIsActive, WaitsForOther, OwnItems
<1>5. \A i \in Services : copies[i] > 0 => i \in approved \cup Unapproved
  BY DEF L!Init, L!Items
<1>6. ServicesInv /\ L!ServicesComplete
  BY <1>2, <1>3, <1>5 DEF ServicesInv, L!ServicesComplete
<1>7. LockExcludes
  BY <1>2 DEF LockExcludes, L!MutualExclusion, ActiveIsLocked, AwaitsTheActive, TodoIsNew, L!CopiesAreLostAnswers, L!Init
<1> QED BY <1>1, <1>4, <1>6, <1>7 DEF LockGood

LEMMA LockNextInv ==
  ASSUME L!InitializationLockAssumption, LockGood, [L!Next]_(L!vars)
  PROVE  /\ LockGood'
         /\ LockExcludes /\ OneWaits => LockExcludes'
<1>1. CASE L!Next
  BY <1>1, RunKeeps DEF L!Next
<1>2. CASE UNCHANGED L!vars
  <2>1. UNCHANGED <<locks, pc, awaits, todo, tries, copies, approved, failed, failures, lost>>
    BY <1>2 DEF L!vars, L!lockVars, L!bodyVars
  <2>2. LockGood'
    BY <2>1 DEF LockGood, L!TypeOK, LockedIsActive, WaitsForOther, OwnItems, ServicesInv, L!ServicesComplete,
                L!Active, Waiting, Working
  <2>3. LockExcludes => LockExcludes'
    BY <2>1 DEF LockExcludes, L!MutualExclusion, ActiveIsLocked, AwaitsTheActive, TodoIsNew, L!CopiesAreLostAnswers,
                L!Active, Waiting, Working
  <2> QED BY <2>2, <2>3
<1> QED BY <1>1, <1>2

LEMMA LockGoodHolds == L!InitializationLockAssumption /\ L!Spec => []LockGood
<1> SUFFICES ASSUME L!InitializationLockAssumption PROVE L!Spec => []LockGood
  OBVIOUS
<1>1. L!Init => LockGood
  BY LockInitInv
<1>2. LockGood /\ [L!Next]_(L!vars) => LockGood'
  BY LockNextInv
<1> QED BY <1>1, <1>2, PTL DEF L!Spec

LEMMA LockExcludesHolds == L!InitializationLockAssumption /\ L!Spec /\ []OneWaits => []LockExcludes
<1> SUFFICES ASSUME L!InitializationLockAssumption PROVE L!Spec /\ []OneWaits => []LockExcludes
  OBVIOUS
<1>1. L!Init => LockExcludes
  BY LockInitInv
<1>2. LockGood /\ LockExcludes /\ OneWaits /\ [L!Next]_(L!vars) => LockExcludes'
  BY LockNextInv
<1>3. L!Spec => []LockGood
  BY LockGoodHolds
<1> QED BY <1>1, <1>2, <1>3, PTL DEF L!Spec

-----------------------------------------------------------------------------
(* The theorems of the lock. *)

\* Every variable has its type, with at most one promise stored for a domain and
\* at most three attempts at an item (initialization-lock.ts:7, 31, 38;
\* ServiceTypesInitializer.svelte:138-161).
THEOREM LockTypeCorrect == L!InitializationLockAssumption /\ L!Spec => []L!TypeOK
<1>1. LockGood => L!TypeOK
  BY DEF LockGood
<1> QED BY <1>1, LockGoodHolds, PTL

\* A run of the service types that gave nothing up leaves all of them approved
\* that were not there before, pending or rejected, for any number of clicks,
\* overlapping or not, and whatever failed before
\* (ServiceTypesInitializer.svelte:192-244).
THEOREM ServicesAreComplete == L!InitializationLockAssumption /\ L!Spec => []L!ServicesComplete
<1>1. LockGood => L!ServicesComplete
  BY DEF LockGood
<1> QED BY <1>1, LockGoodHolds, PTL

\* Runs exclude each other, and copies are lost answers, as long as no two runs
\* wait at the same time: it is the waiting together that breaks the lock, since
\* nobody looks again after Promise.all (initialization-lock.ts:17-31).
THEOREM ExclusiveWhileOneWaits ==
  L!InitializationLockAssumption /\ L!Spec /\ []OneWaits => [](L!MutualExclusion /\ L!CopiesAreLostAnswers)
<1>1. LockExcludes => L!MutualExclusion /\ L!CopiesAreLostAnswers
  BY DEF LockExcludes
<1> QED BY <1>1, LockExcludesHolds, PTL

\* With two clicks, on one initializer or on both, runs exclude each other and an
\* item is there twice only after an answer was lost.
THEOREM TwoClicksExclude ==
  ASSUME L!InitializationLockAssumption, \A r, s, t \in L!Runs : r = s \/ s = t \/ r = t
  PROVE  L!Spec => [](L!MutualExclusion /\ L!CopiesAreLostAnswers)
<1>1. LockGood => OneWaits
  <2> SUFFICES ASSUME LockGood, NEW r \in L!Runs, NEW s \in L!Runs, Waiting(r), Waiting(s) PROVE r = s
    BY DEF OneWaits
  <2>1. PICK p \in awaits[r] : p # r /\ (L!Active(p) \/ pc[p] = "done")
    BY DEF LockGood, WaitsForOther
  <2>2. p \in L!Runs /\ p # s
    BY <2>1 DEF LockGood, L!TypeOK, L!Active, Waiting
  <2> QED BY <2>1, <2>2
<1> QED BY <1>1, LockGoodHolds, ExclusiveWhileOneWaits, PTL

\* The labels of a caller that is at its attempts.
Attempting == {"connecting", "backoff"}

\* An attempt is at most the third, and the page has not called before it starts.
InTurn ==
  /\ \A c \in C!Callers : pc[c] \in Attempting => retryCount[c] < C!MaxRetries
  /\ stage = "pending" => pc[C!Layout] = "idle"

\* The service holds the connection made last or none: an older one never comes
\* back (HolochainClientService.svelte.ts:77-79, 88-91).
HoldsTheNewest == client \in {0, made}

\* The inductive invariant.  OneConnects and ConnectedHasClient need each other:
\* a caller begins only while isConnecting is off, and a failure in between
\* leaves isConnected off.
IInv == C!TypeOK /\ InTurn /\ HoldsTheNewest /\ C!OneConnects /\ C!ConnectedHasClient

\* The actions of connectClient change what only these clauses speak of.
Core == InTurn /\ HoldsTheNewest /\ C!OneConnects /\ C!ConnectedHasClient

-----------------------------------------------------------------------------
(* The steps that a call of connectClient is made of. *)

\* The pauses are of two and of four seconds.
LEMMA Pauses == \A n \in 0 .. C!MaxRetries : n + 1 < C!MaxRetries => 2 ^ (n + 1) \in {2, 4}
<1>1. 2 ^ 1 = 2 /\ 2 ^ 2 = 4
  OBVIOUS
<1>2. SUFFICES ASSUME NEW n \in 0 .. C!MaxRetries, n + 1 < C!MaxRetries
               PROVE  n + 1 = 1 \/ n + 1 = 2
  BY <1>1, Zenon
<1> QED BY <1>2 DEF C!MaxRetries

\* Entering connectClient from any place but an attempt keeps what the flags say.
LEMMA EnterKeeps ==
  ASSUME IInv, NEW c \in C!Callers, pc[c] \notin Attempting, C!Enter(c),
         (stage' = stage /\ c # C!Layout) \/ stage' # "pending"
  PROVE  /\ Core'
         /\ pc' \in [C!Callers -> C!Settled \cup {"polling", "connecting", "backoff"}]
         /\ retryCount' \in [C!Callers -> 0 .. C!MaxRetries]
         /\ client' \in 0 .. made' /\ made' = made
         /\ isConnected' \in BOOLEAN /\ isConnecting' \in BOOLEAN
<1> USE DEF IInv, C!TypeOK, InTurn, HoldsTheNewest, C!OneConnects, C!ConnectedHasClient, Core,
            Attempting, C!Settled, C!Goto, C!serviceVars
<1>1. CASE isConnected /\ C!Goto(c, "returned") /\ UNCHANGED <<C!serviceVars, retryCount>>
  BY <1>1
<1>2. CASE ~isConnected /\ isConnecting /\ C!Goto(c, "polling") /\ UNCHANGED <<C!serviceVars, retryCount>>
  BY <1>2
<1>3. CASE ~isConnected /\ ~isConnecting /\ C!BeginAttempts(c)
  <2>1. /\ isConnected' = FALSE /\ client' = 0 /\ isConnecting' = TRUE /\ made' = made
        /\ retryCount' = [retryCount EXCEPT ![c] = 0]
        /\ pc' = [pc EXCEPT ![c] = "connecting"]
    BY <1>3 DEF C!BeginAttempts
  <2>2. \A d \in C!Callers : pc[d] \notin Attempting
    BY <1>3
  <2>3. \A d \in C!Callers : (pc'[d] \in Attempting) <=> (d = c)
    BY <2>1, <2>2
  <2>4. C!OneConnects'
    <3>1. \A d, e \in C!Callers : ({pc'[d], pc'[e]} \subseteq Attempting) => d = e
      BY <2>3
    <3> QED BY <2>1, <2>3, <3>1
  <2>5. InTurn'
    BY <2>1, <2>3 DEF C!MaxRetries
  <2>6. /\ pc' \in [C!Callers -> C!Settled \cup {"polling", "connecting", "backoff"}]
        /\ retryCount' \in [C!Callers -> 0 .. C!MaxRetries]
    BY <2>1 DEF C!MaxRetries
  <2>7. client' \in 0 .. made'
    BY <2>1
  <2> QED BY <2>1, <2>4, <2>5, <2>6, <2>7
<1> QED BY <1>1, <1>2, <1>3 DEF C!Enter

\* A step that moves no caller and leaves the flags alone.
LEMMA UnmovedKeeps ==
  ASSUME IInv, UNCHANGED <<C!serviceVars, pc, retryCount>>, stage' \in {stage, "connect", "hrea",
         "network", "user", "complete", "failed"}
  PROVE  Core'
BY DEF IInv, InTurn, HoldsTheNewest, C!OneConnects, C!ConnectedHasClient, Core, C!serviceVars

-----------------------------------------------------------------------------
(* Each step keeps the invariant. *)

LEMMA ConnectionInitInv == C!ConnectionAssumption /\ C!Init => IInv
<1> SUFFICES ASSUME C!ConnectionAssumption, C!Init PROVE IInv
  OBVIOUS
<1>1. C!Layout \in C!Callers
  BY DEF C!Callers
<1>2. C!TypeOK
  <2>1. client \in 0 .. made /\ made \in 0 .. MaxConnections /\ broken \subseteq 1 .. made
    BY DEF C!ConnectionAssumption, C!Init
  <2>2. retryCount \in [C!Callers -> 0 .. C!MaxRetries] /\ repeats \in [Guards -> 0 .. 3]
        /\ limit \in [C!Timed -> 0 .. 15] /\ calls \in [Users -> 0 .. made]
    BY DEF C!Init, C!MaxRetries
  <2>3. /\ pc \in [C!Callers -> C!Settled \cup {"polling", "connecting", "backoff"}]
        /\ delay \in [C!Callers -> {0, 1, 2, 3, 4}]
    BY DEF C!Init, C!Settled
  <2>4. steps \in [{"client", "hrea", "network"} -> {"pending", "running", "completed", "failed", "skipped"}]
    BY DEF C!Init
  <2> QED BY <2>1, <2>2, <2>3, <2>4 DEF C!Init, C!TypeOK
<1>3. C!OneConnects
  BY DEF C!Init, C!OneConnects
<1>4. InTurn
  BY <1>1 DEF C!Init, InTurn, Attempting
<1> QED BY <1>2, <1>3, <1>4 DEF C!Init, IInv, HoldsTheNewest, C!ConnectedHasClient

\* The types of what connectClient does not touch.
RestOK ==
  /\ delay \in [C!Callers -> {0, 1, 2, 3, 4}]
  /\ repeats \in [Guards -> 0 .. 3]
  /\ limit \in [C!Timed -> 0 .. 15]
  /\ stage \in {"pending", "connect", "hrea", "network", "user", "complete", "failed"}
  /\ steps \in [{"client", "hrea", "network"} -> {"pending", "running", "completed", "failed", "skipped"}]

\* A step that enters connectClient.
LEMMA EntersInv ==
  ASSUME C!ConnectionAssumption, IInv, NEW c \in C!Callers, pc[c] \notin Attempting, C!Enter(c),
         (stage' = stage /\ c # C!Layout) \/ stage' # "pending",
         UNCHANGED <<broken, calls>>, RestOK'
  PROVE  IInv'
<1>1. /\ Core'
      /\ pc' \in [C!Callers -> C!Settled \cup {"polling", "connecting", "backoff"}]
      /\ retryCount' \in [C!Callers -> 0 .. C!MaxRetries]
      /\ client' \in 0 .. made' /\ made' = made
      /\ isConnected' \in BOOLEAN /\ isConnecting' \in BOOLEAN
  BY EnterKeeps
<1> QED BY <1>1 DEF Core, IInv, C!TypeOK, RestOK

\* A step that moves no caller.
LEMMA UnmovedInv ==
  ASSUME IInv, UNCHANGED <<C!serviceVars, pc, retryCount>>, RestOK', stage' \in {stage, "connect", "hrea",
         "network", "user", "complete", "failed"},
         broken' \subseteq 1 .. made, calls' \in [Users -> 0 .. made]
  PROVE  IInv'
<1>1. Core'
  BY UnmovedKeeps
<1> QED BY <1>1 DEF Core, IInv, C!TypeOK, RestOK, C!serviceVars

LEMMA WaitersInv ==
  ASSUME C!ConnectionAssumption, IInv, NEW c \in C!Callers, C!WaitForConnection(c) \/ C!Poll(c)
  PROVE  IInv'
<1>1. CASE C!WaitForConnection(c)
  <2>1. c # C!Layout /\ pc[c] \notin Attempting /\ C!Enter(c) /\ stage' = stage
    BY <1>1 DEF C!WaitForConnection, C!ConnectionAssumption, C!Layout, Attempting, C!pageVars
  <2> QED BY <1>1, <2>1, EntersInv DEF C!WaitForConnection, RestOK, IInv, C!TypeOK, C!pageVars
<1>2. CASE C!Poll(c)
  <2>1. pc[c] = "polling" /\ C!Enter(c) /\ stage' = stage
    BY <1>2 DEF C!Poll, C!Enter, C!pageVars
  <2>2. (stage' = stage /\ c # C!Layout) \/ stage' # "pending"
    BY <2>1 DEF IInv, InTurn
  <2> QED BY <1>2, <2>1, <2>2, EntersInv DEF C!Poll, RestOK, IInv, C!TypeOK, Attempting, C!pageVars
<1> QED BY <1>1, <1>2

LEMMA AttemptSucceedsInv ==
  ASSUME C!ConnectionAssumption, IInv, NEW c \in C!Callers, C!AttemptSucceeds(c)
  PROVE  IInv'
<1> USE DEF IInv, C!TypeOK
<1>1. /\ pc[c] = "connecting" /\ pc' = [pc EXCEPT ![c] = "returned"]
      /\ made' = made + 1 /\ client' = made + 1 /\ made < MaxConnections
      /\ isConnected' = TRUE /\ isConnecting' = FALSE
      /\ UNCHANGED <<broken, retryCount, delay, repeats, limit, calls, stage, steps>>
  BY DEF C!AttemptSucceeds, C!Goto, C!pageVars
<1>2. \A d \in C!Callers : pc[d] \in Attempting => d = c
  BY <1>1 DEF C!OneConnects, Attempting
<1>3. \A d \in C!Callers : pc'[d] \notin Attempting
  BY <1>1, <1>2 DEF Attempting
<1>4. C!OneConnects'
  BY <1>1, <1>3 DEF C!OneConnects, Attempting
<1>5. InTurn' /\ HoldsTheNewest' /\ C!ConnectedHasClient'
  BY <1>1, <1>3 DEF InTurn, HoldsTheNewest, C!ConnectedHasClient
<1>6. /\ made' \in 0 .. MaxConnections /\ client' \in 0 .. made'
      /\ broken' \subseteq 1 .. made' /\ calls' \in [Users -> 0 .. made']
  <2>1. made \in Nat /\ 1 .. made \subseteq 1 .. made' /\ 0 .. made \subseteq 0 .. made'
    BY <1>1
  <2> QED BY <1>1, <2>1 DEF C!ConnectionAssumption
<1>7. pc' \in [C!Callers -> C!Settled \cup {"polling", "connecting", "backoff"}]
  BY <1>1 DEF C!Settled
<1> QED BY <1>1, <1>4, <1>5, <1>6, <1>7

LEMMA AttemptFailsInv ==
  ASSUME C!ConnectionAssumption, IInv, NEW c \in C!Callers, C!AttemptFails(c)
  PROVE  IInv'
<1> USE DEF IInv, C!TypeOK
<1> DEFINE n == retryCount[c]
<1>1. /\ pc[c] = "connecting" /\ n \in 0 .. C!MaxRetries /\ n < C!MaxRetries
      /\ retryCount' = [retryCount EXCEPT ![c] = n + 1]
      /\ UNCHANGED <<made, broken, repeats, limit, calls, stage, steps>>
  BY DEF C!AttemptFails, C!pageVars, C!serviceVars, InTurn, Attempting
<1>2. \A d \in C!Callers : pc[d] \in Attempting => d = c
  BY <1>1 DEF C!OneConnects, Attempting
<1>3. isConnecting /\ ~isConnected /\ client = 0
  BY <1>1 DEF C!OneConnects, C!ConnectedHasClient
<1>4. n + 1 \in 0 .. C!MaxRetries
  BY <1>1 DEF C!MaxRetries
<1>5. CASE n + 1 = C!MaxRetries
  <2>1. /\ pc' = [pc EXCEPT ![c] = "threw"] /\ delay' = delay
        /\ isConnected' = FALSE /\ isConnecting' = FALSE /\ client' = 0
    BY <1>5 DEF C!AttemptFails, C!Goto
  <2>2. \A d \in C!Callers : pc'[d] \notin Attempting
    BY <1>1, <1>2, <2>1 DEF Attempting
  <2>3. InTurn' /\ HoldsTheNewest' /\ C!ConnectedHasClient' /\ C!OneConnects'
    BY <1>1, <2>1, <2>2 DEF InTurn, HoldsTheNewest, C!ConnectedHasClient, C!OneConnects, Attempting
  <2>4. /\ pc' \in [C!Callers -> C!Settled \cup {"polling", "connecting", "backoff"}]
        /\ retryCount' \in [C!Callers -> 0 .. C!MaxRetries]
    BY <1>1, <1>4, <2>1 DEF C!Settled
  <2>5. client' \in 0 .. made'
    BY <1>1, <2>1
  <2> QED BY <1>1, <2>1, <2>3, <2>4, <2>5
<1>6. CASE n + 1 # C!MaxRetries
  <2>1. /\ pc' = [pc EXCEPT ![c] = "backoff"]
        /\ delay' = [delay EXCEPT ![c] = 2 ^ (n + 1)]
        /\ UNCHANGED <<client, isConnected, isConnecting>>
    BY <1>6 DEF C!AttemptFails, C!Goto, C!serviceVars
  <2>2. 2 ^ (n + 1) \in {2, 4}
    <3>1. n + 1 < C!MaxRetries
      BY <1>1, <1>6 DEF C!MaxRetries
    <3> HIDE DEF n
    <3> QED BY <1>1, <3>1, Pauses
  <2>3. \A d \in C!Callers : (pc'[d] \in Attempting) <=> (d = c)
    BY <1>1, <1>2, <2>1 DEF Attempting
  <2>4. C!OneConnects'
    <3>1. \A d, e \in C!Callers : ({pc'[d], pc'[e]} \subseteq Attempting) => d = e
      BY <2>3
    <3> QED BY <1>3, <2>1, <2>3, <3>1 DEF C!OneConnects, Attempting
  <2>5. InTurn'
    BY <1>1, <1>6, <2>1, <2>3 DEF InTurn, Attempting, C!MaxRetries
  <2>6. HoldsTheNewest' /\ C!ConnectedHasClient'
    BY <1>1, <1>3, <2>1 DEF HoldsTheNewest, C!ConnectedHasClient
  <2>7. delay' \in [C!Callers -> {0, 1, 2, 3, 4}]
    BY <2>1, <2>2
  <2> QED BY <1>1, <1>4, <2>1, <2>4, <2>5, <2>6, <2>7
<1> QED BY <1>5, <1>6

LEMMA RetryInv ==
  ASSUME C!ConnectionAssumption, IInv, NEW c \in C!Callers, C!Retry(c)
  PROVE  IInv'
<1> USE DEF IInv, C!TypeOK
<1>1. /\ pc[c] = "backoff" /\ pc' = [pc EXCEPT ![c] = "connecting"]
      /\ UNCHANGED <<C!serviceVars, broken, retryCount, delay, repeats, limit, calls, stage, steps>>
  BY DEF C!Retry, C!Goto, C!pageVars
<1>2. \A d \in C!Callers : (pc'[d] \in Attempting) <=> (pc[d] \in Attempting)
  BY <1>1 DEF Attempting
<1>3. C!OneConnects'
  BY <1>1, <1>2 DEF C!OneConnects, Attempting, C!serviceVars
<1>4. InTurn'
  BY <1>1, <1>2 DEF InTurn, Attempting
<1> QED BY <1>1, <1>3, <1>4 DEF HoldsTheNewest, C!ConnectedHasClient, C!serviceVars

LEMMA GuardsInv ==
  ASSUME C!ConnectionAssumption, IInv, NEW g \in Guards,
         C!EnsureConnection(g) \/ C!EnsureEnds(g) \/ C!EnsureAgain(g) \/ C!EnsureTimesOut(g)
  PROVE  IInv'
<1>1. g \in C!Callers /\ g # C!Layout /\ g \in C!Timed
  BY DEF C!Callers, C!Timed, C!ConnectionAssumption, C!Layout
<1>2. CASE C!EnsureConnection(g)
  <2>1. pc[g] = "idle" /\ pc[g] \notin Attempting /\ stage' = stage /\ steps' = steps
        /\ UNCHANGED <<broken, calls, delay>>
    BY <1>2 DEF C!EnsureConnection, Attempting, C!pageVars
  <2>2. C!Enter(g)
    BY <1>2 DEF C!EnsureConnection, C!Enter
  <2>3. repeats' \in [Guards -> 0 .. 3] /\ limit' \in [C!Timed -> 0 .. 15]
    BY <1>1, <1>2 DEF C!EnsureConnection, IInv, C!TypeOK
  <2> QED BY <1>1, <2>1, <2>2, <2>3, EntersInv DEF RestOK, IInv, C!TypeOK
<1>3. CASE C!EnsureEnds(g)
  BY <1>1, <1>3, UnmovedInv DEF C!EnsureEnds, RestOK, IInv, C!TypeOK, C!pageVars, C!connectVars
<1>4. CASE C!EnsureAgain(g)
  <2>1. pc[g] = "threw" /\ pc[g] \notin Attempting /\ stage' = stage /\ steps' = steps
        /\ UNCHANGED <<broken, calls, delay, limit>> /\ C!Enter(g)
    BY <1>4 DEF C!EnsureAgain, Attempting, C!pageVars
  <2>2. repeats' \in [Guards -> 0 .. 3]
    BY <1>1, <1>4 DEF C!EnsureAgain, IInv, C!TypeOK
  <2> QED BY <1>1, <2>1, <2>2, EntersInv DEF RestOK, IInv, C!TypeOK
<1>5. CASE C!EnsureTimesOut(g)
  BY <1>1, <1>5, UnmovedInv DEF C!EnsureTimesOut, RestOK, IInv, C!TypeOK, C!pageVars, C!connectVars
<1> QED BY <1>2, <1>3, <1>4, <1>5

LEMMA PageInv ==
  ASSUME C!ConnectionAssumption, IInv, C!StartPage \/ C!PageStep
  PROVE  IInv'
<1>1. C!Layout \in C!Callers /\ C!Layout \in C!Timed
  BY DEF C!Callers, C!Timed
<1>2. CASE C!StartPage
  <2>1. pc[C!Layout] = "idle" /\ stage' = "connect" /\ C!Enter(C!Layout)
    BY <1>2 DEF C!StartPage, IInv, InTurn
  <2>2. RestOK'
    BY <1>1, <1>2 DEF C!StartPage, C!Show, RestOK, IInv, C!TypeOK
  <2> QED BY <1>1, <1>2, <2>1, <2>2, EntersInv DEF C!StartPage, Attempting
<1>3. CASE C!PageStep
  <2>1. /\ UNCHANGED <<C!serviceVars, broken, pc, retryCount, delay, repeats, calls>>
        /\ stage' \in {"hrea", "failed", "network", "user", "complete"}
    BY <1>3 DEF C!PageStep, C!PageConnected, C!PageNotConnected, C!HreaDone, C!NetworkDone, C!UserDone,
                C!ToHrea, C!ToFailed, C!connectVars
  <2>2. limit' \in [C!Timed -> 0 .. 15]
    BY <1>1, <1>3 DEF C!PageStep, C!PageConnected, C!PageNotConnected, C!HreaDone, C!NetworkDone, C!UserDone,
                      C!ToHrea, C!ToFailed, IInv, C!TypeOK
  <2>3. steps' \in [{"client", "hrea", "network"} -> {"pending", "running", "completed", "failed", "skipped"}]
    BY <1>3 DEF C!PageStep, C!PageConnected, C!PageNotConnected, C!HreaDone, C!NetworkDone, C!UserDone,
                C!ToHrea, C!ToFailed, C!Show, IInv, C!TypeOK
  <2> QED BY <2>1, <2>2, <2>3, UnmovedInv DEF RestOK, IInv, C!TypeOK
<1> QED BY <1>2, <1>3

LEMMA CallsInv ==
  ASSUME C!ConnectionAssumption, IInv, NEW u \in Users, C!StartCall(u) \/ C!CallAnswered(u) \/ C!CallFails(u)
  PROVE  IInv'
<1>1. CASE C!StartCall(u) \/ C!CallAnswered(u)
  <2>1. calls' \in [Users -> 0 .. made]
    BY <1>1 DEF C!StartCall, C!CallAnswered, IInv, C!TypeOK
  <2> QED BY <1>1, <2>1, UnmovedInv
          DEF C!StartCall, C!CallAnswered, RestOK, IInv, C!TypeOK, C!pageVars, C!connectVars
<1>2. CASE C!CallFails(u)
  <2>1. /\ isConnected' = FALSE /\ client' = 0 /\ calls' = [calls EXCEPT ![u] = 0]
        /\ UNCHANGED <<isConnecting, made, broken, pc, retryCount, delay, repeats, limit, stage, steps>>
    BY <1>2 DEF C!CallFails, C!pageVars, C!connectVars
  <2>2. C!TypeOK'
    <3>1. client' \in 0 .. made' /\ calls' \in [Users -> 0 .. made']
      BY <2>1 DEF IInv, C!TypeOK
    <3> QED BY <2>1, <3>1 DEF IInv, C!TypeOK
  <2>3. C!OneConnects' /\ InTurn'
    BY <2>1 DEF IInv, C!OneConnects, InTurn
  <2> QED BY <2>1, <2>2, <2>3 DEF IInv, HoldsTheNewest, C!ConnectedHasClient
<1> QED BY <1>1, <1>2

LEMMA BreakInv ==
  ASSUME IInv, C!Break
  PROVE  IInv'
<1>1. broken' \subseteq 1 .. made
  BY DEF C!Break, IInv, C!TypeOK
<1> QED BY <1>1, UnmovedInv DEF C!Break, RestOK, IInv, C!TypeOK, C!pageVars, C!connectVars

LEMMA TickInv ==
  ASSUME IInv, C!Tick
  PROVE  IInv'
<1>1. /\ UNCHANGED <<C!serviceVars, broken, pc, retryCount, repeats, calls, stage, steps>>
      /\ delay' = [c \in C!Callers |-> IF delay[c] = 0 THEN 0 ELSE delay[c] - 1]
      /\ limit' = [c \in C!Timed |-> IF limit[c] = 0 THEN 0 ELSE limit[c] - 1]
  BY DEF C!Tick, C!pageVars
<1>2. delay' \in [C!Callers -> {0, 1, 2, 3, 4}] /\ limit' \in [C!Timed -> 0 .. 15]
  BY <1>1 DEF IInv, C!TypeOK
<1> QED BY <1>1, <1>2, UnmovedInv DEF RestOK, IInv, C!TypeOK

LEMMA ConnectionNextInv ==
  ASSUME C!ConnectionAssumption, IInv, [C!Next]_(C!vars)
  PROVE  IInv'
<1>1. CASE C!Tick
  BY <1>1, TickInv
<1>2. CASE \E c \in C!Callers : \/ C!WaitForConnection(c) \/ C!Poll(c)
                              \/ C!AttemptSucceeds(c) \/ C!AttemptFails(c) \/ C!Retry(c)
  BY <1>2, WaitersInv, AttemptSucceedsInv, AttemptFailsInv, RetryInv
<1>3. CASE \E g \in Guards : C!EnsureConnection(g) \/ C!EnsureEnds(g) \/ C!EnsureAgain(g) \/ C!EnsureTimesOut(g)
  BY <1>3, GuardsInv
<1>4. CASE C!StartPage \/ C!PageStep
  BY <1>4, PageInv
<1>5. CASE \E u \in Users : C!StartCall(u) \/ C!CallAnswered(u) \/ C!CallFails(u)
  BY <1>5, CallsInv
<1>6. CASE C!Break
  BY <1>6, BreakInv
<1>7. CASE UNCHANGED C!vars
  BY <1>7 DEF C!vars, C!serviceVars, C!connectVars, C!pageVars, IInv, C!TypeOK, InTurn, HoldsTheNewest,
              C!OneConnects, C!ConnectedHasClient
<1> QED BY <1>1, <1>2, <1>3, <1>4, <1>5, <1>6, <1>7 DEF C!Next

\* The invariant holds in every behaviour.
LEMMA Invariance == C!ConnectionAssumption /\ C!Spec => []IInv
<1> SUFFICES ASSUME C!ConnectionAssumption PROVE C!Spec => []IInv
  OBVIOUS
<1>1. C!Init => IInv
  BY ConnectionInitInv
<1>2. IInv /\ [C!Next]_(C!vars) => IInv'
  BY ConnectionNextInv
<1> QED BY <1>1, <1>2, PTL DEF C!Spec

-----------------------------------------------------------------------------
(* The theorems of the connection. *)

\* Every variable has its type: no caller makes more than three attempts in one
\* call, none waits longer than four seconds, and no call is on a connection that
\* was not made (HolochainClientService.svelte.ts:66-112).
THEOREM ConnectionTypeCorrect == C!ConnectionAssumption /\ C!Spec => []C!TypeOK
<1>1. IInv => C!TypeOK
  BY DEF IInv
<1> QED BY <1>1, Invariance, PTL

\* At most one caller connects, with its pauses, exactly while isConnecting says
\* so (HolochainClientService.svelte.ts:66-112, 118-132).
THEOREM OneConnectsAtATime == C!ConnectionAssumption /\ C!Spec => []C!OneConnects
<1>1. IInv => C!OneConnects
  BY DEF IInv
<1> QED BY <1>1, Invariance, PTL

\* The service says that it is connected exactly if it holds a client, and never
\* while somebody connects; the client it holds is the one made last
\* (HolochainClientService.svelte.ts:78-79, 88-89, 100-102, 168-169, 350-351).
THEOREM ConnectedWithTheNewest == C!ConnectionAssumption /\ C!Spec => [](C!ConnectedHasClient /\ HoldsTheNewest)
<1>1. IInv => C!ConnectedHasClient /\ HoldsTheNewest
  BY DEF IInv
<1> QED BY <1>1, Invariance, PTL

\* What a step may do to the client the service holds: only a call that failed on
\* a broken connection takes it away, and no attempt of a caller replaces it
\* (HolochainClientService.svelte.ts:68-79, 88-91, 99-102, 168-169, 350-351).
OnlyFailuresDrop ==
  (client # 0 /\ client' # client) => client' = 0 /\ \E u \in Users : C!CallFails(u)

\* No caller that connects, by itself, for a guard or for the page, resets a
\* connection that is held.
THEOREM HeldUntilAFailure == C!ConnectionAssumption /\ C!Spec => [][OnlyFailuresDrop]_(C!vars)
<1>1. IInv /\ [C!Next]_(C!vars) => [OnlyFailuresDrop]_(C!vars)
  <2> SUFFICES ASSUME IInv, C!Next, client # 0, client' # client
               PROVE  client' = 0 /\ \E u \in Users : C!CallFails(u)
    BY DEF OnlyFailuresDrop
  <2>1. isConnected /\ ~isConnecting /\ \A c \in C!Callers : pc[c] \notin Attempting
    BY DEF IInv, C!ConnectedHasClient, C!OneConnects, Attempting
  <2>2. ASSUME NEW c \in C!Callers, C!Enter(c) PROVE FALSE
    BY <2>1, <2>2 DEF C!Enter, C!serviceVars
  <2>3. ASSUME NEW c \in C!Callers, \/ C!WaitForConnection(c) \/ C!Poll(c)
                                  \/ C!AttemptSucceeds(c) \/ C!AttemptFails(c) \/ C!Retry(c)
        PROVE  FALSE
    <3>1. ~(C!AttemptSucceeds(c) \/ C!AttemptFails(c) \/ C!Retry(c))
      BY <2>1 DEF C!AttemptSucceeds, C!AttemptFails, C!Retry, Attempting
    <3>2. ~C!WaitForConnection(c)
      BY <2>2 DEF C!WaitForConnection
    <3>3. ~C!Poll(c)
      BY <2>1 DEF C!Poll, C!serviceVars
    <3> QED BY <2>3, <3>1, <3>2, <3>3
  <2>4. ASSUME NEW g \in Guards,
               C!EnsureConnection(g) \/ C!EnsureEnds(g) \/ C!EnsureAgain(g) \/ C!EnsureTimesOut(g)
        PROVE  FALSE
    <3>1. g \in C!Callers
      BY DEF C!Callers
    <3>2. ~(C!EnsureEnds(g) \/ C!EnsureTimesOut(g))
      BY DEF C!EnsureEnds, C!EnsureTimesOut, C!serviceVars
    <3>3. ~C!EnsureConnection(g) /\ ~C!EnsureAgain(g)
      BY <2>2, <3>1 DEF C!EnsureConnection, C!EnsureAgain, C!serviceVars
    <3> QED BY <2>4, <3>2, <3>3
  <2>5. ~C!StartPage /\ ~C!PageStep
    <3>1. C!Layout \in C!Callers
      BY DEF C!Callers
    <3>2. ~C!StartPage
      BY <2>2, <3>1 DEF C!StartPage
    <3>3. ~C!PageStep
      BY DEF C!PageStep, C!PageConnected, C!PageNotConnected, C!HreaDone, C!NetworkDone, C!UserDone, C!serviceVars
    <3> QED BY <3>2, <3>3
  <2>6. ~C!Tick /\ ~C!Break /\ \A u \in Users : ~C!StartCall(u) /\ ~C!CallAnswered(u)
    BY DEF C!Tick, C!Break, C!StartCall, C!CallAnswered, C!serviceVars
  <2>7. \E u \in Users : C!CallFails(u)
    BY <2>3, <2>4, <2>5, <2>6 DEF C!Next
  <2> QED BY <2>7 DEF C!CallFails
<1> QED BY <1>1, Invariance, PTL DEF C!Spec

-----------------------------------------------------------------------------
(* The hREA store: what holds of any number of calls. *)

Arrays == {"agents", "specifications"}

Stages == {"sent", "done"}

\* On a host, a call under way is about what its kind is about, and its answer too.
Fits(r, h) ==
  /\ r = Run(r.op, r.of, r.stage, r.rest, r.answer)
  /\ r.answer \subseteq DOMAIN h
  /\ r.op \in {"none", "create", "delete", "fetch", "retro"}
  /\ r.op = "none" => r = NoRun
  /\ r.op # "none" => r.stage \in Stages
  /\ r.op = "create" => /\ r.of \in Entities /\ r.rest \subseteq Agents /\ (r.rest = {} \/ r.of \in Agents)
                        /\ r.stage = "done" => \E i \in DOMAIN h : r.answer = {i} /\ h[i].of = r.of
  /\ r.op = "delete" => /\ r.of \in ServiceTypes /\ r.rest = {}
                        /\ \E i \in DOMAIN h : r.answer = {i} /\ h[i].of = r.of
  /\ r.op = "fetch" => r.of \in Arrays /\ r.rest = {}
  /\ r.op = "retro" => r.of = "agents" /\ r.rest \subseteq Agents

RunsFit == runs = [c \in Callers |-> runs[c]] /\ \A c \in Callers : Fits(runs[c], host)

HostFits == host \in Seq([of : Entities, there : BOOLEAN])

KnownFits == known = [a \in Arrays |-> known[a]] /\ \A a \in Arrays : known[a] \subseteq Objects

MapsOwn ==
  /\ mapping = [e \in Entities |-> mapping[e]]
  /\ \A e \in Entities : mapping[e] = 0 \/ (mapping[e] \in Objects /\ host[mapping[e]].of = e)

\* The call that makes an agent.
Makes(c, e) == runs[c].op = "create" /\ runs[c].of = e

FliesAlone ==
  /\ inFlight \subseteq Agents
  /\ \A c \in Callers, e \in Agents : Makes(c, e) => e \in inFlight
  /\ \A e \in inFlight : \E c \in Callers : Makes(c, e)
  /\ \A c, d \in Callers, e \in Agents : Makes(c, e) /\ Makes(d, e) => c = d

Counts ==
  /\ status \in [Specified -> {"pending", "approved", "rejected", "deleted"}]
  /\ failed \in 0 .. MaxFailures /\ lost \in 0 .. MaxLost /\ reloads \in 0 .. MaxReloads

HreaInv == HostFits /\ KnownFits /\ MapsOwn /\ RunsFit /\ FliesAlone /\ Counts

-----------------------------------------------------------------------------
LEMMA InitHreaInv == ASSUME HreaAssumption, Init PROVE HreaInv
<1>1. host = <<>> /\ Objects = {}
  BY DEF Init, Objects
<1>2. HostFits /\ KnownFits /\ MapsOwn /\ Counts
  BY <1>1 DEF Init, HostFits, KnownFits, MapsOwn, Counts, Arrays, HreaAssumption
<1>3. RunsFit
  BY <1>1 DEF Init, RunsFit, Fits, NoRun, Run
<1>4. FliesAlone
  BY DEF Init, FliesAlone, Makes, NoRun, Run
<1> QED BY <1>2, <1>3, <1>4 DEF HreaInv

\* Nothing that is on the host gets another note.
HostKeeps ==
  /\ HostFits'
  /\ Objects \subseteq Objects'
  /\ \A i \in Objects : host'[i].of = host[i].of

LEMMA FitsOn == ASSUME HostKeeps, NEW r, Fits(r, host) PROVE Fits(r, host')
BY DEF Objects, HostKeeps, Fits, Run, NoRun

LEMMA HostIs ==
  ASSUME HostFits
  PROVE  /\ Objects = 1 .. Len(host) /\ Len(host) \in Nat
         /\ \A i \in Objects : host[i] \in [of : Entities, there : BOOLEAN]
<1>1. PICK S : S = [of : Entities, there : BOOLEAN]
  OBVIOUS
<1>2. host \in Seq(S)
  BY <1>1 DEF HostFits
<1> QED BY <1>1, <1>2, LenProperties, ElementOfSeq DEF Objects

LEMMA KnownOn == ASSUME HostKeeps, KnownFits, UNCHANGED known PROVE KnownFits'
BY DEF HostKeeps, KnownFits

LEMMA MappingOn == ASSUME HostKeeps, MapsOwn, UNCHANGED mapping PROVE MapsOwn'
BY DEF HostKeeps, MapsOwn

LEMMA SameHost == ASSUME HostFits, UNCHANGED host PROVE HostKeeps
BY DEF HostKeeps, HostFits, Objects

LEMMA AnsweredPuts ==
  ASSUME RunsFit, NEW c \in Callers, NEW x, Answered(c, x)
  PROVE  Put(c, Run(runs[c].op, runs[c].of, "done", runs[c].rest, x))
<1>1. PICK r : r = runs[c]
  OBVIOUS
<1>2. r = Run(r.op, r.of, r.stage, r.rest, r.answer)
  BY <1>1 DEF RunsFit, Fits
<1>3. [[r EXCEPT !.stage = "done"] EXCEPT !.answer = x] = Run(r.op, r.of, "done", r.rest, x)
  <2>1. PICK op, of, st, rest, answer :
          /\ op = r.op /\ of = r.of /\ st = r.stage /\ rest = r.rest /\ answer = r.answer
    OBVIOUS
  <2>2. r = [op |-> op, of |-> of, stage |-> st, rest |-> rest, answer |-> answer]
    BY <1>2, <2>1 DEF Run
  <2>3. PICK y : y = [r EXCEPT !.stage = "done"]
    OBVIOUS
  <2>4. PICK z : z = [y EXCEPT !.answer = x]
    OBVIOUS
  <2>5. y = [op |-> op, of |-> of, stage |-> "done", rest |-> rest, answer |-> answer]
    BY <2>2, <2>3
  <2>6. z = [op |-> op, of |-> of, stage |-> "done", rest |-> rest, answer |-> x]
    BY <2>4, <2>5
  <2> QED BY <2>1, <2>3, <2>4, <2>6 DEF Run
<1>4. c \in DOMAIN runs
  BY DEF RunsFit
<1>5. runs' = [runs EXCEPT ![c] = [[r EXCEPT !.stage = "done"] EXCEPT !.answer = x]]
  BY <1>1, <1>4 DEF Answered
<1> QED BY <1>1, <1>3, <1>5 DEF Put

LEMMA PutFits ==
  ASSUME HostKeeps, RunsFit, NEW c \in Callers, NEW r, Put(c, r), Fits(r, host')
  PROVE  RunsFit' /\ runs'[c] = r /\ \A d \in Callers : d # c => runs'[d] = runs[d]
<1>1. /\ runs' = [d \in Callers |-> runs'[d]] /\ runs'[c] = r
      /\ \A d \in Callers : d # c => runs'[d] = runs[d]
  BY DEF RunsFit, Put
<1>2. ASSUME NEW d \in Callers PROVE Fits(runs'[d], host')
  <2>1. CASE d = c
    BY <1>1, <2>1
  <2>2. CASE d # c
    BY <1>1, <2>2, FitsOn DEF RunsFit
  <2> QED BY <2>1, <2>2
<1> QED BY <1>1, <1>2 DEF RunsFit

\* The agent a call makes.
Making(r) == IF r.op = "create" THEN {r.of} \cap Agents ELSE {}

LEMMA PutFlies ==
  ASSUME FliesAlone, NEW c \in Callers, NEW r,
         runs'[c] = r, \A d \in Callers : d # c => runs'[d] = runs[d],
         inFlight' = (inFlight \ Making(runs[c])) \cup Making(r),
         Making(r) \cap (inFlight \ Making(runs[c])) = {}
  PROVE  FliesAlone'
<1>1. \A d \in Callers, e \in Agents : Makes(d, e) <=> e \in Making(runs[d])
  BY DEF Makes, Making
<1>2. \A d \in Callers, e \in Agents : Makes(d, e)' <=> e \in Making(runs'[d])
  BY DEF Makes, Making
<1>3. \A x, y : x \in Making(r) /\ y \in Making(r) => x = y
  BY DEF Making
<1>4. inFlight' \subseteq Agents
  BY DEF FliesAlone, Making
<1>5. ASSUME NEW d \in Callers, NEW e \in Agents, Makes(d, e)' PROVE e \in inFlight'
  <2>1. CASE d = c
    BY <1>2, <1>5, <2>1
  <2>2. CASE d # c
    BY <1>1, <1>2, <1>5, <2>2 DEF FliesAlone
  <2> QED BY <2>1, <2>2
<1>6. ASSUME NEW e \in inFlight' PROVE \E d \in Callers : Makes(d, e)'
  <2>1. CASE e \in Making(r)
    BY <1>2, <1>4, <2>1
  <2>2. CASE e \in inFlight /\ e \notin Making(runs[c])
    <3>1. PICK d \in Callers : Makes(d, e) /\ e \in Agents
      BY <2>2 DEF FliesAlone
    <3>2. d # c
      BY <1>1, <2>2, <3>1
    <3> QED BY <1>1, <1>2, <3>1, <3>2
  <2> QED BY <2>1, <2>2
<1>7. ASSUME NEW d \in Callers, NEW b \in Callers, NEW e \in Agents, Makes(d, e)', Makes(b, e)' PROVE d = b
  <2>1. CASE e \in Making(r)
    <3>1. ASSUME NEW f \in Callers, Makes(f, e)', f # c PROVE FALSE
      <4>1. e \in Making(runs[f])
        BY <1>2, <3>1
      <4>2. e \in inFlight /\ Makes(f, e)
        BY <1>1, <4>1 DEF FliesAlone
      <4>3. e \notin Making(runs[c])
        BY <1>1, <3>1, <4>2 DEF FliesAlone
      <4> QED BY <2>1, <4>2, <4>3
    <3> QED BY <1>7, <3>1
  <2>2. CASE e \notin Making(r)
    BY <1>1, <1>2, <1>7, <2>2 DEF FliesAlone
  <2> QED BY <2>1, <2>2
<1> QED BY <1>4, <1>5, <1>6, <1>7 DEF FliesAlone

\* A call is put that makes no agent, in the place of one that made none.
LEMMA PutStill ==
  ASSUME FliesAlone, UNCHANGED inFlight, NEW c \in Callers, NEW r,
         runs'[c] = r, \A d \in Callers : d # c => runs'[d] = runs[d],
         Making(r) = Making(runs[c])
  PROVE  FliesAlone'
BY PutFlies DEF FliesAlone, Making, Makes

LEMMA SameFlies == ASSUME FliesAlone, UNCHANGED <<runs, inFlight>> PROVE FliesAlone'
BY DEF FliesAlone, Makes

LEMMA SameRuns == ASSUME HostKeeps, RunsFit, UNCHANGED runs PROVE RunsFit'
BY FitsOn DEF RunsFit

LEMMA SameCounts == ASSUME Counts, UNCHANGED <<status, failed, lost, reloads>> PROVE Counts'
BY DEF Counts

LEMMA IdleFits == Fits(NoRun, host) /\ Making(NoRun) = {} /\ \A c \in Callers : Idle(c) => Making(runs[c]) = {}
BY DEF Fits, NoRun, Run, Making, Idle

\* A call that has just been sent fits.
LEMMA SentFits ==
  ASSUME NEW e, NEW rest, NEW x
  PROVE  /\ e \in Entities /\ rest \subseteq Agents /\ (rest = {} \/ e \in Agents) =>
              Fits(Run("create", e, "sent", rest, {}), host)
         /\ e \in ServiceTypes /\ (\E i \in Objects : x = {i} /\ host[i].of = e) =>
              Fits(Run("delete", e, "sent", {}, x), host)
         /\ e \in Arrays => Fits(Run("fetch", e, "sent", {}, {}), host)
         /\ rest \subseteq Agents => Fits(Run("retro", "agents", "sent", rest, {}), host)
BY DEF Fits, Run, Stages, Objects

LEMMA MakingSent ==
  ASSUME NEW e, NEW rest, NEW x, NEW st
  PROVE  /\ Making(Run("create", e, st, rest, x)) = {e} \cap Agents
         /\ Making(Run("delete", e, st, rest, x)) = {}
         /\ Making(Run("fetch", e, st, rest, x)) = {}
         /\ Making(Run("retro", e, st, rest, x)) = {}
BY DEF Making, Run

-----------------------------------------------------------------------------
(* What each step keeps of the invariant. *)

LEMMA CreateKeeps ==
  ASSUME HreaInv, NEW c \in Callers, Create(c)
  PROVE  HreaInv' /\ HostKeeps
<1>1. PICK n, e, rest : n = Len(host) + 1 /\ e = runs[c].of /\ rest = runs[c].rest
  OBVIOUS
<1>2. /\ runs[c].op = "create" /\ runs[c].stage = "sent"
      /\ e \in Entities /\ rest \subseteq Agents /\ (rest = {} \/ e \in Agents)
      /\ host' = Append(host, [of |-> e, there |-> TRUE]) /\ Answered(c, {n})
      /\ UNCHANGED <<known, mapping, inFlight, status, failed, lost, reloads>>
  BY <1>1 DEF Create, At, Made, Elsewhere, HreaInv, RunsFit, Fits
<1>3. /\ HostFits' /\ n \in DOMAIN host' /\ host'[n].of = e
      /\ Objects \subseteq Objects' /\ \A i \in Objects : host'[i].of = host[i].of
  <2>1. PICK x : x = [of |-> e, there |-> TRUE]
    OBVIOUS
  <2>2. x \in [of : Entities, there : BOOLEAN] /\ x.of = e /\ host' = Append(host, x)
    BY <1>2, <2>1
  <2> QED BY <1>1, <2>2 DEF HreaInv, HostFits, Objects
<1>4. HostKeeps
  BY <1>3 DEF HostKeeps
<1>5. PICK r : r = Run("create", e, "done", rest, {n})
  OBVIOUS
<1>6. Put(c, r)
  BY <1>1, <1>2, <1>5, AnsweredPuts DEF HreaInv
<1>7. Fits(r, host')
  BY <1>2, <1>3, <1>5 DEF Fits, Run, Stages
<1>8. RunsFit' /\ runs'[c] = r /\ \A d \in Callers : d # c => runs'[d] = runs[d]
  BY <1>4, <1>6, <1>7, PutFits DEF HreaInv
<1>9. Making(r) = Making(runs[c])
  BY <1>1, <1>2, <1>5 DEF Making, Run
<1>10. FliesAlone'
  BY <1>2, <1>8, <1>9, PutStill DEF HreaInv
<1> QED BY <1>2, <1>3, <1>4, <1>8, <1>10, KnownOn, MappingOn, SameCounts DEF HreaInv

LEMMA DeleteKeeps ==
  ASSUME HreaInv, NEW c \in Callers, Delete(c)
  PROVE  HreaInv' /\ HostKeeps
<1>1. PICK i \in runs[c].answer : There(i) /\ host' = [host EXCEPT ![i].there = FALSE]
  BY DEF Delete, Unmade
<1>2. /\ runs[c].op = "delete" /\ runs[c].stage = "sent" /\ i \in Objects /\ Answered(c, runs[c].answer)
      /\ UNCHANGED <<known, mapping, inFlight, status, failed, lost, reloads>>
  BY <1>1 DEF Delete, At, Elsewhere, HreaInv, RunsFit, Fits, Objects
<1>3. HostKeeps
  <2>1. PICK x : x = [host[i] EXCEPT !.there = FALSE]
    OBVIOUS
  <2>2. host[i] \in [of : Entities, there : BOOLEAN] /\ i \in 1 .. Len(host)
    BY <1>2, HostIs DEF HreaInv
  <2>3. x \in [of : Entities, there : BOOLEAN] /\ x.of = host[i].of
    BY <2>1, <2>2
  <2>4. host' = [host EXCEPT ![i] = x]
    BY <1>1, <2>1
  <2> QED BY <2>2, <2>3, <2>4 DEF HreaInv, HostFits, Objects, HostKeeps
<1>4. PICK r : r = Run(runs[c].op, runs[c].of, "done", runs[c].rest, runs[c].answer)
  OBVIOUS
<1>5. Put(c, r)
  BY <1>2, <1>4, AnsweredPuts DEF HreaInv
<1>6. Fits(r, host) /\ Making(r) = Making(runs[c])
  BY <1>2, <1>4 DEF HreaInv, RunsFit, Fits, Run, Making, Stages
<1>7. RunsFit' /\ runs'[c] = r /\ \A d \in Callers : d # c => runs'[d] = runs[d]
  BY <1>3, <1>5, <1>6, FitsOn, PutFits DEF HreaInv
<1>8. FliesAlone'
  BY <1>2, <1>6, <1>7, PutStill DEF HreaInv
<1> QED BY <1>2, <1>3, <1>7, <1>8, KnownOn, MappingOn, SameCounts DEF HreaInv, HostKeeps

\* Steps that leave the host and put a call that makes what the one before made.
LEMMA StillKeeps ==
  ASSUME HreaInv, NEW c \in Callers, NEW r, Put(c, r), Fits(r, host),
         inFlight' = (inFlight \ Making(runs[c])) \cup Making(r),
         Making(r) \cap (inFlight \ Making(runs[c])) = {},
         UNCHANGED host, KnownFits', MapsOwn', Counts'
  PROVE  HreaInv' /\ HostKeeps
<1>1. HostKeeps /\ HostFits'
  BY SameHost DEF HreaInv, HostKeeps
<1>2. Fits(r, host')
  BY <1>1, FitsOn
<1>3. RunsFit' /\ runs'[c] = r /\ \A d \in Callers : d # c => runs'[d] = runs[d]
  BY <1>1, <1>2, PutFits DEF HreaInv
<1>4. FliesAlone'
  BY <1>3, PutFlies DEF HreaInv
<1> QED BY <1>1, <1>3, <1>4 DEF HreaInv

\* Steps that leave the host and the calls.
LEMMA QuietKeeps ==
  ASSUME HreaInv, UNCHANGED <<host, runs, inFlight>>, KnownFits', MapsOwn', Counts'
  PROVE  HreaInv' /\ HostKeeps
<1>1. HostKeeps /\ HostFits'
  BY SameHost DEF HreaInv, HostKeeps
<1> QED BY <1>1, SameRuns, SameFlies DEF HreaInv

LEMMA MapToKeeps ==
  ASSUME HreaInv, UNCHANGED host, NEW e \in Entities, NEW found, MapTo(e, found),
         \A i \in found : i \in Objects /\ host[i].of = e
  PROVE  MapsOwn'
BY DEF HreaInv, MapTo, MapsOwn, Objects

LEMMA FetchKeeps ==
  ASSUME HreaInv, NEW c \in Callers, At(c, "fetch", "sent") \/ At(c, "retro", "sent"),
         NEW x, x \subseteq Objects, Answered(c, x),
         UNCHANGED <<host, known, mapping, inFlight>>, Elsewhere
  PROVE  HreaInv' /\ HostKeeps
<1>1. PICK r : r = Run(runs[c].op, runs[c].of, "done", runs[c].rest, x)
  OBVIOUS
<1>2. Put(c, r)
  BY <1>1, AnsweredPuts DEF HreaInv
<1>3. Fits(r, host) /\ Making(r) = {} /\ Making(runs[c]) = {}
  BY <1>1 DEF HreaInv, RunsFit, Fits, Run, Making, Stages, At, Objects
<1>4. KnownFits' /\ MapsOwn' /\ Counts'
  BY SameHost, KnownOn, MappingOn, SameCounts DEF HreaInv, Elsewhere
<1> QED BY <1>2, <1>3, <1>4, StillKeeps

\* The run is over, or makes an agent that nobody else makes and that it did not find.
GoesOn(c, rest, flying, m) ==
  \E r : /\ Put(c, r) /\ Fits(r, host)
         /\ inFlight' = flying \cup Making(r) /\ Making(r) \cap flying = {}
         /\ \/ r = NoRun
            \/ \E e \in rest : \E left :
                 r = Run("create", e, "sent", left, {}) /\ FindAgent(e) = {} /\ e \notin flying /\ m[e] = 0

LEMMA GoOnGoes ==
  ASSUME HreaInv, UNCHANGED host, NEW c \in Callers, NEW rest, rest \subseteq Agents, NEW flying, NEW m,
         \A e \in Entities : m[e] = 0 \/ (m[e] \in Objects /\ host[m[e]].of = e),
         GoOn(c, rest, flying, m)
  PROVE  MapsOwn' /\ GoesOn(c, rest, flying, m)
<1>1. PICK unserved, missing :
        /\ unserved = {e \in rest \ flying : m[e] = 0}
        /\ missing = {e \in unserved : FindAgent(e) = {}}
  OBVIOUS
<1>2. PICK passed \in SUBSET (rest \ missing) :
        /\ \E p \in Matches(passed \cap unserved, known["agents"]) : mapping' = Mapped(m, p)
        /\ \/ missing = {} /\ passed = rest /\ Put(c, NoRun) /\ inFlight' = flying
           \/ \E e \in missing :
                /\ Sent(c, "create", e, rest \ (passed \cup {e}))
                /\ inFlight' = flying \cup {e}
  BY <1>1 DEF GoOn, Unserved
<1>3. MapsOwn'
  <2>1. PICK p \in Matches(passed \cap unserved, known["agents"]) : mapping' = Mapped(m, p)
    BY <1>2
  <2>2. /\ DOMAIN p = passed \cap unserved
        /\ \A e \in DOMAIN p : p[e] \in Objects /\ host[p[e]].of = e
    BY <2>1 DEF Matches, HreaInv, KnownFits, Arrays
  <2> QED BY <2>1, <2>2 DEF Mapped, MapsOwn, Objects
<1>4. CASE Put(c, NoRun) /\ inFlight' = flying
  BY <1>3, <1>4, IdleFits DEF GoesOn
<1>5. ASSUME NEW e \in missing, Sent(c, "create", e, rest \ (passed \cup {e})), inFlight' = flying \cup {e}
      PROVE  GoesOn(c, rest, flying, m)
  <2>1. PICK left, r : left = rest \ (passed \cup {e}) /\ r = Run("create", e, "sent", left, {})
    OBVIOUS
  <2>2. /\ e \in rest /\ e \in Agents /\ e \in Entities /\ e \notin flying
        /\ FindAgent(e) = {} /\ m[e] = 0 /\ left \subseteq Agents
    BY <1>1, <2>1 DEF Entities
  <2>3. Put(c, r)
    BY <1>5, <2>1 DEF Sent
  <2>4. Fits(r, host)
    BY <2>1, <2>2, SentFits
  <2>5. Making(r) = {e}
    BY <2>1, <2>2, MakingSent
  <2>6. inFlight' = flying \cup Making(r) /\ Making(r) \cap flying = {}
    BY <1>5, <2>2, <2>5
  <2> QED BY <2>1, <2>2, <2>3, <2>4, <2>6 DEF GoesOn
<1> QED BY <1>2, <1>3, <1>4, <1>5

LEMMA CreatedGoes ==
  ASSUME HreaAssumption, HreaInv, NEW c \in Callers, Created(c)
  PROVE  /\ At(c, "create", "done") /\ UNCHANGED <<host, status, fetched, failed, lost, reloads>>
         /\ known' = [known EXCEPT ![ArrayOf(runs[c].of)] = @ \cup runs[c].answer]
         /\ MapsOwn'
         /\ \E m : m[runs[c].of] # 0 /\ GoesOn(c, runs[c].rest, inFlight \ {runs[c].of}, m)
<1>1. PICK e : e = runs[c].of
  OBVIOUS
<1>2. PICK i \in runs[c].answer :
        /\ At(c, "create", "done")
        /\ known' = [known EXCEPT ![ArrayOf(e)] = @ \cup runs[c].answer]
        /\ GoOn(c, runs[c].rest, inFlight \ {e}, [mapping EXCEPT ![e] = i])
        /\ UNCHANGED <<host, status, fetched, failed, lost, reloads>>
  BY <1>1 DEF Created, Elsewhere
<1>3. runs[c].rest \subseteq Agents /\ i \in Objects /\ host[i].of = e /\ e \in Entities
  BY <1>1, <1>2 DEF HreaInv, RunsFit, Fits, At, Objects
<1>4. PICK m, rest, flying : m = [mapping EXCEPT ![e] = i] /\ rest = runs[c].rest /\ flying = inFlight \ {e}
  OBVIOUS
<1>5. \A f \in Entities : m[f] = 0 \/ (m[f] \in Objects /\ host[m[f]].of = f)
  BY <1>3, <1>4 DEF HreaInv, MapsOwn
<1>6. m[e] # 0
  <2>1. m[e] = i /\ i # 0
    BY <1>3, <1>4, HostIs DEF HreaInv, MapsOwn
  <2> QED BY <2>1
<1>7. GoOn(c, rest, flying, m) /\ rest \subseteq Agents /\ UNCHANGED host
  BY <1>2, <1>3, <1>4
<1>8. MapsOwn' /\ GoesOn(c, rest, flying, m)
  BY <1>5, <1>7, GoOnGoes
<1> QED BY <1>1, <1>2, <1>4, <1>6, <1>8

LEMMA CreatedKeeps ==
  ASSUME HreaAssumption, HreaInv, NEW c \in Callers, Created(c)
  PROVE  HreaInv' /\ HostKeeps
<1>1. PICK e, rest, flying : e = runs[c].of /\ rest = runs[c].rest /\ flying = inFlight \ {e}
  OBVIOUS
<1>2. /\ At(c, "create", "done") /\ UNCHANGED <<host, status, failed, lost, reloads>>
      /\ known' = [known EXCEPT ![ArrayOf(e)] = @ \cup runs[c].answer]
      /\ MapsOwn'
  BY <1>1, CreatedGoes
<1>3. PICK m : GoesOn(c, rest, flying, m)
  BY <1>1, CreatedGoes
<1>4. runs[c].answer \subseteq Objects /\ e \in Entities
  BY <1>1, <1>2 DEF HreaInv, RunsFit, Fits, At, Objects
<1>5. flying = inFlight \ Making(runs[c])
  BY <1>1, <1>2, <1>4 DEF Making, At, HreaInv, FliesAlone, HreaAssumption, Agents, Specified, Entities
<1>6. KnownFits'
  BY <1>2, <1>4 DEF HreaInv, KnownFits, Arrays, ArrayOf, Objects
<1> QED BY <1>2, <1>3, <1>5, <1>6, SameCounts, StillKeeps DEF HreaInv, GoesOn

LEMMA DeletedKeeps ==
  ASSUME HreaInv, NEW c \in Callers, Deleted(c)
  PROVE  HreaInv' /\ HostKeeps
<1>1. /\ At(c, "delete", "done")
      /\ mapping' = [mapping EXCEPT ![runs[c].of] = 0]
      /\ known' = [known EXCEPT !["specifications"] = @ \ runs[c].answer]
      /\ Put(c, NoRun)
      /\ UNCHANGED <<host, inFlight, status, failed, lost, reloads>>
  BY DEF Deleted, Elsewhere
<1>2. Making(runs[c]) = {} /\ Making(NoRun) = {} /\ Fits(NoRun, host)
  BY <1>1, IdleFits DEF Making, At
<1>3. KnownFits'
  BY <1>1 DEF HreaInv, KnownFits, Arrays, Objects
<1>4. MapsOwn'
  BY <1>1 DEF HreaInv, MapsOwn, Objects
<1> QED BY <1>1, <1>2, <1>3, <1>4, SameCounts, StillKeeps DEF HreaInv

LEMMA FailsKeeps ==
  ASSUME HreaAssumption, HreaInv, NEW c \in Callers, Fails(c)
  PROVE  HreaInv' /\ HostKeeps
<1>1. /\ Put(c, NoRun)
      /\ inFlight' = IF runs[c].op = "create" THEN inFlight \ {runs[c].of} ELSE inFlight
      /\ UNCHANGED <<host, known, mapping, status, reloads>>
  BY DEF Fails
<1>2. Making(NoRun) = {} /\ Fits(NoRun, host)
  BY IdleFits
<1>3. inFlight' = inFlight \ Making(runs[c])
  BY <1>1 DEF Making, HreaInv, FliesAlone
<1>4. Counts'
  BY DEF Fails, HreaInv, Counts, HreaAssumption
<1>5. KnownFits' /\ MapsOwn'
  BY <1>1, SameHost, KnownOn, MappingOn DEF HreaInv
<1> QED BY <1>1, <1>2, <1>3, <1>4, <1>5, StillKeeps

LEMMA SentKeeps ==
  ASSUME HreaInv, NEW c \in Callers, Idle(c), NEW op, NEW e, NEW rest, Sent(c, op, e, rest),
         Fits(Run(op, e, "sent", rest, {}), host), op # "create",
         UNCHANGED <<host, known, mapping, inFlight, status, failed, lost, reloads>>
  PROVE  HreaInv' /\ HostKeeps
<1>1. PICK r : r = Run(op, e, "sent", rest, {})
  OBVIOUS
<1>2. Put(c, r) /\ Fits(r, host) /\ Making(r) = {} /\ Making(runs[c]) = {}
  BY <1>1, IdleFits DEF Sent, Making, Run
<1>3. KnownFits' /\ MapsOwn' /\ Counts'
  BY SameHost, KnownOn, MappingOn, SameCounts DEF HreaInv
<1> QED BY <1>2, <1>3, StillKeeps

LEMMA GetAllKeeps ==
  ASSUME HreaInv, NEW c \in Callers, NEW a \in Arrays, GetAll(c, a)
  PROVE  HreaInv' /\ HostKeeps
<1>1. CASE Idle(c) /\ Sent(c, "fetch", a, {}) /\ UNCHANGED <<host, known, mapping, inFlight>> /\ Elsewhere
  BY <1>1, SentFits, SentKeeps DEF Elsewhere
<1>2. CASE /\ At(c, "fetch", "done") /\ runs[c].of = a
           /\ known' = [known EXCEPT ![a] = runs[c].answer]
           /\ Put(c, NoRun)
           /\ UNCHANGED <<host, mapping, inFlight, status, cutShort, failed, lost, reloads>>
  <2>1. Making(runs[c]) = {} /\ Making(NoRun) = {} /\ Fits(NoRun, host)
    BY <1>2, IdleFits DEF Making, At
  <2>2. KnownFits'
    BY <1>2 DEF HreaInv, KnownFits, RunsFit, Fits, Objects
  <2>3. MapsOwn' /\ Counts'
    BY <1>2, SameHost, MappingOn, SameCounts DEF HreaInv
  <2> QED BY <1>2, <2>1, <2>2, <2>3, StillKeeps
<1> QED BY <1>1, <1>2 DEF GetAll

LEMMA RetroGoes ==
  ASSUME HreaInv, NEW c \in Callers, CreateRetroactiveMappings(c), At(c, "retro", "done")
  PROVE  MapsOwn' /\ \E rest, m : rest \subseteq Agents /\ GoesOn(c, rest, inFlight, m)
<1>0. ~At(c, "retro", "sent") /\ ~Asks(c, "agents")
  BY DEF At, Asks, Idle, NoRun, Run
<1>1. PICK found, x : /\ found = {e \in runs[c].rest : \E i \in runs[c].answer : host[i].of = e}
                      /\ x = runs[c].answer
  OBVIOUS
<1>2. PICK p \in Matches(found, x) : GoOn(c, runs[c].rest \ found, inFlight, Mapped(mapping, p)) /\ UNCHANGED host
  <2>1. /\ LET taken == {e \in runs[c].rest : \E i \in runs[c].answer : host[i].of = e}
           IN  \E p \in Matches(taken, runs[c].answer) :
                 GoOn(c, runs[c].rest \ taken, inFlight, Mapped(mapping, p))
        /\ UNCHANGED host
    BY <1>0 DEF CreateRetroactiveMappings
  <2> QED BY <1>1, <2>1
<1>3. PICK m, rest : m = Mapped(mapping, p) /\ rest = runs[c].rest \ found
  OBVIOUS
<1>4. GoOn(c, rest, inFlight, m)
  BY <1>2, <1>3
<1>5. rest \subseteq Agents /\ x \subseteq Objects
  BY <1>1, <1>3 DEF At, HreaInv, RunsFit, Fits, Objects
<1>6. \A e \in Entities : m[e] = 0 \/ (m[e] \in Objects /\ host[m[e]].of = e)
  <2>1. \A e \in DOMAIN p : p[e] \in Objects /\ host[p[e]].of = e
    BY <1>2, <1>5 DEF Matches
  <2> QED BY <1>3, <2>1 DEF Mapped, HreaInv, MapsOwn
<1> QED BY <1>2, <1>4, <1>5, <1>6, GoOnGoes

LEMMA RetroKeeps ==
  ASSUME HreaInv, NEW c \in Callers, CreateRetroactiveMappings(c)
  PROVE  HreaInv' /\ HostKeeps
<1>1. CASE /\ Asks(c, "agents")
           /\ \E S \in {Users, Organizations} :
                Unmapped(S) # {} /\ Sent(c, "retro", "agents", Unmapped(S))
           /\ UNCHANGED <<host, known, mapping, inFlight>> /\ Elsewhere
  <2>1. PICK S \in {Users, Organizations} : Sent(c, "retro", "agents", Unmapped(S))
    BY <1>1
  <2>2. PICK rest : rest = Unmapped(S)
    OBVIOUS
  <2>3. rest \subseteq Agents /\ Sent(c, "retro", "agents", rest)
    BY <2>1, <2>2 DEF Unmapped, Agents
  <2> QED BY <1>1, <2>3, SentFits, SentKeeps DEF Elsewhere, Asks
<1>2. CASE /\ At(c, "retro", "sent")
           /\ Answered(c, Listing("agents"))
           /\ UNCHANGED <<host, known, mapping, inFlight>> /\ Elsewhere
  <2>1. PICK x : x = Listing("agents")
    OBVIOUS
  <2>2. x \subseteq Objects
    BY <2>1 DEF Listing
  <2> QED BY <1>2, <2>1, <2>2, FetchKeeps
<1>3. CASE At(c, "retro", "done") /\ UNCHANGED <<host, known>> /\ Elsewhere
  <2>1. MapsOwn'
    BY <1>3, RetroGoes
  <2>2. PICK rest, m : GoesOn(c, rest, inFlight, m)
    BY <1>3, RetroGoes
  <2>3. Making(runs[c]) = {}
    BY <1>3 DEF At, Making
  <2>4. KnownFits' /\ Counts'
    BY <1>3, SameHost, KnownOn, SameCounts DEF HreaInv, Elsewhere
  <2> QED BY <1>3, <2>1, <2>2, <2>3, <2>4, StillKeeps DEF GoesOn
<1> QED BY <1>1, <1>2, <1>3 DEF CreateRetroactiveMappings

LEMMA FoundIsOwn ==
  ASSUME HreaInv, NEW e
  PROVE  /\ \A i \in FindAgent(e) : i \in Objects /\ host[i].of = e
         /\ \A i \in FindSpecification(e) : i \in Objects /\ host[i].of = e
BY DEF FindAgent, FindSpecification, Found, HreaInv, KnownFits, Arrays

LEMMA AgentOfKeeps ==
  ASSUME HreaInv, NEW c \in Callers, NEW e \in Agents, Idle(c), AgentOf(c, e),
         UNCHANGED <<host, known>>, Elsewhere
  PROVE  HreaInv' /\ HostKeeps
<1>0. KnownFits' /\ Counts' /\ e \in Entities
  BY SameHost, KnownOn, SameCounts DEF HreaInv, Elsewhere, Entities
<1>1. CASE UNCHANGED <<runs, mapping, inFlight>>
  BY <1>0, <1>1, SameHost, MappingOn, QuietKeeps DEF HreaInv
<1>2. CASE MapTo(e, FindAgent(e)) /\ UNCHANGED <<runs, inFlight>>
  <2>1. PICK found : found = FindAgent(e)
    OBVIOUS
  <2>2. MapsOwn'
    BY <1>0, <1>2, <2>1, FoundIsOwn, MapToKeeps
  <2> QED BY <1>0, <1>2, <2>2, QuietKeeps
<1>3. CASE /\ e \notin inFlight
           /\ Sent(c, "create", e, {})
           /\ inFlight' = inFlight \cup {e}
           /\ UNCHANGED mapping
  <2>1. PICK r : r = Run("create", e, "sent", {}, {})
    OBVIOUS
  <2>2. Put(c, r) /\ Fits(r, host) /\ Making(r) = {e} /\ Making(runs[c]) = {}
    BY <1>0, <1>3, <2>1, SentFits, MakingSent, IdleFits DEF Sent
  <2>3. MapsOwn'
    BY <1>3, SameHost, MappingOn DEF HreaInv
  <2> QED BY <1>0, <1>3, <2>2, <2>3, StillKeeps
<1> QED BY <1>1, <1>2, <1>3 DEF AgentOf

LEMMA SpecificationOfKeeps ==
  ASSUME HreaAssumption, HreaInv, NEW c \in Callers, NEW e \in Specified, Idle(c), SpecificationOf(c, e),
         UNCHANGED <<host, known>>, Counts'
  PROVE  HreaInv' /\ HostKeeps
<1>0. KnownFits' /\ e \in Entities /\ e \notin Agents
  BY SameHost, KnownOn DEF HreaInv, Entities, HreaAssumption, Agents, Specified
<1>1. CASE MapTo(e, FindSpecification(e)) /\ UNCHANGED <<runs, inFlight>>
  <2>1. PICK found : found = FindSpecification(e)
    OBVIOUS
  <2>2. MapsOwn'
    BY <1>0, <1>1, <2>1, FoundIsOwn, MapToKeeps
  <2> QED BY <1>0, <1>1, <2>2, QuietKeeps
<1>2. CASE Sent(c, "create", e, {}) /\ UNCHANGED <<mapping, inFlight>>
  <2>1. PICK r : r = Run("create", e, "sent", {}, {})
    OBVIOUS
  <2>2. Put(c, r) /\ Fits(r, host) /\ Making(r) = {} /\ Making(runs[c]) = {}
    BY <1>0, <1>2, <2>1, SentFits, MakingSent, IdleFits DEF Sent
  <2>3. MapsOwn'
    BY <1>2, SameHost, MappingOn DEF HreaInv
  <2> QED BY <1>0, <1>2, <2>2, <2>3, StillKeeps
<1> QED BY <1>1, <1>2 DEF SpecificationOf

LEMMA DeleteSpecificationKeeps ==
  ASSUME HreaInv, NEW c \in Callers, NEW e \in Specified, Idle(c), DeleteSpecification(c, e),
         UNCHANGED <<host, known, mapping, inFlight>>, Counts'
  PROVE  HreaInv' /\ HostKeeps
<1>0. KnownFits' /\ MapsOwn'
  BY SameHost, KnownOn, MappingOn DEF HreaInv
<1>1. CASE UNCHANGED runs
  BY <1>0, <1>1, QuietKeeps
<1>2. ASSUME NEW i \in FindSpecification(e), Put(c, Run("delete", e, "sent", {}, {i}))
      PROVE  HreaInv' /\ HostKeeps
  <2>1. PICK r, x : x = {i} /\ r = Run("delete", e, "sent", {}, x)
    OBVIOUS
  <2>2. e \in ServiceTypes
    BY DEF Specified, FindSpecification
  <2>3. \E j \in Objects : x = {j} /\ host[j].of = e
    BY <2>1, FoundIsOwn
  <2>4. Fits(r, host)
    BY <2>1, <2>2, <2>3, SentFits
  <2>5. Put(c, r) /\ Making(r) = {} /\ Making(runs[c]) = {}
    BY <1>2, <2>1, MakingSent, IdleFits
  <2> QED BY <1>0, <2>4, <2>5, StillKeeps
<1> QED BY <1>1, <1>2 DEF DeleteSpecification

LEMMA BecomesCounts ==
  ASSUME HreaInv, NEW e \in Specified, NEW s \in {"pending", "approved", "rejected", "deleted"}, Becomes(e, s),
         UNCHANGED <<failed, lost, reloads>>
  PROVE  Counts'
BY DEF HreaInv, Counts, Becomes

LEMMA ApprovedKeeps ==
  ASSUME HreaAssumption, HreaInv, NEW c \in Callers, NEW e \in Specified, Approved(c, e)
  PROVE  HreaInv' /\ HostKeeps
<1>1. /\ Idle(c) /\ SpecificationOf(c, e) /\ Becomes(e, "approved")
      /\ UNCHANGED <<host, known, failed, lost, reloads>>
  BY DEF Approved, Asks, SpecificationOnly
<1> QED BY <1>1, BecomesCounts, SpecificationOfKeeps

LEMMA WithdrawnKeeps ==
  ASSUME HreaInv, NEW c \in Callers, NEW e \in Specified, NEW s \in {"rejected", "deleted"}, Withdrawn(c, e, s)
  PROVE  HreaInv' /\ HostKeeps
<1>1. /\ Idle(c) /\ DeleteSpecification(c, e) /\ Becomes(e, s)
      /\ UNCHANGED <<host, known, mapping, inFlight, failed, lost, reloads>>
  BY DEF Withdrawn, Asks, SpecificationOnly
<1> QED BY <1>1, BecomesCounts, DeleteSpecificationKeeps

LEMMA SyncKeeps ==
  ASSUME HreaAssumption, HreaInv, NEW c \in Callers, NEW e \in Specified,
         SyncServiceType(c, e) \/ SyncMedium(c, e)
  PROVE  HreaInv' /\ HostKeeps
<1>1. /\ Idle(c) /\ SpecificationOf(c, e)
      /\ UNCHANGED <<host, known, status, failed, lost, reloads>>
  BY DEF SyncServiceType, SyncMedium, Asks, SpecificationOnly
<1> QED BY <1>1, SameCounts, SpecificationOfKeeps DEF HreaInv

LEMMA ServiceTypeCreatedKeeps ==
  ASSUME HreaAssumption, HreaInv, NEW c \in Callers, NEW d \in Callers, NEW t, ServiceTypeCreated(c, d, t)
  PROVE  HreaInv' /\ HostKeeps
<1>1. /\ t \in ServiceTypes /\ Idle(c) /\ Idle(d) /\ Becomes(t, "approved")
      /\ UNCHANGED <<host, known, inFlight, failed, lost, reloads>>
      /\ \/ MapTo(t, FindSpecification(t)) /\ UNCHANGED runs
         \/ /\ runs' = [r \in Callers |->
                          IF r \in {c, d} THEN Run("create", t, "sent", {}, {}) ELSE runs[r]]
            /\ UNCHANGED mapping
  BY DEF ServiceTypeCreated, Asks, SpecificationOnly
<1>2. t \in Specified /\ t \in Entities /\ t \notin Agents
  BY <1>1 DEF Specified, Entities, HreaAssumption, Agents
<1>3. KnownFits' /\ Counts' /\ HostKeeps /\ HostFits'
  BY <1>1, <1>2, SameHost, KnownOn, BecomesCounts DEF HreaInv, HostKeeps
<1>4. CASE MapTo(t, FindSpecification(t)) /\ UNCHANGED runs
  <2>1. PICK found : found = FindSpecification(t)
    OBVIOUS
  <2>2. MapsOwn'
    BY <1>1, <1>2, <1>4, <2>1, FoundIsOwn, MapToKeeps
  <2> QED BY <1>1, <1>3, <1>4, <2>2, QuietKeeps
<1>5. CASE /\ runs' = [r \in Callers |->
                         IF r \in {c, d} THEN Run("create", t, "sent", {}, {}) ELSE runs[r]]
           /\ UNCHANGED mapping
  <2>1. PICK new : new = Run("create", t, "sent", {}, {})
    OBVIOUS
  <2>2. Fits(new, host) /\ Fits(new, host')
    BY <1>2, <1>3, <2>1, SentFits, FitsOn
  <2>3. /\ runs' = [r \in Callers |-> runs'[r]]
        /\ \A r \in Callers : runs'[r] = new \/ runs'[r] = runs[r]
        /\ \A r \in Callers : r \notin {c, d} => runs'[r] = runs[r]
        /\ runs'[c] = new /\ runs'[d] = new
    BY <1>5, <2>1
  <2>4. RunsFit'
    <3>1. ASSUME NEW r \in Callers PROVE Fits(runs'[r], host')
      <4>1. CASE runs'[r] = new
        BY <2>2, <4>1
      <4>2. CASE runs'[r] = runs[r]
        BY <1>3, <4>2, FitsOn DEF HreaInv, RunsFit
      <4> QED BY <2>3, <4>1, <4>2
    <3> QED BY <2>3, <3>1 DEF RunsFit
  <2>5. \A r \in Callers, e \in Agents : Makes(r, e)' <=> Makes(r, e)
    <3>1. new.op = "create" /\ new.of = t /\ runs[c].op = "none" /\ runs[d].op = "none"
      BY <1>1, <2>1 DEF Run, Idle, NoRun
    <3> QED BY <1>2, <2>3, <3>1 DEF Makes
  <2>6. FliesAlone'
    BY <1>1, <2>5 DEF HreaInv, FliesAlone
  <2> QED BY <1>3, <1>5, <2>4, <2>6, MappingOn DEF HreaInv
<1> QED BY <1>1, <1>4, <1>5

LEMMA ReloadKeeps ==
  ASSUME HreaAssumption, HreaInv, Reload
  PROVE  HreaInv' /\ HostKeeps
<1>1. HostKeeps /\ HostFits'
  BY SameHost DEF Reload, HreaInv, HostKeeps
<1>2. KnownFits' /\ MapsOwn'
  BY DEF Reload, HreaInv, KnownFits, MapsOwn, Arrays, Objects
<1>3. Counts'
  BY DEF Reload, HreaInv, Counts, HreaAssumption
<1>4. FliesAlone'
  BY DEF Reload, FliesAlone, Makes, NoRun, Run
<1>5. RunsFit'
  <2>1. Fits(NoRun, host')
    BY <1>1, IdleFits, FitsOn
  <2> QED BY <2>1 DEF Reload, RunsFit
<1> QED BY <1>1, <1>2, <1>3, <1>4, <1>5 DEF HreaInv

\* What may happen, by what it does to the objects and the calls.
StepOf(c) ==
  \/ Create(c) \/ Delete(c) \/ Created(c) \/ Deleted(c) \/ Fails(c)
  \/ \E a \in Arrays : Fetch(c) \/ GetAll(c, a)
  \/ CreateRetroactiveMappings(c)
  \/ \E e \in Agents : /\ Asks(c, "agents") /\ FindAgent(e) = {} /\ AgentOf(c, e)
                       /\ UNCHANGED <<host, known>> /\ Elsewhere
  \/ \E t \in ServiceTypes : \/ status[t] = "pending" /\ Approved(c, t)
                             \/ status[t] = "pending" /\ Withdrawn(c, t, "rejected")
                             \/ status[t] # "deleted" /\ Withdrawn(c, t, "deleted")
                             \/ SyncServiceType(c, t)
                             \/ \E d \in Callers : ServiceTypeCreated(c, d, t)
  \/ \E m \in Mediums : \/ Approved(c, m)
                        \/ \E s \in {"rejected", "deleted"} : Withdrawn(c, m, s)
                        \/ SyncMedium(c, m)

LEMMA StepsOf == ASSUME Next PROVE Reload \/ \E c \in Callers : StepOf(c)
BY DEF Next, Serve, StepOf, Arrays, GetAllAgents, GetAllResourceSpecifications,
       SyncUserToAgent, SyncOrganizationToAgent, CreatePersonFromUser, CreateOrganizationFromOrg, Agents,
       ServiceTypeApproved, ServiceTypeRejected, ServiceTypeDeleted,
       MediumApproved, MediumRejected, MediumDeleted

LEMMA FetchIsAnswered ==
  ASSUME HreaInv, NEW c \in Callers, Fetch(c)
  PROVE  HreaInv' /\ HostKeeps
<1>1. PICK x : x = Listing(runs[c].of)
  OBVIOUS
<1>2. x \subseteq Objects /\ Answered(c, x) /\ At(c, "fetch", "sent")
  BY <1>1 DEF Fetch, Listing
<1>3. UNCHANGED <<host, known, mapping, inFlight>> /\ Elsewhere
  BY DEF Fetch
<1> QED BY <1>2, <1>3, FetchKeeps

LEMMA NextHreaInv ==
  ASSUME HreaAssumption, HreaInv, [Next]_hreaVars
  PROVE  HreaInv' /\ HostKeeps
<1>1. CASE Reload
  BY <1>1, ReloadKeeps
<1>2. ASSUME NEW c \in Callers, StepOf(c) PROVE HreaInv' /\ HostKeeps
  <2>1. ASSUME NEW e \in Agents, Asks(c, "agents"), AgentOf(c, e), UNCHANGED <<host, known>>, Elsewhere
        PROVE  HreaInv' /\ HostKeeps
    BY <2>1, AgentOfKeeps DEF Asks
  <2>2. ASSUME NEW t \in ServiceTypes,
               \/ Approved(c, t) \/ Withdrawn(c, t, "rejected") \/ Withdrawn(c, t, "deleted")
               \/ SyncServiceType(c, t) \/ \E d \in Callers : ServiceTypeCreated(c, d, t)
        PROVE  HreaInv' /\ HostKeeps
    BY <2>2, ApprovedKeeps, WithdrawnKeeps, SyncKeeps, ServiceTypeCreatedKeeps DEF Specified
  <2>3. ASSUME NEW m \in Mediums,
               \/ Approved(c, m) \/ (\E s \in {"rejected", "deleted"} : Withdrawn(c, m, s)) \/ SyncMedium(c, m)
        PROVE  HreaInv' /\ HostKeeps
    BY <2>3, ApprovedKeeps, WithdrawnKeeps, SyncKeeps DEF Specified
  <2> QED BY <1>2, <2>1, <2>2, <2>3, CreateKeeps, DeleteKeeps, CreatedKeeps, DeletedKeeps, FailsKeeps,
             GetAllKeeps, FetchIsAnswered, RetroKeeps DEF StepOf
<1>3. CASE UNCHANGED hreaVars
  BY <1>3, QuietKeeps DEF hreaVars, HreaInv, KnownFits, MapsOwn, Counts, Objects
<1> QED BY <1>1, <1>2, <1>3, StepsOf

LEMMA HreaInvHolds == HreaAssumption /\ Spec => []HreaInv
<1> SUFFICES ASSUME HreaAssumption PROVE Spec => []HreaInv
  OBVIOUS
<1>1. HreaInv /\ [Next]_hreaVars => HreaInv'
  BY NextHreaInv
<1> QED BY <1>1, InitHreaInv, PTL DEF Spec

\* Type invariant.
THEOREM HreaTypeCorrect == HreaAssumption /\ Spec => []TypeOK
<1>1. HreaInv => TypeOK
  BY HostIs DEF HreaInv, TypeOK, KnownFits, MapsOwn, Counts, Arrays, There
<1> QED BY <1>1, HreaInvHolds, PTL

\* An entity is mapped to what was made for it, and its agent is in flight exactly
\* while one call makes it, however calls overlap and whichever fail
\* (hrea.store.svelte.ts:738-776).
THEOREM NoneLeftInFlight == HreaAssumption /\ Spec => []InFlightIsUnderWay
<1>1. HreaInv => InFlightIsUnderWay
  <2> SUFFICES ASSUME HreaInv PROVE InFlightIsUnderWay
    OBVIOUS
  <2>1. \A e \in Entities : mapping[e] # 0 => host[mapping[e]].of = e
    BY DEF HreaInv, MapsOwn
  <2>2. ASSUME NEW e \in Agents
        PROVE  Cardinality({c \in Callers : runs[c].op = "create" /\ runs[c].of = e}) =
                 (IF e \in inFlight THEN 1 ELSE 0)
    <3>1. PICK S : S = {c \in Callers : runs[c].op = "create" /\ runs[c].of = e}
      OBVIOUS
    <3>2. CASE e \in inFlight
      <4>1. PICK c \in Callers : Makes(c, e)
        BY <3>2 DEF HreaInv, FliesAlone
      <4>2. S = {c}
        BY <3>1, <4>1 DEF HreaInv, FliesAlone, Makes
      <4>3. Cardinality({c}) = 1
        BY FS_Singleton
      <4> QED BY <3>1, <3>2, <4>2, <4>3
    <3>3. CASE e \notin inFlight
      <4>1. S = {}
        BY <3>1, <3>3 DEF HreaInv, FliesAlone, Makes
      <4> QED BY <3>1, <3>3, <4>1, FS_EmptySet
    <3> QED BY <3>2, <3>3
  <2> QED BY <2>1, <2>2 DEF InFlightIsUnderWay
<1> QED BY <1>1, HreaInvHolds, PTL

-----------------------------------------------------------------------------
(* One agent each, as long as the pages fetch first and no answer is lost. *)

IsAgent(i) == host[i].of \in Agents

\* The agents known, or made by a call that has yet to be answered.
Noticed(i) == i \in known["agents"] \/ \E c \in Callers : At(c, "create", "done") /\ runs[c].of = host[i].of

\* An agent is being made only of one who has none, all agents are noticed once
\* the pages have fetched them, and a fetch has the page to itself.
AInv ==
  /\ \A i, j \in Objects : (IsAgent(i) /\ host[i].of = host[j].of) => i = j
  /\ \A i \in Objects : IsAgent(i) => There(i)
  /\ \A c \in Callers : At(c, "create", "sent") /\ runs[c].of \in Agents =>
       \A i \in Objects : host[i].of # runs[c].of
  /\ "agents" \in fetched => \A i \in Objects : IsAgent(i) => Noticed(i)
  /\ \A c \in Callers : (runs[c].op = "retro" \/ Making(runs[c]) # {}) => "agents" \in fetched
  /\ \A c, d \in Callers : runs[c].op = "fetch" => (c = d \/ Idle(d))
  /\ \A c \in Callers : At(c, "fetch", "done") /\ runs[c].of = "agents" =>
       \A i \in Objects : IsAgent(i) => i \in runs[c].answer

LEMMA InitAInv == ASSUME Init PROVE AInv
BY DEF Init, AInv, Objects, NoRun, Run, At, Making

\* Agents stay as they are where the host makes none.
SameAgents ==
  /\ \A i \in Objects' : IsAgent(i)' => i \in Objects
  /\ \A i \in Objects : host'[i].of = host[i].of /\ (IsAgent(i) => host'[i].there = host[i].there)
  /\ Objects \subseteq Objects'

\* It is enough to look at the calls cs that a step changes.
LEMMA AKeeps ==
  ASSUME HreaInv, AInv, SameAgents, NEW cs \in SUBSET Callers,
         \A d \in Callers : d \notin cs => runs'[d] = runs[d],
         "agents" \in fetched => "agents" \in fetched',
         "agents" \in fetched' => \A i \in Objects : IsAgent(i) => Noticed(i)',
         \A c \in cs : At(c, "create", "sent")' /\ runs'[c].of \in Agents =>
           \A i \in Objects : host[i].of # runs'[c].of,
         \A c \in cs : (runs'[c].op = "retro" \/ Making(runs'[c]) # {}) => "agents" \in fetched',
         \A c \in cs : runs'[c].op = "fetch" => cs = {c} /\ \A d \in Callers : c = d \/ Idle(d),
         \A c \in cs : runs'[c] = NoRun \/ \A d \in Callers : d \in cs \/ runs[d].op # "fetch",
         \A c \in cs : At(c, "fetch", "done")' /\ runs'[c].of = "agents" =>
           \A i \in Objects : IsAgent(i) => i \in runs'[c].answer
  PROVE  AInv'
<1>1. \A i \in Objects' : IsAgent(i)' => i \in Objects /\ IsAgent(i) /\ host'[i].of = host[i].of
  BY DEF SameAgents, IsAgent
<1>2. \A i, j \in Objects' : (IsAgent(i)' /\ host'[i].of = host'[j].of) => i = j
  BY <1>1 DEF AInv, IsAgent
<1>3. \A i \in Objects' : IsAgent(i)' => There(i)'
  BY <1>1 DEF AInv, SameAgents, There
<1>4. ASSUME NEW c \in Callers, At(c, "create", "sent")', runs'[c].of \in Agents, NEW i \in Objects'
      PROVE  host'[i].of # runs'[c].of
  <2>1. CASE c \in cs
    BY <1>1, <1>4, <2>1 DEF IsAgent
  <2>2. CASE c \notin cs
    BY <1>1, <1>4, <2>2 DEF IsAgent, AInv, At
  <2> QED BY <2>1, <2>2
<1>5. "agents" \in fetched' => \A i \in Objects' : IsAgent(i)' => Noticed(i)'
  BY <1>1
<1>6. \A c \in Callers : (runs'[c].op = "retro" \/ Making(runs'[c]) # {}) => "agents" \in fetched'
  BY DEF AInv
<1>7. ASSUME NEW c \in Callers, NEW d \in Callers, runs'[c].op = "fetch", c # d PROVE Idle(d)'
  <2>1. CASE c \in cs
    BY <1>7, <2>1 DEF Idle
  <2>2. CASE c \notin cs
    BY <1>7, <2>2 DEF AInv, Idle
  <2> QED BY <2>1, <2>2
<1>8. ASSUME NEW c \in Callers, At(c, "fetch", "done")', runs'[c].of = "agents", NEW i \in Objects', IsAgent(i)'
      PROVE  i \in runs'[c].answer
  <2>1. CASE c \in cs
    BY <1>1, <1>8, <2>1
  <2>2. CASE c \notin cs
    BY <1>1, <1>8, <2>2 DEF AInv, At
  <2> QED BY <2>1, <2>2
<1> QED BY <1>2, <1>3, <1>4, <1>5, <1>6, <1>7, <1>8 DEF AInv

\* Agents stay noticed where the calls that were about to notice them go on or do.
LEMMA StayNoticed ==
  ASSUME AInv, SameAgents, NEW cs \in SUBSET Callers,
         \A d \in Callers : d \notin cs => runs'[d] = runs[d],
         "agents" \in fetched, known["agents"] \subseteq known'["agents"],
         \A c \in cs : At(c, "create", "done") =>
            \A i \in Objects : (IsAgent(i) /\ host[i].of = runs[c].of) => i \in known'["agents"],
         NEW i \in Objects, IsAgent(i)
  PROVE  Noticed(i)'
<1>1. CASE i \in known["agents"]
  BY <1>1 DEF Noticed
<1>2. ASSUME NEW c \in Callers, At(c, "create", "done"), runs[c].of = host[i].of PROVE Noticed(i)'
  BY <1>2 DEF Noticed, SameAgents, At
<1> QED BY <1>1, <1>2 DEF AInv, Noticed

LEMMA HostSameAgents == ASSUME UNCHANGED host PROVE SameAgents
BY DEF SameAgents, IsAgent, Objects

LEMMA PutSets ==
  ASSUME HreaInv, NEW c \in Callers, NEW r, Put(c, r)
  PROVE  runs'[c] = r /\ \A d \in Callers : d # c => runs'[d] = runs[d]
BY DEF HreaInv, RunsFit, Put

\* A step that puts a call, and fetches nothing.
LEMMA APut ==
  ASSUME HreaInv, AInv, SameAgents, NEW c \in Callers, NEW r, Put(c, r),
         UNCHANGED fetched, known["agents"] \subseteq known'["agents"],
         r.op # "fetch",
         (r.op = "retro" \/ Making(r) # {}) => "agents" \in fetched,
         r.op = "create" /\ r.stage = "sent" /\ r.of \in Agents => \A i \in Objects : host[i].of # r.of,
         r = NoRun \/ \A d \in Callers : d = c \/ runs[d].op # "fetch",
         At(c, "create", "done") =>
           \A i \in Objects : (IsAgent(i) /\ host[i].of = runs[c].of) => i \in known'["agents"]
  PROVE  AInv'
<1>1. runs'[c] = r /\ \A d \in Callers : d # c => runs'[d] = runs[d]
  BY PutSets
<1>2. PICK cs : cs = {c}
  OBVIOUS
<1>3. cs \in SUBSET Callers /\ \A d \in Callers : d \notin cs => runs'[d] = runs[d]
  BY <1>1, <1>2
<1>4. \A d \in cs : At(d, "create", "done") =>
        \A i \in Objects : (IsAgent(i) /\ host[i].of = runs[d].of) => i \in known'["agents"]
  BY <1>2
<1>5. "agents" \in fetched' => \A i \in Objects : IsAgent(i) => Noticed(i)'
  BY <1>3, <1>4, StayNoticed
<1>6. \A d \in cs : At(d, "create", "sent")' /\ runs'[d].of \in Agents =>
        \A i \in Objects : host[i].of # runs'[d].of
  BY <1>1, <1>2 DEF At
<1>7. \A d \in cs : (runs'[d].op = "retro" \/ Making(runs'[d]) # {}) => "agents" \in fetched'
  BY <1>1, <1>2
<1>8. \A d \in cs : runs'[d].op # "fetch"
  BY <1>1, <1>2
<1>9. \A d \in cs : runs'[d] = NoRun \/ \A b \in Callers : b \in cs \/ runs[b].op # "fetch"
  BY <1>1, <1>2
<1>10. \A d \in cs : At(d, "fetch", "done")' /\ runs'[d].of = "agents" =>
           \A i \in Objects : IsAgent(i) => i \in runs'[d].answer
  BY <1>8 DEF At
<1> QED BY <1>3, <1>5, <1>6, <1>7, <1>8, <1>9, <1>10, AKeeps

\* A step that puts none.
LEMMA ARest ==
  ASSUME HreaInv, AInv, SameAgents, UNCHANGED <<runs, known, fetched>>
  PROVE  AInv'
<1>1. PICK cs : cs = {}
  OBVIOUS
<1>2. "agents" \in fetched' => \A i \in Objects : IsAgent(i) => Noticed(i)'
  BY DEF AInv, Noticed, SameAgents, At
<1>3. cs \in SUBSET Callers /\ \A d \in Callers : d \notin cs => runs'[d] = runs[d]
  BY <1>1
<1> QED BY <1>1, <1>2, <1>3, AKeeps

\* No fetch is under way beside another call.
LEMMA NoFetchBeside ==
  ASSUME AInv, NEW c \in Callers, ~Idle(c)
  PROVE  \A d \in Callers : d = c \/ runs[d].op # "fetch"
BY DEF AInv

LEMMA NoRunIs == NoRun.op = "none" /\ Making(NoRun) = {}
BY DEF NoRun, Run, Making

LEMMA AtBusy == ASSUME NEW c \in Callers, NEW op, NEW st, op # "none", At(c, op, st) PROVE ~Idle(c)
BY DEF At, Idle, NoRun, Run

LEMMA CreateA ==
  ASSUME HreaAssumption, HreaInv, AInv, NEW c \in Callers, Create(c)
  PROVE  AInv'
<1>1. PICK n, e : n = Len(host) + 1 /\ e = runs[c].of
  OBVIOUS
<1>2. /\ runs[c].op = "create" /\ runs[c].stage = "sent" /\ e \in Entities
      /\ host' = Append(host, [of |-> e, there |-> TRUE]) /\ Answered(c, {n})
      /\ UNCHANGED <<known, fetched>>
  BY <1>1 DEF Create, At, Made, Elsewhere, HreaInv, RunsFit, Fits
<1>3. /\ Objects' = Objects \cup {n} /\ n \notin Objects
      /\ \A i \in Objects : host'[i] = host[i]
      /\ host'[n].of = e /\ host'[n].there = TRUE
  <2>1. PICK x : x = [of |-> e, there |-> TRUE]
    OBVIOUS
  <2>2. x \in [of : Entities, there : BOOLEAN] /\ x.of = e /\ x.there = TRUE /\ host' = Append(host, x)
    BY <1>2, <2>1
  <2>3. PICK S : S = [of : Entities, there : BOOLEAN]
    OBVIOUS
  <2>4. host \in Seq(S) /\ x \in S
    BY <2>2, <2>3 DEF HreaInv, HostFits
  <2> QED BY <1>1, <2>2, <2>4, AppendProperties, HostIs DEF HreaInv, Objects
<1>4. PICK r : r = Run("create", e, "done", runs[c].rest, {n})
  OBVIOUS
<1>5. Put(c, r) /\ r.op = "create" /\ r.of = e /\ r.stage = "done" /\ Making(r) = Making(runs[c])
  BY <1>1, <1>2, <1>4, AnsweredPuts DEF HreaInv, Run, Making
<1>6. runs'[c] = r /\ \A d \in Callers : d # c => runs'[d] = runs[d]
  BY <1>5, PutSets
<1>7. \A d \in Callers : d = c \/ runs[d].op # "fetch"
  BY <1>2, AtBusy, NoFetchBeside DEF At
<1>8. ASSUME NEW i \in Objects', NEW j \in Objects', IsAgent(i)', host'[i].of = host'[j].of PROVE i = j
  <2>1. e \in Agents => \A k \in Objects : host[k].of # e
    BY <1>1, <1>2 DEF AInv, At
  <2> QED BY <1>3, <1>8, <2>1 DEF IsAgent, AInv
<1>9. \A i \in Objects' : IsAgent(i)' => There(i)'
  BY <1>3 DEF AInv, IsAgent, There
<1>10. ASSUME NEW d \in Callers, At(d, "create", "sent")', runs'[d].of \in Agents, NEW i \in Objects'
       PROVE  host'[i].of # runs'[d].of
  <2>1. d # c /\ runs'[d] = runs[d]
    BY <1>5, <1>6, <1>10 DEF At
  <2>2. runs[d].of # e
    BY <1>1, <1>2, <1>10, <2>1 DEF HreaInv, FliesAlone, Makes, At
  <2> QED BY <1>3, <1>10, <2>1, <2>2 DEF AInv, At
<1>11. ASSUME "agents" \in fetched', NEW i \in Objects', IsAgent(i)' PROVE Noticed(i)'
  <2>1. CASE i = n
    BY <1>3, <1>5, <1>6, <2>1 DEF Noticed, At
  <2>2. CASE i \in Objects
    <3>1. IsAgent(i) /\ Noticed(i) /\ host'[i].of = host[i].of
      BY <1>2, <1>3, <1>11, <2>2 DEF IsAgent, AInv
    <3>2. CASE i \in known["agents"]
      BY <1>2, <3>2 DEF Noticed
    <3>3. ASSUME NEW d \in Callers, At(d, "create", "done"), runs[d].of = host[i].of PROVE Noticed(i)'
      <4>1. d # c
        BY <1>2, <3>3 DEF At
      <4> QED BY <1>6, <3>1, <3>3, <4>1 DEF Noticed, At
    <3> QED BY <3>1, <3>2, <3>3 DEF Noticed
  <2> QED BY <1>3, <2>1, <2>2
<1>12. \A d \in Callers : (runs'[d].op = "retro" \/ Making(runs'[d]) # {}) => "agents" \in fetched'
  BY <1>2, <1>5, <1>6 DEF AInv
<1>13. \A d \in Callers : runs'[d].op # "fetch"
  BY <1>2, <1>5, <1>6, <1>7
<1> QED BY <1>8, <1>9, <1>10, <1>11, <1>12, <1>13 DEF AInv, At

LEMMA DeleteA ==
  ASSUME HreaAssumption, HreaInv, AInv, NEW c \in Callers, Delete(c)
  PROVE  AInv'
<1>1. PICK i \in runs[c].answer : There(i) /\ host' = [host EXCEPT ![i].there = FALSE]
  BY DEF Delete, Unmade
<1>2. /\ At(c, "delete", "sent") /\ i \in Objects /\ host[i].of \in ServiceTypes
      /\ Answered(c, runs[c].answer) /\ UNCHANGED <<known, fetched>>
  BY <1>1 DEF Delete, At, Elsewhere, HreaInv, RunsFit, Fits, Objects
<1>3. ~IsAgent(i)
  BY <1>2 DEF IsAgent, HreaAssumption, Agents
<1>4. SameAgents
  <2>1. PICK x : x = [host[i] EXCEPT !.there = FALSE]
    OBVIOUS
  <2>2. host[i] \in [of : Entities, there : BOOLEAN] /\ host' = [host EXCEPT ![i] = x]
    BY <1>1, <1>2, <2>1, HostIs DEF HreaInv
  <2>3. x.of = host[i].of
    BY <2>1, <2>2
  <2> QED BY <1>2, <1>3, <2>2, <2>3 DEF SameAgents, IsAgent, Objects
<1>5. PICK r : r = Run(runs[c].op, runs[c].of, "done", runs[c].rest, runs[c].answer)
  OBVIOUS
<1>6. Put(c, r) /\ r.op = "delete" /\ Making(r) = {}
  BY <1>2, <1>5, AnsweredPuts DEF HreaInv, Run, At, Making
<1>7. \A d \in Callers : d = c \/ runs[d].op # "fetch"
  BY <1>2, AtBusy, NoFetchBeside
<1>8. ~At(c, "create", "done")
  BY <1>2 DEF At
<1> QED BY <1>2, <1>4, <1>6, <1>7, <1>8, APut

\* Who has no agent among those known, and none in flight, has none.
LEMMA NoneFound ==
  ASSUME HreaInv, AInv, "agents" \in fetched, NEW e \in Agents, FindAgent(e) = {}, e \notin inFlight
  PROVE  \A i \in Objects : host[i].of # e
BY DEF AInv, HreaInv, FliesAlone, Makes, At, Noticed, IsAgent, FindAgent, Found

\* A run that goes on, once its answer has joined the array.
LEMMA GoesOnA ==
  ASSUME HreaInv, AInv, UNCHANGED <<host, fetched>>, NEW c \in Callers, ~Idle(c), NEW rest, rest \subseteq Agents,
         NEW flying, NEW m, GoesOn(c, rest, flying, m), rest # {} => "agents" \in fetched,
         \A e \in Agents : e \in inFlight => e \in flying \/ m[e] # 0,
         known["agents"] \subseteq known'["agents"],
         At(c, "create", "done") =>
           \A i \in Objects : (IsAgent(i) /\ host[i].of = runs[c].of) => i \in known'["agents"]
  PROVE  AInv'
<1>1. PICK r : /\ Put(c, r)
               /\ \/ r = NoRun
                  \/ \E e \in rest : \E left :
                       r = Run("create", e, "sent", left, {}) /\ FindAgent(e) = {} /\ e \notin flying /\ m[e] = 0
  BY DEF GoesOn
<1>2. \A d \in Callers : d = c \/ runs[d].op # "fetch"
  BY NoFetchBeside
<1>3. SameAgents
  BY HostSameAgents
<1>4. CASE r = NoRun
  BY <1>1, <1>2, <1>3, <1>4, NoRunIs, APut
<1>5. ASSUME NEW e \in rest, NEW left,
             r = Run("create", e, "sent", left, {}), FindAgent(e) = {}, e \notin flying, m[e] = 0
      PROVE  AInv'
  <2>1. r.op = "create" /\ r.of = e
    BY <1>5 DEF Run
  <2>2. \A i \in Objects : host[i].of # e
    BY <1>5, NoneFound
  <2>3. "agents" \in fetched
    BY <1>5
  <2> QED BY <1>1, <1>2, <1>3, <2>1, <2>2, <2>3, APut
<1> QED BY <1>1, <1>4, <1>5

LEMMA CreatedA ==
  ASSUME HreaAssumption, HreaInv, AInv, NEW c \in Callers, Created(c)
  PROVE  AInv'
<1>1. PICK e, rest, flying : e = runs[c].of /\ rest = runs[c].rest /\ flying = inFlight \ {e}
  OBVIOUS
<1>2. /\ At(c, "create", "done") /\ UNCHANGED <<host, fetched>>
      /\ known' = [known EXCEPT ![ArrayOf(e)] = @ \cup runs[c].answer]
  BY <1>1, CreatedGoes
<1>3. PICK m : m[e] # 0 /\ GoesOn(c, rest, flying, m)
  BY <1>1, CreatedGoes
<1>4. rest \subseteq Agents /\ (rest = {} \/ e \in Agents)
  BY <1>1, <1>2 DEF HreaInv, RunsFit, Fits, At
<1>5. PICK i \in Objects : runs[c].answer = {i} /\ host[i].of = e
  BY <1>1, <1>2 DEF HreaInv, RunsFit, Fits, At, Objects
<1>6. \A f \in Agents : f \in inFlight => f \in flying \/ m[f] # 0
  BY <1>1, <1>3
<1>7. ~Idle(c)
  BY <1>2, AtBusy
<1>8. rest # {} => "agents" \in fetched
  BY <1>1, <1>2, <1>4 DEF AInv, Making, At
<1>9. known["agents"] \subseteq known'["agents"] /\ (e \in Agents => i \in known'["agents"])
  BY <1>2, <1>5 DEF HreaInv, KnownFits, Arrays, ArrayOf
<1>10. \A j \in Objects : (IsAgent(j) /\ host[j].of = runs[c].of) => j \in known'["agents"]
  BY <1>1, <1>5, <1>9 DEF AInv, IsAgent
<1> QED BY <1>2, <1>3, <1>4, <1>6, <1>7, <1>8, <1>9, <1>10, GoesOnA

LEMMA DeletedA ==
  ASSUME HreaInv, AInv, NEW c \in Callers, Deleted(c)
  PROVE  AInv'
<1>1. /\ At(c, "delete", "done") /\ Put(c, NoRun) /\ UNCHANGED <<host, fetched>>
      /\ known["agents"] \subseteq known'["agents"]
  BY DEF Deleted, Elsewhere, HreaInv, KnownFits, Arrays
<1>2. ~At(c, "create", "done")
  BY <1>1 DEF At
<1> QED BY <1>1, <1>2, HostSameAgents, NoRunIs, APut

\* A failure loses no agent, unless it loses an answer.
LEMMA FailsA ==
  ASSUME HreaAssumption, HreaInv, AInv, NEW c \in Callers, Fails(c), UNCHANGED lost
  PROVE  AInv'
<1>1. Put(c, NoRun) /\ UNCHANGED <<host, known, fetched>> /\ ~At(c, "create", "done")
  BY DEF Fails, HreaInv, Counts, HreaAssumption
<1> QED BY <1>1, HostSameAgents, NoRunIs, APut

LEMMA RetroA ==
  ASSUME HreaAssumption, Waits, HreaInv, AInv, NEW c \in Callers, CreateRetroactiveMappings(c)
  PROVE  AInv'
<1>1. CASE /\ Asks(c, "agents")
           /\ \E S \in {Users, Organizations} :
                Unmapped(S) # {} /\ Sent(c, "retro", "agents", Unmapped(S))
           /\ UNCHANGED <<host, known, mapping, inFlight>> /\ Elsewhere
  <2>1. PICK S \in {Users, Organizations} : Sent(c, "retro", "agents", Unmapped(S))
    BY <1>1
  <2>2. PICK r : r = Run("retro", "agents", "sent", Unmapped(S), {})
    OBVIOUS
  <2>3. Put(c, r) /\ r.op = "retro" /\ Making(r) = {}
    BY <2>1, <2>2 DEF Sent, Run, Making
  <2>4. "agents" \in fetched /\ (\A d \in Callers : runs[d].op # "fetch") /\ ~At(c, "create", "done")
    BY <1>1 DEF Asks, Idle, NoRun, Run, At
  <2>5. UNCHANGED <<host, known, fetched>>
    BY <1>1 DEF Elsewhere
  <2> QED BY <2>3, <2>4, <2>5, HostSameAgents, APut
<1>2. CASE /\ At(c, "retro", "sent")
           /\ Answered(c, Listing("agents"))
           /\ UNCHANGED <<host, known, mapping, inFlight>> /\ Elsewhere
  <2>1. PICK r : r = Run(runs[c].op, runs[c].of, "done", runs[c].rest, Listing("agents"))
    OBVIOUS
  <2>2. Put(c, r) /\ r.op = "retro" /\ Making(r) = {}
    BY <1>2, <2>1, AnsweredPuts DEF HreaInv, Run, At, Making
  <2>3. "agents" \in fetched /\ (\A d \in Callers : d = c \/ runs[d].op # "fetch") /\ ~At(c, "create", "done")
    BY <1>2, AtBusy, NoFetchBeside DEF At, AInv
  <2>4. UNCHANGED <<host, known, fetched>>
    BY <1>2 DEF Elsewhere
  <2> QED BY <2>2, <2>3, <2>4, HostSameAgents, APut
<1>3. CASE At(c, "retro", "done") /\ UNCHANGED <<host, known>> /\ Elsewhere
  <2>1. PICK rest, m : rest \subseteq Agents /\ GoesOn(c, rest, inFlight, m)
    BY <1>3, RetroGoes
  <2>2. "agents" \in fetched /\ ~At(c, "create", "done") /\ ~Idle(c)
    BY <1>3, AtBusy DEF At, AInv
  <2>3. UNCHANGED <<host, known, fetched>>
    BY <1>3 DEF Elsewhere
  <2> QED BY <2>1, <2>2, <2>3, GoesOnA
<1> QED BY <1>1, <1>2, <1>3 DEF CreateRetroactiveMappings

\* The host lists every agent.
LEMMA FetchA ==
  ASSUME HreaInv, AInv, NEW c \in Callers, Fetch(c)
  PROVE  AInv'
<1>1. PICK a, x : a = runs[c].of /\ x = Listing(a)
  OBVIOUS
<1>2. At(c, "fetch", "sent") /\ Answered(c, x) /\ UNCHANGED <<host, known, fetched>>
  BY <1>1 DEF Fetch, Elsewhere
<1>3. PICK r : r = Run("fetch", a, "done", runs[c].rest, x)
  OBVIOUS
<1>4. Put(c, r) /\ r.op = "fetch" /\ r.of = a /\ r.answer = x /\ Making(r) = {}
  BY <1>1, <1>2, <1>3, AnsweredPuts DEF HreaInv, Run, At, Making
<1>5. runs'[c] = r /\ \A d \in Callers : d # c => runs'[d] = runs[d]
  BY <1>4, PutSets
<1>6. SameAgents
  BY <1>2, HostSameAgents
<1>7. PICK cs : cs = {c}
  OBVIOUS
<1>8. cs \in SUBSET Callers /\ \A d \in Callers : d \notin cs => runs'[d] = runs[d]
  BY <1>5, <1>7
<1>9. \A d \in cs : ~At(d, "create", "done")
  BY <1>2, <1>7 DEF At
<1>10. "agents" \in fetched' => \A i \in Objects : IsAgent(i) => Noticed(i)'
  BY <1>2, <1>6, <1>8, <1>9, StayNoticed
<1>11. \A d \in cs : /\ runs'[d].op = "fetch" /\ Making(runs'[d]) = {}
                     /\ cs = {d} /\ \A b \in Callers : d = b \/ Idle(b)
  BY <1>2, <1>4, <1>5, <1>7 DEF AInv, At
<1>12. \A d \in cs : runs'[d] = NoRun \/ \A b \in Callers : b \in cs \/ runs[b].op # "fetch"
  BY <1>2, <1>7, AtBusy, NoFetchBeside
<1>13. a = "agents" => \A i \in Objects : IsAgent(i) => i \in x
  BY <1>1 DEF Listing, IsAgent, ArrayOf, AInv
<1>14. \A d \in cs : At(d, "fetch", "done")' /\ runs'[d].of = "agents" =>
           \A i \in Objects : IsAgent(i) => i \in runs'[d].answer
  BY <1>4, <1>5, <1>7, <1>13
<1>15. \A d \in cs : ~At(d, "create", "sent")'
  BY <1>11 DEF At
<1> QED BY <1>2, <1>6, <1>8, <1>10, <1>11, <1>12, <1>14, <1>15, AKeeps

\* A fetch is sent when nothing is under way, and what it brings is all there is.
LEMMA GetAllA ==
  ASSUME Waits, HreaInv, AInv, NEW c \in Callers, NEW a \in Arrays, GetAll(c, a)
  PROVE  AInv'
<1>1. PICK cs : cs = {c}
  OBVIOUS
<1>2. CASE /\ Idle(c) /\ (Waits => \A d \in Callers : Idle(d)) /\ Sent(c, "fetch", a, {})
           /\ UNCHANGED <<host, known, mapping, inFlight>> /\ Elsewhere
  <2>1. PICK r : r = Run("fetch", a, "sent", {}, {})
    OBVIOUS
  <2>2. Put(c, r) /\ r.op = "fetch" /\ r.stage = "sent" /\ Making(r) = {}
    BY <1>2, <2>1 DEF Sent, Run, Making
  <2>3. runs'[c] = r /\ \A d \in Callers : d # c => runs'[d] = runs[d]
    BY <2>2, PutSets
  <2>4. cs \in SUBSET Callers /\ \A d \in Callers : d \notin cs => runs'[d] = runs[d]
    BY <1>1, <2>3
  <2>5. SameAgents /\ UNCHANGED <<known, fetched>>
    BY <1>2, HostSameAgents DEF Elsewhere
  <2>6. \A d \in Callers : Idle(d) /\ ~At(d, "create", "done") /\ runs[d].op # "fetch"
    BY <1>2 DEF At, Idle, NoRun, Run
  <2>7. "agents" \in fetched' => \A i \in Objects : IsAgent(i) => Noticed(i)'
    BY <2>4, <2>5, <2>6, StayNoticed
  <2>8. \A d \in cs : /\ runs'[d].op = "fetch" /\ runs'[d].stage = "sent" /\ Making(runs'[d]) = {}
                      /\ cs = {d} /\ \A b \in Callers : d = b \/ Idle(b)
    BY <1>1, <2>2, <2>3, <2>6
  <2>9. \A d \in cs : ~At(d, "create", "sent")' /\ ~At(d, "fetch", "done")'
    BY <2>8 DEF At
  <2> QED BY <2>4, <2>5, <2>6, <2>7, <2>8, <2>9, AKeeps
<1>3. CASE /\ At(c, "fetch", "done") /\ runs[c].of = a
           /\ known' = [known EXCEPT ![a] = runs[c].answer]
           /\ fetched' = fetched \cup {a}
           /\ Put(c, NoRun)
           /\ UNCHANGED <<host, mapping, inFlight, status, cutShort, failed, lost, reloads>>
  <2>1. runs'[c] = NoRun /\ \A d \in Callers : d # c => runs'[d] = runs[d]
    BY <1>3, PutSets
  <2>2. cs \in SUBSET Callers /\ \A d \in Callers : d \notin cs => runs'[d] = runs[d]
    BY <1>1, <2>1
  <2>3. SameAgents
    BY <1>3, HostSameAgents
  <2>4. \A d \in cs : ~At(d, "create", "done")
    BY <1>1, <1>3 DEF At
  <2>5. ASSUME "agents" \in fetched', NEW i \in Objects, IsAgent(i) PROVE Noticed(i)'
    <3>1. CASE a = "agents"
      <4>1. i \in runs[c].answer
        BY <1>3, <2>5, <3>1 DEF AInv
      <4>2. known'["agents"] = runs[c].answer
        BY <1>3, <3>1 DEF HreaInv, KnownFits, Arrays
      <4> QED BY <4>1, <4>2 DEF Noticed
    <3>2. CASE a # "agents"
      <4>1. "agents" \in fetched /\ known'["agents"] = known["agents"]
        BY <1>3, <2>5, <3>2 DEF HreaInv, KnownFits, Arrays
      <4> QED BY <2>2, <2>3, <2>4, <2>5, <4>1, StayNoticed
    <3> QED BY <3>1, <3>2
  <2>6. \A d \in cs : runs'[d] = NoRun /\ runs'[d].op = "none" /\ Making(runs'[d]) = {}
    BY <1>1, <2>1, NoRunIs
  <2>7. \A d \in cs : ~At(d, "create", "sent")' /\ ~At(d, "fetch", "done")'
    BY <2>6 DEF At
  <2> QED BY <1>3, <2>2, <2>3, <2>5, <2>6, <2>7, AKeeps
<1> QED BY <1>2, <1>3 DEF GetAll

LEMMA AsksA ==
  ASSUME Waits, NEW c \in Callers, NEW a, Asks(c, a)
  PROVE  a \in fetched /\ Idle(c) /\ ~At(c, "create", "done") /\ \A d \in Callers : runs[d].op # "fetch"
BY DEF Asks, Idle, At, NoRun, Run

LEMMA AgentOfA ==
  ASSUME Waits, HreaInv, AInv, NEW c \in Callers, NEW e \in Agents, Asks(c, "agents"), AgentOf(c, e),
         UNCHANGED <<host, known>>, Elsewhere
  PROVE  AInv'
<1>1. SameAgents /\ UNCHANGED <<known, fetched>>
  BY HostSameAgents DEF Elsewhere
<1>2. CASE UNCHANGED runs
  BY <1>1, <1>2, ARest
<1>3. CASE e \notin inFlight /\ FindAgent(e) = {} /\ Sent(c, "create", e, {})
  <2>1. PICK r : r = Run("create", e, "sent", {}, {})
    OBVIOUS
  <2>2. Put(c, r) /\ r.op = "create" /\ r.of = e
    BY <1>3, <2>1 DEF Sent, Run
  <2>3. \A i \in Objects : host[i].of # e
    BY <1>3, AsksA, NoneFound
  <2> QED BY <1>1, <2>2, <2>3, AsksA, APut
<1> QED BY <1>2, <1>3 DEF AgentOf

LEMMA SpecificationOfA ==
  ASSUME HreaAssumption, Waits, HreaInv, AInv, NEW c \in Callers, NEW e \in Specified,
         Asks(c, "specifications"), SpecificationOf(c, e), UNCHANGED <<host, known, fetched>>
  PROVE  AInv'
<1>1. SameAgents /\ e \notin Agents
  BY HostSameAgents DEF HreaAssumption, Agents, Specified
<1>2. CASE UNCHANGED runs
  BY <1>1, <1>2, ARest
<1>3. CASE Sent(c, "create", e, {})
  <2>1. PICK r : r = Run("create", e, "sent", {}, {})
    OBVIOUS
  <2>2. Put(c, r) /\ r.op = "create" /\ r.of = e /\ Making(r) = {}
    BY <1>1, <1>3, <2>1 DEF Sent, Run, Making
  <2> QED BY <1>1, <2>2, AsksA, APut
<1> QED BY <1>2, <1>3 DEF SpecificationOf

LEMMA WithdrawnA ==
  ASSUME Waits, HreaInv, AInv, NEW c \in Callers, NEW e, NEW s, Withdrawn(c, e, s)
  PROVE  AInv'
<1>1. Asks(c, "specifications") /\ SameAgents /\ UNCHANGED <<known, fetched>> /\ DeleteSpecification(c, e)
  BY HostSameAgents DEF Withdrawn, SpecificationOnly
<1>2. CASE UNCHANGED runs
  BY <1>1, <1>2, ARest
<1>3. ASSUME NEW i, Put(c, Run("delete", e, "sent", {}, {i})) PROVE AInv'
  <2>1. PICK r : r = Run("delete", e, "sent", {}, {i})
    OBVIOUS
  <2>2. Put(c, r) /\ r.op = "delete" /\ Making(r) = {}
    BY <1>3, <2>1, MakingSent DEF Run
  <2> QED BY <1>1, <2>2, AsksA, APut
<1> QED BY <1>1, <1>2, <1>3 DEF DeleteSpecification

LEMMA ServiceTypeCreatedA ==
  ASSUME HreaAssumption, Waits, HreaInv, AInv, NEW c \in Callers, NEW d \in Callers, NEW t,
         ServiceTypeCreated(c, d, t)
  PROVE  AInv'
<1>1. /\ Asks(c, "specifications") /\ Asks(d, "specifications")
      /\ SameAgents /\ UNCHANGED <<known, fetched>> /\ t \notin Agents
      /\ \/ UNCHANGED runs
         \/ runs' = [r \in Callers |->
                       IF r \in {c, d} THEN Run("create", t, "sent", {}, {}) ELSE runs[r]]
  BY HostSameAgents DEF ServiceTypeCreated, SpecificationOnly, HreaAssumption, Agents
<1>2. CASE UNCHANGED runs
  BY <1>1, <1>2, ARest
<1>3. CASE runs' = [r \in Callers |->
                      IF r \in {c, d} THEN Run("create", t, "sent", {}, {}) ELSE runs[r]]
  <2>1. PICK cs, new : cs = {c, d} /\ new = Run("create", t, "sent", {}, {})
    OBVIOUS
  <2>2. new.op = "create" /\ new.of = t /\ Making(new) = {}
    BY <1>1, <2>1 DEF Run, Making
  <2>3. cs \in SUBSET Callers /\ \A r \in Callers : r \notin cs => runs'[r] = runs[r]
    BY <1>3, <2>1
  <2>4. \A r \in cs : runs'[r] = new
    BY <1>3, <2>1
  <2>5. (\A r \in cs : ~At(r, "create", "done")) /\ \A r \in Callers : runs[r].op # "fetch"
    BY <1>1, <2>1, AsksA
  <2>6. "agents" \in fetched' => \A i \in Objects : IsAgent(i) => Noticed(i)'
    BY <1>1, <2>3, <2>5, StayNoticed
  <2>7. \A r \in cs : runs'[r].op = "create" /\ runs'[r].of \notin Agents /\ Making(runs'[r]) = {}
    BY <1>1, <2>2, <2>4
  <2>8. \A r \in cs : ~At(r, "fetch", "done")'
    BY <2>7 DEF At
  <2> QED BY <1>1, <2>3, <2>5, <2>6, <2>7, <2>8, AKeeps
<1> QED BY <1>1, <1>2, <1>3

\* A page loaded anew has fetched nothing.
LEMMA ReloadA ==
  ASSUME HreaInv, AInv, Reload
  PROVE  AInv'
<1>1. PICK cs : cs = Callers
  OBVIOUS
<1>2. SameAgents /\ fetched' = {}
  BY HostSameAgents DEF Reload
<1>3. \A d \in Callers : runs'[d] = NoRun /\ runs'[d].op = "none" /\ Making(runs'[d]) = {}
  BY NoRunIs DEF Reload
<1>4. /\ \A i, j \in Objects' : (IsAgent(i)' /\ host'[i].of = host'[j].of) => i = j
      /\ \A i \in Objects' : IsAgent(i)' => There(i)'
  BY DEF Reload, AInv, Objects, IsAgent, There
<1> QED BY <1>2, <1>3, <1>4 DEF AInv, At, Idle

LEMMA NextAInv ==
  ASSUME HreaAssumption, Waits, HreaInv, AInv, [Next]_hreaVars, UNCHANGED lost
  PROVE  AInv'
<1>1. CASE Reload
  BY <1>1, ReloadA
<1>2. ASSUME NEW c \in Callers, StepOf(c) PROVE AInv'
  <2>1. ASSUME NEW e \in Agents, Asks(c, "agents"), AgentOf(c, e), UNCHANGED <<host, known>>, Elsewhere
        PROVE  AInv'
    BY <2>1, AgentOfA
  <2>2. ASSUME NEW e \in Specified, Approved(c, e) PROVE AInv'
    BY <2>2, SpecificationOfA DEF Approved, SpecificationOnly
  <2>3. ASSUME NEW e \in Specified, SyncServiceType(c, e) \/ SyncMedium(c, e) PROVE AInv'
    BY <2>3, SpecificationOfA DEF SyncServiceType, SyncMedium, SpecificationOnly
  <2>4. ASSUME NEW t \in ServiceTypes,
               \/ Approved(c, t) \/ Withdrawn(c, t, "rejected") \/ Withdrawn(c, t, "deleted")
               \/ SyncServiceType(c, t) \/ \E d \in Callers : ServiceTypeCreated(c, d, t)
        PROVE  AInv'
    BY <2>2, <2>3, <2>4, WithdrawnA, ServiceTypeCreatedA DEF Specified
  <2>5. ASSUME NEW m \in Mediums,
               \/ Approved(c, m) \/ (\E s \in {"rejected", "deleted"} : Withdrawn(c, m, s)) \/ SyncMedium(c, m)
        PROVE  AInv'
    BY <2>2, <2>3, <2>5, WithdrawnA DEF Specified
  <2> QED BY <1>2, <2>1, <2>4, <2>5, CreateA, DeleteA, CreatedA, DeletedA, FailsA, GetAllA, FetchA, RetroA DEF StepOf
<1>3. CASE UNCHANGED hreaVars
  BY <1>3, HostSameAgents, ARest DEF hreaVars
<1> QED BY <1>1, <1>2, <1>3, StepsOf

LEMMA AgentsAreOne == ASSUME HreaInv, AInv PROVE OneAgentEach
<1> SUFFICES ASSUME NEW e \in Agents PROVE Cardinality(ObjectsOf(e)) <= 1
  BY DEF OneAgentEach
<1>1. CASE ObjectsOf(e) = {}
  BY <1>1, FS_EmptySet
<1>2. ASSUME NEW i \in ObjectsOf(e) PROVE Cardinality(ObjectsOf(e)) <= 1
  <2>1. ObjectsOf(e) = {i}
    BY <1>2 DEF ObjectsOf, AInv, IsAgent
  <2>2. Cardinality({i}) = 1
    BY FS_Singleton
  <2> QED BY <2>1, <2>2
<1> QED BY <1>1, <1>2

\* Each user and each organization gets one agent, however the calls of the pages
\* overlap and whichever fail before they are done, as long as the pages fetch
\* first and no answer is lost (hrea.store.svelte.ts:738-747, 825-835).
THEOREM OneAgentUnlessLost ==
  ASSUME HreaAssumption, Waits
  PROVE  Spec /\ [](lost = 0) => []OneAgentEach
<1>1. Init => HreaInv /\ AInv
  BY InitHreaInv, InitAInv
<1>2. HreaInv /\ AInv /\ [Next]_hreaVars /\ lost = 0 /\ (lost = 0)' => (HreaInv /\ AInv)'
  BY NextHreaInv, NextAInv
<1>3. HreaInv /\ AInv => OneAgentEach
  BY AgentsAreOne
<1> QED BY <1>1, <1>2, <1>3, PTL DEF Spec

-----------------------------------------------------------------------------
(* Nothing is left over, where an administrator waits for each call. *)

OneCaller == \A c, d \in Callers : c = d

Doing(c, op, st, e) == At(c, op, st) /\ runs[c].of = e

FoundOf(e) == Found("specifications", e)

\* What is on the host of a service type no call about which was cut short: one
\* specification at most, which is known unless its making is yet to be answered,
\* and none unless the type is approved or the specification is about to go.
SInv(e) ==
  /\ \A i, j \in ObjectsOf(e) : i = j
  /\ "specifications" \in fetched =>
       \A i \in ObjectsOf(e) : i \in FoundOf(e) \/ \E c \in Callers : Doing(c, "create", "done", e)
  /\ \A i \in FoundOf(e) :
       i \in ObjectsOf(e) \/ \E c \in Callers : Doing(c, "delete", "done", e) /\ i \in runs[c].answer
  /\ \A c \in Callers : Doing(c, "create", "sent", e) => ObjectsOf(e) = {} /\ status[e] = "approved"
  /\ \A c \in Callers : Doing(c, "create", "done", e) => ObjectsOf(e) = runs[c].answer /\ status[e] = "approved"
  /\ \A c \in Callers : Doing(c, "delete", "sent", e) => ObjectsOf(e) \subseteq runs[c].answer
  /\ \A c \in Callers : Doing(c, "delete", "done", e) => ObjectsOf(e) = {}
  /\ status[e] # "approved" => ObjectsOf(e) = {} \/ \E c \in Callers : Doing(c, "delete", "sent", e)
  /\ \A c \in Callers : Doing(c, "fetch", "done", "specifications") =>
       \A i \in Objects : host[i].of = e => (There(i) <=> i \in runs[c].answer)

LEMMA InitSInv == ASSUME Init, NEW e \in ServiceTypes PROVE SInv(e)
<1>1. ObjectsOf(e) = {} /\ FoundOf(e) = {} /\ Objects = {}
  BY DEF Init, ObjectsOf, FoundOf, Found, Objects
<1>2. \A c \in Callers : runs[c].op = "none"
  BY DEF Init, NoRun, Run
<1> QED BY <1>1, <1>2 DEF SInv, Doing, At

\* A call about something else, before and after.
Apart(r, e) ==
  /\ r.op \in {"create", "delete"} => r.of # e
  /\ r.op = "fetch" /\ r.stage = "done" => r.of # "specifications"

\* What is on the host of a type, and known of it, stays.
Untouched(e) ==
  /\ ObjectsOf(e)' = ObjectsOf(e) /\ FoundOf(e)' = FoundOf(e)
  /\ status'[e] = status[e]
  /\ "specifications" \in fetched' => "specifications" \in fetched

LEMMA SKeeps ==
  ASSUME HreaInv, NEW e, SInv(e), OneCaller, NEW c \in Callers, NEW r, Put(c, r),
         Untouched(e), Apart(r, e), runs[c].op \in {"create", "delete"} => runs[c].of # e
  PROVE  SInv(e)'
<1>1. runs'[c] = r /\ \A d \in Callers : d = c
  BY PutSets DEF OneCaller
<1>2. \A d \in Callers : \A st : ~Doing(d, "create", st, e) /\ ~Doing(d, "delete", st, e)
  BY <1>1 DEF Doing, At
<1>3. \A d \in Callers : /\ ~Doing(d, "create", "sent", e)' /\ ~Doing(d, "create", "done", e)'
                         /\ ~Doing(d, "delete", "sent", e)' /\ ~Doing(d, "delete", "done", e)'
                         /\ ~Doing(d, "fetch", "done", "specifications")'
  BY <1>1 DEF Doing, At, Apart
<1> QED BY <1>2, <1>3 DEF SInv, Untouched

\* Where the host, the array and the status are left alone.
LEMMA UntouchedIs ==
  ASSUME HreaInv, NEW e, UNCHANGED host, UNCHANGED known, status'[e] = status[e],
         "specifications" \in fetched' => "specifications" \in fetched
  PROVE  Untouched(e)
BY DEF Untouched, ObjectsOf, Objects, There, FoundOf, Found

LEMMA UntouchedIn ==
  ASSUME HreaInv, NEW e, UNCHANGED host, known'["specifications"] = known["specifications"], status'[e] = status[e],
         "specifications" \in fetched' => "specifications" \in fetched
  PROVE  Untouched(e)
BY DEF Untouched, ObjectsOf, Objects, There, FoundOf, Found

LEMMA CreateS ==
  ASSUME HreaAssumption, HreaInv, OneCaller, NEW e \in ServiceTypes, SInv(e), NEW c \in Callers, Create(c)
  PROVE  SInv(e)'
<1>1. PICK n, o : n = Len(host) + 1 /\ o = runs[c].of
  OBVIOUS
<1>2. /\ runs[c].op = "create" /\ runs[c].stage = "sent" /\ o \in Entities
      /\ host' = Append(host, [of |-> o, there |-> TRUE]) /\ Answered(c, {n})
      /\ UNCHANGED <<known, fetched, status>>
  BY <1>1 DEF Create, At, Made, Elsewhere, HreaInv, RunsFit, Fits
<1>3. /\ Objects' = Objects \cup {n} /\ n \notin Objects
      /\ \A i \in Objects : host'[i] = host[i]
      /\ host'[n].of = o /\ host'[n].there = TRUE
  <2>1. PICK x : x = [of |-> o, there |-> TRUE]
    OBVIOUS
  <2>2. x \in [of : Entities, there : BOOLEAN] /\ x.of = o /\ x.there = TRUE /\ host' = Append(host, x)
    BY <1>2, <2>1
  <2>3. PICK S : S = [of : Entities, there : BOOLEAN]
    OBVIOUS
  <2>4. host \in Seq(S) /\ x \in S
    BY <2>2, <2>3 DEF HreaInv, HostFits
  <2> QED BY <1>1, <2>2, <2>4, AppendProperties, HostIs DEF HreaInv, Objects
<1>4. PICK r : r = Run("create", o, "done", runs[c].rest, {n})
  OBVIOUS
<1>5. Put(c, r) /\ r.op = "create" /\ r.of = o /\ r.stage = "done" /\ r.answer = {n}
  BY <1>1, <1>2, <1>4, AnsweredPuts DEF HreaInv, Run
<1>6. FoundOf(e)' = FoundOf(e)
  BY <1>2, <1>3 DEF FoundOf, Found, HreaInv, KnownFits, Arrays
<1>7. CASE o # e
  <2>1. ObjectsOf(e)' = ObjectsOf(e)
    BY <1>3, <1>7 DEF ObjectsOf, There
  <2>2. Untouched(e) /\ Apart(r, e) /\ runs[c].of # e
    BY <1>1, <1>2, <1>5, <1>6, <1>7, <2>1 DEF Untouched, Apart
  <2> QED BY <1>5, <2>2, SKeeps
<1>8. CASE o = e
  <2>1. Doing(c, "create", "sent", e)
    BY <1>1, <1>2, <1>8 DEF Doing, At
  <2>2. ObjectsOf(e) = {} /\ status[e] = "approved"
    BY <2>1 DEF SInv
  <2>3. ObjectsOf(e)' = {n}
    BY <1>3, <1>8, <2>2 DEF ObjectsOf, There
  <2>4. FoundOf(e) = {}
    <3>1. \A d \in Callers : ~Doing(d, "delete", "done", e)
      BY <2>1 DEF OneCaller, Doing, At
    <3> QED BY <2>2, <3>1 DEF SInv
  <2>5. runs'[c] = r /\ \A d \in Callers : d = c
    BY <1>5, PutSets DEF OneCaller
  <2>6. Doing(c, "create", "done", e)' /\ runs'[c].answer = {n}
    BY <1>5, <1>8, <2>5 DEF Doing, At
  <2>7. \A d \in Callers : /\ ~Doing(d, "create", "sent", e)'
                           /\ ~Doing(d, "delete", "sent", e)' /\ ~Doing(d, "delete", "done", e)'
                           /\ ~Doing(d, "fetch", "done", "specifications")'
    BY <2>5, <2>6 DEF Doing, At
  <2> QED BY <1>2, <1>6, <2>2, <2>3, <2>4, <2>5, <2>6, <2>7 DEF SInv
<1> QED BY <1>7, <1>8

LEMMA DeleteS ==
  ASSUME HreaInv, OneCaller, NEW e \in ServiceTypes, SInv(e), NEW c \in Callers, Delete(c)
  PROVE  SInv(e)'
<1>1. PICK i \in runs[c].answer : There(i) /\ host' = [host EXCEPT ![i].there = FALSE]
  BY DEF Delete, Unmade
<1>2. PICK o, x : o = runs[c].of /\ x = runs[c].answer
  OBVIOUS
<1>3. /\ runs[c].op = "delete" /\ runs[c].stage = "sent" /\ i \in Objects /\ host[i].of = o /\ x = {i}
      /\ Answered(c, x) /\ UNCHANGED <<known, fetched, status>>
  BY <1>1, <1>2 DEF Delete, At, Elsewhere, HreaInv, RunsFit, Fits, Objects
<1>4. /\ Objects' = Objects /\ host'[i].of = host[i].of /\ host'[i].there = FALSE
      /\ \A j \in Objects : j # i => host'[j] = host[j]
  <2>1. PICK y : y = [host[i] EXCEPT !.there = FALSE]
    OBVIOUS
  <2>2. host[i] \in [of : Entities, there : BOOLEAN] /\ host' = [host EXCEPT ![i] = y]
    BY <1>1, <1>3, <2>1, HostIs DEF HreaInv
  <2>3. y.of = host[i].of /\ y.there = FALSE
    BY <2>1, <2>2
  <2> QED BY <1>3, <2>2, <2>3 DEF Objects
<1>5. PICK r : r = Run("delete", o, "done", runs[c].rest, x)
  OBVIOUS
<1>6. Put(c, r) /\ r.op = "delete" /\ r.of = o /\ r.stage = "done" /\ r.answer = {i}
  BY <1>2, <1>3, <1>5, AnsweredPuts DEF HreaInv, Run
<1>7. FoundOf(e)' = FoundOf(e)
  BY <1>3, <1>4 DEF FoundOf, Found, HreaInv, KnownFits, Arrays
<1>8. CASE o # e
  <2>1. ObjectsOf(e)' = ObjectsOf(e)
    BY <1>3, <1>4, <1>8 DEF ObjectsOf, There
  <2>2. Untouched(e) /\ Apart(r, e) /\ runs[c].of # e
    BY <1>2, <1>3, <1>6, <1>7, <1>8, <2>1 DEF Untouched, Apart
  <2> QED BY <1>6, <2>2, SKeeps
<1>9. CASE o = e
  <2>1. Doing(c, "delete", "sent", e)
    BY <1>2, <1>3, <1>9 DEF Doing, At
  <2>2. ObjectsOf(e) \subseteq {i}
    BY <1>2, <1>3, <2>1 DEF SInv
  <2>3. ObjectsOf(e)' = {}
    BY <1>4, <2>2 DEF ObjectsOf, There
  <2>4. FoundOf(e) \subseteq {i}
    <3>1. \A d \in Callers : ~Doing(d, "delete", "done", e)
      BY <2>1 DEF OneCaller, Doing, At
    <3> QED BY <2>2, <3>1 DEF SInv
  <2>5. runs'[c] = r /\ \A d \in Callers : d = c
    BY <1>6, PutSets DEF OneCaller
  <2>6. Doing(c, "delete", "done", e)' /\ runs'[c].answer = {i}
    BY <1>6, <1>9, <2>5 DEF Doing, At
  <2>7. \A d \in Callers : /\ ~Doing(d, "create", "sent", e)' /\ ~Doing(d, "create", "done", e)'
                           /\ ~Doing(d, "delete", "sent", e)'
                           /\ ~Doing(d, "fetch", "done", "specifications")'
    BY <2>5, <2>6 DEF Doing, At
  <2> QED BY <1>7, <2>3, <2>4, <2>6, <2>7 DEF SInv
<1> QED BY <1>8, <1>9

\* A run that goes on makes an agent, or is over.
LEMMA CreatedPuts ==
  ASSUME HreaAssumption, HreaInv, NEW c \in Callers, Created(c)
  PROVE  \E r : Put(c, r) /\ (r = NoRun \/ (r.op = "create" /\ r.of \in Agents))
<1>1. PICK rest, flying : rest = runs[c].rest /\ flying = inFlight \ {runs[c].of}
  OBVIOUS
<1>2. PICK m : GoesOn(c, rest, flying, m)
  BY <1>1, CreatedGoes
<1>3. rest \subseteq Agents
  BY <1>1, CreatedGoes DEF HreaInv, RunsFit, Fits, At
<1> QED BY <1>2, <1>3 DEF GoesOn, Run

LEMMA NotAgent ==
  ASSUME HreaAssumption, NEW e \in ServiceTypes
  PROVE  e \notin Agents /\ e \notin Mediums /\ e \in Specified
BY DEF HreaAssumption, Agents, Specified

LEMMA CreatedS ==
  ASSUME HreaAssumption, HreaInv, OneCaller, NEW e \in ServiceTypes, SInv(e), NEW c \in Callers, Created(c)
  PROVE  SInv(e)'
<1>1. PICK r : Put(c, r) /\ (r = NoRun \/ (r.op = "create" /\ r.of \in Agents))
  BY CreatedPuts
<1>2. PICK o, x : o = runs[c].of /\ x = runs[c].answer
  OBVIOUS
<1>3. /\ runs[c].op = "create" /\ runs[c].stage = "done" /\ UNCHANGED <<host, status, fetched>>
      /\ known' = [known EXCEPT ![ArrayOf(o)] = @ \cup x]
  BY <1>2, CreatedGoes DEF At
<1>4. PICK i \in Objects : x = {i} /\ host[i].of = o
  BY <1>2, <1>3 DEF HreaInv, RunsFit, Fits, Objects
<1>5. Apart(r, e) /\ r.op # "delete" /\ (r.op = "create" => r.of # e) /\ r.op # "fetch"
  BY <1>1, NoRunIs, NotAgent DEF Apart
<1>6. CASE o # e
  <2>1. FoundOf(e)' = FoundOf(e)
    BY <1>3, <1>4, <1>6 DEF FoundOf, Found, HreaInv, KnownFits, Arrays, ArrayOf
  <2>2. Untouched(e)
    BY <1>3, <2>1 DEF Untouched, ObjectsOf, Objects, There
  <2> QED BY <1>1, <1>2, <1>5, <1>6, <2>2, SKeeps
<1>7. CASE o = e
  <2>1. Doing(c, "create", "done", e)
    BY <1>2, <1>3, <1>7 DEF Doing, At
  <2>2. ObjectsOf(e) = {i} /\ status[e] = "approved"
    BY <1>2, <1>4, <2>1 DEF SInv
  <2>3. FoundOf(e)' = FoundOf(e) \cup {i}
    BY <1>3, <1>4, <1>7, NotAgent DEF FoundOf, Found, HreaInv, KnownFits, Arrays, ArrayOf
  <2>4. FoundOf(e) \subseteq {i}
    <3>1. \A d \in Callers : ~Doing(d, "delete", "done", e)
      BY <2>1 DEF OneCaller, Doing, At
    <3> QED BY <2>2, <3>1 DEF SInv
  <2>5. runs'[c] = r /\ \A d \in Callers : d = c
    BY <1>1, PutSets DEF OneCaller
  <2>6. \A d \in Callers : /\ ~Doing(d, "create", "sent", e)' /\ ~Doing(d, "create", "done", e)'
                           /\ ~Doing(d, "delete", "sent", e)' /\ ~Doing(d, "delete", "done", e)'
                           /\ ~Doing(d, "fetch", "done", "specifications")'
    BY <1>5, <2>5 DEF Doing, At
  <2>7. ObjectsOf(e)' = {i}
    BY <1>3, <2>2 DEF ObjectsOf, Objects, There
  <2>8. \A j, k \in ObjectsOf(e)' : j = k
    BY <2>7
  <2> QED BY <1>3, <2>2, <2>3, <2>4, <2>6, <2>7, <2>8 DEF SInv
<1> QED BY <1>6, <1>7

LEMMA DeletedS ==
  ASSUME HreaInv, OneCaller, NEW e \in ServiceTypes, SInv(e), NEW c \in Callers, Deleted(c)
  PROVE  SInv(e)'
<1>1. PICK o, x : o = runs[c].of /\ x = runs[c].answer
  OBVIOUS
<1>2. /\ runs[c].op = "delete" /\ runs[c].stage = "done" /\ UNCHANGED <<host, status, fetched>>
      /\ known' = [known EXCEPT !["specifications"] = @ \ x] /\ Put(c, NoRun)
  BY <1>1 DEF Deleted, Elsewhere, At
<1>3. PICK i \in Objects : x = {i} /\ host[i].of = o
  BY <1>1, <1>2 DEF HreaInv, RunsFit, Fits, Objects
<1>4. FoundOf(e)' = FoundOf(e) \ {i}
  BY <1>2, <1>3 DEF FoundOf, Found, HreaInv, KnownFits, Arrays
<1>5. CASE o # e
  <2>1. FoundOf(e)' = FoundOf(e)
    BY <1>3, <1>4, <1>5 DEF FoundOf, Found
  <2>2. Untouched(e) /\ Apart(NoRun, e)
    BY <1>2, <2>1, NoRunIs DEF Untouched, ObjectsOf, Objects, There, Apart
  <2> QED BY <1>1, <1>2, <1>5, <2>2, SKeeps
<1>6. CASE o = e
  <2>1. Doing(c, "delete", "done", e) /\ \A d \in Callers : d = c
    BY <1>1, <1>2, <1>6 DEF Doing, At, OneCaller
  <2>2. ObjectsOf(e) = {}
    BY <2>1 DEF SInv
  <2>3. FoundOf(e) \subseteq {i}
    BY <1>1, <1>3, <2>1, <2>2 DEF SInv
  <2>4. ObjectsOf(e)' = {} /\ FoundOf(e)' = {}
    BY <1>2, <1>4, <2>2, <2>3 DEF ObjectsOf, Objects, There
  <2>5. \A d \in Callers : runs'[d] = NoRun
    BY <1>2, <2>1, PutSets
  <2>6. \A d \in Callers : runs'[d].op = "none"
    BY <2>5, NoRunIs
  <2> QED BY <2>4, <2>6 DEF SInv, Doing, At
<1> QED BY <1>5, <1>6

\* A call about the type that fails cuts it short.
LEMMA FailsS ==
  ASSUME HreaInv, OneCaller, NEW e \in ServiceTypes, SInv(e), NEW c \in Callers, Fails(c), e \notin cutShort'
  PROVE  SInv(e)'
<1>1. Put(c, NoRun) /\ UNCHANGED <<host, known, status, fetched>> /\ cutShort' = cutShort \cup AboutIn({c})
  BY DEF Fails
<1>2. runs[c].op \in {"create", "delete"} => runs[c].of # e
  BY <1>1 DEF AboutIn
<1>3. Untouched(e) /\ Apart(NoRun, e)
  BY <1>1, UntouchedIs, NoRunIs DEF Apart
<1> QED BY <1>1, <1>2, <1>3, SKeeps

LEMMA FetchS ==
  ASSUME HreaAssumption, HreaInv, OneCaller, NEW e \in ServiceTypes, SInv(e), NEW c \in Callers, Fetch(c)
  PROVE  SInv(e)'
<1>1. PICK a, x : a = runs[c].of /\ x = Listing(a)
  OBVIOUS
<1>2. At(c, "fetch", "sent") /\ Answered(c, x) /\ UNCHANGED <<host, known, fetched, status>>
  BY <1>1 DEF Fetch, Elsewhere
<1>3. PICK r : r = Run("fetch", a, "done", runs[c].rest, x)
  OBVIOUS
<1>4. Put(c, r) /\ r.op = "fetch" /\ r.of = a /\ r.answer = x /\ runs[c].op = "fetch"
  BY <1>1, <1>2, <1>3, AnsweredPuts DEF HreaInv, Run, At
<1>5. Untouched(e)
  BY <1>2, UntouchedIs
<1>6. CASE a # "specifications"
  BY <1>4, <1>5, <1>6, SKeeps DEF Apart
<1>7. CASE a = "specifications"
  <2>1. \A i \in Objects : host[i].of = e => (There(i) <=> i \in x)
    BY <1>1, <1>7, NotAgent DEF Listing, ArrayOf
  <2>2. runs'[c] = r /\ \A d \in Callers : d = c
    BY <1>4, PutSets DEF OneCaller
  <2>3. \A d \in Callers : \A st : ~Doing(d, "create", st, e) /\ ~Doing(d, "delete", st, e)
    BY <1>4, <2>2 DEF Doing, At
  <2>4. \A d \in Callers : /\ ~Doing(d, "create", "sent", e)' /\ ~Doing(d, "create", "done", e)'
                           /\ ~Doing(d, "delete", "sent", e)' /\ ~Doing(d, "delete", "done", e)'
    BY <1>4, <2>2 DEF Doing, At
  <2>5. \A d \in Callers : \A i \in Objects' : host'[i].of = e => (There(i)' <=> i \in runs'[d].answer)
    BY <1>2, <1>4, <2>1, <2>2 DEF Objects, There
  <2> QED BY <1>5, <2>3, <2>4, <2>5 DEF SInv, Untouched
<1> QED BY <1>6, <1>7

LEMMA GetAllS ==
  ASSUME HreaAssumption, HreaInv, OneCaller, NEW e \in ServiceTypes, SInv(e), NEW c \in Callers,
         NEW a \in Arrays, GetAll(c, a)
  PROVE  SInv(e)'
<1>1. CASE /\ Idle(c) /\ Sent(c, "fetch", a, {})
           /\ UNCHANGED <<host, known, mapping, inFlight>> /\ Elsewhere
  <2>1. PICK r : r = Run("fetch", a, "sent", {}, {})
    OBVIOUS
  <2>2. Put(c, r) /\ r.op = "fetch" /\ r.stage = "sent" /\ runs[c].op = "none"
    BY <1>1, <2>1 DEF Sent, Run, Idle, NoRun
  <2>3. Untouched(e) /\ Apart(r, e)
    BY <1>1, <2>2, UntouchedIs DEF Apart, Elsewhere
  <2> QED BY <2>2, <2>3, SKeeps
<1>2. CASE /\ At(c, "fetch", "done") /\ runs[c].of = a
           /\ known' = [known EXCEPT ![a] = runs[c].answer]
           /\ fetched' = fetched \cup {a}
           /\ Put(c, NoRun)
           /\ UNCHANGED <<host, mapping, inFlight, status, cutShort, failed, lost, reloads>>
  <2>1. Apart(NoRun, e) /\ runs[c].op = "fetch"
    BY <1>2, NoRunIs DEF Apart, At
  <2>2. CASE a # "specifications"
    <3>1. /\ known'["specifications"] = known["specifications"]
          /\ "specifications" \in fetched' => "specifications" \in fetched
      BY <1>2, <2>2 DEF HreaInv, KnownFits, Arrays
    <3>2. Untouched(e)
      BY <1>2, <3>1, UntouchedIn
    <3> QED BY <1>2, <2>1, <3>2, SKeeps
  <2>3. CASE a = "specifications"
    <3>1. PICK x : x = runs[c].answer
      OBVIOUS
    <3>2. known'["specifications"] = x /\ x \subseteq Objects
      BY <1>2, <2>3, <3>1 DEF HreaInv, KnownFits, Arrays, RunsFit, Fits, Objects
    <3>3. \A i \in Objects : host[i].of = e => (There(i) <=> i \in x)
      BY <1>2, <2>3, <3>1 DEF SInv, Doing
    <3>4. ObjectsOf(e)' = ObjectsOf(e) /\ FoundOf(e)' = ObjectsOf(e)
      <4>1. FoundOf(e)' = {i \in x : host[i].of = e}
        BY <1>2, <3>2 DEF FoundOf, Found
      <4> QED BY <1>2, <3>2, <3>3, <4>1 DEF ObjectsOf, Objects, There
    <3>5. runs'[c] = NoRun /\ \A d \in Callers : d = c
      BY <1>2, PutSets DEF OneCaller
    <3>6. \A d \in Callers : runs'[d].op = "none"
      BY <3>5, NoRunIs
    <3>7. \A d \in Callers : \A st : ~Doing(d, "delete", st, e)
      BY <2>1, <3>5 DEF Doing, At
    <3> QED BY <1>2, <3>4, <3>6, <3>7 DEF SInv, Doing, At
  <2> QED BY <2>2, <2>3
<1> QED BY <1>1, <1>2 DEF GetAll

LEMMA RetroPuts ==
  ASSUME HreaInv, NEW c \in Callers, CreateRetroactiveMappings(c)
  PROVE  /\ \E r : Put(c, r) /\ (r = NoRun \/ r.op = "retro" \/ (r.op = "create" /\ r.of \in Agents))
         /\ runs[c].op \in {"none", "retro"} /\ UNCHANGED <<host, known, status, fetched>>
<1>1. CASE /\ Asks(c, "agents")
           /\ \E S \in {Users, Organizations} :
                Unmapped(S) # {} /\ Sent(c, "retro", "agents", Unmapped(S))
           /\ UNCHANGED <<host, known, mapping, inFlight>> /\ Elsewhere
  <2>1. PICK S \in {Users, Organizations} : Sent(c, "retro", "agents", Unmapped(S))
    BY <1>1
  <2>2. PICK r : r = Run("retro", "agents", "sent", Unmapped(S), {})
    OBVIOUS
  <2>3. Put(c, r) /\ r.op = "retro"
    BY <2>1, <2>2 DEF Sent, Run
  <2> QED BY <1>1, <2>3 DEF Asks, Idle, NoRun, Run, Elsewhere
<1>2. CASE /\ At(c, "retro", "sent")
           /\ Answered(c, Listing("agents"))
           /\ UNCHANGED <<host, known, mapping, inFlight>> /\ Elsewhere
  <2>1. PICK r : r = Run(runs[c].op, runs[c].of, "done", runs[c].rest, Listing("agents"))
    OBVIOUS
  <2>2. Put(c, r) /\ r.op = "retro"
    BY <1>2, <2>1, AnsweredPuts DEF HreaInv, Run, At
  <2> QED BY <1>2, <2>2 DEF At, Elsewhere
<1>3. CASE At(c, "retro", "done") /\ UNCHANGED <<host, known>> /\ Elsewhere
  <2>1. PICK rest, m : rest \subseteq Agents /\ GoesOn(c, rest, inFlight, m)
    BY <1>3, RetroGoes
  <2> QED BY <1>3, <2>1 DEF GoesOn, Run, At, Elsewhere
<1> QED BY <1>1, <1>2, <1>3 DEF CreateRetroactiveMappings

LEMMA RetroS ==
  ASSUME HreaAssumption, HreaInv, OneCaller, NEW e \in ServiceTypes, SInv(e), NEW c \in Callers,
         CreateRetroactiveMappings(c)
  PROVE  SInv(e)'
<1>1. PICK r : Put(c, r) /\ (r = NoRun \/ r.op = "retro" \/ (r.op = "create" /\ r.of \in Agents))
  BY RetroPuts
<1>2. runs[c].op \in {"none", "retro"} /\ UNCHANGED <<host, known, status, fetched>>
  BY RetroPuts
<1>3. Untouched(e) /\ Apart(r, e)
  BY <1>1, <1>2, UntouchedIs, NoRunIs, NotAgent DEF Apart
<1> QED BY <1>1, <1>2, <1>3, SKeeps

\* A step that puts no call.
LEMMA SRest ==
  ASSUME HreaInv, NEW e, SInv(e), Untouched(e), UNCHANGED <<runs, host>>
  PROVE  SInv(e)'
BY DEF SInv, Untouched, Doing, At, Objects, There

LEMMA AgentOfS ==
  ASSUME HreaAssumption, HreaInv, OneCaller, NEW e \in ServiceTypes, SInv(e), NEW c \in Callers,
         NEW u \in Agents, Idle(c), AgentOf(c, u), UNCHANGED <<host, known>>, Elsewhere
  PROVE  SInv(e)'
<1>1. Untouched(e) /\ runs[c].op = "none"
  BY UntouchedIs DEF Elsewhere, Idle, NoRun, Run
<1>2. CASE UNCHANGED runs
  BY <1>1, <1>2, SRest
<1>3. CASE Sent(c, "create", u, {})
  <2>1. PICK r : r = Run("create", u, "sent", {}, {})
    OBVIOUS
  <2>2. Put(c, r) /\ r.op = "create" /\ r.of = u
    BY <1>3, <2>1 DEF Sent, Run
  <2>3. Apart(r, e)
    BY <2>2, NotAgent DEF Apart
  <2> QED BY <1>1, <2>2, <2>3, SKeeps
<1> QED BY <1>2, <1>3 DEF AgentOf

\* When a page or an event may ask, what is found of a type is what there is of it.
LEMMA FoundIsThere ==
  ASSUME HreaAssumption, Waits, OneCaller, NEW e \in ServiceTypes, SInv(e), NEW c \in Callers,
         Asks(c, "specifications")
  PROVE  /\ FindSpecification(e) = FoundOf(e) /\ FoundOf(e) = ObjectsOf(e)
         /\ \A d \in Callers : d = c /\ runs[d].op = "none"
<1>1. \A d \in Callers : d = c /\ runs[d].op = "none"
  BY DEF OneCaller, Asks, Idle, NoRun, Run
<1>2. FindSpecification(e) = FoundOf(e)
  BY NotAgent DEF FindSpecification, FoundOf
<1>3. "specifications" \in fetched
  BY DEF Asks
<1>4. \A d \in Callers : \A op, st : op # "none" => ~Doing(d, op, st, e)
  BY <1>1 DEF Doing, At
<1>5. FoundOf(e) = ObjectsOf(e)
  BY <1>3, <1>4 DEF SInv
<1> QED BY <1>1, <1>2, <1>5

LEMMA SpecificationOfS ==
  ASSUME HreaAssumption, Waits, HreaInv, OneCaller, NEW e \in ServiceTypes, SInv(e), NEW c \in Callers,
         NEW o \in Specified, Asks(c, "specifications"), SpecificationOf(c, o), UNCHANGED <<host, known, fetched>>,
         status'[e] = IF o = e THEN "approved" ELSE status[e]
  PROVE  SInv(e)'
<1>1. FindSpecification(e) = FoundOf(e) /\ FoundOf(e) = ObjectsOf(e)
  BY FoundIsThere
<1>2. \A d \in Callers : d = c /\ runs[d].op = "none"
  BY FoundIsThere
<1>3. ObjectsOf(e)' = ObjectsOf(e) /\ FoundOf(e)' = FoundOf(e)
  BY DEF ObjectsOf, Objects, There, FoundOf, Found
<1>4. CASE o # e
  <2>1. Untouched(e)
    BY <1>4, UntouchedIs
  <2>2. CASE UNCHANGED runs
    BY <2>1, <2>2, SRest
  <2>3. CASE Sent(c, "create", o, {})
    <3>1. PICK r : r = Run("create", o, "sent", {}, {})
      OBVIOUS
    <3>2. Put(c, r) /\ r.op = "create" /\ r.of = o
      BY <2>3, <3>1 DEF Sent, Run
    <3>3. Apart(r, e)
      BY <1>4, <3>2 DEF Apart
    <3> QED BY <1>2, <2>1, <3>2, <3>3, SKeeps
  <2> QED BY <2>2, <2>3 DEF SpecificationOf
<1>5. CASE o = e
  <2>1. status'[e] = "approved"
    BY <1>5
  <2>2. CASE UNCHANGED runs
    <3>1. \A d \in Callers : runs'[d].op = "none"
      BY <1>2, <2>2
    <3> QED BY <1>1, <1>3, <2>1, <3>1 DEF SInv, Doing, At
  <2>3. CASE FindSpecification(e) = {} /\ Sent(c, "create", e, {})
    <3>1. PICK r : r = Run("create", e, "sent", {}, {})
      OBVIOUS
    <3>2. Put(c, r) /\ r.op = "create" /\ r.of = e /\ r.stage = "sent"
      BY <2>3, <3>1 DEF Sent, Run
    <3>3. ObjectsOf(e)' = {} /\ FoundOf(e)' = {}
      BY <1>1, <1>3, <2>3
    <3>4. \A d \in Callers : runs'[d].op = "create" /\ runs'[d].stage = "sent"
      BY <1>2, <3>2, PutSets
    <3>5. \A d \in Callers : /\ ~Doing(d, "create", "done", e)' /\ ~Doing(d, "delete", "sent", e)'
                             /\ ~Doing(d, "delete", "done", e)' /\ ~Doing(d, "fetch", "done", "specifications")'
      BY <3>4 DEF Doing, At
    <3> QED BY <2>1, <3>3, <3>5 DEF SInv
  <2> QED BY <1>5, <2>2, <2>3 DEF SpecificationOf
<1> QED BY <1>4, <1>5

LEMMA WithdrawnS ==
  ASSUME HreaAssumption, Waits, HreaInv, OneCaller, NEW e \in ServiceTypes, SInv(e), NEW c \in Callers,
         NEW o \in Specified, NEW s, Withdrawn(c, o, s)
  PROVE  SInv(e)'
<1>0. /\ Asks(c, "specifications") /\ DeleteSpecification(c, o)
      /\ UNCHANGED <<host, known, fetched>> /\ (o # e => status'[e] = status[e])
  BY DEF Withdrawn, SpecificationOnly, Becomes, HreaInv, Counts
<1>1. FindSpecification(e) = FoundOf(e) /\ FoundOf(e) = ObjectsOf(e)
  BY <1>0, FoundIsThere
<1>2. \A d \in Callers : d = c /\ runs[d].op = "none"
  BY <1>0, FoundIsThere
<1>3. ObjectsOf(e)' = ObjectsOf(e) /\ FoundOf(e)' = FoundOf(e)
  BY <1>0 DEF ObjectsOf, Objects, There, FoundOf, Found
<1>4. CASE o # e
  <2>1. Untouched(e)
    BY <1>0, <1>4, UntouchedIs
  <2>2. CASE UNCHANGED runs
    BY <1>0, <2>1, <2>2, SRest
  <2>3. ASSUME NEW i, Put(c, Run("delete", o, "sent", {}, {i})) PROVE SInv(e)'
    <3>1. PICK r : r = Run("delete", o, "sent", {}, {i})
      OBVIOUS
    <3>2. Put(c, r) /\ r.op = "delete" /\ r.of = o
      BY <2>3, <3>1 DEF Run
    <3>3. Apart(r, e)
      BY <1>4, <3>2 DEF Apart
    <3> QED BY <1>2, <2>1, <3>2, <3>3, SKeeps
  <2> QED BY <1>0, <2>2, <2>3 DEF DeleteSpecification
<1>5. CASE o = e
  <2>1. CASE FindSpecification(e) = {} /\ UNCHANGED runs
    <3>1. \A d \in Callers : runs'[d].op = "none"
      BY <1>2, <2>1
    <3>2. ObjectsOf(e)' = {} /\ FoundOf(e)' = {}
      BY <1>1, <1>3, <2>1
    <3> QED BY <3>1, <3>2 DEF SInv, Doing, At
  <2>2. ASSUME NEW i \in FindSpecification(e), Put(c, Run("delete", e, "sent", {}, {i})) PROVE SInv(e)'
    <3>1. PICK x, r : x = {i} /\ r = Run("delete", e, "sent", {}, x)
      OBVIOUS
    <3>2. Put(c, r) /\ r.op = "delete" /\ r.of = e /\ r.stage = "sent" /\ r.answer = x
      BY <2>2, <3>1 DEF Run
    <3>3. ObjectsOf(e) = {i}
      BY <1>1, <2>2 DEF SInv
    <3>4. \A d \in Callers : /\ runs'[d].op = "delete" /\ runs'[d].stage = "sent"
                             /\ runs'[d].of = e /\ runs'[d].answer = {i}
      BY <1>2, <3>1, <3>2, PutSets
    <3>5. \A d \in Callers : /\ Doing(d, "delete", "sent", e)'
                             /\ ~Doing(d, "create", "sent", e)' /\ ~Doing(d, "create", "done", e)'
                             /\ ~Doing(d, "delete", "done", e)' /\ ~Doing(d, "fetch", "done", "specifications")'
      BY <3>4 DEF Doing, At
    <3>6. \A j, k \in ObjectsOf(e)' : j = k
      BY <1>3, <3>3
    <3> QED BY <1>1, <1>3, <3>3, <3>4, <3>5, <3>6 DEF SInv
  <2> QED BY <1>0, <1>5, <2>1, <2>2 DEF DeleteSpecification
<1> QED BY <1>4, <1>5

LEMMA ReloadS ==
  ASSUME HreaAssumption, HreaInv, NEW e \in ServiceTypes, SInv(e), Reload, e \notin cutShort'
  PROVE  SInv(e)'
<1>1. /\ UNCHANGED <<host, status>> /\ fetched' = {} /\ cutShort' = cutShort \cup AboutIn(Callers)
      /\ known' = [a \in Arrays |-> {}]
  BY DEF Reload, HreaInv, KnownFits
<1>2. \A d \in Callers : runs[d].op \in {"create", "delete"} => runs[d].of # e
  BY <1>1 DEF AboutIn
<1>3. ObjectsOf(e)' = ObjectsOf(e) /\ FoundOf(e)' = {}
  BY <1>1 DEF ObjectsOf, Objects, There, FoundOf, Found, Arrays
<1>4. \A d \in Callers : runs'[d].op = "none"
  BY NoRunIs DEF Reload
<1>5. \A d \in Callers : \A st : ~Doing(d, "delete", st, e)
  BY <1>2 DEF Doing, At
<1> QED BY <1>1, <1>3, <1>4, <1>5 DEF SInv, Doing, At

LEMMA NextSInv ==
  ASSUME HreaAssumption, Waits, HreaInv, OneCaller, NEW e \in ServiceTypes, SInv(e),
         [Next]_hreaVars, e \notin cutShort'
  PROVE  SInv(e)'
<1>1. CASE Reload
  BY <1>1, ReloadS
<1>2. ASSUME NEW c \in Callers, StepOf(c) PROVE SInv(e)'
  <2>1. ASSUME NEW u \in Agents, Asks(c, "agents"), AgentOf(c, u), UNCHANGED <<host, known>>, Elsewhere
        PROVE  SInv(e)'
    BY <2>1, AgentOfS DEF Asks
  <2>2. ASSUME NEW o \in Specified, Approved(c, o) PROVE SInv(e)'
    <3>1. status'[e] = IF o = e THEN "approved" ELSE status[e]
      BY <2>2, NotAgent DEF Approved, Becomes, HreaInv, Counts
    <3> QED BY <2>2, <3>1, SpecificationOfS DEF Approved, SpecificationOnly
  <2>3. ASSUME NEW o \in Specified, SyncServiceType(c, o) \/ SyncMedium(c, o) PROVE SInv(e)'
    <3>1. status'[e] = IF o = e THEN "approved" ELSE status[e]
      BY <2>3, NotAgent DEF SyncServiceType, SyncMedium
    <3> QED BY <2>3, <3>1, SpecificationOfS DEF SyncServiceType, SyncMedium, SpecificationOnly
  <2>4. ~\E d \in Callers : \E t : ServiceTypeCreated(c, d, t)
    BY DEF OneCaller, ServiceTypeCreated
  <2>5. ASSUME NEW t \in ServiceTypes,
               \/ Approved(c, t) \/ Withdrawn(c, t, "rejected") \/ Withdrawn(c, t, "deleted")
               \/ SyncServiceType(c, t) \/ \E d \in Callers : ServiceTypeCreated(c, d, t)
        PROVE  SInv(e)'
    BY <2>2, <2>3, <2>4, <2>5, WithdrawnS DEF Specified
  <2>6. ASSUME NEW m \in Mediums,
               \/ Approved(c, m) \/ (\E s \in {"rejected", "deleted"} : Withdrawn(c, m, s)) \/ SyncMedium(c, m)
        PROVE  SInv(e)'
    BY <2>2, <2>3, <2>6, WithdrawnS DEF Specified
  <2> QED BY <1>2, <2>1, <2>5, <2>6, CreateS, DeleteS, CreatedS, DeletedS, FailsS, GetAllS, FetchS, RetroS DEF StepOf
<1>3. CASE UNCHANGED hreaVars
  BY <1>3, UntouchedIs, SRest DEF hreaVars
<1> QED BY <1>1, <1>2, <1>3, StepsOf

SpecificationsFit == \A e \in ServiceTypes \ cutShort : SInv(e)

LEMMA CutGrows == ASSUME [Next]_hreaVars PROVE cutShort \subseteq cutShort'
<1>1. CASE Reload
  BY <1>1 DEF Reload
<1>2. ASSUME NEW c \in Callers, StepOf(c) PROVE cutShort \subseteq cutShort'
  BY <1>2 DEF StepOf, Create, Delete, Created, Deleted, Fails, Fetch, GetAll, CreateRetroactiveMappings, Elsewhere,
              Approved, Withdrawn, SyncServiceType, ServiceTypeCreated, SyncMedium, SpecificationOnly
<1> QED BY <1>1, <1>2, StepsOf DEF hreaVars

LEMMA SpecificationsAlwaysFit ==
  ASSUME HreaAssumption, Waits, OneCaller
  PROVE  Spec => []SpecificationsFit
<1>1. Init => HreaInv /\ SpecificationsFit
  BY InitHreaInv, InitSInv DEF SpecificationsFit
<1>2. HreaInv /\ SpecificationsFit /\ [Next]_hreaVars => (HreaInv /\ SpecificationsFit)'
  <2> SUFFICES ASSUME HreaInv, SpecificationsFit, [Next]_hreaVars PROVE (HreaInv /\ SpecificationsFit)'
    OBVIOUS
  <2>1. ASSUME NEW e \in ServiceTypes, e \notin cutShort' PROVE SInv(e)'
    <3>1. SInv(e)
      BY <2>1, CutGrows DEF SpecificationsFit
    <3> QED BY <2>1, <3>1, NextSInv
  <2> QED BY <2>1, NextHreaInv DEF SpecificationsFit
<1> QED BY <1>1, <1>2, PTL DEF Spec

\* A service type that is rejected or deleted by an administrator who waits for
\* each call leaves no specification, unless a call about it failed or the page
\* was left during one (hrea.store.svelte.ts:365-396, 1138-1184).
THEOREM NoneLeftOverAlone ==
  ASSUME HreaAssumption, Waits, OneCaller
  PROVE  Spec => []NoneLeftOver
<1>1. SpecificationsFit => NoneLeftOver
  BY DEF SpecificationsFit, NoneLeftOver, SInv, Doing, At, Idle, NoRun, Run
<1> QED BY <1>1, SpecificationsAlwaysFit, PTL

OneUnlessCutShort == \A e \in ServiceTypes \ cutShort : Cardinality(ObjectsOf(e)) <= 1

\* Nor does such a service type ever have two: the check for one that is there
\* suffices where each call is waited for (hrea.store.svelte.ts:955-968).
THEOREM OneSpecificationAlone ==
  ASSUME HreaAssumption, Waits, OneCaller
  PROVE  Spec => []OneUnlessCutShort
<1>1. SpecificationsFit => OneUnlessCutShort
  <2> SUFFICES ASSUME SpecificationsFit, NEW e \in ServiceTypes \ cutShort
               PROVE  Cardinality(ObjectsOf(e)) <= 1
    BY DEF OneUnlessCutShort
  <2>1. \A i, j \in ObjectsOf(e) : i = j
    BY DEF SpecificationsFit, SInv
  <2>2. CASE ObjectsOf(e) = {}
    BY <2>2, FS_EmptySet
  <2>3. ASSUME NEW i \in ObjectsOf(e) PROVE Cardinality(ObjectsOf(e)) <= 1
    <3>1. ObjectsOf(e) = {i}
      BY <2>1, <2>3
    <3>2. Cardinality({i}) = 1
      BY FS_Singleton
    <3> QED BY <3>1, <3>2
  <2> QED BY <2>2, <2>3
<1> QED BY <1>1, SpecificationsAlwaysFit, PTL

-----------------------------------------------------------------------------
(* The test page: what its calls, the store and the lists are. *)

Items == [of : T!Entities, name : Nat]
Entries == [id : Nat, name : Nat]
ResultSets == [created : SUBSET T!Entities, updated : SUBSET T!Entities, errors : SUBSET T!Entities]
LoadStages == {"agents", "specs", "fetched", "list"}
SyncStages == {"next", "create", "created", "update", "updated", "reload", "fetched"}
DecideStages == {"approved", "rejected", "create", "created", "delete", "deleted"}
CallStages == LoadStages \cup SyncStages \cup DecideStages \cup {"none"}

RunSet(answer) ==
  [op : {"none", "load", "sync", "decide"}, stage : CallStages, of : T!Tabs \cup {"event", "none"},
   mounted : BOOLEAN, alone : BOOLEAN, given : SUBSET Items, rest : Seq(Items),
   answer : {answer}, results : ResultSets]

\* Those at which a run has a current item.
ItemStages == {"create", "created", "update", "updated", "approved", "rejected", "delete", "deleted"}
\* Those at which it has the number of a specification.
NumberStages == {"created", "update", "updated", "delete", "deleted"}

\* What a run is, while the host has n specifications.
RunOK(r, n) ==
  /\ r \in RunSet(r.answer)
  /\ r.op = "none" => r = T!NoRun
  /\ r.op = "load" => r.stage \in LoadStages
  /\ r.op = "load" => r.of \in T!Tabs \cup {"event"} /\ (r.stage = "list" => r.of \in T!Tabs)
  /\ r.op = "sync" => r.stage \in SyncStages
  /\ r.op = "decide" => r.stage \in DecideStages
  /\ r.stage \in ItemStages => r.rest # <<>>
  /\ r.stage \in NumberStages => r.answer \in Seq(Nat) /\ Len(r.answer) = 1 /\ r.answer[1] \in 1 .. n
  /\ r.stage = "fetched" => r.answer \in Seq(Entries) /\ \A k \in DOMAIN r.answer : r.answer[k].id \in 1 .. n

ListOK(S) == S \in SUBSET Items /\ IsFiniteSet(S)

DataOK ==
  /\ approved \subseteq T!Entities
  /\ named \in [T!Entities -> Nat]
  /\ host \in Seq([of : T!Entities, name : Nat, there : BOOLEAN])
  /\ specs \in Seq(Entries) /\ \A n \in DOMAIN specs : specs[n].id \in 1 .. Len(host)
  /\ lists = [t \in T!Tabs |-> lists[t]] /\ \A t \in T!Tabs : ListOK(lists[t])

FlagsOK ==
  /\ storeLoading \in BOOLEAN
  /\ tab \in T!Tabs \cup {"elsewhere"}
  /\ loading \in BOOLEAN /\ syncing \in BOOLEAN /\ error \in BOOLEAN
  /\ results \in ResultSets
  /\ whole \in BOOLEAN /\ doubtful \in BOOLEAN
  /\ decisions \in Nat /\ others \in Nat /\ failures \in Nat

RunsOK == runs = [c \in Callers |-> runs[c]] /\ \A c \in Callers : RunOK(runs[c], Len(host))

TypeInv == DataOK /\ FlagsOK /\ RunsOK

-----------------------------------------------------------------------------
\* Of a person who waits: one call is under way besides those that ask for the
\* lists last, and the flags say so.
BusyRun(r) == r.op # "none" /\ ~(r.op = "load" /\ r.stage = "list")

WaitsInv ==
  /\ \A c, d \in Callers : BusyRun(runs[c]) /\ BusyRun(runs[d]) => c = d
  /\ \A c \in Callers : runs[c].op # "none" =>
       /\ runs[c].mounted
       /\ runs[c].op = "decide" <=> tab = "elsewhere"
       /\ runs[c].op # "decide" => runs[c].of = tab
  /\ \A c \in Callers : BusyRun(runs[c]) /\ runs[c].op = "load" => loading
  /\ \A c \in Callers : runs[c].op = "sync" => syncing

-----------------------------------------------------------------------------
\* A list has what belongs on its tab.
ListsInv == \A t \in T!Tabs : \A r \in lists[t] : T!TabOf(r.of) = t

-----------------------------------------------------------------------------
\* Nothing twice.
InStore(i) == \E n \in DOMAIN specs : specs[n].id = i
Missing(i) == i \in DOMAIN host /\ T!There(i) /\ host[i].of \in Types /\ ~InStore(i)

Fresh(S) == \A r \in S : r.of \in approved /\ r = T!Item(r.of)

\* Runs that go through items, or make the specification of one.
MakingOne(c) == runs[c].op = "sync" \/ T!At(c, "decide", "create") \/ T!At(c, "decide", "created")

OnceInv ==
  /\ \A e \in Types : \A i, j \in DOMAIN host :
        T!There(i) /\ T!There(j) /\ host[i].of = e /\ host[j].of = e => i = j
  /\ \A i \in DOMAIN host : Missing(i) /\ whole =>
       \E c \in Callers : runs[c].stage = "created" /\ runs[c].answer[1] = i
  /\ \A i \in DOMAIN host : Missing(i) =>
       \A c \in Callers : MakingOne(c) =>
         \A k \in DOMAIN runs[c].rest : runs[c].rest[k].of = host[i].of =>
            k = 1 /\ runs[c].stage = "created" /\ runs[c].answer[1] = i
  /\ \A c \in Callers : runs[c].stage = "create" /\ T!Current(c).of \in Types =>
       \A i \in DOMAIN host : T!There(i) => host[i].of # T!Current(c).of
  /\ \A c \in Callers : runs[c].stage = "deleted" => ~T!There(runs[c].answer[1])

\* While nobody else acts, the lists and the runs have each item once, as it is.
ItemsInv ==
  /\ \A t \in T!Tabs : Fresh(lists[t])
  /\ \A c \in Callers : \A k \in DOMAIN runs[c].rest : runs[c].rest[k] = T!Item(runs[c].rest[k].of)
  /\ \A c \in Callers : \A j, k \in DOMAIN runs[c].rest : runs[c].rest[j].of = runs[c].rest[k].of => j = k

FetchedInv ==
  \A c \in Callers : runs[c].stage = "fetched" =>
    \A i \in DOMAIN host : T!There(i) => \E k \in DOMAIN runs[c].answer : runs[c].answer[k].id = i

NoneTwiceInv == others = 0 => ItemsInv /\ FetchedInv /\ (~doubtful => OnceInv)

-----------------------------------------------------------------------------
\* What is synchronised is there.
Named(i, e, S) == i \in DOMAIN host /\ T!There(i) /\ host[i].of = e /\ [of |-> e, name |-> host[i].name] \in S

SyncOK(c) ==
  LET r == runs[c]
  IN  /\ \A q \in r.given : q.of \in Types
      /\ \A k \in DOMAIN r.rest : r.rest[k] \in r.given
      /\ \A q \in r.given : q.of \in r.results.created \cup r.results.updated \/ \E k \in DOMAIN r.rest : r.rest[k].of = q.of
      /\ \A e \in r.results.created \cup r.results.updated : \E i \in DOMAIN host : Named(i, e, r.given)
      /\ r.stage \in {"update", "updated"} => host[r.answer[1]].of = T!Current(c).of
      /\ r.stage \in {"created", "updated"} => Named(r.answer[1], T!Current(c).of, r.given)
      /\ r.stage = "fetched" =>
           /\ r.rest = <<>>
           /\ \A i \in DOMAIN host : T!There(i) => \E k \in DOMAIN r.answer : r.answer[k] = [id |-> i, name |-> host[i].name]
      /\ r.stage = "reload" => r.rest = <<>>

Spoken(c) == runs[c].op = "sync" /\ runs[c].of = "types" /\ runs[c].alone /\ runs[c].results.errors = {}

SyncedInv == \A c \in Callers : Spoken(c) => SyncOK(c)

-----------------------------------------------------------------------------
\* What the tab says.
AllOf(t) == {T!Item(e) : e \in {x \in approved : T!TabOf(x) = t}}
EntitiesOf(S) == {r.of : r \in S}
RestOf(s) == {s[k].of : k \in DOMAIN s}
CountsOf(r) == r.created \cup r.updated \cup r.errors

\* A synchronisation of a tab was given what is approved, or nothing.
SyncTab(c) ==
  /\ runs[c].of \in T!Tabs
  /\ T!Mounted(c) => runs[c].of = tab
  /\ runs[c].given \in {{}, AllOf(runs[c].of)}
  /\ \A k \in DOMAIN runs[c].rest : runs[c].rest[k] \in runs[c].given
  /\ EntitiesOf(runs[c].given) = CountsOf(runs[c].results) \cup RestOf(runs[c].rest)

TabRun(c) ==
  /\ runs[c].op # "decide"
  /\ runs[c].op = "load" => runs[c].of \in T!Tabs
  /\ runs[c].op = "sync" => SyncTab(c)

HostApproved == \A i \in DOMAIN host : host[i].of \in approved
ListsWhole == \A t \in T!Tabs : lists[t] \in {{}, AllOf(t)}
TabLoads == tab \in T!Tabs => lists[tab] = AllOf(tab) \/ \E c \in Callers : runs[c].op = "load" /\ runs[c].of = tab
ResultsWhole == CountsOf(results) # {} => tab \in T!Tabs /\ CountsOf(results) = EntitiesOf(AllOf(tab))

Calm == others = 0 /\ decisions = 0 /\ failures = 0

TabInv == Calm => HostApproved /\ ListsWhole /\ TabLoads /\ ResultsWhole /\ \A c \in Callers : TabRun(c)

WInv == ListsInv /\ (Waits => WaitsInv /\ NoneTwiceInv /\ SyncedInv)
-----------------------------------------------------------------------------
(* Runs. *)

\* The helpers of the test page are those of finite sets and functions.
LEMMA TFinite ==
  ASSUME NEW A
  PROVE  (T!IsFiniteSet(A) <=> IsFiniteSet(A)) /\ T!Cardinality(A) = Cardinality(A)
<1>1. T!IsFiniteSet(A) <=> IsFiniteSet(A)
  BY DEF T!IsFiniteSet, IsFiniteSet
<1>2. T!Cardinality(A) = Cardinality(A)
  BY DEF T!Cardinality, Cardinality
<1> QED BY <1>1, <1>2

LEMMA TInjective ==
  ASSUME NEW f
  PROVE  T!IsInjective(f) <=> IsInjective(f)
BY DEF T!IsInjective, IsInjective

\* A finite set as a sequence.
LEMMA SetToSeqIs ==
  ASSUME NEW S, IsFiniteSet(S)
  PROVE  /\ T!SetToSeq(S) \in Seq(S)
         /\ T!ToSet(T!SetToSeq(S)) = S
         /\ \A i, j \in DOMAIN T!SetToSeq(S) : T!SetToSeq(S)[i] = T!SetToSeq(S)[j] => i = j
<1> DEFINE n == Cardinality(S)
<1>1. n \in Nat /\ ExistsBijection(1 .. n, S)
  BY FS_CardinalityType
<1>2. PICK f \in Bijection(1 .. n, S) : TRUE
  BY <1>1 DEF ExistsBijection
<1>3. f \in [1 .. n -> S] /\ IsInjective(f)
  BY <1>2 DEF Bijection, Injection
<1> DEFINE g == T!SetToSeq(S)
<1>4. g \in [1 .. n -> S] /\ IsInjective(g)
  BY <1>3, TFinite, TInjective DEF T!SetToSeq
<1> HIDE DEF g, n
<1>5. g \in Seq(S) /\ DOMAIN g = 1 .. n
  BY <1>1, <1>4, SeqDef
<1>6. \A i, j \in DOMAIN g : g[i] = g[j] => i = j
  BY <1>4 DEF IsInjective
<1>7. T!ToSet(g) = S
  <2>1. g \in Injection(1 .. n, S)
    BY <1>4 DEF Injection
  <2>2. IsFiniteSet(1 .. n) /\ Cardinality(1 .. n) = n
    <3>1. 1 \in Int /\ n \in Int
      BY <1>1
    <3>2. /\ IsFiniteSet(1 .. n)
          /\ Cardinality(1 .. n) = IF 1 > n THEN 0 ELSE n - 1 + 1
      BY <3>1, FS_Interval
    <3> QED BY <1>1, <3>2
  <2>3. g \in Surjection(1 .. n, S)
    BY <2>1, <2>2, FS_Injection DEF n
  <2>4. \A t \in S : \E s \in 1 .. n : g[s] = t
    BY <2>3 DEF Surjection
  <2> QED BY <1>4, <1>5, <2>4 DEF T!ToSet
<1> QED BY <1>5, <1>6, <1>7 DEF g

\* The members of a sequence, by their places.
LEMMA MembersOf ==
  ASSUME NEW S, IsFiniteSet(S)
  PROVE  /\ T!SetToSeq(S) \in Seq(S)
         /\ \A x \in S : \E k \in DOMAIN T!SetToSeq(S) : T!SetToSeq(S)[k] = x
         /\ \A j, k \in DOMAIN T!SetToSeq(S) : T!SetToSeq(S)[j] = T!SetToSeq(S)[k] => j = k
BY SetToSeqIs DEF T!ToSet

\* One place each.
LEMMA SetToSeqLen ==
  ASSUME NEW S, IsFiniteSet(S)
  PROVE  T!SetToSeq(S) \in [1 .. Cardinality(S) -> S]
<1> DEFINE n == Cardinality(S)
<1>1. n \in Nat /\ ExistsBijection(1 .. n, S)
  BY FS_CardinalityType
<1>2. PICK f \in Bijection(1 .. n, S) : TRUE
  BY <1>1 DEF ExistsBijection
<1>3. f \in [1 .. n -> S] /\ IsInjective(f)
  BY <1>2 DEF Bijection, Injection
<1> QED BY <1>3, TFinite, TInjective DEF T!SetToSeq

LEMMA EmptySetToSeq == T!SetToSeq({}) = <<>>
<1> DEFINE a == T!SetToSeq({})
<1>1. a \in Seq({})
  BY MembersOf, FS_EmptySet
<1> HIDE DEF a
<1>2. Len(a) \in Nat /\ DOMAIN a = 1 .. Len(a) /\ \A k \in 1 .. Len(a) : a[k] \in {}
  BY <1>1, ElementOfSeq, LenProperties
<1>3. Len(a) = 0
  BY <1>2
<1>4. a = <<>>
  BY <1>1, <1>3, EmptySeq
<1> QED BY <1>4 DEF a

LEMMA NoCallIs ==
  ASSUME NEW n \in Nat
  PROVE  RunOK(T!NoRun, n) /\ T!NoRun.op = "none" /\ T!NoRun.stage = "none" /\ T!NoRun.rest = <<>>
<1>1. T!NoRun = [op |-> "none", stage |-> "none", of |-> "none", mounted |-> TRUE, alone |-> TRUE,
               given |-> {}, rest |-> <<>>, answer |-> <<>>, results |-> T!NoResults]
  BY EmptySetToSeq DEF T!NoRun, T!Run
<1>2. <<>> \in Seq(Items)
  BY EmptySeq
<1>3. T!NoResults \in ResultSets
  BY DEF T!NoResults, ResultSets
<1>4. T!NoRun \in RunSet(<<>>) /\ T!NoRun.answer = <<>>
  BY <1>1, <1>2, <1>3 DEF RunSet, CallStages
<1>5. T!NoRun.op = "none" /\ T!NoRun.stage = "none" /\ T!NoRun.rest = <<>>
  BY <1>1
<1> QED BY <1>4, <1>5 DEF RunOK, ItemStages, NumberStages

\* A run that begins.
BeginsAs(op, s, S) ==
  \/ op = "load" /\ s = "agents"
  \/ op = "sync" /\ s = "next"
  \/ op = "decide" /\ s \in {"approved", "rejected"} /\ S # {}

LEMMA RunIs ==
  ASSUME NEW op \in {"load", "sync", "decide"}, NEW s, NEW t \in T!Tabs \cup {"event"}, NEW S, ListOK(S),
         NEW n \in Nat,
         BeginsAs(op, s, S)
  PROVE  LET r == T!Run(op, s, t, S)
         IN  /\ RunOK(r, n)
             /\ r.op = op /\ r.stage = s /\ r.of = t /\ r.mounted /\ r.alone /\ r.given = S
             /\ r.results = T!NoResults
             /\ \A k \in DOMAIN r.rest : r.rest[k] \in S
             /\ \A x \in S : \E k \in DOMAIN r.rest : r.rest[k] = x
             /\ \A j, k \in DOMAIN r.rest : r.rest[j] = r.rest[k] => j = k
<1> DEFINE r == T!Run(op, s, t, S)  a == T!SetToSeq(S)
<1>1. /\ a \in Seq(S) /\ (\A x \in S : \E k \in DOMAIN a : a[k] = x)
      /\ \A j, k \in DOMAIN a : a[j] = a[k] => j = k
  BY MembersOf DEF ListOK
<1>2. /\ r.op = op /\ r.stage = s /\ r.of = t /\ r.mounted /\ r.alone /\ r.given = S
      /\ r.results = T!NoResults /\ r.rest = a /\ r.answer = <<>>
  BY DEF T!Run
<1> HIDE DEF a
<1>3. a \in Seq(Items)
  BY <1>1, SeqMonotonic DEF ListOK
<1>4. \A k \in DOMAIN a : a[k] \in S
  BY <1>1, ElementOfSeq, LenProperties
<1>5. S # {} => a # <<>>
  <2> SUFFICES ASSUME S # {} PROVE a # <<>>
    OBVIOUS
  <2>1. PICK k \in DOMAIN a : TRUE
    BY <1>1
  <2> QED BY <2>1, <1>1, LenProperties
<1>6. r \in RunSet(<<>>)
  BY <1>3 DEF BeginsAs, T!Run, a, T!NoResults, RunSet, CallStages, LoadStages, SyncStages, DecideStages, ResultSets, ListOK, T!Tabs
<1> HIDE DEF r
<1>7. RunOK(r, n)
  BY <1>2, <1>5, <1>6 DEF BeginsAs, RunOK, LoadStages, SyncStages, DecideStages, ItemStages, NumberStages
<1> QED BY <1>1, <1>2, <1>4, <1>7 DEF r

LEMMA RunGrows ==
  ASSUME NEW r, NEW m \in Nat, NEW n \in Nat, m <= n, RunOK(r, m)
  PROVE  RunOK(r, n)
BY DEF RunOK

\* A stage fits a run.
FitsStage(r, s, a, n) ==
  /\ r.op # "none"
  /\ r.op = "load" => s \in LoadStages /\ (s = "list" => r.of \in T!Tabs)
  /\ r.op = "sync" => s \in SyncStages
  /\ r.op = "decide" => s \in DecideStages
  /\ s \in ItemStages => r.rest # <<>>
  /\ s \in NumberStages => a \in Seq(Nat) /\ Len(a) = 1 /\ a[1] \in 1 .. n
  /\ s = "fetched" => a \in Seq(Entries) /\ \A k \in DOMAIN a : a[k].id \in 1 .. n

LEMMA StageOK ==
  ASSUME NEW r, NEW m \in Nat, NEW n \in Nat, m <= n, RunOK(r, m), NEW s, NEW a, FitsStage(r, s, a, n)
  PROVE  RunOK([r EXCEPT !.stage = s, !.answer = a], n)
<1> DEFINE q == [r EXCEPT !.stage = s, !.answer = a]
<1>1. s \in CallStages
  BY DEF CallStages, FitsStage, LoadStages, SyncStages, DecideStages, RunOK, RunSet
<1>2. r \in RunSet(r.answer)
  BY DEF RunOK
<1>3. /\ q \in RunSet(a)
      /\ q.op = r.op /\ q.stage = s /\ q.of = r.of /\ q.rest = r.rest /\ q.answer = a
  BY <1>1, <1>2 DEF RunSet
<1> HIDE DEF q
<1>4. q \in RunSet(q.answer) /\ q.op # "none"
  BY <1>3 DEF FitsStage
<1>5. /\ q.op = "load" => q.of \in T!Tabs \cup {"event"} /\ (q.stage = "list" => q.of \in T!Tabs)
      /\ q.op = "load" => q.stage \in LoadStages
      /\ q.op = "sync" => q.stage \in SyncStages
      /\ q.op = "decide" => q.stage \in DecideStages
  BY <1>3 DEF RunOK, FitsStage
<1>6. /\ q.stage \in ItemStages => q.rest # <<>>
      /\ q.stage \in NumberStages => q.answer \in Seq(Nat) /\ Len(q.answer) = 1 /\ q.answer[1] \in 1 .. n
      /\ q.stage = "fetched" => q.answer \in Seq(Entries) /\ \A k \in DOMAIN q.answer : q.answer[k].id \in 1 .. n
  BY <1>3 DEF FitsStage
<1>7. RunOK(q, n)
  BY <1>4, <1>5, <1>6 DEF RunOK
<1> QED BY <1>7 DEF q

LEMMA StageOnlyOK ==
  ASSUME NEW r, NEW m \in Nat, NEW n \in Nat, m <= n, RunOK(r, m), NEW s, FitsStage(r, s, r.answer, n)
  PROVE  RunOK([r EXCEPT !.stage = s], n)
<1>1. r \in RunSet(r.answer)
  BY DEF RunOK
<1>2. [r EXCEPT !.stage = s] = [r EXCEPT !.stage = s, !.answer = r.answer]
  BY <1>1 DEF RunSet
<1> QED BY <1>2, StageOK

LEMMA TailIs ==
  ASSUME NEW S, NEW a \in Seq(S), a # <<>>
  PROVE  /\ Head(a) \in S /\ Head(a) = a[1] /\ 1 \in DOMAIN a
         /\ Tail(a) \in Seq(S)
         /\ \A k \in DOMAIN Tail(a) : k + 1 \in DOMAIN a /\ k + 1 # 1 /\ Tail(a)[k] = a[k + 1]
         /\ \A k \in DOMAIN a : k # 1 => k - 1 \in DOMAIN Tail(a) /\ Tail(a)[k - 1] = a[k]
BY HeadTailProperties, LenProperties, EmptySeq

\* What is counted.
CountedRun(r, field) ==
  [r EXCEPT !.stage = "next", !.rest = Tail(@), !.results[field] = @ \cup {Head(r.rest).of}]

LEMMA CountedIs ==
  ASSUME NEW r, NEW n \in Nat, RunOK(r, n), r.op = "sync", r.rest # <<>>,
         NEW field \in {"created", "updated", "errors"}
  PROVE  LET q == CountedRun(r, field)
         IN  /\ RunOK(q, n)
             /\ q.op = "sync" /\ q.stage = "next" /\ q.of = r.of /\ q.mounted = r.mounted
             /\ q.alone = r.alone /\ q.given = r.given /\ q.rest = Tail(r.rest) /\ q.answer = r.answer
             /\ \A f \in {"created", "updated", "errors"} :
                  q.results[f] = IF f = field THEN r.results[f] \cup {Head(r.rest).of} ELSE r.results[f]
<1> DEFINE q == CountedRun(r, field)
<1>1. r \in RunSet(r.answer)
  BY DEF RunOK
<1>2. /\ Head(r.rest) \in Items /\ Tail(r.rest) \in Seq(Items)
      /\ r.results \in ResultSets
  BY <1>1, TailIs DEF RunSet
<1> DEFINE x == [r.results EXCEPT ![field] = @ \cup {Head(r.rest).of}]
<1>3. x \in ResultSets
  BY <1>2 DEF ResultSets, Items
<1>4. \A f \in {"created", "updated", "errors"} :
        x[f] = IF f = field THEN r.results[f] \cup {Head(r.rest).of} ELSE r.results[f]
  BY <1>2 DEF ResultSets
<1>5. q = [r EXCEPT !.stage = "next", !.rest = Tail(@), !.results = x]
  BY <1>1 DEF RunSet, CountedRun
<1> HIDE DEF x, q
<1>6. /\ q \in RunSet(r.answer)
      /\ q.op = "sync" /\ q.stage = "next" /\ q.of = r.of /\ q.mounted = r.mounted
      /\ q.alone = r.alone /\ q.given = r.given /\ q.rest = Tail(r.rest) /\ q.answer = r.answer
      /\ q.results = x
  BY <1>1, <1>2, <1>3, <1>5 DEF RunSet, CallStages, SyncStages
<1>7. RunOK(q, n)
  <2>1. q \in RunSet(q.answer)
    BY <1>6
  <2> QED BY <1>6, <2>1 DEF RunOK, SyncStages, ItemStages, NumberStages
<1> QED BY <1>4, <1>6, <1>7 DEF q

LEMMA RunsWith ==
  ASSUME RunsOK, NEW c \in Callers, NEW r, runs' = [runs EXCEPT ![c] = r],
         Len(host) \in Nat, Len(host') \in Nat, Len(host) <= Len(host'), RunOK(r, Len(host'))
  PROVE  RunsOK'
<1>1. \A d \in Callers : RunOK(runs[d], Len(host'))
  BY RunGrows DEF RunsOK
<1>2. \A d \in Callers : runs'[d] = IF d = c THEN r ELSE runs[d]
  BY DEF RunsOK
<1> QED BY <1>1, <1>2 DEF RunsOK

-----------------------------------------------------------------------------
(* Types. *)

LEMMA SpecificationsAre ==
  ASSUME DataOK
  PROVE  /\ Len(host) \in Nat /\ DOMAIN host = 1 .. Len(host)
         /\ \A i \in DOMAIN host :
              host[i].of \in T!Entities /\ host[i].name \in Nat /\ host[i].there \in BOOLEAN
         /\ DOMAIN specs = 1 .. Len(specs) /\ Len(specs) \in Nat
         /\ \A n \in DOMAIN specs : specs[n] \in Entries /\ specs[n].id \in DOMAIN host
<1>1. /\ Len(host) \in Nat /\ DOMAIN host = 1 .. Len(host) /\ DOMAIN specs = 1 .. Len(specs) /\ Len(specs) \in Nat
  BY LenProperties DEF DataOK
<1>2. \A i \in DOMAIN host : host[i] \in [of : T!Entities, name : Nat, there : BOOLEAN]
  BY <1>1, ElementOfSeq DEF DataOK
<1>3. \A n \in DOMAIN specs : specs[n] \in Entries
  BY <1>1, ElementOfSeq DEF DataOK
<1> QED BY <1>1, <1>2, <1>3 DEF DataOK

LEMMA RunFields ==
  ASSUME RunsOK, NEW c \in Callers
  PROVE  /\ RunOK(runs[c], Len(host))
         /\ runs[c] \in RunSet(runs[c].answer)
         /\ runs[c].rest \in Seq(Items)
         /\ runs[c].results \in ResultSets
         /\ runs[c].mounted \in BOOLEAN
         /\ runs[c].given \in SUBSET Items
<1>1. RunOK(runs[c], Len(host)) /\ runs[c] \in RunSet(runs[c].answer)
  BY DEF RunsOK, RunOK
<1> QED BY <1>1 DEF RunSet

LEMMA StageMoves ==
  ASSUME TypeInv, NEW c \in Callers, NEW s, T!To(c, s), Len(host') \in Nat, Len(host) <= Len(host'),
         FitsStage(runs[c], s, runs[c].answer, Len(host'))
  PROVE  /\ RunsOK'
         /\ runs' = [runs EXCEPT ![c] = [runs[c] EXCEPT !.stage = s]]
<1>1. runs' = [runs EXCEPT ![c] = [runs[c] EXCEPT !.stage = s]]
  BY DEF T!To, TypeInv, RunsOK
<1>2. RunOK(runs[c], Len(host)) /\ Len(host) \in Nat
  BY SpecificationsAre DEF TypeInv, RunsOK
<1>3. RunOK([runs[c] EXCEPT !.stage = s], Len(host'))
  BY <1>2, StageOnlyOK
<1> QED BY <1>1, <1>2, <1>3, RunsWith DEF TypeInv

LEMMA AnswerMoves ==
  ASSUME TypeInv, NEW c \in Callers, NEW s, NEW a, T!Answered(c, s, a), Len(host') \in Nat, Len(host) <= Len(host'),
         FitsStage(runs[c], s, a, Len(host'))
  PROVE  /\ RunsOK'
         /\ runs' = [runs EXCEPT ![c] = [runs[c] EXCEPT !.stage = s, !.answer = a]]
<1>1. runs' = [runs EXCEPT ![c] = [runs[c] EXCEPT !.stage = s, !.answer = a]]
  BY DEF T!Answered, TypeInv, RunsOK
<1>2. RunOK(runs[c], Len(host)) /\ Len(host) \in Nat
  BY SpecificationsAre DEF TypeInv, RunsOK
<1>3. RunOK([runs[c] EXCEPT !.stage = s, !.answer = a], Len(host'))
  BY <1>2, StageOK
<1> QED BY <1>1, <1>2, <1>3, RunsWith DEF TypeInv

LEMMA CountMoves ==
  ASSUME TypeInv, NEW c \in Callers, NEW field \in {"created", "updated", "errors"}, T!Counted(c, field), UNCHANGED host,
         runs[c].op = "sync", runs[c].rest # <<>>
  PROVE  /\ RunsOK'
         /\ runs' = [runs EXCEPT ![c] = CountedRun(runs[c], field)]
<1>1. runs' = [runs EXCEPT ![c] = CountedRun(runs[c], field)]
  BY DEF T!Counted, T!Current, CountedRun, TypeInv, RunsOK
<1>2. RunOK(runs[c], Len(host)) /\ Len(host) \in Nat
  BY SpecificationsAre DEF TypeInv, RunsOK
<1>3. RunOK(CountedRun(runs[c], field), Len(host')) /\ Len(host') = Len(host) /\ Len(host) <= Len(host')
  BY <1>2, CountedIs
<1> QED BY <1>1, <1>2, <1>3, RunsWith DEF TypeInv

LEMMA EndMoves ==
  ASSUME TypeInv, NEW c \in Callers, T!Put(c, T!NoRun), UNCHANGED host
  PROVE  /\ RunsOK'
         /\ runs' = [runs EXCEPT ![c] = T!NoRun]
<1>1. RunOK(T!NoRun, Len(host')) /\ Len(host) \in Nat /\ Len(host') = Len(host) /\ Len(host) <= Len(host')
  BY SpecificationsAre, NoCallIs DEF TypeInv
<1> QED BY <1>1, RunsWith DEF TypeInv, T!Put

LEMMA BeginMoves ==
  ASSUME TypeInv, NEW c \in Callers, NEW r, T!Put(c, r), UNCHANGED host, RunOK(r, Len(host))
  PROVE  RunsOK'
<1>1. Len(host) \in Nat /\ Len(host') = Len(host) /\ Len(host) <= Len(host')
  BY SpecificationsAre DEF TypeInv
<1> QED BY <1>1, RunsWith DEF TypeInv, T!Put

\* Runs that were left, and runs that were disturbed.
LEMMA MarkedOK ==
  ASSUME RunsOK
  PROVE  /\ T!Unmounted = [d \in Callers |-> T!Unmounted[d]] /\ T!Disturbed = [d \in Callers |-> T!Disturbed[d]]
         /\ \A d \in Callers :
              /\ RunOK(T!Unmounted[d], Len(host)) /\ RunOK(T!Disturbed[d], Len(host))
              /\ T!Idle(d) <=> runs[d].op = "none"
              /\ T!Unmounted[d] = IF T!Idle(d) THEN runs[d] ELSE [runs[d] EXCEPT !.mounted = FALSE]
              /\ T!Disturbed[d] = IF T!Idle(d) THEN runs[d] ELSE [runs[d] EXCEPT !.alone = FALSE]
<1>1. /\ T!Unmounted = [d \in Callers |-> T!Unmounted[d]] /\ T!Disturbed = [d \in Callers |-> T!Disturbed[d]]
  BY DEF T!Unmounted, T!Disturbed
<1>2. ASSUME NEW d \in Callers
      PROVE  /\ RunOK(T!Unmounted[d], Len(host)) /\ RunOK(T!Disturbed[d], Len(host))
             /\ T!Idle(d) <=> runs[d].op = "none"
             /\ T!Unmounted[d] = IF T!Idle(d) THEN runs[d] ELSE [runs[d] EXCEPT !.mounted = FALSE]
             /\ T!Disturbed[d] = IF T!Idle(d) THEN runs[d] ELSE [runs[d] EXCEPT !.alone = FALSE]
  <2>1. /\ T!Unmounted[d] = IF T!Idle(d) THEN runs[d] ELSE [runs[d] EXCEPT !.mounted = FALSE]
        /\ T!Disturbed[d] = IF T!Idle(d) THEN runs[d] ELSE [runs[d] EXCEPT !.alone = FALSE]
    BY DEF T!Unmounted, T!Disturbed
  <2>2. RunOK(runs[d], Len(host)) /\ runs[d] \in RunSet(runs[d].answer)
    BY RunFields
  <2>3. T!Idle(d) <=> runs[d].op = "none"
    <3>1. T!NoRun.op = "none"
      BY DEF T!NoRun, T!Run
    <3> QED BY <2>2, <3>1 DEF T!Idle, RunOK
  <2> DEFINE m == [runs[d] EXCEPT !.mounted = FALSE]  a == [runs[d] EXCEPT !.alone = FALSE]
  <2>4. /\ m \in RunSet(runs[d].answer) /\ m.answer = runs[d].answer /\ m.op = runs[d].op /\ m.stage = runs[d].stage
        /\ m.of = runs[d].of /\ m.rest = runs[d].rest
    BY <2>2 DEF RunSet
  <2>5. /\ a \in RunSet(runs[d].answer) /\ a.answer = runs[d].answer /\ a.op = runs[d].op /\ a.stage = runs[d].stage
        /\ a.of = runs[d].of /\ a.rest = runs[d].rest
    BY <2>2 DEF RunSet
  <2> HIDE DEF m, a
  <2>6. ~T!Idle(d) => RunOK(m, Len(host)) /\ RunOK(a, Len(host))
    BY <2>2, <2>3, <2>4, <2>5 DEF RunOK
  <2> QED BY <2>1, <2>2, <2>3, <2>6 DEF m, a
<1> QED BY <1>1, <1>2

\* What the host lists.
LEMMA ListingIs ==
  ASSUME DataOK
  PROVE  /\ T!Listing \in Seq(Entries)
         /\ \A k \in DOMAIN T!Listing : T!Listing[k].id \in DOMAIN host
         /\ \A i \in DOMAIN host : T!There(i) =>
              \E k \in DOMAIN T!Listing : T!Listing[k] = [id |-> i, name |-> host[i].name]
<1> DEFINE H == {j \in DOMAIN host : T!There(j)}
           Listed == {[id |-> i, name |-> host[i].name] : i \in H}
<1>1. IsFiniteSet(H)
  <2>1. IsFiniteSet(DOMAIN host)
    BY SpecificationsAre, FS_Interval
  <2> QED BY <2>1, FS_Subset
<1>2. IsFiniteSet(Listed)
  <2> DEFINE f == [i \in H |-> [id |-> i, name |-> host[i].name]]
  <2>1. f \in Surjection(H, Listed)
    BY DEF Surjection
  <2> QED BY <1>1, <2>1, FS_Surjection
<1>3. Listed \subseteq Entries
  BY SpecificationsAre DEF Entries
<1>4. T!Listing = T!SetToSeq(Listed)
  BY DEF T!Listing
<1>5. \A x \in Listed : x.id \in DOMAIN host
  OBVIOUS
<1>6. \A i \in DOMAIN host : T!There(i) => [id |-> i, name |-> host[i].name] \in Listed
  OBVIOUS
<1> HIDE DEF Listed
<1>7. /\ T!Listing \in Seq(Listed)
      /\ \A x \in Listed : \E k \in DOMAIN T!Listing : T!Listing[k] = x
  BY <1>2, <1>4, MembersOf
<1>8. T!Listing \in Seq(Entries)
  BY <1>3, <1>7, SeqMonotonic
<1>9. \A k \in DOMAIN T!Listing : T!Listing[k] \in Listed
  BY <1>7, ElementOfSeq, LenProperties
<1> QED BY <1>5, <1>6, <1>7, <1>8, <1>9

LEMMA ItemsFinite ==
  ASSUME T!HreaTestPageAssumption, TypeInv, NEW S \in SUBSET T!Entities
  PROVE  ListOK({T!Item(e) : e \in S})
<1> DEFINE Listed == {T!Item(e) : e \in S}  f == [e \in S |-> T!Item(e)]
<1>1. IsFiniteSet(S)
  <2>1. IsFiniteSet(T!Entities)
    BY FS_Union, TFinite DEF T!HreaTestPageAssumption, T!Entities
  <2> QED BY <2>1, FS_Subset
<1>2. f \in Surjection(S, Listed)
  BY DEF Surjection
<1>3. IsFiniteSet(Listed)
  BY <1>1, <1>2, FS_Surjection
<1>4. Listed \subseteq Items
  BY DEF T!Item, Items, TypeInv, DataOK
<1> QED BY <1>3, <1>4 DEF ListOK

LEMMA InitTypes == T!HreaTestPageAssumption /\ T!Init => TypeInv
<1> SUFFICES ASSUME T!HreaTestPageAssumption, T!Init PROVE TypeInv
  OBVIOUS
<1>1. PICK atStart \in SUBSET approved :
        host = [n \in 1 .. Cardinality(atStart) |-> [of |-> T!SetToSeq(atStart)[n], name |-> 1, there |-> TRUE]]
  BY TFinite DEF T!Init
<1>2. IsFiniteSet(atStart) /\ atStart \subseteq T!Entities
  <2>1. IsFiniteSet(T!Entities)
    BY FS_Union, TFinite DEF T!HreaTestPageAssumption, T!Entities
  <2> QED BY <2>1, FS_Subset DEF T!Init
<1> DEFINE a == T!SetToSeq(atStart)  m == Cardinality(atStart)
<1>3. m \in Nat /\ a \in Seq(atStart)
  BY <1>2, FS_CardinalityType, MembersOf
<1>4. Len(a) = m
  <2>1. a \in [1 .. m -> atStart]
    BY <1>2, SetToSeqLen
  <2> QED BY <2>1, <1>3, LenProperties
<1>5. \A n \in 1 .. m : a[n] \in T!Entities
  BY <1>2, <1>3, <1>4, ElementOfSeq
<1> HIDE DEF a, m
<1>6. host = [n \in 1 .. m |-> [of |-> a[n], name |-> 1, there |-> TRUE]]
  BY <1>1 DEF a, m
<1>7. host \in Seq([of : T!Entities, name : Nat, there : BOOLEAN])
  <2> DEFINE R == [of : T!Entities, name : Nat, there : BOOLEAN]
  <2>1. host \in [1 .. m -> R]
    BY <1>5, <1>6
  <2> HIDE DEF R
  <2>2. host \in Seq(R)
    BY <1>3, <2>1, SeqDef
  <2> QED BY <2>2 DEF R
<1>8. DataOK
  <2>1. specs \in Seq(Entries) /\ \A n \in DOMAIN specs : specs[n].id \in 1 .. Len(host)
    BY EmptySeq DEF T!Init
  <2>2. lists = [t \in T!Tabs |-> lists[t]] /\ \A t \in T!Tabs : ListOK(lists[t])
    BY FS_EmptySet DEF T!Init, ListOK
  <2> QED BY <1>7, <2>1, <2>2 DEF T!Init, DataOK
<1>9. FlagsOK
  BY DEF T!Init, FlagsOK, T!NoResults, ResultSets
<1>10. RunsOK
  <2>1. Len(host) \in Nat
    BY <1>8, SpecificationsAre
  <2> QED BY <2>1, NoCallIs DEF T!Init, RunsOK
<1> QED BY <1>8, <1>9, <1>10 DEF TypeInv

\* What the data and the flags of most steps are.
Same == UNCHANGED <<approved, named, host, lists>>

LEMMA SameData ==
  ASSUME DataOK, Same, specs' \in Seq(Entries), \A n \in DOMAIN specs' : specs'[n].id \in DOMAIN host
  PROVE  DataOK'
BY SpecificationsAre DEF DataOK, Same

LEMMA SpecsSame == ASSUME DataOK, UNCHANGED specs
                   PROVE specs' \in Seq(Entries) /\ \A n \in DOMAIN specs' : specs'[n].id \in DOMAIN host
BY SpecificationsAre DEF DataOK

LEMMA LoadRun ==
  ASSUME NEW t \in T!Tabs \cup {"event"}, NEW n \in Nat
  PROVE  LET r == T!Run("load", "agents", t, {})
         IN  /\ RunOK(r, n)
             /\ r.op = "load" /\ r.stage = "agents" /\ r.of = t /\ r.mounted /\ r.rest = <<>>
<1>1. ListOK({})
  BY FS_EmptySet DEF ListOK
<1>2. RunOK(T!Run("load", "agents", t, {}), n)
  <2>1. BeginsAs("load", "agents", {})
    BY DEF BeginsAs
  <2> QED BY <1>1, <2>1, RunIs
<1> QED BY <1>2, EmptySetToSeq DEF T!Run

LEMMA OpenTypes ==
  ASSUME TypeInv, NEW c \in Callers, NEW t \in T!Tabs, T!Open(c, t)
  PROVE  TypeInv'
<1>1. DataOK'
  BY SameData, SpecsSame DEF TypeInv, T!Open, T!Zomes, Same
<1>2. FlagsOK'
  BY DEF TypeInv, FlagsOK, T!Open, T!History, T!Bounds, T!NoResults, ResultSets
<1>3. RunsOK'
  <2> DEFINE r == T!Run("load", "agents", t, {})
  <2>1. Len(host) \in Nat /\ host' = host
    BY SpecificationsAre DEF TypeInv, T!Open
  <2>2. RunOK(r, Len(host))
    BY <2>1, LoadRun
  <2>3. runs' = [T!Unmounted EXCEPT ![c] = r]
    BY DEF T!Open
  <2> HIDE DEF r
  <2>4. \A d \in Callers : runs'[d] = IF d = c THEN r ELSE T!Unmounted[d]
    BY <2>3, MarkedOK DEF TypeInv
  <2>5. \A d \in Callers : RunOK(runs'[d], Len(host'))
    BY <2>1, <2>2, <2>4, MarkedOK DEF TypeInv
  <2>6. runs' = [d \in Callers |-> runs'[d]]
    BY <2>3, MarkedOK DEF TypeInv
  <2> QED BY <2>5, <2>6 DEF RunsOK
<1> QED BY <1>1, <1>2, <1>3 DEF TypeInv

LEMMA LeaveTypes == ASSUME TypeInv, T!Leave PROVE TypeInv'
<1>1. DataOK'
  BY SameData, SpecsSame DEF TypeInv, T!Leave, T!Zomes, Same
<1>2. FlagsOK'
  BY DEF TypeInv, FlagsOK, T!Leave, T!History, T!Bounds, T!NoResults, ResultSets
<1>3. RunsOK'
  <2>1. runs' = T!Unmounted /\ host' = host
    BY DEF T!Leave
  <2> QED BY <2>1, MarkedOK DEF TypeInv, RunsOK
<1> QED BY <1>1, <1>2, <1>3 DEF TypeInv

\* A load, and what comes of it.
LEMMA LoadTypes ==
  ASSUME TypeInv, NEW c \in Callers, T!Refresh(c) \/ T!LoadAgents(c) \/ T!FetchSpecs(c)
  PROVE  TypeInv'
<1>1. DataOK'
  BY SameData, SpecsSame DEF TypeInv, T!Refresh, T!LoadAgents, T!FetchSpecs, T!Zomes, Same
<1>2. FlagsOK'
  BY DEF TypeInv, FlagsOK, T!Refresh, T!LoadAgents, T!FetchSpecs, T!Component, T!History, T!Bounds
<1>3. /\ Len(host) \in Nat /\ host' = host /\ Len(host') = Len(host) /\ Len(host) <= Len(host')
  BY SpecificationsAre DEF TypeInv, T!Refresh, T!LoadAgents, T!FetchSpecs
<1>4. RunsOK'
  <2>1. CASE T!Refresh(c)
    <3>1. RunOK(T!Run("load", "agents", tab, {}), Len(host))
      BY <1>3, <2>1, LoadRun DEF T!Refresh
    <3> QED BY <1>3, <2>1, <3>1, BeginMoves DEF T!Refresh
  <2>2. CASE T!LoadAgents(c)
    BY <1>3, <2>2, StageMoves DEF T!LoadAgents, T!At, FitsStage, LoadStages, ItemStages, NumberStages
  <2>3. CASE T!FetchSpecs(c)
    <3>1. FitsStage(runs[c], "fetched", T!Listing, Len(host'))
      BY <1>3, <2>3, ListingIs, SpecificationsAre DEF T!FetchSpecs, T!At, FitsStage, LoadStages, SyncStages, ItemStages, NumberStages, TypeInv
    <3> QED BY <1>3, <2>3, <3>1, AnswerMoves DEF T!FetchSpecs
  <2> QED BY <2>1, <2>2, <2>3
<1> QED BY <1>1, <1>2, <1>4 DEF TypeInv

LEMMA LoadOverTypes ==
  ASSUME TypeInv, NEW c \in Callers, runs[c].op = "load", T!LoadOver(c), UNCHANGED host
  PROVE  RunsOK' /\ storeLoading' \in BOOLEAN /\ loading' \in BOOLEAN
<1>1. storeLoading' \in BOOLEAN /\ loading' \in BOOLEAN
  BY DEF T!LoadOver
<1>2. RunsOK'
  <2>1. CASE runs[c].of = "event"
    BY <2>1, EndMoves DEF T!LoadOver
  <2>2. CASE runs[c].of # "event"
    <3>1. Len(host) \in Nat /\ Len(host') = Len(host) /\ Len(host) <= Len(host')
      BY SpecificationsAre DEF TypeInv
    <3>2. runs[c].of \in T!Tabs
      BY <2>2, RunFields DEF TypeInv, RunOK
    <3>3. FitsStage(runs[c], "list", runs[c].answer, Len(host'))
      BY <3>2 DEF FitsStage, LoadStages, ItemStages, NumberStages
    <3> QED BY <2>2, <3>1, <3>3, StageMoves DEF T!LoadOver
  <2> QED BY <2>1, <2>2
<1> QED BY <1>1, <1>2

LEMMA LoadedTypes ==
  ASSUME TypeInv, NEW c \in Callers, T!SpecsFetched(c) \/ T!LoadFails(c)
  PROVE  TypeInv'
<1>1. runs[c].op = "load" /\ T!LoadOver(c) /\ host' = host
  BY DEF T!SpecsFetched, T!LoadFails, T!At
<1>2. RunsOK' /\ storeLoading' \in BOOLEAN /\ loading' \in BOOLEAN
  BY <1>1, LoadOverTypes
<1>3. FlagsOK'
  <2>1. T!Mounted(c) \in BOOLEAN
    BY RunFields DEF TypeInv, T!Mounted
  <2>2. CASE T!SpecsFetched(c)
    BY <1>2, <2>2 DEF TypeInv, FlagsOK, T!SpecsFetched, T!Bounds
  <2>3. CASE T!LoadFails(c)
    BY <1>2, <2>1, <2>3 DEF TypeInv, FlagsOK, T!LoadFails, T!History, T!Failing
  <2> QED BY <2>2, <2>3
<1>4. DataOK'
  <2>1. Same
    BY DEF T!SpecsFetched, T!LoadFails, T!Zomes, Same
  <2>2. CASE T!SpecsFetched(c)
    <3>1. specs' \in Seq(Entries) /\ \A n \in DOMAIN specs' : specs'[n].id \in DOMAIN host
      BY <2>2, RunFields, SpecificationsAre DEF T!SpecsFetched, T!At, RunOK, TypeInv
    <3> QED BY <2>1, <3>1, SameData DEF TypeInv
  <2>3. CASE T!LoadFails(c)
    BY <2>1, <2>3, SameData, SpecsSame DEF TypeInv, T!LoadFails
  <2> QED BY <2>2, <2>3
<1> QED BY <1>2, <1>3, <1>4 DEF TypeInv

LEMMA LoadListTypes ==
  ASSUME T!HreaTestPageAssumption, TypeInv, NEW c \in Callers, T!LoadList(c)
  PROVE  TypeInv'
<1>1. RunsOK'
  BY EndMoves DEF T!LoadList
<1>2. FlagsOK'
  BY DEF TypeInv, FlagsOK, T!LoadList, T!Component, T!History, T!Bounds, T!Failing
<1>3. lists' = [t \in T!Tabs |-> lists'[t]] /\ \A t \in T!Tabs : ListOK(lists'[t])
  <2> DEFINE S == {x \in approved : T!TabOf(x) = runs[c].of}  Listed == {T!Item(e) : e \in S}
  <2>1. ListOK(Listed)
    BY ItemsFinite DEF TypeInv, DataOK
  <2>2. lists' = [lists EXCEPT ![runs[c].of] = Listed] \/ lists' = lists
    BY DEF T!LoadList
  <2> HIDE DEF Listed
  <2> QED BY <2>1, <2>2 DEF TypeInv, DataOK
<1>4. DataOK'
  BY <1>3 DEF TypeInv, DataOK, T!LoadList, T!Zomes
<1> QED BY <1>1, <1>2, <1>4 DEF TypeInv

\* A set of naturals that is not empty has a smallest one.
LEMMA Smallest ==
  ASSUME NEW S, S \subseteq Nat, S # {}
  PROVE  \E i \in S : \A j \in S : i <= j
<1> DEFINE R == OpToRel(<, Nat)
<1>1. IsWellFoundedOn(R, Nat)
  BY NatLessThanWellFounded, Zenon
<1>2. PICK k \in S : \A j \in S : <<j, k>> \notin R
  <2> HIDE DEF R
  <2> QED BY <1>1, WFMin
<1>3. \A j \in S : ~(j < k)
  BY <1>2 DEF OpToRel
<1>4. \A i, j \in Nat : ~(j < i) => i <= j
  OBVIOUS
<1> QED BY <1>3, <1>4

\* What is found is held, and is of what was looked for.
LEMMA FoundIs ==
  ASSUME DataOK, NEW e, T!Found(e) # {}
  PROVE  /\ T!FirstFound(e) \in DOMAIN host /\ host[T!FirstFound(e)].of = e /\ e \in Types
         /\ \E n \in DOMAIN specs : specs[n].id = T!FirstFound(e)
<1>1. DOMAIN specs \subseteq Nat
  BY SpecificationsAre
<1>2. T!Found(e) \subseteq DOMAIN specs
  BY DEF T!Found
<1>3. \E n \in T!Found(e) : \A m \in T!Found(e) : n <= m
  BY <1>1, <1>2, Smallest
<1> DEFINE n == CHOOSE n \in T!Found(e) : \A m \in T!Found(e) : n <= m
<1>4. n \in T!Found(e)
  BY <1>3
<1>5. T!FirstFound(e) = specs[n].id
  BY DEF T!FirstFound
<1> HIDE DEF n
<1> QED BY <1>4, <1>5, SpecificationsAre DEF T!Found

\* The current item of a run.
LEMMA CurrentIs ==
  ASSUME RunsOK, NEW c \in Callers, runs[c].stage \in ItemStages \/ runs[c].rest # <<>>
  PROVE  /\ runs[c].rest # <<>> /\ T!Current(c) \in Items /\ T!Current(c) = runs[c].rest[1] /\ 1 \in DOMAIN runs[c].rest
         /\ T!Current(c).of \in T!Entities /\ T!Current(c).name \in Nat
<1>1. runs[c].rest # <<>> /\ runs[c].rest \in Seq(Items)
  BY RunFields DEF RunOK
<1>2. T!Current(c) \in Items /\ T!Current(c) = runs[c].rest[1] /\ 1 \in DOMAIN runs[c].rest
  BY <1>1, TailIs DEF T!Current
<1> QED BY <1>1, <1>2 DEF Items

LEMMA OneNumber ==
  ASSUME NEW i \in Nat
  PROVE  <<i>> \in Seq(Nat) /\ Len(<<i>>) = 1 /\ <<i>>[1] = i
OBVIOUS

LEMMA SyncBeginsTypes ==
  ASSUME TypeInv, NEW c \in Callers, T!ManualSync(c)
  PROVE  /\ TypeInv'
         /\ ListOK(lists[tab]) /\ tab \in T!Tabs
<1>1. DataOK'
  BY SameData, SpecsSame DEF TypeInv, T!ManualSync, T!Zomes, Same
<1>2. FlagsOK'
  BY DEF TypeInv, FlagsOK, T!ManualSync, T!Bounds
<1>3. Len(host) \in Nat /\ host' = host /\ ListOK(lists[tab]) /\ tab \in T!Tabs
  BY SpecificationsAre DEF TypeInv, DataOK, T!ManualSync
<1>4. RunOK(T!Run("sync", "next", tab, lists[tab]), Len(host))
  <2>1. BeginsAs("sync", "next", lists[tab])
    BY DEF BeginsAs
  <2> QED BY <1>3, <2>1, RunIs
<1>5. RunsOK'
  BY <1>3, <1>4, BeginMoves DEF T!ManualSync
<1> QED BY <1>1, <1>2, <1>3, <1>5 DEF TypeInv

LEMMA SyncNextTypes ==
  ASSUME TypeInv, NEW c \in Callers, T!SyncNext(c)
  PROVE  TypeInv'
<1>1. DataOK'
  BY SameData, SpecsSame DEF TypeInv, T!SyncNext, T!Zomes, Same
<1>2. FlagsOK'
  BY DEF TypeInv, FlagsOK, T!SyncNext, T!Component, T!History, T!Bounds
<1>3. Len(host) \in Nat /\ Len(host') = Len(host) /\ Len(host) <= Len(host') /\ DOMAIN host = 1 .. Len(host)
  BY SpecificationsAre DEF TypeInv, T!SyncNext
<1>4. runs[c].op = "sync" /\ runs[c].rest # <<>> /\ T!SyncItem(c)
  BY DEF T!SyncNext, T!At
<1> DEFINE e == T!Current(c).of
<1>5. CASE T!Found(e) = {}
  <2>1. FitsStage(runs[c], "create", runs[c].answer, Len(host'))
    BY <1>4 DEF FitsStage, SyncStages, ItemStages, NumberStages
  <2> QED BY <1>1, <1>2, <1>3, <1>4, <1>5, <2>1, StageMoves DEF T!SyncItem, TypeInv
<1>6. CASE T!Found(e) # {}
  <2> DEFINE i == T!FirstFound(e)
  <2>1. i \in DOMAIN host
    BY <1>6, FoundIs DEF TypeInv
  <2>2. T!Answered(c, "update", <<i>>)
    BY <1>4, <1>6 DEF T!SyncItem
  <2> HIDE DEF i, e
  <2>3. i \in Nat /\ i \in 1 .. Len(host')
    BY <1>3, <2>1
  <2>4. FitsStage(runs[c], "update", <<i>>, Len(host'))
    BY <1>4, <2>3, OneNumber DEF FitsStage, SyncStages, ItemStages, NumberStages
  <2> QED BY <1>1, <1>2, <1>3, <2>2, <2>4, AnswerMoves DEF TypeInv
<1> QED BY <1>5, <1>6

\* A run with a number has the number of a specification.
LEMMA NumberIs ==
  ASSUME TypeInv, NEW c \in Callers, runs[c].stage \in NumberStages
  PROVE  /\ runs[c].answer \in Seq(Nat) /\ Len(runs[c].answer) = 1
         /\ runs[c].answer[1] \in DOMAIN host /\ runs[c].answer[1] \in Nat
BY RunFields, SpecificationsAre DEF TypeInv, RunOK

\* A specification of the host changes.
LEMMA HostChanges ==
  ASSUME DataOK, NEW i \in DOMAIN host, NEW x \in [of : T!Entities, name : Nat, there : BOOLEAN],
         host' = [host EXCEPT ![i] = x]
  PROVE  /\ host' \in Seq([of : T!Entities, name : Nat, there : BOOLEAN])
         /\ Len(host') = Len(host) /\ Len(host) \in Nat /\ Len(host) <= Len(host') /\ DOMAIN host' = DOMAIN host
         /\ \A j \in DOMAIN host : host'[j] = IF j = i THEN x ELSE host[j]
<1> DEFINE R == [of : T!Entities, name : Nat, there : BOOLEAN]
<1>1. host \in Seq(R) /\ i \in 1 .. Len(host) /\ DOMAIN host = 1 .. Len(host)
  BY SpecificationsAre DEF DataOK
<1> HIDE DEF R
<1>2. /\ [host EXCEPT ![i] = x] \in Seq(R) /\ Len([host EXCEPT ![i] = x]) = Len(host)
      /\ \A j \in 1 .. Len(host) : [host EXCEPT ![i] = x][j] = IF j = i THEN x ELSE host[j]
  BY <1>1, ExceptSeq DEF R
<1>3. Len(host') = Len(host) /\ Len(host) \in Nat /\ DOMAIN host' = DOMAIN host
  BY <1>1, <1>2, LenProperties
<1> QED BY <1>1, <1>2, <1>3 DEF R

LEMMA HostData ==
  ASSUME DataOK, host' \in Seq([of : T!Entities, name : Nat, there : BOOLEAN]),
         Len(host') \in Nat, Len(host) <= Len(host'),
         approved' \subseteq T!Entities, UNCHANGED <<named, specs, lists>>
  PROVE  DataOK'
BY SpecificationsAre DEF DataOK

LEMMA Renamed ==
  ASSUME NEW x \in [of : T!Entities, name : Nat, there : BOOLEAN], NEW v \in Nat, NEW b \in BOOLEAN
  PROVE  /\ [x EXCEPT !.name = v] = [of |-> x.of, name |-> v, there |-> x.there]
         /\ [x EXCEPT !.there = b] = [of |-> x.of, name |-> x.name, there |-> b]
OBVIOUS

LEMMA UpdateIs ==
  ASSUME TypeInv, NEW c \in Callers, T!UpdateOnHost(c)
  PROVE  LET i == runs[c].answer[1]
         IN  /\ i \in DOMAIN host /\ T!There(i)
             /\ host' = [host EXCEPT ![i] = [of |-> host[i].of, name |-> T!Current(c).name, there |-> TRUE]]
             /\ [of |-> host[i].of, name |-> T!Current(c).name, there |-> TRUE] \in [of : T!Entities, name : Nat, there : BOOLEAN]
             /\ runs[c].op = "sync" /\ runs[c].stage = "update"
<1> DEFINE i == runs[c].answer[1]
<1>1. runs[c].stage = "update" /\ runs[c].op = "sync" /\ T!There(i)
  BY DEF T!UpdateOnHost, T!At
<1>2. i \in DOMAIN host
  BY <1>1, NumberIs DEF NumberStages
<1>3. T!Current(c).name \in Nat
  BY <1>1, CurrentIs DEF ItemStages, TypeInv
<1>4. host' = [host EXCEPT ![i].name = T!Current(c).name]
  BY DEF T!UpdateOnHost
<1> HIDE DEF i
<1>5. host[i] \in [of : T!Entities, name : Nat, there : BOOLEAN]
  BY <1>2, SpecificationsAre, ElementOfSeq DEF TypeInv, DataOK
<1>6. host[i].there = TRUE
  BY <1>1 DEF T!There
<1>7. [host[i] EXCEPT !.name = T!Current(c).name] = [of |-> host[i].of, name |-> T!Current(c).name, there |-> TRUE]
  <2>1. TRUE \in BOOLEAN
    OBVIOUS
  <2> QED BY <1>3, <1>5, <1>6, <2>1, Renamed
<1>8. host' = [host EXCEPT ![i] = [of |-> host[i].of, name |-> T!Current(c).name, there |-> TRUE]]
  BY <1>4, <1>7
<1> QED BY <1>1, <1>2, <1>3, <1>5, <1>8 DEF i

LEMMA UpdateTypes ==
  ASSUME TypeInv, NEW c \in Callers, T!UpdateOnHost(c)
  PROVE  TypeInv'
<1> DEFINE i == runs[c].answer[1]  x == [of |-> host[i].of, name |-> T!Current(c).name, there |-> TRUE]
<1>1. /\ i \in DOMAIN host /\ host' = [host EXCEPT ![i] = x]
      /\ x \in [of : T!Entities, name : Nat, there : BOOLEAN]
      /\ runs[c].op = "sync" /\ runs[c].stage = "update"
  BY UpdateIs
<1> HIDE DEF x, i
<1>2. /\ host' \in Seq([of : T!Entities, name : Nat, there : BOOLEAN])
      /\ Len(host') = Len(host) /\ Len(host) \in Nat /\ Len(host') \in Nat /\ Len(host) <= Len(host')
  BY <1>1, HostChanges DEF TypeInv
<1>3. DataOK'
  BY <1>2, HostData DEF TypeInv, DataOK, T!UpdateOnHost, T!Zomes
<1>4. FlagsOK'
  BY DEF TypeInv, FlagsOK, T!UpdateOnHost, T!Component, T!History, T!Bounds
<1>5. FitsStage(runs[c], "updated", runs[c].answer, Len(host'))
  <2>1. runs[c].rest # <<>> /\ runs[c].answer \in Seq(Nat) /\ Len(runs[c].answer) = 1 /\ runs[c].answer[1] \in 1 .. Len(host')
    BY <1>1, <1>2, CurrentIs, NumberIs, SpecificationsAre DEF TypeInv, ItemStages, NumberStages
  <2> QED BY <1>1, <2>1 DEF FitsStage, SyncStages, ItemStages, NumberStages
<1>6. RunsOK'
  BY <1>2, <1>5, StageMoves DEF T!UpdateOnHost
<1> QED BY <1>3, <1>4, <1>6 DEF TypeInv

LEMMA UpdatedTypes ==
  ASSUME TypeInv, NEW c \in Callers, T!Updated(c)
  PROVE  /\ TypeInv'
         /\ DOMAIN specs' = DOMAIN specs /\ \A n \in DOMAIN specs : specs'[n].id = specs[n].id
<1>1. runs[c].op = "sync" /\ runs[c].stage = "updated" /\ T!Counted(c, "updated") /\ host' = host
  BY DEF T!Updated, T!At
<1>2. runs[c].rest # <<>> /\ T!Current(c).name \in Nat
  BY <1>1, CurrentIs DEF TypeInv, ItemStages
<1>3. RunsOK'
  BY <1>1, <1>2, CountMoves
<1>4. FlagsOK'
  BY DEF TypeInv, FlagsOK, T!Updated, T!Component, T!History, T!Bounds
<1>5. /\ DOMAIN specs' = DOMAIN specs
      /\ \A n \in DOMAIN specs : specs'[n] \in Entries /\ specs'[n].id = specs[n].id
  <2>1. specs' = [n \in DOMAIN specs |->
                 IF specs[n].id = runs[c].answer[1] THEN [specs[n] EXCEPT !.name = T!Current(c).name]
                 ELSE specs[n]]
    BY DEF T!Updated
  <2>2. \A n \in DOMAIN specs : specs[n] \in Entries
    BY SpecificationsAre DEF TypeInv
  <2> QED BY <1>2, <2>1, <2>2 DEF Entries
<1>6. specs' \in Seq(Entries)
  <2>1. DOMAIN specs = 1 .. Len(specs) /\ Len(specs) \in Nat
    BY SpecificationsAre DEF TypeInv
  <2>2. specs' = [n \in DOMAIN specs |-> specs'[n]]
    BY DEF T!Updated
  <2>3. specs' \in [1 .. Len(specs) -> Entries]
    BY <1>5, <2>1, <2>2
  <2> QED BY <2>1, <2>3, SeqDef
<1>7. DataOK'
  <2>1. Same
    BY DEF T!Updated, T!Zomes, Same
  <2>2. \A n \in DOMAIN specs' : specs'[n].id \in DOMAIN host
    BY <1>5, SpecificationsAre DEF TypeInv
  <2> QED BY <1>6, <2>1, <2>2, SameData DEF TypeInv
<1> QED BY <1>3, <1>4, <1>5, <1>7 DEF TypeInv

LEMMA CreateIs ==
  ASSUME TypeInv, NEW c \in Callers, T!CreateOnHost(c)
  PROVE  LET x == [of |-> T!Current(c).of, name |-> T!Current(c).name, there |-> TRUE]
         IN  /\ runs[c].op \in {"sync", "decide"} /\ runs[c].stage = "create"
             /\ T!Current(c) \in Items /\ T!Current(c).of \in T!Entities
             /\ host' = Append(host, x)
             /\ host' \in Seq([of : T!Entities, name : Nat, there : BOOLEAN])
             /\ Len(host) \in Nat /\ Len(host') = Len(host) + 1 /\ Len(host') \in Nat /\ Len(host) <= Len(host')
             /\ DOMAIN host = 1 .. Len(host) /\ DOMAIN host' = 1 .. Len(host) + 1
             /\ \A i \in DOMAIN host : host'[i] = host[i]
             /\ host'[Len(host) + 1] = x
             /\ T!Answered(c, "created", <<Len(host) + 1>>)
<1> DEFINE R == [of : T!Entities, name : Nat, there : BOOLEAN]
           x == [of |-> T!Current(c).of, name |-> T!Current(c).name, there |-> TRUE]
<1>1. runs[c].op \in {"sync", "decide"} /\ runs[c].stage = "create" /\ T!Answered(c, "created", <<Len(host) + 1>>) /\ host' = Append(host, x)
  BY DEF T!CreateOnHost
<1>2. T!Current(c) \in Items /\ T!Current(c).of \in T!Entities /\ T!Current(c).name \in Nat
  BY <1>1, CurrentIs DEF ItemStages, TypeInv
<1>3. x \in R /\ host \in Seq(R)
  BY <1>2 DEF TypeInv, DataOK
<1> HIDE DEF R, x
<1>4. /\ Append(host, x) \in Seq(R) /\ Len(Append(host, x)) = Len(host) + 1
      /\ \A i \in 1 .. Len(host) : Append(host, x)[i] = host[i]
      /\ Append(host, x)[Len(host) + 1] = x
  BY <1>3, AppendProperties
<1>5. /\ Len(host) \in Nat /\ DOMAIN host = 1 .. Len(host)
      /\ DOMAIN Append(host, x) = 1 .. Len(Append(host, x))
  BY <1>3, <1>4, LenProperties
<1>6. Len(host') \in Nat /\ Len(host) <= Len(host')
  BY <1>1, <1>4, <1>5
<1> QED BY <1>1, <1>2, <1>4, <1>5, <1>6 DEF x, R

LEMMA CreateTypes ==
  ASSUME TypeInv, NEW c \in Callers, T!CreateOnHost(c)
  PROVE  TypeInv'
<1> DEFINE n == Len(host) + 1
<1>1. /\ runs[c].op \in {"sync", "decide"} /\ runs[c].stage = "create"
      /\ host' \in Seq([of : T!Entities, name : Nat, there : BOOLEAN])
      /\ Len(host) \in Nat /\ Len(host') = n /\ Len(host') \in Nat /\ Len(host) <= Len(host')
      /\ T!Answered(c, "created", <<n>>)
  BY CreateIs
<1>2. DataOK'
  BY <1>1, HostData DEF TypeInv, DataOK, T!CreateOnHost, T!Zomes
<1>3. FlagsOK'
  BY DEF TypeInv, FlagsOK, T!CreateOnHost, T!Component, T!History, T!Bounds
<1>4. n \in Nat /\ n \in 1 .. Len(host')
  BY <1>1
<1> HIDE DEF n
<1>5. runs[c].rest # <<>>
  BY <1>1, CurrentIs DEF TypeInv, ItemStages
<1>6. FitsStage(runs[c], "created", <<n>>, Len(host'))
  BY <1>1, <1>4, <1>5, OneNumber DEF FitsStage, SyncStages, DecideStages, ItemStages, NumberStages
<1>7. RunsOK'
  BY <1>1, <1>6, AnswerMoves
<1> QED BY <1>2, <1>3, <1>7 DEF TypeInv

LEMMA CreatedIs ==
  ASSUME TypeInv, NEW c \in Callers, T!Created(c)
  PROVE  LET x == [id |-> runs[c].answer[1], name |-> T!Current(c).name]
         IN  /\ runs[c].op \in {"sync", "decide"} /\ runs[c].stage = "created"
             /\ runs[c].answer[1] \in DOMAIN host
             /\ specs' \in Seq(Entries) /\ \A n \in DOMAIN specs' : specs'[n].id \in DOMAIN host
             /\ \A n \in DOMAIN specs : n \in DOMAIN specs' /\ specs'[n] = specs[n]
             /\ Len(specs) + 1 \in DOMAIN specs' /\ specs'[Len(specs) + 1] = x
             /\ \A n \in DOMAIN specs' : n \in DOMAIN specs \/ n = Len(specs) + 1
<1> DEFINE x == [id |-> runs[c].answer[1], name |-> T!Current(c).name]
<1>1. runs[c].stage = "created" /\ specs' = Append(specs, x)
  BY DEF T!Created
<1>2. runs[c].op \in {"sync", "decide"}
  <2>1. RunOK(runs[c], Len(host)) /\ runs[c].op \in {"none", "load", "sync", "decide"}
    BY RunFields DEF TypeInv, RunSet
  <2>2. T!NoRun.stage = "none"
    BY DEF T!NoRun, T!Run
  <2> QED BY <1>1, <2>1, <2>2 DEF RunOK, LoadStages
<1>3. /\ runs[c].answer[1] \in DOMAIN host /\ runs[c].answer[1] \in Nat /\ T!Current(c).name \in Nat
  BY <1>1, NumberIs, CurrentIs DEF NumberStages, ItemStages, TypeInv
<1>4. x \in Entries /\ specs \in Seq(Entries) /\ x.id \in DOMAIN host
  BY <1>3 DEF Entries, TypeInv, DataOK
<1> HIDE DEF x
<1>5. /\ Append(specs, x) \in Seq(Entries) /\ Len(Append(specs, x)) = Len(specs) + 1
      /\ \A i \in 1 .. Len(specs) : Append(specs, x)[i] = specs[i]
      /\ Append(specs, x)[Len(specs) + 1] = x
  BY <1>4, AppendProperties
<1>6. /\ Len(specs) \in Nat /\ DOMAIN specs = 1 .. Len(specs)
      /\ DOMAIN specs' = 1 .. Len(specs) + 1
  BY <1>1, <1>4, <1>5, LenProperties
<1>7. \A n \in DOMAIN specs' : n \in DOMAIN specs \/ n = Len(specs) + 1
  BY <1>6
<1>8. \A n \in DOMAIN specs : n \in DOMAIN specs' /\ specs'[n] = specs[n]
  BY <1>1, <1>5, <1>6
<1>9. Len(specs) + 1 \in DOMAIN specs' /\ specs'[Len(specs) + 1] = x
  BY <1>1, <1>5, <1>6
<1>10. \A n \in DOMAIN specs' : specs'[n].id \in DOMAIN host
  BY <1>4, <1>7, <1>8, <1>9, SpecificationsAre DEF TypeInv
<1> QED BY <1>1, <1>2, <1>3, <1>5, <1>7, <1>8, <1>9, <1>10 DEF x

LEMMA CreatedTypes ==
  ASSUME TypeInv, NEW c \in Callers, T!Created(c)
  PROVE  TypeInv'
<1>1. /\ runs[c].op \in {"sync", "decide"} /\ runs[c].stage = "created"
      /\ specs' \in Seq(Entries) /\ \A n \in DOMAIN specs' : specs'[n].id \in DOMAIN host
  BY CreatedIs
<1>2. DataOK'
  BY <1>1, SameData DEF TypeInv, T!Created, T!Zomes, Same
<1>3. FlagsOK'
  BY DEF TypeInv, FlagsOK, T!Created, T!Component, T!History, T!Bounds
<1>4. RunsOK'
  <2>1. host' = host /\ runs[c].rest # <<>>
    BY <1>1, CurrentIs DEF T!Created, TypeInv, ItemStages
  <2> QED BY <1>1, <2>1, CountMoves, EndMoves DEF T!Created
<1> QED BY <1>2, <1>3, <1>4 DEF TypeInv

LEMMA ItemFailsTypes ==
  ASSUME TypeInv, NEW c \in Callers, T!ItemFails(c)
  PROVE  TypeInv'
<1>1. DataOK'
  BY SameData, SpecsSame DEF TypeInv, T!ItemFails, T!Zomes, Same
<1>2. FlagsOK'
  BY DEF TypeInv, FlagsOK, T!ItemFails, T!Component, T!Bounds, T!Failing
<1>3. RunsOK'
  <2>1. host' = host /\ runs[c].rest # <<>> /\ runs[c].op = "sync" /\ T!Counted(c, "errors")
    BY CurrentIs DEF T!ItemFails, TypeInv, ItemStages
  <2> QED BY <2>1, CountMoves
<1> QED BY <1>1, <1>2, <1>3 DEF TypeInv

LEMMA SyncReloadTypes ==
  ASSUME TypeInv, NEW c \in Callers, T!SyncReload(c)
  PROVE  TypeInv'
<1>1. DataOK'
  BY SameData, SpecsSame DEF TypeInv, T!SyncReload, T!Zomes, Same
<1>2. FlagsOK'
  <2>1. runs[c].results \in ResultSets
    BY RunFields DEF TypeInv
  <2> QED BY <2>1 DEF TypeInv, FlagsOK, T!SyncReload, T!History, T!Bounds
<1>3. RunsOK'
  <2>1. Len(host) \in Nat /\ Len(host') = Len(host) /\ Len(host) <= Len(host')
    BY SpecificationsAre DEF TypeInv, T!SyncReload
  <2>2. FitsStage(runs[c], "reload", runs[c].answer, Len(host'))
    BY DEF T!SyncReload, T!At, FitsStage, SyncStages, ItemStages, NumberStages
  <2> QED BY <2>1, <2>2, StageMoves DEF T!SyncReload
<1> QED BY <1>1, <1>2, <1>3 DEF TypeInv

LEMMA SyncOverTypes ==
  ASSUME TypeInv, NEW c \in Callers, T!SyncEnds(c) \/ T!SyncFails(c)
  PROVE  TypeInv'
<1>1. T!SyncOver(c) /\ host' = host /\ Same
  BY DEF T!SyncEnds, T!SyncFails, T!Zomes, Same
<1>2. RunsOK'
  BY <1>1, EndMoves DEF T!SyncOver
<1>3. FlagsOK'
  <2>1. T!Mounted(c) \in BOOLEAN
    BY RunFields DEF TypeInv, T!Mounted
  <2>2. storeLoading' \in BOOLEAN /\ syncing' \in BOOLEAN
    BY <1>1 DEF T!SyncOver
  <2>3. CASE T!SyncEnds(c)
    BY <2>2, <2>3 DEF TypeInv, FlagsOK, T!SyncEnds, T!Bounds
  <2>4. CASE T!SyncFails(c)
    BY <2>1, <2>2, <2>4 DEF TypeInv, FlagsOK, T!SyncFails, T!History, T!Failing
  <2> QED BY <2>3, <2>4
<1>4. DataOK'
  <2>1. CASE T!SyncEnds(c)
    <3>1. specs' \in Seq(Entries) /\ \A n \in DOMAIN specs' : specs'[n].id \in DOMAIN host
      BY <2>1, RunFields, SpecificationsAre DEF T!SyncEnds, T!At, RunOK, TypeInv
    <3> QED BY <1>1, <3>1, SameData DEF TypeInv
  <2>2. CASE T!SyncFails(c)
    BY <1>1, <2>2, SameData, SpecsSame DEF TypeInv, T!SyncFails
  <2> QED BY <2>1, <2>2
<1> QED BY <1>2, <1>3, <1>4 DEF TypeInv

LEMMA DecideRun ==
  ASSUME NEW s \in {"approved", "rejected"}, NEW S, ListOK(S), S # {}, NEW n \in Nat
  PROVE  RunOK(T!Run("decide", s, "event", S), n)
<1>1. BeginsAs("decide", s, S)
  BY DEF BeginsAs
<1> QED BY <1>1, RunIs

LEMMA DecideTypes ==
  ASSUME TypeInv, NEW c \in Callers, NEW e \in T!Entities, NEW s \in {"approved", "rejected"}, T!Decide(c, e, s)
  PROVE  TypeInv'
<1>1. DataOK'
  BY SameData, SpecsSame DEF TypeInv, T!Decide, T!Zomes, Same
<1>2. FlagsOK'
  BY DEF TypeInv, FlagsOK, T!Decide, T!Component, T!History
<1>3. Len(host) \in Nat /\ host' = host
  BY SpecificationsAre DEF TypeInv, T!Decide
<1>4. ListOK({T!Item(e)})
  <2>1. T!Item(e) \in Items
    BY DEF T!Item, Items, TypeInv, DataOK
  <2>2. IsFiniteSet({T!Item(e)})
    BY FS_Singleton
  <2> QED BY <2>1, <2>2 DEF ListOK
<1>5. RunOK(T!Run("decide", s, "event", {T!Item(e)}), Len(host))
  <2> DEFINE S == {T!Item(e)}
  <2>1. ListOK(S) /\ S # {}
    BY <1>4
  <2> HIDE DEF S
  <2> QED BY <1>3, <2>1, DecideRun DEF S
<1>6. RunsOK'
  BY <1>3, <1>5, BeginMoves DEF T!Decide
<1> QED BY <1>1, <1>2, <1>6 DEF TypeInv

\* What an event makes of the run.
LEMMA EventRunIs ==
  ASSUME TypeInv, NEW c \in Callers, runs[c].op = "decide", runs[c].stage \in {"approved", "rejected"}
  PROVE  /\ RunOK(T!EventRun(c), Len(host))
         /\ \/ T!EventRun(c) = T!NoRun
            \/ /\ runs[c].stage = "approved" /\ T!Found(T!Current(c).of) = {}
               /\ T!EventRun(c) = [runs[c] EXCEPT !.stage = "create"]
            \/ /\ runs[c].stage = "rejected" /\ T!Found(T!Current(c).of) # {}
               /\ T!EventRun(c) = [runs[c] EXCEPT !.stage = "delete", !.answer = <<T!FirstFound(T!Current(c).of)>>]
<1> DEFINE e == T!Current(c).of
<1>1. Len(host) \in Nat /\ DOMAIN host = 1 .. Len(host) /\ RunOK(runs[c], Len(host)) /\ Len(host) <= Len(host)
  BY SpecificationsAre, RunFields DEF TypeInv
<1>2. runs[c].rest # <<>>
  BY CurrentIs DEF TypeInv, ItemStages
<1>3. CASE T!At(c, "decide", "approved") /\ T!Found(e) = {}
  <2>1. T!EventRun(c) = [runs[c] EXCEPT !.stage = "create"]
    BY <1>3 DEF T!EventRun
  <2>2. FitsStage(runs[c], "create", runs[c].answer, Len(host))
    BY <1>2 DEF FitsStage, DecideStages, ItemStages, NumberStages
  <2>3. RunOK([runs[c] EXCEPT !.stage = "create"], Len(host))
    BY <1>1, <2>2, StageOnlyOK
  <2> QED BY <1>3, <2>1, <2>3 DEF T!At
<1>4. CASE T!At(c, "decide", "rejected") /\ T!Found(e) # {}
  <2> DEFINE i == T!FirstFound(e)
  <2>1. T!EventRun(c) = [runs[c] EXCEPT !.stage = "delete", !.answer = <<i>>]
    BY <1>4 DEF T!EventRun, T!At
  <2>2. i \in DOMAIN host
    BY <1>4, FoundIs DEF TypeInv
  <2> HIDE DEF i
  <2>3. i \in Nat /\ i \in 1 .. Len(host)
    BY <1>1, <2>2
  <2>4. FitsStage(runs[c], "delete", <<i>>, Len(host))
    BY <1>2, <2>3, OneNumber DEF FitsStage, DecideStages, ItemStages, NumberStages
  <2>5. RunOK([runs[c] EXCEPT !.stage = "delete", !.answer = <<i>>], Len(host))
    BY <1>1, <2>4, StageOK
  <2> QED BY <1>4, <2>1, <2>5 DEF T!At, i
<1>5. CASE ~(T!At(c, "decide", "approved") /\ T!Found(e) = {}) /\ ~(T!At(c, "decide", "rejected") /\ T!Found(e) # {})
  <2>1. T!EventRun(c) = T!NoRun
    BY <1>5 DEF T!EventRun
  <2> QED BY <1>1, <2>1, NoCallIs
<1> QED BY <1>3, <1>4, <1>5

LEMMA DecidedTypes ==
  ASSUME TypeInv, NEW c \in Callers, T!Decided(c)
  PROVE  TypeInv'
<1> DEFINE r == T!Current(c)  t == T!TabOf(r.of)
<1>1. /\ runs[c].op = "decide" /\ runs[c].stage \in {"approved", "rejected"}
      /\ r \in Items /\ r.of \in T!Entities /\ host' = host
  BY CurrentIs DEF T!Decided, TypeInv, ItemStages
<1>2. FlagsOK'
  BY DEF TypeInv, FlagsOK, T!Decided, T!Bounds
<1>3. DataOK'
  <2>1. t \in T!Tabs
    BY DEF T!TabOf, T!Tabs
  <2>2. ListOK(lists[t] \cup {r}) /\ ListOK({x \in lists[t] : x.of # r.of})
    <3>1. ListOK(lists[t])
      BY <2>1 DEF TypeInv, DataOK
    <3>2. IsFiniteSet(lists[t] \cup {r}) /\ IsFiniteSet({x \in lists[t] : x.of # r.of})
      BY <3>1, FS_AddElement, FS_Subset DEF ListOK
    <3> QED BY <1>1, <3>1, <3>2 DEF ListOK
  <2>3. \/ approved' = approved \cup {r.of} /\ lists' = [lists EXCEPT ![t] = lists[t] \cup {r}]
        \/ approved' = approved \ {r.of} /\ lists' = [lists EXCEPT ![t] = {x \in lists[t] : x.of # r.of}]
    <3>1. lists = [u \in T!Tabs |-> lists[u]]
      BY DEF TypeInv, DataOK
    <3> QED BY <2>1, <3>1 DEF T!Decided
  <2> HIDE DEF r, t
  <2>4. lists' = [u \in T!Tabs |-> lists'[u]] /\ \A u \in T!Tabs : ListOK(lists'[u])
    <3>1. lists = [u \in T!Tabs |-> lists[u]] /\ \A u \in T!Tabs : ListOK(lists[u])
      BY DEF TypeInv, DataOK
    <3>2. ASSUME NEW S, ListOK(S), lists' = [lists EXCEPT ![t] = S]
          PROVE  lists' = [u \in T!Tabs |-> lists'[u]] /\ \A u \in T!Tabs : ListOK(lists'[u])
      BY <2>1, <3>1, <3>2
    <3> QED BY <2>2, <2>3, <3>2
  <2>5. approved' \subseteq T!Entities
    BY <1>1, <2>3 DEF TypeInv, DataOK
  <2> QED BY <2>4, <2>5 DEF TypeInv, DataOK, T!Decided
<1>4. RunsOK'
  <2> DEFINE q == T!EventRun(c)  l == T!Run("load", "agents", "event", {})
  <2>1. RunOK(q, Len(host)) /\ RunOK(l, Len(host))
    <3>1. Len(host) \in Nat
      BY SpecificationsAre DEF TypeInv
    <3> QED BY <1>1, <3>1, EventRunIs, LoadRun
  <2>2. \/ runs' = [T!Disturbed EXCEPT ![c] = q]
        \/ \E d \in Callers : runs' = [T!Disturbed EXCEPT ![c] = q, ![d] = l]
    BY DEF T!Decided
  <2> HIDE DEF q, l
  <2>3. T!Disturbed = [d \in Callers |-> T!Disturbed[d]] /\ \A d \in Callers : RunOK(T!Disturbed[d], Len(host))
    BY MarkedOK DEF TypeInv
  <2>4. runs' = [d \in Callers |-> runs'[d]] /\ \A d \in Callers : RunOK(runs'[d], Len(host))
    <3>1. CASE runs' = [T!Disturbed EXCEPT ![c] = q]
      BY <2>1, <2>3, <3>1
    <3>2. ASSUME NEW d \in Callers, runs' = [T!Disturbed EXCEPT ![c] = q, ![d] = l]
          PROVE  runs' = [b \in Callers |-> runs'[b]] /\ \A b \in Callers : RunOK(runs'[b], Len(host))
      BY <2>1, <2>3, <3>2
    <3> QED BY <2>2, <3>1, <3>2
  <2> QED BY <1>1, <2>4 DEF RunsOK
<1> QED BY <1>2, <1>3, <1>4 DEF TypeInv

LEMMA DeleteIs ==
  ASSUME TypeInv, NEW c \in Callers, T!DeleteOnHost(c)
  PROVE  LET i == runs[c].answer[1]
         IN  /\ i \in DOMAIN host
             /\ host' = [host EXCEPT ![i] = [of |-> host[i].of, name |-> host[i].name, there |-> FALSE]]
             /\ [of |-> host[i].of, name |-> host[i].name, there |-> FALSE] \in [of : T!Entities, name : Nat, there : BOOLEAN]
             /\ runs[c].op = "decide" /\ runs[c].stage = "delete"
<1> DEFINE i == runs[c].answer[1]
<1>1. runs[c].stage = "delete" /\ runs[c].op = "decide"
  BY DEF T!DeleteOnHost, T!At
<1>2. i \in DOMAIN host
  BY <1>1, NumberIs DEF NumberStages
<1>3. host' = [host EXCEPT ![i].there = FALSE]
  BY DEF T!DeleteOnHost
<1> HIDE DEF i
<1>4. host[i] \in [of : T!Entities, name : Nat, there : BOOLEAN]
  BY <1>2, SpecificationsAre, ElementOfSeq DEF TypeInv, DataOK
<1>5. [host[i] EXCEPT !.there = FALSE] = [of |-> host[i].of, name |-> host[i].name, there |-> FALSE]
  <2>1. 0 \in Nat /\ FALSE \in BOOLEAN
    OBVIOUS
  <2> QED BY <1>4, <2>1, Renamed
<1>6. host' = [host EXCEPT ![i] = [of |-> host[i].of, name |-> host[i].name, there |-> FALSE]]
  BY <1>3, <1>5
<1> QED BY <1>1, <1>2, <1>4, <1>6 DEF i

LEMMA DeleteTypes ==
  ASSUME TypeInv, NEW c \in Callers, T!DeleteOnHost(c)
  PROVE  TypeInv'
<1> DEFINE i == runs[c].answer[1]  x == [of |-> host[i].of, name |-> host[i].name, there |-> FALSE]
<1>1. /\ i \in DOMAIN host /\ host' = [host EXCEPT ![i] = x]
      /\ x \in [of : T!Entities, name : Nat, there : BOOLEAN]
      /\ runs[c].op = "decide" /\ runs[c].stage = "delete"
  BY DeleteIs
<1> HIDE DEF x, i
<1>2. /\ host' \in Seq([of : T!Entities, name : Nat, there : BOOLEAN])
      /\ Len(host') = Len(host) /\ Len(host) \in Nat /\ Len(host') \in Nat /\ Len(host) <= Len(host')
  BY <1>1, HostChanges DEF TypeInv
<1>3. DataOK'
  BY <1>2, HostData DEF TypeInv, DataOK, T!DeleteOnHost, T!Zomes
<1>4. FlagsOK'
  BY DEF TypeInv, FlagsOK, T!DeleteOnHost, T!Component, T!History, T!Bounds
<1>5. FitsStage(runs[c], "deleted", runs[c].answer, Len(host'))
  <2>1. runs[c].rest # <<>> /\ runs[c].answer \in Seq(Nat) /\ Len(runs[c].answer) = 1 /\ runs[c].answer[1] \in 1 .. Len(host')
    BY <1>1, <1>2, CurrentIs, NumberIs, SpecificationsAre DEF TypeInv, ItemStages, NumberStages
  <2> QED BY <1>1, <2>1 DEF FitsStage, DecideStages, ItemStages, NumberStages
<1>6. RunsOK'
  BY <1>2, <1>5, StageMoves DEF T!DeleteOnHost
<1> QED BY <1>3, <1>4, <1>6 DEF TypeInv

\* What holds of 0, and of each number up to n after the one before it, holds of
\* them all.
LEMMA UpTo ==
  ASSUME NEW n \in Nat, NEW Ns, 0 \in Ns, \A i \in 1 .. n : i - 1 \in Ns => i \in Ns
  PROVE  \A i \in 0 .. n : i \in Ns
<1> DEFINE S == {i \in 0 .. n : i \notin Ns}
<1> SUFFICES ASSUME S # {} PROVE FALSE
  OBVIOUS
<1>0. S \subseteq Nat
  OBVIOUS
<1>1. PICK i \in S : \A j \in S : i <= j
  <2> HIDE DEF S
  <2> QED BY <1>0, Smallest
<1>2. i \in 1 .. n /\ i - 1 \in 0 .. n /\ i - 1 \notin S
  BY <1>1
<1> QED BY <1>1, <1>2

\* The entries up to n, from those before it.
KeptNext(i, a, n) == IF specs[n].id = i THEN a ELSE Append(a, specs[n])

LEMMA WithoutRuns ==
  ASSUME NEW i, Len(specs) \in Nat
  PROVE  \E f : /\ f[0] = <<>>
                /\ \A n \in 1 .. Len(specs) : f[n] = KeptNext(i, f[n - 1], n)
                /\ T!Without(i) = f[Len(specs)]
<1> DEFINE Kept(f, k) == f = [n \in 0 .. k |-> IF n = 0 THEN <<>> ELSE KeptNext(i, f[n - 1], n)]
           Ns == {k \in 0 .. Len(specs) : \E f : Kept(f, k)}
<1>1. 0 \in Ns
  <2> DEFINE f == [n \in 0 .. 0 |-> <<>>]
  <2>1. Kept(f, 0)
    <3>1. \A n \in 0 .. 0 : n = 0
      OBVIOUS
    <3> QED BY <3>1
  <2> HIDE DEF f, Kept
  <2> QED BY <2>1
<1>2. ASSUME NEW k \in 1 .. Len(specs), k - 1 \in Ns PROVE k \in Ns
  <2>1. PICK f : Kept(f, k - 1)
    BY <1>2
  <2> DEFINE g == [n \in 0 .. k |-> IF n = k THEN KeptNext(i, f[k - 1], k) ELSE f[n]]
  <2>2. \A n \in 0 .. k - 1 : g[n] = f[n]
    OBVIOUS
  <2>3. ASSUME NEW n \in 0 .. k PROVE g[n] = IF n = 0 THEN <<>> ELSE KeptNext(i, g[n - 1], n)
    <3>1. CASE n = k
      <4>1. n # 0 /\ n - 1 \in 0 .. k - 1 /\ g[n] = KeptNext(i, f[k - 1], k)
        BY <3>1
      <4>2. g[n - 1] = f[k - 1]
        BY <2>2, <3>1, <4>1
      <4> HIDE DEF g
      <4> QED BY <3>1, <4>1, <4>2
    <3>2. CASE n # k
      <4>1. n \in 0 .. k - 1 /\ (n # 0 => n - 1 \in 0 .. k - 1)
        BY <3>2
      <4>2. f[n] = IF n = 0 THEN <<>> ELSE KeptNext(i, f[n - 1], n)
        BY <2>1, <4>1
      <4> HIDE DEF g, Kept
      <4> QED BY <2>2, <4>1, <4>2
    <3> QED BY <3>1, <3>2
  <2>4. Kept(g, k)
    <3> DEFINE h == [n \in 0 .. k |-> IF n = 0 THEN <<>> ELSE KeptNext(i, g[n - 1], n)]
    <3>1. g = h
      <4>1. DOMAIN g = 0 .. k /\ DOMAIN h = 0 .. k
        OBVIOUS
      <4>2. \A n \in 0 .. k : g[n] = h[n]
        <5> HIDE DEF g
        <5> QED BY <2>3
      <4>3. g = [n \in 0 .. k |-> g[n]] /\ h = [n \in 0 .. k |-> h[n]]
        OBVIOUS
      <4> HIDE DEF g, h
      <4> QED BY <4>2, <4>3
    <3> HIDE DEF g
    <3> QED BY <3>1
  <2> HIDE DEF g, Kept
  <2> QED BY <2>4
<1>3. \A k \in 0 .. Len(specs) : k \in Ns
  <2> HIDE DEF Ns
  <2> QED BY <1>1, <1>2, UpTo
<1> DEFINE F == CHOOSE f : Kept(f, Len(specs))
<1>4. Kept(F, Len(specs))
  <2>1. \E f : Kept(f, Len(specs))
    BY <1>3
  <2> HIDE DEF Kept
  <2> QED BY <2>1
<1>5. T!Without(i) = F[Len(specs)]
  BY DEF T!Without, KeptNext
<1> HIDE DEF F
<1>6. /\ F[0] = <<>>
      /\ \A n \in 1 .. Len(specs) : F[n] = KeptNext(i, F[n - 1], n)
  BY <1>4
<1> HIDE DEF Kept
<1> QED BY <1>5, <1>6

\* What is left of the specifications without one of them.
LEMMA WithoutIs ==
  ASSUME DataOK, NEW i
  PROVE  /\ T!Without(i) \in Seq(Entries)
         /\ \A m \in DOMAIN T!Without(i) : \E n \in DOMAIN specs : T!Without(i)[m] = specs[n]
         /\ \A n \in DOMAIN specs : specs[n].id # i => \E m \in DOMAIN T!Without(i) : T!Without(i)[m] = specs[n]
<1>1. Len(specs) \in Nat /\ DOMAIN specs = 1 .. Len(specs) /\ \A n \in DOMAIN specs : specs[n] \in Entries
  BY SpecificationsAre
<1>2. PICK f : /\ f[0] = <<>>
               /\ \A n \in 1 .. Len(specs) : f[n] = KeptNext(i, f[n - 1], n)
               /\ T!Without(i) = f[Len(specs)]
  BY <1>1, WithoutRuns
<1> DEFINE Good(k) == /\ f[k] \in Seq(Entries)
                      /\ \A m \in DOMAIN f[k] : \E n \in DOMAIN specs : f[k][m] = specs[n]
                      /\ \A n \in 1 .. k : specs[n].id # i => \E m \in DOMAIN f[k] : f[k][m] = specs[n]
           Ns == {k \in 0 .. Len(specs) : Good(k)}
<1>3. 0 \in Ns
  <2>1. f[0] \in Seq(Entries) /\ DOMAIN f[0] = {} /\ 1 .. 0 = {}
    BY <1>2, EmptySeq
  <2>2. Good(0)
    BY <2>1
  <2> HIDE DEF Good
  <2> QED BY <1>1, <2>2
<1>4. ASSUME NEW k \in 1 .. Len(specs), k - 1 \in Ns PROVE k \in Ns
  <2>1. PICK a, b : a = f[k - 1] /\ b = f[k]
    OBVIOUS
  <2>2. /\ a \in Seq(Entries)
        /\ \A m \in DOMAIN a : \E n \in DOMAIN specs : a[m] = specs[n]
        /\ \A n \in 1 .. k - 1 : specs[n].id # i => \E m \in DOMAIN a : a[m] = specs[n]
    BY <1>4, <2>1
  <2>3. PICK e \in Entries : e = specs[k] /\ k \in DOMAIN specs
    BY <1>1
  <2>4. b = IF e.id = i THEN a ELSE Append(a, e)
    BY <1>2, <2>1, <2>3 DEF KeptNext
  <2>5. \A n \in 1 .. k : n = k \/ n \in 1 .. k - 1
    OBVIOUS
  <2>6. /\ b \in Seq(Entries)
        /\ \A m \in DOMAIN b : \E n \in DOMAIN specs : b[m] = specs[n]
        /\ \A n \in 1 .. k : specs[n].id # i => \E m \in DOMAIN b : b[m] = specs[n]
    <3>1. CASE e.id = i
      BY <2>2, <2>3, <2>4, <2>5, <3>1
    <3>2. CASE e.id # i
      <4>1. /\ b \in Seq(Entries) /\ Len(b) = Len(a) + 1 /\ b[Len(a) + 1] = e
            /\ \A m \in 1 .. Len(a) : b[m] = a[m]
        BY <2>2, <2>4, <3>2, AppendProperties
      <4>2. Len(a) \in Nat /\ DOMAIN a = 1 .. Len(a) /\ DOMAIN b = 1 .. Len(a) + 1
        BY <2>2, <4>1, LenProperties
      <4>3. \A m \in DOMAIN b : \E n \in DOMAIN specs : b[m] = specs[n]
        BY <2>2, <2>3, <4>1, <4>2
      <4>4. ASSUME NEW n \in 1 .. k, specs[n].id # i PROVE \E m \in DOMAIN b : b[m] = specs[n]
        <5>1. CASE n = k
          BY <2>3, <4>1, <4>2, <5>1
        <5>2. CASE n \in 1 .. k - 1
          <6>1. PICK m \in DOMAIN a : a[m] = specs[n]
            BY <2>2, <4>4, <5>2
          <6> QED BY <4>1, <4>2, <6>1
        <5> QED BY <2>5, <5>1, <5>2
      <4> QED BY <4>1, <4>3, <4>4
    <3> QED BY <3>1, <3>2
  <2>7. Good(k)
    BY <2>1, <2>6
  <2>8. k \in 0 .. Len(specs)
    BY <1>1
  <2> HIDE DEF Good
  <2> QED BY <2>7, <2>8
<1>5. Len(specs) \in Ns
  <2>1. \A k \in 0 .. Len(specs) : k \in Ns
    <3> HIDE DEF Ns
    <3> QED BY <1>1, <1>3, <1>4, UpTo
  <2> HIDE DEF Ns
  <2> QED BY <1>1, <2>1
<1> QED BY <1>1, <1>2, <1>5

LEMMA DeletedTypes ==
  ASSUME TypeInv, NEW c \in Callers, T!Deleted(c)
  PROVE  TypeInv'
<1>1. host' = host /\ specs' = T!Without(runs[c].answer[1])
  BY DEF T!Deleted
<1>2. /\ specs' \in Seq(Entries)
      /\ \A m \in DOMAIN specs' : \E n \in DOMAIN specs : specs'[m] = specs[n]
  BY <1>1, WithoutIs DEF TypeInv
<1>3. DataOK'
  <2>1. \A n \in DOMAIN specs' : specs'[n].id \in DOMAIN host
    BY <1>2, SpecificationsAre DEF TypeInv
  <2> QED BY <1>2, <2>1, SameData DEF TypeInv, T!Deleted, T!Zomes, Same
<1>4. FlagsOK'
  BY DEF TypeInv, FlagsOK, T!Deleted, T!Component, T!History, T!Bounds
<1>5. RunsOK'
  BY EndMoves DEF T!Deleted
<1> QED BY <1>3, <1>4, <1>5 DEF TypeInv

LEMMA EndsTypes ==
  ASSUME TypeInv, NEW c \in Callers, T!DecisionFails(c)
  PROVE  TypeInv'
<1>1. DataOK'
  BY SameData, SpecsSame DEF TypeInv, T!DecisionFails, T!Zomes, Same
<1>2. FlagsOK'
  BY DEF TypeInv, FlagsOK, T!DecisionFails, T!Component, T!Bounds, T!Failing
<1>3. RunsOK'
  BY EndMoves DEF T!DecisionFails
<1> QED BY <1>1, <1>2, <1>3 DEF TypeInv

LEMMA CloseTypes == ASSUME TypeInv, T!CloseError PROVE TypeInv'
<1>1. DataOK'
  BY SameData, SpecsSame DEF TypeInv, T!CloseError, T!Zomes, Same
<1>2. FlagsOK'
  BY DEF TypeInv, FlagsOK, T!CloseError, T!History, T!Bounds
<1>3. RunsOK'
  BY DEF TypeInv, RunsOK, T!CloseError
<1> QED BY <1>1, <1>2, <1>3 DEF TypeInv

\* What others do to the specifications.
LEMMA OthersIs ==
  ASSUME TypeInv, T!OthersAct
  PROVE  /\ host' \in Seq([of : T!Entities, name : Nat, there : BOOLEAN])
         /\ Len(host') \in Nat /\ Len(host) <= Len(host') /\ Len(host) \in Nat
         /\ \A i \in DOMAIN host : i \in DOMAIN host' /\ host'[i].of = host[i].of
         /\ named' \in [T!Entities -> Nat] /\ approved' \subseteq T!Entities
         /\ runs' = T!Disturbed /\ UNCHANGED <<specs, lists>>
<1> DEFINE R == [of : T!Entities, name : Nat, there : BOOLEAN]
<1>1. runs' = T!Disturbed /\ UNCHANGED <<specs, lists>>
  BY DEF T!OthersAct
<1>2. PICK e \in T!Entities :
       \/ named' = [named EXCEPT ![e] = @ + 1] /\ UNCHANGED <<approved, host>>
       \/ /\ approved' = approved \cup {e}
          /\ host' = Append(host, [of |-> e, name |-> named[e], there |-> TRUE])
          /\ UNCHANGED named
       \/ /\ approved' = approved \ {e}
          /\ host' = [i \in DOMAIN host |-> [host[i] EXCEPT !.there = @ /\ host[i].of # e]]
          /\ UNCHANGED named
  BY DEF T!OthersAct
<1>3. approved \subseteq T!Entities /\ named \in [T!Entities -> Nat] /\ host \in Seq(R)
  BY DEF TypeInv, DataOK
<1>4. named' \in [T!Entities -> Nat] /\ approved' \subseteq T!Entities
  BY <1>2, <1>3
<1>5. Len(host) \in Nat /\ DOMAIN host = 1 .. Len(host)
  BY SpecificationsAre DEF TypeInv
<1>6. CASE UNCHANGED host
  BY <1>1, <1>3, <1>4, <1>5, <1>6
<1>7. CASE host' = Append(host, [of |-> e, name |-> named[e], there |-> TRUE])
  <2> DEFINE x == [of |-> e, name |-> named[e], there |-> TRUE]
  <2>1. x \in R /\ host' = Append(host, x)
    BY <1>3, <1>7
  <2> HIDE DEF x, R
  <2>2. /\ host' \in Seq(R) /\ Len(host') = Len(host) + 1
        /\ \A i \in 1 .. Len(host) : host'[i] = host[i]
    BY <1>3, <2>1, AppendProperties
  <2>3. Len(host') \in Nat /\ Len(host) <= Len(host') /\ DOMAIN host' = 1 .. Len(host')
    BY <1>5, <2>2, LenProperties
  <2>4. \A i \in DOMAIN host : i \in DOMAIN host' /\ host'[i].of = host[i].of
    BY <1>5, <2>2, <2>3
  <2> QED BY <1>1, <1>4, <1>5, <2>2, <2>3, <2>4 DEF R
<1>8. CASE host' = [i \in DOMAIN host |-> [host[i] EXCEPT !.there = @ /\ host[i].of # e]]
  <2>1. ASSUME NEW i \in DOMAIN host PROVE host'[i] \in R /\ host'[i].of = host[i].of
    <3>1. PICK x \in R : x = host[i]
      BY <1>3, <1>5, ElementOfSeq
    <3>2. PICK b \in BOOLEAN : b = (x.there /\ x.of # e)
      BY <3>1
    <3>3. host'[i] = [x EXCEPT !.there = b]
      BY <1>8, <3>1, <3>2
    <3> QED BY <3>1, <3>2, <3>3
  <2>2. host' = [i \in DOMAIN host |-> host'[i]]
    BY <1>8
  <2> HIDE DEF R
  <2>3. host' \in [1 .. Len(host) -> R]
    BY <1>5, <2>1, <2>2
  <2>4. host' \in Seq(R)
    BY <1>5, <2>3, SeqDef
  <2>5. Len(host') = Len(host) /\ DOMAIN host' = DOMAIN host
    BY <1>5, <2>3, <2>4, LenProperties
  <2>6. Len(host') \in Nat /\ Len(host) <= Len(host')
    BY <1>5, <2>5
  <2> QED BY <1>1, <1>4, <1>5, <2>1, <2>4, <2>5, <2>6 DEF R
<1> QED BY <1>2, <1>6, <1>7, <1>8

LEMMA OthersTypes == ASSUME TypeInv, T!OthersAct PROVE TypeInv'
<1>1. DataOK'
  <2>1. \A n \in DOMAIN specs' : specs'[n].id \in 1 .. Len(host')
    BY OthersIs DEF TypeInv, DataOK
  <2>2. specs' \in Seq(Entries) /\ lists' = lists
    BY OthersIs DEF TypeInv, DataOK
  <2> QED BY <2>1, <2>2, OthersIs DEF TypeInv, DataOK
<1>2. FlagsOK'
  <2>1. /\ UNCHANGED <<storeLoading, tab, loading, syncing, error, results, doubtful, decisions, failures>>
        /\ others' = others + 1 /\ whole' = FALSE
    BY DEF T!OthersAct, T!Component
  <2>2. others' \in Nat
    BY <2>1 DEF TypeInv, FlagsOK
  <2>3. whole' \in BOOLEAN
    BY <2>1
  <2> QED BY <2>1, <2>2, <2>3 DEF TypeInv, FlagsOK
<1>3. RunsOK'
  <2>1. \A d \in Callers : RunOK(T!Disturbed[d], Len(host'))
    BY OthersIs, MarkedOK, RunGrows DEF TypeInv
  <2>2. runs' = T!Disturbed
    BY OthersIs
  <2>3. T!Disturbed = [d \in Callers |-> T!Disturbed[d]]
    BY MarkedOK DEF TypeInv
  <2> QED BY <2>1, <2>2, <2>3 DEF RunsOK
<1> QED BY <1>1, <1>2, <1>3 DEF TypeInv

LEMMA NextTypes == ASSUME T!HreaTestPageAssumption, TypeInv, [T!Next]_(T!testPageVars) PROVE TypeInv'
<1>1. CASE UNCHANGED T!testPageVars
  BY <1>1 DEF T!testPageVars, TypeInv, DataOK, FlagsOK, RunsOK
<1>2. ASSUME NEW c \in Callers, NEW t \in T!Tabs, T!Open(c, t) PROVE TypeInv'
  BY <1>2, OpenTypes
<1>3. ASSUME NEW c \in Callers,
             \/ T!Refresh(c) \/ T!LoadAgents(c) \/ T!FetchSpecs(c) \/ T!SpecsFetched(c) \/ T!LoadFails(c) \/ T!LoadList(c)
      PROVE  TypeInv'
  BY <1>3, LoadTypes, LoadedTypes, LoadListTypes
<1>4. ASSUME NEW c \in Callers,
             \/ T!ManualSync(c) \/ T!SyncNext(c) \/ T!UpdateOnHost(c) \/ T!Updated(c) \/ T!CreateOnHost(c)
             \/ T!Created(c) \/ T!ItemFails(c) \/ T!SyncReload(c) \/ T!SyncEnds(c) \/ T!SyncFails(c)
      PROVE  TypeInv'
  BY <1>4, SyncBeginsTypes, SyncNextTypes, UpdateTypes, UpdatedTypes, CreateTypes, CreatedTypes, ItemFailsTypes,
     SyncReloadTypes, SyncOverTypes
<1>5. ASSUME NEW c \in Callers, NEW e \in T!Entities, NEW s \in {"approved", "rejected"}, T!Decide(c, e, s) PROVE TypeInv'
  BY <1>5, DecideTypes
<1>6. ASSUME NEW c \in Callers, T!Decided(c) \/ T!DeleteOnHost(c) \/ T!Deleted(c) \/ T!DecisionFails(c) PROVE TypeInv'
  BY <1>6, DecidedTypes, DeleteTypes, DeletedTypes, EndsTypes
<1>7. CASE T!Leave \/ T!CloseError \/ T!OthersAct
  BY <1>7, LeaveTypes, CloseTypes, OthersTypes
<1> QED BY <1>1, <1>2, <1>3, <1>4, <1>5, <1>6, <1>7 DEF T!Next

LEMMA TypesHold == T!HreaTestPageAssumption /\ T!Spec => []TypeInv
<1> SUFFICES ASSUME T!HreaTestPageAssumption PROVE T!Spec => []TypeInv
  OBVIOUS
<1>1. T!Init => TypeInv
  BY InitTypes
<1>2. TypeInv /\ [T!Next]_(T!testPageVars) => TypeInv'
  BY NextTypes
<1> QED BY <1>1, <1>2, PTL DEF T!Spec

-----------------------------------------------------------------------------
(* Steps. *)

\* One run changes.
OneChanges(c) == \A d \in Callers : d # c => runs'[d] = runs[d]

\* It stays what it is.
Stays(c) ==
  /\ runs'[c].op = runs[c].op /\ runs'[c].of = runs[c].of
  /\ runs'[c].mounted = runs[c].mounted /\ runs'[c].alone = runs[c].alone /\ runs'[c].given = runs[c].given

Moved(c, s, a) ==
  /\ OneChanges(c) /\ Stays(c)
  /\ runs'[c].stage = s /\ runs'[c].answer = a
  /\ runs'[c].rest = runs[c].rest /\ runs'[c].results = runs[c].results

CountedAs(c, field) ==
  /\ OneChanges(c) /\ Stays(c)
  /\ runs'[c].stage = "next" /\ runs'[c].rest = Tail(runs[c].rest)
  /\ \A f \in {"created", "updated", "errors"} :
       runs'[c].results[f] = IF f = field THEN runs[c].results[f] \cup {T!Current(c).of} ELSE runs[c].results[f]

Ended(c) == OneChanges(c) /\ runs'[c] = T!NoRun /\ runs'[c].op = "none" /\ runs'[c].stage = "none" /\ runs'[c].rest = <<>>

LEMMA ApartFrom ==
  ASSUME RunsOK, NEW c \in Callers, NEW r, runs' = [runs EXCEPT ![c] = r]
  PROVE  OneChanges(c) /\ runs'[c] = r
BY DEF RunsOK, OneChanges

LEMMA ToIs ==
  ASSUME TypeInv, NEW c \in Callers, NEW s, T!To(c, s)
  PROVE  Moved(c, s, runs[c].answer)
<1> DEFINE r == [runs[c] EXCEPT !.stage = s]
<1>1. runs' = [runs EXCEPT ![c] = r]
  BY DEF T!To, TypeInv, RunsOK
<1>2. OneChanges(c) /\ runs'[c] = r
  BY <1>1, ApartFrom DEF TypeInv
<1>3. runs[c] \in RunSet(runs[c].answer)
  BY RunFields DEF TypeInv
<1> QED BY <1>2, <1>3 DEF Moved, Stays, RunSet

LEMMA AnsweredIs ==
  ASSUME TypeInv, NEW c \in Callers, NEW s, NEW a, T!Answered(c, s, a)
  PROVE  Moved(c, s, a)
<1> DEFINE r == [runs[c] EXCEPT !.stage = s, !.answer = a]
<1>1. runs' = [runs EXCEPT ![c] = r]
  BY DEF T!Answered, TypeInv, RunsOK
<1>2. OneChanges(c) /\ runs'[c] = r
  BY <1>1, ApartFrom DEF TypeInv
<1>3. runs[c] \in RunSet(runs[c].answer)
  BY RunFields DEF TypeInv
<1> QED BY <1>2, <1>3 DEF Moved, Stays, RunSet

LEMMA CountingIs ==
  ASSUME TypeInv, NEW c \in Callers, NEW field \in {"created", "updated", "errors"}, T!Counted(c, field), UNCHANGED host,
         runs[c].op = "sync", runs[c].rest # <<>>
  PROVE  CountedAs(c, field)
<1>1. OneChanges(c) /\ runs'[c] = CountedRun(runs[c], field)
  BY CountMoves, ApartFrom DEF TypeInv
<1>2. RunOK(runs[c], Len(host)) /\ Len(host) \in Nat
  BY RunFields, SpecificationsAre DEF TypeInv
<1>3. PICK r : r = runs[c]
  OBVIOUS
<1>6. RunOK(r, Len(host)) /\ r.op = "sync" /\ r.rest # <<>>
  BY <1>2, <1>3
<1> DEFINE q == CountedRun(r, field)
<1>4. /\ q.op = "sync" /\ q.stage = "next" /\ q.of = r.of /\ q.mounted = r.mounted
      /\ q.alone = r.alone /\ q.given = r.given /\ q.rest = Tail(r.rest)
      /\ \A f \in {"created", "updated", "errors"} :
           q.results[f] = IF f = field THEN r.results[f] \cup {Head(r.rest).of} ELSE r.results[f]
  BY <1>2, <1>6, CountedIs
<1>5. r.op = "sync" /\ runs'[c] = q /\ runs[c] = r /\ T!Current(c) = Head(r.rest)
  BY <1>1, <1>3 DEF T!Current
<1> HIDE DEF q
<1> QED BY <1>1, <1>4, <1>5 DEF CountedAs, Stays

LEMMA EndIs ==
  ASSUME TypeInv, NEW c \in Callers, T!Put(c, T!NoRun)
  PROVE  Ended(c)
<1>1. T!NoRun.op = "none" /\ T!NoRun.stage = "none" /\ T!NoRun.rest = <<>>
  BY NoCallIs, SpecificationsAre DEF TypeInv
<1> QED BY <1>1, ApartFrom DEF TypeInv, T!Put, Ended

-----------------------------------------------------------------------------
(* Of a person who waits. *)

\* A flag is the caller's to drop.
LoadingKept(c) == loading' = loading \/ (BusyRun(runs[c]) /\ ~(BusyRun(runs'[c]) /\ runs'[c].op = "load"))
SyncingKept(c) == syncing' = syncing \/ (runs[c].op = "sync" /\ runs'[c].op # "sync")

\* It ends, or goes on.
Goes(c) == runs'[c].op = "none" \/ (runs[c].op # "none" /\ Stays(c))

LEMMA WaitsStep ==
  ASSUME WaitsInv, NEW c \in Callers, OneChanges(c), UNCHANGED tab,
         Goes(c),
         BusyRun(runs'[c]) => BusyRun(runs[c]),
         LoadingKept(c), SyncingKept(c)
  PROVE  WaitsInv'
<1>1. ASSUME NEW a \in Callers, NEW b \in Callers, BusyRun(runs'[a]), BusyRun(runs'[b]) PROVE a = b
  BY <1>1 DEF WaitsInv, OneChanges, Goes
<1>2. ASSUME NEW d \in Callers, runs'[d].op # "none"
      PROVE  /\ runs'[d].mounted
             /\ runs'[d].op = "decide" <=> tab' = "elsewhere"
             /\ runs'[d].op # "decide" => runs'[d].of = tab'
  BY <1>2 DEF WaitsInv, OneChanges, Goes, Stays
<1>3. ASSUME NEW d \in Callers, BusyRun(runs'[d]), runs'[d].op = "load" PROVE loading'
  BY <1>3 DEF WaitsInv, OneChanges, Goes, Stays, BusyRun, LoadingKept
<1>4. ASSUME NEW d \in Callers, runs'[d].op = "sync" PROVE syncing'
  BY <1>4 DEF WaitsInv, OneChanges, Goes, Stays, BusyRun, SyncingKept
<1> QED BY <1>1, <1>2, <1>3, <1>4 DEF WaitsInv

\* A run that begins, when none is busy.
LEMMA WaitsBegin ==
  ASSUME WaitsInv, NEW c \in Callers, OneChanges(c),
         \A d \in Callers : ~BusyRun(runs[d]),
         runs'[c].op \in {"load", "sync", "decide"}, runs'[c].mounted,
         runs'[c].op = "decide" <=> tab' = "elsewhere", runs'[c].op # "decide" => runs'[c].of = tab',
         tab' = tab \/ \A d \in Callers : runs[d].op = "none",
         runs'[c].op = "load" => loading', runs'[c].op = "sync" => syncing'
  PROVE  WaitsInv'
<1>1. ASSUME NEW a \in Callers, NEW b \in Callers, BusyRun(runs'[a]), BusyRun(runs'[b]) PROVE a = b
  BY <1>1 DEF WaitsInv, OneChanges
<1>2. ASSUME NEW d \in Callers, runs'[d].op # "none"
      PROVE  /\ runs'[d].mounted
             /\ runs'[d].op = "decide" <=> tab' = "elsewhere"
             /\ runs'[d].op # "decide" => runs'[d].of = tab'
  BY <1>2 DEF WaitsInv, OneChanges
<1>3. ASSUME NEW d \in Callers, BusyRun(runs'[d]), runs'[d].op = "load" PROVE loading'
  BY <1>3 DEF WaitsInv, OneChanges
<1>4. ASSUME NEW d \in Callers, runs'[d].op = "sync" PROVE syncing'
  BY <1>4 DEF WaitsInv, OneChanges, BusyRun
<1> QED BY <1>1, <1>2, <1>3, <1>4 DEF WaitsInv

\* To a person who waits.
AllIdle == \A d \in Callers : runs[d].op = "none"

LEMMA WaitedIs == ASSUME TypeInv, Waits, T!Waited PROVE AllIdle
BY MarkedOK DEF TypeInv, T!Waited, AllIdle

LEMMA IdleIs ==
  ASSUME TypeInv, NEW c \in Callers
  PROVE  T!Idle(c) <=> runs[c].op = "none"
BY MarkedOK DEF TypeInv

LEMMA NoneUnmounted == ASSUME TypeInv, AllIdle PROVE T!Unmounted = runs
<1>1. \A d \in Callers : T!Unmounted[d] = runs[d]
  BY MarkedOK DEF TypeInv, AllIdle
<1> QED BY <1>1, MarkedOK DEF TypeInv, RunsOK

\* Nobody else's run is there to be disturbed by a decision.
LEMMA DecidedAlone ==
  ASSUME TypeInv, WaitsInv, NEW c \in Callers, T!Decided(c)
  PROVE  /\ OneChanges(c) /\ runs'[c] = T!EventRun(c) /\ tab = "elsewhere" /\ tab' = tab
         /\ UNCHANGED <<loading, storeLoading, error, syncing>>
<1>1. runs[c].op = "decide" /\ runs[c].stage \in {"approved", "rejected"}
  BY DEF T!Decided
<1>2. tab = "elsewhere"
  BY <1>1 DEF WaitsInv
<1>3. \A e : ~T!Hears(e)
  BY <1>2 DEF T!Hears
<1>4. runs' = [T!Disturbed EXCEPT ![c] = T!EventRun(c)] /\ UNCHANGED <<loading, error, storeLoading, tab, syncing>>
  BY <1>3 DEF T!Decided
<1>5. \A d \in Callers : d # c => runs[d].op = "none"
  <2>1. ASSUME NEW d \in Callers, d # c, runs[d].op # "none" PROVE FALSE
    <3>1. runs[d].op = "decide"
      BY <1>2, <2>1 DEF WaitsInv
    <3> QED BY <1>1, <2>1, <3>1 DEF WaitsInv, BusyRun
  <2> QED BY <2>1
<1>6. \A d \in Callers : d # c => T!Disturbed[d] = runs[d]
  BY <1>5, MarkedOK DEF TypeInv
<1>7. T!Disturbed = [d \in Callers |-> T!Disturbed[d]]
  BY MarkedOK DEF TypeInv
<1> QED BY <1>2, <1>4, <1>6, <1>7 DEF OneChanges

LEMMA EventMoves ==
  ASSUME TypeInv, NEW c \in Callers, runs[c].op = "decide", runs[c].stage \in {"approved", "rejected"},
         OneChanges(c), runs'[c] = T!EventRun(c)
  PROVE  \/ Ended(c)
         \/ runs[c].stage = "approved" /\ T!Found(T!Current(c).of) = {} /\ Moved(c, "create", runs[c].answer)
         \/ runs[c].stage = "rejected" /\ T!Found(T!Current(c).of) # {} /\ Moved(c, "delete", <<T!FirstFound(T!Current(c).of)>>)
<1>1. runs[c] \in RunSet(runs[c].answer) /\ Len(host) \in Nat
  BY RunFields, SpecificationsAre DEF TypeInv
<1> DEFINE i == T!FirstFound(T!Current(c).of)
<1>2. CASE T!EventRun(c) = T!NoRun
  BY <1>1, <1>2, NoCallIs DEF Ended
<1>3. CASE T!EventRun(c) = [runs[c] EXCEPT !.stage = "create"] /\ runs[c].stage = "approved" /\ T!Found(T!Current(c).of) = {}
  BY <1>1, <1>3 DEF Moved, Stays, RunSet
<1>4. CASE T!EventRun(c) = [runs[c] EXCEPT !.stage = "delete", !.answer = <<i>>] /\ runs[c].stage = "rejected" /\ T!Found(T!Current(c).of) # {}
  <2> HIDE DEF i
  <2>1. Moved(c, "delete", <<i>>)
    BY <1>1, <1>4 DEF Moved, Stays, RunSet
  <2> QED BY <1>4, <2>1 DEF i
<1> QED BY <1>2, <1>3, <1>4, EventRunIs

LEMMA LoadOverIs ==
  ASSUME TypeInv, NEW c \in Callers, T!LoadOver(c)
  PROVE  Ended(c) \/ Moved(c, "list", runs[c].answer)
<1>1. CASE runs[c].of = "event"
  BY <1>1, EndIs DEF T!LoadOver
<1>2. CASE runs[c].of # "event"
  BY <1>2, ToIs DEF T!LoadOver
<1> QED BY <1>1, <1>2

\* What each step makes of a run.
LEMMA NextIs ==
  ASSUME TypeInv, NEW c \in Callers, T!SyncNext(c)
  PROVE  /\ runs[c].op = "sync" /\ runs[c].stage = "next" /\ runs[c].rest # <<>>
         /\ \/ T!Found(T!Current(c).of) = {} /\ Moved(c, "create", runs[c].answer)
            \/ T!Found(T!Current(c).of) # {} /\ Moved(c, "update", <<T!FirstFound(T!Current(c).of)>>)
<1>1. runs[c].op = "sync" /\ runs[c].stage = "next" /\ runs[c].rest # <<>> /\ T!SyncItem(c)
  BY DEF T!SyncNext, T!At
<1>2. CASE T!Found(T!Current(c).of) = {}
  BY <1>1, <1>2, ToIs DEF T!SyncItem
<1>3. CASE T!Found(T!Current(c).of) # {}
  BY <1>1, <1>3, AnsweredIs DEF T!SyncItem
<1> QED BY <1>1, <1>2, <1>3

LEMMA ItemIs ==
  ASSUME TypeInv, NEW c \in Callers, runs[c].op = "sync", runs[c].stage \in ItemStages, UNCHANGED host,
         NEW field \in {"created", "updated", "errors"}, T!Counted(c, field)
  PROVE  runs[c].rest # <<>> /\ CountedAs(c, field)
<1>1. runs[c].rest # <<>>
  BY CurrentIs DEF TypeInv
<1> QED BY <1>1, CountingIs

LEMMA UpdatingIs ==
  ASSUME TypeInv, NEW c \in Callers, T!Updated(c)
  PROVE  runs[c].op = "sync" /\ runs[c].stage = "updated" /\ runs[c].rest # <<>> /\ CountedAs(c, "updated")
<1>1. runs[c].op = "sync" /\ runs[c].stage = "updated" /\ host' = host /\ T!Counted(c, "updated")
  BY DEF T!Updated, T!At
<1>2. runs[c].stage \in ItemStages
  BY <1>1 DEF ItemStages
<1> QED BY <1>1, <1>2, ItemIs

LEMMA FailingIs ==
  ASSUME TypeInv, NEW c \in Callers, T!ItemFails(c)
  PROVE  /\ runs[c].op = "sync" /\ runs[c].stage \in {"create", "created", "update", "updated"}
         /\ runs[c].rest # <<>> /\ CountedAs(c, "errors")
<1>1. /\ runs[c].op = "sync" /\ runs[c].stage \in {"create", "created", "update", "updated"}
      /\ host' = host /\ T!Counted(c, "errors")
  BY DEF T!ItemFails
<1>2. runs[c].stage \in ItemStages
  BY <1>1 DEF ItemStages
<1> QED BY <1>1, <1>2, ItemIs

LEMMA CreatingIs ==
  ASSUME TypeInv, NEW c \in Callers, T!Created(c)
  PROVE  /\ runs[c].stage = "created" /\ runs[c].rest # <<>>
         /\ \/ runs[c].op = "sync" /\ CountedAs(c, "created")
            \/ runs[c].op = "decide" /\ Ended(c)
<1>1. runs[c].stage = "created" /\ runs[c].op \in {"sync", "decide"}
  <2>1. runs[c].stage = "created" /\ RunOK(runs[c], Len(host)) /\ runs[c] \in RunSet(runs[c].answer)
    BY RunFields DEF T!Created, TypeInv
  <2> QED BY <2>1, NoCallIs, SpecificationsAre DEF RunOK, RunSet, LoadStages, TypeInv
<1>0. runs[c].rest # <<>>
  BY <1>1, CurrentIs DEF TypeInv, ItemStages
<1>2. CASE runs[c].op = "sync"
  <2>1. T!Counted(c, "created") /\ host' = host /\ runs[c].stage \in ItemStages
    BY <1>1, <1>2 DEF T!Created, ItemStages
  <2> QED BY <1>1, <1>2, <2>1, ItemIs
<1>3. CASE runs[c].op = "decide"
  <2>1. T!Put(c, T!NoRun)
    BY <1>3 DEF T!Created
  <2>2. Ended(c)
    BY <2>1, EndIs
  <2> QED BY <1>0, <1>1, <1>3, <2>2
<1> QED BY <1>0, <1>1, <1>2, <1>3

LEMMA MakingIs ==
  ASSUME TypeInv, NEW c \in Callers, T!CreateOnHost(c)
  PROVE  /\ runs[c].op \in {"sync", "decide"} /\ runs[c].stage = "create" /\ Moved(c, "created", <<Len(host) + 1>>)
BY AnsweredIs DEF T!CreateOnHost

LEMMA FetchingIs ==
  ASSUME TypeInv, NEW c \in Callers, T!FetchSpecs(c)
  PROVE  /\ (runs[c].op = "load" /\ runs[c].stage = "specs") \/ (runs[c].op = "sync" /\ runs[c].stage = "reload")
         /\ Moved(c, "fetched", T!Listing)
<1>1. T!Answered(c, "fetched", T!Listing)
  BY DEF T!FetchSpecs
<1>2. Moved(c, "fetched", T!Listing)
  BY <1>1, AnsweredIs
<1> QED BY <1>2 DEF T!FetchSpecs, T!At

LEMMA DecidedIs ==
  ASSUME TypeInv, NEW c \in Callers, T!Deleted(c) \/ T!DecisionFails(c)
  PROVE  Ended(c) /\ runs[c].op = "decide"
BY EndIs DEF T!Deleted, T!DecisionFails, T!At

LEMMA BeginsIs ==
  ASSUME TypeInv, NEW c \in Callers, NEW r, T!Put(c, r)
  PROVE  OneChanges(c) /\ runs'[c] = r
BY ApartFrom DEF TypeInv, T!Put

LEMMA SyncRun ==
  ASSUME TypeInv, NEW c \in Callers, T!ManualSync(c)
  PROVE  /\ OneChanges(c) /\ tab \in T!Tabs /\ T!Free /\ runs[c].op = "none"
         /\ runs'[c].op = "sync" /\ runs'[c].stage = "next" /\ runs'[c].of = tab /\ runs'[c].mounted /\ runs'[c].alone
         /\ runs'[c].given = lists[tab] /\ runs'[c].results = T!NoResults
         /\ \A k \in DOMAIN runs'[c].rest : runs'[c].rest[k] \in lists[tab]
         /\ \A x \in lists[tab] : \E k \in DOMAIN runs'[c].rest : runs'[c].rest[k] = x
         /\ \A j, k \in DOMAIN runs'[c].rest : runs'[c].rest[j] = runs'[c].rest[k] => j = k
<1> DEFINE S == lists[tab]  r == T!Run("sync", "next", tab, S)
<1>1. Len(host) \in Nat /\ ListOK(S) /\ tab \in T!Tabs \cup {"event"} /\ BeginsAs("sync", "next", S)
  BY SyncBeginsTypes, SpecificationsAre DEF TypeInv, BeginsAs
<1>2. T!Put(c, r) /\ tab \in T!Tabs /\ T!Free /\ runs[c].op = "none"
  BY MarkedOK DEF T!ManualSync, TypeInv
<1> HIDE DEF S
<1>3. /\ r.op = "sync" /\ r.stage = "next" /\ r.of = tab /\ r.mounted /\ r.alone
      /\ r.given = S /\ r.results = T!NoResults
      /\ \A k \in DOMAIN r.rest : r.rest[k] \in S
      /\ \A x \in S : \E k \in DOMAIN r.rest : r.rest[k] = x
      /\ \A j, k \in DOMAIN r.rest : r.rest[j] = r.rest[k] => j = k
  <2>1. PICK t, op, s, Listed : t = tab /\ op = "sync" /\ s = "next" /\ Listed = S
    OBVIOUS
  <2>2. /\ op \in {"load", "sync", "decide"} /\ t \in T!Tabs \cup {"event"} /\ ListOK(Listed)
        /\ Len(host) \in Nat /\ BeginsAs(op, s, Listed)
    BY <1>1, <2>1
  <2> DEFINE q == T!Run(op, s, t, Listed)
  <2>3. /\ q.op = op /\ q.stage = s /\ q.of = t /\ q.mounted /\ q.alone /\ q.given = Listed
        /\ q.results = T!NoResults
    BY DEF T!Run
  <2>30. q.rest = T!SetToSeq(Listed) /\ IsFiniteSet(Listed)
    BY <2>2 DEF T!Run, ListOK
  <2>31. /\ \A x \in Listed : \E k \in DOMAIN q.rest : q.rest[k] = x
         /\ \A j, k \in DOMAIN q.rest : q.rest[j] = q.rest[k] => j = k
    BY <2>30, MembersOf
  <2>32. q.rest \in Seq(Listed)
    BY <2>30, MembersOf
  <2>33. \A k \in DOMAIN q.rest : q.rest[k] \in Listed
    BY <2>32, ElementOfSeq, LenProperties
  <2>4. q = r
    BY <2>1
  <2> HIDE DEF q, r
  <2> QED BY <2>1, <2>3, <2>31, <2>32, <2>33, <2>4
<1> HIDE DEF r
<1>4. OneChanges(c) /\ runs'[c] = r
  BY <1>2, BeginsIs
<1> QED BY <1>2, <1>3, <1>4 DEF S

LEMMA RefreshRun ==
  ASSUME TypeInv, NEW c \in Callers, T!Refresh(c)
  PROVE  /\ OneChanges(c) /\ tab \in T!Tabs /\ T!Free /\ runs[c].op = "none"
         /\ runs'[c].op = "load" /\ runs'[c].stage = "agents" /\ runs'[c].of = tab /\ runs'[c].mounted
         /\ runs'[c].rest = <<>>
<1> DEFINE r == T!Run("load", "agents", tab, {})
<1>1. T!Put(c, r) /\ tab \in T!Tabs /\ T!Free /\ runs[c].op = "none"
  BY MarkedOK DEF T!Refresh, TypeInv
<1>2. r.op = "load" /\ r.stage = "agents" /\ r.of = tab /\ r.mounted /\ r.rest = <<>>
  BY <1>1, LoadRun, SpecificationsAre DEF TypeInv
<1> HIDE DEF r
<1> QED BY <1>1, <1>2, BeginsIs

LEMMA OpenRun ==
  ASSUME TypeInv, NEW c \in Callers, NEW t \in T!Tabs, T!Open(c, t)
  PROVE  /\ runs[c].op = "none"
         /\ \A d \in Callers : d # c => runs'[d] = T!Unmounted[d]
         /\ runs'[c].op = "load" /\ runs'[c].stage = "agents" /\ runs'[c].of = t /\ runs'[c].mounted
         /\ runs'[c].rest = <<>>
<1> DEFINE r == T!Run("load", "agents", t, {})
<1>1. runs' = [T!Unmounted EXCEPT ![c] = r] /\ runs[c].op = "none"
  BY MarkedOK DEF T!Open, TypeInv
<1>2. r.op = "load" /\ r.stage = "agents" /\ r.of = t /\ r.mounted /\ r.rest = <<>>
  BY <1>1, LoadRun, SpecificationsAre DEF TypeInv
<1> HIDE DEF r
<1> QED BY <1>1, <1>2, MarkedOK DEF TypeInv

LEMMA DecideBegins ==
  ASSUME TypeInv, NEW c \in Callers, NEW e \in T!Entities, NEW s \in {"approved", "rejected"}, T!Decide(c, e, s)
  PROVE  /\ OneChanges(c) /\ tab = "elsewhere" /\ runs[c].op = "none"
         /\ runs'[c].op = "decide" /\ runs'[c].stage = s /\ runs'[c].mounted
         /\ Len(runs'[c].rest) = 1 /\ runs'[c].rest \in Seq(Items) /\ runs'[c].rest[1] = T!Item(e)
<1> DEFINE S == {T!Item(e)}  r == T!Run("decide", s, "event", S)
<1>1. T!Put(c, r) /\ tab = "elsewhere" /\ runs[c].op = "none"
  BY MarkedOK DEF T!Decide, TypeInv
<1>2. ListOK(S) /\ BeginsAs("decide", s, S)
  <2>1. IsFiniteSet(S)
    BY FS_Singleton
  <2>2. S \subseteq Items
    BY DEF Items, T!Item, TypeInv, DataOK
  <2> QED BY <2>1, <2>2 DEF ListOK, BeginsAs
<1> HIDE DEF S
<1>3. Len(host) \in Nat
  BY SpecificationsAre DEF TypeInv
<1>4. /\ RunOK(r, Len(host)) /\ r.op = "decide" /\ r.stage = s /\ r.mounted
      /\ \A k \in DOMAIN r.rest : r.rest[k] \in S
      /\ \A x \in S : \E k \in DOMAIN r.rest : r.rest[k] = x
      /\ \A j, k \in DOMAIN r.rest : r.rest[j] = r.rest[k] => j = k
  <2>1. RunOK(r, Len(host))
    <3>1. S # {} /\ ListOK(S)
      BY <1>2 DEF S
    <3> QED BY <1>3, <3>1, DecideRun
  <2>2. r.op = "decide" /\ r.stage = s /\ r.mounted /\ r.rest = T!SetToSeq(S) /\ IsFiniteSet(S)
    BY <1>2 DEF T!Run, ListOK
  <2>3. PICK q : q = r.rest
    OBVIOUS
  <2>4. /\ q \in Seq(S) /\ \A x \in S : \E k \in DOMAIN q : q[k] = x
        /\ \A j, k \in DOMAIN q : q[j] = q[k] => j = k
    BY <2>2, <2>3, MembersOf
  <2>5. \A k \in DOMAIN q : q[k] \in S
    BY <2>4, ElementOfSeq, LenProperties
  <2> HIDE DEF r
  <2> QED BY <2>1, <2>2, <2>3, <2>4, <2>5
<1> HIDE DEF r
<1>5. r.rest \in Seq(Items) /\ Len(r.rest) \in Nat /\ DOMAIN r.rest = 1 .. Len(r.rest)
  BY <1>4, LenProperties DEF RunOK, RunSet
<1>6. T!Item(e) \in S /\ \A x \in S : x = T!Item(e)
  BY DEF S
<1>7. \A j, k \in DOMAIN r.rest : j = k
  BY <1>4, <1>6
<1>8. Len(r.rest) = 1
  <2>1. PICK k \in DOMAIN r.rest : r.rest[k] = T!Item(e)
    BY <1>4, <1>6
  <2>2. 1 \in DOMAIN r.rest /\ Len(r.rest) \in DOMAIN r.rest
    BY <1>5, <2>1
  <2> QED BY <1>7, <2>2
<1>9. r.rest[1] = T!Item(e)
  BY <1>4, <1>5, <1>6, <1>8
<1> QED BY <1>1, <1>4, <1>5, <1>8, <1>9, BeginsIs

-----------------------------------------------------------------------------
\* A run that goes on, and one that ends.
LEMMA MovedWaits ==
  ASSUME WaitsInv, NEW c \in Callers, NEW s, NEW a, Moved(c, s, a), UNCHANGED <<tab, loading, syncing>>,
         runs[c].op # "none", ~(runs[c].op = "load" /\ runs[c].stage = "list")
  PROVE  WaitsInv'
<1>1. OneChanges(c) /\ Stays(c) /\ BusyRun(runs[c])
  BY DEF Moved, BusyRun
<1>9. LoadingKept(c) /\ SyncingKept(c) /\ Goes(c)
  BY <1>1 DEF LoadingKept, SyncingKept, Goes
<1> QED BY <1>1, <1>9, WaitsStep

LEMMA CountedWaits ==
  ASSUME WaitsInv, NEW c \in Callers, NEW field, CountedAs(c, field), UNCHANGED <<tab, loading, syncing>>,
         runs[c].op = "sync"
  PROVE  WaitsInv'
<1>1. OneChanges(c) /\ Stays(c) /\ BusyRun(runs[c]) /\ runs[c].op # "none"
  BY DEF CountedAs, BusyRun
<1>9. LoadingKept(c) /\ SyncingKept(c) /\ Goes(c)
  BY <1>1 DEF LoadingKept, SyncingKept, Goes
<1> QED BY <1>1, <1>9, WaitsStep

LEMMA EndedWaits ==
  ASSUME WaitsInv, NEW c \in Callers, Ended(c), UNCHANGED tab,
         loading' = loading \/ BusyRun(runs[c]), syncing' = syncing \/ runs[c].op = "sync"
  PROVE  WaitsInv'
<1>1. OneChanges(c) /\ runs'[c].op = "none" /\ ~BusyRun(runs'[c]) /\ runs'[c].op # "sync"
  BY DEF Ended, BusyRun
<1>2. LoadingKept(c)
  BY <1>1 DEF LoadingKept
<1>3. SyncingKept(c) /\ Goes(c)
  BY <1>1 DEF SyncingKept, Goes
<1> QED BY <1>1, <1>2, <1>3, WaitsStep

LEMMA NobodyBusy ==
  ASSUME TypeInv, WaitsInv, tab \in T!Tabs, T!Free
  PROVE  \A d \in Callers : ~BusyRun(runs[d])
<1>1. tab # "elsewhere"
  BY DEF T!Tabs
<1> SUFFICES ASSUME NEW d \in Callers, BusyRun(runs[d]) PROVE FALSE
  OBVIOUS
<1>2. runs[d].op \in {"load", "sync", "decide"}
  BY RunFields DEF TypeInv, RunSet, BusyRun
<1> QED BY <1>1, <1>2 DEF WaitsInv, T!Free, BusyRun

LEMMA LoadWaits ==
  ASSUME Waits, TypeInv, WaitsInv, NEW c \in Callers,
         \/ T!Refresh(c) \/ T!LoadAgents(c) \/ T!FetchSpecs(c) \/ T!SpecsFetched(c) \/ T!LoadFails(c) \/ T!LoadList(c)
         \/ \E t \in T!Tabs : T!Open(c, t)
  PROVE  WaitsInv'
<1>1. CASE T!Refresh(c)
  <2>1. runs'[c].op \in {"load", "sync", "decide"} /\ tab' = tab /\ tab # "elsewhere" /\ runs'[c].op # "sync"
    BY <1>1, RefreshRun DEF T!Refresh, T!Tabs
  <2>2. loading'
    BY <1>1 DEF T!Refresh
  <2>3. \A d \in Callers : ~BusyRun(runs[d])
    BY <1>1, NobodyBusy, RefreshRun
  <2> QED BY <1>1, <2>1, <2>2, <2>3, RefreshRun, WaitsBegin
<1>2. CASE T!LoadAgents(c)
  <2>1. /\ Moved(c, "specs", runs[c].answer) /\ runs[c].op # "none" /\ runs[c].stage # "list"
        /\ UNCHANGED <<tab, loading, syncing>>
    BY <1>2, ToIs DEF T!LoadAgents, T!At, T!Component
  <2> QED BY <2>1, MovedWaits
<1>3. CASE T!FetchSpecs(c)
  <2>1. /\ Moved(c, "fetched", T!Listing) /\ runs[c].op # "none" /\ runs[c].stage # "list"
        /\ UNCHANGED <<tab, loading, syncing>>
    BY <1>3, FetchingIs DEF T!FetchSpecs, T!Component
  <2> QED BY <2>1, MovedWaits
<1>4. CASE T!SpecsFetched(c) \/ T!LoadFails(c)
  <2>1. runs[c].op = "load" /\ runs[c].stage # "list" /\ T!LoadOver(c) /\ UNCHANGED <<tab, syncing>>
    BY <1>4 DEF T!SpecsFetched, T!LoadFails, T!At
  <2>2. BusyRun(runs[c]) /\ runs[c].op # "none"
    BY <2>1 DEF BusyRun
  <2>3. CASE Ended(c)
    BY <2>1, <2>2, <2>3, EndedWaits
  <2>4. CASE Moved(c, "list", runs[c].answer)
    <3>1. OneChanges(c) /\ Stays(c) /\ ~BusyRun(runs'[c])
      BY <2>1, <2>4 DEF Moved, BusyRun, Stays
    <3>2. LoadingKept(c) /\ SyncingKept(c) /\ Goes(c)
      BY <2>1, <2>2, <3>1 DEF LoadingKept, SyncingKept, Goes
    <3> QED BY <2>1, <2>2, <3>1, <3>2, WaitsStep
  <2> QED BY <2>1, <2>3, <2>4, LoadOverIs
<1>5. CASE T!LoadList(c)
  BY <1>5, EndIs, EndedWaits DEF T!LoadList, T!Component
<1>6. ASSUME NEW t \in T!Tabs, T!Open(c, t) PROVE WaitsInv'
  <2>1. AllIdle /\ tab' = t /\ loading'
    BY <1>6, WaitedIs DEF T!Open
  <2>2. OneChanges(c)
    BY <1>6, <2>1, OpenRun, NoneUnmounted DEF OneChanges
  <2>3. \A d \in Callers : runs[d].op = "none" /\ ~BusyRun(runs[d])
    BY <2>1 DEF AllIdle, BusyRun
  <2>4. t # "elsewhere" /\ runs'[c].op \in {"load", "sync", "decide"} /\ runs'[c].op # "sync"
    BY <1>6, OpenRun DEF T!Tabs
  <2> QED BY <1>6, <2>1, <2>2, <2>3, <2>4, OpenRun, WaitsBegin
<1> QED BY <1>1, <1>2, <1>3, <1>4, <1>5, <1>6

LEMMA SyncWaits ==
  ASSUME Waits, TypeInv, WaitsInv, NEW c \in Callers,
         \/ T!ManualSync(c) \/ T!SyncNext(c) \/ T!UpdateOnHost(c) \/ T!Updated(c) \/ T!CreateOnHost(c)
         \/ T!Created(c) \/ T!ItemFails(c) \/ T!SyncReload(c) \/ T!SyncEnds(c) \/ T!SyncFails(c)
  PROVE  WaitsInv'
<1>1. CASE T!ManualSync(c)
  <2>1. runs'[c].op \in {"load", "sync", "decide"} /\ tab' = tab /\ tab # "elsewhere" /\ runs'[c].op # "load"
    BY <1>1, SyncRun DEF T!ManualSync, T!Tabs
  <2>2. syncing'
    BY <1>1 DEF T!ManualSync
  <2>3. \A d \in Callers : ~BusyRun(runs[d])
    BY <1>1, NobodyBusy, SyncRun
  <2> QED BY <1>1, <2>1, <2>2, <2>3, SyncRun, WaitsBegin
<1>2. CASE T!SyncNext(c)
  <2>1. runs[c].op # "none" /\ runs[c].op # "load" /\ UNCHANGED <<tab, loading, syncing>>
    BY <1>2, NextIs DEF T!SyncNext, T!Component
  <2> QED BY <1>2, <2>1, NextIs, MovedWaits
<1>3. CASE T!UpdateOnHost(c)
  <2>1. /\ Moved(c, "updated", runs[c].answer) /\ runs[c].op # "none" /\ runs[c].op # "load"
        /\ UNCHANGED <<tab, loading, syncing>>
    BY <1>3, ToIs DEF T!UpdateOnHost, T!At, T!Component
  <2> QED BY <2>1, MovedWaits
<1>4. CASE T!Updated(c)
  <2>1. UNCHANGED <<tab, loading, syncing>>
    BY <1>4 DEF T!Updated, T!Component
  <2>2. runs[c].op = "sync" /\ CountedAs(c, "updated")
    BY <1>4, UpdatingIs
  <2> QED BY <2>1, <2>2, CountedWaits
<1>5. CASE T!CreateOnHost(c)
  <2>1. UNCHANGED <<tab, loading, syncing>> /\ runs[c].op # "none" /\ runs[c].op # "load"
    BY <1>5, MakingIs DEF T!CreateOnHost, T!Component
  <2> QED BY <1>5, <2>1, MakingIs, MovedWaits
<1>6. CASE T!Created(c)
  <2>1. UNCHANGED <<tab, loading, syncing>>
    BY <1>6 DEF T!Created, T!Component
  <2> QED BY <1>6, <2>1, CreatingIs, CountedWaits, EndedWaits
<1>7. CASE T!ItemFails(c)
  <2>1. UNCHANGED <<tab, loading, syncing>>
    BY <1>7 DEF T!ItemFails, T!Component
  <2>2. runs[c].op = "sync" /\ CountedAs(c, "errors")
    BY <1>7, FailingIs
  <2> QED BY <2>1, <2>2, CountedWaits
<1>8. CASE T!SyncReload(c)
  <2>1. /\ Moved(c, "reload", runs[c].answer) /\ runs[c].op # "none" /\ runs[c].op # "load"
        /\ UNCHANGED <<tab, loading, syncing>>
    BY <1>8, ToIs DEF T!SyncReload, T!At
  <2> QED BY <2>1, MovedWaits
<1>9. CASE T!SyncEnds(c) \/ T!SyncFails(c)
  <2>1. runs[c].op = "sync" /\ T!SyncOver(c) /\ UNCHANGED <<tab, loading>>
    BY <1>9 DEF T!SyncEnds, T!SyncFails, T!At
  <2>2. Ended(c)
    BY <2>1, EndIs DEF T!SyncOver
  <2> QED BY <2>1, <2>2, EndedWaits
<1> QED BY <1>1, <1>2, <1>3, <1>4, <1>5, <1>6, <1>7, <1>8, <1>9

LEMMA DecideWaits ==
  ASSUME Waits, TypeInv, WaitsInv, NEW c \in Callers,
         \/ \E e \in T!Entities, s \in {"approved", "rejected"} : T!Decide(c, e, s)
         \/ T!Decided(c) \/ T!DeleteOnHost(c) \/ T!Deleted(c) \/ T!DecisionFails(c)
  PROVE  WaitsInv'
<1>1. ASSUME NEW e \in T!Entities, NEW s \in {"approved", "rejected"}, T!Decide(c, e, s) PROVE WaitsInv'
  <2>1. AllIdle /\ tab' = tab
    BY <1>1, WaitedIs DEF T!Decide
  <2>2. \A d \in Callers : ~BusyRun(runs[d])
    BY <2>1 DEF AllIdle, BusyRun
  <2>3. runs'[c].op \in {"load", "sync", "decide"} /\ runs'[c].op # "sync" /\ runs'[c].op # "load"
    BY <1>1, DecideBegins
  <2> QED BY <1>1, <2>1, <2>2, <2>3, DecideBegins, WaitsBegin
<1>2. CASE T!Decided(c)
  <2>1. runs[c].op = "decide" /\ runs[c].stage \in {"approved", "rejected"} /\ runs[c].op # "none" /\ runs[c].op # "load"
    BY <1>2 DEF T!Decided
  <2>2. OneChanges(c) /\ runs'[c] = T!EventRun(c) /\ UNCHANGED <<tab, loading, syncing>>
    BY <1>2, DecidedAlone
  <2> QED BY <2>1, <2>2, EventMoves, EndedWaits, MovedWaits
<1>3. CASE T!DeleteOnHost(c)
  <2>1. /\ Moved(c, "deleted", runs[c].answer) /\ runs[c].op # "none" /\ runs[c].op # "load"
        /\ UNCHANGED <<tab, loading, syncing>>
    BY <1>3, ToIs DEF T!DeleteOnHost, T!At, T!Component
  <2> QED BY <2>1, MovedWaits
<1>4. CASE T!Deleted(c) \/ T!DecisionFails(c)
  <2>1. UNCHANGED <<tab, loading, syncing>>
    BY <1>4 DEF T!Deleted, T!DecisionFails, T!Component
  <2> QED BY <1>4, <2>1, DecidedIs, EndedWaits
<1> QED BY <1>1, <1>2, <1>3, <1>4

\* Those that others disturb stay what they are, but for that.
LEMMA DisturbedIs ==
  ASSUME TypeInv, runs' = T!Disturbed, NEW d \in Callers
  PROVE  /\ runs'[d].op = runs[d].op /\ runs'[d].stage = runs[d].stage /\ runs'[d].of = runs[d].of
         /\ runs'[d].mounted = runs[d].mounted /\ runs'[d].given = runs[d].given /\ runs'[d].rest = runs[d].rest
         /\ runs'[d].answer = runs[d].answer /\ runs'[d].results = runs[d].results
         /\ runs[d].op # "none" => ~runs'[d].alone
<1>1. runs[d] \in RunSet(runs[d].answer)
  BY RunFields DEF TypeInv
<1>2. runs'[d] = IF runs[d].op = "none" THEN runs[d] ELSE [runs[d] EXCEPT !.alone = FALSE]
  BY MarkedOK DEF TypeInv
<1> QED BY <1>1, <1>2 DEF RunSet

LEMMA NextWaits ==
  ASSUME Waits, TypeInv, WaitsInv, [T!Next]_(T!testPageVars)
  PROVE  WaitsInv'
<1>1. CASE UNCHANGED T!testPageVars \/ T!CloseError
  <2>1. UNCHANGED <<runs, tab, loading, syncing>>
    BY <1>1 DEF T!testPageVars, T!CloseError
  <2> QED BY <2>1 DEF WaitsInv
<1>2. CASE T!Leave
  <2>1. AllIdle /\ runs' = T!Unmounted
    BY <1>2, WaitedIs DEF T!Leave
  <2>2. \A d \in Callers : runs'[d].op = "none"
    BY <2>1, NoneUnmounted DEF AllIdle
  <2> QED BY <2>2 DEF WaitsInv, BusyRun
<1>3. CASE T!OthersAct
  <2>1. UNCHANGED <<tab, loading, syncing>> /\ runs' = T!Disturbed
    BY <1>3 DEF T!OthersAct, T!Component
  <2>2. \A d \in Callers : /\ runs'[d].op = runs[d].op /\ runs'[d].stage = runs[d].stage /\ runs'[d].of = runs[d].of
                           /\ runs'[d].mounted = runs[d].mounted
    BY <2>1, DisturbedIs
  <2> QED BY <2>1, <2>2 DEF WaitsInv, BusyRun
<1> QED BY <1>1, <1>2, <1>3, LoadWaits, SyncWaits, DecideWaits DEF T!Next

-----------------------------------------------------------------------------
(* A list has what belongs on its tab, and each item as it is. *)

\* The list of a load.
Loaded(t) == [lists EXCEPT ![t] = {T!Item(e) : e \in {x \in approved : T!TabOf(x) = t}}]

LEMMA ListingOf ==
  ASSUME TypeInv, NEW c \in Callers, T!LoadList(c)
  PROVE  /\ runs[c].op = "load" /\ runs[c].stage = "list" /\ runs[c].of \in T!Tabs /\ Ended(c)
         /\ lists' = lists \/ lists' = Loaded(runs[c].of)
         /\ UNCHANGED <<approved, named, host, specs, tab, loading, syncing, whole, doubtful, results>>
<1>1. runs[c].op = "load" /\ runs[c].stage = "list" /\ T!Put(c, T!NoRun)
  BY DEF T!LoadList, T!At
<1>2. runs[c].of \in T!Tabs /\ Ended(c)
  BY <1>1, EndIs, RunFields DEF TypeInv, RunOK
<1> QED BY <1>1, <1>2 DEF T!LoadList, Loaded, T!Zomes, T!Component, T!History

\* A member of the lists that follow.
LEMMA LoadedIs ==
  ASSUME TypeInv, NEW t \in T!Tabs, NEW u \in T!Tabs, NEW r \in Loaded(t)[u]
  PROVE  r \in lists[u] \/ (t = u /\ r.of \in approved /\ T!TabOf(r.of) = t /\ r = T!Item(r.of))
<1>1. CASE t = u
  <2>1. r \in {T!Item(e) : e \in {x \in approved : T!TabOf(x) = t}}
    BY <1>1 DEF Loaded, TypeInv, DataOK
  <2>2. PICK e \in approved : T!TabOf(e) = t /\ r = T!Item(e)
    BY <2>1
  <2>3. r.of = e
    BY <2>2 DEF T!Item
  <2> QED BY <1>1, <2>2, <2>3
<1>2. CASE t # u
  BY <1>2 DEF Loaded, TypeInv, DataOK
<1> QED BY <1>1, <1>2

\* The lists of a decision.
DecidedLists(r, s) ==
  LET t == T!TabOf(r.of)
  IN  IF s = "approved" THEN [lists EXCEPT ![t] = @ \cup {r}]
      ELSE [lists EXCEPT ![t] = {x \in @ : x.of # r.of}]

LEMMA DecidingIs ==
  ASSUME TypeInv, NEW c \in Callers, T!Decided(c)
  PROVE  /\ runs[c].op = "decide" /\ runs[c].stage \in {"approved", "rejected"} /\ runs[c].rest # <<>>
         /\ lists' = DecidedLists(T!Current(c), runs[c].stage)
         /\ approved' = IF runs[c].stage = "approved" THEN approved \cup {T!Current(c).of} ELSE approved \ {T!Current(c).of}
         /\ doubtful' = IF runs[c].stage = "approved" THEN doubtful \/ ~whole ELSE doubtful
         /\ UNCHANGED <<named, host, specs, whole, others, decisions, failures>>
<1>1. runs[c].op = "decide" /\ runs[c].stage \in {"approved", "rejected"}
  BY DEF T!Decided
<1>2. runs[c].rest # <<>>
  BY <1>1, CurrentIs DEF TypeInv, ItemStages
<1>3. UNCHANGED <<named, host, specs, whole, others, decisions, failures>>
  BY DEF T!Decided, T!Bounds
<1>4. CASE runs[c].stage = "approved"
  BY <1>1, <1>2, <1>3, <1>4 DEF T!Decided, DecidedLists
<1>5. CASE runs[c].stage # "approved"
  BY <1>1, <1>2, <1>3, <1>5 DEF T!Decided, DecidedLists
<1> QED BY <1>4, <1>5

LEMMA DecidedListsAre ==
  ASSUME TypeInv, NEW r \in Items, NEW s \in {"approved", "rejected"}, NEW u \in T!Tabs, NEW x \in DecidedLists(r, s)[u]
  PROVE  /\ x \in lists[u] \/ (s = "approved" /\ x = r /\ u = T!TabOf(r.of))
         /\ s = "rejected" /\ u = T!TabOf(r.of) => x.of # r.of
<1>1. T!TabOf(r.of) \in T!Tabs /\ lists = [t \in T!Tabs |-> lists[t]]
  BY DEF T!TabOf, T!Tabs, TypeInv, DataOK
<1>2. PICK t \in T!Tabs : t = T!TabOf(r.of)
  BY <1>1
<1>3. CASE s = "approved"
  BY <1>1, <1>2, <1>3 DEF DecidedLists
<1>4. CASE s = "rejected"
  BY <1>1, <1>2, <1>4 DEF DecidedLists
<1> QED BY <1>3, <1>4

\* Nothing else changes the lists.
LEMMA ListsChange ==
  ASSUME [T!Next]_(T!testPageVars)
  PROVE  UNCHANGED lists \/ \E c \in Callers : T!LoadList(c) \/ T!Decided(c)
<1>1. ASSUME NEW c \in Callers, NEW t \in T!Tabs, T!Open(c, t) PROVE UNCHANGED lists
  BY <1>1 DEF T!Open
<1>2. ASSUME NEW c \in Callers, T!Refresh(c) \/ T!LoadAgents(c) \/ T!FetchSpecs(c) \/ T!SpecsFetched(c) \/ T!LoadFails(c) PROVE UNCHANGED lists
  BY <1>2 DEF T!Refresh, T!LoadAgents, T!FetchSpecs, T!SpecsFetched, T!LoadFails
<1>3. ASSUME NEW c \in Callers, T!ManualSync(c) \/ T!SyncNext(c) \/ T!UpdateOnHost(c) \/ T!Updated(c) \/ T!CreateOnHost(c) PROVE UNCHANGED lists
  BY <1>3 DEF T!ManualSync, T!SyncNext, T!UpdateOnHost, T!Updated, T!CreateOnHost
<1>4. ASSUME NEW c \in Callers, T!Created(c) \/ T!ItemFails(c) \/ T!SyncReload(c) \/ T!SyncEnds(c) \/ T!SyncFails(c) PROVE UNCHANGED lists
  BY <1>4 DEF T!Created, T!ItemFails, T!SyncReload, T!SyncEnds, T!SyncFails
<1>5. ASSUME NEW c \in Callers, NEW e \in T!Entities, NEW s \in {"approved", "rejected"}, T!Decide(c, e, s) PROVE UNCHANGED lists
  BY <1>5 DEF T!Decide
<1>6. ASSUME NEW c \in Callers, T!DeleteOnHost(c) \/ T!Deleted(c) \/ T!DecisionFails(c) PROVE UNCHANGED lists
  BY <1>6 DEF T!DeleteOnHost, T!Deleted, T!DecisionFails
<1>7. CASE T!Leave \/ T!CloseError \/ T!OthersAct \/ UNCHANGED T!testPageVars
  BY <1>7 DEF T!Leave, T!CloseError, T!OthersAct, T!testPageVars
<1> QED BY <1>1, <1>2, <1>3, <1>4, <1>5, <1>6, <1>7 DEF T!Next

LEMMA NextLists == ASSUME TypeInv, ListsInv, [T!Next]_(T!testPageVars) PROVE ListsInv'
<1>1. CASE UNCHANGED lists
  BY <1>1 DEF ListsInv
<1>2. ASSUME NEW c \in Callers, T!LoadList(c) PROVE ListsInv'
  BY <1>2, ListingOf, LoadedIs DEF ListsInv
<1>3. ASSUME NEW c \in Callers, T!Decided(c) PROVE ListsInv'
  <2>1. T!Current(c) \in Items /\ runs[c].stage \in {"approved", "rejected"} /\ lists' = DecidedLists(T!Current(c), runs[c].stage)
    BY <1>3, DecidingIs, CurrentIs DEF TypeInv
  <2>2. PICK r \in Items, s \in {"approved", "rejected"} : lists' = DecidedLists(r, s)
    BY <2>1
  <2>3. ASSUME NEW u \in T!Tabs, NEW x \in lists'[u] PROVE T!TabOf(x.of) = u
    <3>1. x \in lists[u] \/ (x = r /\ u = T!TabOf(r.of))
      BY <2>2, <2>3, DecidedListsAre
    <3> QED BY <3>1 DEF ListsInv
  <2> QED BY <2>3 DEF ListsInv
<1> QED BY <1>1, <1>2, <1>3, ListsChange

-----------------------------------------------------------------------------
(* No second specification, of a person who waits. *)

LEMMA StageBusy ==
  ASSUME TypeInv, NEW d \in Callers
  PROVE  /\ runs[d].stage \in ItemStages \cup {"fetched", "next", "reload"} => BusyRun(runs[d])
         /\ runs[d].op = "none" => runs[d].stage = "none" /\ runs[d].rest = <<>>
         /\ MakingOne(d) => BusyRun(runs[d])
<1>1. RunOK(runs[d], Len(host)) /\ runs[d] \in RunSet(runs[d].answer)
  BY RunFields DEF TypeInv
<1>2. runs[d].op = "none" => runs[d].stage = "none" /\ runs[d].rest = <<>>
  BY <1>1, NoCallIs, SpecificationsAre DEF RunOK, TypeInv
<1>3. runs[d].stage \in ItemStages \cup {"fetched", "next", "reload"} => BusyRun(runs[d])
  BY <1>2 DEF ItemStages, BusyRun
<1>4. MakingOne(d) => BusyRun(runs[d])
  BY DEF MakingOne, T!At, BusyRun
<1> QED BY <1>2, <1>3, <1>4

\* What is left of a run's items.
RestShrinks(c) ==
  \/ runs'[c].rest = runs[c].rest
  \/ runs'[c].rest = <<>>
  \/ runs[c].rest # <<>> /\ runs'[c].rest = Tail(runs[c].rest)

LEMMA RestIs ==
  ASSUME TypeInv, NEW c \in Callers, RestShrinks(c)
  PROVE  \E m \in {0, 1} : \A k \in DOMAIN runs'[c].rest :
           /\ k + m \in DOMAIN runs[c].rest /\ runs'[c].rest[k] = runs[c].rest[k + m]
           /\ runs'[c].rest # runs[c].rest => m = 1
<1>0. runs[c].rest \in Seq(Items) /\ DOMAIN runs[c].rest \subseteq Nat
  <2>1. runs[c].rest \in Seq(Items)
    BY RunFields DEF TypeInv
  <2> QED BY <2>1, LenProperties
<1>1. CASE runs'[c].rest = runs[c].rest
  <2>1. \A k \in DOMAIN runs[c].rest : k + 0 = k
    BY <1>0
  <2> QED BY <1>1, <2>1
<1>2. CASE runs'[c].rest = <<>>
  <2>1. DOMAIN runs'[c].rest = {}
    BY <1>2
  <2> QED BY <2>1
<1>3. CASE runs[c].rest # <<>> /\ runs'[c].rest = Tail(runs[c].rest)
  <2>1. \A k \in DOMAIN Tail(runs[c].rest) : k + 1 \in DOMAIN runs[c].rest /\ Tail(runs[c].rest)[k] = runs[c].rest[k + 1]
    BY <1>0, <1>3, TailIs
  <2> QED BY <1>3, <2>1
<1> QED BY <1>1, <1>2, <1>3 DEF RestShrinks

LEMMA RestKinds ==
  ASSUME TypeInv, NEW c \in Callers
  PROVE  /\ \A s, a : Moved(c, s, a) => RestShrinks(c)
         /\ Ended(c) => RestShrinks(c)
         /\ \A f : CountedAs(c, f) /\ runs[c].rest # <<>> => RestShrinks(c)
BY DEF Moved, Ended, CountedAs, RestShrinks

LEMMA RestKept ==
  ASSUME TypeInv, ItemsInv, NEW c \in Callers, OneChanges(c), RestShrinks(c), UNCHANGED named
  PROVE  /\ (\A d \in Callers : \A k \in DOMAIN runs[d].rest : runs[d].rest[k] = T!Item(runs[d].rest[k].of))'
         /\ (\A d \in Callers : \A j, k \in DOMAIN runs[d].rest : runs[d].rest[j].of = runs[d].rest[k].of => j = k)'
<1>1. PICK m \in {0, 1} : \A k \in DOMAIN runs'[c].rest :
           k + m \in DOMAIN runs[c].rest /\ runs'[c].rest[k] = runs[c].rest[k + m]
  BY RestIs
<1>2. \A x : T!Item(x)' = T!Item(x)
  BY DEF T!Item
<1>3. ASSUME NEW d \in Callers, NEW k \in DOMAIN runs'[d].rest PROVE runs'[d].rest[k] = T!Item(runs'[d].rest[k].of)
  <2>1. CASE d = c
    BY <1>1, <1>3, <2>1 DEF ItemsInv
  <2>2. CASE d # c
    BY <1>3, <2>2 DEF ItemsInv, OneChanges
  <2> QED BY <2>1, <2>2
<1>4. ASSUME NEW d \in Callers, NEW j \in DOMAIN runs'[d].rest, NEW k \in DOMAIN runs'[d].rest,
             runs'[d].rest[j].of = runs'[d].rest[k].of
      PROVE  j = k
  <2>1. CASE d = c
    <3>1. j + m = k + m
      BY <1>1, <1>4, <2>1 DEF ItemsInv
    <3>2. runs[c].rest \in Seq(Items)
      BY RunFields DEF TypeInv
    <3>3. runs'[c].rest \in Seq(Items) \/ runs'[c].rest = <<>>
      BY <3>2, TailIs DEF RestShrinks
    <3>4. DOMAIN runs'[c].rest \subseteq Nat
      BY <3>3, LenProperties
    <3> QED BY <2>1, <1>4, <3>1, <3>4
  <2>2. CASE d # c
    BY <1>4, <2>2 DEF ItemsInv, OneChanges
  <2> QED BY <2>1, <2>2
<1> QED BY <1>2, <1>3, <1>4

LEMMA ItemsKept ==
  ASSUME TypeInv, ItemsInv, NEW c \in Callers, OneChanges(c), RestShrinks(c), UNCHANGED <<lists, approved, named>>
  PROVE  ItemsInv'
<1>1. (\A t \in T!Tabs : Fresh(lists[t]))'
  BY DEF ItemsInv, Fresh, T!Item
<1> QED BY <1>1, RestKept DEF ItemsInv

LEMMA SyncItems ==
  ASSUME TypeInv, ItemsInv, NEW c \in Callers, T!ManualSync(c)
  PROVE  ItemsInv'
<1>1. UNCHANGED <<lists, approved, named>>
  BY DEF T!ManualSync, T!Zomes
<1>2. (\A t \in T!Tabs : Fresh(lists[t]))'
  BY <1>1 DEF ItemsInv, Fresh, T!Item
<1>3. \A x : T!Item(x)' = T!Item(x)
  BY <1>1 DEF T!Item
<1>4. \A k \in DOMAIN runs'[c].rest : runs'[c].rest[k] = T!Item(runs'[c].rest[k].of)
  BY SyncRun DEF ItemsInv, Fresh
<1>5. \A j, k \in DOMAIN runs'[c].rest : runs'[c].rest[j].of = runs'[c].rest[k].of => j = k
  BY <1>4, SyncRun
<1>6. OneChanges(c)
  BY SyncRun
<1> QED BY <1>2, <1>3, <1>4, <1>5, <1>6 DEF ItemsInv, OneChanges

LEMMA DecideItems ==
  ASSUME TypeInv, ItemsInv, NEW c \in Callers, NEW e \in T!Entities, NEW s \in {"approved", "rejected"}, T!Decide(c, e, s)
  PROVE  ItemsInv'
<1>1. UNCHANGED <<lists, approved, named>>
  BY DEF T!Decide, T!Zomes
<1>2. (\A t \in T!Tabs : Fresh(lists[t]))'
  BY <1>1 DEF ItemsInv, Fresh, T!Item
<1>3. \A x : T!Item(x)' = T!Item(x)
  BY <1>1 DEF T!Item
<1>4. DOMAIN runs'[c].rest = {1} /\ runs'[c].rest[1] = T!Item(e) /\ T!Item(e).of = e
  <2>1. Len(runs'[c].rest) = 1 /\ runs'[c].rest \in Seq(Items) /\ runs'[c].rest[1] = T!Item(e)
    BY DecideBegins
  <2>2. DOMAIN runs'[c].rest = 1 .. 1
    BY <2>1, LenProperties
  <2> QED BY <2>1, <2>2 DEF T!Item
<1>5. \A k \in DOMAIN runs'[c].rest : runs'[c].rest[k] = T!Item(runs'[c].rest[k].of)
  BY <1>4
<1>6. \A j, k \in DOMAIN runs'[c].rest : j = k
  BY <1>4
<1>7. OneChanges(c)
  BY DecideBegins
<1> QED BY <1>2, <1>3, <1>5, <1>6, <1>7 DEF ItemsInv, OneChanges

LEMMA LoadListItems ==
  ASSUME TypeInv, ItemsInv, NEW c \in Callers, T!LoadList(c)
  PROVE  ItemsInv'
<1>1. OneChanges(c) /\ RestShrinks(c) /\ UNCHANGED <<approved, named>> /\ runs[c].of \in T!Tabs
      /\ (lists' = lists \/ lists' = Loaded(runs[c].of))
  BY ListingOf, RestKinds DEF Ended
<1>2. \A x : T!Item(x)' = T!Item(x)
  BY <1>1 DEF T!Item
<1>3. ASSUME NEW u \in T!Tabs, NEW r \in lists'[u] PROVE r.of \in approved /\ r = T!Item(r.of)
  <2>1. CASE lists' = lists
    BY <1>3, <2>1 DEF ItemsInv, Fresh
  <2>2. CASE lists' = Loaded(runs[c].of)
    BY <1>1, <1>3, <2>2, LoadedIs DEF ItemsInv, Fresh
  <2> QED BY <1>1, <2>1, <2>2
<1>4. (\A t \in T!Tabs : Fresh(lists[t]))'
  BY <1>1, <1>2, <1>3 DEF Fresh
<1> QED BY <1>1, <1>4, RestKept DEF ItemsInv

LEMMA DecidedItems ==
  ASSUME TypeInv, WaitsInv, ListsInv, ItemsInv, NEW c \in Callers, T!Decided(c)
  PROVE  ItemsInv'
<1>1. OneChanges(c) /\ RestShrinks(c) /\ UNCHANGED named
  BY DecidedAlone, EventMoves, DecidingIs, RestKinds
<1>2. T!Current(c) \in Items /\ T!Current(c) = T!Item(T!Current(c).of)
  BY DecidingIs, CurrentIs DEF TypeInv, ItemsInv
<1>3. PICK r \in Items, s \in {"approved", "rejected"} :
        /\ lists' = DecidedLists(r, s) /\ r = T!Item(r.of)
        /\ approved' = IF s = "approved" THEN approved \cup {r.of} ELSE approved \ {r.of}
  BY <1>2, DecidingIs
<1>4. ASSUME NEW u \in T!Tabs, NEW x \in lists'[u] PROVE x.of \in approved' /\ x = T!Item(x.of)
  <2>1. /\ x \in lists[u] \/ (s = "approved" /\ x = r /\ u = T!TabOf(r.of))
        /\ s = "rejected" /\ u = T!TabOf(r.of) => x.of # r.of
    BY <1>3, <1>4, DecidedListsAre
  <2>2. CASE x \in lists[u]
    <3>1. T!TabOf(x.of) = u /\ x.of \in approved /\ x = T!Item(x.of)
      BY <2>2 DEF ListsInv, ItemsInv, Fresh
    <3> QED BY <1>3, <2>1, <3>1
  <2>3. CASE s = "approved" /\ x = r
    BY <1>3, <2>3
  <2> QED BY <2>1, <2>2, <2>3
<1>5. \A x : T!Item(x)' = T!Item(x)
  BY <1>1 DEF T!Item
<1>6. (\A t \in T!Tabs : Fresh(lists[t]))'
  BY <1>4, <1>5 DEF Fresh
<1> QED BY <1>1, <1>6, RestKept DEF ItemsInv

-----------------------------------------------------------------------------
\* The host makes and finds nothing meanwhile.
HostKept ==
  /\ DOMAIN host' = DOMAIN host
  /\ \A i \in DOMAIN host : host'[i].of = host[i].of /\ (host'[i].there => host[i].there)

LEMMA FetchedKept ==
  ASSUME FetchedInv, NEW c \in Callers, OneChanges(c), runs'[c].stage # "fetched", HostKept
  PROVE  FetchedInv'
BY DEF FetchedInv, OneChanges, HostKept, T!There

\* The other conditions of what is known of one run.
NoneNow(c) ==
  \A i \in DOMAIN host : Missing(i)' /\ MakingOne(c)' =>
    \A k \in DOMAIN runs'[c].rest : runs'[c].rest[k].of # host[i].of

Accounted(c) ==
  \A i \in DOMAIN host : Missing(i)' /\ whole' => whole /\ ~(runs[c].stage = "created" /\ runs[c].answer[1] = i)

CreatesNew(c) ==
  runs'[c].stage = "create" /\ T!Current(c)'.of \in Types => \A i \in DOMAIN host : T!There(i) => host[i].of # T!Current(c)'.of

LEMMA OnceStep ==
  ASSUME TypeInv, OnceInv, NEW c \in Callers, OneChanges(c), HostKept,
         \A i \in DOMAIN host : Missing(i)' => Missing(i),
         NoneNow(c), Accounted(c), CreatesNew(c),
         (runs[c].stage = "deleted" => ~T!There(runs[c].answer[1]))'
  PROVE  OnceInv'
<1>1. (\A e \in Types : \A i, j \in DOMAIN host :
         T!There(i) /\ T!There(j) /\ host[i].of = e /\ host[j].of = e => i = j)'
  BY DEF OnceInv, HostKept, T!There
<1>2. ASSUME NEW i \in DOMAIN host', Missing(i)', whole'
      PROVE  \E d \in Callers : runs'[d].stage = "created" /\ runs'[d].answer[1] = i
  <2>1. i \in DOMAIN host /\ Missing(i) /\ whole
    BY <1>2 DEF HostKept, Accounted
  <2>2. PICK d \in Callers : runs[d].stage = "created" /\ runs[d].answer[1] = i
    BY <2>1 DEF OnceInv
  <2>3. d # c
    BY <1>2, <2>1, <2>2 DEF Accounted
  <2> QED BY <2>2, <2>3 DEF OneChanges
<1>3. ASSUME NEW i \in DOMAIN host', Missing(i)', NEW d \in Callers, MakingOne(d)', NEW k \in DOMAIN runs'[d].rest,
             runs'[d].rest[k].of = host'[i].of
      PROVE  k = 1 /\ runs'[d].stage = "created" /\ runs'[d].answer[1] = i
  <2>1. i \in DOMAIN host /\ Missing(i) /\ host'[i].of = host[i].of
    BY <1>3 DEF HostKept
  <2>2. d # c
    BY <1>3, <2>1 DEF NoneNow
  <2>3. runs'[d] = runs[d]
    BY <2>2 DEF OneChanges
  <2>4. MakingOne(d)
    BY <1>3, <2>3 DEF MakingOne, T!At
  <2> QED BY <1>3, <2>1, <2>3, <2>4 DEF OnceInv
<1>4. ASSUME NEW d \in Callers, runs'[d].stage = "create", T!Current(d)'.of \in Types, NEW i \in DOMAIN host', T!There(i)'
      PROVE  host'[i].of # T!Current(d)'.of
  <2>1. i \in DOMAIN host /\ T!There(i) /\ host'[i].of = host[i].of
    BY <1>4 DEF HostKept, T!There
  <2>2. CASE d = c
    BY <1>4, <2>1, <2>2 DEF CreatesNew
  <2>3. CASE d # c
    <3>1. runs'[d] = runs[d] /\ T!Current(d)' = T!Current(d)
      BY <2>3 DEF OneChanges, T!Current
    <3> QED BY <1>4, <2>1, <3>1 DEF OnceInv
  <2> QED BY <2>2, <2>3
<1>5. ASSUME NEW d \in Callers, runs'[d].stage = "deleted" PROVE ~T!There(runs[d].answer[1])'
  <2>1. CASE d = c
    BY <1>5, <2>1
  <2>2. CASE d # c
    <3>1. runs'[d] = runs[d]
      BY <2>2 DEF OneChanges
    <3>2. ~T!There(runs[d].answer[1]) /\ runs[d].answer[1] \in DOMAIN host
      BY <1>5, <3>1, NumberIs DEF OnceInv, NumberStages
    <3> QED BY <1>5, <3>1, <3>2 DEF HostKept, T!There
  <2> QED BY <2>1, <2>2
<1> QED BY <1>1, <1>2, <1>3, <1>4, <1>5 DEF OnceInv

\* A run that goes on with the items it had.
OnlyAfter(c) ==
  MakingOne(c)' => /\ MakingOne(c)
                   /\ \/ runs'[c].rest = runs[c].rest /\ runs[c].stage # "created"
                      \/ runs[c].rest # <<>> /\ runs'[c].rest = Tail(runs[c].rest)

LEMMA GoesOnNone ==
  ASSUME TypeInv, OnceInv, NEW c \in Callers, OnlyAfter(c), \A i \in DOMAIN host : Missing(i)' => Missing(i)
  PROVE  NoneNow(c)
<1> SUFFICES ASSUME NEW i \in DOMAIN host, Missing(i)', MakingOne(c)', NEW k \in DOMAIN runs'[c].rest,
                    runs'[c].rest[k].of = host[i].of
             PROVE  FALSE
  BY DEF NoneNow
<1>1. Missing(i) /\ MakingOne(c)
  BY DEF OnlyAfter
<1>2. \A n \in DOMAIN runs[c].rest : runs[c].rest[n].of = host[i].of => n = 1 /\ runs[c].stage = "created"
  BY <1>1 DEF OnceInv
<1>3. CASE runs'[c].rest = runs[c].rest /\ runs[c].stage # "created"
  BY <1>2, <1>3
<1>4. CASE runs[c].rest # <<>> /\ runs'[c].rest = Tail(runs[c].rest)
  <2>1. runs[c].rest \in Seq(Items)
    BY RunFields DEF TypeInv
  <2>2. k + 1 \in DOMAIN runs[c].rest /\ k + 1 # 1 /\ runs'[c].rest[k] = runs[c].rest[k + 1]
    BY <1>4, <2>1, TailIs
  <2> QED BY <1>2, <2>2
<1> QED BY <1>3, <1>4 DEF OnlyAfter

LEMMA QuietOnce ==
  ASSUME TypeInv, OnceInv, NEW c \in Callers, OneChanges(c), HostKept,
         \A i \in DOMAIN host : Missing(i)' => Missing(i),
         whole' => whole /\ runs[c].stage # "created",
         OnlyAfter(c), runs'[c].stage \notin {"create", "deleted"}
  PROVE  OnceInv'
<1>1. NoneNow(c)
  BY GoesOnNone
<1>2. Accounted(c) /\ CreatesNew(c)
  BY DEF Accounted, CreatesNew
<1> QED BY <1>1, <1>2, OnceStep

\* What is missing.
LEMMA MissingSame ==
  ASSUME UNCHANGED <<host, specs>>
  PROVE  HostKept /\ \A i \in DOMAIN host : Missing(i)' <=> Missing(i)
BY DEF HostKept, Missing, InStore, T!There

LEMMA MissingShrinks ==
  ASSUME HostKept, \A n \in DOMAIN specs : \A i \in DOMAIN host :
                     specs[n].id = i /\ T!There(i)' => \E m \in DOMAIN specs' : specs'[m].id = i
  PROVE  \A i \in DOMAIN host : Missing(i)' => Missing(i)
BY DEF HostKept, Missing, InStore, T!There

\* Which runs make or go through items.
LEMMA MovedMaking ==
  ASSUME NEW c \in Callers, NEW s, NEW a, Moved(c, s, a), runs[c].stage # "created",
         runs[c].op # "decide" \/ s \notin {"create", "created"}
  PROVE  OnlyAfter(c) /\ OneChanges(c) /\ runs'[c].stage = s
BY DEF Moved, Stays, OnlyAfter, MakingOne, T!At

LEMMA CountedMaking ==
  ASSUME NEW c \in Callers, NEW f, CountedAs(c, f), runs[c].op = "sync", runs[c].rest # <<>>
  PROVE  OnlyAfter(c) /\ OneChanges(c) /\ runs'[c].stage = "next"
BY DEF CountedAs, Stays, OnlyAfter, MakingOne, T!At

LEMMA EndedMaking ==
  ASSUME NEW c \in Callers, Ended(c)
  PROVE  OnlyAfter(c) /\ OneChanges(c) /\ runs'[c].stage = "none" /\ ~MakingOne(c)'
BY DEF Ended, OnlyAfter, MakingOne, T!At

\* The step of a run that neither makes nor fetches.
LEMMA QuietTwice ==
  ASSUME TypeInv, NoneTwiceInv, others = 0, NEW c \in Callers, OneChanges(c), RestShrinks(c),
         UNCHANGED <<lists, approved, named, host, specs>>, doubtful => doubtful',
         whole' => whole /\ runs[c].stage # "created",
         OnlyAfter(c), runs'[c].stage \notin {"create", "deleted", "fetched"}
  PROVE  NoneTwiceInv'
<1>1. HostKept /\ \A i \in DOMAIN host : Missing(i)' <=> Missing(i)
  BY MissingSame
<1>2. ItemsInv /\ FetchedInv /\ (~doubtful => OnceInv)
  BY DEF NoneTwiceInv
<1>3. ItemsInv'
  BY <1>2, ItemsKept
<1>4. FetchedInv'
  BY <1>1, <1>2, FetchedKept
<1>5. ~doubtful' => OnceInv'
  BY <1>1, <1>2, QuietOnce
<1> QED BY <1>3, <1>4, <1>5 DEF NoneTwiceInv

LEMMA LoadTwice ==
  ASSUME TypeInv, NoneTwiceInv, others = 0, NEW c \in Callers, T!LoadAgents(c) \/ T!LoadFails(c) \/ T!Refresh(c)
  PROVE  NoneTwiceInv'
<1>1. /\ UNCHANGED <<lists, approved, named, host, specs>> /\ (doubtful => doubtful')
      /\ whole' => whole
  BY DEF T!LoadAgents, T!LoadFails, T!Refresh, T!Zomes, T!History
<1>2. CASE T!LoadAgents(c)
  <2>1. Moved(c, "specs", runs[c].answer) /\ runs[c].op = "load" /\ runs[c].stage = "agents"
    BY <1>2, ToIs DEF T!LoadAgents, T!At
  <2>2. OnlyAfter(c) /\ OneChanges(c) /\ runs'[c].stage = "specs" /\ RestShrinks(c)
    BY <2>1, MovedMaking, RestKinds
  <2> QED BY <1>1, <2>1, <2>2, QuietTwice
<1>3. CASE T!LoadFails(c)
  <2>1. runs[c].op = "load" /\ T!LoadOver(c)
    BY <1>3 DEF T!LoadFails
  <2>2. runs[c].stage # "created"
    BY <2>1, RunFields DEF TypeInv, RunOK, LoadStages
  <2>3. CASE Ended(c)
    <3>1. OnlyAfter(c) /\ OneChanges(c) /\ runs'[c].stage = "none" /\ RestShrinks(c)
      BY <2>3, EndedMaking, RestKinds
    <3> QED BY <1>1, <2>2, <3>1, QuietTwice
  <2>4. CASE Moved(c, "list", runs[c].answer)
    <3>1. OnlyAfter(c) /\ OneChanges(c) /\ runs'[c].stage = "list" /\ RestShrinks(c)
      BY <2>1, <2>2, <2>4, MovedMaking, RestKinds
    <3> QED BY <1>1, <2>2, <3>1, QuietTwice
  <2> QED BY <2>1, <2>3, <2>4, LoadOverIs
<1>4. CASE T!Refresh(c)
  <2>1. /\ OneChanges(c) /\ runs'[c].op = "load" /\ runs'[c].stage = "agents" /\ runs'[c].rest = <<>>
        /\ runs[c].stage = "none"
    BY <1>4, RefreshRun, StageBusy
  <2>2. OnlyAfter(c) /\ RestShrinks(c)
    BY <2>1 DEF OnlyAfter, MakingOne, T!At, RestShrinks
  <2> QED BY <1>1, <2>1, <2>2, QuietTwice
<1> QED BY <1>2, <1>3, <1>4

LEMMA LoadListTwice ==
  ASSUME TypeInv, NoneTwiceInv, others = 0, NEW c \in Callers, T!LoadList(c)
  PROVE  NoneTwiceInv'
<1>1. /\ Ended(c) /\ runs[c].stage = "list" /\ UNCHANGED <<host, specs, whole, doubtful>>
  BY ListingOf
<1>2. HostKept /\ \A i \in DOMAIN host : Missing(i)' <=> Missing(i)
  BY <1>1, MissingSame
<1>3. OnlyAfter(c) /\ OneChanges(c) /\ runs'[c].stage = "none"
  BY <1>1, EndedMaking
<1>4. ItemsInv /\ FetchedInv /\ (~doubtful => OnceInv)
  BY DEF NoneTwiceInv
<1>5. ItemsInv' /\ FetchedInv'
  BY <1>2, <1>3, <1>4, LoadListItems, FetchedKept
<1>6. ~doubtful' => OnceInv'
  BY <1>1, <1>2, <1>3, <1>4, QuietOnce
<1> QED BY <1>5, <1>6 DEF NoneTwiceInv

\* What was fetched is all there is, while nothing else is under way.
LEMMA FetchTwice ==
  ASSUME TypeInv, NoneTwiceInv, others = 0, NEW c \in Callers, T!FetchSpecs(c)
  PROVE  NoneTwiceInv'
<1>1. UNCHANGED <<lists, approved, named, host, specs, whole, doubtful>>
  BY DEF T!FetchSpecs, T!Zomes, T!History
<1>2. HostKept /\ \A i \in DOMAIN host : Missing(i)' <=> Missing(i)
  BY <1>1, MissingSame
<1>3. Moved(c, "fetched", T!Listing) /\ runs[c].op \in {"load", "sync"} /\ runs[c].stage \in {"specs", "reload"}
  BY FetchingIs
<1>4. OnlyAfter(c) /\ OneChanges(c) /\ runs'[c].stage = "fetched" /\ RestShrinks(c) /\ runs'[c].answer = T!Listing
  <2>1. runs[c].stage # "created" /\ runs[c].op # "decide"
    BY <1>3
  <2> QED BY <1>3, <2>1, MovedMaking, RestKinds DEF Moved
<1>5. ItemsInv /\ FetchedInv /\ (~doubtful => OnceInv)
  BY DEF NoneTwiceInv
<1>6. ItemsInv'
  BY <1>1, <1>4, <1>5, ItemsKept
<1>7. FetchedInv'
  <2>1. ASSUME NEW d \in Callers, runs'[d].stage = "fetched", NEW i \in DOMAIN host, T!There(i)
        PROVE  \E k \in DOMAIN runs'[d].answer : runs'[d].answer[k].id = i
    <3>1. CASE d = c
      <4>1. PICK k \in DOMAIN T!Listing : T!Listing[k] = [id |-> i, name |-> host[i].name]
        BY <2>1, ListingIs DEF TypeInv
      <4>2. T!Listing[k].id = i
        BY <4>1
      <4> QED BY <1>4, <3>1, <4>1, <4>2
    <3>2. CASE d # c
      BY <1>4, <1>5, <2>1, <3>2 DEF FetchedInv, OneChanges
    <3> QED BY <3>1, <3>2
  <2> QED BY <1>1, <2>1 DEF FetchedInv, T!There
<1>8. ~doubtful' => OnceInv'
  <2>1. whole' => whole /\ runs[c].stage # "created"
    BY <1>1, <1>3
  <2> QED BY <1>1, <1>2, <1>4, <1>5, <2>1, QuietOnce
<1> QED BY <1>6, <1>7, <1>8 DEF NoneTwiceInv

LEMMA FetchedTwice ==
  ASSUME TypeInv, NoneTwiceInv, others = 0, NEW c \in Callers, T!SpecsFetched(c) \/ T!SyncEnds(c)
  PROVE  NoneTwiceInv'
<1>1. /\ UNCHANGED <<lists, approved, named, host, doubtful>> /\ specs' = runs[c].answer
      /\ runs[c].stage = "fetched"
  BY DEF T!SpecsFetched, T!SyncEnds, T!Zomes, T!At
<1>2. ItemsInv /\ FetchedInv /\ (~doubtful => OnceInv)
  BY DEF NoneTwiceInv
<1>3. Ended(c) \/ (Moved(c, "list", runs[c].answer) /\ runs[c].op = "load")
  <2>1. CASE T!SpecsFetched(c)
    BY <2>1, LoadOverIs DEF T!SpecsFetched, T!At
  <2>2. CASE T!SyncEnds(c)
    <3>1. T!Put(c, T!NoRun)
      BY <2>2 DEF T!SyncEnds, T!SyncOver
    <3>2. Ended(c)
      BY <3>1, EndIs
    <3> QED BY <3>2
  <2> QED BY <2>1, <2>2
<1>4. OneChanges(c) /\ RestShrinks(c) /\ runs'[c].stage \in {"none", "list"}
  BY <1>3, RestKinds DEF Ended, Moved
<1>5. HostKept /\ \A i \in DOMAIN host : T!There(i)' = T!There(i)
  BY <1>1 DEF HostKept, T!There
<1>6. \A i \in DOMAIN host : ~Missing(i)'
  BY <1>1, <1>2, <1>5 DEF FetchedInv, Missing, InStore
<1>7. NoneNow(c) /\ Accounted(c) /\ CreatesNew(c)
  BY <1>4, <1>6 DEF NoneNow, Accounted, CreatesNew
<1>8. ItemsInv' /\ FetchedInv'
  BY <1>1, <1>2, <1>4, <1>5, ItemsKept, FetchedKept
<1>9. ~doubtful' => OnceInv'
  BY <1>1, <1>2, <1>4, <1>5, <1>6, <1>7, OnceStep
<1> QED BY <1>8, <1>9 DEF NoneTwiceInv

LEMMA SyncTwice ==
  ASSUME TypeInv, WaitsInv, NoneTwiceInv, others = 0, NEW c \in Callers, T!ManualSync(c)
  PROVE  NoneTwiceInv'
<1>1. /\ UNCHANGED <<lists, approved, named, host, specs, whole>> /\ doubtful' = (doubtful \/ ~whole)
  BY DEF T!ManualSync, T!Zomes
<1>2. ItemsInv /\ FetchedInv /\ (~doubtful => OnceInv)
  BY DEF NoneTwiceInv
<1>3. HostKept /\ \A i \in DOMAIN host : Missing(i)' <=> Missing(i)
  BY <1>1, MissingSame
<1>4. OneChanges(c) /\ runs'[c].stage = "next"
  BY SyncRun
<1>5. \A d \in Callers : runs[d].stage # "created"
  <2>1. \A d \in Callers : ~BusyRun(runs[d])
    BY NobodyBusy, SyncRun
  <2> QED BY <2>1, StageBusy DEF ItemStages
<1>6. ItemsInv' /\ FetchedInv'
  BY <1>2, <1>3, <1>4, SyncItems, FetchedKept
<1>7. ASSUME ~doubtful' PROVE OnceInv'
  <2>1. OnceInv /\ whole
    BY <1>1, <1>2, <1>7
  <2>2. \A i \in DOMAIN host : ~Missing(i)
    BY <1>5, <2>1 DEF OnceInv
  <2>3. NoneNow(c) /\ Accounted(c) /\ CreatesNew(c)
    BY <1>3, <1>4, <2>2 DEF NoneNow, Accounted, CreatesNew
  <2> QED BY <1>3, <1>4, <2>1, <2>3, OnceStep
<1> QED BY <1>6, <1>7 DEF NoneTwiceInv

LEMMA GoOnTwice ==
  ASSUME TypeInv, NoneTwiceInv, others = 0, NEW c \in Callers, T!SyncNext(c) \/ T!SyncReload(c) \/ T!ItemFails(c) \/ T!SyncFails(c)
  PROVE  NoneTwiceInv'
<1>1. UNCHANGED <<lists, approved, named, host, specs>> /\ UNCHANGED doubtful
  BY DEF T!SyncNext, T!SyncReload, T!ItemFails, T!SyncFails, T!Zomes, T!History
<1>2. CASE T!SyncReload(c)
  <2>1. Moved(c, "reload", runs[c].answer) /\ runs[c].op = "sync" /\ runs[c].stage = "next" /\ whole' = whole
    BY <1>2, ToIs DEF T!SyncReload, T!At, T!History
  <2>2. OnlyAfter(c) /\ OneChanges(c) /\ runs'[c].stage = "reload" /\ RestShrinks(c)
    BY <2>1, MovedMaking, RestKinds
  <2> QED BY <1>1, <2>1, <2>2, QuietTwice
<1>3. CASE T!ItemFails(c)
  <2>1. CountedAs(c, "errors") /\ runs[c].op = "sync" /\ runs[c].rest # <<>>
    BY <1>3, FailingIs
  <2>2. OnlyAfter(c) /\ OneChanges(c) /\ runs'[c].stage = "next" /\ RestShrinks(c)
    BY <2>1, CountedMaking, RestKinds
  <2>3. whole' => whole /\ runs[c].stage # "created"
    BY <1>3 DEF T!ItemFails
  <2> QED BY <1>1, <2>2, <2>3, QuietTwice
<1>4. CASE T!SyncFails(c)
  <2>1. T!Put(c, T!NoRun) /\ runs[c].stage = "reload" /\ whole' = whole
    BY <1>4 DEF T!SyncFails, T!SyncOver, T!At, T!History
  <2>2. Ended(c)
    BY <2>1, EndIs
  <2>3. OnlyAfter(c) /\ OneChanges(c) /\ runs'[c].stage = "none" /\ RestShrinks(c)
    BY <2>2, EndedMaking, RestKinds
  <2> QED BY <1>1, <2>1, <2>3, QuietTwice
<1>5. CASE T!SyncNext(c)
  <2>1. runs[c].op = "sync" /\ runs[c].stage = "next" /\ runs[c].rest # <<>> /\ whole' = whole
    BY <1>5, NextIs DEF T!SyncNext, T!History
  <2>2. CASE Moved(c, "update", <<T!FirstFound(T!Current(c).of)>>)
    <3>1. PICK a : Moved(c, "update", a)
      BY <2>2
    <3>2. OnlyAfter(c) /\ OneChanges(c) /\ runs'[c].stage = "update" /\ RestShrinks(c)
      BY <2>1, <3>1, MovedMaking, RestKinds
    <3> QED BY <1>1, <2>1, <3>2, QuietTwice
  <2>3. CASE T!Found(T!Current(c).of) = {} /\ Moved(c, "create", runs[c].answer)
    <3>1. OnlyAfter(c) /\ OneChanges(c) /\ runs'[c].stage = "create" /\ RestShrinks(c) /\ runs'[c].rest = runs[c].rest
      <4>1. OnlyAfter(c) /\ OneChanges(c) /\ runs'[c].stage = "create"
        BY <2>1, <2>3, MovedMaking
      <4> QED BY <2>3, <4>1, RestKinds DEF Moved
    <3>2. HostKept /\ \A i \in DOMAIN host : Missing(i)' <=> Missing(i)
      BY <1>1, MissingSame
    <3>3. ItemsInv /\ FetchedInv /\ (~doubtful => OnceInv)
      BY DEF NoneTwiceInv
    <3>4. ItemsInv' /\ FetchedInv'
      BY <1>1, <3>1, <3>2, <3>3, ItemsKept, FetchedKept
    <3>5. ASSUME ~doubtful' PROVE OnceInv'
      <4>1. OnceInv
        BY <1>1, <3>3, <3>5
      <4>2. NoneNow(c)
        BY <3>1, <3>2, <4>1, GoesOnNone
      <4>3. Accounted(c)
        BY <2>1, <3>2 DEF Accounted
      <4>4. CreatesNew(c)
        <5>1. T!Current(c)' = T!Current(c) /\ T!Current(c) = runs[c].rest[1] /\ 1 \in DOMAIN runs[c].rest
          BY <2>1, <3>1, CurrentIs DEF T!Current, TypeInv
        <5>2. ASSUME T!Current(c).of \in Types, NEW i \in DOMAIN host, T!There(i), host[i].of = T!Current(c).of PROVE FALSE
          <6>1. ~InStore(i)
            BY <2>3, <5>2 DEF InStore, T!Found
          <6>2. Missing(i) /\ MakingOne(c)
            BY <2>1, <5>2, <6>1 DEF Missing, MakingOne
          <6>3. runs[c].stage = "created"
            BY <4>1, <5>1, <5>2, <6>2 DEF OnceInv
          <6> QED BY <2>1, <6>3
        <5> QED BY <5>1, <5>2 DEF CreatesNew
      <4> QED BY <3>1, <3>2, <4>1, <4>2, <4>3, <4>4, OnceStep
    <3> QED BY <3>4, <3>5 DEF NoneTwiceInv
  <2> QED BY <1>5, <2>2, <2>3, NextIs
<1> QED BY <1>2, <1>3, <1>4, <1>5

LEMMA UpdateTwice ==
  ASSUME TypeInv, NoneTwiceInv, others = 0, NEW c \in Callers, T!UpdateOnHost(c)
  PROVE  NoneTwiceInv'
<1>1. UNCHANGED <<lists, approved, named, specs, whole, doubtful>>
  BY DEF T!UpdateOnHost, T!Zomes, T!History
<1>2. Moved(c, "updated", runs[c].answer) /\ runs[c].op = "sync" /\ runs[c].stage = "update"
  BY ToIs DEF T!UpdateOnHost, T!At
<1>3. OnlyAfter(c) /\ OneChanges(c) /\ runs'[c].stage = "updated" /\ RestShrinks(c)
  BY <1>2, MovedMaking, RestKinds
<1>4. DOMAIN host' = DOMAIN host /\ \A i \in DOMAIN host : host'[i].of = host[i].of /\ host'[i].there = host[i].there
  <2> DEFINE i == runs[c].answer[1]  x == [of |-> host[i].of, name |-> T!Current(c).name, there |-> TRUE]
  <2>1. /\ i \in DOMAIN host /\ T!There(i) /\ host' = [host EXCEPT ![i] = x]
        /\ x \in [of : T!Entities, name : Nat, there : BOOLEAN]
    BY UpdateIs
  <2>2. x.of = host[i].of /\ x.there = TRUE /\ host[i].there = TRUE
    BY <2>1, SpecificationsAre DEF T!There, TypeInv
  <2> HIDE DEF x, i
  <2>3. DOMAIN host' = DOMAIN host /\ \A j \in DOMAIN host : host'[j] = IF j = i THEN x ELSE host[j]
    BY <2>1, HostChanges DEF TypeInv
  <2> QED BY <2>2, <2>3
<1>5. HostKept /\ \A i \in DOMAIN host : Missing(i)' => Missing(i)
  BY <1>1, <1>4 DEF HostKept, Missing, InStore, T!There
<1>6. ItemsInv /\ FetchedInv /\ (~doubtful => OnceInv)
  BY DEF NoneTwiceInv
<1>7. ItemsInv' /\ FetchedInv'
  BY <1>1, <1>3, <1>5, <1>6, ItemsKept, FetchedKept
<1>8. ~doubtful' => OnceInv'
  BY <1>1, <1>2, <1>3, <1>5, <1>6, QuietOnce
<1> QED BY <1>7, <1>8 DEF NoneTwiceInv

LEMMA UpdatedTwice ==
  ASSUME TypeInv, NoneTwiceInv, others = 0, NEW c \in Callers, T!Updated(c)
  PROVE  NoneTwiceInv'
<1>1. UNCHANGED <<lists, approved, named, host, whole, doubtful>>
  BY DEF T!Updated, T!Zomes, T!History
<1>2. CountedAs(c, "updated") /\ runs[c].op = "sync" /\ runs[c].stage = "updated" /\ runs[c].rest # <<>>
  BY UpdatingIs
<1>3. OnlyAfter(c) /\ OneChanges(c) /\ runs'[c].stage = "next" /\ RestShrinks(c)
  BY <1>2, CountedMaking, RestKinds
<1>4. HostKept
  BY <1>1 DEF HostKept
<1>5. ASSUME NEW n \in DOMAIN specs PROVE n \in DOMAIN specs' /\ specs'[n].id = specs[n].id
  <2>1. PICK x \in Entries : x = specs[n]
    BY SpecificationsAre DEF TypeInv
  <2>2. specs' = [m \in DOMAIN specs |->
                    IF specs[m].id = runs[c].answer[1] THEN [specs[m] EXCEPT !.name = T!Current(c).name] ELSE specs[m]]
    BY DEF T!Updated
  <2>3. specs'[n] = IF x.id = runs[c].answer[1] THEN [x EXCEPT !.name = T!Current(c).name] ELSE x
    BY <2>1, <2>2
  <2>4. PICK v : v = T!Current(c).name
    OBVIOUS
  <2> QED BY <2>1, <2>2, <2>3, <2>4 DEF Entries
<1>6. \A i \in DOMAIN host : Missing(i)' => Missing(i)
  BY <1>4, <1>5, MissingShrinks
<1>7. ItemsInv /\ FetchedInv /\ (~doubtful => OnceInv)
  BY DEF NoneTwiceInv
<1>8. ItemsInv' /\ FetchedInv'
  BY <1>1, <1>3, <1>4, <1>7, ItemsKept, FetchedKept
<1>9. ~doubtful' => OnceInv'
  BY <1>1, <1>2, <1>3, <1>4, <1>6, <1>7, QuietOnce
<1> QED BY <1>8, <1>9 DEF NoneTwiceInv

\* At most one is busy.
LEMMA OneBusy ==
  ASSUME WaitsInv, NEW c \in Callers, NEW d \in Callers, BusyRun(runs[c]), BusyRun(runs[d])
  PROVE  c = d
BY DEF WaitsInv

LEMMA CreateTwice ==
  ASSUME TypeInv, WaitsInv, NoneTwiceInv, others = 0, NEW c \in Callers, T!CreateOnHost(c)
  PROVE  NoneTwiceInv'
<1> DEFINE N == Len(host) + 1
<1>1. UNCHANGED <<lists, approved, named, specs, whole, doubtful>>
  BY DEF T!CreateOnHost, T!Zomes, T!History
<1>2. /\ runs[c].op \in {"sync", "decide"} /\ runs[c].stage = "create" /\ Moved(c, "created", <<N>>)
  BY MakingIs
<1>3. PICK e, x : /\ e = T!Current(c).of /\ x = [of |-> e, name |-> T!Current(c).name, there |-> TRUE]
                  /\ host' = Append(host, x)
  BY CreateIs
<1>4. /\ Len(host) \in Nat /\ DOMAIN host = 1 .. Len(host) /\ DOMAIN host' = 1 .. Len(host) + 1 /\ N \in Nat
      /\ \A i \in DOMAIN host : host'[i] = host[i] /\ i # N
      /\ host'[N] = x /\ x.of = e /\ x.there = TRUE
  <2>1. /\ Len(host) \in Nat /\ DOMAIN host = 1 .. Len(host) /\ DOMAIN host' = 1 .. Len(host) + 1
    BY CreateIs
  <2>2. host \in Seq([of : T!Entities, name : Nat, there : BOOLEAN]) /\ x \in [of : T!Entities, name : Nat, there : BOOLEAN]
    <3>1. T!Current(c).of \in T!Entities /\ T!Current(c).name \in Nat
      BY <1>2, CurrentIs DEF ItemStages, TypeInv
    <3> QED BY <1>3, <3>1 DEF TypeInv, DataOK
  <2>3. \A i \in 1 .. Len(host) : Append(host, x)[i] = host[i]
    BY <2>2, AppendProperties
  <2>4. Append(host, x)[Len(host) + 1] = x
    BY <2>2, AppendProperties
  <2> QED BY <1>3, <2>1, <2>3, <2>4
<1>5. \A i \in DOMAIN host' : i \in DOMAIN host \/ i = N
  BY <1>4
<1>6. OneChanges(c) /\ Stays(c) /\ RestShrinks(c) /\ runs'[c].stage = "created" /\ runs'[c].rest = runs[c].rest
      /\ runs'[c].answer = <<N>> /\ <<N>>[1] = N
  <2>1. <<N>>[1] = N
    BY <1>4, OneNumber
  <2>2. RestShrinks(c)
    BY <1>2, RestKinds
  <2> HIDE DEF N
  <2> QED BY <1>2, <2>1, <2>2 DEF Moved
<1> HIDE DEF N
<1>7. ItemsInv /\ FetchedInv /\ (~doubtful => OnceInv)
  BY DEF NoneTwiceInv
<1>8. ItemsInv'
  BY <1>1, <1>6, <1>7, ItemsKept
<1>9. BusyRun(runs[c]) /\ MakingOne(c)
  BY <1>2 DEF BusyRun, MakingOne, T!At
<1>10. \A d \in Callers : BusyRun(runs[d]) => d = c
  BY <1>9, OneBusy
<1>11. FetchedInv'
  <2>1. \A d \in Callers : runs'[d].stage # "fetched"
    BY <1>6, <1>10, StageBusy DEF OneChanges
  <2> QED BY <2>1 DEF FetchedInv
<1>12. ASSUME ~doubtful' PROVE OnceInv'
  <2>1. OnceInv
    BY <1>1, <1>7, <1>12
  <2>2. e \in Types => \A i \in DOMAIN host : T!There(i) => host[i].of # e
    BY <1>2, <1>3, <2>1 DEF OnceInv
  <2>3. \A i \in DOMAIN host : T!There(i)' = T!There(i) /\ (Missing(i)' => Missing(i))
    BY <1>1, <1>4 DEF T!There, Missing, InStore
  <2>4. ASSUME NEW E \in Types, NEW i \in DOMAIN host', NEW j \in DOMAIN host', T!There(i)', T!There(j)',
               host'[i].of = E, host'[j].of = E
        PROVE  i = j
    <3>1. CASE i \in DOMAIN host /\ j \in DOMAIN host
      BY <1>4, <2>1, <2>3, <2>4, <3>1 DEF OnceInv
    <3>2. CASE i = N /\ j \in DOMAIN host
      BY <1>4, <2>2, <2>3, <2>4, <3>2
    <3>3. CASE j = N /\ i \in DOMAIN host
      BY <1>4, <2>2, <2>3, <2>4, <3>3
    <3> QED BY <1>5, <3>1, <3>2, <3>3
  <2>5. ASSUME NEW i \in DOMAIN host', Missing(i)', whole'
        PROVE  \E d \in Callers : runs'[d].stage = "created" /\ runs'[d].answer[1] = i
    <3>1. CASE i = N
      BY <1>6, <3>1
    <3>2. CASE i \in DOMAIN host
      <4>1. PICK d \in Callers : runs[d].stage = "created" /\ runs[d].answer[1] = i
        BY <1>1, <2>1, <2>3, <2>5, <3>2 DEF OnceInv
      <4>2. d # c
        BY <1>2, <4>1
      <4> QED BY <1>6, <4>1, <4>2 DEF OneChanges
    <3> QED BY <1>5, <3>1, <3>2
  <2>6. ASSUME NEW i \in DOMAIN host', Missing(i)', NEW d \in Callers, MakingOne(d)', NEW k \in DOMAIN runs'[d].rest,
               runs'[d].rest[k].of = host'[i].of
        PROVE  k = 1 /\ runs'[d].stage = "created" /\ runs'[d].answer[1] = i
    <3>1. d = c
      <4>1. CASE d # c
        <5>1. MakingOne(d)
          BY <1>6, <2>6, <4>1 DEF OneChanges, MakingOne, T!At
        <5> QED BY <1>10, <5>1, StageBusy
      <4> QED BY <4>1
    <3>2. CASE i = N
      <4>1. T!Current(c) = runs[c].rest[1] /\ 1 \in DOMAIN runs[c].rest
        BY <1>2, CurrentIs DEF ItemStages, TypeInv
      <4>2. k = 1
        BY <1>3, <1>4, <1>6, <1>7, <2>6, <3>1, <3>2, <4>1 DEF ItemsInv
      <4> QED BY <1>6, <3>1, <3>2, <4>2
    <3>3. CASE i \in DOMAIN host
      <4>1. Missing(i) /\ host'[i].of = host[i].of
        BY <1>4, <2>3, <2>6, <3>3
      <4>2. runs[c].stage = "created"
        BY <1>6, <1>9, <2>1, <2>6, <3>1, <3>3, <4>1 DEF OnceInv
      <4> QED BY <1>2, <4>2
    <3> QED BY <1>5, <3>2, <3>3
  <2>7. \A d \in Callers : runs'[d].stage # "create" /\ runs'[d].stage # "deleted"
    <3>1. ASSUME NEW d \in Callers, d # c PROVE runs'[d].stage # "create" /\ runs'[d].stage # "deleted"
      <4>1. ~BusyRun(runs[d]) /\ runs'[d] = runs[d]
        BY <1>6, <1>10, <3>1 DEF OneChanges
      <4> QED BY <4>1, StageBusy DEF ItemStages
    <3> QED BY <1>6, <3>1
  <2> QED BY <2>4, <2>5, <2>6, <2>7 DEF OnceInv
<1> QED BY <1>8, <1>11, <1>12 DEF NoneTwiceInv

LEMMA CreatedTwice ==
  ASSUME TypeInv, NoneTwiceInv, others = 0, NEW c \in Callers, T!Created(c)
  PROVE  NoneTwiceInv'
<1>1. UNCHANGED <<lists, approved, named, host, whole, doubtful>>
  BY DEF T!Created, T!Zomes, T!History
<1>2. runs[c].stage = "created" /\ runs[c].rest # <<>>
  BY CreatingIs
<1>3. /\ OnlyAfter(c) /\ OneChanges(c) /\ runs'[c].stage \in {"next", "none"} /\ RestShrinks(c)
  <2>1. CASE runs[c].op = "sync" /\ CountedAs(c, "created")
    BY <1>2, <2>1, CountedMaking, RestKinds
  <2>2. CASE Ended(c)
    BY <2>2, EndedMaking, RestKinds
  <2> QED BY <2>1, <2>2, CreatingIs
<1>4. HostKept
  BY <1>1 DEF HostKept
<1>5. PICK i : i = runs[c].answer[1]
  OBVIOUS
<1>6. /\ \A n \in DOMAIN specs : n \in DOMAIN specs' /\ specs'[n] = specs[n]
      /\ \E n \in DOMAIN specs' : specs'[n].id = i
  <2>1. \A n \in DOMAIN specs : n \in DOMAIN specs' /\ specs'[n] = specs[n]
    BY CreatedIs
  <2>2. PICK v : v = T!Current(c).name
    OBVIOUS
  <2>3. Len(specs) + 1 \in DOMAIN specs' /\ specs'[Len(specs) + 1] = [id |-> i, name |-> v]
    BY <1>5, <2>2, CreatedIs
  <2>4. [id |-> i, name |-> v].id = i
    OBVIOUS
  <2>5. specs'[Len(specs) + 1].id = i
    BY <2>3, <2>4
  <2> QED BY <2>1, <2>3, <2>5
<1>7. \A j \in DOMAIN host : Missing(j)' => Missing(j) /\ j # i
  BY <1>1, <1>6 DEF Missing, InStore, T!There
<1>8. ItemsInv /\ FetchedInv /\ (~doubtful => OnceInv)
  BY DEF NoneTwiceInv
<1>9. ItemsInv' /\ FetchedInv'
  BY <1>1, <1>3, <1>4, <1>8, ItemsKept, FetchedKept
<1>10. ASSUME ~doubtful' PROVE OnceInv'
  <2>1. OnceInv
    BY <1>1, <1>8, <1>10
  <2>2. NoneNow(c)
    BY <1>3, <1>7, <2>1, GoesOnNone
  <2>3. Accounted(c)
    BY <1>1, <1>5, <1>7 DEF Accounted
  <2>4. CreatesNew(c)
    BY <1>3 DEF CreatesNew
  <2> QED BY <1>3, <1>4, <1>7, <2>1, <2>2, <2>3, <2>4, OnceStep
<1> QED BY <1>9, <1>10 DEF NoneTwiceInv

LEMMA DecideTwice ==
  ASSUME Waits, TypeInv, NoneTwiceInv, others = 0, NEW c \in Callers,
         NEW e \in T!Entities, NEW s \in {"approved", "rejected"}, T!Decide(c, e, s)
  PROVE  NoneTwiceInv'
<1>1. UNCHANGED <<lists, approved, named, host, specs, whole, doubtful>>
  BY DEF T!Decide, T!Zomes, T!History
<1>2. OneChanges(c) /\ runs'[c].op = "decide" /\ runs'[c].stage = s /\ runs[c].op = "none"
  BY DecideBegins
<1>3. HostKept /\ \A i \in DOMAIN host : Missing(i)' <=> Missing(i)
  BY <1>1, MissingSame
<1>4. ItemsInv /\ FetchedInv /\ (~doubtful => OnceInv)
  BY DEF NoneTwiceInv
<1>5. ItemsInv' /\ FetchedInv'
  BY <1>2, <1>3, <1>4, DecideItems, FetchedKept
<1>6. OnlyAfter(c) /\ runs[c].stage # "created"
  BY <1>2, StageBusy DEF OnlyAfter, MakingOne, T!At
<1>7. ~doubtful' => OnceInv'
  BY <1>1, <1>2, <1>3, <1>4, <1>6, QuietOnce
<1> QED BY <1>5, <1>7 DEF NoneTwiceInv

LEMMA DecidedTwice ==
  ASSUME TypeInv, WaitsInv, ListsInv, NoneTwiceInv, others = 0, NEW c \in Callers, T!Decided(c)
  PROVE  NoneTwiceInv'
<1>1. /\ runs[c].op = "decide" /\ runs[c].stage \in {"approved", "rejected"} /\ runs[c].rest # <<>>
      /\ doubtful' = IF runs[c].stage = "approved" THEN doubtful \/ ~whole ELSE doubtful
      /\ UNCHANGED <<named, host, specs, whole>>
  BY DecidingIs
<1>2. OneChanges(c) /\ runs'[c] = T!EventRun(c)
  BY DecidedAlone
<1>3. HostKept /\ \A i \in DOMAIN host : Missing(i)' <=> Missing(i)
  BY <1>1, MissingSame
<1>4. ItemsInv /\ FetchedInv /\ (~doubtful => OnceInv)
  BY DEF NoneTwiceInv
<1>5. /\ runs[c].stage # "created" /\ BusyRun(runs[c])
  BY <1>1 DEF BusyRun
<1>6. ItemsInv'
  BY <1>4, DecidedItems
<1>7. CASE Ended(c)
  <2>1. OnlyAfter(c) /\ OneChanges(c) /\ runs'[c].stage = "none"
    BY <1>7, EndedMaking
  <2>2. FetchedInv'
    BY <1>3, <1>4, <2>1, FetchedKept
  <2>3. ~doubtful' => OnceInv'
    BY <1>1, <1>3, <1>4, <1>5, <2>1, QuietOnce
  <2> QED BY <1>6, <2>2, <2>3 DEF NoneTwiceInv
<1>8. CASE Moved(c, "delete", <<T!FirstFound(T!Current(c).of)>>)
  <2>1. PICK a : Moved(c, "delete", a)
    BY <1>8
  <2>2. OnlyAfter(c) /\ OneChanges(c) /\ runs'[c].stage = "delete"
    BY <1>5, <2>1, MovedMaking
  <2>3. FetchedInv'
    BY <1>3, <1>4, <2>2, FetchedKept
  <2>4. ~doubtful' => OnceInv'
    BY <1>1, <1>3, <1>4, <1>5, <2>2, QuietOnce
  <2> QED BY <1>6, <2>3, <2>4 DEF NoneTwiceInv
<1>9. CASE runs[c].stage = "approved" /\ T!Found(T!Current(c).of) = {} /\ Moved(c, "create", runs[c].answer)
  <2>1. runs'[c].stage = "create" /\ runs'[c].rest = runs[c].rest
    BY <1>9 DEF Moved
  <2>2. FetchedInv'
    BY <1>2, <1>3, <1>4, <2>1, FetchedKept
  <2>3. ASSUME ~doubtful' PROVE OnceInv'
    <3>1. OnceInv /\ whole
      BY <1>1, <1>4, <1>9, <2>3
    <3>2. \A d \in Callers : runs[d].stage # "created"
      <4>1. ASSUME NEW d \in Callers, runs[d].stage = "created" PROVE FALSE
        <5>1. BusyRun(runs[d])
          BY <4>1, StageBusy DEF ItemStages
        <5> QED BY <1>5, <4>1, <5>1, OneBusy
      <4> QED BY <4>1
    <3>3. \A i \in DOMAIN host : ~Missing(i)
      BY <3>1, <3>2 DEF OnceInv
    <3>4. NoneNow(c) /\ Accounted(c)
      BY <1>3, <3>3 DEF NoneNow, Accounted
    <3>5. CreatesNew(c)
      <4>1. T!Current(c)' = T!Current(c)
        BY <2>1 DEF T!Current
      <4>2. ASSUME T!Current(c).of \in Types, NEW i \in DOMAIN host, T!There(i), host[i].of = T!Current(c).of PROVE FALSE
        <5>1. ~InStore(i)
          BY <1>9, <4>2 DEF InStore, T!Found
        <5>2. Missing(i)
          BY <4>2, <5>1 DEF Missing
        <5> QED BY <3>3, <5>2
      <4> QED BY <4>1, <4>2 DEF CreatesNew
    <3> QED BY <1>2, <1>3, <2>1, <3>1, <3>4, <3>5, OnceStep
  <2> QED BY <1>6, <2>2, <2>3 DEF NoneTwiceInv
<1> QED BY <1>1, <1>2, <1>7, <1>8, <1>9, EventMoves

LEMMA DeleteTwice ==
  ASSUME TypeInv, NoneTwiceInv, others = 0, NEW c \in Callers, T!DeleteOnHost(c)
  PROVE  NoneTwiceInv'
<1>1. UNCHANGED <<lists, approved, named, specs, whole, doubtful>>
  BY DEF T!DeleteOnHost, T!Zomes, T!History
<1>2. Moved(c, "deleted", runs[c].answer) /\ runs[c].op = "decide" /\ runs[c].stage = "delete"
  BY ToIs DEF T!DeleteOnHost, T!At
<1>3. OnlyAfter(c) /\ OneChanges(c) /\ runs'[c].stage = "deleted" /\ RestShrinks(c) /\ runs'[c].answer = runs[c].answer
  <2>1. OnlyAfter(c) /\ OneChanges(c) /\ runs'[c].stage = "deleted"
    BY <1>2, MovedMaking
  <2> QED BY <1>2, <2>1, RestKinds DEF Moved
<1>4. PICK i \in DOMAIN host : /\ i = runs[c].answer[1]
                               /\ DOMAIN host' = DOMAIN host
                               /\ \A j \in DOMAIN host : j # i => host'[j] = host[j]
                               /\ host'[i].of = host[i].of /\ host'[i].there = FALSE
  <2> DEFINE i == runs[c].answer[1]  x == [of |-> host[i].of, name |-> host[i].name, there |-> FALSE]
  <2>1. /\ i \in DOMAIN host /\ host' = [host EXCEPT ![i] = x]
        /\ x \in [of : T!Entities, name : Nat, there : BOOLEAN]
    BY DeleteIs
  <2>2. x.of = host[i].of /\ x.there = FALSE
    OBVIOUS
  <2> HIDE DEF x, i
  <2>3. DOMAIN host' = DOMAIN host /\ \A j \in DOMAIN host : host'[j] = IF j = i THEN x ELSE host[j]
    BY <2>1, HostChanges DEF TypeInv
  <2>4. host'[i] = x /\ \A j \in DOMAIN host : j # i => host'[j] = host[j]
    BY <2>1, <2>3
  <2>5. i = runs[c].answer[1]
    BY DEF i
  <2> QED BY <2>1, <2>2, <2>3, <2>4, <2>5
<1>5. HostKept /\ ~(T!There(runs[c].answer[1]))'
  <2>1. HostKept
    BY <1>4 DEF HostKept
  <2>2. runs'[c].answer[1] = i
    BY <1>3, <1>4
  <2> QED BY <1>4, <2>1, <2>2 DEF T!There
<1>6. \A j \in DOMAIN host : Missing(j)' => Missing(j)
  BY <1>1, <1>5 DEF HostKept, Missing, InStore, T!There
<1>7. ItemsInv /\ FetchedInv /\ (~doubtful => OnceInv)
  BY DEF NoneTwiceInv
<1>8. ItemsInv' /\ FetchedInv'
  BY <1>1, <1>3, <1>5, <1>7, ItemsKept, FetchedKept
<1>9. ASSUME ~doubtful' PROVE OnceInv'
  <2>1. OnceInv
    BY <1>1, <1>7, <1>9
  <2>2. NoneNow(c)
    BY <1>3, <1>6, <2>1, GoesOnNone
  <2>5. runs'[c].stage # "create" /\ runs[c].stage # "created"
    BY <1>2, <1>3
  <2>3. Accounted(c) /\ CreatesNew(c)
    BY <1>1, <1>6, <2>5 DEF Accounted, CreatesNew
  <2>4. (runs[c].stage = "deleted" => ~T!There(runs[c].answer[1]))'
    BY <1>5
  <2> QED BY <1>3, <1>5, <1>6, <2>1, <2>2, <2>3, <2>4, OnceStep
<1> QED BY <1>8, <1>9 DEF NoneTwiceInv

LEMMA DeletedTwice ==
  ASSUME TypeInv, NoneTwiceInv, others = 0, NEW c \in Callers, T!Deleted(c)
  PROVE  NoneTwiceInv'
<1>1. UNCHANGED <<lists, approved, named, host, whole, doubtful>> /\ specs' = T!Without(runs[c].answer[1])
      /\ runs[c].op = "decide" /\ runs[c].stage = "deleted" /\ Ended(c)
  BY DecidedIs DEF T!Deleted, T!Zomes, T!History, T!At
<1>2. OnlyAfter(c) /\ OneChanges(c) /\ runs'[c].stage = "none" /\ RestShrinks(c)
  BY <1>1, EndedMaking, RestKinds
<1>3. HostKept
  BY <1>1 DEF HostKept
<1>4. ItemsInv /\ FetchedInv /\ (~doubtful => OnceInv)
  BY DEF NoneTwiceInv
<1>5. ItemsInv' /\ FetchedInv'
  BY <1>1, <1>2, <1>3, <1>4, ItemsKept, FetchedKept
<1>6. ASSUME ~doubtful' PROVE OnceInv'
  <2>1. OnceInv /\ ~T!There(runs[c].answer[1])
    BY <1>1, <1>4, <1>6 DEF OnceInv
  <2>2. ASSUME NEW n \in DOMAIN specs, NEW j \in DOMAIN host, specs[n].id = j, T!There(j)'
        PROVE  \E m \in DOMAIN specs' : specs'[m].id = j
    <3>1. T!There(j)
      BY <1>1, <2>2 DEF T!There
    <3>2. PICK i : i = runs[c].answer[1]
      OBVIOUS
    <3>3. specs[n].id # i
      BY <2>1, <2>2, <3>1, <3>2
    <3>4. \E m \in DOMAIN T!Without(i) : T!Without(i)[m] = specs[n]
      BY <3>3, WithoutIs DEF TypeInv
    <3> QED BY <1>1, <2>2, <3>2, <3>4
  <2>3. \A j \in DOMAIN host : Missing(j)' => Missing(j)
    BY <1>3, <2>2, MissingShrinks
  <2>4. whole' => whole /\ runs[c].stage # "created"
    BY <1>1
  <2> QED BY <1>2, <1>3, <2>1, <2>3, <2>4, QuietOnce
<1> QED BY <1>5, <1>6 DEF NoneTwiceInv

LEMMA FailedTwice ==
  ASSUME TypeInv, NoneTwiceInv, others = 0, NEW c \in Callers, T!DecisionFails(c)
  PROVE  NoneTwiceInv'
<1>1. UNCHANGED <<lists, approved, named, host, specs, doubtful>>
  BY DEF T!DecisionFails, T!Zomes
<1>2. whole' => whole /\ runs[c].stage # "created"
  BY DEF T!DecisionFails
<1>3. OnlyAfter(c) /\ OneChanges(c) /\ runs'[c].stage = "none" /\ RestShrinks(c)
  BY DecidedIs, EndedMaking, RestKinds
<1> QED BY <1>1, <1>2, <1>3, QuietTwice

LEMMA OpenTwice ==
  ASSUME Waits, TypeInv, NoneTwiceInv, others = 0, NEW c \in Callers, NEW t \in T!Tabs, T!Open(c, t)
  PROVE  NoneTwiceInv'
<1>1. UNCHANGED <<lists, approved, named, host, specs, whole, doubtful>>
  BY DEF T!Open, T!Zomes, T!History
<1>2. AllIdle
  BY WaitedIs DEF T!Open
<1>3. /\ OneChanges(c) /\ runs'[c].op = "load" /\ runs'[c].stage = "agents" /\ runs'[c].rest = <<>> /\ runs[c].stage = "none"
  BY <1>2, OpenRun, NoneUnmounted, StageBusy DEF OneChanges
<1>4. OnlyAfter(c) /\ RestShrinks(c)
  BY <1>3 DEF OnlyAfter, MakingOne, T!At, RestShrinks
<1> QED BY <1>1, <1>3, <1>4, QuietTwice

LEMMA StillTwice ==
  ASSUME NoneTwiceInv, UNCHANGED <<lists, approved, named, host, specs, whole, doubtful, others, runs>>
  PROVE  NoneTwiceInv'
<1>1. ItemsInv => ItemsInv'
  BY DEF ItemsInv, Fresh, T!Item
<1>2. FetchedInv => FetchedInv'
  BY DEF FetchedInv, T!There
<1>3. OnceInv => OnceInv'
  BY DEF OnceInv, Missing, InStore, T!There, MakingOne, T!At, T!Current
<1> QED BY <1>1, <1>2, <1>3 DEF NoneTwiceInv

LEMMA OthersSame ==
  ASSUME [T!Next]_(T!testPageVars)
  PROVE  UNCHANGED others \/ T!OthersAct
<1>1. ASSUME NEW c \in Callers, NEW t \in T!Tabs, T!Open(c, t) PROVE UNCHANGED others
  BY <1>1 DEF T!Open, T!Bounds
<1>2. ASSUME NEW c \in Callers,
        T!Refresh(c) \/ T!LoadAgents(c) \/ T!FetchSpecs(c) \/ T!SpecsFetched(c) \/ T!LoadFails(c) \/ T!LoadList(c) PROVE UNCHANGED others
  BY <1>2 DEF T!Refresh, T!LoadAgents, T!FetchSpecs, T!SpecsFetched, T!LoadFails, T!LoadList, T!Bounds, T!Failing
<1>3. ASSUME NEW c \in Callers, T!ManualSync(c) \/ T!SyncNext(c) \/ T!UpdateOnHost(c) \/ T!Updated(c) \/ T!CreateOnHost(c) PROVE UNCHANGED others
  BY <1>3 DEF T!ManualSync, T!SyncNext, T!UpdateOnHost, T!Updated, T!CreateOnHost, T!Bounds
<1>4. ASSUME NEW c \in Callers, T!Created(c) \/ T!ItemFails(c) \/ T!SyncReload(c) \/ T!SyncEnds(c) \/ T!SyncFails(c) PROVE UNCHANGED others
  BY <1>4 DEF T!Created, T!ItemFails, T!SyncReload, T!SyncEnds, T!SyncFails, T!Bounds, T!Failing
<1>5. ASSUME NEW c \in Callers, NEW e \in T!Entities, NEW s \in {"approved", "rejected"}, T!Decide(c, e, s) PROVE UNCHANGED others
  BY <1>5 DEF T!Decide
<1>6. ASSUME NEW c \in Callers, T!Decided(c) \/ T!DeleteOnHost(c) \/ T!Deleted(c) \/ T!DecisionFails(c) PROVE UNCHANGED others
  BY <1>6 DEF T!Decided, T!DeleteOnHost, T!Deleted, T!DecisionFails, T!Bounds, T!Failing
<1>7. CASE T!Leave \/ T!CloseError \/ UNCHANGED T!testPageVars
  BY <1>7 DEF T!Leave, T!CloseError, T!testPageVars, T!Bounds
<1> QED BY <1>1, <1>2, <1>3, <1>4, <1>5, <1>6, <1>7 DEF T!Next

LEMMA NextTwice ==
  ASSUME Waits, TypeInv, WaitsInv, ListsInv, NoneTwiceInv, [T!Next]_(T!testPageVars)
  PROVE  NoneTwiceInv'
<1>1. CASE others' # 0
  BY <1>1 DEF NoneTwiceInv
<1>2. CASE others' = 0
  <2>1. ~T!OthersAct
    BY <1>2 DEF T!OthersAct, TypeInv, FlagsOK
  <2>2. others = 0
    BY <1>2, <2>1, OthersSame
  <2>3. CASE UNCHANGED T!testPageVars \/ T!CloseError
    BY <2>3, StillTwice DEF T!testPageVars, T!CloseError, T!Zomes, T!History, T!Bounds
  <2>4. CASE T!Leave
    <3>1. runs' = runs
      BY <2>4, WaitedIs, NoneUnmounted DEF T!Leave
    <3> QED BY <2>4, <3>1, StillTwice DEF T!Leave, T!Zomes, T!History, T!Bounds
  <2>5. ASSUME NEW c \in Callers, NEW t \in T!Tabs, T!Open(c, t) PROVE NoneTwiceInv'
    BY <2>2, <2>5, OpenTwice
  <2>6. ASSUME NEW c \in Callers,
          T!Refresh(c) \/ T!LoadAgents(c) \/ T!FetchSpecs(c) \/ T!SpecsFetched(c) \/ T!LoadFails(c) \/ T!LoadList(c)
        PROVE NoneTwiceInv'
    BY <2>2, <2>6, LoadTwice, FetchTwice, FetchedTwice, LoadListTwice
  <2>7. ASSUME NEW c \in Callers, T!ManualSync(c) \/ T!SyncNext(c) \/ T!UpdateOnHost(c) \/ T!Updated(c) \/ T!CreateOnHost(c)
        PROVE NoneTwiceInv'
    BY <2>2, <2>7, SyncTwice, GoOnTwice, UpdateTwice, UpdatedTwice, CreateTwice
  <2>8. ASSUME NEW c \in Callers, T!Created(c) \/ T!ItemFails(c) \/ T!SyncReload(c) \/ T!SyncEnds(c) \/ T!SyncFails(c)
        PROVE NoneTwiceInv'
    BY <2>2, <2>8, CreatedTwice, GoOnTwice, FetchedTwice
  <2>9. ASSUME NEW c \in Callers, NEW e \in T!Entities, NEW s \in {"approved", "rejected"}, T!Decide(c, e, s)
        PROVE NoneTwiceInv'
    BY <2>2, <2>9, DecideTwice
  <2>10. ASSUME NEW c \in Callers, T!Decided(c) \/ T!DeleteOnHost(c) \/ T!Deleted(c) \/ T!DecisionFails(c)
         PROVE NoneTwiceInv'
    BY <2>2, <2>10, DecidedTwice, DeleteTwice, DeletedTwice, FailedTwice
  <2> QED BY <2>1, <2>3, <2>4, <2>5, <2>6, <2>7, <2>8, <2>9, <2>10 DEF T!Next
<1> QED BY <1>1, <1>2

-----------------------------------------------------------------------------
(* What is synchronised is there. *)

LEMMA SyncedStep ==
  ASSUME TypeInv, WaitsInv, SyncedInv, NEW c \in Callers, OneChanges(c),
         UNCHANGED host \/ BusyRun(runs[c]),
         Spoken(c)' => SyncOK(c)'
  PROVE  SyncedInv'
<1> SUFFICES ASSUME NEW d \in Callers, Spoken(d)' PROVE SyncOK(d)'
  BY DEF SyncedInv
<1>1. CASE d = c
  BY <1>1
<1>2. CASE d # c
  <2>1. runs'[d] = runs[d]
    BY <1>2 DEF OneChanges
  <2>2. Spoken(d) /\ SyncOK(d) /\ BusyRun(runs[d])
    BY <2>1 DEF Spoken, SyncedInv, BusyRun
  <2>3. host' = host
    BY <1>2, <2>2, OneBusy
  <2>4. T!Current(d)' = T!Current(d)
    BY <2>1 DEF T!Current
  <2>5. \A i, e, S : Named(i, e, S)' = Named(i, e, S)
    BY <2>3 DEF Named, T!There
  <2> QED BY <2>1, <2>2, <2>3, <2>4, <2>5 DEF SyncOK, T!There
<1> QED BY <1>1, <1>2

LEMMA NotSpoken ==
  ASSUME NEW c \in Callers, Ended(c) \/ runs'[c].op # "sync"
  PROVE  ~Spoken(c)'
BY DEF Ended, Spoken

LEMMA StillSpoken ==
  ASSUME NEW c \in Callers, Stays(c), Spoken(c)', runs'[c].results.errors = {} => runs[c].results.errors = {}
  PROVE  Spoken(c)
BY DEF Stays, Spoken

\* A run that goes on to a stage of which nothing is said.
LEMMA MovedSynced ==
  ASSUME SyncedInv, NEW c \in Callers, NEW s, NEW a, Moved(c, s, a), UNCHANGED host,
         s \notin {"update", "updated", "created", "fetched", "reload"}
  PROVE  Spoken(c)' => SyncOK(c)'
<1> SUFFICES ASSUME Spoken(c)' PROVE SyncOK(c)'
  OBVIOUS
<1>1. /\ runs'[c].given = runs[c].given /\ runs'[c].rest = runs[c].rest /\ runs'[c].results = runs[c].results
      /\ runs'[c].stage = s
  BY DEF Moved, Stays
<1>2. SyncOK(c)
  BY <1>1, StillSpoken DEF Moved, SyncedInv
<1>3. \A i, e, S : Named(i, e, S)' = Named(i, e, S)
  BY DEF Named, T!There
<1> QED BY <1>1, <1>2, <1>3 DEF SyncOK

LEMMA QuietSynced ==
  ASSUME TypeInv, WaitsInv, SyncedInv, NEW c \in Callers, OneChanges(c), runs'[c].op # "sync", UNCHANGED host \/ BusyRun(runs[c])
  PROVE  SyncedInv'
<1>1. ~Spoken(c)'
  BY DEF Spoken
<1> QED BY <1>1, SyncedStep

LEMMA SyncBeginsSynced ==
  ASSUME TypeInv, WaitsInv, ListsInv, SyncedInv, NEW c \in Callers, T!ManualSync(c)
  PROVE  SyncedInv'
<1>1. host' = host /\ OneChanges(c)
  BY SyncRun DEF T!ManualSync
<1>2. ASSUME Spoken(c)' PROVE SyncOK(c)'
  <2>1. tab = "types" /\ runs'[c].given = lists[tab] /\ "types" \in T!Tabs
    BY <1>2, SyncRun DEF Spoken, T!Tabs
  <2>2. \A q \in runs'[c].given : q.of \in Types
    BY <2>1 DEF ListsInv, T!TabOf
  <2>3. /\ runs'[c].results.created = {} /\ runs'[c].results.updated = {} /\ runs'[c].stage = "next"
    BY SyncRun DEF T!NoResults
  <2>4. /\ \A k \in DOMAIN runs'[c].rest : runs'[c].rest[k] \in lists[tab]
        /\ \A x \in lists[tab] : \E k \in DOMAIN runs'[c].rest : runs'[c].rest[k] = x
    BY SyncRun
  <2> QED BY <2>1, <2>2, <2>3, <2>4 DEF SyncOK
<1> QED BY <1>1, <1>2, SyncedStep

LEMMA NextSynced ==
  ASSUME TypeInv, WaitsInv, SyncedInv, NEW c \in Callers, T!SyncNext(c)
  PROVE  SyncedInv'
<1>1. host' = host
  BY DEF T!SyncNext
<1>2. CASE Moved(c, "create", runs[c].answer)
  <2>1. Spoken(c)' => SyncOK(c)'
    BY <1>1, <1>2, MovedSynced
  <2>2. OneChanges(c)
    BY <1>2 DEF Moved
  <2> QED BY <1>1, <2>1, <2>2, SyncedStep
<1>3. CASE T!Found(T!Current(c).of) # {} /\ Moved(c, "update", <<T!FirstFound(T!Current(c).of)>>)
  <2>1. ASSUME Spoken(c)' PROVE SyncOK(c)'
    <3>1. PICK i : i = T!FirstFound(T!Current(c).of)
      OBVIOUS
    <3>2. i \in DOMAIN host /\ host[i].of = T!Current(c).of /\ i \in Nat
      BY <1>3, <3>1, FoundIs, SpecificationsAre DEF TypeInv
    <3>3. /\ runs'[c].given = runs[c].given /\ runs'[c].rest = runs[c].rest /\ runs'[c].results = runs[c].results
          /\ runs'[c].stage = "update" /\ runs'[c].answer = <<i>>
      BY <1>3, <3>1 DEF Moved, Stays
    <3>4. SyncOK(c)
      BY <1>3, <2>1, <3>3, StillSpoken DEF Moved, SyncedInv
    <3>5. \A j, e, S : Named(j, e, S)' = Named(j, e, S)
      BY <1>1 DEF Named, T!There
    <3>6. runs'[c].answer[1] = i /\ T!Current(c)' = T!Current(c)
      BY <3>2, <3>3, OneNumber DEF T!Current
    <3> QED BY <1>1, <3>2, <3>3, <3>4, <3>5, <3>6 DEF SyncOK
  <2>2. OneChanges(c)
    BY <1>3 DEF Moved
  <2> QED BY <1>1, <2>1, <2>2, SyncedStep
<1> QED BY <1>2, <1>3, NextIs

LEMMA ItemMade == ASSUME NEW x \in Items PROVE x = [of |-> x.of, name |-> x.name]
BY DEF Items

LEMMA UpdateSynced ==
  ASSUME TypeInv, WaitsInv, SyncedInv, NEW c \in Callers, T!UpdateOnHost(c)
  PROVE  SyncedInv'
<1>1. Moved(c, "updated", runs[c].answer) /\ runs[c].op = "sync" /\ runs[c].stage = "update"
  BY ToIs DEF T!UpdateOnHost, T!At
<1>2. ASSUME Spoken(c)' PROVE SyncOK(c)'
  <2>1. PICK i, q : i = runs[c].answer[1] /\ q = T!Current(c)
    OBVIOUS
  <2>2. /\ runs'[c].given = runs[c].given /\ runs'[c].rest = runs[c].rest /\ runs'[c].results = runs[c].results
        /\ runs'[c].stage = "updated" /\ runs'[c].answer = runs[c].answer
    BY <1>1 DEF Moved, Stays
  <2>3. SyncOK(c)
    BY <1>1, <1>2, <2>2, StillSpoken DEF Moved, SyncedInv
  <2>4. T!Current(c)' = q /\ runs'[c].answer[1] = i
    BY <2>1, <2>2 DEF T!Current
  <2>5. /\ DOMAIN host' = DOMAIN host /\ i \in DOMAIN host
        /\ \A j \in DOMAIN host : j # i => host'[j] = host[j]
        /\ host'[i].of = host[i].of /\ host'[i].name = q.name /\ host'[i].there = TRUE
    <3> DEFINE x == [of |-> host[i].of, name |-> q.name, there |-> TRUE]
    <3>1. /\ i \in DOMAIN host /\ host' = [host EXCEPT ![i] = x]
          /\ x \in [of : T!Entities, name : Nat, there : BOOLEAN]
      BY <2>1, UpdateIs
    <3>2. x.of = host[i].of /\ x.name = q.name /\ x.there = TRUE
      OBVIOUS
    <3> HIDE DEF x
    <3>3. DOMAIN host' = DOMAIN host /\ \A j \in DOMAIN host : host'[j] = IF j = i THEN x ELSE host[j]
      BY <3>1, HostChanges DEF TypeInv
    <3>4. host'[i] = x /\ \A j \in DOMAIN host : j # i => host'[j] = host[j]
      BY <3>1, <3>3
    <3> QED BY <3>1, <3>2, <3>3, <3>4
  <2>6. q = [of |-> q.of, name |-> q.name] /\ q \in runs[c].given /\ host[i].of = q.of
    <3>1. q \in Items /\ q = runs[c].rest[1] /\ 1 \in DOMAIN runs[c].rest
      BY <1>1, <2>1, CurrentIs DEF TypeInv, ItemStages
    <3> QED BY <1>1, <2>1, <2>3, <3>1, ItemMade DEF SyncOK
  <2>7. (Named(i, q.of, runs[c].given))'
    BY <2>2, <2>5, <2>6 DEF Named, T!There
  <2>8. ASSUME NEW e, NEW j \in DOMAIN host, Named(j, e, runs[c].given) PROVE (Named(j, e, runs[c].given))'
    <3>1. CASE j = i
      <4>1. e = q.of
        BY <2>6, <2>8, <3>1 DEF Named
      <4> QED BY <2>7, <3>1, <4>1
    <3>2. CASE j # i
      BY <2>2, <2>5, <2>8, <3>2 DEF Named, T!There
    <3> QED BY <3>1, <3>2
  <2>9. \A e \in runs[c].results.created \cup runs[c].results.updated : \E j \in DOMAIN host : (Named(j, e, runs[c].given))'
    BY <2>3, <2>8 DEF SyncOK
  <2>10. host'[i].of = q.of
    BY <2>5, <2>6
  <2> QED BY <2>2, <2>3, <2>4, <2>5, <2>7, <2>9, <2>10 DEF SyncOK
<1>3. OneChanges(c) /\ BusyRun(runs[c])
  BY <1>1 DEF Moved, BusyRun
<1> QED BY <1>2, <1>3, SyncedStep

\* The current item is counted, when there is a specification of it.
LEMMA CountedSynced ==
  ASSUME TypeInv, WaitsInv, SyncedInv, NEW c \in Callers, UNCHANGED host, runs[c].op = "sync",
         NEW f \in {"created", "updated"}, CountedAs(c, f), runs[c].stage = f, runs[c].rest # <<>>
  PROVE  SyncedInv'
<1>1. ASSUME Spoken(c)' PROVE SyncOK(c)'
  <2>1. PICK q : q = T!Current(c)
    OBVIOUS
  <2>2. /\ runs'[c].given = runs[c].given /\ runs'[c].rest = Tail(runs[c].rest) /\ runs'[c].stage = "next"
        /\ \A g \in {"created", "updated", "errors"} :
             runs'[c].results[g] = IF g = f THEN runs[c].results[g] \cup {q.of} ELSE runs[c].results[g]
    BY <2>1 DEF CountedAs, Stays
  <2>3. SyncOK(c)
    <3>1. "errors" # f /\ runs'[c].results["errors"] = runs[c].results["errors"]
      BY <2>2
    <3> QED BY <1>1, <3>1, StillSpoken DEF CountedAs, SyncedInv
  <2>4. /\ q = runs[c].rest[1]
        /\ \A k \in DOMAIN Tail(runs[c].rest) : k + 1 \in DOMAIN runs[c].rest /\ Tail(runs[c].rest)[k] = runs[c].rest[k + 1]
        /\ \A k \in DOMAIN runs[c].rest : k # 1 => k - 1 \in DOMAIN Tail(runs[c].rest) /\ Tail(runs[c].rest)[k - 1] = runs[c].rest[k]
    <3>1. runs[c].rest \in Seq(Items)
      BY RunFields DEF TypeInv
    <3> QED BY <2>1, <3>1, TailIs DEF T!Current
  <2>5. \E i \in DOMAIN host : Named(i, q.of, runs[c].given)
    <3>1. Named(runs[c].answer[1], q.of, runs[c].given)
      BY <2>1, <2>3 DEF SyncOK
    <3> QED BY <3>1 DEF Named
  <2>6. \A i, e, S : Named(i, e, S)' = Named(i, e, S)
    BY DEF Named, T!There
  <2>7. PICK atStart, done : atStart = runs[c].results.created \cup runs[c].results.updated /\ done = atStart \cup {q.of}
    OBVIOUS
  <2>8. runs'[c].results.created \cup runs'[c].results.updated = done
    <3>1. CASE f = "created"
      BY <2>2, <2>7, <3>1
    <3>2. CASE f = "updated"
      BY <2>2, <2>7, <3>2
    <3> QED BY <3>1, <3>2
  <2>9. ASSUME NEW x \in runs[c].given
        PROVE  x.of \in done \/ \E k \in DOMAIN Tail(runs[c].rest) : Tail(runs[c].rest)[k].of = x.of
    <3>1. CASE x.of \in atStart
      BY <2>7, <3>1
    <3>2. CASE x.of \notin atStart
      <4>1. PICK k \in DOMAIN runs[c].rest : runs[c].rest[k].of = x.of
        BY <2>3, <2>7, <3>2 DEF SyncOK
      <4>2. CASE k = 1
        BY <2>4, <2>7, <4>1, <4>2
      <4>3. CASE k # 1
        BY <2>4, <4>1, <4>3
      <4> QED BY <4>2, <4>3
    <3> QED BY <3>1, <3>2
  <2>10. \A e \in done : \E i \in DOMAIN host : Named(i, e, runs[c].given)
    BY <2>3, <2>5, <2>7 DEF SyncOK
  <2>11. \A k \in DOMAIN Tail(runs[c].rest) : Tail(runs[c].rest)[k] \in runs[c].given
    BY <2>3, <2>4 DEF SyncOK
  <2> QED BY <2>2, <2>3, <2>6, <2>8, <2>9, <2>10, <2>11 DEF SyncOK
<1>2. OneChanges(c)
  BY DEF CountedAs
<1> QED BY <1>1, <1>2, SyncedStep

LEMMA FailsSynced ==
  ASSUME TypeInv, WaitsInv, SyncedInv, NEW c \in Callers, T!ItemFails(c)
  PROVE  SyncedInv'
<1>1. OneChanges(c) /\ runs'[c].results["errors"] = runs[c].results["errors"] \cup {T!Current(c).of}
  BY FailingIs DEF CountedAs
<1>2. ~Spoken(c)'
  BY <1>1 DEF Spoken
<1>3. host' = host
  BY DEF T!ItemFails
<1> QED BY <1>1, <1>2, <1>3, SyncedStep

LEMMA CreateSynced ==
  ASSUME TypeInv, WaitsInv, SyncedInv, NEW c \in Callers, T!CreateOnHost(c)
  PROVE  SyncedInv'
<1>0. PICK N : N = Len(host) + 1
  OBVIOUS
<1>1. /\ runs[c].op \in {"sync", "decide"} /\ runs[c].stage = "create" /\ Moved(c, "created", <<N>>)
  BY <1>0, MakingIs
<1>2. ASSUME Spoken(c)' PROVE SyncOK(c)'
  <2>1. PICK q : q = T!Current(c)
    OBVIOUS
  <2>2. /\ runs'[c].given = runs[c].given /\ runs'[c].rest = runs[c].rest /\ runs'[c].results = runs[c].results
        /\ runs'[c].stage = "created" /\ runs'[c].answer = <<N>> /\ N \in Nat
    BY <1>0, <1>1, CreateIs DEF Moved, Stays
  <2>3. SyncOK(c)
    BY <1>1, <1>2, <2>2, StillSpoken DEF Moved, SyncedInv
  <2>4. T!Current(c)' = q /\ runs'[c].answer[1] = N
    BY <2>1, <2>2, OneNumber DEF T!Current
  <2>5. /\ N \in DOMAIN host' /\ host'[N].of = q.of /\ host'[N].name = q.name /\ host'[N].there = TRUE
        /\ \A j \in DOMAIN host : j \in DOMAIN host' /\ host'[j] = host[j]
    <3>1. PICK x : x = [of |-> q.of, name |-> q.name, there |-> TRUE] /\ host' = Append(host, x)
      BY <2>1, CreateIs
    <3>2. /\ Len(host) \in Nat /\ DOMAIN host = 1 .. Len(host) /\ DOMAIN host' = 1 .. Len(host) + 1
      BY CreateIs
    <3>3. host \in Seq([of : T!Entities, name : Nat, there : BOOLEAN]) /\ x \in [of : T!Entities, name : Nat, there : BOOLEAN]
      <4>1. q.of \in T!Entities /\ q.name \in Nat
        BY <1>1, <2>1, CurrentIs DEF ItemStages, TypeInv
      <4> QED BY <3>1, <4>1 DEF TypeInv, DataOK
    <3>4. \A i \in 1 .. Len(host) : Append(host, x)[i] = host[i]
      BY <3>3, AppendProperties
    <3>5. Append(host, x)[Len(host) + 1] = x
      BY <3>3, AppendProperties
    <3> QED BY <1>0, <3>1, <3>2, <3>4, <3>5
  <2>6. q = [of |-> q.of, name |-> q.name] /\ q \in runs[c].given
    <3>1. q \in Items /\ q = runs[c].rest[1] /\ 1 \in DOMAIN runs[c].rest
      BY <1>1, <2>1, CurrentIs DEF TypeInv, ItemStages
    <3> QED BY <2>3, <3>1, ItemMade DEF SyncOK
  <2>7. (Named(N, q.of, runs[c].given))'
    BY <2>2, <2>5, <2>6 DEF Named, T!There
  <2>8. ASSUME NEW e, NEW j \in DOMAIN host, Named(j, e, runs[c].given)
        PROVE  j \in DOMAIN host' /\ (Named(j, e, runs[c].given))'
    BY <2>2, <2>5, <2>8 DEF Named, T!There
  <2>9. \A e \in runs[c].results.created \cup runs[c].results.updated :
          \E j \in DOMAIN host' : (Named(j, e, runs[c].given))'
    BY <2>3, <2>8 DEF SyncOK
  <2>10. Named(runs[c].answer[1], T!Current(c).of, runs[c].given)'
    BY <2>2, <2>4, <2>7
  <2> QED BY <2>2, <2>3, <2>9, <2>10 DEF SyncOK
<1>3. OneChanges(c) /\ BusyRun(runs[c])
  BY <1>1 DEF Moved, BusyRun
<1> QED BY <1>2, <1>3, SyncedStep

LEMMA ReloadSynced ==
  ASSUME TypeInv, WaitsInv, SyncedInv, NEW c \in Callers, T!SyncReload(c) \/ T!FetchSpecs(c)
  PROVE  SyncedInv'
<1>1. PICK s, a : Moved(c, s, a) /\ \/ T!SyncReload(c) /\ s = "reload"
                                    \/ s = "fetched" /\ a = T!Listing /\ (runs[c].op = "sync" => runs[c].stage = "reload")
  <2>1. CASE T!SyncReload(c)
    BY <2>1, ToIs DEF T!SyncReload
  <2>2. CASE T!FetchSpecs(c)
    <3>1. Moved(c, "fetched", T!Listing) /\ (runs[c].op = "sync" => runs[c].stage = "reload")
      BY <2>2, FetchingIs
    <3> QED BY <3>1
  <2> QED BY <2>1, <2>2
<1>2. host' = host
  BY DEF T!SyncReload, T!FetchSpecs
<1>3. ASSUME Spoken(c)' PROVE SyncOK(c)'
  <2>1. /\ runs'[c].given = runs[c].given /\ runs'[c].rest = runs[c].rest /\ runs'[c].results = runs[c].results
        /\ runs'[c].stage = s /\ runs'[c].answer = a
    BY <1>1 DEF Moved, Stays
  <2>2. SyncOK(c) /\ Spoken(c)
    BY <1>1, <1>3, <2>1, StillSpoken DEF Moved, SyncedInv
  <2>3. runs[c].rest = <<>>
    BY <1>1, <2>2 DEF T!SyncReload, SyncOK, Spoken
  <2>4. s \in {"reload", "fetched"}
    BY <1>1
  <2>5. s = "fetched" => \A i \in DOMAIN host : T!There(i) => \E k \in DOMAIN a : a[k] = [id |-> i, name |-> host[i].name]
    <3>1. \A i \in DOMAIN host : T!There(i) => \E k \in DOMAIN T!Listing : T!Listing[k] = [id |-> i, name |-> host[i].name]
      BY ListingIs DEF TypeInv
    <3> QED BY <1>1, <3>1
  <2>6. \A i, e, S : Named(i, e, S)' = Named(i, e, S)
    BY <1>2 DEF Named, T!There
  <2> QED BY <1>2, <2>1, <2>2, <2>3, <2>4, <2>5, <2>6 DEF SyncOK, T!There
<1>4. OneChanges(c)
  BY <1>1 DEF Moved
<1> QED BY <1>2, <1>3, <1>4, SyncedStep

LEMMA NextSyncedInv ==
  ASSUME Waits, TypeInv, WaitsInv, ListsInv, SyncedInv, [T!Next]_(T!testPageVars)
  PROVE  SyncedInv'
<1>1. CASE UNCHANGED T!testPageVars \/ T!CloseError \/ T!Leave
  <2>1. UNCHANGED <<host, runs>>
    BY <1>1, WaitedIs, NoneUnmounted DEF T!testPageVars, T!CloseError, T!Leave
  <2>2. \A c \in Callers : T!Current(c)' = T!Current(c)
    BY <2>1 DEF T!Current
  <2>3. \A i, e, S : Named(i, e, S)' = Named(i, e, S)
    BY <2>1 DEF Named, T!There
  <2> QED BY <2>1, <2>2, <2>3 DEF SyncedInv, Spoken, SyncOK, T!There
<1>2. CASE T!OthersAct
  <2>1. runs' = T!Disturbed
    BY <1>2 DEF T!OthersAct
  <2>2. \A d \in Callers : ~Spoken(d)'
    BY <2>1, DisturbedIs DEF Spoken
  <2> QED BY <2>2 DEF SyncedInv
<1>3. ASSUME NEW c \in Callers, NEW t \in T!Tabs, T!Open(c, t) PROVE SyncedInv'
  <2>1. AllIdle /\ host' = host
    BY <1>3, WaitedIs DEF T!Open
  <2>2. OneChanges(c) /\ runs'[c].op # "sync"
    BY <1>3, <2>1, OpenRun, NoneUnmounted DEF OneChanges
  <2> QED BY <2>1, <2>2, QuietSynced
<1>4. ASSUME NEW c \in Callers, T!Refresh(c) \/ T!LoadAgents(c) \/ T!SpecsFetched(c) \/ T!LoadFails(c) \/ T!LoadList(c) PROVE SyncedInv'
  <2>1. host' = host
    BY <1>4 DEF T!Refresh, T!LoadAgents, T!SpecsFetched, T!LoadFails, T!LoadList
  <2>2. OneChanges(c) /\ runs'[c].op # "sync"
    <3>1. CASE T!Refresh(c)
      BY <3>1, RefreshRun
    <3>2. CASE T!LoadAgents(c)
      BY <3>2, ToIs DEF T!LoadAgents, T!At, Moved, Stays
    <3>3. CASE T!SpecsFetched(c) \/ T!LoadFails(c)
      <4>1. T!LoadOver(c) /\ runs[c].op = "load"
        BY <3>3 DEF T!SpecsFetched, T!LoadFails, T!At
      <4> QED BY <4>1, LoadOverIs DEF Ended, Moved, Stays
    <3>4. CASE T!LoadList(c)
      BY <3>4, ListingOf DEF Ended
    <3> QED BY <1>4, <3>1, <3>2, <3>3, <3>4
  <2> QED BY <2>1, <2>2, QuietSynced
<1>5. ASSUME NEW c \in Callers, T!FetchSpecs(c) \/ T!SyncReload(c) PROVE SyncedInv'
  BY <1>5, ReloadSynced
<1>6. ASSUME NEW c \in Callers, T!ManualSync(c) \/ T!SyncNext(c) \/ T!UpdateOnHost(c) \/ T!CreateOnHost(c) \/ T!ItemFails(c) PROVE SyncedInv'
  BY <1>6, SyncBeginsSynced, NextSynced, UpdateSynced, CreateSynced, FailsSynced
<1>7. ASSUME NEW c \in Callers, T!Updated(c) PROVE SyncedInv'
  <2>1. host' = host
    BY <1>7 DEF T!Updated
  <2> QED BY <1>7, <2>1, UpdatingIs, CountedSynced
<1>8. ASSUME NEW c \in Callers, T!Created(c) PROVE SyncedInv'
  <2>1. host' = host
    BY <1>8 DEF T!Created
  <2>2. runs[c].stage = "created" /\ runs[c].rest # <<>>
    BY <1>8, CreatingIs
  <2>3. CASE runs[c].op = "sync" /\ CountedAs(c, "created")
    BY <2>1, <2>2, <2>3, CountedSynced
  <2>4. CASE Ended(c)
    BY <2>1, <2>4, QuietSynced DEF Ended
  <2> QED BY <1>8, <2>3, <2>4, CreatingIs
<1>9. ASSUME NEW c \in Callers, T!SyncEnds(c) \/ T!SyncFails(c) PROVE SyncedInv'
  <2>1. host' = host /\ T!Put(c, T!NoRun)
    BY <1>9 DEF T!SyncEnds, T!SyncFails, T!SyncOver
  <2>2. OneChanges(c) /\ runs'[c].op # "sync"
    BY <2>1, EndIs DEF Ended
  <2> QED BY <2>1, <2>2, QuietSynced
<1>10. ASSUME NEW c \in Callers, NEW e \in T!Entities, NEW s \in {"approved", "rejected"}, T!Decide(c, e, s) PROVE SyncedInv'
  <2>1. host' = host /\ OneChanges(c) /\ runs'[c].op # "sync"
    BY <1>10, DecideBegins DEF T!Decide
  <2> QED BY <2>1, QuietSynced
<1>11. ASSUME NEW c \in Callers, T!Decided(c) PROVE SyncedInv'
  <2>1. host' = host /\ OneChanges(c) /\ runs[c].op = "decide" /\ runs[c].stage \in {"approved", "rejected"} /\ runs'[c] = T!EventRun(c)
    BY <1>11, DecidedAlone, DecidingIs
  <2>2. runs'[c].op # "sync"
    BY <2>1, EventMoves DEF Ended, Moved, Stays
  <2> QED BY <2>1, <2>2, QuietSynced
<1>12. ASSUME NEW c \in Callers, T!DeleteOnHost(c) PROVE SyncedInv'
  <2>1. Moved(c, "deleted", runs[c].answer) /\ runs[c].op = "decide"
    BY <1>12, ToIs DEF T!DeleteOnHost, T!At
  <2>2. OneChanges(c) /\ runs'[c].op # "sync" /\ BusyRun(runs[c])
    BY <2>1 DEF Moved, Stays, BusyRun
  <2> QED BY <2>2, QuietSynced
<1>13. ASSUME NEW c \in Callers, T!Deleted(c) \/ T!DecisionFails(c) PROVE SyncedInv'
  <2>1. host' = host
    BY <1>13 DEF T!Deleted, T!DecisionFails
  <2>2. OneChanges(c) /\ runs'[c].op # "sync"
    BY <1>13, DecidedIs DEF Ended
  <2> QED BY <2>1, <2>2, QuietSynced
<1> QED BY <1>1, <1>2, <1>3, <1>4, <1>5, <1>6, <1>7, <1>8, <1>9, <1>10, <1>11, <1>12, <1>13 DEF T!Next

-----------------------------------------------------------------------------
(* What the tab tells. *)

LEMMA BoundsMove ==
  ASSUME [T!Next]_(T!testPageVars)
  PROVE  \/ UNCHANGED T!Bounds
         \/ T!Failing
         \/ T!OthersAct
         \/ decisions' = decisions + 1 /\ UNCHANGED <<others, failures>>
<1>1. ASSUME NEW c \in Callers, NEW t \in T!Tabs, T!Open(c, t) PROVE UNCHANGED T!Bounds
  BY <1>1 DEF T!Open
<1>2. ASSUME NEW c \in Callers,
        T!Refresh(c) \/ T!LoadAgents(c) \/ T!FetchSpecs(c) \/ T!SpecsFetched(c) \/ T!LoadFails(c) \/ T!LoadList(c) PROVE UNCHANGED T!Bounds \/ T!Failing
  BY <1>2 DEF T!Refresh, T!LoadAgents, T!FetchSpecs, T!SpecsFetched, T!LoadFails, T!LoadList
<1>3. ASSUME NEW c \in Callers, T!ManualSync(c) \/ T!SyncNext(c) \/ T!UpdateOnHost(c) \/ T!Updated(c) \/ T!CreateOnHost(c) PROVE UNCHANGED T!Bounds
  BY <1>3 DEF T!ManualSync, T!SyncNext, T!UpdateOnHost, T!Updated, T!CreateOnHost
<1>4. ASSUME NEW c \in Callers, T!Created(c) \/ T!ItemFails(c) \/ T!SyncReload(c) \/ T!SyncEnds(c) \/ T!SyncFails(c) PROVE UNCHANGED T!Bounds \/ T!Failing
  BY <1>4 DEF T!Created, T!ItemFails, T!SyncReload, T!SyncEnds, T!SyncFails
<1>5. ASSUME NEW c \in Callers, NEW e \in T!Entities, NEW s \in {"approved", "rejected"}, T!Decide(c, e, s)
      PROVE  decisions' = decisions + 1 /\ UNCHANGED <<others, failures>>
  BY <1>5 DEF T!Decide
<1>6. ASSUME NEW c \in Callers, T!Decided(c) \/ T!DeleteOnHost(c) \/ T!Deleted(c) \/ T!DecisionFails(c) PROVE UNCHANGED T!Bounds \/ T!Failing
  BY <1>6 DEF T!Decided, T!DeleteOnHost, T!Deleted, T!DecisionFails
<1>7. CASE T!Leave \/ T!CloseError \/ UNCHANGED T!testPageVars
  BY <1>7 DEF T!Leave, T!CloseError, T!testPageVars, T!Bounds
<1> QED BY <1>1, <1>2, <1>3, <1>4, <1>5, <1>6, <1>7 DEF T!Next

LEMMA CalmBefore ==
  ASSUME TypeInv, [T!Next]_(T!testPageVars), Calm'
  PROVE  Calm /\ ~T!Failing /\ ~T!OthersAct /\ UNCHANGED decisions
<1>1. others \in Nat /\ decisions \in Nat /\ failures \in Nat
  BY DEF TypeInv, FlagsOK
<1>2. others' = 0 /\ decisions' = 0 /\ failures' = 0
  BY DEF Calm
<1>3. ~T!Failing /\ ~T!OthersAct
  BY <1>1, <1>2 DEF T!Failing, T!OthersAct
<1>4. UNCHANGED T!Bounds
  BY <1>1, <1>2, <1>3, BoundsMove
<1> QED BY <1>2, <1>3, <1>4 DEF Calm, T!Bounds

LEMMA AllSame ==
  ASSUME UNCHANGED <<approved, named>>
  PROVE  \A t : AllOf(t)' = AllOf(t)
BY DEF AllOf, T!Item

LEMMA TabStep ==
  ASSUME TypeInv, TabInv, Calm, NEW c \in Callers, OneChanges(c), UNCHANGED <<approved, named, lists, tab>>,
         HostApproved', TabRun(c)', ResultsWhole',
         runs[c].op = "load" => runs'[c].op = "load" /\ runs'[c].of = runs[c].of
  PROVE  TabInv'
<1>1. \A t : AllOf(t)' = AllOf(t)
  BY AllSame
<1>2. ListsWhole'
  BY <1>1 DEF TabInv, ListsWhole
<1>3. TabLoads'
  BY <1>1 DEF TabInv, TabLoads, OneChanges
<1>4. ASSUME NEW d \in Callers PROVE TabRun(d)'
  <2>1. CASE d = c
    BY <2>1
  <2>2. CASE d # c
    BY <1>1, <2>2 DEF TabInv, TabRun, SyncTab, OneChanges, T!Mounted
  <2> QED BY <2>1, <2>2
<1> QED BY <1>2, <1>3, <1>4 DEF TabInv

LEMMA MovedTab ==
  ASSUME TypeInv, TabInv, Calm, NEW c \in Callers, NEW s, NEW a, Moved(c, s, a), UNCHANGED <<approved, named, lists, tab>>,
         HostApproved', ResultsWhole'
  PROVE  TabInv'
<1>1. /\ OneChanges(c)
      /\ runs'[c].op = runs[c].op /\ runs'[c].of = runs[c].of /\ runs'[c].mounted = runs[c].mounted
      /\ runs'[c].given = runs[c].given /\ runs'[c].rest = runs[c].rest /\ runs'[c].results = runs[c].results
  BY DEF Moved, Stays
<1>2. \A t : AllOf(t)' = AllOf(t)
  BY AllSame
<1>3. TabRun(c)'
  BY <1>1, <1>2 DEF TabInv, TabRun, SyncTab, T!Mounted
<1> QED BY <1>1, <1>3, TabStep

LEMMA CountedTab ==
  ASSUME TypeInv, TabInv, Calm, NEW c \in Callers, NEW f \in {"created", "updated", "errors"}, CountedAs(c, f),
         runs[c].op = "sync", runs[c].rest # <<>>, UNCHANGED <<approved, named, lists, tab, host, results>>
  PROVE  TabInv'
<1>1. /\ OneChanges(c)
      /\ runs'[c].op = "sync" /\ runs'[c].of = runs[c].of /\ runs'[c].mounted = runs[c].mounted
      /\ runs'[c].given = runs[c].given /\ runs'[c].rest = Tail(runs[c].rest)
      /\ \A g \in {"created", "updated", "errors"} :
           runs'[c].results[g] = IF g = f THEN runs[c].results[g] \cup {T!Current(c).of} ELSE runs[c].results[g]
  BY DEF CountedAs, Stays
<1>2. \A t : AllOf(t)' = AllOf(t)
  BY AllSame
<1>3. CountsOf(runs'[c].results) = CountsOf(runs[c].results) \cup {T!Current(c).of}
  <2>1. CASE f = "created"
    BY <1>1, <2>1 DEF CountsOf
  <2>2. CASE f = "updated"
    BY <1>1, <2>2 DEF CountsOf
  <2>3. CASE f = "errors"
    BY <1>1, <2>3 DEF CountsOf
  <2> QED BY <2>1, <2>2, <2>3
<1>4. /\ T!Current(c) = runs[c].rest[1] /\ 1 \in DOMAIN runs[c].rest
      /\ \A k \in DOMAIN Tail(runs[c].rest) : k + 1 \in DOMAIN runs[c].rest /\ Tail(runs[c].rest)[k] = runs[c].rest[k + 1]
      /\ \A k \in DOMAIN runs[c].rest : k # 1 => k - 1 \in DOMAIN Tail(runs[c].rest) /\ Tail(runs[c].rest)[k - 1] = runs[c].rest[k]
  <2>1. runs[c].rest \in Seq(Items)
    BY RunFields DEF TypeInv
  <2> QED BY <2>1, TailIs DEF T!Current
<1>5. RestOf(runs[c].rest) = RestOf(Tail(runs[c].rest)) \cup {T!Current(c).of}
  <2>1. ASSUME NEW x \in RestOf(runs[c].rest) PROVE x \in RestOf(Tail(runs[c].rest)) \cup {T!Current(c).of}
    <3>1. PICK k \in DOMAIN runs[c].rest : x = runs[c].rest[k].of
      BY <2>1 DEF RestOf
    <3>2. CASE k = 1
      BY <1>4, <3>1, <3>2
    <3>3. CASE k # 1
      BY <1>4, <3>1, <3>3 DEF RestOf
    <3> QED BY <3>2, <3>3
  <2>2. ASSUME NEW x \in RestOf(Tail(runs[c].rest)) \cup {T!Current(c).of} PROVE x \in RestOf(runs[c].rest)
    <3>1. CASE x = T!Current(c).of
      BY <1>4, <3>1 DEF RestOf
    <3>2. CASE x \in RestOf(Tail(runs[c].rest))
      <4>1. PICK k \in DOMAIN Tail(runs[c].rest) : x = Tail(runs[c].rest)[k].of
        BY <3>2 DEF RestOf
      <4> QED BY <1>4, <4>1 DEF RestOf
    <3> QED BY <2>2, <3>1, <3>2
  <2> QED BY <2>1, <2>2
<1>6. SyncTab(c)
  BY DEF TabInv, TabRun
<1>7. EntitiesOf(runs'[c].given) = CountsOf(runs'[c].results) \cup RestOf(runs'[c].rest)
  BY <1>1, <1>3, <1>5, <1>6 DEF SyncTab
<1>8. \A k \in DOMAIN runs'[c].rest : runs'[c].rest[k] \in runs'[c].given
  BY <1>1, <1>4, <1>6 DEF SyncTab
<1>9. SyncTab(c)'
  BY <1>1, <1>2, <1>6, <1>7, <1>8 DEF SyncTab, T!Mounted
<1>10. TabRun(c)'
  BY <1>1, <1>9 DEF TabRun
<1>11. HostApproved' /\ ResultsWhole'
  BY <1>2 DEF TabInv, HostApproved, ResultsWhole
<1> QED BY <1>1, <1>10, <1>11, TabStep

\* The shown counts and the approved stay.
LEMMA TabKept ==
  ASSUME TabInv, Calm, UNCHANGED <<approved, named, tab, host, results>>
  PROVE  HostApproved' /\ ResultsWhole'
BY AllSame DEF TabInv, HostApproved, ResultsWhole

\* A run that was left.
LEMMA LeftTab ==
  ASSUME TypeInv, TabInv, Calm, UNCHANGED <<approved, named>>, NEW d \in Callers, runs'[d] = T!Unmounted[d]
  PROVE  TabRun(d)'
<1>1. runs[d] \in RunSet(runs[d].answer)
  BY RunFields DEF TypeInv
<1>2. runs'[d] = IF runs[d].op = "none" THEN runs[d] ELSE [runs[d] EXCEPT !.mounted = FALSE]
  BY MarkedOK DEF TypeInv
<1>3. /\ runs'[d].op = runs[d].op /\ runs'[d].of = runs[d].of /\ runs'[d].given = runs[d].given
      /\ runs'[d].rest = runs[d].rest /\ runs'[d].results = runs[d].results
      /\ runs[d].op # "none" => runs'[d].mounted = FALSE
  BY <1>1, <1>2 DEF RunSet
<1>4. \A u : AllOf(u)' = AllOf(u)
  BY AllSame
<1> QED BY <1>3, <1>4 DEF TabInv, TabRun, SyncTab, T!Mounted

\* A tab is opened, or left.
LEMMA OpenTab ==
  ASSUME TypeInv, TabInv, Calm, NEW c \in Callers, NEW t \in T!Tabs, T!Open(c, t)
  PROVE  TabInv'
<1>1. UNCHANGED <<approved, named, lists, host>> /\ tab' = t /\ results' = T!NoResults
  BY DEF T!Open, T!Zomes
<1>2. \A u : AllOf(u)' = AllOf(u)
  BY <1>1, AllSame
<1>3. HostApproved' /\ ListsWhole'
  BY <1>1, <1>2 DEF TabInv, HostApproved, ListsWhole
<1>4. ResultsWhole'
  BY <1>1 DEF ResultsWhole, CountsOf, T!NoResults
<1>5. TabLoads'
  BY <1>1, OpenRun DEF TabLoads
<1>6. ASSUME NEW d \in Callers PROVE TabRun(d)'
  <2>1. CASE d = c
    BY <2>1, OpenRun DEF TabRun
  <2>2. CASE d # c
    <3>1. runs'[d] = T!Unmounted[d]
      BY <2>2, OpenRun
    <3> QED BY <1>1, <1>2, <3>1, LeftTab
  <2> QED BY <2>1, <2>2
<1> QED BY <1>3, <1>4, <1>5, <1>6 DEF TabInv

LEMMA LeaveTab ==
  ASSUME TypeInv, TabInv, Calm, T!Leave
  PROVE  TabInv'
<1>1. UNCHANGED <<approved, named, lists, host>> /\ tab' = "elsewhere" /\ results' = T!NoResults /\ runs' = T!Unmounted
  BY DEF T!Leave, T!Zomes
<1>2. \A u : AllOf(u)' = AllOf(u)
  BY <1>1, AllSame
<1>3. HostApproved' /\ ListsWhole'
  BY <1>1, <1>2 DEF TabInv, HostApproved, ListsWhole
<1>4. ResultsWhole'
  BY <1>1 DEF ResultsWhole, CountsOf, T!NoResults
<1>5. TabLoads'
  BY <1>1 DEF TabLoads, T!Tabs
<1>6. \A d \in Callers : TabRun(d)'
  BY <1>1, <1>2, LeftTab
<1> QED BY <1>3, <1>4, <1>5, <1>6 DEF TabInv

LEMMA LoadListTab ==
  ASSUME TypeInv, TabInv, Calm, NEW c \in Callers, T!LoadList(c), ~T!Failing
  PROVE  TabInv'
<1>1. /\ runs[c].of \in T!Tabs /\ Ended(c) /\ UNCHANGED <<approved, named, host, tab, results>>
  BY ListingOf
<1>2. lists' = Loaded(runs[c].of)
  BY DEF T!LoadList, Loaded
<1>3. \A u : AllOf(u)' = AllOf(u)
  BY <1>1, AllSame
<1>4. HostApproved' /\ ResultsWhole'
  BY <1>1, TabKept
<1>5. \A t \in T!Tabs : lists'[t] = IF t = runs[c].of THEN AllOf(t) ELSE lists[t]
  BY <1>1, <1>2 DEF Loaded, AllOf, TypeInv, DataOK
<1>6. ListsWhole'
  BY <1>3, <1>5 DEF TabInv, ListsWhole
<1>7. TabLoads'
  <2>1. ASSUME tab \in T!Tabs, lists[tab] = AllOf(tab) PROVE TabLoads'
    <3>1. PICK t : t = tab
      OBVIOUS
    <3>2. lists'[t] = AllOf(t)
      BY <1>5, <2>1, <3>1
    <3>3. lists'[tab'] = (AllOf(tab))'
      BY <1>1, <1>3, <3>1, <3>2
    <3> QED BY <3>3 DEF TabLoads
  <2>2. ASSUME tab \in T!Tabs, tab = runs[c].of PROVE TabLoads'
    <3>1. PICK t : t = tab
      OBVIOUS
    <3>2. lists'[t] = AllOf(t)
      BY <1>5, <2>2, <3>1
    <3>3. lists'[tab'] = (AllOf(tab))'
      BY <1>1, <1>3, <3>1, <3>2
    <3> QED BY <3>3 DEF TabLoads
  <2>3. ASSUME NEW d \in Callers, runs[d].op = "load", runs[d].of = tab, tab # runs[c].of PROVE TabLoads'
    BY <1>1, <2>3 DEF TabLoads, Ended, OneChanges
  <2>4. CASE tab \notin T!Tabs
    BY <1>1, <2>4 DEF TabLoads
  <2> QED BY <2>1, <2>2, <2>3, <2>4 DEF TabInv, TabLoads
<1>8. ASSUME NEW d \in Callers PROVE TabRun(d)'
  <2>1. CASE d = c
    BY <1>1, <2>1 DEF Ended, TabRun
  <2>2. CASE d # c
    <3>1. runs'[d] = runs[d]
      BY <1>1, <2>2 DEF Ended, OneChanges
    <3> QED BY <1>1, <1>3, <3>1 DEF TabInv, TabRun, SyncTab, T!Mounted
  <2> QED BY <2>1, <2>2
<1> QED BY <1>4, <1>6, <1>7, <1>8 DEF TabInv

LEMMA LoadTab ==
  ASSUME TypeInv, TabInv, Calm, ~T!Failing, NEW c \in Callers,
         T!Refresh(c) \/ T!LoadAgents(c) \/ T!FetchSpecs(c) \/ T!SpecsFetched(c) \/ T!LoadFails(c)
  PROVE  TabInv'
<1>1. UNCHANGED <<approved, named, lists, tab, host, results>>
  BY DEF T!Refresh, T!LoadAgents, T!FetchSpecs, T!SpecsFetched, T!LoadFails, T!Zomes, T!Component
<1>2. HostApproved' /\ ResultsWhole'
  BY <1>1, TabKept
<1>3. CASE T!Refresh(c)
  <2>1. OneChanges(c) /\ runs'[c].op = "load" /\ runs'[c].of = tab /\ tab \in T!Tabs /\ runs[c].op = "none"
    BY <1>3, RefreshRun
  <2>2. TabRun(c)'
    BY <2>1 DEF TabRun
  <2> QED BY <1>1, <1>2, <2>1, <2>2, TabStep
<1>4. CASE T!LoadAgents(c)
  <2>1. Moved(c, "specs", runs[c].answer)
    BY <1>4, ToIs DEF T!LoadAgents
  <2> QED BY <1>1, <1>2, <2>1, MovedTab
<1>5. CASE T!FetchSpecs(c)
  BY <1>1, <1>2, <1>5, FetchingIs, MovedTab
<1>6. CASE T!SpecsFetched(c)
  <2>1. runs[c].op = "load" /\ T!LoadOver(c)
    BY <1>6 DEF T!SpecsFetched, T!At
  <2>2. runs[c].of # "event"
    BY <2>1 DEF TabInv, TabRun, T!Tabs
  <2>3. Moved(c, "list", runs[c].answer)
    BY <2>1, <2>2, ToIs DEF T!LoadOver
  <2> QED BY <1>1, <1>2, <2>3, MovedTab
<1>7. CASE T!LoadFails(c)
  BY <1>7 DEF T!LoadFails
<1> QED BY <1>3, <1>4, <1>5, <1>6, <1>7

LEMMA SyncTabs ==
  ASSUME TypeInv, TabInv, Calm, ~T!Failing, NEW c \in Callers,
         T!ManualSync(c) \/ T!SyncNext(c) \/ T!UpdateOnHost(c) \/ T!Updated(c) \/ T!CreateOnHost(c)
  PROVE  TabInv'
<1>1. UNCHANGED <<approved, named, lists, tab, results>>
  BY DEF T!ManualSync, T!SyncNext, T!UpdateOnHost, T!Updated, T!CreateOnHost, T!Zomes, T!Component
<1>2. ResultsWhole'
  BY <1>1, AllSame DEF TabInv, ResultsWhole
<1>3. CASE T!ManualSync(c)
  <2>1. host' = host
    BY <1>3 DEF T!ManualSync
  <2>2. HostApproved'
    BY <1>1, <2>1, TabKept
  <2>3. /\ OneChanges(c) /\ runs[c].op = "none" /\ tab \in T!Tabs
        /\ runs'[c].op = "sync" /\ runs'[c].of = tab /\ runs'[c].given = lists[tab] /\ runs'[c].results = T!NoResults
        /\ \A k \in DOMAIN runs'[c].rest : runs'[c].rest[k] \in lists[tab]
        /\ \A x \in lists[tab] : \E k \in DOMAIN runs'[c].rest : runs'[c].rest[k] = x
    BY <1>3, SyncRun
  <2>4. EntitiesOf(lists[tab]) = RestOf(runs'[c].rest)
    BY <2>3 DEF EntitiesOf, RestOf
  <2>5. CountsOf(runs'[c].results) = {}
    BY <2>3 DEF CountsOf, T!NoResults
  <2>6. lists[tab] \in {{}, AllOf(tab)'}
    BY <1>1, <2>3, AllSame DEF TabInv, ListsWhole
  <2>7. SyncTab(c)'
    BY <1>1, <2>3, <2>4, <2>5, <2>6 DEF SyncTab, T!Mounted
  <2>8. TabRun(c)'
    BY <2>3, <2>7 DEF TabRun
  <2> QED BY <1>1, <1>2, <2>2, <2>3, <2>8, TabStep
<1>4. CASE T!SyncNext(c)
  <2>1. PICK s, a : Moved(c, s, a)
    BY <1>4, NextIs
  <2>2. HostApproved'
    BY <1>1, <1>4, TabKept DEF T!SyncNext
  <2> QED BY <1>1, <1>2, <2>1, <2>2, MovedTab
<1>5. CASE T!UpdateOnHost(c)
  <2>1. Moved(c, "updated", runs[c].answer)
    BY <1>5, ToIs DEF T!UpdateOnHost
  <2>2. HostApproved'
    <3> DEFINE i == runs[c].answer[1]  x == [of |-> host[i].of, name |-> T!Current(c).name, there |-> TRUE]
    <3>1. /\ i \in DOMAIN host /\ host' = [host EXCEPT ![i] = x]
          /\ x \in [of : T!Entities, name : Nat, there : BOOLEAN] /\ x.of = host[i].of
      BY <1>5, UpdateIs
    <3> HIDE DEF x, i
    <3>2. DOMAIN host' = DOMAIN host /\ \A j \in DOMAIN host : host'[j] = IF j = i THEN x ELSE host[j]
      BY <3>1, HostChanges DEF TypeInv
    <3> QED BY <1>1, <3>1, <3>2 DEF TabInv, HostApproved
  <2> QED BY <1>1, <1>2, <2>1, <2>2, MovedTab
<1>6. CASE T!Updated(c)
  <2>1. host' = host
    BY <1>6 DEF T!Updated
  <2> QED BY <1>1, <1>6, <2>1, UpdatingIs, CountedTab
<1>7. CASE T!CreateOnHost(c)
  <2>1. PICK s, a : Moved(c, s, a)
    BY <1>7, MakingIs
  <2>2. HostApproved'
    <3>1. runs[c].op = "sync" /\ runs[c].stage = "create"
      BY <1>7, MakingIs DEF TabInv, TabRun
    <3>2. PICK q : q = T!Current(c)
      OBVIOUS
    <3>3. q \in runs[c].given /\ runs[c].given \in {{}, AllOf(runs[c].of)}
      <4>1. q = runs[c].rest[1] /\ 1 \in DOMAIN runs[c].rest
        BY <3>1, <3>2, CurrentIs DEF TypeInv, ItemStages
      <4>2. SyncTab(c)
        BY <3>1 DEF TabInv, TabRun
      <4> QED BY <4>1, <4>2 DEF SyncTab
    <3>4. q.of \in approved
      <4>1. PICK e \in approved : q = T!Item(e)
        BY <3>3 DEF AllOf
      <4> QED BY <4>1 DEF T!Item
    <3>5. PICK x : x = [of |-> q.of, name |-> q.name, there |-> TRUE] /\ host' = Append(host, x)
      BY <1>7, <3>2, CreateIs
    <3>6. /\ Len(host) \in Nat /\ DOMAIN host = 1 .. Len(host) /\ DOMAIN host' = 1 .. Len(host) + 1
      BY <1>7, CreateIs
    <3>7. host \in Seq([of : T!Entities, name : Nat, there : BOOLEAN]) /\ x \in [of : T!Entities, name : Nat, there : BOOLEAN]
      <4>1. q.of \in T!Entities /\ q.name \in Nat
        BY <3>1, <3>2, CurrentIs DEF ItemStages, TypeInv
      <4> QED BY <3>5, <4>1 DEF TypeInv, DataOK
    <3>8. \A i \in 1 .. Len(host) : Append(host, x)[i] = host[i]
      BY <3>7, AppendProperties
    <3>9. Append(host, x)[Len(host) + 1] = x
      BY <3>7, AppendProperties
    <3>10. ASSUME NEW i \in DOMAIN host' PROVE host'[i].of \in approved
      <4>1. CASE i \in DOMAIN host
        BY <3>5, <3>6, <3>8, <4>1 DEF TabInv, HostApproved
      <4>2. CASE i = Len(host) + 1
        BY <3>4, <3>5, <3>9, <4>2
      <4> QED BY <3>6, <4>1, <4>2
    <3> QED BY <1>1, <3>10 DEF HostApproved
  <2> QED BY <1>1, <1>2, <2>1, <2>2, MovedTab
<1> QED BY <1>3, <1>4, <1>5, <1>6, <1>7

\* The others' steps, before anything is decided.
LEMMA SyncEndTabs ==
  ASSUME TypeInv, TabInv, Calm, ~T!Failing, NEW c \in Callers,
         T!Created(c) \/ T!ItemFails(c) \/ T!SyncReload(c) \/ T!SyncEnds(c) \/ T!SyncFails(c)
  PROVE  TabInv'
<1>1. UNCHANGED <<approved, named, lists, tab, host>>
  BY DEF T!Created, T!ItemFails, T!SyncReload, T!SyncEnds, T!SyncFails, T!Zomes, T!Component
<1>2. CASE T!Created(c)
  <2>1. results' = results
    BY <1>2 DEF T!Created, T!Component
  <2>2. runs[c].op = "sync" /\ CountedAs(c, "created") /\ runs[c].rest # <<>>
    BY <1>2, CreatingIs DEF TabInv, TabRun
  <2> QED BY <1>1, <2>1, <2>2, CountedTab
<1>3. CASE T!ItemFails(c)
  <2>1. results' = results
    BY <1>3 DEF T!ItemFails, T!Component
  <2> QED BY <1>1, <1>3, <2>1, FailingIs, CountedTab
<1>4. CASE T!SyncReload(c)
  <2>1. /\ runs[c].op = "sync" /\ runs[c].rest = <<>> /\ T!To(c, "reload")
        /\ results' = IF T!Mounted(c) THEN runs[c].results ELSE results
    BY <1>4 DEF T!SyncReload, T!At
  <2>2. Moved(c, "reload", runs[c].answer)
    BY <2>1, ToIs
  <2>3. HostApproved'
    BY <1>1 DEF TabInv, HostApproved
  <2>4. \A t : AllOf(t)' = AllOf(t)
    BY <1>1, AllSame
  <2>5. CASE ~T!Mounted(c)
    <3>1. ResultsWhole'
      BY <1>1, <2>1, <2>4, <2>5 DEF TabInv, ResultsWhole
    <3> QED BY <1>1, <2>2, <2>3, <3>1, MovedTab
  <2>6. CASE T!Mounted(c)
    <3>1. SyncTab(c)
      BY <2>1 DEF TabInv, TabRun
    <3>2. PICK t : t = tab
      OBVIOUS
    <3>3. t \in T!Tabs /\ runs[c].given \in {{}, AllOf(t)}
      BY <2>6, <3>1, <3>2 DEF SyncTab
    <3>4. RestOf(runs[c].rest) = {}
      BY <2>1, EmptySeq DEF RestOf
    <3>5. CountsOf(runs[c].results) = EntitiesOf(runs[c].given)
      BY <3>1, <3>4 DEF SyncTab
    <3>6. CountsOf(runs[c].results) # {} => CountsOf(runs[c].results) = EntitiesOf(AllOf(t))
      BY <3>3, <3>5 DEF EntitiesOf
    <3>7. EntitiesOf(AllOf(t)) = (EntitiesOf(AllOf(tab)))'
      BY <1>1, <2>4, <3>2
    <3>8. results' = runs[c].results /\ tab' = t
      BY <1>1, <2>1, <2>6, <3>2
    <3>9. ResultsWhole'
      BY <3>3, <3>6, <3>7, <3>8 DEF ResultsWhole
    <3> QED BY <1>1, <2>2, <2>3, <3>9, MovedTab
  <2> QED BY <2>5, <2>6
<1>5. CASE T!SyncEnds(c)
  <2>1. T!Put(c, T!NoRun) /\ results' = results /\ runs[c].op = "sync"
    BY <1>5 DEF T!SyncEnds, T!SyncOver, T!At
  <2>2. Ended(c)
    BY <2>1, EndIs
  <2>3. HostApproved' /\ ResultsWhole'
    BY <1>1, <2>1, TabKept
  <2>4. TabRun(c)'
    BY <2>2 DEF Ended, TabRun
  <2>5. OneChanges(c) /\ runs[c].op # "load"
    BY <2>1, <2>2 DEF Ended
  <2> QED BY <1>1, <2>3, <2>4, <2>5, TabStep
<1>6. CASE T!SyncFails(c)
  BY <1>6 DEF T!SyncFails
<1> QED BY <1>2, <1>3, <1>4, <1>5, <1>6

LEMMA StillTab ==
  ASSUME TabInv, Calm, UNCHANGED <<approved, named, lists, tab, host, results, runs>>
  PROVE  TabInv'
<1>1. \A t : AllOf(t)' = AllOf(t)
  BY AllSame
<1>2. HostApproved' /\ ResultsWhole'
  BY TabKept
<1>3. ListsWhole' /\ TabLoads'
  BY <1>1 DEF TabInv, ListsWhole, TabLoads
<1>4. ASSUME NEW d \in Callers PROVE TabRun(d)'
  BY <1>1 DEF TabInv, TabRun, SyncTab, T!Mounted
<1> QED BY <1>2, <1>3, <1>4 DEF TabInv

LEMMA NextTab ==
  ASSUME TypeInv, TabInv, [T!Next]_(T!testPageVars)
  PROVE  TabInv'
<1> SUFFICES ASSUME Calm' PROVE TabInv'
  BY DEF TabInv
<1>1. Calm /\ ~T!Failing /\ ~T!OthersAct /\ UNCHANGED decisions
  BY CalmBefore
<1>2. ASSUME NEW c \in Callers, NEW t \in T!Tabs, T!Open(c, t) PROVE TabInv'
  BY <1>1, <1>2, OpenTab
<1>3. ASSUME NEW c \in Callers,
             T!Refresh(c) \/ T!LoadAgents(c) \/ T!FetchSpecs(c) \/ T!SpecsFetched(c) \/ T!LoadFails(c) \/ T!LoadList(c)
      PROVE  TabInv'
  BY <1>1, <1>3, LoadTab, LoadListTab
<1>4. ASSUME NEW c \in Callers,
             \/ T!ManualSync(c) \/ T!SyncNext(c) \/ T!UpdateOnHost(c) \/ T!Updated(c) \/ T!CreateOnHost(c)
             \/ T!Created(c) \/ T!ItemFails(c) \/ T!SyncReload(c) \/ T!SyncEnds(c) \/ T!SyncFails(c)
      PROVE  TabInv'
  BY <1>1, <1>4, SyncTabs, SyncEndTabs
<1>5. ASSUME NEW c \in Callers, NEW e \in T!Entities, NEW s \in {"approved", "rejected"}, T!Decide(c, e, s) PROVE TabInv'
  <2>1. decisions \in Nat /\ decisions' = decisions + 1
    BY <1>5 DEF T!Decide, TypeInv, FlagsOK
  <2> QED BY <1>1, <2>1
<1>6. ASSUME NEW c \in Callers, T!Decided(c) \/ T!DeleteOnHost(c) \/ T!Deleted(c) \/ T!DecisionFails(c) PROVE TabInv'
  <2>1. runs[c].op = "decide"
    BY <1>6 DEF T!Decided, T!DeleteOnHost, T!Deleted, T!DecisionFails, T!At
  <2> QED BY <1>1, <2>1 DEF TabInv, TabRun
<1>7. CASE T!Leave
  BY <1>1, <1>7, LeaveTab
<1>8. CASE T!CloseError \/ UNCHANGED T!testPageVars
  <2>1. UNCHANGED <<approved, named, lists, tab, host, results, runs>>
    BY <1>8 DEF T!CloseError, T!testPageVars, T!Zomes
  <2> QED BY <1>1, <2>1, StillTab
<1> QED BY <1>1, <1>2, <1>3, <1>4, <1>5, <1>6, <1>7, <1>8 DEF T!Next

-----------------------------------------------------------------------------
(* The start. *)

LEMMA InitHost ==
  ASSUME T!HreaTestPageAssumption, T!Init
  PROVE  /\ \A i \in DOMAIN host : host[i].of \in approved
         /\ \A i, j \in DOMAIN host : host[i].of = host[j].of => i = j
<1>1. PICK atStart \in SUBSET approved :
        host = [n \in 1 .. Cardinality(atStart) |-> [of |-> T!SetToSeq(atStart)[n], name |-> 1, there |-> TRUE]]
  BY TFinite DEF T!Init
<1>2. IsFiniteSet(atStart)
  <2>1. IsFiniteSet(T!Entities)
    BY FS_Union, TFinite DEF T!HreaTestPageAssumption, T!Entities
  <2> QED BY <2>1, FS_Subset DEF T!Init
<1> DEFINE a == T!SetToSeq(atStart)  m == Cardinality(atStart)
<1>3. a \in [1 .. m -> atStart] /\ m \in Nat
  BY <1>2, SetToSeqLen, FS_CardinalityType
<1>4. \A j, k \in DOMAIN a : a[j] = a[k] => j = k
  BY <1>2, MembersOf
<1> HIDE DEF a, m
<1>5. host = [n \in 1 .. m |-> [of |-> a[n], name |-> 1, there |-> TRUE]]
  BY <1>1 DEF a, m
<1>6. DOMAIN host = 1 .. m /\ \A n \in 1 .. m : host[n].of = a[n]
  BY <1>5
<1>7. ASSUME NEW i \in DOMAIN host PROVE host[i].of \in approved
  BY <1>3, <1>6, <1>7
<1>8. ASSUME NEW i \in DOMAIN host, NEW j \in DOMAIN host, host[i].of = host[j].of PROVE i = j
  BY <1>3, <1>4, <1>6, <1>8
<1> QED BY <1>7, <1>8

\* There is no run at the start.
LEMMA InitRuns ==
  ASSUME T!Init, NEW c \in Callers
  PROVE  runs[c].op = "none" /\ runs[c].stage = "none" /\ runs[c].rest = <<>>
BY NoCallIs DEF T!Init

LEMMA InitInv == T!HreaTestPageAssumption /\ T!Init => ListsInv /\ WaitsInv /\ NoneTwiceInv /\ SyncedInv /\ TabInv
<1> SUFFICES ASSUME T!HreaTestPageAssumption, T!Init PROVE ListsInv /\ WaitsInv /\ NoneTwiceInv /\ SyncedInv /\ TabInv
  OBVIOUS
<1>1. ListsInv
  BY DEF T!Init, ListsInv
<1>2. WaitsInv
  BY InitRuns DEF WaitsInv, BusyRun
<1>3. SyncedInv
  BY InitRuns DEF SyncedInv, Spoken
<1>4. ItemsInv
  <2>1. \A t \in T!Tabs : Fresh(lists[t])
    BY DEF T!Init, Fresh
  <2>2. \A c \in Callers : DOMAIN runs[c].rest = {}
    BY InitRuns, EmptySeq
  <2> QED BY <2>1, <2>2 DEF ItemsInv
<1>5. FetchedInv
  BY InitRuns DEF FetchedInv
<1>6. OnceInv
  <2>1. ~whole
    BY DEF T!Init
  <2>2. \A c \in Callers : ~MakingOne(c) /\ runs[c].stage \notin {"create", "deleted"}
    BY InitRuns DEF MakingOne, T!At
  <2> QED BY <2>1, <2>2, InitHost DEF OnceInv
<1>7. HostApproved
  BY InitHost DEF HostApproved
<1>8. ListsWhole /\ TabLoads /\ ResultsWhole
  BY DEF T!Init, ListsWhole, TabLoads, ResultsWhole, T!NoResults, CountsOf, T!Tabs
<1>9. \A c \in Callers : TabRun(c)
  BY InitRuns DEF TabRun
<1> QED BY <1>1, <1>2, <1>3, <1>4, <1>5, <1>6, <1>7, <1>8, <1>9 DEF NoneTwiceInv, TabInv

-----------------------------------------------------------------------------
(* The theorems. *)

TestPageInv == TypeInv /\ ListsInv /\ TabInv /\ (Waits => WaitsInv /\ NoneTwiceInv /\ SyncedInv)

LEMMA IInvHolds == T!HreaTestPageAssumption /\ T!Spec => []TestPageInv
<1> SUFFICES ASSUME T!HreaTestPageAssumption PROVE T!Spec => []TestPageInv
  OBVIOUS
<1>1. T!Init => TestPageInv
  BY InitTypes, InitInv DEF TestPageInv
<1>2. TestPageInv /\ [T!Next]_(T!testPageVars) => TestPageInv'
  <2> SUFFICES ASSUME TestPageInv, [T!Next]_(T!testPageVars) PROVE TestPageInv'
    OBVIOUS
  <2>1. TypeInv' /\ ListsInv' /\ TabInv'
    BY NextTypes, NextLists, NextTab DEF TestPageInv
  <2>2. ASSUME Waits PROVE WaitsInv' /\ NoneTwiceInv' /\ SyncedInv'
    BY <2>2, NextWaits, NextTwice, NextSyncedInv DEF TestPageInv
  <2> QED BY <2>1, <2>2 DEF TestPageInv
<1> QED BY <1>1, <1>2, PTL DEF T!Spec

\* The types hold: what the tabs, the calls and the store hold is of the things
\* there are (ResourceSpecManager.svelte, hrea.store.svelte.ts).
THEOREM TestPageTypes == T!HreaTestPageAssumption /\ T!Spec => []T!TypeOK
<1>1. TypeInv => T!TypeOK
  <2> SUFFICES ASSUME TypeInv PROVE T!TypeOK
    OBVIOUS
  <2>1. \A i \in DOMAIN host : host[i].of \in T!Entities /\ T!There(i) \in BOOLEAN
    BY SpecificationsAre DEF TypeInv, T!There
  <2>2. \A n \in DOMAIN specs : specs[n].id \in DOMAIN host
    BY SpecificationsAre DEF TypeInv
  <2>3. \A t \in T!Tabs : \A r \in lists[t] : r.of \in T!Entities
    BY DEF TypeInv, DataOK, ListOK, Items
  <2>4. results.created \cup results.updated \cup results.errors \subseteq T!Entities
    BY DEF TypeInv, FlagsOK, ResultSets
  <2> QED BY <2>1, <2>2, <2>3, <2>4 DEF TypeInv, DataOK, FlagsOK, T!TypeOK
<1> QED BY <1>1, TypesHold, PTL

\* A person who waits makes no second specification of a service type, however
\* often they synchronise and whatever fails, while the store holds all there is
\* (ResourceSpecManager.svelte:372-396, hrea.store.svelte.ts:954-968).
THEOREM NoneIsMadeTwice == T!HreaTestPageAssumption /\ Waits /\ T!Spec => []T!NoneTwice
<1> SUFFICES ASSUME T!HreaTestPageAssumption, Waits PROVE T!Spec => []T!NoneTwice
  OBVIOUS
<1>1. TestPageInv => T!NoneTwice
  <2> SUFFICES ASSUME TestPageInv, ~doubtful, others = 0, NEW e \in Types
      PROVE  Cardinality({i \in DOMAIN host : T!There(i) /\ host[i].of = e}) <= 1
    BY TFinite DEF T!NoneTwice
  <2> DEFINE S == {i \in DOMAIN host : T!There(i) /\ host[i].of = e}
  <2>1. OnceInv
    BY DEF TestPageInv, NoneTwiceInv
  <2>2. \A i, j \in S : i = j
    BY <2>1 DEF OnceInv
  <2> HIDE DEF S
  <2>3. CASE S = {}
    BY <2>3, FS_EmptySet DEF S
  <2>4. ASSUME NEW x \in S PROVE Cardinality(S) <= 1
    <3>1. S = {x}
      BY <2>2, <2>4
    <3>2. Cardinality({x}) = 1
      BY FS_Singleton
    <3> QED BY <3>1, <3>2
  <2>5. Cardinality(S) <= 1
    <3>1. CASE S = {}
      <4>1. Cardinality(S) = 0
        BY <3>1, FS_EmptySet
      <4> QED BY <4>1
    <3>2. CASE S # {}
      BY <2>4, <3>2
    <3> QED BY <3>1, <3>2
  <2> QED BY <2>5 DEF S
<1> QED BY <1>1, IInvHolds, PTL

\* A synchronisation that says it had no errors leaves in the page, to a person who
\* waits, for every service type it was given, a specification with a name it was
\* given for it, unless a decision came in meanwhile (ResourceSpecManager.svelte:221-268,
\* hrea.store.svelte.ts:1544-1571).
THEOREM SynchronisedIsThere == T!HreaTestPageAssumption /\ Waits /\ T!Spec => [][T!SyncedIsThere]_(T!testPageVars)
<1> SUFFICES ASSUME T!HreaTestPageAssumption, Waits PROVE T!Spec => [][T!SyncedIsThere]_(T!testPageVars)
  OBVIOUS
<1>1. TestPageInv => T!SyncedIsThere
  <2> SUFFICES ASSUME TestPageInv, NEW c \in Callers, T!SyncEnds(c), runs[c].of = "types", runs[c].alone,
                      runs[c].results.errors = {}, NEW r \in runs[c].given
      PROVE  \E n \in DOMAIN specs' : /\ host[specs'[n].id].of = r.of
                                      /\ [of |-> r.of, name |-> specs'[n].name] \in runs[c].given
    BY DEF T!SyncedIsThere
  <2>1. runs[c].op = "sync" /\ runs[c].stage = "fetched" /\ specs' = runs[c].answer
    BY DEF T!SyncEnds, T!At
  <2>2. SyncOK(c)
    BY <2>1 DEF TestPageInv, SyncedInv, Spoken
  <2>3. DOMAIN runs[c].rest = {}
    BY <2>1, <2>2, EmptySeq DEF SyncOK
  <2>4. r.of \in runs[c].results.created \cup runs[c].results.updated
    BY <2>2, <2>3 DEF SyncOK
  <2>5. PICK i \in DOMAIN host : Named(i, r.of, runs[c].given)
    BY <2>2, <2>4 DEF SyncOK
  <2>6. PICK n \in DOMAIN runs[c].answer : runs[c].answer[n] = [id |-> i, name |-> host[i].name]
    BY <2>1, <2>2, <2>5 DEF SyncOK, Named
  <2>7. n \in DOMAIN specs' /\ specs'[n].id = i /\ specs'[n].name = host[i].name
    BY <2>1, <2>6
  <2> QED BY <2>5, <2>7 DEF Named
<1> QED BY <1>1, IInvHolds, PTL

\* Before anything fails or is decided, each specification of the tab is that of
\* something approved, and a synchronisation without errors has gone through all
\* that is (ResourceSpecManager.svelte:36-38, 318-325, 442-520).
THEOREM TheTabTells == T!HreaTestPageAssumption /\ T!Spec => []T!TabTells
<1> SUFFICES ASSUME T!HreaTestPageAssumption PROVE T!Spec => []T!TabTells
  OBVIOUS
<1>1. TestPageInv => T!TabTells
  <2> SUFFICES ASSUME TestPageInv, tab \in T!Tabs, others = 0, decisions = 0, failures = 0, \A c \in Callers : T!Idle(c)
      PROVE  /\ \A n \in T!Shown : T!SaysFound(n)
             /\ (T!Totals # T!NoResults /\ T!Totals.errors = {}) =>
                  T!Totals.created \cup T!Totals.updated = {r.of : r \in lists[tab]}
    BY DEF T!TabTells
  <2>1. HostApproved /\ TabLoads /\ ResultsWhole
    BY DEF TestPageInv, TabInv, Calm
  <2>2. \A c \in Callers : runs[c].op = "none"
    BY MarkedOK DEF TestPageInv, TypeInv
  <2>3. lists[tab] = AllOf(tab)
    BY <2>1, <2>2 DEF TabLoads
  <2>4. ASSUME NEW n \in T!Shown PROVE T!SaysFound(n)
    <3>1. PICK e : e = host[specs[n].id].of
      OBVIOUS
    <3>2. n \in DOMAIN specs /\ e \in T!Entities /\ T!TabOf(e) = tab
      BY <2>4, <3>1 DEF T!Shown, T!ShownOf, T!TypesShown, T!MediumsShown, T!TabOf, T!Entities, T!HreaTestPageAssumption
    <3>3. e \in approved
      BY <2>1, <3>1, <3>2, SpecificationsAre DEF HostApproved, TestPageInv, TypeInv
    <3>4. T!Item(e) \in lists[tab] /\ T!Item(e).of = e
      BY <2>3, <3>2, <3>3 DEF AllOf, T!Item
    <3> QED BY <3>1, <3>4 DEF T!SaysFound
  <2>5. ASSUME T!Totals # T!NoResults, T!Totals.errors = {} PROVE T!Totals.created \cup T!Totals.updated = {r.of : r \in lists[tab]}
    <3>1. T!Totals = results /\ results.created \cup results.updated # {}
      BY <2>5 DEF T!Totals
    <3>2. CountsOf(results) = results.created \cup results.updated
      BY <2>5, <3>1 DEF CountsOf
    <3>3. CountsOf(results) = EntitiesOf(AllOf(tab))
      BY <2>1, <3>1, <3>2 DEF ResultsWhole
    <3>4. CountsOf(results) = {r.of : r \in lists[tab]}
      BY <2>3, <3>3 DEF EntitiesOf
    <3> QED BY <3>1, <3>2, <3>4
  <2> QED BY <2>4, <2>5
<1> QED BY <1>1, IInvHolds, PTL
=============================================================================
