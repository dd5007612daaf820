------------------------------ MODULE StoresProofs ------------------------------
(***************************************************************************)
(* The stores of the UI, each with the zome behind it, for any number of   *)
(* records, of users' calls and of calls by others.                        *)
(*                                                                         *)
(* Mediums: however calls overlap, fail and come back late, a medium is    *)
(* shown under one status, once, and the tables agree on it.  Service      *)
(* types, as the instance T: all types names each once.  Listings, as the  *)
(* instance L: no array repeats a record, and what a search found is among *)
(* all listings.  And to a user who waits for each call, what it deleted,  *)
(* or archived, does not come back, whatever others do and whatever fails. *)
(*                                                                         *)
(* The pages that share the arrays of requests and offers, as the instance *)
(* G: what is under the tab of archived listings was archived, and to a    *)
(* user who waits for each page a page that has loaded shows its own.      *)
(*                                                                         *)
(* The arrays are sequences and several are changed one entity after the   *)
(* other, so the proofs go by what is in a sequence, once or not, and what *)
(* is said of a fold is shown for its length by the least counterexample.  *)
(***************************************************************************)
EXTENDS MediumsStore, FiniteSetTheorems, SequenceTheorems, TLAPS

CONSTANTS
  MaxUpdates, MaxListed,           \* of ServiceTypesStore
  Kind, Groups, MaxEdits,          \* of ListingStore
  Kinds, Listings, KindOf, Owner, me, Admin, Runs, Waits, MaxChanges, MaxFailures   \* of ListingTabs

VARIABLES
  cache,                           \* of ServiceTypesStore and of ListingStore
  lookups,                         \* of ServiceTypesStore
  shelved, edits, page, removed,   \* of ListingStore
  status, store, shown, failed, runs, failures   \* of ListingTabs, with page and loading

T == INSTANCE ServiceTypesStore
L == INSTANCE ListingStore
G == INSTANCE ListingTabs

-----------------------------------------------------------------------------
(* Numbers. *)

\* A set of naturals that is not empty has a smallest one.
LEMMA Smallest ==
  ASSUME NEW S, S \subseteq Nat, S # {}
  PROVE  \E i \in S : \A j \in S : i <= j
<1> DEFINE R == OpToRel(<, Nat)
<1>1. IsWellFoundedOn(R, Nat)
  BY NatLessThanWellFounded, Zenon
<1>2. PICK k \in S : \A j \in S : <<j, k>> \notin R
  <2> HIDE DEF R
  <2> QED BY <1>1, WFMin
<1>3. \A j \in S : ~(j < k)
  BY <1>2 DEF OpToRel
<1>4. \A i, j \in Nat : ~(j < i) => i <= j
  OBVIOUS
<1> QED BY <1>3, <1>4

\* What holds of 0, and of each number up to n after the one before it, holds of
\* them all.
LEMMA UpTo ==
  ASSUME NEW n \in Nat, NEW Ns, 0 \in Ns, \A i \in 1 .. n : i - 1 \in Ns => i \in Ns
  PROVE  \A i \in 0 .. n : i \in Ns
<1> DEFINE S == {i \in 0 .. n : i \notin Ns}
<1> SUFFICES ASSUME S # {} PROVE FALSE
  OBVIOUS
<1>0. S \subseteq Nat
  OBVIOUS
<1>1. PICK i \in S : \A j \in S : i <= j
  <2> HIDE DEF S
  <2> QED BY <1>0, Smallest
<1>2. i \in 1 .. n /\ i - 1 \in 0 .. n /\ i - 1 \notin S
  BY <1>1
<1> QED BY <1>1, <1>2

-----------------------------------------------------------------------------
(* The arrays. *)

\* No two entries have the same hash.
Once(a) == \A i, j \in DOMAIN a : a[i].hash = a[j].hash => i = j

HashesOf(a) == {e.hash : e \in ToSet(a)}

\* The members of a sequence.
LEMMA Members ==
  ASSUME NEW S, NEW a \in Seq(S)
  PROVE  /\ Len(a) \in Nat
         /\ DOMAIN a = 1 .. Len(a)
         /\ \A i \in 1 .. Len(a) : a[i] \in S /\ a[i] \in ToSet(a)
         /\ \A e \in ToSet(a) : e \in S /\ \E i \in 1 .. Len(a) : a[i] = e
         /\ \A e : e \in ToSet(a) <=> \E i \in 1 .. Len(a) : a[i] = e
BY LenProperties, ElementOfSeq DEF ToSet

LEMMA IndexIs ==
  ASSUME NEW S, NEW a \in Seq(S), NEW h
  PROVE  /\ Index(a, h) \in 0 .. Len(a)
         /\ Index(a, h) # 0 => Index(a, h) \in 1 .. Len(a) /\ a[Index(a, h)].hash = h
         /\ Index(a, h) = 0 <=> \A i \in 1 .. Len(a) : a[i].hash # h
<1> DEFINE I == {i \in 1 .. Len(a) : a[i].hash = h}
<1>0. Len(a) \in Nat
  BY LenProperties
<1>1. Index(a, h) = IF I # {} THEN Min(I) ELSE 0
  BY DEF Index, SelectInSeq
<1>2. I # {} => Min(I) \in I
  <2> SUFFICES ASSUME I # {} PROVE Min(I) \in I
    OBVIOUS
  <2>1. I \subseteq Nat
    OBVIOUS
  <2>2. \E i \in I : \A j \in I : i <= j
    <3> HIDE DEF I
    <3> QED BY <2>1, Smallest
  <2> HIDE DEF I
  <2> QED BY <2>2 DEF Min
<1> QED BY <1>0, <1>1, <1>2

LEMMA ListsIs ==
  ASSUME NEW S, NEW a \in Seq(S), NEW h
  PROVE  Lists(a, h) <=> h \in HashesOf(a)
BY IndexIs, Members DEF Lists, HashesOf

\* What is left of a sequence without its entry k.
LEMMA RemoveAtIs ==
  ASSUME NEW S, NEW a \in Seq(S), NEW k \in 1 .. Len(a)
  PROVE  /\ RemoveAt(a, k) \in Seq(S)
         /\ Len(RemoveAt(a, k)) = Len(a) - 1
         /\ \A i \in 1 .. Len(a) - 1 : RemoveAt(a, k)[i] = IF i < k THEN a[i] ELSE a[i + 1]
<1> DEFINE front == SubSeq(a, 1, k - 1)
           back == SubSeq(a, k + 1, Len(a))
<1>0. Len(a) \in Nat
  BY LenProperties
<1>1. /\ front \in Seq(S) /\ Len(front) = k - 1
      /\ \A i \in 1 .. k - 1 : front[i] = a[i]
  <2>1. \A i \in 1 .. k - 1 : a[i] \in S
    BY <1>0, ElementOfSeq
  <2>2. 1 \in Int /\ k - 1 \in Int
    BY <1>0
  <2> QED BY <1>0, <2>1, <2>2, SubSeqProperties
<1>2. /\ back \in Seq(S) /\ Len(back) = Len(a) - k
      /\ \A i \in 1 .. Len(a) - k : back[i] = a[k + i]
  <2>1. \A i \in k + 1 .. Len(a) : a[i] \in S
    BY <1>0, ElementOfSeq
  <2>2. k + 1 \in Int /\ Len(a) \in Int
    BY <1>0
  <2> QED BY <1>0, <2>1, <2>2, SubSeqProperties
<1>3. RemoveAt(a, k) = front \o back
  BY DEF RemoveAt
<1> HIDE DEF front, back
<1>4. /\ front \o back \in Seq(S)
      /\ Len(front \o back) = Len(front) + Len(back)
      /\ \A i \in 1 .. Len(front) + Len(back) :
           (front \o back)[i] = IF i <= Len(front) THEN front[i] ELSE back[i - Len(front)]
  BY <1>1, <1>2, ConcatProperties
<1>5. Len(front) + Len(back) = Len(a) - 1
  BY <1>0, <1>1, <1>2
<1>6. ASSUME NEW i \in 1 .. Len(a) - 1
      PROVE  (front \o back)[i] = IF i < k THEN a[i] ELSE a[i + 1]
  <2>1. CASE i < k
    <3>1. i <= Len(front) /\ i \in 1 .. k - 1
      BY <1>0, <1>1, <2>1
    <3> QED BY <1>1, <1>4, <1>5, <2>1, <3>1
  <2>2. CASE ~(i < k)
    <3>1. ~(i <= Len(front)) /\ i - Len(front) \in 1 .. Len(a) - k /\ k + (i - Len(front)) = i + 1
      BY <1>0, <1>1, <2>2
    <3> QED BY <1>2, <1>4, <1>5, <2>2, <3>1
  <2> QED BY <2>1, <2>2
<1> QED BY <1>3, <1>4, <1>5, <1>6

\* Without what is not there, or without its first entry.
LEMMA WithoutIs ==
  ASSUME NEW S, NEW a \in Seq(S), NEW h
  PROVE  /\ Index(a, h) = 0 => Without(a, h) = a
         /\ Index(a, h) # 0 => Without(a, h) = RemoveAt(a, Index(a, h))
<1>1. Without(a, h) = IF \E i \in 1 .. Len(a) : a[i].hash = h THEN RemoveAt(a, Index(a, h)) ELSE a
  BY DEF Without, Index, RemoveFirstMatch
<1> QED BY <1>1, IndexIs

\* The entries of another hash stay, and nothing else comes.
LEMMA WithoutKeeps ==
  ASSUME NEW S, NEW a \in Seq(S), NEW h
  PROVE  /\ Without(a, h) \in Seq(S)
         /\ ToSet(Without(a, h)) \subseteq ToSet(a)
         /\ \A e \in ToSet(a) : e.hash # h => e \in ToSet(Without(a, h))
<1>1. CASE Index(a, h) = 0
  BY <1>1, WithoutIs
<1>2. CASE Index(a, h) # 0
  <2> DEFINE k == Index(a, h)
             w == RemoveAt(a, k)
  <2>1. k \in 1 .. Len(a) /\ a[k].hash = h /\ Without(a, h) = w /\ Len(a) \in Nat
    BY <1>2, IndexIs, WithoutIs, LenProperties
  <2> HIDE DEF k
  <2>2. /\ w \in Seq(S) /\ Len(w) = Len(a) - 1
        /\ \A i \in 1 .. Len(a) - 1 : w[i] = IF i < k THEN a[i] ELSE a[i + 1]
    BY <2>1, RemoveAtIs
  <2> HIDE DEF w
  <2>3. ASSUME NEW e \in ToSet(w) PROVE e \in ToSet(a)
    <3>0. w \in Seq(S)
      BY <2>2
    <3>1. PICK i \in 1 .. Len(w) : w[i] = e
      BY <3>0, Members
    <3>2. i \in 1 .. Len(a) /\ i + 1 \in 1 .. Len(a) /\ i \in 1 .. Len(a) - 1
      BY <2>1, <2>2
    <3> QED BY <2>2, <3>1, <3>2, Members
  <2>4. ASSUME NEW e \in ToSet(a), e.hash # h PROVE e \in ToSet(w)
    <3>1. PICK i \in 1 .. Len(a) : a[i] = e
      BY Members
    <3>2. i # k
      BY <2>1, <2>4, <3>1
    <3>3. CASE i < k
      <4>1. i \in 1 .. Len(w) /\ w[i] = e
        BY <2>1, <2>2, <3>1, <3>3
      <4> QED BY <2>2, <4>1, Members
    <3>4. CASE i > k
      <4>1. i - 1 \in 1 .. Len(w) /\ i - 1 \in 1 .. Len(a) - 1 /\ ~(i - 1 < k) /\ (i - 1) + 1 = i
        BY <2>1, <2>2, <3>4
      <4>2. w[i - 1] = e
        BY <2>2, <3>1, <4>1
      <4> QED BY <2>2, <4>1, <4>2, Members
    <3> QED BY <2>1, <3>2, <3>3, <3>4
  <2> QED BY <2>1, <2>2, <2>3, <2>4
<1> QED BY <1>1, <1>2

\* Of an array that shows each hash once, nothing of the hash stays.
LEMMA WithoutOnce ==
  ASSUME NEW S, NEW a \in Seq(S), NEW h, Once(a)
  PROVE  /\ Once(Without(a, h))
         /\ ToSet(Without(a, h)) = {e \in ToSet(a) : e.hash # h}
<1>0. /\ Len(a) \in Nat /\ DOMAIN a = 1 .. Len(a)
      /\ \A i, j \in 1 .. Len(a) : a[i].hash = a[j].hash => i = j
  BY LenProperties DEF Once
<1>1. CASE Index(a, h) = 0
  <2>1. Without(a, h) = a /\ \A i \in 1 .. Len(a) : a[i].hash # h
    BY <1>1, WithoutIs, IndexIs
  <2>2. \A e \in ToSet(a) : e.hash # h
    BY <2>1, Members
  <2> QED BY <2>1, <2>2
<1>2. CASE Index(a, h) # 0
  <2> DEFINE k == Index(a, h)
             w == RemoveAt(a, k)
  <2>1. k \in 1 .. Len(a) /\ a[k].hash = h /\ Without(a, h) = w
    BY <1>2, IndexIs, WithoutIs
  <2> HIDE DEF k
  <2>2. /\ w \in Seq(S) /\ Len(w) = Len(a) - 1 /\ DOMAIN w = 1 .. Len(a) - 1
        /\ \A i \in 1 .. Len(a) - 1 : w[i] = IF i < k THEN a[i] ELSE a[i + 1]
    <3>1. /\ w \in Seq(S) /\ Len(w) = Len(a) - 1
          /\ \A i \in 1 .. Len(a) - 1 : w[i] = IF i < k THEN a[i] ELSE a[i + 1]
      BY <2>1, RemoveAtIs
    <3> HIDE DEF w
    <3> QED BY <3>1, LenProperties
  <2> HIDE DEF w
  <2>3. ASSUME NEW i \in 1 .. Len(a) - 1
        PROVE  \E m \in 1 .. Len(a) : w[i] = a[m] /\ m # k /\ m = (IF i < k THEN i ELSE i + 1)
    <3>1. CASE i < k
      BY <1>0, <2>1, <2>2, <3>1
    <3>2. CASE ~(i < k)
      <4>1. i + 1 \in 1 .. Len(a) /\ i + 1 # k
        BY <1>0, <2>1, <3>2
      <4> QED BY <2>2, <3>2, <4>1
    <3> QED BY <3>1, <3>2
  <2>4. ASSUME NEW i \in DOMAIN w, NEW j \in DOMAIN w, w[i].hash = w[j].hash PROVE i = j
    <3>1. PICK m \in 1 .. Len(a) : w[i] = a[m] /\ m = (IF i < k THEN i ELSE i + 1)
      BY <2>2, <2>3
    <3>2. PICK n \in 1 .. Len(a) : w[j] = a[n] /\ n = (IF j < k THEN j ELSE j + 1)
      BY <2>2, <2>3
    <3>3. m = n
      BY <1>0, <2>4, <3>1, <3>2
    <3>4. i \in Nat /\ j \in Nat /\ k \in Nat
      BY <1>0, <2>1, <2>2
    <3> HIDE DEF k
    <3> QED BY <3>1, <3>2, <3>3, <3>4
  <2>5. ASSUME NEW e \in ToSet(w) PROVE e.hash # h
    <3>0. w \in Seq(S)
      BY <2>2
    <3>1. PICK i \in 1 .. Len(w) : w[i] = e
      BY <3>0, Members
    <3>2. PICK m \in 1 .. Len(a) : w[i] = a[m] /\ m # k
      BY <2>2, <2>3, <3>1
    <3> QED BY <1>0, <2>1, <3>1, <3>2
  <2>6. Once(w)
    BY <2>4 DEF Once
  <2>7. /\ ToSet(w) \subseteq ToSet(a)
        /\ \A e \in ToSet(a) : e.hash # h => e \in ToSet(w)
    BY <2>1, WithoutKeeps
  <2> QED BY <2>1, <2>5, <2>6, <2>7
<1> QED BY <1>1, <1>2

\* An entity that is put among others takes the place of those with its hash.
LEMMA PutIs ==
  ASSUME NEW S, NEW a \in Seq(S), NEW e \in S, Once(a)
  PROVE  /\ Put(a, e) \in Seq(S)
         /\ Once(Put(a, e))
         /\ ToSet(Put(a, e)) = {x \in ToSet(a) : x.hash # e.hash} \cup {e}
<1> DEFINE k == Index(a, e.hash)
<1>0. /\ Len(a) \in Nat /\ DOMAIN a = 1 .. Len(a)
      /\ \A i, j \in 1 .. Len(a) : a[i].hash = a[j].hash => i = j
  BY LenProperties DEF Once
<1>1. CASE k = 0
  <2> DEFINE p == Append(a, e)
  <2>1. Put(a, e) = p /\ \A i \in 1 .. Len(a) : a[i].hash # e.hash
    BY <1>1, IndexIs DEF Put, Lists
  <2>2. /\ p \in Seq(S) /\ Len(p) = Len(a) + 1 /\ DOMAIN p = 1 .. Len(a) + 1
        /\ \A i \in 1 .. Len(a) : p[i] = a[i]
        /\ p[Len(a) + 1] = e
    <3>1. /\ p \in Seq(S) /\ Len(p) = Len(a) + 1
          /\ \A i \in 1 .. Len(a) : p[i] = a[i]
          /\ p[Len(a) + 1] = e
      BY AppendProperties
    <3> HIDE DEF p
    <3> QED BY <3>1, LenProperties
  <2> HIDE DEF p
  <2>3. Once(p)
    <3> SUFFICES ASSUME NEW i \in 1 .. Len(a) + 1, NEW j \in 1 .. Len(a) + 1, p[i].hash = p[j].hash
                 PROVE  i = j
      BY <2>2 DEF Once
    <3>1. CASE i \in 1 .. Len(a) /\ j \in 1 .. Len(a)
      BY <1>0, <2>2, <3>1
    <3>2. CASE i = Len(a) + 1 /\ j \in 1 .. Len(a)
      BY <2>1, <2>2, <3>2
    <3>3. CASE j = Len(a) + 1 /\ i \in 1 .. Len(a)
      BY <2>1, <2>2, <3>3
    <3> QED BY <1>0, <3>1, <3>2, <3>3
  <2>4. ASSUME NEW x \in ToSet(p) PROVE x = e \/ (x \in ToSet(a) /\ x.hash # e.hash)
    <3>1. PICK i \in 1 .. Len(a) + 1 : p[i] = x
      BY <2>2, Members
    <3>2. CASE i \in 1 .. Len(a)
      BY <2>1, <2>2, <3>1, <3>2, Members
    <3>3. CASE i = Len(a) + 1
      BY <2>2, <3>1, <3>3
    <3> QED BY <1>0, <3>2, <3>3
  <2>5. ASSUME NEW x \in ToSet(a) PROVE x \in ToSet(p)
    <3>1. PICK i \in 1 .. Len(a) : a[i] = x
      BY Members
    <3>2. i \in 1 .. Len(p) /\ p[i] = x
      BY <1>0, <2>2, <3>1
    <3> QED BY <2>2, <3>2, Members
  <2>6. e \in ToSet(p)
    <3>1. Len(a) + 1 \in 1 .. Len(p)
      BY <1>0, <2>2
    <3> QED BY <2>2, <3>1, Members
  <2> QED BY <2>1, <2>2, <2>3, <2>4, <2>5, <2>6
<1>2. CASE k # 0
  <2> DEFINE p == [a EXCEPT ![k] = e]
  <2>1. k \in 1 .. Len(a) /\ a[k].hash = e.hash /\ Put(a, e) = p
    BY <1>2, IndexIs DEF Put, Lists, ReplaceAt
  <2> HIDE DEF k
  <2>2. /\ p \in Seq(S) /\ Len(p) = Len(a) /\ DOMAIN p = 1 .. Len(a)
        /\ \A j \in 1 .. Len(a) : p[j] = IF j = k THEN e ELSE a[j]
    <3>1. /\ p \in Seq(S) /\ Len(p) = Len(a)
          /\ \A j \in 1 .. Len(a) : p[j] = IF j = k THEN e ELSE a[j]
      BY <2>1, ExceptSeq
    <3> HIDE DEF p
    <3> QED BY <3>1, LenProperties
  <2> HIDE DEF p
  <2>3. \A j \in 1 .. Len(a) : p[j].hash = a[j].hash
    BY <2>1, <2>2
  <2>4. Once(p)
    BY <1>0, <2>2, <2>3 DEF Once
  <2>5. ASSUME NEW x \in ToSet(p) PROVE x = e \/ (x \in ToSet(a) /\ x.hash # e.hash)
    <3>1. PICK i \in 1 .. Len(a) : p[i] = x
      BY <2>2, Members
    <3>2. i # k => a[i].hash # e.hash
      BY <1>0, <2>1
    <3> QED BY <2>2, <3>1, <3>2, Members
  <2>6. ASSUME NEW x \in ToSet(a), x.hash # e.hash PROVE x \in ToSet(p)
    <3>1. PICK i \in 1 .. Len(a) : a[i] = x
      BY Members
    <3>2. p[i] = x
      BY <2>1, <2>2, <2>6, <3>1
    <3> QED BY <2>2, <3>2, Members
  <2>7. e \in ToSet(p)
    <3>1. p[k] = e
      BY <2>1, <2>2
    <3> QED BY <2>1, <2>2, <3>1, Members
  <2> QED BY <2>1, <2>2, <2>4, <2>5, <2>6, <2>7
<1> QED BY <1>1, <1>2

-----------------------------------------------------------------------------
(* The arrays of a store together. *)

\* The arrays ns, of entities of S, each without repetition.
Tidy(arrs, ns, S) ==
  /\ DOMAIN arrs = ns
  /\ \A n \in ns : arrs[n] \in Seq(S) /\ Once(arrs[n])

\* The arrays to show what arrs do of other hashes, and e where its status says.
Added(to, arrs, e, ns) ==
  \A n \in ns :
    ToSet(to[n]) = {x \in ToSet(arrs[n]) : x.hash # e.hash}
                   \cup (IF n \in {"all", e.status} THEN {e} ELSE {})

LEMMA SyncAddIs ==
  ASSUME NEW ns, NEW S, NEW arrs, Tidy(arrs, ns, S), NEW e \in S
  PROVE  Tidy(SyncAdd(arrs, e), ns, S) /\ Added(SyncAdd(arrs, e), arrs, e, ns)
<1> DEFINE w(n) == Without(arrs[n], e.hash)
           to == SyncAdd(arrs, e)
<1>1. DOMAIN to = ns /\ \A n \in ns : to[n] = IF n \in {"all", e.status} THEN Put(w(n), e) ELSE w(n)
  BY DEF SyncAdd, Tidy
<1> HIDE DEF to
<1>2. ASSUME NEW n \in ns
      PROVE  /\ to[n] \in Seq(S) /\ Once(to[n])
             /\ ToSet(to[n]) = {x \in ToSet(arrs[n]) : x.hash # e.hash}
                               \cup (IF n \in {"all", e.status} THEN {e} ELSE {})
  <2> DEFINE a == arrs[n]
  <2>1. a \in Seq(S) /\ Once(a)
    BY DEF Tidy
  <2> HIDE DEF a
  <2> DEFINE v == Without(a, e.hash)
             p == Put(v, e)
  <2>2. v \in Seq(S) /\ Once(v) /\ ToSet(v) = {x \in ToSet(a) : x.hash # e.hash}
    BY <2>1, WithoutKeeps, WithoutOnce
  <2>3. w(n) = v
    BY DEF a
  <2> HIDE DEF v, w
  <2>4. p \in Seq(S) /\ Once(p) /\ ToSet(p) = {x \in ToSet(v) : x.hash # e.hash} \cup {e}
    BY <2>2, PutIs
  <2>5. ToSet(p) = ToSet(v) \cup {e}
    BY <2>2, <2>4
  <2>6. to[n] = IF n \in {"all", e.status} THEN p ELSE v
    BY <1>1, <2>3
  <2> HIDE DEF p
  <2> QED BY <2>2, <2>4, <2>5, <2>6 DEF a
<1> QED BY <1>1, <1>2 DEF to, Tidy, Added

\* The arrays to show what arrs do of other hashes.
Dropped(to, arrs, h, ns) == \A n \in ns : ToSet(to[n]) = {x \in ToSet(arrs[n]) : x.hash # h}

LEMMA SyncRemoveIs ==
  ASSUME NEW ns, NEW S, NEW arrs, Tidy(arrs, ns, S), NEW h
  PROVE  Tidy(SyncRemove(arrs, h), ns, S) /\ Dropped(SyncRemove(arrs, h), arrs, h, ns)
<1>1. \A n \in ns : arrs[n] \in Seq(S) /\ Once(arrs[n])
  BY DEF Tidy
<1>2. DOMAIN SyncRemove(arrs, h) = ns /\ \A n \in ns : SyncRemove(arrs, h)[n] = Without(arrs[n], h)
  BY DEF SyncRemove, Tidy
<1> QED BY <1>1, <1>2, WithoutKeeps, WithoutOnce DEF Tidy, Dropped

\* The arrays after each of the entities.
LEMMA SyncAllRuns ==
  ASSUME NEW arrs, NEW es, Len(es) \in Nat
  PROVE  \E f : /\ f[0] = arrs
                /\ \A n \in 1 .. Len(es) : f[n] = SyncAdd(f[n - 1], es[n])
                /\ SyncAll(arrs, es) = f[Len(es)]
<1> DEFINE Run(f, k) == f = [n \in 0 .. k |-> IF n = 0 THEN arrs ELSE SyncAdd(f[n - 1], es[n])]
           Ns == {k \in 0 .. Len(es) : \E f : Run(f, k)}
<1>1. 0 \in Ns
  <2> DEFINE f == [n \in 0 .. 0 |-> arrs]
  <2>1. Run(f, 0)
    <3>1. \A n \in 0 .. 0 : n = 0
      OBVIOUS
    <3> QED BY <3>1
  <2> HIDE DEF f, Run
  <2> QED BY <2>1
<1>2. ASSUME NEW k \in 1 .. Len(es), k - 1 \in Ns PROVE k \in Ns
  <2>1. PICK f : Run(f, k - 1)
    BY <1>2
  <2> DEFINE g == [n \in 0 .. k |-> IF n = k THEN SyncAdd(f[k - 1], es[k]) ELSE f[n]]
  <2>2. \A n \in 0 .. k - 1 : g[n] = f[n]
    OBVIOUS
  <2>3. ASSUME NEW n \in 0 .. k PROVE g[n] = IF n = 0 THEN arrs ELSE SyncAdd(g[n - 1], es[n])
    <3>1. CASE n = k
      <4>1. n # 0 /\ n - 1 \in 0 .. k - 1 /\ g[n] = SyncAdd(f[k - 1], es[k])
        BY <3>1
      <4>2. g[n - 1] = f[k - 1]
        BY <2>2, <3>1, <4>1
      <4> HIDE DEF g
      <4> QED BY <3>1, <4>1, <4>2
    <3>2. CASE n # k
      <4>1. n \in 0 .. k - 1 /\ (n # 0 => n - 1 \in 0 .. k - 1)
        BY <3>2
      <4>2. f[n] = IF n = 0 THEN arrs ELSE SyncAdd(f[n - 1], es[n])
        BY <2>1, <4>1
      <4> HIDE DEF g, Run
      <4> QED BY <2>2, <4>1, <4>2
    <3> QED BY <3>1, <3>2
  <2>4. Run(g, k)
    <3> DEFINE h == [n \in 0 .. k |-> IF n = 0 THEN arrs ELSE SyncAdd(g[n - 1], es[n])]
    <3>1. g = h
      <4>1. DOMAIN g = 0 .. k /\ DOMAIN h = 0 .. k
        OBVIOUS
      <4>2. \A n \in 0 .. k : g[n] = h[n]
        <5> HIDE DEF g
        <5> QED BY <2>3
      <4>3. g = [n \in 0 .. k |-> g[n]] /\ h = [n \in 0 .. k |-> h[n]]
        OBVIOUS
      <4> HIDE DEF g, h
      <4> QED BY <4>2, <4>3
    <3> HIDE DEF g
    <3> QED BY <3>1
  <2> HIDE DEF g, Run
  <2> QED BY <2>4
<1>3. \A k \in 0 .. Len(es) : k \in Ns
  <2> HIDE DEF Ns
  <2> QED BY <1>1, <1>2, UpTo
<1> DEFINE F == CHOOSE f : Run(f, Len(es))
<1>4. Run(F, Len(es))
  <2>1. \E f : Run(f, Len(es))
    BY <1>3
  <2> HIDE DEF Run
  <2> QED BY <2>1
<1>5. SyncAll(arrs, es) = F[Len(es)]
  BY DEF SyncAll
<1> HIDE DEF F
<1>6. /\ F[0] = arrs
      /\ \A n \in 1 .. Len(es) : F[n] = SyncAdd(F[n - 1], es[n])
  BY <1>4
<1> HIDE DEF Run
<1> QED BY <1>5, <1>6

\* The arrays to show what arrs do of other hashes, and some entity for each hash
\* of es; each entity, if no two have the same hash.
AddedAll(to, arrs, es, ns) ==
  /\ \A n \in ns : \A x \in ToSet(to[n]) :
       \/ x \in ToSet(arrs[n]) /\ x.hash \notin HashesOf(es)
       \/ x \in ToSet(es) /\ n \in {"all", x.status}
  /\ \A n \in ns : \A x \in ToSet(arrs[n]) : x.hash \notin HashesOf(es) => x \in ToSet(to[n])
  /\ "all" \in ns => HashesOf(es) \subseteq HashesOf(to["all"])
  /\ Once(es) => \A x \in ToSet(es) : \A n \in ns \cap {"all", x.status} : x \in ToSet(to[n])

LEMMA SyncAllIs ==
  ASSUME NEW ns, NEW S, NEW arrs, Tidy(arrs, ns, S), NEW es \in Seq(S)
  PROVE  Tidy(SyncAll(arrs, es), ns, S) /\ AddedAll(SyncAll(arrs, es), arrs, es, ns)
<1>1. /\ Len(es) \in Nat
      /\ \A i \in 1 .. Len(es) : es[i] \in S /\ es[i] \in ToSet(es)
      /\ \A x \in ToSet(es) : \E i \in 1 .. Len(es) : es[i] = x
      /\ DOMAIN es = 1 .. Len(es)
  BY Members
<1>2. PICK f : /\ f[0] = arrs
               /\ \A n \in 1 .. Len(es) : f[n] = SyncAdd(f[n - 1], es[n])
               /\ SyncAll(arrs, es) = f[Len(es)]
  <2>1. Len(es) \in Nat
    BY <1>1
  <2> QED BY <2>1, SyncAllRuns
<1> DEFINE Hs(k) == {es[i].hash : i \in 1 .. k}
           Came(k) == \A n \in ns : \A x \in ToSet(f[k][n]) :
                        \/ x \in ToSet(arrs[n]) /\ x.hash \notin Hs(k)
                        \/ \E i \in 1 .. k : x = es[i] /\ n \in {"all", x.status}
           Stayed(k) == \A n \in ns : \A x \in ToSet(arrs[n]) :
                          x.hash \notin Hs(k) => x \in ToSet(f[k][n])
           There(k) == "all" \in ns => \A h \in Hs(k) : \E x \in ToSet(f[k]["all"]) : x.hash = h
           Each(k) == Once(es) => \A i \in 1 .. k : \A n \in ns \cap {"all", es[i].status} :
                                    es[i] \in ToSet(f[k][n])
           Ns == {k \in 0 .. Len(es) : /\ Tidy(f[k], ns, S)
                                      /\ Came(k) /\ Stayed(k) /\ There(k) /\ Each(k)}
<1>3. 0 \in Ns
  <2>1. Hs(0) = {} /\ 1 .. 0 = {}
    OBVIOUS
  <2> HIDE DEF Hs
  <2> QED BY <1>1, <1>2, <2>1
<1>4. ASSUME NEW k \in 1 .. Len(es), k - 1 \in Ns PROVE k \in Ns
  <2>1. /\ Tidy(f[k - 1], ns, S)
        /\ Came(k - 1) /\ Stayed(k - 1) /\ There(k - 1) /\ Each(k - 1)
    BY <1>4
  <2>2. PICK e \in S : e = es[k]
    BY <1>1
  <2>3. /\ Tidy(f[k], ns, S)
        /\ \A n \in ns : ToSet(f[k][n]) = {x \in ToSet(f[k - 1][n]) : x.hash # e.hash}
                                          \cup (IF n \in {"all", e.status} THEN {e} ELSE {})
    <3>1. PICK g : g = f[k - 1]
      OBVIOUS
    <3>2. Tidy(g, ns, S) /\ f[k] = SyncAdd(g, e)
      BY <1>2, <2>1, <2>2, <3>1
    <3>3. Tidy(SyncAdd(g, e), ns, S) /\ Added(SyncAdd(g, e), g, e, ns)
      BY <3>2, SyncAddIs
    <3> QED BY <3>1, <3>2, <3>3 DEF Added
  <2>4. /\ Hs(k) = Hs(k - 1) \cup {e.hash}
        /\ k \in 1 .. k
        /\ \A i \in 1 .. k : i = k \/ i \in 1 .. k - 1
        /\ \A i \in 1 .. k - 1 : i \in 1 .. k
    BY <1>1, <2>2
  <2> HIDE DEF Hs, Ns
  <2>5. Came(k)
    <3> SUFFICES ASSUME NEW n \in ns, NEW x \in ToSet(f[k][n])
                 PROVE  \/ x \in ToSet(arrs[n]) /\ x.hash \notin Hs(k)
                        \/ \E i \in 1 .. k : x = es[i] /\ n \in {"all", x.status}
      OBVIOUS
    <3>1. CASE x = e /\ n \in {"all", e.status}
      BY <2>2, <2>4, <3>1
    <3>2. CASE x \in ToSet(f[k - 1][n]) /\ x.hash # e.hash
      BY <2>1, <2>4, <3>2
    <3> QED BY <2>3, <3>1, <3>2
  <2>6. Stayed(k)
    BY <2>1, <2>3, <2>4
  <2>7. There(k)
    <3> SUFFICES ASSUME "all" \in ns, NEW h \in Hs(k)
                 PROVE  \E x \in ToSet(f[k]["all"]) : x.hash = h
      OBVIOUS
    <3>1. CASE h = e.hash
      BY <2>3, <3>1
    <3>2. CASE h # e.hash
      <4>1. PICK x \in ToSet(f[k - 1]["all"]) : x.hash = h
        BY <2>1, <2>4, <3>2
      <4> QED BY <2>3, <3>2, <4>1
    <3> QED BY <3>1, <3>2
  <2>8. Each(k)
    <3> SUFFICES ASSUME Once(es), NEW i \in 1 .. k, NEW n \in ns \cap {"all", es[i].status}
                 PROVE  es[i] \in ToSet(f[k][n])
      OBVIOUS
    <3>1. CASE i = k
      BY <2>2, <2>3, <3>1
    <3>2. CASE i # k
      <4>1. i \in 1 .. k - 1 /\ es[i] \in ToSet(f[k - 1][n])
        BY <2>1, <2>4, <3>2
      <4>2. es[i].hash # e.hash
        BY <1>1, <2>2, <2>4, <3>2, <4>1 DEF Once
      <4> QED BY <2>3, <4>1, <4>2
    <3> QED BY <3>1, <3>2
  <2> HIDE DEF Came, Stayed, There, Each
  <2> QED BY <2>3, <2>5, <2>6, <2>7, <2>8 DEF Ns
<1>5. \A k \in 0 .. Len(es) : k \in Ns
  <2> HIDE DEF Ns
  <2> QED BY <1>1, <1>3, <1>4, UpTo
<1> DEFINE k == Len(es)
           out == SyncAll(arrs, es)
<1>6. /\ out = f[k] /\ Tidy(f[k], ns, S)
      /\ Came(k) /\ Stayed(k) /\ There(k) /\ Each(k)
  <2>1. k \in Ns
    <3>1. k \in 0 .. Len(es)
      BY <1>1
    <3> HIDE DEF k, Ns
    <3> QED BY <1>5, <3>1
  <2> HIDE DEF Came, Stayed, There, Each
  <2> QED BY <1>2, <2>1
<1>7. HashesOf(es) = Hs(k)
  BY <1>1 DEF HashesOf
<1> HIDE DEF Hs, out, Ns
<1>8. \A n \in ns : \A x \in ToSet(out[n]) :
        \/ x \in ToSet(arrs[n]) /\ x.hash \notin HashesOf(es)
        \/ x \in ToSet(es) /\ n \in {"all", x.status}
  BY <1>1, <1>6, <1>7
<1>9. "all" \in ns => HashesOf(es) \subseteq HashesOf(out["all"])
  <2>1. "all" \in ns => \A h \in HashesOf(es) : \E x \in ToSet(out["all"]) : x.hash = h
    BY <1>6, <1>7
  <2> QED BY <2>1 DEF HashesOf
<1>10. Once(es) => \A x \in ToSet(es) : \A n \in ns \cap {"all", x.status} : x \in ToSet(out[n])
  BY <1>1, <1>6
<1>11. \A n \in ns : \A x \in ToSet(arrs[n]) : x.hash \notin HashesOf(es) => x \in ToSet(out[n])
  BY <1>6, <1>7
<1>12. Tidy(out, ns, S)
  BY <1>6
<1> QED BY <1>8, <1>9, <1>10, <1>11, <1>12 DEF out, AddedAll

\* A finite set as a sequence.
LEMMA SetToSeqIs ==
  ASSUME NEW S, IsFiniteSet(S)
  PROVE  /\ SetToSeq(S) \in Seq(S)
         /\ ToSet(SetToSeq(S)) = S
         /\ \A i, j \in DOMAIN SetToSeq(S) : SetToSeq(S)[i] = SetToSeq(S)[j] => i = j
<1> DEFINE n == Cardinality(S)
<1>1. n \in Nat /\ ExistsBijection(1 .. n, S)
  BY FS_CardinalityType
<1>2. PICK f \in Bijection(1 .. n, S) : TRUE
  BY <1>1 DEF ExistsBijection
<1>3. f \in [1 .. n -> S] /\ IsInjective(f)
  BY <1>2 DEF Bijection, Injection
<1> DEFINE g == SetToSeq(S)
<1>4. g \in [1 .. n -> S] /\ IsInjective(g)
  BY <1>3 DEF SetToSeq
<1> HIDE DEF g, n
<1>5. g \in Seq(S) /\ DOMAIN g = 1 .. n
  BY <1>1, <1>4, SeqDef
<1>6. \A i, j \in DOMAIN g : g[i] = g[j] => i = j
  BY <1>4 DEF IsInjective
<1>7. ToSet(g) = S
  <2>1. g \in Injection(1 .. n, S)
    BY <1>4 DEF Injection
  <2>2. IsFiniteSet(1 .. n) /\ Cardinality(1 .. n) = n
    <3>1. 1 \in Int /\ n \in Int
      BY <1>1
    <3>2. /\ IsFiniteSet(1 .. n)
          /\ Cardinality(1 .. n) = IF 1 > n THEN 0 ELSE n - 1 + 1
      BY <3>1, FS_Interval
    <3> QED BY <1>1, <3>2
  <2>3. g \in Surjection(1 .. n, S)
    BY <2>1, <2>2, FS_Injection DEF n
  <2>4. \A t \in S : \E s \in 1 .. n : g[s] = t
    BY <2>3 DEF Surjection
  <2> QED BY <1>4, <1>5, <2>4 DEF ToSet
<1> QED BY <1>5, <1>6, <1>7 DEF g

\* The members of two sequences, one after the other.
LEMMA ConcatIs ==
  ASSUME NEW S, NEW a \in Seq(S), NEW b \in Seq(S)
  PROVE  /\ a \o b \in Seq(S)
         /\ ToSet(a \o b) = ToSet(a) \cup ToSet(b)
<1>1. /\ a \o b \in Seq(S)
      /\ Len(a) \in Nat /\ Len(b) \in Nat
      /\ Len(a \o b) = Len(a) + Len(b)
      /\ \A i \in 1 .. Len(a) + Len(b) : (a \o b)[i] = IF i <= Len(a) THEN a[i] ELSE b[i - Len(a)]
  BY ConcatProperties, LenProperties
<1> DEFINE ab == a \o b
<1> HIDE DEF ab
<1>2. /\ ab \in Seq(S) /\ Len(ab) = Len(a) + Len(b)
      /\ \A i \in 1 .. Len(a) + Len(b) : ab[i] = IF i <= Len(a) THEN a[i] ELSE b[i - Len(a)]
  BY <1>1 DEF ab
<1>3. ASSUME NEW x \in ToSet(ab) PROVE x \in ToSet(a) \cup ToSet(b)
  <2>0. ab \in Seq(S)
    BY <1>2
  <2>1. PICK i \in 1 .. Len(ab) : ab[i] = x
    BY <2>0, Members
  <2>2. CASE i <= Len(a)
    <3>1. i \in 1 .. Len(a) /\ a[i] = x
      BY <1>1, <1>2, <2>1, <2>2
    <3> QED BY <3>1, Members
  <2>3. CASE ~(i <= Len(a))
    <3>1. i - Len(a) \in 1 .. Len(b) /\ b[i - Len(a)] = x
      BY <1>1, <1>2, <2>1, <2>3
    <3> QED BY <3>1, Members
  <2> QED BY <2>2, <2>3
<1>4. ASSUME NEW x \in ToSet(a) PROVE x \in ToSet(ab)
  <2>1. PICK i \in 1 .. Len(a) : a[i] = x
    BY Members
  <2>2. i \in 1 .. Len(ab) /\ ab[i] = x
    BY <1>1, <1>2, <2>1
  <2> QED BY <1>2, <2>2, Members
<1>5. ASSUME NEW x \in ToSet(b) PROVE x \in ToSet(ab)
  <2>1. PICK i \in 1 .. Len(b) : b[i] = x
    BY Members
  <2>2. /\ i + Len(a) \in 1 .. Len(a) + Len(b) /\ ~(i + Len(a) <= Len(a))
        /\ i + Len(a) - Len(a) = i
    BY <1>1
  <2>3. i + Len(a) \in 1 .. Len(ab) /\ ab[i + Len(a)] = x
    BY <1>2, <2>1, <2>2
  <2> QED BY <1>2, <2>3, Members
<1> QED BY <1>1, <1>3, <1>4, <1>5 DEF ab

\* Two sequences without a hash in common.
LEMMA ConcatOnce ==
  ASSUME NEW S, NEW a \in Seq(S), NEW b \in Seq(S), Once(a), Once(b),
         HashesOf(a) \cap HashesOf(b) = {}
  PROVE  Once(a \o b)
<1>1. PICK ab : ab = a \o b
  OBVIOUS
<1>2. /\ ab \in Seq(S)
      /\ Len(a) \in Nat /\ Len(b) \in Nat
      /\ Len(ab) = Len(a) + Len(b)
      /\ \A i \in 1 .. Len(a) + Len(b) : ab[i] = IF i <= Len(a) THEN a[i] ELSE b[i - Len(a)]
  BY <1>1, ConcatProperties, LenProperties
<1>3. DOMAIN ab = 1 .. Len(a) + Len(b) /\ DOMAIN a = 1 .. Len(a) /\ DOMAIN b = 1 .. Len(b)
  BY <1>2, LenProperties
<1>4. \A i \in 1 .. Len(a) : a[i].hash \in HashesOf(a)
  BY Members DEF HashesOf
<1>5. \A i \in 1 .. Len(b) : b[i].hash \in HashesOf(b)
  BY Members DEF HashesOf
<1>6. ASSUME NEW i \in 1 .. Len(a) + Len(b), NEW j \in 1 .. Len(a) + Len(b), ab[i].hash = ab[j].hash
      PROVE  i = j
  <2>1. CASE i <= Len(a) /\ j <= Len(a)
    <3>1. i \in DOMAIN a /\ j \in DOMAIN a /\ a[i].hash = a[j].hash
      BY <1>2, <1>3, <1>6, <2>1
    <3> QED BY <3>1 DEF Once
  <2>2. CASE ~(i <= Len(a)) /\ ~(j <= Len(a))
    <3>1. PICK k, m : k = i - Len(a) /\ m = j - Len(a)
      OBVIOUS
    <3>2. k \in DOMAIN b /\ m \in DOMAIN b /\ b[k].hash = b[m].hash
      BY <1>2, <1>3, <1>6, <2>2, <3>1
    <3>3. k = m
      BY <3>2 DEF Once
    <3> QED BY <1>2, <3>1, <3>3
  <2>3. CASE i <= Len(a) /\ ~(j <= Len(a))
    <3>1. PICK m : m = j - Len(a)
      OBVIOUS
    <3>2. i \in 1 .. Len(a) /\ m \in 1 .. Len(b) /\ ab[i] = a[i] /\ ab[j] = b[m]
      BY <1>2, <2>3, <3>1
    <3> QED BY <1>4, <1>5, <1>6, <3>2
  <2>4. CASE ~(i <= Len(a)) /\ j <= Len(a)
    <3>1. PICK m : m = i - Len(a)
      OBVIOUS
    <3>2. j \in 1 .. Len(a) /\ m \in 1 .. Len(b) /\ ab[j] = a[j] /\ ab[i] = b[m]
      BY <1>2, <2>4, <3>1
    <3> QED BY <1>4, <1>5, <1>6, <3>2
  <2> QED BY <2>1, <2>2, <2>3, <2>4
<1>7. Once(ab)
  BY <1>3, <1>6 DEF Once
<1> QED BY <1>1, <1>7

\* No entities.
LEMMA NothingIs ==
  ASSUME NEW S
  PROVE  <<>> \in Seq(S) /\ ToSet(<<>>) = {} /\ Once(<<>>)
<1>1. <<>> \in Seq(S) /\ Len(<<>>) = 0
  BY EmptySeq
<1>2. DOMAIN <<>> = 1 .. 0
  BY <1>1, LenProperties
<1>3. 1 .. 0 = {}
  OBVIOUS
<1> QED BY <1>1, <1>2, <1>3 DEF ToSet, Once

\* One entity.
LEMMA SingleIs ==
  ASSUME NEW S, NEW e \in S
  PROVE  <<e>> \in Seq(S) /\ ToSet(<<e>>) = {e} /\ Once(<<e>>) /\ <<e>>[1] = e
<1>1. DOMAIN <<e>> = {1} /\ <<e>>[1] = e
  OBVIOUS
<1>2. <<e>> \in Seq(S)
  OBVIOUS
<1> QED BY <1>1, <1>2 DEF ToSet, Once

-----------------------------------------------------------------------------
(* Arrays that may repeat. *)

\* What is put into an array is there, and else only what was there.
LEMMA PutComes ==
  ASSUME NEW S, NEW a \in Seq(S), NEW e \in S
  PROVE  /\ Put(a, e) \in Seq(S)
         /\ ToSet(Put(a, e)) \subseteq ToSet(a) \cup {e}
<1>0. Len(a) \in Nat
  BY LenProperties
<1>1. CASE ~Lists(a, e.hash)
  <2>1. Put(a, e) = Append(a, e)
    BY <1>1 DEF Put
  <2>2. PICK p : p = Append(a, e)
    OBVIOUS
  <2>3. /\ p \in Seq(S) /\ Len(p) = Len(a) + 1
        /\ \A i \in 1 .. Len(a) : p[i] = a[i]
        /\ p[Len(a) + 1] = e
    BY <2>2, AppendProperties
  <2>4. ASSUME NEW x \in ToSet(p) PROVE x \in ToSet(a) \cup {e}
    <3>1. PICK i \in 1 .. Len(a) + 1 : p[i] = x
      BY <2>3, Members
    <3>2. i \in 1 .. Len(a) \/ i = Len(a) + 1
      BY <1>0
    <3> QED BY <2>3, <3>1, <3>2, Members
  <2> QED BY <2>1, <2>2, <2>3, <2>4
<1>2. CASE Lists(a, e.hash)
  <2>1. PICK k : k = Index(a, e.hash)
    OBVIOUS
  <2>2. k \in 1 .. Len(a) /\ Put(a, e) = [a EXCEPT ![k] = e]
    BY <1>2, <2>1, IndexIs DEF Put, Lists, ReplaceAt
  <2>3. PICK p : p = [a EXCEPT ![k] = e]
    OBVIOUS
  <2>4. p \in Seq(S) /\ Len(p) = Len(a) /\ \A j \in 1 .. Len(a) : p[j] = IF j = k THEN e ELSE a[j]
    BY <2>2, <2>3, ExceptSeq
  <2>5. ASSUME NEW x \in ToSet(p) PROVE x \in ToSet(a) \cup {e}
    <3>1. PICK i \in 1 .. Len(a) : p[i] = x
      BY <2>4, Members
    <3> QED BY <2>4, <3>1, Members
  <2> QED BY <2>2, <2>3, <2>4, <2>5
<1> QED BY <1>1, <1>2

\* What is added to the end.
LEMMA AppendComes ==
  ASSUME NEW S, NEW a \in Seq(S), NEW e \in S
  PROVE  /\ Append(a, e) \in Seq(S)
         /\ ToSet(Append(a, e)) \subseteq ToSet(a) \cup {e}
<1>0. Len(a) \in Nat
  BY LenProperties
<1>2. PICK p : p = Append(a, e)
  OBVIOUS
<1>3. /\ p \in Seq(S) /\ Len(p) = Len(a) + 1
      /\ \A i \in 1 .. Len(a) : p[i] = a[i]
      /\ p[Len(a) + 1] = e
  BY <1>2, AppendProperties
<1>4. ASSUME NEW x \in ToSet(p) PROVE x \in ToSet(a) \cup {e}
  <2>1. PICK i \in 1 .. Len(a) + 1 : p[i] = x
    BY <1>3, Members
  <2>2. i \in 1 .. Len(a) \/ i = Len(a) + 1
    BY <1>0
  <2> QED BY <1>3, <2>1, <2>2, Members
<1> QED BY <1>2, <1>3, <1>4

\* The arrays ns, of which that of all repeats nothing.
Loose(arrs, ns, S) ==
  /\ DOMAIN arrs = ns
  /\ \A n \in ns : arrs[n] \in Seq(S)
  /\ "all" \in ns
  /\ Once(arrs["all"])

\* The arrays to show what arrs show, and e; among all, e in the place of what
\* had its hash.
Joined(to, arrs, e, ns) ==
  /\ \A n \in ns : ToSet(to[n]) \subseteq ToSet(arrs[n]) \cup {e}
  /\ ToSet(to["all"]) = {x \in ToSet(arrs["all"]) : x.hash # e.hash} \cup {e}

LEMMA SyncAddJoins ==
  ASSUME NEW ns, NEW S, NEW arrs, Loose(arrs, ns, S), NEW e \in S
  PROVE  Loose(SyncAdd(arrs, e), ns, S) /\ Joined(SyncAdd(arrs, e), arrs, e, ns)
<1>1. PICK to : to = SyncAdd(arrs, e)
  OBVIOUS
<1>2. /\ DOMAIN to = ns /\ "all" \in ns
      /\ \A n \in ns : to[n] = IF n \in {"all", e.status} THEN Put(Without(arrs[n], e.hash), e)
                                                          ELSE Without(arrs[n], e.hash)
  BY <1>1 DEF SyncAdd, Loose
<1>3. ASSUME NEW n \in ns
      PROVE  to[n] \in Seq(S) /\ ToSet(to[n]) \subseteq ToSet(arrs[n]) \cup {e}
  <2>1. PICK a, w : a = arrs[n] /\ w = Without(a, e.hash)
    OBVIOUS
  <2>2. a \in Seq(S)
    BY <2>1 DEF Loose
  <2>3. w \in Seq(S) /\ ToSet(w) \subseteq ToSet(a)
    BY <2>1, <2>2, WithoutKeeps
  <2>4. Put(w, e) \in Seq(S) /\ ToSet(Put(w, e)) \subseteq ToSet(w) \cup {e}
    BY <2>3, PutComes
  <2>5. to[n] = w \/ to[n] = Put(w, e)
    BY <1>2, <2>1
  <2> QED BY <2>1, <2>3, <2>4, <2>5
<1>4. Once(to["all"]) /\ ToSet(to["all"]) = {x \in ToSet(arrs["all"]) : x.hash # e.hash} \cup {e}
  <2>1. PICK a, w : a = arrs["all"] /\ w = Without(a, e.hash)
    OBVIOUS
  <2>2. a \in Seq(S) /\ Once(a)
    BY <2>1 DEF Loose
  <2>3. w \in Seq(S) /\ Once(w) /\ ToSet(w) = {x \in ToSet(a) : x.hash # e.hash}
    BY <2>1, <2>2, WithoutKeeps, WithoutOnce
  <2>4. Once(Put(w, e)) /\ ToSet(Put(w, e)) = {x \in ToSet(w) : x.hash # e.hash} \cup {e}
    BY <2>3, PutIs
  <2>5. to["all"] = Put(w, e)
    BY <1>2, <2>1
  <2> QED BY <2>1, <2>3, <2>4, <2>5
<1>5. Loose(to, ns, S)
  BY <1>2, <1>3, <1>4 DEF Loose
<1>6. Joined(to, arrs, e, ns)
  BY <1>3, <1>4 DEF Joined
<1> QED BY <1>1, <1>5, <1>6

\* The arrays to show what arrs show; among all, but for the hash.
Left(to, arrs, h, ns) ==
  /\ \A n \in ns : ToSet(to[n]) \subseteq ToSet(arrs[n])
  /\ ToSet(to["all"]) = {x \in ToSet(arrs["all"]) : x.hash # h}

LEMMA SyncRemoveLeaves ==
  ASSUME NEW ns, NEW S, NEW arrs, Loose(arrs, ns, S), NEW h
  PROVE  Loose(SyncRemove(arrs, h), ns, S) /\ Left(SyncRemove(arrs, h), arrs, h, ns)
<1>1. PICK to : to = SyncRemove(arrs, h)
  OBVIOUS
<1>2. DOMAIN to = ns /\ "all" \in ns /\ \A n \in ns : to[n] = Without(arrs[n], h)
  BY <1>1 DEF SyncRemove, Loose
<1>3. \A n \in ns : arrs[n] \in Seq(S)
  BY DEF Loose
<1>4. \A n \in ns : to[n] \in Seq(S) /\ ToSet(to[n]) \subseteq ToSet(arrs[n])
  BY <1>2, <1>3, WithoutKeeps
<1>5. Once(to["all"]) /\ ToSet(to["all"]) = {x \in ToSet(arrs["all"]) : x.hash # h}
  BY <1>2, <1>3, WithoutOnce DEF Loose
<1>6. Loose(to, ns, S)
  BY <1>2, <1>4, <1>5 DEF Loose
<1>7. Left(to, arrs, h, ns)
  BY <1>4, <1>5 DEF Left
<1> QED BY <1>1, <1>6, <1>7

-----------------------------------------------------------------------------
(* The store of the mediums of exchange: what its arrays show. *)

Names == Statuses \cup {"all"}
Shows == [hash : Hashes, status : Statuses]

\* No medium under two statuses, and each under the status it has among all.
Agree(arrs) ==
  /\ \A s \in Statuses : \A x \in ToSet(arrs[s]) : x.status = s
  /\ \A s, t \in Statuses : \A x \in ToSet(arrs[s]), y \in ToSet(arrs[t]) : x.hash = y.hash => s = t
  /\ \A s \in Statuses : \A x \in ToSet(arrs["all"]), y \in ToSet(arrs[s]) :
       x.hash = y.hash => x.status = s

\* Hashes of records there are.
Known(es) == \A e \in ToSet(es) : e.hash \in Made

ArraysOK(arrs) ==
  /\ Tidy(arrs, Names, Shows)
  /\ Agree(arrs)
  /\ \A n \in Names : Known(arrs[n])

LEMMA EntityIs ==
  ASSUME NEW h \in Hashes, NEW s \in Statuses
  PROVE  Entity(h, s) \in Shows /\ Entity(h, s).hash = h /\ Entity(h, s).status = s
BY DEF Entity, Shows

LEMMA EmptyOK == ArraysOK(Empty)
<1>1. DOMAIN Empty = Names /\ \A n \in Names : Empty[n] = <<>>
  BY DEF Empty, Names
<1>2. \A n \in Names : Empty[n] \in Seq(Shows) /\ Once(Empty[n]) /\ ToSet(Empty[n]) = {}
  BY <1>1, NothingIs
<1>3. "all" \in Names /\ Statuses \subseteq Names
  BY DEF Names
<1> QED BY <1>1, <1>2, <1>3 DEF ArraysOK, Tidy, Agree, Known

LEMMA SyncAddAgrees ==
  ASSUME NEW arrs, ArraysOK(arrs), NEW e \in Shows, e.hash \in Made
  PROVE  ArraysOK(SyncAdd(arrs, e))
<1> DEFINE to == SyncAdd(arrs, e)
<1>1. Tidy(to, Names, Shows) /\ Added(to, arrs, e, Names)
  BY SyncAddIs DEF ArraysOK
<1> HIDE DEF to
<1>2. /\ "all" \in Names /\ Statuses \subseteq Names /\ e.status \in Statuses
      /\ \A s \in Statuses : s # "all"
  BY DEF Names, Statuses, Shows
<1>3. ASSUME NEW n \in Names, NEW x \in ToSet(to[n])
      PROVE  \/ x \in ToSet(arrs[n]) /\ x.hash # e.hash
             \/ x = e /\ n \in {"all", e.status}
  BY <1>1 DEF Added
<1>4. \A n \in Names : Known(to[n])
  BY <1>3 DEF Known, ArraysOK
<1>5. Agree(to)
  <2>1. ASSUME NEW s \in Statuses, NEW x \in ToSet(to[s]) PROVE x.status = s
    BY <1>2, <1>3, <2>1 DEF ArraysOK, Agree
  <2>2. ASSUME NEW s \in Statuses, NEW t \in Statuses, NEW x \in ToSet(to[s]), NEW y \in ToSet(to[t]),
               x.hash = y.hash
        PROVE  s = t
    BY <1>2, <1>3, <2>2 DEF ArraysOK, Agree
  <2>3. ASSUME NEW s \in Statuses, NEW x \in ToSet(to["all"]), NEW y \in ToSet(to[s]),
               x.hash = y.hash
        PROVE  x.status = s
    BY <1>2, <1>3, <2>3 DEF ArraysOK, Agree
  <2> QED BY <2>1, <2>2, <2>3 DEF Agree
<1> QED BY <1>1, <1>4, <1>5 DEF ArraysOK, to

\* The helpers of this store are those of all stores.
LEMMA SyncEachIs ==
  ASSUME NEW arrs, NEW es
  PROVE  SyncEach(arrs, es) = SyncAll(arrs, es)
BY DEF SyncEach, SyncAll, SyncCacheToState

LEMMA SyncEachAgrees ==
  ASSUME NEW arrs, ArraysOK(arrs), NEW es \in Seq(Shows), Known(es)
  PROVE  /\ ArraysOK(SyncEach(arrs, es))
         /\ AddedAll(SyncEach(arrs, es), arrs, es, Names)
<1>1. AddedAll(SyncAll(arrs, es), arrs, es, Names)
  BY SyncAllIs DEF ArraysOK
<1>2. Len(es) \in Nat /\ \A i \in 1 .. Len(es) : es[i] \in Shows /\ es[i].hash \in Made
  BY Members DEF Known
<1>3. PICK f : /\ f[0] = arrs
               /\ \A n \in 1 .. Len(es) : f[n] = SyncAdd(f[n - 1], es[n])
               /\ SyncAll(arrs, es) = f[Len(es)]
  BY <1>2, SyncAllRuns
<1> DEFINE Ns == {n \in 0 .. Len(es) : ArraysOK(f[n])}
<1>4. 0 \in Ns
  BY <1>2, <1>3
<1>5. ASSUME NEW n \in 1 .. Len(es), n - 1 \in Ns PROVE n \in Ns
  <2>1. PICK as, e : as = f[n - 1] /\ e = es[n]
    OBVIOUS
  <2>2. ArraysOK(as) /\ e \in Shows /\ e.hash \in Made /\ f[n] = SyncAdd(as, e)
    BY <1>2, <1>3, <1>5, <2>1
  <2>3. ArraysOK(SyncAdd(as, e))
    BY <2>2, SyncAddAgrees
  <2>4. ArraysOK(f[n])
    BY <2>2, <2>3, Zenon
  <2>5. n \in 0 .. Len(es)
    BY <1>2
  <2> QED BY <2>4, <2>5
<1>6. \A n \in 0 .. Len(es) : n \in Ns
  <2> HIDE DEF Ns
  <2> QED BY <1>2, <1>4, <1>5, UpTo
<1>7. ArraysOK(SyncAll(arrs, es))
  BY <1>2, <1>3, <1>6
<1> QED BY <1>1, <1>7, SyncEachIs

\* What the calls for one list of mediums are answered with.
Fetches == {<<"getAll", "pending">>, <<"getPending", "pending">>,
            <<"getApproved", "approved">>, <<"getRejected", "rejected">>}

\* What the zome keeps.
ZomeOK ==
  /\ last \in 0 .. MaxHashes
  /\ mediums \subseteq Made
  /\ lists \in [Statuses -> SUBSET Made]
  /\ dead \subseteq Made
  /\ latest \in [Hashes -> Hashes]
  /\ \A h \in Hashes : latest[h] = h \/ latest[h] \in Made

CallOK(call) ==
  /\ call.answer \in Seq(Shows)
  /\ Known(call.answer)
  /\ \A s \in Statuses : <<call.op, s>> \in Fetches =>
       Once(call.answer) /\ \A x \in ToSet(call.answer) : x.status = s

\* What holds always: the answers under way are of records there are, the answers
\* of the lists repeat nothing, and the arrays agree.
MInv ==
  /\ loading \in BOOLEAN
  /\ ZomeOK
  /\ DOMAIN calls = Callers
  /\ \A c \in Callers : CallOK(calls[c])
  /\ ArraysOK(arrays)

\* What else holds if calls do not overlap: what is deleted is in no array and in
\* no answer.
MGone ==
  /\ deleted \subseteq dead
  /\ deleted \cap Shown = {}
  /\ \A c \in Callers : HashesOf(calls[c].answer) \cap deleted = {}
  /\ \A c \in Callers : calls[c].op = "delete" => calls[c].arg \in dead

\* What the zome answers: one entity for each record that is not deleted.
LEMMA EntitiesIs ==
  ASSUME MediumsStoreAssumption, ZomeOK, NEW hs, hs \subseteq Made, NEW s \in Statuses
  PROVE  /\ Entities(hs, s) \in Seq(Shows)
         /\ Once(Entities(hs, s))
         /\ \A e \in ToSet(Entities(hs, s)) : e.hash \in Made /\ e.hash \notin dead /\ e.status = s
<1> DEFINE H == hs \ dead
           ms == SetToSeq(H)
           es == Entities(hs, s)
<1>1. Made \subseteq Hashes /\ last \in Nat
  BY DEF ZomeOK, Made, Hashes, MediumsStoreAssumption
<1>2. IsFiniteSet(H)
  <2>1. IsFiniteSet(1 .. last)
    <3>1. 1 \in Int /\ last \in Int
      BY <1>1
    <3> QED BY <3>1, FS_Interval
  <2>2. H \subseteq 1 .. last
    BY DEF Made
  <2> QED BY <2>1, <2>2, FS_Subset
<1>3. es = [i \in DOMAIN ms |-> Entity(ms[i], s)]
  BY DEF Entities
<1> HIDE DEF ms, es, H
<1>4. /\ ms \in Seq(H)
      /\ \A i, j \in DOMAIN ms : ms[i] = ms[j] => i = j
  BY <1>2, SetToSeqIs DEF ms
<1>5. Len(ms) \in Nat /\ DOMAIN ms = 1 .. Len(ms) /\ \A i \in 1 .. Len(ms) : ms[i] \in H
  BY <1>4, Members
<1>6. DOMAIN es = 1 .. Len(ms) /\ \A i \in 1 .. Len(ms) : es[i] = Entity(ms[i], s)
  BY <1>3, <1>5
<1>7. \A i \in 1 .. Len(ms) : /\ es[i] \in Shows
                              /\ es[i].hash = ms[i] /\ es[i].status = s
                              /\ es[i].hash \in Made /\ es[i].hash \notin dead
  <2> SUFFICES ASSUME NEW i \in 1 .. Len(ms)
               PROVE  /\ es[i] \in Shows
                      /\ es[i].hash = ms[i] /\ es[i].status = s
                      /\ es[i].hash \in Made /\ es[i].hash \notin dead
    OBVIOUS
  <2>1. PICK h : h = ms[i]
    OBVIOUS
  <2>2. h \in H /\ es[i] = Entity(h, s)
    BY <1>5, <1>6, <2>1
  <2>3. h \in Hashes /\ h \in Made /\ h \notin dead
    BY <1>1, <2>2 DEF H
  <2>4. Entity(h, s) \in Shows /\ Entity(h, s).hash = h /\ Entity(h, s).status = s
    BY <2>3, EntityIs
  <2> QED BY <2>1, <2>2, <2>3, <2>4
<1>8. es \in Seq(Shows)
  <2>1. es = [i \in 1 .. Len(ms) |-> es[i]]
    BY <1>3, <1>5
  <2>2. es \in [1 .. Len(ms) -> Shows]
    BY <1>7, <2>1
  <2> QED BY <1>5, <2>2, SeqDef
<1>9. Once(es)
  BY <1>4, <1>5, <1>6, <1>7 DEF Once
<1>10. \A e \in ToSet(es) : e.hash \in Made /\ e.hash \notin dead /\ e.status = s
  BY <1>6, <1>7 DEF ToSet
<1> QED BY <1>8, <1>9, <1>10 DEF es

\* A new record.
LEMMA FreshIs ==
  ASSUME MediumsStoreAssumption, ZomeOK, last < MaxHashes, NEW s \in Statuses
  PROVE  /\ <<Entity(last + 1, s)>> \in Seq(Shows)
         /\ Once(<<Entity(last + 1, s)>>)
         /\ \A e \in ToSet(<<Entity(last + 1, s)>>) :
              e.hash = last + 1 /\ e.hash \notin dead /\ e.status = s
<1>1. last + 1 \in Hashes /\ last + 1 \notin Made
  BY DEF ZomeOK, Hashes, Made, MediumsStoreAssumption
<1>2. PICK e : e = Entity(last + 1, s)
  OBVIOUS
<1>3. e \in Shows /\ e.hash = last + 1 /\ e.status = s
  BY <1>1, <1>2, EntityIs
<1>4. <<e>> \in Seq(Shows) /\ ToSet(<<e>>) = {e} /\ Once(<<e>>)
  BY <1>3, SingleIs
<1>5. e.hash \notin dead
  BY <1>1, <1>3 DEF ZomeOK
<1> QED BY <1>2, <1>3, <1>4, <1>5

\* Records are made and not unmade, and deleted for good.
Grows == ZomeOK' /\ last <= last' /\ dead \subseteq dead'

LEMMA ListedIs ==
  ASSUME ZomeOK, NEW h, NEW s \in Statuses, NEW M, Made \subseteq M, h \in M
  PROVE  Listed(h, s) \in [Statuses -> SUBSET M]
BY DEF Listed, ZomeOK

LEMMA NewMediumIs ==
  ASSUME MediumsStoreAssumption, ZomeOK, NEW s \in Statuses, NewMedium(s)
  PROVE  Grows
<1>1. /\ last + 1 \in Hashes /\ last' = last + 1 /\ last' \in 0 .. MaxHashes
      /\ Made' = Made \cup {last + 1} /\ last <= last'
  BY DEF NewMedium, ZomeOK, Made, Hashes, MediumsStoreAssumption
<1>2. Listed(last + 1, s) \in [Statuses -> SUBSET Made']
  BY <1>1, ListedIs
<1> QED BY <1>1, <1>2 DEF Grows, ZomeOK, NewMedium

LEMMA NewRevisionIs ==
  ASSUME MediumsStoreAssumption, ZomeOK, NEW h \in Made, NewRevision(h),
         lists' = lists \/ lists' = Listed(h, "approved")
  PROVE  Grows
<1>0. last \in Nat /\ MaxHashes \in Nat /\ last < MaxHashes /\ last' = last + 1
  BY DEF NewRevision, ZomeOK, MediumsStoreAssumption
<1>1. /\ last + 1 \in Hashes /\ last' = last + 1 /\ last' \in 0 .. MaxHashes
      /\ Made' = Made \cup {last + 1} /\ last <= last' /\ h \in Hashes
  BY <1>0 DEF Made, Hashes
<1>2. lists' \in [Statuses -> SUBSET Made']
  <2>1. "approved" \in Statuses
    BY DEF Statuses
  <2>2. Listed(h, "approved") \in [Statuses -> SUBSET Made']
    BY <1>1, <2>1, ListedIs
  <2>3. lists \in [Statuses -> SUBSET Made']
    BY <1>1 DEF ZomeOK
  <2> QED BY <2>2, <2>3
<1> QED BY <1>1, <1>2 DEF Grows, ZomeOK, NewRevision

LEMMA RejectIs ==
  ASSUME MediumsStoreAssumption, ZomeOK, NEW h \in Made, Reject(h)
  PROVE  Grows
<1>1. Listed(h, "rejected") \in [Statuses -> SUBSET Made] /\ Made' = Made
  BY ListedIs DEF Statuses, Made, Reject
<1>2. last \in Nat
  BY DEF ZomeOK, MediumsStoreAssumption
<1> QED BY <1>1, <1>2 DEF Grows, ZomeOK, Reject

LEMMA DeleteIs ==
  ASSUME MediumsStoreAssumption, ZomeOK, NEW h \in Made, Delete(h)
  PROVE  Grows /\ h \in dead'
<1>1. Made' = Made /\ last \in Nat
  BY DEF Made, Delete, ZomeOK, MediumsStoreAssumption
<1> QED BY <1>1 DEF Grows, ZomeOK, Delete

LEMMA ZomeRests ==
  ASSUME MediumsStoreAssumption, ZomeOK, UNCHANGED zomeVars
  PROVE  Grows
<1>1. Made' = Made /\ last \in Nat
  BY DEF Made, zomeVars, ZomeOK, MediumsStoreAssumption
<1> QED BY <1>1 DEF Grows, ZomeOK, zomeVars

\* A call goes out, with an answer of records there are that are not deleted.
Sends(c) ==
  \E op, arg : \E es \in Seq(Shows) :
    /\ Begin(c, op, arg, es)
    /\ \A e \in ToSet(es) : e.hash \in 1 .. last' /\ e.hash \notin dead
    /\ \A s \in Statuses : <<op, s>> \in Fetches => Once(es) /\ \A e \in ToSet(es) : e.status = s
    /\ op = "delete" => arg \in dead'
    /\ UNCHANGED storeVars

\* A call comes back: the arrays show what they did and what the call is answered
\* with, and after a deletion not what is deleted.
Returns(c) ==
  /\ End(c)
  /\ UNCHANGED zomeVars
  /\ ArraysOK(arrays')
  /\ Shown' \subseteq Shown \cup HashesOf(calls[c].answer)
  /\ \/ deleted' = deleted
     \/ /\ calls[c].op = "delete"
        /\ deleted' = deleted \cup {calls[c].arg}
        /\ calls[c].arg \notin Shown'

\* Nothing of the calls changes, and the arrays show nothing new.
Rests ==
  /\ UNCHANGED calls
  /\ loading' \in BOOLEAN
  /\ ArraysOK(arrays')
  /\ Shown' \subseteq Shown
  /\ UNCHANGED deleted

LEMMA MadeGrows ==
  ASSUME MediumsStoreAssumption, ZomeOK, Grows
  PROVE  Made \subseteq Made'
BY DEF Grows, ZomeOK, Made, MediumsStoreAssumption

LEMMA ArraysStay ==
  ASSUME Made \subseteq Made', ArraysOK(arrays')
  PROVE  ArraysOK(arrays)'
<1>1. PICK to : to = arrays'
  OBVIOUS
<1>2. Tidy(to, Names, Shows) /\ Agree(to) /\ \A n \in Names : \A e \in ToSet(to[n]) : e.hash \in Made
  BY <1>1 DEF ArraysOK, Known
<1>3. \A n \in Names : \A e \in ToSet(to[n]) : e.hash \in Made'
  BY <1>2
<1>4. Tidy(arrays, Names, Shows)' /\ Agree(arrays)'
  BY <1>1, <1>2
<1>5. \A n \in Names : Known(arrays[n])'
  BY <1>1, <1>3 DEF Known
<1> QED BY <1>4, <1>5 DEF ArraysOK

LEMMA CallStays ==
  ASSUME Made \subseteq Made', NEW c \in Callers, NEW d \in Callers, CallOK(calls[c]),
         calls'[d] = calls[c]
  PROVE  CallOK(calls[d])'
BY DEF CallOK, Known

LEMMA IdleIs == CallOK(Idle) /\ Idle.op # "delete" /\ HashesOf(Idle.answer) = {}
<1>1. <<>> \in Seq(Shows) /\ ToSet(<<>>) = {} /\ Once(<<>>)
  BY NothingIs
<1>2. Idle.answer = <<>> /\ Idle.op = "none"
  BY DEF Idle
<1> QED BY <1>1, <1>2 DEF CallOK, Known, HashesOf

LEMMA SendsKeeps ==
  ASSUME MediumsStoreAssumption, MInv, Grows, NEW c \in Callers, Sends(c)
  PROVE  MInv'
<1>1. PICK op, arg : \E es \in Seq(Shows) :
        /\ Begin(c, op, arg, es)
        /\ \A e \in ToSet(es) : e.hash \in 1 .. last' /\ e.hash \notin dead
        /\ \A s \in Statuses : <<op, s>> \in Fetches => Once(es) /\ \A e \in ToSet(es) : e.status = s
        /\ op = "delete" => arg \in dead'
        /\ UNCHANGED storeVars
  BY DEF Sends
<1>0. PICK es \in Seq(Shows) :
        /\ Begin(c, op, arg, es)
        /\ \A e \in ToSet(es) : e.hash \in 1 .. last' /\ e.hash \notin dead
        /\ \A s \in Statuses : <<op, s>> \in Fetches => Once(es) /\ \A e \in ToSet(es) : e.status = s
        /\ UNCHANGED storeVars
  BY <1>1
<1>2. Made \subseteq Made'
  BY MadeGrows DEF MInv
<1>3. DOMAIN calls' = Callers
  BY <1>0 DEF Begin, MInv
<1>4. ASSUME NEW d \in Callers PROVE CallOK(calls[d])'
  <2>1. CASE d = c
    <3>1. PICK r : r = [op |-> op, arg |-> arg, answer |-> es]
      OBVIOUS
    <3>2. calls'[d] = r /\ r.op = op /\ r.answer = es
      BY <1>0, <2>1, <3>1 DEF Begin, MInv
    <3>3. \A e \in ToSet(es) : e.hash \in Made'
      BY <1>0 DEF Made
    <3> QED BY <1>0, <3>2, <3>3 DEF CallOK, Known
  <2>2. CASE d # c
    <3>1. calls'[d] = calls[d] /\ CallOK(calls[d])
      BY <1>0, <2>2 DEF Begin, MInv
    <3> QED BY <1>2, <3>1, CallStays
  <2> QED BY <2>1, <2>2
<1>5. ArraysOK(arrays)'
  <2>1. ArraysOK(arrays')
    BY <1>0 DEF storeVars, MInv
  <2> QED BY <1>2, <2>1, ArraysStay
<1>6. loading' \in BOOLEAN
  BY <1>0 DEF Begin
<1> QED BY <1>3, <1>4, <1>5, <1>6 DEF MInv, Grows

LEMMA ReturnsKeeps ==
  ASSUME MediumsStoreAssumption, MInv, NEW c \in Callers, Returns(c)
  PROVE  MInv'
<1>1. Grows /\ Made \subseteq Made'
  BY ZomeRests, MadeGrows DEF Returns, MInv
<1>2. DOMAIN calls' = Callers /\ calls'[c] = Idle /\ loading' \in BOOLEAN
      /\ \A d \in Callers : d # c => calls'[d] = calls[d]
  BY DEF Returns, End, MInv
<1>3. ASSUME NEW d \in Callers PROVE CallOK(calls[d])'
  <2>1. CASE d = c
    <3>1. calls'[d] = Idle /\ CallOK(Idle)
      BY <1>2, <2>1, IdleIs
    <3> QED BY <1>1, <3>1 DEF CallOK, Known
  <2>2. CASE d # c
    <3>1. calls'[d] = calls[d] /\ CallOK(calls[d])
      BY <1>2, <2>2 DEF MInv
    <3> QED BY <1>1, <3>1, CallStays
  <2> QED BY <2>1, <2>2
<1>4. ArraysOK(arrays)'
  BY <1>1, ArraysStay DEF Returns
<1> QED BY <1>1, <1>2, <1>3, <1>4 DEF MInv, Grows

LEMMA RestsKeeps ==
  ASSUME MediumsStoreAssumption, MInv, Grows, Rests
  PROVE  MInv'
<1>1. Made \subseteq Made'
  BY MadeGrows DEF MInv
<1>2. \A d \in Callers : CallOK(calls[d])'
  BY <1>1, CallStays DEF Rests, MInv
<1>3. ArraysOK(arrays)'
  BY <1>1, ArraysStay DEF Rests
<1> QED BY <1>2, <1>3 DEF MInv, Rests, Grows

\* The user waits for each call.
OneCaller == \A c, d \in Callers : c = d

LEMMA SendsAway ==
  ASSUME OneCaller, MInv, MGone, Grows, NEW c \in Callers, Sends(c)
  PROVE  MGone'
<1>1. PICK op, arg : \E es \in Seq(Shows) :
        /\ Begin(c, op, arg, es)
        /\ \A e \in ToSet(es) : e.hash \in 1 .. last' /\ e.hash \notin dead
        /\ \A s \in Statuses : <<op, s>> \in Fetches => Once(es) /\ \A e \in ToSet(es) : e.status = s
        /\ op = "delete" => arg \in dead'
        /\ UNCHANGED storeVars
  BY DEF Sends
<1>2. PICK es \in Seq(Shows) :
        /\ Begin(c, op, arg, es)
        /\ \A e \in ToSet(es) : e.hash \notin dead
        /\ op = "delete" => arg \in dead'
        /\ UNCHANGED storeVars
  BY <1>1
<1>3. dead \subseteq dead' /\ deleted' = deleted /\ deleted' \subseteq dead
  BY <1>2 DEF Grows, MGone, storeVars
<1>4. deleted' \cap Shown' = {}
  BY <1>2 DEF MGone, storeVars, Shown
<1>5. calls'[c].op = op /\ calls'[c].arg = arg /\ calls'[c].answer = es
  BY <1>2 DEF Begin, MInv
<1>6. \A d \in Callers : d = c
  BY DEF OneCaller
<1>7. HashesOf(es) \cap deleted' = {}
  BY <1>2, <1>3 DEF HashesOf
<1>8. \A d \in Callers : HashesOf(calls'[d].answer) \cap deleted' = {}
  BY <1>5, <1>6, <1>7
<1>9. \A d \in Callers : calls'[d].op = "delete" => calls'[d].arg \in dead'
  BY <1>2, <1>5, <1>6
<1> QED BY <1>3, <1>4, <1>8, <1>9 DEF MGone

LEMMA ReturnsAway ==
  ASSUME OneCaller, MInv, MGone, NEW c \in Callers, Returns(c)
  PROVE  MGone'
<1>1. dead' = dead /\ calls'[c] = Idle /\ Shown' \subseteq Shown \cup HashesOf(calls[c].answer)
  BY DEF Returns, End, MInv, zomeVars
<1>2. \A d \in Callers : d = c
  BY DEF OneCaller
<1>3. Idle.op # "delete" /\ HashesOf(Idle.answer) = {}
  BY IdleIs
<1>4. deleted' \subseteq dead
  BY DEF Returns, MGone
<1>5. deleted' \cap Shown' = {}
  BY <1>1 DEF Returns, MGone
<1>6. \A d \in Callers : calls'[d] = Idle
  BY <1>1, <1>2
<1> QED BY <1>1, <1>3, <1>4, <1>5, <1>6 DEF MGone

LEMMA RestsAway ==
  ASSUME MGone, Grows, Rests
  PROVE  MGone'
<1>1. calls' = calls /\ deleted' = deleted /\ dead \subseteq dead' /\ Shown' \subseteq Shown
  BY DEF Rests, Grows
<1> QED BY <1>1 DEF MGone

\* The arrays to show hashes of arrs and of es only.
From(to, arrs, es) ==
  \A n \in Names : \A x \in ToSet(to[n]) :
    x.hash \in HashesOf(es) \/ \E m \in Names : x.hash \in HashesOf(arrs[m])

LEMMA SyncEachFrom ==
  ASSUME NEW arrs, ArraysOK(arrs), NEW es \in Seq(Shows), Known(es)
  PROVE  From(SyncEach(arrs, es), arrs, es)
<1>1. AddedAll(SyncEach(arrs, es), arrs, es, Names)
  BY SyncEachAgrees
<1> QED BY <1>1 DEF AddedAll, From, HashesOf

LEMMA AllReplaced ==
  ASSUME NEW arrs, ArraysOK(arrs), NEW es \in Seq(Shows), Known(es), Once(es)
  PROVE  /\ ArraysOK([SyncEach(arrs, es) EXCEPT !["all"] = es])
         /\ From([SyncEach(arrs, es) EXCEPT !["all"] = es], arrs, es)
<1>1. PICK sync : sync = SyncEach(arrs, es)
  OBVIOUS
<1>2. ArraysOK(sync) /\ AddedAll(sync, arrs, es, Names) /\ From(sync, arrs, es)
  BY <1>1, SyncEachAgrees, SyncEachFrom
<1>3. PICK to : to = [sync EXCEPT !["all"] = es]
  OBVIOUS
<1>4. /\ DOMAIN to = Names /\ to["all"] = es /\ \A s \in Statuses : s # "all" /\ s \in Names
      /\ \A n \in Names : n # "all" => to[n] = sync[n] /\ n \in Statuses
      /\ "all" \in Names
  BY <1>2, <1>3 DEF ArraysOK, Tidy, Names, Statuses
<1>5. Tidy(to, Names, Shows)
  BY <1>2, <1>4 DEF Tidy, ArraysOK
<1>6. \A n \in Names : Known(to[n])
  BY <1>2, <1>4 DEF ArraysOK
<1>7. Agree(to)
  <2>1. ASSUME NEW s \in Statuses, NEW x \in ToSet(to["all"]), NEW y \in ToSet(to[s]),
               x.hash = y.hash
        PROVE  x.status = s
    <3>1. x \in ToSet(es) /\ y \in ToSet(sync[s]) /\ s \in Names /\ s # "all"
      BY <1>4
    <3>2. y.hash \in HashesOf(es)
      BY <2>1, <3>1 DEF HashesOf
    <3>3. y \in ToSet(es) /\ s = y.status
      BY <1>2, <3>1, <3>2 DEF AddedAll
    <3>4. x = y
      <4>1. PICK i \in 1 .. Len(es) : es[i] = x
        BY <3>1, Members
      <4>2. PICK j \in 1 .. Len(es) : es[j] = y
        BY <3>3, Members
      <4>3. i = j
        BY <2>1, <4>1, <4>2, Members DEF Once
      <4> QED BY <4>1, <4>2, <4>3
    <3> QED BY <3>3, <3>4
  <2>2. \A s \in Statuses : to[s] = sync[s]
    BY <1>4
  <2> QED BY <1>2, <2>1, <2>2 DEF Agree, ArraysOK
<1>8. From(to, arrs, es)
  BY <1>2, <1>4 DEF From, HashesOf
<1> QED BY <1>1, <1>3, <1>5, <1>6, <1>7, <1>8 DEF ArraysOK

LEMMA StatusReplaced ==
  ASSUME NEW arrs, ArraysOK(arrs), NEW es \in Seq(Shows), Known(es), Once(es),
         NEW s \in Statuses, \A x \in ToSet(es) : x.status = s
  PROVE  /\ ArraysOK([SyncEach(arrs, es) EXCEPT ![s] = es])
         /\ From([SyncEach(arrs, es) EXCEPT ![s] = es], arrs, es)
<1>1. PICK sync : sync = SyncEach(arrs, es)
  OBVIOUS
<1>2. ArraysOK(sync) /\ AddedAll(sync, arrs, es, Names) /\ From(sync, arrs, es)
  BY <1>1, SyncEachAgrees, SyncEachFrom
<1>3. PICK to : to = [sync EXCEPT ![s] = es]
  OBVIOUS
<1>4. /\ DOMAIN to = Names /\ to[s] = es
      /\ \A t \in Statuses : t # "all" /\ t \in Names
      /\ \A n \in Names : n # s => to[n] = sync[n]
      /\ "all" \in Names
  BY <1>2, <1>3 DEF ArraysOK, Tidy, Names, Statuses
<1>5. Tidy(to, Names, Shows)
  BY <1>2, <1>4 DEF Tidy, ArraysOK
<1>6. \A n \in Names : Known(to[n])
  BY <1>2, <1>4 DEF ArraysOK
<1>7. ASSUME NEW n \in Names, NEW x \in ToSet(sync[n]), NEW y \in ToSet(es), x.hash = y.hash
      PROVE  x.status = s /\ n \in {"all", s}
  <2>1. x.hash \in HashesOf(es)
    BY <1>7 DEF HashesOf
  <2>2. x \in ToSet(es) /\ n \in {"all", x.status}
    BY <1>2, <2>1 DEF AddedAll
  <2> QED BY <2>2
<1>8. Agree(to)
  <2>1. ASSUME NEW t \in Statuses, NEW x \in ToSet(to[t]) PROVE x.status = t
    BY <1>2, <1>4 DEF ArraysOK, Agree
  <2>2. ASSUME NEW t \in Statuses, NEW u \in Statuses, NEW x \in ToSet(to[t]), NEW y \in ToSet(to[u]),
               x.hash = y.hash
        PROVE  t = u
    <3>1. CASE t # s /\ u # s
      BY <1>2, <1>4, <2>2, <3>1 DEF ArraysOK, Agree
    <3>2. CASE t = s /\ u # s
      BY <1>4, <1>7, <2>2, <3>2
    <3>3. CASE t # s /\ u = s
      BY <1>4, <1>7, <2>2, <3>3
    <3> QED BY <3>1, <3>2, <3>3
  <2>3. ASSUME NEW t \in Statuses, NEW x \in ToSet(to["all"]), NEW y \in ToSet(to[t]),
               x.hash = y.hash
        PROVE  x.status = t
    <3>1. x \in ToSet(sync["all"])
      BY <1>4
    <3>2. CASE t = s
      BY <1>4, <1>7, <2>3, <3>1, <3>2
    <3>3. CASE t # s
      BY <1>2, <1>4, <2>3, <3>1, <3>3 DEF ArraysOK, Agree
    <3> QED BY <3>2, <3>3
  <2> QED BY <2>1, <2>2, <2>3 DEF Agree
<1>9. From(to, arrs, es)
  BY <1>2, <1>4 DEF From, HashesOf
<1> QED BY <1>1, <1>3, <1>5, <1>6, <1>8, <1>9 DEF ArraysOK

LEMMA RemoveAgrees ==
  ASSUME NEW arrs, ArraysOK(arrs), NEW h
  PROVE  /\ ArraysOK(SyncRemove(arrs, h))
         /\ From(SyncRemove(arrs, h), arrs, <<>>)
         /\ \A n \in Names : h \notin HashesOf(SyncRemove(arrs, h)[n])
<1>1. PICK to : to = SyncRemove(arrs, h)
  OBVIOUS
<1>2. Tidy(to, Names, Shows) /\ Dropped(to, arrs, h, Names)
  BY <1>1, SyncRemoveIs DEF ArraysOK
<1>3. \A n \in Names : ToSet(to[n]) \subseteq ToSet(arrs[n])
  BY <1>2 DEF Dropped
<1>4. Statuses \subseteq Names /\ "all" \in Names
  BY DEF Names
<1>5. \A n \in Names : Known(to[n])
  BY <1>3 DEF Known, ArraysOK
<1>6. Agree(to)
  BY <1>3, <1>4 DEF ArraysOK, Agree
<1>7. From(to, arrs, <<>>)
  BY <1>3 DEF From, HashesOf
<1>8. \A n \in Names : h \notin HashesOf(to[n])
  BY <1>2 DEF Dropped, HashesOf
<1> QED BY <1>1, <1>2, <1>5, <1>6, <1>7, <1>8 DEF ArraysOK

LEMMA TransitionAgrees ==
  ASSUME MediumsStoreAssumption, ZomeOK, NEW arrs, ArraysOK(arrs), NEW h, NEW s \in Statuses
  PROVE  /\ ArraysOK(TransitionMedium(arrs, h, s))
         /\ From(TransitionMedium(arrs, h, s), arrs, <<>>)
<1>1. CASE ~Lists(arrs["pending"], h)
  <2>1. TransitionMedium(arrs, h, s) = arrs
    BY <1>1 DEF TransitionMedium
  <2> QED BY <2>1 DEF From, HashesOf
<1>2. CASE Lists(arrs["pending"], h)
  <2>0. PICK e : e = Entity(h, s)
    OBVIOUS
  <2>1. TransitionMedium(arrs, h, s) = SyncAdd(arrs, e)
    BY <1>2, <2>0 DEF TransitionMedium, SyncCacheToState
  <2>2. "pending" \in Names /\ arrs["pending"] \in Seq(Shows) /\ Known(arrs["pending"])
    BY DEF ArraysOK, Tidy, Names, Statuses
  <2>3. h \in HashesOf(arrs["pending"])
    BY <1>2, <2>2, ListsIs
  <2>4. h \in Made /\ h \in Hashes
    <3>1. h \in Made
      BY <2>2, <2>3 DEF Known, HashesOf
    <3> QED BY <3>1 DEF Made, Hashes, ZomeOK, MediumsStoreAssumption
  <2>5. e \in Shows /\ e.hash = h
    BY <2>0, <2>4, EntityIs
  <2>6. ArraysOK(SyncAdd(arrs, e)) /\ Added(SyncAdd(arrs, e), arrs, e, Names)
    BY <2>4, <2>5, SyncAddAgrees, SyncAddIs DEF ArraysOK
  <2>7. From(SyncAdd(arrs, e), arrs, <<>>)
    <3>1. PICK to : to = SyncAdd(arrs, e)
      OBVIOUS
    <3>2. ASSUME NEW n \in Names, NEW x \in ToSet(to[n])
          PROVE  \E m \in Names : x.hash \in HashesOf(arrs[m])
      <4>1. (x \in ToSet(arrs[n]) /\ x.hash # e.hash) \/ x = e
        BY <2>6, <3>1 DEF Added
      <4>2. CASE x = e
        BY <2>2, <2>3, <2>5, <4>2
      <4>3. CASE x \in ToSet(arrs[n])
        BY <4>3 DEF HashesOf
      <4> QED BY <4>1, <4>2, <4>3
    <3> QED BY <3>1, <3>2 DEF From
  <2> QED BY <2>1, <2>6, <2>7
<1> QED BY <1>1, <1>2

\* Arrays that show hashes of what the store had, and of the answer.
LEMMA FromShown ==
  ASSUME NEW es, From(arrays', arrays, es), ArraysOK(arrays), ArraysOK(arrays')
  PROVE  Shown' \subseteq Shown \cup HashesOf(es)
<1>1. DOMAIN arrays = Names /\ DOMAIN arrays' = Names
  BY DEF ArraysOK, Tidy
<1> SUFFICES ASSUME NEW h \in Shown' PROVE h \in Shown \cup HashesOf(es)
  OBVIOUS
<1>2. PICK n \in Names : \E x \in ToSet(arrays'[n]) : x.hash = h
  BY <1>1 DEF Shown
<1> PICK x \in ToSet(arrays'[n]) : x.hash = h
  BY <1>2
<1>3. CASE x.hash \in HashesOf(es)
  BY <1>2, <1>3
<1>4. CASE \E m \in Names : x.hash \in HashesOf(arrays[m])
  <2>1. PICK m \in Names : \E y \in ToSet(arrays[m]) : y.hash = x.hash
    BY <1>4 DEF HashesOf
  <2> QED BY <1>1, <1>2, <2>1 DEF Shown
<1> QED BY <1>2, <1>3, <1>4 DEF From

LEMMA LeaveReturns ==
  ASSUME MInv, NEW c \in Callers, NEW to, Leave(c, to), ArraysOK(to),
         From(to, arrays, calls[c].answer)
  PROVE  Returns(c)
<1>1. End(c) /\ arrays' = to /\ UNCHANGED zomeVars /\ deleted' = deleted
  BY DEF Leave
<1>2. ArraysOK(arrays') /\ From(arrays', arrays, calls[c].answer)
  BY <1>1
<1>3. Shown' \subseteq Shown \cup HashesOf(calls[c].answer)
  BY <1>2, FromShown DEF MInv
<1> QED BY <1>1, <1>2, <1>3 DEF Returns

\* The answer is added to the arrays.
LEMMA SyncReturns ==
  ASSUME MInv, NEW c \in Callers, Leave(c, SyncEach(arrays, calls[c].answer))
  PROVE  Returns(c)
<1>1. PICK es : es = calls[c].answer
  OBVIOUS
<1>2. es \in Seq(Shows) /\ Known(es) /\ ArraysOK(arrays)
  BY <1>1 DEF MInv, CallOK
<1>3. PICK to : to = SyncEach(arrays, es)
  OBVIOUS
<1>4. ArraysOK(to) /\ From(to, arrays, es)
  BY <1>2, <1>3, SyncEachAgrees, SyncEachFrom
<1> QED BY <1>1, <1>3, <1>4, LeaveReturns

\* A new medium, or a new revision, goes out as the answer.
LEMMA NewSends ==
  ASSUME MediumsStoreAssumption, MInv, NEW c \in Callers, NEW s \in Statuses,
         last < MaxHashes, last' = last + 1, NEW op, NEW arg, op # "delete",
         \A t \in Statuses : <<op, t>> \notin Fetches,
         Begin(c, op, arg, <<Entity(last + 1, s)>>), UNCHANGED storeVars
  PROVE  Sends(c)
<1>1. PICK es : es = <<Entity(last + 1, s)>>
  OBVIOUS
<1>2. es \in Seq(Shows) /\ \A e \in ToSet(es) : e.hash = last + 1 /\ e.hash \notin dead
  BY <1>1, FreshIs DEF MInv
<1>3. last + 1 \in 1 .. last'
  BY DEF MInv, ZomeOK, MediumsStoreAssumption
<1>4. \A e \in ToSet(es) : e.hash \in 1 .. last' /\ e.hash \notin dead
  BY <1>2, <1>3
<1> QED BY <1>1, <1>2, <1>4 DEF Sends

\* A call is answered with the entities of records.
LEMMA ReadSends ==
  ASSUME MediumsStoreAssumption, MInv, NEW c \in Callers, NEW s \in Statuses, NEW hs, hs \subseteq Made,
         NEW op, NEW arg, op # "delete", \A t \in Statuses : <<op, t>> \in Fetches => t = s,
         Read(c, op, arg, Entities(hs, s))
  PROVE  Grows /\ Sends(c)
<1>1. PICK es : es = Entities(hs, s)
  OBVIOUS
<1>2. /\ es \in Seq(Shows) /\ Once(es)
      /\ \A e \in ToSet(es) : e.hash \in Made /\ e.hash \notin dead /\ e.status = s
  BY <1>1, EntitiesIs DEF MInv
<1>3. Begin(c, op, arg, es) /\ UNCHANGED zomeVars /\ UNCHANGED storeVars
  BY <1>1 DEF Read
<1>4. Grows
  BY <1>3, ZomeRests DEF MInv
<1>5. \A e \in ToSet(es) : e.hash \in 1 .. last' /\ e.hash \notin dead
  BY <1>2, <1>3 DEF zomeVars, Made
<1> QED BY <1>2, <1>3, <1>4, <1>5 DEF Sends

LEMMA EmptySends ==
  ASSUME NEW c \in Callers, NEW op, NEW arg, Begin(c, op, arg, <<>>), UNCHANGED storeVars,
         op = "delete" => arg \in dead'
  PROVE  Sends(c)
<1>1. PICK es : es = <<>>
  OBVIOUS
<1>2. es \in Seq(Shows) /\ ToSet(es) = {} /\ Once(es)
  BY <1>1, NothingIs
<1> QED BY <1>1, <1>2 DEF Sends

\* A step of a call.
Steps(c) == Grows /\ (Sends(c) \/ Returns(c))

LEMMA ReturnsSteps ==
  ASSUME MediumsStoreAssumption, MInv, NEW c \in Callers, Returns(c)
  PROVE  Steps(c)
BY ZomeRests DEF Steps, Returns, MInv

LEMMA CreateSteps ==
  ASSUME MediumsStoreAssumption, MInv, NEW c \in Callers, CreateMediumOfExchange(c)
  PROVE  Steps(c)
<1>0. "approved" \in Statuses /\ "create" # "delete" /\ \A t \in Statuses : <<"create", t>> \notin Fetches
  BY DEF Statuses, Fetches
<1>1. ASSUME NewMedium("approved"), Begin(c, "create", 0, <<Entity(last + 1, "approved")>>),
             UNCHANGED storeVars
      PROVE  Steps(c)
  <2>1. last < MaxHashes /\ last' = last + 1 /\ Grows
    BY <1>0, <1>1, NewMediumIs DEF NewMedium, MInv
  <2> QED BY <1>0, <1>1, <2>1, NewSends DEF Steps
<1>2. ASSUME Leave(c, SyncEach(arrays, calls[c].answer)) PROVE Steps(c)
  BY <1>2, SyncReturns, ReturnsSteps
<1> QED BY <1>1, <1>2 DEF CreateMediumOfExchange

LEMMA SuggestSteps ==
  ASSUME MediumsStoreAssumption, MInv, NEW c \in Callers, SuggestMediumOfExchange(c)
  PROVE  Steps(c)
<1>0. "pending" \in Statuses /\ "suggest" # "delete" /\ \A t \in Statuses : <<"suggest", t>> \notin Fetches
  BY DEF Statuses, Fetches
<1>1. ASSUME NewMedium("pending"), Begin(c, "suggest", 0, <<Entity(last + 1, "pending")>>),
             UNCHANGED storeVars
      PROVE  Steps(c)
  <2>1. last < MaxHashes /\ last' = last + 1 /\ Grows
    BY <1>0, <1>1, NewMediumIs DEF NewMedium, MInv
  <2> QED BY <1>0, <1>1, <2>1, NewSends DEF Steps
<1>2. ASSUME Leave(c, SyncEach(arrays, calls[c].answer)) PROVE Steps(c)
  BY <1>2, SyncReturns, ReturnsSteps
<1> QED BY <1>1, <1>2 DEF SuggestMediumOfExchange

LEMMA GetSteps ==
  ASSUME MediumsStoreAssumption, MInv, NEW c \in Callers, NEW h \in Made,
         GetMediumOfExchange(c, h) \/ GetLatestMediumOfExchangeRecord(c, h)
  PROVE  Steps(c)
<1>0. /\ "approved" \in Statuses /\ "get" # "delete" /\ "getLatest" # "delete"
      /\ \A t \in Statuses : <<"get", t>> \notin Fetches /\ <<"getLatest", t>> \notin Fetches
      /\ {h} \subseteq Made /\ {latest[h]} \subseteq Made
  <2>1. h \in Hashes
    BY DEF MInv, ZomeOK, Made, Hashes, MediumsStoreAssumption
  <2> QED BY <2>1 DEF Statuses, Fetches, MInv, ZomeOK
<1>1. ASSUME Read(c, "get", h, Entities({h}, "approved")) PROVE Steps(c)
  BY <1>0, <1>1, ReadSends DEF Steps
<1>2. ASSUME Read(c, "getLatest", h, Entities({latest[h]}, "approved")) PROVE Steps(c)
  BY <1>0, <1>2, ReadSends DEF Steps
<1>3. ASSUME Leave(c, SyncEach(arrays, calls[c].answer)) PROVE Steps(c)
  BY <1>3, SyncReturns, ReturnsSteps
<1> QED BY <1>1, <1>2, <1>3 DEF GetMediumOfExchange, GetLatestMediumOfExchangeRecord

\* What a call for one list is answered with.
LEMMA FetchIs ==
  ASSUME MInv, NEW c \in Callers, NEW s \in Statuses, <<calls[c].op, s>> \in Fetches
  PROVE  /\ calls[c].answer \in Seq(Shows) /\ Known(calls[c].answer) /\ Once(calls[c].answer)
         /\ \A x \in ToSet(calls[c].answer) : x.status = s
BY DEF MInv, CallOK

LEMMA GetAllSteps ==
  ASSUME MediumsStoreAssumption, MInv, NEW c \in Callers, GetAllMediumsOfExchange(c)
  PROVE  Steps(c)
<1>0. /\ "pending" \in Statuses /\ "getAll" # "delete" /\ <<"getAll", "pending">> \in Fetches
      /\ \A t \in Statuses : <<"getAll", t>> \in Fetches => t = "pending"
      /\ mediums \subseteq Made
  BY DEF Statuses, Fetches, MInv, ZomeOK
<1>1. ASSUME Read(c, "getAll", 0, Entities(mediums, "pending")) PROVE Steps(c)
  BY <1>0, <1>1, ReadSends DEF Steps
<1>2. ASSUME UnderWay(c, "getAll", 0),
             Leave(c, [SyncEach(arrays, calls[c].answer) EXCEPT !["all"] = calls[c].answer])
      PROVE  Steps(c)
  <2>1. PICK es : es = calls[c].answer
    OBVIOUS
  <2>2. es \in Seq(Shows) /\ Known(es) /\ Once(es) /\ ArraysOK(arrays)
    BY <1>0, <1>2, <2>1, FetchIs DEF UnderWay, MInv
  <2>3. PICK to : to = [SyncEach(arrays, es) EXCEPT !["all"] = es]
    OBVIOUS
  <2>4. ArraysOK(to) /\ From(to, arrays, es)
    BY <2>2, <2>3, AllReplaced
  <2> QED BY <1>2, <2>1, <2>3, <2>4, LeaveReturns, ReturnsSteps
<1> QED BY <1>1, <1>2 DEF GetAllMediumsOfExchange

LEMMA GetByStatusSteps ==
  ASSUME MediumsStoreAssumption, MInv, NEW c \in Callers, NEW op, NEW s \in Statuses, op # "delete",
         <<op, s>> \in Fetches, \A t \in Statuses : <<op, t>> \in Fetches => t = s,
         GetByStatus(c, op, s)
  PROVE  Steps(c)
<1>0. lists[s] \subseteq Made
  BY DEF MInv, ZomeOK
<1>1. ASSUME Read(c, op, 0, ByStatus(s)) PROVE Steps(c)
  <2>1. Read(c, op, 0, Entities(lists[s], s))
    BY <1>1 DEF ByStatus
  <2>2. PICK hs : hs = lists[s]
    OBVIOUS
  <2> QED BY <1>0, <2>1, <2>2, ReadSends DEF Steps
<1>2. ASSUME UnderWay(c, op, 0),
             Leave(c, [SyncEach(arrays, calls[c].answer) EXCEPT ![s] = calls[c].answer])
      PROVE  Steps(c)
  <2>1. PICK es : es = calls[c].answer
    OBVIOUS
  <2>2. /\ es \in Seq(Shows) /\ Known(es) /\ Once(es) /\ ArraysOK(arrays)
        /\ \A x \in ToSet(es) : x.status = s
    BY <1>2, <2>1, FetchIs DEF UnderWay, MInv
  <2>3. PICK to : to = [SyncEach(arrays, es) EXCEPT ![s] = es]
    OBVIOUS
  <2>4. ArraysOK(to) /\ From(to, arrays, es)
    BY <2>2, <2>3, StatusReplaced
  <2> QED BY <1>2, <2>1, <2>3, <2>4, LeaveReturns, ReturnsSteps
<1> QED BY <1>1, <1>2 DEF GetByStatus

LEMMA GetOneListSteps ==
  ASSUME MediumsStoreAssumption, MInv, NEW c \in Callers,
         \/ GetPendingMediumsOfExchange(c) \/ GetApprovedMediumsOfExchange(c)
         \/ GetRejectedMediumsOfExchange(c)
  PROVE  Steps(c)
<1>1. CASE GetPendingMediumsOfExchange(c)
  <2>1. /\ "pending" \in Statuses /\ "getPending" # "delete" /\ <<"getPending", "pending">> \in Fetches
        /\ \A t \in Statuses : <<"getPending", t>> \in Fetches => t = "pending"
    BY DEF Statuses, Fetches
  <2> QED BY <1>1, <2>1, GetByStatusSteps DEF GetPendingMediumsOfExchange
<1>2. CASE GetApprovedMediumsOfExchange(c)
  <2>1. /\ "approved" \in Statuses /\ "getApproved" # "delete" /\ <<"getApproved", "approved">> \in Fetches
        /\ \A t \in Statuses : <<"getApproved", t>> \in Fetches => t = "approved"
    BY DEF Statuses, Fetches
  <2> QED BY <1>2, <2>1, GetByStatusSteps DEF GetApprovedMediumsOfExchange
<1>3. CASE GetRejectedMediumsOfExchange(c)
  <2>1. /\ "rejected" \in Statuses /\ "getRejected" # "delete" /\ <<"getRejected", "rejected">> \in Fetches
        /\ \A t \in Statuses : <<"getRejected", t>> \in Fetches => t = "rejected"
    BY DEF Statuses, Fetches
  <2> QED BY <1>3, <2>1, GetByStatusSteps DEF GetRejectedMediumsOfExchange
<1> QED BY <1>1, <1>2, <1>3

LEMMA EmptyFrom ==
  ASSUME NEW to, NEW arrs, NEW es, From(to, Empty, es)
  PROVE  From(to, arrs, es)
<1>1. \A n \in Names : Empty[n] = <<>>
  BY DEF Empty, Names
<1>2. \A n \in Names : HashesOf(Empty[n]) = {}
  BY <1>1, NothingIs DEF HashesOf
<1> QED BY <1>2 DEF From

LEMMA GetAllByStatusSteps ==
  ASSUME MediumsStoreAssumption, MInv, NEW c \in Callers, GetAllMediumsOfExchangeByStatus(c)
  PROVE  Steps(c)
<1> DEFINE es == ByStatus("pending") \o ByStatus("approved") \o ByStatus("rejected")
<1>0. "getAllByStatus" # "delete" /\ \A t \in Statuses : <<"getAllByStatus", t>> \notin Fetches
  BY DEF Statuses, Fetches
<1>1. ASSUME Read(c, "getAllByStatus", 0, es) PROVE Steps(c)
  <2>1. \A s \in Statuses : lists[s] \subseteq Made
    BY DEF MInv, ZomeOK
  <2>2. ASSUME NEW s \in Statuses
        PROVE  /\ ByStatus(s) \in Seq(Shows)
               /\ \A e \in ToSet(ByStatus(s)) : e.hash \in Made /\ e.hash \notin dead
    BY <2>1, EntitiesIs DEF MInv, ByStatus
  <2>3. PICK p, a, r : p = ByStatus("pending") /\ a = ByStatus("approved") /\ r = ByStatus("rejected")
    OBVIOUS
  <2>4. /\ p \in Seq(Shows) /\ a \in Seq(Shows) /\ r \in Seq(Shows)
        /\ \A e \in ToSet(p) \cup ToSet(a) \cup ToSet(r) : e.hash \in Made /\ e.hash \notin dead
    BY <2>2, <2>3 DEF Statuses
  <2>5. PICK pa : pa = p \o a
    OBVIOUS
  <2>6. pa \in Seq(Shows) /\ ToSet(pa) = ToSet(p) \cup ToSet(a)
    BY <2>4, <2>5, ConcatIs
  <2>7. PICK par : par = pa \o r
    OBVIOUS
  <2>8. par \in Seq(Shows) /\ ToSet(par) = ToSet(pa) \cup ToSet(r)
    BY <2>4, <2>6, <2>7, ConcatIs
  <2>9. es = par
    BY <2>3, <2>5, <2>7
  <2> HIDE DEF es
  <2>10. Begin(c, "getAllByStatus", 0, par) /\ UNCHANGED zomeVars /\ UNCHANGED storeVars
    BY <1>1, <2>9 DEF Read
  <2>11. Grows
    BY <2>10, ZomeRests DEF MInv
  <2>12. \A e \in ToSet(par) : e.hash \in 1 .. last' /\ e.hash \notin dead
    BY <2>4, <2>6, <2>8, <2>10 DEF zomeVars, Made
  <2> QED BY <1>0, <2>8, <2>10, <2>11, <2>12 DEF Steps, Sends
<1>2. ASSUME Leave(c, SyncEach(Empty, calls[c].answer)) PROVE Steps(c)
  <2>1. PICK as : as = calls[c].answer
    OBVIOUS
  <2>2. as \in Seq(Shows) /\ Known(as)
    BY <2>1 DEF MInv, CallOK
  <2>3. PICK to : to = SyncEach(Empty, as)
    OBVIOUS
  <2>4. ArraysOK(to) /\ From(to, Empty, as)
    BY <2>2, <2>3, SyncEachAgrees, SyncEachFrom, EmptyOK
  <2>5. From(to, arrays, as)
    BY <2>4, EmptyFrom
  <2> QED BY <1>2, <2>1, <2>3, <2>4, <2>5, LeaveReturns, ReturnsSteps
<1> QED BY <1>1, <1>2 DEF GetAllMediumsOfExchangeByStatus

LEMMA FromMore ==
  ASSUME NEW to, NEW arrs, NEW es, From(to, arrs, <<>>)
  PROVE  From(to, arrs, es)
<1>1. HashesOf(<<>>) = {}
  BY NothingIs DEF HashesOf
<1> QED BY <1>1 DEF From

LEMMA TransitionReturns ==
  ASSUME MediumsStoreAssumption, MInv, NEW c \in Callers, NEW h, NEW s \in Statuses,
         Leave(c, TransitionMedium(arrays, h, s))
  PROVE  Steps(c)
<1>1. PICK to : to = TransitionMedium(arrays, h, s)
  OBVIOUS
<1>2. ArraysOK(to) /\ From(to, arrays, <<>>)
  BY <1>1, TransitionAgrees DEF MInv
<1>3. From(to, arrays, calls[c].answer)
  BY <1>2, FromMore
<1> QED BY <1>1, <1>2, <1>3, LeaveReturns, ReturnsSteps

LEMMA ModerateSteps ==
  ASSUME MediumsStoreAssumption, MInv, NEW c \in Callers, NEW h \in Made,
         ApproveMediumOfExchange(c, h) \/ RejectMediumOfExchange(c, h)
  PROVE  Steps(c)
<1>0. /\ "approved" \in Statuses /\ "rejected" \in Statuses
      /\ "approve" # "delete" /\ "reject" # "delete"
  BY DEF Statuses
<1>1. ASSUME Approve(h), Begin(c, "approve", h, <<>>), UNCHANGED storeVars PROVE Steps(c)
  <2>1. Grows
    BY <1>1, NewRevisionIs DEF MInv, Approve
  <2>2. Sends(c)
    BY <1>0, <1>1, EmptySends
  <2> QED BY <2>1, <2>2 DEF Steps
<1>2. ASSUME Reject(h), Begin(c, "reject", h, <<>>), UNCHANGED storeVars PROVE Steps(c)
  <2>1. Grows
    BY <1>2, RejectIs DEF MInv
  <2>2. Sends(c)
    BY <1>0, <1>2, EmptySends
  <2> QED BY <2>1, <2>2 DEF Steps
<1>3. ASSUME Leave(c, TransitionMedium(arrays, h, "approved")) PROVE Steps(c)
  BY <1>0, <1>3, TransitionReturns
<1>4. ASSUME Leave(c, TransitionMedium(arrays, h, "rejected")) PROVE Steps(c)
  BY <1>0, <1>4, TransitionReturns
<1> QED BY <1>1, <1>2, <1>3, <1>4 DEF ApproveMediumOfExchange, RejectMediumOfExchange

LEMMA UpdateSteps ==
  ASSUME MediumsStoreAssumption, MInv, NEW c \in Callers, NEW h \in Made, UpdateMediumOfExchange(c, h)
  PROVE  Steps(c)
<1>0. "approved" \in Statuses /\ "update" # "delete" /\ \A t \in Statuses : <<"update", t>> \notin Fetches
  BY DEF Statuses, Fetches
<1>1. ASSUME NewRevision(h), UNCHANGED lists, UNCHANGED storeVars,
             Begin(c, "update", h, <<Entity(last + 1, "approved")>>)
      PROVE  Steps(c)
  <2>1. last < MaxHashes /\ last' = last + 1
    BY <1>1 DEF NewRevision
  <2>2. Grows
    BY <1>1, NewRevisionIs DEF MInv
  <2> QED BY <1>0, <1>1, <2>1, <2>2, NewSends DEF Steps
<1>2. ASSUME Leave(c, SyncEach(SyncRemove(arrays, h), calls[c].answer)) PROVE Steps(c)
  <2>1. PICK es : es = calls[c].answer
    OBVIOUS
  <2>2. PICK rest : rest = SyncRemove(arrays, h)
    OBVIOUS
  <2>3. es \in Seq(Shows) /\ Known(es) /\ ArraysOK(arrays)
    BY <2>1 DEF MInv, CallOK
  <2>4. ArraysOK(rest) /\ From(rest, arrays, <<>>)
    BY <2>2, <2>3, RemoveAgrees
  <2>5. PICK to : to = SyncEach(rest, es)
    OBVIOUS
  <2>6. ArraysOK(to) /\ From(to, rest, es)
    BY <2>3, <2>4, <2>5, SyncEachAgrees, SyncEachFrom
  <2>7. From(to, arrays, es)
    <3>1. HashesOf(<<>>) = {}
      BY NothingIs DEF HashesOf
    <3>2. \A m \in Names : \A k \in HashesOf(rest[m]) : \E n \in Names : k \in HashesOf(arrays[n])
      BY <2>4, <3>1 DEF From, HashesOf
    <3> QED BY <2>6, <3>2 DEF From
  <2> QED BY <1>2, <2>1, <2>2, <2>5, <2>6, <2>7, LeaveReturns, ReturnsSteps
<1> QED BY <1>1, <1>2 DEF UpdateMediumOfExchange

LEMMA DeleteSteps ==
  ASSUME MediumsStoreAssumption, MInv, NEW c \in Callers, NEW h \in Made, DeleteMediumOfExchange(c, h)
  PROVE  Steps(c)
<1>1. ASSUME Delete(h), Begin(c, "delete", h, <<>>), UNCHANGED storeVars PROVE Steps(c)
  <2>1. Grows /\ h \in dead'
    BY <1>1, DeleteIs DEF MInv
  <2> QED BY <1>1, <2>1, EmptySends DEF Steps
<1>2. ASSUME UnderWay(c, "delete", h), End(c), arrays' = SyncRemove(arrays, h),
             deleted' = deleted \cup {h}, UNCHANGED zomeVars
      PROVE  Steps(c)
  <2>1. ArraysOK(arrays)
    BY DEF MInv
  <2>2. /\ ArraysOK(arrays') /\ From(arrays', arrays, <<>>)
        /\ \A n \in Names : h \notin HashesOf(arrays'[n])
    BY <1>2, <2>1, RemoveAgrees
  <2>3. Shown' \subseteq Shown \cup HashesOf(calls[c].answer)
    BY <2>1, <2>2, FromMore, FromShown
  <2>4. h \notin Shown'
    <3>1. DOMAIN arrays' = Names
      BY <2>2 DEF ArraysOK, Tidy
    <3> QED BY <2>2, <3>1 DEF Shown, HashesOf
  <2>5. Returns(c)
    BY <1>2, <2>2, <2>3, <2>4 DEF Returns, UnderWay
  <2> QED BY <2>5, ReturnsSteps
<1> QED BY <1>1, <1>2 DEF DeleteMediumOfExchange

LEMMA FailsSteps ==
  ASSUME MediumsStoreAssumption, MInv, NEW c \in Callers, CallFails(c)
  PROVE  Steps(c) \/ (Grows /\ Rests)
<1>1. UNCHANGED zomeVars /\ UNCHANGED storeVars
  BY DEF CallFails
<1>2. Grows /\ ArraysOK(arrays') /\ Shown' = Shown /\ deleted' = deleted
  BY <1>1, ZomeRests DEF MInv, storeVars, Shown
<1>3. CASE Fail(c)
  BY <1>1, <1>2, <1>3 DEF Fail, Returns, Steps
<1>4. CASE AtOnce(c)
  BY <1>2, <1>4 DEF AtOnce, Rests
<1> QED BY <1>3, <1>4 DEF CallFails

LEMMA InvalidateRests ==
  ASSUME MediumsStoreAssumption, MInv, InvalidateCache
  PROVE  Grows /\ Rests
<1>1. Grows /\ ArraysOK(arrays') /\ arrays' = Empty
  BY ZomeRests, EmptyOK DEF MInv, InvalidateCache
<1>2. Shown' = {}
  <2>1. DOMAIN Empty = Names /\ \A n \in Names : ToSet(Empty[n]) = {}
    BY NothingIs DEF Empty, Names
  <2> QED BY <1>1, <2>1 DEF Shown
<1> QED BY <1>1, <1>2 DEF MInv, InvalidateCache, Rests, callVars

LEMMA ElsewhereRests ==
  ASSUME MediumsStoreAssumption, MInv, Elsewhere
  PROVE  Grows /\ Rests
<1>1. UNCHANGED callVars /\ UNCHANGED storeVars
  BY DEF Elsewhere
<1>2. Rests
  BY <1>1 DEF MInv, Rests, callVars, storeVars, Shown
<1>3. CASE NewMedium("pending")
  <2>1. "pending" \in Statuses
    BY DEF Statuses
  <2> QED BY <1>2, <1>3, <2>1, NewMediumIs DEF MInv
<1>4. ASSUME NEW h \in Made, Approve(h) \/ Reject(h) \/ Delete(h) PROVE Grows
  BY <1>4, NewRevisionIs, RejectIs, DeleteIs DEF MInv, Approve
<1> QED BY <1>2, <1>3, <1>4 DEF Elsewhere

\* Every step is one of a call, or leaves the calls alone.
LEMMA StepIs ==
  ASSUME MediumsStoreAssumption, MInv, [Next]_vars
  PROVE  \/ \E c \in Callers : Steps(c)
         \/ Grows /\ Rests
<1>1. ASSUME NEW c \in Callers, Calls(c) PROVE Steps(c)
  <2>1. ASSUME NEW h \in Made,
               \/ GetMediumOfExchange(c, h) \/ GetLatestMediumOfExchangeRecord(c, h)
               \/ UpdateMediumOfExchange(c, h) \/ DeleteMediumOfExchange(c, h)
               \/ ApproveMediumOfExchange(c, h) \/ RejectMediumOfExchange(c, h)
        PROVE  Steps(c)
    <3>1. CASE GetMediumOfExchange(c, h) \/ GetLatestMediumOfExchangeRecord(c, h)
      BY <3>1, GetSteps
    <3>2. CASE UpdateMediumOfExchange(c, h)
      BY <3>2, UpdateSteps
    <3>3. CASE DeleteMediumOfExchange(c, h)
      BY <3>3, DeleteSteps
    <3>4. CASE ApproveMediumOfExchange(c, h) \/ RejectMediumOfExchange(c, h)
      BY <3>4, ModerateSteps
    <3> QED BY <2>1, <3>1, <3>2, <3>3, <3>4
  <2>2. CASE CreateMediumOfExchange(c)
    BY <2>2, CreateSteps
  <2>3. CASE SuggestMediumOfExchange(c)
    BY <2>3, SuggestSteps
  <2>4. CASE GetAllMediumsOfExchange(c)
    BY <2>4, GetAllSteps
  <2>5. CASE GetAllMediumsOfExchangeByStatus(c)
    BY <2>5, GetAllByStatusSteps
  <2>6. CASE \/ GetPendingMediumsOfExchange(c) \/ GetApprovedMediumsOfExchange(c)
             \/ GetRejectedMediumsOfExchange(c)
    BY <2>6, GetOneListSteps
  <2> QED BY <1>1, <2>1, <2>2, <2>3, <2>4, <2>5, <2>6 DEF Calls
<1>2. CASE UNCHANGED vars
  <2>1. /\ UNCHANGED callVars /\ UNCHANGED zomeVars /\ UNCHANGED storeVars
    BY <1>2 DEF vars
  <2> QED BY <2>1, ZomeRests DEF MInv, Rests, callVars, storeVars, Shown
<1>3. CASE \E c \in Callers : Calls(c) \/ CallFails(c)
  BY <1>1, <1>3, FailsSteps
<1>4. CASE InvalidateCache
  BY <1>4, InvalidateRests
<1>5. CASE Elsewhere
  BY <1>5, ElsewhereRests
<1> QED BY <1>2, <1>3, <1>4, <1>5 DEF Next

LEMMA InitOK ==
  ASSUME MediumsStoreAssumption, Init
  PROVE  MInv /\ MGone
<1>1. /\ calls = [c \in Callers |-> Idle] /\ loading = FALSE /\ last = 0 /\ dead = {}
      /\ arrays = Empty /\ deleted = {} /\ mediums = {}
      /\ lists = [s \in Statuses |-> {}] /\ latest = [h \in Hashes |-> h]
  BY DEF Init, CallsInit
<1>2. ZomeOK
  <2>1. 0 \in 0 .. MaxHashes
    BY DEF MediumsStoreAssumption
  <2> QED BY <1>1, <2>1 DEF ZomeOK
<1>3. \A c \in Callers : CallOK(calls[c]) /\ calls[c].op # "delete" /\ HashesOf(calls[c].answer) = {}
  BY <1>1, IdleIs
<1>4. ArraysOK(arrays)
  BY <1>1, EmptyOK
<1> QED BY <1>1, <1>2, <1>3, <1>4 DEF MInv, MGone

\* The answers are of records there are and the arrays agree, whatever calls do
\* (mediums_of_exchange.store.svelte.ts:205-269).
THEOREM MediumsStoreInvariant == MediumsStoreAssumption /\ Spec => []MInv
<1> SUFFICES ASSUME MediumsStoreAssumption PROVE Spec => []MInv
  OBVIOUS
<1>1. Init => MInv
  BY InitOK
<1>2. MInv /\ [Next]_vars => MInv'
  BY StepIs, SendsKeeps, ReturnsKeeps, RestsKeeps DEF Steps
<1> QED BY <1>1, <1>2, PTL DEF Spec

\* The store of the mediums shows what its types say: records there are, each in
\* the array of its status (mediums_of_exchange.store.svelte.ts:205-269).
THEOREM MediumsStoreTypes == MediumsStoreAssumption /\ Spec => []TypeOK
<1>1. ASSUME MInv PROVE TypeOK
  <2>1. DOMAIN arrays = Names
    BY <1>1 DEF MInv, ArraysOK, Tidy
  <2>2. \A n \in Names : \A e \in ToSet(arrays[n]) :
          e.hash \in Made /\ (n \in Statuses => e.status = n)
    BY <1>1 DEF MInv, ArraysOK, Agree, Known
  <2>3. ASSUME NEW n \in DOMAIN arrays, NEW e \in UNION {ToSet(arrays[m]) : m \in DOMAIN arrays}
        PROVE  /\ e.hash \in Made
               /\ n \in Statuses /\ e \in ToSet(arrays[n]) => e.status = n
    BY <2>1, <2>2
  <2>4. ZomeOK /\ loading \in BOOLEAN
    BY <1>1 DEF MInv
  <2> QED BY <2>3, <2>4 DEF TypeOK, ZomeOK
<1> QED BY <1>1, MediumsStoreInvariant, PTL

\* However calls overlap, fail and answer late, a medium is shown under one status
\* only, and once (mediums_of_exchange.store.svelte.ts:205-269, 494, 528, 562, 596).
THEOREM MediumsStoreShowsOnce == MediumsStoreAssumption /\ Spec => []OneStatusArray
<1>1. ASSUME MInv PROVE OneStatusArray
  <2>1. /\ \A n \in Names : arrays[n] \in Seq(Shows) /\ Once(arrays[n])
        /\ \A s, t \in Statuses : \A x \in ToSet(arrays[s]), y \in ToSet(arrays[t]) :
             x.hash = y.hash => s = t
        /\ Statuses \subseteq Names /\ "all" \in Names
    BY <1>1 DEF MInv, ArraysOK, Tidy, Agree, Names
  <2>2. ASSUME NEW h \in Made
        PROVE  \E s \in Statuses : \A t \in Statuses \ {s} : ~Lists(arrays[t], h)
    <3>1. \A s, t \in Statuses : h \in HashesOf(arrays[s]) /\ h \in HashesOf(arrays[t]) => s = t
      BY <2>1 DEF HashesOf
    <3>2. \E s \in Statuses : \A t \in Statuses \ {s} : h \notin HashesOf(arrays[t])
      <4>1. CASE \E s \in Statuses : h \in HashesOf(arrays[s])
        BY <3>1, <4>1
      <4>2. CASE \A s \in Statuses : h \notin HashesOf(arrays[s])
        BY <4>2 DEF Statuses
      <4> QED BY <4>1, <4>2
    <3>3. \A t \in Statuses : Lists(arrays[t], h) <=> h \in HashesOf(arrays[t])
      <4>1. \A t \in Statuses : arrays[t] \in Seq(Shows)
        BY <2>1
      <4> QED BY <4>1, ListsIs
    <3> QED BY <3>2, <3>3
  <2>3. \A n \in Names : \A i, j \in DOMAIN arrays[n] :
          arrays[n][i].hash = arrays[n][j].hash => i = j
    BY <2>1 DEF Once
  <2> QED BY <2>1, <2>2, <2>3 DEF OneStatusArray
<1> QED BY <1>1, MediumsStoreInvariant, PTL

\* The table of all mediums and the tables of the statuses never disagree on the
\* status of a medium (mediums_of_exchange.store.svelte.ts:240-261, 371-372).
THEOREM MediumsStoreTablesAgree == MediumsStoreAssumption /\ Spec => []TablesAgree
<1>1. ASSUME MInv PROVE TablesAgree
  <2>1. ASSUME NEW e \in ToSet(arrays["all"]), NEW s \in Statuses, Lists(arrays[s], e.hash)
        PROVE  e.status = s
    <3>1. arrays[s] \in Seq(Shows)
      BY <1>1 DEF MInv, ArraysOK, Tidy, Names
    <3>2. e.hash \in HashesOf(arrays[s])
      BY <2>1, <3>1, ListsIs
    <3>3. PICK y \in ToSet(arrays[s]) : y.hash = e.hash
      BY <3>2 DEF HashesOf
    <3> QED BY <1>1, <3>3 DEF MInv, ArraysOK, Agree
  <2> QED BY <2>1 DEF TablesAgree
<1> QED BY <1>1, MediumsStoreInvariant, PTL

\* An administrator who waits for each call does not see again what it deleted,
\* whatever other administrators do and whatever calls fail
\* (mediums_of_exchange.store.svelte.ts:797-802).
THEOREM MediumsStoreForgets == MediumsStoreAssumption /\ OneCaller /\ Spec => []DeletedNotShown
<1> SUFFICES ASSUME MediumsStoreAssumption, OneCaller PROVE Spec => []DeletedNotShown
  OBVIOUS
<1>1. Init => MInv /\ MGone
  BY InitOK
<1>2. MInv /\ MGone /\ [Next]_vars => MInv' /\ MGone'
  <2> SUFFICES ASSUME MInv, MGone, [Next]_vars PROVE MInv' /\ MGone'
    OBVIOUS
  <2>1. ASSUME NEW c \in Callers, Steps(c) PROVE MInv' /\ MGone'
    BY <2>1, SendsKeeps, ReturnsKeeps, SendsAway, ReturnsAway DEF Steps
  <2>2. ASSUME Grows, Rests PROVE MInv' /\ MGone'
    BY <2>2, RestsKeeps, RestsAway
  <2> QED BY <2>1, <2>2, StepIs
<1>3. MGone => DeletedNotShown
  BY DEF MGone, DeletedNotShown
<1> QED BY <1>1, <1>2, <1>3, PTL DEF Spec

-----------------------------------------------------------------------------
(* The store of the service types. *)

\* What the zome keeps.
TypesOK ==
  /\ last \in 0 .. MaxHashes
  /\ lists \in [Statuses -> SUBSET Made]
  /\ dead \subseteq Made
  /\ latest \in [Hashes -> Hashes]
  /\ \A h \in Hashes : latest[h] = h \/ latest[h] \in Made

\* The arrays: only that of all types repeats nothing.
TArraysOK(arrs) ==
  /\ Loose(arrs, Names, Shows)
  /\ \A n \in Names : Known(arrs[n])

\* The calls that are answered with one entity, which the store then adds.
Adds == {"create", "suggest", "update"}

TCallOK(call) ==
  /\ call.answer \in Seq(Shows)
  /\ Known(call.answer)
  /\ call.op \in Adds => call.answer # <<>>

TInv ==
  /\ loading \in BOOLEAN
  /\ TypesOK
  /\ DOMAIN calls = Callers
  /\ \A c \in Callers : TCallOK(calls[c])
  /\ TArraysOK(arrays)

\* The hashes that must not come back: those of all types, of the cache, and of
\* what the cache found itself.
Kept == HashesOf(arrays["all"]) \cup DOMAIN cache \cup {h \in DOMAIN lookups : lookups[h] # <<>>}

TGone ==
  /\ deleted \subseteq dead
  /\ \A h \in Hashes : latest[h] = h
  /\ deleted \cap Kept = {}
  /\ \A c \in Callers :
       /\ HashesOf(calls[c].answer) \cap deleted = {}
       /\ calls[c].op = "delete" => calls[c].arg \in dead
       /\ calls[c].op = "get" /\ calls[c].answer # <<>> => calls[c].arg \notin deleted

\* What a call for all types is answered with, if nothing else changes.
Disjoint == \A s, t \in Statuses : s # t => lists[s] \cap lists[t] = {}

WhatIs(es) ==
  /\ Once(es)
  /\ \A s \in Statuses : \A h \in Hashes :
       h \in lists[s] \ dead <=> \E x \in ToSet(es) : x.hash = h /\ x.status = s

TCalm ==
  /\ Disjoint
  /\ \A h \in Hashes : latest[h] = h
  /\ \A c \in Callers : calls[c].op = "getAll" => WhatIs(calls[c].answer)

\* The helpers of this store are those of all stores.
LEMMA TCardinality ==
  ASSUME NEW A
  PROVE  T!Cardinality(A) = Cardinality(A)
BY DEF T!Cardinality, Cardinality

LEMMA TSeqs ==
  ASSUME NEW a
  PROVE  T!ToSet(a) = ToSet(a) /\ T!SetToSeq(a) = SetToSeq(a)
<1>1. T!ToSet(a) = ToSet(a)
  BY DEF T!ToSet, ToSet
<1>2. T!SetToSeq(a) = SetToSeq(a)
  BY TCardinality DEF T!SetToSeq, SetToSeq, T!IsInjective, IsInjective
<1> QED BY <1>1, <1>2

LEMMA TIndex ==
  ASSUME NEW a, NEW h
  PROVE  T!Index(a, h) = Index(a, h)
BY DEF T!Index, Index, T!SelectInSeq, SelectInSeq, T!Min, Min

LEMMA TWithout ==
  ASSUME NEW a, NEW h
  PROVE  T!Without(a, h) = Without(a, h)
BY TIndex DEF T!Without, Without, T!RemoveFirstMatch, RemoveFirstMatch, T!RemoveAt, RemoveAt,
   T!SelectInSeq, SelectInSeq, T!Min, Min

LEMMA TPut ==
  ASSUME NEW a, NEW e
  PROVE  T!Put(a, e) = Put(a, e)
BY TIndex DEF T!Put, Put, T!Lists, Lists, T!ReplaceAt, ReplaceAt

LEMMA TAdd ==
  ASSUME NEW arrs, NEW e
  PROVE  T!SyncAdd(arrs, e) = SyncAdd(arrs, e)
BY TWithout, TPut DEF T!SyncAdd, SyncAdd

LEMMA TRemove ==
  ASSUME NEW arrs, NEW h
  PROVE  T!SyncRemove(arrs, h) = SyncRemove(arrs, h)
BY TWithout DEF T!SyncRemove, SyncRemove

LEMMA TAddAll ==
  ASSUME NEW arrs, NEW es
  PROVE  T!SyncAll(arrs, es) = SyncAll(arrs, es)
BY TAdd DEF T!SyncAll, SyncAll

LEMMA TCalls ==
  ASSUME NEW c, NEW op, NEW arg, NEW es
  PROVE  /\ T!Begin(c, op, arg, es) <=> Begin(c, op, arg, es)
         /\ T!End(c) <=> End(c)
         /\ T!Fail(c) <=> Fail(c)
         /\ T!AtOnce(c) <=> AtOnce(c)
         /\ T!UnderWay(c, op, arg) <=> UnderWay(c, op, arg)
BY DEF T!Begin, Begin, T!End, End, T!Fail, Fail, T!AtOnce, AtOnce, T!UnderWay, UnderWay, T!Busy, Busy,
       T!Idle, Idle

LEMMA TEntityIs ==
  ASSUME NEW h \in Hashes, NEW s \in Statuses
  PROVE  T!Entity(h, s) \in Shows /\ T!Entity(h, s).hash = h /\ T!Entity(h, s).status = s
BY DEF T!Entity, Shows

LEMMA TNames == T!Statuses = Statuses /\ T!Hashes = Hashes /\ T!Made = Made
BY DEF T!Statuses, Statuses, T!Hashes, Hashes, T!Made, Made

\* Records are made and not unmade, and deleted for good; a type is on one list,
\* and without updates each record is its latest revision.
TGrows ==
  /\ TypesOK'
  /\ last <= last'
  /\ dead \subseteq dead'
  /\ MaxUpdates = 0 => latest' = latest
  /\ Disjoint => Disjoint'

LEMMA TListedIs ==
  ASSUME TypesOK, NEW h, NEW s \in Statuses, NEW M, Made \subseteq M, h \in M
  PROVE  /\ T!Listed(h, s) \in [Statuses -> SUBSET M]
         /\ Disjoint => \A t, u \in Statuses : t # u => T!Listed(h, s)[t] \cap T!Listed(h, s)[u] = {}
<1>1. T!Listed(h, s) = [t \in Statuses |-> IF t = s THEN lists[t] \cup {h} ELSE lists[t] \ {h}]
  BY TNames DEF T!Listed
<1>2. T!Listed(h, s) \in [Statuses -> SUBSET M]
  BY <1>1 DEF TypesOK
<1>3. ASSUME Disjoint, NEW t \in Statuses, NEW u \in Statuses, t # u
      PROVE  T!Listed(h, s)[t] \cap T!Listed(h, s)[u] = {}
  BY <1>1, <1>3 DEF Disjoint
<1> QED BY <1>2, <1>3

LEMMA TNewIs ==
  ASSUME T!ServiceTypesStoreAssumption, TypesOK, NEW s \in Statuses, T!NewType(s)
  PROVE  TGrows /\ last < MaxHashes /\ last' = last + 1
<1>0. /\ last \in Nat /\ MaxHashes \in Nat /\ last < MaxHashes /\ last' = last + 1
      /\ lists' = T!Listed(last + 1, s) /\ latest' = latest /\ dead' = dead
  BY DEF T!NewType, TypesOK, T!ServiceTypesStoreAssumption
<1>1. last' \in 0 .. MaxHashes /\ Made' = Made \cup {last + 1} /\ last <= last'
  BY <1>0 DEF Made
<1>2. /\ lists' \in [Statuses -> SUBSET Made']
      /\ Disjoint => \A t, u \in Statuses : t # u => lists'[t] \cap lists'[u] = {}
  <2>1. PICK h, M : h = last + 1 /\ M = Made'
    OBVIOUS
  <2>2. Made \subseteq M /\ h \in M
    BY <1>1, <2>1
  <2>3. /\ T!Listed(h, s) \in [Statuses -> SUBSET M]
        /\ Disjoint => \A t, u \in Statuses : t # u => T!Listed(h, s)[t] \cap T!Listed(h, s)[u] = {}
    BY <2>2, TListedIs
  <2> QED BY <1>0, <2>1, <2>3
<1>3. Disjoint => Disjoint'
  BY <1>2 DEF Disjoint
<1>4. TypesOK'
  BY <1>0, <1>1, <1>2 DEF TypesOK
<1> QED BY <1>0, <1>1, <1>3, <1>4 DEF TGrows

LEMMA TRevisionIs ==
  ASSUME T!ServiceTypesStoreAssumption, TypesOK, NEW h \in Made, T!NewRevision(h), MaxUpdates # 0
  PROVE  TGrows /\ last < MaxHashes /\ last' = last + 1
<1>0. /\ last \in Nat /\ MaxHashes \in Nat /\ last < MaxHashes /\ last' = last + 1
      /\ lists' = lists /\ dead' = dead /\ latest' = [latest EXCEPT ![h] = last + 1]
  BY DEF T!NewRevision, TypesOK, T!ServiceTypesStoreAssumption
<1>1. /\ last' \in 0 .. MaxHashes /\ Made' = Made \cup {last + 1} /\ last <= last'
      /\ last + 1 \in Hashes /\ h \in Hashes
  BY <1>0 DEF Made, Hashes
<1>2. TypesOK'
  BY <1>0, <1>1 DEF TypesOK
<1>3. Disjoint => Disjoint'
  BY <1>0 DEF Disjoint
<1> QED BY <1>0, <1>1, <1>2, <1>3 DEF TGrows

LEMMA TDecisionIs ==
  ASSUME T!ServiceTypesStoreAssumption, TypesOK, NEW h \in Made, T!Approve(h) \/ T!Reject(h)
  PROVE  TGrows
<1>1. PICK s \in Statuses : lists' = T!Listed(h, s) /\ latest' = latest /\ last' = last /\ dead' = dead
  BY DEF T!Approve, T!Reject, Statuses
<1>2. /\ lists' \in [Statuses -> SUBSET Made]
      /\ Disjoint => \A t, u \in Statuses : t # u => lists'[t] \cap lists'[u] = {}
  BY <1>1, TListedIs
<1>3. Made' = Made /\ last \in Nat
  BY <1>1 DEF Made, TypesOK, T!ServiceTypesStoreAssumption
<1>4. Disjoint => Disjoint'
  BY <1>2 DEF Disjoint
<1> QED BY <1>1, <1>2, <1>3, <1>4 DEF TypesOK, TGrows

LEMMA TDeleteIs ==
  ASSUME T!ServiceTypesStoreAssumption, TypesOK, NEW h \in Made, T!Delete(h)
  PROVE  TGrows /\ h \in dead'
<1>1. /\ lists' = [s \in Statuses |-> lists[s] \ {h}] /\ dead' = dead \cup {h}
      /\ latest' = latest /\ last' = last
  BY TNames DEF T!Delete
<1>2. Made' = Made /\ last \in Nat
  BY <1>1 DEF Made, TypesOK, T!ServiceTypesStoreAssumption
<1>3. Disjoint => Disjoint'
  BY <1>1 DEF Disjoint
<1> QED BY <1>1, <1>2, <1>3 DEF TypesOK, TGrows

LEMMA TRestIs ==
  ASSUME T!ServiceTypesStoreAssumption, TypesOK, UNCHANGED T!zomeVars
  PROVE  TGrows
<1>1. lists' = lists /\ latest' = latest /\ last' = last /\ dead' = dead
  BY DEF T!zomeVars
<1>2. Made' = Made /\ last \in Nat
  BY <1>1 DEF Made, TypesOK, T!ServiceTypesStoreAssumption
<1>3. Disjoint => Disjoint'
  BY <1>1 DEF Disjoint
<1> QED BY <1>1, <1>2, <1>3 DEF TypesOK, TGrows

\* What the zome answers for one list.
LEMMA TByStatusIs ==
  ASSUME T!ServiceTypesStoreAssumption, TypesOK, NEW s \in Statuses
  PROVE  /\ T!ByStatus(s) \in Seq(Shows)
         /\ \A e \in ToSet(T!ByStatus(s)) : e.hash \in Made /\ e.hash \notin dead /\ e.status = s
         /\ (\A h \in Hashes : latest[h] = h) =>
              /\ Once(T!ByStatus(s))
              /\ HashesOf(T!ByStatus(s)) = lists[s] \ dead
<1> DEFINE H == {t \in lists[s] : latest[t] \notin dead}
           ts == SetToSeq(H)
           es == T!ByStatus(s)
<1>1. Made \subseteq Hashes /\ last \in Nat /\ lists[s] \subseteq Made
  BY DEF TypesOK, Made, Hashes, T!ServiceTypesStoreAssumption
<1>2. IsFiniteSet(H)
  <2>1. IsFiniteSet(1 .. last)
    <3>1. 1 \in Int /\ last \in Int
      BY <1>1
    <3> QED BY <3>1, FS_Interval
  <2>2. H \subseteq 1 .. last
    BY <1>1 DEF Made
  <2> QED BY <2>1, <2>2, FS_Subset
<1>3. es = [i \in DOMAIN ts |-> T!Entity(latest[ts[i]], s)]
  BY TSeqs DEF T!ByStatus
<1> HIDE DEF ts, es, H
<1>4. /\ ts \in Seq(H)
      /\ ToSet(ts) = H
      /\ \A i, j \in DOMAIN ts : ts[i] = ts[j] => i = j
  BY <1>2, SetToSeqIs DEF ts
<1>5. Len(ts) \in Nat /\ DOMAIN ts = 1 .. Len(ts) /\ \A i \in 1 .. Len(ts) : ts[i] \in H
  BY <1>4, Members
<1>6. DOMAIN es = 1 .. Len(ts) /\ \A i \in 1 .. Len(ts) : es[i] = T!Entity(latest[ts[i]], s)
  BY <1>3, <1>5
<1>7. \A i \in 1 .. Len(ts) : /\ es[i] \in Shows
                              /\ es[i].hash = latest[ts[i]] /\ es[i].status = s
                              /\ es[i].hash \in Made /\ es[i].hash \notin dead
  <2> SUFFICES ASSUME NEW i \in 1 .. Len(ts)
               PROVE  /\ es[i] \in Shows
                      /\ es[i].hash = latest[ts[i]] /\ es[i].status = s
                      /\ es[i].hash \in Made /\ es[i].hash \notin dead
    OBVIOUS
  <2>1. PICK t, h : t = ts[i] /\ h = latest[t]
    OBVIOUS
  <2>2. t \in H /\ es[i] = T!Entity(h, s)
    BY <1>5, <1>6, <2>1
  <2>3. t \in Made /\ t \in Hashes /\ h \notin dead
    BY <1>1, <2>1, <2>2 DEF H
  <2>4. h \in Hashes /\ h \in Made
    BY <2>1, <2>3 DEF TypesOK
  <2>5. T!Entity(h, s) \in Shows /\ T!Entity(h, s).hash = h /\ T!Entity(h, s).status = s
    BY <2>4, TEntityIs
  <2> QED BY <2>1, <2>2, <2>3, <2>4, <2>5
<1>8. es \in Seq(Shows)
  <2>1. es = [i \in 1 .. Len(ts) |-> es[i]]
    BY <1>3, <1>5
  <2>2. es \in [1 .. Len(ts) -> Shows]
    BY <1>7, <2>1
  <2> QED BY <1>5, <2>2, SeqDef
<1>9. \A e \in ToSet(es) : e.hash \in Made /\ e.hash \notin dead /\ e.status = s
  BY <1>6, <1>7 DEF ToSet
<1>10. ASSUME \A h \in Hashes : latest[h] = h
       PROVE  Once(es) /\ HashesOf(es) = lists[s] \ dead
  <2>1. \A i \in 1 .. Len(ts) : es[i].hash = ts[i]
    <3>1. \A i \in 1 .. Len(ts) : ts[i] \in Hashes
      BY <1>1, <1>5 DEF H
    <3> QED BY <1>7, <1>10, <3>1
  <2>2. Once(es)
    BY <1>4, <1>5, <1>6, <2>1 DEF Once
  <2>3. HashesOf(es) = H
    <3>1. HashesOf(es) = {es[i].hash : i \in 1 .. Len(ts)}
      BY <1>6 DEF HashesOf, ToSet
    <3>2. H = {ts[i] : i \in 1 .. Len(ts)}
      BY <1>4, <1>5 DEF ToSet
    <3> QED BY <2>1, <3>1, <3>2
  <2>4. H = lists[s] \ dead
    <3>1. \A t \in lists[s] : latest[t] = t
      BY <1>1, <1>10
    <3> QED BY <3>1 DEF H
  <2> QED BY <2>2, <2>3, <2>4
<1> QED BY <1>8, <1>9, <1>10 DEF es

\* What the zome answers for all.
LEMMA TAllIs ==
  ASSUME T!ServiceTypesStoreAssumption, TypesOK,
         NEW es, es = T!ByStatus("pending") \o T!ByStatus("approved") \o T!ByStatus("rejected")
  PROVE  /\ es \in Seq(Shows)
         /\ \A e \in ToSet(es) : e.hash \in Made /\ e.hash \notin dead
         /\ Disjoint /\ (\A h \in Hashes : latest[h] = h) => WhatIs(es)
<1>1. PICK p, a, r : p = T!ByStatus("pending") /\ a = T!ByStatus("approved") /\ r = T!ByStatus("rejected")
  OBVIOUS
<1>2. "pending" \in Statuses /\ "approved" \in Statuses /\ "rejected" \in Statuses
      /\ \A s \in Statuses : s \in {"pending", "approved", "rejected"}
  BY DEF Statuses
<1>3. p \in Seq(Shows) /\ a \in Seq(Shows) /\ r \in Seq(Shows)
  BY <1>1, <1>2, TByStatusIs
<1>4. /\ \A e \in ToSet(p) : e.hash \in Made /\ e.hash \notin dead /\ e.status = "pending"
      /\ \A e \in ToSet(a) : e.hash \in Made /\ e.hash \notin dead /\ e.status = "approved"
      /\ \A e \in ToSet(r) : e.hash \in Made /\ e.hash \notin dead /\ e.status = "rejected"
  BY <1>1, <1>2, TByStatusIs
<1>5. PICK pa : pa = p \o a
  OBVIOUS
<1>6. pa \in Seq(Shows) /\ ToSet(pa) = ToSet(p) \cup ToSet(a)
  BY <1>3, <1>5, ConcatIs
<1>0. PICK par : par = pa \o r
  OBVIOUS
<1>7. es = par
  BY <1>0, <1>1, <1>5
<1>8. es \in Seq(Shows) /\ ToSet(es) = ToSet(pa) \cup ToSet(r)
  <2>1. par \in Seq(Shows) /\ ToSet(par) = ToSet(pa) \cup ToSet(r)
    BY <1>0, <1>3, <1>6, ConcatIs
  <2> QED BY <1>7, <2>1
<1>9. ASSUME Disjoint, \A h \in Hashes : latest[h] = h PROVE WhatIs(es)
  <2>1. /\ Once(p) /\ HashesOf(p) = lists["pending"] \ dead
        /\ Once(a) /\ HashesOf(a) = lists["approved"] \ dead
        /\ Once(r) /\ HashesOf(r) = lists["rejected"] \ dead
    BY <1>1, <1>2, <1>9, TByStatusIs
  <2>2. /\ lists["pending"] \cap lists["approved"] = {}
        /\ lists["pending"] \cap lists["rejected"] = {}
        /\ lists["approved"] \cap lists["rejected"] = {}
    BY <1>2, <1>9 DEF Disjoint
  <2>3. Once(pa)
    BY <1>3, <1>5, <2>1, <2>2, ConcatOnce
  <2>4. HashesOf(pa) = HashesOf(p) \cup HashesOf(a)
    BY <1>6 DEF HashesOf
  <2>5. Once(es)
    <3>1. HashesOf(pa) \cap HashesOf(r) = {}
      BY <2>1, <2>2, <2>4
    <3>2. Once(par)
      <4>1. Once(pa \o r)
        BY <1>3, <1>6, <2>1, <2>3, <3>1, ConcatOnce
      <4> QED BY <1>0, <4>1
    <3> QED BY <1>7, <3>2
  <2>6. ASSUME NEW s \in Statuses, NEW h \in Hashes
        PROVE  h \in lists[s] \ dead <=> \E x \in ToSet(es) : x.hash = h /\ x.status = s
    <3>1. CASE s = "pending"
      <4>1. \A x \in ToSet(es) : x.status = s <=> x \in ToSet(p)
        BY <1>4, <1>6, <1>8, <3>1
      <4>2. ToSet(p) \subseteq ToSet(es)
        BY <1>6, <1>8
      <4>3. h \in lists[s] \ dead <=> \E x \in ToSet(p) : x.hash = h
        BY <2>1, <3>1 DEF HashesOf
      <4> QED BY <4>1, <4>2, <4>3
    <3>2. CASE s = "approved"
      <4>1. \A x \in ToSet(es) : x.status = s <=> x \in ToSet(a)
        BY <1>4, <1>6, <1>8, <3>2
      <4>2. ToSet(a) \subseteq ToSet(es)
        BY <1>6, <1>8
      <4>3. h \in lists[s] \ dead <=> \E x \in ToSet(a) : x.hash = h
        BY <2>1, <3>2 DEF HashesOf
      <4> QED BY <4>1, <4>2, <4>3
    <3>3. CASE s = "rejected"
      <4>1. \A x \in ToSet(es) : x.status = s <=> x \in ToSet(r)
        BY <1>4, <1>6, <1>8, <3>3
      <4>2. ToSet(r) \subseteq ToSet(es)
        BY <1>6, <1>8
      <4>3. h \in lists[s] \ dead <=> \E x \in ToSet(r) : x.hash = h
        BY <2>1, <3>3 DEF HashesOf
      <4> QED BY <4>1, <4>2, <4>3
    <3> QED BY <1>2, <3>1, <3>2, <3>3
  <2> QED BY <2>5, <2>6 DEF WhatIs
<1> QED BY <1>4, <1>6, <1>8, <1>9

\* A call goes out.
TSends(c) ==
  \E op, arg : \E es \in Seq(Shows) :
    /\ Begin(c, op, arg, es)
    /\ \A e \in ToSet(es) : e.hash \in 1 .. last' /\ (op # "update" => e.hash \notin dead)
    /\ op \in Adds => es # <<>>
    /\ op = "update" => MaxUpdates # 0
    /\ op = "delete" => arg \in dead'
    /\ op = "get" /\ es # <<>> => arg \notin dead
    /\ op = "getAll" => /\ UNCHANGED <<lists, dead>>
                        /\ Disjoint /\ (\A h \in Hashes : latest[h] = h) => WhatIs(es)
    /\ UNCHANGED T!storeVars

\* What a lookup of the cache found.
Finds(call) == {h \in {call.arg} : call.op = "get" /\ call.answer # <<>>}

\* A call comes back.
TReturns(c) ==
  /\ End(c)
  /\ UNCHANGED T!zomeVars
  /\ TArraysOK(arrays')
  /\ Kept' \subseteq Kept \cup HashesOf(calls[c].answer) \cup Finds(calls[c])
  /\ \/ deleted' = deleted
     \/ /\ calls[c].op = "delete"
        /\ deleted' = deleted \cup {calls[c].arg}
        /\ calls[c].arg \notin Kept'

\* Nothing of the calls changes, and nothing is kept that was not.
TRests ==
  /\ UNCHANGED calls
  /\ loading' \in BOOLEAN
  /\ TArraysOK(arrays')
  /\ Kept' \subseteq Kept
  /\ UNCHANGED deleted
  /\ Others \/ UNCHANGED <<lists, dead>>

LEMMA TMadeGrows ==
  ASSUME T!ServiceTypesStoreAssumption, TypesOK, TGrows
  PROVE  Made \subseteq Made'
BY DEF TGrows, TypesOK, Made, T!ServiceTypesStoreAssumption

LEMMA TArraysStay ==
  ASSUME Made \subseteq Made', TArraysOK(arrays')
  PROVE  TArraysOK(arrays)'
<1>1. PICK to : to = arrays'
  OBVIOUS
<1>2. Loose(to, Names, Shows) /\ \A n \in Names : \A e \in ToSet(to[n]) : e.hash \in Made
  BY <1>1 DEF TArraysOK, Known
<1>3. \A n \in Names : \A e \in ToSet(to[n]) : e.hash \in Made'
  BY <1>2
<1>4. Loose(arrays, Names, Shows)'
  BY <1>1, <1>2
<1>5. \A n \in Names : Known(arrays[n])'
  BY <1>1, <1>3 DEF Known
<1> QED BY <1>4, <1>5 DEF TArraysOK

LEMMA TCallStays ==
  ASSUME Made \subseteq Made', NEW d \in Callers, TCallOK(calls[d]), calls'[d] = calls[d]
  PROVE  TCallOK(calls[d])'
BY DEF TCallOK, Known

LEMMA TIdleIs ==
  ASSUME NEW d, calls'[d] = Idle
  PROVE  /\ TCallOK(calls[d])'
         /\ calls'[d].op \notin {"delete", "get", "getAll"} /\ HashesOf(calls'[d].answer) = {}
<1>1. <<>> \in Seq(Shows) /\ ToSet(<<>>) = {}
  BY NothingIs
<1>2. Idle.answer = <<>> /\ Idle.op = "none"
  BY DEF Idle
<1> QED BY <1>1, <1>2 DEF TCallOK, Known, HashesOf, Adds

LEMMA TSendsKeeps ==
  ASSUME T!ServiceTypesStoreAssumption, TInv, TGrows, NEW c \in Callers, TSends(c)
  PROVE  TInv'
<1>1. PICK op, arg : \E es \in Seq(Shows) :
        /\ Begin(c, op, arg, es)
        /\ \A e \in ToSet(es) : e.hash \in 1 .. last'
        /\ op \in Adds => es # <<>>
        /\ UNCHANGED T!storeVars
  BY DEF TSends
<1>2. PICK es \in Seq(Shows) :
        /\ Begin(c, op, arg, es)
        /\ \A e \in ToSet(es) : e.hash \in 1 .. last'
        /\ op \in Adds => es # <<>>
        /\ UNCHANGED T!storeVars
  BY <1>1
<1>3. Made \subseteq Made'
  BY TMadeGrows DEF TInv
<1>4. DOMAIN calls' = Callers /\ loading' \in BOOLEAN
  BY <1>2 DEF Begin, TInv
<1>5. ASSUME NEW d \in Callers PROVE TCallOK(calls[d])'
  <2>1. CASE d = c
    <3>1. calls'[d].op = op /\ calls'[d].answer = es
      BY <1>2, <2>1 DEF Begin, TInv
    <3>2. \A e \in ToSet(es) : e.hash \in Made'
      BY <1>2 DEF Made
    <3> QED BY <1>2, <3>1, <3>2 DEF TCallOK, Known
  <2>2. CASE d # c
    <3>1. calls'[d] = calls[d] /\ TCallOK(calls[d])
      BY <1>2, <2>2 DEF Begin, TInv
    <3> QED BY <1>3, <3>1, TCallStays
  <2> QED BY <2>1, <2>2
<1>6. TArraysOK(arrays)'
  <2>1. TArraysOK(arrays')
    BY <1>2 DEF T!storeVars, TInv
  <2> QED BY <1>3, <2>1, TArraysStay
<1> QED BY <1>4, <1>5, <1>6 DEF TInv, TGrows

LEMMA TReturnsKeeps ==
  ASSUME T!ServiceTypesStoreAssumption, TInv, NEW c \in Callers, TReturns(c)
  PROVE  TInv'
<1>1. TGrows /\ Made \subseteq Made'
  BY TRestIs, TMadeGrows DEF TReturns, TInv
<1>2. /\ DOMAIN calls' = Callers /\ calls'[c] = Idle /\ loading' \in BOOLEAN
      /\ \A d \in Callers : d # c => calls'[d] = calls[d]
  BY DEF TReturns, End, TInv
<1>3. ASSUME NEW d \in Callers PROVE TCallOK(calls[d])'
  BY <1>1, <1>2, TIdleIs, TCallStays DEF TInv
<1>4. TArraysOK(arrays)'
  BY <1>1, TArraysStay DEF TReturns
<1> QED BY <1>1, <1>2, <1>3, <1>4 DEF TInv, TGrows

LEMMA TRestsKeeps ==
  ASSUME T!ServiceTypesStoreAssumption, TInv, TGrows, TRests
  PROVE  TInv'
<1>1. Made \subseteq Made'
  BY TMadeGrows DEF TInv
<1>2. ASSUME NEW d \in Callers PROVE TCallOK(calls[d])'
  <2>1. calls'[d] = calls[d] /\ TCallOK(calls[d])
    BY DEF TRests, TInv
  <2> QED BY <1>1, <2>1, TCallStays
<1>3. TArraysOK(arrays)'
  BY <1>1, TArraysStay DEF TRests
<1> QED BY <1>2, <1>3 DEF TInv, TRests, TGrows

LEMMA TSendsAway ==
  ASSUME OneCaller, MaxUpdates = 0, TInv, TGone, TGrows, NEW c \in Callers, TSends(c)
  PROVE  TGone'
<1>1. PICK op, arg : \E es \in Seq(Shows) :
        /\ Begin(c, op, arg, es)
        /\ \A e \in ToSet(es) : op # "update" => e.hash \notin dead
        /\ op = "update" => MaxUpdates # 0
        /\ op = "delete" => arg \in dead'
        /\ op = "get" /\ es # <<>> => arg \notin dead
        /\ UNCHANGED T!storeVars
  BY DEF TSends
<1>2. PICK es \in Seq(Shows) :
        /\ Begin(c, op, arg, es)
        /\ \A e \in ToSet(es) : e.hash \notin dead
        /\ op = "delete" => arg \in dead'
        /\ op = "get" /\ es # <<>> => arg \notin dead
        /\ UNCHANGED T!storeVars
  BY <1>1
<1>3. dead \subseteq dead' /\ deleted' = deleted /\ deleted' \subseteq dead
  BY <1>2 DEF TGrows, TGone, T!storeVars
<1>4. deleted' \cap Kept' = {}
  BY <1>2 DEF TGone, T!storeVars, Kept
<1>5. calls'[c].op = op /\ calls'[c].arg = arg /\ calls'[c].answer = es
  BY <1>2 DEF Begin, TInv
<1>6. \A d \in Callers : d = c
  BY DEF OneCaller
<1>7. HashesOf(es) \cap deleted' = {}
  BY <1>2, <1>3 DEF HashesOf
<1>8. \A d \in Callers : HashesOf(calls'[d].answer) \cap deleted' = {}
  BY <1>5, <1>6, <1>7
<1>9. \A d \in Callers :
        /\ calls'[d].op = "delete" => calls'[d].arg \in dead'
        /\ calls'[d].op = "get" /\ calls'[d].answer # <<>> => calls'[d].arg \notin deleted'
  BY <1>2, <1>3, <1>5, <1>6
<1>10. \A h \in Hashes : latest'[h] = h
  BY DEF TGrows, TGone
<1> QED BY <1>3, <1>4, <1>8, <1>9, <1>10 DEF TGone

LEMMA TReturnsAway ==
  ASSUME OneCaller, TInv, TGone, NEW c \in Callers, TReturns(c)
  PROVE  TGone'
<1>1. /\ dead' = dead /\ latest' = latest /\ calls'[c] = Idle
      /\ Kept' \subseteq Kept \cup HashesOf(calls[c].answer) \cup Finds(calls[c])
  BY DEF TReturns, End, TInv, T!zomeVars
<1>2. \A d \in Callers : d = c
  BY DEF OneCaller
<1>3. deleted' \subseteq dead
  BY DEF TReturns, TGone
<1>4. deleted \cap Kept' = {}
  <2>1. deleted \cap Finds(calls[c]) = {}
    BY DEF TGone, Finds
  <2> QED BY <1>1, <2>1 DEF TGone
<1>5. deleted' \cap Kept' = {}
  BY <1>4 DEF TReturns
<1>6. \A d \in Callers : /\ calls'[d].op \notin {"delete", "get", "getAll"}
                         /\ HashesOf(calls'[d].answer) = {}
  BY <1>1, <1>2, TIdleIs
<1> QED BY <1>1, <1>3, <1>5, <1>6 DEF TGone

LEMMA TRestsAway ==
  ASSUME MaxUpdates = 0, TGone, TGrows, TRests
  PROVE  TGone'
<1>1. /\ calls' = calls /\ deleted' = deleted /\ dead \subseteq dead' /\ Kept' \subseteq Kept
      /\ latest' = latest
  BY DEF TRests, TGrows
<1> QED BY <1>1 DEF TGone

LEMMA TSendsCalm ==
  ASSUME OneCaller, MaxUpdates = 0, TInv, TCalm, TGrows, NEW c \in Callers, TSends(c)
  PROVE  TCalm'
<1>1. PICK op, arg : \E es \in Seq(Shows) :
        /\ Begin(c, op, arg, es)
        /\ op = "getAll" => /\ UNCHANGED <<lists, dead>>
                            /\ Disjoint /\ (\A h \in Hashes : latest[h] = h) => WhatIs(es)
  BY DEF TSends
<1>2. PICK es \in Seq(Shows) :
        /\ Begin(c, op, arg, es)
        /\ op = "getAll" => UNCHANGED <<lists, dead>> /\ WhatIs(es)
  BY <1>1 DEF TCalm
<1>3. calls'[c].op = op /\ calls'[c].answer = es
  BY <1>2 DEF Begin, TInv
<1>4. \A d \in Callers : d = c
  BY DEF OneCaller
<1>5. ASSUME NEW d \in Callers, calls'[d].op = "getAll" PROVE WhatIs(calls[d].answer)'
  <2>1. WhatIs(es) /\ lists' = lists /\ dead' = dead /\ calls'[d].answer = es
    BY <1>2, <1>3, <1>4, <1>5
  <2> QED BY <2>1 DEF WhatIs
<1>6. Disjoint' /\ \A h \in Hashes : latest'[h] = h
  BY DEF TGrows, TCalm
<1> QED BY <1>5, <1>6 DEF TCalm

LEMMA TReturnsCalm ==
  ASSUME OneCaller, TInv, TCalm, NEW c \in Callers, TReturns(c)
  PROVE  TCalm'
<1>1. lists' = lists /\ latest' = latest /\ calls'[c] = Idle
  BY DEF TReturns, End, TInv, T!zomeVars
<1>2. \A d \in Callers : d = c
  BY DEF OneCaller
<1>3. \A d \in Callers : calls'[d].op \notin {"delete", "get", "getAll"}
  BY <1>1, <1>2, TIdleIs
<1>4. Disjoint'
  BY <1>1 DEF TCalm, Disjoint
<1> QED BY <1>1, <1>3, <1>4 DEF TCalm

LEMMA TRestsCalm ==
  ASSUME MaxUpdates = 0, ~Others, TCalm, TGrows, TRests
  PROVE  TCalm'
<1>1. calls' = calls /\ lists' = lists /\ dead' = dead /\ latest' = latest
  BY DEF TRests, TGrows
<1>2. ASSUME NEW d \in Callers, calls'[d].op = "getAll" PROVE WhatIs(calls[d].answer)'
  <2>1. WhatIs(calls[d].answer)
    BY <1>1, <1>2 DEF TCalm
  <2> QED BY <1>1, <2>1 DEF WhatIs
<1>3. Disjoint'
  BY <1>1 DEF TCalm, Disjoint
<1> QED BY <1>1, <1>2, <1>3 DEF TCalm

\* A step of a call.
TSteps(c) == TGrows /\ (TSends(c) \/ TReturns(c))

\* A call that comes back and deletes nothing.
LEMMA TBack ==
  ASSUME T!ServiceTypesStoreAssumption, TInv, NEW c \in Callers, T!End(c), UNCHANGED T!zomeVars,
         deleted' = deleted, TArraysOK(arrays'),
         HashesOf(arrays'["all"]) \subseteq HashesOf(arrays["all"]) \cup HashesOf(calls[c].answer),
         DOMAIN cache' \subseteq DOMAIN cache \cup HashesOf(calls[c].answer),
         {h \in DOMAIN lookups' : lookups'[h] # <<>>} \subseteq
           {h \in DOMAIN lookups : lookups[h] # <<>>} \cup Finds(calls[c])
  PROVE  TSteps(c)
<1>1. End(c) /\ TGrows
  BY TCalls, TRestIs DEF TInv
<1>2. Kept' \subseteq Kept \cup HashesOf(calls[c].answer) \cup Finds(calls[c])
  BY DEF Kept
<1> QED BY <1>1, <1>2 DEF TSteps, TReturns

\* A call with one entity comes back.
LEMMA TAddNewSteps ==
  ASSUME T!ServiceTypesStoreAssumption, TInv, NEW c \in Callers, calls[c].op \in Adds, T!AddNew(c)
  PROVE  TSteps(c)
<1>1. PICK es, e : es = calls[c].answer /\ e = es[1]
  OBVIOUS
<1>2. es \in Seq(Shows) /\ Known(es) /\ es # <<>>
  BY <1>1 DEF TInv, TCallOK
<1>3. e \in Shows /\ e.hash \in Made /\ e.hash \in HashesOf(es)
  <2>1. 1 \in 1 .. Len(es)
    BY <1>2, EmptySeq, LenProperties
  <2>2. e \in Shows /\ e \in ToSet(es)
    BY <1>1, <1>2, <2>1, Members
  <2> QED BY <1>2, <2>2 DEF Known, HashesOf
<1>4. /\ T!End(c) /\ UNCHANGED T!zomeVars /\ lookups' = lookups /\ deleted' = deleted
      /\ arrays' = SyncAdd(arrays, e)
      /\ cache' = T!CacheSet(cache, e.hash, e)
  BY <1>1, TAdd DEF T!AddNew, T!Kept
<1>5. Loose(arrays', Names, Shows) /\ Joined(arrays', arrays, e, Names)
  BY <1>3, <1>4, SyncAddJoins DEF TInv, TArraysOK
<1>6. TArraysOK(arrays')
  <2>1. \A n \in Names : \A x \in ToSet(arrays'[n]) : x.hash \in Made
    <3>1. \A n \in Names : \A x \in ToSet(arrays[n]) : x.hash \in Made
      BY DEF TInv, TArraysOK, Known
    <3> QED BY <1>3, <1>5, <3>1 DEF Joined
  <2> QED BY <1>5, <2>1 DEF TArraysOK, Known
<1>7. HashesOf(arrays'["all"]) \subseteq HashesOf(arrays["all"]) \cup HashesOf(es)
  BY <1>3, <1>5 DEF Joined, HashesOf
<1>8. DOMAIN cache' \subseteq DOMAIN cache \cup HashesOf(es)
  BY <1>3, <1>4 DEF T!CacheSet
<1> QED BY <1>1, <1>4, <1>6, <1>7, <1>8, TBack

LEMMA TNewSends ==
  ASSUME T!ServiceTypesStoreAssumption, TInv, NEW c \in Callers, NEW s \in Statuses,
         NEW op \in {"create", "suggest"},
         T!NewType(s), T!Begin(c, op, 0, <<T!Entity(last + 1, s)>>), UNCHANGED T!storeVars
  PROVE  TSteps(c)
<1>1. TGrows /\ last < MaxHashes /\ last' = last + 1
  BY TNewIs DEF TInv
<1>2. last + 1 \in Hashes /\ last + 1 \in 1 .. last' /\ last + 1 \notin dead
  <2>1. last \in Nat /\ MaxHashes \in Nat /\ dead \subseteq 1 .. last
    BY DEF TInv, TypesOK, Made, T!ServiceTypesStoreAssumption
  <2> QED BY <1>1, <2>1 DEF Hashes
<1>3. PICK e : e = T!Entity(last + 1, s)
  OBVIOUS
<1>4. e \in Shows /\ e.hash = last + 1
  BY <1>2, <1>3, TEntityIs
<1>5. PICK es : es = <<e>>
  OBVIOUS
<1>6. es \in Seq(Shows) /\ ToSet(es) = {e} /\ es # <<>>
  <2>1. ToSet(<<>>) = {}
    BY NothingIs
  <2> QED BY <1>4, <1>5, <2>1, SingleIs
<1>7. Begin(c, op, 0, es)
  BY <1>3, <1>5, TCalls
<1>8. op # "update" /\ op # "delete" /\ op # "get" /\ op # "getAll"
  OBVIOUS
<1>9. TSends(c)
  BY <1>2, <1>4, <1>6, <1>7, <1>8 DEF TSends
<1> QED BY <1>1, <1>9 DEF TSteps

LEMMA TNewSteps ==
  ASSUME T!ServiceTypesStoreAssumption, TInv, NEW c \in Callers,
         T!CreateServiceType(c) \/ T!SuggestServiceType(c)
  PROVE  TSteps(c)
<1>0. "approved" \in Statuses /\ "pending" \in Statuses
  BY DEF Statuses
<1>1. ASSUME T!NewType("approved"), T!Begin(c, "create", 0, <<T!Entity(last + 1, "approved")>>),
             UNCHANGED T!storeVars
      PROVE  TSteps(c)
  BY <1>0, <1>1, TNewSends
<1>2. ASSUME T!NewType("pending"), T!Begin(c, "suggest", 0, <<T!Entity(last + 1, "pending")>>),
             UNCHANGED T!storeVars
      PROVE  TSteps(c)
  BY <1>0, <1>2, TNewSends
<1>3. ASSUME T!UnderWay(c, "create", 0) \/ T!UnderWay(c, "suggest", 0), T!AddNew(c) PROVE TSteps(c)
  <2>1. calls[c].op \in Adds
    BY <1>3 DEF T!UnderWay, Adds
  <2> QED BY <1>3, <2>1, TAddNewSteps
<1> QED BY <1>1, <1>2, <1>3 DEF T!CreateServiceType, T!SuggestServiceType

\* All arrays anew.
LEMMA TCollectionsAre ==
  ASSUME NEW arrs, DOMAIN arrs = Names, NEW es \in Seq(Shows), Known(es)
  PROVE  /\ TArraysOK(T!Collections(arrs, es))
         /\ HashesOf(T!Collections(arrs, es)["all"]) \subseteq HashesOf(es)
         /\ Once(es) => \A s \in Statuses :
              ToSet(T!Collections(arrs, es)[s]) = {x \in ToSet(es) : x.status = s}
<1>1. PICK none : none = [n \in DOMAIN arrs |-> <<>>]
  OBVIOUS
<1>2. /\ DOMAIN none = Names
      /\ \A n \in Names : none[n] = <<>>
      /\ "all" \in Names /\ \A s \in Statuses : s \in Names /\ s # "all"
  BY <1>1 DEF Names, Statuses
<1>3. \A n \in Names : none[n] \in Seq(Shows) /\ Once(none[n]) /\ ToSet(none[n]) = {}
  BY <1>2, NothingIs
<1>4. Tidy(none, Names, Shows)
  BY <1>2, <1>3 DEF Tidy
<1>5. PICK to : to = SyncAll(none, es)
  OBVIOUS
<1>6. T!Collections(arrs, es) = to
  BY <1>1, <1>5, TAddAll DEF T!Collections
<1>7. Tidy(to, Names, Shows) /\ AddedAll(to, none, es, Names)
  BY <1>4, <1>5, SyncAllIs
<1>8. \A n \in Names : \A x \in ToSet(to[n]) : x \in ToSet(es) /\ n \in {"all", x.status}
  BY <1>3, <1>7 DEF AddedAll
<1>9. TArraysOK(to)
  <2>1. Loose(to, Names, Shows)
    BY <1>2, <1>7 DEF Tidy, Loose
  <2>2. \A n \in Names : Known(to[n])
    BY <1>8 DEF Known
  <2> QED BY <2>1, <2>2 DEF TArraysOK
<1>10. HashesOf(to["all"]) \subseteq HashesOf(es)
  BY <1>2, <1>8 DEF HashesOf
<1>11. ASSUME Once(es), NEW s \in Statuses
       PROVE  ToSet(to[s]) = {x \in ToSet(es) : x.status = s}
  <2>1. \A x \in ToSet(es) : x.status = s => x \in ToSet(to[s])
    BY <1>2, <1>7, <1>11 DEF AddedAll
  <2>2. \A x \in ToSet(to[s]) : x \in ToSet(es) /\ x.status = s
    BY <1>2, <1>8
  <2> QED BY <2>1, <2>2
<1> QED BY <1>6, <1>9, <1>10, <1>11

LEMMA TGetAllSteps ==
  ASSUME T!ServiceTypesStoreAssumption, TInv, NEW c \in Callers, T!GetAllServiceTypes(c)
  PROVE  TSteps(c)
<1>1. ASSUME T!Read(c, "getAll", 0, T!ByStatus("pending") \o T!ByStatus("approved") \o T!ByStatus("rejected"))
      PROVE  TSteps(c)
  <2>1. PICK es : es = T!ByStatus("pending") \o T!ByStatus("approved") \o T!ByStatus("rejected")
    OBVIOUS
  <2>2. /\ es \in Seq(Shows)
        /\ \A e \in ToSet(es) : e.hash \in Made /\ e.hash \notin dead
        /\ Disjoint /\ (\A h \in Hashes : latest[h] = h) => WhatIs(es)
    BY <2>1, TAllIs DEF TInv
  <2>3. T!Begin(c, "getAll", 0, es) /\ UNCHANGED T!zomeVars /\ UNCHANGED T!storeVars
    BY <1>1, <2>1 DEF T!Read
  <2>4. Begin(c, "getAll", 0, es)
    BY <2>3, TCalls
  <2>5. TGrows
    BY <2>3, TRestIs DEF TInv
  <2>6. last' = last /\ lists' = lists /\ dead' = dead
    BY <2>3 DEF T!zomeVars
  <2>7. \A e \in ToSet(es) : e.hash \in 1 .. last' /\ e.hash \notin dead
    BY <2>2, <2>6 DEF Made
  <2>8. "getAll" \notin Adds /\ "getAll" # "update" /\ "getAll" # "delete" /\ "getAll" # "get"
    BY DEF Adds
  <2>9. TSends(c)
    BY <2>2, <2>3, <2>4, <2>6, <2>7, <2>8 DEF TSends
  <2> QED BY <2>5, <2>9 DEF TSteps
<1>2. ASSUME T!End(c), arrays' = T!Collections(arrays, calls[c].answer),
             UNCHANGED <<T!zomeVars, cache, lookups, deleted>>
      PROVE  TSteps(c)
  <2>1. PICK es : es = calls[c].answer
    OBVIOUS
  <2>2. es \in Seq(Shows) /\ Known(es) /\ DOMAIN arrays = Names
    BY <2>1 DEF TInv, TCallOK, TArraysOK, Loose
  <2>3. TArraysOK(arrays') /\ HashesOf(arrays'["all"]) \subseteq HashesOf(es)
    BY <1>2, <2>1, <2>2, TCollectionsAre
  <2> QED BY <1>2, <2>1, <2>3, TBack
<1> QED BY <1>1, <1>2 DEF T!GetAllServiceTypes

\* A call that is answered with what the zome has.
LEMMA TReadSends ==
  ASSUME T!ServiceTypesStoreAssumption, TInv, NEW c \in Callers, NEW op, NEW arg, NEW es \in Seq(Shows),
         op \notin Adds, op \notin {"update", "delete", "getAll"},
         op = "get" /\ es # <<>> => arg \notin dead,
         \A e \in ToSet(es) : e.hash \in Made /\ e.hash \notin dead,
         T!Read(c, op, arg, es)
  PROVE  TSteps(c)
<1>1. T!Begin(c, op, arg, es) /\ UNCHANGED T!zomeVars /\ UNCHANGED T!storeVars
  BY DEF T!Read
<1>2. Begin(c, op, arg, es)
  BY <1>1, TCalls
<1>3. TGrows
  BY <1>1, TRestIs DEF TInv
<1>4. \A e \in ToSet(es) : e.hash \in 1 .. last' /\ e.hash \notin dead
  BY <1>1 DEF T!zomeVars, Made
<1>5. TSends(c)
  BY <1>1, <1>2, <1>4 DEF TSends
<1> QED BY <1>3, <1>5 DEF TSteps

\* The array of a status anew.
LEMMA TReplacedSteps ==
  ASSUME T!ServiceTypesStoreAssumption, TInv, NEW c \in Callers, NEW op, NEW s \in Statuses,
         op \in {"getPending", "getApproved", "getRejected"}, T!Replaced(c, op, s)
  PROVE  TSteps(c)
<1>0. op \notin Adds /\ op \notin {"update", "delete", "getAll", "get"}
  BY DEF Adds
<1>1. ASSUME T!Read(c, op, 0, T!ByStatus(s)) PROVE TSteps(c)
  <2>1. PICK es : es = T!ByStatus(s)
    OBVIOUS
  <2>2. es \in Seq(Shows) /\ \A e \in ToSet(es) : e.hash \in Made /\ e.hash \notin dead
    BY <2>1, TByStatusIs DEF TInv
  <2> QED BY <1>0, <1>1, <2>1, <2>2, TReadSends
<1>2. ASSUME T!End(c), arrays' = [arrays EXCEPT ![s] = calls[c].answer],
             UNCHANGED <<T!zomeVars, cache, lookups, deleted>>
      PROVE  TSteps(c)
  <2>1. PICK es : es = calls[c].answer
    OBVIOUS
  <2>2. es \in Seq(Shows) /\ Known(es) /\ TArraysOK(arrays)
    BY <2>1 DEF TInv, TCallOK
  <2>3. s # "all" /\ s \in Names /\ "all" \in Names
    BY DEF Statuses, Names
  <2>4. /\ DOMAIN arrays' = Names /\ arrays'["all"] = arrays["all"] /\ arrays'[s] = es
        /\ \A n \in Names : n # s => arrays'[n] = arrays[n]
    BY <1>2, <2>1, <2>2, <2>3 DEF TArraysOK, Loose
  <2>5. TArraysOK(arrays')
    BY <2>2, <2>3, <2>4 DEF TArraysOK, Loose
  <2> QED BY <1>2, <2>4, <2>5, TBack
<1> QED BY <1>1, <1>2 DEF T!Replaced

LEMMA TGetOneListSteps ==
  ASSUME T!ServiceTypesStoreAssumption, TInv, NEW c \in Callers,
         T!GetPendingServiceTypes(c) \/ T!GetApprovedServiceTypes(c) \/ T!GetRejectedServiceTypes(c)
  PROVE  TSteps(c)
<1>1. "pending" \in Statuses /\ "approved" \in Statuses /\ "rejected" \in Statuses
  BY DEF Statuses
<1> QED BY <1>1, TReplacedSteps
        DEF T!GetPendingServiceTypes, T!GetApprovedServiceTypes, T!GetRejectedServiceTypes

\* What the lookup of the cache finds.
LEMMA TLookUpIs ==
  ASSUME T!ServiceTypesStoreAssumption, TypesOK, NEW h \in Made
  PROVE  /\ T!LookUp(h) \in Seq(Shows)
         /\ T!LookUp(h) # <<>> => h \notin dead
         /\ \A e \in ToSet(T!LookUp(h)) : e.hash \in Made /\ e.hash \notin dead
<1>1. T!StatusOf(h) \in Statuses /\ h \in Hashes
  BY DEF T!StatusOf, Statuses, TypesOK, Made, Hashes, T!ServiceTypesStoreAssumption
<1>2. CASE h \in dead
  BY <1>2, NothingIs DEF T!LookUp
<1>3. CASE h \notin dead
  <2>1. PICK e : e = T!Entity(h, T!StatusOf(h))
    OBVIOUS
  <2>2. e \in Shows /\ e.hash = h
    BY <1>1, <2>1, TEntityIs
  <2>3. T!LookUp(h) = <<e>>
    BY <1>3, <2>1 DEF T!LookUp
  <2>4. <<e>> \in Seq(Shows) /\ ToSet(<<e>>) = {e}
    BY <2>2, SingleIs
  <2> QED BY <1>3, <2>2, <2>3, <2>4
<1> QED BY <1>2, <1>3

\* Calls that are answered at once, or fail.
LEMMA TAtOnceRests ==
  ASSUME T!ServiceTypesStoreAssumption, TInv, NEW c \in Callers, T!AtOnce(c),
         UNCHANGED T!zomeVars, UNCHANGED T!storeVars
  PROVE  TGrows /\ TRests
<1>1. TGrows /\ calls' = calls /\ loading' = FALSE
  BY TRestIs, TCalls DEF TInv, AtOnce
<1> QED BY <1>1 DEF TInv, TRests, T!storeVars, T!zomeVars, Kept

LEMMA TGetSteps ==
  ASSUME T!ServiceTypesStoreAssumption, TInv, NEW c \in Callers, NEW h \in Made, T!GetServiceType(c, h)
  PROVE  TSteps(c) \/ (TGrows /\ TRests)
<1>1. CASE T!GetCached(c, h)
  BY <1>1, TAtOnceRests DEF T!GetCached
<1>2. ASSUME T!Read(c, "get", h, T!LookUp(h)) PROVE TSteps(c)
  <2>1. PICK es : es = T!LookUp(h)
    OBVIOUS
  <2>2. /\ es \in Seq(Shows) /\ (es # <<>> => h \notin dead)
        /\ \A e \in ToSet(es) : e.hash \in Made /\ e.hash \notin dead
    BY <2>1, TLookUpIs DEF TInv
  <2>3. "get" \notin Adds /\ "get" \notin {"update", "delete", "getAll"}
    BY DEF Adds
  <2> QED BY <1>2, <2>1, <2>2, <2>3, TReadSends
<1>3. ASSUME T!UnderWay(c, "get", h), T!End(c), lookups' = T!CacheSet(lookups, h, calls[c].answer),
             UNCHANGED <<T!zomeVars, arrays, cache, deleted>>
      PROVE  TSteps(c)
  <2>1. TArraysOK(arrays')
    BY <1>3 DEF TInv
  <2>2. calls[c].op = "get" /\ calls[c].arg = h
    BY <1>3 DEF T!UnderWay
  <2>3. {k \in DOMAIN lookups' : lookups'[k] # <<>>} \subseteq
          {k \in DOMAIN lookups : lookups[k] # <<>>} \cup Finds(calls[c])
    BY <1>3, <2>2 DEF T!CacheSet, Finds
  <2> QED BY <1>3, <2>1, <2>3, TBack
<1> QED BY <1>1, <1>2, <1>3 DEF T!GetServiceType

LEMMA TUpdateSteps ==
  ASSUME T!ServiceTypesStoreAssumption, TInv, NEW c \in Callers, NEW h \in Made, T!UpdateServiceType(c, h)
  PROVE  TSteps(c)
<1>1. ASSUME T!Cardinality({g \in T!Made : latest[g] # g}) < MaxUpdates, T!NewRevision(h),
             T!Begin(c, "update", h, <<T!Entity(h, "approved")>>), UNCHANGED T!storeVars
      PROVE  TSteps(c)
  <2>1. MaxUpdates # 0
    <3>1. PICK U : U = {g \in Made : latest[g] # g}
      OBVIOUS
    <3>2. IsFiniteSet(U)
      <4>1. 1 \in Int /\ last \in Int
        BY DEF TInv, TypesOK
      <4>2. IsFiniteSet(1 .. last)
        BY <4>1, FS_Interval
      <4>3. U \subseteq 1 .. last
        BY <3>1 DEF Made
      <4> QED BY <4>2, <4>3, FS_Subset
    <3>3. Cardinality(U) \in Nat
      BY <3>2, FS_CardinalityType
    <3>4. Cardinality(U) < MaxUpdates
      BY <1>1, <3>1, TCardinality, TNames
    <3> QED BY <3>3, <3>4
  <2>2. TGrows /\ last' = last + 1 /\ last \in Nat
    BY <1>1, <2>1, TRevisionIs DEF TInv, TypesOK, T!ServiceTypesStoreAssumption
  <2>3. h \in Hashes /\ h \in 1 .. last' /\ "approved" \in Statuses
    BY <2>2 DEF TInv, TypesOK, Made, Hashes, Statuses, T!ServiceTypesStoreAssumption
  <2>4. PICK e : e = T!Entity(h, "approved")
    OBVIOUS
  <2>5. e \in Shows /\ e.hash = h
    BY <2>3, <2>4, TEntityIs
  <2>6. PICK es : es = <<e>>
    OBVIOUS
  <2>7. es \in Seq(Shows) /\ ToSet(es) = {e} /\ es # <<>>
    <3>1. ToSet(<<>>) = {}
      BY NothingIs
    <3> QED BY <2>5, <2>6, <3>1, SingleIs
  <2>8. Begin(c, "update", h, es)
    BY <1>1, <2>4, <2>6, TCalls
  <2>9. TSends(c)
    BY <1>1, <2>1, <2>3, <2>5, <2>7, <2>8 DEF TSends
  <2> QED BY <2>2, <2>9 DEF TSteps
<1>2. ASSUME T!UnderWay(c, "update", h), T!AddNew(c) PROVE TSteps(c)
  <2>1. calls[c].op \in Adds
    BY <1>2 DEF T!UnderWay, Adds
  <2> QED BY <1>2, <2>1, TAddNewSteps
<1> QED BY <1>1, <1>2 DEF T!UpdateServiceType

\* A call that is answered with nothing, and changes the zome.
LEMMA TEmptySends ==
  ASSUME T!ServiceTypesStoreAssumption, TInv, TGrows, NEW c \in Callers, NEW h \in Made,
         NEW op \in {"approve", "reject", "delete"}, op = "delete" => h \in dead',
         T!Begin(c, op, h, <<>>), UNCHANGED T!storeVars
  PROVE  TSteps(c)
<1>1. PICK es : es = <<>>
  OBVIOUS
<1>2. es \in Seq(Shows) /\ ToSet(es) = {}
  BY <1>1, NothingIs
<1>3. Begin(c, op, h, es)
  BY <1>1, TCalls
<1>4. op \notin Adds /\ op # "update" /\ op # "get" /\ op # "getAll"
  BY DEF Adds
<1>5. TSends(c)
  BY <1>2, <1>3, <1>4 DEF TSends
<1> QED BY <1>5 DEF TSteps

LEMMA TDeleteSteps ==
  ASSUME T!ServiceTypesStoreAssumption, TInv, NEW c \in Callers, NEW h \in Made, T!DeleteServiceType(c, h)
  PROVE  TSteps(c)
<1>1. ASSUME T!Delete(h), T!Begin(c, "delete", h, <<>>), UNCHANGED T!storeVars PROVE TSteps(c)
  <2>1. TGrows /\ h \in dead'
    BY <1>1, TDeleteIs DEF TInv
  <2> QED BY <1>1, <2>1, TEmptySends
<1>2. ASSUME T!UnderWay(c, "delete", h), T!Forget(c, h) PROVE TSteps(c)
  <2>1. /\ T!End(c) /\ UNCHANGED T!zomeVars /\ deleted' = deleted \cup {h}
        /\ arrays' = SyncRemove(arrays, h)
        /\ cache' = T!CacheDrop(cache, h) /\ lookups' = T!CacheDrop(lookups, h)
    BY <1>2, TRemove DEF T!Forget
  <2>2. calls[c].op = "delete" /\ calls[c].arg = h /\ End(c) /\ TGrows
    BY <1>2, <2>1, TCalls, TRestIs DEF T!UnderWay, TInv
  <2>3. Loose(arrays', Names, Shows) /\ Left(arrays', arrays, h, Names)
    BY <2>1, SyncRemoveLeaves DEF TInv, TArraysOK
  <2>4. TArraysOK(arrays')
    BY <2>3 DEF TInv, TArraysOK, Left, Known
  <2>5. HashesOf(arrays'["all"]) \subseteq HashesOf(arrays["all"]) \ {h}
    BY <2>3 DEF Left, HashesOf
  <2>6. DOMAIN cache' \subseteq DOMAIN cache \ {h}
    BY <2>1 DEF T!CacheDrop
  <2>7. {k \in DOMAIN lookups' : lookups'[k] # <<>>} \subseteq
          {k \in DOMAIN lookups : lookups[k] # <<>>} \ {h}
    BY <2>1 DEF T!CacheDrop
  <2>8. Kept' \subseteq Kept \ {h}
    BY <2>5, <2>6, <2>7 DEF Kept
  <2>9. TReturns(c)
    BY <2>1, <2>2, <2>4, <2>8 DEF TReturns
  <2> QED BY <2>2, <2>9 DEF TSteps
<1> QED BY <1>1, <1>2 DEF T!DeleteServiceType

\* A decision moves what is pending, and adds to the array of a status.
LEMMA TTransitionIs ==
  ASSUME NEW arrs, TArraysOK(arrs), NEW h, NEW s \in Statuses, s # "pending"
  PROVE  /\ TArraysOK(T!Transition(arrs, h, s))
         /\ T!Transition(arrs, h, s)["all"] = arrs["all"]
<1>0. /\ "pending" \in Names /\ "all" \in Names /\ s \in Names /\ s # "all" /\ "pending" # "all"
      /\ "pending" \in Statuses
  BY DEF Names, Statuses
<1>1. PICK p : p = arrs["pending"]
  OBVIOUS
<1>2. p \in Seq(Shows) /\ Known(p) /\ DOMAIN arrs = Names
  BY <1>0, <1>1 DEF TArraysOK, Loose
<1>3. CASE ~Lists(p, h)
  <2>1. T!Transition(arrs, h, s) = arrs
    BY <1>1, <1>3, TIndex DEF T!Transition, T!Lists, Lists
  <2> QED BY <2>1
<1>4. CASE Lists(p, h)
  <2>1. PICK e : e = [p[Index(p, h)] EXCEPT !.status = s]
    OBVIOUS
  <2>2. PICK w : w = Without(p, h)
    OBVIOUS
  <2>3. T!Transition(arrs, h, s) = [arrs EXCEPT !["pending"] = w, ![s] = Append(@, e)]
    BY <1>1, <1>4, <2>1, <2>2, TIndex, TWithout DEF T!Transition, T!Lists, Lists
  <2>4. e \in Shows /\ e.hash \in Made
    <3>1. PICK x : x = p[Index(p, h)]
      OBVIOUS
    <3>2. x \in Shows /\ x \in ToSet(p)
      BY <1>2, <1>4, <3>1, IndexIs, Members DEF Lists
    <3> QED BY <1>2, <2>1, <3>1, <3>2 DEF Shows, Known
  <2>5. w \in Seq(Shows) /\ ToSet(w) \subseteq ToSet(p)
    BY <1>2, <2>2, WithoutKeeps
  <2>6. PICK to : to = T!Transition(arrs, h, s)
    OBVIOUS
  <2>7. PICK a : a = Append(arrs[s], e)
    OBVIOUS
  <2>8. to = [arrs EXCEPT !["pending"] = w, ![s] = a]
    BY <2>3, <2>6, <2>7
  <2>9. \A n \in Names : arrs[n] \in Seq(Shows) /\ Known(arrs[n])
    BY DEF TArraysOK, Loose
  <2>10. a \in Seq(Shows) /\ Known(a) /\ w \in Seq(Shows) /\ Known(w)
    BY <1>0, <1>2, <2>4, <2>5, <2>7, <2>9, AppendComes DEF Known
  <2>11. /\ DOMAIN to = Names /\ to["all"] = arrs["all"]
         /\ \A n \in Names : to[n] = a \/ to[n] = w \/ to[n] = arrs[n]
    BY <1>0, <1>2, <2>8
  <2>12. \A n \in Names : to[n] \in Seq(Shows) /\ Known(to[n])
    BY <2>9, <2>10, <2>11
  <2> QED BY <2>6, <2>11, <2>12 DEF TArraysOK, Loose
<1> QED BY <1>1, <1>3, <1>4

LEMMA TDecideSteps ==
  ASSUME T!ServiceTypesStoreAssumption, TInv, NEW c \in Callers, NEW h \in Made,
         T!ApproveServiceType(c, h) \/ T!RejectServiceType(c, h)
  PROVE  TSteps(c)
<1>0. "approved" \in Statuses /\ "rejected" \in Statuses
  BY DEF Statuses
<1>1. ASSUME NEW op \in {"approve", "reject"}, T!Approve(h) \/ T!Reject(h), T!Begin(c, op, h, <<>>),
             UNCHANGED T!storeVars
      PROVE  TSteps(c)
  <2>1. TGrows
    BY <1>1, TDecisionIs DEF TInv
  <2> QED BY <1>1, <2>1, TEmptySends
<1>2. ASSUME NEW s \in Statuses, s # "pending", T!Decided(c, h, s) PROVE TSteps(c)
  <2>1. /\ T!End(c) /\ arrays' = T!Transition(arrays, h, s)
        /\ UNCHANGED T!zomeVars /\ cache' = cache /\ lookups' = lookups /\ deleted' = deleted
    BY <1>2 DEF T!Decided
  <2>2. TArraysOK(arrays') /\ arrays'["all"] = arrays["all"]
    BY <1>2, <2>1, TTransitionIs DEF TInv
  <2> QED BY <2>1, <2>2, TBack
<1> QED BY <1>0, <1>1, <1>2 DEF T!ApproveServiceType, T!RejectServiceType

LEMMA TFailsSteps ==
  ASSUME T!ServiceTypesStoreAssumption, TInv, NEW c \in Callers, T!CallFails(c)
  PROVE  TSteps(c) \/ (TGrows /\ TRests)
<1>1. /\ UNCHANGED T!zomeVars /\ arrays' = arrays /\ cache' = cache /\ deleted' = deleted
      /\ {k \in DOMAIN lookups' : lookups'[k] # <<>>} \subseteq {k \in DOMAIN lookups : lookups[k] # <<>>}
  BY DEF T!CallFails, T!CacheSet
<1>2. TArraysOK(arrays') /\ TGrows
  BY <1>1, TRestIs DEF TInv
<1>3. CASE T!Fail(c)
  <2>1. T!End(c)
    BY <1>3 DEF T!Fail
  <2> QED BY <1>1, <1>2, <2>1, TBack
<1>4. CASE T!AtOnce(c)
  <2>1. calls' = calls /\ loading' = FALSE
    BY <1>4 DEF T!AtOnce
  <2>2. lists' = lists /\ dead' = dead
    BY <1>1 DEF T!zomeVars
  <2>3. Kept' \subseteq Kept
    BY <1>1 DEF Kept
  <2> QED BY <1>1, <1>2, <2>1, <2>2, <2>3 DEF TRests
<1> QED BY <1>3, <1>4 DEF T!CallFails

LEMMA TInvalidateRests ==
  ASSUME T!ServiceTypesStoreAssumption, TInv, T!InvalidateCache
  PROVE  TGrows /\ TRests
<1>1. /\ cache' = <<>> /\ lookups' = <<>> /\ UNCHANGED T!callVars /\ UNCHANGED T!zomeVars
      /\ arrays' = arrays /\ deleted' = deleted
  BY DEF T!InvalidateCache, T!NoCache
<1>2. TGrows /\ TArraysOK(arrays')
  BY <1>1, TRestIs DEF TInv
<1>3. DOMAIN cache' = {} /\ DOMAIN lookups' = {}
  BY <1>1
<1>4. Kept' \subseteq Kept
  BY <1>1, <1>3 DEF Kept
<1>5. calls' = calls /\ loading' = loading /\ lists' = lists /\ dead' = dead
  BY <1>1 DEF T!callVars, T!zomeVars
<1> QED BY <1>1, <1>2, <1>4, <1>5 DEF TRests, TInv

LEMMA TElsewhereRests ==
  ASSUME T!ServiceTypesStoreAssumption, TInv, T!Elsewhere
  PROVE  TGrows /\ TRests
<1>1. Others /\ UNCHANGED T!callVars /\ UNCHANGED T!storeVars
  BY DEF T!Elsewhere
<1>2. TRests
  BY <1>1 DEF TInv, TRests, T!callVars, T!storeVars, Kept
<1>3. CASE T!NewType("pending")
  <2>1. "pending" \in Statuses
    BY DEF Statuses
  <2> QED BY <1>2, <1>3, <2>1, TNewIs DEF TInv
<1>4. ASSUME NEW h \in Made, T!Approve(h) \/ T!Reject(h) \/ T!Delete(h) PROVE TGrows
  BY <1>4, TDecisionIs, TDeleteIs DEF TInv
<1>5. T!Made = Made
  BY TNames
<1> QED BY <1>2, <1>3, <1>4, <1>5 DEF T!Elsewhere

\* Every step is one of a call, or leaves the calls alone.
LEMMA TStepIs ==
  ASSUME T!ServiceTypesStoreAssumption, TInv, [T!Next]_(T!vars)
  PROVE  \/ \E c \in Callers : TSteps(c)
         \/ TGrows /\ TRests
<1>0. T!Made = Made
  BY TNames
<1>1. ASSUME NEW c \in Callers, T!Calls(c) PROVE TSteps(c) \/ (TGrows /\ TRests)
  <2>1. ASSUME NEW h \in Made,
               \/ T!GetServiceType(c, h) \/ T!UpdateServiceType(c, h) \/ T!DeleteServiceType(c, h)
               \/ T!ApproveServiceType(c, h) \/ T!RejectServiceType(c, h)
        PROVE  TSteps(c) \/ (TGrows /\ TRests)
    BY <2>1, TGetSteps, TUpdateSteps, TDeleteSteps, TDecideSteps
  <2>2. CASE T!CreateServiceType(c) \/ T!SuggestServiceType(c)
    BY <2>2, TNewSteps
  <2>3. CASE T!GetAllServiceTypes(c)
    BY <2>3, TGetAllSteps
  <2>4. CASE T!GetPendingServiceTypes(c) \/ T!GetApprovedServiceTypes(c) \/ T!GetRejectedServiceTypes(c)
    BY <2>4, TGetOneListSteps
  <2> QED BY <1>0, <1>1, <2>1, <2>2, <2>3, <2>4 DEF T!Calls
<1>2. CASE UNCHANGED T!vars
  <2>1. UNCHANGED T!callVars /\ UNCHANGED T!zomeVars /\ UNCHANGED T!storeVars
    BY <1>2 DEF T!vars
  <2> QED BY <2>1, TRestIs DEF TInv, TRests, T!callVars, T!zomeVars, T!storeVars, Kept
<1>3. CASE \E c \in Callers : T!Calls(c) \/ T!CallFails(c)
  BY <1>1, <1>3, TFailsSteps
<1>4. CASE T!InvalidateCache
  BY <1>4, TInvalidateRests
<1>5. CASE T!Elsewhere
  BY <1>5, TElsewhereRests
<1> QED BY <1>2, <1>3, <1>4, <1>5 DEF T!Next

LEMMA TInitOK ==
  ASSUME T!ServiceTypesStoreAssumption, T!Init
  PROVE  TInv /\ TGone /\ TCalm
<1>1. /\ calls = [c \in Callers |-> Idle] /\ loading = FALSE /\ last = 0 /\ dead = {} /\ deleted = {}
      /\ arrays = [n \in Names |-> <<>>]
      /\ lists = [s \in Statuses |-> {}] /\ latest = [h \in Hashes |-> h]
  BY TNames DEF T!Init, T!CallsInit, T!Idle, Idle, Names
<1>2. TypesOK
  <2>1. 0 \in 0 .. MaxHashes
    BY DEF T!ServiceTypesStoreAssumption
  <2> QED BY <1>1, <2>1 DEF TypesOK
<1>3. <<>> \in Seq(Shows) /\ ToSet(<<>>) = {} /\ Once(<<>>)
  BY NothingIs
<1>4. Idle.answer = <<>> /\ Idle.op = "none" /\ "none" \notin Adds
  BY DEF Idle, Adds
<1>5. \A c \in Callers : TCallOK(calls[c])
  BY <1>1, <1>3, <1>4 DEF TCallOK, Known
<1>6. TArraysOK(arrays)
  BY <1>1, <1>3 DEF TArraysOK, Loose, Names, Known
<1>7. TInv
  BY <1>1, <1>2, <1>5, <1>6 DEF TInv
<1>8. TGone
  BY <1>1, <1>3, <1>4 DEF TGone, HashesOf
<1>9. TCalm
  BY <1>1, <1>4 DEF TCalm, Disjoint
<1> QED BY <1>7, <1>8, <1>9

\* The arrays show records there are and that of all types repeats none, whatever
\* calls do (serviceTypes.store.svelte.ts:170-230).
THEOREM TypesStoreInvariant == T!ServiceTypesStoreAssumption /\ T!Spec => []TInv
<1> SUFFICES ASSUME T!ServiceTypesStoreAssumption PROVE T!Spec => []TInv
  OBVIOUS
<1>1. T!Init => TInv
  BY TInitOK
<1>2. TInv /\ [T!Next]_(T!vars) => TInv'
  BY TStepIs, TSendsKeeps, TReturnsKeeps, TRestsKeeps DEF TSteps
<1> QED BY <1>1, <1>2, PTL DEF T!Spec

\* The store of the service types shows what its types say: records there are,
\* under statuses there are (serviceTypes.store.svelte.ts:170-230).
THEOREM TypesStoreTypes == T!ServiceTypesStoreAssumption /\ T!Spec => []T!TypeOK
<1>1. ASSUME TInv PROVE T!TypeOK
  <2>1. /\ DOMAIN arrays = Names
        /\ \A n \in Names : arrays[n] \in Seq(Shows) /\ \A e \in ToSet(arrays[n]) : e.hash \in Made
    BY <1>1 DEF TInv, TArraysOK, Loose, Known
  <2>2. \A n \in DOMAIN arrays : \A i \in DOMAIN arrays[n] : arrays[n][i].status \in Statuses
    <3> SUFFICES ASSUME NEW n \in Names, NEW i \in DOMAIN arrays[n]
                 PROVE  arrays[n][i].status \in Statuses
      BY <2>1
    <3>1. PICK a : a = arrays[n]
      OBVIOUS
    <3>2. a[i] \in Shows
      BY <2>1, <3>1, Members
    <3> QED BY <3>1, <3>2 DEF Shows
  <2>3. T!Shown \subseteq Made
    BY <2>1, TSeqs DEF T!Shown
  <2>4. \A h \in Hashes : latest[h] \in Hashes
    BY <1>1 DEF TInv, TypesOK
  <2> QED BY <1>1, <2>2, <2>3, <2>4, TNames DEF TInv, TypesOK, T!TypeOK
<1> QED BY <1>1, TypesStoreInvariant, PTL

\* The array of all types names each type once, however calls overlap, fail and
\* answer late (cache-helpers.ts:70-90).
THEOREM TypesStoreAllOnce == T!ServiceTypesStoreAssumption /\ T!Spec => []T!AllOnce
<1>1. TInv => T!AllOnce
  BY DEF TInv, TArraysOK, Loose, Once, T!AllOnce
<1> QED BY <1>1, TypesStoreInvariant, PTL

\* An administrator who waits for each call, of types that are not revised, finds
\* none it has deleted among all or in the cache, whatever other administrators do
\* and whatever calls fail (serviceTypes.store.svelte.ts:438-442).
THEOREM TypesStoreForgets ==
  T!ServiceTypesStoreAssumption /\ OneCaller /\ MaxUpdates = 0 /\ T!Spec => []T!DeletedStaysAway
<1> SUFFICES ASSUME T!ServiceTypesStoreAssumption, OneCaller, MaxUpdates = 0
             PROVE  T!Spec => []T!DeletedStaysAway
  OBVIOUS
<1>1. T!Init => TInv /\ TGone
  BY TInitOK
<1>2. TInv /\ TGone /\ [T!Next]_(T!vars) => TInv' /\ TGone'
  <2> SUFFICES ASSUME TInv, TGone, [T!Next]_(T!vars) PROVE TInv' /\ TGone'
    OBVIOUS
  <2>1. ASSUME NEW c \in Callers, TSteps(c) PROVE TInv' /\ TGone'
    BY <2>1, TSendsKeeps, TReturnsKeeps, TSendsAway, TReturnsAway DEF TSteps
  <2>2. ASSUME TGrows, TRests PROVE TInv' /\ TGone'
    BY <2>2, TRestsKeeps, TRestsAway
  <2> QED BY <2>1, <2>2, TStepIs
<1>3. TGone => T!DeletedStaysAway
  BY TSeqs DEF TGone, Kept, HashesOf, T!DeletedStaysAway
<1> QED BY <1>1, <1>2, <1>3, PTL DEF T!Spec

\* What the last call for all types leaves to an administrator who is alone and
\* waits for each call: each type, not revised, in the array of its status in the
\* zome and in no other (cache-helpers.ts:211-239).
THEOREM TypesStoreAllIsWhatIs ==
  T!ServiceTypesStoreAssumption /\ OneCaller /\ MaxUpdates = 0 /\ ~Others /\ T!Spec
    => [][T!AllIsWhatIs]_(T!vars)
<1> SUFFICES ASSUME T!ServiceTypesStoreAssumption, OneCaller, MaxUpdates = 0, ~Others
             PROVE  T!Spec => [][T!AllIsWhatIs]_(T!vars)
  OBVIOUS
<1>1. T!Init => TInv /\ TCalm
  BY TInitOK
<1>2. TInv /\ TCalm /\ [T!Next]_(T!vars) => TInv' /\ TCalm'
  <2> SUFFICES ASSUME TInv, TCalm, [T!Next]_(T!vars) PROVE TInv' /\ TCalm'
    OBVIOUS
  <2>1. ASSUME NEW c \in Callers, TSteps(c) PROVE TInv' /\ TCalm'
    BY <2>1, TSendsKeeps, TReturnsKeeps, TSendsCalm, TReturnsCalm DEF TSteps
  <2>2. ASSUME TGrows, TRests PROVE TInv' /\ TCalm'
    BY <2>2, TRestsKeeps, TRestsCalm
  <2> QED BY <2>1, <2>2, TStepIs
<1>3. ASSUME TInv, TCalm, NEW c \in Callers, T!UnderWay(c, "getAll", 0), T!GetAllServiceTypes(c),
             NEW s \in Statuses
      PROVE  {e.hash : e \in T!ToSet(arrays'[s])} = lists[s] \ dead
  <2>1. calls[c].op = "getAll"
    BY <1>3 DEF T!UnderWay
  <2>2. PICK es : es = calls[c].answer
    OBVIOUS
  <2>3. WhatIs(es) /\ es \in Seq(Shows) /\ Known(es) /\ DOMAIN arrays = Names
    BY <1>3, <2>1, <2>2 DEF TCalm, TInv, TCallOK, TArraysOK, Loose
  <2>4. arrays' = T!Collections(arrays, es)
    <3>1. T!Busy(c)
      BY <2>1 DEF T!Busy, T!Idle
    <3> QED BY <1>3, <2>2, <3>1 DEF T!GetAllServiceTypes, T!Read, T!Begin
  <2>5. ToSet(arrays'[s]) = {x \in ToSet(es) : x.status = s}
    BY <2>3, <2>4, TCollectionsAre DEF WhatIs
  <2>6. lists[s] \subseteq Hashes
    BY <1>3 DEF TInv, TypesOK, Made, Hashes, T!ServiceTypesStoreAssumption
  <2>7. T!ToSet(arrays'[s]) = ToSet(arrays'[s])
    BY TSeqs
  <2>8. \A x \in ToSet(es) : x.hash \in Hashes
    <3>1. \A x \in ToSet(es) : x \in Shows
      BY <2>3, Members
    <3> QED BY <3>1 DEF Shows
  <2> QED BY <2>3, <2>5, <2>6, <2>7, <2>8 DEF WhatIs
<1>4. TInv /\ TCalm /\ [T!Next]_(T!vars) => [T!AllIsWhatIs]_(T!vars)
  BY <1>3, TNames DEF T!AllIsWhatIs
<1> QED BY <1>1, <1>2, <1>4, PTL DEF T!Spec

-----------------------------------------------------------------------------
(* The stores of the requests and of the offers. *)

LShows == [hash : Hashes, status : {"listing"}]

\* A listing that no edit is of, and that is no edit.
Unedited(h) == \A e \in edits : e[1] # h /\ e[2] # h

\* An archived listing that nobody edited: not on the list of the active ones, and
\* archived by its latest revision, if it is still there.
Away(h) == h \notin lists["active"] /\ (latest[h] \in shelved \/ h \in dead)

\* What the zome keeps.
ListingsOK ==
  /\ last \in 0 .. MaxHashes
  /\ lists \in [L!Names -> SUBSET Made]
  /\ shelved \subseteq Made
  /\ dead \subseteq Made
  /\ latest \in [Hashes -> Hashes]
  /\ \A h \in Hashes : h \notin Made => latest[h] = h
  /\ \A h \in Made : latest[h] \in Made /\ latest[h] >= h
  /\ \A e \in edits : e \in Made \X Made /\ e[1] < e[2]
  /\ \A h \in Hashes : latest[h] = h \/ latest[h] \in L!Revisions

\* What an archival leaves.
ShelvedOK ==
  /\ shelved \cap lists["active"] = {}
  /\ \A h \in Hashes : Unedited(h) =>
       /\ latest[h] = h \/ latest[h] \in shelved
       /\ latest[h] \in shelved => h \notin lists["active"]

LNames == {"all", "active", "archived"} \cup (IF Kind = "requests" THEN {"found"} ELSE {})

LArraysOK(arrs) ==
  /\ Tidy(arrs, LNames, LShows)
  /\ \A n \in LNames : Known(arrs[n])
  /\ HashesOf(arrs[L!Found]) \subseteq HashesOf(arrs["all"])

LCallOK(call) ==
  /\ call.answer \in Seq(LShows)
  /\ Once(call.answer)
  /\ Known(call.answer)
  /\ call.op = "open" => \A e \in ToSet(call.answer) : e.hash = call.arg \/ e.hash \in L!Revisions

LCacheOK(entries) ==
  \A h \in DOMAIN entries :
    h \in Made /\ entries[h].hash \in Made /\ (entries[h].hash = h \/ entries[h].hash \in L!Revisions)

LInv ==
  /\ loading \in BOOLEAN
  /\ ListingsOK
  /\ ShelvedOK
  /\ DOMAIN calls = Callers
  /\ \A c \in Callers : LCallOK(calls[c])
  /\ LArraysOK(arrays)
  /\ LCacheOK(cache)
  /\ page.hash \in 0 .. last
  /\ DOMAIN removed = {"delete", "archive"}

\* What the pages show, and what the cache names.
Seen == L!Shown \cup DOMAIN cache

LGone ==
  /\ removed["delete"] \subseteq dead
  /\ (removed["delete"] \ L!Revisions) \cap Seen = {}
  /\ \A c \in Callers :
       /\ HashesOf(calls[c].answer) \cap removed["delete"] = {}
       /\ calls[c].op = "delete" => calls[c].arg \in dead
       /\ calls[c].op = "open" => calls[c].arg \notin removed["delete"] \ L!Revisions

\* The calls whose answer becomes the array of the active listings.
Actives == {"active", "userActive"}

LFiled ==
  /\ removed["archive"] \subseteq Made
  /\ \A h \in removed["archive"] : Unedited(h) => Away(h) /\ h \notin HashesOf(arrays["active"])
  /\ \A c \in Callers :
       /\ calls[c].op = "archive" => calls[c].arg \in Made /\ (Unedited(calls[c].arg) => Away(calls[c].arg))
       /\ calls[c].op \in Actives =>
            \A h \in removed["archive"] : Unedited(h) => h \notin HashesOf(calls[c].answer)

\* The helpers of these stores are those of all stores.
LEMMA LCardinality ==
  ASSUME NEW A
  PROVE  L!Cardinality(A) = Cardinality(A)
BY DEF L!Cardinality, Cardinality

LEMMA LSeqs ==
  ASSUME NEW a
  PROVE  L!ToSet(a) = ToSet(a) /\ L!SetToSeq(a) = SetToSeq(a)
<1>1. L!ToSet(a) = ToSet(a)
  BY DEF L!ToSet, ToSet
<1>2. L!SetToSeq(a) = SetToSeq(a)
  BY LCardinality DEF L!SetToSeq, SetToSeq, L!IsInjective, IsInjective
<1> QED BY <1>1, <1>2

LEMMA LIndex ==
  ASSUME NEW a, NEW h
  PROVE  L!Index(a, h) = Index(a, h)
BY DEF L!Index, Index, L!SelectInSeq, SelectInSeq, L!Min, Min

LEMMA LWithout ==
  ASSUME NEW a, NEW h
  PROVE  L!Without(a, h) = Without(a, h)
BY LIndex DEF L!Without, Without, L!RemoveFirstMatch, RemoveFirstMatch, L!RemoveAt, RemoveAt,
   L!SelectInSeq, SelectInSeq, L!Min, Min

LEMMA LPut ==
  ASSUME NEW a, NEW e
  PROVE  L!Put(a, e) = Put(a, e)
BY LIndex DEF L!Put, Put, L!Lists, Lists, L!ReplaceAt, ReplaceAt

LEMMA LAdd ==
  ASSUME NEW arrs, NEW e
  PROVE  L!SyncAdd(arrs, e) = SyncAdd(arrs, e)
BY LWithout, LPut DEF L!SyncAdd, SyncAdd

LEMMA LRemove ==
  ASSUME NEW arrs, NEW h
  PROVE  L!SyncRemove(arrs, h) = SyncRemove(arrs, h)
BY LWithout DEF L!SyncRemove, SyncRemove

LEMMA LAddAll ==
  ASSUME NEW arrs, NEW es
  PROVE  L!SyncAll(arrs, es) = SyncAll(arrs, es)
BY LAdd DEF L!SyncAll, SyncAll

LEMMA LCalls ==
  ASSUME NEW c, NEW op, NEW arg, NEW es
  PROVE  /\ L!Begin(c, op, arg, es) <=> Begin(c, op, arg, es)
         /\ L!End(c) <=> End(c)
         /\ L!Fail(c) <=> Fail(c)
         /\ L!AtOnce(c) <=> AtOnce(c)
         /\ L!UnderWay(c, op, arg) <=> UnderWay(c, op, arg)
BY DEF L!Begin, Begin, L!End, End, L!Fail, Fail, L!AtOnce, AtOnce, L!UnderWay, UnderWay, L!Busy, Busy,
       L!Idle, Idle

LEMMA LEntityIs ==
  ASSUME NEW h \in Hashes
  PROVE  L!Entity(h) \in LShows /\ L!Entity(h).hash = h /\ L!Entity(h).status = "listing"
BY DEF L!Entity, LShows

LEMMA LMadeIs ==
  /\ L!Hashes = Hashes
  /\ L!Made = Made
  /\ \A h : h \in L!Revisions <=> h \in shelved \/ \E e \in edits : e[2] = h
BY DEF L!Hashes, Hashes, L!Made, Made, L!Revisions

\* Records are made and not unmade, deleted for good, and revisions for good; what
\* was archived and is not edited stays away.
LGrows ==
  /\ ListingsOK'
  /\ ShelvedOK'
  /\ last <= last'
  /\ dead \subseteq dead'
  /\ L!Revisions \subseteq L!Revisions'
  /\ edits \subseteq edits'
  /\ \A h \in Made : Unedited(h)' /\ Away(h) => Away(h)'

LEMMA LRestIs ==
  ASSUME ListingsOK, ShelvedOK, UNCHANGED L!zomeVars
  PROVE  LGrows
<1>1. /\ lists' = lists /\ latest' = latest /\ shelved' = shelved /\ edits' = edits
      /\ last' = last /\ dead' = dead
  BY DEF L!zomeVars
<1>2. Made' = Made /\ L!Revisions' = L!Revisions /\ last \in Int
  BY <1>1 DEF Made, L!Revisions, ListingsOK
<1>3. ListingsOK'
  BY <1>1, <1>2 DEF ListingsOK
<1>4. ShelvedOK'
  BY <1>1 DEF ShelvedOK, Unedited
<1>5. \A h \in Made : Away(h) => Away(h)'
  BY <1>1 DEF Away
<1> QED BY <1>1, <1>2, <1>3, <1>4, <1>5 DEF LGrows

LEMMA LNewIs ==
  ASSUME L!ListingStoreAssumption, ListingsOK, ShelvedOK, NEW names, L!NewListing(names)
  PROVE  LGrows /\ last < MaxHashes /\ last' = last + 1
<1>1. /\ last < MaxHashes /\ last' = last + 1 /\ last \in Nat /\ MaxHashes \in Nat
      /\ lists' = [n \in L!Names |-> IF n \in names THEN lists[n] \cup {last + 1} ELSE lists[n]]
      /\ latest' = latest /\ shelved' = shelved /\ edits' = edits /\ dead' = dead
  BY DEF L!NewListing, ListingsOK, L!ListingStoreAssumption
<1>2. /\ Made' = Made \cup {last + 1} /\ last' \in 0 .. MaxHashes /\ last <= last'
      /\ last + 1 \in Hashes /\ last + 1 \notin Made /\ L!Revisions' = L!Revisions
      /\ \A h \in Made : h \in Hashes
  BY <1>1 DEF Made, Hashes, L!Revisions
<1>3. lists' \in [L!Names -> SUBSET Made'] /\ "active" \in L!Names
  BY <1>1, <1>2 DEF ListingsOK, L!Names
<1>4. \A h \in lists'["active"] : h = last + 1 \/ h \in lists["active"]
  BY <1>1, <1>3
<1>5. latest[last + 1] = last + 1
  BY <1>2 DEF ListingsOK
<1>6. ListingsOK'
  <2>1. \A h \in Made' : latest'[h] \in Made' /\ latest'[h] >= h
    BY <1>1, <1>2, <1>5 DEF ListingsOK
  <2>2. \A e \in edits' : e \in Made' \X Made' /\ e[1] < e[2]
    BY <1>1, <1>2 DEF ListingsOK
  <2>3. \A h \in Hashes : latest'[h] = h \/ latest'[h] \in L!Revisions'
    BY <1>1, <1>2 DEF ListingsOK
  <2>4. \A h \in Hashes : h \notin Made' => latest'[h] = h
    BY <1>1, <1>2 DEF ListingsOK
  <2>5. shelved' \subseteq Made' /\ dead' \subseteq Made' /\ latest' \in [Hashes -> Hashes]
    BY <1>1, <1>2 DEF ListingsOK
  <2> QED BY <1>2, <1>3, <2>1, <2>2, <2>3, <2>4, <2>5 DEF ListingsOK
<1>7. ShelvedOK'
  <2>1. last + 1 \notin shelved
    BY <1>2 DEF ListingsOK
  <2>2. shelved' \cap lists'["active"] = {}
    BY <1>1, <1>4, <2>1 DEF ShelvedOK
  <2>3. ASSUME NEW h \in Hashes, Unedited(h)'
        PROVE  /\ latest'[h] = h \/ latest'[h] \in shelved'
               /\ latest'[h] \in shelved' => h \notin lists'["active"]
    <3>1. Unedited(h)
      BY <1>1, <2>3 DEF Unedited
    <3> QED BY <1>1, <1>4, <1>5, <2>1, <3>1 DEF ShelvedOK
  <2> QED BY <2>2, <2>3 DEF ShelvedOK
<1>8. \A h \in Made : Away(h) => Away(h)'
  BY <1>1, <1>2, <1>4 DEF Away
<1> QED BY <1>1, <1>2, <1>6, <1>7, <1>8 DEF LGrows

LEMMA LEditIs ==
  ASSUME L!ListingStoreAssumption, ListingsOK, ShelvedOK, NEW h \in Made, L!Edit(h)
  PROVE  LGrows /\ h \notin dead
<1>1. /\ last < MaxHashes /\ last' = last + 1 /\ last \in Nat /\ MaxHashes \in Nat
      /\ lists' = [n \in L!Names |-> IF n = "tag" /\ h \in lists[n] THEN lists[n] \cup {last + 1}
                                                                   ELSE lists[n]]
      /\ latest' = [latest EXCEPT ![h] = last + 1]
      /\ shelved' = shelved /\ edits' = edits \cup {<<h, last + 1>>} /\ dead' = dead /\ h \notin dead
  BY DEF L!Edit, L!NewRevision, ListingsOK, L!ListingStoreAssumption
<1>2. /\ Made' = Made \cup {last + 1} /\ last' \in 0 .. MaxHashes /\ last <= last'
      /\ last + 1 \in Hashes /\ last + 1 \notin Made
      /\ \A g \in Made : g \in Hashes /\ g \in Int /\ g < last + 1
  BY <1>1 DEF Made, Hashes
<1>3. \A g : g \in L!Revisions' <=> g \in L!Revisions \/ g = last + 1
  <2>1. PICK d : d = <<h, last + 1>>
    OBVIOUS
  <2>2. d[2] = last + 1 /\ shelved' = shelved /\ edits' = edits \cup {d}
    BY <1>1, <2>1
  <2> QED BY <2>2 DEF L!Revisions
<1>4. lists' \in [L!Names -> SUBSET Made'] /\ lists'["active"] = lists["active"]
  <2>1. "active" \in L!Names /\ "active" # "tag"
    BY DEF L!Names
  <2> QED BY <1>1, <1>2, <2>1 DEF ListingsOK
<1>5. /\ latest' \in [Hashes -> Hashes] /\ latest'[h] = last + 1 /\ latest'[last + 1] = last + 1
      /\ \A g \in Hashes : g # h => latest'[g] = latest[g]
  BY <1>1, <1>2 DEF ListingsOK
<1>6. ListingsOK'
  <2>1. ASSUME NEW g \in Made' PROVE latest'[g] \in Made' /\ latest'[g] >= g
    <3>1. CASE g = last + 1
      BY <1>1, <1>2, <1>5, <3>1
    <3>2. CASE g \in Made /\ g = h
      BY <1>1, <1>2, <1>5, <3>2
    <3>3. CASE g \in Made /\ g # h
      BY <1>2, <1>5, <3>3 DEF ListingsOK
    <3> QED BY <1>2, <3>1, <3>2, <3>3
  <2>2. \A e \in edits' : e \in Made' \X Made' /\ e[1] < e[2]
    BY <1>1, <1>2 DEF ListingsOK
  <2>3. \A g \in Hashes : latest'[g] = g \/ latest'[g] \in L!Revisions'
    BY <1>3, <1>5 DEF ListingsOK
  <2>4. \A g \in Hashes : g \notin Made' => latest'[g] = g
    BY <1>2, <1>5 DEF ListingsOK
  <2>5. shelved' \subseteq Made' /\ dead' \subseteq Made'
    BY <1>1, <1>2 DEF ListingsOK
  <2> QED BY <1>2, <1>4, <1>5, <2>1, <2>2, <2>3, <2>4, <2>5 DEF ListingsOK
<1>7. ASSUME NEW g, Unedited(g)' PROVE Unedited(g) /\ g # h
  <2>1. <<h, last + 1>> \in edits' /\ edits \subseteq edits'
    BY <1>1
  <2> QED BY <1>7, <2>1 DEF Unedited
<1>8. ShelvedOK'
  <2>1. ASSUME NEW g \in Hashes, Unedited(g)'
        PROVE  /\ latest'[g] = g \/ latest'[g] \in shelved'
               /\ latest'[g] \in shelved' => g \notin lists'["active"]
    BY <1>1, <1>4, <1>5, <1>7, <2>1 DEF ShelvedOK
  <2> QED BY <1>1, <1>4, <2>1 DEF ShelvedOK
<1>9. \A g \in Made : Unedited(g)' /\ Away(g) => Away(g)'
  BY <1>1, <1>2, <1>4, <1>5, <1>7 DEF Away
<1> QED BY <1>1, <1>2, <1>3, <1>6, <1>8, <1>9 DEF LGrows

LEMMA LArchiveIs ==
  ASSUME L!ListingStoreAssumption, ListingsOK, ShelvedOK, NEW h \in Made, L!Archive(h)
  PROVE  LGrows /\ (Unedited(h)' => Away(h)')
<1>1. /\ last < MaxHashes /\ last' = last + 1 /\ last \in Nat /\ MaxHashes \in Nat
      /\ lists' = [lists EXCEPT !["active"] = @ \ {latest[h]}, !["archived"] = @ \cup {last + 1}]
      /\ latest' = [latest EXCEPT ![h] = last + 1]
      /\ shelved' = shelved \cup {last + 1} /\ edits' = edits /\ dead' = dead
  BY DEF L!Archive, L!NewRevision, ListingsOK, L!ListingStoreAssumption
<1>2. /\ Made' = Made \cup {last + 1} /\ last' \in 0 .. MaxHashes /\ last <= last'
      /\ last + 1 \in Hashes /\ last + 1 \notin Made
      /\ \A g \in Made : g \in Hashes /\ g \in Int /\ g < last + 1
  BY <1>1 DEF Made, Hashes
<1>3. \A g : g \in L!Revisions' <=> g \in L!Revisions \/ g = last + 1
  BY <1>1 DEF L!Revisions
<1>4. /\ lists' \in [L!Names -> SUBSET Made']
      /\ lists'["active"] = lists["active"] \ {latest[h]}
      /\ lists["active"] \subseteq Made
  <2>1. "active" \in L!Names /\ "archived" \in L!Names /\ "active" # "archived"
    BY DEF L!Names
  <2> QED BY <1>1, <1>2, <2>1 DEF ListingsOK
<1>5. /\ latest' \in [Hashes -> Hashes] /\ latest'[h] = last + 1 /\ latest'[last + 1] = last + 1
      /\ \A g \in Hashes : g # h => latest'[g] = latest[g]
  BY <1>1, <1>2 DEF ListingsOK
<1>6. ListingsOK'
  <2>1. ASSUME NEW g \in Made' PROVE latest'[g] \in Made' /\ latest'[g] >= g
    <3>1. CASE g = last + 1
      BY <1>1, <1>2, <1>5, <3>1
    <3>2. CASE g \in Made /\ g = h
      BY <1>1, <1>2, <1>5, <3>2
    <3>3. CASE g \in Made /\ g # h
      BY <1>2, <1>5, <3>3 DEF ListingsOK
    <3> QED BY <1>2, <3>1, <3>2, <3>3
  <2>2. \A e \in edits' : e \in Made' \X Made' /\ e[1] < e[2]
    BY <1>1, <1>2 DEF ListingsOK
  <2>3. \A g \in Hashes : latest'[g] = g \/ latest'[g] \in L!Revisions'
    BY <1>3, <1>5 DEF ListingsOK
  <2>4. \A g \in Hashes : g \notin Made' => latest'[g] = g
    BY <1>2, <1>5 DEF ListingsOK
  <2>5. shelved' \subseteq Made' /\ dead' \subseteq Made'
    BY <1>1, <1>2 DEF ListingsOK
  <2> QED BY <1>2, <1>4, <1>5, <2>1, <2>2, <2>3, <2>4, <2>5 DEF ListingsOK
<1>7. ASSUME NEW g, Unedited(g)' PROVE Unedited(g)
  BY <1>1, <1>7 DEF Unedited
<1>8. Unedited(h) => h \notin lists'["active"]
  BY <1>2, <1>4 DEF ShelvedOK
<1>9. ShelvedOK'
  <2>1. shelved' \cap lists'["active"] = {}
    BY <1>1, <1>2, <1>4 DEF ShelvedOK
  <2>2. ASSUME NEW g \in Hashes, Unedited(g)'
        PROVE  /\ latest'[g] = g \/ latest'[g] \in shelved'
               /\ latest'[g] \in shelved' => g \notin lists'["active"]
    <3>1. Unedited(g)
      BY <1>7, <2>2
    <3>2. CASE g = h
      BY <1>1, <1>5, <1>8, <3>1, <3>2
    <3>3. CASE g # h
      <4>1. latest'[g] = latest[g]
        BY <1>5, <3>3
      <4>2. CASE latest[g] \in shelved
        <5>1. g \notin lists["active"]
          BY <3>1, <4>2 DEF ShelvedOK
        <5>2. g \notin lists'["active"] /\ latest[g] \in shelved'
          BY <1>1, <1>4, <4>2, <5>1
        <5> QED BY <4>1, <5>2
      <4>3. CASE latest[g] \notin shelved
        <5>1. latest[g] = g
          BY <3>1, <4>3 DEF ShelvedOK
        <5>2. g = last + 1 => g \notin lists'["active"]
          BY <1>2, <1>4
        <5> QED BY <1>1, <4>1, <4>3, <5>1, <5>2
      <4> QED BY <4>2, <4>3
    <3> QED BY <3>2, <3>3
  <2> QED BY <2>1, <2>2 DEF ShelvedOK
<1>10. \A g \in Made : Away(g) => Away(g)'
  BY <1>1, <1>2, <1>4, <1>5 DEF Away
<1>11. Unedited(h)' => Away(h)'
  BY <1>1, <1>5, <1>7, <1>8 DEF Away
<1> QED BY <1>1, <1>2, <1>3, <1>6, <1>9, <1>10, <1>11 DEF LGrows

LEMMA LDeleteIs ==
  ASSUME L!ListingStoreAssumption, ListingsOK, ShelvedOK, NEW h \in Made, L!Delete(h)
  PROVE  LGrows /\ h \in dead'
<1>1. /\ last' = last /\ last \in Nat
      /\ lists' = [n \in L!Names |-> IF n \in {"active", "archived"} THEN lists[n] ELSE lists[n] \ {h}]
      /\ latest' = [latest EXCEPT ![h] = h]
      /\ shelved' = shelved /\ edits' = edits /\ dead' = dead \cup {h}
  BY DEF L!Delete, ListingsOK, L!ListingStoreAssumption
<1>2. /\ Made' = Made /\ last <= last' /\ L!Revisions' = L!Revisions
      /\ \A g \in Made : g \in Hashes /\ g >= g
  BY <1>1 DEF Made, Hashes, L!Revisions, ListingsOK, L!ListingStoreAssumption
<1>3. lists' \in [L!Names -> SUBSET Made'] /\ lists'["active"] = lists["active"]
  <2>1. "active" \in L!Names
    BY DEF L!Names
  <2> QED BY <1>1, <1>2, <2>1 DEF ListingsOK
<1>4. /\ latest' \in [Hashes -> Hashes] /\ latest'[h] = h
      /\ \A g \in Hashes : g # h => latest'[g] = latest[g]
  BY <1>1, <1>2 DEF ListingsOK
<1>5. ListingsOK'
  BY <1>1, <1>2, <1>3, <1>4 DEF ListingsOK
<1>6. ShelvedOK'
  <2>1. ASSUME NEW g \in Hashes, Unedited(g)'
        PROVE  /\ latest'[g] = g \/ latest'[g] \in shelved'
               /\ latest'[g] \in shelved' => g \notin lists'["active"]
    <3>1. Unedited(g)
      BY <1>1, <2>1 DEF Unedited
    <3> QED BY <1>1, <1>3, <1>4, <3>1 DEF ShelvedOK
  <2> QED BY <1>1, <1>3, <2>1 DEF ShelvedOK
<1>7. \A g \in Made : Away(g) => Away(g)'
  BY <1>1, <1>2, <1>3, <1>4 DEF Away
<1> QED BY <1>1, <1>2, <1>5, <1>6, <1>7 DEF LGrows

\* What the zome answers.
LEMMA LEntitiesIs ==
  ASSUME L!ListingStoreAssumption, ListingsOK, NEW hs, hs \subseteq Made
  PROVE  /\ L!Entities(hs) \in Seq(LShows)
         /\ Once(L!Entities(hs))
         /\ HashesOf(L!Entities(hs)) = hs \ dead
<1> DEFINE H == hs \ dead
           ts == SetToSeq(H)
           es == L!Entities(hs)
<1>1. Made \subseteq Hashes
  BY DEF ListingsOK, Made, Hashes, L!ListingStoreAssumption
<1>2. IsFiniteSet(H)
  <2>1. 1 \in Int /\ last \in Int
    BY DEF ListingsOK
  <2>2. IsFiniteSet(1 .. last)
    BY <2>1, FS_Interval
  <2>3. H \subseteq 1 .. last
    BY DEF Made
  <2> QED BY <2>2, <2>3, FS_Subset
<1>3. es = [i \in DOMAIN ts |-> L!Entity(ts[i])]
  BY LSeqs DEF L!Entities
<1> HIDE DEF ts, es, H
<1>4. ts \in Seq(H) /\ ToSet(ts) = H /\ \A i, j \in DOMAIN ts : ts[i] = ts[j] => i = j
  BY <1>2, SetToSeqIs DEF ts
<1>5. Len(ts) \in Nat /\ DOMAIN ts = 1 .. Len(ts) /\ \A i \in 1 .. Len(ts) : ts[i] \in H
  BY <1>4, Members
<1>6. DOMAIN es = 1 .. Len(ts) /\ \A i \in 1 .. Len(ts) : es[i] = L!Entity(ts[i])
  BY <1>3, <1>5
<1>7. \A i \in 1 .. Len(ts) : es[i] \in LShows /\ es[i].hash = ts[i]
  <2>1. \A i \in 1 .. Len(ts) : ts[i] \in Hashes
    BY <1>1, <1>5 DEF H
  <2> QED BY <1>6, <2>1, LEntityIs
<1>8. es \in Seq(LShows)
  <2>1. es = [i \in 1 .. Len(ts) |-> es[i]]
    BY <1>3, <1>5
  <2>2. es \in [1 .. Len(ts) -> LShows]
    BY <1>7, <2>1
  <2> QED BY <1>5, <2>2, SeqDef
<1>9. Once(es)
  BY <1>4, <1>5, <1>6, <1>7 DEF Once
<1>10. HashesOf(es) = H
  <2>1. HashesOf(es) = {es[i].hash : i \in 1 .. Len(ts)}
    BY <1>6 DEF HashesOf, ToSet
  <2>2. H = {ts[i] : i \in 1 .. Len(ts)}
    BY <1>4, <1>5 DEF ToSet
  <2> QED BY <1>7, <2>1, <2>2
<1> QED BY <1>8, <1>9, <1>10 DEF es, H

LEMMA LNamesAre ==
  /\ "all" \in LNames /\ "active" \in LNames /\ "archived" \in LNames
  /\ L!Found \in LNames /\ L!Found \notin {"active", "archived"}
  /\ "all" # "active" /\ "all" # "archived" /\ "listing" \notin LNames
  /\ DOMAIN L!Empty = LNames /\ \A n \in LNames : L!Empty[n] = <<>>
BY DEF LNames, L!Found, L!Empty

\* The arrays to show what arrs do, and es among all.
LFrom(to, arrs, es) ==
  \A n \in LNames : HashesOf(to[n]) \subseteq HashesOf(arrs[n]) \cup {h \in HashesOf(es) : n = "all"}

LEMMA LSyncAllIs ==
  ASSUME NEW arrs, LArraysOK(arrs), NEW es \in Seq(LShows), Known(es)
  PROVE  /\ LArraysOK(L!SyncAll(arrs, es))
         /\ LFrom(L!SyncAll(arrs, es), arrs, es)
         /\ HashesOf(es) \subseteq HashesOf(L!SyncAll(arrs, es)["all"])
<1>1. PICK to : to = SyncAll(arrs, es)
  OBVIOUS
<1>2. L!SyncAll(arrs, es) = to
  BY <1>1, LAddAll
<1>3. Tidy(to, LNames, LShows) /\ AddedAll(to, arrs, es, LNames)
  BY <1>1, SyncAllIs DEF LArraysOK
<1>4. ASSUME NEW n \in LNames, NEW x \in ToSet(to[n])
      PROVE  \/ x \in ToSet(arrs[n]) /\ x.hash \notin HashesOf(es)
             \/ x \in ToSet(es) /\ n = "all"
  <2>1. \/ x \in ToSet(arrs[n]) /\ x.hash \notin HashesOf(es)
        \/ x \in ToSet(es) /\ n \in {"all", x.status}
    BY <1>3 DEF AddedAll
  <2>2. x \in ToSet(es) => x \in LShows /\ x.status = "listing"
    <3>1. \A y \in ToSet(es) : y \in LShows
      BY Members
    <3> QED BY <3>1 DEF LShows
  <2> QED BY <2>1, <2>2, LNamesAre
<1>5. HashesOf(es) \subseteq HashesOf(to["all"])
  BY <1>3, LNamesAre DEF AddedAll
<1>6. LFrom(to, arrs, es)
  BY <1>4 DEF LFrom, HashesOf
<1>7. \A n \in LNames : Known(to[n])
  BY <1>4 DEF LArraysOK, Known
<1>8. HashesOf(to[L!Found]) \subseteq HashesOf(to["all"])
  <2>1. CASE L!Found = "all"
    BY <2>1
  <2>2. CASE L!Found # "all"
    <3> SUFFICES ASSUME NEW x \in ToSet(to[L!Found]) PROVE x.hash \in HashesOf(to["all"])
      BY DEF HashesOf
    <3>1. x \in ToSet(arrs[L!Found]) /\ x.hash \notin HashesOf(es)
      BY <1>4, <2>2, LNamesAre
    <3>2. PICK y \in ToSet(arrs["all"]) : y.hash = x.hash
      BY <3>1 DEF LArraysOK, HashesOf
    <3>3. y \in ToSet(to["all"])
      BY <1>3, <3>1, <3>2, LNamesAre DEF AddedAll
    <3> QED BY <3>2, <3>3 DEF HashesOf
  <2> QED BY <2>1, <2>2
<1> QED BY <1>2, <1>3, <1>5, <1>6, <1>7, <1>8 DEF LArraysOK

\* One of the arrays of the active and the archived listings anew.
LOneNew(to, arrs, es, m) == \A n \in LNames : to[n] = IF n = m THEN es ELSE arrs[n]

LEMMA LReplacedIs ==
  ASSUME NEW arrs, LArraysOK(arrs), NEW es \in Seq(LShows), Known(es), Once(es),
         NEW m \in {"active", "archived"}, NEW to, to = [arrs EXCEPT ![m] = es]
  PROVE  LArraysOK(to) /\ LOneNew(to, arrs, es, m)
<1>1. /\ DOMAIN to = LNames /\ to["all"] = arrs["all"] /\ to[L!Found] = arrs[L!Found]
      /\ \A n \in LNames : to[n] = IF n = m THEN es ELSE arrs[n]
  BY LNamesAre DEF LArraysOK, Tidy
<1>2. LArraysOK(to)
  BY <1>1 DEF LArraysOK, Tidy
<1> QED BY <1>1, <1>2 DEF LOneNew

\* The array of what was found anew, and what was found among all listings.
LEMMA LSearchedIs ==
  ASSUME NEW arrs, LArraysOK(arrs), NEW es \in Seq(LShows), Known(es), Once(es)
  PROVE  /\ LArraysOK([L!SyncAll(arrs, es) EXCEPT ![L!Found] = es])
         /\ \A n \in LNames : HashesOf([L!SyncAll(arrs, es) EXCEPT ![L!Found] = es][n]) \subseteq
                                HashesOf(arrs[n]) \cup {h \in HashesOf(es) : n \in {"all", L!Found}}
<1>1. PICK mid : mid = L!SyncAll(arrs, es)
  OBVIOUS
<1>2. LArraysOK(mid) /\ LFrom(mid, arrs, es) /\ HashesOf(es) \subseteq HashesOf(mid["all"])
  BY <1>1, LSyncAllIs
<1>3. PICK to : to = [mid EXCEPT ![L!Found] = es]
  OBVIOUS
<1>4. DOMAIN to = LNames /\ \A n \in LNames : to[n] = IF n = L!Found THEN es ELSE mid[n]
  BY <1>2, <1>3, LNamesAre DEF LArraysOK, Tidy
<1>5. Tidy(to, LNames, LShows) /\ \A n \in LNames : Known(to[n])
  BY <1>2, <1>4 DEF LArraysOK, Tidy
<1>6. HashesOf(to[L!Found]) \subseteq HashesOf(to["all"])
  BY <1>2, <1>4, LNamesAre
<1>7. \A n \in LNames : HashesOf(to[n]) \subseteq
                          HashesOf(arrs[n]) \cup {h \in HashesOf(es) : n \in {"all", L!Found}}
  BY <1>2, <1>4 DEF LFrom
<1> QED BY <1>1, <1>3, <1>5, <1>6, <1>7 DEF LArraysOK

\* What a removal leaves of the arrays, of requests and of offers.
LEMMA LRemovedIs ==
  ASSUME NEW arrs, LArraysOK(arrs), NEW h
  PROVE  /\ LArraysOK(L!RemoveDeleted(arrs, h))
         /\ \A n \in LNames : HashesOf(L!RemoveDeleted(arrs, h)[n]) \subseteq HashesOf(arrs[n])
         /\ Kind = "requests" => \A n \in LNames : h \notin HashesOf(L!RemoveDeleted(arrs, h)[n])
<1>1. PICK to : to = SyncRemove(arrs, h)
  OBVIOUS
<1>2. Tidy(to, LNames, LShows) /\ Dropped(to, arrs, h, LNames)
  BY <1>1, SyncRemoveIs DEF LArraysOK
<1>3. \A n \in LNames : ToSet(to[n]) = {x \in ToSet(arrs[n]) : x.hash # h}
  BY <1>2 DEF Dropped
<1>4. \A n \in LNames : HashesOf(to[n]) = HashesOf(arrs[n]) \ {h}
  BY <1>3 DEF HashesOf
<1>5. LArraysOK(to)
  <2>1. \A n \in LNames : Known(to[n])
    BY <1>3 DEF LArraysOK, Known
  <2>2. HashesOf(to[L!Found]) \subseteq HashesOf(to["all"])
    BY <1>4, LNamesAre DEF LArraysOK
  <2> QED BY <1>2, <2>1, <2>2 DEF LArraysOK
<1>6. L!RemoveDeleted(arrs, h) = to \/ (L!RemoveDeleted(arrs, h) = arrs /\ Kind # "requests")
  BY <1>1, LRemove DEF L!RemoveDeleted
<1> QED BY <1>4, <1>5, <1>6

LEMMA LArchivedIs ==
  ASSUME NEW arrs, LArraysOK(arrs), NEW h
  PROVE  /\ LArraysOK(L!RemoveArchived(arrs, h))
         /\ \A n \in LNames : HashesOf(L!RemoveArchived(arrs, h)[n]) \subseteq HashesOf(arrs[n])
         /\ h \notin HashesOf(L!RemoveArchived(arrs, h)["active"])
<1>1. PICK a, w : a = arrs["active"] /\ w = Without(a, h)
  OBVIOUS
<1>2. a \in Seq(LShows) /\ Once(a) /\ Known(a)
  BY <1>1, LNamesAre DEF LArraysOK, Tidy
<1>3. w \in Seq(LShows) /\ Once(w) /\ ToSet(w) = {x \in ToSet(a) : x.hash # h}
  BY <1>1, <1>2, WithoutKeeps, WithoutOnce
<1>4. Known(w) /\ HashesOf(w) = HashesOf(a) \ {h}
  BY <1>2, <1>3 DEF Known, HashesOf
<1>5. PICK mid : mid = [arrs EXCEPT !["active"] = w]
  OBVIOUS
<1>6. LArraysOK(mid) /\ \A n \in LNames : mid[n] = IF n = "active" THEN w ELSE arrs[n]
  <2>1. LArraysOK(mid) /\ LOneNew(mid, arrs, w, "active")
    BY <1>3, <1>4, <1>5, LReplacedIs
  <2> QED BY <2>1 DEF LOneNew
<1>7. L!RemoveArchived(arrs, h) = L!RemoveDeleted(mid, h)
  BY <1>1, <1>5, LWithout DEF L!RemoveArchived
<1>8. /\ LArraysOK(L!RemoveDeleted(mid, h))
      /\ \A n \in LNames : HashesOf(L!RemoveDeleted(mid, h)[n]) \subseteq HashesOf(mid[n])
  BY <1>6, LRemovedIs
<1>9. \A n \in LNames : HashesOf(mid[n]) \subseteq HashesOf(arrs[n])
  BY <1>1, <1>4, <1>6
<1>10. h \notin HashesOf(mid["active"])
  BY <1>4, <1>6, LNamesAre
<1> QED BY <1>7, <1>8, <1>9, <1>10, LNamesAre

\* What a call of a page asks for.
Opened(call) == {h \in {call.arg} : call.op = "open"}

\* A call goes out.
LSends(c) ==
  \E op, arg : \E es \in Seq(LShows) :
    /\ Begin(c, op, arg, es)
    /\ Once(es)
    /\ \A e \in ToSet(es) : e.hash \in 1 .. last' /\ e.hash \notin dead
    /\ op = "open" => arg \in Seen /\ \A e \in ToSet(es) : e.hash = arg \/ e.hash \in L!Revisions
    /\ op = "delete" => arg \in dead'
    /\ op = "archive" => arg \in Made /\ (Unedited(arg)' => Away(arg)')
    /\ op \in Actives => \A e \in ToSet(es) : ~Away(e.hash)
    /\ UNCHANGED L!storeVars

\* A call comes back.
LReturns(c) ==
  /\ End(c)
  /\ UNCHANGED L!zomeVars
  /\ LArraysOK(arrays')
  /\ LCacheOK(cache')
  /\ page'.hash \in 0 .. last
  /\ Seen' \subseteq Seen \cup HashesOf(calls[c].answer) \cup Opened(calls[c])
  /\ HashesOf(arrays'["active"]) \subseteq
       HashesOf(arrays["active"]) \cup {h \in HashesOf(calls[c].answer) : calls[c].op \in Actives}
  /\ \/ removed' = removed
     \/ /\ calls[c].op = "delete"
        /\ removed' = [removed EXCEPT !["delete"] = @ \cup {calls[c].arg}]
        /\ Kind = "requests" => calls[c].arg \notin Seen'
     \/ /\ calls[c].op = "archive"
        /\ removed' = [removed EXCEPT !["archive"] = @ \cup {calls[c].arg}]
        /\ calls[c].arg \notin HashesOf(arrays'["active"])

\* Nothing of the calls changes, and nothing is shown that was not seen or is a
\* revision.
LRests ==
  /\ UNCHANGED calls
  /\ loading' \in BOOLEAN
  /\ LArraysOK(arrays')
  /\ LCacheOK(cache')
  /\ page'.hash \in 0 .. last
  /\ Seen' \subseteq Seen \cup L!Revisions
  /\ HashesOf(arrays'["active"]) \subseteq HashesOf(arrays["active"])
  /\ UNCHANGED removed

LEMMA LMadeGrows ==
  ASSUME ListingsOK, LGrows
  PROVE  Made \subseteq Made'
BY DEF LGrows, ListingsOK, Made

LEMMA LStoreStays ==
  ASSUME ListingsOK, LGrows, LArraysOK(arrays'), LCacheOK(cache'), page'.hash \in 0 .. last
  PROVE  LArraysOK(arrays)' /\ LCacheOK(cache)' /\ page'.hash \in 0 .. last'
<1>1. Made \subseteq Made' /\ L!Revisions \subseteq L!Revisions'
  BY LMadeGrows DEF LGrows
<1>2. LArraysOK(arrays)'
  <2>1. PICK to : to = arrays'
    OBVIOUS
  <2>2. /\ Tidy(to, LNames, LShows) /\ HashesOf(to[L!Found]) \subseteq HashesOf(to["all"])
        /\ \A n \in LNames : \A e \in ToSet(to[n]) : e.hash \in Made
    BY <2>1 DEF LArraysOK, Known
  <2>3. \A n \in LNames : \A e \in ToSet(to[n]) : e.hash \in Made'
    BY <1>1, <2>2
  <2>4. \A n \in LNames : Known(arrays[n])'
    BY <2>1, <2>3 DEF Known
  <2> QED BY <2>1, <2>2, <2>4 DEF LArraysOK, L!Found
<1>3. LCacheOK(cache)'
  <2>1. PICK entries : entries = cache'
    OBVIOUS
  <2>2. \A h \in DOMAIN entries :
          h \in Made' /\ entries[h].hash \in Made'
          /\ (entries[h].hash = h \/ entries[h].hash \in L!Revisions')
    BY <1>1, <2>1 DEF LCacheOK
  <2> QED BY <2>1, <2>2 DEF LCacheOK
<1>4. page'.hash \in 0 .. last'
  BY DEF LGrows, ListingsOK
<1> QED BY <1>2, <1>3, <1>4

LEMMA LCallStays ==
  ASSUME Made \subseteq Made', L!Revisions \subseteq L!Revisions',
         NEW d \in Callers, LCallOK(calls[d]), calls'[d] = calls[d]
  PROVE  LCallOK(calls[d])'
BY DEF LCallOK, Known

LEMMA LIdleIs ==
  ASSUME NEW d, calls'[d] = Idle
  PROVE  /\ LCallOK(calls[d])'
         /\ calls'[d].op \notin {"delete", "open", "archive"} \cup Actives
         /\ HashesOf(calls'[d].answer) = {}
<1>1. <<>> \in Seq(LShows) /\ ToSet(<<>>) = {} /\ Once(<<>>)
  BY NothingIs
<1>2. Idle.answer = <<>> /\ Idle.op = "none"
  BY DEF Idle
<1> QED BY <1>1, <1>2 DEF LCallOK, Known, HashesOf, Actives

LEMMA LSendsKeeps ==
  ASSUME LInv, LGrows, NEW c \in Callers, LSends(c)
  PROVE  LInv'
<1>1. PICK op, arg : \E es \in Seq(LShows) :
        /\ Begin(c, op, arg, es)
        /\ Once(es)
        /\ \A e \in ToSet(es) : e.hash \in 1 .. last'
        /\ op = "open" => \A e \in ToSet(es) : e.hash = arg \/ e.hash \in L!Revisions
        /\ UNCHANGED L!storeVars
  BY DEF LSends
<1>2. PICK es \in Seq(LShows) :
        /\ Begin(c, op, arg, es)
        /\ Once(es)
        /\ \A e \in ToSet(es) : e.hash \in 1 .. last'
        /\ op = "open" => \A e \in ToSet(es) : e.hash = arg \/ e.hash \in L!Revisions
        /\ UNCHANGED L!storeVars
  BY <1>1
<1>3. Made \subseteq Made' /\ L!Revisions \subseteq L!Revisions'
  BY LMadeGrows DEF LInv, LGrows
<1>4. DOMAIN calls' = Callers /\ loading' \in BOOLEAN
  BY <1>2 DEF Begin, LInv
<1>5. ASSUME NEW d \in Callers PROVE LCallOK(calls[d])'
  <2>1. CASE d = c
    <3>1. calls'[d].op = op /\ calls'[d].arg = arg /\ calls'[d].answer = es
      BY <1>2, <2>1 DEF Begin, LInv
    <3>2. \A e \in ToSet(es) : e.hash \in Made'
      BY <1>2 DEF Made
    <3>3. op = "open" => \A e \in ToSet(es) : e.hash = arg \/ e.hash \in L!Revisions'
      BY <1>2, <1>3
    <3> QED BY <1>2, <3>1, <3>2, <3>3 DEF LCallOK, Known
  <2>2. CASE d # c
    <3>1. calls'[d] = calls[d] /\ LCallOK(calls[d])
      BY <1>2, <2>2 DEF Begin, LInv
    <3> QED BY <1>3, <3>1, LCallStays
  <2> QED BY <2>1, <2>2
<1>6. LArraysOK(arrays)' /\ LCacheOK(cache)' /\ page'.hash \in 0 .. last' /\ removed' = removed
  <2>1. arrays' = arrays /\ cache' = cache /\ page' = page /\ removed' = removed
    BY <1>2 DEF L!storeVars
  <2>2. LArraysOK(arrays') /\ LCacheOK(cache') /\ page'.hash \in 0 .. last
    BY <2>1 DEF LInv
  <2> QED BY <2>1, <2>2, LStoreStays DEF LInv
<1> QED BY <1>4, <1>5, <1>6 DEF LInv, LGrows

LEMMA LReturnsKeeps ==
  ASSUME LInv, NEW c \in Callers, LReturns(c)
  PROVE  LInv'
<1>1. LGrows /\ Made \subseteq Made' /\ L!Revisions \subseteq L!Revisions'
  <2>1. LGrows
    BY LRestIs DEF LReturns, LInv
  <2> QED BY <2>1, LMadeGrows DEF LInv, LGrows
<1>2. /\ DOMAIN calls' = Callers /\ calls'[c] = Idle /\ loading' \in BOOLEAN
      /\ \A d \in Callers : d # c => calls'[d] = calls[d]
  BY DEF LReturns, End, LInv
<1>3. ASSUME NEW d \in Callers PROVE LCallOK(calls[d])'
  BY <1>1, <1>2, LIdleIs, LCallStays DEF LInv
<1>4. LArraysOK(arrays)' /\ LCacheOK(cache)' /\ page'.hash \in 0 .. last'
  BY <1>1, LStoreStays DEF LReturns, LInv
<1>5. DOMAIN removed' = {"delete", "archive"}
  BY DEF LReturns, LInv
<1> QED BY <1>1, <1>2, <1>3, <1>4, <1>5 DEF LInv, LGrows

LEMMA LRestsKeeps ==
  ASSUME LInv, LGrows, LRests
  PROVE  LInv'
<1>1. Made \subseteq Made' /\ L!Revisions \subseteq L!Revisions'
  BY LMadeGrows DEF LInv, LGrows
<1>2. ASSUME NEW d \in Callers PROVE LCallOK(calls[d])'
  <2>1. calls'[d] = calls[d] /\ LCallOK(calls[d])
    BY DEF LRests, LInv
  <2> QED BY <1>1, <2>1, LCallStays
<1>3. LArraysOK(arrays)' /\ LCacheOK(cache)' /\ page'.hash \in 0 .. last'
  BY LStoreStays DEF LRests, LInv
<1> QED BY <1>2, <1>3 DEF LInv, LRests, LGrows

LEMMA LSendsAway ==
  ASSUME OneCaller, LInv, LGone, LGrows, NEW c \in Callers, LSends(c)
  PROVE  LGone'
<1>1. PICK op, arg : \E es \in Seq(LShows) :
        /\ Begin(c, op, arg, es)
        /\ \A e \in ToSet(es) : e.hash \notin dead
        /\ op = "delete" => arg \in dead'
        /\ op = "open" => arg \in Seen
        /\ UNCHANGED L!storeVars
  BY DEF LSends
<1>2. PICK es \in Seq(LShows) :
        /\ Begin(c, op, arg, es)
        /\ \A e \in ToSet(es) : e.hash \notin dead
        /\ op = "delete" => arg \in dead'
        /\ op = "open" => arg \in Seen
        /\ UNCHANGED L!storeVars
  BY <1>1
<1>3. /\ arrays' = arrays /\ cache' = cache /\ page' = page /\ removed' = removed
      /\ dead \subseteq dead' /\ L!Revisions \subseteq L!Revisions'
  BY <1>2 DEF L!storeVars, LGrows
<1>4. Seen' = Seen
  BY <1>3 DEF Seen, L!Shown
<1>5. removed["delete"] \subseteq dead /\ (removed["delete"] \ L!Revisions) \cap Seen = {}
  BY DEF LGone
<1>6. calls'[c].op = op /\ calls'[c].arg = arg /\ calls'[c].answer = es
  BY <1>2 DEF Begin, LInv
<1>7. \A d \in Callers : d = c
  BY DEF OneCaller
<1>8. HashesOf(es) \cap removed'["delete"] = {}
  BY <1>2, <1>3, <1>5 DEF HashesOf
<1>9. op = "open" => arg \notin removed'["delete"] \ L!Revisions'
  BY <1>2, <1>3, <1>5
<1>10. \A d \in Callers :
         /\ HashesOf(calls'[d].answer) \cap removed'["delete"] = {}
         /\ calls'[d].op = "delete" => calls'[d].arg \in dead'
         /\ calls'[d].op = "open" => calls'[d].arg \notin removed'["delete"] \ L!Revisions'
  BY <1>2, <1>6, <1>7, <1>8, <1>9
<1>11. removed'["delete"] \subseteq dead' /\ (removed'["delete"] \ L!Revisions') \cap Seen' = {}
  BY <1>3, <1>4, <1>5
<1> QED BY <1>10, <1>11 DEF LGone

LEMMA LReturnsAway ==
  ASSUME OneCaller, Kind = "requests", LInv, LGone, NEW c \in Callers, LReturns(c)
  PROVE  LGone'
<1>1. /\ dead' = dead /\ L!Revisions' = L!Revisions /\ calls'[c] = Idle
      /\ Seen' \subseteq Seen \cup HashesOf(calls[c].answer) \cup Opened(calls[c])
  BY DEF LReturns, End, LInv, L!zomeVars, L!Revisions
<1>2. \A d \in Callers : d = c
  BY DEF OneCaller
<1>3. /\ removed'["delete"] = removed["delete"] \/
           /\ calls[c].op = "delete" /\ calls[c].arg \notin Seen'
           /\ removed'["delete"] = removed["delete"] \cup {calls[c].arg}
  BY DEF LReturns, LInv
<1>4. (removed["delete"] \ L!Revisions) \cap Seen' = {}
  <2>1. (removed["delete"] \ L!Revisions) \cap Opened(calls[c]) = {}
    BY DEF LGone, Opened
  <2>2. removed["delete"] \cap HashesOf(calls[c].answer) = {}
    BY DEF LGone
  <2>3. (removed["delete"] \ L!Revisions) \cap Seen = {}
    BY DEF LGone
  <2> QED BY <1>1, <2>1, <2>2, <2>3
<1>5. removed'["delete"] \subseteq dead'
  BY <1>1, <1>3 DEF LGone
<1>6. (removed'["delete"] \ L!Revisions') \cap Seen' = {}
  BY <1>1, <1>3, <1>4
<1>7. \A d \in Callers : /\ calls'[d].op \notin {"delete", "open", "archive"}
                         /\ HashesOf(calls'[d].answer) = {}
  BY <1>1, <1>2, LIdleIs
<1> QED BY <1>5, <1>6, <1>7 DEF LGone

LEMMA LRestsAway ==
  ASSUME LGone, LGrows, LRests
  PROVE  LGone'
<1>1. /\ calls' = calls /\ removed' = removed /\ dead \subseteq dead'
      /\ L!Revisions \subseteq L!Revisions' /\ Seen' \subseteq Seen \cup L!Revisions
  BY DEF LRests, LGrows
<1>2. removed'["delete"] \subseteq dead' /\ (removed'["delete"] \ L!Revisions') \cap Seen' = {}
  BY <1>1 DEF LGone
<1>3. \A d \in Callers :
        /\ HashesOf(calls'[d].answer) \cap removed'["delete"] = {}
        /\ calls'[d].op = "delete" => calls'[d].arg \in dead'
        /\ calls'[d].op = "open" => calls'[d].arg \notin removed'["delete"] \ L!Revisions'
  BY <1>1 DEF LGone
<1> QED BY <1>2, <1>3 DEF LGone

\* An edit is one of a listing for good.
LEMMA LUnedited ==
  ASSUME LGrows, NEW h, Unedited(h)'
  PROVE  Unedited(h)
BY DEF LGrows, Unedited

LEMMA LSendsFiled ==
  ASSUME OneCaller, LInv, LFiled, LGrows, NEW c \in Callers, LSends(c)
  PROVE  LFiled'
<1>1. PICK op, arg : \E es \in Seq(LShows) :
        /\ Begin(c, op, arg, es)
        /\ op = "archive" => arg \in Made /\ (Unedited(arg)' => Away(arg)')
        /\ op \in Actives => \A e \in ToSet(es) : ~Away(e.hash)
        /\ UNCHANGED L!storeVars
  BY DEF LSends
<1>2. PICK es \in Seq(LShows) :
        /\ Begin(c, op, arg, es)
        /\ op = "archive" => arg \in Made /\ (Unedited(arg)' => Away(arg)')
        /\ op \in Actives => \A e \in ToSet(es) : ~Away(e.hash)
        /\ UNCHANGED L!storeVars
  BY <1>1
<1>3. arrays' = arrays /\ removed' = removed /\ Made \subseteq Made'
  BY <1>2, LMadeGrows DEF L!storeVars, LInv
<1>4. calls'[c].op = op /\ calls'[c].arg = arg /\ calls'[c].answer = es
  BY <1>2 DEF Begin, LInv
<1>5. \A d \in Callers : d = c
  BY DEF OneCaller
<1>6. ASSUME NEW h \in removed["archive"], Unedited(h)'
      PROVE  Away(h) /\ Away(h)' /\ h \notin HashesOf(arrays["active"])
  <2>1. Unedited(h) /\ h \in Made
    BY <1>6, LUnedited DEF LFiled
  <2>2. Away(h) /\ h \notin HashesOf(arrays["active"])
    BY <2>1 DEF LFiled
  <2>3. Away(h)'
    BY <1>6, <2>1, <2>2 DEF LGrows
  <2> QED BY <2>2, <2>3
<1>7. ASSUME op \in Actives, NEW h \in removed["archive"], Unedited(h)'
      PROVE  h \notin HashesOf(es)
  BY <1>2, <1>6, <1>7 DEF HashesOf
<1>8. removed'["archive"] \subseteq Made'
  BY <1>3 DEF LFiled
<1>9. ASSUME NEW h \in removed'["archive"], Unedited(h)'
      PROVE  Away(h)' /\ h \notin HashesOf(arrays'["active"])
  BY <1>3, <1>6, <1>9
<1>10. ASSUME NEW d \in Callers, calls'[d].op = "archive"
       PROVE  calls'[d].arg \in Made' /\ (Unedited(calls[d].arg)' => Away(calls[d].arg)')
  <2>1. calls'[d].arg = arg /\ arg \in Made' /\ (Unedited(arg)' => Away(arg)')
    BY <1>2, <1>3, <1>4, <1>5, <1>10
  <2> QED BY <2>1 DEF Unedited, Away
<1>11. ASSUME NEW d \in Callers, calls'[d].op \in Actives, NEW h \in removed'["archive"], Unedited(h)'
       PROVE  h \notin HashesOf(calls'[d].answer)
  <2>1. calls'[d].answer = es /\ op \in Actives /\ h \in removed["archive"]
    BY <1>3, <1>4, <1>5, <1>11
  <2> QED BY <1>7, <1>11, <2>1
<1> QED BY <1>8, <1>9, <1>10, <1>11 DEF LFiled

LEMMA LReturnsFiled ==
  ASSUME OneCaller, LInv, LFiled, NEW c \in Callers, LReturns(c)
  PROVE  LFiled'
<1>1. /\ LGrows /\ Made \subseteq Made' /\ calls'[c] = Idle
      /\ HashesOf(arrays'["active"]) \subseteq
           HashesOf(arrays["active"]) \cup {h \in HashesOf(calls[c].answer) : calls[c].op \in Actives}
  <2>1. LGrows
    BY LRestIs DEF LReturns, LInv
  <2> QED BY <2>1, LMadeGrows DEF LReturns, End, LInv
<1>2. \A d \in Callers : d = c
  BY DEF OneCaller
<1>3. \/ removed'["archive"] = removed["archive"]
      \/ /\ calls[c].op = "archive" /\ calls[c].arg \notin HashesOf(arrays'["active"])
         /\ removed'["archive"] = removed["archive"] \cup {calls[c].arg}
  BY DEF LReturns, LInv
<1>4. ASSUME NEW h \in removed["archive"], Unedited(h)'
      PROVE  Away(h)' /\ h \notin HashesOf(arrays'["active"])
  <2>1. Unedited(h) /\ h \in Made
    BY <1>1, <1>4, LUnedited DEF LFiled
  <2>2. Away(h) /\ h \notin HashesOf(arrays["active"])
    BY <2>1 DEF LFiled
  <2>3. calls[c].op \in Actives => h \notin HashesOf(calls[c].answer)
    BY <2>1 DEF LFiled
  <2>4. Away(h)'
    BY <1>1, <1>4, <2>1, <2>2 DEF LGrows
  <2> QED BY <1>1, <2>2, <2>3, <2>4
<1>5. PICK a : a = calls[c].arg
  OBVIOUS
<1>6. ASSUME calls[c].op = "archive" PROVE a \in Made /\ (Unedited(a)' => Away(a)')
  <2>1. a \in Made /\ (Unedited(a) => Away(a))
    BY <1>5, <1>6 DEF LFiled
  <2> QED BY <1>1, <2>1, LUnedited DEF LGrows
<1>7. removed'["archive"] \subseteq Made'
  BY <1>1, <1>3, <1>5, <1>6 DEF LFiled
<1>8. ASSUME NEW h \in removed'["archive"], Unedited(h)'
      PROVE  Away(h)' /\ h \notin HashesOf(arrays'["active"])
  <2>1. CASE h \in removed["archive"]
    BY <1>4, <1>8, <2>1
  <2>2. CASE h \notin removed["archive"]
    <3>1. calls[c].op = "archive" /\ h = a /\ h \notin HashesOf(arrays'["active"])
      BY <1>3, <1>5, <1>8, <2>2
    <3> QED BY <1>6, <1>8, <3>1
  <2> QED BY <2>1, <2>2
<1>9. \A d \in Callers : calls'[d].op \notin {"archive"} \cup Actives
  BY <1>1, <1>2, LIdleIs
<1> QED BY <1>7, <1>8, <1>9 DEF LFiled

LEMMA LRestsFiled ==
  ASSUME LInv, LFiled, LGrows, LRests
  PROVE  LFiled'
<1>1. /\ calls' = calls /\ removed' = removed /\ Made \subseteq Made'
      /\ HashesOf(arrays'["active"]) \subseteq HashesOf(arrays["active"])
  BY LMadeGrows DEF LRests, LInv
<1>2. removed'["archive"] \subseteq Made'
  BY <1>1 DEF LFiled
<1>3. ASSUME NEW h \in removed'["archive"], Unedited(h)'
      PROVE  Away(h)' /\ h \notin HashesOf(arrays'["active"])
  <2>1. Unedited(h) /\ h \in Made /\ h \in removed["archive"]
    BY <1>1, <1>3, LUnedited DEF LFiled
  <2>2. Away(h) /\ h \notin HashesOf(arrays["active"])
    BY <2>1 DEF LFiled
  <2> QED BY <1>1, <1>3, <2>1, <2>2 DEF LGrows
<1>4. ASSUME NEW d \in Callers, calls'[d].op = "archive"
      PROVE  calls'[d].arg \in Made' /\ (Unedited(calls[d].arg)' => Away(calls[d].arg)')
  <2>1. PICK a : a = calls[d].arg
    OBVIOUS
  <2>2. a \in Made /\ (Unedited(a) => Away(a))
    BY <1>1, <1>4, <2>1 DEF LFiled
  <2>3. Unedited(a)' => Away(a)'
    BY <2>2, LUnedited DEF LGrows
  <2> QED BY <1>1, <2>1, <2>2, <2>3 DEF Unedited, Away
<1>5. ASSUME NEW d \in Callers, calls'[d].op \in Actives, NEW h \in removed'["archive"], Unedited(h)'
      PROVE  h \notin HashesOf(calls'[d].answer)
  <2>1. Unedited(h) /\ h \in removed["archive"] /\ calls[d].op \in Actives
    BY <1>1, <1>5, LUnedited
  <2>2. h \notin HashesOf(calls[d].answer)
    BY <2>1 DEF LFiled
  <2> QED BY <1>1, <2>2
<1> QED BY <1>2, <1>3, <1>4, <1>5 DEF LFiled

\* A step of a call.
LSteps(c) == LGrows /\ (LSends(c) \/ LReturns(c))

LEMMA LSeenIs ==
  ASSUME DOMAIN arrays = LNames, DOMAIN arrays' = LNames
  PROVE  /\ \A h : h \in Seen <=> \/ \E n \in LNames : h \in HashesOf(arrays[n])
                                  \/ h = page.hash /\ h # 0
                                  \/ h \in DOMAIN cache
         /\ \A h : h \in Seen' <=> \/ \E n \in LNames : h \in HashesOf(arrays'[n])
                                   \/ h = page'.hash /\ h # 0
                                   \/ h \in DOMAIN cache'
<1>1. L!Shown = {e.hash : e \in UNION {ToSet(arrays[n]) : n \in LNames}} \cup ({page.hash} \ {0})
  BY LSeqs DEF L!Shown
<1>2. L!Shown' = {e.hash : e \in UNION {ToSet(arrays'[n]) : n \in LNames}} \cup ({page'.hash} \ {0})
  BY LSeqs DEF L!Shown
<1>3. \A h : h \in L!Shown <=> (\E n \in LNames : h \in HashesOf(arrays[n])) \/ (h = page.hash /\ h # 0)
  BY <1>1 DEF HashesOf
<1>4. \A h : h \in L!Shown' <=> (\E n \in LNames : h \in HashesOf(arrays'[n])) \/ (h = page'.hash /\ h # 0)
  BY <1>2 DEF HashesOf
<1> QED BY <1>3, <1>4 DEF Seen

LEMMA LShownIs ==
  ASSUME LInv
  PROVE  L!Shown \subseteq Made
<1>1. \A n \in LNames : HashesOf(arrays[n]) \subseteq Made
  BY DEF LInv, LArraysOK, Known, HashesOf
<1>2. L!Shown = {e.hash : e \in UNION {ToSet(arrays[n]) : n \in LNames}} \cup ({page.hash} \ {0})
  BY LSeqs DEF L!Shown, LInv, LArraysOK, Tidy
<1>3. page.hash # 0 => page.hash \in Made
  BY DEF LInv, ListingsOK, Made
<1> QED BY <1>1, <1>2, <1>3 DEF HashesOf

\* A call that comes back and takes nothing away for good.
LEMMA LBack ==
  ASSUME LInv, NEW c \in Callers, L!End(c), UNCHANGED L!zomeVars, removed' = removed, LArraysOK(arrays'),
         \A n \in LNames : HashesOf(arrays'[n]) \subseteq HashesOf(arrays[n]) \cup HashesOf(calls[c].answer),
         HashesOf(arrays'["active"]) \subseteq
           HashesOf(arrays["active"]) \cup {h \in HashesOf(calls[c].answer) : calls[c].op \in Actives},
         LCacheOK(cache'),
         DOMAIN cache' \subseteq DOMAIN cache \cup HashesOf(calls[c].answer) \cup Opened(calls[c]),
         page'.hash \in {0, page.hash} \cup HashesOf(calls[c].answer)
  PROVE  LSteps(c)
<1>1. End(c) /\ LGrows
  BY LCalls, LRestIs DEF LInv
<1>2. page'.hash \in 0 .. last
  <2>1. HashesOf(calls[c].answer) \subseteq Made /\ 0 \in 0 .. last /\ page.hash \in 0 .. last
    BY DEF LInv, LCallOK, Known, HashesOf, ListingsOK
  <2> QED BY <2>1 DEF Made
<1>3. Seen' \subseteq Seen \cup HashesOf(calls[c].answer) \cup Opened(calls[c])
  <2>1. DOMAIN arrays = LNames /\ DOMAIN arrays' = LNames
    BY DEF LInv, LArraysOK, Tidy
  <2> QED BY <2>1, LSeenIs
<1> QED BY <1>1, <1>2, <1>3 DEF LSteps, LReturns

\* What the store caches of an answer.
LEMMA LComeIs ==
  ASSUME L!ListingStoreAssumption, LInv, NEW c \in Callers, L!Come(c)
  PROVE  /\ L!End(c) /\ UNCHANGED L!zomeVars /\ removed' = removed
         /\ LCacheOK(cache')
         /\ DOMAIN cache' \subseteq DOMAIN cache \cup HashesOf(calls[c].answer)
<1>1. PICK came : came = HashesOf(calls[c].answer)
  OBVIOUS
<1>2. /\ L!End(c) /\ UNCHANGED L!zomeVars /\ removed' = removed
      /\ cache' = [h \in DOMAIN cache \cup came |-> IF h \in came THEN L!Entity(h) ELSE cache[h]]
  BY <1>1, LSeqs DEF L!Come, HashesOf
<1>3. came \subseteq Made /\ LCacheOK(cache)
  BY <1>1 DEF LInv, LCallOK, Known, HashesOf
<1>4. \A h \in Made : L!Entity(h).hash = h
  BY DEF L!Entity
<1>5. LCacheOK(cache')
  BY <1>2, <1>3, <1>4 DEF LCacheOK
<1> QED BY <1>1, <1>2, <1>5

\* A call that comes back with entities for the arrays, and for the cache.
LEMMA LComeSteps ==
  ASSUME L!ListingStoreAssumption, LInv, NEW c \in Callers, L!Come(c), LArraysOK(arrays'),
         \A n \in LNames : HashesOf(arrays'[n]) \subseteq HashesOf(arrays[n]) \cup HashesOf(calls[c].answer),
         HashesOf(arrays'["active"]) \subseteq
           HashesOf(arrays["active"]) \cup {h \in HashesOf(calls[c].answer) : calls[c].op \in Actives},
         page'.hash \in {0, page.hash}
  PROVE  LSteps(c)
BY LComeIs, LBack

\* A call with one entity that the store adds comes back.
LEMMA LAddsSteps ==
  ASSUME L!ListingStoreAssumption, LInv, NEW c \in Callers, L!Come(c),
         arrays' = L!SyncAll(arrays, calls[c].answer), page'.hash \in {0, page.hash}
  PROVE  LSteps(c)
<1>1. PICK es : es = calls[c].answer
  OBVIOUS
<1>2. es \in Seq(LShows) /\ Known(es) /\ LArraysOK(arrays)
  BY <1>1 DEF LInv, LCallOK
<1>3. LArraysOK(arrays') /\ LFrom(arrays', arrays, es)
  BY <1>1, <1>2, LSyncAllIs
<1>4. /\ \A n \in LNames : HashesOf(arrays'[n]) \subseteq HashesOf(arrays[n]) \cup HashesOf(es)
      /\ HashesOf(arrays'["active"]) \subseteq HashesOf(arrays["active"])
  BY <1>3, LNamesAre DEF LFrom
<1> QED BY <1>1, <1>3, <1>4, LComeSteps

LEMMA LCreateSteps ==
  ASSUME L!ListingStoreAssumption, LInv, NEW c \in Callers, L!Create(c)
  PROVE  LSteps(c)
<1>1. ASSUME NEW gs, L!NewListing({"active", "user"} \cup gs),
             L!Begin(c, "create", 0, <<L!Entity(last + 1)>>), UNCHANGED L!storeVars
      PROVE  LSteps(c)
  <2>1. LGrows /\ last < MaxHashes /\ last' = last + 1
    BY <1>1, LNewIs DEF LInv
  <2>2. last + 1 \in Hashes /\ last + 1 \in 1 .. last' /\ last + 1 \notin dead
    BY <2>1 DEF LInv, ListingsOK, Made, Hashes, L!ListingStoreAssumption
  <2>3. PICK e : e = L!Entity(last + 1)
    OBVIOUS
  <2>4. e \in LShows /\ e.hash = last + 1
    BY <2>2, <2>3, LEntityIs
  <2>5. PICK es : es = <<e>>
    OBVIOUS
  <2>6. es \in Seq(LShows) /\ ToSet(es) = {e} /\ Once(es)
    BY <2>4, <2>5, SingleIs
  <2>7. Begin(c, "create", 0, es)
    BY <1>1, <2>3, <2>5, LCalls
  <2>8. "create" \notin {"open", "delete", "archive"} \cup Actives
    BY DEF Actives
  <2>9. LSends(c)
    BY <1>1, <2>2, <2>4, <2>6, <2>7, <2>8 DEF LSends
  <2> QED BY <2>1, <2>9 DEF LSteps
<1>2. ASSUME L!Come(c), arrays' = L!SyncAll(arrays, calls[c].answer), UNCHANGED page PROVE LSteps(c)
  BY <1>2, LAddsSteps
<1> QED BY <1>1, <1>2 DEF L!Create

\* A call that reads.
LEMMA LReadSends ==
  ASSUME L!ListingStoreAssumption, LInv, NEW c \in Callers, NEW op, NEW arg, NEW hs, hs \subseteq Made,
         op \notin {"delete", "archive"},
         op = "open" => arg \in Seen /\ \A h \in hs : h = arg \/ h \in L!Revisions,
         op \in Actives => \A h \in hs \ dead : ~Away(h),
         L!Read(c, op, arg, L!Entities(hs))
  PROVE  LSteps(c)
<1>1. PICK es : es = L!Entities(hs)
  OBVIOUS
<1>2. es \in Seq(LShows) /\ Once(es) /\ HashesOf(es) = hs \ dead
  BY <1>1, LEntitiesIs DEF LInv
<1>3. L!Begin(c, op, arg, es) /\ UNCHANGED L!zomeVars /\ UNCHANGED L!storeVars
  BY <1>1 DEF L!Read
<1>4. Begin(c, op, arg, es) /\ LGrows /\ last' = last
  BY <1>3, LCalls, LRestIs DEF LInv, L!zomeVars
<1>5. \A e \in ToSet(es) : e.hash \in hs \ dead
  BY <1>2 DEF HashesOf
<1>6. \A e \in ToSet(es) : e.hash \in 1 .. last' /\ e.hash \notin dead
  BY <1>4, <1>5 DEF Made
<1>7. op = "open" => arg \in Seen /\ \A e \in ToSet(es) : e.hash = arg \/ e.hash \in L!Revisions
  BY <1>5
<1>8. op \in Actives => \A e \in ToSet(es) : ~Away(e.hash)
  BY <1>5
<1>9. LSends(c)
  BY <1>2, <1>3, <1>4, <1>6, <1>7, <1>8 DEF LSends
<1> QED BY <1>4, <1>9 DEF LSteps

LEMMA LFetchSteps ==
  ASSUME L!ListingStoreAssumption, LInv, NEW c \in Callers, NEW op, NEW name, NEW hs, hs \subseteq Made,
         op \notin {"delete", "archive", "open"},
         op \in Actives => \A h \in hs \ dead : ~Away(h),
         name \in {"active", "archived"}, name = "active" => op \in Actives,
         L!Fetch(c, op, name, hs)
  PROVE  LSteps(c)
<1>1. CASE L!Read(c, op, 0, L!Entities(hs))
  BY <1>1, LReadSends
<1>2. ASSUME L!UnderWay(c, op, 0), L!Come(c), arrays' = [arrays EXCEPT ![name] = calls[c].answer],
             UNCHANGED page
      PROVE  LSteps(c)
  <2>1. PICK es : es = calls[c].answer
    OBVIOUS
  <2>2. es \in Seq(LShows) /\ Known(es) /\ Once(es) /\ LArraysOK(arrays)
    BY <2>1 DEF LInv, LCallOK
  <2>3. LArraysOK(arrays') /\ \A n \in LNames : arrays'[n] = IF n = name THEN es ELSE arrays[n]
    <3>1. PICK arrs, to : arrs = arrays /\ to = [arrs EXCEPT ![name] = es]
      OBVIOUS
    <3>2. LArraysOK(to) /\ LOneNew(to, arrs, es, name)
      BY <2>2, <3>1, LReplacedIs
    <3>3. arrays' = to
      BY <1>2, <2>1, <3>1
    <3> QED BY <3>1, <3>2, <3>3 DEF LOneNew
  <2>4. calls[c].op = op
    BY <1>2 DEF L!UnderWay
  <2>5. /\ \A n \in LNames : HashesOf(arrays'[n]) \subseteq HashesOf(arrays[n]) \cup HashesOf(es)
        /\ HashesOf(arrays'["active"]) \subseteq
             HashesOf(arrays["active"]) \cup {h \in HashesOf(es) : calls[c].op \in Actives}
    <3>1. \A n \in LNames : arrays'[n] = es \/ arrays'[n] = arrays[n]
      BY <2>3
    <3>2. arrays'["active"] = arrays["active"] \/ (arrays'["active"] = es /\ calls[c].op \in Actives)
      BY <2>3, <2>4, LNamesAre
    <3> QED BY <3>1, <3>2
  <2> QED BY <1>2, <2>1, <2>3, <2>5, LComeSteps
<1> QED BY <1>1, <1>2 DEF L!Fetch

LEMMA LFetchAllSteps ==
  ASSUME L!ListingStoreAssumption, LInv, NEW c \in Callers, NEW op, NEW name, NEW hs, hs \subseteq Made,
         op \notin {"delete", "archive", "open"},
         op \in Actives => \A h \in hs \ dead : ~Away(h),
         name \in {"active", "archived"}, name = "active" => op \in Actives,
         L!FetchAll(c, op, name, hs)
  PROVE  LSteps(c)
<1>1. CASE L!Fetch(c, op, name, hs)
  BY <1>1, LFetchSteps
<1>2. ASSUME L!Fail(c), arrays' = [arrays EXCEPT ![name] = <<>>],
             UNCHANGED <<L!zomeVars, cache, page, removed>>
      PROVE  LSteps(c)
  <2>1. PICK es : es = <<>>
    OBVIOUS
  <2>2. es \in Seq(LShows) /\ Known(es) /\ Once(es) /\ HashesOf(es) = {} /\ LArraysOK(arrays)
    <3>1. es \in Seq(LShows) /\ ToSet(es) = {} /\ Once(es)
      BY <2>1, NothingIs
    <3> QED BY <3>1 DEF LInv, Known, HashesOf
  <2>3. LArraysOK(arrays') /\ \A n \in LNames : arrays'[n] = IF n = name THEN es ELSE arrays[n]
    <3>1. PICK arrs, to : arrs = arrays /\ to = [arrs EXCEPT ![name] = es]
      OBVIOUS
    <3>2. LArraysOK(to) /\ LOneNew(to, arrs, es, name)
      BY <2>2, <3>1, LReplacedIs
    <3>3. arrays' = to
      BY <1>2, <2>1, <3>1
    <3> QED BY <3>1, <3>2, <3>3 DEF LOneNew
  <2>4. \A n \in LNames : HashesOf(arrays'[n]) \subseteq HashesOf(arrays[n])
    BY <2>2, <2>3
  <2>5. L!End(c) /\ LCacheOK(cache')
    BY <1>2 DEF L!Fail, LInv
  <2> QED BY <1>2, <2>3, <2>4, <2>5, LBack, LNamesAre
<1> QED BY <1>1, <1>2 DEF L!FetchAll

LEMMA LSearchSteps ==
  ASSUME L!ListingStoreAssumption, LInv, NEW c \in Callers, NEW op, NEW hs, hs \subseteq Made,
         op \notin {"delete", "archive", "open"} \cup Actives,
         L!Search(c, op, hs)
  PROVE  LSteps(c)
<1>1. CASE L!Read(c, op, 0, L!Entities(hs))
  BY <1>1, LReadSends
<1>2. ASSUME L!UnderWay(c, op, 0), L!Come(c),
             arrays' = [L!SyncAll(arrays, calls[c].answer) EXCEPT ![L!Found] = calls[c].answer],
             UNCHANGED page
      PROVE  LSteps(c)
  <2>1. PICK es : es = calls[c].answer
    OBVIOUS
  <2>2. es \in Seq(LShows) /\ Known(es) /\ Once(es) /\ LArraysOK(arrays)
    BY <2>1 DEF LInv, LCallOK
  <2>3. /\ LArraysOK(arrays')
        /\ \A n \in LNames : HashesOf(arrays'[n]) \subseteq
                               HashesOf(arrays[n]) \cup {h \in HashesOf(es) : n \in {"all", L!Found}}
    BY <1>2, <2>1, <2>2, LSearchedIs
  <2>4. /\ \A n \in LNames : HashesOf(arrays'[n]) \subseteq HashesOf(arrays[n]) \cup HashesOf(es)
        /\ HashesOf(arrays'["active"]) \subseteq HashesOf(arrays["active"])
    BY <2>3, LNamesAre
  <2> QED BY <1>2, <2>1, <2>3, <2>4, LComeSteps
<1> QED BY <1>1, <1>2 DEF L!Search

\* The latest revision, for the page of one listing.
LEMMA LLatestIs ==
  ASSUME L!ListingStoreAssumption, LInv, NEW h \in Made
  PROVE  {latest[h]} \subseteq Made /\ \A k \in {latest[h]} : k = h \/ k \in L!Revisions
<1>1. h \in Hashes
  BY DEF LInv, ListingsOK, Made, Hashes, L!ListingStoreAssumption
<1>2. latest[h] \in Made /\ (latest[h] = h \/ latest[h] \in L!Revisions)
  BY <1>1 DEF LInv, ListingsOK
<1> QED BY <1>2

\* What a page holds of an answer.
LEMMA LPageIs ==
  ASSUME NEW on, NEW es \in Seq(LShows)
  PROVE  L!Page(on, es).hash \in {0} \cup HashesOf(es)
<1>1. es = <<>> => L!Page(on, es).hash = 0
  BY DEF L!Page
<1>2. ASSUME es # <<>> PROVE L!Page(on, es).hash \in HashesOf(es)
  <2>1. 1 \in 1 .. Len(es)
    BY <1>2, EmptySeq, LenProperties
  <2>2. PICK e : e = es[1]
    OBVIOUS
  <2>3. e \in ToSet(es)
    BY <2>1, <2>2, Members
  <2>4. L!Page(on, es).hash = e.hash
    BY <1>2, <2>2 DEF L!Page
  <2> QED BY <2>3, <2>4 DEF HashesOf
<1> QED BY <1>1, <1>2

LEMMA LOpenSteps ==
  ASSUME L!ListingStoreAssumption, LInv, NEW c \in Callers, NEW h \in Made, L!Open(c, h)
  PROVE  LSteps(c) \/ (LGrows /\ LRests)
<1>1. ASSUME h \in DOMAIN cache, L!AtOnce(c), page' = L!Page("details", <<cache[h]>>),
             UNCHANGED <<L!zomeVars, arrays, cache, removed>>
      PROVE  LGrows /\ LRests
  <2>1. LGrows /\ calls' = calls /\ loading' = FALSE
    BY <1>1, LRestIs, LCalls DEF LInv, AtOnce
  <2>2. page'.hash = cache[h].hash
    BY <1>1 DEF L!Page
  <2>3. cache[h].hash \in Made /\ (cache[h].hash = h \/ cache[h].hash \in L!Revisions)
    BY <1>1 DEF LInv, LCacheOK
  <2>4. page'.hash \in 0 .. last
    BY <2>2, <2>3 DEF Made, LInv, ListingsOK
  <2>5. Seen' \subseteq Seen \cup L!Revisions
    <3>1. DOMAIN arrays = LNames /\ DOMAIN arrays' = LNames
      BY <1>1 DEF LInv, LArraysOK, Tidy
    <3> QED BY <1>1, <2>2, <2>3, <3>1, LSeenIs
  <2> QED BY <1>1, <2>1, <2>4, <2>5 DEF LRests, LInv
<1>2. ASSUME h \in L!Shown, L!Read(c, "open", h, L!Latest(h)) PROVE LSteps(c)
  <2>1. L!Latest(h) = L!Entities({latest[h]})
    BY DEF L!Latest
  <2>2. {latest[h]} \subseteq Made /\ \A k \in {latest[h]} : k = h \/ k \in L!Revisions
    BY LLatestIs
  <2>3. h \in Seen
    BY <1>2 DEF Seen
  <2>4. "open" \notin {"delete", "archive"} \cup Actives
    BY DEF Actives
  <2> QED BY <1>2, <2>1, <2>2, <2>3, <2>4, LReadSends
<1>3. ASSUME L!UnderWay(c, "open", h), L!End(c), arrays' = L!SyncAll(arrays, calls[c].answer),
             cache' = IF calls[c].answer = <<>> THEN cache ELSE L!CacheSet(cache, h, calls[c].answer[1]),
             page' = L!Page("details", calls[c].answer), UNCHANGED <<L!zomeVars, removed>>
      PROVE  LSteps(c)
  <2>1. PICK es : es = calls[c].answer
    OBVIOUS
  <2>2. /\ es \in Seq(LShows) /\ Known(es) /\ LArraysOK(arrays) /\ LCacheOK(cache)
        /\ calls[c].op = "open" /\ calls[c].arg = h
    BY <1>3, <2>1 DEF LInv, LCallOK, L!UnderWay
  <2>3. \A e \in ToSet(es) : e.hash \in Made /\ (e.hash = h \/ e.hash \in L!Revisions)
    BY <2>1, <2>2 DEF LInv, LCallOK, Known
  <2>4. LArraysOK(arrays') /\ LFrom(arrays', arrays, es)
    BY <1>3, <2>1, <2>2, LSyncAllIs
  <2>5. /\ \A n \in LNames : HashesOf(arrays'[n]) \subseteq HashesOf(arrays[n]) \cup HashesOf(es)
        /\ HashesOf(arrays'["active"]) \subseteq HashesOf(arrays["active"])
    BY <2>4, LNamesAre DEF LFrom
  <2>6. LCacheOK(cache') /\ DOMAIN cache' \subseteq DOMAIN cache \cup {h}
    <3>1. CASE es = <<>>
      BY <1>3, <2>1, <2>2, <3>1
    <3>2. CASE es # <<>>
      <4>1. PICK e : e = es[1]
        OBVIOUS
      <4>2. e \in ToSet(es)
        <5>1. 1 \in 1 .. Len(es)
          BY <2>2, <3>2, EmptySeq, LenProperties
        <5> QED BY <2>2, <4>1, <5>1, Members
      <4>3. cache' = [k \in DOMAIN cache \cup {h} |-> IF k = h THEN e ELSE cache[k]]
        BY <1>3, <2>1, <3>2, <4>1 DEF L!CacheSet
      <4> QED BY <2>2, <2>3, <4>2, <4>3 DEF LCacheOK
    <3> QED BY <3>1, <3>2
  <2>7. h \in Opened(calls[c])
    BY <2>2 DEF Opened
  <2>8. page'.hash \in {0} \cup HashesOf(es)
    BY <1>3, <2>1, <2>2, LPageIs
  <2> QED BY <1>3, <2>1, <2>4, <2>5, <2>6, <2>7, <2>8, LBack
<1> QED BY <1>1, <1>2, <1>3 DEF L!Open

LEMMA LLatestlySteps ==
  ASSUME L!ListingStoreAssumption, LInv, NEW c \in Callers, NEW h \in Made, L!Latestly(c, h)
  PROVE  LSteps(c)
<1>1. ASSUME L!Read(c, "latest", h, L!Latest(h)) PROVE LSteps(c)
  <2>1. L!Latest(h) = L!Entities({latest[h]}) /\ {latest[h]} \subseteq Made
    BY LLatestIs DEF L!Latest
  <2>2. "latest" \notin {"open", "delete", "archive"} \cup Actives
    BY DEF Actives
  <2> QED BY <1>1, <2>1, <2>2, LReadSends
<1>2. ASSUME L!End(c), page' = L!Page("edit", calls[c].answer),
             UNCHANGED <<L!zomeVars, arrays, cache, removed>>
      PROVE  LSteps(c)
  <2>1. PICK es : es = calls[c].answer
    OBVIOUS
  <2>2. es \in Seq(LShows) /\ LArraysOK(arrays') /\ LCacheOK(cache')
    BY <1>2, <2>1 DEF LInv, LCallOK
  <2>3. page'.hash \in {0} \cup HashesOf(es)
    BY <1>2, <2>1, <2>2, LPageIs
  <2> QED BY <1>2, <2>1, <2>2, <2>3, LBack
<1> QED BY <1>1, <1>2 DEF L!Latestly

LEMMA LUpdateSteps ==
  ASSUME L!ListingStoreAssumption, LInv, NEW c \in Callers, NEW h \in Made, L!Update(c, h)
  PROVE  LSteps(c)
<1>1. ASSUME L!Edit(h), L!Begin(c, "update", h, <<L!Entity(h)>>), UNCHANGED L!storeVars
      PROVE  LSteps(c)
  <2>1. LGrows /\ h \notin dead /\ h \in Made'
    BY <1>1, LEditIs, LMadeGrows DEF LInv
  <2>2. h \in Hashes /\ h \in 1 .. last'
    BY <2>1 DEF LInv, ListingsOK, Made, Hashes, L!ListingStoreAssumption
  <2>3. PICK e : e = L!Entity(h)
    OBVIOUS
  <2>4. e \in LShows /\ e.hash = h
    BY <2>2, <2>3, LEntityIs
  <2>5. PICK es : es = <<e>>
    OBVIOUS
  <2>6. es \in Seq(LShows) /\ ToSet(es) = {e} /\ Once(es)
    BY <2>4, <2>5, SingleIs
  <2>7. Begin(c, "update", h, es)
    BY <1>1, <2>3, <2>5, LCalls
  <2>8. "update" \notin {"open", "delete", "archive"} \cup Actives
    BY DEF Actives
  <2>9. LSends(c)
    BY <1>1, <2>1, <2>2, <2>4, <2>6, <2>7, <2>8 DEF LSends
  <2> QED BY <2>1, <2>9 DEF LSteps
<1>2. ASSUME L!Come(c), arrays' = L!SyncAll(arrays, calls[c].answer), page' = L!NoPage PROVE LSteps(c)
  <2>1. page'.hash = 0
    BY <1>2 DEF L!NoPage, L!Page
  <2> QED BY <1>2, <2>1, LAddsSteps
<1> QED BY <1>1, <1>2 DEF L!Update

\* A call that is answered with nothing, and changes the zome.
LEMMA LEmptySends ==
  ASSUME LInv, LGrows, NEW c \in Callers, NEW h \in Made, NEW op \in {"delete", "archive"},
         op = "delete" => h \in dead', op = "archive" => (Unedited(h)' => Away(h)'),
         L!Begin(c, op, h, <<>>), UNCHANGED L!storeVars
  PROVE  LSteps(c)
<1>1. PICK es : es = <<>>
  OBVIOUS
<1>2. es \in Seq(LShows) /\ ToSet(es) = {} /\ Once(es)
  BY <1>1, NothingIs
<1>3. Begin(c, op, h, es)
  BY <1>1, LCalls
<1>4. op # "open" /\ op \notin Actives
  BY DEF Actives
<1>5. LSends(c)
  BY <1>2, <1>3, <1>4 DEF LSends
<1> QED BY <1>5 DEF LSteps

\* A deletion or an archival comes back.
LEMMA LRemovedSteps ==
  ASSUME LInv, NEW c \in Callers, NEW h \in Made, NEW op \in {"delete", "archive"}, NEW arrs,
         LArraysOK(arrs), \A n \in LNames : HashesOf(arrs[n]) \subseteq HashesOf(arrays[n]),
         op = "delete" /\ Kind = "requests" => \A n \in LNames : h \notin HashesOf(arrs[n]),
         op = "archive" => h \notin HashesOf(arrs["active"]),
         L!Removed(c, op, h, arrs)
  PROVE  LSteps(c)
<1>1. /\ calls[c].op = op /\ calls[c].arg = h /\ L!End(c) /\ arrays' = arrs
      /\ cache' = [k \in DOMAIN cache \ {h} |-> cache[k]]
      /\ removed' = [removed EXCEPT ![op] = @ \cup {h}]
      /\ page' = IF page.hash = h THEN L!NoPage ELSE page
      /\ UNCHANGED L!zomeVars
  BY DEF L!Removed, L!UnderWay, L!CacheDrop
<1>2. End(c) /\ LGrows
  BY <1>1, LCalls, LRestIs DEF LInv
<1>3. L!NoPage.hash = 0 /\ 0 \in 0 .. last /\ page.hash \in 0 .. last
  BY DEF L!NoPage, L!Page, LInv, ListingsOK
<1>4. page'.hash \in 0 .. last /\ (page'.hash = 0 \/ (page'.hash = page.hash /\ page.hash # h))
  BY <1>1, <1>3
<1>5. LCacheOK(cache')
  BY <1>1 DEF LInv, LCacheOK
<1>6. DOMAIN arrays = LNames /\ DOMAIN arrays' = LNames
  BY <1>1 DEF LInv, LArraysOK, Tidy
<1>7. Seen' \subseteq Seen
  BY <1>1, <1>4, <1>6, LSeenIs
<1>8. op = "delete" /\ Kind = "requests" => h \notin Seen'
  BY <1>1, <1>4, <1>6, LSeenIs
<1>9. HashesOf(arrays'["active"]) \subseteq HashesOf(arrays["active"])
  BY <1>1, LNamesAre
<1>10. LReturns(c)
  BY <1>1, <1>2, <1>4, <1>5, <1>7, <1>8, <1>9 DEF LReturns
<1> QED BY <1>2, <1>10 DEF LSteps

LEMMA LDeleteSteps ==
  ASSUME L!ListingStoreAssumption, LInv, NEW c \in Callers, NEW h \in Made, L!DeleteListing(c, h)
  PROVE  LSteps(c)
<1>1. ASSUME L!Delete(h), L!Begin(c, "delete", h, <<>>), UNCHANGED L!storeVars PROVE LSteps(c)
  <2>1. LGrows /\ h \in dead'
    BY <1>1, LDeleteIs DEF LInv
  <2> QED BY <1>1, <2>1, LEmptySends
<1>2. ASSUME L!Removed(c, "delete", h, L!RemoveDeleted(arrays, h)) PROVE LSteps(c)
  <2>1. PICK arrs : arrs = L!RemoveDeleted(arrays, h)
    OBVIOUS
  <2>2. /\ LArraysOK(arrs) /\ \A n \in LNames : HashesOf(arrs[n]) \subseteq HashesOf(arrays[n])
        /\ Kind = "requests" => \A n \in LNames : h \notin HashesOf(arrs[n])
    BY <2>1, LRemovedIs DEF LInv
  <2> QED BY <1>2, <2>1, <2>2, LRemovedSteps
<1> QED BY <1>1, <1>2 DEF L!DeleteListing

LEMMA LArchiveSteps ==
  ASSUME L!ListingStoreAssumption, LInv, NEW c \in Callers, NEW h \in Made, L!ArchiveListing(c, h)
  PROVE  LSteps(c)
<1>1. ASSUME L!Archive(h), L!Begin(c, "archive", h, <<>>), UNCHANGED L!storeVars PROVE LSteps(c)
  <2>1. LGrows /\ (Unedited(h)' => Away(h)')
    BY <1>1, LArchiveIs DEF LInv
  <2> QED BY <1>1, <2>1, LEmptySends
<1>2. ASSUME L!Removed(c, "archive", h, L!RemoveArchived(arrays, h)) PROVE LSteps(c)
  <2>1. PICK arrs : arrs = L!RemoveArchived(arrays, h)
    OBVIOUS
  <2>2. /\ LArraysOK(arrs) /\ \A n \in LNames : HashesOf(arrs[n]) \subseteq HashesOf(arrays[n])
        /\ h \notin HashesOf(arrs["active"])
    BY <2>1, LArchivedIs DEF LInv
  <2> QED BY <1>2, <2>1, <2>2, LRemovedSteps
<1> QED BY <1>1, <1>2 DEF L!ArchiveListing

LEMMA LFailsSteps ==
  ASSUME L!ListingStoreAssumption, LInv, NEW c \in Callers, L!CallFails(c)
  PROVE  LSteps(c) \/ (LGrows /\ LRests)
<1>1. /\ UNCHANGED L!zomeVars /\ arrays' = arrays /\ cache' = cache /\ page' = page
      /\ removed' = removed /\ LGrows /\ LArraysOK(arrays') /\ LCacheOK(cache')
  BY LRestIs DEF L!CallFails, L!storeVars, LInv
<1>2. CASE L!Fail(c)
  BY <1>1, <1>2, LBack DEF L!Fail
<1>3. CASE L!AtOnce(c)
  <2>1. calls' = calls /\ loading' = FALSE
    BY <1>3 DEF L!AtOnce
  <2>2. Seen' = Seen
    BY <1>1 DEF Seen, L!Shown
  <2> QED BY <1>1, <2>1, <2>2 DEF LRests, LInv
<1> QED BY <1>2, <1>3 DEF L!CallFails

LEMMA LInvalidateRests ==
  ASSUME L!ListingStoreAssumption, LInv, L!InvalidateCache
  PROVE  LGrows /\ LRests
<1>1. /\ arrays' = L!Empty /\ cache' = <<>> /\ calls' = calls /\ page' = page /\ removed' = removed
      /\ loading' \in BOOLEAN /\ UNCHANGED L!zomeVars
  BY DEF L!InvalidateCache, L!NoCache
<1>2. \A n \in LNames : L!Empty[n] \in Seq(LShows) /\ ToSet(L!Empty[n]) = {} /\ Once(L!Empty[n])
  BY NothingIs, LNamesAre
<1>3. LArraysOK(arrays')
  BY <1>1, <1>2, LNamesAre DEF LArraysOK, Tidy, Known, HashesOf
<1>4. DOMAIN cache' = {}
  BY <1>1
<1>5. LGrows /\ LCacheOK(cache')
  BY <1>1, <1>4, LRestIs DEF LInv, LCacheOK
<1>6. \A n \in LNames : HashesOf(arrays'[n]) = {}
  BY <1>1, <1>2 DEF HashesOf
<1>7. Seen' \subseteq Seen
  <2>1. DOMAIN arrays = LNames /\ DOMAIN arrays' = LNames
    BY <1>3 DEF LInv, LArraysOK, Tidy
  <2> QED BY <1>1, <1>4, <1>6, <2>1, LSeenIs
<1>8. HashesOf(arrays'["active"]) = {}
  BY <1>6, LNamesAre
<1> QED BY <1>1, <1>3, <1>5, <1>7, <1>8 DEF LRests, LInv

LEMMA LExpireRests ==
  ASSUME L!ListingStoreAssumption, LInv, NEW h, L!Expire(h)
  PROVE  LGrows /\ LRests
<1>1. /\ cache' = [k \in DOMAIN cache \ {h} |-> cache[k]] /\ UNCHANGED L!zomeVars
      /\ arrays' = arrays /\ page' = page /\ removed' = removed /\ calls' = calls /\ loading' = loading
  BY DEF L!Expire, L!CacheDrop, L!callVars
<1>2. LGrows /\ LArraysOK(arrays') /\ LCacheOK(cache')
  BY <1>1, LRestIs DEF LInv, LCacheOK
<1>3. Seen' \subseteq Seen
  BY <1>1 DEF Seen, L!Shown
<1> QED BY <1>1, <1>2, <1>3 DEF LRests, LInv

LEMMA LElsewhereRests ==
  ASSUME L!ListingStoreAssumption, LInv, L!Elsewhere
  PROVE  LGrows /\ LRests
<1>1. UNCHANGED L!callVars /\ UNCHANGED L!storeVars
  BY DEF L!Elsewhere
<1>2. LRests
  BY <1>1 DEF LInv, LRests, L!callVars, L!storeVars, Seen, L!Shown
<1>3. ASSUME NEW names, L!NewListing(names) PROVE LGrows
  BY <1>3, LNewIs DEF LInv
<1>4. ASSUME NEW h \in Made, L!Edit(h) \/ L!Archive(h) \/ L!Delete(h) PROVE LGrows
  BY <1>4, LEditIs, LArchiveIs, LDeleteIs DEF LInv
<1> QED BY <1>2, <1>3, <1>4, LMadeIs DEF L!Elsewhere

\* What the calls that fetch and search ask the zome for.
LEMMA LAsked ==
  ASSUME LInv
  PROVE  /\ \A n \in L!Names : lists[n] \subseteq Made
         /\ "active" \in L!Names /\ "archived" \in L!Names /\ "user" \in L!Names /\ Groups \subseteq L!Names
         /\ L!UserActive \subseteq Made /\ L!UserArchived \subseteq Made
         /\ \A h \in lists["active"] : ~Away(h)
         /\ \A h \in L!UserActive \ dead : ~Away(h)
<1>1. /\ \A n \in L!Names : lists[n] \subseteq Made
      /\ "active" \in L!Names /\ "archived" \in L!Names /\ "user" \in L!Names /\ Groups \subseteq L!Names
  BY DEF LInv, ListingsOK, L!Names
<1> QED BY <1>1 DEF L!UserActive, L!UserArchived, Away

LEMMA LListsSteps ==
  ASSUME L!ListingStoreAssumption, LInv, NEW c \in Callers,
         \/ L!FetchAll(c, "active", "active", lists["active"])
         \/ L!FetchAll(c, "archived", "archived", lists["archived"])
         \/ L!Fetch(c, "userActive", "active", L!UserActive)
         \/ L!Fetch(c, "userArchived", "archived", L!UserArchived)
  PROVE  LSteps(c)
<1>1. /\ lists["active"] \subseteq Made /\ lists["archived"] \subseteq Made
      /\ L!UserActive \subseteq Made /\ L!UserArchived \subseteq Made
      /\ \A h \in lists["active"] \ dead : ~Away(h)
      /\ \A h \in L!UserActive \ dead : ~Away(h)
  BY LAsked
<1>2. /\ "active" \in Actives /\ "userActive" \in Actives
      /\ "archived" \notin Actives /\ "userArchived" \notin Actives
  BY DEF Actives
<1>3. CASE L!FetchAll(c, "active", "active", lists["active"])
  BY <1>1, <1>2, <1>3, LFetchAllSteps
<1>4. CASE L!FetchAll(c, "archived", "archived", lists["archived"])
  BY <1>1, <1>2, <1>4, LFetchAllSteps
<1>5. CASE L!Fetch(c, "userActive", "active", L!UserActive)
  BY <1>1, <1>2, <1>5, LFetchSteps
<1>6. CASE L!Fetch(c, "userArchived", "archived", L!UserArchived)
  BY <1>1, <1>2, <1>6, LFetchSteps
<1> QED BY <1>3, <1>4, <1>5, <1>6

LEMMA LSearchesSteps ==
  ASSUME L!ListingStoreAssumption, LInv, NEW c \in Callers,
         \/ L!Search(c, "user", lists["user"]) \/ L!Search(c, "mine", lists["user"])
         \/ "org" \in Groups /\ L!Search(c, "org", lists["org"])
         \/ "tag" \in Groups /\ L!Search(c, "tag", lists["tag"])
  PROVE  LSteps(c)
<1>1. \A op \in {"user", "mine", "org", "tag"} : op \notin {"delete", "archive", "open"} \cup Actives
  BY DEF Actives
<1>2. /\ lists["user"] \subseteq Made
      /\ "org" \in Groups => lists["org"] \subseteq Made
      /\ "tag" \in Groups => lists["tag"] \subseteq Made
  BY LAsked
<1>3. CASE L!Search(c, "user", lists["user"])
  BY <1>1, <1>2, <1>3, LSearchSteps
<1>4. CASE L!Search(c, "mine", lists["user"])
  BY <1>1, <1>2, <1>4, LSearchSteps
<1>5. CASE "org" \in Groups /\ L!Search(c, "org", lists["org"])
  BY <1>1, <1>2, <1>5, LSearchSteps
<1>6. CASE "tag" \in Groups /\ L!Search(c, "tag", lists["tag"])
  BY <1>1, <1>2, <1>6, LSearchSteps
<1> QED BY <1>3, <1>4, <1>5, <1>6

\* Every step is one of a call, or leaves the calls alone.
LEMMA LStepIs ==
  ASSUME L!ListingStoreAssumption, LInv, [L!Next]_(L!vars)
  PROVE  \/ \E c \in Callers : LSteps(c)
         \/ LGrows /\ LRests
<1>1. ASSUME NEW c \in Callers, NEW h \in Made,
             \/ L!Open(c, h) \/ L!Latestly(c, h) \/ L!Update(c, h)
             \/ L!DeleteListing(c, h) \/ L!ArchiveListing(c, h)
      PROVE  LSteps(c) \/ (LGrows /\ LRests)
  BY <1>1, LOpenSteps, LLatestlySteps, LUpdateSteps, LDeleteSteps, LArchiveSteps
<1>2. ASSUME NEW c \in Callers, L!RequestCalls(c) PROVE LSteps(c) \/ (LGrows /\ LRests)
  <2>1. CASE L!CreateRequest(c)
    BY <2>1, LCreateSteps DEF L!CreateRequest
  <2>2. CASE \/ L!GetActiveRequests(c) \/ L!GetArchivedRequests(c)
             \/ L!GetUserActiveRequests(c) \/ L!GetUserArchivedRequests(c)
    BY <2>2, LListsSteps DEF L!GetActiveRequests, L!GetArchivedRequests,
       L!GetUserActiveRequests, L!GetUserArchivedRequests
  <2>3. CASE \/ L!GetUserRequests(c) \/ L!GetMyRequests(c)
             \/ L!GetOrganizationRequests(c) \/ L!GetRequestsByTag(c)
    BY <2>3, LSearchesSteps DEF L!GetUserRequests, L!GetMyRequests, L!GetOrganizationRequests,
       L!GetRequestsByTag
  <2>4. ASSUME NEW h \in Made,
               \/ L!GetRequest(c, h) \/ L!GetLatestRequest(c, h) \/ L!UpdateRequest(c, h)
               \/ L!DeleteRequest(c, h) \/ L!ArchiveRequest(c, h)
        PROVE  LSteps(c) \/ (LGrows /\ LRests)
    BY <1>1, <2>4 DEF L!GetRequest, L!GetLatestRequest, L!UpdateRequest, L!DeleteRequest, L!ArchiveRequest
  <2> QED BY <1>2, <2>1, <2>2, <2>3, <2>4, LMadeIs DEF L!RequestCalls
<1>3. ASSUME NEW c \in Callers, L!OfferCalls(c) PROVE LSteps(c) \/ (LGrows /\ LRests)
  <2>1. CASE L!CreateOffer(c)
    BY <2>1, LCreateSteps DEF L!CreateOffer
  <2>2. CASE \/ L!GetActiveOffers(c) \/ L!GetArchivedOffers(c)
             \/ L!GetUserActiveOffers(c) \/ L!GetUserArchivedOffers(c)
    BY <2>2, LListsSteps DEF L!GetActiveOffers, L!GetArchivedOffers,
       L!GetUserActiveOffers, L!GetUserArchivedOffers
  <2>3. CASE \/ L!GetUserOffers(c) \/ L!GetMyOffers(c)
             \/ L!GetOrganizationOffers(c) \/ L!GetOffersByTag(c)
    BY <2>3, LSearchesSteps DEF L!GetUserOffers, L!GetMyOffers, L!GetOrganizationOffers,
       L!GetOffersByTag
  <2>4. ASSUME NEW h \in Made,
               \/ L!GetOffer(c, h) \/ L!GetLatestOffer(c, h) \/ L!UpdateOffer(c, h)
               \/ L!DeleteOffer(c, h) \/ L!ArchiveOffer(c, h)
        PROVE  LSteps(c) \/ (LGrows /\ LRests)
    BY <1>1, <2>4 DEF L!GetOffer, L!GetLatestOffer, L!UpdateOffer, L!DeleteOffer, L!ArchiveOffer
  <2> QED BY <1>3, <2>1, <2>2, <2>3, <2>4, LMadeIs DEF L!OfferCalls
<1>4. CASE UNCHANGED L!vars
  <2>1. UNCHANGED L!callVars /\ UNCHANGED L!zomeVars /\ UNCHANGED L!storeVars
    BY <1>4 DEF L!vars
  <2> QED BY <2>1, LRestIs DEF LInv, LRests, L!callVars, L!storeVars, Seen, L!Shown
<1>5. CASE \E c \in Callers : L!RequestCalls(c) \/ L!OfferCalls(c) \/ L!CallFails(c)
  BY <1>2, <1>3, <1>5, LFailsSteps
<1>6. CASE L!InvalidateCache
  BY <1>6, LInvalidateRests
<1>7. CASE \E h \in DOMAIN cache : L!Expire(h)
  BY <1>7, LExpireRests
<1>8. CASE L!Elsewhere
  BY <1>8, LElsewhereRests
<1> QED BY <1>4, <1>5, <1>6, <1>7, <1>8 DEF L!Next

LEMMA LInitOK ==
  ASSUME L!ListingStoreAssumption, L!Init
  PROVE  LInv /\ LGone /\ LFiled
<1>1. /\ calls = [c \in Callers |-> Idle] /\ loading = FALSE /\ last = 0 /\ dead = {} /\ shelved = {}
      /\ edits = {} /\ arrays = L!Empty /\ cache = <<>> /\ page = L!NoPage
      /\ lists = [n \in L!Names |-> {}] /\ latest = [h \in Hashes |-> h]
      /\ removed = [op \in {"delete", "archive"} |-> {}]
  BY LMadeIs DEF L!Init, L!CallsInit, L!Idle, Idle, L!NoCache
<1>2. ListingsOK /\ ShelvedOK
  <2>1. 0 \in 0 .. MaxHashes /\ Made = {} /\ "active" \in L!Names
    BY <1>1 DEF L!ListingStoreAssumption, Made, L!Names
  <2> QED BY <1>1, <2>1 DEF ListingsOK, ShelvedOK
<1>3. <<>> \in Seq(LShows) /\ ToSet(<<>>) = {} /\ Once(<<>>)
  BY NothingIs
<1>4. Idle.answer = <<>> /\ Idle.op = "none"
  BY DEF Idle
<1>5. \A c \in Callers : LCallOK(calls[c])
  BY <1>1, <1>3, <1>4 DEF LCallOK, Known
<1>6. LArraysOK(arrays)
  <2>1. \A n \in LNames : arrays[n] = <<>>
    BY <1>1, LNamesAre
  <2> QED BY <1>1, <1>3, <2>1, LNamesAre DEF LArraysOK, Tidy, Known, HashesOf
<1>7. LCacheOK(cache) /\ page.hash = 0 /\ 0 \in 0 .. last
  BY <1>1 DEF LCacheOK, L!NoPage, L!Page
<1>8. LInv
  BY <1>1, <1>2, <1>5, <1>6, <1>7 DEF LInv
<1>9. removed["delete"] = {} /\ removed["archive"] = {}
  BY <1>1
<1>10. "none" \notin {"delete", "open", "archive"} \cup Actives
  BY DEF Actives
<1>11. \A c \in Callers : calls[c].op = "none" /\ HashesOf(calls[c].answer) = {}
  BY <1>1, <1>3, <1>4 DEF HashesOf
<1>12. LGone
  BY <1>9, <1>10, <1>11 DEF LGone
<1>13. LFiled
  BY <1>9, <1>10, <1>11 DEF LFiled
<1> QED BY <1>8, <1>12, <1>13

\* The arrays, the cache and the page of a store of listings hold records there
\* are, and no array repeats one, whatever calls do (requests.store.svelte.ts:592-598).
THEOREM ListingStoreInvariant == L!ListingStoreAssumption /\ L!Spec => []LInv
<1> SUFFICES ASSUME L!ListingStoreAssumption PROVE L!Spec => []LInv
  OBVIOUS
<1>1. L!Init => LInv
  BY LInitOK
<1>2. LInv /\ [L!Next]_(L!vars) => LInv'
  BY LStepIs, LSendsKeeps, LReturnsKeeps, LRestsKeeps DEF LSteps
<1> QED BY <1>1, <1>2, PTL DEF L!Spec

\* The store of the requests, or of the offers, has what its types say
\* (requests.store.svelte.ts:330-405, offers.store.svelte.ts:322-398).
THEOREM ListingStoreTypes == L!ListingStoreAssumption /\ L!Spec => []L!TypeOK
<1>1. ASSUME LInv PROVE L!TypeOK
  <2>1. L!Shown \subseteq Made
    BY <1>1, LShownIs
  <2>2. \A h \in DOMAIN cache : h \in Made /\ cache[h].hash \in Made
    BY <1>1 DEF LInv, LCacheOK
  <2> QED BY <1>1, <2>1, <2>2, LMadeIs DEF LInv, ListingsOK, L!TypeOK
<1> QED BY <1>1, ListingStoreInvariant, PTL

\* No array shows a record twice, and what a search found is also among all
\* listings, however calls overlap, fail and come back late
\* (requests.store.svelte.ts:592-598, cache-helpers.ts:70-90).
THEOREM ListingStoreSearches == L!ListingStoreAssumption /\ L!Spec => []L!SearchAmongAll
<1>1. ASSUME LInv PROVE L!SearchAmongAll
  <2>1. /\ DOMAIN arrays = LNames /\ \A n \in LNames : arrays[n] \in Seq(LShows) /\ Once(arrays[n])
        /\ HashesOf(arrays[L!Found]) \subseteq HashesOf(arrays["all"])
    BY <1>1 DEF LInv, LArraysOK, Tidy
  <2>2. \A n \in DOMAIN arrays : \A i, j \in DOMAIN arrays[n] :
          arrays[n][i].hash = arrays[n][j].hash => i = j
    BY <2>1 DEF Once
  <2>3. ASSUME NEW e \in L!ToSet(arrays[L!Found]) PROVE L!Lists(arrays["all"], e.hash)
    <3>1. PICK h : h = e.hash
      OBVIOUS
    <3>2. h \in HashesOf(arrays["all"])
      BY <2>1, <2>3, <3>1, LSeqs DEF HashesOf
    <3>3. Lists(arrays["all"], h)
      BY <2>1, <3>2, LNamesAre, ListsIs
    <3> QED BY <3>1, <3>3, LIndex DEF L!Lists, Lists
  <2> QED BY <2>2, <2>3 DEF L!SearchAmongAll
<1> QED BY <1>1, ListingStoreInvariant, PTL

\* A user who waits for each call does not see again, by the hash of its original,
\* a request it deleted, whatever others do and whatever calls fail
\* (requests.store.svelte.ts:536-540).
THEOREM RequestsStoreForgets ==
  L!ListingStoreAssumption /\ Kind = "requests" /\ OneCaller /\ L!Spec => []L!DeletedNotShown
<1> SUFFICES ASSUME L!ListingStoreAssumption, Kind = "requests", OneCaller
             PROVE  L!Spec => []L!DeletedNotShown
  OBVIOUS
<1>1. L!Init => LInv /\ LGone
  BY LInitOK
<1>2. LInv /\ LGone /\ [L!Next]_(L!vars) => LInv' /\ LGone'
  <2> SUFFICES ASSUME LInv, LGone, [L!Next]_(L!vars) PROVE LInv' /\ LGone'
    OBVIOUS
  <2>1. ASSUME NEW c \in Callers, LSteps(c) PROVE LInv' /\ LGone'
    BY <2>1, LSendsKeeps, LReturnsKeeps, LSendsAway, LReturnsAway DEF LSteps
  <2>2. ASSUME LGrows, LRests PROVE LInv' /\ LGone'
    BY <2>2, LRestsKeeps, LRestsAway
  <2> QED BY <2>1, <2>2, LStepIs
<1>3. LGone => L!DeletedNotShown
  BY DEF LGone, Seen, L!DeletedNotShown, L!Originals
<1> QED BY <1>1, <1>2, <1>3, PTL DEF L!Spec

\* A user who waits for each call does not see again, among the active listings, a
\* request or an offer that it archived and nobody edited, whatever others do and
\* whatever calls fail (requests.store.svelte.ts:555-570, request.rs:624-640).
THEOREM ListingStoreArchives ==
  L!ListingStoreAssumption /\ OneCaller /\ L!Spec => []L!ArchivedNotActive
<1> SUFFICES ASSUME L!ListingStoreAssumption, OneCaller PROVE L!Spec => []L!ArchivedNotActive
  OBVIOUS
<1>1. L!Init => LInv /\ LFiled
  BY LInitOK
<1>2. LInv /\ LFiled /\ [L!Next]_(L!vars) => LInv' /\ LFiled'
  <2> SUFFICES ASSUME LInv, LFiled, [L!Next]_(L!vars) PROVE LInv' /\ LFiled'
    OBVIOUS
  <2>1. ASSUME NEW c \in Callers, LSteps(c) PROVE LInv' /\ LFiled'
    BY <2>1, LSendsKeeps, LReturnsKeeps, LSendsFiled, LReturnsFiled DEF LSteps
  <2>2. ASSUME LGrows, LRests PROVE LInv' /\ LFiled'
    BY <2>2, LRestsKeeps, LRestsFiled
  <2> QED BY <2>1, <2>2, LStepIs
<1>3. LInv /\ LFiled => L!ArchivedNotActive
  <2> SUFFICES ASSUME LInv, LFiled, NEW h \in removed["archive"], Unedited(h)
               PROVE  ~L!Lists(arrays["active"], h)
    BY DEF L!ArchivedNotActive, Unedited
  <2>1. h \notin HashesOf(arrays["active"]) /\ arrays["active"] \in Seq(LShows)
    BY LNamesAre DEF LFiled, LInv, LArraysOK, Tidy
  <2>2. ~Lists(arrays["active"], h)
    BY <2>1, ListsIs
  <2> QED BY <2>2, LIndex DEF L!Lists, Lists
<1> QED BY <1>1, <1>2, <1>3, PTL DEF L!Spec

-----------------------------------------------------------------------------
(* The pages that list requests and offers: what the variables hold. *)

PagesOfTabs == [at : {"elsewhere", "list", "mine", "profile"}, who : G!Users, kinds : Seq(G!KindSet),
                tab : [G!KindSet -> G!Tabs]]
RunsOfTabs == [on : {"idle", "load", "card"}, todo : Seq(G!KindSet), tab : G!Tabs, answer : SUBSET Listings,
               left : PagesOfTabs, live : BOOLEAN]
OfKind(k) == {l \in Listings : KindOf[l] = k}

\* A run has something to load, of the kind it asked for, and under the tab of the
\* archived listings what was archived.
Sound(x) ==
  /\ x \in RunsOfTabs
  /\ x.on = "load" => /\ x.todo # <<>> /\ x.answer \subseteq OfKind(Head(x.todo))
                      /\ x.tab = "archived" => \A l \in x.answer : status[l] # "active"

StoreOfTabs ==
  /\ store \in [G!KindSet -> [G!Tabs -> SUBSET Listings]]
  /\ \A k \in G!KindSet, t \in G!Tabs : store[k][t] \subseteq OfKind(k)

TabsTypes ==
  /\ status \in [Listings -> G!Tabs \cup {"gone"}]
  /\ StoreOfTabs
  /\ page \in PagesOfTabs /\ (page.at # "elsewhere" => page.kinds # <<>>)
  /\ shown \in [G!KindSet -> SUBSET Listings] /\ (\A k \in G!KindSet : shown[k] \subseteq OfKind(k))
  /\ loading \subseteq G!KindSet /\ failed \subseteq G!KindSet
  /\ DOMAIN runs = Runs /\ (\A r \in Runs : Sound(runs[r]))
  /\ failures \in 0 .. MaxFailures

TabsInv == G!ListingTabsAssumption /\ TabsTypes /\ G!ArchivedUnderArchived

\* Every kind is one of a sequence that is not empty.
LEMMA KindsOfTabs ==
  ASSUME G!ListingTabsAssumption
  PROVE  /\ Kinds \in Seq(G!KindSet) /\ Kinds # <<>> /\ Head(Kinds) \in G!KindSet
         /\ \A k \in G!KindSet : <<k>> \in Seq(G!KindSet) /\ <<k>> # <<>> /\ Head(<<k>>) = k /\ Tail(<<k>>) = <<>>
         /\ G!KindSet # {} /\ me \in G!Users
<1>1. Kinds \in Seq(G!KindSet) /\ Kinds # <<>>
  BY DEF G!ListingTabsAssumption, G!KindSet, G!ToSet
<1>2. Head(Kinds) \in G!KindSet
  BY <1>1
<1> QED BY <1>1, <1>2 DEF G!Users

LEMMA TodoIs ==
  ASSUME NEW s \in Seq(G!KindSet), s # <<>>
  PROVE  Head(s) \in G!KindSet /\ Tail(s) \in Seq(G!KindSet)
OBVIOUS

LEMMA PageIs ==
  ASSUME NEW at \in {"elsewhere", "list", "mine", "profile"}, NEW who \in G!Users, NEW ks \in Seq(G!KindSet)
  PROVE  /\ G!Page(at, who, ks) \in PagesOfTabs
         /\ G!Page(at, who, ks).at = at /\ G!Page(at, who, ks).who = who /\ G!Page(at, who, ks).kinds = ks
BY DEF G!Page, PagesOfTabs, G!Tabs

LEMMA OtherIs ==
  ASSUME NEW t \in G!Tabs
  PROVE  G!OtherTab(t) \in G!Tabs
<1>1. \E o \in G!Tabs : o # t
  BY DEF G!Tabs
<1> QED BY <1>1 DEF G!OtherTab

\* What asks is sound.
LEMMA AskingIs ==
  ASSUME G!ListingTabsAssumption, NEW p \in PagesOfTabs, NEW s \in Seq(G!KindSet), s # <<>>, NEW live \in BOOLEAN
  PROVE  Sound(G!Asking(p, s, live))
<1>1. Head(s) \in G!KindSet /\ p.tab[Head(s)] \in G!Tabs
  BY TodoIs DEF PagesOfTabs
<1>2. PICK k \in G!KindSet, t \in G!Tabs : k = Head(s) /\ t = p.tab[k]
  BY <1>1
<1>3. PICK left \in PagesOfTabs : left = IF live THEN G!Start ELSE p
  <2>1. G!Start \in PagesOfTabs
    <3>1. <<>> \in Seq(G!KindSet) /\ me \in G!Users
      BY DEF G!Users
    <3> QED BY <3>1, PageIs DEF G!Start
  <2> QED BY <2>1
<1>4. PICK as \in SUBSET Listings : as = G!Records(p.at, p.who, k, t)
  BY DEF G!Records
<1>5. as \subseteq OfKind(k) /\ (t = "archived" => \A l \in as : status[l] # "active")
  BY <1>4 DEF G!Records, OfKind
<1>6. G!Asking(p, s, live) = [on |-> "load", todo |-> s, tab |-> t, live |-> live, left |-> left, answer |-> as]
  BY <1>2, <1>3, <1>4 DEF G!Asking
<1> QED BY <1>2, <1>3, <1>4, <1>5, <1>6 DEF Sound, RunsOfTabs

\* So is what is idle, and what was left.
LEMMA IdleIsSound ==
  ASSUME TRUE
  PROVE  Sound(G!Idle) /\ G!Idle.on = "idle"
<1>1. <<>> \in Seq(G!KindSet) /\ me \in G!Users
  BY DEF G!Users
<1>2. G!Start \in PagesOfTabs
  BY <1>1, PageIs DEF G!Start
<1> QED BY <1>1, <1>2 DEF Sound, G!Idle, RunsOfTabs, G!Tabs

LEMMA LeavingIs ==
  ASSUME TabsTypes
  PROVE  /\ DOMAIN G!Leaving = Runs
         /\ \A r \in Runs : Sound(G!Leaving[r]) /\ G!Leaving[r].on = runs[r].on
<1>1. ASSUME NEW r \in Runs
      PROVE  Sound(G!Leaving[r]) /\ G!Leaving[r].on = runs[r].on
  <2>1. PICK x : x = runs[r]
    OBVIOUS
  <2>2. Sound(x) /\ page \in PagesOfTabs
    BY <2>1 DEF TabsTypes
  <2>3. Sound([x EXCEPT !.live = FALSE, !.left = page]) /\ [x EXCEPT !.live = FALSE, !.left = page].on = x.on
    BY <2>2 DEF Sound, RunsOfTabs
  <2> QED BY <2>1, <2>2, <2>3 DEF G!Leaving
<1> QED BY <1>1 DEF G!Leaving

LEMMA OfRun ==
  ASSUME TabsTypes, NEW r \in Runs
  PROVE  G!PageOf(r) \in PagesOfTabs /\ runs[r].live \in BOOLEAN
BY DEF TabsTypes, Sound, RunsOfTabs, G!PageOf

\* The page is opened, a tab is chosen, or it loads again.
LEMMA BeginStep ==
  ASSUME TabsInv, NEW r \in Runs, NEW x, Sound(x), NEW rs, DOMAIN rs = Runs, \A q \in Runs : Sound(rs[q]),
         runs' = [rs EXCEPT ![r] = x],
         page' \in PagesOfTabs, page'.at # "elsewhere" => page'.kinds # <<>>,
         shown' = shown \/ shown' = G!NoListings, loading' \subseteq G!KindSet, failed' \subseteq failed,
         UNCHANGED <<status, store, failures>>
  PROVE  TabsInv'
<1>1. DOMAIN runs' = Runs /\ \A q \in Runs : Sound(runs'[q])
  OBVIOUS
<1>2. \A q \in Runs : Sound(runs[q])'
  BY <1>1 DEF Sound
<1>3. shown' \in [G!KindSet -> SUBSET Listings] /\ \A k \in G!KindSet : shown'[k] \subseteq OfKind(k)
  BY DEF TabsInv, TabsTypes, G!NoListings
<1>4. TabsTypes'
  BY <1>1, <1>2, <1>3 DEF TabsInv, TabsTypes, StoreOfTabs, OfKind
<1>5. G!ArchivedUnderArchived'
  BY DEF TabsInv, G!ArchivedUnderArchived
<1> QED BY <1>4, <1>5 DEF TabsInv, G!ListingTabsAssumption

LEMMA OpenStepTypes ==
  ASSUME TabsInv, NEW r \in Runs,
         \/ \E k \in G!KindSet : G!OpenList(r, k) \/ G!SetListingTab(r, k) \/ G!SetProfileTab(r, k)
         \/ \E u \in G!Users : G!OpenProfile(r, u)
         \/ G!ProfileChanges(r) \/ G!OpenMyListings(r) \/ G!SwitchTab(r) \/ G!TryAgain(r) \/ G!HandleRestore(r)
  PROVE  TabsInv'
<1>0. /\ G!ListingTabsAssumption /\ TabsTypes /\ page \in PagesOfTabs /\ (page.at # "elsewhere" => page.kinds # <<>>)
      /\ DOMAIN runs = Runs /\ (\A q \in Runs : Sound(runs[q])) /\ DOMAIN G!Leaving = Runs /\ (\A q \in Runs : Sound(G!Leaving[q]))
      /\ Kinds \in Seq(G!KindSet) /\ Kinds # <<>> /\ Head(Kinds) \in G!KindSet /\ loading \subseteq G!KindSet /\ me \in G!Users
      /\ failed \subseteq G!KindSet /\ TRUE \in BOOLEAN
  BY LeavingIs, KindsOfTabs DEF TabsInv, TabsTypes
<1>1. ASSUME NEW p \in PagesOfTabs, p.at # "elsewhere" => p.kinds # <<>>, page' = p, NEW ks \in Seq(G!KindSet), ks # <<>>,
             \/ runs' = [G!Leaving EXCEPT ![r] = G!Asking(p, ks, TRUE)]
             \/ runs' = [runs EXCEPT ![r] = G!Asking(p, ks, TRUE)],
             shown' = shown \/ shown' = G!NoListings, loading' \subseteq G!KindSet, failed' \subseteq failed,
             UNCHANGED <<status, store, failures>>
      PROVE  TabsInv'
  <2>1. PICK x : Sound(x) /\ x = G!Asking(p, ks, TRUE)
    BY <1>0, <1>1, AskingIs
  <2>2. CASE runs' = [G!Leaving EXCEPT ![r] = G!Asking(p, ks, TRUE)]
    <3>1. PICK rs : rs = G!Leaving
      OBVIOUS
    <3>2. runs' = [rs EXCEPT ![r] = x] /\ DOMAIN rs = Runs /\ \A q \in Runs : Sound(rs[q])
      BY <1>0, <2>1, <2>2, <3>1
    <3> QED BY <1>1, <2>1, <3>2, BeginStep
  <2>3. CASE runs' = [runs EXCEPT ![r] = G!Asking(p, ks, TRUE)]
    <3>1. runs' = [runs EXCEPT ![r] = x]
      BY <2>1, <2>3
    <3> QED BY <1>0, <1>1, <2>1, <3>1, BeginStep
  <2> QED BY <1>1, <2>2, <2>3
<1>2. ASSUME NEW k \in G!KindSet, G!OpenList(r, k)
      PROVE  TabsInv'
  <2>0. PICK ks \in Seq(G!KindSet) : ks = <<k>> /\ ks # <<>>
    BY <1>0, KindsOfTabs
  <2>1. PICK p \in PagesOfTabs : p = G!Page("list", me, ks) /\ p.kinds = ks /\ p.at = "list"
    BY <1>0, PageIs
  <2>2. /\ page' = p /\ runs' = [G!Leaving EXCEPT ![r] = G!Asking(p, ks, TRUE)]
        /\ loading' \subseteq G!KindSet /\ failed' \subseteq failed /\ UNCHANGED <<status, store, shown, failures>>
    BY <1>0, <1>2, <2>0, <2>1 DEF G!OpenList
  <2> QED BY <1>1, <2>0, <2>1, <2>2
<1>3. ASSUME G!OpenMyListings(r)
      PROVE  TabsInv'
  <2>1. PICK p \in PagesOfTabs : p = G!Page("mine", me, Kinds) /\ p.kinds = Kinds /\ p.at = "mine"
    BY <1>0, PageIs
  <2> QED BY <1>0, <1>1, <1>3, <2>1 DEF G!OpenMyListings
<1>4. ASSUME NEW u \in G!Users, G!OpenProfile(r, u)
      PROVE  TabsInv'
  <2>1. PICK p \in PagesOfTabs : p = G!Page("profile", u, Kinds) /\ p.kinds = Kinds /\ p.at = "profile"
    BY <1>0, PageIs
  <2> QED BY <1>0, <1>1, <1>4, <2>1 DEF G!OpenProfile
<1>5. ASSUME G!ProfileChanges(r)
      PROVE  TabsInv'
  BY <1>0, <1>1, <1>5 DEF G!ProfileChanges, G!Begin
<1>6. ASSUME NEW k \in G!KindSet, G!SetListingTab(r, k) \/ G!SetProfileTab(r, k)
      PROVE  TabsInv'
  <2>1. PICK ks \in Seq(G!KindSet) : ks = <<k>> /\ ks # <<>> /\ Head(ks) = k
    BY <1>0, KindsOfTabs
  <2>2. PICK p \in PagesOfTabs : p = [page EXCEPT !.tab[k] = G!OtherTab(@)] /\ p.at = page.at /\ p.kinds = page.kinds
    <3>1. PICK o \in G!Tabs : o = G!OtherTab(page.tab[k])
      BY <1>0, OtherIs DEF PagesOfTabs
    <3>2. [page EXCEPT !.tab[k] = G!OtherTab(@)] = [page EXCEPT !.tab = [page.tab EXCEPT ![k] = o]]
      BY <1>0, <3>1 DEF PagesOfTabs
    <3> QED BY <1>0, <3>2 DEF PagesOfTabs
  <2>3. /\ page' = p /\ runs' = [runs EXCEPT ![r] = G!Asking(p, ks, TRUE)] /\ loading' \subseteq G!KindSet
        /\ failed' \subseteq failed /\ UNCHANGED <<status, store, shown, failures>>
    BY <1>0, <1>6, <2>1, <2>2 DEF G!SetListingTab, G!SetProfileTab, G!Begin
  <2> QED BY <1>0, <1>1, <2>1, <2>2, <2>3
<1>7. ASSUME G!SwitchTab(r)
      PROVE  TabsInv'
  <2>1. PICK p \in PagesOfTabs : p = [page EXCEPT !.tab = [k \in G!KindSet |-> G!OtherTab(@[k])]] /\ p.at = page.at /\ p.kinds = page.kinds
    <3>1. PICK new \in [G!KindSet -> G!Tabs] : new = [k \in G!KindSet |-> G!OtherTab(page.tab[k])]
      BY <1>0, OtherIs DEF PagesOfTabs
    <3>2. [page EXCEPT !.tab = [k \in G!KindSet |-> G!OtherTab(@[k])]] = [page EXCEPT !.tab = new]
      BY <1>0, <3>1 DEF PagesOfTabs
    <3> QED BY <1>0, <3>2 DEF PagesOfTabs
  <2>2. /\ page' = p /\ runs' = [runs EXCEPT ![r] = G!Asking(p, Kinds, TRUE)] /\ loading' \subseteq G!KindSet
        /\ failed' \subseteq failed /\ UNCHANGED <<status, store, shown, failures>>
    BY <1>0, <1>7, <2>1 DEF G!SwitchTab, G!Begin
  <2> QED BY <1>0, <1>1, <2>1, <2>2
<1>8. ASSUME G!TryAgain(r)
      PROVE  TabsInv'
  <2>1. page.kinds \in Seq(G!KindSet) /\ page.kinds # <<>> /\ Head(page.kinds) \in G!KindSet
    BY <1>0, <1>8 DEF G!TryAgain, PagesOfTabs
  <2> QED BY <1>0, <1>1, <1>8, <2>1 DEF G!TryAgain, G!Begin
<1>9. ASSUME G!HandleRestore(r)
      PROVE  TabsInv'
  BY <1>0, <1>1, <1>9 DEF G!HandleRestore, G!Begin
<1> QED BY <1>2, <1>3, <1>4, <1>5, <1>6, <1>7, <1>8, <1>9

\* What a run does when its answer is there.
LEMMA GoIs ==
  ASSUME TabsInv, NEW r \in Runs, runs[r].on = "load", NEW errors \in SUBSET G!KindSet, G!Go(r, errors), UNCHANGED <<status, page>>
  PROVE  /\ DOMAIN runs' = Runs /\ (\A q \in Runs : Sound(runs[q])')
         /\ loading' \subseteq G!KindSet /\ failed' \subseteq G!KindSet
<1>1. /\ runs[r].todo \in Seq(G!KindSet) /\ runs[r].todo # <<>> /\ DOMAIN runs = Runs /\ (\A q \in Runs : Sound(runs[q]))
      /\ loading \subseteq G!KindSet /\ failed \subseteq G!KindSet
  BY DEF TabsInv, TabsTypes, Sound, RunsOfTabs
<1>2. PICK rest \in Seq(G!KindSet) : rest = Tail(runs[r].todo)
  BY <1>1, TodoIs
<1>3. rest # <<>> => Head(rest) \in G!KindSet
  BY TodoIs
<1>4. PICK x : Sound(x) /\ x = IF rest = <<>> THEN G!Idle ELSE G!Asking(G!PageOf(r), rest, runs[r].live)
  <2>1. G!PageOf(r) \in PagesOfTabs /\ runs[r].live \in BOOLEAN
    BY OfRun DEF TabsInv
  <2>2. PICK p \in PagesOfTabs, live \in BOOLEAN : p = G!PageOf(r) /\ live = runs[r].live
    BY <2>1
  <2>3. rest # <<>> => Sound(G!Asking(p, rest, live))
    BY AskingIs DEF TabsInv
  <2> QED BY <2>2, <2>3, IdleIsSound
<1>5. runs' = [runs EXCEPT ![r] = x]
  BY <1>1, <1>2, <1>4 DEF G!Go
<1>6. \A q \in Runs : Sound(runs'[q])
  BY <1>1, <1>4, <1>5
<1>7. \A q \in Runs : Sound(runs[q])'
  BY <1>6 DEF Sound
<1>8. loading' \subseteq G!KindSet /\ failed' \subseteq G!KindSet
  <2>1. PICK next \in SUBSET G!KindSet : next = IF rest = <<>> THEN {} ELSE {Head(rest)}
    BY <1>3
  <2>2. /\ loading' = IF ~runs[r].live THEN loading ELSE (loading \ {Head(runs[r].todo)}) \cup next
        /\ failed' = IF ~runs[r].live THEN failed ELSE (failed \cup errors) \ (IF page.at = "mine" THEN next ELSE {})
    BY <1>2, <2>1 DEF G!Go
  <2> QED BY <1>1, <2>1, <2>2
<1> QED BY <1>1, <1>5, <1>7, <1>8

\* An array of the store, or of a profile, is replaced.
LEMMA PutOfTabs ==
  ASSUME TabsInv, NEW k \in G!KindSet, NEW t \in G!Tabs, NEW as \in SUBSET Listings, as \subseteq OfKind(k),
         t = "archived" => \A l \in as : status[l] # "active",
         store' = store \/ store' = [store EXCEPT ![k][t] = as], UNCHANGED status
  PROVE  StoreOfTabs' /\ G!ArchivedUnderArchived'
<1>1. store \in [G!KindSet -> [G!Tabs -> SUBSET Listings]] /\ (\A j \in G!KindSet, u \in G!Tabs : store[j][u] \subseteq OfKind(j))
  BY DEF TabsInv, TabsTypes, StoreOfTabs
<1>2. CASE store' = [store EXCEPT ![k][t] = as]
  <2>1. store' \in [G!KindSet -> [G!Tabs -> SUBSET Listings]]
    BY <1>1, <1>2
  <2>2. \A j \in G!KindSet, u \in G!Tabs : store'[j][u] = IF j = k /\ u = t THEN as ELSE store[j][u]
    BY <1>1, <1>2
  <2>3. \A j \in G!KindSet, u \in G!Tabs : store'[j][u] \subseteq OfKind(j)
    BY <1>1, <2>2
  <2>4. StoreOfTabs'
    BY <2>1, <2>3 DEF StoreOfTabs, OfKind
  <2>5. G!ArchivedUnderArchived'
    <3>1. "archived" \in G!Tabs
      BY DEF G!Tabs
    <3> QED BY <2>2, <3>1 DEF TabsInv, G!ArchivedUnderArchived
  <2> QED BY <2>4, <2>5
<1>3. CASE store' = store
  BY <1>1, <1>3 DEF StoreOfTabs, OfKind, TabsInv, G!ArchivedUnderArchived
<1> QED BY <1>2, <1>3

LEMMA ShowIs ==
  ASSUME TabsInv, NEW k \in G!KindSet, NEW as \in SUBSET Listings, as \subseteq OfKind(k),
         shown' = shown \/ shown' = [shown EXCEPT ![k] = as]
  PROVE  shown' \in [G!KindSet -> SUBSET Listings] /\ (\A j \in G!KindSet : shown'[j] \subseteq OfKind(j))
BY DEF TabsInv, TabsTypes

LEMMA AnswerStepTypes ==
  ASSUME TabsInv, NEW r \in Runs, G!Answered(r) \/ G!NotConnected(r) \/ G!LoadFails(r)
  PROVE  TabsInv'
<1>1. runs[r].on = "load" /\ UNCHANGED <<status, page>>
  BY DEF G!Answered, G!NotConnected, G!LoadFails
<1>2. /\ runs[r].todo \in Seq(G!KindSet) /\ runs[r].todo # <<>> /\ runs[r].tab \in G!Tabs /\ runs[r].answer \in SUBSET Listings
      /\ runs[r].answer \subseteq OfKind(Head(runs[r].todo))
      /\ runs[r].tab = "archived" => \A l \in runs[r].answer : status[l] # "active"
      /\ Head(runs[r].todo) \in G!KindSet
  BY <1>1, TodoIs DEF TabsInv, TabsTypes, Sound, RunsOfTabs
<1>3. PICK k \in G!KindSet, t \in G!Tabs, as \in SUBSET Listings :
        /\ k = Head(runs[r].todo) /\ t = runs[r].tab /\ (as = runs[r].answer \/ as = {})
        /\ store' = store \/ store' = [store EXCEPT ![k][t] = as]
        /\ shown' = shown \/ shown' = [shown EXCEPT ![k] = as]
  <2>1. PICK k \in G!KindSet, t \in G!Tabs, as \in SUBSET Listings : k = Head(runs[r].todo) /\ t = runs[r].tab /\ as = runs[r].answer
    BY <1>2
  <2>2. PICK none \in SUBSET Listings : none = {}
    OBVIOUS
  <2>3. CASE G!Answered(r) \/ G!LoadFails(r)
    BY <2>1, <2>3 DEF G!Answered, G!LoadFails
  <2>4. CASE G!NotConnected(r)
    <3>1. store' = store \/ store' = [store EXCEPT ![k][t] = none]
      BY <2>1, <2>2, <2>4 DEF G!NotConnected
    <3>2. shown' = shown \/ shown' = [shown EXCEPT ![k] = none]
      BY <2>1, <2>2, <2>4 DEF G!NotConnected
    <3>3. /\ k = Head(runs[r].todo) /\ t = runs[r].tab /\ (none = runs[r].answer \/ none = {})
          /\ store' = store \/ store' = [store EXCEPT ![k][t] = none]
          /\ shown' = shown \/ shown' = [shown EXCEPT ![k] = none]
      BY <2>1, <2>2, <3>1, <3>2
    <3> QED BY <3>3
  <2> QED BY <2>3, <2>4
<1>4. as \subseteq OfKind(k) /\ (t = "archived" => \A l \in as : status[l] # "active")
  BY <1>2, <1>3
<1>5. StoreOfTabs' /\ G!ArchivedUnderArchived'
  BY <1>1, <1>3, <1>4, PutOfTabs
<1>6. shown' \in [G!KindSet -> SUBSET Listings] /\ (\A j \in G!KindSet : shown'[j] \subseteq OfKind(j))
  BY <1>3, <1>4, ShowIs
<1>7. PICK errors \in SUBSET G!KindSet : G!Go(r, errors)
  <2>1. {} \in SUBSET G!KindSet /\ G!KindSet \in SUBSET G!KindSet /\ {Head(runs[r].todo)} \in SUBSET G!KindSet
    BY <1>2
  <2>2. CASE G!Answered(r) \/ G!NotConnected(r)
    BY <2>1, <2>2 DEF G!Answered, G!NotConnected
  <2>3. CASE G!LoadFails(r)
    <3>1. PICK errors \in SUBSET G!KindSet : errors = IF page.at = "profile" THEN G!KindSet ELSE {Head(runs[r].todo)}
      BY <2>1
    <3> QED BY <2>3, <3>1 DEF G!LoadFails
  <2> QED BY <2>2, <2>3
<1>8. /\ DOMAIN runs' = Runs /\ (\A q \in Runs : Sound(runs[q])')
      /\ loading' \subseteq G!KindSet /\ failed' \subseteq G!KindSet
  BY <1>1, <1>7, GoIs
<1>9. failures' \in 0 .. MaxFailures
  BY DEF G!Answered, G!NotConnected, G!LoadFails, TabsInv, TabsTypes, G!ListingTabsAssumption
<1>10. TabsTypes'
  BY <1>1, <1>5, <1>6, <1>8, <1>9 DEF TabsInv, TabsTypes, OfKind
<1> QED BY <1>5, <1>10 DEF TabsInv, G!ListingTabsAssumption

\* A card archives or deletes, and the page loads again.
LEMMA CardStepTypes ==
  ASSUME TabsInv, NEW r \in Runs,
         G!CardDone(r) \/ \E l \in Listings, s \in {"archived", "gone"} : G!CardCalls(r, l, s)
  PROVE  TabsInv'
<1>0. /\ G!ListingTabsAssumption /\ TabsTypes /\ DOMAIN runs = Runs /\ (\A q \in Runs : Sound(runs[q]))
      /\ Kinds \in Seq(G!KindSet) /\ Kinds # <<>> /\ Head(Kinds) \in G!KindSet
  BY KindsOfTabs DEF TabsInv, TabsTypes
<1>1. CASE G!CardDone(r)
  <2>1. PICK p \in PagesOfTabs, live \in BOOLEAN : p = G!PageOf(r) /\ live = runs[r].live
    BY <1>0, OfRun
  <2>2. PICK x : Sound(x) /\ x = G!Asking(p, Kinds, live)
    BY <1>0, AskingIs
  <2>3. runs' = [runs EXCEPT ![r] = x] /\ UNCHANGED <<status, page, shown, failures>>
    BY <1>0, <1>1, <2>1, <2>2 DEF G!CardDone
  <2>4. loading' \subseteq G!KindSet /\ failed' \subseteq G!KindSet
    BY <1>0, <1>1 DEF G!CardDone, TabsTypes
  <2>5. \A q \in Runs : Sound(runs'[q])
    BY <1>0, <2>2, <2>3
  <2>6. \A q \in Runs : Sound(runs[q])'
    BY <2>3, <2>5 DEF Sound
  <2>7. \A k \in G!KindSet, t \in G!Tabs : store'[k][t] \subseteq store[k][t]
    BY <1>1 DEF G!CardDone
  <2>8. store' \in [G!KindSet -> [G!Tabs -> SUBSET Listings]]
    BY <1>0, <1>1 DEF G!CardDone, TabsTypes, StoreOfTabs
  <2>9. StoreOfTabs'
    BY <1>0, <2>7, <2>8 DEF TabsTypes, StoreOfTabs, OfKind
  <2>10. G!ArchivedUnderArchived'
    <3>1. "archived" \in G!Tabs
      BY DEF G!Tabs
    <3> QED BY <2>3, <2>7, <3>1 DEF TabsInv, G!ArchivedUnderArchived
  <2>11. TabsTypes'
    BY <1>0, <2>3, <2>4, <2>6, <2>9 DEF TabsTypes, OfKind
  <2> QED BY <2>10, <2>11 DEF TabsInv, G!ListingTabsAssumption
<1>2. ASSUME NEW l \in Listings, NEW s \in {"archived", "gone"}, G!CardCalls(r, l, s)
      PROVE  TabsInv'
  <2>1. /\ status' = [status EXCEPT ![l] = s] /\ UNCHANGED <<store, page, shown, loading, failed, failures>>
        /\ runs' = [runs EXCEPT ![r] = [G!Idle EXCEPT !.on = "card", !.answer = {l}, !.live = TRUE]]
    BY <1>2 DEF G!CardCalls
  <2>2. /\ status' \in [Listings -> G!Tabs \cup {"gone"}]
        /\ \A m \in Listings : status[m] # "active" => status'[m] # "active"
    BY <1>0, <2>1 DEF TabsTypes, G!Tabs
  <2>3. PICK x : Sound(x) /\ x = [G!Idle EXCEPT !.on = "card", !.answer = {l}, !.live = TRUE]
    BY IdleIsSound DEF Sound, RunsOfTabs, G!Idle
  <2>4. \A q \in Runs : Sound(runs'[q])
    BY <1>0, <2>1, <2>3
  <2>5. \A q \in Runs : Sound(runs[q])'
    BY <2>2, <2>4 DEF Sound, RunsOfTabs
  <2>6. G!ArchivedUnderArchived'
    BY <2>1, <2>2 DEF TabsInv, G!ArchivedUnderArchived
  <2>7. TabsTypes'
    BY <1>0, <2>1, <2>2, <2>5 DEF TabsTypes, StoreOfTabs, OfKind
  <2> QED BY <2>6, <2>7 DEF TabsInv, G!ListingTabsAssumption
<1> QED BY <1>1, <1>2

\* At first.
LEMMA TabsInit ==
  ASSUME G!ListingTabsAssumption, G!Init
  PROVE  TabsInv
<1>1. /\ status \in [Listings -> G!Tabs] /\ store = [k \in G!KindSet |-> [t \in G!Tabs |-> {}]] /\ page = G!Start
      /\ shown = G!NoListings /\ loading = {} /\ failed = {} /\ runs = [r \in Runs |-> G!Idle] /\ failures = 0
  BY DEF G!Init
<1>2. <<>> \in Seq(G!KindSet) /\ me \in G!Users
  BY DEF G!Users
<1>3. G!Start \in PagesOfTabs /\ G!Start.at = "elsewhere"
  <2>1. PICK ks \in Seq(G!KindSet) : ks = <<>>
    BY <1>2
  <2>2. PICK at \in {"elsewhere", "list", "mine", "profile"} : at = "elsewhere"
    OBVIOUS
  <2>3. G!Page(at, me, ks) \in PagesOfTabs /\ G!Page(at, me, ks).at = at
    BY <1>2, PageIs
  <2> QED BY <2>1, <2>2, <2>3 DEF G!Start
<1>4. shown \in [G!KindSet -> SUBSET Listings] /\ \A k \in G!KindSet : shown[k] \subseteq OfKind(k)
  BY <1>1 DEF G!NoListings
<1>5. 0 \in 0 .. MaxFailures
  BY DEF G!ListingTabsAssumption
<1>6. StoreOfTabs
  BY <1>1 DEF StoreOfTabs
<1>7. TabsTypes
  BY <1>1, <1>3, <1>4, <1>5, <1>6, IdleIsSound DEF TabsTypes
<1>8. G!ArchivedUnderArchived
  BY <1>1 DEF G!ArchivedUnderArchived, G!Tabs
<1> QED BY <1>7, <1>8 DEF TabsInv

\* Every step.
LEMMA TabsNext ==
  ASSUME TabsInv, [G!Next]_(G!tabsVars)
  PROVE  TabsInv'
<1>1. CASE UNCHANGED G!tabsVars
  BY <1>1 DEF G!tabsVars, TabsInv, TabsTypes, StoreOfTabs, OfKind, Sound, G!ArchivedUnderArchived, G!ListingTabsAssumption
<1>2. CASE G!Next
  BY <1>2, OpenStepTypes, AnswerStepTypes, CardStepTypes DEF G!Next
<1> QED BY <1>1, <1>2

\* The invariant holds throughout.
LEMMA TabsInvariance == G!ListingTabsAssumption /\ G!Spec => []TabsInv
<1> SUFFICES ASSUME G!ListingTabsAssumption
             PROVE  G!Spec => []TabsInv
  OBVIOUS
<1>1. G!Init => TabsInv
  BY TabsInit
<1>2. TabsInv /\ [G!Next]_(G!tabsVars) => TabsInv'
  BY TabsNext
<1> QED BY <1>1, <1>2, PTL DEF G!Spec

\* Of the pages that list requests and offers.
THEOREM ListingTabsTypesHold == G!ListingTabsAssumption /\ G!Spec => []G!TypeOK
<1>1. TabsInv => G!TypeOK
  BY DEF TabsInv, TabsTypes, StoreOfTabs, OfKind, PagesOfTabs, G!TypeOK
<1> QED BY <1>1, TabsInvariance, PTL

\* However the user changes pages and tabs while they load, what is under the
\* tab of archived listings was archived (MyListings.svelte:30-72,
\* useRequestsManagement.svelte.ts:141-170).
THEOREM ArchivedTabHoldsArchived == G!ListingTabsAssumption /\ G!Spec => []G!ArchivedUnderArchived
<1>1. TabsInv => G!ArchivedUnderArchived
  BY DEF TabsInv
<1> QED BY <1>1, TabsInvariance, PTL

-----------------------------------------------------------------------------
(* The pages of a user who waits for each to load.                         *)

\* One run is under way at a time, and it is of the page that is open.
OneRun == \A r, q \in Runs : runs[r].on # "idle" /\ runs[q].on # "idle" => r = q
OfPage(r) ==
  /\ runs[r].on # "idle" => runs[r].live
  /\ runs[r].on = "card" => page.at = "mine"
  /\ runs[r].on = "load" =>
       /\ runs[r].tab = page.tab[Head(runs[r].todo)]
       /\ runs[r].answer = G!Records(page.at, page.who, Head(runs[r].todo), page.tab[Head(runs[r].todo)])
       /\ page.at = "list" => runs[r].todo = page.kinds

\* Only what it loads is shown as loading.
LoadsNow(k) == \E r \in Runs : runs[r].on = "load" /\ Head(runs[r].todo) = k
SpinnersInv == \A k \in loading : LoadsNow(k)

\* What a profile shows is of its user and its tab, or has yet to be loaded.
LoadsYet(k) == \E r \in Runs : runs[r].on = "load" /\ k \in G!ToSet(runs[r].todo)
Theirs(k) == shown[k] \subseteq G!Records("profile", page.who, k, page.tab[k])
ProfileInv == page.at = "profile" /\ failed = {} => \A k \in G!KindSet : Theirs(k) \/ LoadsYet(k)

\* And so is what the page of a kind lists, all of it.
Whole(k) == store[k][page.tab[k]] = G!Records("list", me, k, page.tab[k])
ListsOne == page.at = "list" => \E k \in G!KindSet : page.kinds = <<k>>
ListPageInv ==
  page.at = "list" /\ failures = 0 => \A k \in G!KindSet : page.kinds = <<k>> => Whole(k) \/ LoadsYet(k)

TabsWaiting ==
  /\ OneRun /\ (\A r \in Runs : OfPage(r))
  /\ SpinnersInv /\ ProfileInv /\ ListsOne /\ ListPageInv

\* A page loads, and nothing else is under way.
LEMMA LoadsAlone ==
  ASSUME TabsInv, TabsInv', NEW r \in Runs, NEW p \in PagesOfTabs, page' = p,
         NEW ks \in Seq(G!KindSet), ks # <<>>, UNCHANGED status,
         runs'[r] = G!Asking(p, ks, TRUE), \A q \in Runs \ {r} : runs'[q].on = "idle",
         loading' \subseteq {Head(ks)},
         p.at = "list" => ks = p.kinds /\ \E k \in G!KindSet : p.kinds = <<k>>,
         p.at = "profile" /\ failed' = {} => \A k \in G!KindSet : Theirs(k)' \/ k \in G!ToSet(ks)
  PROVE  TabsWaiting'
<1>1. /\ runs'[r].on = "load" /\ runs'[r].todo = ks /\ runs'[r].live /\ runs'[r].tab = p.tab[Head(ks)]
      /\ runs'[r].answer = G!Records(p.at, p.who, Head(ks), p.tab[Head(ks)])
  BY DEF G!Asking
<1>2. OneRun'
  BY DEF OneRun
<1>3. ASSUME NEW q \in Runs
      PROVE  OfPage(q)'
  <2>1. CASE q = r
    BY <1>1, <2>1 DEF OfPage, G!Records
  <2>2. CASE q # r
    BY <2>2 DEF OfPage
  <2> QED BY <2>1, <2>2
<1>4. SpinnersInv'
  BY <1>1 DEF SpinnersInv, LoadsNow
<1>5. ProfileInv'
  BY <1>1 DEF ProfileInv, LoadsYet
<1>6. ListsOne'
  BY DEF ListsOne
<1>7. ListPageInv'
  <2>1. ASSUME NEW k \in G!KindSet, p.at = "list", p.kinds = <<k>>
        PROVE  LoadsYet(k)'
    <3>1. k \in G!ToSet(ks)
      BY <2>1 DEF G!ToSet
    <3> QED BY <1>1, <3>1 DEF LoadsYet
  <2> QED BY <2>1 DEF ListPageInv
<1> QED BY <1>2, <1>3, <1>4, <1>5, <1>6, <1>7 DEF TabsWaiting

\* Nothing loads when all is quiet.
LEMMA QuietIs ==
  ASSUME TabsWaiting, G!Quiet
  PROVE  /\ loading = {} /\ (\A k \in G!KindSet : ~LoadsYet(k))
         /\ page.at = "profile" /\ failed = {} => \A k \in G!KindSet : Theirs(k)
BY DEF TabsWaiting, SpinnersInv, ProfileInv, LoadsNow, LoadsYet, G!Quiet

\* The user asks.
LEMMA OpenStepWaiting ==
  ASSUME TabsInv, TabsInv', TabsWaiting, Waits, NEW r \in Runs,
         \/ \E k \in G!KindSet : G!OpenList(r, k) \/ G!SetListingTab(r, k) \/ G!SetProfileTab(r, k)
         \/ \E u \in G!Users : G!OpenProfile(r, u)
         \/ G!ProfileChanges(r) \/ G!OpenMyListings(r) \/ G!SwitchTab(r) \/ G!TryAgain(r) \/ G!HandleRestore(r)
  PROVE  TabsWaiting'
<1>0. /\ G!ListingTabsAssumption /\ TabsTypes /\ page \in PagesOfTabs /\ page' \in PagesOfTabs /\ (page.at # "elsewhere" => page.kinds # <<>>)
      /\ Kinds \in Seq(G!KindSet) /\ Kinds # <<>> /\ me \in G!Users /\ DOMAIN runs = Runs /\ DOMAIN G!Leaving = Runs
      /\ \A k \in G!KindSet : k \in G!ToSet(Kinds)
  BY LeavingIs, KindsOfTabs DEF TabsInv, TabsTypes, G!KindSet
<1>1. G!Quiet /\ loading = {} /\ (page.at = "profile" /\ failed = {} => \A k \in G!KindSet : Theirs(k))
  <2>1. G!Quiet
    BY DEF G!OpenList, G!SetListingTab, G!SetProfileTab, G!OpenProfile, G!ProfileChanges, G!OpenMyListings, G!SwitchTab, G!TryAgain, G!HandleRestore, G!Free
  <2> QED BY <2>1, QuietIs
<1>2. ASSUME NEW ks \in Seq(G!KindSet), ks # <<>>,
             \/ runs' = [G!Leaving EXCEPT ![r] = G!Asking(page', ks, TRUE)]
             \/ runs' = [runs EXCEPT ![r] = G!Asking(page', ks, TRUE)],
             loading' \subseteq {Head(ks)}, UNCHANGED status,
             page'.at = "list" => ks = page'.kinds /\ \E k \in G!KindSet : page'.kinds = <<k>>,
             page'.at = "profile" /\ failed' = {} => \A k \in G!KindSet : Theirs(k)' \/ k \in G!ToSet(ks)
      PROVE  TabsWaiting'
  <2>1. PICK p \in PagesOfTabs : p = page'
    BY <1>0
  <2>2. \A q \in Runs : runs[q].on = "idle" /\ G!Leaving[q].on = "idle"
    BY <1>0, <1>1, LeavingIs DEF G!Quiet
  <2>3. runs'[r] = G!Asking(p, ks, TRUE) /\ \A q \in Runs \ {r} : runs'[q].on = "idle"
    BY <1>0, <1>2, <2>1, <2>2
  <2> QED BY <1>2, <2>1, <2>3, LoadsAlone
<1>3. ASSUME NEW k \in G!KindSet, G!OpenList(r, k)
      PROVE  TabsWaiting'
  <2>1. PICK ks \in Seq(G!KindSet) : ks = <<k>> /\ ks # <<>> /\ Head(ks) = k
    BY <1>0, KindsOfTabs
  <2>2. page'.at = "list" /\ page'.kinds = ks
    BY <1>3, <2>1 DEF G!OpenList, G!Page
  <2> QED BY <1>2, <1>3, <2>1, <2>2 DEF G!OpenList
<1>4. CASE G!OpenMyListings(r)
  <2>1. page'.at = "mine"
    BY <1>4 DEF G!OpenMyListings, G!Page
  <2> QED BY <1>0, <1>2, <1>4, <2>1 DEF G!OpenMyListings
<1>5. ASSUME NEW u \in G!Users, G!OpenProfile(r, u)
      PROVE  TabsWaiting'
  <2>1. page'.at = "profile"
    BY <1>5 DEF G!OpenProfile, G!Page
  <2> QED BY <1>0, <1>2, <1>5, <2>1 DEF G!OpenProfile
<1>6. CASE G!ProfileChanges(r)
  BY <1>0, <1>1, <1>2, <1>6 DEF G!ProfileChanges, G!Begin
<1>7. ASSUME NEW k \in G!KindSet, G!SetListingTab(r, k)
      PROVE  TabsWaiting'
  <2>1. PICK ks \in Seq(G!KindSet) : ks = <<k>> /\ ks # <<>> /\ Head(ks) = k
    BY <1>0, KindsOfTabs
  <2>2. page'.at = "list" /\ page'.kinds = ks
    BY <1>0, <1>7, <2>1 DEF G!SetListingTab, PagesOfTabs
  <2> QED BY <1>1, <1>2, <1>7, <2>1, <2>2 DEF G!SetListingTab
<1>8. ASSUME NEW k \in G!KindSet, G!SetProfileTab(r, k)
      PROVE  TabsWaiting'
  <2>1. PICK ks \in Seq(G!KindSet) : ks = <<k>> /\ ks # <<>> /\ Head(ks) = k
    BY <1>0, KindsOfTabs
  <2>2. /\ page'.at = "profile" /\ page'.who = page.who
        /\ \A j \in G!KindSet \ {k} : page'.tab[j] = page.tab[j]
    BY <1>0, <1>8 DEF G!SetProfileTab, PagesOfTabs
  <2>3. runs' = [runs EXCEPT ![r] = G!Asking(page', ks, TRUE)] /\ loading' \subseteq {Head(ks)}
        /\ UNCHANGED <<status, shown>> /\ page.at = "profile" /\ failed = {}
    BY <1>1, <1>8, <2>1 DEF G!SetProfileTab, G!Begin
  <2>4. ASSUME NEW j \in G!KindSet
        PROVE  Theirs(j)' \/ j \in G!ToSet(ks)
    <3>1. CASE j = k
      BY <2>1, <3>1 DEF G!ToSet
    <3>2. CASE j # k
      BY <1>1, <2>2, <2>3, <3>2 DEF Theirs, G!Records
    <3> QED BY <3>1, <3>2
  <2> QED BY <1>2, <2>1, <2>2, <2>3, <2>4
<1>9. CASE G!SwitchTab(r)
  <2>1. page'.at = "mine"
    BY <1>0, <1>9 DEF G!SwitchTab, PagesOfTabs
  <2> QED BY <1>0, <1>1, <1>2, <1>9, <2>1 DEF G!SwitchTab, G!Begin
<1>10. CASE G!TryAgain(r)
  <2>1. PICK ks \in Seq(G!KindSet) : ks = page.kinds /\ ks # <<>>
    BY <1>0, <1>10 DEF G!TryAgain, PagesOfTabs
  <2>2. page' = page /\ page.at \in {"list", "mine"}
    BY <1>10 DEF G!TryAgain
  <2>3. page.at = "list" => \E k \in G!KindSet : page.kinds = <<k>>
    BY DEF TabsWaiting, ListsOne
  <2> QED BY <1>1, <1>2, <1>10, <2>1, <2>2, <2>3 DEF G!TryAgain, G!Begin
<1>11. CASE G!HandleRestore(r)
  <2>1. page.at = "mine" /\ page' = page
    BY <1>11 DEF G!HandleRestore, G!Cards
  <2> QED BY <1>0, <1>1, <1>2, <1>11, <2>1 DEF G!HandleRestore, G!Begin
<1> QED BY <1>3, <1>4, <1>5, <1>6, <1>7, <1>8, <1>9, <1>10, <1>11

\* What was asked for comes back, or does not.
LEMMA AnswerStepWaiting ==
  ASSUME TabsInv, TabsInv', TabsWaiting, NEW r \in Runs, G!Answered(r) \/ G!NotConnected(r) \/ G!LoadFails(r)
  PROVE  TabsWaiting'
<1>0. /\ runs[r].on = "load" /\ UNCHANGED <<status, page>> /\ page \in PagesOfTabs /\ runs[r].live
      /\ runs[r].todo \in Seq(G!KindSet) /\ runs[r].todo # <<>> /\ DOMAIN runs = Runs
      /\ \A q \in Runs \ {r} : runs[q].on = "idle"
      /\ G!PageOf(r) = page
  BY DEF G!Answered, G!NotConnected, G!LoadFails, TabsInv, TabsTypes, Sound, RunsOfTabs, TabsWaiting, OneRun, OfPage, G!PageOf
<1>1. PICK todo \in Seq(G!KindSet) : todo = runs[r].todo /\ todo # <<>>
  BY <1>0
<1>2. PICK k \in G!KindSet, rest \in Seq(G!KindSet) : k = Head(todo) /\ rest = Tail(todo)
  BY <1>1, TodoIs
<1>3. ASSUME NEW j \in G!KindSet, j \in G!ToSet(todo)
      PROVE  j = k \/ j \in G!ToSet(rest)
  <2>1. PICK i \in 1 .. Len(todo) : j = todo[i]
    BY <1>3 DEF G!ToSet
  <2>2. CASE i = 1
    BY <1>1, <1>2, <2>1, <2>2
  <2>3. CASE i # 1
    <3>1. i - 1 \in 1 .. Len(rest) /\ rest[i - 1] = j
      BY <1>1, <1>2, <2>1, <2>3
    <3> QED BY <3>1 DEF G!ToSet
  <2> QED BY <2>2, <2>3
<1>4. /\ runs[r].tab = page.tab[k] /\ runs[r].answer = G!Records(page.at, page.who, k, page.tab[k])
      /\ page.at = "list" => todo = page.kinds
  BY <1>0, <1>1, <1>2 DEF TabsWaiting, OfPage
<1>5. runs' = [runs EXCEPT ![r] = IF rest = <<>> THEN G!Idle ELSE G!Asking(page, rest, TRUE)]
  BY <1>0, <1>1, <1>2 DEF G!Answered, G!NotConnected, G!LoadFails, G!Go, TabsInv, TabsTypes, Sound, RunsOfTabs
<1>6. loading' = (loading \ {k}) \cup (IF rest = <<>> THEN {} ELSE {Head(rest)})
  BY <1>0, <1>1, <1>2 DEF G!Answered, G!NotConnected, G!LoadFails, G!Go
<1>7. loading \subseteq {k}
  BY <1>0, <1>1, <1>2 DEF TabsWaiting, SpinnersInv, LoadsNow
<1>8. ASSUME page.at = "profile", failed' = {}
      PROVE  failed = {} /\ (shown' = [shown EXCEPT ![k] = runs[r].answer] \/ shown' = [shown EXCEPT ![k] = {}])
  <2>1. G!KindSet # {}
    BY KindsOfTabs DEF TabsInv
  <2>2. CASE G!Answered(r) \/ G!NotConnected(r)
    BY <1>0, <1>1, <1>2, <1>8, <2>2 DEF G!Answered, G!NotConnected, G!Go
  <2>3. CASE G!LoadFails(r)
    BY <1>0, <1>8, <2>1, <2>3 DEF G!LoadFails, G!Go
  <2> QED BY <2>2, <2>3
<1>9. ASSUME page.at = "profile", failed' = {}, NEW j \in G!KindSet
      PROVE  Theirs(j)' \/ j \in G!ToSet(rest)
  <2>1. shown \in [G!KindSet -> SUBSET Listings]
    BY DEF TabsInv, TabsTypes
  <2>2. CASE j = k
    BY <1>0, <1>4, <1>8, <1>9, <2>1, <2>2 DEF Theirs, G!Records
  <2>3. CASE j # k
    <3>1. LoadsYet(j) => j \in G!ToSet(rest)
      BY <1>0, <1>1, <1>3, <2>3 DEF LoadsYet
    <3>2. shown'[j] = shown[j]
      BY <1>8, <1>9, <2>1, <2>3
    <3>3. Theirs(j) \/ LoadsYet(j)
      BY <1>8, <1>9 DEF TabsWaiting, ProfileInv
    <3> QED BY <1>0, <3>1, <3>2, <3>3 DEF Theirs, G!Records
  <2> QED BY <2>2, <2>3
<1>10. page.at = "list" => page.kinds = <<k>> /\ rest = <<>>
  <2> SUFFICES ASSUME page.at = "list"
               PROVE  page.kinds = <<k>> /\ rest = <<>>
    OBVIOUS
  <2>1. PICK j \in G!KindSet : page.kinds = <<j>>
    BY DEF TabsWaiting, ListsOne
  <2>2. todo = <<j>>
    BY <1>4, <2>1
  <2> QED BY <1>2, <2>1, <2>2
<1>11. CASE rest # <<>>
  <2>1. runs'[r] = G!Asking(page, rest, TRUE) /\ \A q \in Runs \ {r} : runs'[q].on = "idle"
    BY <1>0, <1>5, <1>11
  <2>2. loading' \subseteq {Head(rest)}
    BY <1>6, <1>7, <1>11
  <2>3. page.at # "list"
    BY <1>10, <1>11
  <2> QED BY <1>0, <1>9, <1>11, <2>1, <2>2, <2>3, LoadsAlone
<1>12. CASE rest = <<>>
  <2>1. \A q \in Runs : runs'[q].on = "idle"
    BY <1>0, <1>5, <1>12, IdleIsSound
  <2>2. loading' = {}
    BY <1>6, <1>7, <1>12
  <2>3. OneRun' /\ (\A q \in Runs : OfPage(q)') /\ SpinnersInv'
    BY <2>1, <2>2 DEF OneRun, OfPage, SpinnersInv
  <2>4. ProfileInv'
    <3>1. G!ToSet(rest) = {}
      BY <1>12 DEF G!ToSet
    <3> QED BY <1>0, <1>9, <3>1 DEF ProfileInv
  <2>5. ListsOne'
    BY <1>0 DEF TabsWaiting, ListsOne
  <2>6. ListPageInv'
    <3> SUFFICES ASSUME page.at = "list", failures' = 0, NEW j \in G!KindSet, page.kinds = <<j>>
                 PROVE  Whole(j)'
      BY <1>0 DEF ListPageInv
    <3>1. j = k
      BY <1>10
    <3>2. G!Answered(r)
      BY DEF G!NotConnected, G!LoadFails, TabsInv, TabsTypes, G!ListingTabsAssumption
    <3>3. store' = [store EXCEPT ![k][page.tab[k]] = runs[r].answer]
      BY <1>1, <1>2, <1>4, <3>2 DEF G!Answered
    <3>4. store \in [G!KindSet -> [G!Tabs -> SUBSET Listings]] /\ page.tab[k] \in G!Tabs
      BY <1>0 DEF TabsInv, TabsTypes, StoreOfTabs, PagesOfTabs
    <3>5. store'[k][page.tab[k]] = runs[r].answer
      BY <3>3, <3>4
    <3> QED BY <1>0, <1>4, <3>1, <3>5 DEF Whole, G!Records
  <2> QED BY <2>3, <2>4, <2>5, <2>6 DEF TabsWaiting
<1> QED BY <1>11, <1>12

\* A card archives or deletes, and the page loads again.
LEMMA CardStepWaiting ==
  ASSUME TabsInv, TabsInv', TabsWaiting, Waits, NEW r \in Runs,
         G!CardDone(r) \/ \E l \in Listings, s \in {"archived", "gone"} : G!CardCalls(r, l, s)
  PROVE  TabsWaiting'
<1>1. CASE G!CardDone(r)
  <2>1. /\ runs[r].on = "card" /\ UNCHANGED <<status, page>> /\ page.at = "mine" /\ runs[r].live /\ G!PageOf(r) = page
        /\ page \in PagesOfTabs /\ DOMAIN runs = Runs /\ \A q \in Runs \ {r} : runs[q].on = "idle"
        /\ runs[r].live = TRUE
    BY <1>1 DEF G!CardDone, TabsInv, TabsTypes, Sound, RunsOfTabs, TabsWaiting, OneRun, OfPage, G!PageOf
  <2>2. runs' = [runs EXCEPT ![r] = G!Asking(page, Kinds, TRUE)] /\ loading' = loading \cup {Head(Kinds)}
    BY <1>1, <2>1 DEF G!CardDone
  <2>3. loading = {}
    BY <2>1 DEF TabsWaiting, SpinnersInv, LoadsNow
  <2>4. Kinds \in Seq(G!KindSet) /\ Kinds # <<>>
    BY KindsOfTabs DEF TabsInv
  <2>5. runs'[r] = G!Asking(page, Kinds, TRUE) /\ (\A q \in Runs \ {r} : runs'[q].on = "idle") /\ loading' \subseteq {Head(Kinds)}
    BY <2>1, <2>2, <2>3
  <2> QED BY <2>1, <2>4, <2>5, LoadsAlone
<1>2. ASSUME NEW l \in Listings, NEW s \in {"archived", "gone"}, G!CardCalls(r, l, s)
      PROVE  TabsWaiting'
  <2>1. /\ G!Quiet /\ page.at = "mine" /\ UNCHANGED <<page, loading>>
        /\ runs' = [runs EXCEPT ![r] = [G!Idle EXCEPT !.on = "card", !.answer = {l}, !.live = TRUE]]
    BY <1>2 DEF G!CardCalls, G!Free, G!Cards
  <2>2. runs'[r].on = "card" /\ runs'[r].live /\ \A q \in Runs \ {r} : runs'[q].on = "idle"
    BY <2>1 DEF G!Quiet, G!Idle, TabsInv, TabsTypes
  <2>3. OneRun' /\ \A q \in Runs : OfPage(q)'
    BY <2>1, <2>2 DEF OneRun, OfPage
  <2>4. loading' = {}
    BY <2>1, QuietIs
  <2> QED BY <2>1, <2>3, <2>4 DEF TabsWaiting, SpinnersInv, ProfileInv, ListsOne, ListPageInv
<1> QED BY <1>1, <1>2

\* At first, and every step.
LEMMA WaitingTabsInit ==
  ASSUME G!Init
  PROVE  TabsWaiting
<1>1. page.at = "elsewhere" /\ loading = {} /\ \A r \in Runs : runs[r].on = "idle"
  BY IdleIsSound DEF G!Init, G!Start, G!Page
<1> QED BY <1>1 DEF TabsWaiting, OneRun, OfPage, SpinnersInv, ProfileInv, ListsOne, ListPageInv

LEMMA WaitingTabsNext ==
  ASSUME TabsInv, TabsInv', TabsWaiting, Waits, [G!Next]_(G!tabsVars)
  PROVE  TabsWaiting'
<1>1. CASE UNCHANGED G!tabsVars
  BY <1>1 DEF G!tabsVars, TabsWaiting, OneRun, OfPage, SpinnersInv, LoadsNow, LoadsYet, Theirs, Whole, ProfileInv, ListsOne,
     ListPageInv, G!Records
<1>2. CASE G!Next
  BY <1>2, OpenStepWaiting, AnswerStepWaiting, CardStepWaiting DEF G!Next
<1> QED BY <1>1, <1>2

\* When the user waits for each page, a profile that has loaded shows listings of
\* its user and its tab and no other, and the page of a kind that has loaded
\* lists all there are, whatever the pages before put in the same arrays
\* (UserProfile.svelte:105-160, requests.store.svelte.ts:614-645).
THEOREM PagesShowOnlyTheirOwn == G!ListingTabsAssumption /\ Waits /\ G!Spec => []G!PagesShowTheirOwn
<1> SUFFICES ASSUME G!ListingTabsAssumption, Waits
             PROVE  G!Spec => []G!PagesShowTheirOwn
  OBVIOUS
<1>1. G!Init => TabsInv /\ TabsWaiting
  BY TabsInit, WaitingTabsInit
<1>2. TabsInv /\ TabsWaiting /\ [G!Next]_(G!tabsVars) => TabsInv' /\ TabsWaiting'
  BY TabsNext, WaitingTabsNext
<1>3. TabsInv /\ TabsWaiting => G!PagesShowTheirOwn
  <2> SUFFICES ASSUME TabsInv, TabsWaiting, G!Quiet, failed = {}, NEW k \in G!ToSet(page.kinds)
               PROVE  /\ G!Profiled(k) \subseteq G!Records("profile", page.who, k, page.tab[k])
                      /\ page.at = "list" /\ failures = 0 => G!Listed(k) = G!Records("list", me, k, page.tab[k])
    BY DEF G!PagesShowTheirOwn
  <2>1. page.kinds \in Seq(G!KindSet)
    BY DEF TabsInv, TabsTypes, PagesOfTabs
  <2>2. k \in G!KindSet
    BY <2>1 DEF G!ToSet
  <2>3. loading = {} /\ ~LoadsYet(k) /\ (page.at = "profile" => Theirs(k))
    BY <2>2, QuietIs
  <2>4. G!Profiled(k) \subseteq G!Records("profile", page.who, k, page.tab[k])
    BY <2>3 DEF G!Profiled, Theirs
  <2>5. ASSUME page.at = "list", failures = 0
        PROVE  G!Listed(k) = G!Records("list", me, k, page.tab[k])
    <3>1. PICK j \in G!KindSet : page.kinds = <<j>>
      BY <2>5 DEF TabsWaiting, ListsOne
    <3>2. k = j
      BY <3>1 DEF G!ToSet
    <3>3. Whole(k)
      BY <2>2, <2>3, <2>5, <3>1, <3>2 DEF TabsWaiting, ListPageInv
    <3> QED BY <2>3, <2>5, <3>3 DEF G!Listed, G!Filtered, Whole
  <2> QED BY <2>4, <2>5
<1> QED BY <1>1, <1>2, <1>3, PTL DEF G!Spec
=============================================================================
