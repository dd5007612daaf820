------------------------------ MODULE DhtProofs ------------------------------
(***************************************************************************)
(* What one call and one delivery do to the table, stated once for the     *)
(* proofs about the components.                                            *)
(***************************************************************************)
EXTENDS Dht, FiniteSetTheorems, TLAPS

\* The links and deletions a call may publish: new links carry the ids the
\* call was given, each its own, and only existing creations are deleted.
FreshLinks(n, new) ==
  /\ \A l \in new : l.id \in clock + 1 .. clock + n
  /\ \A l, m \in new : l.id = m.id => l = m

\* A well-formed call keeps the table well-formed.
LEMMA PublishKeepsTable ==
  ASSUME DhtTypeOK, NEW a \in Agents, NEW n \in Nat, NEW new, NEW del,
         FreshLinks(n, new), del \subseteq Ids, Publish(a, n, new, del),
         serial' \in BOOLEAN
  PROVE  DhtTypeOK'
<1>1. clock' \in Nat /\ Ids \subseteq Ids' /\ clock + 1 .. clock + n \subseteq Ids'
  BY DEF DhtTypeOK, Publish, Ids
<1>2. dead' \subseteq Ids' /\ dead \subseteq dead' /\ del \subseteq dead'
  BY <1>1 DEF DhtTypeOK, Publish
<1>3. seen' \in [Agents -> SUBSET Ids']
  BY <1>1 DEF DhtTypeOK, Publish
<1>4. gone' \in [Agents -> SUBSET dead']
  BY <1>2 DEF DhtTypeOK, Publish
<1>5. \A l \in links' : l.id \in Ids'
  BY <1>1 DEF DhtTypeOK, Publish, FreshLinks
<1>6. \A l, m \in links' : l.id = m.id => l = m
  <2>1. \A l \in links, m \in new : l.id # m.id
    BY DEF DhtTypeOK, FreshLinks, Ids
  <2>2. links' = links \cup new
    BY DEF Publish
  <2> QED BY <2>1, <2>2 DEF DhtTypeOK, FreshLinks
<1> QED BY <1>1, <1>2, <1>3, <1>4, <1>5, <1>6 DEF DhtTypeOK

LEMMA CommitKeepsTable ==
  ASSUME DhtTypeOK, NEW a \in Agents, NEW n \in Nat, NEW new, NEW del,
         FreshLinks(n, new), del \subseteq Ids, Commit(a, n, new, del)
  PROVE  DhtTypeOK'
<1>1. serial' \in BOOLEAN
  BY Zenon DEF Commit
<1>2. Publish(a, n, new, del)
  BY DEF Commit
<1> QED BY <1>1, <1>2, PublishKeepsTable

\* Gossip changes what agents hold and nothing else.
LEMMA GossipKeepsTable ==
  ASSUME DhtTypeOK, Gossip
  PROVE  DhtTypeOK' /\ UNCHANGED <<clock, links, dead, serial>>
<1>1. PICK a \in Agents : \/ \E id \in Ids : DeliverCreate(a, id)
                          \/ \E id \in dead : DeliverDelete(a, id)
  BY DEF Gossip
<1>2. CASE \E id \in Ids : DeliverCreate(a, id)
  BY <1>2 DEF DeliverCreate, DhtTypeOK, Ids
<1>3. CASE \E id \in dead : DeliverDelete(a, id)
  BY <1>3 DEF DeliverDelete, DhtTypeOK, Ids
<1> QED BY <1>1, <1>2, <1>3

\* An agent with a complete copy reads the table itself.
LEMMA CompleteCopyReadsTable ==
  ASSUME DhtTypeOK, NEW a \in Agents, UpToDate(a), NEW type, NEW base
  PROVE  GetLinks(a, type, base) = Live(type, base)
BY DEF DhtTypeOK, UpToDate, GetLinks, Live

\* A call adds its links to the live ones and takes its deletions away.
LEMMA LiveAfterPublish ==
  ASSUME DhtTypeOK, NEW a \in Agents, NEW n \in Nat, NEW new, NEW del,
         FreshLinks(n, new), del \subseteq Ids, Publish(a, n, new, del),
         NEW type, NEW base
  PROVE  Live(type, base)' =
           {l \in Live(type, base) : l.id \notin del} \cup
           {l \in new : l.type = type /\ l.base = base}
<1>1. links' = links \cup new /\ dead' = dead \cup del
  BY DEF Publish
<1>2. \A l \in new : l.id \notin dead'
  BY <1>1 DEF FreshLinks, DhtTypeOK, Ids
<1> QED BY <1>1, <1>2 DEF Live
-----------------------------------------------------------------------------
(* Sets of links and the ids in them. *)

IdsOf(ls) == {l.id : l \in ls}

\* The table is finite: every link has an id of its own.
LEMMA LinksAreFinite ==
  ASSUME DhtTypeOK
  PROVE  IsFiniteSet(links)
<1> DEFINE id == [l \in links |-> l.id]
<1>1. id \in Injection(links, 1 .. clock)
  <2>1. id \in [links -> 1 .. clock]
    BY DEF DhtTypeOK, Ids
  <2>2. IsInjective(id)
    BY DEF DhtTypeOK, IsInjective
  <2> QED BY <2>1, <2>2 DEF Injection
<1>2. IsFiniteSet(1 .. clock)
  BY FS_Interval DEF DhtTypeOK
<1> QED BY <1>1, <1>2, FS_Injection

\* As many links go as ids are named.
LEMMA LinksTakenAway ==
  ASSUME NEW F, IsFiniteSet(F), \A l, m \in F : l.id = m.id => l = m,
         NEW S \in SUBSET IdsOf(F)
  PROVE  /\ IsFiniteSet(S) /\ Cardinality(S) \in Nat /\ Cardinality(F) \in Nat
         /\ Cardinality({l \in F : l.id \notin S}) = Cardinality(F) - Cardinality(S)
<1> DEFINE G == {l \in F : l.id \in S}
           id == [l \in G |-> l.id]
<1>1. IsFiniteSet(G)
  BY FS_Subset
<1>2. id \in Bijection(G, S)
  <2>1. id \in [G -> S]
    OBVIOUS
  <2>2. IsInjective(id)
    BY DEF IsInjective
  <2>3. \A s \in S : \E l \in G : id[l] = s
    BY DEF IdsOf
  <2> QED BY <2>1, <2>2, <2>3 DEF Bijection, Injection, Surjection
<1>3. IsFiniteSet(S) /\ Cardinality(S) = Cardinality(G)
  BY <1>1, <1>2, FS_Bijection DEF ExistsBijection
<1>4. {l \in F : l.id \notin S} = F \ G /\ F \cap G = G
  OBVIOUS
<1>5. Cardinality(F \ G) = Cardinality(F) - Cardinality(F \cap G)
  BY FS_Difference
<1> QED BY <1>3, <1>4, <1>5, FS_CardinalityType
=============================================================================
