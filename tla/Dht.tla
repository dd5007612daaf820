-------------------------------- MODULE Dht --------------------------------
(***************************************************************************)
(* The distributed hash table the coordinator zomes write to, as the code  *)
(* under dnas/ uses it (get_links, create_link, delete_link, create_entry, *)
(* get): the host itself is not part of the repository.                    *)
(*                                                                         *)
(* Every published action (a created link or entry) has an id, given out   *)
(* by `clock`; a later id has a later timestamp.  Each agent holds part of *)
(* the table: `seen[a]` are the creations that have reached it and         *)
(* `gone[a]` the deletions.  A zome call runs against the caller's part    *)
(* only, its writes are visible to it at once and reach every other agent  *)
(* one at a time and in any order.  A call that returns Err publishes      *)
(* nothing, so it is no step at all.                                       *)
(*                                                                         *)
(* A deletion is a tombstone on the creation it names, and two deletions   *)
(* of one creation have one effect: `dead` keeps the ids.                  *)
(***************************************************************************)
EXTENDS Naturals, FiniteSets

CONSTANTS
  Agents,   \* the agents of the network
  MaxOps    \* bound: the creations a behaviour may publish

ASSUME DhtAssumption == MaxOps \in Nat

VARIABLES
  clock,   \* ids given out so far
  links,   \* every link ever created
  dead,    \* ids whose deletion has been published
  seen,    \* seen[a]: ids of the creations agent a holds
  gone,    \* gone[a]: ids whose deletion agent a holds
  serial   \* history: every call so far ran on a complete copy of the table

dhtVars == <<clock, links, dead, seen, gone, serial>>

Ids == 1 .. clock

Link(id, type, base, target) ==
  [id |-> id, type |-> type, base |-> base, target |-> target]

DhtInit ==
  /\ clock = 0
  /\ links = {}
  /\ dead = {}
  /\ seen = [a \in Agents |-> {}]
  /\ gone = [a \in Agents |-> {}]
  /\ serial = TRUE

-----------------------------------------------------------------------------
(* Reads. *)

\* get_links: the links of one type on one base that agent a still sees.
GetLinks(a, type, base) ==
  {l \in links : /\ l.type = type
                 /\ l.base = base
                 /\ l.id \in seen[a]
                 /\ l.id \notin gone[a]}

\* get: an action is found when it has arrived and no deletion of it has.
Found(a, id) == id \in seen[a] /\ id \notin gone[a]

\* The links of the whole table, which every agent ends up with.
Live(type, base) ==
  {l \in links : l.type = type /\ l.base = base /\ l.id \notin dead}

UpToDate(a) == seen[a] = Ids /\ gone[a] = dead

-----------------------------------------------------------------------------
(* Writes. *)

\* One zome call of agent a publishes n creations, the links `new` among them,
\* and deletes the ids of `del`.
Publish(a, n, new, del) ==
  /\ clock + n <= MaxOps
  /\ clock' = clock + n
  /\ links' = links \cup new
  /\ dead' = dead \cup del
  /\ seen' = [seen EXCEPT ![a] = @ \cup (clock + 1 .. clock + n)]
  /\ gone' = [gone EXCEPT ![a] = @ \cup del]

\* A call all of whose reads are its own.
Commit(a, n, new, del) ==
  /\ Publish(a, n, new, del)
  /\ serial' = (serial /\ UpToDate(a))

\* A creation reaches agent a.
DeliverCreate(a, id) ==
  /\ id \in Ids \ seen[a]
  /\ seen' = [seen EXCEPT ![a] = @ \cup {id}]
  /\ UNCHANGED <<clock, links, dead, gone, serial>>

\* A deletion reaches agent a, maybe before the creation it names.
DeliverDelete(a, id) ==
  /\ id \in dead \ gone[a]
  /\ gone' = [gone EXCEPT ![a] = @ \cup {id}]
  /\ UNCHANGED <<clock, links, dead, seen, serial>>

Gossip == \E a \in Agents : \/ \E id \in Ids : DeliverCreate(a, id)
                            \/ \E id \in dead : DeliverDelete(a, id)

-----------------------------------------------------------------------------
(* The type of the table; each component adds the type of its links. *)

DhtTypeOK ==
  /\ clock \in Nat
  /\ dead \subseteq Ids
  /\ seen \in [Agents -> SUBSET Ids]
  /\ gone \in [Agents -> SUBSET dead]
  /\ serial \in BOOLEAN
  /\ \A l \in links : l.id \in Ids
  /\ \A l, m \in links : l.id = m.id => l = m
=============================================================================
