---------------------------- MODULE MCServiceTypes ----------------------------
(* ServiceTypes on small networks. *)
EXTENDS ServiceTypes, TLC

Symmetry == Permutations(Agents) \cup Permutations(Listings)

\* One agent makes all the calls, and nothing has reached anyone else.
Alone == \E a \in Agents : UpToDate(a) /\ \A b \in Agents \ {a} : seen[b] = {} /\ gone[b] = {}

\* Calls that overlap are looked at over fewer steps, and on one type that
\* nothing is linked to.
MaxOverlapping == 6

Overlapping ==
  /\ clock <= MaxOverlapping
  /\ Cardinality(types) <= 1
  /\ \A l \in links : l.type = "AllServiceTypes"

Bounded == Alone \/ Overlapping
=============================================================================
