--------------------------- MODULE StatusRegister ---------------------------
(***************************************************************************)
(* What the administration zome promises of the statuses of entities: one  *)
(* status per entity, pending at first, and a list of the accepted ones    *)
(* that always agrees with it.                                             *)
(***************************************************************************)
CONSTANTS
  Entities,   \* names of entities
  Types       \* statuses an administrator can give

VARIABLES
  register,   \* register[e]: the status of e, "none" before and after its life
  deleted,    \* entities that are gone for good
  accepted    \* the accepted list

registerVars == <<register, deleted, accepted>>

Init ==
  /\ register = [e \in Entities |-> "none"]
  /\ deleted = {}
  /\ accepted = {}

Create(e) ==
  /\ register[e] = "none" /\ e \notin deleted
  /\ register' = [register EXCEPT ![e] = "pending"]
  /\ UNCHANGED <<deleted, accepted>>

Decide(e, type) ==
  /\ register[e] # "none"
  /\ register' = [register EXCEPT ![e] = type]
  /\ accepted' = IF type = "accepted" THEN accepted \cup {e} ELSE accepted \ {e}
  /\ UNCHANGED deleted

Delete(e) ==
  /\ register[e] # "none"
  /\ register' = [register EXCEPT ![e] = "none"]
  /\ accepted' = accepted \ {e}
  /\ deleted' = deleted \cup {e}

Next == \E e \in Entities : Create(e) \/ Delete(e) \/ \E type \in Types : Decide(e, type)

Spec == Init /\ [][Next]_registerVars
=============================================================================
