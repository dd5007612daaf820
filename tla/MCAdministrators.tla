-------------------------- MODULE MCAdministrators --------------------------
(* Administrators on small networks.  The agents are interchangeable. *)
EXTENDS Administrators, TLC

AgentSymmetry == Permutations(Agents)

\* For properties that speak only of behaviours whose calls ran on complete
\* copies: nothing is left to check once one did not, since `serial` never
\* becomes true again.
NoOverlap == serial
=============================================================================
