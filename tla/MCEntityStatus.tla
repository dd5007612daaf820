---------------------------- MODULE MCEntityStatus ----------------------------
(* EntityStatus on small networks. *)
EXTENDS EntityStatus, TLC

\* Calls that overlap are looked at over fewer steps than calls that do not, and
\* fewer still once time has passed; without overlap time passes when everything
\* has reached everyone.
MaxOverlapping == 8
MaxTimed == 6

Bounded ==
  /\ serial \/ clock <= MaxOverlapping
  /\ now = 0 \/ clock <= MaxTimed \/ (serial /\ \A a \in Agents : UpToDate(a))
=============================================================================
