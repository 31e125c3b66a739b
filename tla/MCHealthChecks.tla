----------------------------- MODULE MCHealthChecks -----------------------------
(* Instances of HealthChecks for TLC. *)
EXTENDS HealthChecks

\* Every check answers, or one does not.
MCHangingSets == {{}, {CHOOSE f \in Formatters : TRUE}}
=============================================================================
