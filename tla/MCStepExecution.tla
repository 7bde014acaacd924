-------------------------- MODULE MCStepExecution --------------------------
(* The instance of StepExecution for TLC: two calls of a skill. *)
EXTENDS StepExecution

\* Only steps whose tool can be loaded, so that what happens is a matter of calls.
LoadableSpec == Init /\ catalog = "present" /\ [][Next]_vars
=============================================================================
