--------------------------- MODULE MCTicketGraph ---------------------------
(* The instance of TicketGraph for TLC. *)
EXTENDS TicketGraph

Step(unavailable, depends_on) ==
  [unavailable |-> unavailable, depends_on |-> depends_on]

\* No step; two steps, the second on the first's artifacts; a step nobody can
\* execute and one that depends on it, which can only block.
MCPlans ==
  {<<>>,
   <<Step(FALSE, {}), Step(FALSE, {1})>>,
   <<Step(TRUE, {}), Step(FALSE, {1})>>}
=============================================================================
