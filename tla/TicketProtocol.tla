-------------------------- MODULE TicketProtocol --------------------------
(***************************************************************************)
(* What the agent promises the author of a Redmine ticket, without the     *)
(* graph, its checkpoints or its failures: it touches the ticket only in a *)
(* run that began while the ticket was assigned to it, it only ever moves  *)
(* the ticket to "in progress" or back to its author for review, what it   *)
(* has durably read of the human comments only grows and never runs ahead  *)
(* of them, and no run lasts for ever.                                     *)
(***************************************************************************)
EXTENDS Integers

CONSTANT MaxComments   \* bound: the human writes at most this many comments

VARIABLES
  assignee,   \* who the ticket is assigned to
  status,     \* the ticket's status
  comments,   \* how many human comments the ticket has
  ingested,   \* how many of them the durable conversation holds
  working     \* a run is in progress

vars == <<assignee, status, comments, ingested, working>>

Init ==
  /\ assignee \in {"agent", "author"}
  /\ status = "new"
  /\ comments = 0
  /\ ingested = 0
  /\ working = FALSE

HumanComments ==
  /\ comments < MaxComments
  /\ comments' = comments + 1
  /\ UNCHANGED <<assignee, status, ingested, working>>

HumanReassigns ==
  /\ assignee' = IF assignee = "agent" THEN "author" ELSE "agent"
  /\ UNCHANGED <<status, comments, ingested, working>>

Begin ==
  /\ ~working
  /\ assignee = "agent"
  /\ working' = TRUE
  /\ UNCHANGED <<assignee, status, comments, ingested>>

\* The updates a run may make.
Announce == status' = "in_progress" /\ UNCHANGED assignee
HandBack == status' = "review" /\ assignee' = "author"
Silent == UNCHANGED <<assignee, status>>

\* A run may update the ticket, make more comments part of the durable
\* conversation, and end.
Work ==
  /\ working
  /\ Announce \/ HandBack \/ Silent
  /\ ingested' \in ingested .. comments
  /\ working' \in BOOLEAN
  /\ UNCHANGED comments

Finish == Work /\ ~working'

Next == HumanComments \/ HumanReassigns \/ Begin \/ Work

Spec == Init /\ [][Next]_vars /\ WF_vars(Finish)
=============================================================================
