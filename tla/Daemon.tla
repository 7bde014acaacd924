------------------------------ MODULE Daemon ------------------------------
(***************************************************************************)
(* run_daemon: one process polls Redmine for one agent profile after the   *)
(* other and runs at most one ticket for each of them per iteration, while *)
(* humans assign and comment on the tickets, signals ask the process to    *)
(* stop, and a run_once that raises ends it.                               *)
(*                                                                         *)
(* A run is three steps, as in run_once: the search for the ticket that    *)
(* was updated longest ago, the fetch with the assignee check, and the     *)
(* work, which TicketGraph opens up.  Here the work only matters for what  *)
(* it does to the order of the tickets.                                    *)
(***************************************************************************)
EXTENDS Integers, FiniteSets

CONSTANTS
  NAgents,      \* the enabled profiles, in the order of agents.toml
  Tickets,
  Limits,       \* the values of --max-iterations tried; 0 stands for none
  MaxComments,  \* bound: comments a human adds to waiting tickets
  MaxRaises     \* bound: runs that raise, each ending the process

ASSUME DaemonAssumption ==
  /\ NAgents \in Nat \ {0}
  /\ IsFiniteSet(Tickets)
  /\ Limits \subseteq Nat
  /\ MaxComments \in Nat /\ MaxRaises \in Nat

Agent == 1 .. NAgents
Human == 0     \* any assignee that is not an agent
NoLimit == 0

VARIABLES
  assignee,   \* Redmine: who each ticket is assigned to
  updated,    \* Redmine: each ticket's rank by updated_on, 1 the longest ago
  pc,         \* loop, agent, search, fetch, work, sleep, exited or died
  agent,      \* the profile whose turn it is; NAgents + 1 after the last
  ticket,     \* what the search returned: one ticket or none
  iterations, \* iterations begun, counted only when they are limited
  limit, dry, \* the command line
  worked,     \* processed_in_iteration
  processed, no_issue,  \* DaemonResult's counters, kept when limited
  stop,       \* stop_requested
  late,       \* ghost: runs begun after the stop request
  backlog,    \* ghost: waiting for an agent since the iteration began
  comments, raises

redmine == <<assignee, updated>>
options == <<limit, dry>>
counters == <<iterations, processed, no_issue>>
bounds == <<comments, raises>>
vars == <<redmine, pc, agent, ticket, counters, options, worked, stop, late,
          backlog, bounds>>

NTickets == Cardinality(Tickets)
Orders == {rank \in [Tickets -> 1 .. NTickets] :
             \A t, u \in Tickets : t # u => rank[t] # rank[u]}

\* Redmine ranks a ticket that is updated last; those behind it move up.
Touched(rank, t) ==
  [u \in Tickets |-> IF u = t THEN NTickets
                     ELSE IF rank[u] > rank[t] THEN rank[u] - 1 ELSE rank[u]]

WaitingFor(a) == {t \in Tickets : assignee[t] = a}

Start ==
  /\ pc = "loop" /\ agent = 1 /\ ticket = {}
  /\ iterations = 0 /\ processed = 0 /\ no_issue = 0
  /\ worked = FALSE /\ stop = FALSE /\ late = 0 /\ backlog = {}

\* A dry-run daemon needs a limit (cli.py).
Init ==
  /\ assignee \in [Tickets -> Agent \cup {Human}]
  /\ updated \in Orders
  /\ limit \in Limits
  /\ dry \in BOOLEAN
  /\ dry => limit # NoLimit
  /\ Start
  /\ comments = 0 /\ raises = 0
-----------------------------------------------------------------------------
(* The humans. *)

HumanAssigns ==
  /\ \E t \in Tickets : \E a \in (Agent \cup {Human}) \ {assignee[t]} :
       /\ assignee' = [assignee EXCEPT ![t] = a]
       /\ updated' = Touched(updated, t)
       /\ backlog' = backlog \ {t}
  /\ UNCHANGED <<pc, agent, ticket, counters, options, worked, stop, late, bounds>>

HumanComments ==
  /\ comments < MaxComments
  /\ comments' = comments + 1
  /\ \E t \in Tickets : updated' = Touched(updated, t)
  /\ UNCHANGED <<assignee, pc, agent, ticket, counters, options, worked, stop,
                 late, backlog, raises>>

\* SIGINT or SIGTERM: the handler runs between any two steps of the loop.
RequestStop ==
  /\ pc \notin {"exited", "died"}
  /\ ~stop
  /\ stop' = TRUE
  /\ UNCHANGED <<redmine, pc, agent, ticket, counters, options, worked, late,
                 backlog, bounds>>
-----------------------------------------------------------------------------
(* The loop. *)

Limited == limit # NoLimit
Count(n) == IF Limited THEN n + 1 ELSE n

\* Mutant: one iteration more than asked for.
LimitPassed == Limited /\ iterations > limit

LimitReached == Limited /\ iterations >= limit

\* Mutant: the loop condition forgets the stop request.
LoopGoesOnUnstopped == ~LimitReached

\* The head of the loop.
LoopGoesOn == ~stop /\ ~LimitReached

Exit ==
  /\ pc = "loop"
  /\ ~LoopGoesOn
  /\ pc' = "exited"
  /\ UNCHANGED <<redmine, agent, ticket, counters, options, worked, stop, late,
                 backlog, bounds>>

BeginIteration ==
  /\ pc = "loop"
  /\ LoopGoesOn
  /\ iterations' = Count(iterations)
  /\ worked' = FALSE
  /\ pc' = "agent" /\ agent' = 1
  /\ backlog' = {t \in Tickets : assignee[t] \in Agent}
  /\ UNCHANGED <<redmine, ticket, processed, no_issue, options, stop, late, bounds>>

\* Mutant: the stop request is only looked at between iterations.
MayCallAlways == TRUE

\* The check before every run.
MayCall == ~stop

NextAgent ==
  /\ pc = "agent"
  /\ agent <= NAgents
  /\ MayCall
  /\ pc' = "search"
  /\ UNCHANGED <<redmine, agent, ticket, counters, options, worked, stop, late,
                 backlog, bounds>>

\* A stop request leaves the round; an iteration without work sleeps, unless
\* it was the last one.
EndRound ==
  /\ pc = "agent"
  /\ agent > NAgents \/ ~MayCall
  /\ pc' = CASE worked \/ stop -> "loop"
             [] ~worked /\ ~stop /\ LimitReached -> "exited"
             [] OTHER -> "sleep"
  /\ UNCHANGED <<redmine, agent, ticket, counters, options, worked, stop, late,
                 backlog, bounds>>

Wake ==
  /\ pc = "sleep"
  /\ pc' = "loop"
  /\ UNCHANGED <<redmine, agent, ticket, counters, options, worked, stop, late,
                 backlog, bounds>>
-----------------------------------------------------------------------------
(* run_once. *)

\* Mutant: updated_on:desc.
FirstNewest(S) == {t \in S : \A u \in S : updated[u] <= updated[t]}

\* Mutant: the search asks for every ticket.
FirstUnlimited(S) == S

\* updated_on:asc, limit 1.
First(S) == {t \in S : \A u \in S : updated[t] <= updated[u]}

Search ==
  /\ pc = "search"
  /\ late' = IF stop THEN late + 1 ELSE late
  /\ ticket' = First(WaitingFor(agent))
  /\ pc' = "fetch"
  /\ UNCHANGED <<redmine, agent, counters, options, worked, stop, backlog, bounds>>

\* Mutant: the flag tells of the last profile only.
NothingFoundResets(w) == FALSE

\* processed_in_iteration after a run that found nothing.
NothingFound(w) == w

NoIssue ==
  /\ pc = "fetch"
  /\ ticket = {}
  /\ no_issue' = Count(no_issue)
  /\ worked' = NothingFound(worked)
  /\ pc' = "agent" /\ agent' = agent + 1
  /\ UNCHANGED <<redmine, ticket, iterations, processed, options, stop, late,
                 backlog, bounds>>

Fetch ==
  /\ pc = "fetch"
  /\ \E t \in ticket : assignee[t] = agent
  /\ pc' = "work"
  /\ UNCHANGED <<redmine, agent, ticket, counters, options, worked, stop, late,
                 backlog, bounds>>

\* The work ends; unless it is a dry run the ticket goes back to its author,
\* whether the work succeeded or not.
Work ==
  /\ pc = "work"
  /\ \E t \in ticket :
       /\ IF dry THEN UNCHANGED redmine
          ELSE /\ assignee' = [assignee EXCEPT ![t] = Human]
               /\ updated' = Touched(updated, t)
       /\ backlog' = backlog \ {t}
  /\ processed' = Count(processed)
  /\ worked' = TRUE
  /\ ticket' = {}
  /\ pc' = "agent" /\ agent' = agent + 1
  /\ UNCHANGED <<iterations, no_issue, options, stop, late, bounds>>

\* Nothing catches what run_once raises: a Redmine error in the search, the
\* fetch or the failure report, or a ticket reassigned since the search.
Raise ==
  /\ \/ pc \in {"search", "fetch", "work"} /\ raises < MaxRaises /\ raises' = raises + 1
     \/ pc = "fetch" /\ (\E t \in ticket : assignee[t] # agent) /\ UNCHANGED raises
  /\ pc' = "died"
  /\ UNCHANGED <<redmine, agent, ticket, counters, options, worked, stop, late,
                 backlog, comments>>

\* The operator starts the daemon again.
Restart ==
  /\ pc = "died"
  /\ pc' = "loop" /\ agent' = 1 /\ ticket' = {}
  /\ iterations' = 0 /\ processed' = 0 /\ no_issue' = 0
  /\ worked' = FALSE /\ stop' = FALSE /\ late' = 0 /\ backlog' = {}
  /\ UNCHANGED <<redmine, options, bounds>>
-----------------------------------------------------------------------------
DaemonStep ==
  \/ Exit \/ BeginIteration \/ NextAgent \/ EndRound \/ Wake
  \/ Search \/ NoIssue \/ Fetch \/ Work
  \/ Raise

Next == HumanAssigns \/ HumanComments \/ RequestStop \/ DaemonStep \/ Restart

\* The process runs, sleeps end, and the operator restarts a daemon that
\* died; nothing is assumed of humans, signals or errors.
Spec == Init /\ [][Next]_vars /\ WF_vars(DaemonStep) /\ WF_vars(Restart)
-----------------------------------------------------------------------------
(* Properties. *)

TypeOK ==
  /\ assignee \in [Tickets -> Agent \cup {Human}]
  /\ updated \in Orders
  /\ pc \in {"loop", "agent", "search", "fetch", "work", "sleep", "exited", "died"}
  /\ agent \in 1 .. NAgents + 1
  /\ ticket \subseteq Tickets /\ Cardinality(ticket) <= 1
  /\ limit \in Limits /\ dry \in BOOLEAN
  /\ {iterations, processed, no_issue, late} \subseteq Nat
  /\ worked \in BOOLEAN /\ stop \in BOOLEAN
  /\ backlog \subseteq Tickets
  /\ comments \in 0 .. MaxComments /\ raises \in 0 .. MaxRaises

\* docs/agent-profiles.md: the daemon waits only if no profile had an issue.
\* It never sleeps on a ticket that was waiting when the round began and
\* that nobody took away since.
BacklogNeverSleeps == pc = "sleep" => backlog = {}

\* A stop request lets the run that was about to be called happen, no other.
StopIsPrompt == late <= 1

\* Every iteration that was not interrupted gives every profile one chance,
\* and --max-iterations bounds them: an unlimited dry run never happens.
Rounds == IF pc = "loop" \/ pc = "exited" \/ pc = "sleep"
          THEN iterations * NAgents
          ELSE (iterations - 1) * NAgents + agent - 1
ChancesAccounted ==
  Limited =>
    /\ iterations <= limit
    /\ pc # "died" /\ ~stop => processed + no_issue = Rounds
    /\ dry => processed <= limit * NAgents

\* A ticket that stays with an agent is worked on, however many others come
\* and go, because the search takes the ticket updated longest ago; unless
\* the daemon was stopped or every restart of it dies again.
Served(t) == pc = "work" /\ ticket = {t}
TicketsAreServed ==
  \A t \in Tickets : \A a \in Agent :
    ~Limited /\ <>[](assignee[t] = a)
      => <>[](pc = "exited") \/ []<>(pc = "died") \/ []<>Served(t)

\* A stop request or a limit ends the process, even on a board that never
\* runs out of tickets.
DaemonEnds == (stop \/ Limited) ~> pc \in {"exited", "died"}
=============================================================================
