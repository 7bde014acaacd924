---------------------------- MODULE TicketGraph ----------------------------
(***************************************************************************)
(* The durable conversation of ONE Redmine ticket: the LangGraph graph of  *)
(* ticket_graph.py, driven by workflow.run_once, against a Redmine ticket  *)
(* that its human author comments on and reassigns at any moment.          *)
(*                                                                         *)
(* A node of the graph computes, posts its events to Redmine one update at *)
(* a time, and only then is its result committed as the next checkpoint.   *)
(* Every gap between those steps is a state of the model in which an       *)
(* update may raise or the process may die.                                *)
(*                                                                         *)
(* What is abstracted.  Comments are the human journals, numbered in the   *)
(* order Redmine assigns their ids; the journals the agent writes itself   *)
(* never enter the conversation a second time, so only the human ones are  *)
(* counted and the cursor is the number of them below the journal id the   *)
(* code stores.  A plan is the part of TaskPlan that drives the loop: for  *)
(* each step, whether it is executable and the earlier steps it depends    *)
(* on; the empty plan is the needs_user plan.  Consecutive progress events *)
(* of a node are one event.  needs_user and missing_tool, which the loop   *)
(* treats alike, are "needs_user".                                         *)
(***************************************************************************)
EXTENDS Integers, Sequences

CONSTANTS
  Plans,        \* the plans the planner may return, each a sequence of steps
  MaxSteps,     \* no plan is longer
  MaxComments,  \* bound: the human writes at most this many comments
  MaxAborts     \* bound: crashes and raised exceptions in a behaviour

(***************************************************************************)
(* validate_task_plan accepts only plans whose steps depend on earlier     *)
(* steps; a plan without steps is always possible, since a context that    *)
(* does not fit yields it.                                                 *)
(***************************************************************************)
ASSUME PlanAssumption ==
  /\ MaxSteps \in Nat
  /\ <<>> \in Plans
  /\ \A p \in Plans :
       /\ p \in Seq([unavailable : BOOLEAN, depends_on : SUBSET Nat])
       /\ Len(p) <= MaxSteps
       /\ \A i \in DOMAIN p : p[i].depends_on \subseteq 1 .. (i - 1)
ASSUME BoundAssumption == MaxComments \in Nat /\ MaxAborts \in Nat

Node == {"initialize", "initial_plan", "publish_initial_plan",
         "select_next_step", "execute_step", "finalize_execution",
         "wait_for_human", "analyze_feedback", "publish_revision_plan",
         "request_feedback"}
StepStatus == {"pending", "running", "completed", "skipped",
               "needs_user", "failed"}
ResultStatus == {"none", "processed", "needs_user", "failed"}
EventKind == {"start", "progress", "final_review", "final_return"}
Comment == 1 .. MaxComments
StepNumber == 1 .. MaxSteps
None == 0   \* current_step_index None; steps are numbered from 1

VARIABLES
  assignee,   \* Redmine: who the ticket is assigned to
  status,     \* Redmine: the ticket's status
  comments,   \* Redmine: how many human comments the ticket has
  saved,      \* the newest checkpoint that is durable
  thread,     \* the newest checkpoint of the running invocation
  staged,     \* what the current node will commit once its events are out
  outbox,     \* the events the current node has still to emit
  pc,         \* where run_once is: idle, run, emit or failing
  fetched,    \* the comments in the issue this run fetched
  resuming,   \* the run answers the interrupt and wait_for_human has not run
  handed,     \* ghost: handed back since the graph last left wait_for_human
  runs,       \* ghost: how often each step of the current plan was executed
  aborts      \* ghost: crashes and raised exceptions so far

redmine == <<assignee, status, comments>>
ghosts == <<handed, runs, aborts>>
vars == <<assignee, status, comments, saved, thread, staged, outbox, pc,
          fetched, resuming, handed, runs, aborts>>
-----------------------------------------------------------------------------
(* Plan steps. *)

\* Mutant: a deny-list that forgot "completed".
SelectableDenyList(th) ==
  {i \in DOMAIN th.plan : th.steps[i] \notin {"skipped", "failed", "needs_user"}}

\* The steps select_next_step may still pick.
Selectable(th) == {i \in DOMAIN th.plan : th.steps[i] \in {"pending", "running"}}

\* The steps that ended the loop early.
Stopped(th) == {i \in DOMAIN th.plan : th.steps[i] \in {"failed", "needs_user"}}

IsFirst(i, S) == i \in S /\ \A j \in S : i <= j

\* Mutant: a skipped dependency counts as done.
DependenciesNotStopped(th, i) ==
  \A d \in th.plan[i].depends_on : d < i /\ th.steps[d] \in {"completed", "skipped"}

\* A step runs only on the artifacts of completed dependencies.
DependenciesReady(th, i) ==
  \A d \in th.plan[i].depends_on : d < i /\ th.steps[d] = "completed"

\* The state a new plan starts from.
Planned(th, p) ==
  [th EXCEPT !.plan = p,
             !.steps = [i \in StepNumber |-> "pending"],
             !.idx = IF p = <<>> THEN None ELSE 1]

RouteAfterStep(th) ==
  IF \/ th.idx # None /\ th.idx \in Stopped(th)
     \/ Selectable(th) = {}
  THEN "finalize_execution" ELSE "select_next_step"

\* Mutant: current_step_index is dropped after every step, so a step that
\* must stop the loop does not.
RecordedForgetsIndex(th, i, s) ==
  LET done == [th EXCEPT !.steps = [th.steps EXCEPT ![i] = s], !.idx = None]
  IN  [done EXCEPT !.next = RouteAfterStep(done)]

\* Mutant: the result's status is stored as it is, not as a step status.
RecordedRawStatus(th, i, s) ==
  LET raw == IF s = "completed" THEN "processed" ELSE s
      done == [th EXCEPT !.steps = [th.steps EXCEPT ![i] = raw],
                         !.idx = IF s \in {"failed", "needs_user"}
                                 THEN i ELSE None]
  IN  [done EXCEPT !.next = RouteAfterStep(done)]

\* Mutant: the outcome of a successful step is not written to plan_steps.
RecordedOnlyStops(th, i, s) ==
  LET done == [th EXCEPT !.steps = IF s \in {"failed", "needs_user"}
                                   THEN [th.steps EXCEPT ![i] = s] ELSE th.steps,
                         !.idx = IF s \in {"failed", "needs_user"}
                                 THEN i ELSE None]
  IN  [done EXCEPT !.next = RouteAfterStep(done)]

\* The checkpoint after step i ended with status s.
Recorded(th, i, s) ==
  LET done == [th EXCEPT !.steps = [th.steps EXCEPT ![i] = s],
                         !.idx = IF s \in {"failed", "needs_user"}
                                 THEN i ELSE None]
  IN  [done EXCEPT !.next = RouteAfterStep(done)]

FinalStatus(th) ==
  CASE th.plan = <<>> -> "needs_user"
    [] \E i \in DOMAIN th.plan :
         IsFirst(i, Stopped(th)) /\ th.steps[i] = "failed" -> "failed"
    [] \E i \in DOMAIN th.plan :
         IsFirst(i, Stopped(th)) /\ th.steps[i] = "needs_user" -> "needs_user"
    [] OTHER -> "processed"

\* execute_single_step ends a failed or undecided step with a final event; a
\* tool that is retried and fails again leaves two.  Only the events of a
\* step that lets the loop go on are downgraded to progress.
StepEvents(s) ==
  LET final == IF s = "failed" THEN "final_return" ELSE "final_review"
  IN  IF s \in {"failed", "needs_user"}
      THEN {<<"progress", final, "progress">>,
            <<"progress", final, "progress", final, "progress">>}
      ELSE {<<"progress">>}

\* Mutant: an undecided end is only a progress comment.
FinalEventsNoReview(result) ==
  CASE result = "processed"  -> <<"progress", "final_review">>
    [] result = "failed"     -> <<"final_return">>
    [] result = "needs_user" -> <<"progress">>

FinalEvents(result) ==
  CASE result = "processed"  -> <<"progress", "final_review">>
    [] result = "failed"     -> <<"final_return">>
    [] result = "needs_user" -> <<"final_review">>

\* Mutant: "journal_id < cursor: continue" reads the comment at the cursor again.
IngestedFromCursor(th, n) ==
  [th EXCEPT !.seen = [k \in Comment |->
                         IF th.cursor <= k /\ k <= n THEN th.seen[k] + 1
                         ELSE th.seen[k]],
             !.cursor = IF n > th.cursor THEN n ELSE th.cursor]

\* The comments above the cursor join the conversation, each once more than
\* before; the cursor moves to what the run fetched.
Ingested(th, n) ==
  [th EXCEPT !.seen = [k \in Comment |->
                         IF th.cursor < k /\ k <= n THEN th.seen[k] + 1
                         ELSE th.seen[k]],
             !.cursor = IF n > th.cursor THEN n ELSE th.cursor]

\* Mutant: execute_step is missing from the nodes that announce themselves.
RevisionStepResumeSelectOnly(th) ==
  th.analysis /\ th.next \in {"select_next_step", "finalize_execution"}

\* An unfinished revision announces itself again when it is resumed.
RevisionStepResume(th) ==
  /\ th.analysis
  /\ th.next \in {"select_next_step", "execute_step", "finalize_execution"}
-----------------------------------------------------------------------------
NewThread ==
  [next |-> "initialize", interrupted |-> FALSE, plan |-> <<>>,
   steps |-> [i \in StepNumber |-> "pending"], idx |-> None, cursor |-> 0, seen |-> [k \in Comment |-> 0],
   analysis |-> FALSE, result |-> "none"]

Init ==
  /\ assignee \in {"agent", "author"}
  /\ status = "new"
  /\ comments = 0
  /\ saved = NewThread /\ thread = NewThread /\ staged = NewThread
  /\ outbox = <<>>
  /\ pc = "idle"
  /\ fetched = 0
  /\ resuming = FALSE
  /\ handed = FALSE
  /\ runs = [i \in StepNumber |-> 0]
  /\ aborts = 0
-----------------------------------------------------------------------------
(* The human. *)

HumanComments ==
  /\ comments < MaxComments
  /\ comments' = comments + 1
  /\ UNCHANGED <<assignee, status, saved, thread, staged, outbox, pc, fetched,
                 resuming, ghosts>>

HumanReassigns ==
  /\ assignee' = IF assignee = "agent" THEN "author" ELSE "agent"
  /\ UNCHANGED <<status, comments, saved, thread, staged, outbox, pc, fetched,
                 resuming, ghosts>>
-----------------------------------------------------------------------------
(* run_once up to the graph, and the three ways TicketConversationGraph.run *)
(* continues a thread: answer the interrupt, go on from an unfinished node, *)
(* or start the conversation.                                               *)

\* Mutant: the assignee of the fetched issue is not compared with the agent.
FetchIssueUnchecked == fetched' = comments

\* find_open_issues_assigned_to, get_issue and the assignee check; the
\* comments in the fetched issue are all this run will see.
FetchIssue ==
  /\ assignee = "agent"
  /\ fetched' = comments

\* Mutant: only a thread with a feedback analysis is resumed with an answer.
IsInterruptedRevision == thread.interrupted /\ thread.analysis

\* The thread waits for the answer to an interrupt.
IsInterrupted == thread.interrupted

BeginRun ==
  /\ pc = "idle"
  /\ FetchIssue
  /\ resuming' = IsInterrupted
  /\ handed' = (thread.next = "wait_for_human" /\ ~IsInterrupted)
  /\ IF RevisionStepResume(thread)
     THEN pc' = "emit" /\ outbox' = <<"start">>
     ELSE pc' = "run" /\ UNCHANGED outbox
  /\ UNCHANGED <<redmine, saved, thread, staged, runs, aborts>>

\* A node without events: its result is the next checkpoint at once.
CommitNow(th) ==
  /\ thread' = th
  /\ staged' = th
  /\ UNCHANGED <<outbox, pc>>

\* A node with events: they go out before its result is committed.
EmitThenCommit(events, th) ==
  /\ outbox' = events
  /\ staged' = th
  /\ pc' = "emit"
  /\ UNCHANGED thread

AtNode(n) == pc = "run" /\ thread.next = n

Initialize ==
  /\ AtNode("initialize")
  /\ CommitNow([Ingested(thread, fetched) EXCEPT !.next = "initial_plan"])
  /\ UNCHANGED <<redmine, saved, fetched, resuming, ghosts>>

InitialPlan ==
  /\ AtNode("initial_plan")
  /\ \E p \in Plans :
       CommitNow([Planned(thread, p) EXCEPT !.next = "publish_initial_plan"])
  /\ runs' = [i \in StepNumber |-> 0]
  /\ UNCHANGED <<redmine, saved, fetched, resuming, handed, aborts>>

PublishInitialPlan ==
  /\ AtNode("publish_initial_plan")
  /\ EmitThenCommit(<<"start">>, [thread EXCEPT !.next = "select_next_step"])
  /\ UNCHANGED <<redmine, saved, fetched, resuming, ghosts>>

SelectNextStep ==
  /\ AtNode("select_next_step")
  /\ \E i \in DOMAIN thread.plan :
       /\ IsFirst(i, Selectable(thread))
       /\ EmitThenCommit(<<"progress">>,
           [thread EXCEPT !.steps = [thread.steps EXCEPT ![i] = "running"],
                          !.idx = i, !.next = "execute_step"])
  /\ UNCHANGED <<redmine, saved, fetched, resuming, ghosts>>

SelectNothing ==
  /\ AtNode("select_next_step")
  /\ Selectable(thread) = {}
  /\ CommitNow([thread EXCEPT !.idx = None, !.next = "finalize_execution"])
  /\ UNCHANGED <<redmine, saved, fetched, resuming, ghosts>>

\* The step's outward effect happens here, before any of its events.
ExecuteStep ==
  /\ AtNode("execute_step")
  /\ LET i == thread.idx IN
     /\ DependenciesReady(thread, i)
     /\ \E s \in IF thread.plan[i].unavailable THEN {"skipped"}
                 ELSE {"completed", "needs_user", "failed"} :
        \E events \in StepEvents(s) : EmitThenCommit(events, Recorded(thread, i, s))
     /\ runs' = [runs EXCEPT ![i] = @ + 1]
  /\ UNCHANGED <<redmine, saved, fetched, resuming, handed, aborts>>

\* A dependency that is not completed, or a context that cannot be prepared:
\* the step is not executed and waits for the human.
StepBlocked ==
  /\ AtNode("execute_step")
  /\ EmitThenCommit(<<"final_review", "progress">>,
                    Recorded(thread, thread.idx, "needs_user"))
  /\ UNCHANGED <<redmine, saved, fetched, resuming, ghosts>>

FinalizeExecution ==
  /\ AtNode("finalize_execution")
  /\ LET result == FinalStatus(thread)
     IN  EmitThenCommit(FinalEvents(result),
           [thread EXCEPT !.result = result, !.next = "wait_for_human",
                          !.idx = IF result = "processed" THEN None ELSE @])
  /\ UNCHANGED <<redmine, saved, fetched, resuming, ghosts>>

\* interrupt() ends the invocation: run_once returns.
Interrupt ==
  /\ AtNode("wait_for_human")
  /\ ~resuming
  /\ thread' = [thread EXCEPT !.interrupted = TRUE]
  /\ saved' = thread' /\ staged' = thread'
  /\ pc' = "idle" /\ fetched' = 0 /\ handed' = FALSE
  /\ UNCHANGED <<redmine, outbox, resuming, runs, aborts>>

\* The answered interrupt: the new comments become one more user turn.
WaitForHuman ==
  /\ AtNode("wait_for_human")
  /\ resuming
  /\ LET th == [Ingested(thread, fetched) EXCEPT !.interrupted = FALSE,
                                                 !.analysis = FALSE]
     IN  CommitNow([th EXCEPT !.next = IF fetched > thread.cursor
                                       THEN "analyze_feedback"
                                       ELSE "request_feedback"])
  /\ resuming' = FALSE
  /\ UNCHANGED <<redmine, saved, fetched, ghosts>>

AnalyzeFeedback ==
  /\ AtNode("analyze_feedback")
  /\ \E p \in Plans :
       CommitNow([Planned(thread, p) EXCEPT !.analysis = TRUE,
                                            !.next = "publish_revision_plan"])
  /\ runs' = [i \in StepNumber |-> 0]
  /\ UNCHANGED <<redmine, saved, fetched, resuming, handed, aborts>>

PublishRevisionPlan ==
  /\ AtNode("publish_revision_plan")
  /\ EmitThenCommit(<<"start">>, [thread EXCEPT !.next = "select_next_step"])
  /\ UNCHANGED <<redmine, saved, fetched, resuming, ghosts>>

RequestFeedback ==
  /\ AtNode("request_feedback")
  /\ EmitThenCommit(<<"final_review">>,
       [thread EXCEPT !.result = "needs_user", !.next = "wait_for_human"])
  /\ UNCHANGED <<redmine, saved, fetched, resuming, ghosts>>
-----------------------------------------------------------------------------
(* Redmine updates and checkpoints. *)

\* Mutant: final_review forgets assigned_to_id.
ApplyReviewKeepsAssignee(kind) ==
  /\ assignee' = IF kind = "final_return" THEN "author" ELSE assignee
  /\ status' = CASE kind = "start" -> "in_progress"
                 [] kind \in {"final_review", "final_return"} -> "review"
                 [] OTHER -> status
  /\ handed' = (handed \/ kind \in {"final_review", "final_return"})
  /\ UNCHANGED comments

\* What an event does to the ticket.
Apply(kind) ==
  /\ assignee' = IF kind \in {"final_review", "final_return"}
                 THEN "author" ELSE assignee
  /\ status' = CASE kind = "start" -> "in_progress"
                 [] kind \in {"final_review", "final_return"} -> "review"
                 [] OTHER -> status
  /\ handed' = (handed \/ kind \in {"final_review", "final_return"})
  /\ UNCHANGED comments

Emit ==
  /\ pc = "emit"
  /\ outbox # <<>>
  /\ Apply(Head(outbox))
  /\ outbox' = Tail(outbox)
  /\ UNCHANGED <<saved, thread, staged, pc, fetched, resuming, runs, aborts>>

Commit ==
  /\ pc = "emit"
  /\ outbox = <<>>
  /\ thread' = staged
  /\ pc' = "run"
  /\ UNCHANGED <<redmine, saved, staged, outbox, fetched, resuming, ghosts>>

\* The checkpointer writes in the background of the next node.
Flush ==
  /\ saved # thread
  /\ saved' = thread
  /\ UNCHANGED <<redmine, thread, staged, outbox, pc, fetched, resuming, ghosts>>
-----------------------------------------------------------------------------
(* Failures. *)

Abort == aborts < MaxAborts /\ aborts' = aborts + 1

\* An exception leaves the graph: the uncommitted node is forgotten, and
\* run_once is left with a failure to report.
RunRaises ==
  /\ pc \in {"run", "emit"}
  /\ Abort
  /\ saved' \in {saved, thread}
  /\ thread' = saved' /\ staged' = saved'
  /\ outbox' = <<>> /\ pc' = "failing" /\ resuming' = FALSE
  /\ UNCHANGED <<redmine, fetched, handed, runs>>

\* An update that Redmine applied but that still raised at the caller.
EmitRaisesApplied ==
  /\ pc = "emit" /\ outbox # <<>>
  /\ Abort
  /\ Apply(Head(outbox))
  /\ saved' = thread /\ staged' = thread
  /\ outbox' = <<>> /\ pc' = "failing" /\ resuming' = FALSE
  /\ UNCHANGED <<thread, fetched, runs>>

Idle == pc' = "idle" /\ fetched' = 0 /\ handed' = FALSE

ReportFailure ==
  /\ pc = "failing"
  /\ assignee' = "author" /\ status' = "review"
  /\ Idle
  /\ UNCHANGED <<comments, saved, thread, staged, outbox, resuming, runs, aborts>>

\* The failure comment itself raises: run_once does, and the process ends.
ReportFailureRaises ==
  /\ pc = "failing"
  /\ Abort
  /\ Idle
  /\ UNCHANGED <<redmine, saved, thread, staged, outbox, resuming, runs>>

\* The process dies: only the durable checkpoint survives.
Crash ==
  /\ pc # "idle"
  /\ Abort
  /\ thread' = saved /\ staged' = saved
  /\ outbox' = <<>> /\ resuming' = FALSE
  /\ Idle
  /\ UNCHANGED <<redmine, saved, runs>>
-----------------------------------------------------------------------------
HumanStep == HumanComments \/ HumanReassigns

GraphNode ==
  \/ Initialize \/ InitialPlan \/ PublishInitialPlan
  \/ SelectNextStep \/ SelectNothing \/ ExecuteStep \/ StepBlocked
  \/ FinalizeExecution \/ Interrupt \/ WaitForHuman
  \/ AnalyzeFeedback \/ PublishRevisionPlan \/ RequestFeedback

AgentStep == BeginRun \/ GraphNode \/ Emit \/ Commit \/ ReportFailure

Failure == RunRaises \/ EmitRaisesApplied \/ ReportFailureRaises \/ Crash

Next == HumanStep \/ AgentStep \/ Flush \/ Failure

\* The daemon polls for ever and the operator restarts it, so a ticket that
\* stays assigned is picked up and a run that can go on does.  Nothing is
\* assumed of the human, of the background writer or of failures.
Spec == Init /\ [][Next]_vars /\ WF_vars(AgentStep)
-----------------------------------------------------------------------------
(* Properties. *)

Checkpoint ==
  [next : Node, interrupted : BOOLEAN, plan : Plans,
   steps : [StepNumber -> StepStatus],
   idx : StepNumber \cup {None}, cursor : 0 .. MaxComments,
   seen : [Comment -> Nat], analysis : BOOLEAN, result : ResultStatus]

\* The type of every variable.
TypeOK ==
  /\ assignee \in {"agent", "author"}
  /\ status \in {"new", "in_progress", "review"}
  /\ comments \in 0 .. MaxComments
  /\ {saved, thread, staged} \subseteq Checkpoint
  /\ outbox \in Seq(EventKind)
  /\ pc \in {"idle", "run", "emit", "failing"}
  /\ fetched \in 0 .. MaxComments
  /\ resuming \in BOOLEAN
  /\ handed \in BOOLEAN
  /\ runs \in [StepNumber -> Nat]
  /\ aborts \in 0 .. MaxAborts

\* Every checkpoint, however old the one a restart falls back to, holds each
\* human comment up to its cursor exactly once and none above it: however
\* runs are cut short, no comment is lost or read twice.
IngestedOnce(th, n) ==
  /\ th.cursor <= n
  /\ \A k \in Comment : th.seen[k] = IF k <= th.cursor THEN 1 ELSE 0
CommentsIngestedOnce ==
  \A th \in {saved, thread, staged} : IngestedOnce(th, comments)

Settled(th, i) == th.steps[i] \in {"completed", "skipped"}
SettledPrefix(th) ==
  \A i, j \in DOMAIN th.plan :
    i < j /\ th.steps[j] # "pending" => Settled(th, i)
DependenciesDone(th) ==
  \A i \in DOMAIN th.plan : th.steps[i] = "completed" =>
    \A d \in th.plan[i].depends_on : th.steps[d] = "completed"

\* The step loop settles the steps in order: whatever was ever picked, every
\* step before it is completed or skipped, so one step at most is open, and
\* none completes before the steps it depends on, in whichever checkpoint a
\* restart finds.
StepsInOrder ==
  \A th \in {saved, thread, staged} : SettledPrefix(th) /\ DependenciesDone(th)

\* What each node of the step loop may rely on: nothing was executed when a
\* plan is published, nothing stopped while the loop goes on, exactly the
\* first open step is being executed, and no step is left open behind a plan
\* that is finalized without having stopped or reported as processed.
LoopShape(th) ==
  /\ th.next \in {"publish_initial_plan", "publish_revision_plan"} =>
       \A i \in DOMAIN th.plan : th.steps[i] = "pending"
  /\ th.next \in {"select_next_step", "execute_step"} => Stopped(th) = {}
  /\ th.next = "execute_step" =>
       th.idx \in DOMAIN th.plan /\ th.steps[th.idx] = "running"
  /\ th.next = "finalize_execution" /\ Stopped(th) = {} => Selectable(th) = {}
  /\ th.next = "wait_for_human" /\ th.result = "processed" =>
       /\ th.plan # <<>>
       /\ \A i \in DOMAIN th.plan : Settled(th, i)
StepLoopShape == \A th \in {saved, thread, staged} : LoopShape(th)

\* Rework is announced: whichever way run() entered the step loop of a
\* revision, the ticket says in progress when a step executes.
RevisionAnnounced ==
  AtNode("execute_step") /\ thread.analysis => status = "in_progress"

\* Before a run ends at the interrupt, the ticket went back to its author.
HandedBackBeforeWaiting ==
  AtNode("wait_for_human") /\ ~resuming => handed

\* Crashes and exceptions repeat a step, each at most once, and never one
\* whose end is durable for the same plan.
OnlyOpenStepsRun ==
  \A i \in DOMAIN saved.plan :
    /\ runs'[i] > runs[i]
    /\ saved.next \in {"select_next_step", "execute_step", "finalize_execution"}
    => saved.steps[i] \in {"pending", "running"}
RepetitionBounded ==
  [][OnlyOpenStepsRun /\ \A i \in StepNumber : runs'[i] <= 1 + aborts']_vars

\* A ticket that is assigned to the agent goes back to its author.
AssignedIsHandedBack == assignee = "agent" ~> assignee = "author"

\* As long as the ticket keeps being given to the agent, every comment
\* becomes part of the durable conversation.
CommentsReachConversation ==
  []<>(pc # "idle") =>
    \A k \in Comment : (comments >= k) ~> (saved.cursor >= k)

\* The detailed behaviour is one the agent promises: a run is what happens
\* while pc is not idle, and the durable conversation is the saved cursor.
Protocol == INSTANCE TicketProtocol WITH
  ingested <- saved.cursor, working <- pc # "idle"
RefinesProtocol == Protocol!Spec
=============================================================================
