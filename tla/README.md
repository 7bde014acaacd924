# taskboard-agent-orchestrator: verification project

taskboard-agent-orchestrator polls a Redmine for tickets assigned to an AI
agent, lets an LLM plan the work, executes the plan step by step with LLM calls,
tools and skills, reports every step as a ticket comment and finally assigns the
ticket back to its author. When the author answers and assigns it again, the
conversation goes on from a durable checkpoint.

This directory models the parts of it that are hard to test, checks them with
TLC on small instances and proves the most important results with TLAPS for all
instances.

## Inventory

| Component | State | Operations | Correct when |
| --- | --- | --- | --- |
| ticket conversation graph (`ticket_graph.py`) | one LangGraph checkpoint per ticket: next node, plan, step statuses, current step, journal cursor, conversation, last result | `run` and the ten nodes | no comment is lost or read twice; steps are settled in order and after their dependencies; durable steps are not repeated; every run ends with a handback |
| workflow (`workflow.py`) | none of its own | `run_once`: search, fetch, assignee check, event application, failure report | a ticket is touched only by a run that found it assigned; exceptions hand it back |
| Redmine client (`redmine.py`) | the ticket, in Redmine | search, fetch, update | an update is applied as a whole, but may raise after it was applied |
| daemon (`daemon.py`, `cli.py`) | stop flag, counters | the polling loop over the agents | stops on signals and limits, sleeps only when nothing was processed |
| task orchestrator (`task_executor.py`) | none | `execute_single_step`, recovery with one retry, tool policy | no write in a dry run on any path; a failure is retried at most once, a success never; the result tells the graph what the last call said |
| planner (`task_executor.py`, `structured_output.py`) | none | up to three attempts, normalisation, validation | only executable plans with backward dependencies get through |
| context engine (`context_engine.py`) | session checkpoint, recent turns | `prepare`, `_compact` | the prompt fits the window or the limit is reported; no turn disappears without a summary |
| artifact store (`artifacts.py`) | content-addressed files | `put`, `get` | a checkpoint refers only to what can be read; reading verifies; past versions stay |
| LinkAce client and web-briefing skill (`linkace.py`, `run.py`) | bookmarks, in LinkAce | look up, fetch, summarise, create or update | repeated runs register a page once; links outside the source list are left alone; the ticket is told what happened |
| web research skill (`run.py` and its tools) | queries, evidence, search log, evaluations of one run | plan, search, evaluate, compose | the evidence has every page once; a report rests on evaluated evidence; the budgets hold and the run ends |
| weekly docx skill | none | extraction, one summary | not modelled |
| configuration (`config.py`) | profiles | `load` | Redmine users are unique over all profiles |
| LLM, page fetcher, search, logging | none | I/O | not modelled |

How they interact: the daemon calls `run_once` for one agent after the other;
`run_once` calls `TicketConversationGraph.run`, which calls back with
`SkillEvent`s that `run_once` turns into Redmine updates *while the node that
produced them has not been committed yet*; LangGraph writes the checkpoints in the
background; the human changes the same ticket at any moment. Most of the hard
behaviour sits in those gaps, which is why this part was modelled first.
`PROJECT.json` lists the hazards with their lines.

## Plan

| # | Module | Contents | State |
| --- | --- | --- | --- |
| 1 | `TicketGraph` | graph, `run_once`, checkpoints, failures, one ticket | done |
| 2 | `TicketProtocol` | what the agent promises the author; `TicketGraph` implements it | done |
| 3 | `TicketGraphProofs` | inductive invariants, six safety invariants, one action property and the safety half of the refinement | done |
| 4 | `Journals` | which journals become conversation: agents' and humans', enabled and disabled profiles; three safety theorems in `IntakeProofs` | done |
| 5 | `Daemon`, `DaemonProofs` | several agents and tickets, signals, limits, dry-run, a raising `run_once`; four safety theorems | done |
| 6 | `StepExecution`, `StepExecutionProofs` | `execute_single_step`, recovery, retry, tool policy in dry-run; four safety theorems | done |
| 7 | `Planner`, `IntakeProofs` | from the LLM's reply to the executed plan, first plans and revisions; four safety theorems | done |
| 8 | `ContextEngine`, `ContextEngineProofs` | token budget, compaction and refusals over a whole conversation; three safety theorems and the budget arithmetic | done |
| 9 | `ArtifactLedger`, `ArtifactStore`, `ArtifactStoreProofs` | puts call by call under crashes, damage and power loss; refines a store written in single steps; three safety theorems and the refinement | done |
| 10 | `WebBriefing`, `WebBriefingProofs` | the skill and its LinkAce client against humans, lost answers, crashes and repeated runs; three safety invariants and one action property | done |
| 11 | `WebResearch`, `WebResearchProofs` | the research skill with its tools: searches, evidence, evaluations, budgets; three safety theorems | done |

Every safety invariant and every action property of the passing runs is also a theorem. What is
left is liveness, which the prover does not reach.

## Runs

| Run | Configuration | Distinct states | Properties |
| --- | --- | --- | --- |
| `ticket` | `MCTicketGraph.cfg` | 344,956 | `TypeOK`, `CommentsIngestedOnce`, `StepsInOrder`, `RevisionAnnounced`, `HandedBackBeforeWaiting`, `RepetitionBounded`, `AssignedIsHandedBack`, `CommentsReachConversation`, `RefinesProtocol` |
| `daemon` | `MCDaemon.cfg` | 155,014 | `TypeOK`, `BacklogNeverSleeps`, `StopIsPrompt`, `ChancesAccounted`, `TicketsAreServed`, `DaemonEnds` |
| `journals` | `MCJournals.cfg` | 613,626 | `JTypeOK`, `ConversationInOrder`, `LiveAgentsAreNotFeedback` |
| `journals_profiles` | `MCJournalsProfiles.cfg` | violated | `AgentsAreNotFeedback` |
| `step_execution` | `MCStepExecution.cfg` | 20,453 | `TypeOK`, `PolicyHolds`, `OutcomeIsLastCall`, `HandsBackOnlyIfStopped` |
| `step_raise` | `MCStepExecutionRaise.cfg` | violated | `FailuresBecomeResults` |
| `step_events` | `MCStepExecutionEvents.cfg` | violated | `StepEventsAreProgress` |
| `context` | `MCContextEngine.cfg` | 748,712 | `TypeOK`, `ConversationKept`, `PromptFits` |
| `planner` | `MCPlanner.cfg` | 10,976 | `TypeOK`, `PlanIsExecutable`, `FitsTicketGraph`, `NothingGuessed` |
| `briefing` | `MCWebBriefing.cfg` | 1,364,374 | `TypeOK`, `RepeatsAreHarmless`, `ReportIsTrue`, `MovedLinksAreLeftAlone` |
| `artifacts` | `MCArtifactStore.cfg` | 528,673 | `TypeOK`, `ReferencesResolve`, `RefinesLedger` |
| `research` | `MCWebResearch.cfg` | 111,123 | `TypeOK`, `EvidenceOnce`, `ReportRestsOnEvidence`, `RunEnds` |

The sections of the modules say what each property means and why its bounds are enough.

## TicketGraph

One ticket, its author, the agent's process.

| Variable | Code |
| --- | --- |
| `assignee`, `status`, `comments` | the Redmine ticket: `assigned_to`, the status ids of the configuration, the number of human journals with notes |
| `thread` | the checkpoint the running invocation works on (`TicketState` and the next node) |
| `saved` | the newest checkpoint in SQLite; LangGraph writes in the background, so it may lag behind `thread` |
| `staged`, `outbox` | what a node has computed but not returned: its update of the state and the events it has still to emit |
| `pc`, `fetched`, `resuming` | where `run_once` is, the journals in the issue it fetched, whether this invocation answers the interrupt |
| `handed`, `runs`, `aborts` | ghosts: handed back since the last resume, executions of each step of the plan, failures so far |

A node is one action that stages its result; its events go out one `Emit` at a
time; `Commit` makes the result the next checkpoint; `Flush` makes it durable.
Between any two of these `RunRaises`, `EmitRaisesApplied` (Redmine applied the
update and the call still raised) and `Crash` may happen. An exception leads to
`ReportFailure`, which itself may raise (`ReportFailureRaises`).
`RunRaises` keeps the older durable checkpoint only for the case that the
background write was what failed.

Abstractions:

- Comments are counted, not spelled: the journals the agent writes never enter
  the conversation again, so the cursor is the number of human comments at or
  below the journal id the code stores.
- A plan is a sequence of steps with `unavailable` and `depends_on`; the empty
  plan is the `needs_user` plan. `missing_tool` is `needs_user`: the loop treats
  them alike. `already_done` and `dry_run` are `processed`.
- Events of one node that have the same effect in a row are one.
- The author is not the agent. `issue_id` given on the command line, dry-run
  (which keeps its thread in memory) and other tickets are left to `Daemon`.
- LangGraph stores the input of a new thread before `initialize` runs, and the
  answer to an interrupt before `wait_for_human` commits. A crash in either
  window makes the next run work with the journals fetched by the earlier one;
  the model lets it work with its own. The comments in between are then read one
  run later, since the cursor is taken from the same fetch.

### The run

`ticket` (`MCTicketGraph.cfg`): plans without steps, with two steps of
which the second needs the first, and with an unavailable step followed by one
that needs it; two comments, two failures. 344,956 states. Two steps are enough
for every relation the invariants state (a step and an earlier one, a stopped
step and one behind it); two comments separate "read twice" from "read late"; two
failures allow a failure during the recovery from the first.

- `CommentsIngestedOnce`: every checkpoint that a restart may fall back to holds
  each comment up to its cursor exactly once.
- `StepsInOrder`: steps are settled one after the other, and none runs before the steps it
  depends on are completed (`DependenciesDone`), in every checkpoint.
- `RevisionAnnounced`: a revision never executes a step on a ticket that does not
  say in progress, even when it is resumed inside the loop.
- `HandedBackBeforeWaiting`: a run ends at the interrupt only after the ticket
  went back since the graph last left it.
- `RepetitionBounded`: a failure repeats a step at most once, and never one whose end is
  durable.
- `AssignedIsHandedBack`: a ticket assigned to the agent comes back to its author.
- `CommentsReachConversation`: for a human who keeps giving the ticket to the agent, every
  comment becomes part of the durable conversation.
- `RefinesProtocol`: runs map to the runs of `TicketProtocol`, whose fairness says that no run
  lasts for ever.

The event table of `docs/langgraph-ticket-graph.md` gives a running step nothing but
`progress`. `_execute_step` passes the `final_review` or `final_return` of a step that
stops the loop through: the ticket goes to its author during the step and once more in
`finalize_execution`. The model does the same, and `TicketProtocol` allows it. The divergence is
that of the run `step_events`.

Deadlock is checked in all runs of all modules but `StepExecution`, whose steps end:
elsewhere humans can always act.

### Fairness

`WF_vars(AgentStep)`: a run that can go on does, and a ticket that stays assigned
is picked up, because the daemon polls without end and is restarted when it dies.
The restart is an assumption about operation, the polling is `run_daemon`'s loop.
Nothing is assumed of the human or of the background writer, and failures are
bounded by `MaxAborts`: the liveness results say what happens once they stop. A
failure that returns on every run (an LLM that never produces a valid revision
plan) is outside them.

### Bounds

`MaxSteps`, `MaxComments` and `MaxAborts` bound the plan, the comments and the
failures; the theorems hold for every value of them and every set of plans that
satisfies `PlanAssumption`, which is what `validate_task_plan` accepts.

## Daemon

`run_daemon` and the part of `run_once` that decides which ticket is worked on:
several profiles, several tickets, one process.

| Variable | Code |
| --- | --- |
| `assignee`, `updated` | Redmine: who a ticket is assigned to, and its rank by `updated_on`, 1 for the oldest, in which order the search returns them |
| `pc`, `agent`, `ticket` | the place in the loop, the profile whose turn it is, what the search returned |
| `limit`, `dry` | `--max-iterations` (0: none) and `--dry-run`; the parser refuses a dry-run daemon without a limit |
| `iterations`, `processed`, `no_issue` | the counters of `DaemonResult`, kept only when a limit is given |
| `worked`, `stop` | `processed_in_iteration`, `stop_requested` |
| `late`, `backlog` | ghosts: runs begun after the stop request; tickets waiting since the iteration began that nobody took away |

A run is three actions, as in the code: `Search` (one ticket, oldest update first),
`Fetch` with the assignee check, and `Work`, which is all of `TicketGraph` in one
step: it gives the ticket back to a human and touches it, or leaves it alone in a
dry run. Between them humans reassign and comment, and a signal may come between
any two steps. Nothing in the code catches what `run_once` raises, so `Raise` ends
the process; that a ticket was reassigned between search and fetch is one of the
reasons and needs no error of Redmine.

Abstractions: time is left out, so a sleep is a step; the signal handler only sets
the flag, and the sleep ends by itself. A run that ends without a single Redmine
update (the one that finds its interrupt reached by a run that crashed right after
the last commit) is left to `TicketGraph`.

`daemon` (`MCDaemon.cfg`): two profiles, two tickets, no limit or one or
two iterations, one comment, one raise. 155,014 states.

- `BacklogNeverSleeps`: the process never sleeps on a ticket that was there when
  the round began; one flag is shared by all profiles of the round.
- `StopIsPrompt`: a signal lets at most the run through whose stop check is past.
- `ChancesAccounted`: `processed` and `no_issue` together count one chance for each
  profile in each round, `--max-iterations` bounds the rounds, and a dry run cannot
  process the same ticket without end.

- `TicketsAreServed`: a ticket that stays with an agent is worked on although others
  keep coming back, because the search is ordered by the oldest update. Two tickets
  are what starvation needs: one that waits and one that returns.
- `DaemonEnds`: a signal or a limit ends the process.

Fairness: `WF_vars(DaemonStep)`, the process runs and its calls return (the
Redmine client has a timeout, the LLM one if it is configured), and `WF_vars(Restart)`, the operator restarts a daemon that died.
Nothing is assumed of humans, signals and errors. `TicketsAreServed` excludes a
daemon that dies again and again: a ticket whose every update is refused is the
oldest after each restart and would hold up the tickets behind it for ever. That is
a hazard of the code and not a case the model decides.

## Journals

`TicketGraph` counts the comments of humans. `Journals` opens that up: which
journals become which turns of the conversation, under which role, in which order.

| Variable | Code |
| --- | --- |
| `journals` | Redmine's journals, each with its user and whether it has notes; the id is the position |
| `enabled` | `ai_user_ids`, which `build_runtime` takes from the enabled profiles |
| `turns`, `cursor`, `started` | `recent_turns` after the issue, `last_ingested_journal_id`, whether a checkpoint exists |
| `fetched`, `phase`, `answers` | the journals in the fetched issue, idle, fetched or working, the number of recorded answers |
| `lapsed` | ghost: agents that were ever disabled |

`Initialize` takes over the whole history (`_initial_conversation_turns`),
`WaitForHuman` only the humans' journals above the cursor (`_resume_payload`), and
both set the cursor to the last journal of the fetch, while humans and the agent
itself go on posting. `RecordAnswer` is `_record_assistant_turn`. `Reconfigure` is a
restart with other profiles enabled. The conversation is not compacted here.

`Extended` adds one journal to a conversation: an agent's is a turn of its own, a human's joins the
user turn that is open. `Turns` does that for the first `n` journals, as a recursive function that a
proof can reason about. `_initial_conversation_turns` is `Turns` for the agents' and the humans'
journals with notes; the comments that answer an interrupt are the set `Feedback`, which `Turns`
without agents joins to one turn, as `_resume_payload` does. The definitions have a J in front
(`JSpec`, `JTypeOK`) because `IntakeProofs` extends `Journals` together with `Planner`.

A ticket may have a history from before its conversation: the checkpoint database
may be new or lost, or another database's agent worked on it. Without one the
agents' journals in an initial history would never be seen, since an agent posts
only after its conversation started.

`journals` (`MCJournals.cfg`): one human, two agents, a history of up to three
journals, four journals in all, three answers. 613,626 states. Three journals are
the shortest history in which two turns of a human enclose one of an agent; three
answers give two resumes, so a journal can be met by two of them.

- `ConversationInOrder`: what the humans said up to the cursor is in the conversation,
  none missing and nothing else of theirs (`EveryCommentHeard`); and the turns follow the journals,
  inside a turn and from turn to turn, also where an initial history mixes agents and humans, so
  that no journal is told twice, not even in two roles after the profiles changed (`Ordered`).
- `LiveAgentsAreNotFeedback`: an agent that was always enabled is never taken for a
  human.

`journals_profiles` (`MCJournalsProfiles.cfg`) is expected to be violated:
`docs/agent-profiles.md` and ADR 0007 promise that no configured agent's comment is
taken for feedback, but `ai_user_ids` holds the enabled profiles only
(`cli.py:174`, `config.py:108`), so what an agent wrote before its profile was
disabled comes back as a user turn and makes the next run analyse it as feedback.

## StepExecution

`TicketGraph` chooses the outcome of a step. `StepExecution` says how it comes about:
`execute_single_step` with its LLM, tool and skill branches, the one retry of a failed
tool step, the merging of the two results, and the tool policy in front of every call.

| Variable | Code |
| --- | --- |
| `step` | the `TaskStep` and what is true of its tool: the kind of step, the risk and `dry_run_safe` of the tool's metadata, what the repair of the arguments finds (`repair`), whether required arguments beyond the query are there (`complete`) |
| `dry` | `dry_run` |
| `catalog` | whether the tool can be loaded: present, missing (an expected `ToolExecutionError`) or broken (any other exception while its script is loaded) |
| `pc` | `ready`, `skill` while a skill makes its calls, `assess` before `_needs_failure_recovery`, `done`, or `raised` when an exception leaves the function |
| `calls`, `writes` | ghosts: the calls made with their arguments and answers, the changes made to another system |
| `status`, `events` | the `SkillExecutionResult` |

Abstractions:

- Arguments are told apart by their source: as planned; with fields removed, coerced
  or taken from an artifact; with a query found in the context; with another query found
  in the text of the failure. That is what the retry's comparison and the validation
  depend on. The order in which the repair looks at its sources decides which of them a
  real step uses; the model lets it be any that the source kind allows.
- A call answers ok or not ok, raises an error the code expects, raises another
  exception, or is refused by the policy. A write that did not answer ok may have been
  applied.
- A skill makes any number of calls up to the bound `MaxCalls`, each under the policy; the
  LangChain loop that chooses them is not modelled.
- What a skill ends with is any status with the events its own code or
  `_to_skill_execution_result` gives it (`SkillResults`): a failure may end with a review or a
  return, with comments before it or not. All comments of a scripted skill are posted when it
  has ended.
- The `start` event is left out: it never hands the ticket back.

A settled or raised step ends, so deadlock is not checked here (`CHECK_DEADLOCK FALSE`).

`step_execution` (`MCStepExecution.cfg`): every step, tool and catalog, dry or not, skills
with up to two calls (enough for a success that is followed by a failure). 20,453 states.

- `PolicyHolds`: a dry run changes nothing on any of the four paths that lead to a call
  (first attempt, retry, agent, script), although the loader, the policy and the tool each
  decide about it; what wants an approval is never called.
- `OutcomeIsLastCall`: the retry follows a failure only (`SuccessIsNotRepeated`), and a step
  that was repaired is completed while no failure passes for a success (`SettledAsLastCall`).
- `HandsBackOnlyIfStopped`: after merging and downgrading, the events hand the ticket back only
  where the graph leaves the loop, and those of a tool step only if none of its calls succeeded.
  A merged result still has the final events of the failed attempt; this says that they do no harm.

Two runs are expected to be violated.

- `step_raise` (`MCStepExecutionRaise.cfg`, `FailuresBecomeResults`): `docs/architecture-current.md`
  has each step's status, result and error saved, `failed` if its execution failed.
  `execute_single_step` catches every exception of the first attempt, but the retry runs outside
  that `try` and catches `ToolExecutionError` and `RuntimeError` only. The run starts from tools
  that can be loaded (`LoadableSpec`). In its trace both calls raise something else, such as a
  validation error: the first becomes a failed result, the second leaves `execute_single_step`, and
  the step has no result.
- `step_events` (`MCStepExecutionEvents.cfg`, `StepEventsAreProgress`): the event table of
  `docs/langgraph-ticket-graph.md` lets what `execute_single_step` returns reach the ticket as
  `progress`. In the trace a step fails and hands the ticket back itself.

`TicketGraph` gives a stopping step one event that hands back and the other steps none. The second
half is `HandsBackOnlyIfStopped`; the first, what the code does and the table does not say, is the
theorem `StoppedHandsBack`.

The compatibility path `execute_plan` is not called by the graph and not modelled.

## ContextEngine

What the LLM is shown of a long conversation: `ContextEngine.prepare` and `_compact`,
together with the nodes of the graph that call them and that record turns.

| Variable | Code |
| --- | --- |
| `window` | `context_window_tokens` of the agent whose run it is |
| `pc` | the node that comes next: planning (`initial_plan`, `analyze_feedback`), `execute_step`, `finalize_execution` or the interrupt |
| `fixed`, `refs` | the sizes of working memory and artifact catalog, which are in every prompt |
| `summary`, `turns` | `session_checkpoint` (the last turn it stands for, its size) and `recent_turns` (number and size of each) |
| `refusal` | the `ContextEngineError` of the last preparation: `limit` is `ContextLimitExceeded`, `whole` and `reply` are those of `_compact` |
| `said`, `prompt` | ghosts: turns ever recorded, size of the last prompt the agent used |

`Prepared` is the set of results of `prepare`, in the order of its checks: a turn or an
artifact that alone exceeds the budget, the prompt as it is, nothing old to compact, an
invalid summary, the compacted prompt measured again. `Plan` and `ExecuteStep` take over
summary and turns together or, on a refusal, neither; then they ask the human.
`OtherAgent` is why `window` is a variable: all agents share the checkpoint database,
and a human may give the ticket to an agent with another window, at any node a run
ended or failed at.

Abstractions:

- Sizes stand for texts. The sizes of messages add up; what LiteLLM counts for roles and
  separators belongs to the sizes. The percentages are rounded down as `int` does.
- Turns are numbered by their place in the conversation. Their ids, of which
  compaction makes the agent repeat some, are labels that nothing reads.
- A step selects at most one artifact. The system prompt and the catalog of tools and
  skills that the callers put before the prepared messages are not part of the model, as
  the code does not count them in its budget either.
- A node that raises commits nothing and is no step here; `TicketGraph` has it.
- The history a conversation starts with is the issue and at most one turn.

`context` (`MCContextEngine.cfg`): windows of 8192 tokens, where the recent budget equals
the input budget, and of 12288, where there is room beside it; turns that fit three times
into the recent budget, once, and not at all (of which the last is kept if it is the newest, or
refused in the smaller window); up to six turns, so that a summary is replaced
by the next one; two references, with which a prompt grows without a new turn.
748,712 states.

- `ConversationKept`: each turn is told once, verbatim or in the summary, whatever sequence
  of compactions, refusals and changes of the agent (`EveryTurnKept`); and the human's request
  is in every prompt of its run word for word (`RequestVerbatim`).
- `PromptFits`: no prompt exceeds the window less the output reserve and the buffer
  (`WithinWindow`); and where the turns are within the recent budget and working memory,
  catalog and summary leave room for that budget, a ticket is never refused for its length
  (`SmallTurnsAccepted`).

## Planner

Where `TicketGraph` takes a plan, `Planner` makes it: a reply of the LLM is read, its names are
normalised, it is validated, and a decision without steps becomes steps. First plans
(`LiteLLMTaskPlanner.plan`) and revisions (`_analyze_feedback`) do the same with different
tools: a revision does without `redmine_add_comment`.

| Variable | Code |
| --- | --- |
| `path` | which of the two nodes plans |
| `refs` | the ids in `artifact_refs` of the session |
| `pc`, `attempt` | asking, with a plan, or raised after three attempts |
| `plan` | `current_plan` |
| `reply` | ghost: the reply the plan was made from |

`Accept` is a whole attempt that succeeds (`Valid(Normalized(r))`, then `Executable`), `Reject`
one that fails, `PlanAgain` the next run after an exception, `Execute` the growth of the
session while the plan is worked on, `Revise` a human's comment.

Abstractions:

- A name as the LLM wrote it is the set of registered names that occur in it as whole words,
  and whether it is just that name. Registered names do not contain one another.
- Replies that `parse_task_plan` or `_parse_revision_plan` cannot read are one kind of invalid
  reply, which is always possible; so are the exceptions that the two paths catch.
- Reason, purpose, arguments, target and limitations of a plan decide nothing here.
- The plan is stored as JSON and read again by every node. The texts that are stored were
  stripped when they were first read, so reading them again changes nothing the model has.
- What a retry's prompt says of the previous reply is left out.

`planner` (`MCPlanner.cfg`): one skill, three tools, two artifacts; all replies without steps and
with up to two tool names, all single steps under all kinds of names (exact, decorated,
ambiguous, of the wrong catalog, excluded, unknown, none) and pairs of steps with
dependencies and artifacts. Three tools are two for an ambiguous name besides the excluded one; two steps have
every kind of dependency (backward, own, forward, double). 10,976 states.

- `PlanIsExecutable`: every step of an accepted plan can be executed as long as it is the plan, also those
  nobody validated because they were made from a decision.
- `FitsTicketGraph`: the contract between the two modules, what `PlanAssumption` says of a plan.
- `NothingGuessed`: a step names what the LLM wrote, in the step itself or, if the reply has none,
  as the skill or the tool names of its decision, and never one of several candidates
  (`OnlyReading`); normalisation never brings the tool back that a revision does without
  (`SilentRevision`).

A plan that is `needs_user` and has steps is accepted, and its steps are executed; the model has
it too.

## WebBriefing

The skill `web-briefing-bookmark` request by request, its `LinkAceClient`, and the LinkAce that
both share with humans. A run may end at every request: by an error, by an answer that never
arrives although LinkAce did what was asked, or with the process. `TicketGraph` then repeats the
step, or a human has the page processed again, so runs follow each other without end.

| Variable | Code |
| --- | --- |
| `links`, `made` | LinkAce: its links by id, the last id |
| `pc`, `tool` | the request that comes next, and which of the two tools `find_link` is looking up for |
| `target`, `final` | `target_url` of the ticket, `final_url` after redirects |
| `candidates`, `existing` | in `find_link`: the hits that are still to be fetched; its result |
| `status` | of the `SkillExecutionResult`, or `crashed` |
| `dry` | `context.dry_run` |
| `filed`, `written`, `mark`, `disturbed` | ghosts: how often humans put a link into the source list, how often the agent updated it, the link this run wrote, the links that humans edited since the agent last saw or wrote one |

`Known` is what `run` does after `linkace_find_link`, `Decide` what `add_link` does after its own
lookup; `Update` and `Create` are its two writes. `Bookmark`, `Refile`, `Retarget` and `Remove`
are the humans.

Abstractions:

- A page is its URL, and a description says whose briefing it is. Title, tags and visibility
  are left out. LinkAce does not refuse a second link for a URL.
- Any page may redirect to any page, at any time.
- The comments of the skill are left to `StepExecution`; a result without an action, which
  `BookmarkResult` never is, is left out.
- A write whose answer is lost was applied or not when the call ends. One that LinkAce
  applies later, after the next lookup, would be made twice.
- One process works on one ticket at a time, as the daemon does.
- `SummarizedList` is not the source list (`ListsDiffer`). The configuration does not check it;
  otherwise every run would update the link again.

`briefing` (`MCWebBriefing.cfg`): two pages, three links, three edits by humans, any number of
runs. 1,364,374 states up to a permutation of the pages. Two pages are what a redirect needs; three links allow one by the agent beside two
for the same page by humans; three edits allow a link to leave the source list, to come back and to
change again within a run.

- `RepeatsAreHarmless`: the agent makes at most one link for a URL, and updates a link at most once
  for each time a human filed it under the source list.
- `ReportIsTrue`: `processed` and `already_done` say what is in LinkAce unless a human changed it
  since, and only a failure may leave a change behind that is not reported.
- `MovedLinksAreLeftAlone`: a link that left the source list, also during the long time of
  fetching and summarising, is not overwritten. The exception is an edit between the last two
  requests of `add_link`, which LinkAce's API offers no way to exclude.

If the ticket's URL redirects, the link of the ticket's URL stays in the source list, because the
skill registers the final one, as `SKILL.md` prescribes; so does the model.

## ArtifactStore

What a checkpoint refers to must be there when the checkpoint is, whatever was cut short in
between. `ArtifactStore` is `FileArtifactStore` call by call, under the nodes that put artifacts,
put their references into the session and read them again in a later run.

| Variable | Code |
| --- | --- |
| `file` | `<id>.json` of each artifact: absent, part of the envelope, complete in the cache of the operating system, complete on disk, or damaged |
| `temp` | the temporary file of `put` |
| `pc`, `node` | where the process is in its node and in `put`; the artifacts the node has put and has still to put, and the logical name they get |
| `thread`, `saved` | `artifact_refs` and `active_artifacts` of the session: the running one and its newest durable checkpoint |
| `read` | what the last `get` of a node at work answered |
| `spoiled` | ghost: artifacts whose file something else than the program took away |

`PutExisting`, `MakeTemporary`, `Write`, `Sync` and `Replace` are the calls of `put`;
`Commit` is the return of the node, `Flush` LangGraph's background write of the checkpoint.
Between any two calls a process may fail or die (`Abandon`), the power may go (`PowerLoss`), and
someone may edit or delete a file (`Damage`).

`ArtifactLedger` is what ADR 0008 promises: a store that is written in single steps and answers
with exactly what was put or not at all, and sessions that refer to nothing that was never stored.
`RefinesLedger` maps it: an artifact is stored when a reader accepts its file. `VersionsStable` of
the ledger is the promise of `docs/langgraph-ticket-graph.md` that past versions stay.

Abstractions:

- An id is the hash of a content; hashes are taken to be unique, so a content is its own id.
- Temporary files have random names: an orphan is in nobody's way and not part of the state.
- A power loss loses what was cached, and it may undo a rename although the file itself was
  synchronised, because `put` does not synchronise the directory. What is lost that way is
  `spoiled`, which the properties except.
- Checkpoints are synchronised when SQLite commits them.
- Each process works on a ticket of its own. Two processes on the same ticket are excluded by
  operation (ADR 0006, ADR 0007), and only what they share, the directory, is modelled.
- The in-memory store of a dry run lives and dies with its checkpoints and is left out, and so is
  the migration of sessions that still carry their artifacts inline.

`artifacts` (`MCArtifactStore.cfg`): two processes, two artifacts, two artifacts per node, one
logical name with up to two versions. 528,673 states up to permutations. Two processes meet in the
same put; two artifacts per node are one that is there and one that is not, or the same twice; two
versions are an old and a new one.

- `ReferencesResolve`: what a session, running or durable, refers to can be read, but for what was
  spoiled; and a file that exists is whole, which is what lets `put` take it for the artifact.
- `RefinesLedger`: every behaviour is one of the ledger.

## WebResearch

The skill `web-research-report`: `run.py` from the ticket's topic to the report, with what its four
tools accept, refuse and filter.

| Variable | Code |
| --- | --- |
| `pending`, `executed`, `ranQuery` | `pending_queries`, `executed_queries`, `ran_query` |
| `seen`, `collected` | `seen_urls`, `collected_results` |
| `searchLog`, `history` | `search_log`, `evaluation_history`; a ghost adds to each evaluation what it was given |
| `pc`, `status` | where `run` is; the status of its result |
| `found` | ghost: the pages that successful searches returned |

A search that fails is logged and the next one made (`SearchFails`); any other tool that fails ends
the run (`ToolFails`). `SearchesEnd` is the end of the inner loop with its two ways to give up,
`Evaluate` one evaluation with the decision about another round.

Abstractions:

- A query stands for its normalised text, a page for its canonical URL. Which of the pending
  queries is next is left open; the code takes them in the order of the plan.
- What the model thinks of (plans, verdicts, additional queries) and what the search engine
  finds is chosen freely within what the tools let through.
- Purposes, texts and the report itself are left out, and so is that prompts are cut
  at a number of characters. A dry run only names the status; no tool of the skill writes.

`research` (`MCWebResearch.cfg`): four queries, two pages, two results for a search, three searches,
two evaluations. 111,123 states. Four queries are one more than the budget, so that it is met with
queries left over; two results are what the same page twice in one search needs, and three searches
allow one before and one after an evaluation besides one that fails. The real budgets are constants
of the code; the theorems hold for all of them. A run ends, so deadlock is not checked.

- `EvidenceOnce`: whatever searches find again and whichever fail, the evidence has every page
  found, once, and the log tells truly what was tried and what succeeded.
- `ReportRestsOnEvidence`: a report is written only on evidence that was evaluated as a whole; no
  evaluation is repeated without another search in between; both budgets are kept.
- `RunEnds`: under `WF_vars(Next)`, which says that every tool answers: the requests have timeouts,
  and the rest is a loop of the process itself.

## Known limitations of the code

Disagreements and weak points met while modelling, besides the three runs that are expected to be
violated. None of them contradicts a property that is checked.

- *A retry may repeat the failed call.* The comment that announces it (`task_executor.py:808`) says
  that the arguments were corrected in the light of the failure.
  `_retry_tool_step_after_failure` compares them with the plan's and not with those of the call that
  failed, which `_run_tool_step` had repaired in the same way: a write whose answer was lost is sent
  a second time unchanged. `RetryIsCorrected` of `StepExecution` states it; as the `INVARIANT` of
  `MCStepExecutionRaise.cfg` it is violated.
- *Dividing the input does not help.* A turn above the input budget stays among the recent turns,
  and `prepare` looks at all of them before it compacts, so the ticket is refused whatever the human
  answers. `DividingHelps` of `ContextEngine`; as an `INVARIANT` of `MCContextEngine.cfg` it is
  violated.
- *A damaged artifact is not repaired.* `put` takes any file of the right name for the artifact;
  `get` notices the damage, but no later `put` of the same content replaces the file (a deleted one
  it does). And no handler expects an `ArtifactError` (`ticket_graph.py:502`): the run fails, and so
  does each one that resumes there.
- *The directory is not synchronised* after `os.replace`: a power loss may leave a durable checkpoint
  that refers to a file that is not there. The model has it.
- *Resuming the first run inside the step loop announces nothing* (`ticket_graph.py:188` asks for a
  revision), so the ticket may not say that work goes on.
- *Ids of assistant turns repeat*: they are numbered by the length of `recent_turns`, which
  compaction shortens (`ticket_graph.py:859`). Nothing reads them.
- *Research:* the canonical URL drops the query string, so pages that differ only there count as one;
  a page whose first fetch failed counts as seen, so a later successful fetch of it is dropped; a
  report may rest on successful searches that returned no page at all; a failed evaluation
  discards the evidence collected so far.

## Proofs

Every inductive invariant below was first checked by TLC as an invariant of the run of its module.

`TicketGraphProofs` proves `TypeOK`, `CommentsIngestedOnce`, `StepsInOrder`, `StepLoopShape` (what
each node of the loop may rely on, which no run checks by itself), `RevisionAnnounced`,
`HandedBackBeforeWaiting`, the action property `RepetitionBounded` and the safety half of
`RefinesProtocol` from `PlanAssumption` and `BoundAssumption`.

None of the three about checkpoints is inductive alone. Order needs to know that nothing has stopped
while the loop goes on and that the step being executed is the running one (`StepLoopShape`); that
`finalize_execution` reports `processed` only over settled steps needs order, because a stopped step
must be the first one for `FinalStatus` to find it. And all of them must hold of every checkpoint a
restart may return to, not only of the newest. The invariant `IInv` is therefore `Good(th,
comments)`, the conjunction of all of them for one checkpoint, stated for `saved`, `thread` and
`staged`. `Good` is a property of a checkpoint and not of the state, so the argument splits in
three: a lemma per node (`SelectedGood`, `RecordedGood`, `FinalizedGood`, `PlannedGood`,
`IngestedGood`) says that the node makes a good checkpoint of a good one; `CommitNowIInv` and
`EmitThenCommitIInv` lift it to the step; every other action only copies one of the three
checkpoints over another (`CopiesIInv`), so crashes and restarts need no argument of their own.

The other three properties relate a checkpoint to what happened outside it: the ticket, and the
ghosts that remember handbacks and executions. `HInv` says how, as five parts beside `IInv`.
`Copies`: outside a node there is nothing staged, and between two runs nothing that is not durable.
`Forward`: cursor and steps only move on from the durable checkpoint to the running one and from
there to the staged one. `HandBackOwed`: where the next node is the interrupt, the handback is done
or still in the outbox. `AnnouncementOwed`: where the next node belongs to the step loop of a
revision, the ticket says in progress or the event that says so is in the outbox. `RunsPaid`: a step
was executed at most once more than there were failures, and one that is still open at most as often
as there were failures. Properties of that kind are disturbed where a checkpoint and an event part:
`EmitThenCommitHInv` shows that what is owed goes out before the commit that relies on it,
`HandBackMoves` that a handback is forgotten only by leaving the interrupt, and `AbortHInv` that
each failure pays for the repetition it causes.

`SafetyRefinement` takes the mapping of `RefinesProtocol` and shows `InitRefines` and `NextRefines`:
an event of a run is a step `Work` of the protocol (`WorkRefines`, `ApplyRefines`), the author's
actions are the author's, a run that begins or ends is one that begins or ends, and a node, commit
or flush at most moves the durable cursor, which is `Work` too. Both invariants are needed:
`Forward` lets the durable cursor only grow, `Good` bounds it by the comments there are, `Copies`
says that nothing is flushed between two runs. The protocol's fairness, that every run ends, is left
to TLC.

`DaemonProofs` proves `TypeOK`, `BacklogNeverSleeps`, `StopIsPrompt` and `ChancesAccounted` of
`Daemon` for every number of profiles, every finite set of tickets, every limit and any number of
comments and errors, from `DaemonAssumption`. `BacklogNeverSleeps` speaks of the end of a round;
`BacklogAhead` says what holds inside it: unless the round has worked on something, each ticket of
the backlog is assigned to a profile whose turn is yet to come, or to the one at work whose search
has not returned empty. That an empty search means an empty queue is `FirstIsOne`: the ranks of the
waiting tickets have a least one, by the well-foundedness of the naturals (`LeastNumber`), and only
one ticket has it, because an update keeps the ranks distinct (`TouchedOrder`). `OneLateSearch`
places the one late run: it is being searched for while the stop request is set, and no other
begins. `ChancesCounted` goes on counting where `ChancesAccounted` excepts a daemon that died, and
`RoundArithmetic` is the step from the last profile of one round to the first of the next.

`StepExecutionProofs` proves `TypeOK`, `PolicyHolds`, `OutcomeIsLastCall` and
`HandsBackOnlyIfStopped` of `StepExecution` for skills of any number of calls. `SuccessIsNotRepeated` needs to know that the
status a tool step is assessed by is that of its only call, because the retry looks at the status
and not at the call; `HandsBackOnlyIfStopped` rests on that too. `StoppedHandsBack`, the converse
that `TicketGraph` relies on, needs that every assessed result already has a final event, because
recovery only puts events behind it. `IInv` adds these two relations (`ToolShape`,
`FinalShape`), and `SettledIInv` and `ToolCallIInv` carry it over the two ways in which a result
comes about, without and with a call. No assumption beyond `StepAssumption` is used.

`ContextEngineProofs` proves `TypeOK`, `ConversationKept` and `PromptFits` of `ContextEngine` for
all windows, sizes and lengths of the conversation, from `SizeAssumption`. That no turn is lost
needs nothing of the sizes: `FirstKeptInTurns` bounds the first kept turn by counting alone,
`CompactedKeepsTurns` shows for whatever turn that is that summary and turns still meet, and
`PreparedKeepsTurns` extends it to every result of `prepare`. `IInv` adds that there is always a
turn, without which a session could be compacted to nothing. `RecentWithinBudget` is the arithmetic
of the two budgets: from 8192 tokens on, the turns that compaction keeps do not exceed the input
budget, apart from a newest turn that is larger alone; it needs no state.

`PromptFits` compares sums of sizes, and a sum over a sequence is recursive. `Newest` is therefore a
recursive function on the number of turns counted, added up from the newest one as `_compact` does.
The library's induction theorems take an operator, which the provers cannot instantiate; the lemmas
take the least number of turns that would be against them instead (`LeastNumber`). `SumsExist` and
`SumsAgree` show that the recursion defines one function, `NewestAddsUp` its equations,
`NewestGrows` that the sums are numbers that grow with the turns, and `NewestOfRest` that dropping
old turns leaves the sums of the newest ones alone. `KeptFitsRecentBudget` then knows the set whose
size `FirstKept` takes: the counts that fit are an interval, because the sums grow, and its largest
member has the turns that are kept. `PreparedWithinBudget` and `SmallTurnsFit` are the two halves of
the property.

`IntakeProofs` is about what the ticket takes in, plans and comments. It proves `TypeOK`, `PlanIsExecutable`, `FitsTicketGraph` and `NothingGuessed` of
`Planner` for every catalog and every set of replies. A plan matters only through
`Valid(Normalized(r))`: `CanonicalUnderstood` says what a normalised name has to do with the written
one, `DecisionBecomesSteps` carries the validity of a decision over to the steps made from it,
`DecisionUnderstood` that their names are those the decision was written with, and `AcceptedGood`
puts these together. `IInv` separates what holds of the current plan (`GoodPlan`, which depends on
the path and the artifacts) from what holds of the last one too (`Backward`), because a revision
begins while the old plan is still stored. With `PlansFitTicketGraph` the
assumption of `TicketGraphProofs` is a theorem of the module that supplies the plans.

It also proves `JTypeOK`, `ConversationInOrder` and `LiveAgentsAreNotFeedback` of `Journals` for all
sets of users, histories of any length and any number of answers, from `JournalsAssumption`. What
`Turns` returns needs an induction over the journals, which the lemmas do as a search for the least
number against them (`FirstAgainst`): `BuiltExist` and `BuiltAgree` show that the recursion defines
one function, `TurnsExtend` its equations. `ExtendedTalk` is the step of that induction, one journal
more at the end of an ordered conversation, and `TurnsTalk` the result: the turns are in order, are
about the first `n` journals only, and tell in each role exactly the journals they were made from.
`TalkJoined` puts a resumed conversation together from what was told and the new turn. The invariant
`JInv` adds what makes that possible: no turn holds a journal beyond the cursor (`Talk`), so neither
a journal still to come nor one posted between fetch and cursor can disturb the order, and the next
feedback lies wholly behind what was told. `Listened` says what the cursor stands for, in both
directions: a user turn holds only journals with notes of a human or of an agent that was disabled
at some time, and each comment of a human up to the cursor is in one. A thread without a checkpoint
has neither turns nor cursor, and no run is at work without a checkpoint; otherwise `Initialize`
would replace turns that were told. `JInv` was checked by TLC on the instance of the run `journals`.

`WebBriefingProofs` proves `TypeOK`, `RepeatsAreHarmless`, `ReportIsTrue` and the action property
`MovedLinksAreLeftAlone` of `WebBriefing` for any number of pages, links, edits and runs. "One link
per URL" holds at a creation only because the search just before it would have found the agent's own
one; `Lookup` carries that from the request that searches to the one that writes, past the humans,
who may rename or delete the hits but make no link the agent's. "Updated once per filing" needs
`Pending`: a link in the source list has been filed since its last update, and so has the one that
add_link has decided to update, even if a human has moved it since. `EditedIInv` is the one lemma
for all edits, `QuietIInv` the one for all steps that leave LinkAce alone, and `FindLinkReturnsIInv`
the one for both callers of `find_link`. A second invariant, `Report`, carries what a run has seen
to what it says. `Course` ties the status to the place in the run: nothing is reported before the
end, a dry run never gets to a write, and the first lookup is one of the ticket's URL, which makes
its answer one about the URL that is reported. `StillWaiting` keeps the link that add_link is about
to update in the source list until the write, unless a human touched it since: the action property
looks at exactly that state.

`ArtifactStoreProofs` proves `TypeOK`, `ReferencesResolve`, `VersionsStable` of the ledger and the
refinement `RefinesLedger` of `ArtifactStore` for any number of processes, artifacts, names and
versions, from `StoreAssumption`. `ReferencesResolve` is not inductive: a node's references become
the session's only when it returns, so `Nodes` carries "what was put is there" through the rest of
the node, and `Renamed` says that only a synchronised file is renamed, without which a power loss
could empty a file that is referred to. That nothing readable disappears without being spoiled is
`Accounted`, which looks at the three actions that change files (`FilesStep`) and serves all others
at once; `SessionsStep` lists what can happen to a session in the same way. `Behind`, the durable
session as an earlier state of the running one, gives `PastVersionsStable`. The refinement needs
both halves of the invariant: a commit is one of the ledger because of `Nodes`, a power loss loses
nothing but what it names because of `Renamed`. `ArtifactLedger` has no fairness, so `Implements` is
the whole refinement.

`WebResearchProofs` proves `TypeOK`, `EvidenceOnce` and `ReportRestsOnEvidence` of `WebResearch` for
all sets of queries and pages and all budgets. That the filter keeps every new page needs the first
of the positions at which a search returned it, which is the well-foundedness of the naturals
(`FirstPosition`). `ReportRestsOnEvidence` needs that the evidence changes only with the executed
queries, and that a round begins with a query nobody has executed (`Further`), so that the last
evaluation always saw less than the next one will.

Model-checked only:

- Every liveness property (`AssignedIsHandedBack`, `CommentsReachConversation`, `TicketsAreServed`,
  `DaemonEnds`, `RunEnds`) and the fairness of `TicketProtocol` in `RefinesProtocol`: liveness
  under fairness and `ENABLED` are beyond the prover.

## Not modelled

- LLM client, page fetcher, logging and the prompt texts are I/O and formatting: their answers are the
  choices the models make.
- LangChain's agent loop and LangGraph itself are libraries; LangGraph's checkpoints are modelled from
  how the code relies on them.
- The weekly docx skill is a sequence of extraction and one summary over the attachments it was given.
  It keeps no state, repeats nothing and writes nowhere; `StepExecution` has how it ends.
- The validation of settings runs once at start, over a file, and ends the process or not; of the
  configuration only the set of enabled profiles matters later (`Journals`).
- `execute_plan`, the compatibility path of the orchestrator, which the graph does not call, and the
  migration of sessions of an older format.
- Two processes at work on the same ticket: there is no lock across processes, and ADR 0006 allows a
  single one.
