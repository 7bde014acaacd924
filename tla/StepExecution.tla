--------------------------- MODULE StepExecution ---------------------------
(***************************************************************************)
(* execute_single_step: one step of a plan is run by an LLM call, a tool   *)
(* or a skill; a tool step that failed is tried once more with repaired    *)
(* arguments; the tool policy stands in front of every call.  TicketGraph  *)
(* chooses the outcome of a step; this module says how it comes about.     *)
(*                                                                         *)
(* Arguments are told apart by where they come from: the plan, the removal *)
(* and coercion of what the schema does not allow or a field of a selected *)
(* artifact (stripped), a query that was found in the context, or another  *)
(* one found in the text of the failure.  A call is refused by the policy, *)
(* answers ok or not, or raises an error that the code expects             *)
(* (ToolExecutionError, RuntimeError) or another exception, as for         *)
(* arguments that do not satisfy the schema.                               *)
(***************************************************************************)
EXTENDS Integers, Sequences, SequencesExt

CONSTANT MaxCalls   \* bound: the calls of a skill

ASSUME StepAssumption == MaxCalls \in Nat

VARIABLES
  step,      \* the step and what is true of its tool
  dry,       \* dry_run
  catalog,   \* whether the tool can be loaded: present, missing or broken
  pc,        \* ready, skill, assess, done or raised
  calls,     \* ghost: the calls made, as [args, outcome] records
  writes,    \* ghost: changes made to another system
  status,    \* the status of the result
  events     \* the kinds of the result's events, "start" left out

vars == <<step, dry, catalog, pc, calls, writes, status, events>>

Steps == [kind : {"llm", "tool", "skill", "unavailable"},
          risk : {"read", "write", "approval_required"},
          dry_run_safe : BOOLEAN,
          repair : {"none", "strip", "query", "conflict"},
          complete : BOOLEAN]  \* nothing but the query is missing

Valid(args) ==
  /\ step.complete
  /\ CASE step.repair = "query" -> args \in {"query", "other_query"}
       [] step.repair = "strip" -> args # "planned"
       [] OTHER -> TRUE

Init ==
  /\ step \in Steps
  /\ dry \in BOOLEAN
  /\ catalog \in {"present", "missing", "broken"}
  /\ pc = "ready"
  /\ calls = <<>>
  /\ writes = 0
  /\ status = "none"
  /\ events = <<>>
-----------------------------------------------------------------------------
(* The tool policy and a call. *)

\* Mutant: every write tool is taken for a dry-run safe one.
RiskReadInDryRun == IF dry /\ step.risk = "write" THEN "read" ELSE step.risk

\* In a dry run the loader declares a dry-run safe tool to be a reader.
Risk == IF dry /\ step.risk = "write" /\ step.dry_run_safe THEN "read" ELSE step.risk

\* require_tool_policy; nothing is ever approved.
Refused == \/ Risk = "write" /\ dry
           \/ Risk = "approval_required"

\* What a call leaves behind: a dry-run safe tool looks at dry_run itself, and
\* a write that did not answer ok may have been applied all the same.
Left(args, outcome) ==
  IF \/ step.risk = "read" \/ outcome = "refused" \/ ~Valid(args)
     \/ dry /\ step.dry_run_safe
  THEN {0} ELSE IF outcome = "ok" THEN {1} ELSE {0, 1}

Outcomes(args) ==
  IF Refused THEN {"refused"}
  ELSE IF ~Valid(args) THEN {"exception"}
  ELSE {"ok", "not_ok", "error", "exception"}

\* execute_tool.
Call(args, outcome) ==
  /\ outcome \in Outcomes(args)
  /\ calls' = Append(calls, [args |-> args, outcome |-> outcome])
  /\ \E n \in Left(args, outcome) : writes' = writes + n

Processed == IF dry THEN "dry_run" ELSE "processed"

\* Mutant: only a raised call is a failure.
ResultStatusIgnoresNotOk(outcome) ==
  IF outcome \in {"ok", "not_ok"} THEN Processed ELSE "failed"

\* Mutant: what the tool answered is the status.
ResultStatusRaw(outcome) == IF outcome = "ok" THEN Processed ELSE outcome

\* The result of a tool call whose exceptions are caught.
ResultStatus(outcome) == IF outcome = "ok" THEN Processed ELSE "failed"

ResultEvents(outcome) ==
  CASE outcome = "ok"     -> <<"progress", "final_review">>
    [] outcome = "not_ok" -> <<"progress", "final_return">>
    [] OTHER              -> <<"final_return">>

Ends(s, evs) == status' = s /\ events' = evs
-----------------------------------------------------------------------------
(* The first attempt. *)

Unavailable ==
  /\ pc = "ready" /\ step.kind = "unavailable"
  /\ Ends("skipped", <<"progress">>)
  /\ pc' = "done"
  /\ UNCHANGED <<step, dry, catalog, calls, writes>>

\* A final_review, or an exception of the LLM or for its empty answer.
LlmStep ==
  /\ pc = "ready" /\ step.kind = "llm"
  /\ \/ Ends(Processed, <<"final_review">>)
     \/ Ends("failed", <<"final_return">>)
  /\ pc' = "assess"
  /\ UNCHANGED <<step, dry, catalog, calls, writes>>

\* The tool is not registered: tools_for raises an expected error.
ToolMissing ==
  /\ pc = "ready" /\ step.kind \in {"tool", "skill"}
  /\ catalog = "missing"
  /\ Ends("needs_user", <<"final_review">>)
  /\ pc' = "assess"
  /\ UNCHANGED <<step, dry, catalog, calls, writes>>

\* Loading it raises something else, which execute_single_step catches.
ToolBroken ==
  /\ pc = "ready" /\ step.kind \in {"tool", "skill"}
  /\ catalog = "broken"
  /\ Ends("failed", <<"final_return">>)
  /\ pc' = "assess"
  /\ UNCHANGED <<step, dry, catalog, calls, writes>>

\* The arguments of the first attempt.
Repaired ==
  CASE step.repair = "none"     -> {"planned"}
    [] step.repair = "strip"    -> {"stripped"}
    [] step.repair = "query"    -> {"planned", "stripped", "query"}
    [] step.repair = "conflict" -> {}

\* Several artifacts offer a value for a missing argument.
ToolConflict ==
  /\ pc = "ready" /\ step.kind = "tool"
  /\ catalog = "present" /\ step.repair = "conflict"
  /\ Ends("needs_user", <<"final_review">>)
  /\ pc' = "assess"
  /\ UNCHANGED <<step, dry, catalog, calls, writes>>

ToolCalled ==
  /\ pc = "ready" /\ step.kind = "tool" /\ catalog = "present"
  /\ \E args \in Repaired : \E outcome \in Outcomes(args) :
       /\ Call(args, outcome)
       /\ Ends(ResultStatus(outcome), ResultEvents(outcome))
  /\ pc' = "assess"
  /\ UNCHANGED <<step, dry, catalog>>

\* A skill makes its calls one after the other, each under the policy.
SkillStarts ==
  /\ pc = "ready" /\ step.kind = "skill" /\ catalog = "present"
  /\ pc' = "skill"
  /\ UNCHANGED <<step, dry, catalog, calls, writes, status, events>>

SkillCalls ==
  /\ pc = "skill"
  /\ Len(calls) < MaxCalls
  /\ \E outcome \in Outcomes("planned") : Call("planned", outcome)
  /\ UNCHANGED <<step, dry, catalog, pc, status, events>>

\* What skills answer: web-briefing-bookmark ends every status with
\* final_review, web-research-report a failure with final_return; the agent's
\* events depend on the status it answers, with progress in front of them if it
\* did something. An exception fails the step.
SkillResults ==
  ({Processed, "already_done", "needs_user", "missing_tool", "failed"}
     \X {<<"final_review">>, <<"progress", "final_review">>})
  \cup ({"failed"} \X {<<"final_return">>, <<"progress", "final_return">>})

SkillEnds ==
  /\ pc = "skill"
  /\ \E result \in SkillResults : Ends(result[1], result[2])
  /\ pc' = "assess"
  /\ UNCHANGED <<step, dry, catalog, calls, writes>>
-----------------------------------------------------------------------------
(* Recovery. *)

\* Mutant: whatever is not "processed" is a failure.
NeedsRecoveryUnlessProcessed(s) == s \notin {"processed", "skipped"}

NeedsRecovery(s) == s \in {"failed", "missing_tool", "needs_user"}

NothingToRecover ==
  /\ pc = "assess" /\ ~NeedsRecovery(status)
  /\ pc' = "done"
  /\ UNCHANGED <<step, dry, catalog, calls, writes, status, events>>

\* The arguments of the second attempt: the text of the failure comes first
\* among the sources of a query, then the first attempt's sources again.
RepairedAgain ==
  CASE step.repair = "none"     -> {"planned"}
    [] step.repair = "strip"    -> {"stripped"}
    [] step.repair = "query"    -> {"other_query"} \cup {calls[k].args : k \in DOMAIN calls}
    [] step.repair = "conflict" -> {}

\* Only a tool step is repeated, and only with other arguments than the plan's.
GiveUp ==
  /\ pc = "assess" /\ NeedsRecovery(status)
  /\ \/ step.kind # "tool"
     \/ catalog = "missing"
     \/ catalog = "present" /\ "planned" \in RepairedAgain
  /\ events' = events \o <<"progress", "progress">>
  /\ pc' = "done"
  /\ UNCHANGED <<step, dry, catalog, calls, writes, status>>

\* _merge_recovery_result.
RetriedEvents(first, second) == first \o <<"progress", "progress">> \o second

RetryConflict ==
  /\ pc = "assess" /\ NeedsRecovery(status)
  /\ step.kind = "tool" /\ catalog = "present" /\ step.repair = "conflict"
  /\ Ends("needs_user", RetriedEvents(events, <<"final_review">>))
  /\ pc' = "done"
  /\ UNCHANGED <<step, dry, catalog, calls, writes>>

\* Nothing around the retry catches an exception that is not expected.
Retry ==
  /\ pc = "assess" /\ NeedsRecovery(status)
  /\ step.kind = "tool" /\ catalog = "present"
  /\ \E args \in RepairedAgain \ {"planned"} : \E outcome \in Outcomes(args) :
       /\ Call(args, outcome)
       /\ IF outcome = "exception"
          THEN pc' = "raised" /\ UNCHANGED <<status, events>>
          ELSE /\ Ends(ResultStatus(outcome),
                       RetriedEvents(events, ResultEvents(outcome)))
               /\ pc' = "done"
  /\ UNCHANGED <<step, dry, catalog>>

RetryBroken ==
  /\ pc = "assess" /\ NeedsRecovery(status)
  /\ step.kind = "tool" /\ catalog = "broken"
  /\ pc' = "raised"
  /\ UNCHANGED <<step, dry, catalog, calls, writes, status, events>>
-----------------------------------------------------------------------------
Next ==
  \/ Unavailable \/ LlmStep \/ ToolMissing \/ ToolBroken \/ ToolConflict
  \/ ToolCalled \/ SkillStarts \/ SkillCalls \/ SkillEnds
  \/ NothingToRecover \/ GiveUp \/ RetryConflict \/ Retry \/ RetryBroken

Spec == Init /\ [][Next]_vars
-----------------------------------------------------------------------------
(* What the graph makes of a result. *)

StepStatus(s) ==
  CASE s = "skipped" -> "skipped"
    [] s \in {"processed", "already_done", "dry_run"} -> "completed"
    [] s \in {"needs_user", "missing_tool"} -> "needs_user"
    [] OTHER -> "failed"

Stops(s) == s \in {"failed", "missing_tool", "needs_user"}

\* Mutant: the final events of every step are sent as they are.
DowngradedNever(s, evs) == evs

\* _step_event_for_redmine: only a step that stops the loop hands back.
Downgraded(s, evs) ==
  IF Stops(s) THEN evs ELSE [k \in DOMAIN evs |-> "progress"]
-----------------------------------------------------------------------------
(* Properties. *)

Statuses == {"none", "skipped", "processed", "dry_run", "already_done",
             "needs_user", "missing_tool", "failed"}
TypeOK ==
  /\ step \in Steps /\ dry \in BOOLEAN
  /\ pc \in {"ready", "skill", "assess", "done", "raised"}
  /\ Len(calls) <= IF step.kind = "skill" THEN MaxCalls ELSE 2
  /\ writes \in 0 .. Len(calls)
  /\ status \in Statuses
  /\ events \in Seq({"progress", "final_review", "final_return"})

\* On no path - plan, retry, agent loop or script - does a dry run change
\* another system, or a tool run that wants an approval.
PolicyHolds ==
  /\ dry => writes = 0
  /\ step.risk = "approval_required" =>
       \A k \in DOMAIN calls : calls[k].outcome = "refused"

\* A tool step never repeats a call that succeeded, so a write happens twice
\* only after one whose answer said that it failed; and what the step is
\* settled as is what its last call says: a failure that was repaired leaves a
\* completed step, no failure passes for a success.
SuccessIsNotRepeated ==
  step.kind = "tool" =>
    \A k \in DOMAIN calls : calls[k].outcome = "ok" => k = Len(calls)
SettledAsLastCall ==
  step.kind = "tool" /\ pc = "done" =>
    (StepStatus(status) = "completed" <=> calls # <<>> /\ Last(calls).outcome = "ok")
OutcomeIsLastCall == SuccessIsNotRepeated /\ SettledAsLastCall

\* The step hands the ticket back to its author.
HandsBack ==
  ToSet(Downgraded(status, events)) \cap {"final_review", "final_return"} # {}

\* A ticket is handed back by a step only where the graph leaves the loop, and
\* never by a tool step of which one attempt succeeded, although a repaired
\* step still has the final events of the failed attempt in its result.
HandsBackOnlyIfStopped ==
  pc = "done" /\ HandsBack =>
    /\ StepStatus(status) \in {"failed", "needs_user"}
    /\ step.kind = "tool" => \A k \in DOMAIN calls : calls[k].outcome # "ok"

\* docs/langgraph-ticket-graph.md:105: what execute_single_step returns reaches
\* the ticket as progress.
StepEventsAreProgress ==
  pc = "done" => ToSet(Downgraded(status, events)) \subseteq {"progress"}

\* The comment that announces a retry (task_executor.py:808): the arguments were
\* corrected in the light of the failure, so where the ticket says so, the tool
\* was not just called once more as before.
RetryIsCorrected ==
  step.kind = "tool" /\ pc = "done" =>
    \A k \in DOMAIN calls : k > 1 => calls[k].args # calls[k - 1].args

\* docs/architecture-current.md:72, docs/langgraph-ticket-graph.md:93: each step
\* has a status, result and error that are saved, failed if its execution
\* failed; so nothing that happens in a step leaves it without a result.
FailuresBecomeResults == pc # "raised"
=============================================================================
