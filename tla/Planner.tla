------------------------------ MODULE Planner ------------------------------
(***************************************************************************)
(* How a reply of the LLM becomes the plan that TicketGraph executes: the  *)
(* first plan of a ticket (LiteLLMTaskPlanner.plan) and the revision after *)
(* a human's comment (_analyze_feedback), each with three attempts, the    *)
(* normalisation of names, the validation and _ensure_executable_steps.    *)
(*                                                                         *)
(* A name is written by the LLM, perhaps with other words around it: a     *)
(* text is the set of registered names that occur in it as whole words,    *)
(* and whether it is nothing but that name.                                *)
(***************************************************************************)
EXTENDS Integers, Sequences, Functions

CONSTANTS
  Skills, Tools,  \* the names of the catalogs
  CommentTool,    \* redmine_add_comment
  Artifacts,      \* artifact ids
  Replies         \* the replies that parse_task_plan can read

Decisions == {"use_skill", "use_tools", "no_skill", "needs_user"}
Kinds == {"skill", "tool", "llm", "unavailable"}

Text == [names : SUBSET (Skills \cup Tools), exact : BOOLEAN]
Exact(name) == [names |-> {name}, exact |-> TRUE]
Null == [names |-> {}, exact |-> TRUE]

\* depends_on and input_artifact_ids are lists, which may repeat an item.
Step == [kind : Kinds, name : Text, depends_on : Seq(Nat \ {0}),
         artifacts : Seq(Artifacts)]

\* asks: user_request is not empty.
Plan == [decision : Decisions, skill : Text, tools : Seq(Text), asks : BOOLEAN,
         steps : Seq(Step)]

MaxTaskPlanAttempts == 3

ASSUME ReplyAssumption == Replies \subseteq Plan /\ CommentTool \in Tools

VARIABLES
  path,     \* initial or revision
  refs,     \* the artifacts of the session
  pc,       \* ask: the LLM is called; planned; raised: no valid plan
  attempt,  \* calls so far
  plan,     \* current_plan
  reply     \* ghost: the reply that became the plan

vars == <<path, refs, pc, attempt, plan, reply>>
-----------------------------------------------------------------------------
(* Names and validation. *)

\* Mutant: a revision may use every tool.
CatalogUnfiltered == Tools

\* The tools a plan may use; a revision does not comment on its own.
Catalog == IF path = "revision" THEN Tools \ {CommentTool} ELSE Tools

\* Mutant: of several names, one is taken.
CanonicalFirst(text, catalog) ==
  IF text.names \cap catalog # {}
  THEN Exact(CHOOSE name \in catalog : name \in text.names)
  ELSE text

\* _canonical_catalog_name: the only name of the catalog that the text holds.
Canonical(text, catalog) ==
  IF \E name \in catalog : text.names \cap catalog = {name}
  THEN Exact(CHOOSE name \in catalog : text.names \cap catalog = {name})
  ELSE text

NormalizedStep(step) ==
  CASE step.kind = "skill" -> [step EXCEPT !.name = Canonical(step.name, Skills)]
    [] step.kind = "tool"  -> [step EXCEPT !.name = Canonical(step.name, Catalog)]
    [] OTHER               -> step

\* normalize_task_plan_names
Normalized(p) ==
  [p EXCEPT !.skill = Canonical(p.skill, Skills),
            !.tools = [k \in DOMAIN p.tools |-> Canonical(p.tools[k], Catalog)],
            !.steps = [i \in DOMAIN p.steps |-> NormalizedStep(p.steps[i])]]

Registered(text, catalog) == \E name \in catalog : text = Exact(name)

\* Mutant: a step may depend on itself.
StepValidSelf(step, i) ==
  /\ step.kind = "skill" => Registered(step.name, Skills)
  /\ step.kind = "tool" => Registered(step.name, Catalog)
  /\ IsInjective(step.depends_on) /\ \A k \in DOMAIN step.depends_on : step.depends_on[k] <= i
  /\ IsInjective(step.artifacts) /\ \A k \in DOMAIN step.artifacts : step.artifacts[k] \in refs

\* The checks of the step at this place of a plan.
StepValid(step, i) ==
  /\ step.kind = "skill" => Registered(step.name, Skills)
  /\ step.kind = "tool" => Registered(step.name, Catalog)
  /\ IsInjective(step.depends_on) /\ \A k \in DOMAIN step.depends_on : step.depends_on[k] < i
  /\ IsInjective(step.artifacts) /\ \A k \in DOMAIN step.artifacts : step.artifacts[k] \in refs

\* A plan without steps must follow from its decision.
DecisionValid(p) ==
  \/ p.decision = "use_skill" /\ Registered(p.skill, Skills) /\ p.tools = <<>>
  \/ /\ p.decision = "use_tools" /\ p.skill = Null /\ p.tools # <<>>
     /\ \A k \in DOMAIN p.tools : Registered(p.tools[k], Catalog)
  \/ p.decision = "no_skill" /\ p.skill = Null /\ p.tools = <<>>
  \/ p.decision = "needs_user" /\ p.skill = Null /\ p.tools = <<>> /\ p.asks

\* Mutant: who asks the human needs no valid steps.
ValidUnlessAsking(p) ==
  \/ p.decision = "needs_user" /\ p.asks
  \/ p.steps # <<>> /\ \A i \in DOMAIN p.steps : StepValid(p.steps[i], i)
  \/ p.steps = <<>> /\ DecisionValid(p)

\* validate_task_plan looks at the steps or, without any, at the decision.
Valid(p) ==
  \/ p.steps # <<>> /\ \A i \in DOMAIN p.steps : StepValid(p.steps[i], i)
  \/ p.steps = <<>> /\ DecisionValid(p)

NewStep(kind, name) ==
  [kind |-> kind, name |-> name, depends_on |-> <<>>, artifacts |-> <<>>]

\* _ensure_executable_steps: a decision without steps becomes steps.
Executable(p) ==
  CASE p.steps # <<>> \/ p.decision = "needs_user" -> p
    [] p.steps = <<>> /\ p.decision = "no_skill" ->
         [p EXCEPT !.steps = <<NewStep("llm", Null)>>]
    [] p.steps = <<>> /\ p.decision = "use_skill" /\ p.skill # Null ->
         [p EXCEPT !.steps = <<NewStep("skill", p.skill)>>]
    [] p.steps = <<>> /\ p.decision = "use_tools" /\ p.tools # <<>> ->
         [p EXCEPT !.steps = [k \in DOMAIN p.tools |-> NewStep("tool", p.tools[k])]]
    [] OTHER -> [p EXCEPT !.decision = "needs_user", !.asks = TRUE]
-----------------------------------------------------------------------------
(* Planning, execution and revision. *)

\* _context_error_plan
AskHuman ==
  [decision |-> "needs_user", skill |-> Null, tools |-> <<>>, asks |-> TRUE, steps |-> <<>>]

Init ==
  /\ path = "initial"
  /\ refs \in SUBSET Artifacts
  /\ pc = "ask"
  /\ attempt = 1
  /\ plan = AskHuman
  /\ reply = AskHuman

\* A reply that is valid once its names are normalised ends the attempts.
Accept ==
  /\ pc = "ask"
  /\ \E r \in Replies :
       /\ Valid(Normalized(r))
       /\ plan' = Executable(Normalized(r))
       /\ reply' = r
  /\ pc' = "planned"
  /\ UNCHANGED <<path, refs, attempt>>

\* Mutant: one call more than there are attempts.
RejectOnceMore ==
  /\ pc = "ask"
  /\ IF attempt <= MaxTaskPlanAttempts
     THEN attempt' = attempt + 1 /\ pc' = "ask"
     ELSE attempt' = attempt /\ pc' = "raised"
  /\ UNCHANGED <<path, refs, plan, reply>>

\* The reply was invalid or could not be read: ask again, or raise.
Reject ==
  /\ pc = "ask"
  /\ IF attempt < MaxTaskPlanAttempts
     THEN attempt' = attempt + 1 /\ pc' = "ask"
     ELSE attempt' = attempt /\ pc' = "raised"
  /\ UNCHANGED <<path, refs, plan, reply>>

\* The context could not be prepared: no LLM call, the human is asked.
ContextRefused ==
  /\ pc = "ask" /\ attempt = 1
  /\ plan' = AskHuman /\ reply' = AskHuman
  /\ pc' = "planned"
  /\ UNCHANGED <<path, refs, attempt>>

\* The node has no checkpoint, so the next run plans again.
PlanAgain ==
  /\ pc = "raised"
  /\ pc' = "ask" /\ attempt' = 1
  /\ UNCHANGED <<path, refs, plan, reply>>

\* Steps and answers add artifacts to the session, and remove none.
Execute ==
  /\ pc = "planned"
  /\ \E new \in SUBSET (Artifacts \ refs) : refs' = refs \cup new
  /\ UNCHANGED <<path, pc, attempt, plan, reply>>

\* A human's comment leads to analyze_feedback.
Revise ==
  /\ pc = "planned"
  /\ path' = "revision"
  /\ pc' = "ask" /\ attempt' = 1
  /\ UNCHANGED <<refs, plan, reply>>

Next == Accept \/ Reject \/ ContextRefused \/ PlanAgain \/ Execute \/ Revise

Spec == Init /\ [][Next]_vars
-----------------------------------------------------------------------------
(* Properties. *)

TypeOK ==
  /\ path \in {"initial", "revision"}
  /\ refs \subseteq Artifacts
  /\ pc \in {"ask", "planned", "raised"}
  /\ attempt \in 1 .. MaxTaskPlanAttempts
  /\ plan \in Plan /\ reply \in Plan

\* What can be done about a step: its skill or tool is registered, and the
\* artifacts that it reads are part of the session.
Doable(step) ==
  /\ step.kind = "skill" => step.name \in {Exact(name) : name \in Skills}
  /\ step.kind = "tool" => step.name \in {Exact(name) : name \in Tools}
  /\ \A k \in DOMAIN step.artifacts : step.artifacts[k] \in refs

\* Until it is replaced, every step of the plan can be executed, also one that
\* was made from a decision, and whatever the steps before it add; a plan
\* without steps asks the human something.
PlanIsExecutable ==
  pc = "planned" =>
    /\ \A i \in DOMAIN plan.steps : Doable(plan.steps[i])
    /\ plan.steps = <<>> => plan.decision = "needs_user" /\ plan.asks

\* The steps as TicketGraph sees them.
GraphPlan ==
  [i \in DOMAIN plan.steps |->
     [unavailable |-> plan.steps[i].kind = "unavailable",
      depends_on  |-> Range(plan.steps[i].depends_on)]]

\* The graph gets what TicketGraph assumes of a plan (PlanAssumption): steps that
\* depend on earlier ones only.
FitsTicketGraph ==
  /\ GraphPlan \in Seq([unavailable : BOOLEAN, depends_on : SUBSET Nat])
  /\ \A i \in DOMAIN GraphPlan : GraphPlan[i].depends_on \subseteq 1 .. (i - 1)

SilentRevision ==
  path = "revision" /\ pc = "planned" =>
    \A i \in DOMAIN plan.steps :
      plan.steps[i].kind = "tool" => plan.steps[i].name # Exact(CommentTool)

\* The text of a reply that the name of a step of its plan was made from.
Written(p, r, i) ==
  CASE r.steps # <<>> -> r.steps[i].name
    [] r.steps = <<>> /\ p.steps[i].kind = "skill" -> r.skill
    [] r.steps = <<>> /\ p.steps[i].kind = "tool" -> r.tools[i]

\* A plan has the steps of its reply, and the names that are written there.
Understood(p, r) ==
  /\ r.steps # <<>> =>
       /\ DOMAIN p.steps = DOMAIN r.steps
       /\ \A i \in DOMAIN r.steps : p.steps[i].kind = r.steps[i].kind
  /\ \A i \in DOMAIN p.steps :
       LET catalog == IF p.steps[i].kind = "skill" THEN Skills ELSE Catalog
       IN  p.steps[i].kind \in {"skill", "tool"} =>
             Written(p, r, i).names \cap catalog = p.steps[i].name.names

OnlyReading == pc = "planned" => Understood(plan, reply)

\* The orchestrator does not choose for the LLM: the name of a step is in the text
\* the LLM gave for it, be that a step or a decision, and is the only one of its
\* catalog there.  And once a human has commented, no wording of a reply brings
\* back the tool that writes a comment: the graph itself reports on a revision.
NothingGuessed == OnlyReading /\ SilentRevision
=============================================================================
