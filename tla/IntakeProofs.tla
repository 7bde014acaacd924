---------------------------- MODULE IntakeProofs ----------------------------
(***************************************************************************)
(* Proofs about what TicketGraph takes in: the plans, which Planner makes  *)
(* of the replies of the LLM, and the comments, which Journals makes turns *)
(* of.  The first part is about Planner for every catalog and every set of *)
(* replies, the second one about Journals for all users, agents and        *)
(* journals.                                                               *)
(*                                                                         *)
(* Plans.  What the properties say of a plan depends on the reply only     *)
(* through Valid(Normalized(reply)); the steps that                        *)
(* _ensure_executable_steps makes of a decision were never validated as    *)
(* steps, and inherit it from the validity of the decision.                *)
(*                                                                         *)
(* Comments.  The turns are built journal by journal, and what is said of  *)
(* them is shown by induction on the journals, as a search for the least   *)
(* number of journals of which it is not so.  The invariant then compares  *)
(* the turns with the journals only below the cursor, where nothing        *)
(* changes any more.                                                       *)
(***************************************************************************)
EXTENDS Planner, Journals, WellFoundedInduction, TLAPS

-----------------------------------------------------------------------------
(* Plans. *)

\* What is true of a plan while it is the plan of this path and these artifacts.
GoodPlan(p) ==
  /\ \A i \in DOMAIN p.steps :
       /\ p.steps[i].kind = "skill" => Registered(p.steps[i].name, Skills)
       /\ p.steps[i].kind = "tool" => Registered(p.steps[i].name, Catalog)
       /\ \A k \in DOMAIN p.steps[i].artifacts : p.steps[i].artifacts[k] \in refs
  /\ p.steps = <<>> => p.decision = "needs_user" /\ p.asks

\* What stays true of it when it is only the last one.
Backward(p) ==
  \A i \in DOMAIN p.steps : \A k \in DOMAIN p.steps[i].depends_on :
    p.steps[i].depends_on[k] < i

IInv ==
  /\ path \in {"initial", "revision"}
  /\ refs \subseteq Artifacts
  /\ pc \in {"ask", "planned", "raised"}
  /\ attempt \in 1 .. MaxTaskPlanAttempts
  /\ plan \in Plan /\ reply \in Plan
  /\ Backward(plan)
  /\ pc = "planned" => GoodPlan(plan) /\ Understood(plan, reply)
-----------------------------------------------------------------------------
(* Lemmas about names and plans. *)

\* The canonical form of a text is a text.
LEMMA CanonicalText ==
  ASSUME NEW text \in Text, NEW catalog \in SUBSET (Skills \cup Tools)
  PROVE  Canonical(text, catalog) \in Text
<1>1. CASE \E name \in catalog : text.names \cap catalog = {name}
  <2> DEFINE chosen == CHOOSE name \in catalog : text.names \cap catalog = {name}
  <2>1. chosen \in catalog
    BY <1>1
  <2>2. Canonical(text, catalog) = Exact(chosen)
    BY <1>1 DEF Canonical
  <2> HIDE DEF chosen
  <2> QED
    BY <2>1, <2>2 DEF Exact, Text
<1>2. CASE ~ \E name \in catalog : text.names \cap catalog = {name}
  BY <1>2 DEF Canonical
<1> QED
  BY <1>1, <1>2

\* A text that becomes a registered name mentions no other name of the catalog.
LEMMA CanonicalUnderstood ==
  ASSUME NEW text \in Text, NEW catalog, Registered(Canonical(text, catalog), catalog)
  PROVE  text.names \cap catalog = Canonical(text, catalog).names
<1>1. CASE \E name \in catalog : text.names \cap catalog = {name}
  <2> DEFINE chosen == CHOOSE name \in catalog : text.names \cap catalog = {name}
  <2>1. text.names \cap catalog = {chosen}
    BY <1>1
  <2>2. Canonical(text, catalog) = Exact(chosen)
    BY <1>1 DEF Canonical
  <2> HIDE DEF chosen
  <2> QED
    BY <2>1, <2>2 DEF Exact
<1>2. CASE ~ \E name \in catalog : text.names \cap catalog = {name}
  <2>1. Canonical(text, catalog) = text
    BY <1>2 DEF Canonical
  <2>2. PICK name \in catalog : text = Exact(name)
    BY <2>1 DEF Registered
  <2>3. text.names \cap catalog = {name}
    BY <2>2 DEF Exact
  <2> QED
    BY <1>2, <2>3
<1> QED
  BY <1>1, <1>2

\* The catalog of a path holds registered names only.
LEMMA CatalogNames == Catalog \in SUBSET (Skills \cup Tools)
BY DEF Catalog

\* Normalisation of a step changes nothing but the name it may have.
LEMMA NormalizedStepIsStep ==
  ASSUME NEW step \in Step
  PROVE  /\ NormalizedStep(step) \in Step
         /\ NormalizedStep(step).kind = step.kind
         /\ step.kind = "skill" => NormalizedStep(step).name = Canonical(step.name, Skills)
         /\ step.kind = "tool" => NormalizedStep(step).name = Canonical(step.name, Catalog)
<1>1. step.name \in Text
  BY DEF Step
<1>2. Canonical(step.name, Skills) \in Text /\ Canonical(step.name, Catalog) \in Text
  BY <1>1, CanonicalText, CatalogNames
<1> QED
  BY <1>2 DEF NormalizedStep, Step

\* Normalisation keeps the shape of a reply.
LEMMA NormalizedIsPlan ==
  ASSUME NEW r \in Plan
  PROVE  /\ Normalized(r) \in Plan
         /\ DOMAIN Normalized(r).steps = DOMAIN r.steps
         /\ \A i \in DOMAIN r.steps : Normalized(r).steps[i] = NormalizedStep(r.steps[i])
<1> DEFINE skill == Canonical(r.skill, Skills)
           tools == [k \in DOMAIN r.tools |-> Canonical(r.tools[k], Catalog)]
           steps == [i \in DOMAIN r.steps |-> NormalizedStep(r.steps[i])]
<1>1. /\ r.skill \in Text /\ r.tools \in Seq(Text) /\ r.steps \in Seq(Step)
      /\ r.decision \in Decisions /\ r.asks \in BOOLEAN
  BY DEF Plan
<1>2. skill \in Text
  BY <1>1, CanonicalText
<1>3. tools \in Seq(Text)
  <2>1. \A k \in DOMAIN r.tools : Canonical(r.tools[k], Catalog) \in Text
    BY <1>1, CanonicalText, CatalogNames
  <2> QED
    BY <1>1, <2>1
<1>4. steps \in Seq(Step)
  <2>1. \A i \in DOMAIN r.steps : NormalizedStep(r.steps[i]) \in Step
    BY <1>1, NormalizedStepIsStep
  <2> QED
    BY <1>1, <2>1
<1>5. Normalized(r) = [r EXCEPT !.skill = skill, !.tools = tools, !.steps = steps]
  BY DEF Normalized
<1>6. DOMAIN steps = DOMAIN r.steps /\ \A i \in DOMAIN r.steps : steps[i] = NormalizedStep(r.steps[i])
  OBVIOUS
<1> HIDE DEF skill, tools, steps
<1>7. Normalized(r) \in Plan /\ Normalized(r).steps = steps
  <2> USE DEF Plan
  <2>1. [r EXCEPT !.skill = skill] \in Plan
    BY <1>2
  <2>2. [r EXCEPT !.skill = skill, !.tools = tools] \in Plan
    BY <1>2, <1>3
  <2> QED
    BY <1>2, <1>3, <1>4, <1>5
<1> QED
  BY <1>6, <1>7

\* A step that is made from a decision reads and waits for nothing.
LEMMA NewStepIsStep ==
  ASSUME NEW kind \in Kinds, NEW name \in Text
  PROVE  /\ NewStep(kind, name) \in Step
         /\ NewStep(kind, name).kind = kind /\ NewStep(kind, name).name = name
         /\ DOMAIN NewStep(kind, name).depends_on = {}
         /\ DOMAIN NewStep(kind, name).artifacts = {}
BY DEF NewStep, Step

\* A valid plan without steps becomes a good plan.
LEMMA DecisionBecomesSteps ==
  ASSUME NEW p \in Plan, p.steps = <<>>, DecisionValid(p)
  PROVE  Executable(p) \in Plan /\ GoodPlan(Executable(p)) /\ Backward(Executable(p))
<1>1. p.skill \in Text /\ p.tools \in Seq(Text)
  BY DEF Plan
<1>2. CASE p.decision = "needs_user"
  <2>1. Executable(p) = p /\ p.asks
    BY <1>2 DEF Executable, DecisionValid
  <2> QED
    BY <1>2, <2>1 DEF GoodPlan, Backward
<1>3. CASE p.decision = "no_skill"
  <2> DEFINE step == NewStep("llm", Null)
  <2>1. Executable(p) = [p EXCEPT !.steps = <<step>>]
    BY <1>3 DEF Executable
  <2>2. step \in Step /\ step.kind = "llm" /\ DOMAIN step.depends_on = {} /\ DOMAIN step.artifacts = {}
    BY NewStepIsStep DEF Kinds, Null, Text
  <2> HIDE DEF step
  <2>3. Executable(p) \in Plan /\ Executable(p).steps = <<step>>
    <3>1. <<step>> \in Seq(Step)
      BY <2>2
    <3> QED
      BY <2>1, <3>1 DEF Plan
  <2> QED
    BY <2>2, <2>3 DEF GoodPlan, Backward
<1>4. CASE p.decision = "use_skill"
  <2> DEFINE step == NewStep("skill", p.skill)
  <2>1. Registered(p.skill, Skills)
    BY <1>4 DEF DecisionValid
  <2>2. p.skill # Null
    BY <2>1 DEF Registered, Exact, Null
  <2>3. Executable(p) = [p EXCEPT !.steps = <<step>>]
    BY <1>4, <2>2 DEF Executable
  <2>4. /\ step \in Step /\ step.kind = "skill" /\ step.name = p.skill
        /\ DOMAIN step.depends_on = {} /\ DOMAIN step.artifacts = {}
    BY <1>1, NewStepIsStep DEF Kinds
  <2> HIDE DEF step
  <2>5. Executable(p) \in Plan /\ Executable(p).steps = <<step>>
    <3>1. <<step>> \in Seq(Step)
      BY <2>4
    <3> QED
      BY <2>3, <3>1 DEF Plan
  <2> QED
    BY <2>1, <2>4, <2>5 DEF GoodPlan, Backward
<1>5. CASE p.decision = "use_tools"
  <2> DEFINE steps == [k \in DOMAIN p.tools |-> NewStep("tool", p.tools[k])]
  <2>1. p.tools # <<>> /\ \A k \in DOMAIN p.tools : Registered(p.tools[k], Catalog)
    BY <1>5 DEF DecisionValid
  <2>2. Executable(p) = [p EXCEPT !.steps = steps]
    BY <1>5, <2>1 DEF Executable
  <2>3. \A k \in DOMAIN p.tools :
          /\ NewStep("tool", p.tools[k]) \in Step
          /\ NewStep("tool", p.tools[k]).kind = "tool"
          /\ NewStep("tool", p.tools[k]).name = p.tools[k]
          /\ DOMAIN NewStep("tool", p.tools[k]).depends_on = {}
          /\ DOMAIN NewStep("tool", p.tools[k]).artifacts = {}
    BY <1>1, NewStepIsStep DEF Kinds
  <2>4. steps \in Seq(Step) /\ steps # <<>> /\ DOMAIN steps = DOMAIN p.tools
    BY <1>1, <2>1, <2>3
  <2>5. \A k \in DOMAIN steps : steps[k] = NewStep("tool", p.tools[k])
    OBVIOUS
  <2> HIDE DEF steps
  <2>6. Executable(p) \in Plan /\ Executable(p).steps = steps
    BY <2>2, <2>4 DEF Plan
  <2> QED
    BY <2>1, <2>3, <2>4, <2>5, <2>6 DEF GoodPlan, Backward
<1> QED
  BY <1>2, <1>3, <1>4, <1>5 DEF Plan, Decisions

\* A decision that becomes steps gives them the names that were written for it.
LEMMA DecisionUnderstood ==
  ASSUME NEW r \in Plan, r.steps = <<>>, Normalized(r).steps = <<>>,
         DecisionValid(Normalized(r))
  PROVE  Understood(Executable(Normalized(r)), r)
<1> DEFINE p == Normalized(r)
<1>1. r.skill \in Text /\ r.tools \in Seq(Text)
  BY DEF Plan
<1>2. /\ p.skill = Canonical(r.skill, Skills)
      /\ p.tools = [k \in DOMAIN r.tools |-> Canonical(r.tools[k], Catalog)]
      /\ p.decision = r.decision
  BY DEF Normalized, Plan
<1>3. p \in Plan /\ p.steps = <<>> /\ DecisionValid(p)
  BY NormalizedIsPlan
<1> HIDE DEF p
<1>4. CASE p.decision = "needs_user"
  <2>1. Executable(p).steps = <<>>
    BY <1>3, <1>4 DEF Executable
  <2> QED
    BY <2>1 DEF Understood, p
<1>5. CASE p.decision = "no_skill"
  <2> DEFINE step == NewStep("llm", Null)
  <2>1. Executable(p) = [p EXCEPT !.steps = <<step>>]
    BY <1>3, <1>5 DEF Executable
  <2>2. step.kind = "llm"
    BY DEF NewStep
  <2> HIDE DEF step
  <2>3. Executable(p).steps = <<step>>
    BY <1>3, <2>1 DEF Plan
  <2> QED
    BY <2>2, <2>3 DEF Understood, p
<1>6. CASE p.decision = "use_skill"
  <2> DEFINE step == NewStep("skill", p.skill)
  <2>1. Registered(p.skill, Skills)
    BY <1>3, <1>6 DEF DecisionValid
  <2>2. p.skill # Null
    BY <2>1 DEF Registered, Exact, Null
  <2>3. Executable(p) = [p EXCEPT !.steps = <<step>>]
    BY <1>3, <1>6, <2>2 DEF Executable
  <2>4. step.kind = "skill" /\ step.name = p.skill
    BY DEF NewStep
  <2>5. r.skill.names \cap Skills = p.skill.names
    BY <1>1, <1>2, <2>1, CanonicalUnderstood
  <2> HIDE DEF step
  <2>6. Executable(p).steps = <<step>>
    BY <1>3, <2>3 DEF Plan
  <2>7. \A i \in DOMAIN Executable(p).steps :
          /\ Executable(p).steps[i] = step
          /\ Written(Executable(p), r, i) = r.skill
    BY <2>4, <2>6 DEF Written
  <2> QED
    BY <2>4, <2>5, <2>7 DEF Understood, p
<1>7. CASE p.decision = "use_tools"
  <2> DEFINE steps == [k \in DOMAIN p.tools |-> NewStep("tool", p.tools[k])]
  <2>1. p.tools # <<>> /\ \A k \in DOMAIN p.tools : Registered(p.tools[k], Catalog)
    BY <1>3, <1>7 DEF DecisionValid
  <2>2. Executable(p) = [p EXCEPT !.steps = steps]
    BY <1>3, <1>7, <2>1 DEF Executable
  <2>3. /\ DOMAIN steps = DOMAIN r.tools
        /\ \A k \in DOMAIN r.tools :
             /\ steps[k].kind = "tool" /\ steps[k].name = Canonical(r.tools[k], Catalog)
             /\ Registered(Canonical(r.tools[k], Catalog), Catalog)
    BY <1>2, <2>1 DEF NewStep
  <2>4. \A k \in DOMAIN r.tools : r.tools[k].names \cap Catalog = steps[k].name.names
    <3> SUFFICES ASSUME NEW k \in DOMAIN r.tools
                 PROVE  r.tools[k].names \cap Catalog = steps[k].name.names
      OBVIOUS
    <3>1. r.tools[k] \in Text
      BY <1>1
    <3> QED
      BY <2>3, <3>1, CanonicalUnderstood
  <2> HIDE DEF steps
  <2>5. Executable(p).steps = steps
    BY <1>3, <2>2 DEF Plan
  <2>6. \A i \in DOMAIN steps : Written(Executable(p), r, i) = r.tools[i]
    BY <2>3, <2>5 DEF Written
  <2> QED
    BY <2>3, <2>4, <2>5, <2>6 DEF Understood, p
<1> QED
  BY <1>3, <1>4, <1>5, <1>6, <1>7 DEF Plan, Decisions

\* The plan that an accepted reply becomes.
LEMMA AcceptedGood ==
  ASSUME NEW r \in Plan, Valid(Normalized(r))
  PROVE  /\ Executable(Normalized(r)) \in Plan
         /\ GoodPlan(Executable(Normalized(r))) /\ Backward(Executable(Normalized(r)))
         /\ Understood(Executable(Normalized(r)), r)
<1> DEFINE p == Normalized(r)
<1>1. /\ p \in Plan /\ DOMAIN p.steps = DOMAIN r.steps
      /\ \A i \in DOMAIN r.steps : p.steps[i] = NormalizedStep(r.steps[i])
  BY NormalizedIsPlan
<1> HIDE DEF p
<1>2. CASE p.steps # <<>>
  <2>1. \A i \in DOMAIN p.steps : StepValid(p.steps[i], i)
    BY <1>2 DEF Valid, p
  <2>2. Executable(p) = p
    BY <1>2 DEF Executable
  <2>3. GoodPlan(p) /\ Backward(p)
    BY <1>2, <2>1 DEF GoodPlan, Backward, StepValid
  <2>4. Understood(p, r)
    <3>0. r.steps \in Seq(Step) /\ r.steps # <<>> /\ DOMAIN p.steps = DOMAIN r.steps
      BY <1>1, <1>2 DEF Plan
    <3>1. \A i \in DOMAIN r.steps : r.steps[i] \in Step
      BY <3>0
    <3>2. \A i \in DOMAIN r.steps : p.steps[i].kind = r.steps[i].kind
      BY <1>1, <3>1, NormalizedStepIsStep
    <3>3. ASSUME NEW i \in DOMAIN p.steps, p.steps[i].kind \in {"skill", "tool"},
                 NEW catalog,
                 catalog = IF p.steps[i].kind = "skill" THEN Skills ELSE Catalog
          PROVE  Written(p, r, i).names \cap catalog = p.steps[i].name.names
      <4>1. r.steps[i] \in Step /\ r.steps[i].name \in Text
        BY <3>0, <3>1 DEF Step
      <4>2. p.steps[i].name = Canonical(r.steps[i].name, catalog)
        BY <1>1, <3>0, <3>2, <3>3, <4>1, NormalizedStepIsStep
      <4>3. Registered(p.steps[i].name, catalog)
        BY <2>1, <3>3 DEF StepValid
      <4>4. Written(p, r, i) = r.steps[i].name
        BY <3>0 DEF Written
      <4> QED
        BY <4>1, <4>2, <4>3, <4>4, CanonicalUnderstood
    <3> QED
      BY <3>0, <3>2, <3>3 DEF Understood
  <2> QED
    BY <1>1, <2>2, <2>3, <2>4 DEF p
<1>3. CASE p.steps = <<>>
  <2>1. DecisionValid(p)
    BY <1>3 DEF Valid, p
  <2>2. Executable(p) \in Plan /\ GoodPlan(Executable(p)) /\ Backward(Executable(p))
    BY <1>1, <1>3, <2>1, DecisionBecomesSteps
  <2>3. r.steps = <<>>
    BY <1>1, <1>3 DEF Plan
  <2>4. Understood(Executable(p), r)
    BY <1>3, <2>1, <2>3, DecisionUnderstood DEF p
  <2> QED
    BY <2>2, <2>4 DEF p
<1> QED
  BY <1>2, <1>3

\* The plan that asks the human.
LEMMA AskHumanGood ==
  /\ AskHuman \in Plan /\ GoodPlan(AskHuman) /\ Backward(AskHuman)
  /\ Understood(AskHuman, AskHuman)
<1>1. AskHuman \in Plan
  BY DEF AskHuman, Plan, Decisions, Null, Text
<1>2. AskHuman.steps = <<>> /\ AskHuman.decision = "needs_user" /\ AskHuman.asks = TRUE
  BY DEF AskHuman
<1> QED
  BY <1>1, <1>2 DEF GoodPlan, Backward, Understood, Written
-----------------------------------------------------------------------------
(* The invariant. *)

\* A planner that has not asked yet has the plan that asks the human.
LEMMA InitIInv == Init => IInv
BY AskHumanGood DEF Init, IInv, MaxTaskPlanAttempts

\* Every step of the planner keeps the invariant.
LEMMA NextIInv == IInv /\ [Next]_vars => IInv'
<1> SUFFICES ASSUME IInv, [Next]_vars PROVE IInv'
  OBVIOUS
<1>1. CASE Accept
  <2>1. PICK r \in Replies : /\ Valid(Normalized(r))
                             /\ plan' = Executable(Normalized(r)) /\ reply' = r
    BY <1>1 DEF Accept
  <2>2. r \in Plan
    BY ReplyAssumption
  <2>3. /\ plan' \in Plan /\ GoodPlan(plan') /\ Backward(plan') /\ Understood(plan', reply')
    BY <2>1, <2>2, AcceptedGood
  <2>4. path' = path /\ refs' = refs /\ attempt' = attempt /\ pc' = "planned"
    BY <1>1 DEF Accept
  <2>5. Catalog' = Catalog
    BY <2>4 DEF Catalog
  <2>6. GoodPlan(plan)' /\ Backward(plan)' /\ Understood(plan, reply)'
    BY <2>3, <2>4, <2>5 DEF GoodPlan, Backward, Understood, Written
  <2> QED
    BY <2>1, <2>2, <2>3, <2>4, <2>6 DEF IInv
<1>2. CASE Reject
  BY <1>2 DEF Reject, IInv, MaxTaskPlanAttempts, Backward
<1>3. CASE ContextRefused
  <2>1. /\ plan' = AskHuman /\ reply' = AskHuman /\ pc' = "planned"
        /\ path' = path /\ refs' = refs /\ attempt' = attempt
    BY <1>3 DEF ContextRefused
  <2>2. GoodPlan(plan)' /\ Backward(plan)' /\ Understood(plan, reply)'
    BY <2>1, AskHumanGood DEF GoodPlan, Backward, Understood, Catalog, Written
  <2> QED
    BY <2>1, <2>2, AskHumanGood DEF IInv
<1>4. CASE PlanAgain
  BY <1>4 DEF PlanAgain, IInv, MaxTaskPlanAttempts, Backward
<1>5. CASE Execute
  <2>1. /\ refs \subseteq refs' /\ refs' \subseteq Artifacts
        /\ path' = path /\ pc' = pc /\ attempt' = attempt /\ plan' = plan /\ reply' = reply
        /\ pc = "planned"
    BY <1>5 DEF Execute, IInv
  <2>2. Catalog' = Catalog
    BY <2>1 DEF Catalog
  <2>3. GoodPlan(plan)' /\ Backward(plan)' /\ Understood(plan, reply)'
    BY <2>1, <2>2 DEF IInv, GoodPlan, Backward, Understood, Written
  <2> QED
    BY <2>1, <2>3 DEF IInv
<1>6. CASE Revise
  BY <1>6 DEF Revise, IInv, MaxTaskPlanAttempts, Backward
<1>7. CASE UNCHANGED vars
  BY <1>7 DEF vars, IInv, GoodPlan, Backward, Understood, Written, Catalog
<1> QED
  BY <1>1, <1>2, <1>3, <1>4, <1>5, <1>6, <1>7 DEF Next

\* The invariant holds in every state.
THEOREM Invariance == Spec => []IInv
<1> QED
  BY InitIInv, NextIInv, PTL DEF Spec

\* Every variable keeps its type: whatever the LLM replies, normalisation and the
\* steps made of a decision leave a well-formed plan.
THEOREM TypeCorrect == Spec => []TypeOK
<1>1. IInv => TypeOK
  BY DEF IInv, TypeOK
<1> QED
  BY Invariance, <1>1, PTL

\* Whatever the LLM replies in whatever attempt, every step of the plan names
\* something registered and reads artifacts of the session.
THEOREM PlansExecutable == Spec => []PlanIsExecutable
<1>1. IInv => PlanIsExecutable
  BY DEF IInv, GoodPlan, PlanIsExecutable, Doable, Registered, Catalog
<1> QED
  BY Invariance, <1>1, PTL

\* The plans are among those that the theorems about TicketGraph assume.
THEOREM PlansFitTicketGraph == Spec => []FitsTicketGraph
<1>1. IInv => FitsTicketGraph
  <2> SUFFICES ASSUME IInv PROVE FitsTicketGraph
    OBVIOUS
  <2>1. plan.steps \in Seq(Step) /\ Backward(plan)
    BY DEF IInv, Plan
  <2>2. \A i \in DOMAIN plan.steps :
          /\ plan.steps[i].depends_on \in Seq(Nat \ {0})
          /\ Range(plan.steps[i].depends_on) \subseteq 1 .. (i - 1)
    <3> SUFFICES ASSUME NEW i \in DOMAIN plan.steps
                 PROVE  /\ plan.steps[i].depends_on \in Seq(Nat \ {0})
                        /\ Range(plan.steps[i].depends_on) \subseteq 1 .. (i - 1)
      OBVIOUS
    <3>0. plan.steps[i] \in Step /\ i \in Nat
      BY <2>1
    <3>1. plan.steps[i].depends_on \in Seq(Nat \ {0}) /\ i \in Nat
      BY <3>0 DEF Step
    <3>2. \A k \in DOMAIN plan.steps[i].depends_on :
            plan.steps[i].depends_on[k] \in 1 .. (i - 1)
      BY <2>1, <3>1 DEF Backward
    <3> QED
      BY <3>1, <3>2 DEF Range
  <2>3. \A i \in DOMAIN plan.steps :
          GraphPlan[i] = [unavailable |-> plan.steps[i].kind = "unavailable",
                          depends_on  |-> Range(plan.steps[i].depends_on)]
    BY DEF GraphPlan
  <2>5. DOMAIN GraphPlan = 1 .. Len(plan.steps) /\ Len(plan.steps) \in Nat
    BY <2>1 DEF GraphPlan
  <2> DEFINE graph == GraphPlan
             Steps == [unavailable : BOOLEAN, depends_on : SUBSET Nat]
  <2>6. \A i \in DOMAIN graph : graph[i] \in Steps /\ graph[i].depends_on \subseteq 1 .. (i - 1)
    <3> SUFFICES ASSUME NEW i \in DOMAIN plan.steps
                 PROVE  graph[i] \in Steps /\ graph[i].depends_on \subseteq 1 .. (i - 1)
      BY DEF GraphPlan
    <3> DEFINE unavailable == plan.steps[i].kind = "unavailable"
               earlier == Range(plan.steps[i].depends_on)
    <3>1. graph[i] = [unavailable |-> unavailable, depends_on |-> earlier]
      BY <2>3
    <3>2. unavailable \in BOOLEAN
      OBVIOUS
    <3>3. earlier \subseteq 1 .. (i - 1)
      BY <2>2
    <3>4. i \in Nat
      BY <2>5 DEF GraphPlan
    <3> HIDE DEF graph, unavailable, earlier
    <3>5. earlier \subseteq Nat
      BY <3>3, <3>4
    <3>6. graph[i].depends_on = earlier /\ graph[i] \in Steps
      <4>1. earlier \in SUBSET Nat
        BY <3>5
      <4>2. [unavailable |-> unavailable, depends_on |-> earlier] \in Steps
        BY <3>2, <4>1, Zenon
      <4>3. [unavailable |-> unavailable, depends_on |-> earlier].depends_on = earlier
        OBVIOUS
      <4> HIDE DEF Steps
      <4> QED
        BY <3>1, <4>2, <4>3, Zenon
    <3> QED
      BY <3>3, <3>6
  <2>4. graph \in Seq(Steps)
    <3>1. graph = [i \in 1 .. Len(plan.steps) |-> graph[i]]
      BY <2>5 DEF GraphPlan
    <3>2. \A i \in 1 .. Len(plan.steps) : graph[i] \in Steps
      BY <2>5, <2>6
    <3>3. Len(plan.steps) \in Nat
      BY <2>5
    <3> HIDE DEF graph, Steps
    <3> QED
      BY <3>1, <3>2, <3>3
  <2> QED
    BY <2>4, <2>6 DEF FitsTicketGraph
<1> QED
  BY Invariance, <1>1, PTL

\* No ambiguous name is resolved for the LLM, and no reply makes a revision
\* comment by a tool step.
THEOREM NamesAsWritten == Spec => []NothingGuessed
<1>1. IInv => OnlyReading
  BY DEF IInv, OnlyReading
<1>2. IInv => SilentRevision
  <2> SUFFICES ASSUME IInv, path = "revision", pc = "planned", NEW i \in DOMAIN plan.steps,
                      plan.steps[i].kind = "tool", plan.steps[i].name = Exact(CommentTool)
               PROVE  FALSE
    BY DEF SilentRevision
  <2>1. PICK name \in Tools \ {CommentTool} : plan.steps[i].name = Exact(name)
    BY DEF IInv, GoodPlan, Registered, Catalog
  <2>2. Exact(name).names = {name} /\ Exact(CommentTool).names = {CommentTool}
    BY DEF Exact
  <2> QED
    BY <2>1, <2>2
<1> QED
  BY Invariance, <1>1, <1>2, PTL DEF NothingGuessed
-----------------------------------------------------------------------------
(* Induction over the journals. *)

\* A well-founded relation on numbers has a minimal element in every set.
LEMMA MinimalBy ==
  ASSUME NEW R, IsWellFoundedOn(R, Nat), NEW S \in SUBSET Nat, S # {}
  PROVE  \E m \in S : \A n \in S : ~ (<<n, m>> \in R)
BY WFMin, Zenon

\* A set of numbers that is not empty has a least one.
LEMMA LeastNumber ==
  ASSUME NEW S \in SUBSET Nat, S # {}
  PROVE  \E m \in S : \A n \in S : m <= n
<1> DEFINE Less == OpToRel(<, Nat)
<1>1. IsWellFoundedOn(Less, Nat)
  BY NatLessThanWellFounded
<1>2. \A i, j \in Nat : <<i, j>> \in Less <=> i < j
  BY DEF OpToRel
<1> HIDE DEF Less
<1>3. PICK m \in S : \A n \in S : ~ (<<n, m>> \in Less)
  BY <1>1, MinimalBy, Zenon
<1>4. \A n \in S : ~ (n < m)
  BY <1>2, <1>3, Zenon
<1> QED
  BY <1>4

\* The first number against a claim that zero satisfies has a predecessor that
\* is not against it: the form in which the lemmas below use induction.
LEMMA FirstAgainst ==
  ASSUME NEW S \in SUBSET Nat, S # {}, 0 \notin S
  PROVE  \E m \in S : m # 0 /\ m - 1 \in Nat \ S
<1>1. PICK m \in S : \A n \in S : m <= n
  BY LeastNumber
<1>2. m \in Nat /\ m # 0
  OBVIOUS
<1>3. m - 1 \in Nat /\ ~ (m <= m - 1)
  BY <1>2
<1> QED
  BY <1>1, <1>2, <1>3

\* The function that Turns is defined by.
Built(f, humans, agents, n) ==
  f = [k \in 0 .. n |-> IF k = 0 THEN <<>> ELSE Extended(f[k - 1], k, humans, agents)]

\* Two of them agree where both are defined.
LEMMA BuiltAgree ==
  ASSUME NEW humans, NEW agents, NEW m \in Nat, NEW n \in Nat, m <= n,
         NEW f, Built(f, humans, agents, m), NEW g, Built(g, humans, agents, n)
  PROVE  \A k \in 0 .. m : f[k] = g[k]
<1> DEFINE Bad == {k \in 0 .. m : f[k] # g[k]}
<1> SUFFICES ASSUME Bad # {} PROVE FALSE
  OBVIOUS
<1>1. \A k \in 0 .. m :
        /\ f[k] = IF k = 0 THEN <<>> ELSE Extended(f[k - 1], k, humans, agents)
        /\ g[k] = IF k = 0 THEN <<>> ELSE Extended(g[k - 1], k, humans, agents)
  BY DEF Built
<1>2. 0 \notin Bad /\ Bad \in SUBSET Nat
  <2>1. 0 \in 0 .. m
    OBVIOUS
  <2>2. f[0] = <<>> /\ g[0] = <<>>
    BY <1>1, <2>1, Zenon
  <2> QED
    BY <2>2
<1>3. PICK k \in Bad : k # 0 /\ k - 1 \in Nat \ Bad
  <2> HIDE DEF Bad
  <2> QED
    BY <1>2, FirstAgainst
<1>4. k \in 0 .. m /\ k - 1 \in 0 .. m /\ f[k - 1] = g[k - 1]
  BY <1>3
<1>5. f[k] = g[k]
  BY <1>1, <1>3, <1>4
<1> QED
  BY <1>5

\* There is one.
LEMMA BuiltExist ==
  ASSUME NEW humans, NEW agents, NEW n \in Nat
  PROVE  \E f : Built(f, humans, agents, n)
<1> DEFINE Bad == {k \in Nat : ~ \E f : Built(f, humans, agents, k)}
<1> SUFFICES ASSUME Bad # {} PROVE FALSE
  OBVIOUS
<1>1. 0 \notin Bad
  <2>1. Built([k \in 0 .. 0 |-> <<>>], humans, agents, 0)
    BY DEF Built
  <2> QED
    BY <2>1
<1>2. PICK m \in Bad : m # 0 /\ m - 1 \in Nat \ Bad
  <2>1. Bad \in SUBSET Nat
    OBVIOUS
  <2> HIDE DEF Bad
  <2> QED
    BY <1>1, <2>1, FirstAgainst
<1>3. m \in Nat /\ ~ \E f : Built(f, humans, agents, m)
  OBVIOUS
<1>4. PICK f : Built(f, humans, agents, m - 1)
  BY <1>2
<1> DEFINE last == Extended(f[m - 1], m, humans, agents)
           g == [k \in 0 .. m |-> IF k = m THEN last ELSE f[k]]
<1>5. \A j \in 0 .. m - 1 : f[j] = IF j = 0 THEN <<>> ELSE Extended(f[j - 1], j, humans, agents)
  BY <1>4 DEF Built
<1>6. g[m] = last /\ \A j \in 0 .. m - 1 : g[j] = f[j]
  <2> HIDE DEF last, Bad
  <2>1. m \in 0 .. m /\ \A j \in 0 .. m - 1 : j \in 0 .. m /\ j # m
    BY <1>3
  <2> QED
    BY <2>1
<1>7. g = [k \in 0 .. m |-> g[k]]
  OBVIOUS
<1> HIDE DEF g, Bad
<1>8. \A k \in 0 .. m : g[k] = IF k = 0 THEN <<>> ELSE Extended(g[k - 1], k, humans, agents)
  <2> SUFFICES ASSUME NEW k \in 0 .. m
               PROVE  g[k] = IF k = 0 THEN <<>> ELSE Extended(g[k - 1], k, humans, agents)
    OBVIOUS
  <2>1. CASE k = m
    <3>1. g[k - 1] = f[k - 1]
      BY <1>2, <1>6, <2>1
    <3> QED
      BY <1>2, <1>6, <2>1, <3>1
  <2>2. CASE k # m
    <3>1. k \in 0 .. m - 1 /\ (k # 0 => k - 1 \in 0 .. m - 1)
      BY <1>3, <2>2
    <3> HIDE DEF last
    <3> QED
      BY <1>5, <1>6, <3>1
  <2> QED
    BY <2>1, <2>2
<1>9. Built(g, humans, agents, m)
  BY <1>7, <1>8 DEF Built
<1> QED
  BY <1>3, <1>9

\* One journal after the other extends the conversation.
LEMMA TurnsExtend ==
  ASSUME NEW humans, NEW agents
  PROVE  /\ Turns(humans, agents, 0) = <<>>
         /\ \A n \in Nat \ {0} :
              Turns(humans, agents, n) = Extended(Turns(humans, agents, n - 1), n, humans, agents)
<1>1. ASSUME NEW n \in Nat
      PROVE  \E f : Built(f, humans, agents, n) /\ Turns(humans, agents, n) = f[n]
  <2> DEFINE f == CHOOSE f : Built(f, humans, agents, n)
  <2>1. Built(f, humans, agents, n)
    BY BuiltExist
  <2>2. Turns(humans, agents, n) = f[n]
    BY DEF Turns, Built
  <2> QED
    BY <2>1, <2>2
<1>2. Turns(humans, agents, 0) = <<>>
  <2>1. PICK f : Built(f, humans, agents, 0) /\ Turns(humans, agents, 0) = f[0]
    BY <1>1
  <2>2. f[0] = <<>>
    BY <2>1 DEF Built
  <2> QED
    BY <2>1, <2>2
<1>3. ASSUME NEW n \in Nat \ {0}
      PROVE  Turns(humans, agents, n) = Extended(Turns(humans, agents, n - 1), n, humans, agents)
  <2>1. PICK f : Built(f, humans, agents, n) /\ Turns(humans, agents, n) = f[n]
    BY <1>1
  <2>2. n \in Nat /\ n - 1 \in Nat /\ n - 1 <= n /\ n - 1 \in 0 .. n - 1 /\ n \in 0 .. n /\ n # 0
    OBVIOUS
  <2>3. PICK g : Built(g, humans, agents, n - 1) /\ Turns(humans, agents, n - 1) = g[n - 1]
    BY <1>1, <2>2
  <2>4. g[n - 1] = f[n - 1]
    <3>1. ASSUME NEW m \in Nat, m = n - 1 PROVE \A k \in 0 .. m : g[k] = f[k]
      <4>1. m <= n /\ Built(g, humans, agents, m) /\ Built(f, humans, agents, n)
        BY <2>1, <2>2, <2>3, <3>1
      <4> QED
        BY <2>2, <4>1, BuiltAgree
    <3> QED
      BY <2>2, <3>1
  <2>5. f[n] = Extended(f[n - 1], n, humans, agents)
    <3>1. \A k \in 0 .. n : f[k] = IF k = 0 THEN <<>> ELSE Extended(f[k - 1], k, humans, agents)
      BY <2>1 DEF Built
    <3> QED
      BY <2>2, <3>1, Zenon
  <2> QED
    BY <2>1, <2>3, <2>4, <2>5
<1> QED
  BY <1>2, <1>3
-----------------------------------------------------------------------------
(* Conversations. *)

\* A turn that tells some of the first n journals.
Turn(n) == [role : {"user", "assistant"}, ids : Seq(1 .. n)]

\* A conversation about the first n journals.
Talk(ts, n) == ts \in Seq(Turn(n)) /\ Ordered(ts)

\* What a conversation tells, turn by turn and journal by journal.
LEMMA ToldMember ==
  ASSUME NEW ts, NEW role, NEW k
  PROVE  k \in Told(ts, role) <=>
           \E i \in DOMAIN ts : ts[i].role = role /\ \E p \in DOMAIN ts[i].ids : k = ts[i].ids[p]
BY DEF Told

\* The ids in a turn are numbers of journals.
LEMMA TurnIds ==
  ASSUME NEW n \in Nat, NEW t \in Turn(n)
  PROVE  /\ t.role \in {"user", "assistant"} /\ t.ids \in Seq(1 .. n)
         /\ DOMAIN t.ids = 1 .. Len(t.ids) /\ Len(t.ids) \in Nat
         /\ \A p \in DOMAIN t.ids : t.ids[p] \in 1 .. n
<1>1. t.role \in {"user", "assistant"} /\ t.ids \in Seq(1 .. n)
  BY DEF Turn
<1> QED
  BY <1>1

\* Journals to come change nothing.
LEMMA TalkGrows ==
  ASSUME NEW n \in Nat, NEW m \in Nat, n <= m, NEW ts, Talk(ts, n)
  PROVE  Talk(ts, m)
<1>1. ASSUME NEW i \in DOMAIN ts PROVE ts[i] \in Turn(m)
  <2>1. ts[i] \in Turn(n)
    BY DEF Talk
  <2>2. ts[i].ids \in Seq(1 .. m)
    <3>1. \A p \in 1 .. Len(ts[i].ids) : ts[i].ids[p] \in 1 .. m
      BY <2>1, TurnIds
    <3>2. ts[i].ids \in Seq(1 .. n)
      BY <2>1, TurnIds
    <3> QED
      BY <3>1, <3>2
  <2> QED
    BY <2>1, <2>2 DEF Turn
<1>2. ts \in Seq(Turn(n))
  BY DEF Talk
<1>3. ts \in Seq(Turn(m))
  BY <1>1, <1>2
<1> QED
  BY <1>3 DEF Talk

\* What is told is among the journals.
LEMMA ToldWithin ==
  ASSUME NEW n \in Nat, NEW ts, Talk(ts, n), NEW role
  PROVE  Told(ts, role) \subseteq 1 .. n
<1> SUFFICES ASSUME NEW k \in Told(ts, role) PROVE k \in 1 .. n
  OBVIOUS
<1>1. PICK i \in DOMAIN ts : \E p \in DOMAIN ts[i].ids : k = ts[i].ids[p]
  BY ToldMember
<1>2. ts[i] \in Turn(n)
  BY DEF Talk
<1> QED
  BY <1>1, <1>2, TurnIds

\* Behind a conversation about the first journals, one about later journals.
LEMMA TalkJoined ==
  ASSUME NEW n \in Nat, NEW m \in Nat, n <= m, NEW ts, Talk(ts, n), NEW us, Talk(us, m),
         \A i \in DOMAIN us : \A p \in DOMAIN us[i].ids : us[i].ids[p] > n
  PROVE  /\ Talk(ts \o us, m)
         /\ \A role : Told(ts \o us, role) = Told(ts, role) \cup Told(us, role)
<1> DEFINE both == ts \o us
<1>1. Talk(ts, m)
  BY TalkGrows
<1>2. ts \in Seq(Turn(m)) /\ us \in Seq(Turn(m))
  BY <1>1 DEF Talk
<1>3. /\ both \in Seq(Turn(m))
      /\ DOMAIN both = 1 .. Len(ts) + Len(us)
      /\ DOMAIN ts = 1 .. Len(ts) /\ DOMAIN us = 1 .. Len(us)
      /\ Len(ts) \in Nat /\ Len(us) \in Nat
  BY <1>2
<1>4. /\ \A i \in 1 .. Len(ts) : both[i] = ts[i]
      /\ \A i \in Len(ts) + 1 .. Len(ts) + Len(us) : both[i] = us[i - Len(ts)]
  BY <1>2
<1> HIDE DEF both
<1>5. Ordered(both)
  <2> SUFFICES ASSUME NEW i \in DOMAIN both, NEW j \in DOMAIN both,
                      NEW p \in DOMAIN both[i].ids, NEW q \in DOMAIN both[j].ids,
                      i < j \/ (i = j /\ p < q)
               PROVE  both[i].ids[p] < both[j].ids[q]
    BY DEF Ordered
  <2>1. CASE j <= Len(ts)
    <3>1. i \in DOMAIN ts /\ j \in DOMAIN ts /\ both[i] = ts[i] /\ both[j] = ts[j]
      BY <1>3, <1>4, <2>1
    <3> QED
      BY <3>1 DEF Talk, Ordered
  <2>2. CASE i > Len(ts)
    <3>1. /\ i - Len(ts) \in DOMAIN us /\ j - Len(ts) \in DOMAIN us
          /\ both[i] = us[i - Len(ts)] /\ both[j] = us[j - Len(ts)]
          /\ i - Len(ts) < j - Len(ts) \/ (i - Len(ts) = j - Len(ts) /\ p < q)
      BY <1>3, <1>4, <2>2
    <3> QED
      BY <3>1 DEF Talk, Ordered
  <2>3. CASE i <= Len(ts) /\ j > Len(ts)
    <3>1. /\ i \in DOMAIN ts /\ j - Len(ts) \in DOMAIN us
          /\ both[i] = ts[i] /\ both[j] = us[j - Len(ts)]
      BY <1>3, <1>4, <2>3
    <3>2. ts[i] \in Turn(n) /\ us[j - Len(ts)] \in Turn(m)
      BY <3>1 DEF Talk
    <3>3. ts[i].ids[p] \in 1 .. n /\ us[j - Len(ts)].ids[q] \in 1 .. m
      BY <3>1, <3>2, TurnIds
    <3>4. us[j - Len(ts)].ids[q] > n
      BY <3>1
    <3> QED
      BY <3>1, <3>3, <3>4
  <2> QED
    BY <1>3, <2>1, <2>2, <2>3
<1>6. ASSUME NEW role, NEW k
      PROVE  k \in Told(both, role) <=> k \in Told(ts, role) \cup Told(us, role)
  <2>1. ASSUME k \in Told(both, role) PROVE k \in Told(ts, role) \cup Told(us, role)
    <3>1. PICK i \in DOMAIN both : /\ both[i].role = role
                                   /\ \E p \in DOMAIN both[i].ids : k = both[i].ids[p]
      BY <2>1, ToldMember
    <3>2. CASE i <= Len(ts)
      <4>1. i \in DOMAIN ts /\ both[i] = ts[i]
        BY <1>3, <1>4, <3>2
      <4>2. k \in Told(ts, role)
        BY <3>1, <4>1, ToldMember
      <4> QED
        BY <4>2
    <3>3. CASE i > Len(ts)
      <4>1. i - Len(ts) \in DOMAIN us /\ both[i] = us[i - Len(ts)]
        BY <1>3, <1>4, <3>3
      <4>2. k \in Told(us, role)
        BY <3>1, <4>1, ToldMember
      <4> QED
        BY <4>2
    <3> QED
      BY <1>3, <3>2, <3>3
  <2>2. ASSUME k \in Told(ts, role) PROVE k \in Told(both, role)
    <3>1. PICK i \in DOMAIN ts : /\ ts[i].role = role
                                 /\ \E p \in DOMAIN ts[i].ids : k = ts[i].ids[p]
      BY <2>2, ToldMember
    <3>2. i \in DOMAIN both /\ both[i] = ts[i]
      BY <1>3, <1>4
    <3> QED
      BY <3>1, <3>2, ToldMember
  <2>3. ASSUME k \in Told(us, role) PROVE k \in Told(both, role)
    <3>1. PICK i \in DOMAIN us : /\ us[i].role = role
                                 /\ \E p \in DOMAIN us[i].ids : k = us[i].ids[p]
      BY <2>3, ToldMember
    <3>2. i + Len(ts) \in DOMAIN both /\ both[i + Len(ts)] = us[i]
      BY <1>3, <1>4
    <3> QED
      BY <3>1, <3>2, ToldMember
  <2> QED
    BY <2>1, <2>2, <2>3
<1> QED
  BY <1>3, <1>5, <1>6 DEF Talk, both

\* A conversation of one turn.
LEMMA TalkOfOne ==
  ASSUME NEW n \in Nat, NEW t \in Turn(n), Len(t.ids) <= 1
  PROVE  /\ Talk(<<t>>, n)
         /\ \A role : Told(<<t>>, role)
                        = IF t.role = role THEN {t.ids[p] : p \in DOMAIN t.ids} ELSE {}
<1> DEFINE ts == <<t>>
<1>1. ts \in Seq(Turn(n)) /\ DOMAIN ts = {1} /\ ts[1] = t
  OBVIOUS
<1> HIDE DEF ts
<1>2. DOMAIN t.ids = 1 .. Len(t.ids) /\ Len(t.ids) \in Nat
  BY TurnIds
<1>3. Ordered(ts)
  <2>1. \A p, q \in DOMAIN t.ids : ~ (p < q)
    BY <1>2
  <2> QED
    BY <1>1, <2>1 DEF Ordered
<1>4. ASSUME NEW role
      PROVE  Told(ts, role) = IF t.role = role THEN {t.ids[p] : p \in DOMAIN t.ids} ELSE {}
  BY <1>1, ToldMember
<1> QED
  BY <1>1, <1>3, <1>4 DEF Talk, ts

\* One journal more: it is told once, in its role and after all others.
LEMMA ExtendedTalk ==
  ASSUME NEW n \in Nat, NEW ts, Talk(ts, n), NEW humans, NEW agents
  PROVE  LET k  == n + 1
             us == Extended(ts, k, humans, agents)
         IN  /\ Talk(us, k)
             /\ Told(us, "user") = Told(ts, "user") \cup ({k} \cap (humans \ agents))
             /\ Told(us, "assistant") = Told(ts, "assistant") \cup ({k} \cap agents)
<1> DEFINE k == n + 1
           us == Extended(ts, k, humans, agents)
<1> SUFFICES /\ Talk(us, k)
             /\ Told(us, "user") = Told(ts, "user") \cup ({k} \cap (humans \ agents))
             /\ Told(us, "assistant") = Told(ts, "assistant") \cup ({k} \cap agents)
  OBVIOUS
<1>1. k \in Nat /\ n <= k /\ k > n /\ k \in 1 .. k
  OBVIOUS
<1>2. us = IF k \in agents THEN Append(ts, Assistant(<<k>>))
           ELSE IF k \notin humans THEN ts
           ELSE IF ts # <<>> /\ ts[Len(ts)].role = "user"
                THEN [ts EXCEPT ![Len(ts)] = User(Append(ts[Len(ts)].ids, k))]
                ELSE Append(ts, User(<<k>>))
  BY DEF Extended
<1> HIDE DEF k, us
<1>3. Talk(ts, k) /\ ts \in Seq(Turn(k))
  BY <1>1, TalkGrows DEF Talk
\* A turn of its own.
<1>4. ASSUME NEW t \in Turn(k), t.ids = <<k>>
      PROVE  /\ Talk(Append(ts, t), k)
             /\ \A role : Told(Append(ts, t), role)
                            = Told(ts, role) \cup (IF t.role = role THEN {k} ELSE {})
  <2>1. Append(ts, t) = ts \o <<t>>
    BY <1>3
  <2>2. Len(t.ids) = 1 /\ DOMAIN t.ids = {1} /\ t.ids[1] = k
    BY <1>4
  <2>3. /\ Talk(<<t>>, k)
        /\ \A role : Told(<<t>>, role) = IF t.role = role THEN {k} ELSE {}
    <3>1. {t.ids[p] : p \in DOMAIN t.ids} = {k}
      BY <2>2
    <3>2. Len(t.ids) <= 1
      BY <2>2
    <3> QED
      BY <1>1, <3>1, <3>2, TalkOfOne
  <2>4. \A i \in DOMAIN <<t>> : \A p \in DOMAIN <<t>>[i].ids : <<t>>[i].ids[p] > n
    <3>1. DOMAIN <<t>> = {1} /\ <<t>>[1] = t
      OBVIOUS
    <3> QED
      BY <1>1, <2>2, <3>1
  <2>5. /\ Talk(ts \o <<t>>, k)
        /\ \A role : Told(ts \o <<t>>, role) = Told(ts, role) \cup Told(<<t>>, role)
    BY <1>1, <2>3, <2>4, TalkJoined
  <2> QED
    BY <2>1, <2>3, <2>5
<1>5. CASE k \in agents
  <2> DEFINE t == Assistant(<<k>>)
  <2>1. t.role = "assistant" /\ t.ids = <<k>> /\ t \in Turn(k)
    BY <1>1 DEF Assistant, Turn
  <2>2. us = Append(ts, t)
    BY <1>2, <1>5
  <2> HIDE DEF t
  <2>3. /\ Talk(us, k)
        /\ \A role : Told(us, role)
                       = Told(ts, role) \cup (IF t.role = role THEN {k} ELSE {})
    BY <1>4, <2>1, <2>2
  <2>4. /\ Told(us, "user") = Told(ts, "user") \cup {}
        /\ Told(us, "assistant") = Told(ts, "assistant") \cup {k}
    BY <2>1, <2>3
  <2> QED
    BY <1>5, <2>3, <2>4
<1>6. CASE k \notin agents /\ k \notin humans
  BY <1>2, <1>3, <1>6
<1>7. CASE /\ k \notin agents /\ k \in humans
           /\ ~ (ts # <<>> /\ ts[Len(ts)].role = "user")
  <2> DEFINE t == User(<<k>>)
  <2>1. t.role = "user" /\ t.ids = <<k>> /\ t \in Turn(k)
    BY <1>1 DEF User, Turn
  <2>2. us = Append(ts, t)
    BY <1>2, <1>7
  <2> HIDE DEF t
  <2>3. /\ Talk(us, k)
        /\ \A role : Told(us, role)
                       = Told(ts, role) \cup (IF t.role = role THEN {k} ELSE {})
    BY <1>4, <2>1, <2>2
  <2>4. /\ Told(us, "user") = Told(ts, "user") \cup {k}
        /\ Told(us, "assistant") = Told(ts, "assistant") \cup {}
    BY <2>1, <2>3
  <2> QED
    BY <1>7, <2>3, <2>4
\* One more in the open turn.
<1>8. CASE /\ k \notin agents /\ k \in humans
           /\ ts # <<>> /\ ts[Len(ts)].role = "user"
  <2> DEFINE l == Len(ts)
             old == ts[l].ids
             t == User(Append(old, k))
  <2>1. us = [ts EXCEPT ![l] = t]
    BY <1>2, <1>8
  <2>2. l \in DOMAIN ts /\ DOMAIN ts = 1 .. l /\ l \in Nat
    BY <1>3, <1>8
  <2>3. ts[l] \in Turn(n) /\ ts[l].role = "user"
    BY <1>8, <2>2 DEF Talk
  <2>4. /\ old \in Seq(1 .. n) /\ DOMAIN old = 1 .. Len(old) /\ Len(old) \in Nat
        /\ \A p \in DOMAIN old : old[p] \in 1 .. n
    BY <2>3, TurnIds
  <2>5. t.role = "user" /\ t.ids = Append(old, k)
    BY DEF User
  <2>6. /\ t.ids \in Seq(1 .. k)
        /\ DOMAIN t.ids = 1 .. Len(old) + 1
        /\ t.ids[Len(old) + 1] = k
        /\ \A p \in 1 .. Len(old) : t.ids[p] = old[p]
    <3>1. old \in Seq(1 .. k)
      BY <1>1, <1>3, <2>2, TurnIds
    <3> HIDE DEF t, old
    <3> QED
      BY <1>1, <2>5, <3>1
  <2>7. t \in Turn(k)
    BY <2>6 DEF Turn, User
  <2>8. /\ us \in Seq(Turn(k)) /\ DOMAIN us = DOMAIN ts /\ us[l] = t
        /\ \A i \in DOMAIN ts : i # l => us[i] = ts[i]
    <3> HIDE DEF t, l
    <3> QED
      BY <1>3, <2>1, <2>2, <2>7
  <2> HIDE DEF t, l, old
  <2>9. Ordered(us)
    <3> SUFFICES ASSUME NEW i \in DOMAIN us, NEW j \in DOMAIN us,
                        NEW p \in DOMAIN us[i].ids, NEW q \in DOMAIN us[j].ids,
                        i < j \/ (i = j /\ p < q)
                 PROVE  us[i].ids[p] < us[j].ids[q]
      BY DEF Ordered
    \* All ids but the new one are where they were.
    <3>1. ASSUME NEW x \in DOMAIN us, NEW r \in DOMAIN us[x].ids, ~ (x = l /\ r = Len(old) + 1)
          PROVE  /\ x \in DOMAIN ts /\ r \in DOMAIN ts[x].ids
                 /\ us[x].ids[r] = ts[x].ids[r] /\ ts[x].ids[r] \in 1 .. n
      <4>1. CASE x = l
        <5>1. r \in 1 .. Len(old)
          BY <2>4, <2>6, <2>8, <3>1, <4>1
        <5> QED
          BY <2>2, <2>4, <2>6, <2>8, <4>1, <5>1 DEF old
      <4>2. CASE x # l
        <5>1. us[x] = ts[x] /\ x \in DOMAIN ts
          BY <2>8, <4>2
        <5>2. ts[x] \in Turn(n)
          BY <5>1 DEF Talk
        <5> QED
          BY <5>1, <5>2, TurnIds
      <4> QED
        BY <4>1, <4>2
    <3>2. ~ (i = l /\ p = Len(old) + 1)
      BY <2>2, <2>4, <2>6, <2>8
    <3>3. CASE j = l /\ q = Len(old) + 1
      <4>1. us[j].ids[q] = k /\ us[i].ids[p] \in 1 .. n
        BY <2>6, <2>8, <3>1, <3>2, <3>3
      <4> QED
        BY <1>1, <4>1
    <3>4. CASE ~ (j = l /\ q = Len(old) + 1)
      <4>1. /\ i \in DOMAIN ts /\ p \in DOMAIN ts[i].ids /\ us[i].ids[p] = ts[i].ids[p]
            /\ j \in DOMAIN ts /\ q \in DOMAIN ts[j].ids /\ us[j].ids[q] = ts[j].ids[q]
        BY <3>1, <3>2, <3>4
      <4>2. ts[i].ids[p] < ts[j].ids[q]
        BY <4>1 DEF Talk, Ordered
      <4> QED
        BY <4>1, <4>2
    <3> QED
      BY <3>3, <3>4
  <2>10. ASSUME NEW role, NEW x
         PROVE  x \in Told(us, role)
                  <=> x \in Told(ts, role) \/ (role = "user" /\ x = k)
    <3>1. ASSUME NEW i \in DOMAIN us, us[i].role = role,
                 NEW p \in DOMAIN us[i].ids, x = us[i].ids[p]
          PROVE  x \in Told(ts, role) \/ (role = "user" /\ x = k)
      <4>1. CASE i # l
        <5>1. i \in DOMAIN ts /\ us[i] = ts[i]
          BY <2>8, <4>1
        <5> QED
          BY <3>1, <5>1, ToldMember
      <4>2. CASE i = l
        <5>1. role = "user" /\ p \in 1 .. Len(old) + 1
          BY <2>5, <2>6, <2>8, <3>1, <4>2
        <5>2. p = Len(old) + 1 \/ (p \in DOMAIN old /\ x = old[p])
          BY <2>4, <2>6, <2>8, <3>1, <4>2, <5>1
        <5>3. CASE p = Len(old) + 1
          BY <2>6, <2>8, <3>1, <4>2, <5>1, <5>3
        <5>4. CASE p \in DOMAIN old /\ x = old[p]
          BY <2>2, <2>3, <5>1, <5>4, ToldMember DEF old
        <5> QED
          BY <5>2, <5>3, <5>4
      <4> QED
        BY <4>1, <4>2
    <3>2. ASSUME NEW i \in DOMAIN ts, ts[i].role = role,
                 NEW p \in DOMAIN ts[i].ids, x = ts[i].ids[p]
          PROVE  x \in Told(us, role)
      <4>1. CASE i # l
        <5>1. i \in DOMAIN us /\ us[i] = ts[i]
          BY <2>8, <4>1
        <5> QED
          BY <3>2, <5>1, ToldMember
      <4>2. CASE i = l
        <5>1. i \in DOMAIN us /\ us[i].role = role
          BY <2>3, <2>5, <2>8, <3>2, <4>2
        <5>2. p \in DOMAIN old /\ x = old[p]
          BY <3>2, <4>2 DEF old
        <5>3. p \in DOMAIN us[i].ids /\ us[i].ids[p] = x
          BY <2>4, <2>6, <2>8, <4>2, <5>2
        <5> QED
          BY <5>1, <5>3, ToldMember
      <4> QED
        BY <4>1, <4>2
    <3>3. ASSUME role = "user", x = k PROVE x \in Told(us, role)
      <4>1. l \in DOMAIN us /\ us[l].role = role
        BY <2>2, <2>5, <2>8, <3>3
      <4>2. Len(old) + 1 \in DOMAIN us[l].ids /\ us[l].ids[Len(old) + 1] = x
        BY <2>4, <2>6, <2>8, <3>3
      <4> QED
        BY <4>1, <4>2, ToldMember
    <3> QED
      BY <3>1, <3>2, <3>3, ToldMember
  <2>11. /\ Told(us, "user") = Told(ts, "user") \cup {k}
         /\ Told(us, "assistant") = Told(ts, "assistant")
    <3>1. \A x : x \in Told(us, "user") <=> x \in Told(ts, "user") \cup {k}
      BY <2>10
    <3>2. \A x : x \in Told(us, "assistant") <=> x \in Told(ts, "assistant")
      BY <2>10
    <3> QED
      BY <3>1, <3>2
  <2> QED
    BY <1>8, <2>8, <2>9, <2>11 DEF Talk
<1> QED
  BY <1>5, <1>6, <1>7, <1>8

\* The turns of some journals tell each of them once, in its role and in order.
LEMMA TurnsTalk ==
  ASSUME NEW humans, NEW agents, NEW n \in Nat
  PROVE  /\ Talk(Turns(humans, agents, n), n)
         /\ Told(Turns(humans, agents, n), "user") = (1 .. n) \cap (humans \ agents)
         /\ Told(Turns(humans, agents, n), "assistant") = (1 .. n) \cap agents
<1> DEFINE ts(k) == Turns(humans, agents, k)
           Claim(k) == /\ Talk(ts(k), k)
                       /\ Told(ts(k), "user") = (1 .. k) \cap (humans \ agents)
                       /\ Told(ts(k), "assistant") = (1 .. k) \cap agents
           Bad == {k \in Nat : ~Claim(k)}
<1>1. Claim(0)
  <2>1. ts(0) = <<>>
    BY TurnsExtend
  <2> HIDE DEF ts
  <2>2. Talk(<<>>, 0)
    BY DEF Talk, Ordered
  <2>3. \A role : Told(ts(0), role) = {}
    BY <2>1, ToldMember
  <2> QED
    BY <2>1, <2>2, <2>3
<1>2. ASSUME NEW k \in Nat, k # 0, Claim(k - 1) PROVE Claim(k)
  <2>1. k - 1 \in Nat /\ k - 1 + 1 = k
    BY <1>2
  <2>2. ts(k) = Extended(ts(k - 1), k, humans, agents)
    BY <1>2, TurnsExtend
  <2> HIDE DEF ts
  <2>3. /\ Talk(ts(k), k)
        /\ Told(ts(k), "user") = Told(ts(k - 1), "user") \cup ({k} \cap (humans \ agents))
        /\ Told(ts(k), "assistant") = Told(ts(k - 1), "assistant") \cup ({k} \cap agents)
    BY <1>2, <2>1, <2>2, ExtendedTalk
  <2>4. 1 .. k = (1 .. k - 1) \cup {k}
    BY <1>2
  <2> QED
    BY <1>2, <2>3, <2>4
<1> HIDE DEF Claim
<1>3. Bad = {}
  <2> SUFFICES ASSUME Bad # {} PROVE FALSE
    OBVIOUS
  <2>1. Bad \in SUBSET Nat /\ 0 \notin Bad
    BY <1>1
  <2>2. PICK m \in Bad : m # 0 /\ m - 1 \in Nat \ Bad
    <3> HIDE DEF Bad
    <3> QED
      BY <2>1, FirstAgainst
  <2> QED
    BY <1>2, <2>2
<1> QED
  BY <1>3 DEF Claim
-----------------------------------------------------------------------------
(* The invariant of Journals. *)

\* What the conversation knows of the journals below the cursor.
Listened ==
  /\ \A k \in Told(turns, "user") :
       journals[k].notes /\ journals[k].user \in Humans \cup lapsed
  /\ \A k \in 1 .. cursor :
       journals[k].notes /\ journals[k].user \in Humans => k \in Told(turns, "user")

\* The ids in the turns do not exceed the cursor; that is why journals to come and
\* those between fetch and cursor disturb nothing.
JInv ==
  /\ journals \in Seq(Journal) /\ Len(journals) <= MaxJournals
  /\ enabled \subseteq Agents /\ Agents \ enabled \subseteq lapsed /\ lapsed \subseteq Agents
  /\ cursor \in 0 .. Len(journals) /\ fetched \in 0 .. Len(journals)
  /\ started \in BOOLEAN /\ phase \in {"idle", "fetched", "working"}
  /\ answers \in 0 .. MaxAnswers /\ (phase # "idle" => answers < MaxAnswers)
  /\ Talk(turns, cursor)
  /\ (~started => turns = <<>> /\ cursor = 0) /\ (phase = "working" => started)
  /\ Listened

\* A ticket with a history has no conversation yet.
LEMMA JInitInv == JInit => JInv
<1> SUFFICES ASSUME JInit PROVE JInv
  OBVIOUS
<1>1. journals \in Seq(Journal) /\ Len(journals) <= MaxJournals /\ Len(journals) \in Nat
  <2>1. PICK n \in 0 .. MaxHistory : journals \in [1 .. n -> Journal]
    BY DEF JInit
  <2>2. n \in Nat /\ n <= MaxJournals
    BY JournalsAssumption
  <2> QED
    BY <2>1, <2>2
<1>2. Talk(<<>>, 0)
  BY DEF Talk, Ordered
<1>3. \A role : Told(<<>>, role) = {}
  BY ToldMember
<1>4. /\ turns = <<>> /\ cursor = 0 /\ started = FALSE /\ fetched = 0 /\ phase = "idle"
      /\ answers = 0 /\ lapsed = Agents \ enabled /\ enabled \subseteq Agents
  BY DEF JInit
<1>5. Listened
  BY <1>3, <1>4 DEF Listened
<1>6. 0 \in 0 .. Len(journals) /\ 0 \in 0 .. MaxAnswers
  BY <1>1, JournalsAssumption
<1> QED
  BY <1>1, <1>2, <1>4, <1>5, <1>6 DEF JInv

\* One journal more, above the cursor.
LEMMA PostedInv ==
  ASSUME JInv, NEW user \in Humans \cup Agents, NEW notes \in BOOLEAN,
         Posted(user, notes),
         UNCHANGED <<enabled, turns, cursor, started, fetched, phase, answers, lapsed>>
  PROVE  JInv'
<1>1. /\ Len(journals) < MaxJournals
      /\ journals' = Append(journals, [user |-> user, notes |-> notes])
  BY DEF Posted
<1>2. journals \in Seq(Journal) /\ Len(journals) \in Nat /\ cursor \in 0 .. Len(journals)
  BY DEF JInv
<1>3. [user |-> user, notes |-> notes] \in Journal
  BY DEF Journal
<1>4. /\ journals' \in Seq(Journal) /\ Len(journals') = Len(journals) + 1
      /\ \A k \in 1 .. Len(journals) : journals'[k] = journals[k]
  BY <1>1, <1>2, <1>3
<1>5. Len(journals') <= MaxJournals
  BY <1>1, <1>2, <1>4, JournalsAssumption
<1>6. cursor' \in 0 .. Len(journals') /\ fetched' \in 0 .. Len(journals')
  BY <1>2, <1>4 DEF JInv
<1>7. \A k \in 1 .. cursor : journals'[k] = journals[k]
  BY <1>2, <1>4
<1>8. Told(turns, "user") \subseteq 1 .. cursor
  BY <1>2, ToldWithin DEF JInv
<1>9. Told(turns', "user") = Told(turns, "user")
  OBVIOUS
<1>10. Listened'
  BY <1>7, <1>8, <1>9 DEF Listened, JInv
<1>11. Talk(turns', cursor')
  BY DEF JInv
<1> QED
  BY <1>4, <1>5, <1>6, <1>10, <1>11 DEF JInv

\* The cursor is where the fetch ended, unless that was before.
LEMMA CursorInv ==
  ASSUME JInv
  PROVE  /\ CursorAfter(fetched) \in 0 .. Len(journals)
         /\ cursor <= CursorAfter(fetched) /\ fetched <= CursorAfter(fetched)
         /\ CursorAfter(fetched) \in {cursor, fetched}
         /\ cursor \in Nat /\ fetched \in Nat /\ Len(journals) \in Nat
<1>1. journals \in Seq(Journal) /\ cursor \in 0 .. Len(journals) /\ fetched \in 0 .. Len(journals)
  BY DEF JInv
<1>2. Len(journals) \in Nat
  BY <1>1
<1> QED
  BY <1>1, <1>2 DEF CursorAfter

\* An agent that is not enabled is one that lapsed, and no human is an agent.
LEMMA JournalUsers ==
  ASSUME JInv, NEW k \in 1 .. Len(journals)
  PROVE  /\ journals[k].notes \in BOOLEAN
         /\ ~IsAgents(k) => journals[k].user \in Humans \cup lapsed
         /\ journals[k].user \in Humans => ~IsAgents(k)
<1>1. journals[k] \in Journal
  BY DEF JInv
<1>2. journals[k].user \in Humans \cup Agents /\ journals[k].notes \in BOOLEAN
  BY <1>1 DEF Journal
<1> QED
  BY <1>2, JournalsAssumption DEF IsAgents, JInv

\* A new conversation tells the whole history that was fetched.
LEMMA InitializeInv ==
  ASSUME JInv, Initialize
  PROVE  JInv'
<1> DEFINE agents == {k \in Noted(fetched) : IsAgents(k)}
           humans == Noted(fetched) \ agents
           ts == Turns(humans, agents, fetched)
<1>1. /\ turns' = ts /\ cursor' = CursorAfter(fetched) /\ started' = TRUE
      /\ phase' = "working" /\ phase = "fetched" /\ ~started
      /\ UNCHANGED <<journals, enabled, fetched, answers, lapsed>>
  BY DEF Initialize, InitialTurns
<1>2. turns = <<>> /\ cursor = 0
  BY <1>1 DEF JInv
<1>3. /\ fetched \in Nat /\ fetched <= Len(journals) /\ Len(journals) \in Nat
      /\ cursor' = fetched
  BY <1>1, <1>2, CursorInv DEF JInv
<1>4. Talk(ts, fetched) /\ Told(ts, "user") = (1 .. fetched) \cap (humans \ agents)
  BY <1>3, TurnsTalk
<1>5. \A k : k \in Told(ts, "user") <=>
               k \in 1 .. fetched /\ journals[k].notes /\ ~IsAgents(k)
  BY <1>4 DEF Noted, HasNotes
<1> HIDE DEF ts
<1>6. \A k \in 1 .. fetched : k \in 1 .. Len(journals)
  BY <1>3
<1>7. Listened'
  BY <1>1, <1>3, <1>5, <1>6, JournalUsers DEF Listened
<1>8. Talk(turns', cursor')
  BY <1>1, <1>3, <1>4
<1> QED
  BY <1>1, <1>3, <1>7, <1>8 DEF JInv

\* A resumed one goes on with what the humans said above the cursor.
LEMMA WaitForHumanInv ==
  ASSUME JInv, WaitForHuman
  PROVE  JInv'
<1> DEFINE heard == Feedback(fetched)
           us == Turns(heard, {}, fetched)
           next == CursorAfter(fetched)
<1>1. /\ turns' = turns \o us /\ cursor' = next /\ phase' = "working" /\ phase = "fetched"
      /\ started /\ UNCHANGED <<journals, enabled, started, fetched, answers, lapsed>>
  BY DEF WaitForHuman
<1>2. /\ cursor \in Nat /\ fetched \in Nat /\ next \in Nat /\ Len(journals) \in Nat
      /\ next <= Len(journals) /\ cursor <= next /\ fetched <= next /\ next \in {cursor, fetched}
  BY CursorInv
<1>3. \A k : k \in heard <=>
               k \in 1 .. fetched /\ journals[k].notes /\ ~IsAgents(k) /\ k > cursor
  BY DEF Feedback, Noted, HasNotes
<1>4. /\ Talk(us, fetched) /\ Told(us, "assistant") = {}
      /\ Told(us, "user") = heard
  <2>1. /\ Talk(us, fetched)
        /\ Told(us, "user") = (1 .. fetched) \cap (heard \ {})
        /\ Told(us, "assistant") = (1 .. fetched) \cap {}
    BY <1>2, TurnsTalk
  <2> HIDE DEF us, heard
  <2> QED
    BY <1>3, <2>1
<1> HIDE DEF heard, us, next
<1>5. \A i \in DOMAIN us : \A p \in DOMAIN us[i].ids : us[i].ids[p] > cursor
  <2> SUFFICES ASSUME NEW i \in DOMAIN us, NEW p \in DOMAIN us[i].ids
               PROVE  us[i].ids[p] > cursor
    OBVIOUS
  <2>1. us[i].role \in {"user", "assistant"}
    <3>1. us[i] \in Turn(fetched)
      BY <1>4 DEF Talk
    <3> QED
      BY <1>2, <3>1, TurnIds
  <2>2. us[i].ids[p] \in Told(us, "user") \cup Told(us, "assistant")
    BY <2>1, ToldMember
  <2> QED
    BY <1>3, <1>4, <2>2
<1>6. Talk(us, next)
  BY <1>2, <1>4, TalkGrows
<1>7. /\ Talk(turns \o us, next)
      /\ Told(turns \o us, "user") = Told(turns, "user") \cup heard
  <2>1. Talk(turns, cursor)
    BY DEF JInv
  <2> QED
    BY <1>2, <1>4, <1>5, <1>6, <2>1, TalkJoined
<1>8. Listened'
  <2>1. ASSUME NEW k \in heard
        PROVE  journals[k].notes /\ journals[k].user \in Humans \cup lapsed
    <3>1. k \in 1 .. Len(journals) /\ journals[k].notes /\ ~IsAgents(k)
      BY <1>2, <1>3
    <3> QED
      BY <3>1, JournalUsers
  <2>2. ASSUME NEW k \in 1 .. next, journals[k].notes, journals[k].user \in Humans
        PROVE  k \in Told(turns, "user") \cup heard
    <3>1. CASE k <= cursor
      BY <1>2, <2>2, <3>1 DEF JInv, Listened
    <3>2. CASE k > cursor
      <4>1. k \in 1 .. fetched /\ k \in 1 .. Len(journals)
        BY <1>2, <3>2
      <4>2. ~IsAgents(k)
        BY <2>2, <4>1, JournalUsers
      <4> QED
        BY <1>3, <2>2, <3>2, <4>1, <4>2
    <3> QED
      BY <1>2, <3>1, <3>2
  <2>3. \A k \in Told(turns, "user") :
          journals[k].notes /\ journals[k].user \in Humans \cup lapsed
    BY DEF JInv, Listened
  <2>4. Told(turns', "user") = Told(turns, "user") \cup heard
    BY <1>1, <1>7
  <2> QED
    BY <1>1, <2>1, <2>2, <2>3, <2>4 DEF Listened
<1>9. cursor' \in 0 .. Len(journals)
  BY <1>1, <1>2
<1>10. Talk(turns', cursor')
  BY <1>1, <1>7
<1> QED
  BY <1>1, <1>8, <1>9, <1>10 DEF JInv

\* A recorded answer tells no journal.
LEMMA RecordAnswerInv ==
  ASSUME JInv, RecordAnswer
  PROVE  JInv'
<1>1. /\ turns' = Append(turns, Answer) /\ answers' = answers + 1
      /\ phase = "working" /\ phase' = "idle" /\ fetched' = 0
      /\ UNCHANGED <<journals, enabled, cursor, started, lapsed>>
  BY DEF RecordAnswer
<1>2. cursor \in Nat /\ Len(journals) \in Nat /\ Talk(turns, cursor)
  BY CursorInv DEF JInv
<1>3. /\ Answer \in Turn(cursor) /\ DOMAIN Answer.ids = {} /\ Len(Answer.ids) = 0
      /\ Answer.role = "assistant"
  BY <1>2 DEF Answer, Assistant, Turn
<1> DEFINE us == <<Answer>>
<1>4. Talk(us, cursor) /\ Told(us, "user") = {}
  <2>1. Len(Answer.ids) <= 1 /\ Answer.role # "user"
    BY <1>3
  <2>2. /\ Talk(us, cursor)
        /\ \A role : Told(us, role) = IF Answer.role = role
                                       THEN {Answer.ids[p] : p \in DOMAIN Answer.ids} ELSE {}
    BY <1>2, <1>3, <2>1, TalkOfOne
  <2> HIDE DEF us
  <2> QED
    BY <2>1, <2>2
<1>5. turns' = turns \o us
  BY <1>1, <1>2, <1>3 DEF Talk
<1>6. \A i \in DOMAIN us : \A p \in DOMAIN us[i].ids : us[i].ids[p] > cursor
  <2>1. DOMAIN us = {1} /\ us[1] = Answer
    OBVIOUS
  <2> QED
    BY <1>3, <2>1
<1> HIDE DEF us
<1>7. /\ Talk(turns', cursor')
      /\ Told(turns', "user") = Told(turns, "user")
  <2>1. /\ Talk(turns \o us, cursor)
        /\ \A role : Told(turns \o us, role) = Told(turns, role) \cup Told(us, role)
    BY <1>2, <1>4, <1>6, TalkJoined
  <2> QED
    BY <1>1, <1>4, <1>5, <2>1
<1>8. Listened'
  BY <1>1, <1>7 DEF JInv, Listened
<1>9. answers' \in 0 .. MaxAnswers
  BY <1>1, JournalsAssumption DEF JInv
<1> QED
  BY <1>1, <1>2, <1>7, <1>8, <1>9 DEF JInv

\* Every step of Journals keeps the invariant.
LEMMA JNextInv == JInv /\ [JNext]_jvars => JInv'
<1> SUFFICES ASSUME JInv, [JNext]_jvars PROVE JInv'
  OBVIOUS
<1>1. CASE HumanPosts
  <2>1. PICK h \in Humans, notes \in BOOLEAN : Posted(h, notes)
    BY <1>1 DEF HumanPosts
  <2>2. UNCHANGED <<enabled, turns, cursor, started, fetched, phase, answers, lapsed>>
    BY <1>1 DEF HumanPosts, conversation
  <2> QED
    BY <2>1, <2>2, PostedInv
<1>2. CASE FetchIssue
  <2>1. /\ phase = "idle" /\ answers < MaxAnswers /\ fetched' = Len(journals)
        /\ phase' = "fetched"
        /\ UNCHANGED <<journals, enabled, turns, cursor, started, answers, lapsed>>
    BY <1>2 DEF FetchIssue, conversation
  <2>2. Len(journals) \in 0 .. Len(journals)
    BY CursorInv
  <2> QED
    BY <2>1, <2>2 DEF JInv, Listened
<1>3. CASE Initialize
  BY <1>3, InitializeInv
<1>4. CASE WaitForHuman
  BY <1>4, WaitForHumanInv
<1>5. CASE AgentPosts
  <2>1. PICK a \in enabled : Posted(a, TRUE)
    BY <1>5 DEF AgentPosts
  <2>2. UNCHANGED <<enabled, turns, cursor, started, fetched, phase, answers, lapsed>>
    BY <1>5 DEF AgentPosts, conversation
  <2>3. a \in Humans \cup Agents
    BY DEF JInv
  <2> QED
    BY <2>1, <2>2, <2>3, PostedInv
<1>6. CASE RecordAnswer
  BY <1>6, RecordAnswerInv
<1>7. CASE Reconfigure
  <2>1. /\ enabled' \subseteq Agents /\ lapsed' = lapsed \cup (Agents \ enabled')
        /\ UNCHANGED <<journals, turns, cursor, started, fetched, phase, answers>>
    BY <1>7 DEF Reconfigure, conversation
  <2>2. Listened'
    BY <2>1 DEF JInv, Listened
  <2> QED
    BY <2>1, <2>2 DEF JInv
<1>8. CASE UNCHANGED jvars
  BY <1>8 DEF jvars, conversation, JInv, Listened
<1> QED
  BY <1>1, <1>2, <1>3, <1>4, <1>5, <1>6, <1>7, <1>8 DEF JNext

\* The invariant holds in every state of Journals.
THEOREM JournalsInvariance == JSpec => []JInv
<1>1. JInit => JInv
  BY JInitInv
<1>2. JInv /\ [JNext]_jvars => JInv'
  BY JNextInv
<1> QED
  BY <1>1, <1>2, PTL DEF JSpec

\* Every variable of Journals keeps its type; the cursor and every id in a turn are
\* those of a journal of the ticket.
THEOREM JournalsTypeCorrect == JSpec => []JTypeOK
<1>1. JInv => JTypeOK
  <2> SUFFICES ASSUME JInv PROVE JTypeOK
    OBVIOUS
  <2>1. /\ Len(journals) \in Nat /\ cursor \in Nat /\ cursor <= Len(journals)
        /\ Talk(turns, cursor)
    BY CursorInv DEF JInv
  <2>2. turns \in Seq(Turn(Len(journals)))
    BY <2>1, TalkGrows DEF Talk
  <2> QED
    BY <2>2 DEF JInv, JTypeOK, Turn
<1> QED
  BY <1>1, JournalsInvariance, PTL

\* What humans wrote up to the cursor is told by the conversation, each journal once
\* and in the order of the ticket, however posts, runs and restarts are interleaved.
THEOREM CommentsToldInOrder == JSpec => []ConversationInOrder
<1>1. JInv => ConversationInOrder
  <2> SUFFICES ASSUME JInv PROVE ConversationInOrder
    OBVIOUS
  <2>1. Told(turns, "user") \subseteq 1 .. cursor
    BY CursorInv, ToldWithin DEF JInv
  <2>2. \A k : k \in Noted(cursor) <=> k \in 1 .. cursor /\ journals[k].notes
    BY DEF Noted, HasNotes
  <2>3. EveryCommentHeard
    BY <2>1, <2>2 DEF JInv, Listened, EveryCommentHeard
  <2>4. Ordered(turns)
    BY DEF JInv, Talk
  <2> QED
    BY <2>3, <2>4 DEF ConversationInOrder
<1> QED
  BY <1>1, JournalsInvariance, PTL

\* Only a human, or an agent whose profile was disabled at some time, is read as
\* feedback.
THEOREM LiveAgentsKnown == JSpec => []LiveAgentsAreNotFeedback
<1>1. JInv => LiveAgentsAreNotFeedback
  BY DEF JInv, Listened, LiveAgentsAreNotFeedback
<1> QED
  BY <1>1, JournalsInvariance, PTL
=============================================================================
