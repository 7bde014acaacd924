----------------------------- MODULE MCPlanner -----------------------------
(***************************************************************************)
(* An instance of Planner: every reply without steps, every single step    *)
(* under every decision, and pairs of steps with every dependency.         *)
(***************************************************************************)
EXTENDS Planner

CONSTANTS skill, fetch, search, comment, a1, a2

MCSkills == {skill}
MCTools == {fetch, search, comment}
MCArtifacts == {a1, a2}

\* A name alone, a name among other words, two names, and none that is known.
Among(names) == [names |-> names, exact |-> FALSE]
Names == {Null, Exact(skill), Exact(fetch), Exact(comment), Among({skill}),
          Among({fetch}), Among({fetch, search}), Among({fetch, comment}), Among({})}

OneStep(deps, artifacts) ==
  [kind : Kinds, name : Names, depends_on : deps, artifacts : artifacts]

ToolTexts == {Exact(fetch), Among({search}), Among({fetch, search}), Exact(comment)}

Reply(decisions, skills, tools, steps) ==
  [decision : decisions, skill : skills, tools : tools, asks : BOOLEAN, steps : steps]

Stepless ==
  Reply(Decisions, {Null, Exact(skill), Among({skill}), Among({})},
        {<<>>} \cup {<<t>> : t \in ToolTexts} \cup {<<t, u>> : t, u \in ToolTexts}, {<<>>})

Single ==
  Reply({"no_skill", "needs_user"}, {Null}, {<<>>},
        {<<s>> : s \in OneStep({<<>>, <<1>>, <<2>>},
                               {<<>>, <<a1>>, <<a2>>, <<a1, a2>>, <<a1, a1>>})})

Pairs ==
  Reply({"use_tools"}, {Null}, {<<>>},
        {<<s, t>> :
           s \in {NewStep("tool", Exact(fetch)), NewStep("unavailable", Null)},
           t \in [kind : {"llm", "skill"}, name : {Null, Exact(skill)},
                  depends_on : {<<>>, <<1>>, <<2>>, <<1, 1>>, <<1, 2>>},
                  artifacts : {<<>>, <<a1>>}]})

MCReplies == Stepless \cup Single \cup Pairs
=============================================================================
