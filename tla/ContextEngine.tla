--------------------------- MODULE ContextEngine ---------------------------
(***************************************************************************)
(* What the model is shown of a ticket's conversation.  Before it plans    *)
(* and before every step, the graph lets the context engine put together a *)
(* prompt from the working memory, the summary of the old turns, the       *)
(* recent turns and the selected artifacts.  A prompt that does not fit    *)
(* the window makes the engine summarise old turns; if that does not help  *)
(* the human is asked for smaller input.                                   *)
(*                                                                         *)
(* A turn is its number in the conversation and its size in tokens.  A     *)
(* node that fails before it commits leaves the session as it was, and so  *)
(* is not an action here.                                                  *)
(***************************************************************************)
EXTENDS Integers, Sequences, SequencesExt

CONSTANTS
  Windows,        \* context_window_tokens of the profiles
  TurnSizes,      \* sizes of comments and answers
  FixedSizes,     \* sizes of issue, plan and step states in the working memory
  SummarySizes,
  ArtifactSizes,  \* sizes of the artifacts' contents
  RefSize,        \* what one reference adds to the artifact catalog
  MaxTurns,       \* bound: the turns of the conversation
  MaxRefs         \* bound: the references of the catalog

ASSUME SizeAssumption ==
  /\ Windows \subseteq Nat \ {0}
  /\ TurnSizes \cup FixedSizes \cup SummarySizes \cup ArtifactSizes \subseteq Nat
  /\ RefSize \in Nat /\ MaxTurns \in Nat \ {0} /\ MaxRefs \in Nat

VARIABLES
  window,    \* context_window_tokens of the agent
  pc,        \* plan, step, answer (finalize_execution) or waiting
  fixed,     \* the size of the working memory
  refs,      \* the number of references in the catalog
  summary,   \* the session checkpoint: the last turn it stands for, its size
  turns,     \* recent_turns
  said,      \* ghost: the number of turns that were ever recorded
  prompt,    \* ghost: the last prompt that the agent used
  refusal    \* of the last preparation: no, limit (ContextLimitExceeded), or the
             \* ContextEngineError of _compact: whole (no old turn) or reply

vars == <<window, pc, fixed, refs, summary, turns, said, prompt, refusal>>

Turn == [no : Nat, size : TurnSizes]
Larger(a, b) == IF a > b THEN a ELSE b

\* input_budget_tokens, 15 and 10 per cent rounded down.
Budget ==
  LET reserve == Larger(4096, (window * 15) \div 100)
      buffer  == Larger(2048, (window * 10) \div 100)
  IN  Larger(1, window - reserve - buffer)

RecentBudget == Larger(1, (window * 25) \div 100)

\* The tokens of the n newest of these turns, added up from the newest one on.
Newest(ts, n) ==
  LET used[k \in 0 .. n] ==
        IF k = 0 THEN 0 ELSE used[k - 1] + ts[Len(ts) + 1 - k].size
  IN  used[n]

Tokens(ts) == Newest(ts, Len(ts))

\* The size of a prompt; one artifact at most is selected, none has size 0.
Size(sum, ts, selected) == fixed + refs * RefSize + sum.size + Tokens(ts) + selected
-----------------------------------------------------------------------------
(* prepare and _compact *)

\* Mutant: the newest turn is no exception.
FirstKeptByBudget ==
  Len(turns) + 1 - Cardinality({n \in 1 .. Len(turns) : Newest(turns, n) <= RecentBudget})

\* Mutant: each turn is compared with the budget on its own.
FirstKeptOneByOne ==
  CHOOSE k \in 1 .. Len(turns) :
    /\ \A j \in k .. Len(turns) - 1 : turns[j].size <= RecentBudget
    /\ k = 1 \/ turns[k - 1].size > RecentBudget

\* The first turn that stays: the newest one always, and before it as many as
\* fit together with it.
FirstKept ==
  Len(turns) - Cardinality({n \in 2 .. Len(turns) : Newest(turns, n) <= RecentBudget})

Refused(why) == [refusal |-> why, summary |-> summary, turns |-> turns, prompt |-> prompt]

Accepted(sum, ts, selected) ==
  [refusal |-> "no", summary |-> sum, turns |-> ts, prompt |-> Size(sum, ts, selected)]

\* Mutant: the turns are cut one behind the last one that was summarised.
CompactedOffByOne(size, selected) ==
  LET sum == [through |-> turns[FirstKept - 1].no, size |-> size]
      kept == SubSeq(turns, FirstKept + 1, Len(turns))
  IN  IF Size(sum, kept, selected) > Budget THEN Refused("limit")
      ELSE Accepted(sum, kept, selected)

\* Mutant: the compacted prompt is not measured again.
CompactedUnchecked(size, selected) ==
  Accepted([through |-> turns[FirstKept - 1].no, size |-> size],
           SubSeq(turns, FirstKept, Len(turns)), selected)

\* The session after a compaction whose summary has this size.
Compacted(size, selected) ==
  LET sum == [through |-> turns[FirstKept - 1].no, size |-> size]
      kept == SubSeq(turns, FirstKept, Len(turns))
  IN  IF Size(sum, kept, selected) > Budget THEN Refused("limit")
      ELSE Accepted(sum, kept, selected)

\* The results of prepare; the reply of the summarising call may be invalid.
Prepared(selected) ==
  IF selected > Budget \/ \E k \in DOMAIN turns : turns[k].size > Budget
  THEN {Refused("limit")}
  ELSE IF Size(summary, turns, selected) <= Budget
  THEN {Accepted(summary, turns, selected)}
  ELSE IF turns = <<>> \/ FirstKept = 1
  THEN {Refused("whole")}
  ELSE {Refused("reply")} \cup {Compacted(size, selected) : size \in SummarySizes}

\* What a node takes over from prepare.
Take(result) ==
  /\ refusal' = result.refusal
  /\ summary' = result.summary
  /\ turns' = result.turns
  /\ prompt' = result.prompt
-----------------------------------------------------------------------------
(* The nodes that prepare a prompt or record a turn. *)

\* _initialize: the issue and at most one turn more of its history, of which
\* _persist_initial_assistant_turns makes an artifact if it is the agents'.
Init ==
  /\ window \in Windows
  /\ pc = "plan"
  /\ fixed \in FixedSizes
  /\ summary = [through |-> 0, size |-> 0]
  /\ \E n \in {1, 2} : \E sizes \in [1 .. n -> TurnSizes] :
       /\ n <= MaxTurns
       /\ refs \in {0, n - 1} /\ refs <= MaxRefs
       /\ turns = [k \in 1 .. n |-> [no |-> k, size |-> sizes[k]]]
       /\ said = n
  /\ prompt = 0
  /\ refusal = "no"

\* _initial_plan and _analyze_feedback; a refusal becomes a plan that asks the
\* human and has no steps.
Plan ==
  /\ pc = "plan"
  /\ \E result \in Prepared(0) :
       /\ Take(result)
       /\ pc' \in IF result.refusal = "no" THEN {"step", "answer"} ELSE {"answer"}
  /\ fixed' \in FixedSizes
  /\ UNCHANGED <<window, refs, said>>

\* New artifacts enter the catalog; the same content has one reference.
Catalogued == refs' \in refs .. MaxRefs

\* _execute_step; its output becomes an artifact, that of a refusal as well.
ExecuteStep ==
  /\ pc = "step"
  /\ \E selected \in {0} \cup ArtifactSizes : \E result \in Prepared(selected) :
       /\ Take(result)
       /\ pc' \in IF result.refusal = "no" THEN {"step", "answer"} ELSE {"answer"}
  /\ Catalogued
  /\ fixed' \in FixedSizes
  /\ UNCHANGED <<window, said>>

\* Mutant: what is said is recorded once on each of two ways.
RecordTwice(size) ==
  /\ said < MaxTurns
  /\ said' = said + 2
  /\ turns' = turns \o [k \in 1 .. 2 |-> [no |-> said + k, size |-> size]]

Record(size) ==
  /\ said < MaxTurns
  /\ said' = said + 1
  /\ turns' = Append(turns, [no |-> said + 1, size |-> size])

\* _finalize_execution, or _request_feedback after a resume without a comment;
\* _record_assistant_turn makes an artifact of every answer, and a turn of its
\* text or, if that is long, of its reference.  The issue may have changed.
Answer ==
  /\ pc \in {"answer", "waiting"}
  /\ \E size \in TurnSizes : Record(size)
  /\ Catalogued
  /\ fixed' \in FixedSizes
  /\ pc' = "waiting"
  /\ UNCHANGED <<window, summary, prompt, refusal>>

\* _wait_for_human: the comments of one resume are one turn, and the issue may
\* have changed.
Comment ==
  /\ pc = "waiting"
  /\ \E size \in TurnSizes : Record(size)
  /\ fixed' \in FixedSizes
  /\ pc' = "plan"
  /\ UNCHANGED <<window, refs, summary, prompt, refusal>>

\* All agents share one session per ticket: whichever node the last run ended
\* or failed at, the next run may be another agent's, with another window.
OtherAgent ==
  /\ window' \in Windows \ {window}
  /\ prompt' = 0
  /\ UNCHANGED <<pc, fixed, refs, summary, turns, said, refusal>>

Next == Plan \/ ExecuteStep \/ Answer \/ Comment \/ OtherAgent

Spec == Init /\ [][Next]_vars
-----------------------------------------------------------------------------
(* Properties. *)

TypeOK ==
  /\ window \in Windows
  /\ pc \in {"plan", "step", "answer", "waiting"}
  /\ fixed \in FixedSizes
  /\ refs \in 0 .. MaxRefs
  /\ summary \in [through : 0 .. MaxTurns, size : {0} \cup SummarySizes]
  /\ turns \in Seq(Turn)
  /\ said \in 1 .. MaxTurns
  /\ prompt \in Nat
  /\ refusal \in {"no", "limit", "whole", "reply"}

EveryTurnKept ==
  /\ summary.through + Len(turns) = said
  /\ \A k \in DOMAIN turns : turns[k].no = summary.through + k

RequestVerbatim ==
  pc \in {"plan", "step"} => turns # <<>> /\ Last(turns).no = said

\* However often the conversation was compacted, each of its turns is either
\* among the recent ones, in its place, or up to the turn that the summary
\* stands for: none disappears and none is told twice.  The human's request
\* is never only a part of the summary, from its planning to its last step.
ConversationKept == EveryTurnKept /\ RequestVerbatim

WithinWindow == prompt <= window - 4096 - 2048 \/ prompt <= 1

\* The room that a prompt needs at most, if every turn fits the recent budget
\* and no artifact larger than this is selected.
Room(selected) ==
  \A size \in {summary.size} \cup SummarySizes :
    fixed + refs * RefSize + RecentBudget + selected + size <= Budget

SmallTurnsAccepted ==
  /\ \A k \in DOMAIN turns : turns[k].size <= RecentBudget
  /\ Room(0)
  /\ pc = "plan"
  => \A result \in Prepared(0) : result.refusal \in {"no", "reply"}

\* No prompt that was used exceeds what the window leaves for the input; and as
\* long as the turns are small and the rest leaves room for them, the prompt is
\* made to fit, if need be by a compaction, however long the ticket is.
PromptFits == WithinWindow /\ SmallTurnsAccepted

\* What ticket_graph.py:1599 promises, and the code does not keep (README, known
\* limitations): it asks the human whose input exceeded the limit to divide it,
\* so a small answer, with room beside the turns, is not refused again.
DividingHelps ==
  /\ pc = "plan" /\ refusal = "limit" /\ Room(0)
  /\ Last(turns).size <= RecentBudget
  => \A result \in Prepared(0) : result.refusal \in {"no", "reply"}
=============================================================================
