----------------------------- MODULE Journals -----------------------------
(***************************************************************************)
(* Which journals of a ticket become which turns of its conversation.      *)
(*                                                                         *)
(* A ticket has one conversation, whatever agent works on it.  A new one   *)
(* takes over every journal that has notes: the agents' as assistant       *)
(* turns, the humans' between two of them as one user turn.  A resumed     *)
(* one gets one user turn of the humans' journals above the cursor; what   *)
(* the agents wrote in the meantime it knows as the answers it recorded    *)
(* itself.  Who is an agent is what the configuration says when the        *)
(* process starts, and only its enabled profiles count.                    *)
(*                                                                         *)
(* Journals arrive at any moment, also between the fetch of a run and its  *)
(* end.  Their ids are their positions; the conversation is one that is    *)
(* not compacted.                                                          *)
(*                                                                         *)
(* Next, Spec and so on have a J in front, because IntakeProofs extends    *)
(* this module together with Planner.                                      *)
(***************************************************************************)
EXTENDS Integers, Sequences

CONSTANTS
  Humans, Agents,    \* Redmine users; an agent has a configured profile
  MaxHistory,        \* bound: the journals older than the conversation
  MaxJournals,       \* bound: the ticket's journals
  MaxAnswers         \* bound: the runs that record an answer

ASSUME JournalsAssumption ==
  /\ Humans \cap Agents = {}
  /\ Agents # {}
  /\ MaxJournals \in Nat /\ MaxAnswers \in Nat
  /\ MaxHistory \in 0 .. MaxJournals

VARIABLES
  journals,      \* Redmine: [user, notes] records in the order of their ids
  enabled,       \* ai_user_ids: the users of the enabled profiles
  turns,         \* recent_turns after the issue itself
  cursor,        \* last_ingested_journal_id
  started,       \* the thread has a checkpoint
  fetched,       \* how many journals the fetched issue has
  phase,         \* idle, fetched or working
  answers,       \* answers recorded so far
  lapsed         \* ghost: the agents that were ever disabled

conversation == <<turns, cursor, started>>
jvars == <<journals, enabled, conversation, fetched, phase, answers, lapsed>>

Journal == [user : Humans \cup Agents, notes : BOOLEAN]

User(ids) == [role |-> "user", ids |-> ids]
Assistant(ids) == [role |-> "assistant", ids |-> ids]
Answer == Assistant(<<>>)   \* a recorded answer stands for no journal

HasNotes(k) == journals[k].notes
IsAgents(k) == journals[k].user \in enabled
-----------------------------------------------------------------------------
\* One journal more at the end of a conversation: one of these agents' is a turn
\* of its own, one of these humans' joins the user turn that is open.
Extended(ts, k, humans, agents) ==
  IF k \in agents THEN Append(ts, Assistant(<<k>>))
  ELSE IF k \notin humans THEN ts
  ELSE IF ts # <<>> /\ ts[Len(ts)].role = "user"
       THEN [ts EXCEPT ![Len(ts)] = User(Append(@.ids, k))]
       ELSE Append(ts, User(<<k>>))

\* The turns of those of the first n journals that are among these humans' and
\* agents' ones.
Turns(humans, agents, n) ==
  LET built[k \in 0 .. n] ==
        IF k = 0 THEN <<>> ELSE Extended(built[k - 1], k, humans, agents)
  IN  built[n]

Noted(n) == {k \in 1 .. n : HasNotes(k)}

\* Mutant: flush_human is only called at the end.
InitialTurnsFlushedLate(n) ==
  LET agents == {k \in Noted(n) : IsAgents(k)}
  IN  Turns({}, agents, n) \o Turns(Noted(n) \ agents, {}, n)

\* A new conversation from the first n journals.
InitialTurns(n) ==
  LET agents == {k \in Noted(n) : IsAgents(k)}
  IN  Turns(Noted(n) \ agents, agents, n)

\* Mutant: every journal above the cursor is a comment.
FeedbackFromAll(n) == {k \in Noted(n) : k > cursor}

\* The journals that answer an interrupt.
Feedback(n) == {k \in Noted(n) : ~IsAgents(k) /\ k > cursor}

\* Mutant: the cursor is the id the next journal will get.
CursorAfterNext(n) == n + 1

\* Mutant: the cursor covers what was posted since the fetch.
CursorAfterNow(n) == Len(journals)

\* The cursor covers everything that was fetched.
CursorAfter(n) == IF n > cursor THEN n ELSE cursor
-----------------------------------------------------------------------------
\* The ticket may have a history from before this database, in which humans
\* and agents took turns.
JInit ==
  /\ \E n \in 0 .. MaxHistory : journals \in [1 .. n -> Journal]
  /\ enabled \in (SUBSET Agents) \ {{}}
  /\ turns = <<>> /\ cursor = 0 /\ started = FALSE
  /\ fetched = 0 /\ phase = "idle"
  /\ answers = 0 /\ lapsed = Agents \ enabled

Posted(user, notes) ==
  /\ Len(journals) < MaxJournals
  /\ journals' = Append(journals, [user |-> user, notes |-> notes])

\* A human comments, or changes a field without a comment.
HumanPosts ==
  /\ \E h \in Humans, notes \in BOOLEAN : Posted(h, notes)
  /\ UNCHANGED <<enabled, conversation, fetched, phase, answers, lapsed>>

\* run_once of the agent the ticket is assigned to.
FetchIssue ==
  /\ phase = "idle"
  /\ answers < MaxAnswers
  /\ fetched' = Len(journals)
  /\ phase' = "fetched"
  /\ UNCHANGED <<journals, enabled, conversation, answers, lapsed>>

Initialize ==
  /\ phase = "fetched" /\ ~started
  /\ turns' = InitialTurns(fetched)
  /\ cursor' = CursorAfter(fetched)
  /\ started' = TRUE
  /\ phase' = "working"
  /\ UNCHANGED <<journals, enabled, fetched, answers, lapsed>>

\* The comments are joined to one turn, whoever made them.
WaitForHuman ==
  /\ phase = "fetched" /\ started
  /\ turns' = turns \o Turns(Feedback(fetched), {}, fetched)
  /\ cursor' = CursorAfter(fetched)
  /\ phase' = "working"
  /\ UNCHANGED <<journals, enabled, started, fetched, answers, lapsed>>

\* Progress comments and handbacks of the running agent.
AgentPosts ==
  /\ phase = "working"
  /\ \E a \in enabled : Posted(a, TRUE)
  /\ UNCHANGED <<enabled, conversation, fetched, phase, answers, lapsed>>

\* finalize_execution or request_feedback; the run ends at the interrupt.
RecordAnswer ==
  /\ phase = "working"
  /\ turns' = Append(turns, Answer)
  /\ answers' = answers + 1
  /\ phase' = "idle" /\ fetched' = 0
  /\ UNCHANGED <<journals, enabled, cursor, started, lapsed>>

\* The daemon is restarted with other profiles enabled.
Reconfigure ==
  /\ phase = "idle"
  /\ enabled' \in (SUBSET Agents) \ {{}}
  /\ lapsed' = lapsed \cup (Agents \ enabled')
  /\ UNCHANGED <<journals, conversation, fetched, phase, answers>>

JNext ==
  \/ HumanPosts \/ FetchIssue \/ Initialize \/ WaitForHuman \/ AgentPosts
  \/ RecordAnswer \/ Reconfigure

JSpec == JInit /\ [][JNext]_jvars
-----------------------------------------------------------------------------
(* Properties. *)

\* The journals that these turns stand for in a role.
Told(ts, role) ==
  UNION {{ts[i].ids[p] : p \in DOMAIN ts[i].ids} :
         i \in {i \in DOMAIN ts : ts[i].role = role}}

JTypeOK ==
  /\ journals \in Seq(Journal)
  /\ Len(journals) <= MaxJournals
  /\ enabled \subseteq Agents
  /\ turns \in Seq([role : {"user", "assistant"}, ids : Seq(1 .. Len(journals))])
  /\ cursor \in 0 .. Len(journals)
  /\ fetched \in 0 .. Len(journals)
  /\ started \in BOOLEAN
  /\ phase \in {"idle", "fetched", "working"}
  /\ answers \in 0 .. MaxAnswers
  /\ lapsed \subseteq Agents

EveryCommentHeard ==
  {k \in Told(turns, "user") : journals[k].user \in Humans}
    = {k \in Noted(cursor) : journals[k].user \in Humans}

\* Later in the conversation is later in the ticket.
Ordered(ts) ==
  \A i, j \in DOMAIN ts : \A p \in DOMAIN ts[i].ids, q \in DOMAIN ts[j].ids :
    i < j \/ (i = j /\ p < q) => ts[i].ids[p] < ts[j].ids[q]

\* What the humans said up to the cursor is in the conversation, each journal
\* once and in its order, wherever runs and restarts fell in between; and no
\* turn holds a journal older than those told before it, nor one of them
\* again, in either role.
ConversationInOrder == EveryCommentHeard /\ Ordered(turns)

\* Nothing an agent wrote is taken for feedback unless its profile was
\* disabled at some time.
LiveAgentsAreNotFeedback ==
  \A k \in Told(turns, "user") : journals[k].user \in Humans \cup lapsed

\* ADR-0007 and docs/agent-profiles.md: the comments of the configured
\* agents are never taken for the feedback of a human.
AgentsAreNotFeedback ==
  \A k \in Told(turns, "user") : journals[k].user \notin Agents
=============================================================================
