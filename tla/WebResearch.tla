---------------------------- MODULE WebResearch ----------------------------
(***************************************************************************)
(* The skill web-research-report with the tools it calls: plan, search,    *)
(* judge the evidence, search again, write the report.  Every tool may     *)
(* fail; a failed search is noted and the next one made, any other failure *)
(* ends the run.                                                           *)
(*                                                                         *)
(* A query stands for its normalised text, a page for its canonical URL    *)
(* (without query string and fragment), fetched or not.  The order of the  *)
(* queries, purposes and texts, and dry_run, which only names the status,  *)
(* are left out.                                                           *)
(***************************************************************************)
EXTENDS Naturals, FiniteSets, SequencesExt

CONSTANTS
  Queries,     \* queries a model may think of
  Pages,       \* pages of the web
  MaxQueries,  \* MAX_TOTAL_QUERIES
  MaxRounds,   \* MAX_EVALUATION_ROUNDS
  MaxResults   \* max_results of a search

ASSUME ResearchAssumption ==
  {MaxQueries, MaxRounds} \subseteq Nat \ {0} /\ MaxResults \in Nat

VARIABLES
  pc,         \* start, plan, search, evaluate, compose or done
  pending,    \* pending_queries
  executed,   \* executed_queries
  ranQuery,   \* ran_query
  seen,       \* seen_urls
  collected,  \* collected_results: the pages kept of each successful search
  searchLog,  \* search_log
  history,    \* evaluation_history; ghost: what each evaluation was given
  status,     \* of the result
  found       \* ghost: the pages that successful searches returned

vars == <<pc, pending, executed, ranQuery, seen, collected, searchLog, history,
          status, found>>
search == <<executed, ranQuery, seen, collected, searchLog, found>>

\* A ticket: what its subject says, and the kinds of lines in its description:
\* a labelled theme, another label of the form, an instruction to do research,
\* or anything else.
Tickets == [subject : {"none", "generic", "topic"},
            lines : SUBSET {"theme", "label", "instruction", "other"}]

\* _extract_topic.
HasTopic(ticket) ==
  ticket.subject = "topic" \/ ticket.lines \cap {"theme", "other"} # {}

Init ==
  /\ pc = "start" /\ pending = {} /\ executed = {} /\ ranQuery = FALSE
  /\ seen = {} /\ collected = <<>> /\ searchLog = <<>> /\ history = <<>>
  /\ status = "none" /\ found = {}

End(s) == pc' = "done" /\ status' = s
-----------------------------------------------------------------------------
(* Topic and plan. *)

Start ==
  /\ pc = "start"
  /\ \E ticket \in Tickets :
       IF HasTopic(ticket)
       THEN pc' = "plan" /\ UNCHANGED status
       ELSE End("needs_user")
  /\ UNCHANGED <<pending, history, search>>

\* Mutant: plan_web_research does not look for blank queries.
PlanMadeUnchecked ==
  /\ pc = "plan"
  /\ pending' \in SUBSET (Queries \cup {""}) \ {{}}
  /\ pc' = "search"
  /\ UNCHANGED <<history, status, search>>

\* plan_web_research accepts a plan only with queries, and returns each once.
PlanMade ==
  /\ pc = "plan"
  /\ pending' \in SUBSET Queries \ {{}}
  /\ pc' = "search"
  /\ UNCHANGED <<history, status, search>>

ToolFails ==
  /\ pc \in {"plan", "evaluate", "compose"}
  /\ End("failed")
  /\ UNCHANGED <<pending, history, search>>
-----------------------------------------------------------------------------
(* Searches. *)

\* Queries already executed are passed over.
Due == IF Cardinality(executed) < MaxQueries THEN pending \ executed ELSE {}

\* Mutant: a page is compared with those of earlier searches only.
NewResultsOfSearch(pages, known) ==
  {[rank |-> k, page |-> pages[k]] : k \in {k \in DOMAIN pages : pages[k] \notin known}}

\* _filter_new_urls: the first result for every URL not seen before.
NewResults(pages, known) ==
  {[rank |-> k, page |-> pages[k]] : k \in
     {k \in DOMAIN pages : pages[k] \notin known \cup {pages[j] : j \in 1 .. k - 1}}}

PagesOf(results) == {r.page : r \in results}

\* The search engine raises, or the tool is refused.
SearchFails ==
  /\ pc = "search"
  /\ \E query \in Due :
       /\ pending' = pending \ {query}
       /\ executed' = executed \cup {query}
       /\ searchLog' = Append(searchLog, [query |-> query, ok |-> FALSE])
  /\ ranQuery' = TRUE
  /\ UNCHANGED <<pc, seen, collected, history, status, found>>

\* At most MaxResults pages, some with the same canonical URL.
Answers == SeqOf(Pages, MaxResults)

SearchSucceeds ==
  /\ pc = "search"
  /\ \E query \in Due, pages \in Answers :
       LET kept == NewResults(pages, seen)
       IN  /\ pending' = pending \ {query}
           /\ executed' = executed \cup {query}
           /\ searchLog' = Append(searchLog, [query |-> query, ok |-> TRUE])
           /\ collected' = Append(collected, [query |-> query, results |-> kept])
           /\ seen' = seen \cup PagesOf(kept)
           /\ found' = found \cup ToSet(pages)
  /\ ranQuery' = TRUE
  /\ UNCHANGED <<pc, history, status>>

\* Nothing was found and nothing is left to be tried.
Fruitless ==
  /\ collected = <<>>
  /\ \/ pending # {} /\ Cardinality(executed) >= MaxQueries
     \/ ~ranQuery

\* Mutant: the loop is left only when every planned query was made.
SearchesEndAtLast ==
  /\ pc = "search" /\ pending \ executed = {}
  /\ pending' = {}
  /\ IF Fruitless THEN End("failed") ELSE pc' = "evaluate" /\ UNCHANGED status
  /\ UNCHANGED <<history, search>>

SearchesEnd ==
  /\ pc = "search" /\ Due = {}
  /\ pending' = IF Cardinality(executed) < MaxQueries THEN {} ELSE pending
  /\ IF Fruitless THEN End("failed") ELSE pc' = "evaluate" /\ UNCHANGED status
  /\ UNCHANGED <<history, search>>
-----------------------------------------------------------------------------
(* Evaluation and report. *)

\* Mutant: the model's additional queries are taken as they are.
FurtherUnfiltered(additional) == additional

Further(additional) == additional \ executed

\* The loop ends with this evaluation.
Enough(verdict) ==
  \/ verdict.sufficient
  \/ Cardinality(executed) >= MaxQueries
  \/ Further(verdict.additional) = {}

\* What evaluate_research_coverage accepts from the model: each query once.
Verdicts == [sufficient : BOOLEAN, additional : SUBSET Queries]

Evaluate ==
  /\ pc = "evaluate"
  /\ \E verdict \in Verdicts :
       /\ history' = Append(history, [sufficient |-> verdict.sufficient,
                                      queries |-> executed, results |-> collected])
       /\ IF Enough(verdict) \/ Len(history') = MaxRounds
          THEN /\ IF collected = <<>> THEN End("failed")
                  ELSE pc' = "compose" /\ UNCHANGED status
               /\ UNCHANGED <<pending, ranQuery>>
          ELSE /\ pending' = Further(verdict.additional)
               /\ ranQuery' = FALSE
               /\ pc' = "search" /\ UNCHANGED status
  /\ UNCHANGED <<executed, seen, collected, searchLog, found>>

ReportComposed ==
  /\ pc = "compose"
  /\ End("processed")
  /\ UNCHANGED <<pending, history, search>>
-----------------------------------------------------------------------------
Next ==
  \/ Start \/ PlanMade \/ ToolFails
  \/ SearchFails \/ SearchSucceeds \/ SearchesEnd
  \/ Evaluate \/ ReportComposed

\* Every tool answers: requests have timeouts, and the loop goes on by itself.
Spec == Init /\ [][Next]_vars /\ WF_vars(Next)
-----------------------------------------------------------------------------
(* Properties. *)

Results == SUBSET [rank : 1 .. MaxResults, page : Pages]
Collected == Seq([query : Queries, results : Results])

\* The type of every variable.
TypeOK ==
  /\ pc \in {"start", "plan", "search", "evaluate", "compose", "done"}
  /\ pending \subseteq Queries /\ executed \subseteq Queries
  /\ ranQuery \in BOOLEAN
  /\ seen \subseteq Pages /\ found \subseteq Pages
  /\ collected \in Collected
  /\ searchLog \in Seq([query : Queries, ok : BOOLEAN])
  /\ history \in Seq([sufficient : BOOLEAN, queries : SUBSET Queries,
                      results : Collected])
  /\ status \in {"none", "needs_user", "failed", "processed"}

\* Whatever searches find again and whichever fail, the evidence has every page
\* that was found, and has it once; and the log of the report has every query
\* that was tried, once, and tells those whose results are in the evidence.
EveryPageKept == UNION {PagesOf(collected[i].results) : i \in DOMAIN collected} = found
NoPageTwice ==
  \A i, j \in DOMAIN collected :
    \A r \in collected[i].results, t \in collected[j].results :
      r.page = t.page => i = j /\ r = t
LogIsTrue ==
  /\ {row.query : row \in ToSet(searchLog)} = executed
  /\ \A i, j \in DOMAIN searchLog : searchLog[i].query = searchLog[j].query => i = j
  /\ {row.query : row \in {r \in ToSet(searchLog) : r.ok}}
       = {c.query : c \in ToSet(collected)}
EvidenceOnce == EveryPageKept /\ NoPageTwice /\ LogIsTrue

\* A report is written only on evidence that was evaluated as a whole; no
\* evaluation is asked for again before another search was tried, none after a
\* sufficient one; and both budgets are kept.
ReportRestsOnEvidence ==
  /\ pc = "compose" => collected # <<>> /\ Last(history).results = collected
  /\ \A i \in 1 .. Len(history) - 1 :
       /\ ~history[i].sufficient
       /\ Cardinality(history[i].queries) < Cardinality(history[i + 1].queries)
  /\ pc = "evaluate" /\ history # <<>> => Last(history).queries # executed
  /\ Cardinality(executed) <= MaxQueries /\ Len(history) <= MaxRounds

\* Whatever the model asks for and however many searches fail, the run ends.
RunEnds == <>(pc = "done")
=============================================================================
