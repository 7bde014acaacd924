---------------------------- MODULE WebBriefing ----------------------------
(***************************************************************************)
(* The skill web-briefing-bookmark with its LinkAceClient, against a       *)
(* LinkAce that humans edit at the same time, over repeated runs: a run    *)
(* may fail or die at every request, and the ticket graph or a human has   *)
(* the page processed again.                                               *)
(***************************************************************************)
EXTENDS Naturals, FiniteSets

CONSTANTS
  Urls,            \* URLs of pages
  SummarizedList,  \* LINKACE_SUMMARIZED_LIST_ID
  None,            \* no link, no URL
  MaxLinks,        \* bound: links ever made in LinkAce
  MaxEdits         \* bound: what humans do in LinkAce

SourceList == 1    \* SOURCE_LIST_ID, and the 1 in add_link

\* The configuration does not check it: with the source list as destination
\* a link would never count as done.
ASSUME ListsDiffer == SummarizedList \in Nat \ {SourceList}
ASSUME Bounds == {MaxLinks, MaxEdits} \subseteq Nat

Id == 1 .. MaxLinks
Lists == SUBSET {SourceList, SummarizedList}

\* description: the page whose briefing it is; by: who made the link, or
\* gave it its URL last.
Link == [url : Urls, lists : Lists, description : Urls \cup {None},
         by : {"human", "agent"}]
Found == [id : Id, has_source_list : BOOLEAN]

ASSUME NoneIsNone == None \notin Urls \cup Id \cup Link \cup Found

Tools == {"linkace_find_link", "linkace_add_link"}
Status == {"none", "running", "needs_user", "already_done", "dry_run",
           "processed", "failed", "crashed"}

VARIABLES
  links,       \* LinkAce
  made,        \* LinkAce: the last id it gave
  pc,          \* the request that comes next
  dry,         \* context.dry_run
  tool,        \* which tool's find_link is looking a URL up
  target,      \* target_url
  final,       \* final_url
  candidates,  \* find_link: the hits of the search still to be fetched
  existing,    \* find_link: its result
  status,      \* of the last run's result
  edits,       \* what humans did, up to MaxEdits
  filed,       \* ghost: how often humans put a link into the source list
  written,     \* ghost: how often the agent updated a link
  mark,        \* ghost: the link this run wrote
  disturbed    \* ghost: links that humans edited since the agent saw or wrote one

linkace == <<links, made>>
skill == <<pc, tool, target, final, candidates, existing, status>>
ghosts == <<filed, written, mark, disturbed>>
vars == <<linkace, skill, dry, edits, ghosts>>

Exists(i) == links[i] # None

Init ==
  /\ links = [i \in Id |-> None] /\ made = 0
  /\ pc = "idle" /\ dry \in BOOLEAN /\ tool = "linkace_find_link"
  /\ target = None /\ final = None /\ candidates = {} /\ existing = None
  /\ status = "none" /\ edits = 0
  /\ filed = [i \in Id |-> 0] /\ written = [i \in Id |-> 0]
  /\ mark = None /\ disturbed = {}

-----------------------------------------------------------------------------
(* run.py and the client *)

End(s) == pc' = "idle" /\ status' = s

\* _target_url: the planner's, or the only one in the ticket, or none.
Targets == Urls \cup {None}

\* run: the ticket names one URL, or none that is unambiguous. In a dry run
\* linkace_find_link looks nothing up.
Start ==
  /\ pc = "idle"
  /\ target' \in Targets
  /\ IF target' = None THEN End("needs_user")
     ELSE status' = "running" /\ pc' = IF dry THEN "fetch" ELSE "search"
  /\ tool' = "linkace_find_link"
  /\ final' = None /\ candidates' = {} /\ existing' = None
  /\ mark' = None /\ disturbed' = {}
  /\ UNCHANGED <<linkace, dry, edits, filed, written>>

\* Mutant: the registration is looked up under the URL of the ticket.
QueryTarget == target

Query == IF tool = "linkace_find_link" THEN target ELSE final

\* find_link: hits whose URL is the same to the letter.
Search ==
  /\ pc = "search"
  /\ candidates' = {i \in Id : Exists(i) /\ links[i].url = Query}
  /\ pc' = "detail"
  /\ UNCHANGED <<linkace, tool, target, final, existing, status, dry, edits, ghosts>>

\* A known link that is not waiting in the source list.
Done(found) == found # None /\ ~found.has_source_list

\* Mutant: add_link trusts what linkace_find_link saw.
DecideOnce(found) ==
  /\ UNCHANGED existing
  /\ pc' = "write" /\ UNCHANGED status

\* add_link with the result of its own lookup.
Decide(found) ==
  /\ existing' = found
  /\ IF Done(found) THEN End("already_done")
     ELSE pc' = "write" /\ UNCHANGED status

\* run() with the result of linkace_find_link.
Known(found) ==
  /\ existing' = found
  /\ IF Done(found) THEN End("already_done")
     ELSE pc' = "fetch" /\ UNCHANGED status

FindLinkReturns(found) ==
  IF tool = "linkace_find_link" THEN Known(found) ELSE Decide(found)

NoneLeft ==
  /\ pc = "detail" /\ candidates = {}
  /\ FindLinkReturns(None)
  /\ UNCHANGED <<linkace, tool, target, final, candidates, dry, edits, ghosts>>

\* _get_link of a hit: its URL may have changed since the search. One that
\* was deleted is an error (Fail).
Detail(i) ==
  /\ pc = "detail" /\ i \in candidates /\ Exists(i)
  /\ IF links[i].url # Query
     THEN /\ candidates' = candidates \ {i}
          /\ UNCHANGED <<pc, existing, status, disturbed>>
     ELSE /\ FindLinkReturns([id |-> i, has_source_list |-> SourceList \in links[i].lists])
          /\ disturbed' = {}
          /\ UNCHANGED candidates
  /\ UNCHANGED <<linkace, tool, target, final, dry, edits, filed, written, mark>>

\* fetch_web_page follows redirects: any URL may be the final one.
Fetch ==
  /\ pc = "fetch"
  /\ final' \in Urls
  /\ pc' = "summarize"
  /\ UNCHANGED <<linkace, tool, target, candidates, existing, status, dry, edits, ghosts>>

\* summarize_briefing, then linkace_add_link, which ends here in a dry run.
Summarize ==
  /\ pc = "summarize"
  /\ IF dry THEN End("dry_run") /\ UNCHANGED tool
     ELSE pc' = "search" /\ tool' = "linkace_add_link" /\ UNCHANGED status
  /\ UNCHANGED <<linkace, target, final, candidates, existing, dry, edits, ghosts>>

\* Mutant: the list is added to the others.
PayloadAddsList(by) ==
  [url |-> final, lists |-> {SourceList, SummarizedList}, description |-> final, by |-> by]

\* What _link_payload sets; LinkAce replaces the lists of the link.
Payload(by) ==
  [url |-> final, lists |-> {SummarizedList}, description |-> final, by |-> by]

\* Mutant: what add_link did becomes the status of the result.
AnsweredAction == End("updated") \/ End("failed") \/ End("crashed")

\* The answer to a write arrives, or does not (error or timeout after LinkAce
\* applied it), or the process dies before it. Late application by LinkAce,
\* after the next lookup, is not modelled.
Answered == End("processed") \/ End("failed") \/ End("crashed")

Update ==
  /\ pc = "write" /\ existing # None
  /\ LET i == existing.id
     IN /\ Exists(i)
        /\ links' = [links EXCEPT ![i] = Payload(links[i].by)]
        /\ written' = [written EXCEPT ![i] = @ + 1]
        /\ mark' = i
  /\ Answered
  /\ disturbed' = {}
  /\ UNCHANGED <<made, tool, target, final, candidates, existing, dry, edits, filed>>

Create ==
  /\ pc = "write" /\ existing = None /\ made < MaxLinks
  /\ made' = made + 1
  /\ links' = [links EXCEPT ![made'] = Payload("agent")]
  /\ mark' = made'
  /\ Answered
  /\ disturbed' = {}
  /\ UNCHANGED <<tool, target, final, candidates, existing, dry, edits, filed, written>>

\* _call: a tool that fails stops the skill with what it did so far. Any
\* request may fail without an effect; so does one for a link that is gone.
Fail ==
  /\ pc # "idle"
  /\ End("failed") \/ End("crashed")
  /\ UNCHANGED <<linkace, tool, target, final, candidates, existing, dry, edits, ghosts>>

-----------------------------------------------------------------------------
(* Humans in LinkAce *)

Edited(i, link) ==
  /\ edits < MaxEdits /\ edits' = edits + 1
  /\ links' = [links EXCEPT ![i] = link]
  /\ disturbed' = disturbed \cup {i}
  /\ LET InSource(l) == l # None /\ SourceList \in l.lists
     IN filed' = IF InSource(link) /\ ~InSource(links[i])
                 THEN [filed EXCEPT ![i] = @ + 1] ELSE filed
  /\ UNCHANGED <<skill, dry, written, mark>>

Bookmark ==
  /\ made < MaxLinks /\ made' = made + 1
  /\ \E u \in Urls, ls \in Lists :
       Edited(made', [url |-> u, lists |-> ls, description |-> None, by |-> "human"])

Refile(i) ==
  /\ Exists(i)
  /\ \E ls \in Lists \ {links[i].lists} : Edited(i, [links[i] EXCEPT !.lists = ls])
  /\ UNCHANGED made

Retarget(i) ==
  /\ Exists(i)
  /\ \E u \in Urls \ {links[i].url} :
       Edited(i, [links[i] EXCEPT !.url = u, !.by = "human"])
  /\ UNCHANGED made

Remove(i) == Exists(i) /\ Edited(i, None) /\ UNCHANGED made

-----------------------------------------------------------------------------
Next ==
  \/ Start \/ Search \/ NoneLeft \/ Fetch \/ Summarize
  \/ Update \/ Create \/ Fail \/ Bookmark
  \/ \E i \in Id : Detail(i) \/ Refile(i) \/ Retarget(i) \/ Remove(i)

Spec == Init /\ [][Next]_vars

-----------------------------------------------------------------------------
\* Every variable has its type; nothing exists beyond the ids given so far.
TypeOK ==
  /\ made \in 0 .. MaxLinks
  /\ links \in [Id -> Link \cup {None}]
  /\ \A i \in Id : i > made => links[i] = None
  /\ pc \in {"idle", "search", "detail", "fetch", "summarize", "write"}
  /\ dry \in BOOLEAN /\ tool \in Tools
  /\ target \in Urls \cup {None} /\ final \in Urls \cup {None}
  /\ candidates \subseteq Id /\ existing \in Found \cup {None}
  /\ status \in Status
  /\ edits \in 0 .. MaxEdits
  /\ filed \in [Id -> Nat] /\ written \in [Id -> Nat]
  /\ mark \in Id \cup {None} /\ disturbed \subseteq Id

\* However often a page is processed again, after lost answers, crashes and
\* retries: the agent makes no second link of its own for a URL, and updates
\* a link at most once each time a human files it under the source list.
MadeOnce ==
  \A i, j \in Id :
    /\ Exists(i) /\ links[i].by = "agent"
    /\ Exists(j) /\ links[j].by = "agent"
    /\ links[i].url = links[j].url
    => i = j
UpdatedOncePerFiling == \A i \in Id : written[i] <= filed[i]
RepeatsAreHarmless == MadeOnce /\ UpdatedOncePerFiling

\* A link outside the source list is left alone, also one that left the list
\* while the page was fetched and summarised: the window in which a human's
\* edit is overwritten is the one between the requests of add_link.
MovedLinksAreLeftAlone ==
  [][\A i \in Id :
       /\ edits' = edits /\ Exists(i) /\ links'[i] # links[i]
       /\ SourceList \notin links[i].lists
       => i \in disturbed]_vars

\* What the ticket is told is so: a processed page has its briefing in a
\* link of its final URL in the list of the summarised ones, one that is
\* already registered is so outside the source list, unless humans changed
\* it since; and no other ending but a failure leaves a change in LinkAce.
Asked == IF final = None THEN target ELSE final
Written(i) ==
  /\ Exists(i)
  /\ links[i].url = final /\ links[i].description = final
  /\ links[i].lists = {SummarizedList}
Registered(i) ==
  Exists(i) /\ links[i].url = Asked /\ SourceList \notin links[i].lists
ReportIsTrue ==
  /\ status = "processed" => mark \in disturbed \/ Written(mark)
  /\ status = "already_done" =>
       existing.id \in disturbed \/ Registered(existing.id)
  /\ dry \/ status \in {"running", "needs_user", "already_done", "dry_run"}
       => mark = None
=============================================================================
