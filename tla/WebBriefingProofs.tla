------------------------- MODULE WebBriefingProofs -------------------------
(***************************************************************************)
(* The types of WebBriefing, that repeated runs repeat no effect, and that *)
(* what they report is so, for any pages, links, edits and number of runs. *)
(***************************************************************************)
EXTENDS WebBriefing, TLAPS

ByAgent(i) == Exists(i) /\ links[i].by = "agent"
Filed(i) == Exists(i) /\ SourceList \in links[i].lists

\* A link in the source list has been filed since its last update, and so has
\* the one that add_link is about to update.
Pending ==
  /\ \A i \in Id : Filed(i) => written[i] < filed[i]
  /\ pc = "write" /\ existing # None => written[existing.id] < filed[existing.id]

\* While add_link looks for a link, the agent's own one for the URL is among
\* the hits; when it found none there is none; and the one it found still has
\* the URL, unless it is no longer the agent's.
Lookup ==
  /\ pc = "detail" /\ tool = "linkace_add_link" =>
       \A i \in Id : ByAgent(i) /\ links[i].url = final => i \in candidates
  /\ pc = "write" /\ existing = None =>
       \A i \in Id : ByAgent(i) => links[i].url # final
  /\ pc = "write" /\ existing # None =>
       (ByAgent(existing.id) => links[existing.id].url = final)

\* A final URL was found before it is used.
Stages == pc \in {"summarize", "write"} \/ tool = "linkace_add_link" => final \in Urls

IInv == TypeOK /\ RepeatsAreHarmless /\ Pending /\ Lookup /\ Stages
-----------------------------------------------------------------------------
LEMMA InitIInv == Init => IInv
  BY Bounds, ListsDiffer
     DEF Init, IInv, TypeOK, RepeatsAreHarmless, MadeOnce, UpdatedOncePerFiling,
         Pending, Lookup, Stages, Exists, ByAgent, Filed, Tools, Status

\* Humans make no link the agent's and count what they file.
LEMMA EditedIInv ==
  ASSUME IInv, NEW i \in Id, NEW link \in Link \cup {None}, Edited(i, link),
         made' \in 0 .. MaxLinks, \A j \in Id : j > made' => links'[j] = None,
         link # None /\ link.by = "agent" => ByAgent(i) /\ link.url = links[i].url
  PROVE  IInv'
<1>1. /\ links' = [links EXCEPT ![i] = link]
      /\ filed' \in [Id -> Nat]
      /\ \A j \in Id : filed'[j] >= filed[j]
      /\ link # None /\ SourceList \in link.lists /\ ~Filed(i) => filed'[i] > filed[i]
  BY NoneIsNone DEF Edited, IInv, TypeOK, Filed, Exists
<1>2. UNCHANGED <<skill, dry, written, mark>>
  BY DEF Edited
<1>3. edits' \in 0 .. MaxEdits /\ disturbed' \subseteq Id
  BY Bounds DEF Edited, IInv, TypeOK
<1>4. TypeOK'
  BY <1>1, <1>2, <1>3 DEF IInv, TypeOK, skill
<1>5. \A j \in Id : ByAgent(j)' => ByAgent(j) /\ links'[j].url = links[j].url
  BY <1>1 DEF ByAgent, Exists, IInv, TypeOK
<1>6. RepeatsAreHarmless'
  <2>1. MadeOnce'
    BY <1>5 DEF MadeOnce, ByAgent, IInv, RepeatsAreHarmless
  <2>2. UpdatedOncePerFiling'
    BY <1>1, <1>2 DEF UpdatedOncePerFiling, IInv, RepeatsAreHarmless, TypeOK
  <2> QED
    BY <2>1, <2>2 DEF RepeatsAreHarmless
<1>7. Pending'
  <2>1. ASSUME NEW j \in Id, Filed(j)'
        PROVE  written'[j] < filed'[j]
    <3>1. CASE j = i
      BY <1>1, <1>2, <2>1, <3>1 DEF Filed, Exists, Pending, IInv, TypeOK,
         RepeatsAreHarmless, UpdatedOncePerFiling
    <3>2. CASE j # i
      BY <1>1, <1>2, <2>1, <3>2 DEF Filed, Exists, Pending, IInv, TypeOK
    <3> QED
      BY <3>1, <3>2
  <2>2. pc' = "write" /\ existing' # None => written'[existing'.id] < filed'[existing'.id]
    BY <1>1, <1>2 DEF Pending, IInv, TypeOK, skill, Found
  <2> QED
    BY <2>1, <2>2 DEF Pending
<1>8. Lookup'
  BY <1>2, <1>5 DEF Lookup, IInv, skill, TypeOK, Found
<1>9. Stages'
  BY <1>2 DEF Stages, IInv, skill
<1> QED
  BY <1>4, <1>6, <1>7, <1>8, <1>9 DEF IInv

\* A step that leaves LinkAce alone and keeps or ends the lookup.
LEMMA QuietIInv ==
  ASSUME IInv, TypeOK', UNCHANGED <<links, filed, written>>, Lookup', Stages',
         pc' = "write" => \/ pc = "write" /\ existing' = existing
                          \/ existing' = None
                          \/ existing'.id \in Id /\ Filed(existing'.id)
  PROVE  IInv'
<1>1. RepeatsAreHarmless'
  BY DEF IInv, RepeatsAreHarmless, MadeOnce, UpdatedOncePerFiling, Exists
<1>2. Pending'
  BY DEF IInv, Pending, Filed, Exists
<1> QED
  BY <1>1, <1>2 DEF IInv

\* What find_link returns: the link it fetched, or that it found none.
LEMMA FindLinkReturnsIInv ==
  ASSUME IInv, pc = "detail", NEW found \in Found \cup {None}, FindLinkReturns(found),
         UNCHANGED <<linkace, tool, target, final, dry, edits, filed, written, mark>>,
         candidates' = candidates, disturbed' \subseteq Id,
         found # None => /\ Exists(found.id) /\ links[found.id].url = Query
                         /\ found.has_source_list = (SourceList \in links[found.id].lists),
         found = None => candidates = {}
  PROVE  IInv'
<1>1. CASE tool = "linkace_find_link"
  <2>1. Known(found)
    BY <1>1 DEF FindLinkReturns
  <2>2. pc' \in {"idle", "fetch"} /\ existing' = found /\ status' \in Status
    BY <2>1 DEF Known, End, IInv, TypeOK, Status
  <2>3. TypeOK'
    BY <2>2 DEF IInv, TypeOK, linkace
  <2>4. Lookup' /\ Stages'
    BY <1>1, <2>2 DEF Lookup, Stages
  <2> QED
    BY <2>2, <2>3, <2>4, QuietIInv DEF linkace
<1>2. CASE tool = "linkace_add_link"
  <2>1. Decide(found)
    BY <1>2 DEF FindLinkReturns
  <2>2. pc' \in {"idle", "write"} /\ existing' = found /\ status' \in Status
    BY <2>1 DEF Decide, End, IInv, TypeOK, Status
  <2>3. pc' = "write" /\ found # None => Filed(found.id) /\ found.id \in Id
    BY <2>1 DEF Decide, Done, End, Filed, Found
  <2>4. TypeOK'
    BY <2>2 DEF IInv, TypeOK, linkace
  <2>5. Lookup'
    BY <1>2, <2>2 DEF Lookup, IInv, ByAgent, Exists, Query, linkace
  <2>6. Stages'
    BY <1>2 DEF Stages, IInv
  <2> QED
    BY <2>2, <2>3, <2>4, <2>5, <2>6, QuietIInv DEF linkace
<1> QED
  BY <1>1, <1>2 DEF IInv, TypeOK, Tools

\* Both writes put a link of the final URL where no other one is the agent's.
LEMMA WrittenMadeOnce ==
  ASSUME IInv, pc = "write", NEW i \in Id,
         \A j \in Id \ {i} : links'[j] = links[j],
         links'[i] # None => links'[i].url = final,
         ByAgent(i)' => \/ ByAgent(i) /\ links[i].url = final
                        \/ \A j \in Id : ByAgent(j) => links[j].url # final
  PROVE  MadeOnce'
  BY DEF IInv, RepeatsAreHarmless, MadeOnce, ByAgent, Exists

LEMMA UpdateIInv == IInv /\ Update => IInv'
<1> SUFFICES ASSUME IInv, Update PROVE IInv'
  OBVIOUS
<1>0. PICK i \in Id : i = existing.id
  BY DEF Update, IInv, TypeOK, Found
<1>1. /\ pc = "write" /\ existing # None /\ Exists(i)
      /\ links' = [links EXCEPT ![i] = Payload(links[i].by)]
      /\ written' = [written EXCEPT ![i] = @ + 1]
      /\ mark' = i /\ disturbed' = {}
      /\ pc' = "idle" /\ status' \in Status
      /\ UNCHANGED <<made, tool, target, final, candidates, existing, dry, edits, filed>>
  BY <1>0 DEF Update, Answered, End, Status, IInv, TypeOK, Found
<1>2. Payload(links[i].by) \in Link
  BY <1>1, ListsDiffer DEF Payload, Link, Lists, IInv, Stages, TypeOK, Exists
<1>3. links[i].by = Payload(links[i].by).by /\ Payload(links[i].by).url = final
      /\ SourceList \notin Payload(links[i].by).lists
  BY ListsDiffer DEF Payload
<1>4. TypeOK'
  BY <1>1, <1>2 DEF IInv, TypeOK, Exists, Id
<1>5. MadeOnce'
  <2>1. ByAgent(i)' => ByAgent(i) /\ links[i].url = final
    BY <1>0, <1>1, <1>3 DEF ByAgent, Exists, IInv, TypeOK, Lookup
  <2>2. links'[i].url = final /\ \A j \in Id \ {i} : links'[j] = links[j]
    BY <1>1, <1>3 DEF IInv, TypeOK
  <2> QED
    BY <1>1, <2>1, <2>2, WrittenMadeOnce
<1>6. UpdatedOncePerFiling'
  BY <1>0, <1>1 DEF UpdatedOncePerFiling, IInv, RepeatsAreHarmless, Pending, TypeOK
<1>7. Pending'
  BY <1>1, <1>3 DEF Pending, IInv, Filed, Exists, TypeOK
<1>8. Lookup' /\ Stages'
  BY <1>1 DEF Lookup, Stages, IInv
<1> QED
  BY <1>4, <1>5, <1>6, <1>7, <1>8 DEF IInv, RepeatsAreHarmless

LEMMA CreateIInv == IInv /\ Create => IInv'
<1> SUFFICES ASSUME IInv, Create PROVE IInv'
  OBVIOUS
<1> DEFINE i == made + 1
<1>1. /\ pc = "write" /\ existing = None /\ i \in Id /\ made' = i
      /\ links' = [links EXCEPT ![i] = Payload("agent")]
      /\ mark' = i /\ disturbed' = {}
      /\ pc' = "idle" /\ status' \in Status
      /\ UNCHANGED <<tool, target, final, candidates, existing, dry, edits, filed, written>>
  BY Bounds DEF Create, Answered, End, Status, IInv, TypeOK, Id
<1>2. Payload("agent") \in Link
  BY <1>1, ListsDiffer DEF Payload, Link, Lists, IInv, Stages
<1>3. Payload("agent").url = final /\ SourceList \notin Payload("agent").lists
  BY ListsDiffer DEF Payload
<1>4. TypeOK'
  <2>1. \A j \in Id : j > made' => links'[j] = None
    BY <1>1, Bounds DEF IInv, TypeOK, Id
  <2>2. made' \in 0 .. MaxLinks
    BY <1>1, Bounds DEF Id
  <2> QED
    BY <1>1, <1>2, <2>1, <2>2 DEF IInv, TypeOK
<1> HIDE DEF i
<1>5. MadeOnce'
  BY <1>1, <1>3, WrittenMadeOnce DEF IInv, TypeOK, Lookup
<1>6. UpdatedOncePerFiling'
  BY <1>1 DEF UpdatedOncePerFiling, IInv, RepeatsAreHarmless
<1>7. Pending'
  BY <1>1, <1>3 DEF Pending, IInv, Filed, Exists, TypeOK
<1>8. Lookup' /\ Stages'
  BY <1>1 DEF Lookup, Stages, IInv
<1> QED
  BY <1>4, <1>5, <1>6, <1>7, <1>8 DEF IInv, RepeatsAreHarmless

LEMMA NextIInv == IInv /\ [Next]_vars => IInv'
<1> SUFFICES ASSUME IInv, [Next]_vars PROVE IInv'
  OBVIOUS
<1> USE DEF End
<1>1. CASE Start
  <2>1. TypeOK'
    BY <1>1 DEF Start, Targets, IInv, TypeOK, Tools, Status, linkace
  <2>2. Lookup' /\ Stages' /\ pc' # "write"
    BY <1>1 DEF Start, Lookup, Stages
  <2> QED
    BY <1>1, <2>1, <2>2, QuietIInv DEF Start, linkace
<1>2. CASE Search
  <2>1. TypeOK'
    BY <1>2 DEF Search, IInv, TypeOK, linkace, ghosts
  <2>2. Lookup' /\ Stages' /\ pc' # "write"
    BY <1>2 DEF Search, Lookup, Stages, ByAgent, Exists, Query, linkace, IInv
  <2> QED
    BY <1>2, <2>1, <2>2, QuietIInv DEF Search, linkace, ghosts
<1>3. CASE NoneLeft
  BY <1>3, FindLinkReturnsIInv DEF NoneLeft, ghosts, IInv, TypeOK
<1>4. ASSUME NEW i \in Id, Detail(i) PROVE IInv'
  <2>1. CASE links[i].url # Query
    <3>1. TypeOK'
      BY <1>4, <2>1 DEF Detail, IInv, TypeOK, linkace
    <3>2. Lookup' /\ Stages' /\ pc' # "write"
      BY <1>4, <2>1 DEF Detail, Lookup, Stages, ByAgent, Exists, Query, linkace, IInv
    <3> QED
      BY <1>4, <2>1, <3>1, <3>2, QuietIInv DEF Detail, linkace
  <2>2. CASE links[i].url = Query
    <3> DEFINE found == [id |-> i, has_source_list |-> SourceList \in links[i].lists]
    <3>0. (SourceList \in links[i].lists) \in BOOLEAN
      OBVIOUS
    <3>1. found \in Found
      BY <3>0, Zenon DEF Found
    <3>2. /\ FindLinkReturns(found) /\ disturbed' = {} /\ candidates' = candidates
          /\ pc = "detail" /\ Exists(found.id)
          /\ UNCHANGED <<linkace, tool, target, final, dry, edits, filed, written, mark>>
      BY <1>4, <2>2 DEF Detail
    <3> QED
      <4>1. found # None
        BY <3>1, NoneIsNone
      <4>2. found.id = i /\ found.has_source_list = (SourceList \in links[i].lists)
        OBVIOUS
      <4> HIDE DEF found
      <4> QED
        BY <2>2, <3>1, <3>2, <4>1, <4>2, FindLinkReturnsIInv
  <2> QED
    BY <2>1, <2>2
<1>5. CASE Fetch
  <2>1. TypeOK'
    BY <1>5 DEF Fetch, IInv, TypeOK, linkace, ghosts
  <2>2. Lookup' /\ Stages' /\ pc' # "write"
    BY <1>5 DEF Fetch, Lookup, Stages
  <2> QED
    BY <1>5, <2>1, <2>2, QuietIInv DEF Fetch, linkace, ghosts
<1>6. CASE Summarize
  <2>1. TypeOK'
    BY <1>6 DEF Summarize, IInv, TypeOK, Tools, Status, linkace, ghosts
  <2>2. Lookup' /\ pc' # "write"
    BY <1>6 DEF Summarize, Lookup
  <2>3. Stages'
    BY <1>6 DEF Summarize, Stages, IInv
  <2> QED
    BY <1>6, <2>1, <2>2, <2>3, QuietIInv DEF Summarize, linkace, ghosts
<1>7. CASE Update
  BY <1>7, UpdateIInv
<1>8. CASE Create
  BY <1>8, CreateIInv
<1>9. CASE Fail
  <2>1. TypeOK'
    BY <1>9 DEF Fail, IInv, TypeOK, Status, linkace, ghosts
  <2>2. Lookup' /\ Stages' /\ pc' # "write"
    BY <1>9 DEF Fail, Lookup, Stages, IInv
  <2> QED
    BY <1>9, <2>1, <2>2, QuietIInv DEF Fail, linkace, ghosts
<1>10. CASE Bookmark
  <2>1. PICK u \in Urls, ls \in Lists :
          Edited(made', [url |-> u, lists |-> ls, description |-> None, by |-> "human"])
    BY <1>10 DEF Bookmark
  <2>2. [url |-> u, lists |-> ls, description |-> None, by |-> "human"] \in Link
    BY DEF Link
  <2>3. made' \in Id /\ made' \in 0 .. MaxLinks /\ made' = made + 1
    BY <1>10, Bounds DEF Bookmark, IInv, TypeOK, Id
  <2>4. \A j \in Id : j > made' => links'[j] = None
    BY <2>1, <2>3, Bounds DEF Edited, IInv, TypeOK, Id
  <2> QED
    BY <2>1, <2>2, <2>3, <2>4, EditedIInv
<1>11. ASSUME NEW i \in Id, NEW link \in Link \cup {None}, Exists(i), Edited(i, link),
              UNCHANGED made,
              link # None /\ link.by = "agent" =>
                links[i].by = "agent" /\ link.url = links[i].url
       PROVE  IInv'
  <2>1. made' \in 0 .. MaxLinks
    BY <1>11 DEF IInv, TypeOK
  <2>2. \A j \in Id : j > made' => links'[j] = None
    BY <1>11 DEF Edited, IInv, TypeOK, Exists
  <2> QED
    BY <1>11, <2>1, <2>2, EditedIInv DEF ByAgent
<1>12. ASSUME NEW i \in Id, Refile(i) PROVE IInv'
  <2>1. PICK ls \in Lists : Edited(i, [links[i] EXCEPT !.lists = ls])
    BY <1>12 DEF Refile
  <2>2. links[i] \in Link
    BY <1>12 DEF Refile, Exists, IInv, TypeOK
  <2>3. [links[i] EXCEPT !.lists = ls] \in Link
    BY <2>2 DEF Link
  <2>4. /\ [links[i] EXCEPT !.lists = ls].by = links[i].by
        /\ [links[i] EXCEPT !.lists = ls].url = links[i].url
    BY <2>2 DEF Link
  <2> QED
    BY <1>11, <1>12, <2>1, <2>3, <2>4 DEF Refile
<1>13. ASSUME NEW i \in Id, Retarget(i) PROVE IInv'
  <2>1. PICK u \in Urls : Edited(i, [links[i] EXCEPT !.url = u, !.by = "human"])
    BY <1>13 DEF Retarget
  <2>2. links[i] \in Link
    BY <1>13 DEF Retarget, Exists, IInv, TypeOK
  <2>3. /\ [links[i] EXCEPT !.url = u, !.by = "human"] \in Link
        /\ [links[i] EXCEPT !.url = u, !.by = "human"].by = "human"
    BY <2>2 DEF Link
  <2> QED
    BY <1>11, <1>13, <2>1, <2>3 DEF Retarget
<1>14. ASSUME NEW i \in Id, Remove(i) PROVE IInv'
  BY <1>11, <1>14 DEF Remove
<1>15. CASE UNCHANGED vars
  <2>1. UNCHANGED <<linkace, skill, dry, edits, ghosts>>
    BY <1>15 DEF vars
  <2>2. TypeOK' /\ Lookup' /\ Stages'
    BY <2>1 DEF linkace, skill, ghosts, IInv, TypeOK, Lookup, Stages, ByAgent, Exists
  <2> QED
    BY <2>1, <2>2, QuietIInv DEF linkace, skill, ghosts
<1> QED
  BY <1>1, <1>2, <1>3, <1>4, <1>5, <1>6, <1>7, <1>8, <1>9, <1>10, <1>12, <1>13,
     <1>14, <1>15 DEF Next

LEMMA Inductive == Spec => []IInv
  BY InitIInv, NextIInv, PTL DEF Spec

\* Every variable of the skill and of LinkAce keeps its type.
THEOREM TypeCorrect == Spec => []TypeOK
  <1>1. IInv => TypeOK
    BY DEF IInv
  <1> QED
    BY <1>1, Inductive, PTL

\* However many runs, failures and edits there are: the agent makes one link
\* for a URL and updates a link once each time it is filed.
THEOREM RepeatsHarmless == Spec => []RepeatsAreHarmless
  <1>1. IInv => RepeatsAreHarmless
    BY DEF IInv
  <1> QED
    BY <1>1, Inductive, PTL
-----------------------------------------------------------------------------
(* What the ticket is told. *)

\* A run reports when it ends and not before, in a dry run without a request
\* for a write; linkace_find_link looks up the URL of the ticket; and a report
\* of success is about a link.
Course ==
  /\ pc # "idle" <=> status = "running"
  /\ dry => tool = "linkace_find_link" /\ pc \in {"idle", "fetch", "summarize"}
  /\ pc \in {"search", "detail"} /\ tool = "linkace_find_link" => final = None
  /\ status = "processed" => mark \in Id
  /\ status = "already_done" => existing \in Found

\* The link that add_link is about to update waits in the source list, unless a
\* human touched it since it was looked up.
StillWaiting ==
  pc = "write" /\ existing # None =>
    existing.id \in disturbed \/ Filed(existing.id)

Report == Course /\ StillWaiting /\ ReportIsTrue

LEMMA InitReport == Init => Report
  BY NoneIsNone DEF Init, Report, Course, StillWaiting, ReportIsTrue

\* A human's edit is remembered, so that it excuses what is no longer so.
LEMMA EditedReport ==
  ASSUME IInv, Report, NEW i \in Id, NEW link, Edited(i, link)
  PROVE  Report'
<1>1. /\ links' = [links EXCEPT ![i] = link]
      /\ disturbed' = disturbed \cup {i}
      /\ UNCHANGED <<skill, dry, written, mark>>
  BY DEF Edited
<1>2. \A j \in Id : j \notin disturbed' => j \notin disturbed /\ links'[j] = links[j]
  BY <1>1 DEF IInv, TypeOK
<1>3. Course'
  BY <1>1 DEF Report, Course, skill
<1>4. StillWaiting'
  BY <1>1, <1>2 DEF Report, StillWaiting, Filed, Exists, skill, IInv, TypeOK, Found
<1>5. ReportIsTrue'
  <2>1. status' = "processed" => mark' \in disturbed' \/ Written(mark)'
    BY <1>1, <1>2 DEF Report, Course, ReportIsTrue, Written, Exists, skill
  <2>2. status' = "already_done" => existing'.id \in disturbed' \/ Registered(existing.id)'
    BY <1>1, <1>2 DEF Report, Course, ReportIsTrue, Registered, Asked, Exists, Found, skill
  <2>3. dry' \/ status' \in {"running", "needs_user", "already_done", "dry_run"} => mark' = None
    BY <1>1 DEF Report, ReportIsTrue, skill
  <2> QED
    BY <2>1, <2>2, <2>3 DEF ReportIsTrue
<1> QED
  BY <1>3, <1>4, <1>5 DEF Report

\* Where a run goes on there is nothing to report yet, and a report of anything
\* but a link says only that this run wrote none.
LEMMA SilentReport ==
  ASSUME Course', StillWaiting', status' \notin {"processed", "already_done"},
         dry' \/ status' \in {"running", "needs_user", "dry_run"} => mark' = None
  PROVE  Report'
  BY DEF Report, ReportIsTrue

\* The two lookups end with the link as it is, or go on with one that waits.
LEMMA FindLinkReturnsReport ==
  ASSUME IInv, Report, pc = "detail", NEW found \in Found \cup {None}, FindLinkReturns(found),
         UNCHANGED <<linkace, tool, target, final, dry, mark>>,
         found # None => /\ Exists(found.id) /\ links[found.id].url = Query
                         /\ found.has_source_list = (SourceList \in links[found.id].lists)
  PROVE  Report'
<1>1. /\ existing' = found /\ status = "running" /\ mark = None /\ ~dry
      /\ final = None \/ tool = "linkace_add_link"
      /\ tool \in Tools
  BY DEF FindLinkReturns, Known, Decide, Report, Course, ReportIsTrue, IInv, TypeOK, Tools
<1>2. Query = Asked
  BY <1>1, NoneIsNone DEF Query, Asked, IInv, Stages, Tools
<1>3. CASE Done(found)
  <2>1. pc' = "idle" /\ status' = "already_done"
    BY <1>3 DEF FindLinkReturns, Known, Decide, End
  <2>2. found \in Found /\ Registered(found.id)
    BY <1>2, <1>3 DEF Done, Registered
  <2>3. Registered(existing.id)'
    BY <1>1, <2>2 DEF Registered, Asked, Exists, linkace
  <2>4. Course' /\ StillWaiting'
    BY <1>1, <2>1, <2>2 DEF Course, StillWaiting, Report
  <2> QED
    BY <1>1, <2>1, <2>3, <2>4 DEF Report, ReportIsTrue
<1>4. CASE ~Done(found)
  <2>1. pc' \in {"fetch", "write"} /\ status' = status
    BY <1>4 DEF FindLinkReturns, Known, Decide
  <2>2. found # None => Filed(found.id)
    BY <1>4 DEF Done, Filed
  <2>3. StillWaiting'
    BY <1>1, <2>2 DEF StillWaiting, Filed, Exists, linkace
  <2>4. Course'
    BY <1>1, <2>1 DEF Course
  <2> QED
    BY <1>1, <2>1, <2>3, <2>4, SilentReport
<1> QED
  BY <1>3, <1>4

\* Both writes leave the briefing of the final URL in a link of that URL.
LEMMA WriteReport ==
  ASSUME IInv, Report, NEW i \in Id, NEW by, pc = "write",
         links' = [links EXCEPT ![i] = Payload(by)], Payload(by) # None,
         mark' = i, Answered, UNCHANGED <<tool, final, existing, dry>>
  PROVE  Report'
<1>1. pc' = "idle" /\ status' \in {"processed", "failed", "crashed"} /\ ~dry'
  BY DEF Answered, End, Report, Course
<1>2. Course' /\ StillWaiting'
  BY <1>1 DEF Course, StillWaiting
<1>3. Written(mark)'
  <2>1. links'[i] = Payload(by)
    BY DEF IInv, TypeOK
  <2> QED
    BY <2>1 DEF Written, Exists, Payload
<1> QED
  BY <1>1, <1>2, <1>3 DEF Report, ReportIsTrue

LEMMA NextReport == IInv /\ Report /\ [Next]_vars => Report'
<1> SUFFICES ASSUME IInv, Report, [Next]_vars PROVE Report'
  OBVIOUS
<1>0. status = "running" => mark = None
  BY DEF Report, ReportIsTrue
<1>1. CASE Start
  <2>1. Course' /\ StillWaiting' /\ mark' = None /\ status' \in {"running", "needs_user"}
    BY <1>1 DEF Start, End, Course, StillWaiting
  <2> QED
    BY <2>1, SilentReport
<1>2. CASE Search
  <2>1. Course' /\ StillWaiting' /\ mark' = None /\ status' = "running"
    BY <1>0, <1>2 DEF Search, Report, Course, StillWaiting, ghosts
  <2> QED
    BY <2>1, SilentReport
<1>3. CASE NoneLeft
  BY <1>3, FindLinkReturnsReport DEF NoneLeft, ghosts
<1>4. ASSUME NEW i \in Id, Detail(i) PROVE Report'
  <2>1. CASE links[i].url # Query
    <3>1. Course' /\ StillWaiting' /\ mark' = None /\ status' = "running"
      BY <1>0, <1>4, <2>1 DEF Detail, Report, Course, StillWaiting
    <3> QED
      BY <3>1, SilentReport
  <2>2. CASE links[i].url = Query
    <3> DEFINE found == [id |-> i, has_source_list |-> SourceList \in links[i].lists]
    <3>1. (SourceList \in links[i].lists) \in BOOLEAN
      OBVIOUS
    <3>2. found \in Found
      BY <3>1, Zenon DEF Found
    <3>3. /\ FindLinkReturns(found) /\ pc = "detail" /\ Exists(i)
          /\ UNCHANGED <<linkace, tool, target, final, dry, mark>>
      BY <1>4, <2>2 DEF Detail
    <3>4. found.id = i /\ found.has_source_list = (SourceList \in links[i].lists)
      OBVIOUS
    <3> HIDE DEF found
    <3> QED
      BY <2>2, <3>2, <3>3, <3>4, FindLinkReturnsReport
  <2> QED
    BY <2>1, <2>2
<1>5. CASE Fetch
  <2>1. Course' /\ StillWaiting' /\ mark' = None /\ status' = "running"
    BY <1>0, <1>5 DEF Fetch, Report, Course, StillWaiting, ghosts
  <2> QED
    BY <2>1, SilentReport
<1>6. CASE Summarize
  <2>1. Course' /\ StillWaiting' /\ mark' = None /\ status' \in {"running", "dry_run"}
    BY <1>0, <1>6 DEF Summarize, End, Report, Course, StillWaiting, ghosts
  <2> QED
    BY <2>1, SilentReport
<1>7. CASE Update
  <2>1. PICK i \in Id : i = existing.id
    BY <1>7 DEF Update, IInv, TypeOK, Found
  <2>2. Payload(links[i].by) # None
    <3>1. Payload(links[i].by) \in Link
      BY <1>7, <2>1, ListsDiffer DEF Update, Payload, Link, Lists, IInv, Stages, TypeOK, Exists
    <3> QED
      BY <3>1, NoneIsNone
  <2> QED
    BY <1>7, <2>1, <2>2, WriteReport DEF Update
<1>8. CASE Create
  <2>1. made + 1 \in Id
    BY <1>8, Bounds DEF Create, IInv, TypeOK, Id
  <2>2. Payload("agent") # None
    <3>1. Payload("agent") \in Link
      BY <1>8, ListsDiffer DEF Create, Payload, Link, Lists, IInv, Stages
    <3> QED
      BY <3>1, NoneIsNone
  <2> QED
    BY <1>8, <2>1, <2>2, WriteReport DEF Create
<1>9. CASE Fail
  <2>1. Course' /\ StillWaiting' /\ mark' = None /\ status' \in {"failed", "crashed"}
    BY <1>0, <1>9 DEF Fail, End, Report, Course, StillWaiting, ghosts
  <2> QED
    BY <2>1, SilentReport
<1>10. ASSUME NEW i \in Id, NEW link, Edited(i, link) PROVE Report'
  BY <1>10, EditedReport
<1>11. CASE Bookmark
  <2>1. made' \in Id
    BY <1>11, Bounds DEF Bookmark, IInv, TypeOK, Id
  <2> QED
    BY <1>10, <1>11, <2>1 DEF Bookmark
<1>12. ASSUME NEW i \in Id, Refile(i) \/ Retarget(i) \/ Remove(i) PROVE Report'
  BY <1>10, <1>12 DEF Refile, Retarget, Remove
<1>13. CASE UNCHANGED vars
  BY <1>13 DEF vars, linkace, skill, ghosts, Report, Course, StillWaiting, ReportIsTrue,
     Written, Registered, Asked, Filed, Exists
<1> QED
  BY <1>1, <1>2, <1>3, <1>4, <1>5, <1>6, <1>7, <1>8, <1>9, <1>11, <1>12, <1>13 DEF Next

LEMMA Reports == Spec => [](IInv /\ Report)
<1>1. IInv /\ Report /\ [Next]_vars => (IInv /\ Report)'
  BY NextIInv, NextReport
<1>2. Init => IInv /\ Report
  BY InitIInv, InitReport
<1> QED
  BY <1>1, <1>2, PTL DEF Spec

\* What a finished run says of LinkAce is so, as long as no human changed the
\* link since; and a run that says it changed nothing did not.
THEOREM ReportsAreTrue == Spec => []ReportIsTrue
  <1>1. Report => ReportIsTrue
    BY DEF Report
  <1> QED
    BY <1>1, Reports, PTL

\* A link that left the source list is not overwritten, unless that happened
\* between the lookup of add_link and its write.
THEOREM MovedLinksStay == Spec => MovedLinksAreLeftAlone
  <1> DEFINE LeftAlone ==
        \A i \in Id :
          /\ edits' = edits /\ Exists(i) /\ links'[i] # links[i]
          /\ SourceList \notin links[i].lists
          => i \in disturbed
  <1>1. IInv /\ Report /\ [Next]_vars => [LeftAlone]_vars
    <2> SUFFICES ASSUME IInv, Report, Next, NEW i \in Id,
                        edits' = edits, Exists(i), links'[i] # links[i],
                        SourceList \notin links[i].lists
                 PROVE  i \in disturbed
      OBVIOUS
    <2>1. ASSUME NEW j \in Id, NEW link, Edited(j, link) PROVE FALSE
      BY <2>1 DEF Edited, IInv, TypeOK
    <2>2. ~ \E j \in Id : Refile(j) \/ Retarget(j) \/ Remove(j)
      BY <2>1 DEF Refile, Retarget, Remove
    <2>3. ~ Bookmark
      <3> SUFFICES ASSUME Bookmark PROVE FALSE
        OBVIOUS
      <3>1. made' \in Id
        BY Bounds DEF Bookmark, IInv, TypeOK, Id
      <3> QED
        BY <2>1, <3>1 DEF Bookmark
    <2>4. Update \/ Create
      BY <2>2, <2>3 DEF Next, Start, Search, NoneLeft, Detail, Fetch, Summarize, Fail, linkace
    <2>5. CASE Update
      <3>1. existing # None /\ existing.id = i /\ pc = "write"
        BY <2>5 DEF Update, IInv, TypeOK
      <3>2. ~ Filed(i)
        BY DEF Filed
      <3> QED
        BY <3>1, <3>2 DEF Report, StillWaiting
    <2>6. CASE Create
      <3>1. i = made + 1
        BY <2>6 DEF Create, IInv, TypeOK
      <3>2. links[i] = None
        BY <3>1 DEF IInv, TypeOK
      <3> QED
        BY <3>2 DEF Exists
    <2> QED
      BY <2>4, <2>5, <2>6
  <1> QED
    BY <1>1, Reports, PTL DEF Spec, MovedLinksAreLeftAlone
=============================================================================
