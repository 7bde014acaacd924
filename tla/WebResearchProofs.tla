------------------------- MODULE WebResearchProofs -------------------------
(***************************************************************************)
(* What WebResearch promises of the evidence and of the report, for any    *)
(* queries, pages, budgets and answers.                                    *)
(***************************************************************************)
EXTENDS WebResearch, FiniteSetTheorems, TLAPS

Less == {ss \in Nat \X Nat : ss[1] < ss[2]}

\* A set of positions has a first one.
LEMMA FirstPosition ==
  ASSUME NEW S, S \subseteq Nat, S # {}
  PROVE  \E x \in S : \A y \in S : x <= y
<1>1. IsWellFoundedOn(Less, Nat)
  BY NatLessThanWellFounded DEF OpToRel, Less
<1>2. PICK x \in S : \A y \in S : <<y, x>> \notin Less
  BY <1>1, WFMin
<1>3. ASSUME NEW y \in S, y < x
      PROVE  FALSE
  <2>1. <<y, x>> \in Nat \X Nat /\ <<y, x>>[1] < <<y, x>>[2]
    BY <1>3
  <2> QED
    BY <1>2, <2>1 DEF Less
<1> QED
  BY <1>3
-----------------------------------------------------------------------------
(* Results *)

\* What _filter_new_urls keeps of a search: every page that is new, once.
LEMMA NewResultsCorrect ==
  ASSUME NEW pages \in Answers, NEW known
  PROVE  /\ NewResults(pages, known) \in Results
         /\ PagesOf(NewResults(pages, known)) = ToSet(pages) \ known
         /\ \A r, t \in NewResults(pages, known) : r.page = t.page => r = t
<1> DEFINE First == {k \in DOMAIN pages :
                       pages[k] \notin known \cup {pages[j] : j \in 1 .. k - 1}}
<1>1. PICK m \in 0 .. MaxResults : pages \in [1 .. m -> Pages]
  BY ResearchAssumption DEF Answers, SeqOf
<1>2. NewResults(pages, known) = {[rank |-> k, page |-> pages[k]] : k \in First}
  BY DEF NewResults
<1>3. First \subseteq 1 .. m /\ DOMAIN pages = 1 .. m /\ 1 .. m \subseteq Nat
  BY <1>1
<1>4. NewResults(pages, known) \in Results
  BY <1>1, <1>2, <1>3, ResearchAssumption DEF Results
<1>5. PagesOf(NewResults(pages, known)) = {pages[k] : k \in First}
  <2>1. ASSUME NEW k \in First
        PROVE  pages[k] \in PagesOf(NewResults(pages, known))
    <3>1. [rank |-> k, page |-> pages[k]] \in NewResults(pages, known)
      BY <1>2
    <3> QED
      BY <3>1 DEF PagesOf
  <2>2. \A page \in PagesOf(NewResults(pages, known)) : \E k \in First : page = pages[k]
    BY <1>2 DEF PagesOf
  <2> QED
    BY <2>1, <2>2
<1>6. ASSUME NEW page \in ToSet(pages) \ known
      PROVE  \E k \in First : pages[k] = page
  <2> DEFINE At == {k \in 1 .. m : pages[k] = page}
  <2>1. At # {} /\ At \subseteq Nat
    BY <1>3, <1>6 DEF ToSet
  <2>2. PICK k \in At : \A j \in At : k <= j
    BY <2>1, FirstPosition
  <2>3. ASSUME NEW j \in 1 .. k - 1, pages[j] = page
        PROVE  FALSE
    <3>1. j \in At /\ j < k
      BY <1>1, <2>2, <2>3
    <3> QED
      BY <1>1, <2>2, <3>1
  <2>4. k \in First
    BY <1>3, <1>6, <2>2, <2>3
  <2> QED
    BY <2>2, <2>4
<1>7. \A k \in First : pages[k] \in ToSet(pages) \ known
  BY DEF ToSet
<1>8. ASSUME NEW k \in First, NEW l \in First, pages[k] = pages[l]
      PROVE  k = l
  <2>1. ~ k \in 1 .. l - 1 /\ ~ l \in 1 .. k - 1
    BY <1>8
  <2> QED
    BY <1>1, <1>3, <2>1
<1>9. \A r, t \in NewResults(pages, known) : r.page = t.page => r = t
  BY <1>2, <1>8
<1> QED
  BY <1>4, <1>5, <1>6, <1>7, <1>9
-----------------------------------------------------------------------------
(* Types *)

LEMMA TypeInit == Init => TypeOK
<1>1. \A S : <<>> \in Seq(S)
  OBVIOUS
<1>2. Init => collected \in Collected
  BY <1>1 DEF Init, Collected
<1> QED
  BY <1>1, <1>2 DEF Init, TypeOK

LEMMA TypeStep ==
  ASSUME TypeOK, [Next]_vars
  PROVE  TypeOK'
<1>1. CASE Start \/ PlanMade \/ ToolFails \/ ReportComposed
  BY <1>1 DEF Start, PlanMade, ToolFails, ReportComposed, End, TypeOK, search
<1>2. CASE SearchFails
  <2>1. PICK query \in Due :
          /\ pending' = pending \ {query} /\ executed' = executed \cup {query}
          /\ searchLog' = Append(searchLog, [query |-> query, ok |-> FALSE])
    BY <1>2 DEF SearchFails
  <2>2. query \in Queries
    BY <2>1 DEF Due, TypeOK
  <2> QED
    BY <1>2, <2>1, <2>2 DEF SearchFails, TypeOK
<1>3. CASE SearchSucceeds
  <2>1. PICK query \in Due, pages \in Answers :
          /\ pending' = pending \ {query} /\ executed' = executed \cup {query}
          /\ searchLog' = Append(searchLog, [query |-> query, ok |-> TRUE])
          /\ collected' = Append(collected, [query |-> query, results |-> NewResults(pages, seen)])
          /\ seen' = seen \cup PagesOf(NewResults(pages, seen))
          /\ found' = found \cup ToSet(pages)
    BY <1>3 DEF SearchSucceeds
  <2>2. query \in Queries
    BY <2>1 DEF Due, TypeOK
  <2>3. ToSet(pages) \subseteq Pages
    BY <2>1, ResearchAssumption DEF Answers, SeqOf, ToSet
  <2>4. /\ NewResults(pages, seen) \in Results
        /\ PagesOf(NewResults(pages, seen)) = ToSet(pages) \ seen
    BY NewResultsCorrect
  <2>5. collected' \in Collected
    BY <2>1, <2>2, <2>4 DEF Collected, TypeOK
  <2>6. searchLog' \in Seq([query : Queries, ok : BOOLEAN])
    BY <2>1, <2>2 DEF TypeOK
  <2>7. /\ pending' \subseteq Queries /\ executed' \subseteq Queries
        /\ seen' \subseteq Pages /\ found' \subseteq Pages
    BY <2>1, <2>2, <2>3, <2>4 DEF TypeOK
  <2> QED
    BY <1>3, <2>5, <2>6, <2>7 DEF SearchSucceeds, TypeOK
<1>4. CASE SearchesEnd
  BY <1>4 DEF SearchesEnd, End, TypeOK, search
<1>5. CASE Evaluate
  <2>1. PICK verdict \in Verdicts :
          /\ history' = Append(history, [sufficient |-> verdict.sufficient,
                                         queries |-> executed, results |-> collected])
          /\ IF Enough(verdict) \/ Len(history') = MaxRounds
             THEN /\ IF collected = <<>> THEN End("failed")
                     ELSE pc' = "compose" /\ UNCHANGED status
                  /\ UNCHANGED <<pending, ranQuery>>
             ELSE /\ pending' = Further(verdict.additional)
                  /\ ranQuery' = FALSE
                  /\ pc' = "search" /\ UNCHANGED status
    BY <1>5 DEF Evaluate
  <2>2. history' \in Seq([sufficient : BOOLEAN, queries : SUBSET Queries,
                          results : Collected])
    BY <2>1 DEF TypeOK, Verdicts
  <2>3. /\ pending' \subseteq Queries /\ ranQuery' \in BOOLEAN
        /\ pc' \in {"done", "compose", "search"}
        /\ status' \in {"none", "needs_user", "failed", "processed"}
    BY <2>1 DEF TypeOK, Verdicts, Further, End
  <2> QED
    BY <1>5, <2>2, <2>3 DEF Evaluate, TypeOK
<1>6. CASE UNCHANGED vars
  BY <1>6 DEF vars, TypeOK
<1> QED
  BY <1>1, <1>2, <1>3, <1>4, <1>5, <1>6 DEF Next

\* Every variable keeps its type, whatever the tools answer.
THEOREM TypeCorrect == Spec => []TypeOK
<1>1. TypeOK /\ [Next]_vars => TypeOK'
  BY TypeStep
<1> QED
  BY <1>1, TypeInit, PTL DEF Spec
-----------------------------------------------------------------------------
(* The evidence and the log *)

LEMMA ToSetAppend ==
  ASSUME NEW S, NEW s \in Seq(S), NEW e \in S
  PROVE  ToSet(Append(s, e)) = ToSet(s) \cup {e}
<1>1. /\ DOMAIN Append(s, e) = 1 .. Len(s) + 1 /\ DOMAIN s = 1 .. Len(s) /\ Len(s) \in Nat
      /\ \A i \in 1 .. Len(s) : Append(s, e)[i] = s[i]
      /\ Append(s, e)[Len(s) + 1] = e
  OBVIOUS
<1>2. ASSUME NEW x \in ToSet(s) \cup {e}
      PROVE  x \in ToSet(Append(s, e))
  <2>1. CASE x = e
    BY <1>1, <2>1 DEF ToSet
  <2>2. CASE x \in ToSet(s)
    <3>1. PICK i \in 1 .. Len(s) : x = s[i]
      BY <1>1, <2>2 DEF ToSet
    <3>2. i \in DOMAIN Append(s, e) /\ Append(s, e)[i] = x
      BY <1>1, <3>1
    <3> QED
      BY <3>2 DEF ToSet
  <2> QED
    BY <1>2, <2>1, <2>2
<1>3. ASSUME NEW x \in ToSet(Append(s, e))
      PROVE  x \in ToSet(s) \cup {e}
  <2>1. PICK i \in 1 .. Len(s) + 1 : x = Append(s, e)[i]
    BY <1>1, <1>3 DEF ToSet
  <2>2. CASE i = Len(s) + 1
    BY <1>1, <2>1, <2>2
  <2>3. CASE i \in 1 .. Len(s)
    BY <1>1, <2>1, <2>3 DEF ToSet
  <2> QED
    BY <1>1, <2>2, <2>3
<1> QED
  BY <1>2, <1>3

\* A query that was not tried before gets the only row with its name.
LEMMA LogGrows ==
  ASSUME TypeOK, LogIsTrue, NEW query \in Queries \ executed, NEW ok \in BOOLEAN,
         executed' = executed \cup {query},
         searchLog' = Append(searchLog, [query |-> query, ok |-> ok]),
         {c.query : c \in ToSet(collected')}
           = {c.query : c \in ToSet(collected)} \cup (IF ok THEN {query} ELSE {})
  PROVE  LogIsTrue'
<1> DEFINE row == [query |-> query, ok |-> ok]
           Row == [query : Queries, ok : BOOLEAN]
<1>1. searchLog \in Seq(Row) /\ row \in Row
  BY DEF TypeOK
<1>2. ToSet(searchLog') = ToSet(searchLog) \cup {row}
  <2>1. searchLog' = Append(searchLog, row)
    OBVIOUS
  <2> HIDE DEF row, Row
  <2> QED
    BY <1>1, <2>1, ToSetAppend
<1>3. {r.query : r \in ToSet(searchLog')} = executed'
  BY <1>2 DEF LogIsTrue
<1>4. ASSUME NEW i \in DOMAIN searchLog', NEW j \in DOMAIN searchLog',
             searchLog'[i].query = searchLog'[j].query
      PROVE  i = j
  <2>1. /\ Len(searchLog) \in Nat /\ DOMAIN searchLog = 1 .. Len(searchLog)
        /\ DOMAIN searchLog' = 1 .. Len(searchLog) + 1
        /\ \A k \in 1 .. Len(searchLog) : searchLog'[k] = searchLog[k]
        /\ searchLog'[Len(searchLog) + 1] = row
    BY <1>1
  <2>2. \A k \in 1 .. Len(searchLog) : searchLog[k].query # query
    BY <2>1 DEF LogIsTrue, ToSet
  <2>3. CASE i \in 1 .. Len(searchLog) /\ j \in 1 .. Len(searchLog)
    BY <1>4, <2>1, <2>3 DEF LogIsTrue
  <2>4. CASE i = Len(searchLog) + 1 \/ j = Len(searchLog) + 1
    BY <1>4, <2>1, <2>2, <2>4
  <2> QED
    BY <2>1, <2>3, <2>4
<1>5. {r.query : r \in {r \in ToSet(searchLog') : r.ok}}
        = {r.query : r \in {r \in ToSet(searchLog) : r.ok}} \cup (IF ok THEN {query} ELSE {})
  BY <1>2
<1> QED
  BY <1>3, <1>4, <1>5 DEF LogIsTrue

EvidenceIInv == TypeOK /\ EvidenceOnce /\ seen = found

LEMMA EvidenceInit == Init => EvidenceIInv
<1> SUFFICES ASSUME Init PROVE EvidenceIInv
  OBVIOUS
<1>1. collected = <<>> /\ searchLog = <<>> /\ DOMAIN <<>> = {}
  BY DEF Init
<1>2. ToSet(collected) = {} /\ ToSet(searchLog) = {}
  BY <1>1 DEF ToSet
<1>3. EveryPageKept /\ NoPageTwice
  BY <1>1 DEF EveryPageKept, NoPageTwice, Init
<1>4. LogIsTrue
  BY <1>1, <1>2 DEF LogIsTrue, Init
<1> QED
  BY <1>3, <1>4, TypeInit DEF EvidenceIInv, EvidenceOnce, Init

LEMMA SearchSucceedsEvidence ==
  ASSUME EvidenceIInv, SearchSucceeds
  PROVE  EvidenceOnce' /\ seen' = found'
<1>1. PICK query \in Due, pages \in Answers :
        /\ executed' = executed \cup {query}
        /\ searchLog' = Append(searchLog, [query |-> query, ok |-> TRUE])
        /\ collected' = Append(collected, [query |-> query, results |-> NewResults(pages, seen)])
        /\ seen' = seen \cup PagesOf(NewResults(pages, seen))
        /\ found' = found \cup ToSet(pages)
  BY DEF SearchSucceeds
<1> DEFINE kept == NewResults(pages, seen)
           row == [query |-> query, results |-> kept]
<1>2. /\ kept \in Results /\ PagesOf(kept) = ToSet(pages) \ seen
      /\ \A r, t \in kept : r.page = t.page => r = t
  BY NewResultsCorrect
<1>3. query \in Queries \ executed
  BY DEF Due, EvidenceIInv, TypeOK
<1>4. seen = found /\ collected \in Seq([query : Queries, results : Results])
  BY DEF EvidenceIInv, TypeOK, Collected
<1>5. row \in [query : Queries, results : Results]
  BY <1>2, <1>3
<1>6. /\ Len(collected) \in Nat /\ DOMAIN collected = 1 .. Len(collected)
      /\ DOMAIN collected' = 1 .. Len(collected) + 1
      /\ \A i \in 1 .. Len(collected) : collected'[i] = collected[i]
      /\ collected'[Len(collected) + 1] = row
  BY <1>1, <1>4, <1>5
<1>7. seen' = found'
  BY <1>1, <1>2, <1>4
<1>8. EveryPageKept'
  <2>1. UNION {PagesOf(collected[i].results) : i \in DOMAIN collected} = found
    BY DEF EvidenceIInv, EvidenceOnce, EveryPageKept
  <2>2. ASSUME NEW page \in found'
        PROVE  \E i \in DOMAIN collected' : page \in PagesOf(collected'[i].results)
    <3>1. CASE page \in found
      <4>1. PICK i \in DOMAIN collected : page \in PagesOf(collected[i].results)
        BY <2>1, <3>1
      <4> QED
        BY <1>6, <4>1
    <3>2. CASE page \notin found
      <4>1. page \in PagesOf(kept)
        BY <1>1, <1>2, <1>4, <2>2, <3>2
      <4>2. Len(collected) + 1 \in DOMAIN collected' /\ collected'[Len(collected) + 1].results = kept
        BY <1>6
      <4> QED
        BY <4>1, <4>2
    <3> QED
      BY <3>1, <3>2
  <2>3. ASSUME NEW i \in DOMAIN collected', NEW page \in PagesOf(collected'[i].results)
        PROVE  page \in found'
    <3>1. CASE i = Len(collected) + 1
      BY <1>1, <1>2, <1>6, <2>3, <3>1
    <3>2. CASE i \in DOMAIN collected
      BY <1>1, <1>6, <2>1, <2>3, <3>2
    <3> QED
      BY <1>6, <3>1, <3>2
  <2> QED
    BY <2>2, <2>3 DEF EveryPageKept
<1>9. NoPageTwice'
  <2>1. ASSUME NEW i \in DOMAIN collected, NEW r \in collected[i].results
        PROVE  r.page \notin PagesOf(kept)
    <3>1. r.page \in found
      BY <2>1 DEF EvidenceIInv, EvidenceOnce, EveryPageKept, PagesOf
    <3> QED
      BY <1>2, <1>4, <3>1
  <2>2. ASSUME NEW i \in DOMAIN collected', NEW j \in DOMAIN collected',
               NEW r \in collected'[i].results, NEW t \in collected'[j].results,
               r.page = t.page
        PROVE  i = j /\ r = t
    <3>1. CASE i \in DOMAIN collected /\ j \in DOMAIN collected
      BY <1>6, <2>2, <3>1 DEF EvidenceIInv, EvidenceOnce, NoPageTwice
    <3>2. CASE i = Len(collected) + 1 /\ j = Len(collected) + 1
      BY <1>2, <1>6, <2>2, <3>2
    <3>3. CASE i \in DOMAIN collected /\ j = Len(collected) + 1
      <4>1. r \in collected[i].results /\ t \in kept
        BY <1>6, <2>2, <3>3
      <4>2. t.page \in PagesOf(kept)
        BY <4>1 DEF PagesOf
      <4> QED
        BY <2>1, <2>2, <3>3, <4>1, <4>2
    <3>4. CASE j \in DOMAIN collected /\ i = Len(collected) + 1
      <4>1. t \in collected[j].results /\ r \in kept
        BY <1>6, <2>2, <3>4
      <4>2. r.page \in PagesOf(kept)
        BY <4>1 DEF PagesOf
      <4> QED
        BY <2>1, <2>2, <3>4, <4>1, <4>2
    <3> QED
      BY <1>6, <3>1, <3>2, <3>3, <3>4
  <2> QED
    BY <2>2 DEF NoPageTwice
<1>10. LogIsTrue'
  <2>1. ToSet(collected') = ToSet(collected) \cup {row}
    <3>1. collected' = Append(collected, row)
      BY <1>1
    <3> DEFINE Row == [query : Queries, results : Results]
    <3>2. collected \in Seq(Row) /\ row \in Row
      BY <1>4, <1>5
    <3> HIDE DEF row, Row
    <3> QED
      BY <3>1, <3>2, ToSetAppend
  <2>2. {c.query : c \in ToSet(collected')} = {c.query : c \in ToSet(collected)} \cup {query}
    <3>1. row.query = query
      OBVIOUS
    <3> HIDE DEF row
    <3> QED
      BY <2>1, <3>1
  <2> QED
    BY <1>1, <1>3, <2>2, LogGrows DEF EvidenceIInv, EvidenceOnce
<1> QED
  BY <1>7, <1>8, <1>9, <1>10 DEF EvidenceOnce

LEMMA EvidenceStep ==
  ASSUME EvidenceIInv, [Next]_vars
  PROVE  EvidenceIInv'
<1>1. TypeOK'
  BY TypeStep DEF EvidenceIInv
<1>2. CASE UNCHANGED <<executed, seen, collected, searchLog, found>>
  BY <1>1, <1>2 DEF EvidenceIInv, EvidenceOnce, EveryPageKept, NoPageTwice, LogIsTrue
<1>3. CASE SearchFails
  <2>1. PICK query \in Due :
          /\ executed' = executed \cup {query}
          /\ searchLog' = Append(searchLog, [query |-> query, ok |-> FALSE])
    BY <1>3 DEF SearchFails
  <2>2. query \in Queries \ executed /\ UNCHANGED <<seen, collected, found>>
    BY <1>3 DEF SearchFails, Due, EvidenceIInv, TypeOK
  <2>3. LogIsTrue'
    BY <2>1, <2>2, LogGrows DEF EvidenceIInv, EvidenceOnce
  <2> QED
    BY <1>1, <2>2, <2>3 DEF EvidenceIInv, EvidenceOnce, EveryPageKept, NoPageTwice
<1>4. CASE SearchSucceeds
  BY <1>1, <1>4, SearchSucceedsEvidence DEF EvidenceIInv
<1>5. CASE Start \/ PlanMade \/ ToolFails \/ SearchesEnd \/ Evaluate \/ ReportComposed
  BY <1>2, <1>5 DEF Start, PlanMade, ToolFails, SearchesEnd, Evaluate, ReportComposed, search
<1> QED
  BY <1>2, <1>3, <1>4, <1>5 DEF Next, vars

\* The evidence has every page that any search found exactly once, and the log
\* of the report every query that was tried, whichever searches fail and
\* however often the same page is found.
THEOREM EvidenceKept == Spec => []EvidenceOnce
<1>1. EvidenceIInv /\ [Next]_vars => EvidenceIInv'
  BY EvidenceStep
<1>2. EvidenceIInv => EvidenceOnce
  BY DEF EvidenceIInv
<1> QED
  BY <1>1, <1>2, EvidenceInit, PTL DEF Spec
-----------------------------------------------------------------------------
(* The report and the budgets *)

Budgets ==
  /\ IsFiniteSet(executed) /\ Cardinality(executed) <= MaxQueries
  /\ Len(history) <= MaxRounds
  /\ pc \in {"start", "plan"} => history = <<>>
  /\ pc \in {"search", "evaluate"} => Len(history) < MaxRounds

\* Every evaluation but the last was followed by a new search and said that
\* more is needed, so did the last one while the loop goes on; and the loop
\* does not come back to an evaluation before it has searched.
Progress ==
  /\ \A i \in 1 .. Len(history) - 1 :
       /\ ~history[i].sufficient
       /\ Cardinality(history[i].queries) < Cardinality(history[i + 1].queries)
  /\ history # <<>> =>
       /\ Last(history).queries \subseteq executed
       /\ pc \in {"search", "evaluate"} => ~Last(history).sufficient
       /\ pc = "search" => Last(history).queries # executed \/ Due # {}
       /\ pc = "evaluate" => Last(history).queries # executed
       /\ pc = "compose" => Last(history).results = collected
  /\ pc = "compose" => collected # <<>> /\ history # <<>>

ReportIInv == TypeOK /\ Budgets /\ Progress

LEMMA ReportInit == Init => ReportIInv
<1> SUFFICES ASSUME Init PROVE ReportIInv
  OBVIOUS
<1>1. Budgets
  BY FS_EmptySet, ResearchAssumption DEF Init, Budgets
<1>2. Progress
  BY DEF Init, Progress
<1> QED
  BY <1>1, <1>2, TypeInit DEF ReportIInv

\* A step that neither searches nor evaluates.
LEMMA OtherStepReport ==
  ASSUME ReportIInv, TypeOK', UNCHANGED <<executed, collected, history>>,
         \/ pc' = "done"
         \/ pc' \in {"plan", "search"} /\ history = <<>>
         \/ pc = "search" /\ pc' = "evaluate" /\ Due = {}
         \/ UNCHANGED <<pc, pending>>
  PROVE  ReportIInv'
<1>1. Budgets'
  BY ResearchAssumption DEF ReportIInv, Budgets, TypeOK
<1>2. Progress'
  <2>1. CASE pc' = "done"
    BY <2>1 DEF ReportIInv, Progress, Last
  <2>2. CASE pc' \in {"plan", "search"} /\ history = <<>>
    BY <2>2 DEF ReportIInv, Progress
  <2>3. CASE pc = "search" /\ pc' = "evaluate" /\ Due = {}
    BY <2>3 DEF ReportIInv, Progress, Last
  <2>4. CASE UNCHANGED <<pc, pending>>
    BY <2>4 DEF ReportIInv, Progress, Last, Due
  <2> QED
    BY <2>1, <2>2, <2>3, <2>4
<1> QED
  BY <1>1, <1>2 DEF ReportIInv

\* A search, whatever it finds, uses the budget and is new evidence.
LEMMA SearchStepReport ==
  ASSUME ReportIInv, TypeOK', pc = "search", UNCHANGED <<pc, history>>,
         NEW query \in Due, executed' = executed \cup {query}
  PROVE  ReportIInv'
<1>1. query \notin executed /\ Cardinality(executed) < MaxQueries
  BY DEF Due
<1>2. IsFiniteSet(executed') /\ Cardinality(executed') = Cardinality(executed) + 1
  BY <1>1, FS_AddElement DEF ReportIInv, Budgets
<1>3. Cardinality(executed) \in Nat
  BY FS_CardinalityType DEF ReportIInv, Budgets
<1>4. Budgets'
  BY <1>1, <1>2, <1>3, ResearchAssumption DEF ReportIInv, Budgets
<1>5. Progress'
  <2>1. history # <<>> => /\ Last(history).queries \subseteq executed'
                          /\ Last(history).queries # executed'
    BY <1>1 DEF ReportIInv, Progress
  <2> QED
    BY <2>1 DEF ReportIInv, Progress, Last
<1> QED
  BY <1>4, <1>5 DEF ReportIInv

LEMMA EvaluateReport ==
  ASSUME ReportIInv, TypeOK', Evaluate
  PROVE  ReportIInv'
<1> DEFINE n == Len(history)
<1>1. PICK verdict \in Verdicts :
        /\ history' = Append(history, [sufficient |-> verdict.sufficient,
                                       queries |-> executed, results |-> collected])
        /\ IF Enough(verdict) \/ Len(history') = MaxRounds
           THEN /\ IF collected = <<>> THEN End("failed")
                   ELSE pc' = "compose" /\ UNCHANGED status
                /\ UNCHANGED <<pending, ranQuery>>
           ELSE /\ pending' = Further(verdict.additional)
                /\ ranQuery' = FALSE
                /\ pc' = "search" /\ UNCHANGED status
  BY DEF Evaluate
<1> DEFINE new == [sufficient |-> verdict.sufficient, queries |-> executed,
                   results |-> collected]
<1>2. /\ n \in Nat /\ n < MaxRounds /\ Len(history') = n + 1 /\ history' # <<>>
      /\ \A i \in 1 .. n : history'[i] = history[i]
      /\ history'[n + 1] = new
  BY <1>1 DEF ReportIInv, Budgets, TypeOK, Evaluate
<1>3. UNCHANGED <<executed, collected>>
  BY DEF Evaluate
<1>4. Last(history') = new
  BY <1>2 DEF Last
<1>5. history # <<>> => /\ n \in 1 .. n /\ Last(history) = history[n]
                        /\ ~history[n].sufficient
                        /\ history[n].queries \subseteq executed
                        /\ history[n].queries # executed
  BY <1>2 DEF ReportIInv, Progress, Last, TypeOK, Evaluate
<1>6. history # <<>> => Cardinality(history[n].queries) < Cardinality(executed)
  <2>1. IsFiniteSet(executed)
    BY DEF ReportIInv, Budgets
  <2> SUFFICES ASSUME history # <<>>
               PROVE  Cardinality(history[n].queries) < Cardinality(executed)
    OBVIOUS
  <2> DEFINE q == history[n].queries
  <2>2. q \in SUBSET executed /\ q # executed
    BY <1>5
  <2> HIDE DEF q
  <2>3. /\ IsFiniteSet(q) /\ Cardinality(q) <= Cardinality(executed)
        /\ Cardinality(q) # Cardinality(executed)
    BY <2>1, <2>2, FS_Subset
  <2>4. Cardinality(q) \in Nat /\ Cardinality(executed) \in Nat
    BY <2>1, <2>3, FS_CardinalityType
  <2> QED
    BY <2>3, <2>4 DEF q
<1>7. \A i \in 1 .. n : /\ ~history'[i].sufficient
                        /\ Cardinality(history'[i].queries) < Cardinality(history'[i + 1].queries)
  <2>1. ASSUME NEW i \in 1 .. n
        PROVE  /\ ~history'[i].sufficient
               /\ Cardinality(history'[i].queries) < Cardinality(history'[i + 1].queries)
    <3>1. CASE i = n
      <4>1. history # <<>>
        BY <1>2, <2>1 DEF ReportIInv, TypeOK
      <4> QED
        BY <1>2, <1>5, <1>6, <3>1, <4>1
    <3>2. CASE i \in 1 .. n - 1
      <4>1. i + 1 \in 1 .. n
        BY <1>2, <3>2
      <4> QED
        BY <1>2, <3>2, <4>1 DEF ReportIInv, Progress
    <3> QED
      BY <1>2, <3>1, <3>2
  <2> QED
    BY <2>1
<1>8. CASE Enough(verdict) \/ n + 1 = MaxRounds
  <2>1. pc' = "done" \/ (pc' = "compose" /\ collected # <<>>)
    BY <1>1, <1>2, <1>8 DEF End
  <2>2. Budgets'
    BY <1>2, <1>3, <2>1, ResearchAssumption DEF ReportIInv, Budgets
  <2>3. Progress'
    BY <1>2, <1>3, <1>4, <1>7, <2>1 DEF Progress
  <2> QED
    BY <2>2, <2>3 DEF ReportIInv
<1>9. CASE ~(Enough(verdict) \/ n + 1 = MaxRounds)
  <2>1. /\ pc' = "search" /\ pending' = verdict.additional \ executed /\ pending' # {}
        /\ Cardinality(executed) < MaxQueries /\ ~verdict.sufficient
    <3>1. pc' = "search" /\ pending' = verdict.additional \ executed
      BY <1>1, <1>2, <1>9 DEF Further
    <3>2. pending' # {} /\ ~verdict.sufficient /\ ~(Cardinality(executed) >= MaxQueries)
      BY <1>9, <3>1 DEF Enough, Further
    <3>3. Cardinality(executed) \in Nat
      BY FS_CardinalityType DEF ReportIInv, Budgets
    <3> QED
      BY <3>1, <3>2, <3>3, ResearchAssumption
  <2>2. Due' # {}
    BY <1>3, <2>1 DEF Due
  <2>3. Budgets'
    BY <1>2, <1>3, <1>9, <2>1, ResearchAssumption DEF ReportIInv, Budgets
  <2>4. Progress'
    BY <1>2, <1>3, <1>4, <1>7, <2>1, <2>2 DEF Progress
  <2> QED
    BY <2>3, <2>4 DEF ReportIInv
<1> QED
  BY <1>8, <1>9

LEMMA ReportStep ==
  ASSUME ReportIInv, [Next]_vars
  PROVE  ReportIInv'
<1>1. TypeOK'
  BY TypeStep DEF ReportIInv
<1>2. CASE SearchFails \/ SearchSucceeds
  <2>1. PICK query \in Due : executed' = executed \cup {query}
    BY <1>2 DEF SearchFails, SearchSucceeds
  <2> QED
    BY <1>1, <1>2, <2>1, SearchStepReport DEF SearchFails, SearchSucceeds
<1>3. CASE Evaluate
  BY <1>1, <1>3, EvaluateReport
<1>4. CASE Start \/ PlanMade \/ ToolFails \/ SearchesEnd \/ ReportComposed
  <2>1. UNCHANGED <<executed, collected, history>>
    BY <1>4 DEF Start, PlanMade, ToolFails, SearchesEnd, ReportComposed, search
  <2>2. \/ pc' = "done"
        \/ pc' \in {"plan", "search"} /\ history = <<>>
        \/ pc = "search" /\ pc' = "evaluate" /\ Due = {}
    BY <1>4 DEF Start, PlanMade, ToolFails, SearchesEnd, ReportComposed, End,
                ReportIInv, Budgets
  <2> QED
    BY <1>1, <2>1, <2>2, OtherStepReport
<1>5. CASE UNCHANGED vars
  BY <1>1, <1>5, OtherStepReport DEF vars
<1> QED
  BY <1>2, <1>3, <1>4, <1>5 DEF Next

\* A report is written only on evidence that was evaluated as a whole, every
\* further evaluation follows a new search, and both budgets are kept.
THEOREM ReportCorrect == Spec => []ReportRestsOnEvidence
<1>1. ReportIInv /\ [Next]_vars => ReportIInv'
  BY ReportStep
<1>2. ReportIInv => ReportRestsOnEvidence
  BY DEF ReportIInv, Budgets, Progress, ReportRestsOnEvidence
<1> QED
  BY <1>1, <1>2, ReportInit, PTL DEF Spec
=============================================================================
