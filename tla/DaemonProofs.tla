---------------------------- MODULE DaemonProofs ----------------------------
(***************************************************************************)
(* What holds of the polling daemon for every number of agent profiles,    *)
(* every finite board of tickets, every limit and every number of failures.*)
(*                                                                         *)
(* A round visits the profiles in turn.  The invariant says what the part  *)
(* of the round that is over has achieved: nobody it passed by still has a *)
(* ticket that was waiting when the round began, and the counters add up   *)
(* to the chances given so far.                                            *)
(***************************************************************************)
EXTENDS Daemon, FiniteSetTheorems, WellFoundedInduction, TLAPS

Calling == {"search", "fetch", "work"}

\* A run is for one of the profiles.
ForAProfile == pc \in Calling => agent <= NAgents

\* What waited when the round began, and still does, waits for a profile
\* whose turn is yet to come, or the round has worked on something.
BacklogAhead ==
  /\ pc \in Calling \cup {"agent"} /\ ~worked =>
       \A t \in backlog : assignee[t] \in Agent /\ agent <= assignee[t]
  /\ pc = "fetch" /\ ticket = {} => \A t \in backlog : assignee[t] # agent
  /\ BacklogNeverSleeps

\* The search that a stop request overtook is the only late one.
OneLateSearch ==
  /\ StopIsPrompt
  /\ ~stop \/ pc = "search" => late = 0

\* The counters never exceed the chances given, and equal them until a stop
\* request cuts a round short.
ChancesCounted ==
  Limited =>
    /\ iterations <= limit
    /\ processed + no_issue <= Rounds
    /\ ~stop => processed + no_issue = Rounds

\* The inductive invariant.
IInv == TypeOK /\ ForAProfile /\ BacklogAhead /\ OneLateSearch /\ ChancesCounted
-----------------------------------------------------------------------------
(* The order of the tickets. *)

\* A well-founded relation on numbers has a minimal element in every set.
LEMMA MinimalBy ==
  ASSUME NEW R, IsWellFoundedOn(R, Nat), NEW S \in SUBSET Nat, S # {}
  PROVE  \E m \in S : \A n \in S : ~ (<<n, m>> \in R)
  BY WFMin, Zenon

\* A set of numbers that is not empty has a least one.
LEMMA LeastNumber ==
  ASSUME NEW S \in SUBSET Nat, S # {}
  PROVE  \E m \in S : \A n \in S : m <= n
  <1> DEFINE Less == OpToRel(<, Nat)
  <1>1. IsWellFoundedOn(Less, Nat)
    BY NatLessThanWellFounded
  <1>2. \A i, j \in Nat : <<i, j>> \in Less <=> i < j
    BY DEF OpToRel
  <1> HIDE DEF Less
  <1>3. PICK m \in S : \A n \in S : ~ (<<n, m>> \in Less)
    BY <1>1, MinimalBy, Zenon
  <1>4. \A n \in S : ~ (n < m)
    BY <1>2, <1>3, Zenon
  <1>5. QED
    BY <1>4

\* The number of tickets, of which there may be none.
LEMMA TicketCount == NTickets \in Nat /\ (Tickets # {} => NTickets >= 1)
  BY DaemonAssumption, FS_CardinalityType, FS_EmptySet DEF NTickets

\* The search finds one ticket, or none only where there is none.
LEMMA FirstIsOne ==
  ASSUME updated \in Orders, NEW S \in SUBSET Tickets
  PROVE  /\ First(S) \subseteq S
         /\ Cardinality(First(S)) <= 1
         /\ First(S) = {} => S = {}
  <1>1. /\ updated \in [Tickets -> Nat]
        /\ \A t, u \in Tickets : t # u => updated[t] # updated[u]
    BY TicketCount DEF Orders
  <1>2. First(S) \subseteq S
    BY DEF First
  <1>3. ASSUME S # {}
        PROVE  \E t \in S : t \in First(S)
    <2> DEFINE Ranks == {updated[t] : t \in S}
    <2>1. Ranks \in SUBSET Nat /\ Ranks # {}
      BY <1>1, <1>3
    <2>2. PICK m \in Ranks : \A n \in Ranks : m <= n
      BY <2>1, LeastNumber, Zenon
    <2>3. PICK t \in S : m = updated[t]
      BY <2>2
    <2>4. QED
      BY <2>2, <2>3 DEF First
  <1>4. \A t, u \in First(S) : t = u
    BY <1>1 DEF First
  <1>5. CASE First(S) = {}
    BY <1>2, <1>3, <1>5, FS_EmptySet
  <1>6. CASE First(S) # {}
    <2>1. PICK t \in First(S) : First(S) = {t}
      BY <1>4, <1>6
    <2>2. Cardinality({t}) = 1
      BY FS_Singleton
    <2>3. QED
      BY <1>2, <1>3, <2>1, <2>2
  <1>7. QED
    BY <1>5, <1>6

\* An updated ticket goes last, and the others keep their order.
LEMMA TouchedOrder ==
  ASSUME NEW rank \in Orders, NEW t \in Tickets
  PROVE  /\ Touched(rank, t) \in Orders
         /\ \A u, v \in Tickets \ {t} :
              rank[u] < rank[v] => Touched(rank, t)[u] < Touched(rank, t)[v]
         /\ \A u \in Tickets \ {t} : Touched(rank, t)[u] < Touched(rank, t)[t]
  <1>1. NTickets \in Nat
    BY TicketCount
  <1>2. /\ rank \in [Tickets -> 1 .. NTickets]
        /\ \A u, v \in Tickets : u # v => rank[u] # rank[v]
    BY DEF Orders
  <1> DEFINE new == Touched(rank, t)
  <1>3. /\ \A u \in Tickets :
             new[u] = IF u = t THEN NTickets
                      ELSE IF rank[u] > rank[t] THEN rank[u] - 1 ELSE rank[u]
        /\ new = [u \in Tickets |-> new[u]]
    BY DEF Touched
  <1> HIDE DEF new
  <1>4. \A u \in Tickets \ {t} : new[u] \in 1 .. (NTickets - 1)
    <2> SUFFICES ASSUME NEW u \in Tickets \ {t}
                 PROVE  new[u] \in 1 .. (NTickets - 1)
      OBVIOUS
    <2>1. rank[u] \in 1 .. NTickets /\ rank[t] \in 1 .. NTickets /\ rank[u] # rank[t]
      BY <1>2
    <2>2. QED
      BY <1>1, <1>3, <2>1
  <1>5. new[t] = NTickets /\ NTickets \in 1 .. NTickets
    BY <1>1, <1>3, TicketCount
  <1>6. \A u, v \in Tickets \ {t} : rank[u] < rank[v] => new[u] < new[v]
    <2> SUFFICES ASSUME NEW u \in Tickets \ {t}, NEW v \in Tickets \ {t},
                        rank[u] < rank[v]
                 PROVE  new[u] < new[v]
      OBVIOUS
    <2>1. /\ rank[u] \in 1 .. NTickets /\ rank[t] \in 1 .. NTickets
          /\ rank[v] \in 1 .. NTickets /\ rank[u] # rank[t] /\ rank[v] # rank[t]
      BY <1>2
    <2>2. QED
      BY <1>1, <1>3, <2>1
  <1>7. \A u, v \in Tickets : u # v => new[u] # new[v]
    <2> SUFFICES ASSUME NEW u \in Tickets, NEW v \in Tickets, u # v
                 PROVE  new[u] # new[v]
      OBVIOUS
    <2>1. CASE u = t \/ v = t
      BY <1>1, <1>4, <1>5, <2>1
    <2>2. CASE u # t /\ v # t
      <3>1. rank[u] \in Nat /\ rank[v] \in Nat /\ rank[u] # rank[v]
        BY <1>1, <1>2
      <3>2. rank[u] < rank[v] \/ rank[v] < rank[u]
        BY <3>1
      <3>3. new[u] \in Nat /\ new[v] \in Nat
        BY <1>1, <1>4, <2>2
      <3>4. QED
        BY <1>6, <2>2, <3>2, <3>3
    <2>3. QED
      BY <2>1, <2>2
  <1>8. new \in [Tickets -> 1 .. NTickets]
    <2>1. \A u \in Tickets : new[u] \in 1 .. NTickets
      BY <1>1, <1>4, <1>5
    <2>2. QED
      BY <1>3, <2>1
  <1>9. QED
    BY <1>1, <1>4, <1>5, <1>6, <1>7, <1>8 DEF Orders, new
-----------------------------------------------------------------------------
(* The invariant. *)

\* The cases of a step, each with the action it is.
LEMMA StepCases ==
  ASSUME [Next]_vars
  PROVE  \/ HumanAssigns \/ HumanComments \/ RequestStop
         \/ Exit \/ BeginIteration \/ NextAgent \/ EndRound \/ Wake
         \/ Search \/ NoIssue \/ Fetch \/ Work \/ Raise \/ Restart
         \/ UNCHANGED vars
  BY DEF Next, DaemonStep

\* A daemon that starts owes nobody anything.
LEMMA InitIInv == Init => IInv
  <1> SUFFICES ASSUME Init
               PROVE  IInv
    OBVIOUS
  <1>1. /\ pc = "loop" /\ agent = 1 /\ ticket = {}
        /\ iterations = 0 /\ processed = 0 /\ no_issue = 0
        /\ worked = FALSE /\ stop = FALSE /\ late = 0 /\ backlog = {}
        /\ comments = 0 /\ raises = 0
        /\ assignee \in [Tickets -> Agent \cup {Human}] /\ updated \in Orders
        /\ limit \in Limits /\ dry \in BOOLEAN
    BY DEF Init, Start
  <1>2. NAgents \in Nat \ {0} /\ MaxComments \in Nat /\ MaxRaises \in Nat
        /\ Limits \subseteq Nat
    BY DaemonAssumption
  <1>3. Cardinality({}) = 0
    BY FS_EmptySet
  <1>4. TypeOK
    <2>1. ticket \subseteq Tickets /\ Cardinality(ticket) <= 1
      BY <1>1, <1>3
    <2>2. /\ {iterations, processed, no_issue, late} \subseteq Nat
          /\ agent \in 1 .. NAgents + 1 /\ backlog \subseteq Tickets
          /\ comments \in 0 .. MaxComments /\ raises \in 0 .. MaxRaises
      BY <1>1, <1>2
    <2>3. QED
      BY <1>1, <2>1, <2>2 DEF TypeOK
  <1>5. ForAProfile /\ BacklogAhead /\ OneLateSearch
    BY <1>1 DEF ForAProfile, BacklogAhead, OneLateSearch, BacklogNeverSleeps,
                StopIsPrompt, Calling
  <1>6. ChancesCounted
    BY <1>1, <1>2 DEF ChancesCounted, Rounds, Limited, NoLimit
  <1>7. QED
    BY <1>4, <1>5, <1>6 DEF IInv

\* Types, and the profile a run is for.
LEMMA TypeStep ==
  ASSUME IInv, [Next]_vars
  PROVE  TypeOK' /\ ForAProfile'
  <1>1. /\ NAgents \in Nat \ {0} /\ MaxComments \in Nat /\ MaxRaises \in Nat
        /\ Human = 0 /\ Cardinality({}) = 0
    BY DaemonAssumption, FS_EmptySet DEF Human
  <1>2. TypeOK /\ ForAProfile
    BY DEF IInv
  <1>3. CASE HumanAssigns
    <2>1. PICK t \in Tickets :
            \E a \in (Agent \cup {Human}) \ {assignee[t]} :
              /\ assignee' = [assignee EXCEPT ![t] = a]
              /\ updated' = Touched(updated, t)
              /\ backlog' = backlog \ {t}
      BY <1>3 DEF HumanAssigns
    <2>2. updated' \in Orders
      BY <1>2, <2>1, TouchedOrder DEF TypeOK
    <2>3. assignee' \in [Tickets -> Agent \cup {Human}]
      BY <1>2, <2>1 DEF TypeOK
    <2>4. QED
      BY <1>2, <1>3, <2>1, <2>2, <2>3
      DEF HumanAssigns, TypeOK, ForAProfile, counters, options, bounds
  <1>4. CASE HumanComments
    <2>1. updated' \in Orders
      BY <1>2, <1>4, TouchedOrder DEF HumanComments, TypeOK
    <2>2. QED
      BY <1>1, <1>2, <1>4, <2>1
      DEF HumanComments, TypeOK, ForAProfile, counters, options
  <1>5. CASE RequestStop
    BY <1>2, <1>5
    DEF RequestStop, TypeOK, ForAProfile, redmine, counters, options, bounds
  <1>6. CASE Exit \/ NextAgent \/ EndRound \/ Wake
    <2>1. /\ pc' \in {"loop", "agent", "search", "fetch", "work", "sleep", "exited", "died"}
          /\ pc' \in Calling => agent <= NAgents
          /\ UNCHANGED <<redmine, agent, ticket, counters, options, worked, stop,
                         late, backlog, bounds>>
      BY <1>6 DEF Exit, NextAgent, EndRound, Wake, Calling
    <2>2. QED
      BY <1>2, <2>1 DEF TypeOK, ForAProfile, redmine, counters, options, bounds
  <1>7. CASE BeginIteration
    <2>1. iterations' \in Nat /\ agent' \in 1 .. NAgents + 1
      BY <1>1, <1>2, <1>7 DEF BeginIteration, Count, TypeOK
    <2>2. QED
      BY <1>2, <1>7, <2>1
      DEF BeginIteration, TypeOK, ForAProfile, Calling, redmine, options, bounds
  <1>8. CASE Search
    <2>1. WaitingFor(agent) \in SUBSET Tickets
      BY DEF WaitingFor
    <2>2. ticket' \subseteq Tickets /\ Cardinality(ticket') <= 1
      BY <1>2, <1>8, <2>1, FirstIsOne DEF Search, TypeOK
    <2>3. late' \in Nat
      BY <1>2, <1>8 DEF Search, TypeOK
    <2>4. QED
      BY <1>2, <1>8, <2>2, <2>3
      DEF Search, TypeOK, ForAProfile, Calling, redmine, counters, options, bounds
  <1>9. CASE NoIssue
    <2>1. no_issue' \in Nat /\ agent' \in 1 .. NAgents + 1
      BY <1>1, <1>2, <1>9 DEF NoIssue, Count, TypeOK, ForAProfile, Calling
    <2>2. QED
      BY <1>2, <1>9, <2>1
      DEF NoIssue, NothingFound, TypeOK, ForAProfile, Calling, redmine, options, bounds
  <1>10. CASE Fetch
    BY <1>2, <1>10
    DEF Fetch, TypeOK, ForAProfile, Calling, redmine, counters, options, bounds
  <1>11. CASE Work
    <2>1. processed' \in Nat /\ agent' \in 1 .. NAgents + 1
      BY <1>1, <1>2, <1>11 DEF Work, Count, TypeOK, ForAProfile, Calling
    <2>2. PICK t \in ticket :
            /\ IF dry THEN UNCHANGED redmine
               ELSE /\ assignee' = [assignee EXCEPT ![t] = Human]
                    /\ updated' = Touched(updated, t)
            /\ backlog' = backlog \ {t}
      BY <1>11 DEF Work
    <2>3. updated' \in Orders
      BY <1>2, <2>2, TouchedOrder DEF TypeOK, redmine
    <2>4. assignee' \in [Tickets -> Agent \cup {Human}]
      BY <1>2, <2>2 DEF TypeOK, redmine
    <2>5. ticket' \subseteq Tickets /\ Cardinality(ticket') <= 1
      BY <1>1, <1>11 DEF Work
    <2>6. QED
      BY <1>2, <1>11, <2>1, <2>2, <2>3, <2>4, <2>5
      DEF Work, TypeOK, ForAProfile, Calling, options, bounds
  <1>12. CASE Raise
    <2>1. raises' \in 0 .. MaxRaises
      BY <1>1, <1>2, <1>12 DEF Raise, TypeOK
    <2>2. QED
      BY <1>2, <1>12, <2>1
      DEF Raise, TypeOK, ForAProfile, Calling, redmine, counters, options
  <1>13. CASE Restart
    <2>1. /\ pc' = "loop" /\ agent' = 1 /\ ticket' = {} /\ iterations' = 0
          /\ processed' = 0 /\ no_issue' = 0 /\ worked' = FALSE
          /\ stop' = FALSE /\ late' = 0 /\ backlog' = {}
          /\ UNCHANGED <<redmine, options, bounds>>
      BY <1>13 DEF Restart
    <2>2. ticket' \subseteq Tickets /\ Cardinality(ticket') <= 1
      BY <1>1, <2>1
    <2>3. /\ {iterations', processed', no_issue', late'} \subseteq Nat
          /\ agent' \in 1 .. NAgents + 1 /\ backlog' \subseteq Tickets
      BY <1>1, <2>1
    <2>4. QED
      BY <1>2, <2>1, <2>2, <2>3
      DEF TypeOK, ForAProfile, Calling, redmine, options, bounds
  <1>14. CASE UNCHANGED vars
    BY <1>2, <1>14
    DEF vars, TypeOK, ForAProfile, redmine, counters, options, bounds
  <1>15. QED
    BY <1>3, <1>4, <1>5, <1>6, <1>7, <1>8, <1>9, <1>10, <1>11, <1>12, <1>13,
       <1>14, StepCases

\* A profile is passed by only when nothing that waited for it is left, so at
\* the end of a round without work nothing that waited for anyone is.
LEMMA BacklogStep ==
  ASSUME IInv, [Next]_vars
  PROVE  BacklogAhead'
  <1>1. /\ NAgents \in Nat \ {0} /\ agent \in 1 .. NAgents + 1
        /\ assignee \in [Tickets -> Agent \cup {Human}]
        /\ backlog \subseteq Tickets /\ worked \in BOOLEAN
        /\ BacklogAhead /\ ForAProfile
    BY DaemonAssumption DEF IInv, TypeOK
  <1>2. CASE HumanAssigns
    <2>1. PICK t \in Tickets :
            \E a \in (Agent \cup {Human}) \ {assignee[t]} :
              /\ assignee' = [assignee EXCEPT ![t] = a]
              /\ updated' = Touched(updated, t)
              /\ backlog' = backlog \ {t}
      BY <1>2 DEF HumanAssigns
    <2>2. backlog' \subseteq backlog /\ \A u \in backlog' : assignee'[u] = assignee[u]
      BY <1>1, <2>1
    <2>3. UNCHANGED <<pc, agent, ticket, worked>>
      BY <1>2 DEF HumanAssigns
    <2>4. QED
      BY <1>1, <2>2, <2>3 DEF BacklogAhead, BacklogNeverSleeps
  <1>3. CASE HumanComments \/ RequestStop \/ UNCHANGED vars
    <2>1. UNCHANGED <<pc, agent, ticket, worked, backlog, assignee>>
      BY <1>3 DEF HumanComments, RequestStop, vars, redmine
    <2>2. QED
      BY <1>1, <2>1 DEF BacklogAhead, BacklogNeverSleeps
  <1>4. CASE Exit \/ Wake \/ Raise \/ Restart
    <2>1. pc' \in {"exited", "loop", "died"}
      BY <1>4 DEF Exit, Wake, Raise, Restart
    <2>2. QED
      BY <2>1 DEF BacklogAhead, BacklogNeverSleeps, Calling
  <1>5. CASE BeginIteration
    <2>1. /\ pc' = "agent" /\ agent' = 1 /\ assignee' = assignee
          /\ backlog' = {t \in Tickets : assignee[t] \in Agent}
      BY <1>5 DEF BeginIteration, redmine
    <2>2. QED
      BY <1>1, <2>1 DEF BacklogAhead, BacklogNeverSleeps, Agent
  <1>6. CASE NextAgent
    <2>1. /\ pc = "agent" /\ pc' = "search"
          /\ UNCHANGED <<agent, ticket, worked, backlog, assignee>>
      BY <1>6 DEF NextAgent, redmine
    <2>2. QED
      BY <1>1, <2>1 DEF BacklogAhead, BacklogNeverSleeps, Calling
  <1>7. CASE EndRound
    <2>1. /\ pc = "agent" /\ (agent > NAgents \/ stop)
          /\ pc' \in {"loop", "exited", "sleep"}
          /\ pc' = "sleep" => ~worked /\ ~stop
          /\ UNCHANGED <<agent, worked, backlog, assignee>>
      BY <1>7 DEF EndRound, MayCall, redmine
    <2>2. ASSUME pc' = "sleep"
          PROVE  backlog = {}
      <3>1. \A t \in backlog : assignee[t] \in Agent /\ agent <= assignee[t]
        BY <1>1, <2>1, <2>2 DEF BacklogAhead
      <3>2. QED
        BY <1>1, <2>1, <2>2, <3>1 DEF Agent
    <2>3. QED
      BY <2>1, <2>2 DEF BacklogAhead, BacklogNeverSleeps, Calling
  <1>8. CASE Search
    <2>1. /\ pc = "search" /\ pc' = "fetch" /\ ticket' = First(WaitingFor(agent))
          /\ UNCHANGED <<agent, worked, backlog, assignee>>
      BY <1>8 DEF Search, redmine
    <2>2. ticket' = {} => WaitingFor(agent) = {}
      <3>1. WaitingFor(agent) \in SUBSET Tickets /\ updated \in Orders
        BY DEF WaitingFor, IInv, TypeOK
      <3>2. QED
        BY <2>1, <3>1, FirstIsOne
    <2>3. ticket' = {} => \A t \in backlog : assignee[t] # agent
      BY <1>1, <2>2 DEF WaitingFor
    <2>4. QED
      BY <1>1, <2>1, <2>3 DEF BacklogAhead, BacklogNeverSleeps, Calling
  <1>9. CASE NoIssue
    <2>1. /\ pc = "fetch" /\ ticket = {} /\ pc' = "agent" /\ agent' = agent + 1
          /\ worked' = worked /\ UNCHANGED <<backlog, assignee>>
      BY <1>9 DEF NoIssue, NothingFound, redmine
    <2>2. ASSUME ~worked, NEW t \in backlog
          PROVE  assignee[t] \in Agent /\ agent + 1 <= assignee[t]
      <3>1. assignee[t] \in Agent /\ agent <= assignee[t] /\ assignee[t] # agent
        BY <1>1, <2>1, <2>2 DEF BacklogAhead, Calling
      <3>2. QED
        BY <1>1, <3>1 DEF Agent
    <2>3. QED
      BY <2>1, <2>2 DEF BacklogAhead, BacklogNeverSleeps
  <1>10. CASE Fetch
    <2>1. /\ pc = "fetch" /\ pc' = "work"
          /\ UNCHANGED <<agent, worked, backlog, assignee>>
      BY <1>10 DEF Fetch, redmine
    <2>2. QED
      BY <1>1, <2>1 DEF BacklogAhead, BacklogNeverSleeps, Calling
  <1>11. CASE Work
    <2>1. pc' = "agent" /\ worked' = TRUE
      BY <1>11 DEF Work
    <2>2. QED
      BY <2>1 DEF BacklogAhead, BacklogNeverSleeps
  <1>12. QED
    BY <1>2, <1>3, <1>4, <1>5, <1>6, <1>7, <1>8, <1>9, <1>10, <1>11, StepCases

\* A search begins only while no stop was requested, and after the one that
\* may be overtaken the round ends.
LEMMA StopStep ==
  ASSUME IInv, [Next]_vars
  PROVE  OneLateSearch'
  <1>1. OneLateSearch /\ stop \in BOOLEAN /\ late \in Nat
    BY DEF IInv, TypeOK
  <1>2. CASE Search
    BY <1>1, <1>2 DEF Search, OneLateSearch, StopIsPrompt
  <1>3. CASE Restart
    BY <1>3 DEF Restart, OneLateSearch, StopIsPrompt
  <1>4. CASE NextAgent
    BY <1>1, <1>4 DEF NextAgent, MayCall, OneLateSearch, StopIsPrompt
  <1>5. CASE RequestStop
    BY <1>1, <1>5 DEF RequestStop, OneLateSearch, StopIsPrompt
  <1>6. CASE HumanAssigns \/ HumanComments \/ UNCHANGED vars
    <2>1. UNCHANGED <<pc, stop, late>>
      BY <1>6 DEF HumanAssigns, HumanComments, vars
    <2>2. QED
      BY <1>1, <2>1 DEF OneLateSearch, StopIsPrompt
  <1>7. CASE Exit \/ BeginIteration \/ EndRound \/ Wake \/ NoIssue \/ Fetch
             \/ Work \/ Raise
    <2>1. pc' # "search" /\ UNCHANGED <<stop, late>>
      BY <1>7 DEF Exit, BeginIteration, EndRound, Wake, NoIssue, Fetch, Work, Raise
    <2>2. QED
      BY <1>1, <2>1 DEF OneLateSearch, StopIsPrompt
  <1>8. QED
    BY <1>2, <1>3, <1>4, <1>5, <1>6, <1>7, StepCases

\* Chances: a new iteration starts where the last one ended.
LEMMA RoundArithmetic ==
  ASSUME NEW n \in Nat, NEW i \in Nat
  PROVE  /\ i * n \in Nat
         /\ ((i + 1) - 1) * n + 1 - 1 = i * n
         /\ (i - 1) * n + (n + 1) - 1 = i * n
         /\ \A k \in Nat : i <= k => i * n <= k * n
  <1>1. ((i + 1) - 1) * n + 1 - 1 = i * n
    BY SMT
  <1>2. (i - 1) * n + (n + 1) - 1 = i * n
    BY SMT
  <1>3. i * n \in Nat
    BY SMT
  <1>4. ASSUME NEW k \in Nat, i <= k
        PROVE  i * n <= k * n
    BY <1>4, SMT
  <1>5. QED
    BY <1>1, <1>2, <1>3, <1>4

\* The counters and the chances grow together; a round that is not cut short
\* ends at a whole number of rounds.
LEMMA CountStep ==
  ASSUME IInv, [Next]_vars
  PROVE  ChancesCounted'
  <1>1. /\ NAgents \in Nat /\ limit \in Nat /\ agent \in 1 .. NAgents + 1
        /\ iterations \in Nat /\ processed \in Nat /\ no_issue \in Nat
        /\ stop \in BOOLEAN /\ ForAProfile /\ ChancesCounted
    BY DaemonAssumption DEF IInv, TypeOK
  <1>2. limit' = limit
    BY StepCases DEF HumanAssigns, HumanComments, RequestStop, Exit,
      BeginIteration, NextAgent, EndRound, Wake, Search, NoIssue, Fetch, Work,
      Raise, Restart, vars, options
  <1> SUFFICES ASSUME Limited
               PROVE  /\ iterations' <= limit
                      /\ processed' + no_issue' <= Rounds'
                      /\ ~stop' => processed' + no_issue' = Rounds'
    BY <1>2 DEF ChancesCounted, Limited
  <1>3. /\ iterations <= limit
        /\ processed + no_issue <= Rounds
        /\ ~stop => processed + no_issue = Rounds
    BY <1>1 DEF ChancesCounted
  <1>4. /\ iterations * NAgents \in Nat
        /\ ((iterations + 1) - 1) * NAgents + 1 - 1 = iterations * NAgents
        /\ (iterations - 1) * NAgents + (NAgents + 1) - 1 = iterations * NAgents
    BY <1>1, RoundArithmetic
  <1>5. CASE HumanAssigns \/ HumanComments \/ RequestStop \/ UNCHANGED vars
    <2>1. /\ UNCHANGED <<pc, agent, iterations, processed, no_issue>>
          /\ ~stop' => ~stop
      BY <1>5 DEF HumanAssigns, HumanComments, RequestStop, vars, counters
    <2>2. Rounds' = Rounds
      BY <2>1 DEF Rounds
    <2>3. QED
      BY <1>3, <2>1, <2>2
  <1>6. CASE Exit \/ Wake
    <2>1. /\ UNCHANGED <<agent, iterations, processed, no_issue, stop>>
          /\ pc \in {"loop", "sleep"} /\ pc' \in {"loop", "exited"}
      BY <1>6 DEF Exit, Wake, counters
    <2>2. Rounds' = Rounds
      BY <2>1 DEF Rounds
    <2>3. QED
      BY <1>3, <2>1, <2>2
  <1>7. CASE NextAgent \/ Search \/ Fetch \/ Raise
    <2>1. /\ UNCHANGED <<agent, iterations, processed, no_issue, stop>>
          /\ pc \in {"agent", "search", "fetch", "work"}
          /\ pc' \in {"search", "fetch", "work", "died"}
      BY <1>7 DEF NextAgent, Search, Fetch, Raise, counters
    <2>2. Rounds' = Rounds
      BY <2>1 DEF Rounds
    <2>3. QED
      BY <1>3, <2>1, <2>2
  <1>8. CASE BeginIteration
    <2>1. /\ pc = "loop" /\ pc' = "agent" /\ agent' = 1 /\ ~LimitReached
          /\ iterations' = iterations + 1
          /\ UNCHANGED <<processed, no_issue, stop>>
      BY <1>8 DEF BeginIteration, LoopGoesOn, Count
    <2>2. iterations' <= limit
      BY <1>1, <2>1 DEF LimitReached
    <2>3. Rounds' = Rounds
      BY <1>1, <1>4, <2>1 DEF Rounds
    <2>4. QED
      BY <1>3, <2>1, <2>2, <2>3
  <1>9. CASE EndRound
    <2>1. /\ pc = "agent" /\ pc' \in {"loop", "exited", "sleep"}
          /\ agent > NAgents \/ stop
          /\ UNCHANGED <<agent, iterations, processed, no_issue, stop>>
      BY <1>9 DEF EndRound, MayCall, counters
    <2>2. Rounds = (iterations - 1) * NAgents + agent - 1 /\ Rounds' = iterations * NAgents
      BY <2>1 DEF Rounds
    <2>3. Rounds <= Rounds' /\ (agent > NAgents => Rounds = Rounds')
      <3>1. (iterations - 1) * NAgents \in Int
        BY <1>1
      <3>2. QED
        BY <1>1, <1>4, <2>2, <3>1
    <2>4. Rounds \in Int /\ Rounds' \in Int
      BY <1>1, <1>4, <2>2
    <2>5. QED
      BY <1>1, <1>3, <2>1, <2>3, <2>4
  <1>10. CASE NoIssue \/ Work
    <2>1. /\ pc \in {"fetch", "work"} /\ pc' = "agent" /\ agent' = agent + 1
          /\ processed' + no_issue' = processed + no_issue + 1
          /\ UNCHANGED <<iterations, stop>>
      BY <1>1, <1>10 DEF NoIssue, Work, Count
    <2>2. (iterations - 1) * NAgents \in Int
      BY <1>1
    <2>3. Rounds' = Rounds + 1 /\ Rounds \in Int
      BY <1>1, <2>1, <2>2 DEF Rounds
    <2>4. QED
      BY <1>1, <1>3, <2>1, <2>3
  <1>11. CASE Restart
    <2>1. pc' = "loop" /\ iterations' = 0 /\ processed' = 0 /\ no_issue' = 0
      BY <1>11 DEF Restart
    <2>2. QED
      BY <1>1, <2>1 DEF Rounds
  <1>12. QED
    BY <1>5, <1>6, <1>7, <1>8, <1>9, <1>10, <1>11, StepCases

\* Every step.
LEMMA NextIInv == IInv /\ [Next]_vars => IInv'
  BY TypeStep, BacklogStep, StopStep, CountStep DEF IInv
-----------------------------------------------------------------------------
(* Theorems. *)

\* The invariant, from which the rest follows.
THEOREM Invariance == Spec => []IInv
  BY InitIInv, NextIInv, PTL DEF Spec

\* Every variable keeps its type; in particular the tickets stay ranked
\* without ties and a search returns one ticket at most.
THEOREM TypeCorrect == Spec => []TypeOK
  <1>1. IInv => TypeOK
    BY DEF IInv
  <1>2. QED
    BY <1>1, Invariance, PTL

\* run_daemon never waits for the poll interval while a ticket that an
\* iteration could have taken is still waiting for one of the profiles.
THEOREM NeverSleepsOnWork == Spec => []BacklogNeverSleeps
  <1>1. IInv => BacklogNeverSleeps
    BY DEF IInv, BacklogAhead
  <1>2. QED
    BY <1>1, Invariance, PTL

\* Between the signal and the end of the loop one run at most begins: the one
\* whose check of stop_requested came just before the signal.
THEOREM StopsPromptly == Spec => []StopIsPrompt
  <1>1. IInv => StopIsPrompt
    BY DEF IInv, OneLateSearch
  <1>2. QED
    BY <1>1, Invariance, PTL

\* processed_count and no_issue_count add up to one per profile and iteration,
\* and --max-iterations bounds the iterations, so the runs of a dry run too.
THEOREM EveryChanceCounted == Spec => []ChancesAccounted
  <1>1. ASSUME IInv, Limited
        PROVE  /\ iterations <= limit
               /\ pc # "died" /\ ~stop => processed + no_issue = Rounds
               /\ dry => processed <= limit * NAgents
    <2>1. /\ NAgents \in Nat /\ limit \in Nat /\ agent \in 1 .. NAgents + 1
          /\ iterations \in Nat /\ processed \in Nat /\ no_issue \in Nat
          /\ iterations <= limit
          /\ processed + no_issue <= Rounds
          /\ ~stop => processed + no_issue = Rounds
      BY <1>1, DaemonAssumption DEF IInv, TypeOK, ChancesCounted
    <2>2. /\ iterations * NAgents \in Nat /\ limit * NAgents \in Nat
          /\ (iterations - 1) * NAgents + (NAgents + 1) - 1 = iterations * NAgents
          /\ iterations * NAgents <= limit * NAgents
          /\ (iterations - 1) * NAgents \in Int
      BY <2>1, RoundArithmetic
    <2>3. Rounds <= iterations * NAgents /\ Rounds \in Int
      BY <2>1, <2>2 DEF Rounds
    <2>4. QED
      BY <2>1, <2>2, <2>3
  <1>2. IInv => ChancesAccounted
    BY <1>1 DEF ChancesAccounted
  <1>3. QED
    BY <1>2, Invariance, PTL
=============================================================================
