------------------------- MODULE TicketGraphProofs -------------------------
(***************************************************************************)
(* What holds of TicketGraph for every set of plans, every number of       *)
(* comments and every number of failures.                                  *)
(*                                                                         *)
(* What a checkpoint holds rests on IInv.  Good(th, n) says that th is a   *)
(* checkpoint the graph can have committed when the ticket had n comments. *)
(* It speaks of a single checkpoint, not of the state, because a restart   *)
(* may fall back to any checkpoint that was once committed: the three      *)
(* checkpoints of a state, saved, thread and staged, are all good, every   *)
(* node turns a good checkpoint into a good one, and every other step only *)
(* copies one of the three over another.                                   *)
(*                                                                         *)
(* What a run does to the ticket, and how often it executes a step, rests  *)
(* on HInv, which relates the three checkpoints to each other, to the      *)
(* events still to be emitted and to the aborts so far.  From it follow    *)
(* the hand-back, the announcement, the bound on repetitions and the step  *)
(* simulation of TicketProtocol.                                           *)
(***************************************************************************)
EXTENDS TicketGraph, TLAPS

Good(th, n) ==
  /\ th \in Checkpoint
  /\ IngestedOnce(th, n)
  /\ SettledPrefix(th)
  /\ DependenciesDone(th)
  /\ LoopShape(th)

Scalars ==
  /\ assignee \in {"agent", "author"}
  /\ status \in {"new", "in_progress", "review"}
  /\ comments \in 0 .. MaxComments
  /\ outbox \in Seq(EventKind)
  /\ pc \in {"idle", "run", "emit", "failing"}
  /\ fetched \in 0 .. comments
  /\ resuming \in BOOLEAN
  /\ handed \in BOOLEAN
  /\ runs \in [StepNumber -> Nat]
  /\ aborts \in 0 .. MaxAborts

IInv ==
  /\ Scalars
  /\ Good(saved, comments)
  /\ Good(thread, comments)
  /\ Good(staged, comments)
-----------------------------------------------------------------------------
(* Operators. *)

\* The steps of a plan are numbered within StepNumber and depend on earlier ones.
LEMMA PlanShape ==
  ASSUME NEW p \in Plans
  PROVE  /\ DOMAIN p \subseteq StepNumber
         /\ DOMAIN p \subseteq Nat
         /\ \A i \in DOMAIN p : \A d \in p[i].depends_on : d \in DOMAIN p /\ d < i
         /\ p # <<>> => 1 \in DOMAIN p
  <1>1. /\ p \in Seq([unavailable : BOOLEAN, depends_on : SUBSET Nat])
        /\ Len(p) <= MaxSteps
        /\ \A i \in DOMAIN p : p[i].depends_on \subseteq 1 .. (i - 1)
    BY PlanAssumption
  <1>2. DOMAIN p = 1 .. Len(p) /\ Len(p) \in Nat /\ MaxSteps \in Nat
    BY <1>1, PlanAssumption
  <1>3. p # <<>> => 1 \in DOMAIN p
    BY <1>1, <1>2
  <1>4. QED
    BY <1>1, <1>2, <1>3 DEF StepNumber

\* A new plan is good wherever planning puts it.
LEMMA PlannedGood ==
  ASSUME NEW th, NEW n \in Nat, Good(th, n), NEW p \in Plans,
         NEW r, r.plan = p, r \in Checkpoint,
         r.steps = [i \in StepNumber |-> "pending"],
         r.cursor = th.cursor, r.seen = th.seen,
         r.next \in {"publish_initial_plan", "publish_revision_plan"}
  PROVE  Good(r, n)
  <1>1. \A i \in DOMAIN p : i \in StepNumber /\ r.steps[i] = "pending"
    BY PlanShape
  <1>2. IngestedOnce(r, n)
    BY DEF Good, IngestedOnce
  <1>3. SettledPrefix(r) /\ DependenciesDone(r) /\ LoopShape(r)
    BY <1>1 DEF SettledPrefix, DependenciesDone, LoopShape
  <1>4. QED
    BY <1>2, <1>3 DEF Good

\* More comments leave a good checkpoint good.
LEMMA GoodLater ==
  ASSUME NEW th, NEW n \in Nat, NEW m \in Nat, n <= m, Good(th, n)
  PROVE  Good(th, m)
  BY DEF Good, IngestedOnce, Checkpoint

\* Reading the comments above the cursor leaves each read exactly once.
LEMMA IngestedFields ==
  ASSUME NEW th, NEW n \in 0 .. MaxComments, Good(th, n), NEW m \in 0 .. n
  PROVE  /\ Ingested(th, m) \in Checkpoint
         /\ Ingested(th, m).plan = th.plan
         /\ Ingested(th, m).steps = th.steps
         /\ Ingested(th, m).interrupted = th.interrupted
         /\ th.cursor <= Ingested(th, m).cursor
         /\ IngestedOnce(Ingested(th, m), n)
  <1> DEFINE c == IF m > th.cursor THEN m ELSE th.cursor
             seen == [k \in Comment |-> IF th.cursor < k /\ k <= m
                                        THEN th.seen[k] + 1 ELSE th.seen[k]]
  <1>1. /\ th \in Checkpoint
        /\ th.cursor \in 0 .. MaxComments /\ th.cursor <= n
        /\ th.seen \in [Comment -> Nat]
        /\ \A k \in Comment : th.seen[k] = IF k <= th.cursor THEN 1 ELSE 0
    BY DEF Good, IngestedOnce, Checkpoint
  <1>2. MaxComments \in Nat /\ Comment \subseteq Nat
    BY BoundAssumption DEF Comment
  <1>3. c \in 0 .. MaxComments /\ c <= n /\ th.cursor <= c
    BY <1>1, <1>2
  <1>4. seen \in [Comment -> Nat]
    BY <1>1
  <1>5. \A k \in Comment : seen[k] = IF k <= c THEN 1 ELSE 0
    BY <1>1, <1>2
  <1>6. Ingested(th, m) = [th EXCEPT !.seen = seen, !.cursor = c]
    BY DEF Ingested
  <1> HIDE DEF c, seen
  <1>7. /\ Ingested(th, m) \in Checkpoint
        /\ Ingested(th, m).plan = th.plan
        /\ Ingested(th, m).steps = th.steps
        /\ Ingested(th, m).interrupted = th.interrupted
        /\ Ingested(th, m).cursor = c
        /\ Ingested(th, m).seen = seen
    BY <1>1, <1>3, <1>4, <1>6 DEF Checkpoint
  <1>8. QED
    BY <1>3, <1>5, <1>7 DEF IngestedOnce

\* A node that leaves plan, steps and comments alone only answers for LoopShape.
LEMMA SameStepsGood ==
  ASSUME NEW th, NEW n, Good(th, n), NEW r \in Checkpoint,
         r.plan = th.plan, r.steps = th.steps,
         r.cursor = th.cursor, r.seen = th.seen, LoopShape(r)
  PROVE  Good(r, n)
  BY DEF Good, IngestedOnce, SettledPrefix, Settled, DependenciesDone

\* initialize and wait_for_human: the new comments are read, the step loop is
\* not entered.
LEMMA IngestedGood ==
  ASSUME NEW th, NEW n \in 0 .. MaxComments, Good(th, n), NEW m \in 0 .. n,
         NEW r \in Checkpoint,
         r.plan = th.plan, r.steps = th.steps,
         r.cursor = Ingested(th, m).cursor, r.seen = Ingested(th, m).seen,
         r.next \in {"initial_plan", "analyze_feedback", "request_feedback"}
  PROVE  Good(r, n)
  <1>1. IngestedOnce(r, n)
    BY IngestedFields DEF IngestedOnce
  <1>2. LoopShape(r)
    BY DEF LoopShape
  <1>3. SettledPrefix(r) /\ DependenciesDone(r)
    BY DEF Good, SettledPrefix, Settled, DependenciesDone
  <1>4. QED
    BY <1>1, <1>2, <1>3 DEF Good

\* select_next_step picks the first open step: everything before it is
\* settled, because nothing has stopped, and everything after it is pending.
LEMMA SelectedGood ==
  ASSUME NEW th, NEW n, Good(th, n), th.next = "select_next_step",
         NEW i \in DOMAIN th.plan, IsFirst(i, Selectable(th)),
         NEW r, r = [th EXCEPT !.steps = [th.steps EXCEPT ![i] = "running"],
                               !.idx = i, !.next = "execute_step"]
  PROVE  Good(r, n)
  <1>1. /\ th \in Checkpoint /\ th.plan \in Plans
        /\ th.steps \in [StepNumber -> StepStatus]
        /\ DOMAIN th.plan \subseteq StepNumber /\ DOMAIN th.plan \subseteq Nat
    BY PlanShape DEF Good, Checkpoint
  <1>2. /\ r \in Checkpoint
        /\ r.plan = th.plan /\ r.idx = i /\ r.next = "execute_step"
        /\ r.cursor = th.cursor /\ r.seen = th.seen
        /\ r.steps = [th.steps EXCEPT ![i] = "running"]
    BY <1>1 DEF Checkpoint, StepStatus, Node
  <1>3. \A j \in DOMAIN th.plan :
          r.steps[j] = IF j = i THEN "running" ELSE th.steps[j]
    BY <1>1, <1>2
  <1>4. Stopped(th) = {}
    BY DEF Good, LoopShape
  <1>5. \A j \in DOMAIN th.plan : j < i => Settled(th, j)
    <2> SUFFICES ASSUME NEW j \in DOMAIN th.plan, j < i
                 PROVE  Settled(th, j)
      OBVIOUS
    <2>1. j \notin Selectable(th) /\ j \notin Stopped(th)
      BY <1>1, <1>4 DEF IsFirst
    <2>2. th.steps[j] \in StepStatus
      BY <1>1
    <2>3. QED
      BY <2>1, <2>2 DEF Selectable, Stopped, Settled, StepStatus
  <1>6. th.steps[i] \in {"pending", "running"}
    BY DEF IsFirst, Selectable
  <1>7. \A j \in DOMAIN th.plan : i < j => th.steps[j] = "pending"
    BY <1>6 DEF Good, SettledPrefix, Settled
  <1>8. SettledPrefix(r)
    BY <1>1, <1>2, <1>3, <1>5, <1>7 DEF Good, SettledPrefix, Settled
  <1>9. DependenciesDone(r)
    <2> SUFFICES ASSUME NEW j \in DOMAIN th.plan, r.steps[j] = "completed",
                        NEW d \in th.plan[j].depends_on
                 PROVE  r.steps[d] = "completed"
      BY <1>2 DEF DependenciesDone
    <2>1. th.steps[j] = "completed" /\ d \in DOMAIN th.plan
      BY <1>1, <1>3, PlanShape
    <2>2. th.steps[d] = "completed"
      BY <2>1 DEF Good, DependenciesDone
    <2>3. QED
      BY <1>3, <1>6, <2>1, <2>2
  <1>10. Stopped(r) = {}
    BY <1>2, <1>3, <1>4 DEF Stopped
  <1>11. LoopShape(r)
    BY <1>2, <1>3, <1>10 DEF LoopShape
  <1>12. IngestedOnce(r, n)
    BY <1>2 DEF Good, IngestedOnce
  <1>13. QED
    BY <1>2, <1>8, <1>9, <1>11, <1>12 DEF Good

\* execute_step settles the running step or stops the loop at it; a step that
\* completed had its dependencies.
LEMMA RecordedGood ==
  ASSUME NEW th, NEW n, Good(th, n), th.next = "execute_step",
         NEW s \in {"completed", "skipped", "needs_user", "failed"},
         s = "completed" => DependenciesReady(th, th.idx),
         NEW r, r = Recorded(th, th.idx, s)
  PROVE  Good(r, n)
  <1> DEFINE i == th.idx
             stops == s \in {"failed", "needs_user"}
             idx == IF stops THEN i ELSE None
             done == [th EXCEPT !.steps = [th.steps EXCEPT ![i] = s], !.idx = idx]
  <1>1. /\ th \in Checkpoint /\ th.plan \in Plans
        /\ th.steps \in [StepNumber -> StepStatus]
        /\ DOMAIN th.plan \subseteq StepNumber /\ DOMAIN th.plan \subseteq Nat
    BY PlanShape DEF Good, Checkpoint
  <1>2. i \in DOMAIN th.plan /\ th.steps[i] = "running" /\ Stopped(th) = {}
    BY DEF Good, LoopShape
  <1>3. idx \in StepNumber \cup {None} /\ i # None
    BY <1>1, <1>2, PlanAssumption DEF StepNumber, None
  <1>4. /\ done \in Checkpoint
        /\ done.plan = th.plan /\ done.idx = idx
        /\ done.steps = [th.steps EXCEPT ![i] = s]
        /\ done.cursor = th.cursor /\ done.seen = th.seen
    BY <1>1, <1>3 DEF Checkpoint, StepStatus
  <1>5. r = [done EXCEPT !.next = RouteAfterStep(done)]
    BY DEF Recorded
  <1>6. RouteAfterStep(done) \in {"finalize_execution", "select_next_step"}
    BY DEF RouteAfterStep
  <1> HIDE DEF done
  <1>7. /\ r \in Checkpoint
        /\ r.plan = th.plan /\ r.idx = idx /\ r.next = RouteAfterStep(done)
        /\ r.steps = done.steps
        /\ r.cursor = th.cursor /\ r.seen = th.seen
    BY <1>4, <1>5, <1>6 DEF Checkpoint, Node
  <1>8. \A j \in DOMAIN th.plan : r.steps[j] = IF j = i THEN s ELSE th.steps[j]
    BY <1>1, <1>2, <1>4, <1>7
  <1>9. \A j \in DOMAIN th.plan : i < j => th.steps[j] = "pending"
    BY <1>2 DEF Good, SettledPrefix, Settled
  <1>10. SettledPrefix(r)
    BY <1>1, <1>2, <1>7, <1>8, <1>9 DEF Good, SettledPrefix, Settled
  <1>11. DependenciesDone(r)
    <2> SUFFICES ASSUME NEW j \in DOMAIN th.plan, r.steps[j] = "completed",
                        NEW d \in th.plan[j].depends_on
                 PROVE  r.steps[d] = "completed"
      BY <1>7 DEF DependenciesDone
    <2>1. d \in DOMAIN th.plan /\ d < j
      BY <1>1, PlanShape
    <2>2. CASE j = i
      <3>1. th.steps[d] = "completed"
        BY <1>2, <1>8, <2>2 DEF DependenciesReady
      <3>2. QED
        BY <1>1, <1>8, <2>1, <2>2, <3>1
    <2>3. CASE j # i
      <3>1. th.steps[j] = "completed"
        BY <1>8, <2>3
      <3>2. th.steps[d] = "completed"
        BY <3>1 DEF Good, DependenciesDone
      <3>3. QED
        BY <1>2, <1>8, <2>1, <3>2
    <2>4. QED
      BY <2>2, <2>3
  <1>12. CASE stops
    <2>1. i \in Stopped(done)
      BY <1>1, <1>2, <1>4, <1>12 DEF Stopped
    <2>2. i \in Stopped(r)
      BY <1>4, <1>7, <2>1 DEF Stopped
    <2>3. r.next = "finalize_execution"
      BY <1>3, <1>4, <1>7, <1>12, <2>1 DEF RouteAfterStep
    <2>4. LoopShape(r)
      BY <2>2, <2>3 DEF LoopShape
    <2>5. QED
      BY <1>7, <1>10, <1>11, <2>4 DEF Good, IngestedOnce
  <1>13. CASE ~stops
    <2>1. Stopped(r) = {}
      BY <1>2, <1>7, <1>8, <1>13 DEF Stopped
    <2>2. Selectable(r) = Selectable(done)
      BY <1>4, <1>7 DEF Selectable
    <2>3. idx = None
      BY <1>13
    <2>4. r.next = IF Selectable(r) = {} THEN "finalize_execution"
                   ELSE "select_next_step"
      BY <1>4, <1>7, <2>2, <2>3 DEF RouteAfterStep
    <2>5. LoopShape(r)
      BY <2>1, <2>4 DEF LoopShape
    <2>6. QED
      BY <1>7, <1>10, <1>11, <2>5 DEF Good, IngestedOnce
  <1>14. QED
    BY <1>12, <1>13

\* finalize_execution reports "processed" only over a plan that has steps and
\* settled all of them.  A stopped step is the first one: all before it are
\* settled.
LEMMA FinalizedGood ==
  ASSUME NEW th, NEW n, Good(th, n), th.next = "finalize_execution",
         NEW r \in Checkpoint, r.plan = th.plan, r.steps = th.steps,
         r.cursor = th.cursor, r.seen = th.seen,
         r.next = "wait_for_human", r.result = FinalStatus(th)
  PROVE  Good(r, n)
  <1>1. /\ th.plan \in Plans
        /\ th.steps \in [StepNumber -> StepStatus]
        /\ DOMAIN th.plan \subseteq StepNumber /\ DOMAIN th.plan \subseteq Nat
    BY PlanShape DEF Good, Checkpoint
  <1>2. ASSUME r.result = "processed"
        PROVE  th.plan # <<>> /\ \A i \in DOMAIN th.plan : Settled(th, i)
    <2>1. th.plan # <<>>
      BY <1>2 DEF FinalStatus
    <2>2. ASSUME NEW i \in Stopped(th)
          PROVE  IsFirst(i, Stopped(th))
      BY <1>1, <2>2 DEF IsFirst, Stopped, Good, SettledPrefix, Settled
    <2>3. Stopped(th) = {}
      <3> SUFFICES ASSUME NEW i \in Stopped(th)
                   PROVE  FALSE
        OBVIOUS
      <3>1. /\ i \in DOMAIN th.plan /\ IsFirst(i, Stopped(th))
            /\ th.steps[i] \in {"failed", "needs_user"}
        BY <2>2 DEF Stopped
      <3>2. r.result \in {"failed", "needs_user"}
        BY <3>1, <2>1 DEF FinalStatus
      <3>3. QED
        BY <1>2, <3>2
    <2>4. Selectable(th) = {}
      BY <2>3 DEF Good, LoopShape
    <2>5. QED
      BY <1>1, <2>1, <2>3, <2>4 DEF Stopped, Selectable, Settled, StepStatus
  <1>3. LoopShape(r)
    BY <1>2 DEF LoopShape, Settled
  <1>4. QED
    BY <1>3, SameStepsGood
-----------------------------------------------------------------------------
(* The invariant. *)

\* A conversation that has not begun is a good checkpoint.
LEMMA NewThreadGood == Good(NewThread, 0)
  <1>1. NewThread \in Checkpoint /\ NewThread.plan = <<>>
    BY PlanAssumption, BoundAssumption
    DEF NewThread, Checkpoint, Node, StepStatus, ResultStatus, None
  <1>2. IngestedOnce(NewThread, 0)
    BY BoundAssumption DEF NewThread, IngestedOnce, Comment
  <1>3. DOMAIN NewThread.plan = {}
    BY <1>1
  <1>4. QED
    BY <1>1, <1>2, <1>3
    DEF NewThread, Good, SettledPrefix, DependenciesDone, LoopShape

\* It is the only one in the beginning.
LEMMA InitIInv == Init => IInv
  <1> SUFFICES ASSUME Init
               PROVE  IInv
    OBVIOUS
  <1>1. Scalars
    <2>1. outbox \in Seq(EventKind)
      BY DEF Init
    <2>2. runs \in [StepNumber -> Nat]
      BY DEF Init
    <2>3. resuming \in BOOLEAN /\ handed \in BOOLEAN
      BY DEF Init
    <2>4. /\ comments \in 0 .. MaxComments /\ fetched \in 0 .. comments
          /\ aborts \in 0 .. MaxAborts
      BY BoundAssumption DEF Init
    <2>5. QED
      BY <2>1, <2>2, <2>3, <2>4 DEF Init, Scalars
  <1>2. Good(saved, comments) /\ Good(thread, comments) /\ Good(staged, comments)
    <2>1. saved = NewThread /\ thread = NewThread /\ staged = NewThread /\ comments = 0
      BY DEF Init
    <2>2. QED
      BY <2>1, NewThreadGood
  <1>3. QED
    BY <1>1, <1>2 DEF IInv

\* A node whose result is committed at once.
LEMMA CommitNowIInv ==
  ASSUME IInv, NEW th, Good(th, comments), CommitNow(th), pc' = pc,
         UNCHANGED <<redmine, saved, fetched, handed, aborts>>,
         resuming' \in BOOLEAN, runs' \in [StepNumber -> Nat]
  PROVE  IInv'
  <1>1. Scalars'
    BY DEF IInv, Scalars, CommitNow, redmine
  <1>2. comments' = comments /\ saved' = saved /\ thread' = th /\ staged' = th
    BY DEF CommitNow, redmine
  <1>3. Good(saved, comments) /\ Good(thread', comments) /\ Good(staged', comments)
    BY <1>2 DEF IInv
  <1>4. QED
    BY <1>1, <1>2, <1>3 DEF IInv

\* A node that stages its result behind its events.
LEMMA EmitThenCommitIInv ==
  ASSUME IInv, NEW events \in Seq(EventKind), NEW th, Good(th, comments),
         EmitThenCommit(events, th),
         UNCHANGED <<redmine, saved, fetched, resuming, handed, aborts>>,
         runs' \in [StepNumber -> Nat]
  PROVE  IInv'
  <1>1. Scalars'
    BY DEF IInv, Scalars, EmitThenCommit, redmine
  <1>2. comments' = comments /\ saved' = saved /\ thread' = thread /\ staged' = th
    BY DEF EmitThenCommit, redmine
  <1>3. QED
    BY <1>1, <1>2 DEF IInv

\* Every other step copies checkpoints, while the human may have commented.
LEMMA CopiesIInv ==
  ASSUME IInv, Scalars', comments <= comments',
         {saved', thread', staged'} \subseteq {saved, thread, staged}
  PROVE  IInv'
  <1>1. comments \in Nat /\ comments' \in Nat
    BY BoundAssumption DEF IInv, Scalars
  <1>2. \A th \in {saved, thread, staged} : Good(th, comments')
    BY <1>1, GoodLater DEF IInv
  <1>3. QED
    BY <1>2 DEF IInv

\* What the nodes emit.
LEMMA EventsTyped ==
  /\ <<"start">> \in Seq(EventKind)
  /\ <<"progress">> \in Seq(EventKind)
  /\ <<"final_review">> \in Seq(EventKind)
  /\ <<"final_review", "progress">> \in Seq(EventKind)
  /\ \A s : StepEvents(s) \subseteq Seq(EventKind)
  /\ \A r \in ResultStatus \ {"none"} : FinalEvents(r) \in Seq(EventKind)
  <1>1. \A s : StepEvents(s) \subseteq Seq(EventKind)
    <2> SUFFICES ASSUME NEW s, NEW e \in StepEvents(s)
                 PROVE  e \in Seq(EventKind)
      OBVIOUS
    <2>1. \A final \in {"final_return", "final_review"} :
            /\ <<"progress", final, "progress">> \in Seq(EventKind)
            /\ <<"progress", final, "progress", final, "progress">> \in Seq(EventKind)
      BY DEF EventKind
    <2>2. <<"progress">> \in Seq(EventKind)
      BY DEF EventKind
    <2>3. QED
      BY <2>1, <2>2 DEF StepEvents
  <1>2. \A r \in ResultStatus \ {"none"} : FinalEvents(r) \in Seq(EventKind)
    BY DEF FinalEvents, ResultStatus, EventKind
  <1>3. QED
    BY <1>1, <1>2 DEF EventKind

\* The nodes of the graph.
LEMMA NodeIInv == ASSUME IInv, GraphNode PROVE IInv'
  <1>1. /\ Good(thread, comments) /\ thread \in Checkpoint
        /\ comments \in 0 .. MaxComments /\ fetched \in 0 .. comments
        /\ runs \in [StepNumber -> Nat] /\ resuming \in BOOLEAN
        /\ handed \in BOOLEAN
    BY DEF IInv, Scalars, Good
  <1>2. thread.plan \in Plans /\ thread.steps \in [StepNumber -> StepStatus]
    BY <1>1 DEF Checkpoint
  <1>3. CASE Initialize
    <2> DEFINE r == [Ingested(thread, fetched) EXCEPT !.next = "initial_plan"]
    <2>1. Ingested(thread, fetched) \in Checkpoint
      BY <1>1, IngestedFields
    <2>2. /\ r \in Checkpoint /\ r.next = "initial_plan"
          /\ r.plan = thread.plan /\ r.steps = thread.steps
          /\ r.cursor = Ingested(thread, fetched).cursor
          /\ r.seen = Ingested(thread, fetched).seen
      BY <1>1, <2>1, IngestedFields DEF Checkpoint, Node
    <2>3. Good(r, comments)
      BY <1>1, <2>2, IngestedGood
    <2>4. QED
      BY <1>1, <1>3, <2>3, CommitNowIInv DEF Initialize, CommitNow, ghosts
  <1>4. CASE InitialPlan
    <2>1. PICK p \in Plans :
            CommitNow([Planned(thread, p) EXCEPT !.next = "publish_initial_plan"])
      BY <1>4 DEF InitialPlan
    <2> DEFINE r == [Planned(thread, p) EXCEPT !.next = "publish_initial_plan"]
    <2>2. /\ r \in Checkpoint /\ r.next = "publish_initial_plan"
          /\ r.plan = p /\ r.steps = [i \in StepNumber |-> "pending"]
          /\ r.cursor = thread.cursor /\ r.seen = thread.seen
      BY <1>1, PlanShape DEF Planned, Checkpoint, Node, StepStatus, StepNumber
    <2> HIDE DEF r
    <2>3. Good(r, comments)
      BY <1>1, <2>2, PlannedGood
    <2>4. QED
      BY <1>1, <1>4, <2>1, <2>3, CommitNowIInv DEF InitialPlan, CommitNow, r
  <1>5. CASE PublishInitialPlan
    <2> DEFINE r == [thread EXCEPT !.next = "select_next_step"]
    <2>1. \A i \in DOMAIN thread.plan : thread.steps[i] = "pending"
      BY <1>1, <1>5 DEF PublishInitialPlan, AtNode, Good, LoopShape
    <2>2. /\ r \in Checkpoint /\ r.next = "select_next_step"
          /\ r.plan = thread.plan /\ r.steps = thread.steps
          /\ r.cursor = thread.cursor /\ r.seen = thread.seen
      BY <1>1 DEF Checkpoint, Node
    <2>3. LoopShape(r)
      BY <2>1, <2>2 DEF LoopShape, Stopped
    <2>4. Good(r, comments)
      BY <1>1, <2>2, <2>3, SameStepsGood
    <2>5. QED
      BY <1>1, <1>5, <2>4, EventsTyped, EmitThenCommitIInv
      DEF PublishInitialPlan, ghosts
  <1>6. CASE SelectNextStep
    <2>1. PICK i \in DOMAIN thread.plan :
            /\ IsFirst(i, Selectable(thread))
            /\ EmitThenCommit(<<"progress">>,
                 [thread EXCEPT !.steps = [thread.steps EXCEPT ![i] = "running"],
                                !.idx = i, !.next = "execute_step"])
      BY <1>6 DEF SelectNextStep
    <2>2. Good([thread EXCEPT !.steps = [thread.steps EXCEPT ![i] = "running"],
                              !.idx = i, !.next = "execute_step"], comments)
      BY <1>1, <1>6, <2>1, SelectedGood DEF SelectNextStep, AtNode
    <2>3. QED
      BY <1>1, <1>6, <2>1, <2>2, EventsTyped, EmitThenCommitIInv
      DEF SelectNextStep, ghosts
  <1>7. CASE SelectNothing
    <2> DEFINE r == [thread EXCEPT !.idx = None, !.next = "finalize_execution"]
    <2>1. /\ r \in Checkpoint /\ r.next = "finalize_execution"
          /\ r.plan = thread.plan /\ r.steps = thread.steps
          /\ r.cursor = thread.cursor /\ r.seen = thread.seen
      BY <1>1 DEF Checkpoint, Node
    <2>2. Selectable(r) = {}
      BY <1>7, <2>1 DEF SelectNothing, Selectable
    <2>3. Good(r, comments)
      BY <1>1, <2>1, <2>2, SameStepsGood DEF LoopShape
    <2>4. QED
      BY <1>1, <1>7, <2>3, CommitNowIInv DEF SelectNothing, CommitNow, ghosts
  <1>8. CASE ExecuteStep
    <2>1. PICK s \in {"completed", "skipped", "needs_user", "failed"} :
            \E events \in StepEvents(s) :
              EmitThenCommit(events, Recorded(thread, thread.idx, s))
      BY <1>8 DEF ExecuteStep
    <2>2. DependenciesReady(thread, thread.idx) /\ thread.next = "execute_step"
      BY <1>8 DEF ExecuteStep, AtNode
    <2>3. Good(Recorded(thread, thread.idx, s), comments)
      BY <1>1, <2>2, RecordedGood
    <2>4. runs' \in [StepNumber -> Nat]
      <3>1. runs' = [runs EXCEPT ![thread.idx] = runs[thread.idx] + 1]
        BY <1>8 DEF ExecuteStep
      <3>2. runs \in [StepNumber -> Nat]
        BY <1>1
      <3>3. \A i \in StepNumber : runs'[i] \in Nat
        BY <3>1, <3>2
      <3>4. QED
        BY <3>1, <3>2, <3>3
    <2>5. QED
      BY <1>1, <1>8, <2>1, <2>3, <2>4, EventsTyped, EmitThenCommitIInv
      DEF ExecuteStep
  <1>9. CASE StepBlocked
    <2>1. Good(Recorded(thread, thread.idx, "needs_user"), comments)
      BY <1>1, <1>9, RecordedGood DEF StepBlocked, AtNode
    <2>2. QED
      BY <1>1, <1>9, <2>1, EventsTyped, EmitThenCommitIInv DEF StepBlocked, ghosts
  <1>10. CASE FinalizeExecution
    <2> DEFINE result == FinalStatus(thread)
               r == [thread EXCEPT !.result = result, !.next = "wait_for_human",
                                   !.idx = IF result = "processed" THEN None ELSE @]
    <2>1. result \in ResultStatus \ {"none"}
      BY DEF FinalStatus, ResultStatus
    <2>2. thread.idx \in StepNumber \cup {None}
      BY <1>1 DEF Checkpoint
    <2> HIDE DEF result
    <2>3. /\ r \in Checkpoint /\ r.next = "wait_for_human" /\ r.result = result
          /\ r.plan = thread.plan /\ r.steps = thread.steps
          /\ r.cursor = thread.cursor /\ r.seen = thread.seen
      BY <1>1, <2>1, <2>2 DEF Checkpoint, Node
    <2>4. Good(r, comments)
      BY <1>1, <1>10, <2>3, FinalizedGood DEF FinalizeExecution, AtNode, result
    <2>5. EmitThenCommit(FinalEvents(result), r)
      BY <1>10 DEF FinalizeExecution, result
    <2>6. QED
      BY <1>1, <1>10, <2>1, <2>4, <2>5, EventsTyped, EmitThenCommitIInv
      DEF FinalizeExecution, ghosts
  <1>11. CASE Interrupt
    <2> DEFINE r == [thread EXCEPT !.interrupted = TRUE]
    <2>1. /\ r \in Checkpoint /\ r.next = thread.next /\ r.result = thread.result
          /\ r.plan = thread.plan /\ r.steps = thread.steps /\ r.idx = thread.idx
          /\ r.cursor = thread.cursor /\ r.seen = thread.seen
      BY <1>1 DEF Checkpoint
    <2>2. LoopShape(r)
      BY <1>1, <2>1 DEF Good, LoopShape, Settled, Stopped, Selectable
    <2>3. Good(r, comments)
      BY <1>1, <2>1, <2>2, SameStepsGood
    <2>4. saved' = r /\ thread' = r /\ staged' = r /\ comments' = comments
      BY <1>11 DEF Interrupt, redmine
    <2>5. Scalars'
      <3>1. pc' = "idle" /\ fetched' \in 0 .. comments
        BY <1>1, <1>11, BoundAssumption DEF Interrupt
      <3>2. handed' \in BOOLEAN
        BY <1>11 DEF Interrupt
      <3>3. UNCHANGED <<assignee, status, comments, outbox, resuming, runs, aborts>>
        BY <1>11 DEF Interrupt, redmine
      <3>4. QED
        BY <3>1, <3>2, <3>3 DEF IInv, Scalars
    <2>6. QED
      BY <2>3, <2>4, <2>5 DEF IInv
  <1>12. CASE WaitForHuman
    <2> DEFINE th == [Ingested(thread, fetched) EXCEPT !.interrupted = FALSE,
                                                       !.analysis = FALSE]
               next == IF fetched > thread.cursor
                       THEN "analyze_feedback" ELSE "request_feedback"
               r == [th EXCEPT !.next = next]
    <2>1. Ingested(thread, fetched) \in Checkpoint
      BY <1>1, IngestedFields
    <2>2. next \in {"analyze_feedback", "request_feedback"}
      OBVIOUS
    <2>3. th \in Checkpoint
      BY <2>1 DEF Checkpoint
    <2>4. /\ th.plan = thread.plan /\ th.steps = thread.steps
          /\ th.cursor = Ingested(thread, fetched).cursor
          /\ th.seen = Ingested(thread, fetched).seen
      BY <1>1, <2>1, IngestedFields DEF Checkpoint
    <2> HIDE DEF next, th
    <2>5. /\ r \in Checkpoint /\ r.next = next
          /\ r.plan = thread.plan /\ r.steps = thread.steps
          /\ r.cursor = Ingested(thread, fetched).cursor
          /\ r.seen = Ingested(thread, fetched).seen
      BY <2>2, <2>3, <2>4 DEF Checkpoint, Node
    <2>6. Good(r, comments)
      BY <1>1, <2>2, <2>5, IngestedGood
    <2>7. CommitNow(r)
      BY <1>12 DEF WaitForHuman, next, th
    <2>8. QED
      BY <1>1, <1>12, <2>6, <2>7, CommitNowIInv DEF WaitForHuman, CommitNow, ghosts
  <1>13. CASE AnalyzeFeedback
    <2>1. PICK p \in Plans :
            CommitNow([Planned(thread, p) EXCEPT !.analysis = TRUE,
                                                 !.next = "publish_revision_plan"])
      BY <1>13 DEF AnalyzeFeedback
    <2> DEFINE r == [Planned(thread, p) EXCEPT !.analysis = TRUE,
                                               !.next = "publish_revision_plan"]
    <2>2. /\ r \in Checkpoint /\ r.next = "publish_revision_plan"
          /\ r.plan = p /\ r.steps = [i \in StepNumber |-> "pending"]
          /\ r.cursor = thread.cursor /\ r.seen = thread.seen
      BY <1>1, PlanShape DEF Planned, Checkpoint, Node, StepStatus, StepNumber
    <2> HIDE DEF r
    <2>3. Good(r, comments)
      BY <1>1, <2>2, PlannedGood
    <2>4. QED
      BY <1>1, <1>13, <2>1, <2>3, CommitNowIInv DEF AnalyzeFeedback, CommitNow, r
  <1>14. CASE PublishRevisionPlan
    <2> DEFINE r == [thread EXCEPT !.next = "select_next_step"]
    <2>1. \A i \in DOMAIN thread.plan : thread.steps[i] = "pending"
      BY <1>1, <1>14 DEF PublishRevisionPlan, AtNode, Good, LoopShape
    <2>2. /\ r \in Checkpoint /\ r.next = "select_next_step"
          /\ r.plan = thread.plan /\ r.steps = thread.steps
          /\ r.cursor = thread.cursor /\ r.seen = thread.seen
      BY <1>1 DEF Checkpoint, Node
    <2>3. LoopShape(r)
      BY <2>1, <2>2 DEF LoopShape, Stopped
    <2>4. Good(r, comments)
      BY <1>1, <2>2, <2>3, SameStepsGood
    <2>5. QED
      BY <1>1, <1>14, <2>4, EventsTyped, EmitThenCommitIInv
      DEF PublishRevisionPlan, ghosts
  <1>15. CASE RequestFeedback
    <2> DEFINE r == [thread EXCEPT !.result = "needs_user", !.next = "wait_for_human"]
    <2>1. /\ r \in Checkpoint /\ r.next = "wait_for_human"
          /\ r.result = "needs_user"
          /\ r.plan = thread.plan /\ r.steps = thread.steps
          /\ r.cursor = thread.cursor /\ r.seen = thread.seen
      BY <1>1 DEF Checkpoint, Node, ResultStatus
    <2>2. LoopShape(r)
      BY <2>1 DEF LoopShape
    <2>3. Good(r, comments)
      BY <1>1, <2>1, <2>2, SameStepsGood
    <2>4. QED
      BY <1>1, <1>15, <2>3, EventsTyped, EmitThenCommitIInv
      DEF RequestFeedback, ghosts
  <1>16. QED
    BY <1>3, <1>4, <1>5, <1>6, <1>7, <1>8, <1>9, <1>10, <1>11, <1>12, <1>13,
       <1>14, <1>15 DEF GraphNode

\* Every step.
LEMMA NextIInv == IInv /\ [Next]_vars => IInv'
  <1> SUFFICES ASSUME IInv, [Next]_vars
               PROVE  IInv'
    OBVIOUS
  <1>1. Scalars /\ MaxComments \in Nat /\ MaxAborts \in Nat
    BY BoundAssumption DEF IInv
  <1>2. CASE HumanStep
    <2>1. Scalars'
      BY <1>1, <1>2 DEF HumanStep, HumanComments, HumanReassigns, Scalars, ghosts
    <2>2. QED
      BY <1>1, <1>2, <2>1, CopiesIInv
      DEF HumanStep, HumanComments, HumanReassigns, Scalars
  <1>3. CASE BeginRun
    <2>1. <<"start">> \in Seq(EventKind)
      BY EventsTyped
    <2>2. thread.interrupted \in BOOLEAN
      BY DEF IInv, Good, Checkpoint
    <2>3. Scalars'
      <3>1. outbox' \in Seq(EventKind) /\ pc' \in {"emit", "run"}
        BY <1>1, <1>3, <2>1 DEF BeginRun, Scalars
      <3>2. resuming' \in BOOLEAN /\ handed' \in BOOLEAN
        BY <1>3, <2>2 DEF BeginRun, IsInterrupted
      <3>3. fetched' \in 0 .. comments
        BY <1>1, <1>3 DEF BeginRun, FetchIssue, Scalars
      <3>4. UNCHANGED <<assignee, status, comments, runs, aborts>>
        BY <1>3 DEF BeginRun, redmine
      <3>5. QED
        BY <1>1, <3>1, <3>2, <3>3, <3>4 DEF Scalars
    <2>4. QED
      BY <1>1, <1>3, <2>3, CopiesIInv DEF BeginRun, redmine, Scalars
  <1>4. CASE GraphNode
    BY <1>4, NodeIInv
  <1>5. CASE Emit
    <2>1. Tail(outbox) \in Seq(EventKind)
      BY <1>1, <1>5 DEF Emit, Scalars
    <2>2. Scalars'
      BY <1>1, <1>5, <2>1 DEF Emit, Apply, Scalars
    <2>3. QED
      BY <1>1, <1>5, <2>2, CopiesIInv DEF Emit, Apply, Scalars
  <1>6. CASE Commit
    <2>1. Scalars'
      BY <1>1, <1>6 DEF Commit, Scalars, redmine, ghosts
    <2>2. QED
      BY <1>1, <1>6, <2>1, CopiesIInv DEF Commit, redmine, Scalars
  <1>7. CASE Flush
    <2>1. Scalars'
      BY <1>1, <1>7 DEF Flush, Scalars, redmine, ghosts
    <2>2. QED
      BY <1>1, <1>7, <2>1, CopiesIInv DEF Flush, redmine, Scalars
  <1>8. CASE RunRaises
    <2>1. Scalars'
      <3>1. /\ outbox' \in Seq(EventKind) /\ pc' = "failing"
            /\ aborts' \in 0 .. MaxAborts
        BY <1>1, <1>8 DEF RunRaises, Abort, Scalars
      <3>2. resuming' \in BOOLEAN
        BY <1>8 DEF RunRaises
      <3>3. UNCHANGED <<assignee, status, comments, fetched, handed, runs>>
        BY <1>8 DEF RunRaises, redmine
      <3>4. QED
        BY <1>1, <3>1, <3>2, <3>3 DEF Scalars
    <2>2. QED
      BY <1>1, <1>8, <2>1, CopiesIInv DEF RunRaises, redmine, Scalars
  <1>9. CASE EmitRaisesApplied
    <2>1. Scalars'
      <3>1. /\ outbox' \in Seq(EventKind) /\ pc' = "failing"
            /\ aborts' \in 0 .. MaxAborts
        BY <1>1, <1>9 DEF EmitRaisesApplied, Abort, Scalars
      <3>2. resuming' \in BOOLEAN /\ handed' \in BOOLEAN
        BY <1>9 DEF EmitRaisesApplied, Apply
      <3>3. /\ assignee' \in {"agent", "author"}
            /\ status' \in {"new", "in_progress", "review"}
        BY <1>1, <1>9 DEF EmitRaisesApplied, Apply, Scalars
      <3>4. UNCHANGED <<comments, fetched, runs>>
        BY <1>9 DEF EmitRaisesApplied, Apply
      <3>5. QED
        BY <1>1, <3>1, <3>2, <3>3, <3>4 DEF Scalars
    <2>2. QED
      BY <1>1, <1>9, <2>1, CopiesIInv DEF EmitRaisesApplied, Apply, Scalars
  <1>10. CASE ReportFailure
    <2>1. Scalars'
      <3>1. handed' \in BOOLEAN
        BY <1>10 DEF ReportFailure, Idle
      <3>2. pc' = "idle" /\ fetched' \in 0 .. comments
        BY <1>1, <1>10 DEF ReportFailure, Idle, Scalars
      <3>3. /\ assignee' \in {"agent", "author"}
            /\ status' \in {"new", "in_progress", "review"}
        BY <1>10 DEF ReportFailure
      <3>4. UNCHANGED <<comments, outbox, resuming, runs, aborts>>
        BY <1>10 DEF ReportFailure
      <3>5. QED
        BY <1>1, <3>1, <3>2, <3>3, <3>4 DEF Scalars
    <2>2. QED
      BY <1>1, <1>10, <2>1, CopiesIInv DEF ReportFailure, Scalars
  <1>11. CASE ReportFailureRaises
    <2>1. Scalars'
      <3>1. handed' \in BOOLEAN
        BY <1>11 DEF ReportFailureRaises, Idle
      <3>2. /\ pc' = "idle" /\ fetched' \in 0 .. comments
            /\ aborts' \in 0 .. MaxAborts
        BY <1>1, <1>11 DEF ReportFailureRaises, Idle, Abort, Scalars
      <3>3. UNCHANGED <<assignee, status, comments, outbox, resuming, runs>>
        BY <1>11 DEF ReportFailureRaises, redmine
      <3>4. QED
        BY <1>1, <3>1, <3>2, <3>3 DEF Scalars
    <2>2. QED
      BY <1>1, <1>11, <2>1, CopiesIInv DEF ReportFailureRaises, redmine, Scalars
  <1>12. CASE Crash
    <2>1. Scalars'
      <3>1. handed' \in BOOLEAN
        BY <1>12 DEF Crash, Idle
      <3>2. /\ pc' = "idle" /\ fetched' \in 0 .. comments
            /\ aborts' \in 0 .. MaxAborts
        BY <1>1, <1>12 DEF Crash, Idle, Abort, Scalars
      <3>3. outbox' \in Seq(EventKind)
        BY <1>12 DEF Crash
      <3>4. resuming' \in BOOLEAN
        BY <1>12 DEF Crash
      <3>5. UNCHANGED <<assignee, status, comments, runs>>
        BY <1>12 DEF Crash, redmine
      <3>6. QED
        BY <1>1, <3>1, <3>2, <3>3, <3>5, <3>4 DEF Scalars
    <2>2. QED
      BY <1>1, <1>12, <2>1, CopiesIInv DEF Crash, redmine, Scalars
  <1>13. CASE UNCHANGED vars
    <2>1. Scalars'
      BY <1>1, <1>13 DEF vars, Scalars
    <2>2. QED
      BY <1>1, <1>13, <2>1, CopiesIInv DEF vars, Scalars
  <1>14. QED
    BY <1>2, <1>3, <1>4, <1>5, <1>6, <1>7, <1>8, <1>9, <1>10, <1>11, <1>12,
       <1>13 DEF Next, AgentStep, Failure
-----------------------------------------------------------------------------
(***************************************************************************)
(* How the three checkpoints of a state hang together.  A run starts with  *)
(* all three equal and moves forward: what the node stages comes from      *)
(* thread, and what is durable is a checkpoint the run has passed.  The    *)
(* history invariant HInv says so, with what the events still in the       *)
(* outbox owe the ticket and what the abort budget owes each step.  It     *)
(* is inductive relative to IInv.                                          *)
(***************************************************************************)
Loop == {"select_next_step", "execute_step", "finalize_execution"}
Final == {"final_review", "final_return"}
Open(th, i) == th.steps[i] \in {"pending", "running"}

\* The outbox still holds an event that hands the ticket back.
HandBackDue(box) == \E i \in DOMAIN box : box[i] \in Final

\* Inside the step loop, new is a later checkpoint of the plan of old: the
\* loop is only left for wait_for_human, and no settled step opens again.
Follows(old, new) ==
  old.next \in Loop =>
    /\ new.next \in Loop \cup {"wait_for_human"}
    /\ new.plan = old.plan
    /\ \A i \in StepNumber : Open(new, i) => Open(old, i)

\* Only while events go out does a node hold a result of its own; between two
\* runs everything is durable; only wait_for_human interrupts.
Copies ==
  /\ pc # "emit" => staged = thread
  /\ pc \in {"idle", "failing"} => saved = thread
  /\ resuming => pc = "run" /\ saved = thread /\ thread.next = "wait_for_human"
  /\ \A th \in {saved, thread, staged} :
       th.interrupted => th.next = "wait_for_human"

\* A run moves forward from what is durable.
Forward ==
  /\ saved.cursor <= thread.cursor /\ thread.cursor <= staged.cursor
  /\ Follows(saved, thread) /\ Follows(saved, staged) /\ Follows(thread, staged)

\* The checkpoint that waits for the human is committed after the hand-back.
HandBackOwed ==
  /\ HandedBackBeforeWaiting
  /\ pc = "emit" /\ staged.next = "wait_for_human" => handed \/ HandBackDue(outbox)

\* The step loop of a revision is entered after the announcement, and the
\* steps that let the loop go on do not take it back.
AnnouncementOwed ==
  /\ pc = "run" /\ thread.analysis /\ thread.next \in {"select_next_step", "execute_step"}
     => status = "in_progress"
  /\ pc = "emit" /\ staged.analysis /\ staged.next \in {"select_next_step", "execute_step"}
     => \/ outbox = <<"start">>
        \/ status = "in_progress" /\ outbox \in {<<>>, <<"progress">>}

\* An execution beyond the first is paid for by an abort; a step that is
\* still open has no execution that is not.
RunsPaid ==
  /\ \A i \in StepNumber : runs[i] <= 1 + aborts
  /\ \A i \in StepNumber : Open(staged, i) => runs[i] <= aborts

\* The history invariant.
HInv == Copies /\ Forward /\ HandBackOwed /\ AnnouncementOwed /\ RunsPaid
-----------------------------------------------------------------------------
\* HInv holds before anything happened.
LEMMA InitHInv == Init => HInv
  <1> SUFFICES ASSUME Init
               PROVE  HInv
    OBVIOUS
  <1>1. /\ saved = NewThread /\ thread = NewThread /\ staged = NewThread
        /\ pc = "idle" /\ resuming = FALSE /\ runs = [i \in StepNumber |-> 0]
        /\ aborts = 0
    BY DEF Init
  <1>2. /\ NewThread.next = "initialize" /\ NewThread.interrupted = FALSE
        /\ NewThread.cursor = 0
    BY DEF NewThread
  <1>3. Copies
    BY <1>1, <1>2 DEF Copies
  <1>4. Forward
    BY <1>1, <1>2 DEF Forward, Follows, Loop
  <1>5. HandBackOwed /\ AnnouncementOwed
    BY <1>1 DEF HandBackOwed, AnnouncementOwed, HandedBackBeforeWaiting, AtNode
  <1>6. RunsPaid
    BY <1>1 DEF RunsPaid
  <1>7. QED
    BY <1>3, <1>4, <1>5, <1>6 DEF HInv

\* Inside the loop, what follows a follower follows.
LEMMA FollowsOn ==
  ASSUME NEW a, NEW b, NEW c, Follows(a, b), Follows(b, c),
         b.next # "wait_for_human"
  PROVE  Follows(a, c)
  BY DEF Follows

\* A node outside the loop, or one that moves on in it without opening a step.
LEMMA CommitNowHInv ==
  ASSUME IInv, HInv, pc = "run", NEW th \in Checkpoint, CommitNow(th),
         UNCHANGED <<redmine, saved, aborts>>, resuming' = FALSE,
         thread.cursor <= th.cursor, th.interrupted = FALSE, Follows(saved, th),
         th.next \notin {"wait_for_human", "select_next_step", "execute_step"},
         \A i \in StepNumber : runs'[i] <= 1 + aborts,
         \A i \in StepNumber : Open(th, i) => runs'[i] <= aborts
  PROVE  HInv'
  <1>1. /\ thread' = th /\ staged' = th /\ saved' = saved /\ pc' = "run"
        /\ aborts' = aborts /\ status' = status
    BY DEF CommitNow, redmine
  <1>2. saved.interrupted => saved.next = "wait_for_human"
    BY DEF HInv, Copies
  <1>3. Copies'
    BY <1>1, <1>2 DEF Copies
  <1>4. Forward'
    <2>1. saved.cursor \in Nat /\ thread.cursor \in Nat /\ th.cursor \in Nat
      BY BoundAssumption DEF IInv, Good, Checkpoint
    <2>2. saved.cursor <= th.cursor
      BY <2>1 DEF HInv, Forward
    <2>3. Follows(th, th)
      BY DEF Follows
    <2>4. QED
      BY <1>1, <2>1, <2>2, <2>3 DEF Forward
  <1>5. HandBackOwed'
    BY <1>1 DEF HandBackOwed, HandedBackBeforeWaiting, AtNode
  <1>6. AnnouncementOwed'
    BY <1>1 DEF AnnouncementOwed
  <1>7. RunsPaid'
    BY <1>1 DEF RunsPaid, Open
  <1>8. QED
    BY <1>3, <1>4, <1>5, <1>6, <1>7 DEF HInv

\* A node whose result waits behind its events.
LEMMA EmitThenCommitHInv ==
  ASSUME IInv, HInv, pc = "run", NEW th \in Checkpoint, NEW events,
         EmitThenCommit(events, th),
         UNCHANGED <<redmine, saved, resuming, handed, aborts>>,
         thread.next # "wait_for_human",
         th.cursor = thread.cursor, th.interrupted = FALSE, Follows(thread, th),
         th.next = "wait_for_human" => HandBackDue(events),
         th.analysis /\ th.next \in {"select_next_step", "execute_step"}
           => \/ events = <<"start">>
              \/ status = "in_progress" /\ events = <<"progress">>,
         \A i \in StepNumber : runs'[i] <= 1 + aborts,
         \A i \in StepNumber : Open(th, i) => runs'[i] <= aborts
  PROVE  HInv'
  <1>1. /\ thread' = thread /\ staged' = th /\ saved' = saved /\ pc' = "emit"
        /\ aborts' = aborts /\ status' = status /\ outbox' = events
    BY DEF EmitThenCommit, redmine
  <1>2. Copies'
    <2>1. resuming' = resuming /\ ~resuming
      BY DEF HInv, Copies
    <2>2. \A t \in {saved, thread, th} : t.interrupted => t.next = "wait_for_human"
      BY DEF HInv, Copies
    <2>3. QED
      BY <1>1, <2>1, <2>2 DEF Copies
  <1>3. Forward'
    <2>1. saved.cursor \in Nat /\ thread.cursor \in Nat /\ th.cursor \in Nat
      BY BoundAssumption DEF IInv, Good, Checkpoint
    <2>2. saved.cursor <= thread.cursor /\ Follows(saved, thread)
      BY DEF HInv, Forward
    <2>3. Follows(saved, th)
      BY <2>2, FollowsOn
    <2>4. QED
      BY <1>1, <2>1, <2>2, <2>3 DEF Forward
  <1>4. HandBackOwed'
    BY <1>1 DEF HandBackOwed, HandedBackBeforeWaiting, AtNode
  <1>5. AnnouncementOwed'
    BY <1>1 DEF AnnouncementOwed
  <1>6. RunsPaid'
    BY <1>1 DEF RunsPaid, Open
  <1>7. QED
    BY <1>2, <1>3, <1>4, <1>5, <1>6 DEF HInv

\* execute_step and its blocked variant: the step that ran is closed, and the
\* loop goes on only behind progress events.
LEMMA RecordedShape ==
  ASSUME NEW th, NEW n, Good(th, n), th.next = "execute_step",
         NEW s \in {"completed", "skipped", "needs_user", "failed"}
  PROVE  LET r == Recorded(th, th.idx, s)
         IN  /\ th.idx \in DOMAIN th.plan /\ th.idx \in StepNumber
             /\ r \in Checkpoint
             /\ r.cursor = th.cursor /\ r.interrupted = th.interrupted
             /\ r.plan = th.plan /\ r.analysis = th.analysis
             /\ r.steps = [th.steps EXCEPT ![th.idx] = s]
             /\ r.next \in {"finalize_execution", "select_next_step"}
             /\ s \in {"failed", "needs_user"} => r.next = "finalize_execution"
  <1> DEFINE i == th.idx
             idx == IF s \in {"failed", "needs_user"} THEN i ELSE None
             done == [th EXCEPT !.steps = [th.steps EXCEPT ![i] = s], !.idx = idx]
             r == Recorded(th, i, s)
  <1>1. /\ th \in Checkpoint /\ th.plan \in Plans
        /\ th.steps \in [StepNumber -> StepStatus]
        /\ DOMAIN th.plan \subseteq StepNumber
    BY PlanShape DEF Good, Checkpoint
  <1>2. i \in DOMAIN th.plan /\ i \in StepNumber /\ i # None
    BY <1>1, PlanAssumption DEF Good, LoopShape, StepNumber, None
  <1>3. /\ done \in Checkpoint
        /\ done.plan = th.plan /\ done.idx = idx
        /\ done.steps = [th.steps EXCEPT ![i] = s]
        /\ done.cursor = th.cursor /\ done.interrupted = th.interrupted
        /\ done.analysis = th.analysis
    BY <1>1, <1>2 DEF Checkpoint, StepStatus
  <1>4. r = [done EXCEPT !.next = RouteAfterStep(done)]
    BY DEF Recorded
  <1>5. RouteAfterStep(done) \in {"finalize_execution", "select_next_step"}
    BY DEF RouteAfterStep
  <1>6. ASSUME s \in {"failed", "needs_user"}
        PROVE  RouteAfterStep(done) = "finalize_execution"
    <2>1. i \in Stopped(done)
      BY <1>1, <1>2, <1>3, <1>6 DEF Stopped
    <2>2. QED
      BY <1>2, <1>3, <1>6, <2>1 DEF RouteAfterStep
  <1> HIDE DEF done, r
  <1>7. /\ r \in Checkpoint
        /\ r.plan = th.plan /\ r.next = RouteAfterStep(done)
        /\ r.steps = done.steps /\ r.analysis = th.analysis
        /\ r.cursor = th.cursor /\ r.interrupted = th.interrupted
    BY <1>3, <1>4, <1>5 DEF Checkpoint, Node
  <1>8. QED
    BY <1>2, <1>3, <1>5, <1>6, <1>7 DEF r

\* A step that lets the loop go on only reports progress.
LEMMA OnlyStopsHandBack ==
  ASSUME NEW s \in {"completed", "skipped"}, NEW e \in StepEvents(s)
  PROVE  e = <<"progress">>
  BY DEF StepEvents

\* However the execution ends, the ticket goes back.
LEMMA FinalEventsHandBack ==
  ASSUME NEW r \in ResultStatus \ {"none"}
  PROVE  HandBackDue(FinalEvents(r))
  <1>1. HandBackDue(<<"progress", "final_review">>)
    <2>1. <<"progress", "final_review">>[2] = "final_review"
      OBVIOUS
    <2>2. QED
      BY <2>1 DEF HandBackDue, Final
  <1>2. HandBackDue(<<"final_return">>) /\ HandBackDue(<<"final_review">>)
    BY DEF HandBackDue, Final
  <1>3. QED
    BY <1>1, <1>2 DEF FinalEvents, ResultStatus

\* The nodes of the graph.
LEMMA NodeHInv == ASSUME IInv, HInv, GraphNode PROVE HInv'
  <1>0. pc = "run"
    BY DEF GraphNode, AtNode, Initialize, InitialPlan, PublishInitialPlan,
           SelectNextStep, SelectNothing, ExecuteStep, StepBlocked,
           FinalizeExecution, Interrupt, WaitForHuman, AnalyzeFeedback,
           PublishRevisionPlan, RequestFeedback
  <1>1. /\ Good(thread, comments) /\ thread \in Checkpoint /\ pc = "run"
        /\ comments \in 0 .. MaxComments /\ fetched \in 0 .. comments
        /\ runs \in [StepNumber -> Nat] /\ aborts \in Nat
        /\ resuming \in BOOLEAN /\ staged = thread
    BY <1>0, BoundAssumption DEF IInv, Scalars, Good, HInv, Copies
  <1>2. /\ \A i \in StepNumber : runs[i] <= 1 + aborts
        /\ \A i \in StepNumber : Open(thread, i) => runs[i] <= aborts
    BY <1>1 DEF HInv, RunsPaid
  <1>3. ASSUME thread.next # "wait_for_human"
        PROVE  thread.interrupted = FALSE /\ resuming = FALSE
    BY <1>1, <1>3 DEF HInv, Copies, Checkpoint
  <1>4. saved.cursor <= thread.cursor /\ Follows(saved, thread)
    BY DEF HInv, Forward
  <1>5. CASE Initialize
    <2> DEFINE r == [Ingested(thread, fetched) EXCEPT !.next = "initial_plan"]
    <2>1. /\ Ingested(thread, fetched) \in Checkpoint
          /\ Ingested(thread, fetched).steps = thread.steps
          /\ Ingested(thread, fetched).interrupted = thread.interrupted
          /\ thread.cursor <= Ingested(thread, fetched).cursor
      BY <1>1, IngestedFields
    <2>2. /\ thread.next = "initialize" /\ CommitNow(r)
          /\ UNCHANGED <<redmine, saved, resuming, runs, aborts>>
      BY <1>5 DEF Initialize, AtNode, ghosts
    <2>3. /\ r \in Checkpoint /\ r.next = "initial_plan"
          /\ r.steps = thread.steps /\ r.interrupted = thread.interrupted
          /\ thread.cursor <= r.cursor
      BY <2>1 DEF Checkpoint, Node
    <2> HIDE DEF r
    <2>4. Follows(thread, r)
      BY <2>2 DEF Follows, Loop
    <2>5. Follows(saved, r)
      BY <1>4, <2>2, <2>4, FollowsOn
    <2>6. QED
      BY <1>1, <1>2, <1>3, <2>2, <2>3, <2>5, CommitNowHInv DEF Open
  <1>6. CASE InitialPlan
    <2>1. PICK p \in Plans :
            CommitNow([Planned(thread, p) EXCEPT !.next = "publish_initial_plan"])
      BY <1>6 DEF InitialPlan
    <2> DEFINE r == [Planned(thread, p) EXCEPT !.next = "publish_initial_plan"]
    <2>2. /\ thread.next = "initial_plan" /\ CommitNow(r)
          /\ UNCHANGED <<redmine, saved, resuming, aborts>>
          /\ \A i \in StepNumber : runs'[i] = 0
      BY <1>6, <2>1 DEF InitialPlan, AtNode
    <2>3. /\ r \in Checkpoint /\ r.next = "publish_initial_plan"
          /\ r.interrupted = thread.interrupted
          /\ thread.cursor = r.cursor
      BY <1>1, PlanShape DEF Planned, Checkpoint, Node, StepStatus, StepNumber
    <2> HIDE DEF r
    <2>4. Follows(thread, r)
      BY <2>2 DEF Follows, Loop
    <2>5. Follows(saved, r)
      BY <1>4, <2>2, <2>4, FollowsOn
    <2>6. thread.cursor <= r.cursor
      BY <1>1, <2>3, BoundAssumption DEF Checkpoint
    <2>7. \A i \in StepNumber : runs'[i] <= 1 + aborts /\ runs'[i] <= aborts
      BY <1>1, <2>2
    <2>8. QED
      BY <1>1, <1>3, <2>2, <2>3, <2>5, <2>6, <2>7, CommitNowHInv
  <1>7. CASE PublishInitialPlan
    <2> DEFINE r == [thread EXCEPT !.next = "select_next_step"]
    <2>1. /\ thread.next = "publish_initial_plan"
          /\ EmitThenCommit(<<"start">>, r)
          /\ UNCHANGED <<redmine, saved, resuming, handed, runs, aborts>>
      BY <1>7 DEF PublishInitialPlan, AtNode, ghosts
    <2>2. /\ r \in Checkpoint /\ r.next = "select_next_step"
          /\ r.steps = thread.steps /\ r.interrupted = thread.interrupted
          /\ r.cursor = thread.cursor
      BY <1>1 DEF Checkpoint, Node
    <2> HIDE DEF r
    <2>3. Follows(thread, r)
      BY <2>1 DEF Follows, Loop
    <2>4. QED
      BY <1>1, <1>2, <1>3, <2>1, <2>2, <2>3, EmitThenCommitHInv DEF Open
  <1>8. CASE SelectNextStep
    <2>1. PICK i \in DOMAIN thread.plan :
            /\ IsFirst(i, Selectable(thread))
            /\ EmitThenCommit(<<"progress">>,
                 [thread EXCEPT !.steps = [thread.steps EXCEPT ![i] = "running"],
                                !.idx = i, !.next = "execute_step"])
      BY <1>8 DEF SelectNextStep
    <2> DEFINE r == [thread EXCEPT !.steps = [thread.steps EXCEPT ![i] = "running"],
                                   !.idx = i, !.next = "execute_step"]
    <2>2. /\ thread.next = "select_next_step"
          /\ EmitThenCommit(<<"progress">>, r)
          /\ UNCHANGED <<redmine, saved, resuming, handed, runs, aborts>>
      BY <1>8, <2>1 DEF SelectNextStep, AtNode, ghosts
    <2>3. i \in StepNumber /\ Open(thread, i)
      BY <1>1, <2>1, PlanShape DEF Checkpoint, IsFirst, Selectable, Open
    <2>4. /\ r \in Checkpoint /\ r.next = "execute_step" /\ r.plan = thread.plan
          /\ r.steps = [thread.steps EXCEPT ![i] = "running"]
          /\ r.interrupted = thread.interrupted /\ r.analysis = thread.analysis
          /\ r.cursor = thread.cursor
      BY <1>1, <2>3 DEF Checkpoint, Node, StepStatus
    <2> HIDE DEF r
    <2>5. \A j \in StepNumber : Open(r, j) => Open(thread, j)
      BY <1>1, <2>3, <2>4 DEF Open, Checkpoint
    <2>6. Follows(thread, r)
      BY <2>4, <2>5 DEF Follows, Loop
    <2>7. thread.analysis => status = "in_progress"
      BY <1>1, <2>2 DEF HInv, AnnouncementOwed
    <2>8. QED
      BY <1>1, <1>2, <1>3, <2>2, <2>4, <2>5, <2>6, <2>7, EmitThenCommitHInv
  <1>9. CASE SelectNothing
    <2> DEFINE r == [thread EXCEPT !.idx = None, !.next = "finalize_execution"]
    <2>1. /\ thread.next = "select_next_step" /\ CommitNow(r)
          /\ UNCHANGED <<redmine, saved, resuming, runs, aborts>>
      BY <1>9 DEF SelectNothing, AtNode, ghosts
    <2>2. /\ r \in Checkpoint /\ r.next = "finalize_execution"
          /\ r.steps = thread.steps /\ r.interrupted = thread.interrupted
          /\ r.plan = thread.plan /\ r.cursor = thread.cursor
      BY <1>1 DEF Checkpoint, Node
    <2> HIDE DEF r
    <2>3. Follows(thread, r)
      BY <2>2 DEF Follows, Loop, Open
    <2>4. Follows(saved, r)
      BY <1>4, <2>1, <2>3, FollowsOn
    <2>5. thread.cursor <= r.cursor
      BY <1>1, <2>2, BoundAssumption DEF Checkpoint
    <2>6. QED
      BY <1>1, <1>2, <1>3, <2>1, <2>2, <2>4, <2>5, CommitNowHInv DEF Open
  <1>10. CASE ExecuteStep
    <2>1. PICK s \in {"completed", "skipped", "needs_user", "failed"} :
            \E events \in StepEvents(s) :
              EmitThenCommit(events, Recorded(thread, thread.idx, s))
      BY <1>10 DEF ExecuteStep
    <2>2. PICK events \in StepEvents(s) :
            EmitThenCommit(events, Recorded(thread, thread.idx, s))
      BY <2>1
    <2> DEFINE r == Recorded(thread, thread.idx, s)
    <2>3. /\ thread.next = "execute_step" /\ EmitThenCommit(events, r)
          /\ UNCHANGED <<redmine, saved, resuming, handed, aborts>>
          /\ runs' = [runs EXCEPT ![thread.idx] = runs[thread.idx] + 1]
      BY <1>10, <2>2 DEF ExecuteStep, AtNode
    <2>4. /\ thread.idx \in DOMAIN thread.plan /\ thread.idx \in StepNumber
          /\ r \in Checkpoint
          /\ r.cursor = thread.cursor /\ r.interrupted = thread.interrupted
          /\ r.plan = thread.plan /\ r.analysis = thread.analysis
          /\ r.steps = [thread.steps EXCEPT ![thread.idx] = s]
          /\ r.next \in {"finalize_execution", "select_next_step"}
          /\ s \in {"failed", "needs_user"} => r.next = "finalize_execution"
      BY <1>1, <2>3, RecordedShape
    <2> HIDE DEF r
    <2>5. Open(thread, thread.idx)
      BY <1>1, <2>3 DEF Good, LoopShape, Open
    <2>6. \A j \in StepNumber : Open(r, j) => j # thread.idx /\ Open(thread, j)
      BY <1>1, <2>4 DEF Open, Checkpoint
    <2>7. Follows(thread, r)
      BY <2>4, <2>6 DEF Follows, Loop
    <2>8. ASSUME r.analysis, r.next = "select_next_step"
          PROVE  events = <<"progress">> /\ status = "in_progress"
      <3>1. s \in {"completed", "skipped"}
        BY <2>4, <2>8
      <3>2. QED
        BY <1>1, <2>3, <2>4, <2>8, <3>1, OnlyStopsHandBack
        DEF HInv, AnnouncementOwed
    <2>9. /\ \A j \in StepNumber : runs'[j] <= 1 + aborts
          /\ \A j \in StepNumber : Open(r, j) => runs'[j] <= aborts
      BY <1>1, <1>2, <2>3, <2>4, <2>5, <2>6
    <2>10. QED
      BY <1>1, <1>3, <2>3, <2>4, <2>7, <2>8, <2>9, EmitThenCommitHInv
  <1>11. CASE StepBlocked
    <2> DEFINE r == Recorded(thread, thread.idx, "needs_user")
               events == <<"final_review", "progress">>
    <2>1. /\ thread.next = "execute_step" /\ EmitThenCommit(events, r)
          /\ UNCHANGED <<redmine, saved, resuming, handed, runs, aborts>>
      BY <1>11 DEF StepBlocked, AtNode, ghosts
    <2>2. /\ thread.idx \in StepNumber
          /\ r \in Checkpoint
          /\ r.cursor = thread.cursor /\ r.interrupted = thread.interrupted
          /\ r.plan = thread.plan
          /\ r.steps = [thread.steps EXCEPT ![thread.idx] = "needs_user"]
          /\ r.next = "finalize_execution"
      BY <1>1, <2>1, RecordedShape
    <2> HIDE DEF r, events
    <2>3. \A j \in StepNumber : Open(r, j) => Open(thread, j)
      BY <1>1, <2>2 DEF Open, Checkpoint
    <2>4. Follows(thread, r)
      BY <2>2, <2>3 DEF Follows, Loop
    <2>5. QED
      BY <1>1, <1>2, <1>3, <2>1, <2>2, <2>3, <2>4, EmitThenCommitHInv
  <1>12. CASE FinalizeExecution
    <2> DEFINE result == FinalStatus(thread)
               r == [thread EXCEPT !.result = result, !.next = "wait_for_human",
                                   !.idx = IF result = "processed" THEN None ELSE @]
    <2>1. result \in ResultStatus \ {"none"}
      BY DEF FinalStatus, ResultStatus
    <2>2. thread.idx \in StepNumber \cup {None}
      BY <1>1 DEF Checkpoint
    <2>3. /\ thread.next = "finalize_execution"
          /\ EmitThenCommit(FinalEvents(result), r)
          /\ UNCHANGED <<redmine, saved, resuming, handed, runs, aborts>>
      BY <1>12 DEF FinalizeExecution, AtNode, ghosts
    <2> HIDE DEF result
    <2>4. /\ r \in Checkpoint /\ r.next = "wait_for_human" /\ r.plan = thread.plan
          /\ r.steps = thread.steps /\ r.interrupted = thread.interrupted
          /\ r.cursor = thread.cursor
      BY <1>1, <2>1, <2>2 DEF Checkpoint, Node
    <2> HIDE DEF r
    <2>5. Follows(thread, r)
      BY <2>4 DEF Follows, Open
    <2>6. QED
      BY <1>1, <1>2, <1>3, <2>1, <2>3, <2>4, <2>5, FinalEventsHandBack,
         EmitThenCommitHInv DEF Open
  <1>13. CASE Interrupt
    <2> DEFINE r == [thread EXCEPT !.interrupted = TRUE]
    <2>1. /\ saved' = r /\ thread' = r /\ staged' = r /\ pc' = "idle"
          /\ thread.next = "wait_for_human" /\ resuming = FALSE
          /\ UNCHANGED <<resuming, runs, aborts>>
      BY <1>1, <1>13 DEF Interrupt, AtNode
    <2>2. /\ r.next = "wait_for_human" /\ r.steps = thread.steps
          /\ r.cursor \in Nat
      BY <1>1, <2>1, BoundAssumption DEF Checkpoint
    <2> HIDE DEF r
    <2>3. Copies'
      BY <2>1, <2>2 DEF Copies
    <2>4. Forward'
      BY <2>1, <2>2 DEF Forward, Follows
    <2>5. HandBackOwed' /\ AnnouncementOwed'
      BY <2>1 DEF HandBackOwed, AnnouncementOwed, HandedBackBeforeWaiting, AtNode
    <2>6. RunsPaid'
      BY <1>2, <2>1, <2>2 DEF RunsPaid, Open
    <2>7. QED
      BY <2>3, <2>4, <2>5, <2>6 DEF HInv
  <1>14. CASE WaitForHuman
    <2> DEFINE th == [Ingested(thread, fetched) EXCEPT !.interrupted = FALSE,
                                                       !.analysis = FALSE]
               next == IF fetched > thread.cursor
                       THEN "analyze_feedback" ELSE "request_feedback"
               r == [th EXCEPT !.next = next]
    <2>1. /\ Ingested(thread, fetched) \in Checkpoint
          /\ Ingested(thread, fetched).steps = thread.steps
          /\ Ingested(thread, fetched).interrupted = thread.interrupted
          /\ thread.cursor <= Ingested(thread, fetched).cursor
      BY <1>1, IngestedFields
    <2>2. next \in {"analyze_feedback", "request_feedback"}
      OBVIOUS
    <2>3. /\ th \in Checkpoint /\ th.interrupted = FALSE
          /\ th.steps = thread.steps /\ thread.cursor <= th.cursor
      BY <2>1 DEF Checkpoint
    <2>4. /\ CommitNow(r) /\ resuming' = FALSE
          /\ thread.next = "wait_for_human" /\ resuming
          /\ UNCHANGED <<redmine, saved, runs, aborts>>
      BY <1>14 DEF WaitForHuman, AtNode, ghosts
    <2> HIDE DEF next, th
    <2>5. /\ r \in Checkpoint /\ r.next = next /\ r.interrupted = FALSE
          /\ r.steps = thread.steps /\ thread.cursor <= r.cursor
      BY <2>2, <2>3 DEF Checkpoint, Node
    <2> HIDE DEF r
    <2>6. Follows(saved, r)
      BY <2>4 DEF HInv, Copies, Follows, Loop
    <2>7. QED
      BY <1>1, <1>2, <2>2, <2>4, <2>5, <2>6, CommitNowHInv DEF Open
  <1>15. CASE AnalyzeFeedback
    <2>1. PICK p \in Plans :
            CommitNow([Planned(thread, p) EXCEPT !.analysis = TRUE,
                                                 !.next = "publish_revision_plan"])
      BY <1>15 DEF AnalyzeFeedback
    <2> DEFINE r == [Planned(thread, p) EXCEPT !.analysis = TRUE,
                                               !.next = "publish_revision_plan"]
    <2>2. /\ thread.next = "analyze_feedback" /\ CommitNow(r)
          /\ UNCHANGED <<redmine, saved, resuming, aborts>>
          /\ \A i \in StepNumber : runs'[i] = 0
      BY <1>15, <2>1 DEF AnalyzeFeedback, AtNode
    <2>3. /\ r \in Checkpoint /\ r.next = "publish_revision_plan"
          /\ r.interrupted = thread.interrupted
          /\ thread.cursor = r.cursor
      BY <1>1, PlanShape DEF Planned, Checkpoint, Node, StepStatus, StepNumber
    <2> HIDE DEF r
    <2>4. Follows(thread, r)
      BY <2>2 DEF Follows, Loop
    <2>5. Follows(saved, r)
      BY <1>4, <2>2, <2>4, FollowsOn
    <2>6. thread.cursor <= r.cursor
      BY <1>1, <2>3, BoundAssumption DEF Checkpoint
    <2>7. \A i \in StepNumber : runs'[i] <= 1 + aborts /\ runs'[i] <= aborts
      BY <1>1, <2>2
    <2>8. QED
      BY <1>1, <1>3, <2>2, <2>3, <2>5, <2>6, <2>7, CommitNowHInv
  <1>16. CASE PublishRevisionPlan
    <2> DEFINE r == [thread EXCEPT !.next = "select_next_step"]
    <2>1. /\ thread.next = "publish_revision_plan"
          /\ EmitThenCommit(<<"start">>, r)
          /\ UNCHANGED <<redmine, saved, resuming, handed, runs, aborts>>
      BY <1>16 DEF PublishRevisionPlan, AtNode, ghosts
    <2>2. /\ r \in Checkpoint /\ r.next = "select_next_step"
          /\ r.steps = thread.steps /\ r.interrupted = thread.interrupted
          /\ r.cursor = thread.cursor
      BY <1>1 DEF Checkpoint, Node
    <2> HIDE DEF r
    <2>3. Follows(thread, r)
      BY <2>1 DEF Follows, Loop
    <2>4. QED
      BY <1>1, <1>2, <1>3, <2>1, <2>2, <2>3, EmitThenCommitHInv DEF Open
  <1>17. CASE RequestFeedback
    <2> DEFINE r == [thread EXCEPT !.result = "needs_user", !.next = "wait_for_human"]
    <2>1. /\ thread.next = "request_feedback"
          /\ EmitThenCommit(<<"final_review">>, r)
          /\ UNCHANGED <<redmine, saved, resuming, handed, runs, aborts>>
      BY <1>17 DEF RequestFeedback, AtNode, ghosts
    <2>2. /\ r \in Checkpoint /\ r.next = "wait_for_human"
          /\ r.steps = thread.steps /\ r.interrupted = thread.interrupted
          /\ r.cursor = thread.cursor
      BY <1>1 DEF Checkpoint, Node, ResultStatus
    <2> HIDE DEF r
    <2>3. Follows(thread, r)
      BY <2>1 DEF Follows, Loop
    <2>4. HandBackDue(<<"final_review">>)
      BY DEF HandBackDue, Final
    <2>5. QED
      BY <1>1, <1>2, <1>3, <2>1, <2>2, <2>3, <2>4, EmitThenCommitHInv DEF Open
  <1>18. QED
    BY <1>5, <1>6, <1>7, <1>8, <1>9, <1>10, <1>11, <1>12, <1>13, <1>14, <1>15,
       <1>16, <1>17 DEF GraphNode

\* The events of a node reach Redmine one by one: handing the ticket back is
\* either still due or done.
LEMMA HandBackMoves ==
  ASSUME NEW box \in Seq(EventKind), box # <<>>, HandBackDue(box)
  PROVE  Head(box) \in Final \/ HandBackDue(Tail(box))
  <1>1. PICK i \in DOMAIN box : box[i] \in Final
    BY DEF HandBackDue
  <1>2. CASE i = 1
    BY <1>1, <1>2
  <1>3. CASE i # 1
    <2>1. i - 1 \in DOMAIN Tail(box) /\ Tail(box)[i - 1] = box[i]
      BY <1>1, <1>3
    <2>2. QED
      BY <1>1, <2>1 DEF HandBackDue
  <1>4. QED
    BY <1>2, <1>3

\* What a step that leaves the checkpoints and the ghosts of the loop alone
\* keeps.
LEMMA FrameHInv ==
  ASSUME HInv, UNCHANGED <<saved, thread, staged, pc, resuming, runs, aborts>>,
         HandBackOwed', AnnouncementOwed'
  PROVE  HInv'
  BY DEF HInv, Copies, Forward, Follows, Open, RunsPaid

\* After an abort all three checkpoints are one again, and every execution so
\* far is paid for.
LEMMA AbortHInv ==
  ASSUME IInv, HInv, Abort, saved' \in {saved, thread, staged},
         thread' = saved', staged' = saved', pc' \in {"idle", "failing"},
         resuming' = FALSE, runs' = runs
  PROVE  HInv'
  <1>1. /\ saved'.cursor \in Nat /\ runs \in [StepNumber -> Nat]
        /\ aborts \in Nat /\ aborts' = aborts + 1
    BY BoundAssumption DEF IInv, Scalars, Good, Checkpoint, Abort
  <1>2. Copies'
    <2>1. saved'.interrupted => saved'.next = "wait_for_human"
      BY DEF HInv, Copies
    <2>2. QED
      BY <2>1 DEF Copies
  <1>3. Forward'
    BY <1>1 DEF Forward, Follows
  <1>4. HandBackOwed' /\ AnnouncementOwed'
    BY DEF HandBackOwed, AnnouncementOwed, HandedBackBeforeWaiting, AtNode
  <1>5. RunsPaid'
    <2>1. \A i \in StepNumber : runs'[i] <= aborts'
      BY <1>1 DEF HInv, RunsPaid
    <2>2. QED
      BY <1>1, <2>1 DEF RunsPaid
  <1>6. QED
    BY <1>2, <1>3, <1>4, <1>5 DEF HInv

\* Every step.
LEMMA NextHInv == IInv /\ HInv /\ [Next]_vars => HInv'
  <1> SUFFICES ASSUME IInv, HInv, [Next]_vars
               PROVE  HInv'
    OBVIOUS
  <1>1. /\ MaxComments \in Nat /\ MaxAborts \in Nat /\ outbox \in Seq(EventKind)
        /\ thread.interrupted \in BOOLEAN /\ thread.analysis \in BOOLEAN
        /\ thread.cursor \in Nat /\ staged.cursor \in Nat /\ saved.cursor \in Nat
    BY BoundAssumption DEF IInv, Scalars, Good, Checkpoint
  <1>2. CASE HumanStep
    <2>1. UNCHANGED <<status, saved, thread, staged, outbox, pc, resuming,
                      handed, runs, aborts>>
      BY <1>2 DEF HumanStep, HumanComments, HumanReassigns, ghosts
    <2>2. HandBackOwed' /\ AnnouncementOwed'
      BY <2>1 DEF HInv, HandBackOwed, AnnouncementOwed, HandedBackBeforeWaiting, AtNode
    <2>3. QED
      BY <2>1, <2>2, FrameHInv
  <1>3. CASE BeginRun
    <2>1. /\ pc = "idle" /\ saved = thread /\ staged = thread
          /\ UNCHANGED <<saved, thread, staged, status, runs, aborts>>
          /\ resuming' = thread.interrupted
          /\ handed' = (thread.next = "wait_for_human" /\ ~thread.interrupted)
          /\ thread.interrupted => thread.next = "wait_for_human"
      BY <1>3 DEF BeginRun, HInv, Copies, redmine, IsInterrupted
    <2>2. \/ RevisionStepResume(thread) /\ pc' = "emit" /\ outbox' = <<"start">>
          \/ ~RevisionStepResume(thread) /\ pc' = "run"
      BY <1>3 DEF BeginRun
    <2>3. Copies'
      BY <2>1, <2>2 DEF HInv, Copies, RevisionStepResume
    <2>4. Forward'
      BY <2>1 DEF HInv, Forward
    <2>5. HandBackOwed'
      BY <2>1, <2>2
      DEF HandBackOwed, HandedBackBeforeWaiting, AtNode, RevisionStepResume
    <2>6. AnnouncementOwed'
      BY <2>1, <2>2 DEF AnnouncementOwed, RevisionStepResume
    <2>7. RunsPaid'
      BY <2>1 DEF HInv, RunsPaid, Open
    <2>8. QED
      BY <2>3, <2>4, <2>5, <2>6, <2>7 DEF HInv
  <1>4. CASE GraphNode
    BY <1>4, NodeHInv
  <1>5. CASE Emit
    <2>1. /\ pc = "emit" /\ outbox # <<>> /\ outbox' = Tail(outbox)
          /\ UNCHANGED <<saved, thread, staged, pc, resuming, runs, aborts>>
          /\ status' = CASE Head(outbox) = "start" -> "in_progress"
                         [] Head(outbox) \in Final -> "review"
                         [] OTHER -> status
          /\ handed' = (handed \/ Head(outbox) \in Final)
      BY <1>5 DEF Emit, Apply, Final
    <2>2. HandBackOwed'
      BY <1>1, <2>1, HandBackMoves
      DEF HInv, HandBackOwed, HandedBackBeforeWaiting, AtNode
    <2>3. AnnouncementOwed'
      BY <2>1 DEF HInv, AnnouncementOwed, Final
    <2>4. QED
      BY <2>1, <2>2, <2>3, FrameHInv
  <1>6. CASE Commit
    <2>1. /\ pc = "emit" /\ outbox = <<>> /\ thread' = staged /\ pc' = "run"
          /\ UNCHANGED <<status, saved, staged, outbox, resuming, handed, runs, aborts>>
      BY <1>6 DEF Commit, redmine, ghosts
    <2>2. ~HandBackDue(outbox)
      BY <2>1 DEF HandBackDue
    <2>3. Copies'
      BY <2>1 DEF HInv, Copies
    <2>4. Forward'
      BY <1>1, <2>1 DEF HInv, Forward, Follows
    <2>5. HandBackOwed'
      BY <2>1, <2>2 DEF HInv, HandBackOwed, HandedBackBeforeWaiting, AtNode
    <2>6. AnnouncementOwed'
      BY <2>1 DEF HInv, AnnouncementOwed
    <2>7. RunsPaid'
      BY <2>1 DEF HInv, RunsPaid, Open
    <2>8. QED
      BY <2>3, <2>4, <2>5, <2>6, <2>7 DEF HInv
  <1>7. CASE Flush
    <2>1. /\ saved' = thread
          /\ UNCHANGED <<status, thread, staged, outbox, pc, resuming, handed,
                         runs, aborts>>
      BY <1>7 DEF Flush, redmine, ghosts
    <2>2. Copies'
      BY <2>1 DEF HInv, Copies
    <2>3. Forward'
      BY <1>1, <2>1 DEF HInv, Forward, Follows
    <2>4. HandBackOwed' /\ AnnouncementOwed'
      BY <2>1 DEF HInv, HandBackOwed, AnnouncementOwed, HandedBackBeforeWaiting, AtNode
    <2>5. RunsPaid'
      BY <2>1 DEF HInv, RunsPaid, Open
    <2>6. QED
      BY <2>2, <2>3, <2>4, <2>5 DEF HInv
  <1>8. CASE RunRaises
    BY <1>8, AbortHInv DEF RunRaises
  <1>9. CASE EmitRaisesApplied
    BY <1>9, AbortHInv DEF EmitRaisesApplied
  <1>10. CASE ReportFailure
    <2>1. /\ pc = "failing" /\ pc' = "idle"
          /\ UNCHANGED <<saved, thread, staged, resuming, runs, aborts>>
      BY <1>10 DEF ReportFailure, Idle
    <2>2. Copies'
      BY <2>1 DEF HInv, Copies
    <2>3. HandBackOwed' /\ AnnouncementOwed'
      BY <2>1 DEF HandBackOwed, AnnouncementOwed, HandedBackBeforeWaiting, AtNode
    <2>4. Forward' /\ RunsPaid'
      BY <2>1 DEF HInv, Forward, RunsPaid, Follows, Open
    <2>5. QED
      BY <2>2, <2>3, <2>4 DEF HInv
  <1>11. CASE ReportFailureRaises
    <2>1. /\ pc = "failing" /\ pc' = "idle" /\ Abort
          /\ saved = thread /\ staged = thread /\ ~resuming
          /\ UNCHANGED <<saved, thread, staged, resuming, runs>>
      BY <1>11 DEF ReportFailureRaises, Idle, HInv, Copies
    <2>2. resuming' = FALSE
      BY <2>1 DEF IInv, Scalars
    <2>3. QED
      BY <2>1, <2>2, AbortHInv
  <1>12. CASE Crash
    BY <1>12, AbortHInv DEF Crash, Idle
  <1>13. CASE UNCHANGED vars
    <2>1. UNCHANGED <<status, saved, thread, staged, outbox, pc, resuming,
                      handed, runs, aborts>>
      BY <1>13 DEF vars
    <2>2. HandBackOwed' /\ AnnouncementOwed'
      BY <2>1 DEF HInv, HandBackOwed, AnnouncementOwed, HandedBackBeforeWaiting, AtNode
    <2>3. QED
      BY <2>1, <2>2, FrameHInv
  <1>14. QED
    BY <1>2, <1>3, <1>4, <1>5, <1>6, <1>7, <1>8, <1>9, <1>10, <1>11, <1>12,
       <1>13 DEF Next, AgentStep, Failure
-----------------------------------------------------------------------------
(* Theorems. *)

\* Every checkpoint a restart may fall back to is a good one, in every state.
THEOREM Invariance == Spec => []IInv
  BY InitIInv, NextIInv, PTL DEF Spec

\* Every variable keeps its type, whatever the plans and the bounds.
THEOREM TypeCorrect == Spec => []TypeOK
  <1>1. IInv => TypeOK
    BY BoundAssumption DEF IInv, Scalars, Good, TypeOK
  <1>2. QED
    BY <1>1, Invariance, PTL

\* No restart, exception or race with the human loses a comment or reads it
\* twice: _wait_for_human and _initialize ingest each journal exactly once.
THEOREM NoCommentLostOrRepeated == Spec => []CommentsIngestedOnce
  <1>1. IInv => CommentsIngestedOnce
    BY DEF IInv, Good, CommentsIngestedOnce
  <1>2. QED
    BY <1>1, Invariance, PTL

\* select_next_step and execute_step settle the steps of every plan in order
\* and complete none before the steps it depends on.
THEOREM OrderedSteps == Spec => []StepsInOrder
  <1>1. IInv => StepsInOrder
    BY DEF IInv, Good, StepsInOrder
  <1>2. QED
    BY <1>1, Invariance, PTL

\* Each node of the step loop finds the checkpoint it relies on, also when a
\* restart resumes it from an old one.
THEOREM LoopShapeKept == Spec => []StepLoopShape
  <1>1. IInv => StepLoopShape
    BY DEF IInv, Good, StepLoopShape
  <1>2. QED
    BY <1>1, Invariance, PTL

\* Both invariants, which every theorem below cites.
THEOREM HistoryInvariance == Spec => [](IInv /\ HInv)
  BY InitIInv, NextIInv, InitHInv, NextHInv, PTL DEF Spec

\* Whichever node a run ends at, and wherever it was resumed from, the ticket
\* has gone back to its author before the graph waits at its interrupt.
THEOREM HandedBack == Spec => []HandedBackBeforeWaiting
  <1>1. HInv => HandedBackBeforeWaiting
    BY DEF HInv, HandBackOwed
  <1>2. QED
    BY <1>1, HistoryInvariance, PTL

\* No step of a revision executes on a ticket that does not say so, also when
\* run() resumes the revision in the middle of its step loop.
THEOREM Announced == Spec => []RevisionAnnounced
  <1>1. HInv => RevisionAnnounced
    BY DEF HInv, AnnouncementOwed, RevisionAnnounced, AtNode
  <1>2. QED
    BY <1>1, HistoryInvariance, PTL

\* A step that is executed is open in the durable checkpoint too, if that
\* checkpoint belongs to the same round of the loop.
LEMMA OnlyOpenStepsAreRun ==
  ASSUME IInv, HInv, [Next]_vars
  PROVE  OnlyOpenStepsRun
  <1> SUFFICES ASSUME NEW i \in DOMAIN saved.plan, runs'[i] > runs[i],
                      saved.next \in Loop
               PROVE  Open(saved, i)
    BY DEF OnlyOpenStepsRun, Loop, Open
  <1>1. /\ i \in StepNumber /\ runs \in [StepNumber -> Nat]
        /\ Good(thread, comments)
    BY PlanShape DEF IInv, Scalars, Good, Checkpoint
  <1>2. runs[i] \in Nat /\ ~(0 > runs[i]) /\ ~(runs[i] > runs[i])
    BY <1>1
  <1>3. ExecuteStep
    <2>1. runs' # runs
      BY <1>2
    <2>2. InitialPlan \/ AnalyzeFeedback => FALSE
      BY <1>1, <1>2 DEF InitialPlan, AnalyzeFeedback
    <2>3. CASE GraphNode
      BY <2>1, <2>2, <2>3
      DEF GraphNode, Initialize, PublishInitialPlan, SelectNextStep,
          SelectNothing, StepBlocked, FinalizeExecution, Interrupt,
          WaitForHuman, PublishRevisionPlan, RequestFeedback, ghosts
    <2>4. CASE ~GraphNode
      BY <2>1, <2>4
      DEF Next, vars, HumanStep, HumanComments, HumanReassigns, AgentStep,
          BeginRun, Emit, Commit, ReportFailure, Flush, Failure, RunRaises,
          EmitRaisesApplied, ReportFailureRaises, Crash, ghosts
    <2>5. QED
      BY <2>3, <2>4
  <1>4. /\ thread.next = "execute_step"
        /\ runs' = [runs EXCEPT ![thread.idx] = runs[thread.idx] + 1]
    BY <1>3 DEF ExecuteStep, AtNode
  <1>5. i = thread.idx
    BY <1>1, <1>2, <1>4
  <1>6. Open(thread, i)
    BY <1>1, <1>4, <1>5 DEF Good, LoopShape, Open
  <1>7. QED
    BY <1>1, <1>6 DEF HInv, Forward, Follows

\* Crashes and exceptions repeat a step, each at most once, and never one
\* whose end is durable for the same plan: execute_step is at least once, and
\* exactly once where nothing is cut short.
THEOREM BoundedRepetition == Spec => RepetitionBounded
  <1>1. ASSUME IInv, HInv, HInv', [Next]_vars
        PROVE  OnlyOpenStepsRun /\ \A i \in StepNumber : runs'[i] <= 1 + aborts'
    BY <1>1, OnlyOpenStepsAreRun DEF HInv, RunsPaid
  <1>2. IInv /\ HInv /\ HInv' /\ [Next]_vars
        => [OnlyOpenStepsRun /\ \A i \in StepNumber : runs'[i] <= 1 + aborts']_vars
    BY <1>1
  <1>3. QED
    BY <1>2, HistoryInvariance, PTL DEF Spec, RepetitionBounded
-----------------------------------------------------------------------------
(* The refinement of TicketProtocol, step by step. *)

\* A new ticket is one the agent has promised nothing about yet.
LEMMA InitRefines == Init => Protocol!Init
  BY DEF Init, NewThread, Protocol!Init

\* While a run is in progress: the ticket changes as Redmine applies one
\* event or the failure report, and what is durable moves to a checkpoint that
\* has read at least as much.
LEMMA WorkRefines ==
  ASSUME IInv, pc # "idle", comments' = comments,
         \/ UNCHANGED <<assignee, status>>
         \/ status' = "in_progress" /\ assignee' = assignee
         \/ status' = "review" /\ assignee' = "author",
         saved'.cursor \in saved.cursor .. comments
  PROVE  Protocol!Work
  <1>1. (pc' # "idle") \in BOOLEAN
    OBVIOUS
  <1>2. QED
    BY <1>1
    DEF Protocol!Work, Protocol!Announce, Protocol!HandBack, Protocol!Silent

\* An event is an announcement, a hand-back or no change of the ticket.
LEMMA ApplyRefines ==
  ASSUME NEW kind \in EventKind, Apply(kind)
  PROVE  \/ UNCHANGED <<assignee, status>>
         \/ status' = "in_progress" /\ assignee' = assignee
         \/ status' = "review" /\ assignee' = "author"
  BY DEF Apply, EventKind

\* Every step of the graph is a step of the protocol or changes nothing in it.
LEMMA NextRefines ==
  ASSUME IInv, HInv, [Next]_vars
  PROVE  [Protocol!Next]_(Protocol!vars)
  <1>1. /\ comments \in Nat /\ pc \in {"idle", "run", "emit", "failing"}
        /\ \A th \in {saved, thread, staged} :
             th.cursor \in Nat /\ th.cursor <= comments
        /\ saved.cursor <= thread.cursor /\ thread.cursor <= staged.cursor
    BY BoundAssumption
    DEF IInv, Scalars, Good, Checkpoint, IngestedOnce, HInv, Forward
  <1>2. \A th \in {saved, thread, staged} : th.cursor \in saved.cursor .. comments
    BY <1>1
  <1>3. CASE HumanComments
    BY <1>3 DEF HumanComments, Protocol!Next, Protocol!HumanComments
  <1>4. CASE HumanReassigns
    BY <1>4 DEF HumanReassigns, Protocol!Next, Protocol!HumanReassigns
  <1>5. CASE BeginRun
    BY <1>5 DEF BeginRun, FetchIssue, redmine, Protocol!Next, Protocol!Begin
  <1>6. CASE GraphNode
    <2>1. pc = "run" /\ UNCHANGED redmine
      BY <1>6 DEF GraphNode, AtNode, Initialize, InitialPlan, PublishInitialPlan,
        SelectNextStep, SelectNothing, ExecuteStep, StepBlocked,
        FinalizeExecution, Interrupt, WaitForHuman, AnalyzeFeedback,
        PublishRevisionPlan, RequestFeedback
    <2>2. saved' = saved \/ saved' = [thread EXCEPT !.interrupted = TRUE]
      BY <1>6 DEF GraphNode, Initialize, InitialPlan, PublishInitialPlan,
        SelectNextStep, SelectNothing, ExecuteStep, StepBlocked,
        FinalizeExecution, Interrupt, WaitForHuman, AnalyzeFeedback,
        PublishRevisionPlan, RequestFeedback
    <2>3. [thread EXCEPT !.interrupted = TRUE].cursor = thread.cursor
      BY DEF IInv, Good, Checkpoint
    <2>4. QED
      BY <1>2, <2>1, <2>2, <2>3, WorkRefines DEF redmine, Protocol!Next
  <1>7. CASE Emit
    <2>1. Head(outbox) \in EventKind
      BY <1>7 DEF Emit, IInv, Scalars
    <2>2. Apply(Head(outbox)) /\ pc = "emit" /\ saved' = saved
      BY <1>7 DEF Emit
    <2>3. comments' = comments
      BY <2>2 DEF Apply
    <2>4. QED
      BY <1>2, <2>1, <2>2, <2>3, ApplyRefines, WorkRefines DEF Protocol!Next
  <1>8. CASE Commit
    BY <1>2, <1>8, WorkRefines DEF Commit, redmine, Protocol!Next
  <1>9. CASE ReportFailure
    BY <1>2, <1>9, WorkRefines DEF ReportFailure, Protocol!Next
  <1>10. CASE Flush
    <2>1. pc # "idle"
      BY <1>10 DEF Flush, HInv, Copies
    <2>2. QED
      BY <1>2, <1>10, <2>1, WorkRefines DEF Flush, redmine, Protocol!Next
  <1>11. CASE RunRaises
    BY <1>2, <1>11, WorkRefines DEF RunRaises, redmine, Protocol!Next
  <1>12. CASE EmitRaisesApplied
    <2>1. Head(outbox) \in EventKind
      BY <1>12 DEF EmitRaisesApplied, IInv, Scalars
    <2>2. Apply(Head(outbox)) /\ pc = "emit" /\ saved' = thread
      BY <1>12 DEF EmitRaisesApplied
    <2>3. comments' = comments
      BY <2>2 DEF Apply
    <2>4. QED
      BY <1>2, <2>1, <2>2, <2>3, ApplyRefines, WorkRefines DEF Protocol!Next
  <1>13. CASE ReportFailureRaises
    BY <1>2, <1>13, WorkRefines DEF ReportFailureRaises, redmine, Protocol!Next
  <1>14. CASE Crash
    BY <1>2, <1>14, WorkRefines DEF Crash, redmine, Protocol!Next
  <1>15. CASE UNCHANGED vars
    BY <1>15 DEF vars, Protocol!vars
  <1>16. QED
    BY <1>3, <1>4, <1>5, <1>6, <1>7, <1>8, <1>9, <1>10, <1>11, <1>12, <1>13,
       <1>14, <1>15 DEF Next, HumanStep, AgentStep, Failure

\* The safety half of RefinesProtocol: every behaviour of the graph, its
\* checkpoints and its failures, is one of the protocol's.
THEOREM SafetyRefinement ==
  Spec => Protocol!Init /\ [][Protocol!Next]_(Protocol!vars)
  <1>1. Init => Protocol!Init
    BY InitRefines
  <1>2. IInv /\ HInv /\ [Next]_vars => [Protocol!Next]_(Protocol!vars)
    BY NextRefines
  <1>3. QED
    BY <1>1, <1>2, HistoryInvariance, PTL DEF Spec
=============================================================================
