------------------------ MODULE StepExecutionProofs ------------------------
(***************************************************************************)
(* Proofs about StepExecution, for skills of any number of calls.          *)
(*                                                                         *)
(* The invariant follows a step from its first attempt to its settlement:  *)
(* until it is assessed, a tool step has made at most one call and has the *)
(* status of that call; the retry makes the second one, and only if that   *)
(* status was a failure.                                                   *)
(***************************************************************************)
EXTENDS StepExecution, TLAPS

Args == {"planned", "stripped", "query", "other_query"}
Answers == {"refused", "ok", "not_ok", "error", "exception"}

CallRecords == [args : Args, outcome : Answers]

CallsTyped == calls \in Seq(CallRecords)

Succeeded == status \in {"processed", "dry_run", "already_done"}
LastOk == Len(calls) > 0 /\ calls[Len(calls)].outcome = "ok"

\* A tool step between its attempts, and settled.
ToolShape ==
  step.kind = "tool" =>
    /\ pc = "ready" => Len(calls) = 0
    /\ pc = "assess" => Len(calls) <= 1
    /\ pc # "skill"
    /\ pc \in {"assess", "done"} => (Succeeded <=> LastOk)
    /\ \A k \in DOMAIN calls : calls[k].outcome = "ok" => k = Len(calls)

\* A result that is being assessed ends with a final event, a skipped step
\* has none and is settled at once.
FinalShape ==
  /\ pc \in {"ready", "skill"} => status = "none"
  /\ pc = "assess" =>
       /\ \E k \in DOMAIN events : events[k] \in {"final_review", "final_return"}
       /\ status \in Statuses \ {"none", "skipped"}
  /\ pc = "done" /\ Stops(status) =>
       \E k \in DOMAIN events : events[k] \in {"final_review", "final_return"}

CallsShape ==
  /\ pc = "ready" => Len(calls) = 0
  /\ pc = "skill" => step.kind = "skill"

IInv == TypeOK /\ CallsTyped /\ PolicyHolds /\ ToolShape /\ FinalShape /\ CallsShape
-----------------------------------------------------------------------------
\* A call adds itself to the calls, writes at most once and nothing at all in a
\* dry run, and answers only "refused" where an approval is wanted.
LEMMA CallEffect ==
  ASSUME step \in Steps, dry \in BOOLEAN, writes \in Nat, CallsTyped,
         NEW args \in Args, NEW outcome \in Answers, Call(args, outcome)
  PROVE  /\ calls' = Append(calls, [args |-> args, outcome |-> outcome])
         /\ calls' \in Seq(CallRecords)
         /\ Len(calls') = Len(calls) + 1
         /\ writes' \in {writes, writes + 1}
         /\ dry => writes' = writes
         /\ step.risk = "approval_required" => outcome = "refused"
<1>1. calls' = Append(calls, [args |-> args, outcome |-> outcome])
  BY DEF Call
<1>2. [args |-> args, outcome |-> outcome] \in CallRecords
  BY DEF CallRecords
<1>3. PICK n \in Left(args, outcome) : writes' = writes + n
  BY DEF Call
<1>4. n \in {0, 1}
  BY DEF Left
<1>5. outcome \in Outcomes(args)
  BY DEF Call
<1>6. Refused => outcome = "refused"
  BY <1>5 DEF Outcomes
<1>7. dry => n = 0
  <2>1. SUFFICES ASSUME dry, ~(step.risk = "read"), ~step.dry_run_safe
                 PROVE  Refused
    BY <1>3, <1>6 DEF Left
  <2> QED
    BY <2>1 DEF Refused, Risk, Steps
<1>8. step.risk = "approval_required" => Refused
  BY DEF Refused, Risk
<1> QED
  BY <1>1, <1>2, <1>3, <1>4, <1>6, <1>7, <1>8 DEF CallsTyped

\* The calls a step makes answer in one of five ways.
LEMMA OutcomesTyped ==
  ASSUME NEW args PROVE Outcomes(args) \subseteq Answers
BY DEF Outcomes, Answers

LEMMA InitIInv == Init => IInv
<1> SUFFICES ASSUME Init PROVE IInv
  OBVIOUS
<1>1. calls = <<>> /\ Len(calls) = 0 /\ events = <<>> /\ writes = 0
  BY DEF Init
<1>2. TypeOK
  BY <1>1, StepAssumption DEF Init, TypeOK, Statuses
<1> QED
  BY <1>1, <1>2 DEF Init, IInv, CallsTyped, PolicyHolds, ToolShape, FinalShape,
                    CallsShape
-----------------------------------------------------------------------------
Kinds == {"progress", "final_review", "final_return"}
HasFinal(evs) == \E k \in DOMAIN evs : evs[k] \in {"final_review", "final_return"}

\* Putting further events behind a result's events keeps a final one.
LEMMA FinalKept ==
  ASSUME NEW first \in Seq(Kinds), NEW second \in Seq(Kinds), HasFinal(first)
  PROVE  /\ first \o second \in Seq(Kinds)
         /\ HasFinal(first \o second)
<1>1. PICK k \in DOMAIN first : first[k] \in {"final_review", "final_return"}
  BY DEF HasFinal
<1>2. k \in DOMAIN (first \o second) /\ (first \o second)[k] = first[k]
  BY <1>1
<1> QED
  BY <1>1, <1>2 DEF HasFinal

\* The events of a call have a final one and are what a result may hold.
LEMMA ResultEventsFinal ==
  ASSUME NEW outcome
  PROVE  ResultEvents(outcome) \in Seq(Kinds) /\ HasFinal(ResultEvents(outcome))
<1>1. <<"progress", "final_review">> \in Seq(Kinds) /\ HasFinal(<<"progress", "final_review">>)
  <2>1. 2 \in DOMAIN <<"progress", "final_review">>
    OBVIOUS
  <2> QED
    BY <2>1 DEF Kinds, HasFinal
<1>2. <<"progress", "final_return">> \in Seq(Kinds) /\ HasFinal(<<"progress", "final_return">>)
  <2>1. 2 \in DOMAIN <<"progress", "final_return">>
    OBVIOUS
  <2> QED
    BY <2>1 DEF Kinds, HasFinal
<1>3. <<"final_return">> \in Seq(Kinds) /\ HasFinal(<<"final_return">>)
  <2>1. 1 \in DOMAIN <<"final_return">>
    OBVIOUS
  <2> QED
    BY <2>1 DEF Kinds, HasFinal
<1> QED
  BY <1>1, <1>2, <1>3 DEF ResultEvents

\* A retry is announced between the events of the two attempts.
LEMMA RetriedEventsFinal ==
  ASSUME NEW first \in Seq(Kinds), NEW second \in Seq(Kinds), HasFinal(first)
  PROVE  /\ RetriedEvents(first, second) \in Seq(Kinds)
         /\ HasFinal(RetriedEvents(first, second))
<1>1. <<"progress", "progress">> \in Seq(Kinds)
  BY DEF Kinds
<1>2. /\ first \o <<"progress", "progress">> \in Seq(Kinds)
      /\ HasFinal(first \o <<"progress", "progress">>)
  BY <1>1, FinalKept
<1> QED
  BY <1>2, FinalKept DEF RetriedEvents

\* A result whose events have a final one may be assessed or settled.
LEMMA SettledIInv ==
  ASSUME IInv, step' = step, dry' = dry, calls' = calls, writes' = writes,
         pc' \in {"assess", "done"}, HasFinal(events'), events' \in Seq(Kinds),
         status' \in Statuses \ {"none", "skipped"},
         step.kind = "tool" =>
           /\ pc # "raised"
           /\ Len(calls) = 0 \/ pc' = "done"
           /\ status' \in {"processed", "dry_run", "already_done"} <=> LastOk
  PROVE  IInv'
<1>1. TypeOK'
  BY DEF IInv, TypeOK, Kinds
<1>2. CallsTyped' /\ PolicyHolds' /\ CallsShape'
  BY DEF IInv, CallsTyped, PolicyHolds, CallsShape
<1>3. FinalShape'
  BY DEF FinalShape, HasFinal
<1>4. ToolShape'
  <2> SUFFICES ASSUME step.kind = "tool" PROVE ToolShape'
    BY DEF ToolShape
  <2>1. Succeeded' <=> LastOk'
    BY DEF Succeeded, LastOk
  <2>2. pc' = "assess" => Len(calls') <= 1
    OBVIOUS
  <2> QED
    BY <2>1, <2>2 DEF IInv, ToolShape
<1> QED
  BY <1>1, <1>2, <1>3, <1>4 DEF IInv

\* The events that results are made of.
LEMMA LiteralsFinal ==
  /\ <<"progress">> \in Seq(Kinds) /\ <<"progress", "progress">> \in Seq(Kinds)
  /\ <<"final_review">> \in Seq(Kinds) /\ HasFinal(<<"final_review">>)
  /\ <<"final_return">> \in Seq(Kinds) /\ HasFinal(<<"final_return">>)
  /\ <<"progress", "final_review">> \in Seq(Kinds)
  /\ HasFinal(<<"progress", "final_review">>)
  /\ <<"progress", "final_return">> \in Seq(Kinds)
  /\ HasFinal(<<"progress", "final_return">>)
<1>1. /\ <<"progress">> \in Seq(Kinds) /\ <<"progress", "progress">> \in Seq(Kinds)
      /\ <<"final_review">> \in Seq(Kinds) /\ <<"final_return">> \in Seq(Kinds)
      /\ <<"progress", "final_review">> \in Seq(Kinds)
      /\ <<"progress", "final_return">> \in Seq(Kinds)
  BY DEF Kinds
<1>2. /\ 1 \in DOMAIN <<"final_review">> /\ 1 \in DOMAIN <<"final_return">>
      /\ 2 \in DOMAIN <<"progress", "final_review">>
      /\ 2 \in DOMAIN <<"progress", "final_return">>
  OBVIOUS
<1> QED
  BY <1>1, <1>2 DEF HasFinal

\* The first attempt without a call.
LEMMA FirstIInv ==
  ASSUME IInv, \/ Unavailable \/ LlmStep \/ ToolMissing \/ ToolBroken
               \/ ToolConflict \/ SkillStarts \/ SkillEnds
  PROVE  IInv'
<1>1. CASE Unavailable
  <2>1. Len(calls) = 0 /\ events' \in Seq(Kinds)
    BY <1>1, LiteralsFinal DEF Unavailable, Ends, IInv, CallsShape
  <2>2. TypeOK'
    BY <1>1, <2>1 DEF Unavailable, Ends, IInv, TypeOK, Kinds, Statuses
  <2> QED
    BY <1>1, <2>2 DEF Unavailable, Ends, IInv, CallsTyped, PolicyHolds, CallsShape,
                      ToolShape, FinalShape, Stops
<1>2. CASE LlmStep
  <2>1. HasFinal(events') /\ events' \in Seq(Kinds)
    BY <1>2, LiteralsFinal DEF LlmStep, Ends
  <2>2. status' \in Statuses \ {"none", "skipped"}
    BY <1>2 DEF LlmStep, Ends, Processed, Statuses
  <2>3. /\ step' = step /\ dry' = dry /\ calls' = calls /\ writes' = writes
        /\ pc' = "assess" /\ step.kind # "tool"
    BY <1>2 DEF LlmStep
  <2> QED
    BY <2>1, <2>2, <2>3, SettledIInv
<1>3. CASE ToolMissing \/ ToolBroken \/ ToolConflict
  <2>1. HasFinal(events') /\ events' \in Seq(Kinds)
    BY <1>3, LiteralsFinal DEF ToolMissing, ToolBroken, ToolConflict, Ends
  <2>2. status' \in {"needs_user", "failed"}
    BY <1>3 DEF ToolMissing, ToolBroken, ToolConflict, Ends
  <2>3. /\ step' = step /\ dry' = dry /\ calls' = calls /\ writes' = writes
        /\ pc = "ready" /\ pc' = "assess" /\ Len(calls) = 0
    BY <1>3 DEF ToolMissing, ToolBroken, ToolConflict, IInv, CallsShape
  <2>4. ~ LastOk
    BY <2>3 DEF LastOk
  <2>5. status' \in Statuses \ {"none", "skipped"}
    BY <2>2 DEF Statuses
  <2> QED
    BY <2>1, <2>2, <2>3, <2>4, <2>5, SettledIInv
<1>4. CASE SkillStarts
  BY <1>4 DEF SkillStarts, IInv, TypeOK, CallsTyped, PolicyHolds, ToolShape,
              FinalShape, CallsShape
<1>5. CASE SkillEnds
  <2>0. PICK result \in SkillResults : status' = result[1] /\ events' = result[2]
    BY <1>5 DEF SkillEnds, Ends
  <2>1. HasFinal(events') /\ events' \in Seq(Kinds)
    BY <2>0, LiteralsFinal DEF SkillResults
  <2>2. status' \in Statuses \ {"none", "skipped"}
    BY <2>0 DEF SkillResults, Processed, Statuses
  <2>3. /\ step' = step /\ dry' = dry /\ calls' = calls /\ writes' = writes
        /\ pc' = "assess" /\ step.kind # "tool"
    BY <1>5 DEF SkillEnds, IInv, CallsShape
  <2> QED
    BY <2>1, <2>2, <2>3, SettledIInv
<1> QED
  BY <1>1, <1>2, <1>3, <1>4, <1>5

\* A call of a tool step, the first or the second, that follows no success.
LEMMA ToolCallIInv ==
  ASSUME IInv, step.kind = "tool", step' = step, dry' = dry,
         NEW args \in Args, NEW outcome \in Answers, Call(args, outcome),
         Len(calls) <= 1, \A k \in DOMAIN calls : calls[k].outcome # "ok",
         events' \in Seq(Kinds),
         \/ pc' = "raised" /\ status' = status
         \/ /\ pc' \in {"assess", "done"}
            /\ pc' = "assess" => Len(calls) = 0
            /\ status' = ResultStatus(outcome)
            /\ HasFinal(events')
  PROVE  IInv'
<1>1. /\ step \in Steps /\ dry \in BOOLEAN /\ writes \in 0 .. Len(calls)
      /\ writes \in Nat /\ status \in Statuses /\ CallsTyped
  BY DEF IInv, TypeOK, CallsTyped
<1>2. /\ calls' = Append(calls, [args |-> args, outcome |-> outcome])
      /\ calls' \in Seq(CallRecords)
      /\ Len(calls') = Len(calls) + 1
      /\ writes' \in {writes, writes + 1}
      /\ dry => writes' = writes
      /\ step.risk = "approval_required" => outcome = "refused"
  BY <1>1, CallEffect
<1>3. /\ \A k \in DOMAIN calls : calls'[k] = calls[k]
      /\ calls'[Len(calls')].outcome = outcome
      /\ \A k \in DOMAIN calls' : k \in DOMAIN calls \/ k = Len(calls')
  BY <1>1, <1>2 DEF CallsTyped
<1>4. pc' \in {"assess", "done"} => status' \in Statuses \ {"none", "skipped"}
  BY DEF ResultStatus, Processed, Statuses
<1>5. TypeOK'
  BY <1>1, <1>2, <1>4 DEF TypeOK, Kinds, CallsTyped
<1>6. PolicyHolds'
  BY <1>2, <1>3 DEF IInv, PolicyHolds
<1>7. ToolShape'
  <2>1. pc' \in {"assess", "done"} => (Succeeded' <=> outcome = "ok")
    BY DEF Succeeded, ResultStatus, Processed
  <2>2. LastOk' <=> outcome = "ok"
    BY <1>1, <1>2, <1>3 DEF LastOk, CallsTyped
  <2>3. \A k \in DOMAIN calls' : calls'[k].outcome = "ok" => k = Len(calls')
    BY <1>3
  <2> QED
    BY <1>2, <2>1, <2>2, <2>3 DEF ToolShape
<1>8. FinalShape' /\ CallsShape'
  BY <1>4 DEF FinalShape, CallsShape, HasFinal
<1> QED
  BY <1>2, <1>5, <1>6, <1>7, <1>8 DEF IInv, CallsTyped

\* The calls of the first attempt, and those of a skill.
LEMMA CallsIInv ==
  ASSUME IInv, ToolCalled \/ SkillCalls PROVE IInv'
<1>1. CASE ToolCalled
  <2>1. PICK args \in Repaired : \E outcome \in Outcomes(args) :
           Call(args, outcome) /\ Ends(ResultStatus(outcome), ResultEvents(outcome))
    BY <1>1 DEF ToolCalled
  <2>2. PICK outcome \in Outcomes(args) :
           Call(args, outcome) /\ Ends(ResultStatus(outcome), ResultEvents(outcome))
    BY <2>1
  <2>3. args \in Args /\ outcome \in Answers
    <3>1. step \in Steps
      BY DEF IInv, TypeOK
    <3>2. args \in Args
      BY <2>1, <3>1 DEF Repaired, Args, Steps
    <3> QED
      BY <2>2, <3>2, OutcomesTyped
  <2>4. events' \in Seq(Kinds) /\ HasFinal(events') /\ status' = ResultStatus(outcome)
    BY <2>2, ResultEventsFinal DEF Ends
  <2>5. /\ step.kind = "tool" /\ step' = step /\ dry' = dry /\ pc' = "assess"
        /\ Len(calls) = 0
    BY <1>1 DEF ToolCalled, IInv, CallsShape
  <2>6. \A k \in DOMAIN calls : calls[k].outcome # "ok"
    BY <2>5 DEF IInv, CallsTyped
  <2> QED
    BY <2>2, <2>3, <2>4, <2>5, <2>6, ToolCallIInv
<1>2. CASE SkillCalls
  <2>1. PICK outcome \in Outcomes("planned") : Call("planned", outcome)
    BY <1>2 DEF SkillCalls
  <2>2. "planned" \in Args /\ outcome \in Answers
    BY <2>1, OutcomesTyped DEF Args
  <2>3. /\ step \in Steps /\ dry \in BOOLEAN /\ writes \in 0 .. Len(calls)
        /\ writes \in Nat /\ CallsTyped /\ Len(calls) \in Nat
    BY DEF IInv, TypeOK, CallsTyped
  <2>4. /\ calls' = Append(calls, [args |-> "planned", outcome |-> outcome])
        /\ calls' \in Seq(CallRecords)
        /\ Len(calls') = Len(calls) + 1
        /\ writes' \in {writes, writes + 1}
        /\ dry => writes' = writes
        /\ step.risk = "approval_required" => outcome = "refused"
    BY <2>1, <2>2, <2>3, CallEffect
  <2>5. /\ \A k \in DOMAIN calls : calls'[k] = calls[k]
        /\ calls'[Len(calls')].outcome = outcome
        /\ \A k \in DOMAIN calls' : k \in DOMAIN calls \/ k = Len(calls')
    BY <2>3, <2>4 DEF CallsTyped
  <2>6. /\ step' = step /\ dry' = dry /\ pc' = pc /\ status' = status
        /\ events' = events /\ pc = "skill" /\ step.kind = "skill"
        /\ Len(calls) < MaxCalls
    BY <1>2 DEF SkillCalls, IInv, CallsShape
  <2>7. TypeOK'
    BY <2>3, <2>4, <2>6, StepAssumption DEF IInv, TypeOK
  <2>8. PolicyHolds'
    BY <2>4, <2>5, <2>6 DEF IInv, PolicyHolds
  <2>9. ToolShape' /\ FinalShape' /\ CallsShape'
    BY <2>6 DEF IInv, ToolShape, FinalShape, CallsShape
  <2> QED
    BY <2>4, <2>7, <2>8, <2>9 DEF IInv, CallsTyped
<1> QED
  BY <1>1, <1>2

\* The elements of a sequence over S are in S.
LEMMA ElementOfSeq ==
  ASSUME NEW S, NEW s \in Seq(S) PROVE \A k \in DOMAIN s : s[k] \in S
OBVIOUS

\* A result that is assessed ends there or is put together with a second one.
LEMMA RecoveryIInv ==
  ASSUME IInv,
         NothingToRecover \/ GiveUp \/ RetryConflict \/ Retry \/ RetryBroken
  PROVE  IInv'
<1>1. pc = "assess"
  BY DEF NothingToRecover, GiveUp, RetryConflict, Retry, RetryBroken
<1>2. events \in Seq(Kinds) /\ HasFinal(events)
  BY <1>1 DEF IInv, TypeOK, FinalShape, HasFinal, Kinds
<1>3. status \in Statuses \ {"none", "skipped"}
  BY <1>1 DEF IInv, FinalShape
<1>4. step.kind = "tool" => (status \in {"processed", "dry_run", "already_done"} <=> LastOk)
  BY <1>1 DEF IInv, ToolShape, Succeeded
<1>5. step.kind = "tool" /\ NeedsRecovery(status) =>
         /\ Len(calls) <= 1
         /\ \A k \in DOMAIN calls : calls[k].outcome # "ok"
  <2>1. SUFFICES ASSUME step.kind = "tool", NeedsRecovery(status)
                 PROVE  /\ Len(calls) <= 1
                        /\ \A k \in DOMAIN calls : calls[k].outcome # "ok"
    OBVIOUS
  <2>2. ~ LastOk
    BY <1>4, <2>1 DEF NeedsRecovery
  <2>3. Len(calls) <= 1 /\ calls \in Seq(CallRecords)
    BY <1>1, <2>1 DEF IInv, ToolShape, CallsTyped
  <2>4. \A k \in DOMAIN calls : k = Len(calls) /\ Len(calls) > 0
    BY <2>3
  <2> QED
    BY <2>2, <2>3, <2>4 DEF LastOk
<1>6. CASE NothingToRecover
  <2>1. /\ step' = step /\ dry' = dry /\ calls' = calls /\ writes' = writes
        /\ status' = status /\ events' = events /\ pc' = "done"
    BY <1>6 DEF NothingToRecover
  <2> QED
    BY <1>1, <1>2, <1>3, <1>4, <2>1, SettledIInv
<1>7. CASE GiveUp
  <2>1. /\ step' = step /\ dry' = dry /\ calls' = calls /\ writes' = writes
        /\ status' = status /\ events' = events \o <<"progress", "progress">>
        /\ pc' = "done"
    BY <1>7 DEF GiveUp
  <2>2. events' \in Seq(Kinds) /\ HasFinal(events')
    BY <1>2, <2>1, LiteralsFinal, FinalKept
  <2> QED
    BY <1>1, <1>3, <1>4, <2>1, <2>2, SettledIInv
<1>8. CASE RetryConflict
  <2>1. /\ step' = step /\ dry' = dry /\ calls' = calls /\ writes' = writes
        /\ status' = "needs_user" /\ pc' = "done" /\ NeedsRecovery(status)
        /\ events' = RetriedEvents(events, <<"final_review">>)
    BY <1>8 DEF RetryConflict, Ends
  <2>2. events' \in Seq(Kinds) /\ HasFinal(events')
    BY <1>2, <2>1, LiteralsFinal, RetriedEventsFinal
  <2>3. step.kind = "tool" => ~ LastOk
    BY <1>4, <2>1 DEF NeedsRecovery
  <2>4. status' \in Statuses \ {"none", "skipped"}
    BY <2>1 DEF Statuses
  <2> QED
    BY <1>1, <2>1, <2>2, <2>3, <2>4, SettledIInv
<1>9. CASE Retry
  <2>1. PICK args \in RepairedAgain \ {"planned"} : \E outcome \in Outcomes(args) :
           /\ Call(args, outcome)
           /\ IF outcome = "exception"
              THEN pc' = "raised" /\ UNCHANGED <<status, events>>
              ELSE /\ Ends(ResultStatus(outcome),
                           RetriedEvents(events, ResultEvents(outcome)))
                   /\ pc' = "done"
    BY <1>9 DEF Retry
  <2>2. PICK outcome \in Outcomes(args) :
           /\ Call(args, outcome)
           /\ IF outcome = "exception"
              THEN pc' = "raised" /\ UNCHANGED <<status, events>>
              ELSE /\ Ends(ResultStatus(outcome),
                           RetriedEvents(events, ResultEvents(outcome)))
                   /\ pc' = "done"
    BY <2>1
  <2>3. args \in Args
    <3>1. step \in Steps /\ calls \in Seq(CallRecords)
      BY DEF IInv, TypeOK, CallsTyped
    <3>2. \A k \in DOMAIN calls : calls[k] \in CallRecords
      BY <3>1, ElementOfSeq
    <3> QED
      <4>1. \A c \in CallRecords : c.args \in Args
        BY DEF CallRecords
      <4>2. \A k \in DOMAIN calls : calls[k].args \in Args
        BY <3>2, <4>1
      <4> QED
        BY <2>1, <3>1, <4>2 DEF RepairedAgain, Args, Steps
  <2>4. outcome \in Answers
    BY <2>2, OutcomesTyped
  <2>5. step.kind = "tool" /\ step' = step /\ dry' = dry /\ NeedsRecovery(status)
    BY <1>9 DEF Retry
  <2>6. RetriedEvents(events, ResultEvents(outcome)) \in Seq(Kinds)
        /\ HasFinal(RetriedEvents(events, ResultEvents(outcome)))
    BY <1>2, ResultEventsFinal, RetriedEventsFinal
  <2>7. CASE outcome = "exception"
    <3>1. pc' = "raised" /\ status' = status /\ events' \in Seq(Kinds)
      BY <1>2, <2>2, <2>7
    <3> QED
      BY <1>5, <2>2, <2>3, <2>4, <2>5, <3>1, ToolCallIInv
  <2>8. CASE outcome # "exception"
    <3>1. /\ pc' = "done" /\ status' = ResultStatus(outcome)
          /\ events' \in Seq(Kinds) /\ HasFinal(events')
      BY <2>2, <2>6, <2>8 DEF Ends
    <3> QED
      BY <1>5, <2>2, <2>3, <2>4, <2>5, <3>1, ToolCallIInv
  <2> QED
    BY <2>7, <2>8
<1>10. CASE RetryBroken
  BY <1>10 DEF RetryBroken, IInv, TypeOK, CallsTyped, PolicyHolds, ToolShape,
               FinalShape, CallsShape
<1> QED
  BY <1>6, <1>7, <1>8, <1>9, <1>10
-----------------------------------------------------------------------------
\* Every step keeps the invariant.
LEMMA NextIInv == IInv /\ [Next]_vars => IInv'
<1> SUFFICES ASSUME IInv, [Next]_vars PROVE IInv'
  OBVIOUS
<1>1. CASE UNCHANGED vars
  BY <1>1 DEF vars, IInv, TypeOK, CallsTyped, PolicyHolds, ToolShape, FinalShape,
              CallsShape, Succeeded, LastOk, Stops
<1> QED
  BY <1>1, FirstIInv, CallsIInv, RecoveryIInv DEF Next

\* The invariant holds in every state that execute_single_step reaches.
THEOREM Invariance == Spec => []IInv
<1> QED
  BY InitIInv, NextIInv, PTL DEF Spec

\* Every variable keeps its type, whatever number of calls a skill may make.
THEOREM TypeCorrect == Spec => []TypeOK
<1>1. IInv => TypeOK
  BY DEF IInv
<1> QED
  BY Invariance, <1>1, PTL

\* In a dry run no path of execute_single_step changes another system, and a
\* tool that wants an approval is never called.
THEOREM PolicyCorrect == Spec => []PolicyHolds
<1>1. IInv => PolicyHolds
  BY DEF IInv
<1> QED
  BY Invariance, <1>1, PTL

\* The recovery of a tool step never repeats a call that succeeded, and the
\* graph takes the step for completed if and only if its last call, the retry
\* included, succeeded.
THEOREM SettledCorrect == Spec => []OutcomeIsLastCall
<1>1. IInv => SuccessIsNotRepeated
  BY DEF IInv, ToolShape, SuccessIsNotRepeated
<1>2. IInv => SettledAsLastCall
  <2> SUFFICES ASSUME IInv, step.kind = "tool", pc = "done"
               PROVE  StepStatus(status) = "completed" <=>
                        calls # <<>> /\ Last(calls).outcome = "ok"
    BY DEF SettledAsLastCall
  <2>1. StepStatus(status) = "completed" <=> Succeeded
    BY DEF StepStatus, Succeeded
  <2>2. Succeeded <=> LastOk
    BY DEF IInv, ToolShape
  <2>3. calls \in Seq(CallRecords)
    BY DEF IInv, CallsTyped
  <2>4. LastOk <=> calls # <<>> /\ Last(calls).outcome = "ok"
    BY <2>3 DEF LastOk, Last
  <2> QED
    BY <2>1, <2>2, <2>4
<1> QED
  BY Invariance, <1>1, <1>2, PTL DEF OutcomeIsLastCall

\* A step hands the ticket back only where the graph leaves the loop, and a
\* tool step only if all its attempts failed.
THEOREM HandBackCorrect == Spec => []HandsBackOnlyIfStopped
<1>1. IInv => HandsBackOnlyIfStopped
  <2> SUFFICES ASSUME IInv, pc = "done", HandsBack
               PROVE  /\ StepStatus(status) \in {"failed", "needs_user"}
                      /\ step.kind = "tool" => \A k \in DOMAIN calls : calls[k].outcome # "ok"
    BY DEF HandsBackOnlyIfStopped
  <2>1. Stops(status)
    <3> SUFFICES ASSUME ~ Stops(status) PROVE FALSE
      OBVIOUS
    <3>1. Downgraded(status, events) = [k \in DOMAIN events |-> "progress"]
      BY DEF Downgraded
    <3> QED
      BY <3>1 DEF HandsBack, ToSet
  <2>2. StepStatus(status) \in {"failed", "needs_user"} /\ ~ Succeeded
    BY <2>1 DEF Stops, StepStatus, Succeeded
  <2>3. ASSUME step.kind = "tool", NEW k \in DOMAIN calls, calls[k].outcome = "ok" PROVE FALSE
    <3>1. k = Len(calls) /\ ~ LastOk
      BY <2>2, <2>3 DEF IInv, ToolShape
    <3>2. calls \in Seq(CallRecords)
      BY DEF IInv, CallsTyped
    <3>3. Len(calls) > 0
      BY <2>3, <3>1, <3>2
    <3> QED
      BY <2>3, <3>1, <3>3 DEF LastOk
  <2> QED
    BY <2>2, <2>3
<1> QED
  BY Invariance, <1>1, PTL

\* A step that stops the loop does hand the ticket back, before
\* finalize_execution does it again: what TicketGraph takes its outcome for, and
\* what the event table of docs/langgraph-ticket-graph.md does not say.
THEOREM StoppedHandsBack == Spec => [](pc = "done" /\ Stops(status) => HandsBack)
<1>1. IInv => (pc = "done" /\ Stops(status) => HandsBack)
  <2> SUFFICES ASSUME IInv, pc = "done", Stops(status) PROVE HandsBack
    OBVIOUS
  <2>1. HasFinal(events)
    BY DEF IInv, FinalShape, HasFinal
  <2> QED
    BY <2>1 DEF HandsBack, Downgraded, ToSet, HasFinal
<1> QED
  BY Invariance, <1>1, PTL
=============================================================================
