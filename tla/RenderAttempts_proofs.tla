------------------------ MODULE RenderAttempts_proofs ------------------------
(***************************************************************************)
(* Proofs about RenderAttempts, for any number of processes, plans and     *)
(* projects.                                                               *)
(***************************************************************************)
EXTENDS RenderAttempts, TLAPS

USE PlanAssumption

\* Type correctness of the store and of every execute, for any instance.
THEOREM TypeCorrect == Spec => []TypeOK
<1>1. Init => TypeOK
  BY DEF Init, TypeOK, Capabilities, AttemptStates, Steps
<1>2. TypeOK /\ [Next]_vars => TypeOK'
  <2> SUFFICES ASSUME TypeOK, [Next]_vars PROVE TypeOK'
    OBVIOUS
  <2> USE DEF TypeOK, Capabilities, AttemptStates, Written, Steps, BeforeConsume,
              AfterConsume, Answered, Goto, Put, store, outside, history
  <2>1. ASSUME NEW h \in Plan, NEW confirmed \in BOOLEAN, Authorize(h, confirmed)
        PROVE  TypeOK'
    BY <2>1 DEF Authorize
  <2>2. ASSUME NEW h \in Plan, RecordTransportUnknown(h) PROVE TypeOK'
    BY <2>2 DEF RecordTransportUnknown
  <2>3. ASSUME NEW p \in Proc, NEW h \in Plan, Execute(p, h) PROVE TypeOK'
    <3>1. projectOf[h] \in Project
      OBVIOUS
    <3> QED BY <2>3, <3>1 DEF Execute
  <2>4. ASSUME NEW p \in Proc, Step(p) PROVE TypeOK'
    <3>1. CASE CheckCapability(p) BY <3>1 DEF CheckCapability
    <3>2. CASE IssueCapability(p) BY <3>2 DEF IssueCapability
    <3>3. CASE ClaimSlot(p) BY <3>3 DEF ClaimSlot
    <3>4. CASE PutStarting(p) BY <3>4 DEF PutStarting
    <3>5. CASE ConsumeCapability(p) BY <3>5 DEF ConsumeCapability
    <3>6. CASE PutRefused(p) BY <3>6 DEF PutRefused
    <3>7. CASE PutRunning(p) BY <3>7 DEF PutRunning
    <3>8. CASE RunningNotStored(p) BY <3>8 DEF RunningNotStored
    <3>9. CASE InvokeHvs(p) BY <3>9 DEF InvokeHvs
    <3>10. CASE HvsReturns(p) BY <3>10 DEF HvsReturns
    <3>11. CASE HvsLost(p) BY <3>11 DEF HvsLost
    <3>12. CASE PutUnknown(p) BY <3>12 DEF PutUnknown
    <3>13. CASE PutDiscovered(p) BY <3>13 DEF PutDiscovered
    <3>14. CASE PutValidated(p) BY <3>14 DEF PutValidated
    <3>15. CASE PutSucceeded(p) BY <3>15 DEF PutSucceeded
    <3>16. CASE PutFailed(p) BY <3>16 DEF PutFailed
    <3> QED BY <2>4, <3>1, <3>2, <3>3, <3>4, <3>5, <3>6, <3>7, <3>8, <3>9, <3>10,
               <3>11, <3>12, <3>13, <3>14, <3>15, <3>16 DEF Step
  <2>5. ASSUME NEW p \in Proc, Crash(p) PROVE TypeOK'
    BY <2>5 DEF Crash
  <2>6. CASE UNCHANGED vars
    BY <2>6 DEF vars
  <2> QED BY <2>1, <2>2, <2>3, <2>4, <2>5, <2>6 DEF Next
<1> QED BY <1>1, <1>2, PTL DEF Spec

-----------------------------------------------------------------------------
(* The inductive invariant.                                                *)

\* What every step of an execute leaves alone: the other executes, the entries
\* of the other plans, the history; and what HVS was asked is never taken back.
LEMMA StepLocal ==
  ASSUME TypeOK, NEW p \in Proc, Step(p)
  PROVE  /\ pc[p] # "idle"
         /\ UNCHANGED <<granted, plan, history>>
         /\ \A q \in Proc : q # p => pc'[q] = pc[q]
         /\ \A h \in Plan : h # plan[p] =>
              /\ cap'[h] = cap[h] /\ state'[h] = state[h] /\ recorded'[h] = recorded[h]
              /\ hvsCalls'[h] = hvsCalls[h] /\ (h \in delivered' <=> h \in delivered)
         /\ \A h \in Plan : hvsCalls[h] > 0 => hvsCalls'[h] > 0
         /\ delivered \subseteq delivered'
         /\ pc'[p] \in PastClaim => pc[p] \in PastClaim \/ ~SlotTaken(plan[p])
<1> USE DEF TypeOK, store, outside, history, Goto, Put, PastClaim, AfterConsume, Answered
<1>1. CASE CheckCapability(p) BY <1>1 DEF CheckCapability
<1>2. CASE IssueCapability(p) BY <1>2 DEF IssueCapability
<1>3. CASE ClaimSlot(p) BY <1>3 DEF ClaimSlot
<1>4. CASE PutStarting(p) BY <1>4 DEF PutStarting
<1>5. CASE ConsumeCapability(p) BY <1>5 DEF ConsumeCapability
<1>6. CASE PutRefused(p) BY <1>6 DEF PutRefused
<1>7. CASE PutRunning(p) BY <1>7 DEF PutRunning
<1>8. CASE RunningNotStored(p) BY <1>8 DEF RunningNotStored
<1>9. CASE InvokeHvs(p) BY <1>9 DEF InvokeHvs
<1>10. CASE HvsReturns(p) BY <1>10 DEF HvsReturns
<1>11. CASE HvsLost(p) BY <1>11 DEF HvsLost
<1>12. CASE PutUnknown(p) BY <1>12 DEF PutUnknown
<1>13. CASE PutDiscovered(p) BY <1>13 DEF PutDiscovered
<1>14. CASE PutValidated(p) BY <1>14 DEF PutValidated
<1>15. CASE PutSucceeded(p) BY <1>15 DEF PutSucceeded
<1>16. CASE PutFailed(p) BY <1>16 DEF PutFailed
<1> QED BY <1>1, <1>2, <1>3, <1>4, <1>5, <1>6, <1>7, <1>8,
         <1>9, <1>10, <1>11, <1>12, <1>13, <1>14, <1>15, <1>16 DEF Step

\* An undisturbed execute is the only one of its plan.
LEMMA Alone ==
  ASSUME OverlapRemembered, NEW p \in Proc, NEW q \in Proc, p # q,
         pc[p] # "idle", pc[q] # "idle", plan[p] \notin overlapped
  PROVE  plan[q] # plan[p]
BY DEF OverlapRemembered

\* The control points and the store agree again after a step of an undisturbed
\* execute.
LEMMA StepKeepsOwn ==
  ASSUME IInv, NEW p \in Proc, Step(p), plan[p] \notin overlapped
  PROVE  /\ pc'[p] # "idle" => StepInv(p)'
         /\ PlanInv(plan[p])'
<1> USE DEF IInv, TypeOK, StepsInv, PlansInv, StepInv, PlanInv, FoundAt, AfterConsume,
            Answered, AnswerInv, Goto, Put, store, outside, history, Steps, BeforeConsume,
            Capabilities, AttemptStates, Written
<1>1. CASE CheckCapability(p) BY <1>1 DEF CheckCapability
<1>2. CASE IssueCapability(p) BY <1>2 DEF IssueCapability
<1>3. CASE ClaimSlot(p) BY <1>3 DEF ClaimSlot
<1>4. CASE PutStarting(p) BY <1>4 DEF PutStarting
<1>5. CASE ConsumeCapability(p) BY <1>5 DEF ConsumeCapability
<1>6. CASE PutRefused(p) BY <1>6 DEF PutRefused
<1>7. CASE PutRunning(p) BY <1>7 DEF PutRunning
<1>8. CASE RunningNotStored(p) BY <1>8 DEF RunningNotStored
<1>9. CASE InvokeHvs(p) BY <1>9 DEF InvokeHvs
<1>10. CASE HvsReturns(p) BY <1>10 DEF HvsReturns
<1>11. CASE HvsLost(p) BY <1>11 DEF HvsLost
<1>12. CASE PutUnknown(p) BY <1>12 DEF PutUnknown
<1>13. CASE PutDiscovered(p) BY <1>13 DEF PutDiscovered
<1>14. CASE PutValidated(p) BY <1>14 DEF PutValidated
<1>15. CASE PutSucceeded(p) BY <1>15 DEF PutSucceeded
<1>16. CASE PutFailed(p) BY <1>16 DEF PutFailed
<1> QED BY <1>1, <1>2, <1>3, <1>4, <1>5, <1>6, <1>7, <1>8,
         <1>9, <1>10, <1>11, <1>12, <1>13, <1>14, <1>15, <1>16 DEF Step

\* One step of a live execute preserves every part of the invariant.
LEMMA StepPreserves ==
  ASSUME IInv, TypeOK', NEW p \in Proc, Step(p)
  PROVE  IInv'
<1>1. /\ pc[p] # "idle"
      /\ UNCHANGED <<plan, overlapped, contended>>
      /\ \A q \in Proc : q # p => pc'[q] = pc[q]
  BY StepLocal DEF IInv, history
<1>2. /\ \A h \in Plan : h # plan[p] =>
           /\ cap'[h] = cap[h] /\ state'[h] = state[h] /\ recorded'[h] = recorded[h]
           /\ hvsCalls'[h] = hvsCalls[h] /\ (h \in delivered' <=> h \in delivered)
      /\ \A h \in Plan : hvsCalls[h] > 0 => hvsCalls'[h] > 0
      /\ delivered \subseteq delivered'
      /\ pc'[p] \in PastClaim => pc[p] \in PastClaim \/ ~SlotTaken(plan[p])
  BY StepLocal DEF IInv
<1>3. OverlapRemembered'
  BY <1>1 DEF IInv, OverlapRemembered
<1>4. StepsInv'
  <2> SUFFICES ASSUME NEW q \in Proc, pc'[q] # "idle", plan[q] \notin overlapped
               PROVE  StepInv(q)'
    BY <1>1 DEF StepsInv
  <2>1. CASE q = p
    BY <2>1, StepKeepsOwn
  <2>2. CASE q # p
    <3>1. plan[q] # plan[p] /\ plan[q] \in Plan /\ StepInv(q)
      BY <2>2, <1>1, Alone DEF IInv, TypeOK, StepsInv
    <3> QED BY <2>2, <3>1, <1>1, <1>2 DEF StepInv, FoundAt
  <2> QED BY <2>1, <2>2
<1>5. PlansInv'
  <2> SUFFICES ASSUME NEW h \in Plan, h \notin overlapped
               PROVE  PlanInv(h)'
    BY <1>1 DEF PlansInv
  <2>1. CASE h = plan[p]
    BY <2>1, <1>1, StepKeepsOwn
  <2>2. CASE h # plan[p]
    BY <2>2, <1>2 DEF IInv, PlansInv, PlanInv
  <2> QED BY <2>1, <2>2
<1>6. AnswerInv'
  <2> USE DEF IInv, TypeOK, AnswerInv, Answered, Goto, Put, store, outside, history
  <2>1. CASE CheckCapability(p) BY <2>1 DEF CheckCapability
  <2>2. CASE IssueCapability(p) BY <2>2 DEF IssueCapability
  <2>3. CASE ClaimSlot(p) BY <2>3 DEF ClaimSlot
  <2>4. CASE PutStarting(p) BY <2>4 DEF PutStarting
  <2>5. CASE ConsumeCapability(p) BY <2>5 DEF ConsumeCapability
  <2>6. CASE PutRefused(p) BY <2>6 DEF PutRefused
  <2>7. CASE PutRunning(p) BY <2>7 DEF PutRunning
  <2>8. CASE RunningNotStored(p) BY <2>8 DEF RunningNotStored
  <2>9. CASE InvokeHvs(p) BY <2>9 DEF InvokeHvs
  <2>10. CASE HvsReturns(p) BY <2>10 DEF HvsReturns
  <2>11. CASE HvsLost(p) BY <2>11 DEF HvsLost
  <2>12. CASE PutUnknown(p) BY <2>12 DEF PutUnknown
  <2>13. CASE PutDiscovered(p) BY <2>13 DEF PutDiscovered
  <2>14. CASE PutValidated(p) BY <2>14 DEF PutValidated
  <2>15. CASE PutSucceeded(p) BY <2>15 DEF PutSucceeded
  <2>16. CASE PutFailed(p) BY <2>16 DEF PutFailed
  <2> QED BY <2>1, <2>2, <2>3, <2>4, <2>5, <2>6, <2>7, <2>8,
             <2>9, <2>10, <2>11, <2>12, <2>13, <2>14, <2>15, <2>16 DEF Step
<1>7. SlotRespected'
  <2> SUFFICES ASSUME NEW q \in Proc, pc'[q] \in PastClaim,
                      projectOf[plan[q]] \notin contended,
                      NEW g \in PlansOf(projectOf[plan[q]]) \ {plan[q]},
                      state'[g] \in {"STARTING", "RUNNING"}
               PROVE  FALSE
    BY <1>1 DEF SlotRespected, PlansOf
  <2>1. g \in Plan /\ projectOf[g] = projectOf[plan[q]] /\ g # plan[q]
    BY DEF PlansOf
  <2>2. CASE q = p
    BY <2>1, <2>2, <1>2 DEF IInv, SlotRespected, SlotTaken, ActiveStates
  <2>3. CASE q # p
    <3>1. pc[q] # "idle"
      BY <2>3, <1>1 DEF PastClaim, AfterConsume, Answered
    <3>2. projectOf[plan[p]] # projectOf[plan[q]]
      BY <2>3, <3>1, <1>1 DEF IInv, OverlapRemembered
    <3>3. state'[g] = state[g]
      BY <2>1, <3>2, <1>2
    <3> QED BY <2>3, <3>3, <1>1 DEF IInv, SlotRespected
  <2> QED BY <2>2, <2>3
<1> QED BY <1>3, <1>4, <1>5, <1>6, <1>7 DEF IInv

\* The invariant holds initially.
LEMMA InitIInv == Init => IInv
BY DEF Init, IInv, TypeOK, OverlapRemembered, StepsInv, PlansInv, PlanInv, AnswerInv,
       SlotRespected, PastClaim, AfterConsume, Answered, Capabilities, AttemptStates, Steps

\* Every step preserves it.
LEMMA NextIInv == IInv /\ TypeOK' /\ [Next]_vars => IInv'
<1> SUFFICES ASSUME IInv, TypeOK', [Next]_vars PROVE IInv'
  OBVIOUS
<1> USE DEF IInv
<1>1. ASSUME NEW h \in Plan, NEW confirmed \in BOOLEAN, Authorize(h, confirmed)
      PROVE  IInv'
  BY <1>1 DEF Authorize, outside, history, OverlapRemembered, StepsInv, StepInv, FoundAt,
              PlansInv, PlanInv, AnswerInv, SlotRespected
<1>2. ASSUME NEW h \in Plan, RecordTransportUnknown(h) PROVE IInv'
  <2> USE <1>2 DEF RecordTransportUnknown, outside, history, TypeOK
  <2>1. OverlapRemembered'
    BY DEF OverlapRemembered
  <2>2. StepsInv'
    BY DEF StepsInv, StepInv, FoundAt, AttemptStates, Written
  <2>3. PlansInv' /\ AnswerInv'
    BY DEF PlansInv, PlanInv, AnswerInv
  <2>4. SlotRespected'
    BY DEF SlotRespected
  <2> QED BY <2>1, <2>2, <2>3, <2>4
<1>3. ASSUME NEW p \in Proc, NEW h \in Plan, Execute(p, h) PROVE IInv'
  <2> USE <1>3 DEF Execute, Goto, store, outside, TypeOK
  <2>1. OverlapRemembered'
    BY DEF OverlapRemembered, PlansOf
  <2>2. StepsInv'
    BY DEF StepsInv, StepInv, FoundAt, AfterConsume, Answered, AttemptStates
  <2>3. PlansInv'
    BY DEF PlansInv, PlanInv
  <2>4. AnswerInv'
    BY DEF AnswerInv, Answered
  <2>5. SlotRespected'
    BY DEF SlotRespected, PastClaim, AfterConsume, Answered
  <2> QED BY <2>1, <2>2, <2>3, <2>4, <2>5
<1>4. ASSUME NEW p \in Proc, Step(p) PROVE IInv'
  BY <1>4, StepPreserves
<1>5. ASSUME NEW p \in Proc, Crash(p) PROVE IInv'
  BY <1>5 DEF Crash, Goto, store, outside, history, TypeOK, OverlapRemembered, StepsInv,
              StepInv, FoundAt, PlansInv, PlanInv, AnswerInv, SlotRespected,
              PastClaim, AfterConsume, Answered
<1>6. CASE UNCHANGED vars
  BY <1>6 DEF vars, OverlapRemembered, StepsInv, StepInv, FoundAt, PlansInv, PlanInv,
              AnswerInv, SlotRespected
<1> QED BY <1>1, <1>2, <1>3, <1>4, <1>5, <1>6 DEF Next

\* The inductive invariant: where an undisturbed execute stands determines what
\* the store says of its plan, in every reachable state.
THEOREM Inductive == Spec => []IInv
BY InitIInv, NextIInv, TypeCorrect, PTL DEF Spec

-----------------------------------------------------------------------------
(* What follows from it.                                                   *)

\* A plan is asked of HVS at most once unless executes of it overlapped, through
\* any number of crashes, retries, re-authorizations and transport reports.
THEOREM RenderedOnce == Spec => []RenderOnce
<1>1. IInv => RenderOnce
  BY DEF IInv, TypeOK, PlansInv, PlanInv, RenderOnce
<1> QED BY <1>1, Inductive, PTL

\* A render that was asked for is on record in the store.
THEOREM RenderedOnRecord == Spec => []RenderOnRecord
<1>1. IInv => RenderOnRecord
  BY DEF IInv, PlansInv, PlanInv, RenderOnRecord
<1> QED BY <1>1, Inductive, PTL

\* RENDER_SUCCEEDED is stored only for verified artifacts, and a confirmed failure
\* hides none.
THEOREM OutcomesTruthful == Spec => []OutcomeTruthful
<1>1. IInv => OutcomeTruthful
  BY DEF IInv, PlansInv, PlanInv, AnswerInv, OutcomeTruthful
<1> QED BY <1>1, Inductive, PTL

\* Past the claim, an execute is alone in its project.
THEOREM SlotsRespected == Spec => []SlotRespected
<1>1. IInv => SlotRespected
  BY DEF IInv
<1> QED BY <1>1, Inductive, PTL

\* While HVS renders a plan, its stored attempt is RUNNING or unknown, so the
\* projection of its project ranks RUNNING or higher.
LEMMA ShownWhileRendering ==
  ASSUME NEW pr, NEW i \in {1, 2, 3}, NEW h \in PlansOf(pr), state[h] = TruthPriority[i]
  PROVE  TruthState(pr) \in {"RUNNING", "OUTCOME_UNKNOWN", "SUCCEEDED"}
<1> DEFINE ranks == {k \in DOMAIN TruthPriority :
                      \E g \in PlansOf(pr) : state[g] = TruthPriority[k]}
           first == CHOOSE k \in ranks : \A j \in ranks : k <= j
<1>1. DOMAIN TruthPriority = 1..5
  BY DEF TruthPriority
<1>2. ranks \subseteq 1..5 /\ i \in ranks
  BY <1>1
<1> HIDE DEF ranks
<1>3. \E k \in ranks : \A j \in ranks : k <= j
  <2>1. CASE 1 \in ranks BY <2>1, <1>2
  <2>2. CASE 1 \notin ranks /\ 2 \in ranks BY <2>2, <1>2
  <2>3. CASE 1 \notin ranks /\ 2 \notin ranks BY <2>3, <1>2
  <2> QED BY <2>1, <2>2, <2>3
<1>4. first \in 1..5 /\ first \in ranks /\ first <= i
  BY <1>2, <1>3
<1>5. TruthState(pr) = TruthPriority[first]
  BY <1>2 DEF TruthState, ranks
<1> HIDE DEF first
<1>6. first \in {1, 2, 3}
  BY <1>2, <1>4
<1> QED BY <1>5, <1>6 DEF TruthPriority

\* While HVS renders, the operator is never shown an idle or failed project.
THEOREM RendersVisible == Spec => []RenderVisible
<1>1. IInv => RenderVisible
  <2> SUFFICES ASSUME IInv, NEW p \in Proc, pc[p] = "wait", plan[p] \notin overlapped
               PROVE  TruthState(projectOf[plan[p]]) \in {"RUNNING", "OUTCOME_UNKNOWN", "SUCCEEDED"}
    BY DEF RenderVisible
  <2>1. plan[p] \in PlansOf(projectOf[plan[p]])
    BY DEF IInv, TypeOK, PlansOf
  <2>2. state[plan[p]] \in {"RUNNING", "OUTCOME_UNKNOWN"}
    BY DEF IInv, StepsInv, StepInv, FoundAt
  <2>3. state[plan[p]] = TruthPriority[2] \/ state[plan[p]] = TruthPriority[3]
    BY <2>2 DEF TruthPriority
  <2> QED BY <2>1, <2>3, ShownWhileRendering
<1> QED BY <1>1, Inductive, PTL

\* The stored state of an undisturbed plan moves along RENDER_TRANSITIONS, and
\* finished attempts never move.
THEOREM LifecycleHolds == Spec => Lifecycle
<1> DEFINE Moves == \A h \in Plan :
             state'[h] # state[h] /\ h \notin overlapped
               => \/ state[h] = "ABSENT" /\ state'[h] = "STARTING"
                  \/ state[h] = "OUTCOME_UNKNOWN"
                  \/ state'[h] \in Transitions[state[h]]
<1>1. IInv /\ [Next]_vars => [Moves]_state
  <2> SUFFICES ASSUME IInv, [Next]_vars, NEW h \in Plan,
                      state'[h] # state[h], h \notin overlapped
               PROVE  \/ state[h] = "ABSENT" /\ state'[h] = "STARTING"
                      \/ state[h] = "OUTCOME_UNKNOWN"
                      \/ state'[h] \in Transitions[state[h]]
    OBVIOUS
  <2> USE DEF IInv
  <2>1. CASE \E g \in Plan : RecordTransportUnknown(g)
    BY <2>1 DEF RecordTransportUnknown, TypeOK, Transitions, Written
  <2>2. ASSUME NEW p \in Proc, Step(p)
        PROVE  \/ state[h] = "ABSENT" /\ state'[h] = "STARTING"
               \/ state[h] = "OUTCOME_UNKNOWN"
               \/ state'[h] \in Transitions[state[h]]
    <3>1. h = plan[p] /\ pc[p] # "idle"
      BY <2>2, StepLocal
    <3>2. StepInv(p)
      BY <3>1 DEF StepsInv
    <3> USE <3>1, <3>2 DEF StepInv, FoundAt, TypeOK, Transitions, Written, Put, store
    <3>3. CASE PutStarting(p) BY <3>3 DEF PutStarting
    <3>4. CASE PutRefused(p) BY <3>4 DEF PutRefused
    <3>5. CASE PutRunning(p) BY <3>5 DEF PutRunning
    <3>6. CASE PutUnknown(p) BY <3>6 DEF PutUnknown
    <3>7. CASE PutDiscovered(p) BY <3>7 DEF PutDiscovered
    <3>8. CASE PutValidated(p) BY <3>8 DEF PutValidated
    <3>9. CASE PutSucceeded(p) BY <3>9 DEF PutSucceeded
    <3>10. CASE PutFailed(p) BY <3>10 DEF PutFailed
    <3>11. CASE UNCHANGED state BY <3>11
    <3> QED BY <2>2, <3>3, <3>4, <3>5, <3>6, <3>7, <3>8, <3>9, <3>10, <3>11
            DEF Step, CheckCapability, IssueCapability, ClaimSlot, ConsumeCapability,
                RunningNotStored, InvokeHvs, HvsReturns, HvsLost
  <2> QED BY <2>1, <2>2 DEF Next, vars, Authorize, Execute, Crash, store
<1>2. []IInv /\ [][Next]_vars => [][Moves]_state
  BY <1>1, PTL
<1> QED BY <1>2, Inductive, PTL DEF Spec, Lifecycle

-----------------------------------------------------------------------------
(* The refinement of SingleUseCall.                                        *)

\* A step that changes one plan's phase, or none, changes the mapped variable there.
LEMMA PhaseStep ==
  ASSUME NEW h \in Plan, \A g \in Plan \ {h} : Phase(g)' = Phase(g)
  PROVE  [g \in Plan |-> Phase(g)]' = [[g \in Plan |-> Phase(g)] EXCEPT ![h] = Phase(h)']
OBVIOUS

\* How far one undisturbed step of an execute takes its call.
LEMMA StepAdvances ==
  ASSUME IInv, NEW p \in Proc, Step(p), plan[p] \notin overlapped
  PROVE  LET h == plan[p] IN
         \/ Phase(h)' = Phase(h)
         \/ <<Phase(h), Phase(h)'>> \in
              {<<"new", "spent">>, <<"spent", "asked">>, <<"asked", "verified">>,
               <<"verified", "done">>, <<"asked", "failed">>}
<1> DEFINE h == plan[p]
<1>1. /\ pc[p] # "idle" /\ plan[p] \in Plan /\ plan' = plan /\ overlapped' = overlapped
      /\ StepInv(p) /\ PlanInv(h)
  BY StepLocal DEF IInv, TypeOK, StepsInv, PlansInv, history
<1> USE <1>1 DEF IInv, TypeOK, Phase, StepInv, PlanInv, FoundAt, AnswerInv, AfterConsume, Answered,
                 Goto, Put, store, outside, history, Capabilities
<1>2. CASE CheckCapability(p) BY <1>2 DEF CheckCapability
<1>3. CASE IssueCapability(p) BY <1>3 DEF IssueCapability
<1>4. CASE ClaimSlot(p) BY <1>4 DEF ClaimSlot
<1>5. CASE PutStarting(p) BY <1>5 DEF PutStarting
<1>6. CASE ConsumeCapability(p) BY <1>6 DEF ConsumeCapability
<1>7. CASE PutRefused(p) BY <1>7 DEF PutRefused
<1>8. CASE PutRunning(p) BY <1>8 DEF PutRunning
<1>9. CASE RunningNotStored(p) BY <1>9 DEF RunningNotStored
<1>10. CASE InvokeHvs(p) BY <1>10 DEF InvokeHvs
<1>11. CASE HvsReturns(p) BY <1>11 DEF HvsReturns
<1>12. CASE HvsLost(p) BY <1>12 DEF HvsLost
<1>13. CASE PutUnknown(p) BY <1>13 DEF PutUnknown
<1>14. CASE PutDiscovered(p) BY <1>14 DEF PutDiscovered
<1>15. CASE PutValidated(p) BY <1>15 DEF PutValidated
<1>16. CASE PutSucceeded(p) BY <1>16 DEF PutSucceeded
<1>17. CASE PutFailed(p) BY <1>17 DEF PutFailed
<1> QED BY <1>2, <1>3, <1>4, <1>5, <1>6, <1>7, <1>8, <1>9, <1>10, <1>11, <1>12,
           <1>13, <1>14, <1>15, <1>16, <1>17 DEF Step

\* The render of every plan is a single-use call, for any number of plans and executes.
THEOREM CallImplemented == Spec => ImplementsCall
<1> DEFINE phases == [h \in Plan |-> Phase(h)]
<1>1. Init => Call!Init
  BY DEF Init, Call!Init, Phase
<1>2. IInv /\ [Next]_vars => [Call!Next]_phases
  <2> SUFFICES ASSUME IInv, [Next]_vars PROVE [Call!Next]_phases
    OBVIOUS
  <2>1. ASSUME UNCHANGED <<cap, state, outside, overlapped>>
        PROVE  UNCHANGED phases
    BY <2>1 DEF Phase, outside
  <2>2. ASSUME NEW h \in Plan, RecordTransportUnknown(h)
        PROVE  UNCHANGED phases
    <3>1. \A g \in Plan : Phase(g)' = Phase(g)
      BY <2>2 DEF RecordTransportUnknown, Phase, IInv, TypeOK, outside, history
    <3> QED BY <3>1
  <2>3. ASSUME NEW p \in Proc, NEW h \in Plan, Execute(p, h)
        PROVE  [Call!Next]_phases
    <3>1. \A g \in Plan \ {h} : Phase(g)' = Phase(g)
      BY <2>3 DEF Execute, Phase, store, outside
    <3>2. CASE Phase(h)' = Phase(h)
      BY <3>1, <3>2
    <3>3. CASE Phase(h)' # Phase(h)
      <4>1. Phase(h)' = "raced" /\ h \notin overlapped
        BY <2>3, <3>3 DEF Execute, Phase, store, outside
      <4>2. phases' = [g \in Plan |-> IF g \in {h} THEN "raced" ELSE phases[g]]
        BY <3>1, <4>1
      <4>3. Call!Race({h})
        BY <4>2 DEF Call!Race
      <4> QED BY <4>3 DEF Call!Next
    <3> QED BY <3>2, <3>3
  <2>4. ASSUME NEW p \in Proc, Step(p)
        PROVE  [Call!Next]_phases
    <3>1. PICK h \in Plan : h = plan[p]
      BY DEF IInv, TypeOK
    <3>2. UNCHANGED overlapped /\ \A g \in Plan \ {h} :
              /\ cap'[g] = cap[g] /\ state'[g] = state[g] /\ hvsCalls'[g] = hvsCalls[g]
              /\ g \in delivered' <=> g \in delivered
      BY <2>4, <3>1, StepLocal DEF IInv, history
    <3>3. h = plan[p] /\ \A g \in Plan \ {h} : Phase(g)' = Phase(g)
      BY <3>1, <3>2 DEF Phase
    <3>4. CASE Phase(h)' = Phase(h)
      BY <3>3, <3>4
    <3>5. CASE Phase(h)' # Phase(h)
      <4>1. h \notin overlapped
        BY <2>4, <3>3, <3>5, StepLocal DEF IInv, Phase, history
      <4>2. <<Phase(h), Phase(h)'>> \in
              {<<"new", "spent">>, <<"spent", "asked">>, <<"asked", "verified">>,
               <<"verified", "done">>, <<"asked", "failed">>}
        <5>1. plan' = plan
          BY <2>4, StepLocal DEF IInv
        <5>2. Phase(plan[p])' = Phase(h)'
          BY <3>3, <5>1 DEF Phase
        <5> QED BY <2>4, <3>3, <3>5, <4>1, <5>2, StepAdvances
      <4>3. phases' = [phases EXCEPT ![h] = Phase(h)']
        BY <3>3, PhaseStep
      <4>4. \/ Call!Spend(h) \/ Call!Ask(h) \/ Call!Verify(h) \/ Call!Succeed(h) \/ Call!Fail(h)
        BY <3>3, <4>2, <4>3
        DEF Call!Spend, Call!Ask, Call!Verify, Call!Succeed, Call!Fail, Call!Pass
      <4> QED BY <3>3, <4>4 DEF Call!Next
    <3> QED BY <3>4, <3>5
  <2> QED BY <2>1, <2>2, <2>3, <2>4 DEF Next, vars, Authorize, Crash, store, outside, history
<1> QED BY <1>1, <1>2, Inductive, PTL DEF Spec, ImplementsCall, Call!Spec
=============================================================================
