---------------------------- MODULE RenderAttempts ----------------------------
(***************************************************************************)
(* Controlled HVS renders: the attempt store of                            *)
(* scos/control_center/hvs_render_attempt_store.py and the processes that  *)
(* run `hvs_render_cli execute` over it (hvs_render_execution_service.py). *)
(*                                                                         *)
(* Every execute is an operating-system process of its own.  The store is  *)
(* one JSON file: each store method is one section under the file lock and *)
(* one atomic replacement, hence one action here; between two methods any  *)
(* other process may run, crash, or mark an attempt unknown.               *)
(*                                                                         *)
(* cmd_execute takes the authorization, capability and attempt ids from    *)
(* its caller.  The model assumes they are the ones cmd_authorize derived  *)
(* from the plan and returned, so all three collections are keyed by the   *)
(* plan: one revision of one project.                                      *)
(***************************************************************************)
EXTENDS Naturals

CONSTANTS Proc,      \* execute processes that can be alive at once
          Plan,      \* render plans: (project, revision) pairs
          Project,   \* projects
          projectOf  \* the project of each plan

ASSUME PlanAssumption == projectOf \in [Plan -> Project]

VARIABLES
  granted,   \* plans whose stored authorization says AUTHORIZED (not DENIED)
  cap,       \* stored capability: absent, issued (consumed_at None), consumed
  state,     \* stored attempt state
  recorded,  \* stored render_calls of the attempt
  pc,        \* next step of each execute process
  plan,      \* the plan each process executes (or executed last)
  hvsCalls,  \* renders HVS was really asked for; 2 stands for two or more
  delivered, \* plans for which HVS said ok and the artifact was verified
  overlapped, \* history: plans of which two executes were alive at once
  contended  \* history: projects of which two executes were alive at once

store == <<granted, cap, state, recorded>>
outside == <<hvsCalls, delivered>>
history == <<overlapped, contended>>
vars == <<granted, cap, state, recorded, pc, plan, hvsCalls, delivered, overlapped, contended>>

Capabilities == {"NONE", "ISSUED", "CONSUMED"}

\* States some code path writes; RECONCILIATION_REQUIRED and the two
\* authorization states are in the vocabulary but no path stores them.
Written == {"STARTING", "RUNNING", "DISCOVERED", "VALIDATED",
            "SUCCEEDED", "FAILED_CONFIRMED", "OUTCOME_UNKNOWN"}
AttemptStates == Written \cup {"ABSENT"}

BeforeConsume == {"check", "issue", "claim", "start", "consume", "refuse"}
Answered == {"verified", "unverified", "validate", "succeed", "fail"}
AfterConsume == {"run", "invoke", "wait", "unknown"} \cup Answered
Steps == {"idle"} \cup BeforeConsume \cup AfterConsume

PlansOf(pr) == {h \in Plan : projectOf[h] = pr}
InFlight(h) == {p \in Proc : pc[p] # "idle" /\ plan[p] = h}

TypeOK ==
  /\ granted \subseteq Plan
  /\ cap \in [Plan -> Capabilities]
  /\ state \in [Plan -> AttemptStates]
  /\ recorded \in [Plan -> {0, 1}]
  /\ pc \in [Proc -> Steps]
  /\ plan \in [Proc -> Plan]
  /\ hvsCalls \in [Plan -> 0..2]
  /\ delivered \subseteq Plan
  /\ overlapped \subseteq Plan
  /\ contended \subseteq Project

Init ==
  /\ granted = {}
  /\ cap = [h \in Plan |-> "NONE"]
  /\ state = [h \in Plan |-> "ABSENT"]
  /\ recorded = [h \in Plan |-> 0]
  /\ pc = [p \in Proc |-> "idle"]
  /\ plan \in [Proc -> Plan]
  /\ hvsCalls = [h \in Plan |-> 0]
  /\ delivered = {}
  /\ overlapped = {}
  /\ contended = {}

-----------------------------------------------------------------------------
(* The operator's side: authorizations and the bridge's timeout report.    *)

\* issue_authorization stores the decision either way, over the previous one.
Authorize(h, confirmed) ==
  /\ granted' = IF confirmed THEN granted \cup {h} ELSE granted \ {h}
  /\ UNCHANGED <<cap, state, recorded, pc, plan, outside, history>>

\* Faulty variant: the report overwrites finished attempts as well.
MarkAnyUnknown(h) ==
  /\ state[h] \notin {"ABSENT", "OUTCOME_UNKNOWN"}
  /\ state' = [state EXCEPT ![h] = "OUTCOME_UNKNOWN"]
  /\ UNCHANGED <<granted, cap, recorded, pc, plan, outside, history>>

\* The bridge gave up waiting: only an attempt in flight becomes unknown.
RecordTransportUnknown(h) ==
  /\ state[h] \in {"STARTING", "RUNNING"}
  /\ state' = [state EXCEPT ![h] = "OUTCOME_UNKNOWN"]
  /\ UNCHANGED <<granted, cap, recorded, pc, plan, outside, history>>

-----------------------------------------------------------------------------
(* render(), one action per store operation or external call.              *)

Goto(p, step) == pc' = [pc EXCEPT ![p] = step]
Put(p, s) == state' = [state EXCEPT ![plan[p]] = s]

\* cmd_execute loads the authorization and render() evaluates that copy.  An
\* authorization past its TTL is rejected: no step then, as time is not modelled.
Execute(p, h) ==
  LET others == {plan[q] : q \in {r \in Proc : pc[r] # "idle"}}
  IN  /\ pc[p] = "idle"
      /\ h \in granted
      /\ plan' = [plan EXCEPT ![p] = h]
      /\ overlapped' = overlapped \cup (others \cap {h})
      /\ contended' = IF others \cap PlansOf(projectOf[h]) = {} THEN contended
                        ELSE contended \cup {projectOf[h]}
      /\ Goto(p, "check")
      /\ UNCHANGED <<store, outside>>

\* Faulty variant: the replay check is gone.
CheckNothing(p) ==
  /\ pc[p] = "check"
  /\ \E exists \in BOOLEAN : Goto(p, IF exists THEN "issue" ELSE "idle")
  /\ UNCHANGED <<store, plan, outside, history>>

\* A consumed capability is a replay; a missing project tree is rejected too.
CheckCapability(p) ==
  /\ pc[p] = "check"
  /\ \E exists \in BOOLEAN :
       Goto(p, IF cap[plan[p]] # "CONSUMED" /\ exists THEN "issue" ELSE "idle")
  /\ UNCHANGED <<store, plan, outside, history>>

\* put_capability writes a fresh, unconsumed capability over what is there.
IssueCapability(p) ==
  /\ pc[p] = "issue"
  /\ cap' = [cap EXCEPT ![plan[p]] = "ISSUED"]
  /\ Goto(p, "claim")
  /\ UNCHANGED <<granted, state, recorded, plan, outside, history>>

\* Faulty variant: a running attempt no longer holds the slot.
ActiveUntilRunning == {"STARTING"}

\* The states that hold a project's slot, of those any path writes.
ActiveStates == {"STARTING", "RUNNING"}

SlotTaken(h) ==
  \E g \in PlansOf(projectOf[h]) \ {h} : state[g] \in ActiveStates

\* try_claim_active looks for another active attempt and writes nothing.
ClaimSlot(p) ==
  /\ pc[p] = "claim"
  /\ Goto(p, IF SlotTaken(plan[p]) THEN "idle" ELSE "start")
  /\ UNCHANGED <<store, plan, outside, history>>

PutStarting(p) ==
  /\ pc[p] = "start"
  /\ Put(p, "STARTING")
  /\ recorded' = [recorded EXCEPT ![plan[p]] = 0]
  /\ Goto(p, "consume")
  /\ UNCHANGED <<granted, cap, plan, outside, history>>

\* Faulty variant: the consumption is not saved.
ConsumeUnsaved(p) ==
  /\ pc[p] = "consume"
  /\ Goto(p, IF cap[plan[p]] = "ISSUED" THEN "run" ELSE "refuse")
  /\ UNCHANGED <<store, plan, outside, history>>

ConsumeCapability(p) ==
  /\ pc[p] = "consume"
  /\ IF cap[plan[p]] = "ISSUED"
       THEN /\ cap' = [cap EXCEPT ![plan[p]] = "CONSUMED"]
            /\ Goto(p, "run")
       ELSE /\ Goto(p, "refuse")
            /\ UNCHANGED cap
  /\ UNCHANGED <<granted, state, recorded, plan, outside, history>>

PutRefused(p) ==
  /\ pc[p] = "refuse"
  /\ Put(p, "FAILED_CONFIRMED")
  /\ recorded' = [recorded EXCEPT ![plan[p]] = 0]
  /\ Goto(p, "idle")
  /\ UNCHANGED <<granted, cap, plan, outside, history>>

\* Faulty variant: render_calls is left for the final write.
PutRunningUncounted(p) ==
  /\ pc[p] = "run"
  /\ Put(p, "RUNNING")
  /\ Goto(p, "invoke")
  /\ UNCHANGED <<granted, cap, recorded, plan, outside, history>>

\* The RUNNING record, with render_calls = 1, is durable before HVS is called.
PutRunning(p) ==
  /\ pc[p] = "run"
  /\ Put(p, "RUNNING")
  /\ recorded' = [recorded EXCEPT ![plan[p]] = 1]
  /\ Goto(p, "invoke")
  /\ UNCHANGED <<granted, cap, plan, outside, history>>

\* That write is inside the try block: a busy or broken store ends as unknown.
RunningNotStored(p) ==
  /\ pc[p] = "run"
  /\ Goto(p, "unknown")
  /\ UNCHANGED <<store, plan, outside, history>>

InvokeHvs(p) ==
  /\ pc[p] = "invoke"
  /\ hvsCalls' = [hvsCalls EXCEPT ![plan[p]] = IF @ = 0 THEN 1 ELSE 2]
  /\ Goto(p, "wait")
  /\ UNCHANGED <<store, plan, delivered, history>>

\* HVS returns, the inspector runs and the artifact validator gives a verdict:
\* "verified" and "unverified" answers were ok, any other answer failed.
HvsReturns(p) ==
  /\ pc[p] = "wait"
  /\ \E next \in {"verified", "unverified", "fail"} :
       /\ Goto(p, next)
       /\ delivered' = IF next = "verified" THEN delivered \cup {plan[p]} ELSE delivered
  /\ UNCHANGED <<store, plan, hvsCalls, history>>

\* The call raised, or timeout_during_invoke stands in for it before the call.
HvsLost(p) ==
  /\ pc[p] \in {"invoke", "wait"}
  /\ Goto(p, "unknown")
  /\ UNCHANGED <<store, plan, outside, history>>

\* Faulty variant: the record of the lost call counts it once more.
PutUnknownCounting(p) ==
  /\ pc[p] = "unknown"
  /\ Put(p, "OUTCOME_UNKNOWN")
  /\ recorded' = [recorded EXCEPT ![plan[p]] = @ + 1]
  /\ Goto(p, "idle")
  /\ UNCHANGED <<granted, cap, plan, outside, history>>

PutUnknown(p) ==
  /\ pc[p] = "unknown"
  /\ Put(p, "OUTCOME_UNKNOWN")
  /\ recorded' = [recorded EXCEPT ![plan[p]] = 1]
  /\ Goto(p, "idle")
  /\ UNCHANGED <<granted, cap, plan, outside, history>>

\* Faulty variant: the validator's verdict is not looked at.
PutDiscoveredUnchecked(p) ==
  /\ pc[p] \in {"verified", "unverified"}
  /\ Put(p, "DISCOVERED")
  /\ recorded' = [recorded EXCEPT ![plan[p]] = 1]
  /\ Goto(p, "validate")
  /\ UNCHANGED <<granted, cap, plan, outside, history>>

PutDiscovered(p) ==
  /\ pc[p] \in {"verified", "unverified"}
  /\ Put(p, "DISCOVERED")
  /\ recorded' = [recorded EXCEPT ![plan[p]] = 1]
  /\ Goto(p, IF pc[p] = "verified" THEN "validate" ELSE "fail")
  /\ UNCHANGED <<granted, cap, plan, outside, history>>

PutValidated(p) ==
  /\ pc[p] = "validate"
  /\ Put(p, "VALIDATED")
  /\ recorded' = [recorded EXCEPT ![plan[p]] = 1]
  /\ Goto(p, "succeed")
  /\ UNCHANGED <<granted, cap, plan, outside, history>>

PutSucceeded(p) ==
  /\ pc[p] = "succeed"
  /\ Put(p, "SUCCEEDED")
  /\ recorded' = [recorded EXCEPT ![plan[p]] = 1]
  /\ Goto(p, "idle")
  /\ UNCHANGED <<granted, cap, plan, outside, history>>

PutFailed(p) ==
  /\ pc[p] = "fail"
  /\ Put(p, "FAILED_CONFIRMED")
  /\ recorded' = [recorded EXCEPT ![plan[p]] = 1]
  /\ Goto(p, "idle")
  /\ UNCHANGED <<granted, cap, plan, outside, history>>

\* The process dies, or a store operation raises out of render().
Crash(p) ==
  /\ pc[p] # "idle"
  /\ Goto(p, "idle")
  /\ UNCHANGED <<store, plan, outside, history>>

Step(p) ==
  \/ CheckCapability(p) \/ IssueCapability(p) \/ ClaimSlot(p)
  \/ PutStarting(p) \/ ConsumeCapability(p) \/ PutRefused(p)
  \/ PutRunning(p) \/ RunningNotStored(p) \/ InvokeHvs(p)
  \/ HvsReturns(p) \/ HvsLost(p) \/ PutUnknown(p)
  \/ PutDiscovered(p) \/ PutValidated(p) \/ PutSucceeded(p) \/ PutFailed(p)

Next ==
  \/ \E h \in Plan :
       \/ \E confirmed \in BOOLEAN : Authorize(h, confirmed)
       \/ RecordTransportUnknown(h)
  \/ \E p \in Proc :
       \/ \E h \in Plan : Execute(p, h)
       \/ Step(p)
       \/ Crash(p)

Spec == Init /\ [][Next]_vars

-----------------------------------------------------------------------------
(* What the operator is shown (cmd_projection).                            *)

\* Faulty variant: an old failure hides what is still going on.
FailureFirst == <<"SUCCEEDED", "FAILED_CONFIRMED", "OUTCOME_UNKNOWN", "RUNNING", "STARTING">>
TruthPriority == <<"SUCCEEDED", "OUTCOME_UNKNOWN", "RUNNING", "STARTING", "FAILED_CONFIRMED">>

\* The first state of the priority list that some attempt of the project is in;
\* without one, AUTHORIZED if any stored decision says so (expiry is not read).
TruthState(pr) ==
  LET ranks == {i \in DOMAIN TruthPriority : \E h \in PlansOf(pr) : state[h] = TruthPriority[i]}
  IN  IF ranks # {}
        THEN TruthPriority[CHOOSE i \in ranks : \A j \in ranks : i <= j]
        ELSE IF granted \cap PlansOf(pr) # {}
               THEN "AUTHORIZED"
               ELSE "NOT_REQUESTED"

-----------------------------------------------------------------------------
(* Properties.  The conditional ones say what holds as long as no two      *)
(* executes of a plan (or project) were alive at the same time; crashes,   *)
(* retries and late answers are included.  The unconditional readings are  *)
(* refuted: see SingleUseCapability and the ones after it.                 *)

\* A plan is rendered at most once, however often it is executed again after a
\* crash, a rejection, an unknown outcome or a success (capability replay check).
RenderOnce == \A h \in Plan : h \notin overlapped => hvsCalls[h] <= 1

\* A render that was asked for is on record as render_calls = 1, so a restart
\* never mistakes a plan that may have been rendered for one that was not.
RenderOnRecord ==
  \A h \in Plan : h \notin overlapped /\ hvsCalls[h] > 0 => recorded[h] = 1

\* RENDER_SUCCEEDED is only ever stored for a plan whose HVS call answered ok and
\* whose artifact was verified, overlap or not; and a confirmed failure never
\* hides such a render unless executes of the plan overlapped.
OutcomeTruthful ==
  \A h \in Plan :
    /\ state[h] = "SUCCEEDED" => h \in delivered
    /\ h \notin overlapped /\ state[h] = "FAILED_CONFIRMED" => h \notin delivered

PastClaim == {"start", "consume"} \cup AfterConsume

\* An execute that got past try_claim_active is alone in its project: no attempt
\* of another plan, left behind by a crash for instance, holds the slot.
SlotRespected ==
  \A p \in Proc :
    pc[p] \in PastClaim /\ projectOf[plan[p]] \notin contended
      => \A h \in PlansOf(projectOf[plan[p]]) \ {plan[p]} : state[h] \notin {"STARTING", "RUNNING"}

\* While HVS is rendering, the operator is never shown a project that is idle,
\* ready to execute, merely starting, or failed (cmd_projection).
RenderVisible ==
  \A p \in Proc :
    pc[p] = "wait" /\ plan[p] \notin overlapped
      => TruthState(projectOf[plan[p]]) \in {"RUNNING", "OUTCOME_UNKNOWN", "SUCCEEDED"}

\* RENDER_TRANSITIONS of hvs_render_plan_models.py, restricted to stored states.
Transitions ==
  [s \in Written |->
     CASE s = "STARTING"        -> {"RUNNING", "FAILED_CONFIRMED", "OUTCOME_UNKNOWN"}
       [] s = "RUNNING"         -> {"DISCOVERED", "FAILED_CONFIRMED", "OUTCOME_UNKNOWN"}
       [] s = "DISCOVERED"      -> {"VALIDATED", "FAILED_CONFIRMED", "OUTCOME_UNKNOWN"}
       [] s = "VALIDATED"       -> {"SUCCEEDED", "FAILED_CONFIRMED"}
       [] s = "OUTCOME_UNKNOWN" -> {"SUCCEEDED", "FAILED_CONFIRMED"}
       [] OTHER                 -> {}]

\* The stored attempt of a plan whose executes never overlapped moves along the
\* declared state machine - finished attempts never move - except that an unknown
\* one may be overwritten by whatever its still running execute stores next.
Lifecycle ==
  [][\A h \in Plan :
       state'[h] # state[h] /\ h \notin overlapped
         => \/ state[h] = "ABSENT" /\ state'[h] = "STARTING"
            \/ state[h] = "OUTCOME_UNKNOWN"
            \/ state'[h] \in Transitions[state[h]]]_state

\* How far the single-use call of a plan has come, as the store and HVS show it.
Phase(h) ==
  IF h \in overlapped THEN "raced"
  ELSE IF hvsCalls[h] > 1 THEN "asked twice"
  ELSE IF state[h] = "SUCCEEDED" THEN "done"
  ELSE IF state[h] = "FAILED_CONFIRMED" THEN "failed"
  ELSE IF h \in delivered THEN "verified"
  ELSE IF hvsCalls[h] = 1 THEN "asked"
  ELSE IF cap[h] = "CONSUMED" THEN "spent" ELSE "new"

Call == INSTANCE SingleUseCall WITH Key <- Plan, phase <- [h \in Plan |-> Phase(h)]

\* Unless executes of it overlapped, the render of a plan is the single-use call of
\* SingleUseCall: its capability is durably consumed before HVS is asked, it is
\* asked once, and only the answer makes it a success or a failure, which nothing
\* undoes - no crash, re-execution, re-authorization or transport report.
ImplementsCall == Call!Spec

-----------------------------------------------------------------------------
(* The inductive invariant behind these properties.                        *)

\* Two live executes of one plan, or of one project, are remembered.
OverlapRemembered ==
  \A p, q \in Proc :
    p # q /\ pc[p] # "idle" /\ pc[q] # "idle"
      => /\ plan[p] = plan[q] => plan[p] \in overlapped
         /\ projectOf[plan[p]] = projectOf[plan[q]] => projectOf[plan[p]] \in contended

\* The stored states an undisturbed execute can find its attempt in, by step.
FoundAt(step) ==
  CASE step \in {"issue", "claim", "start"} -> {"ABSENT", "STARTING", "OUTCOME_UNKNOWN"}
    [] step \in {"consume", "run"}          -> {"STARTING", "OUTCOME_UNKNOWN"}
    [] step \in {"invoke", "wait", "verified", "unverified"}
                                            -> {"RUNNING", "OUTCOME_UNKNOWN"}
    [] step = "unknown"  -> {"STARTING", "RUNNING", "OUTCOME_UNKNOWN"}
    [] step = "validate" -> {"DISCOVERED"}
    [] step = "succeed"  -> {"VALIDATED"}
    [] step = "fail"     -> {"RUNNING", "DISCOVERED", "OUTCOME_UNKNOWN"}
    [] OTHER             -> AttemptStates

\* Where an undisturbed execute stands, and what the store must say of its plan.
StepInv(p) ==
  LET h == plan[p] IN
  /\ pc[p] # "refuse"
  /\ state[h] \in FoundAt(pc[p])
  /\ pc[p] = "issue" => cap[h] # "CONSUMED"
  /\ pc[p] \in {"claim", "start", "consume"} => cap[h] = "ISSUED"
  /\ pc[p] \in AfterConsume => cap[h] = "CONSUMED"
  /\ pc[p] \in {"issue", "claim", "start", "consume", "run", "invoke"} => hvsCalls[h] = 0
  /\ pc[p] \in {"invoke", "wait"} \cup Answered => recorded[h] = 1
  /\ pc[p] \in {"issue", "claim", "start", "consume", "run", "invoke", "wait",
                 "unverified", "fail"} => h \notin delivered

\* What the store says of an undisturbed plan, whoever is alive.
PlanInv(h) ==
  /\ hvsCalls[h] > 0 => hvsCalls[h] = 1 /\ cap[h] = "CONSUMED" /\ recorded[h] = 1
  /\ cap[h] # "CONSUMED" => state[h] \in {"ABSENT", "STARTING", "OUTCOME_UNKNOWN"}
  /\ h \in delivered => state[h] # "FAILED_CONFIRMED"

StepsInv == \A p \in Proc : pc[p] # "idle" /\ plan[p] \notin overlapped => StepInv(p)
PlansInv == \A h \in Plan : h \notin overlapped => PlanInv(h)

\* What an answer from HVS leaves behind, overlap or not.
AnswerInv ==
  /\ \A p \in Proc :
       /\ pc[p] \in {"verified", "validate", "succeed"} => plan[p] \in delivered
       /\ pc[p] \in {"wait"} \cup Answered => hvsCalls[plan[p]] > 0
  /\ \A h \in Plan :
       /\ h \in delivered => hvsCalls[h] > 0
       /\ state[h] = "SUCCEEDED" => h \in delivered

IInv ==
  /\ TypeOK
  /\ OverlapRemembered
  /\ StepsInv
  /\ PlansInv
  /\ AnswerInv
  /\ SlotRespected

-----------------------------------------------------------------------------
(* What the comments claim without the condition.                          *)

\* "Exactly ONE HVS render call may occur, guarded by single-use capability
\* consumption" (render()).
SingleUseCapability == \A h \in Plan : hvsCalls[h] <= 1

\* "Runs entirely under the store lock so two concurrent requests cannot both
\* win" (try_claim_active): two executes of a project past the claim.
OneWinnerPerProject ==
  \A p, q \in Proc :
    p # q /\ projectOf[plan[p]] = projectOf[plan[q]]
      => ~(pc[p] \in PastClaim /\ pc[q] \in PastClaim)

\* "Invalid transitions fail closed" (RENDER_TRANSITIONS), for attempts that are
\* already recorded.  An execute whose attempt is marked unknown while it is still
\* at work stores its next state over that: RUNNING, or what HVS answered.
InvalidTransitionsFailClosed ==
  [][\A h \in Plan :
       state'[h] # state[h] /\ state[h] # "ABSENT" /\ h \notin overlapped
         => state'[h] \in Transitions[state[h]]]_state

\* "an AUTHORIZED authorization with no terminal/running/starting attempt means
\* the operator may execute" (cmd_projection): with nobody executing, a project
\* shown as AUTHORIZED has a plan whose capability was not consumed yet.
AuthorizedMeansMayExecute ==
  \A pr \in Project :
    TruthState(pr) = "AUTHORIZED" /\ (\A h \in PlansOf(pr) : InFlight(h) = {})
      => \E h \in PlansOf(pr) : h \in granted /\ cap[h] # "CONSUMED"

=============================================================================
