---------------------------- MODULE Materialization ----------------------------
(***************************************************************************)
(* Materializing an HVS project and, after it, the inputs of its render:    *)
(* hvs_project_materialization_service.py over the JSON store of            *)
(* hvs_project_materialization_store.py, run by the commands of             *)
(* hvs_materialization_cli.py.                                              *)
(*                                                                         *)
(* The two stages keep ledgers of their own in one file and follow one      *)
(* protocol; where they differ an operator says so by the stage.  One       *)
(* project is modelled, at one revision, with one authorization per stage.  *)
(* The caller chooses the capability and the attempt of every execution, so *)
(* both may be fresh or used before.  Each store method is a section under  *)
(* the file lock with one atomic replacement, hence one action; between     *)
(* two, other processes run or this one dies.                               *)
(***************************************************************************)
EXTENDS Naturals

CONSTANTS Proc,        \* command processes that can be alive at once
          Capability,  \* capability ids the callers use
          Attempt,     \* attempt ids the callers use
          None,        \* no job, no capability
          MaxRuns      \* bound: executions and reconciliations started

ASSUME RunsAssumption == MaxRuns \in Nat
ASSUME NoneAssumption == None \notin Capability

VARIABLES
  granted,    \* stages whose stored authorization says AUTHORIZED
  cap,        \* stored capability: absent, issued, consumed
  state,      \* stored state of each attempt
  tree,       \* what HVS has made of the stage on disk
  pc,         \* next step of each process
  job,        \* the stage, capability and attempt each process works on
  reply,      \* how HVS answered the process's call
  view,       \* what the process saw (or was told) of the tree
  runs,       \* executions and reconciliations started so far
  calls,      \* history: how often HVS was called on each capability
  reissued,   \* history: capabilities issued again after they were consumed
  unanswered, \* history: attempts whose last call has no outcome on record
  contended   \* history: ids, and stages, two processes worked on at once

store == <<granted, cap, state>>
locals == <<job, reply, view>>
history == <<calls, reissued, unanswered, contended>>
vars == <<granted, cap, state, tree, pc, job, reply, view, runs, calls, reissued,
          unanswered, contended>>

Stages == {"project", "inputs"}
\* An execution names a capability; a reconciliation only an attempt.
Jobs == [stage : Stages, cap : Capability \cup {None}, attempt : Attempt]
Trees == {"absent", "partial", "whole"}

\* What a stage calls an attempt in flight, and one that succeeded.  The other
\* in-flight states of the vocabulary are never stored for an attempt.
Running(s) == IF s = "project" THEN "STARTING" ELSE "MATERIALIZING"
Succeeded(s) == IF s = "project" THEN {"MATERIALIZED"} ELSE {"MATERIALIZED", "RENDER_READY"}

\* States an attempt of the stage can be in once HVS was asked.
Outcomes(s) ==
  {"OUTCOME_UNKNOWN", "FAILED_CONFIRMED"} \cup Succeeded(s)
    \cup (IF s = "inputs" THEN {"RENDER_NOT_READY"} ELSE {})

AttemptStates(s) == {"ABSENT", Running(s)} \cup Outcomes(s)

Executing == {"check", "issue", "claim", "mark", "consume", "refuse", "call", "wait",
              "inspect", "record", "ready"}
Reconciling == {"look", "promote"}
Steps == {"idle"} \cup Executing \cup Reconciling

\* What another process may contend for with a job: its attempt and, if it is an
\* execution, its capability and the stage's single place in flight.
Claims(j) == {<<j.stage, j.attempt>>}
             \cup IF j.cap = None THEN {} ELSE {<<j.stage, j.cap>>, <<j.stage, "slot">>}

TypeOK ==
  /\ granted \subseteq Stages
  /\ cap \in [Stages -> [Capability -> {"ABSENT", "ISSUED", "CONSUMED"}]]
  /\ state \in [Stages -> [Attempt -> UNION {AttemptStates(s) : s \in Stages}]]
  /\ \A s \in Stages, a \in Attempt : state[s][a] \in AttemptStates(s)
  /\ tree \in [Stages -> Trees]
  /\ pc \in [Proc -> Steps]
  /\ job \in [Proc -> Jobs \cup {None}]
  /\ reply \in [Proc -> {"none", "ok", "failed", "raised"}]
  /\ view \in [Proc -> {"none"} \cup Trees]
  /\ runs \in 0..MaxRuns
  /\ calls \in [Stages -> [Capability -> Nat]]
  /\ reissued \subseteq Stages \X Capability
  /\ unanswered \subseteq Stages \X Attempt
  /\ contended \subseteq Stages \X (Capability \cup Attempt \cup {"slot"})

Init ==
  /\ granted = {}
  /\ cap = [s \in Stages |-> [c \in Capability |-> "ABSENT"]]
  /\ state = [s \in Stages |-> [a \in Attempt |-> "ABSENT"]]
  /\ tree = [s \in Stages |-> "absent"]
  /\ pc = [p \in Proc |-> "idle"]
  /\ job = [p \in Proc |-> None]
  /\ reply = [p \in Proc |-> "none"]
  /\ view = [p \in Proc |-> "none"]
  /\ runs = 0
  /\ calls = [s \in Stages |-> [c \in Capability |-> 0]]
  /\ reissued = {}
  /\ unanswered = {}
  /\ contended = {}

-----------------------------------------------------------------------------
(* Commands.                                                               *)

Goto(p, step) == pc' = [pc EXCEPT ![p] = step]

\* The process returns its answer, or dies.
Leave(p) ==
  /\ Goto(p, "idle")
  /\ job' = [job EXCEPT ![p] = None]
  /\ reply' = [reply EXCEPT ![p] = "none"]
  /\ view' = [view EXCEPT ![p] = "none"]

\* put_attempt, and what the process's job stands for in the store.
Put(p, st) == state' = [state EXCEPT ![job[p].stage][job[p].attempt] = st]
CapOf(p) == cap[job[p].stage][job[p].cap]
StateOf(p) == state[job[p].stage][job[p].attempt]
Ticket(p) == <<job[p].stage, job[p].attempt>>

\* A project's authorization is stored only when confirmed; that of the inputs
\* is stored with whatever decision was taken.
Authorize(s, confirmed) ==
  /\ runs < MaxRuns
  /\ confirmed \/ s = "inputs"
  /\ granted' = IF confirmed THEN granted \cup {s} ELSE granted \ {s}
  /\ UNCHANGED <<cap, state, tree, pc, locals, runs, history>>

Begin(p, j, step) ==
  /\ pc[p] = "idle"
  /\ runs < MaxRuns
  /\ runs' = runs + 1
  /\ job' = [job EXCEPT ![p] = j]
  /\ contended' = contended \cup
       (Claims(j) \cap UNION {Claims(job[q]) : q \in {r \in Proc : pc[r] # "idle"}})
  /\ Goto(p, step)
  /\ UNCHANGED <<store, tree, reply, view, calls, reissued, unanswered>>

\* The authorization loaded here is the one evaluated.  One that is expired, or
\* bound to something else, is refused without a write: no step then.
Execute(p, s, c, a) ==
  /\ s \in granted
  /\ Begin(p, [stage |-> s, cap |-> c, attempt |-> a], "check")

\* An attempt that is not on record, or in flight, is left alone.
Reconcile(p, s, a) ==
  /\ state[s][a] \in Outcomes(s)
  /\ Begin(p, [stage |-> s, cap |-> None, attempt |-> a], "look")

-----------------------------------------------------------------------------
(* materialize() and materialize_render_inputs().                          *)

\* Faulty variant: no replay containment.
CheckNothing(p) ==
  /\ pc[p] = "check"
  /\ Goto(p, "issue")
  /\ UNCHANGED <<store, tree, locals, runs, history>>

\* A capability consumed before is a replay.
Check(p) ==
  /\ pc[p] = "check"
  /\ IF CapOf(p) = "CONSUMED" THEN Leave(p)
     ELSE Goto(p, "issue") /\ UNCHANGED locals
  /\ UNCHANGED <<store, tree, runs, history>>

\* put_capability writes a fresh capability over whatever is there by now.
Issue(p) ==
  /\ pc[p] = "issue"
  /\ cap' = [cap EXCEPT ![job[p].stage][job[p].cap] = "ISSUED"]
  /\ reissued' = IF CapOf(p) = "CONSUMED"
                 THEN reissued \cup {<<job[p].stage, job[p].cap>>} ELSE reissued
  /\ Goto(p, "claim")
  /\ UNCHANGED <<granted, state, tree, locals, runs, calls, unanswered, contended>>

\* Faulty variant: only this attempt's own state is looked at.
ClaimOwn(p) ==
  /\ pc[p] = "claim"
  /\ IF StateOf(p) = Running(job[p].stage) THEN Leave(p)
     ELSE Goto(p, "mark") /\ UNCHANGED locals
  /\ UNCHANGED <<store, tree, runs, history>>

\* try_claim_inflight, and the inputs' scan without the lock: refused while an
\* attempt under another id is in flight.  Nothing is written: the place is
\* taken by the next step.
Claim(p) ==
  /\ pc[p] = "claim"
  /\ IF \E a \in Attempt \ {job[p].attempt} :
          state[job[p].stage][a] = Running(job[p].stage)
     THEN Leave(p)
     ELSE Goto(p, "mark") /\ UNCHANGED locals
  /\ UNCHANGED <<store, tree, runs, history>>

\* Faulty variant: the attempt is stored only with its outcome.
MarkNothing(p) ==
  /\ pc[p] = "mark"
  /\ Goto(p, "consume")
  /\ UNCHANGED <<store, tree, locals, runs, history>>

\* The attempt is on record before HVS is asked, over any earlier record of it.
Mark(p) ==
  /\ pc[p] = "mark"
  /\ Put(p, Running(job[p].stage))
  /\ Goto(p, "consume")
  /\ UNCHANGED <<granted, cap, tree, locals, runs, history>>

\* Faulty variant: consuming does not look whether somebody has.
ConsumeBlind(p) ==
  /\ pc[p] = "consume"
  /\ cap' = [cap EXCEPT ![job[p].stage][job[p].cap] = "CONSUMED"]
  /\ \E step \in {"call", "refuse"} : Goto(p, step)
  /\ UNCHANGED <<granted, state, tree, locals, runs, history>>

\* consume_capability: whoever finds it consumed gets nothing.
Consume(p) ==
  /\ pc[p] = "consume"
  /\ cap' = [cap EXCEPT ![job[p].stage][job[p].cap] = "CONSUMED"]
  /\ Goto(p, IF CapOf(p) = "ISSUED" THEN "call" ELSE "refuse")
  /\ UNCHANGED <<granted, state, tree, locals, runs, history>>

\* The contained duplicate stores its refusal as the attempt's failure.
Refuse(p) ==
  /\ pc[p] = "refuse"
  /\ Put(p, "FAILED_CONFIRMED")
  /\ Leave(p)
  /\ UNCHANGED <<granted, cap, tree, runs, history>>

\* HVS starts on the request and writes file by file, over what is there.
Call(p) ==
  /\ pc[p] = "call"
  /\ \E t \in {tree[job[p].stage], "partial"} : tree' = [tree EXCEPT ![job[p].stage] = t]
  /\ calls' = [calls EXCEPT ![job[p].stage][job[p].cap] = @ + 1]
  /\ unanswered' = unanswered \cup {Ticket(p)}
  /\ Goto(p, "wait")
  /\ UNCHANGED <<store, locals, runs, reissued, contended>>

\* HVS answers, fails, or its answer is lost; either way it may have finished.  Of
\* the inputs it also tells what it made, and is believed: an answer that lists
\* nothing counts as the whole.
Answer(p) ==
  /\ pc[p] = "wait"
  /\ \E r \in {"ok", "failed", "raised"}, t \in {tree[job[p].stage], "whole"},
        told \in {"none", "partial", "whole"} :
       /\ told # "none" => r = "ok" /\ job[p].stage = "inputs"
       /\ reply' = [reply EXCEPT ![p] = r]
       /\ view' = [view EXCEPT ![p] = told]
       /\ tree' = [tree EXCEPT ![job[p].stage] = t]
       /\ Goto(p, IF job[p].stage = "project" /\ r # "raised" THEN "inspect" ELSE "record")
  /\ UNCHANGED <<store, job, runs, history>>

\* The inspector reads the tree, or fails.
Inspect(p) ==
  /\ pc[p] = "inspect"
  /\ \E seen \in {"none", tree[job[p].stage]} : view' = [view EXCEPT ![p] = seen]
  /\ Goto(p, "record")
  /\ UNCHANGED <<store, tree, job, reply, runs, history>>

\* Faulty variant: HVS's word is enough.
OutcomeOnWord(p) ==
  CASE reply[p] = "raised" -> "OUTCOME_UNKNOWN"
    [] reply[p] = "ok" -> "MATERIALIZED"
    [] OTHER -> "FAILED_CONFIRMED"

\* Success takes an ok and the whole tree; no answer is never a failure.
Outcome(p) ==
  CASE reply[p] = "raised" -> "OUTCOME_UNKNOWN"
    [] reply[p] = "ok" /\ view[p] = "whole" -> "MATERIALIZED"
    [] reply[p] = "ok" /\ view[p] = "partial" /\ job[p].stage = "inputs" -> "RENDER_NOT_READY"
    [] OTHER -> "FAILED_CONFIRMED"

Record(p) ==
  /\ pc[p] = "record"
  /\ Put(p, Outcome(p))
  /\ unanswered' = unanswered \ {Ticket(p)}
  /\ IF job[p].stage = "inputs" /\ Outcome(p) = "MATERIALIZED"
     THEN Goto(p, "ready") /\ UNCHANGED locals
     ELSE Leave(p)
  /\ UNCHANGED <<granted, cap, tree, runs, calls, reissued, contended>>

\* The inputs are stored as materialized first and as ready right after.
Ready(p) ==
  /\ pc[p] = "ready"
  /\ Put(p, "RENDER_READY")
  /\ Leave(p)
  /\ UNCHANGED <<granted, cap, tree, runs, history>>

-----------------------------------------------------------------------------
(* reconcile_materialization() and reconcile_render_inputs().              *)

Look(p) ==
  /\ pc[p] = "look"
  /\ \E seen \in {"none", tree[job[p].stage]} :
       IF seen = "whole"
       THEN /\ view' = [view EXCEPT ![p] = seen]
            /\ Goto(p, "promote")
            /\ UNCHANGED <<job, reply>>
       ELSE Leave(p)
  /\ UNCHANGED <<store, tree, runs, history>>

\* Faulty variant: a project is called ready, as the inputs are.
PromoteToReady(p) ==
  /\ pc[p] = "promote"
  /\ Put(p, "RENDER_READY")
  /\ unanswered' = unanswered \ {Ticket(p)}
  /\ Leave(p)
  /\ UNCHANGED <<granted, cap, tree, runs, calls, reissued, contended>>

\* The copy loaded at the start is stored as a success, whatever the attempt
\* has become since.
Promote(p) ==
  /\ pc[p] = "promote"
  /\ Put(p, IF job[p].stage = "project" THEN "MATERIALIZED" ELSE "RENDER_READY")
  /\ unanswered' = unanswered \ {Ticket(p)}
  /\ Leave(p)
  /\ UNCHANGED <<granted, cap, tree, runs, calls, reissued, contended>>

-----------------------------------------------------------------------------

\* The process dies between two steps, or a store method or the bridge raises:
\* what it had stored and asked for stays.
Crash(p) ==
  /\ pc[p] # "idle"
  /\ Leave(p)
  /\ UNCHANGED <<store, tree, runs, history>>

Step(p) ==
  \/ Check(p) \/ Issue(p) \/ Claim(p) \/ Mark(p) \/ Consume(p) \/ Refuse(p)
  \/ Call(p) \/ Answer(p) \/ Inspect(p) \/ Record(p) \/ Ready(p)
  \/ Look(p) \/ Promote(p) \/ Crash(p)

Next ==
  \/ \E s \in Stages, confirmed \in BOOLEAN : Authorize(s, confirmed)
  \/ \E p \in Proc, s \in Stages, a \in Attempt :
       Reconcile(p, s, a) \/ \E c \in Capability : Execute(p, s, c, a)
  \/ \E p \in Proc : Step(p)

Spec == Init /\ [][Next]_vars

-----------------------------------------------------------------------------
(* What cmd_projection tells of the project.                               *)

Some(st) == \E a \in Attempt : state["project"][a] = st

\* The strongest state any attempt is in; of a failure only if there is nothing else.
Projection ==
  IF Some("MATERIALIZED") THEN "MATERIALIZED"
  ELSE IF Some("OUTCOME_UNKNOWN") THEN "OUTCOME_UNKNOWN"
  ELSE IF Some("STARTING") THEN "STARTING"
  ELSE IF Some("FAILED_CONFIRMED") THEN "FAILED_CONFIRMED"
  ELSE "NOT_REQUESTED"

-----------------------------------------------------------------------------
(* Properties.                                                             *)

\* Of all the executions that name a capability, at once or after a crash, at
\* most one reaches HVS, unless the capability was issued again once consumed.
SingleUse ==
  \A s \in Stages, c \in Capability : <<s, c>> \notin reissued => calls[s][c] <= 1

\* A consumed capability is issued again only by an execution that looked before
\* another one consumed it: never by a replay or after a crash.
ReissuedOnlyInARace == reissued \subseteq contended

\* Two attempts of a stage are never both with HVS, or left so by a crash, unless
\* executions overlapped or an attempt was reconciled while it was executed.
OneCallOpen ==
  \A s \in Stages, a, b \in Attempt :
    a # b /\ {<<s, a>>, <<s, b>>} \subseteq unanswered
      => {<<s, "slot">>, <<s, a>>, <<s, b>>} \cap contended # {}

\* A call whose outcome nobody stored, because its process still waits or died, is
\* on record as in flight, so that the projection never shows the project as
\* failed or as never requested; under the same condition.
NoCallHidden ==
  \A t \in unanswered :
    {t, <<t[1], "slot">>} \cap contended = {}
      => /\ state[t[1]][t[2]] = Running(t[1])
         /\ t[1] = "project" => Projection \in {"STARTING", "OUTCOME_UNKNOWN", "MATERIALIZED"}

\* HVS was asked once for the stage.
AskedOnce(s) ==
  \A c, d \in Capability :
    calls[s][c] > 0 /\ calls[s][d] > 0 => c = d /\ calls[s][c] = 1

\* A project stored as materialized is whole on disk, whoever stored it and
\* whatever HVS said, unless HVS was asked to write over it again.
MaterializedIsWhole ==
  Some("MATERIALIZED") /\ AskedOnce("project") => tree["project"] = "whole"

\* How far the single-use call of a capability has come; its outcome is stored for
\* the attempt, not for the capability.
Phase(k) ==
  LET asked == calls[k[1]][k[2]]
  IN  IF k \in contended THEN "raced"
      ELSE IF asked > 1 THEN "asked twice"
      ELSE IF asked = 1 THEN "asked"
      ELSE IF cap[k[1]][k[2]] = "CONSUMED" THEN "spent" ELSE "new"

Permit == INSTANCE SingleUseCall
            WITH Key <- Stages \X Capability, phase <- [k \in Stages \X Capability |-> Phase(k)]

\* Unless two executions that name it are alive at once, a capability of either
\* stage permits the single-use call of SingleUseCall: it is durably consumed
\* before HVS is asked, HVS is asked once, and nothing makes it new again.
ImplementsCall == Permit!Spec

-----------------------------------------------------------------------------
(* The inductive invariant behind them.                                    *)

\* A process at work has a job, with a capability exactly if it executes;
\* only the inputs are made ready.
Fits(p) ==
  /\ pc[p] \in Executing => job[p] \in Jobs /\ job[p].cap \in Capability
  /\ pc[p] \in Reconciling => job[p] \in Jobs /\ job[p].cap = None
  /\ pc[p] = "ready" => job[p].stage = "inputs"

\* Only a racing process takes a capability away under another.
TakenInARace(p) ==
  /\ pc[p] = "issue" /\ CapOf(p) = "CONSUMED" => <<job[p].stage, job[p].cap>> \in contended
  /\ pc[p] \in {"claim", "mark", "consume"} /\ CapOf(p) # "ISSUED"
       => <<job[p].stage, "slot">> \in contended
  /\ pc[p] = "refuse" => <<job[p].stage, "slot">> \in contended

Clean(t) == {t, <<t[1], "slot">>} \cap contended = {}

\* An attempt nobody else touches is on record from the mark until its outcome.
OnRecord(p) ==
  /\ pc[p] \in {"consume", "call", "wait", "inspect", "record"} /\ Clean(Ticket(p))
       => StateOf(p) = Running(job[p].stage)
  /\ pc[p] = "ready" /\ Clean(Ticket(p)) => Ticket(p) \notin unanswered

\* Past the claim no other attempt of the stage is open.
PlaceIsFree(p) ==
  pc[p] \in {"mark", "consume", "call"} /\ <<job[p].stage, "slot">> \notin contended =>
    \A b \in Attempt \ {job[p].attempt} :
      <<job[p].stage, b>> \in unanswered => <<job[p].stage, b>> \in contended

\* Whoever is about to store a success saw the project whole.
SeenWhole(p) ==
  /\ AskedOnce("project")
  /\ pc[p] = "promote" \/ (pc[p] = "record" /\ view[p] = "whole")
  /\ job[p].stage = "project"
  => tree["project"] = "whole"

HasCalled(p) == pc[p] = "wait" => calls[job[p].stage][job[p].cap] # 0

Along(p) ==
  Fits(p) /\ TakenInARace(p) /\ OnRecord(p) /\ PlaceIsFree(p) /\ SeenWhole(p) /\ HasCalled(p)

\* What two processes at work have in common is contended.
ContentionNoted ==
  \A p, q \in Proc :
    p # q /\ pc[p] # "idle" /\ pc[q] # "idle" => Claims(job[p]) \cap Claims(job[q]) \subseteq contended

\* HVS is called on a capability that is consumed by then, by one process, once.
Paying(s, c) == {p \in Proc : pc[p] = "call" /\ job[p].stage = s /\ job[p].cap = c}
PaidOnce ==
  \A s \in Stages, c \in Capability :
    <<s, c>> \notin reissued =>
      /\ Paying(s, c) # {} \/ calls[s][c] # 0 => cap[s][c] = "CONSUMED"
      /\ calls[s][c] # 0 => calls[s][c] = 1 /\ Paying(s, c) = {}
      /\ \A p, q \in Paying(s, c) : p = q

OpenOnRecord == \A t \in unanswered : Clean(t) => state[t[1]][t[2]] = Running(t[1])

UntouchedIsAbsent == (\A c \in Capability : calls["project"][c] = 0) => tree["project"] = "absent"

IInv ==
  /\ TypeOK
  /\ ContentionNoted
  /\ PaidOnce
  /\ ReissuedOnlyInARace
  /\ OpenOnRecord
  /\ OneCallOpen
  /\ UntouchedIsAbsent
  /\ MaterializedIsWhole
  /\ \A p \in Proc : Along(p)
=============================================================================
