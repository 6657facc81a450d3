------------------------- MODULE Materialization_proofs -------------------------
(***************************************************************************)
(* Proofs about Materialization: its inductive invariant, and from it every *)
(* property that MCMaterialization.cfg checks.                              *)
(***************************************************************************)
EXTENDS Materialization, TLAPS

USE RunsAssumption, NoneAssumption

\* What the steps of one process leave alone of the others.
Frame(p) == \A q \in Proc \ {p} : pc'[q] = pc[q] /\ job'[q] = job[q] /\ view'[q] = view[q]

\* The process keeps its job and its kind of work, or is done.
Moves(p) ==
  /\ Frame(p)
  /\ pc[p] # "idle"
  /\ \/ pc'[p] = "idle"
     \/ /\ job'[p] = job[p]
        /\ pc'[p] = "ready" => job[p].stage = "inputs"
        /\ \/ pc[p] \in Executing /\ pc'[p] \in Executing
           \/ pc[p] \in Reconciling /\ pc'[p] \in Reconciling

-----------------------------------------------------------------------------
(* Whatever the step, if it is one of a process at work.                   *)

\* A process at work has a job that names what the kind of work needs.
LEMMA JobAtWork ==
  ASSUME TypeOK, NEW p \in Proc, Fits(p), pc[p] # "idle"
  PROVE  /\ job[p] \in Jobs
         /\ job[p].stage \in Stages /\ job[p].attempt \in Attempt
         /\ Ticket(p) \in Stages \X Attempt
         /\ pc[p] \in Executing => job[p].cap \in Capability
BY DEF TypeOK, Fits, Jobs, Ticket, Steps

\* Moving makes nobody contend for anything new.
LEMMA ContentionStays ==
  ASSUME NEW p \in Proc, ContentionNoted, Moves(p), contended' = contended
  PROVE  ContentionNoted'
BY DEF ContentionNoted, Moves, Frame, Claims, Executing, Reconciling

\* Moving keeps a job fitting.
LEMMA FitsStays ==
  ASSUME NEW p \in Proc, Fits(p), Moves(p)
  PROVE  Fits(p)'
BY DEF Fits, Moves, Executing, Reconciling

\* A capability whose calls do not change stays paid at most once, unless the
\* process gets to call on it.
LEMMA PaidStays ==
  ASSUME NEW p \in Proc, PaidOnce, Moves(p), UNCHANGED <<cap, calls, reissued>>, pc'[p] # "call"
  PROVE  PaidOnce'
<1> SUFFICES ASSUME NEW s \in Stages, NEW c \in Capability, <<s, c>> \notin reissued
             PROVE  /\ Paying(s, c)' # {} \/ calls[s][c] # 0 => cap[s][c] = "CONSUMED"
                    /\ calls[s][c] # 0 => calls[s][c] = 1 /\ Paying(s, c)' = {}
                    /\ \A q, r \in Paying(s, c)' : q = r
  BY DEF PaidOnce
<1>1. Paying(s, c)' \subseteq Paying(s, c)
  BY DEF Paying, Moves, Frame
<1>2. /\ Paying(s, c) # {} \/ calls[s][c] # 0 => cap[s][c] = "CONSUMED"
      /\ calls[s][c] # 0 => calls[s][c] = 1 /\ Paying(s, c) = {}
      /\ \A q, r \in Paying(s, c) : q = r
  BY DEF PaidOnce
<1> QED BY <1>1, <1>2

\* What a process knows is about variables the others' moves leave alone.
LEMMA OthersStay ==
  ASSUME NEW p \in Proc, NEW q \in Proc \ {p}, Along(q), Moves(p),
         UNCHANGED <<cap, state, tree, calls, unanswered, contended>>
  PROVE  Along(q)'
BY DEF Along, Fits, TakenInARace, CapOf, OnRecord, Clean, Ticket, StateOf, PlaceIsFree, SeenWhole,
       HasCalled, AskedOnce, Moves, Frame

\* A process moves and writes nothing: what it knows then is all there is to show.
LEMMA MovePreserves ==
  ASSUME IInv, TypeOK', NEW p \in Proc, Moves(p), pc'[p] \notin {"call", "wait"},
         UNCHANGED <<cap, state, tree, calls, reissued, unanswered, contended>>,
         TakenInARace(p)', OnRecord(p)', PlaceIsFree(p)', SeenWhole(p)'
  PROVE  IInv'
<1>1. ContentionNoted'
  BY ContentionStays DEF IInv
<1>2. PaidOnce'
  BY PaidStays DEF IInv
<1>3. ReissuedOnlyInARace' /\ OneCallOpen'
  BY DEF IInv, ReissuedOnlyInARace, OneCallOpen
<1>4. OpenOnRecord' /\ UntouchedIsAbsent' /\ MaterializedIsWhole'
  BY DEF IInv, OpenOnRecord, Clean, UntouchedIsAbsent, MaterializedIsWhole, Some, AskedOnce
<1>5. \A q \in Proc : Along(q)'
  BY OthersStay, FitsStays DEF IInv, Along, HasCalled
<1> QED BY <1>1, <1>2, <1>3, <1>4, <1>5 DEF IInv

\* A process that returns or dies.
LEMMA LeavePreserves ==
  ASSUME IInv, NEW p \in Proc, pc[p] # "idle", Leave(p),
         UNCHANGED <<granted, cap, state, tree, runs, history>>
  PROVE  IInv'
<1>1. TypeOK
  BY DEF IInv
<1>2. TypeOK'
  BY <1>1 DEF TypeOK, Leave, Goto, history, Steps
<1>3. Moves(p) /\ pc'[p] = "idle"
  BY <1>1 DEF TypeOK, Leave, Goto, Moves, Frame
<1>4. TakenInARace(p)' /\ OnRecord(p)' /\ PlaceIsFree(p)' /\ SeenWhole(p)'
  BY <1>3 DEF TakenInARace, OnRecord, PlaceIsFree, SeenWhole
<1> QED BY <1>2, <1>3, <1>4, MovePreserves DEF history

\* A replay leaves; whoever goes on knows that its capability is not consumed yet.
LEMMA CheckPreserves ==
  ASSUME IInv, NEW p \in Proc, Check(p)
  PROVE  IInv'
<1>1. TypeOK /\ Fits(p) /\ pc[p] = "check"
  BY DEF IInv, Along, Check
<1>2. CASE CapOf(p) = "CONSUMED"
  BY <1>1, <1>2, LeavePreserves DEF Check, store
<1>3. CASE CapOf(p) # "CONSUMED"
  <2>1. pc' = [pc EXCEPT ![p] = "issue"] /\ UNCHANGED <<store, tree, locals, runs, history>>
    BY <1>3 DEF Check, Goto
  <2>2. TypeOK'
    BY <1>1, <2>1 DEF TypeOK, store, locals, history, Steps, Executing
  <2>3. Moves(p) /\ pc'[p] = "issue"
    BY <1>1, <2>1 DEF TypeOK, Moves, Frame, locals, Executing
  <2>4. TakenInARace(p)'
    BY <1>3, <2>1, <2>3 DEF TakenInARace, CapOf, store, locals
  <2>5. OnRecord(p)' /\ PlaceIsFree(p)' /\ SeenWhole(p)'
    BY <2>3 DEF OnRecord, PlaceIsFree, SeenWhole
  <2> QED BY <2>1, <2>2, <2>3, <2>4, <2>5, MovePreserves DEF store, history
<1> QED BY <1>2, <1>3

\* Past the claim no other attempt of an uncontended stage is open.
LEMMA ClaimPreserves ==
  ASSUME IInv, NEW p \in Proc, Claim(p)
  PROVE  IInv'
<1>1. TypeOK /\ Along(p) /\ pc[p] = "claim" /\ OpenOnRecord
  BY DEF IInv, Claim
<1> DEFINE Held == \E a \in Attempt \ {job[p].attempt} :
                     state[job[p].stage][a] = Running(job[p].stage)
<1>2. CASE Held
  BY <1>1, <1>2, LeavePreserves DEF Claim, store
<1>3. CASE ~Held
  <2>1. pc' = [pc EXCEPT ![p] = "mark"] /\ UNCHANGED <<store, tree, locals, runs, history>>
    BY <1>3 DEF Claim, Goto
  <2>2. TypeOK'
    BY <1>1, <2>1 DEF TypeOK, store, locals, history, Steps, Executing
  <2>3. Moves(p) /\ pc'[p] = "mark"
    BY <1>1, <2>1 DEF TypeOK, Moves, Frame, locals, Executing
  <2>4. TakenInARace(p)'
    BY <1>1, <2>1, <2>3 DEF Along, TakenInARace, CapOf, store, locals, history
  <2>5. OnRecord(p)' /\ SeenWhole(p)'
    BY <2>3 DEF OnRecord, SeenWhole
  <2>6. ASSUME <<job[p].stage, "slot">> \notin contended,
               NEW b \in Attempt \ {job[p].attempt}, <<job[p].stage, b>> \in unanswered
        PROVE  <<job[p].stage, b>> \in contended
    BY <1>1, <1>3, <2>6 DEF OpenOnRecord, Clean
  <2>7. PlaceIsFree(p)'
    BY <2>1, <2>6 DEF PlaceIsFree, locals, history
  <2> QED BY <2>1, <2>2, <2>3, <2>4, <2>5, <2>7, MovePreserves DEF store, history
<1> QED BY <1>2, <1>3

\* What the inspector saw is what the tree is.
LEMMA InspectPreserves ==
  ASSUME IInv, NEW p \in Proc, Inspect(p)
  PROVE  IInv'
<1>1. TypeOK /\ Along(p) /\ pc[p] = "inspect"
  BY DEF IInv, Inspect
<1>2. PICK seen \in {"none", tree[job[p].stage]} : view' = [view EXCEPT ![p] = seen]
  BY DEF Inspect
<1>3. pc' = [pc EXCEPT ![p] = "record"] /\ UNCHANGED <<store, tree, job, reply, runs, history>>
  BY DEF Inspect, Goto
<1>4. job[p].stage \in Stages
  BY <1>1, JobAtWork DEF Along
<1>5. TypeOK'
  BY <1>1, <1>2, <1>3, <1>4 DEF TypeOK, store, history, Steps, Executing
<1>6. Moves(p) /\ pc'[p] = "record"
  BY <1>1, <1>2, <1>3 DEF TypeOK, Moves, Frame, Executing
<1>7. TakenInARace(p)' /\ PlaceIsFree(p)'
  BY <1>6 DEF TakenInARace, PlaceIsFree
<1>8. OnRecord(p)'
  BY <1>1, <1>3, <1>6 DEF Along, OnRecord, Clean, Ticket, StateOf, store, history
<1>9. SeenWhole(p)'
  BY <1>1, <1>2, <1>3, <1>6 DEF TypeOK, SeenWhole, AskedOnce, history
<1> QED BY <1>3, <1>5, <1>6, <1>7, <1>8, <1>9, MovePreserves DEF store, history

\* Only a whole tree is promoted.
LEMMA LookPreserves ==
  ASSUME IInv, NEW p \in Proc, Look(p)
  PROVE  IInv'
<1>1. TypeOK /\ Along(p) /\ pc[p] = "look"
  BY DEF IInv, Look
<1>2. PICK seen \in {"none", tree[job[p].stage]} :
        IF seen = "whole"
        THEN /\ view' = [view EXCEPT ![p] = seen]
             /\ Goto(p, "promote")
             /\ UNCHANGED <<job, reply>>
        ELSE Leave(p)
  BY DEF Look
<1>3. UNCHANGED <<store, tree, runs, history>>
  BY DEF Look
<1>4. CASE seen # "whole"
  BY <1>1, <1>2, <1>3, <1>4, LeavePreserves DEF store
<1>5. CASE seen = "whole"
  <2>1. pc' = [pc EXCEPT ![p] = "promote"] /\ view' = [view EXCEPT ![p] = "whole"]
        /\ UNCHANGED <<job, reply>> /\ tree[job[p].stage] = "whole"
    BY <1>2, <1>5 DEF Goto
  <2>2. TypeOK'
    BY <1>1, <1>3, <2>1 DEF TypeOK, store, history, Steps, Reconciling, Trees
  <2>3. Moves(p) /\ pc'[p] = "promote"
    BY <1>1, <2>1 DEF TypeOK, Moves, Frame, Reconciling
  <2>4. TakenInARace(p)' /\ PlaceIsFree(p)' /\ OnRecord(p)'
    BY <2>3 DEF TakenInARace, PlaceIsFree, OnRecord
  <2>5. SeenWhole(p)'
    BY <1>3, <2>1 DEF SeenWhole
  <2> QED BY <1>3, <2>2, <2>3, <2>4, <2>5, MovePreserves DEF store, history
<1> QED BY <1>4, <1>5

\* A crash forgets a process and nothing else.
LEMMA CrashPreserves ==
  ASSUME IInv, NEW p \in Proc, Crash(p)
  PROVE  IInv'
BY LeavePreserves DEF Crash, store

\* HVS only adds to the tree, and only while its call waits.
LEMMA AnswerPreserves ==
  ASSUME IInv, NEW p \in Proc, Answer(p)
  PROVE  IInv'
<1> DEFINE s == job[p].stage
<1>1. TypeOK /\ Along(p) /\ pc[p] = "wait" /\ UntouchedIsAbsent /\ MaterializedIsWhole
  BY DEF IInv, Answer
<1>2. PICK r \in {"ok", "failed", "raised"}, t \in {tree[s], "whole"},
           told \in {"none", "partial", "whole"} :
        /\ told # "none" => r = "ok" /\ s = "inputs"
        /\ reply' = [reply EXCEPT ![p] = r]
        /\ view' = [view EXCEPT ![p] = told]
        /\ tree' = [tree EXCEPT ![s] = t]
        /\ Goto(p, IF s = "project" /\ r # "raised" THEN "inspect" ELSE "record")
  BY DEF Answer
<1>3. UNCHANGED <<store, job, runs, history>>
  BY DEF Answer
<1>4. s \in Stages
  BY <1>1, JobAtWork DEF Along
<1>5. TypeOK'
  BY <1>1, <1>2, <1>3, <1>4 DEF TypeOK, store, history, Steps, Executing, Trees, Goto
<1>6. Moves(p) /\ pc'[p] \in {"inspect", "record"}
  BY <1>1, <1>2, <1>3 DEF TypeOK, Moves, Frame, Executing, Goto
<1>7. ContentionNoted' /\ ReissuedOnlyInARace' /\ OneCallOpen'
  BY <1>3, <1>6, ContentionStays DEF IInv, ReissuedOnlyInARace, OneCallOpen, history
<1>8. PaidOnce'
  BY <1>3, <1>6, PaidStays DEF IInv, store, history
<1>9. OpenOnRecord'
  BY <1>3 DEF IInv, OpenOnRecord, Clean, store, history
<1>10. UntouchedIsAbsent'
  <2>1. CASE s = "project"
    <3>1. job[p].cap \in Capability /\ calls["project"][job[p].cap] # 0
      BY <1>1, <2>1, JobAtWork DEF Along, HasCalled, Executing
    <3> QED BY <1>3, <3>1 DEF UntouchedIsAbsent, history
  <2>2. CASE s # "project"
    BY <1>1, <1>2, <1>3, <2>2 DEF TypeOK, UntouchedIsAbsent, history
  <2> QED BY <2>1, <2>2
<1>11. tree["project"] = "whole" => tree'["project"] = "whole"
  BY <1>1, <1>2, <1>4 DEF TypeOK, Stages
<1>12. MaterializedIsWhole'
  BY <1>1, <1>3, <1>11 DEF MaterializedIsWhole, Some, AskedOnce, store, history
<1>13. \A q \in Proc \ {p} : Along(q)'
  <2> SUFFICES ASSUME NEW q \in Proc \ {p} PROVE Along(q)'
    OBVIOUS
  <2>1. Along(q) /\ pc'[q] = pc[q] /\ job'[q] = job[q] /\ view'[q] = view[q]
    BY <1>6 DEF IInv, Moves, Frame
  <2>2. SeenWhole(q)'
    BY <1>3, <1>11, <2>1 DEF Along, SeenWhole, AskedOnce, history
  <2> QED BY <1>3, <2>1, <2>2 DEF Along, Fits, TakenInARace, CapOf, OnRecord, Clean, Ticket, StateOf,
                                  PlaceIsFree, HasCalled, store, history
<1>14. Fits(p)' /\ TakenInARace(p)' /\ PlaceIsFree(p)' /\ HasCalled(p)'
  BY <1>1, <1>6, FitsStays DEF Along, TakenInARace, PlaceIsFree, HasCalled
<1>15. OnRecord(p)'
  BY <1>1, <1>3, <1>6 DEF Along, OnRecord, Clean, Ticket, StateOf, store, history
<1>16. SeenWhole(p)'
  BY <1>1, <1>2, <1>3, <1>6 DEF TypeOK, SeenWhole
<1>17. \A q \in Proc : Along(q)'
  BY <1>13, <1>14, <1>15, <1>16 DEF Along
<1> QED BY <1>5, <1>7, <1>8, <1>9, <1>10, <1>12, <1>17 DEF IInv

-----------------------------------------------------------------------------
(* Steps that write the store.                                             *)

\* Two executions of one stage contend for its place.
LEMMA PlaceContended ==
  ASSUME TypeOK, ContentionNoted, NEW p \in Proc, NEW q \in Proc \ {p}, Fits(p), Fits(q),
         pc[p] \in Executing, pc[q] \in Executing, job[p].stage = job[q].stage
  PROVE  <<job[p].stage, "slot">> \in contended
BY DEF ContentionNoted, Claims, Fits, Executing

\* Two executions that name one capability contend for it.
LEMMA CapabilityContended ==
  ASSUME TypeOK, ContentionNoted, NEW p \in Proc, NEW q \in Proc \ {p}, Fits(p), Fits(q),
         pc[p] \in Executing, pc[q] \in Executing,
         job[p].stage = job[q].stage, job[p].cap = job[q].cap
  PROVE  <<job[p].stage, job[p].cap>> \in contended
BY DEF ContentionNoted, Claims, Fits, Executing

\* Two processes that work on one attempt contend for it.
LEMMA AttemptContended ==
  ASSUME TypeOK, ContentionNoted, NEW p \in Proc, NEW q \in Proc \ {p},
         pc[p] # "idle", pc[q] # "idle", Ticket(p) = Ticket(q)
  PROVE  Ticket(p) \in contended
BY DEF ContentionNoted, Claims, Ticket

\* Issuing over a consumed capability is noted, and was contended for.
LEMMA IssuePreserves ==
  ASSUME IInv, NEW p \in Proc, Issue(p)
  PROVE  IInv'
<1> DEFINE s == job[p].stage
           k == job[p].cap
<1>1. TypeOK /\ Along(p) /\ pc[p] = "issue" /\ PaidOnce /\ ContentionNoted
  BY DEF IInv, Issue
<1>2. s \in Stages /\ k \in Capability
  BY <1>1, JobAtWork DEF Along, Executing
<1>3. /\ cap' = [cap EXCEPT ![s][k] = "ISSUED"]
      /\ reissued' = IF cap[s][k] = "CONSUMED" THEN reissued \cup {<<s, k>>} ELSE reissued
      /\ pc' = [pc EXCEPT ![p] = "claim"]
      /\ UNCHANGED <<granted, state, tree, locals, runs, calls, unanswered, contended>>
  BY DEF Issue, Goto, CapOf
<1>4. TypeOK'
  BY <1>1, <1>2, <1>3 DEF TypeOK, locals, Steps, Executing
<1>5. Moves(p) /\ pc'[p] = "claim" /\ cap'[s][k] = "ISSUED"
  BY <1>1, <1>2, <1>3 DEF TypeOK, Moves, Frame, locals, Executing
<1>6. ContentionNoted' /\ OneCallOpen'
  BY <1>1, <1>3, <1>5, ContentionStays DEF IInv, OneCallOpen
<1>7. PaidOnce'
  <2> SUFFICES ASSUME NEW r \in Stages, NEW c \in Capability, <<r, c>> \notin reissued'
               PROVE  /\ Paying(r, c)' # {} \/ calls[r][c] # 0 => cap'[r][c] = "CONSUMED"
                      /\ calls[r][c] # 0 => calls[r][c] = 1 /\ Paying(r, c)' = {}
                      /\ \A x, y \in Paying(r, c)' : x = y
    BY <1>3 DEF PaidOnce
  <2>1. <<r, c>> \notin reissued
    BY <1>3
  <2>2. /\ Paying(r, c) # {} \/ calls[r][c] # 0 => cap[r][c] = "CONSUMED"
        /\ calls[r][c] # 0 => calls[r][c] = 1 /\ Paying(r, c) = {}
        /\ \A x, y \in Paying(r, c) : x = y
    BY <1>1, <2>1 DEF PaidOnce
  <2>3. Paying(r, c)' \subseteq Paying(r, c)
    BY <1>5 DEF Paying, Moves, Frame
  <2>4. cap[r][c] = "CONSUMED" => cap'[r][c] = "CONSUMED"
    BY <1>1, <1>2, <1>3 DEF TypeOK
  <2> QED BY <2>2, <2>3, <2>4
<1>8. ReissuedOnlyInARace'
  BY <1>1, <1>3 DEF IInv, ReissuedOnlyInARace, Along, TakenInARace, CapOf
<1>9. OpenOnRecord' /\ UntouchedIsAbsent' /\ MaterializedIsWhole'
  BY <1>3 DEF IInv, OpenOnRecord, Clean, UntouchedIsAbsent, MaterializedIsWhole, Some, AskedOnce
<1>10. \A q \in Proc \ {p} : Along(q)'
  <2> SUFFICES ASSUME NEW q \in Proc \ {p} PROVE Along(q)'
    OBVIOUS
  <2>1. Along(q) /\ pc'[q] = pc[q] /\ job'[q] = job[q] /\ view'[q] = view[q]
    BY <1>5 DEF IInv, Moves, Frame
  <2>2. TakenInARace(q)'
    <3>1. \A r \in Stages, c \in Capability : cap'[r][c] = cap[r][c] \/ cap'[r][c] = "ISSUED"
      BY <1>1, <1>2, <1>3 DEF TypeOK
    <3>2. pc[q] \in Executing => job[q].stage \in Stages /\ job[q].cap \in Capability
      BY <2>1 DEF Along, Fits, Jobs
    <3> QED BY <1>3, <2>1, <3>1, <3>2 DEF Along, TakenInARace, CapOf, Executing
  <2> QED BY <1>3, <2>1, <2>2 DEF Along, Fits, OnRecord, Clean, Ticket, StateOf, PlaceIsFree, SeenWhole,
                                  AskedOnce, HasCalled
<1>11. Fits(p)' /\ OnRecord(p)' /\ PlaceIsFree(p)' /\ SeenWhole(p)' /\ HasCalled(p)'
  BY <1>1, <1>5, FitsStays DEF Along, OnRecord, PlaceIsFree, SeenWhole, HasCalled
<1>12. TakenInARace(p)'
  BY <1>3, <1>5 DEF TakenInARace, CapOf, locals
<1>13. \A q \in Proc : Along(q)'
  BY <1>10, <1>11, <1>12 DEF Along
<1> QED BY <1>4, <1>6, <1>7, <1>8, <1>9, <1>13 DEF IInv

\* Of all processes at this step one finds the capability issued.
LEMMA ConsumePreserves ==
  ASSUME IInv, NEW p \in Proc, Consume(p)
  PROVE  IInv'
<1> DEFINE s == job[p].stage
           k == job[p].cap
<1>1. TypeOK /\ Along(p) /\ pc[p] = "consume" /\ PaidOnce /\ ContentionNoted
  BY DEF IInv, Consume
<1>2. s \in Stages /\ k \in Capability
  BY <1>1, JobAtWork DEF Along, Executing
<1>3. /\ cap' = [cap EXCEPT ![s][k] = "CONSUMED"]
      /\ pc' = [pc EXCEPT ![p] = IF cap[s][k] = "ISSUED" THEN "call" ELSE "refuse"]
      /\ UNCHANGED <<granted, state, tree, locals, runs, history>>
  BY DEF Consume, Goto, CapOf
<1>4. TypeOK'
  BY <1>1, <1>2, <1>3 DEF TypeOK, locals, history, Steps, Executing
<1>5. Moves(p) /\ pc'[p] = (IF cap[s][k] = "ISSUED" THEN "call" ELSE "refuse")
  BY <1>1, <1>2, <1>3 DEF TypeOK, Moves, Frame, locals, Executing
<1>6. ContentionNoted' /\ OneCallOpen' /\ ReissuedOnlyInARace'
  BY <1>1, <1>3, <1>5, ContentionStays DEF IInv, OneCallOpen, ReissuedOnlyInARace, history
<1>7. PaidOnce'
  <2> SUFFICES ASSUME NEW r \in Stages, NEW c \in Capability, <<r, c>> \notin reissued
               PROVE  /\ Paying(r, c)' # {} \/ calls[r][c] # 0 => cap'[r][c] = "CONSUMED"
                      /\ calls[r][c] # 0 => calls[r][c] = 1 /\ Paying(r, c)' = {}
                      /\ \A x, y \in Paying(r, c)' : x = y
    BY <1>3 DEF PaidOnce, history
  <2>1. /\ Paying(r, c) # {} \/ calls[r][c] # 0 => cap[r][c] = "CONSUMED"
        /\ calls[r][c] # 0 => calls[r][c] = 1 /\ Paying(r, c) = {}
        /\ \A x, y \in Paying(r, c) : x = y
    BY <1>1 DEF PaidOnce
  <2>2. cap[r][c] = "CONSUMED" => cap'[r][c] = "CONSUMED"
    BY <1>1, <1>2, <1>3 DEF TypeOK
  <2>3. CASE cap[s][k] = "ISSUED" /\ r = s /\ c = k
    <3>1. Paying(r, c) = {} /\ calls[r][c] = 0
      BY <2>1, <2>3
    <3>2. Paying(r, c)' \subseteq {p}
      BY <1>5, <3>1 DEF Paying, Moves, Frame
    <3>3. cap'[r][c] = "CONSUMED"
      BY <1>1, <1>2, <1>3, <2>3 DEF TypeOK
    <3> QED BY <3>1, <3>2, <3>3
  <2>4. CASE ~(cap[s][k] = "ISSUED" /\ r = s /\ c = k)
    <3>1. Paying(r, c)' \subseteq Paying(r, c)
      BY <1>3, <1>5, <2>4 DEF Paying, Moves, Frame, locals
    <3> QED BY <2>1, <2>2, <3>1
  <2> QED BY <2>3, <2>4
<1>8. OpenOnRecord' /\ UntouchedIsAbsent' /\ MaterializedIsWhole'
  BY <1>3 DEF IInv, OpenOnRecord, Clean, UntouchedIsAbsent, MaterializedIsWhole, Some, AskedOnce, history
<1>9. \A q \in Proc \ {p} : Along(q)'
  <2> SUFFICES ASSUME NEW q \in Proc \ {p} PROVE Along(q)'
    OBVIOUS
  <2>1. Along(q) /\ pc'[q] = pc[q] /\ job'[q] = job[q] /\ view'[q] = view[q]
    BY <1>5 DEF IInv, Moves, Frame
  <2>2. TakenInARace(q)'
    <3>1. \A r \in Stages, c \in Capability : cap'[r][c] = cap[r][c] \/ <<r, c>> = <<s, k>>
      BY <1>1, <1>2, <1>3 DEF TypeOK
    <3>2. pc[q] \in Executing => job[q].stage \in Stages /\ job[q].cap \in Capability
      BY <2>1 DEF Along, Fits, Jobs
    <3>3. pc[q] \in Executing /\ job[q].stage = s /\ job[q].cap = k
            => {<<s, k>>, <<s, "slot">>} \subseteq contended
      BY <1>1, <2>1, PlaceContended, CapabilityContended DEF Along, Executing
    <3> QED BY <1>3, <2>1, <3>1, <3>2, <3>3 DEF Along, TakenInARace, CapOf, Executing, history
  <2> QED BY <1>3, <2>1, <2>2 DEF Along, Fits, OnRecord, Clean, Ticket, StateOf, PlaceIsFree, SeenWhole,
                                  AskedOnce, HasCalled, history
<1>10. Fits(p)' /\ SeenWhole(p)' /\ HasCalled(p)'
  BY <1>1, <1>5, FitsStays DEF Along, SeenWhole, HasCalled
<1>11. OnRecord(p)' /\ PlaceIsFree(p)'
  BY <1>1, <1>3, <1>5 DEF Along, OnRecord, Clean, Ticket, StateOf, PlaceIsFree, locals, history
<1>12. TakenInARace(p)'
  BY <1>1, <1>3, <1>5 DEF Along, TakenInARace, CapOf, locals, history
<1>13. \A q \in Proc : Along(q)'
  BY <1>9, <1>10, <1>11, <1>12 DEF Along
<1> QED BY <1>4, <1>6, <1>7, <1>8, <1>13 DEF IInv

\* A process stores a state of its attempt: a running one if the attempt stays open,
\* a success only if the project is there.
LEMMA PutPreserves ==
  ASSUME IInv, TypeOK', NEW p \in Proc, Moves(p), pc'[p] \notin {"call", "wait"}, NEW st, Put(p, st),
         UNCHANGED <<cap, tree, calls, reissued, contended>>,
         unanswered' \in {unanswered, unanswered \ {Ticket(p)}},
         Clean(Ticket(p)) /\ Ticket(p) \in unanswered' => st = Running(job[p].stage),
         job[p].stage = "project" /\ st = "MATERIALIZED" /\ AskedOnce("project")
           => tree["project"] = "whole",
         TakenInARace(p)', OnRecord(p)', PlaceIsFree(p)', SeenWhole(p)'
  PROVE  IInv'
<1>1. TypeOK /\ Along(p) /\ pc[p] # "idle" /\ ContentionNoted
  BY DEF IInv, Moves
<1>2. job[p].stage \in Stages /\ job[p].attempt \in Attempt
  BY <1>1, JobAtWork DEF Along
<1>3. /\ state'[job[p].stage][job[p].attempt] = st
      /\ \A s \in Stages, a \in Attempt :
           <<s, a>> # Ticket(p) => state'[s][a] = state[s][a]
  BY <1>1, <1>2 DEF TypeOK, Put, Ticket
<1>4. ContentionNoted' /\ ReissuedOnlyInARace' /\ OneCallOpen' /\ UntouchedIsAbsent'
  BY ContentionStays DEF IInv, ReissuedOnlyInARace, OneCallOpen, UntouchedIsAbsent
<1>5. PaidOnce'
  BY PaidStays DEF IInv
<1>6. OpenOnRecord'
  <2> SUFFICES ASSUME NEW t \in unanswered', Clean(t)
               PROVE  state'[t[1]][t[2]] = Running(t[1])
    BY DEF OpenOnRecord, Clean
  <2>1. t \in unanswered /\ t \in Stages \X Attempt
    BY <1>1 DEF TypeOK
  <2>2. CASE t = Ticket(p)
    BY <1>3, <2>2 DEF Ticket
  <2>3. CASE t # Ticket(p)
    <3>1. t = <<t[1], t[2]>> /\ t[1] \in Stages /\ t[2] \in Attempt
      BY <2>1
    <3>2. state'[t[1]][t[2]] = state[t[1]][t[2]]
      BY <1>3, <2>3, <3>1
    <3> QED BY <2>1, <3>2 DEF IInv, OpenOnRecord
  <2> QED BY <2>2, <2>3
<1>7. MaterializedIsWhole'
  BY <1>2, <1>3 DEF IInv, MaterializedIsWhole, Some, AskedOnce, Ticket, Stages
<1>8. \A q \in Proc \ {p} : Along(q)'
  <2> SUFFICES ASSUME NEW q \in Proc \ {p} PROVE Along(q)'
    OBVIOUS
  <2>1. Along(q) /\ pc'[q] = pc[q] /\ job'[q] = job[q] /\ view'[q] = view[q]
    BY DEF IInv, Moves, Frame
  <2>2. OnRecord(q)'
    <3>1. CASE pc[q] = "idle"
      BY <2>1, <3>1 DEF OnRecord
    <3>2. CASE pc[q] # "idle" /\ Ticket(q) = Ticket(p)
      BY <1>1, <2>1, <3>2, AttemptContended DEF OnRecord, Clean, Ticket
    <3>3. CASE pc[q] # "idle" /\ Ticket(q) # Ticket(p)
      <4>1. job[q].stage \in Stages /\ job[q].attempt \in Attempt
        BY <1>1, <2>1, <3>3, JobAtWork DEF Along
      <4>2. StateOf(q)' = StateOf(q)
        BY <1>3, <2>1, <3>3, <4>1 DEF StateOf, Ticket
      <4> QED BY <2>1, <4>2 DEF Along, OnRecord, Clean, Ticket
    <3> QED BY <3>1, <3>2, <3>3
  <2> QED BY <2>1, <2>2 DEF Along, Fits, TakenInARace, CapOf, PlaceIsFree, SeenWhole, AskedOnce, HasCalled
<1>9. Fits(p)' /\ HasCalled(p)'
  BY <1>1, FitsStays DEF Along, HasCalled
<1>10. \A q \in Proc : Along(q)'
  BY <1>8, <1>9 DEF Along
<1> QED BY <1>4, <1>5, <1>6, <1>7, <1>10 DEF IInv

\* The attempt is on record from here on.
LEMMA MarkPreserves ==
  ASSUME IInv, NEW p \in Proc, Mark(p)
  PROVE  IInv'
<1> DEFINE st == Running(job[p].stage)
<1>1. TypeOK /\ Along(p) /\ pc[p] = "mark"
  BY DEF IInv, Mark
<1>2. job[p].stage \in Stages /\ job[p].attempt \in Attempt
  BY <1>1, JobAtWork DEF Along
<1>3. /\ Put(p, st)
      /\ pc' = [pc EXCEPT ![p] = "consume"]
      /\ UNCHANGED <<granted, cap, tree, locals, runs, history>>
  BY DEF Mark, Goto
<1>4. st \in AttemptStates(job[p].stage)
  BY DEF AttemptStates
<1>5. TypeOK'
  BY <1>1, <1>2, <1>3, <1>4 DEF TypeOK, Put, locals, history, Steps, Executing
<1>6. Moves(p) /\ pc'[p] = "consume"
  BY <1>1, <1>3 DEF TypeOK, Moves, Frame, locals, Executing
<1>7. TakenInARace(p)' /\ PlaceIsFree(p)' /\ SeenWhole(p)'
  BY <1>1, <1>3, <1>6 DEF Along, TakenInARace, CapOf, PlaceIsFree, SeenWhole, locals, history
<1>8. OnRecord(p)'
  <2>1. StateOf(p)' = st
    BY <1>1, <1>2, <1>3 DEF TypeOK, Put, StateOf, locals
  <2> QED BY <1>3, <1>6, <2>1 DEF OnRecord, locals
<1>9. st # "MATERIALIZED"
  BY DEF Running
<1> QED BY <1>3, <1>5, <1>6, <1>7, <1>8, <1>9, PutPreserves DEF locals, history

\* A contained duplicate writes over a contended place only.
LEMMA RefusePreserves ==
  ASSUME IInv, NEW p \in Proc, Refuse(p)
  PROVE  IInv'
<1> DEFINE st == "FAILED_CONFIRMED"
<1>1. TypeOK /\ Along(p) /\ pc[p] = "refuse"
  BY DEF IInv, Refuse
<1>2. job[p].stage \in Stages /\ job[p].attempt \in Attempt
  BY <1>1, JobAtWork DEF Along
<1>3. Put(p, st) /\ Leave(p) /\ UNCHANGED <<granted, cap, tree, runs, history>>
  BY DEF Refuse
<1>4. st \in AttemptStates(job[p].stage)
  BY DEF AttemptStates, Outcomes
<1>5. TypeOK'
  BY <1>1, <1>2, <1>3, <1>4 DEF TypeOK, Put, Leave, Goto, history, Steps
<1>6. Moves(p) /\ pc'[p] = "idle"
  BY <1>1, <1>3 DEF TypeOK, Leave, Goto, Moves, Frame
<1>7. TakenInARace(p)' /\ OnRecord(p)' /\ PlaceIsFree(p)' /\ SeenWhole(p)'
  BY <1>6 DEF TakenInARace, OnRecord, PlaceIsFree, SeenWhole
<1>8. ~Clean(Ticket(p))
  BY <1>1 DEF Along, TakenInARace, Clean, Ticket
<1> QED BY <1>3, <1>5, <1>6, <1>7, <1>8, PutPreserves DEF history

\* The inputs become ready after their outcome is on record.
LEMMA ReadyPreserves ==
  ASSUME IInv, NEW p \in Proc, Ready(p)
  PROVE  IInv'
<1> DEFINE st == "RENDER_READY"
<1>1. TypeOK /\ Along(p) /\ pc[p] = "ready"
  BY DEF IInv, Ready
<1>2. job[p].stage \in Stages /\ job[p].attempt \in Attempt
  BY <1>1, JobAtWork DEF Along
<1>3. Put(p, st) /\ Leave(p) /\ UNCHANGED <<granted, cap, tree, runs, history>>
  BY DEF Ready
<1>4. job[p].stage = "inputs" /\ st \in AttemptStates(job[p].stage)
  BY <1>1 DEF Along, Fits, AttemptStates, Outcomes, Succeeded
<1>5. TypeOK'
  BY <1>1, <1>2, <1>3, <1>4 DEF TypeOK, Put, Leave, Goto, history, Steps
<1>6. Moves(p) /\ pc'[p] = "idle"
  BY <1>1, <1>3 DEF TypeOK, Leave, Goto, Moves, Frame
<1>7. TakenInARace(p)' /\ OnRecord(p)' /\ PlaceIsFree(p)' /\ SeenWhole(p)'
  BY <1>6 DEF TakenInARace, OnRecord, PlaceIsFree, SeenWhole
<1>8. Clean(Ticket(p)) => Ticket(p) \notin unanswered
  BY <1>1 DEF Along, OnRecord
<1> QED BY <1>3, <1>4, <1>5, <1>6, <1>7, <1>8, PutPreserves DEF history

\* A promoted attempt is no longer open, and its project is whole.
LEMMA PromotePreserves ==
  ASSUME IInv, NEW p \in Proc, Promote(p)
  PROVE  IInv'
<1> DEFINE st == IF job[p].stage = "project" THEN "MATERIALIZED" ELSE "RENDER_READY"
<1>1. TypeOK /\ Along(p) /\ pc[p] = "promote"
  BY DEF IInv, Promote
<1>2. job[p].stage \in Stages /\ job[p].attempt \in Attempt
  BY <1>1, JobAtWork DEF Along
<1>3. /\ Put(p, st) /\ Leave(p)
      /\ unanswered' = unanswered \ {Ticket(p)}
      /\ UNCHANGED <<granted, cap, tree, runs, calls, reissued, contended>>
  BY DEF Promote
<1>4. st \in AttemptStates(job[p].stage)
  BY <1>2 DEF AttemptStates, Outcomes, Succeeded, Stages
<1>5. TypeOK'
  BY <1>1, <1>2, <1>3, <1>4 DEF TypeOK, Put, Leave, Goto, Steps
<1>6. Moves(p) /\ pc'[p] = "idle"
  BY <1>1, <1>3 DEF TypeOK, Leave, Goto, Moves, Frame
<1>7. TakenInARace(p)' /\ OnRecord(p)' /\ PlaceIsFree(p)' /\ SeenWhole(p)'
  BY <1>6 DEF TakenInARace, OnRecord, PlaceIsFree, SeenWhole
<1>8. job[p].stage = "project" /\ AskedOnce("project") => tree["project"] = "whole"
  BY <1>1 DEF Along, SeenWhole
<1> QED BY <1>3, <1>5, <1>6, <1>7, <1>8, PutPreserves

\* A recorded outcome closes the call, and success was seen.
LEMMA RecordPreserves ==
  ASSUME IInv, NEW p \in Proc, Record(p)
  PROVE  IInv'
<1> DEFINE st == Outcome(p)
<1>1. TypeOK /\ Along(p) /\ pc[p] = "record"
  BY DEF IInv, Record
<1>2. job[p].stage \in Stages /\ job[p].attempt \in Attempt
  BY <1>1, JobAtWork DEF Along
<1>3. /\ Put(p, st)
      /\ unanswered' = unanswered \ {Ticket(p)}
      /\ UNCHANGED <<granted, cap, tree, runs, calls, reissued, contended>>
  BY DEF Record
<1>4. st \in AttemptStates(job[p].stage)
  <2>1. st \in {"OUTCOME_UNKNOWN", "MATERIALIZED", "FAILED_CONFIRMED"}
        \/ (st = "RENDER_NOT_READY" /\ job[p].stage = "inputs")
    BY DEF Outcome
  <2> QED BY <2>1 DEF AttemptStates, Outcomes, Succeeded
<1>5. \/ Leave(p)
      \/ /\ job[p].stage = "inputs"
         /\ pc' = [pc EXCEPT ![p] = "ready"]
         /\ UNCHANGED locals
  BY DEF Record, Goto
<1>6. TypeOK'
  <2> HIDE DEF st
  <2>1. /\ state' \in [Stages -> [Attempt -> UNION {AttemptStates(s) : s \in Stages}]]
        /\ \A s \in Stages, a \in Attempt : state'[s][a] \in AttemptStates(s)
    BY <1>1, <1>2, <1>3, <1>4 DEF TypeOK, Put
  <2>2. /\ pc' \in [Proc -> Steps]
        /\ job' \in [Proc -> Jobs \cup {None}]
        /\ reply' \in [Proc -> {"none", "ok", "failed", "raised"}]
        /\ view' \in [Proc -> {"none"} \cup Trees]
    BY <1>1, <1>5 DEF TypeOK, Leave, Goto, locals, Steps, Executing
  <2> QED BY <1>1, <1>3, <2>1, <2>2 DEF TypeOK
<1>7. /\ Moves(p) /\ pc'[p] \in {"idle", "ready"}
      /\ pc'[p] = "ready" => job'[p] = job[p]
  BY <1>1, <1>5 DEF TypeOK, Leave, Goto, Moves, Frame, locals, Executing
<1>8. TakenInARace(p)' /\ PlaceIsFree(p)' /\ SeenWhole(p)'
  BY <1>7 DEF TakenInARace, PlaceIsFree, SeenWhole
<1>9. OnRecord(p)'
  BY <1>3, <1>7 DEF OnRecord, Ticket
<1>10. job[p].stage = "project" /\ st = "MATERIALIZED" /\ AskedOnce("project")
         => tree["project"] = "whole"
  <2>1. st = "MATERIALIZED" => view[p] = "whole"
    <3>1. CASE reply[p] = "raised"
      BY <3>1 DEF Outcome
    <3>2. CASE reply[p] # "raised" /\ view[p] # "whole"
      <4>1. st \in {"RENDER_NOT_READY", "FAILED_CONFIRMED"}
        BY <3>2 DEF Outcome
      <4> QED BY <4>1
    <3> QED BY <3>1, <3>2
  <2> QED BY <1>1, <2>1 DEF Along, SeenWhole
<1> QED BY <1>3, <1>6, <1>7, <1>8, <1>9, <1>10, PutPreserves

\* The call is paid for once and finds no other one open.
LEMMA CallPreserves ==
  ASSUME IInv, NEW p \in Proc, Call(p)
  PROVE  IInv'
<1> DEFINE s == job[p].stage
           k == job[p].cap
<1>1. TypeOK /\ Along(p) /\ pc[p] = "call" /\ PaidOnce /\ ContentionNoted
  BY DEF IInv, Call
<1>2. s \in Stages /\ k \in Capability /\ job[p].attempt \in Attempt /\ Ticket(p) \in Stages \X Attempt
  BY <1>1, JobAtWork DEF Along, Executing
<1>3. PICK t \in {tree[s], "partial"} : tree' = [tree EXCEPT ![s] = t]
  BY DEF Call
<1>4. /\ calls' = [calls EXCEPT ![s][k] = @ + 1]
      /\ unanswered' = unanswered \cup {Ticket(p)}
      /\ pc' = [pc EXCEPT ![p] = "wait"]
      /\ UNCHANGED <<store, locals, runs, reissued, contended>>
  BY DEF Call, Goto
<1>5. TypeOK'
  <2>1. calls' \in [Stages -> [Capability -> Nat]]
    <3>1. calls \in [Stages -> [Capability -> Nat]]
      BY <1>1 DEF TypeOK
    <3>2. calls[s] \in [Capability -> Nat] /\ calls[s][k] + 1 \in Nat
      BY <1>2, <3>1
    <3>3. [calls[s] EXCEPT ![k] = @ + 1] \in [Capability -> Nat]
      BY <3>2
    <3> QED BY <1>4, <3>1, <3>3
  <2>2. tree' \in [Stages -> Trees]
    BY <1>1, <1>2, <1>3 DEF TypeOK, Trees
  <2>3. pc' \in [Proc -> Steps] /\ unanswered' \subseteq Stages \X Attempt
    BY <1>1, <1>2, <1>4 DEF TypeOK, Steps, Executing
  <2> QED BY <1>1, <1>4, <2>1, <2>2, <2>3 DEF TypeOK, store, locals
<1>6. Moves(p) /\ pc'[p] = "wait"
  BY <1>1, <1>4 DEF TypeOK, Moves, Frame, locals, Executing
<1>7. /\ calls'[s][k] = calls[s][k] + 1 /\ calls'[s][k] # 0
      /\ \A r \in Stages, c \in Capability : <<r, c>> # <<s, k>> => calls'[r][c] = calls[r][c]
  <2>1. calls'[s][k] = calls[s][k] + 1 /\ calls[s][k] \in Nat
    BY <1>1, <1>2, <1>4 DEF TypeOK
  <2>2. \A r \in Stages, c \in Capability : <<r, c>> # <<s, k>> => calls'[r][c] = calls[r][c]
    BY <1>1, <1>2, <1>4 DEF TypeOK
  <2> QED BY <2>1, <2>2
<1>8. ContentionNoted' /\ ReissuedOnlyInARace'
  BY <1>1, <1>4, <1>6, ContentionStays DEF IInv, ReissuedOnlyInARace
<1>9. PaidOnce'
  <2> SUFFICES ASSUME NEW r \in Stages, NEW c \in Capability, <<r, c>> \notin reissued
               PROVE  /\ Paying(r, c)' # {} \/ calls'[r][c] # 0 => cap[r][c] = "CONSUMED"
                      /\ calls'[r][c] # 0 => calls'[r][c] = 1 /\ Paying(r, c)' = {}
                      /\ \A x, y \in Paying(r, c)' : x = y
    BY <1>4 DEF PaidOnce, store
  <2>1. /\ Paying(r, c) # {} \/ calls[r][c] # 0 => cap[r][c] = "CONSUMED"
        /\ calls[r][c] # 0 => calls[r][c] = 1 /\ Paying(r, c) = {}
        /\ \A x, y \in Paying(r, c) : x = y
    BY <1>1 DEF PaidOnce
  <2>2. Paying(r, c)' \subseteq Paying(r, c) \ {p}
    BY <1>6 DEF Paying, Moves, Frame
  <2>3. CASE r = s /\ c = k
    <3>1. p \in Paying(r, c)
      BY <1>1, <2>3 DEF Paying
    <3>2. calls[r][c] = 0 /\ Paying(r, c) = {p} /\ cap[r][c] = "CONSUMED"
      BY <2>1, <3>1
    <3>3. calls'[r][c] = 1 /\ Paying(r, c)' = {}
      BY <1>7, <2>2, <2>3, <3>2
    <3> QED BY <3>2, <3>3
  <2>4. CASE ~(r = s /\ c = k)
    BY <1>7, <2>1, <2>2, <2>4
  <2> QED BY <2>3, <2>4
<1>10. OpenOnRecord'
  <2> SUFFICES ASSUME NEW u \in unanswered', Clean(u)
               PROVE  state[u[1]][u[2]] = Running(u[1])
    BY <1>4 DEF OpenOnRecord, Clean, store
  <2>1. CASE u = Ticket(p)
    BY <1>1, <2>1 DEF Along, OnRecord, StateOf, Ticket
  <2>2. CASE u # Ticket(p)
    BY <1>4, <2>2 DEF IInv, OpenOnRecord
  <2> QED BY <2>1, <2>2
<1>11. OneCallOpen'
  <2> SUFFICES ASSUME NEW r \in Stages, NEW a \in Attempt, NEW b \in Attempt, a # b,
                      <<r, a>> \in unanswered', <<r, b>> \in unanswered'
               PROVE  {<<r, "slot">>, <<r, a>>, <<r, b>>} \cap contended # {}
    BY <1>4 DEF OneCallOpen
  <2>1. ASSUME NEW x \in Attempt, NEW y \in Attempt, x # y, <<r, x>> = Ticket(p), <<r, y>> \in unanswered
        PROVE  {<<r, "slot">>, <<r, y>>} \cap contended # {}
    BY <1>1, <2>1 DEF Along, PlaceIsFree, Ticket
  <2>2. CASE <<r, a>> \in unanswered /\ <<r, b>> \in unanswered
    BY <2>2 DEF IInv, OneCallOpen
  <2>3. CASE <<r, a>> = Ticket(p) /\ <<r, b>> \in unanswered
    BY <2>1, <2>3
  <2>4. CASE <<r, b>> = Ticket(p) /\ <<r, a>> \in unanswered
    BY <2>1, <2>4
  <2>5. ~(<<r, a>> = Ticket(p) /\ <<r, b>> = Ticket(p))
    OBVIOUS
  <2> QED BY <1>4, <2>2, <2>3, <2>4, <2>5
<1>12. UntouchedIsAbsent'
  <2>1. CASE s = "project"
    BY <1>2, <1>7, <2>1 DEF UntouchedIsAbsent
  <2>2. CASE s # "project"
    <3>1. tree'["project"] = tree["project"]
      BY <1>1, <1>3, <2>2 DEF TypeOK
    <3>2. \A c \in Capability : calls'["project"][c] = calls["project"][c]
      BY <1>7, <2>2 DEF Stages
    <3> QED BY <3>1, <3>2 DEF IInv, UntouchedIsAbsent
  <2> QED BY <2>1, <2>2
<1>13. AskedOnce("project")' =>
         /\ AskedOnce("project")
         /\ tree["project"] = "whole" => tree'["project"] = "whole"
         /\ s = "project" => tree["project"] # "whole"
  <2> SUFFICES ASSUME AskedOnce("project")'
               PROVE  /\ AskedOnce("project")
                      /\ tree["project"] = "whole" => tree'["project"] = "whole"
                      /\ s = "project" => tree["project"] # "whole"
    OBVIOUS
  <2>1. CASE s = "project"
    <3>1. \A c \in Capability : calls["project"][c] = 0
      <4> SUFFICES ASSUME NEW c \in Capability, calls["project"][c] # 0 PROVE FALSE
        OBVIOUS
      <4>1. calls["project"][c] \in Nat /\ calls["project"][k] \in Nat
        BY <1>1, <1>2 DEF TypeOK, Stages
      <4>2. CASE c = k
        BY <1>2, <1>7, <2>1, <4>1, <4>2 DEF AskedOnce
      <4>3. CASE c # k
        BY <1>2, <1>7, <2>1, <4>1, <4>3 DEF AskedOnce
      <4> QED BY <4>2, <4>3
    <3>2. tree["project"] = "absent"
      BY <3>1 DEF IInv, UntouchedIsAbsent
    <3> QED BY <2>1, <3>1, <3>2 DEF AskedOnce
  <2>2. CASE s # "project"
    <3>1. tree'["project"] = tree["project"]
      BY <1>1, <1>3, <2>2 DEF TypeOK
    <3>2. \A c \in Capability : calls'["project"][c] = calls["project"][c]
      BY <1>7, <2>2 DEF Stages
    <3> QED BY <2>2, <3>1, <3>2 DEF AskedOnce
  <2> QED BY <2>1, <2>2
<1>14. MaterializedIsWhole'
  BY <1>4, <1>13 DEF IInv, MaterializedIsWhole, Some, store
<1>15. \A q \in Proc \ {p} : Along(q)'
  <2> SUFFICES ASSUME NEW q \in Proc \ {p} PROVE Along(q)'
    OBVIOUS
  <2>1. Along(q) /\ pc'[q] = pc[q] /\ job'[q] = job[q] /\ view'[q] = view[q]
    BY <1>6 DEF IInv, Moves, Frame
  <2>2. SeenWhole(q)'
    BY <1>13, <2>1 DEF Along, SeenWhole
  <2>3. HasCalled(q)'
    <3> SUFFICES ASSUME pc[q] = "wait" PROVE calls'[job[q].stage][job[q].cap] # 0
      BY <2>1 DEF HasCalled
    <3>1. job[q].stage \in Stages /\ job[q].cap \in Capability
      BY <1>1, <2>1, JobAtWork DEF Along, Executing
    <3> QED BY <1>7, <2>1, <3>1 DEF Along, HasCalled
  <2>4. PlaceIsFree(q)'
    <3>1. CASE pc[q] \in Executing /\ job[q].stage = s
      <4>1. <<s, "slot">> \in contended
        BY <1>1, <2>1, <3>1, PlaceContended DEF Along, Executing
      <4> QED BY <1>4, <2>1, <3>1, <4>1 DEF PlaceIsFree
    <3>2. CASE ~(pc[q] \in Executing /\ job[q].stage = s)
      BY <1>4, <2>1, <3>2 DEF Along, PlaceIsFree, Ticket, Executing
    <3> QED BY <3>1, <3>2
  <2>5. OnRecord(q)'
    <3>1. CASE pc[q] # "idle" /\ Ticket(q) = Ticket(p)
      BY <1>1, <1>4, <2>1, <3>1, AttemptContended DEF OnRecord, Clean, Ticket
    <3>2. CASE pc[q] # "idle" /\ Ticket(q) # Ticket(p)
      BY <1>4, <2>1, <3>2 DEF Along, OnRecord, Clean, Ticket, StateOf, store
    <3>3. CASE pc[q] = "idle"
      BY <2>1, <3>3 DEF OnRecord
    <3> QED BY <3>1, <3>2, <3>3
  <2> QED BY <1>4, <2>1, <2>2, <2>3, <2>4, <2>5 DEF Along, Fits, TakenInARace, CapOf, store
<1>16. Fits(p)' /\ TakenInARace(p)' /\ PlaceIsFree(p)' /\ SeenWhole(p)'
  BY <1>1, <1>6, FitsStays DEF Along, TakenInARace, PlaceIsFree, SeenWhole
<1>17. OnRecord(p)' /\ HasCalled(p)'
  BY <1>1, <1>4, <1>6, <1>7 DEF Along, OnRecord, Clean, Ticket, StateOf, HasCalled, store, locals
<1>18. \A q \in Proc : Along(q)'
  BY <1>15, <1>16, <1>17 DEF Along
<1> QED BY <1>5, <1>8, <1>9, <1>10, <1>11, <1>12, <1>14, <1>18 DEF IInv

-----------------------------------------------------------------------------
(* Commands that start, and the theorems.                                  *)

\* A new job is at a step that knows nothing yet; what it has in common with the
\* jobs at work becomes contended.
LEMMA BeginPreserves ==
  ASSUME IInv, NEW p \in Proc, NEW j \in Jobs, NEW step \in {"check", "look"}, Begin(p, j, step),
         step = "check" => j.cap \in Capability,
         step = "look" => j.cap = None,
         granted' = granted
  PROVE  IInv'
<1> DEFINE others == UNION {Claims(job[q]) : q \in {r \in Proc : pc[r] # "idle"}}
<1>1. TypeOK /\ ContentionNoted /\ pc[p] = "idle" /\ runs < MaxRuns
  BY DEF IInv, Begin
<1>2. /\ pc' = [pc EXCEPT ![p] = step] /\ job' = [job EXCEPT ![p] = j] /\ runs' = runs + 1
      /\ contended' = contended \cup (Claims(j) \cap others)
      /\ UNCHANGED <<store, tree, reply, view, calls, reissued, unanswered>>
  BY DEF Begin, Goto
<1>3. Claims(j) \subseteq Stages \X (Capability \cup Attempt \cup {"slot"})
  BY DEF Claims, Jobs
<1>4. TypeOK'
  <2>1. runs' \in 0..MaxRuns
    BY <1>1, <1>2 DEF TypeOK
  <2>2. pc' \in [Proc -> Steps] /\ job' \in [Proc -> Jobs \cup {None}]
    BY <1>1, <1>2 DEF TypeOK, Steps, Executing, Reconciling
  <2>3. contended' \subseteq Stages \X (Capability \cup Attempt \cup {"slot"})
    BY <1>1, <1>2, <1>3 DEF TypeOK
  <2> QED BY <1>1, <1>2, <2>1, <2>2, <2>3 DEF TypeOK, store
<1>5. contended \subseteq contended'
  BY <1>2
<1>6. /\ pc'[p] = step /\ job'[p] = j
      /\ \A q \in Proc \ {p} : pc'[q] = pc[q] /\ job'[q] = job[q] /\ view'[q] = view[q]
  BY <1>1, <1>2 DEF TypeOK
<1>7. ContentionNoted'
  <2> SUFFICES ASSUME NEW q \in Proc, NEW r \in Proc, q # r, pc'[q] # "idle", pc'[r] # "idle"
               PROVE  Claims(job'[q]) \cap Claims(job'[r]) \subseteq contended'
    BY DEF ContentionNoted, Claims
  <2>1. ASSUME NEW x \in Proc \ {p}, pc[x] # "idle"
        PROVE  Claims(j) \cap Claims(job[x]) \subseteq contended'
    BY <1>2, <2>1
  <2>2. CASE q = p
    BY <1>6, <2>1, <2>2
  <2>3. CASE r = p
    BY <1>6, <2>1, <2>3
  <2>4. CASE q # p /\ r # p
    BY <1>1, <1>5, <1>6, <2>4 DEF ContentionNoted
  <2> QED BY <2>2, <2>3, <2>4
<1>8. PaidOnce'
  <2>1. \A s \in Stages, c \in Capability : Paying(s, c)' = Paying(s, c)
    BY <1>1, <1>6 DEF Paying
  <2> QED BY <1>2, <2>1 DEF IInv, PaidOnce, store
<1>9. ReissuedOnlyInARace' /\ OneCallOpen'
  BY <1>2, <1>5 DEF IInv, ReissuedOnlyInARace, OneCallOpen
<1>10. OpenOnRecord' /\ UntouchedIsAbsent' /\ MaterializedIsWhole'
  BY <1>2, <1>5 DEF IInv, OpenOnRecord, Clean, UntouchedIsAbsent, MaterializedIsWhole, Some, AskedOnce, store
<1>11. Along(p)'
  BY <1>6 DEF Along, Fits, TakenInARace, OnRecord, PlaceIsFree, SeenWhole, HasCalled, Executing, Reconciling
<1>12. \A q \in Proc \ {p} : Along(q)'
  <2> SUFFICES ASSUME NEW q \in Proc \ {p} PROVE Along(q)'
    OBVIOUS
  <2>1. Along(q) /\ pc'[q] = pc[q] /\ job'[q] = job[q] /\ view'[q] = view[q]
    BY <1>6 DEF IInv
  <2>2. Fits(q)' /\ SeenWhole(q)' /\ HasCalled(q)'
    BY <1>2, <2>1 DEF Along, Fits, SeenWhole, AskedOnce, HasCalled
  <2>3. TakenInARace(q)' /\ PlaceIsFree(q)'
    BY <1>2, <1>5, <2>1 DEF Along, TakenInARace, CapOf, PlaceIsFree, store
  <2>4. OnRecord(q)'
    BY <1>2, <1>5, <2>1 DEF Along, OnRecord, Clean, Ticket, StateOf, store
  <2> QED BY <2>2, <2>3, <2>4 DEF Along
<1> QED BY <1>4, <1>7, <1>8, <1>9, <1>10, <1>11, <1>12 DEF IInv

\* Nothing that is known depends on the authorizations.
LEMMA AuthorizePreserves ==
  ASSUME IInv, NEW s \in Stages, NEW confirmed \in BOOLEAN, Authorize(s, confirmed)
  PROVE  IInv'
<1>1. TypeOK'
  BY DEF IInv, TypeOK, Authorize, locals, history
<1>2. UNCHANGED <<cap, state, tree, pc, job, view, calls, reissued, unanswered, contended>>
  BY DEF Authorize, locals, history
<1>3. ContentionNoted' /\ PaidOnce' /\ ReissuedOnlyInARace' /\ OneCallOpen'
  BY <1>2 DEF IInv, ContentionNoted, PaidOnce, Paying, ReissuedOnlyInARace, OneCallOpen
<1>4. OpenOnRecord' /\ UntouchedIsAbsent' /\ MaterializedIsWhole'
  BY <1>2 DEF IInv, OpenOnRecord, Clean, UntouchedIsAbsent, MaterializedIsWhole, Some, AskedOnce
<1>5. \A p \in Proc : Along(p)'
  BY <1>2 DEF IInv, Along, Fits, TakenInARace, CapOf, OnRecord, Clean, Ticket, StateOf, PlaceIsFree,
              SeenWhole, AskedOnce, HasCalled
<1> QED BY <1>1, <1>3, <1>4, <1>5 DEF IInv

\* Steps that change nothing keep everything.
LEMMA StutterPreserves ==
  ASSUME IInv, UNCHANGED vars
  PROVE  IInv'
<1>1. TypeOK'
  BY DEF IInv, TypeOK, vars, locals, history
<1>2. UNCHANGED <<cap, state, tree, pc, job, view, calls, reissued, unanswered, contended>>
  BY DEF vars, locals, history
<1>3. ContentionNoted' /\ PaidOnce' /\ ReissuedOnlyInARace' /\ OneCallOpen'
  BY <1>2 DEF IInv, ContentionNoted, PaidOnce, Paying, ReissuedOnlyInARace, OneCallOpen
<1>4. OpenOnRecord' /\ UntouchedIsAbsent' /\ MaterializedIsWhole'
  BY <1>2 DEF IInv, OpenOnRecord, Clean, UntouchedIsAbsent, MaterializedIsWhole, Some, AskedOnce
<1>5. \A p \in Proc : Along(p)'
  BY <1>2 DEF IInv, Along, Fits, TakenInARace, CapOf, OnRecord, Clean, Ticket, StateOf, PlaceIsFree,
              SeenWhole, AskedOnce, HasCalled
<1> QED BY <1>1, <1>3, <1>4, <1>5 DEF IInv

\* The lemmas above, put together: every action keeps the invariant.
LEMMA NextPreserves ==
  ASSUME IInv, [Next]_vars
  PROVE  IInv'
<1>1. ASSUME NEW s \in Stages, NEW confirmed \in BOOLEAN, Authorize(s, confirmed) PROVE IInv'
  BY <1>1, AuthorizePreserves
<1>2. ASSUME NEW p \in Proc, NEW s \in Stages, NEW a \in Attempt, NEW c \in Capability,
             Execute(p, s, c, a)
      PROVE  IInv'
  <2> DEFINE j == [stage |-> s, cap |-> c, attempt |-> a]
  <2>1. j \in Jobs /\ j.cap \in Capability
    BY DEF Jobs
  <2>2. Begin(p, j, "check") /\ granted' = granted
    BY <1>2 DEF Execute, Begin, store
  <2> HIDE DEF j
  <2> QED BY <2>1, <2>2, BeginPreserves
<1>3. ASSUME NEW p \in Proc, NEW s \in Stages, NEW a \in Attempt, Reconcile(p, s, a)
      PROVE  IInv'
  <2> DEFINE j == [stage |-> s, cap |-> None, attempt |-> a]
  <2>1. j \in Jobs /\ j.cap = None
    BY DEF Jobs
  <2>2. Begin(p, j, "look") /\ granted' = granted
    BY <1>3 DEF Reconcile, Begin, store
  <2> HIDE DEF j
  <2> QED BY <2>1, <2>2, BeginPreserves
<1>4. ASSUME NEW p \in Proc, Step(p) PROVE IInv'
  BY <1>4, CheckPreserves, IssuePreserves, ClaimPreserves, MarkPreserves, ConsumePreserves,
     RefusePreserves, CallPreserves, AnswerPreserves, InspectPreserves, RecordPreserves,
     ReadyPreserves, LookPreserves, PromotePreserves, CrashPreserves DEF Step
<1>5. CASE UNCHANGED vars
  BY <1>5, StutterPreserves
<1> QED BY <1>1, <1>2, <1>3, <1>4, <1>5 DEF Next

\* Nothing is issued, stored or asked of HVS at the start.
LEMMA InitIInv == Init => IInv
<1> SUFFICES ASSUME Init PROVE IInv
  OBVIOUS
<1>1. TypeOK
  BY DEF Init, TypeOK, AttemptStates, Steps, Trees, Stages
<1>2. \A s \in Stages, c \in Capability : Paying(s, c) = {} /\ calls[s][c] = 0
  BY DEF Init, Paying
<1>3. ContentionNoted /\ PaidOnce
  BY <1>2 DEF Init, ContentionNoted, PaidOnce
<1>4. ReissuedOnlyInARace /\ OpenOnRecord /\ OneCallOpen
  BY DEF Init, ReissuedOnlyInARace, OpenOnRecord, OneCallOpen
<1>5. UntouchedIsAbsent /\ MaterializedIsWhole
  BY DEF Init, UntouchedIsAbsent, MaterializedIsWhole, Some, Stages
<1>6. \A p \in Proc : Along(p)
  BY DEF Init, Along, Fits, TakenInARace, OnRecord, PlaceIsFree, SeenWhole, HasCalled, Executing,
         Reconciling
<1> QED BY <1>1, <1>3, <1>4, <1>5, <1>6 DEF IInv

\* What is known of every process and of what they share holds throughout.
THEOREM Inductive == Spec => []IInv
BY InitIInv, NextPreserves, PTL DEF Spec

\* Every attempt is in a state its stage stores, whatever the store, HVS and the
\* processes do (put_attempt and put_render_inputs_attempt).
THEOREM TypeCorrect == Spec => []TypeOK
<1>1. IInv => TypeOK
  BY DEF IInv
<1> QED BY <1>1, Inductive, PTL

\* consume_capability lets one execution through, however many share a capability,
\* crash or are repeated, as long as it is not issued again over its consumption.
THEOREM CapabilitiesSingleUse == Spec => []SingleUse
<1>1. IInv => SingleUse
  BY DEF IInv, PaidOnce, SingleUse
<1> QED BY <1>1, Inductive, PTL

\* The replay check of step 6b leaves one way to issue a consumed capability again:
\* to have looked before another execution consumed it.
THEOREM ReissuesAreRaces == Spec => []ReissuedOnlyInARace
<1>1. IInv => ReissuedOnlyInARace
  BY DEF IInv
<1> QED BY <1>1, Inductive, PTL

\* try_claim_inflight keeps a second attempt from HVS while one is open, crashed
\* ones included, unless their executions overlap.
THEOREM CallsExclusive == Spec => []OneCallOpen
<1>1. IInv => OneCallOpen
  BY DEF IInv
<1> QED BY <1>1, Inductive, PTL

\* The attempt stored before the call keeps it visible to cmd_projection until its
\* outcome is stored, through any crash.
THEOREM CallsOnRecord == Spec => []NoCallHidden
<1>1. IInv => NoCallHidden
  <2> SUFFICES ASSUME IInv, NEW t \in unanswered, {t, <<t[1], "slot">>} \cap contended = {}
               PROVE  /\ state[t[1]][t[2]] = Running(t[1])
                      /\ t[1] = "project" =>
                           Projection \in {"STARTING", "OUTCOME_UNKNOWN", "MATERIALIZED"}
    BY DEF NoCallHidden
  <2>1. state[t[1]][t[2]] = Running(t[1]) /\ t[2] \in Attempt
    BY DEF IInv, TypeOK, OpenOnRecord, Clean
  <2>2. ASSUME t[1] = "project"
        PROVE  Projection \in {"STARTING", "OUTCOME_UNKNOWN", "MATERIALIZED"}
    <3>1. Some("STARTING")
      BY <2>1, <2>2 DEF Some, Running
    <3> QED BY <3>1 DEF Projection
  <2> QED BY <2>1, <2>2
<1> QED BY <1>1, Inductive, PTL

\* The inspection of step 13b, and that of a reconciliation, let no attempt be
\* stored as materialized for a project that is not whole.
THEOREM SuccessIsThere == Spec => []MaterializedIsWhole
<1>1. IInv => MaterializedIsWhole
  BY DEF IInv
<1> QED BY <1>1, Inductive, PTL

-----------------------------------------------------------------------------
(* The refinement of SingleUseCall.                                        *)

Permits == Stages \X Capability

\* A step at which no capability's entry changes takes no call any further.
LEMMA PhaseStays ==
  ASSUME NEW k \in Permits, contended' = contended,
         cap'[k[1]][k[2]] = cap[k[1]][k[2]], calls'[k[1]][k[2]] = calls[k[1]][k[2]]
  PROVE  Phase(k)' = Phase(k)
BY DEF Phase

\* A step that takes the call of one capability further.
LEMMA PhaseStep ==
  ASSUME NEW k \in Permits, \A g \in Permits \ {k} : Phase(g)' = Phase(g)
  PROVE  [g \in Permits |-> Phase(g)]' = [[g \in Permits |-> Phase(g)] EXCEPT ![k] = Phase(k)']
OBVIOUS

\* Issuing a capability nobody contends for writes over no consumption.
LEMMA IssueTakesNothing ==
  ASSUME IInv, NEW p \in Proc, Issue(p), NEW k \in Permits
  PROVE  Phase(k)' = Phase(k)
<1>1. TypeOK /\ Along(p) /\ pc[p] = "issue" /\ contended' = contended /\ calls' = calls
  BY DEF Issue, IInv
<1>2. job[p].stage \in Stages /\ job[p].cap \in Capability
  BY <1>1, JobAtWork DEF Along, Executing
<1>3. cap' = [cap EXCEPT ![job[p].stage][job[p].cap] = "ISSUED"]
  BY DEF Issue
<1>4. k[1] \in Stages /\ k[2] \in Capability /\ k = <<k[1], k[2]>>
  BY DEF Permits
<1>5. CASE k = <<job[p].stage, job[p].cap>>
  <2>1. k \notin contended => cap[k[1]][k[2]] # "CONSUMED"
    BY <1>1, <1>5 DEF Along, TakenInARace, CapOf
  <2>2. cap'[k[1]][k[2]] # "CONSUMED"
    BY <1>1, <1>2, <1>3, <1>5 DEF TypeOK
  <2> QED BY <1>1, <2>1, <2>2 DEF Phase
<1>6. CASE k # <<job[p].stage, job[p].cap>>
  <2>1. cap'[k[1]][k[2]] = cap[k[1]][k[2]]
    BY <1>1, <1>2, <1>3, <1>4, <1>6 DEF TypeOK
  <2> QED BY <1>1, <2>1, PhaseStays
<1> QED BY <1>5, <1>6

\* Consuming spends the permit of a call that was not made, or changes nothing.
LEMMA ConsumeSpends ==
  ASSUME IInv, NEW p \in Proc, Consume(p)
  PROVE  \E k \in Permits :
           /\ \A g \in Permits \ {k} : Phase(g)' = Phase(g)
           /\ Phase(k)' = Phase(k) \/ <<Phase(k), Phase(k)'>> = <<"new", "spent">>
<1>1. TypeOK /\ Along(p) /\ pc[p] = "consume" /\ contended' = contended /\ calls' = calls
  BY DEF Consume, IInv, history
<1>2. job[p].stage \in Stages /\ job[p].cap \in Capability
  BY <1>1, JobAtWork DEF Along, Executing
<1>3. cap' = [cap EXCEPT ![job[p].stage][job[p].cap] = "CONSUMED"]
  BY DEF Consume
<1>4. PICK k \in Permits : k = <<job[p].stage, job[p].cap>>
  BY <1>2 DEF Permits
<1>5. \A g \in Permits \ {k} : Phase(g)' = Phase(g)
  <2> SUFFICES ASSUME NEW g \in Permits \ {k} PROVE Phase(g)' = Phase(g)
    OBVIOUS
  <2>1. g[1] \in Stages /\ g[2] \in Capability /\ g = <<g[1], g[2]>>
    BY DEF Permits
  <2>2. cap'[g[1]][g[2]] = cap[g[1]][g[2]]
    BY <1>1, <1>2, <1>3, <1>4, <2>1 DEF TypeOK
  <2> QED BY <1>1, <2>2, PhaseStays
<1>6. cap'[k[1]][k[2]] = "CONSUMED"
  BY <1>1, <1>2, <1>3, <1>4 DEF TypeOK
<1>7. Phase(k)' = Phase(k) \/ <<Phase(k), Phase(k)'>> = <<"new", "spent">>
  BY <1>1, <1>6 DEF Phase
<1> QED BY <1>5, <1>7

\* HVS is asked on a permit that was spent and not used.
LEMMA CallAsks ==
  ASSUME IInv, NEW p \in Proc, Call(p)
  PROVE  \E k \in Permits :
           /\ \A g \in Permits \ {k} : Phase(g)' = Phase(g)
           /\ Phase(k)' = Phase(k) \/ <<Phase(k), Phase(k)'>> = <<"spent", "asked">>
<1>1. TypeOK /\ Along(p) /\ pc[p] = "call" /\ contended' = contended /\ cap' = cap
  BY DEF Call, IInv, store
<1>2. job[p].stage \in Stages /\ job[p].cap \in Capability
  BY <1>1, JobAtWork DEF Along, Executing
<1>3. calls' = [calls EXCEPT ![job[p].stage][job[p].cap] = @ + 1]
  BY DEF Call
<1>4. PICK k \in Permits : k = <<job[p].stage, job[p].cap>>
  BY <1>2 DEF Permits
<1>5. \A g \in Permits \ {k} : Phase(g)' = Phase(g)
  <2> SUFFICES ASSUME NEW g \in Permits \ {k} PROVE Phase(g)' = Phase(g)
    OBVIOUS
  <2>1. g[1] \in Stages /\ g[2] \in Capability /\ g = <<g[1], g[2]>>
    BY DEF Permits
  <2>2. calls'[g[1]][g[2]] = calls[g[1]][g[2]]
    BY <1>1, <1>2, <1>3, <1>4, <2>1 DEF TypeOK
  <2> QED BY <1>1, <2>2, PhaseStays
<1>6. ASSUME k \in contended PROVE Phase(k)' = Phase(k)
  BY <1>1, <1>6 DEF Phase
<1>7. ASSUME k \notin contended PROVE <<Phase(k), Phase(k)'>> = <<"spent", "asked">>
  <2>1. k \notin reissued
    BY <1>7 DEF IInv, ReissuedOnlyInARace
  <2>2. p \in Paying(job[p].stage, job[p].cap)
    BY <1>1 DEF Paying
  <2>3. cap[k[1]][k[2]] = "CONSUMED" /\ calls[k[1]][k[2]] = 0
    BY <1>2, <1>4, <2>1, <2>2 DEF IInv, PaidOnce
  <2>4. calls'[k[1]][k[2]] = 1
    BY <1>1, <1>2, <1>3, <1>4, <2>3 DEF TypeOK
  <2> QED BY <1>1, <1>7, <2>3, <2>4 DEF Phase
<1> QED BY <1>5, <1>6, <1>7

\* In both stages the call of every capability is a single-use call, for any number
\* of processes, capabilities and attempts.
THEOREM CallImplemented == Spec => ImplementsCall
<1> DEFINE phases == [k \in Permits |-> Phase(k)]
<1>1. Init => Permit!Init
  BY DEF Init, Permit!Init, Phase
<1>2. IInv /\ [Next]_vars => [Permit!Next]_phases
  <2> SUFFICES ASSUME IInv, [Next]_vars PROVE [Permit!Next]_phases
    OBVIOUS
  <2>1. ASSUME UNCHANGED <<cap, calls, contended>>
        PROVE  UNCHANGED phases
    BY <2>1 DEF Phase
  <2>2. ASSUME NEW p \in Proc, NEW j, NEW step, Begin(p, j, step)
        PROVE  [Permit!Next]_phases
    <3> DEFINE raced == {k \in Permits : k \in contended'}
    <3>1. UNCHANGED <<cap, calls>> /\ contended \subseteq contended'
      BY <2>2 DEF Begin, store
    <3>2. phases' = [k \in Permits |-> IF k \in raced THEN "raced" ELSE phases[k]]
      BY <3>1 DEF Phase
    <3>3. Permit!Race(raced) /\ raced \in SUBSET Permits
      BY <3>2 DEF Permit!Race, Permits
    <3> QED BY <3>3 DEF Permit!Next, Permits
  <2>3. ASSUME NEW p \in Proc, Issue(p)
        PROVE  UNCHANGED phases
    BY <2>3, IssueTakesNothing
  <2>4. ASSUME NEW p \in Proc, Consume(p) \/ Call(p)
        PROVE  [Permit!Next]_phases
    <3>1. PICK k \in Permits :
            /\ \A g \in Permits \ {k} : Phase(g)' = Phase(g)
            /\ \/ Phase(k)' = Phase(k)
               \/ <<Phase(k), Phase(k)'>> \in {<<"new", "spent">>, <<"spent", "asked">>}
      BY <2>4, ConsumeSpends, CallAsks
    <3>2. CASE Phase(k)' = Phase(k)
      BY <3>1, <3>2
    <3>3. CASE Phase(k)' # Phase(k)
      <4>1. phases' = [phases EXCEPT ![k] = Phase(k)'] /\ phases[k] = Phase(k)
        BY <3>1, PhaseStep
      <4>2. Permit!Spend(k) \/ Permit!Ask(k)
        BY <3>1, <3>3, <4>1 DEF Permit!Spend, Permit!Ask, Permit!Pass, Permits
      <4> QED BY <4>2 DEF Permit!Next, Permits
    <3> QED BY <3>2, <3>3
  <2>5. ASSUME NEW p \in Proc, Step(p), ~Issue(p), ~Consume(p), ~Call(p)
        PROVE  UNCHANGED <<cap, calls, contended>>
    BY <2>5 DEF Step, Check, Claim, Mark, Refuse, Answer, Inspect, Record, Ready, Look, Promote,
                Crash, store, history
  <2>6. ASSUME NEW p \in Proc, Step(p)
        PROVE  [Permit!Next]_phases
    BY <2>1, <2>3, <2>4, <2>5, <2>6
  <2>7. ASSUME NEW p \in Proc, NEW s \in Stages, NEW a \in Attempt,
               Reconcile(p, s, a) \/ \E c \in Capability : Execute(p, s, c, a)
        PROVE  [Permit!Next]_phases
    BY <2>2, <2>7 DEF Reconcile, Execute
  <2>8. CASE (\E s \in Stages, confirmed \in BOOLEAN : Authorize(s, confirmed)) \/ UNCHANGED vars
    BY <2>1, <2>8 DEF Authorize, history, vars
  <2> QED BY <2>6, <2>7, <2>8 DEF Next
<1> QED BY <1>1, <1>2, Inductive, PTL DEF Spec, ImplementsCall, Permit!Spec, Permits
=============================================================================
