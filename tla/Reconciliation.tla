---------------------------- MODULE Reconciliation ----------------------------
(***************************************************************************)
(* Re-render results taken into the delivery lineage:                      *)
(* hvs_rerender_result_reconciliation_service.py (stage 8D), with the part *)
(* of hvs_delivery_lineage_service.py (8A.1) and of                        *)
(* hvs_rerender_dispatch_service.py (8C) it runs through.                  *)
(*                                                                         *)
(* Every `reconcile-hvs-rerender-result` is a process of its own.  It      *)
(* reads three event ledgers, decides, and then appends up to seven events *)
(* one after the other, with no lock and nothing that undoes a part of it: *)
(* another process may run, or this one die, between any two of them, and  *)
(* between the read and the write of one append.  So is, with one append,  *)
(* every `request-hvs-rerender-dispatch`.                                  *)
(*                                                                         *)
(* One project and one operator.  A result is what its idempotency key     *)
(* hashes; the delivery it is to be registered as and the evidence it is   *)
(* registered by are not in it and are named by each call.  A stamp is the *)
(* recorded_at of a call: it is in the body of every event and in the id   *)
(* of few.                                                                 *)
(***************************************************************************)
EXTENDS EventLedger, ReconciledResult

CONSTANTS
  Proc,        \* processes that can be alive at once
  Result,      \* re-render results (a changed field makes another result)
  Failed,      \* the results whose status is FAILED
  Dispatch, Revision, Delivery, Evidence, Stamp,
  dispatchOf,  \* the dispatch each result answers
  revisionOf,  \* the revision each dispatch was made for
  originalOf,  \* the delivery each revision revises
  Root,        \* the project's first delivery, registered as version 1
  None,
  MaxCalls,    \* commands started
  MaxRaced     \* of them, once two have been alive at once

ASSUME LinkAssumption ==
  /\ Failed \subseteq Result
  /\ dispatchOf \in [Result -> Dispatch]
  /\ revisionOf \in [Dispatch -> Revision]
  /\ originalOf \in [Revision -> Delivery]
  /\ Root \in Delivery /\ None \notin Delivery \cup Result \cup Stamp \cup Evidence
  /\ MaxCalls \in Nat /\ MaxRaced \in 0 .. MaxCalls

VARIABLES
  lineage,     \* hvs_delivery_lineage.jsonl
  dispatches,  \* hvs_rerender_dispatch.jsonl
  results,     \* hvs_rerender_result_reconciliation.jsonl
  closed,      \* deliveries whose stage 7 closure the customer accepted
  pc,          \* next step of each process
  checked,     \* the append under way has read its ledger and will write
  job,         \* what each process was called with
  entry,       \* the lineage event it may have to append
  code,        \* why it is about to refuse the result
  answers,     \* history: <<result, delivery>>, for every ok answer to a result
  calls,       \* commands started
  overlap      \* history: two processes have been alive at once

ledgers == <<lineage, dispatches, results>>
local == <<job, entry, code>>
vars == <<ledgers, closed, pc, checked, local, answers, calls, overlap>>

\* What a process is called with: a result, or a request for a dispatch.
Calls == [result : Result, delivery : Delivery, evidence : Evidence, stamp : Stamp]
Requests == [dispatch : Dispatch, stamp : Stamp]

Reading == {"lookup", "gate", "register"}
ToLineage == {"request", "registered", "conflict"}
ToResults == {"close", "accept", "create", "supersede", "fail", "refuse"}
Ordering == {"deny", "repeat", "order"}
Appending == ToLineage \cup ToResults \cup {"complete"} \cup Ordering
Codes == {"NO_DISPATCH", "OTHER_ACCEPTED", "NO_LINEAGE", "OTHER_CLOSED", "NOT_CLOSED",
          "SAME_ARTIFACT", "DELIVERY_TAKEN", "VERSION_TAKEN", "UNREADABLE"}

RevisionOf(r) == revisionOf[dispatchOf[r]]
OriginalOf(r) == originalOf[RevisionOf(r)]

-----------------------------------------------------------------------------
(* The three ledgers.                                                      *)

\* A lineage event; `by` is the evidence reference in the record, if there is one.
\* The id names the delivery and its lineage_id, the body the rest of the record.
LineageEvent(kind, delivery, parent, version, by, stamp) ==
  Event([kind |-> kind, delivery |-> delivery, parent |-> parent, version |-> version],
        [by |-> by, stamp |-> stamp])

\* `note` is what else the hashed record holds: the created_at of a dispatch, the
\* result that completed it.
DispatchEvent(kind, d, note, stamp) ==
  Event([kind |-> kind, dispatch |-> d, note |-> note], stamp)

\* `delivery` is the new delivery record, where the hashed record names it; `note`
\* the error code of a refusal, and the created_at of the revised delivery and of
\* its supersession.
ResultEvent(kind, r, d, note, stamp) ==
  Event([kind |-> kind, result |-> r, delivery |-> d, note |-> note], stamp)

LineageEvents == [id : [kind : {"REQUESTED", "REGISTERED", "CONFLICT"},
                        delivery : Delivery, parent : Delivery \cup {None}, version : Nat],
                  body : [by : Evidence \cup {None}, stamp : Stamp \cup {None}]]
DispatchEvents ==
  [id : [kind : {"CREATED", "COMPLETED", "DUPLICATE", "REJECTED"}, dispatch : Dispatch,
         note : Result \cup Stamp \cup {None}],
   body : Stamp]
ResultEvents ==
  [id : [kind : {"ACCEPTED", "CREATED", "SUPERSEDED", "COMPLETED", "FAILED", "REJECTED"},
         result : Result, delivery : Delivery \cup {None}, note : Codes \cup Stamp \cup {None}],
   body : Stamp]

\* _records: the lineage records, one per registered event.
Records == {e \in Events(lineage) : e.id.kind = "REGISTERED"}
RecordsOf(d) == {e \in Records : e.id.delivery = d}

\* inspect_delivery_lineage finds one record; two for a delivery, or a ledger that
\* cannot be read, count as an unknown lineage.
Registered(d) == Readable(lineage) /\ \E e \in RecordsOf(d) : RecordsOf(d) = {e}

VersionOf(d) == (CHOOSE e \in RecordsOf(d) : TRUE).id.version

\* The delivery is registered as the successor of what the result revises.  Nothing
\* in its record names the result.
Delivered(r, d) == \E e \in RecordsOf(d) : e.id.parent = OriginalOf(r)

\* _all_dispatches takes CREATED events only: no other record has a dispatch_id.
Created(d) == \E e \in Events(dispatches) : e.id.kind = "CREATED" /\ e.id.dispatch = d
Completed(r) ==
  Recorded(dispatches, [kind |-> "COMPLETED", dispatch |-> dispatchOf[r], note |-> r])

AcceptedAs(r, d) ==
  Recorded(results, [kind |-> "ACCEPTED", result |-> r, delivery |-> d, note |-> None])
Accepted(r) == \E d \in Delivery : AcceptedAs(r, d)
Closed(r) == \E d \in Delivery :
  Recorded(results, [kind |-> "COMPLETED", result |-> r, delivery |-> d, note |-> None])

\* The results a REVISION_COMPLETED of this result's revision names.
Closers(r) == {q \in Result : RevisionOf(q) = RevisionOf(r) /\ Closed(q)}

Answers == Result \X (Delivery \cup {None})

TypeOK ==
  /\ lineage \in Seq(LineageEvents)
  /\ dispatches \in Seq(DispatchEvents)
  /\ results \in Seq(ResultEvents)
  /\ closed \subseteq Delivery
  /\ pc \in [Proc -> {"idle", "ask"} \cup Reading \cup Appending]
  /\ checked \in [Proc -> BOOLEAN]
  /\ job \in [Proc -> Calls \cup Requests \cup {None}]
  /\ entry \in [Proc -> LineageEvents \cup {None}]
  /\ code \in [Proc -> Codes \cup {None}]
  /\ answers \subseteq Answers
  /\ calls \in 0..MaxCalls
  /\ overlap \in BOOLEAN

\* The project's first delivery is registered.
Begun == <<LineageEvent("REQUESTED", Root, None, 1, None, None),
           LineageEvent("REGISTERED", Root, None, 1, None, None)>>

\* A project at rest, with what was registered and requested of it.
InitWith(known, requested) ==
  /\ lineage = known
  /\ dispatches = requested
  /\ results = <<>>
  /\ closed = {e.id.delivery : e \in Events(known)}
  /\ pc = [p \in Proc |-> "idle"]
  /\ checked = [p \in Proc |-> FALSE]
  /\ job = [p \in Proc |-> None]
  /\ entry = [p \in Proc |-> None]
  /\ code = [p \in Proc |-> None]
  /\ answers = {}
  /\ calls = 0
  /\ overlap = FALSE

Init == InitWith(Begun, <<>>)

-----------------------------------------------------------------------------
(* The processes.                                                          *)

\* The customer accepts the stage 7 closure of a delivery.
CloseDelivery(d) ==
  /\ closed' = closed \cup {d}
  /\ UNCHANGED <<ledgers, pc, checked, local, answers, calls, overlap>>

Goto(p, step) == pc' = [pc EXCEPT ![p] = step]

\* The call returns, raises, or dies: nothing of it is left but its appends.
Leave(p) ==
  /\ Goto(p, "idle")
  /\ checked' = [checked EXCEPT ![p] = FALSE]
  /\ job' = [job EXCEPT ![p] = None]
  /\ entry' = [entry EXCEPT ![p] = None]
  /\ code' = [code EXCEPT ![p] = None]

\* A command starts, alone or beside another one.
Start(p, step, call) ==
  /\ overlap' = (overlap \/ \E q \in Proc : pc[q] # "idle")
  /\ pc[p] = "idle" /\ calls < IF overlap' THEN MaxRaced ELSE MaxCalls
  /\ Goto(p, step)
  /\ calls' = calls + 1
  /\ job' = [job EXCEPT ![p] = call]
  /\ UNCHANGED <<ledgers, closed, checked, entry, code, answers>>

\* The answer to a result; that to a request is not recorded.
Answer(p, d) == answers' = answers \cup {<<job[p].result, d>>}

Proceed(p, step) == Goto(p, step) /\ UNCHANGED <<checked, local, answers>>
Raise(p) == Leave(p) /\ UNCHANGED answers

-----------------------------------------------------------------------------
(* request_rerender_dispatch, up to its append.                            *)

\* A revision of a delivery can be requested once the delivery is registered.
Request(p, d, t) ==
  /\ RecordsOf(originalOf[revisionOf[d]]) # {}
  /\ Start(p, "ask", [dispatch |-> d, stamp |-> t])

\* The approval gate reads what 8B holds of the revision and may deny, each time for
\* the same reason; a dispatch that is found is answered, and noted as a duplicate.
Ask(p) ==
  /\ pc[p] = "ask"
  /\ \/ Proceed(p, "deny")
     \/ ~Readable(dispatches) /\ Raise(p)
     \/ Readable(dispatches) /\ Created(job[p].dispatch) /\ Proceed(p, "repeat")
     \/ Readable(dispatches) /\ ~Created(job[p].dispatch) /\ Proceed(p, "order")
  /\ UNCHANGED <<ledgers, closed, calls, overlap>>

-----------------------------------------------------------------------------
(* reconcile_rerender_result: what it reads, up to its first append.       *)

\* _reject, then deny.
Refuse(p, c) ==
  /\ Goto(p, "refuse")
  /\ code' = [code EXCEPT ![p] = c]
  /\ UNCHANGED <<checked, job, entry, answers>>

Reconcile(p, call) == Start(p, "lookup", call)

\* The CREATED events of the results' ledger, by place.
Made == {i \in DOMAIN results : results[i].id.kind = "CREATED"}

\* Faulty variant: answers with the result, not with its delivery.
ReconstructResult(p) ==
  \/ Made = {} /\ Answer(p, None)
  \/ \E i \in Made : (\A j \in Made : j <= i) /\ Answer(p, results[i].id.result)

\* _reconstruct_reconciliation: the last revised delivery of the whole ledger,
\* whichever reconciliation it belongs to.
Reconstruct(p) ==
  \/ Made = {} /\ Answer(p, None)
  \/ \E i \in Made : (\A j \in Made : j <= i) /\ Answer(p, results[i].id.delivery)

\* The dispatch, then the results accepted so far: an accepted result is
\* answered from the ledger, one that contradicts an accepted one is refused.
Lookup(p) ==
  LET r == job[p].result
      rivals == {q \in Result \ {r} : dispatchOf[q] = dispatchOf[r] /\ Accepted(q)}
  IN  /\ pc[p] = "lookup"
      /\ \/ ~Readable(dispatches) /\ Raise(p)
         \/ Readable(dispatches) /\ ~Created(dispatchOf[r]) /\ Refuse(p, "NO_DISPATCH")
         \/ /\ Readable(dispatches) /\ Created(dispatchOf[r])
            /\ \/ ~Readable(results) /\ Raise(p)
               \/ /\ Readable(results) /\ Accepted(r)
                  /\ Leave(p) /\ Reconstruct(p)
               \/ /\ Readable(results) /\ ~Accepted(r)
                  /\ IF rivals # {} THEN Refuse(p, "OTHER_ACCEPTED") ELSE Proceed(p, "gate")
      /\ UNCHANGED <<ledgers, closed, calls, overlap>>

\* Faulty variant: the version after the last one registered, not after the parent's.
CandidateAfterLast(call) ==
  LET versions == {e.id.version : e \in Records}
  IN  LineageEvent("REGISTERED", call.delivery, OriginalOf(call.result),
                   1 + CHOOSE n \in versions : \A m \in versions : m <= n,
                   call.evidence, call.stamp)

\* The lineage record the call asks for: the version after its parent's, as
\* derive_successor_version plans it.
Candidate(call) ==
  LineageEvent("REGISTERED", call.delivery, OriginalOf(call.result),
               VersionOf(OriginalOf(call.result)) + 1, call.evidence, call.stamp)

\* The failure path, the acceptance gate and the closure pre-check.  The gate asks
\* that the dispatch still be CREATED; it is as soon as it is found, because the
\* record of a COMPLETED event has no dispatch_id and _all_dispatches skips it.
Gate(p) ==
  LET r == job[p].result
      first == CHOOSE i \in DOMAIN results :
                 /\ results[i].id.kind = "COMPLETED" /\ results[i].id.result \in Closers(r)
                 /\ \A j \in 1 .. i - 1 : ~(/\ results[j].id.kind = "COMPLETED"
                                           /\ results[j].id.result \in Closers(r))
  IN  /\ pc[p] = "gate"
      /\ \/ r \in Failed /\ Proceed(p, "fail")
         \/ r \notin Failed /\ ~Registered(OriginalOf(r)) /\ Refuse(p, "NO_LINEAGE")
         \/ /\ r \notin Failed /\ Registered(OriginalOf(r))
            /\ \/ ~Readable(results) /\ Raise(p)
               \/ /\ Readable(results)
                  /\ IF Closers(r) # {} /\ results[first].id.result # r
                       THEN Refuse(p, "OTHER_CLOSED")
                       ELSE /\ Goto(p, "register")
                            /\ entry' = [entry EXCEPT ![p] = Candidate(job[p])]
                            /\ UNCHANGED <<checked, job, code, answers>>
      /\ UNCHANGED <<ledgers, closed, calls, overlap>>

\* Faulty variant: versions may be given twice.
NeverTaken(version) == FALSE

VersionTaken(version) == \E e \in Records : e.id.version = version

\* The event that notes a request against the record a delivery has.
Conflict(e, t) == Event([e.id EXCEPT !.kind = "CONFLICT"], [by |-> None, stamp |-> t])

\* register_delivery_lineage, up to its first append.  Deliveries have artifacts
\* of their own, so the delivery under revision alone has its parent's.  A record
\* that is there for the same delivery, parent and evidence is answered as if it
\* were this result's.
Register(p) ==
  LET d == job[p].delivery
      mine == entry[p]
      current == RecordsOf(d)
  IN  /\ pc[p] = "register"
      /\ \/ d \notin closed /\ Refuse(p, "NOT_CLOSED")
         \/ d \in closed /\ ~Readable(lineage) /\ Refuse(p, "UNREADABLE")
         \/ /\ d \in closed /\ Readable(lineage)
            /\ \/ (\E e, f \in current : e # f) /\ Raise(p)
               \/ /\ \A e, f \in current : e = f
                  /\ d = mine.id.parent
                  /\ Refuse(p, "SAME_ARTIFACT")
               \/ \E e \in current :
                    /\ current = {e} /\ d # mine.id.parent
                    /\ IF e.id = mine.id /\ e.body.by = mine.body.by THEN Proceed(p, "close")
                         ELSE /\ Goto(p, "conflict")
                              /\ entry' = [entry EXCEPT ![p] = Conflict(e, job[p].stamp)]
                              /\ UNCHANGED <<checked, job, code, answers>>
               \/ /\ current = {} /\ d # mine.id.parent
                  /\ IF VersionTaken(mine.id.version)
                       THEN Refuse(p, "VERSION_TAKEN") ELSE Proceed(p, "request")
      /\ UNCHANGED <<ledgers, closed, calls, overlap>>

-----------------------------------------------------------------------------
(* The appends of both commands.                                           *)

\* _complete_dispatch writes the result's render request, not the delivery.
Pending(p) ==
  LET r == job[p].result
      d == job[p].delivery
      t == job[p].stamp
  IN CASE pc[p] = "request" -> Event([entry[p].id EXCEPT !.kind = "REQUESTED"], [by |-> None, stamp |-> t])
       [] pc[p] \in {"registered", "conflict"} -> entry[p]
       [] pc[p] = "complete" -> DispatchEvent("COMPLETED", dispatchOf[r], r, t)
       [] pc[p] = "deny" -> DispatchEvent("REJECTED", job[p].dispatch, None, t)
       [] pc[p] = "repeat" -> DispatchEvent("DUPLICATE", job[p].dispatch, None, t)
       [] pc[p] = "order" -> DispatchEvent("CREATED", job[p].dispatch, t, t)
       [] pc[p] = "close" -> ResultEvent("COMPLETED", r, d, None, t)
       [] pc[p] = "accept" -> ResultEvent("ACCEPTED", r, d, None, t)
       [] pc[p] = "create" -> ResultEvent("CREATED", r, d, t, t)
       [] pc[p] = "supersede" -> ResultEvent("SUPERSEDED", r, d, t, t)
       [] pc[p] = "fail" -> ResultEvent("FAILED", r, None, None, t)
       [] pc[p] = "refuse" -> ResultEvent("REJECTED", r, None, code[p], t)

LogOf(step) ==
  CASE step \in ToLineage -> lineage
    [] step \in ToResults -> results
    [] OTHER -> dispatches

Written(p, e) ==
  /\ lineage' = IF pc[p] \in ToLineage THEN Append(lineage, e) ELSE lineage
  /\ results' = IF pc[p] \in ToResults THEN Append(results, e) ELSE results
  /\ dispatches' = IF pc[p] \in ToLineage \cup ToResults THEN dispatches ELSE Append(dispatches, e)

\* Faulty variant: the acceptance is forgotten.
FollowingNoAccept(step) ==
  CASE step = "request" -> "registered"
    [] step = "registered" -> "close"
    [] step = "close" -> "complete"
    [] step = "complete" -> "create"
    [] step = "create" -> "supersede"
    [] OTHER -> "refuse"

Following(step) ==
  CASE step = "request" -> "registered"
    [] step = "registered" -> "close"
    [] step = "close" -> "complete"
    [] step = "complete" -> "accept"
    [] step = "accept" -> "create"
    [] step = "create" -> "supersede"
    [] OTHER -> "refuse"  \* after the CONFLICT event of the lineage

\* What follows an append that returned.
Done(p) ==
  CASE pc[p] \in {"fail", "refuse"} \cup Ordering -> Raise(p)
    [] pc[p] = "supersede" -> Leave(p) /\ Answer(p, job[p].delivery)
    [] OTHER -> /\ Goto(p, Following(pc[p]))
                /\ checked' = [checked EXCEPT ![p] = FALSE]
                /\ code' = [code EXCEPT ![p] = IF pc[p] = "conflict" THEN "DELIVERY_TAKEN" ELSE @]
                /\ UNCHANGED <<job, entry, answers>>

\* Faulty variant: the append does not look for its event id.
CheckNothing(p) ==
  /\ pc[p] \in Appending /\ ~checked[p]
  /\ IF Readable(LogOf(pc[p])) /\ (pc[p] = "close" => Closers(job[p].result) = {})
       THEN checked' = [checked EXCEPT ![p] = TRUE] /\ UNCHANGED <<pc, local, answers>>
       ELSE Raise(p)
  /\ UNCHANGED <<ledgers, closed, calls, overlap>>

\* The read in append_*_event: it raises on a ledger it cannot read and on a
\* clash; an event that is there already is not written again.  _close_revision
\* looks first for a closure of the revision, takes one of the same result, for
\* whichever delivery, as its own, and raises if it is another's.
Check(p) ==
  LET e == Pending(p)
      log == LogOf(pc[p])
      closing == pc[p] = "close"
      r == job[p].result
  IN  /\ pc[p] \in Appending /\ ~checked[p]
      /\ \/ ~Readable(log) /\ Raise(p)
         \/ Readable(log) /\ closing /\ Closers(r) # {} /\ r \notin Closers(r) /\ Raise(p)
         \/ Readable(log) /\ closing /\ r \in Closers(r) /\ Done(p)
         \/ Readable(log) /\ ~closing /\ Clash(log, e) /\ Raise(p)
         \/ Readable(log) /\ ~closing /\ Known(log, e) /\ Done(p)
         \/ /\ Readable(log) /\ ~Recorded(log, e.id) /\ (closing => Closers(r) = {})
            /\ checked' = [checked EXCEPT ![p] = TRUE]
            /\ UNCHANGED <<pc, local, answers>>
      /\ UNCHANGED <<ledgers, closed, calls, overlap>>

\* The write in append_*_event: one line behind what is there by now.
Write(p) ==
  /\ checked[p]
  /\ Written(p, Pending(p))
  /\ Done(p)
  /\ UNCHANGED <<closed, calls, overlap>>

Crash(p) ==
  /\ pc[p] # "idle"
  /\ Leave(p)
  /\ UNCHANGED <<ledgers, closed, answers, calls, overlap>>

Step(p) == Ask(p) \/ Lookup(p) \/ Gate(p) \/ Register(p) \/ Check(p) \/ Write(p)

Next ==
  \/ \E p \in Proc : Step(p) \/ Crash(p)
  \/ \E p \in Proc, call \in Calls : Reconcile(p, call)
  \/ \E p \in Proc, d \in Dispatch, t \in Stamp : Request(p, d, t)
  \/ \E d \in Delivery : CloseDelivery(d)

Spec == Init /\ [][Next]_vars

-----------------------------------------------------------------------------
(* Properties.                                                             *)

\* A delivery is recorded as superseded only when everything before it is on
\* record for the same result: its closure, its acceptance and its revised delivery
\* for the same new delivery, the completed dispatch and the registered lineage of
\* the new delivery.  So a reader that finds the supersession finds a whole
\* reconciliation, whatever crashed, raised or raced.
SupersededIsWhole ==
  \A s \in Events(results) : s.id.kind = "SUPERSEDED" =>
    LET r == s.id.result
    IN  /\ Closed(r) /\ AcceptedAs(r, s.id.delivery) /\ Completed(r)
        /\ Recorded(results, [s.id EXCEPT !.kind = "CREATED"])
        /\ Delivered(r, s.id.delivery)

\* While no two commands overlap, a project version belongs to one delivery and a
\* delivery has one version, however many of them crashed or were refused.
VersionsUnique ==
  ~overlap => \A e, f \in Records :
    (e.id.version = f.id.version \/ e.id.delivery = f.id.delivery) => e = f

\* What a reconciliation leaves of a result it takes.
Taken == {e \in Events(results) :
            e.id.kind \in {"COMPLETED", "ACCEPTED", "CREATED", "SUPERSEDED"}}

\* While no two commands overlap, everything that was written of a revision beyond
\* refusals names one result and one new delivery, and what is registered as the
\* successor of its original is that delivery.  (Which result it is may still change
\* after a crash between the registration and the closure: the record does not
\* name it, and a contradicting result called for the same delivery with the same
\* evidence takes it over.)
OneResultPerRevision ==
  ~overlap => \A e \in Taken :
    /\ \A f \in Taken : RevisionOf(f.id.result) = RevisionOf(e.id.result) =>
         f.id.result = e.id.result /\ f.id.delivery = e.id.delivery
    /\ \A x \in Records :
         x.id.parent = OriginalOf(e.id.result) => x.id.delivery = e.id.delivery

\* Whoever is told ok for a result is told of an accepted one, and of a delivery
\* that a result was accepted and is registered as: its own for a reconciliation
\* that ran through, any for one that is answered from the ledger, none for one
\* that died before.
AnswersOnRecord ==
  \A ans \in answers :
    /\ Accepted(ans[1])
    /\ ans[2] # None => \E q \in Result : AcceptedAs(q, ans[2]) /\ Delivered(q, ans[2])

\* What stage 8E makes of the results' ledger for a revised delivery, which is a
\* result and a delivery.  It takes any supersession by the delivery, any acceptance
\* of the result and any closure of the revision.
Refused(r) == \E e \in Events(results) : e.id.kind \in {"REJECTED", "FAILED"} /\ e.id.result = r
Shows(kind, d) == {e \in Events(results) : e.id.kind = kind /\ e.id.delivery = d}
ShownTo8E(r, d) ==
  LET found == \E e \in Shows("CREATED", d) : e.id.result = r
  IN  IF ~(found /\ Shows("SUPERSEDED", d) # {}) THEN "incomplete"
        ELSE IF ~Accepted(r) \/ Closers(r) = {} THEN "torn"
        ELSE IF Refused(r) THEN "spoiled" ELSE "whole"

\* Stage 8E never finds a revised delivery and a supersession of the original by it
\* without the acceptance and the closure they rest on, whatever crashed, raised or
\* overlapped in 8D; and what it finds of it only moves the way Release lets it:
\* nothing it has found is taken back, and a refusal stays.
FeedsRelease ==
  /\ \A r \in Result, d \in Delivery : ShownTo8E(r, d) = Unreconciled
  /\ [][\A r \in Result, d \in Delivery :
         ShownTo8E(r, d)' # ShownTo8E(r, d) => ShownTo8E(r, d)' \in Later(ShownTo8E(r, d))]_results

\* While no two commands overlap, be they reconciliations or dispatch requests,
\* every ledger stays readable.
LedgersReadable ==
  ~overlap => Readable(lineage) /\ Readable(dispatches) /\ Readable(results)

-----------------------------------------------------------------------------
(* The inductive invariant behind them.                                    *)

\* A record is the version after one of its parent's records, and what is written
\* of a result past its registration finds the delivery registered, the result
\* closed and, once it is accepted, accepted.
Succeeds(e) == \E o \in RecordsOf(e.id.parent) : e.id.version = o.id.version + 1

Chained ==
  /\ \A e \in Records : e.id.parent # None => Succeeds(e)
  /\ \A e \in Taken :
       /\ e.id.delivery \in Delivery
       /\ Delivered(e.id.result, e.id.delivery) /\ Closed(e.id.result)
       /\ e.id.kind \in {"CREATED", "SUPERSEDED"} => AcceptedAs(e.id.result, e.id.delivery)

\* The record a process is about to register.
Planned(p) ==
  /\ entry[p] \in LineageEvents
  /\ entry[p].id.kind = "REGISTERED" /\ entry[p].id.delivery = job[p].delivery
  /\ entry[p].id.parent = OriginalOf(job[p].result) /\ Succeeds(entry[p])

\* What a process has behind it at each of its steps, overlap or not.
Along(p) ==
  LET r == job[p].result
      d == job[p].delivery
  IN  /\ pc[p] \in {"ask"} \cup Ordering => job[p] \in Requests
      /\ pc[p] \in (Reading \cup Appending) \ Ordering => job[p] \in Calls
      /\ checked[p] => pc[p] \in Appending
      /\ pc[p] \in {"register", "request", "registered"} => Planned(p)
      /\ pc[p] = "conflict" => entry[p] \in LineageEvents /\ entry[p].id.kind = "CONFLICT"
      /\ pc[p] \in {"close", "complete", "accept", "create", "supersede"} => Delivered(r, d)
      /\ pc[p] \in {"complete", "accept", "create", "supersede"} => Closed(r)
      /\ pc[p] \in {"accept", "create", "supersede"} => Completed(r)
      /\ pc[p] \in {"create", "supersede"} => AcceptedAs(r, d)
      /\ pc[p] = "supersede" => Recorded(results, [kind |-> "CREATED", result |-> r,
                                                   delivery |-> d, note |-> job[p].stamp])

\* What it knows besides that, while it is alone.
Solitary == \A p, q \in Proc : pc[p] # "idle" /\ pc[q] # "idle" => p = q
Fresh(p) ==
  /\ pc[p] \in {"request", "registered"} =>
       ~VersionTaken(entry[p].id.version) /\ RecordsOf(job[p].delivery) = {}
  /\ checked[p] => ~Recorded(LogOf(pc[p]), Pending(p).id)
  /\ checked[p] /\ pc[p] = "close" => Closers(job[p].result) = {}

\* One result closes a revision while commands do not overlap.
OneCloser ==
  ~overlap => \A q, r \in Result : RevisionOf(q) = RevisionOf(r) /\ Closed(q) /\ Closed(r) => q = r

IInv ==
  /\ TypeOK
  /\ SupersededIsWhole /\ VersionsUnique /\ LedgersReadable
  /\ Chained /\ OneCloser
  /\ \A p \in Proc : Along(p)
  /\ ~overlap => Solitary /\ \A p \in Proc : Fresh(p)
=============================================================================
