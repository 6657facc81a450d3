------------------------------- MODULE Release -------------------------------
(***************************************************************************)
(* The release of a revised delivery to the customer:                      *)
(* hvs_revised_delivery_release_service.py (stage 8E) over its event       *)
(* ledger.  One revision, with one reconciled result and one revised       *)
(* delivery; several acceptances and authorizations of it can be asked     *)
(* for.  As in Reconciliation, every command is a process of its own that  *)
(* reads, decides and then appends, and nothing is locked.                 *)
(*                                                                         *)
(* Of the stages before, only what 8E reads is kept: whether the 8D ledger *)
(* holds the whole reconciliation, whether it also holds a refusal of the  *)
(* same result, and whether the 8B revision is approved.                   *)
(***************************************************************************)
EXTENDS EventLedger, ReconciledResult

CONSTANTS
  Proc,          \* release commands that can be alive at once
  Acceptance,    \* acceptances that can be recorded: reviewer, formats, verdict
  verdictOf,     \* the verdict of each
  Authorization, \* authorizations that can be given: scope, channels, customer
  acceptanceOf,  \* the acceptance each refers to
  Stamp,         \* times of recording, in order
  None,
  MaxCalls

Verdicts == {"ACCEPTED", "PARTIALLY_ACCEPTED", "REJECTED"}

ASSUME ReleaseAssumption ==
  /\ verdictOf \in [Acceptance -> Verdicts]
  /\ acceptanceOf \in [Authorization -> Acceptance]
  /\ Stamp \subseteq Nat
  /\ None \notin Acceptance \cup Authorization \cup Stamp
  /\ MaxCalls \in Nat

VARIABLES
  ledger,   \* hvs_revised_delivery_release.jsonl
  stage8D,  \* what the 8D ledger holds: the whole reconciliation, or that and a refusal
            \* or failure of the same result as well
  approved, \* the revision's last 8B status is one that may be released
  pc,       \* next step of each command
  job,      \* what it works on: acceptance, authorization (or None), stamp
  pend,     \* the id of the event it is about to append
  calls,    \* commands started
  overlap   \* history: two commands have been alive at once

upstream == <<stage8D, approved>>
vars == <<ledger, upstream, pc, job, pend, calls, overlap>>

Kinds == Verdicts \cup {"AUTHORIZED", "REVOKED", "NOT_READY", "CLOSED", "CONFLICTING"}
Reasons == {"ACCEPTANCE_NOT_FOUND", "ACCEPTANCE_NOT_FULLY_ACCEPTED", "AUTHORIZATION_NOT_FOUND",
            "AUTHORIZATION_MISSING", "CONFLICTING_AUTHORIZATION", "AUTHORIZATION_REVOKED",
            "AUTHORIZATION_ACCEPTANCE_MISMATCH", "REVISED_DELIVERY_NOT_FOUND",
            "RECONCILIATION_NOT_SUCCESSFUL", "REVISION_NOT_RELEASE_ELIGIBLE"}

MaybeAcceptance == Acceptance \cup {None}
MaybeAuthorization == Authorization \cup {None}

\* An event id: the type, the acceptance and authorization it is about, and what
\* else is in the hashed record: recorded_at for acceptances, authorizations and
\* closures, the reasons of a readiness refusal, the other side of a conflict.
Sides == MaybeAcceptance \X MaybeAuthorization
Ids == [kind : Kinds, acceptance : MaybeAcceptance, authorization : MaybeAuthorization,
        time : Stamp \cup {None}, why : SUBSET Reasons, against : Sides]

Timed(kind, a, u, t) ==
  [kind |-> kind, acceptance |-> a, authorization |-> u, time |-> t, why |-> {}, against |-> <<None, None>>]
Untimed(kind, a, u, why, against) ==
  [kind |-> kind, acceptance |-> a, authorization |-> u, time |-> None, why |-> why, against |-> against]
Conflict(a, u, against) == Untimed("CONFLICTING", a, u, {}, against)

Lines == [id : Ids, body : Stamp]
Jobs == [acceptance : MaybeAcceptance, authorization : MaybeAuthorization, stamp : Stamp \cup {None}]

TypeOK ==
  /\ ledger \in Seq(Lines)
  /\ stage8D \in Stages8D /\ approved \in BOOLEAN
  /\ pc \in [Proc -> {"idle", "accept", "authorize", "revoke", "evaluate", "settle", "check", "write"}]
  /\ job \in [Proc -> Jobs]
  /\ pend \in [Proc -> Ids \cup {None}]
  /\ calls \in 0..MaxCalls
  /\ overlap \in BOOLEAN

NoJob == [acceptance |-> None, authorization |-> None, stamp |-> None]

\* No command alive yet, on a ledger and a stage 8D as they are found.
InitWith(found, stage) ==
  /\ ledger = found
  /\ stage8D = stage /\ approved = TRUE
  /\ pc = [p \in Proc |-> "idle"]
  /\ job = [p \in Proc |-> NoJob]
  /\ pend = [p \in Proc |-> None]
  /\ calls = 0
  /\ overlap = FALSE

Init == InitWith(<<>>, Unreconciled)

-----------------------------------------------------------------------------
(* What the ledger says.                                                   *)

Has(kind, a, u) ==
  \E e \in Events(ledger) : e.id.kind = kind /\ e.id.acceptance = a /\ e.id.authorization = u

\* _load_acceptance_by_id, _authorizations_by_id, _effective_authorization_status.
Reviewed(a) == \E v \in Verdicts : Has(v, a, None)
Given(u) == Has("AUTHORIZED", acceptanceOf[u], u)
Revoked(u) == Has("REVOKED", None, u)
Active(u) == Given(u) /\ ~Revoked(u)
ActiveFor(a) == {u \in Authorization : acceptanceOf[u] = a /\ Active(u)}
Closures == {e \in Events(ledger) : e.id.kind = "CLOSED"}

\* _acceptances_by_revision keeps the acceptance recorded last, by its created_at.
Reviews == {i \in DOMAIN ledger : ledger[i].id.kind \in Verdicts}
Latest(b) ==
  \E i \in Reviews :
    /\ ledger[i].id.acceptance = b
    /\ \A j \in Reviews : IF j > i THEN ledger[j].id.time < ledger[i].id.time
                                   ELSE ledger[j].id.time <= ledger[i].id.time

-----------------------------------------------------------------------------
(* The stages before.                                                      *)

\* Stage 8D completes the reconciliation; it may refuse the same result before that
\* or after.
Reconcile8D ==
  /\ stage8D' \in Later(stage8D)
  /\ UNCHANGED <<ledger, approved, pc, job, pend, calls, overlap>>

\* Stage 8B records another decision on the revision.
Decide8B ==
  /\ approved' = ~approved
  /\ UNCHANGED <<ledger, stage8D, pc, job, pend, calls, overlap>>

-----------------------------------------------------------------------------
(* The commands.                                                           *)

Goto(p, step) == pc' = [pc EXCEPT ![p] = step]

Leave(p) ==
  /\ Goto(p, "idle")
  /\ job' = [job EXCEPT ![p] = NoJob]
  /\ pend' = [pend EXCEPT ![p] = None]

\* The event is built; append_release_event comes next.
Append8E(p, id) ==
  /\ Goto(p, "check")
  /\ pend' = [pend EXCEPT ![p] = id]
  /\ UNCHANGED job

Start(p, op, a, u, t) ==
  /\ pc[p] = "idle" /\ calls < MaxCalls
  /\ calls' = calls + 1
  /\ Goto(p, op)
  /\ job' = [job EXCEPT ![p] = [acceptance |-> a, authorization |-> u, stamp |-> t]]
  /\ overlap' = (overlap \/ \E q \in Proc : pc[q] # "idle")
  /\ UNCHANGED <<ledger, upstream, pend>>

Command(p) ==
  \E t \in Stamp :
    \/ \E a \in Acceptance : Start(p, "accept", a, None, t)
    \/ \E u \in Authorization : Start(p, "authorize", acceptanceOf[u], u, t)
    \/ \E u \in Authorization : Start(p, "revoke", None, u, t)
    \/ \E a \in Acceptance, u \in MaybeAuthorization : Start(p, "evaluate", a, u, t)

\* A ledger that cannot be read makes every command raise.
Unreadable(p) ==
  /\ pc[p] \notin {"idle", "write"} /\ ~Readable(ledger)
  /\ Leave(p)
  /\ UNCHANGED <<ledger, upstream, calls, overlap>>

\* Faulty variant: the reconciliation of the delivery is not looked for.
AcceptUnreconciled(p) ==
  LET a == job[p].acceptance
  IN  /\ pc[p] = "accept" /\ Readable(ledger)
      /\ IF approved /\ ~(\E b \in Acceptance : Reviewed(b))
           THEN Append8E(p, Timed(verdictOf[a], a, None, job[p].stamp)) ELSE Leave(p)
      /\ UNCHANGED <<ledger, upstream, calls, overlap>>

\* record_revised_delivery_acceptance: denied unless stage 8D is complete and the
\* revision approved; the same acceptance again is answered from the ledger, any
\* other one conflicts with the one the revision has.
Accept(p) ==
  LET a == job[p].acceptance
      t == job[p].stamp
  IN  /\ pc[p] = "accept" /\ Readable(ledger)
      /\ \/ ~(stage8D = "whole" /\ approved) /\ Leave(p)
         \/ /\ stage8D = "whole" /\ approved
            /\ \/ ~(\E b \in Acceptance : Reviewed(b)) /\ Append8E(p, Timed(verdictOf[a], a, None, t))
               \/ \E b \in Acceptance :
                    /\ Reviewed(b) /\ Latest(b)
                    /\ IF b = a THEN Leave(p) ELSE Append8E(p, Conflict(a, None, <<b, None>>))
      /\ UNCHANGED <<ledger, upstream, calls, overlap>>

\* Faulty variant: the other active authorizations are not looked for.
AuthorizeAgain(p) ==
  LET u == job[p].authorization
      a == acceptanceOf[u]
  IN  /\ pc[p] = "authorize" /\ Readable(ledger)
      /\ IF Has("ACCEPTED", a, None) /\ ~Given(u)
           THEN Append8E(p, Timed("AUTHORIZED", a, u, job[p].stamp)) ELSE Leave(p)
      /\ UNCHANGED <<ledger, upstream, calls, overlap>>

\* create_customer_release_authorization: only for a full acceptance.  The same
\* one again is answered while it is active and denied once it is revoked; while
\* another one of the acceptance is active it conflicts.
Authorize(p) ==
  LET u == job[p].authorization
      a == acceptanceOf[u]
  IN  /\ pc[p] = "authorize" /\ Readable(ledger)
      /\ \/ (~Has("ACCEPTED", a, None) \/ Given(u)) /\ Leave(p)
         \/ /\ Has("ACCEPTED", a, None) /\ ~Given(u)
            /\ IF ActiveFor(a) # {} THEN Append8E(p, Conflict(None, u, <<a, None>>))
                 ELSE Append8E(p, Timed("AUTHORIZED", a, u, job[p].stamp))
      /\ UNCHANGED <<ledger, upstream, calls, overlap>>

\* revoke_customer_release_authorization, always for the default reason.
Revoke(p) ==
  LET u == job[p].authorization
  IN  /\ pc[p] = "revoke" /\ Readable(ledger)
      /\ IF Active(u) THEN Append8E(p, Untimed("REVOKED", None, u, {}, <<None, None>>)) ELSE Leave(p)
      /\ UNCHANGED <<ledger, upstream, calls, overlap>>

\* The authorization evaluate_release_readiness looks at: the one it is given if
\* it is known, or without one the only active one of the acceptance.
Considered(a, u) ==
  IF u # None THEN {v \in {u} : Given(v)}
    ELSE {v \in ActiveFor(a) : Reviewed(a) /\ ActiveFor(a) = {v}}

\* Faulty variant: the status of the authorization is not looked at.
NotReadyUnlessGiven(a, u) ==
  {c \in Reasons :
    \/ c = "ACCEPTANCE_NOT_FOUND" /\ ~Reviewed(a)
    \/ c = "AUTHORIZATION_NOT_FOUND" /\ u # None /\ ~Given(u)
    \/ c = "AUTHORIZATION_MISSING" /\ u = None /\ ~(Reviewed(a) /\ ActiveFor(a) # {})
    \/ c = "CONFLICTING_AUTHORIZATION"
         /\ u = None /\ Reviewed(a) /\ \E v, w \in ActiveFor(a) : v # w
    \/ c = "REVISION_NOT_RELEASE_ELIGIBLE" /\ Reviewed(a) /\ stage8D # "incomplete" /\ ~approved}

\* Why a release is not ready.  expiry_at is not among the reasons.
NotReady(a, u) ==
  {c \in Reasons :
    \/ c = "ACCEPTANCE_NOT_FOUND" /\ ~Reviewed(a)
    \/ c = "ACCEPTANCE_NOT_FULLY_ACCEPTED" /\ Reviewed(a) /\ ~Has("ACCEPTED", a, None)
    \/ c = "AUTHORIZATION_NOT_FOUND" /\ u # None /\ ~Given(u)
    \/ c = "AUTHORIZATION_MISSING" /\ u = None /\ ~(Reviewed(a) /\ ActiveFor(a) # {})
    \/ c = "CONFLICTING_AUTHORIZATION"
         /\ u = None /\ Reviewed(a) /\ \E v, w \in ActiveFor(a) : v # w
    \/ c = "AUTHORIZATION_REVOKED" /\ \E v \in Considered(a, u) : Revoked(v)
    \/ c = "AUTHORIZATION_ACCEPTANCE_MISMATCH"
         /\ \E v \in Considered(a, u) : ~Revoked(v) /\ ~(Reviewed(a) /\ acceptanceOf[v] = a)
    \/ c = "REVISED_DELIVERY_NOT_FOUND" /\ Reviewed(a) /\ stage8D = "incomplete"
    \/ c = "RECONCILIATION_NOT_SUCCESSFUL" /\ Reviewed(a) /\ stage8D = "spoiled"
    \/ c = "REVISION_NOT_RELEASE_ELIGIBLE" /\ Reviewed(a) /\ stage8D # "incomplete" /\ ~approved}

\* Faulty variant: keeps the list of authorizations, not the first of it.
EvaluateAll(p) ==
  LET a == job[p].acceptance
      u == job[p].authorization
  IN  /\ pc[p] = "evaluate" /\ Readable(ledger) /\ NotReady(a, u) = {}
      /\ Goto(p, "settle")
      /\ job' = [job EXCEPT ![p].authorization = Considered(a, u)]
      /\ UNCHANGED <<ledger, upstream, pend, calls, overlap>>

\* close_final_revision, first half: evaluate_release_readiness, whose refusal is
\* recorded.  Its reads of the ledgers are taken as one.
Evaluate(p) ==
  LET a == job[p].acceptance
      u == job[p].authorization
      found == Considered(a, u)
  IN  /\ pc[p] = "evaluate" /\ Readable(ledger)
      /\ \/ /\ NotReady(a, u) # {}
            /\ Append8E(p, Untimed("NOT_READY", a, None, NotReady(a, u), <<None, None>>))
         \/ /\ NotReady(a, u) = {}
            /\ Goto(p, "settle")
            /\ job' = [job EXCEPT ![p].authorization = CHOOSE v \in found : TRUE]
            /\ UNCHANGED pend
      /\ UNCHANGED <<ledger, upstream, calls, overlap>>

\* close_final_revision, second half: the same closure again is answered, another
\* one of the revision conflicts.  The id of the conflict names the first of them.
Settle(p) ==
  LET a == job[p].acceptance
      u == job[p].authorization
  IN  /\ pc[p] = "settle" /\ Readable(ledger)
      /\ \/ Has("CLOSED", a, u) /\ Leave(p)
         \/ Closures = {} /\ Append8E(p, Timed("CLOSED", a, u, job[p].stamp))
         \/ /\ ~Has("CLOSED", a, u)
            /\ \E i \in DOMAIN ledger :
                 /\ ledger[i].id.kind = "CLOSED" /\ \A j \in 1 .. i - 1 : ledger[j].id.kind # "CLOSED"
                 /\ Append8E(p, Conflict(a, u, <<ledger[i].id.acceptance, ledger[i].id.authorization>>))
      /\ UNCHANGED <<ledger, upstream, calls, overlap>>

-----------------------------------------------------------------------------
(* append_release_event.                                                   *)

\* Faulty variant: the append does not look for its event id.
CheckNothing(p) ==
  /\ pc[p] = "check" /\ Readable(ledger)
  /\ Goto(p, "write") /\ UNCHANGED <<job, pend>>
  /\ UNCHANGED <<ledger, upstream, calls, overlap>>

\* An event that is there already is not written again; one whose id is there
\* with another body makes the command raise.  Either way it is over.
Check(p) ==
  /\ pc[p] = "check" /\ Readable(ledger)
  /\ IF Recorded(ledger, pend[p]) THEN Leave(p)
       ELSE Goto(p, "write") /\ UNCHANGED <<job, pend>>
  /\ UNCHANGED <<ledger, upstream, calls, overlap>>

\* One line behind what is there by now.
Write(p) ==
  /\ pc[p] = "write"
  /\ ledger' = Append(ledger, Event(pend[p], job[p].stamp))
  /\ Leave(p)
  /\ UNCHANGED <<upstream, calls, overlap>>

Crash(p) ==
  /\ pc[p] # "idle"
  /\ Leave(p)
  /\ UNCHANGED <<ledger, upstream, calls, overlap>>

Step(p) ==
  \/ Accept(p) \/ Authorize(p) \/ Revoke(p) \/ Evaluate(p) \/ Settle(p)
  \/ Unreadable(p) \/ Check(p) \/ Write(p) \/ Crash(p)

Next ==
  \/ \E p \in Proc : Command(p) \/ Step(p)
  \/ Reconcile8D \/ Decide8B

Spec == Init /\ [][Next]_vars

-----------------------------------------------------------------------------
(* Properties.                                                             *)

At(i, kind, a, u) ==
  ledger[i].id.kind = kind /\ ledger[i].id.acceptance = a /\ ledger[i].id.authorization = u

\* A revision is finally closed only after its delivery was accepted in full and,
\* later, released under an authorization of that very acceptance; and, while no
\* two commands overlap, never after that authorization was revoked.
ClosedOnRelease ==
  \A i \in DOMAIN ledger, a \in Acceptance, u \in Authorization : At(i, "CLOSED", a, u) =>
    /\ \E k \in 1 .. i - 1 : At(k, "AUTHORIZED", a, u) /\ \E j \in 1 .. k - 1 : At(j, "ACCEPTED", a, None)
    /\ ~overlap => \A k \in 1 .. i - 1 : ~At(k, "REVOKED", None, u)

\* While no two commands overlap, the revision has one verdict and one closure, and
\* no acceptance has two active authorizations.
OneRelease ==
  ~overlap =>
    /\ \A a, b \in Acceptance : Reviewed(a) /\ Reviewed(b) => a = b
    /\ \A a \in Acceptance : \A u, v \in ActiveFor(a) : u = v
    /\ \A e, f \in Closures : e = f

\* While no two commands overlap, the ledger stays readable: refusals and conflicts
\* that are recorded a second time do not break it.
LedgerReadable == ~overlap => Readable(ledger)

\* Nothing is decided on a delivery that stage 8D has not reconciled: a verdict, an
\* authorization or a closure is only ever on record after the whole reconciliation
\* was, whatever races or crashes in either stage.
DecidedIsReconciled ==
  \A e \in Events(ledger) :
    e.id.kind \in Verdicts \cup {"AUTHORIZED", "CLOSED"} => stage8D # Unreconciled

\* What the ledger comes to, as decisions.
Decision ==
  INSTANCE ReleaseDecision WITH
    Full <- {a \in Acceptance : verdictOf[a] = "ACCEPTED"},
    verdicts <- {a \in Acceptance : Reviewed(a)},
    live <- {u \in Authorization : Active(u)},
    revoked <- {u \in Authorization : Revoked(u)},
    closures <- {s \in Acceptance \X Authorization : Has("CLOSED", s[1], s[2])},
    raced <- overlap

\* While no two commands overlap, every line that is appended, long after the command
\* looked and with crashes, repeats and upstream changes in between, is a decision
\* that was still due when it was written: nothing is authorized, revoked or closed
\* on what has ceased to hold.
FollowsDecision == [][Decision!Next]_(Decision!release)

-----------------------------------------------------------------------------
(* The inductive invariant behind them.                                    *)

\* What a command has found by the time it has something to append.
Along(p) ==
  LET a == job[p].acceptance
      u == job[p].authorization
      id == pend[p]
  IN  /\ pc[p] # "idle" => job[p].stamp \in Stamp
      /\ pc[p] \in {"accept", "evaluate", "settle"} => a \in Acceptance
      /\ pc[p] \in {"authorize", "revoke", "settle"} => u \in Authorization
      /\ pc[p] = "settle" => Has("AUTHORIZED", a, u)
      /\ pc[p] \in {"check", "write"} =>
           /\ id \in Ids
           /\ id.kind = "AUTHORIZED" => Has("ACCEPTED", id.acceptance, None)
           /\ id.kind = "CLOSED" => Has("AUTHORIZED", id.acceptance, id.authorization)

\* An authorization on record has its acceptance before it.
AuthorizedAccepted ==
  \A k \in DOMAIN ledger : ledger[k].id.kind = "AUTHORIZED" =>
    \E j \in 1 .. k - 1 : At(j, "ACCEPTED", ledger[k].id.acceptance, None)

\* What a command knows besides that, while it is alone.
Solitary == \A p, q \in Proc : pc[p] # "idle" /\ pc[q] # "idle" => p = q
Fresh(p) ==
  LET id == pend[p]
  IN  /\ pc[p] = "settle" => ~Revoked(job[p].authorization)
      /\ pc[p] \in {"check", "write"} =>
           /\ id.kind \in Verdicts => \A b \in Acceptance : ~Reviewed(b)
           /\ id.kind = "AUTHORIZED" =>
                id.acceptance = acceptanceOf[id.authorization] /\ ActiveFor(id.acceptance) = {}
           /\ id.kind = "CLOSED" => Closures = {} /\ ~Revoked(id.authorization)
      /\ pc[p] = "write" => ~Recorded(ledger, id)

IInv ==
  /\ TypeOK
  /\ ClosedOnRelease /\ OneRelease /\ LedgerReadable
  /\ AuthorizedAccepted
  /\ \A p \in Proc : Along(p)
  /\ ~overlap => Solitary /\ \A p \in Proc : Fresh(p)

\* What DecidedIsReconciled needs besides IInv.
PendingIsReconciled ==
  \A p \in Proc :
    pc[p] \in {"check", "write"} /\ pend[p].kind \in Verdicts \cup {"AUTHORIZED", "CLOSED"} =>
      stage8D # Unreconciled

\* What an event says of what it names, on record or still to be appended.
Sound(id) ==
  /\ id.kind \in Verdicts =>
       /\ id.acceptance \in Acceptance /\ id.authorization = None
       /\ id.kind = verdictOf[id.acceptance]
  /\ id.kind \in {"AUTHORIZED", "CLOSED"} =>
       id.authorization \in Authorization /\ id.acceptance = acceptanceOf[id.authorization]
  /\ id.kind = "REVOKED" =>
       id.acceptance = None /\ id.authorization \in Authorization /\ Given(id.authorization)

\* What the decisions need besides IInv.
Due ==
  /\ \A e \in Events(ledger) : Sound(e.id)
  /\ \A p \in Proc :
       /\ pc[p] = "settle" => job[p].acceptance = acceptanceOf[job[p].authorization]
       /\ pc[p] \in {"check", "write"} =>
            /\ Sound(pend[p])
            /\ ~overlap /\ pend[p].kind = "AUTHORIZED" => ~Given(pend[p].authorization)
            /\ ~overlap /\ pend[p].kind = "REVOKED" => ~Revoked(pend[p].authorization)
=============================================================================
