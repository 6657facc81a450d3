----------------------------- MODULE Release_proofs -----------------------------
(***************************************************************************)
(* Proofs about Release: its inductive invariant, and from it every        *)
(* property that MCRelease.cfg checks.                                     *)
(***************************************************************************)
EXTENDS Release, EventLedger_proofs

USE ReleaseAssumption

(* Types of what is built.                                                 *)

\* Every event id the commands build is one.
LEMMA IdTypes ==
  ASSUME NEW kind \in Kinds, NEW a \in MaybeAcceptance, NEW u \in MaybeAuthorization
  PROVE  /\ \A t \in Stamp : Timed(kind, a, u, t) \in Ids
         /\ \A why \in SUBSET Reasons, against \in Sides : Untimed(kind, a, u, why, against) \in Ids
         /\ \A against \in Sides : Conflict(a, u, against) \in Ids
         /\ <<None, None>> \in Sides
<1>1. <<None, None>> \in Sides
  BY DEF Sides, MaybeAcceptance, MaybeAuthorization
<1>2. ASSUME NEW t \in Stamp PROVE Timed(kind, a, u, t) \in Ids
  BY <1>1 DEF Timed, Ids
<1>3. ASSUME NEW k \in Kinds, NEW why \in SUBSET Reasons, NEW against \in Sides
      PROVE  Untimed(k, a, u, why, against) \in Ids
  BY DEF Untimed, Ids
<1>4. "CONFLICTING" \in Kinds /\ {} \in SUBSET Reasons
  BY DEF Kinds
<1> QED BY <1>1, <1>2, <1>3, <1>4 DEF Conflict

\* A release found ready has one authorization to go by: given for this very
\* acceptance, and not revoked.
LEMMA ReadyMeans ==
  ASSUME NEW a \in Acceptance, NEW u \in MaybeAuthorization, NotReady(a, u) = {}
  PROVE  \E v \in Authorization :
           Considered(a, u) = {v} /\ Has("AUTHORIZED", a, v) /\ ~Revoked(v)
<1>1. CASE u # None
  <2>1. u \in Authorization
    BY <1>1 DEF MaybeAuthorization
  <2>2. Given(u)
    BY <1>1 DEF NotReady, Reasons
  <2>3. Considered(a, u) = {u}
    BY <1>1, <2>2 DEF Considered
  <2>4. ~Revoked(u)
    BY <2>3 DEF NotReady, Reasons
  <2>5. acceptanceOf[u] = a
    BY <2>3, <2>4 DEF NotReady, Reasons
  <2> QED BY <2>1, <2>2, <2>3, <2>4, <2>5 DEF Given
<1>2. CASE u = None
  <2>1. Reviewed(a) /\ ActiveFor(a) # {}
    BY <1>2 DEF NotReady, Reasons
  <2>2. ~ \E v, w \in ActiveFor(a) : v # w
    BY <1>2, <2>1 DEF NotReady, Reasons
  <2>3. PICK v \in ActiveFor(a) : ActiveFor(a) = {v}
    BY <2>1, <2>2
  <2>4. Considered(a, u) = {v}
    BY <1>2, <2>1, <2>3 DEF Considered
  <2>5. v \in Authorization /\ acceptanceOf[v] = a /\ Given(v) /\ ~Revoked(v)
    BY <2>3 DEF ActiveFor, Active
  <2> QED BY <2>4, <2>5 DEF Given
<1> QED BY <1>1, <1>2

-----------------------------------------------------------------------------
(* Steps that write nothing.                                               *)

\* While the ledger stays, so does what it says.
LEMMA GlobalStays ==
  ASSUME ClosedOnRelease, OneRelease, LedgerReadable, AuthorizedAccepted,
         ledger' = ledger, overlap => overlap'
  PROVE  ClosedOnRelease' /\ OneRelease' /\ LedgerReadable' /\ AuthorizedAccepted'
<1>1. ClosedOnRelease'
  BY DEF ClosedOnRelease, At
<1>2. OneRelease'
  BY DEF OneRelease, Reviewed, ActiveFor, Active, Given, Revoked, Has, Closures
<1>3. LedgerReadable' /\ AuthorizedAccepted'
  BY DEF LedgerReadable, AuthorizedAccepted, At
<1> QED BY <1>1, <1>2, <1>3

\* A command that does not move knows what it knew.
LEMMA OthersStay ==
  ASSUME NEW q \in Proc, Along(q), ledger' = ledger,
         pc'[q] = pc[q], job'[q] = job[q], pend'[q] = pend[q]
  PROVE  Along(q)'
BY DEF Along, Has

\* A command alive alone stays alone when it moves; the others have nothing to know.
LEMMA Lonely ==
  ASSUME NEW p \in Proc, Solitary, pc[p] # "idle", \A q \in Proc \ {p} : pc'[q] = pc[q]
  PROVE  Solitary' /\ \A q \in Proc \ {p} : Fresh(q)'
<1>1. \A q \in Proc \ {p} : pc'[q] = "idle"
  BY DEF Solitary
<1> QED BY <1>1 DEF Solitary, Fresh

\* One command moves without writing: what it knows afterwards is all there is to show.
LEMMA MovePreserves ==
  ASSUME IInv, TypeOK', NEW p \in Proc, pc[p] # "idle",
         UNCHANGED <<ledger, overlap>>,
         \A q \in Proc \ {p} : pc'[q] = pc[q] /\ job'[q] = job[q] /\ pend'[q] = pend[q],
         Along(p)', ~overlap => Fresh(p)'
  PROVE  IInv'
<1>1. ClosedOnRelease' /\ OneRelease' /\ LedgerReadable' /\ AuthorizedAccepted'
  BY GlobalStays DEF IInv
<1>2. \A q \in Proc : Along(q)'
  BY OthersStay DEF IInv
<1>3. ~overlap' => Solitary' /\ \A q \in Proc : Fresh(q)'
  BY Lonely DEF IInv
<1> QED BY <1>1, <1>2, <1>3 DEF IInv

\* A command that ends.
LEMMA LeavePreserves ==
  ASSUME IInv, NEW p \in Proc, pc[p] # "idle", Leave(p), UNCHANGED <<ledger, upstream, calls, overlap>>
  PROVE  IInv'
<1>1. TypeOK
  BY DEF IInv
<1>2. NoJob \in Jobs
  BY DEF NoJob, Jobs, MaybeAcceptance, MaybeAuthorization
<1>3. TypeOK'
  BY <1>1, <1>2 DEF TypeOK, Leave, Goto, upstream
<1>4. pc'[p] = "idle"
  BY <1>1 DEF TypeOK, Leave, Goto
<1>5. Along(p)' /\ Fresh(p)'
  BY <1>4 DEF Along, Fresh
<1>6. \A q \in Proc \ {p} : pc'[q] = pc[q] /\ job'[q] = job[q] /\ pend'[q] = pend[q]
  BY <1>1 DEF TypeOK, Leave, Goto
<1> QED BY <1>3, <1>5, <1>6, MovePreserves

\* A command that has built its event, if the event follows from what is there.
LEMMA AppendPreserves ==
  ASSUME IInv, NEW p \in Proc, pc[p] # "idle", NEW id \in Ids, Append8E(p, id),
         UNCHANGED <<ledger, upstream, calls, overlap>>,
         id.kind = "AUTHORIZED" => Has("ACCEPTED", id.acceptance, None),
         id.kind = "CLOSED" => Has("AUTHORIZED", id.acceptance, id.authorization),
         ~overlap =>
           /\ id.kind \in Verdicts => \A b \in Acceptance : ~Reviewed(b)
           /\ id.kind = "AUTHORIZED" =>
                id.acceptance = acceptanceOf[id.authorization] /\ ActiveFor(id.acceptance) = {}
           /\ id.kind = "CLOSED" => Closures = {} /\ ~Revoked(id.authorization)
  PROVE  IInv'
<1>1. TypeOK /\ Along(p)
  BY DEF IInv
<1>2. pc' = [pc EXCEPT ![p] = "check"] /\ pend' = [pend EXCEPT ![p] = id] /\ job' = job
  BY DEF Append8E, Goto
<1>3. TypeOK'
  BY <1>1, <1>2 DEF TypeOK, upstream
<1>4. pc'[p] = "check" /\ pend'[p] = id
  BY <1>1, <1>2 DEF TypeOK
<1>5. Along(p)'
  BY <1>1, <1>2, <1>4 DEF Along, Has
<1>6. ~overlap => Fresh(p)'
  BY <1>4 DEF Fresh, Reviewed, ActiveFor, Active, Given, Revoked, Has, Closures
<1>7. \A q \in Proc \ {p} : pc'[q] = pc[q] /\ job'[q] = job[q] /\ pend'[q] = pend[q]
  BY <1>1, <1>2 DEF TypeOK
<1> QED BY <1>3, <1>5, <1>6, <1>7, MovePreserves

-----------------------------------------------------------------------------
(* The commands, one by one.                                               *)

\* A new command has nothing behind it yet; if another is alive, they overlap.
LEMMA StartPreserves ==
  ASSUME IInv, NEW p \in Proc, Command(p)
  PROVE  IInv'
<1>1. TypeOK
  BY DEF IInv
<1>2. PICK t \in Stamp, op \in {"accept", "authorize", "revoke", "evaluate"},
           a \in MaybeAcceptance, u \in MaybeAuthorization :
        /\ Start(p, op, a, u, t)
        /\ op \in {"accept", "evaluate"} => a \in Acceptance
        /\ op \in {"authorize", "revoke"} => u \in Authorization
  BY DEF Command, MaybeAcceptance, MaybeAuthorization
<1> DEFINE j == [acceptance |-> a, authorization |-> u, stamp |-> t]
<1>3. /\ pc[p] = "idle" /\ calls < MaxCalls /\ calls' = calls + 1
      /\ pc' = [pc EXCEPT ![p] = op] /\ job' = [job EXCEPT ![p] = j] /\ pend' = pend
      /\ ledger' = ledger /\ stage8D' = stage8D /\ approved' = approved
      /\ overlap' = (overlap \/ \E q \in Proc : pc[q] # "idle")
  BY <1>2 DEF Start, Goto, upstream
<1>4. j \in Jobs
  BY DEF Jobs
<1>5. calls' \in 0 .. MaxCalls
  BY <1>1, <1>3 DEF TypeOK
<1>6. overlap' \in BOOLEAN
  BY <1>1, <1>3 DEF TypeOK
<1>7. TypeOK'
  BY <1>1, <1>3, <1>4, <1>5, <1>6 DEF TypeOK
<1>8. pc'[p] = op /\ job'[p] = j
  BY <1>1, <1>3 DEF TypeOK
<1>9. Along(p)' /\ Fresh(p)'
  BY <1>2, <1>8 DEF Along, Fresh
<1>10. \A q \in Proc \ {p} : pc'[q] = pc[q] /\ job'[q] = job[q] /\ pend'[q] = pend[q]
  BY <1>1, <1>3 DEF TypeOK
<1>11. \A q \in Proc : Along(q)'
  BY <1>3, <1>9, <1>10, OthersStay DEF IInv
<1>12. ASSUME ~overlap' PROVE Solitary' /\ \A q \in Proc : Fresh(q)'
  <2>1. \A q \in Proc \ {p} : pc'[q] = "idle"
    BY <1>3, <1>10, <1>12
  <2> QED BY <1>9, <2>1 DEF Solitary, Fresh
<1>13. overlap => overlap'
  BY <1>3
<1>14. ClosedOnRelease' /\ OneRelease' /\ LedgerReadable' /\ AuthorizedAccepted'
  BY <1>3, <1>13, GlobalStays DEF IInv
<1> QED BY <1>7, <1>11, <1>12, <1>14 DEF IInv

\* The first acceptance of the revision, or a conflict with the one it has.
LEMMA AcceptPreserves ==
  ASSUME IInv, NEW p \in Proc, Accept(p)
  PROVE  IInv'
<1> DEFINE a == job[p].acceptance
           t == job[p].stamp
<1>1. /\ pc[p] = "accept" /\ UNCHANGED <<ledger, upstream, calls, overlap>>
      /\ a \in Acceptance /\ t \in Stamp
  BY DEF Accept, IInv, Along
<1>2. verdictOf[a] \in Verdicts /\ Verdicts \subseteq Kinds /\ "CONFLICTING" \in Kinds
  BY <1>1 DEF Kinds
<1>3. verdictOf[a] \notin {"AUTHORIZED", "CLOSED"} /\ "CONFLICTING" \notin Verdicts
  BY <1>2 DEF Verdicts
<1>4. a \in MaybeAcceptance /\ None \in MaybeAuthorization
  BY <1>1 DEF MaybeAcceptance, MaybeAuthorization
<1>5. CASE Leave(p)
  BY <1>1, <1>5, LeavePreserves
<1>6. CASE /\ ~(\E b \in Acceptance : Reviewed(b))
           /\ Append8E(p, Timed(verdictOf[a], a, None, t))
  <2>1. Timed(verdictOf[a], a, None, t) \in Ids
    BY <1>1, <1>2, <1>4, IdTypes
  <2>2. Timed(verdictOf[a], a, None, t).kind = verdictOf[a]
    BY DEF Timed
  <2> QED BY <1>1, <1>3, <1>6, <2>1, <2>2, AppendPreserves
<1>7. ASSUME NEW b \in Acceptance, Append8E(p, Conflict(a, None, <<b, None>>))
      PROVE  IInv'
  <2>1. <<b, None>> \in Sides
    BY DEF Sides, MaybeAcceptance, MaybeAuthorization
  <2>2. Conflict(a, None, <<b, None>>) \in Ids
    BY <1>2, <1>4, <2>1, IdTypes
  <2>3. Conflict(a, None, <<b, None>>).kind = "CONFLICTING"
    BY DEF Conflict, Untimed
  <2> QED BY <1>1, <1>3, <1>7, <2>2, <2>3, AppendPreserves
<1> QED BY <1>5, <1>6, <1>7 DEF Accept

\* An authorization follows its acceptance.
LEMMA AuthorizePreserves ==
  ASSUME IInv, NEW p \in Proc, Authorize(p)
  PROVE  IInv'
<1> DEFINE u == job[p].authorization
           a == acceptanceOf[u]
           t == job[p].stamp
<1>1. /\ pc[p] = "authorize" /\ UNCHANGED <<ledger, upstream, calls, overlap>>
      /\ u \in Authorization /\ t \in Stamp
  BY DEF Authorize, IInv, Along
<1>2. a \in Acceptance /\ a \in MaybeAcceptance /\ u \in MaybeAuthorization
  BY <1>1 DEF MaybeAcceptance, MaybeAuthorization
<1>3. "AUTHORIZED" \in Kinds /\ "CONFLICTING" \in Kinds
      /\ "CONFLICTING" \notin Verdicts /\ "AUTHORIZED" \notin Verdicts
  BY DEF Kinds, Verdicts
<1>4. CASE Leave(p)
  BY <1>1, <1>4, LeavePreserves
<1>5. CASE Append8E(p, Conflict(None, u, <<a, None>>))
  <2>1. <<a, None>> \in Sides /\ None \in MaybeAcceptance
    BY <1>2 DEF Sides, MaybeAcceptance, MaybeAuthorization
  <2>2. Conflict(None, u, <<a, None>>) \in Ids
    BY <1>2, <1>3, <2>1, IdTypes
  <2>3. Conflict(None, u, <<a, None>>).kind = "CONFLICTING"
    BY DEF Conflict, Untimed
  <2> QED BY <1>1, <1>3, <1>5, <2>2, <2>3, AppendPreserves
<1>6. CASE /\ Has("ACCEPTED", a, None) /\ ActiveFor(a) = {}
           /\ Append8E(p, Timed("AUTHORIZED", a, u, t))
  <2>1. Timed("AUTHORIZED", a, u, t) \in Ids
    BY <1>1, <1>2, <1>3, IdTypes
  <2>2. /\ Timed("AUTHORIZED", a, u, t).kind = "AUTHORIZED"
        /\ Timed("AUTHORIZED", a, u, t).acceptance = a
        /\ Timed("AUTHORIZED", a, u, t).authorization = u
    BY DEF Timed
  <2> QED BY <1>1, <1>3, <1>6, <2>1, <2>2, AppendPreserves
<1> QED BY <1>4, <1>5, <1>6 DEF Authorize

\* A revocation needs nothing of what the invariant keeps.
LEMMA RevokePreserves ==
  ASSUME IInv, NEW p \in Proc, Revoke(p)
  PROVE  IInv'
<1> DEFINE u == job[p].authorization
           id == Untimed("REVOKED", None, u, {}, <<None, None>>)
<1>1. /\ pc[p] = "revoke" /\ UNCHANGED <<ledger, upstream, calls, overlap>> /\ u \in Authorization
  BY DEF Revoke, IInv, Along
<1>2. u \in MaybeAuthorization /\ None \in MaybeAcceptance
  BY <1>1 DEF MaybeAcceptance, MaybeAuthorization
<1>3. "REVOKED" \in Kinds /\ "REVOKED" \notin Verdicts
  BY DEF Kinds, Verdicts
<1>4. <<None, None>> \in Sides
  BY DEF Sides, MaybeAcceptance, MaybeAuthorization
<1>5. id \in Ids
  BY <1>2, <1>3, <1>4, IdTypes
<1>6. id.kind = "REVOKED"
  BY DEF Untimed
<1>7. CASE Leave(p)
  BY <1>1, <1>7, LeavePreserves
<1>8. CASE Append8E(p, id)
  BY <1>1, <1>3, <1>5, <1>6, <1>8, AppendPreserves
<1> QED BY <1>7, <1>8 DEF Revoke

\* A refusal needs nothing; a release found ready has its authorization on record
\* and not revoked.
LEMMA EvaluatePreserves ==
  ASSUME IInv, NEW p \in Proc, Evaluate(p)
  PROVE  IInv'
<1> DEFINE a == job[p].acceptance
           u == job[p].authorization
           id == Untimed("NOT_READY", a, None, NotReady(a, u), <<None, None>>)
<1>1. /\ pc[p] = "evaluate" /\ UNCHANGED <<ledger, upstream, calls, overlap>>
      /\ a \in Acceptance /\ job[p] \in Jobs /\ job[p].stamp \in Stamp /\ TypeOK
  BY DEF Evaluate, IInv, Along, TypeOK
<1>2. u \in MaybeAuthorization /\ a \in MaybeAcceptance
  BY <1>1 DEF Jobs
<1>3. CASE Append8E(p, id)
  <2>1. "NOT_READY" \in Kinds /\ "NOT_READY" \notin Verdicts /\ None \in MaybeAuthorization
    BY DEF Kinds, Verdicts, MaybeAuthorization
  <2>2. NotReady(a, u) \in SUBSET Reasons
    BY DEF NotReady
  <2>3. <<None, None>> \in Sides
    BY DEF Sides, MaybeAcceptance, MaybeAuthorization
  <2>4. id \in Ids
    BY <1>2, <2>1, <2>2, <2>3, IdTypes
  <2>5. id.kind = "NOT_READY"
    BY DEF Untimed
  <2> QED BY <1>1, <1>3, <2>1, <2>4, <2>5, AppendPreserves
<1>4. CASE /\ NotReady(a, u) = {}
           /\ Goto(p, "settle")
           /\ job' = [job EXCEPT ![p].authorization = CHOOSE v \in Considered(a, u) : TRUE]
           /\ UNCHANGED pend
  <2>1. PICK v \in Authorization : Considered(a, u) = {v} /\ Has("AUTHORIZED", a, v) /\ ~Revoked(v)
    BY <1>1, <1>2, <1>4, ReadyMeans
  <2>2. (CHOOSE w \in Considered(a, u) : TRUE) = v
    BY <2>1
  <2>3. /\ job'[p].acceptance = a /\ job'[p].authorization = v
        /\ job'[p].stamp = job[p].stamp /\ job'[p] \in Jobs
    BY <1>1, <1>4, <2>2 DEF TypeOK, Jobs, MaybeAuthorization
  <2>4. \A q \in Proc \ {p} : pc'[q] = pc[q] /\ job'[q] = job[q] /\ pend'[q] = pend[q]
    BY <1>1, <1>4 DEF TypeOK, Goto
  <2>5. job' \in [Proc -> Jobs]
    BY <1>1, <1>4, <2>3, <2>4 DEF TypeOK
  <2>6. TypeOK'
    BY <1>1, <1>4, <2>5 DEF TypeOK, Goto, upstream
  <2>7. pc'[p] = "settle"
    BY <1>1, <1>4 DEF TypeOK, Goto
  <2>8. Along(p)' /\ Fresh(p)'
    BY <1>1, <2>1, <2>3, <2>7 DEF Along, Fresh, Has, Revoked
  <2> QED BY <1>1, <2>4, <2>6, <2>8, MovePreserves
<1> QED BY <1>3, <1>4 DEF Evaluate

\* The closure under the authorization that was found, or a conflict with the
\* closure the revision has.
LEMMA SettlePreserves ==
  ASSUME IInv, NEW p \in Proc, Settle(p)
  PROVE  IInv'
<1> DEFINE a == job[p].acceptance
           u == job[p].authorization
           t == job[p].stamp
<1>1. /\ pc[p] = "settle" /\ UNCHANGED <<ledger, upstream, calls, overlap>>
      /\ a \in Acceptance /\ u \in Authorization /\ t \in Stamp /\ Has("AUTHORIZED", a, u) /\ TypeOK
      /\ ~overlap => ~Revoked(u)
  BY DEF Settle, IInv, Along, Fresh
<1>2. a \in MaybeAcceptance /\ u \in MaybeAuthorization
  BY <1>1 DEF MaybeAcceptance, MaybeAuthorization
<1>3. /\ "CLOSED" \in Kinds /\ "CLOSED" \notin Verdicts
      /\ "CONFLICTING" \in Kinds /\ "CONFLICTING" \notin Verdicts
  BY DEF Kinds, Verdicts
<1>4. CASE Leave(p)
  BY <1>1, <1>4, LeavePreserves
<1>5. CASE Closures = {} /\ Append8E(p, Timed("CLOSED", a, u, t))
  <2>1. Timed("CLOSED", a, u, t) \in Ids
    BY <1>1, <1>2, <1>3, IdTypes
  <2>2. /\ Timed("CLOSED", a, u, t).kind = "CLOSED"
        /\ Timed("CLOSED", a, u, t).acceptance = a
        /\ Timed("CLOSED", a, u, t).authorization = u
    BY DEF Timed
  <2> QED BY <1>1, <1>3, <1>5, <2>1, <2>2, AppendPreserves
<1>6. ASSUME NEW i \in DOMAIN ledger,
             Append8E(p, Conflict(a, u, <<ledger[i].id.acceptance, ledger[i].id.authorization>>))
      PROVE  IInv'
  <2> DEFINE id == Conflict(a, u, <<ledger[i].id.acceptance, ledger[i].id.authorization>>)
  <2>1. ledger[i] \in Lines
    BY <1>1 DEF TypeOK
  <2>2. <<ledger[i].id.acceptance, ledger[i].id.authorization>> \in Sides
    BY <2>1 DEF Lines, Ids, Sides
  <2>3. id \in Ids
    BY <1>2, <1>3, <2>2, IdTypes
  <2>4. id.kind = "CONFLICTING"
    BY DEF Conflict, Untimed
  <2> QED BY <1>1, <1>3, <1>6, <2>3, <2>4, AppendPreserves
<1> QED BY <1>4, <1>5, <1>6 DEF Settle

\* The append's own look: what it finds missing it may write.
LEMMA CheckPreserves ==
  ASSUME IInv, NEW p \in Proc, Check(p)
  PROVE  IInv'
<1>1. pc[p] = "check" /\ UNCHANGED <<ledger, upstream, calls, overlap>> /\ TypeOK /\ Along(p)
  BY DEF Check, IInv
<1>2. CASE Leave(p)
  BY <1>1, <1>2, LeavePreserves
<1>3. CASE ~Recorded(ledger, pend[p]) /\ Goto(p, "write") /\ UNCHANGED <<job, pend>>
  <2>1. TypeOK'
    BY <1>1, <1>3 DEF TypeOK, Goto, upstream
  <2>2. pc'[p] = "write"
    BY <1>1, <1>3 DEF TypeOK, Goto
  <2>3. Along(p)'
    BY <1>1, <1>3, <2>2 DEF Along, Has
  <2>4. ~overlap => Fresh(p)'
    BY <1>1, <1>3, <2>2 DEF IInv, Fresh, Reviewed, ActiveFor, Active, Given, Revoked, Has, Closures
  <2>5. \A q \in Proc \ {p} : pc'[q] = pc[q] /\ job'[q] = job[q] /\ pend'[q] = pend[q]
    BY <1>1, <1>3 DEF TypeOK, Goto
  <2> QED BY <1>1, <2>1, <2>3, <2>4, <2>5, MovePreserves
<1> QED BY <1>2, <1>3 DEF Check

-----------------------------------------------------------------------------
(* The one step that writes.                                               *)

\* One line more, and everything that was there at its place.
LEMMA WriteGrows ==
  ASSUME IInv, NEW p \in Proc, Write(p)
  PROVE  LET e == Event(pend[p], job[p].stamp)
         IN  /\ e \in Lines /\ e.id = pend[p] /\ pend[p] \in Ids
             /\ ledger \in Seq(Lines) /\ Len(ledger) \in Nat /\ DOMAIN ledger = 1 .. Len(ledger)
             /\ ledger' = Append(ledger, e)
             /\ DOMAIN ledger' = 1 .. Len(ledger) + 1
             /\ ledger'[Len(ledger) + 1] = e
             /\ \A i \in 1 .. Len(ledger) : ledger'[i] = ledger[i]
             /\ Events(ledger') = Events(ledger) \cup {e}
<1> DEFINE e == Event(pend[p], job[p].stamp)
<1>1. pend[p] \in Ids /\ job[p].stamp \in Stamp /\ ledger \in Seq(Lines)
  BY DEF Write, IInv, TypeOK, Along
<1>2. e \in Lines /\ e.id = pend[p]
  BY <1>1 DEF Event, Lines
<1>3. ledger' = Append(ledger, e)
  BY DEF Write
<1>4. /\ Len(ledger) \in Nat /\ DOMAIN ledger = 1 .. Len(ledger)
      /\ DOMAIN ledger' = 1 .. Len(ledger) + 1
      /\ ledger'[Len(ledger) + 1] = e
      /\ \A i \in 1 .. Len(ledger) : ledger'[i] = ledger[i]
  BY <1>1, <1>2, <1>3, AppendProperties
<1>5. Events(ledger') = Events(ledger) \cup {e}
  BY <1>1, <1>2, <1>3, EventsOfAppend
<1> QED BY <1>1, <1>2, <1>3, <1>4, <1>5

\* What is on record stays so; what is on record afterwards was there or is the new one.
LEMMA HasGrows ==
  ASSUME IInv, NEW p \in Proc, Write(p), NEW kind, NEW a, NEW u
  PROVE  Has(kind, a, u)' <=>
           \/ Has(kind, a, u)
           \/ pend[p].kind = kind /\ pend[p].acceptance = a /\ pend[p].authorization = u
<1> DEFINE e == Event(pend[p], job[p].stamp)
<1>1. Events(ledger') = Events(ledger) \cup {e} /\ e.id = pend[p]
  BY WriteGrows
<1>2. (Events(ledger))' = Events(ledger')
  BY DEF Events
<1> QED BY <1>1, <1>2 DEF Has

\* An authorization or closure is written behind what it rests on.
LEMMA WriteKeepsOrder ==
  ASSUME IInv, NEW p \in Proc, Write(p)
  PROVE  AuthorizedAccepted' /\ ClosedOnRelease'
<1> DEFINE n == Len(ledger)
           e == Event(pend[p], job[p].stamp)
           id == pend[p]
<1>1. /\ e.id = id /\ n \in Nat /\ DOMAIN ledger = 1 .. n /\ DOMAIN ledger' = 1 .. n + 1
      /\ ledger'[n + 1] = e /\ \A i \in 1 .. n : ledger'[i] = ledger[i]
  BY WriteGrows
<1>2. /\ Along(p) /\ AuthorizedAccepted /\ ClosedOnRelease /\ pc[p] = "write"
      /\ overlap' = overlap /\ (~overlap => Fresh(p))
  BY DEF IInv, Write
<1>3. \A i \in 1 .. n : \A kind, a, u : At(i, kind, a, u)' <=> At(i, kind, a, u)
  BY <1>1 DEF At
<1>4. \A kind, a, u : Has(kind, a, u) <=> \E i \in 1 .. n : At(i, kind, a, u)
  BY <1>1 DEF Has, Events, At
<1>5. AuthorizedAccepted'
  <2> SUFFICES ASSUME NEW k \in 1 .. n + 1, ledger'[k].id.kind = "AUTHORIZED"
               PROVE  \E j \in 1 .. k - 1 : At(j, "ACCEPTED", ledger[k].id.acceptance, None)'
    BY <1>1 DEF AuthorizedAccepted, At
  <2>1. CASE k \in 1 .. n
    <3>1. PICK j \in 1 .. k - 1 : At(j, "ACCEPTED", ledger[k].id.acceptance, None)
      BY <1>1, <1>2, <2>1 DEF AuthorizedAccepted
    <3>2. j \in 1 .. n
      BY <1>1, <2>1
    <3> QED BY <1>1, <2>1, <3>1, <3>2 DEF At
  <2>2. CASE k = n + 1
    <3>1. ledger'[k].id = id
      BY <1>1, <2>2
    <3>2. Has("ACCEPTED", id.acceptance, None)
      BY <1>2, <3>1 DEF Along
    <3>3. PICK j \in 1 .. n : At(j, "ACCEPTED", id.acceptance, None)
      BY <1>4, <3>2
    <3> QED BY <1>1, <2>2, <3>1, <3>3 DEF At
  <2> QED BY <1>1, <2>1, <2>2
<1>6. ClosedOnRelease'
  <2> SUFFICES ASSUME NEW i \in 1 .. n + 1, NEW a \in Acceptance, NEW u \in Authorization,
                      At(i, "CLOSED", a, u)'
               PROVE  (/\ \E k \in 1 .. i - 1 : /\ At(k, "AUTHORIZED", a, u)
                                                /\ \E j \in 1 .. k - 1 : At(j, "ACCEPTED", a, None)
                       /\ ~overlap => \A k \in 1 .. i - 1 : ~At(k, "REVOKED", None, u))'
    BY <1>1 DEF ClosedOnRelease
  <2>1. CASE i \in 1 .. n
    <3>1. At(i, "CLOSED", a, u)
      BY <1>3, <2>1
    <3>2. PICK k \in 1 .. i - 1 : At(k, "AUTHORIZED", a, u) /\ \E j \in 1 .. k - 1 : At(j, "ACCEPTED", a, None)
      BY <1>1, <1>2, <2>1, <3>1 DEF ClosedOnRelease
    <3>3. PICK j \in 1 .. k - 1 : At(j, "ACCEPTED", a, None)
      BY <3>2
    <3>4. ~overlap => \A m \in 1 .. i - 1 : ~At(m, "REVOKED", None, u)
      BY <1>1, <1>2, <2>1, <3>1 DEF ClosedOnRelease
    <3>5. \A m \in 1 .. i - 1 : m \in 1 .. n
      BY <1>1, <2>1
    <3>6. j \in 1 .. n
      BY <1>1, <3>5
    <3> QED BY <1>2, <1>3, <3>2, <3>3, <3>4, <3>5, <3>6
  <2>2. CASE i = n + 1
    <3>1. id.kind = "CLOSED" /\ id.acceptance = a /\ id.authorization = u
      BY <1>1, <2>2 DEF At
    <3>2. Has("AUTHORIZED", a, u)
      BY <1>2, <3>1 DEF Along
    <3>3. PICK k \in 1 .. n : At(k, "AUTHORIZED", a, u)
      BY <1>4, <3>2
    <3>4. PICK j \in 1 .. k - 1 : At(j, "ACCEPTED", a, None)
      BY <1>1, <1>2, <3>3 DEF AuthorizedAccepted, At
    <3>5. ~overlap => ~Has("REVOKED", None, u)
      BY <1>2, <3>1 DEF Fresh, Revoked
    <3>6. ~overlap => \A m \in 1 .. n : ~At(m, "REVOKED", None, u)
      BY <1>4, <3>5
    <3>7. j \in 1 .. n /\ 1 .. i - 1 = 1 .. n
      BY <1>1, <2>2
    <3> QED BY <1>2, <1>3, <3>3, <3>4, <3>6, <3>7
  <2> QED BY <1>1, <2>1, <2>2
<1> QED BY <1>5, <1>6

\* Alone, a command still finds what it found when it looked, so that what it writes
\* is the only one of its kind.
LEMMA WriteKeepsOne ==
  ASSUME IInv, NEW p \in Proc, Write(p)
  PROVE  OneRelease' /\ LedgerReadable'
<1> DEFINE e == Event(pend[p], job[p].stamp)
           id == pend[p]
<1>1. overlap' = overlap /\ pc[p] = "write"
  BY DEF Write
<1> SUFFICES ASSUME ~overlap PROVE OneRelease' /\ LedgerReadable'
  BY <1>1 DEF OneRelease, LedgerReadable
<1>2. Fresh(p) /\ OneRelease /\ LedgerReadable
  BY DEF IInv
<1>3. /\ id.kind \in Verdicts => \A b \in Acceptance : ~Reviewed(b)
      /\ id.kind = "AUTHORIZED" =>
           id.acceptance = acceptanceOf[id.authorization] /\ ActiveFor(id.acceptance) = {}
      /\ id.kind = "CLOSED" => Closures = {}
      /\ ~Recorded(ledger, id)
  BY <1>1, <1>2 DEF Fresh
<1>4. Readable(ledger')
  <2>1. e \in Lines /\ e.id = id /\ ledger \in Seq(Lines) /\ ledger' = Append(ledger, e)
    BY WriteGrows
  <2>2. Readable(ledger)
    BY <1>2 DEF LedgerReadable
  <2> QED BY <1>3, <2>1, <2>2, ReadableAppend
<1> DEFINE New(kind, a, u) == id.kind = kind /\ id.acceptance = a /\ id.authorization = u
<1>a. \A kind, a, u : Has(kind, a, u)' <=> Has(kind, a, u) \/ New(kind, a, u)
  BY HasGrows
<1> HIDE DEF New
<1>5. \A a, b \in Acceptance : Reviewed(a)' /\ Reviewed(b)' => a = b
  <2>1. \A a \in Acceptance : Reviewed(a)' => Reviewed(a) \/ (id.kind \in Verdicts /\ id.acceptance = a)
    BY <1>a DEF Reviewed, New
  <2>2. \A a, b \in Acceptance : Reviewed(a) /\ Reviewed(b) => a = b
    BY <1>2 DEF OneRelease
  <2> QED BY <1>3, <2>1, <2>2
<1>6. \A a \in Acceptance : \A u, v \in ActiveFor(a)' : u = v
  <2>1. \A u \in Authorization : Active(u)' =>
          Active(u) \/ (id.kind = "AUTHORIZED" /\ id.acceptance = acceptanceOf[u] /\ id.authorization = u)
    BY <1>a DEF Active, Given, Revoked, New
  <2>2. \A a \in Acceptance : \A u \in ActiveFor(a)' :
          /\ u \in Authorization /\ acceptanceOf[u] = a
          /\ u \in ActiveFor(a) \/ (id.kind = "AUTHORIZED" /\ id.acceptance = a /\ id.authorization = u)
    BY <2>1 DEF ActiveFor
  <2>3. \A a \in Acceptance : \A u, v \in ActiveFor(a) : u = v
    BY <1>2 DEF OneRelease
  <2> QED BY <1>3, <2>2, <2>3
<1>7. \A c, f \in Closures' : c = f
  <2>1. (Closures)' = {c \in Events(ledger') : c.id.kind = "CLOSED"}
    BY DEF Closures, Events
  <2>2. Events(ledger') = Events(ledger) \cup {e} /\ e.id = id
    BY WriteGrows
  <2>3. \A c \in Closures' : c \in Closures \/ (id.kind = "CLOSED" /\ c = e)
    <3>1. Closures = {c \in Events(ledger) : c.id.kind = "CLOSED"}
      BY DEF Closures
    <3> QED BY <2>1, <2>2, <3>1
  <2>4. \A c, f \in Closures : c = f
    BY <1>2 DEF OneRelease
  <2> QED BY <1>3, <2>3, <2>4
<1> QED BY <1>4, <1>5, <1>6, <1>7 DEF OneRelease, LedgerReadable

\* The write as a whole.
LEMMA WritePreserves ==
  ASSUME IInv, NEW p \in Proc, Write(p)
  PROVE  IInv'
<1>1. TypeOK /\ pc[p] = "write" /\ overlap' = overlap /\ Leave(p)
      /\ calls' = calls /\ upstream' = upstream
  BY DEF IInv, Write
<1>2. ledger' \in Seq(Lines)
  <2>1. /\ Event(pend[p], job[p].stamp) \in Lines /\ ledger \in Seq(Lines)
        /\ ledger' = Append(ledger, Event(pend[p], job[p].stamp))
    BY WriteGrows
  <2> QED BY <2>1, AppendProperties
<1>3. NoJob \in Jobs
  BY DEF NoJob, Jobs, MaybeAcceptance, MaybeAuthorization
<1>4. TypeOK'
  BY <1>1, <1>2, <1>3 DEF TypeOK, Leave, Goto, upstream
<1>5. pc'[p] = "idle"
  BY <1>1 DEF TypeOK, Leave, Goto
<1>6. \A q \in Proc \ {p} : pc'[q] = pc[q] /\ job'[q] = job[q] /\ pend'[q] = pend[q]
  BY <1>1 DEF TypeOK, Leave, Goto
<1>7. ASSUME NEW q \in Proc PROVE Along(q)'
  <2>1. CASE q = p
    BY <1>5, <2>1 DEF Along
  <2>2. CASE q # p
    <3>1. Along(q)
      BY DEF IInv
    <3>2. \A kind, a, u : Has(kind, a, u) => Has(kind, a, u)'
      BY HasGrows
    <3> QED BY <1>6, <2>2, <3>1, <3>2 DEF Along
  <2> QED BY <2>1, <2>2
<1>8. ~overlap' => Solitary' /\ \A q \in Proc : Fresh(q)'
  <2>1. Fresh(p)'
    BY <1>5 DEF Fresh
  <2> QED BY <1>1, <1>6, <2>1, Lonely DEF IInv
<1> QED BY <1>4, <1>7, <1>8, WriteKeepsOrder, WriteKeepsOne DEF IInv

-----------------------------------------------------------------------------
(* The whole.                                                              *)

\* It holds at the start.
LEMMA InitIInv == Init => IInv
<1> SUFFICES ASSUME Init PROVE IInv
  OBVIOUS
<1>1. /\ ledger = <<>> /\ stage8D = "incomplete" /\ approved = TRUE /\ calls = 0 /\ overlap = FALSE
      /\ pc = [p \in Proc |-> "idle"] /\ job = [p \in Proc |-> NoJob] /\ pend = [p \in Proc |-> None]
  BY DEF Init, InitWith, Unreconciled
<1>2. NoJob \in Jobs
  BY DEF NoJob, Jobs, MaybeAcceptance, MaybeAuthorization
<1>3. calls \in 0 .. MaxCalls
  BY <1>1
<1>4. ledger \in Seq(Lines)
  BY <1>1, EmptySeq
<1>5. TypeOK
  BY <1>1, <1>2, <1>3, <1>4 DEF TypeOK, Stages8D
<1>6. DOMAIN ledger = {} /\ Events(ledger) = {}
  BY <1>1 DEF Events
<1>7. ClosedOnRelease /\ AuthorizedAccepted /\ LedgerReadable
  BY <1>6 DEF ClosedOnRelease, AuthorizedAccepted, LedgerReadable, Readable
<1>8. OneRelease
  BY <1>6 DEF OneRelease, Reviewed, ActiveFor, Active, Given, Has, Closures
<1>9. Solitary /\ \A p \in Proc : Along(p) /\ Fresh(p)
  BY <1>1 DEF Solitary, Along, Fresh
<1> QED BY <1>5, <1>7, <1>8, <1>9 DEF IInv

\* A step of the stages before, or none, is nothing the invariant is about.
LEMMA UpstreamPreserves ==
  ASSUME IInv, TypeOK', UNCHANGED <<ledger, pc, job, pend, overlap>>
  PROVE  IInv'
<1>1. ClosedOnRelease' /\ OneRelease' /\ LedgerReadable' /\ AuthorizedAccepted'
  BY GlobalStays DEF IInv
<1>2. \A q \in Proc : Along(q)'
  BY OthersStay DEF IInv
<1>3. ~overlap' => Solitary' /\ \A q \in Proc : Fresh(q)'
  BY DEF IInv, Solitary, Fresh, Reviewed, ActiveFor, Active, Given, Revoked, Has, Closures
<1> QED BY <1>1, <1>2, <1>3 DEF IInv

\* Every step preserves it.
LEMMA NextIInv == IInv /\ [Next]_vars => IInv'
<1> SUFFICES ASSUME IInv, [Next]_vars PROVE IInv'
  OBVIOUS
<1>1. TypeOK
  BY DEF IInv
<1>2. ASSUME NEW p \in Proc, Command(p) PROVE IInv'
  BY <1>2, StartPreserves
<1>3. ASSUME NEW p \in Proc, Unreadable(p) \/ Crash(p) PROVE IInv'
  <2>1. pc[p] # "idle" /\ Leave(p) /\ UNCHANGED <<ledger, upstream, calls, overlap>>
    BY <1>3 DEF Unreadable, Crash
  <2> QED BY <2>1, LeavePreserves
<1>4. ASSUME NEW p \in Proc, Step(p) PROVE IInv'
  BY <1>3, <1>4, AcceptPreserves, AuthorizePreserves, RevokePreserves, EvaluatePreserves,
     SettlePreserves, CheckPreserves, WritePreserves DEF Step
<1>5. CASE Reconcile8D \/ Decide8B
  <2>1. TypeOK'
    BY <1>1, <1>5 DEF TypeOK, Reconcile8D, Later, Decide8B
  <2> QED BY <1>5, <2>1, UpstreamPreserves DEF Reconcile8D, Decide8B
<1>6. CASE UNCHANGED vars
  <2>1. TypeOK'
    BY <1>1, <1>6 DEF TypeOK, vars, upstream
  <2> QED BY <1>6, <2>1, UpstreamPreserves DEF vars, upstream
<1> QED BY <1>2, <1>4, <1>5, <1>6 DEF Next

\* The inductive invariant holds in every reachable state, for any number of
\* commands, acceptances and authorizations.
THEOREM Inductive == Spec => []IInv
BY InitIInv, NextIInv, PTL DEF Spec

\* Every variable stays in its type.
THEOREM TypeCorrect == Spec => []TypeOK
<1>1. IInv => TypeOK
  BY DEF IInv
<1> QED BY <1>1, Inductive, PTL

\* close_final_revision never closes a revision that was not accepted in full and
\* released under an authorization of that acceptance, whatever races or crashes.
THEOREM ClosuresOnRelease == Spec => []ClosedOnRelease
<1>1. IInv => ClosedOnRelease
  BY DEF IInv
<1> QED BY <1>1, Inductive, PTL

\* One verdict, one active authorization and one closure, as long as the commands
\* are run one at a time.
THEOREM OneReleaseOnly == Spec => []OneRelease
<1>1. IInv => OneRelease
  BY DEF IInv
<1> QED BY <1>1, Inductive, PTL

\* No sequence of commands run one at a time makes the release ledger unreadable.
THEOREM LedgerStaysReadable == Spec => []LedgerReadable
<1>1. IInv => LedgerReadable
  BY DEF IInv
<1> QED BY <1>1, Inductive, PTL

-----------------------------------------------------------------------------
(* Release after reconciliation.                                           *)

\* What stage 8D has reconciled is not unreconciled again.
LEMMA StaysReconciled ==
  ASSUME IInv, [Next]_vars, stage8D # Unreconciled
  PROVE  stage8D' # Unreconciled
<1>1. ASSUME NEW p \in Proc, Command(p) \/ Step(p) PROVE stage8D' = stage8D
  BY <1>1 DEF Command, Start, Step, Accept, Authorize, Revoke, Evaluate, Settle, Unreadable,
              Check, Write, Crash, upstream
<1>2. ASSUME Reconcile8D PROVE stage8D' # Unreconciled
  BY <1>2 DEF Reconcile8D, Later, Unreconciled
<1> QED BY <1>1, <1>2 DEF Next, Decide8B, vars, upstream

\* Only an acceptance asks stage 8D; what comes later asks for the acceptance.
LEMMA ReconciledNext ==
  IInv /\ DecidedIsReconciled /\ PendingIsReconciled /\ [Next]_vars
    => DecidedIsReconciled' /\ PendingIsReconciled'
<1> DEFINE Decisive == Verdicts \cup {"AUTHORIZED", "CLOSED"}
<1> SUFFICES ASSUME IInv, DecidedIsReconciled, PendingIsReconciled, [Next]_vars,
                    stage8D = Unreconciled, stage8D' = Unreconciled
             PROVE  DecidedIsReconciled' /\ PendingIsReconciled'
  BY StaysReconciled DEF DecidedIsReconciled, PendingIsReconciled
<1>1. \A e \in Events(ledger) : e.id.kind \notin Decisive
  BY DEF DecidedIsReconciled
<1>2. \A p \in Proc : pc[p] \in {"check", "write"} => pend[p].kind \notin Decisive
  BY DEF PendingIsReconciled
<1>3. \A e \in Events(ledger') : e.id.kind \notin Decisive
  <2>1. ASSUME NEW p \in Proc, Write(p) PROVE \A e \in Events(ledger') : e.id.kind \notin Decisive
    <3>1. \A e \in Events(ledger') : e \in Events(ledger) \/ e.id = pend[p]
      BY <2>1, WriteGrows
    <3>2. pc[p] = "write"
      BY <2>1 DEF Write
    <3> QED BY <1>1, <1>2, <3>1, <3>2
  <2>2. CASE ledger' = ledger
    BY <1>1, <2>2
  <2>3. ASSUME NEW p \in Proc, Step(p), ~Write(p) PROVE ledger' = ledger
    BY <2>3 DEF Step, Accept, Authorize, Revoke, Evaluate, Settle, Unreadable, Check, Crash
  <2> QED BY <2>1, <2>2, <2>3 DEF Next, Command, Start, Reconcile8D, Decide8B, vars
<1>4. ASSUME NEW p \in Proc, pc'[p] \in {"check", "write"} PROVE pend'[p].kind \notin Decisive
  <2>1. CASE pc[p] \in {"check", "write"} /\ pend'[p] = pend[p]
    BY <1>2, <2>1
  <2>2. CASE \E id : id.kind \notin Decisive /\ Append8E(p, id)
    BY <2>2 DEF Append8E, IInv, TypeOK
  <2>3. ASSUME Accept(p) \/ Authorize(p) \/ Revoke(p) \/ Evaluate(p) \/ Settle(p)
        PROVE  \E id : id.kind \notin Decisive /\ Append8E(p, id)
    <3>1. ~Leave(p) /\ ~Goto(p, "settle")
      BY <1>4 DEF Leave, Goto, IInv, TypeOK
    <3>2. \A a, u : ~Has("ACCEPTED", a, u) /\ ~Has("AUTHORIZED", a, u)
      BY <1>1 DEF Has, Verdicts
    <3>3. pc[p] # "settle"
      BY <3>2 DEF IInv, Along
    <3>4. \A a, u, why, against :
            /\ Conflict(a, u, against).kind \notin Decisive
            /\ Untimed("NOT_READY", a, u, why, against).kind \notin Decisive
            /\ Untimed("REVOKED", a, u, why, against).kind \notin Decisive
      BY DEF Conflict, Untimed, Verdicts
    <3>5. ~Accept(p)
      BY <3>1 DEF Accept, Unreconciled
    <3>6. ~Authorize(p) /\ ~Settle(p)
      BY <3>1, <3>2, <3>3 DEF Authorize, Settle
    <3>7. CASE Revoke(p)
      BY <3>1, <3>4, <3>7 DEF Revoke
    <3>8. CASE Evaluate(p)
      BY <3>1, <3>4, <3>8 DEF Evaluate
    <3> QED BY <2>3, <3>5, <3>6, <3>7, <3>8
  <2>4. ASSUME Check(p) \/ Write(p) \/ Unreadable(p) \/ Crash(p)
        PROVE  pc[p] \in {"check", "write"} /\ pend'[p] = pend[p]
    BY <1>4, <2>4 DEF Check, Write, Unreadable, Crash, Leave, Goto, IInv, TypeOK
  <2>5. ASSUME NEW q \in Proc, q # p, Step(q) \/ Command(q)
        PROVE  pc'[p] = pc[p] /\ pend'[p] = pend[p]
    BY <2>5 DEF Step, Command, Start, Accept, Authorize, Revoke, Evaluate, Settle, Unreadable, Check,
                Write, Crash, Append8E, Leave, Goto, IInv, TypeOK
  <2>6. ~Command(p)
    BY <1>4 DEF Command, Start, Goto, IInv, TypeOK
  <2>7. CASE UNCHANGED <<pc, pend>>
    BY <1>2, <1>4, <2>7
  <2> QED BY <1>4, <2>1, <2>2, <2>3, <2>4, <2>5, <2>6, <2>7
          DEF Next, Step, Reconcile8D, Decide8B, vars
<1> QED BY <1>3, <1>4 DEF DecidedIsReconciled, PendingIsReconciled, Events

\* No delivery is accepted, released or finally closed before stage 8D has reconciled
\* it, for any number of commands, acceptances and authorizations.
THEOREM DecisionsReconciled == Spec => []DecidedIsReconciled
<1>1. Init => DecidedIsReconciled /\ PendingIsReconciled
  BY DEF Init, InitWith, DecidedIsReconciled, PendingIsReconciled, Events
<1> QED BY <1>1, Inductive, ReconciledNext, PTL DEF Spec

-----------------------------------------------------------------------------
(* The ledger as decisions.                                                *)

\* A command found ready has the authorization of its acceptance.
LEMMA ReadyMatches ==
  ASSUME NEW a \in Acceptance, NEW u \in MaybeAuthorization, NotReady(a, u) = {}
  PROVE  \E v : Considered(a, u) = {v} /\ acceptanceOf[v] = a
<1>1. PICK v \in Authorization : Considered(a, u) = {v} /\ ~Revoked(v)
  BY ReadyMeans
<1>2. "AUTHORIZATION_ACCEPTANCE_MISMATCH" \notin NotReady(a, u)
  OBVIOUS
<1>3. acceptanceOf[v] = a
  BY <1>1, <1>2 DEF NotReady, Reasons
<1> QED BY <1>1, <1>3

\* Nothing more to know where the ledger stays and one command at most moves: all
\* that counts is what that one is about to append or to settle.
LEMMA DueStays ==
  ASSUME IInv, Due, ledger' = ledger, NEW p \in Proc,
         \A q \in Proc \ {p} : pc'[q] = pc[q] /\ job'[q] = job[q] /\ pend'[q] = pend[q],
         overlap => overlap',
         pc'[p] = "settle" => job'[p].acceptance = acceptanceOf[job'[p].authorization],
         pc'[p] \in {"check", "write"} =>
           /\ Sound(pend'[p])
           /\ ~overlap /\ pend'[p].kind = "AUTHORIZED" => ~Given(pend'[p].authorization)
           /\ ~overlap /\ pend'[p].kind = "REVOKED" => ~Revoked(pend'[p].authorization)
  PROVE  Due'
<1>1. \A id : Sound(id)' = Sound(id)
  BY DEF Sound, Given, Has
<1>2. \A u : Given(u)' = Given(u) /\ Revoked(u)' = Revoked(u)
  BY DEF Given, Revoked, Has
<1>3. \A e \in Events(ledger') : Sound(e.id)
  BY DEF Due
<1>4. ASSUME NEW q \in Proc
      PROVE  /\ pc'[q] = "settle" => job'[q].acceptance = acceptanceOf[job'[q].authorization]
             /\ pc'[q] \in {"check", "write"} =>
                  /\ Sound(pend'[q])
                  /\ ~overlap' /\ pend'[q].kind = "AUTHORIZED" => ~Given(pend'[q].authorization)
                  /\ ~overlap' /\ pend'[q].kind = "REVOKED" => ~Revoked(pend'[q].authorization)
  BY DEF Due
<1>5. \A u : Given(u)' <=> Given(u)
  BY <1>2
<1> QED BY <1>1, <1>2, <1>3, <1>4 DEF Due, Events

\* A command that ends, or one that is about to look.
LEMMA DueLeave ==
  ASSUME IInv, Due, NEW p \in Proc, Leave(p), ledger' = ledger, overlap' = overlap
  PROVE  Due'
<1>1. /\ pc'[p] = "idle"
      /\ \A q \in Proc \ {p} : pc'[q] = pc[q] /\ job'[q] = job[q] /\ pend'[q] = pend[q]
  BY DEF IInv, TypeOK, Leave, Goto
<1> QED BY <1>1, DueStays

\* A command that has built its event.
LEMMA DueAppend ==
  ASSUME IInv, Due, NEW p \in Proc, NEW id, Append8E(p, id), ledger' = ledger, overlap' = overlap,
         Sound(id),
         ~overlap /\ id.kind = "AUTHORIZED" => ~Given(id.authorization),
         ~overlap /\ id.kind = "REVOKED" => ~Revoked(id.authorization)
  PROVE  Due'
<1>1. /\ pc'[p] = "check" /\ pend'[p] = id
      /\ \A q \in Proc \ {p} : pc'[q] = pc[q] /\ job'[q] = job[q] /\ pend'[q] = pend[q]
  BY DEF IInv, TypeOK, Append8E, Goto
<1> QED BY <1>1, DueStays

\* A conflict or a refusal says nothing that would have to hold.
LEMMA SoundNotes ==
  ASSUME NEW a, NEW u, NEW why, NEW against
  PROVE  /\ Sound(Conflict(a, u, against)) /\ Conflict(a, u, against).kind = "CONFLICTING"
         /\ LET id == Untimed("NOT_READY", a, u, why, against)
            IN  Sound(id) /\ id.kind = "NOT_READY"
BY DEF Sound, Conflict, Untimed, Verdicts

\* Each command, up to its append.
LEMMA DueBuilt ==
  ASSUME IInv, Due, NEW p \in Proc,
         Accept(p) \/ Authorize(p) \/ Revoke(p) \/ Evaluate(p) \/ Settle(p)
  PROVE  Due'
<1> DEFINE a == job[p].acceptance
           u == job[p].authorization
           t == job[p].stamp
<1>1. /\ ledger' = ledger /\ overlap' = overlap /\ pc[p] # "idle"
      /\ pc[p] \in {"accept", "evaluate", "settle"} => a \in Acceptance
      /\ pc[p] \in {"authorize", "revoke", "settle"} => u \in Authorization
      /\ job[p] \in Jobs
  BY DEF Accept, Authorize, Revoke, Evaluate, Settle, IInv, TypeOK, Along
<1>2. CASE Leave(p)
  BY <1>1, <1>2, DueLeave
<1>3. ASSUME NEW x, NEW v, NEW why, NEW against,
             \/ Append8E(p, Conflict(x, v, against))
             \/ Append8E(p, Untimed("NOT_READY", x, v, why, against))
      PROVE  Due'
  BY <1>1, <1>3, SoundNotes, DueAppend
<1>4. CASE Accept(p)
  <2>1. CASE Append8E(p, Timed(verdictOf[a], a, None, t))
    <3> DEFINE id == Timed(verdictOf[a], a, None, t)
    <3>1. id.kind = verdictOf[a] /\ id.acceptance = a /\ id.authorization = None
      BY DEF Timed
    <3>2. a \in Acceptance /\ verdictOf[a] \in Verdicts
      BY <1>1, <1>4 DEF Accept
    <3>3. verdictOf[a] \notin {"AUTHORIZED", "CLOSED", "REVOKED"}
      BY <3>2 DEF Verdicts
    <3>4. Sound(id)
      BY <3>1, <3>2, <3>3 DEF Sound
    <3> QED BY <1>1, <2>1, <3>1, <3>3, <3>4, DueAppend
  <2> QED BY <1>2, <1>3, <1>4, <2>1 DEF Accept
<1>5. CASE Authorize(p)
  <2>1. CASE ~Given(u) /\ Append8E(p, Timed("AUTHORIZED", acceptanceOf[u], u, t))
    <3> DEFINE id == Timed("AUTHORIZED", acceptanceOf[u], u, t)
    <3>1. id.kind = "AUTHORIZED" /\ id.acceptance = acceptanceOf[u] /\ id.authorization = u
      BY DEF Timed
    <3>2. Sound(id)
      BY <1>1, <1>5, <3>1 DEF Sound, Authorize, Verdicts
    <3> QED BY <1>1, <2>1, <3>1, <3>2, DueAppend
  <2> QED BY <1>2, <1>3, <1>5, <2>1 DEF Authorize
<1>6. CASE Revoke(p)
  <2>1. CASE Active(u) /\ Append8E(p, Untimed("REVOKED", None, u, {}, <<None, None>>))
    <3> DEFINE id == Untimed("REVOKED", None, u, {}, <<None, None>>)
    <3>1. id.kind = "REVOKED" /\ id.acceptance = None /\ id.authorization = u
      BY DEF Untimed
    <3>2. Sound(id) /\ ~Revoked(u)
      BY <1>1, <1>6, <2>1, <3>1 DEF Sound, Revoke, Verdicts, Active
    <3> QED BY <1>1, <2>1, <3>1, <3>2, DueAppend
  <2> QED BY <1>2, <1>6, <2>1 DEF Revoke
<1>7. CASE Evaluate(p)
  <2>1. CASE /\ NotReady(a, u) = {} /\ Goto(p, "settle") /\ pend' = pend
             /\ job' = [job EXCEPT ![p].authorization = CHOOSE v \in Considered(a, u) : TRUE]
    <3>1. a \in Acceptance /\ u \in MaybeAuthorization
      BY <1>1, <1>7 DEF Evaluate, Jobs
    <3>2. PICK v : Considered(a, u) = {v} /\ acceptanceOf[v] = a
      BY <2>1, <3>1, ReadyMatches
    <3>3. job'[p].acceptance = a /\ job'[p].authorization = v /\ pc'[p] = "settle"
      BY <1>1, <2>1, <3>2 DEF IInv, TypeOK, Jobs, Goto
    <3>4. \A q \in Proc \ {p} : pc'[q] = pc[q] /\ job'[q] = job[q] /\ pend'[q] = pend[q]
      BY <2>1 DEF IInv, TypeOK, Goto
    <3> QED BY <1>1, <3>2, <3>3, <3>4, DueStays
  <2> QED BY <1>3, <1>7, <2>1 DEF Evaluate
<1>8. CASE Settle(p)
  <2>1. CASE Append8E(p, Timed("CLOSED", a, u, t))
    <3> DEFINE id == Timed("CLOSED", a, u, t)
    <3>1. id.kind = "CLOSED" /\ id.acceptance = a /\ id.authorization = u
      BY DEF Timed
    <3>2. a = acceptanceOf[u] /\ u \in Authorization
      BY <1>1, <1>8 DEF Settle, Due
    <3>3. Sound(id)
      BY <3>1, <3>2 DEF Sound, Verdicts
    <3> QED BY <1>1, <2>1, <3>1, <3>3, DueAppend
  <2> QED BY <1>2, <1>3, <1>8, <2>1 DEF Settle
<1> QED BY <1>4, <1>5, <1>6, <1>7, <1>8

\* What is read after a write.
LEMMA ReadAfter ==
  ASSUME IInv, NEW p \in Proc, Write(p)
  PROVE  LET id == pend[p]
         IN  /\ \A x : Reviewed(x)' <=>
                  Reviewed(x) \/ (id.kind \in Verdicts /\ id.acceptance = x /\ id.authorization = None)
             /\ \A u : Given(u)' <=>
                  \/ Given(u)
                  \/ id.kind = "AUTHORIZED" /\ id.acceptance = acceptanceOf[u] /\ id.authorization = u
             /\ \A u : Revoked(u)' <=>
                  Revoked(u) \/ (id.kind = "REVOKED" /\ id.acceptance = None /\ id.authorization = u)
             /\ \A x, u : Has("CLOSED", x, u)' <=>
                  Has("CLOSED", x, u) \/ (id.kind = "CLOSED" /\ id.acceptance = x /\ id.authorization = u)
<1> DEFINE New(kind, x, u) == pend[p].kind = kind /\ pend[p].acceptance = x /\ pend[p].authorization = u
<1>1. \A kind, x, u : Has(kind, x, u)' <=> Has(kind, x, u) \/ New(kind, x, u)
  BY HasGrows
<1> QED BY <1>1 DEF Reviewed, Given, Revoked

\* The write leaves every event sound.
LEMMA DueWrite ==
  ASSUME IInv, Due, NEW p \in Proc, Write(p)
  PROVE  Due'
<1>1. /\ pc[p] = "write" /\ pc'[p] = "idle" /\ overlap' = overlap
      /\ \A q \in Proc \ {p} : pc'[q] = pc[q] /\ job'[q] = job[q] /\ pend'[q] = pend[q]
  BY DEF Write, Leave, Goto, IInv, TypeOK
<1>2. \A id : Sound(id) => Sound(id)'
  <2>1. \A u : Given(u) => Given(u)'
    BY ReadAfter
  <2> QED BY <2>1 DEF Sound
<1>3. \A e \in Events(ledger') : Sound(e.id)'
  <2>1. \A e \in Events(ledger') : e \in Events(ledger) \/ e.id = pend[p]
    BY WriteGrows
  <2> QED BY <1>1, <1>2, <2>1 DEF Due
<1>4. ASSUME NEW q \in Proc, pc'[q] \in {"check", "write"}
      PROVE  Sound(pend[q])' /\ overlap'
  <2>1. q # p /\ pc[q] # "idle" /\ pc[q] \in {"check", "write"} /\ pend'[q] = pend[q]
    BY <1>1, <1>4
  <2>2. overlap'
    BY <1>1, <2>1 DEF IInv, Solitary
  <2>3. PICK id : id = pend[q]
    OBVIOUS
  <2>4. Sound(id)
    BY <2>1, <2>3 DEF Due
  <2>5. Sound(id)'
    BY <1>2, <2>4
  <2> QED BY <2>1, <2>2, <2>3, <2>5
<1>5. \A q \in Proc : pc'[q] = "settle" => job'[q].acceptance = acceptanceOf[job'[q].authorization]
  BY <1>1 DEF Due
<1> QED BY <1>3, <1>4, <1>5 DEF Due, Events

\* Every step keeps what the decisions need.
LEMMA DueNext == IInv /\ Due /\ [Next]_vars => Due'
<1> SUFFICES ASSUME IInv, Due, [Next]_vars PROVE Due'
  OBVIOUS
<1>1. ASSUME NEW p \in Proc, Command(p) PROVE Due'
  <2>1. PICK t \in Stamp, op \in {"accept", "authorize", "revoke", "evaluate"},
             a \in MaybeAcceptance, u \in MaybeAuthorization : Start(p, op, a, u, t)
    BY <1>1 DEF Command, MaybeAcceptance, MaybeAuthorization
  <2>2. /\ pc'[p] = op /\ ledger' = ledger /\ (overlap => overlap')
        /\ \A q \in Proc \ {p} : pc'[q] = pc[q] /\ job'[q] = job[q] /\ pend'[q] = pend[q]
    BY <2>1 DEF Start, Goto, IInv, TypeOK
  <2> QED BY <2>2, DueStays
<1>2. ASSUME NEW p \in Proc, Check(p) PROVE Due'
  <2>1. CASE Leave(p)
    BY <1>2, <2>1, DueLeave DEF Check
  <2>2. CASE Goto(p, "write") /\ UNCHANGED <<job, pend>>
    <3>1. /\ pc[p] = "check" /\ pc'[p] = "write" /\ ledger' = ledger /\ overlap' = overlap
          /\ \A q \in Proc \ {p} : pc'[q] = pc[q]
      BY <1>2, <2>2 DEF Check, Goto, IInv, TypeOK
    <3>2. /\ Sound(pend[p])
          /\ ~overlap /\ pend[p].kind = "AUTHORIZED" => ~Given(pend[p].authorization)
          /\ ~overlap /\ pend[p].kind = "REVOKED" => ~Revoked(pend[p].authorization)
      BY <3>1 DEF Due
    <3> QED BY <2>2, <3>1, <3>2, DueStays
  <2> QED BY <1>2, <2>1, <2>2 DEF Check
<1>3. ASSUME NEW p \in Proc, Unreadable(p) \/ Crash(p) PROVE Due'
  BY <1>3, DueLeave DEF Unreadable, Crash
<1>4. CASE UNCHANGED <<ledger, pc, job, pend, overlap>>
  BY <1>4 DEF Due, Sound, Given, Revoked, Has
<1>5. ASSUME NEW p \in Proc, Step(p) PROVE Due'
  BY <1>2, <1>3, <1>5, DueBuilt, DueWrite DEF Step
<1> QED BY <1>1, <1>4, <1>5 DEF Next, Reconcile8D, Decide8B, vars

\* An authorization on record has its acceptance on record.
LEMMA AcceptedBefore ==
  ASSUME IInv, NEW v \in Authorization, Given(v)
  PROVE  /\ Has("ACCEPTED", acceptanceOf[v], None)
         /\ Reviewed(acceptanceOf[v]) /\ acceptanceOf[v] \in Acceptance
<1>1. PICK k \in DOMAIN ledger :
        ledger[k].id.kind = "AUTHORIZED" /\ ledger[k].id.acceptance = acceptanceOf[v]
  BY DEF Given, Has, Events
<1>2. PICK j \in 1 .. k - 1 : At(j, "ACCEPTED", acceptanceOf[v], None)
  BY <1>1 DEF IInv, AuthorizedAccepted
<1>3. j \in DOMAIN ledger
  BY <1>1, <1>2 DEF IInv, TypeOK
<1>4. Has("ACCEPTED", acceptanceOf[v], None)
  BY <1>2, <1>3 DEF At, Has, Events
<1> QED BY <1>4 DEF Reviewed, Verdicts

\* An authorization in force is one of the acceptance that is on record.
LEMMA OneInForce ==
  ASSUME IInv, Due, ~overlap, NEW v \in Authorization, Given(v), NEW a \in Acceptance, Reviewed(a)
  PROVE  acceptanceOf[v] = a
BY AcceptedBefore DEF IInv, OneRelease

\* Alone, a command writes what was due when it looked and still is: its line is one
\* of the decisions, or a note that decides nothing.
LEMMA WriteDecides ==
  ASSUME IInv, Due, NEW p \in Proc, Write(p), ~overlap
  PROVE  [Decision!Next]_(Decision!release)
<1> DEFINE id == pend[p]
           verdicts == {a \in Acceptance : Reviewed(a)}
           live == {u \in Authorization : Active(u)}
           revoked == {u \in Authorization : Revoked(u)}
           closures == {s \in Acceptance \X Authorization : Has("CLOSED", s[1], s[2])}
<1>1. /\ overlap' = overlap /\ Sound(id)
      /\ id.kind \in Verdicts => \A b \in Acceptance : ~Reviewed(b)
      /\ id.kind = "AUTHORIZED" =>
           /\ ActiveFor(id.acceptance) = {} /\ ~Given(id.authorization)
           /\ Has("ACCEPTED", id.acceptance, None)
      /\ id.kind = "REVOKED" => ~Revoked(id.authorization)
      /\ id.kind = "CLOSED" =>
           /\ Closures = {} /\ ~Revoked(id.authorization)
           /\ Has("AUTHORIZED", id.acceptance, id.authorization)
  BY DEF Write, IInv, Fresh, Along, Due
<1>2. /\ \A x : Reviewed(x)' <=>
            Reviewed(x) \/ (id.kind \in Verdicts /\ id.acceptance = x /\ id.authorization = None)
      /\ \A u : Given(u)' <=>
            \/ Given(u)
            \/ id.kind = "AUTHORIZED" /\ id.acceptance = acceptanceOf[u] /\ id.authorization = u
      /\ \A u : Revoked(u)' <=>
            Revoked(u) \/ (id.kind = "REVOKED" /\ id.acceptance = None /\ id.authorization = u)
      /\ \A x, u : Has("CLOSED", x, u)' <=>
            Has("CLOSED", x, u) \/ (id.kind = "CLOSED" /\ id.acceptance = x /\ id.authorization = u)
  BY ReadAfter
<1> HIDE DEF id
<1>3. /\ id.kind \notin Verdicts => verdicts' = verdicts
      /\ id.kind \notin {"AUTHORIZED", "REVOKED"} => live' = live
      /\ id.kind # "REVOKED" => revoked' = revoked
      /\ id.kind # "CLOSED" => closures' = closures
  BY <1>2 DEF Active
<1>4. \A u, v \in Authorization : Active(u) /\ Active(v) => u = v
  <2> SUFFICES ASSUME NEW u \in Authorization, NEW v \in Authorization, Active(u), Active(v)
               PROVE  u = v
    OBVIOUS
  <2>1. acceptanceOf[v] = acceptanceOf[u] /\ acceptanceOf[u] \in Acceptance
    BY AcceptedBefore, OneInForce DEF Active
  <2> QED BY <2>1 DEF IInv, OneRelease, ActiveFor
<1>5. CASE id.kind \in Verdicts
  <2>1. id.kind \notin {"AUTHORIZED", "REVOKED", "CLOSED"}
    BY <1>5 DEF Verdicts
  <2>2. id.acceptance \in Acceptance /\ id.authorization = None
    BY <1>1, <1>5 DEF Sound
  <2>3. verdicts = {} /\ verdicts' = {id.acceptance}
    BY <1>1, <1>2, <1>5, <2>2
  <2>4. Decision!Decide(id.acceptance)
    BY <1>1, <1>3, <2>1, <2>3 DEF Decision!Decide
  <2> QED BY <2>2, <2>4 DEF Decision!Next
<1>6. CASE id.kind = "AUTHORIZED"
  <2> DEFINE u == id.authorization
  <2>1. u \in Authorization /\ id.acceptance = acceptanceOf[u] /\ id.kind \notin Verdicts
    BY <1>1, <1>6 DEF Sound, Verdicts
  <2>2. Reviewed(acceptanceOf[u]) /\ acceptanceOf[u] \in Acceptance /\ verdictOf[acceptanceOf[u]] = "ACCEPTED"
    BY <1>1, <1>6, <2>1 DEF Reviewed, Verdicts, Has, Due, Sound
  <2>3. verdicts = {acceptanceOf[u]}
    BY <2>2 DEF IInv, OneRelease
  <2>4. live = {}
    BY <1>1, <1>6, <2>1, <2>2, OneInForce DEF ActiveFor, Active
  <2>5. ~Revoked(u)
    BY <1>1, <1>6 DEF Revoked, Has, Due, Sound
  <2>6. live' = {u}
    BY <1>2, <1>6, <2>1, <2>4, <2>5 DEF Active
  <2>7. Decision!Authorize(u)
    BY <1>1, <1>3, <1>6, <2>1, <2>2, <2>3, <2>4, <2>5, <2>6 DEF Decision!Authorize
  <2> QED BY <2>1, <2>7 DEF Decision!Next
<1>7. CASE id.kind = "REVOKED"
  <2> DEFINE u == id.authorization
  <2>1. u \in Authorization /\ id.acceptance = None /\ Active(u) /\ id.kind \notin Verdicts
    BY <1>1, <1>7 DEF Sound, Active, Verdicts
  <2>2. live = {u} /\ live' = {}
    BY <1>2, <1>4, <1>7, <2>1 DEF Active
  <2>3. revoked' = revoked \cup {u}
    BY <1>2, <1>7, <2>1
  <2>4. Decision!Revoke(u)
    BY <1>1, <1>3, <1>7, <2>1, <2>2, <2>3 DEF Decision!Revoke
  <2> QED BY <2>1, <2>4 DEF Decision!Next
<1>8. CASE id.kind = "CLOSED"
  <2> DEFINE u == id.authorization
  <2>1. u \in Authorization /\ id.acceptance = acceptanceOf[u] /\ id.kind \notin Verdicts
    BY <1>1, <1>8 DEF Sound, Verdicts
  <2>2. Active(u)
    BY <1>1, <1>8, <2>1 DEF Active, Given
  <2>3. live = {u}
    BY <1>4, <2>1, <2>2
  <2>4. closures = {} /\ closures' = {<<acceptanceOf[u], u>>}
    <3>1. \A x, v : ~Has("CLOSED", x, v)
      BY <1>1, <1>8 DEF Closures, Has
    <3>2. \A x, v : Has("CLOSED", x, v)' <=> x = acceptanceOf[u] /\ v = u
      BY <1>2, <1>8, <2>1, <3>1
    <3>3. acceptanceOf[u] \in Acceptance
      BY <2>1
    <3>4. closures = {}
      BY <3>1
    <3>5. \A s \in Acceptance \X Authorization : s \in closures' <=> s = <<acceptanceOf[u], u>>
      BY <3>2
    <3>6. <<acceptanceOf[u], u>> \in Acceptance \X Authorization /\ closures' \subseteq Acceptance \X Authorization
      BY <2>1, <3>3
    <3> QED BY <3>4, <3>5, <3>6
  <2>5. Decision!Close(u)
    BY <1>1, <1>3, <1>8, <2>1, <2>3, <2>4 DEF Decision!Close
  <2> QED BY <2>1, <2>5 DEF Decision!Next
<1>9. CASE id.kind \notin Verdicts \cup {"AUTHORIZED", "REVOKED", "CLOSED"}
  BY <1>1, <1>3, <1>9 DEF Decision!release
<1> QED BY <1>5, <1>6, <1>7, <1>8, <1>9

\* Every step is a decision, the beginning of a race, or nothing.
LEMMA StepDecides == IInv /\ Due /\ [Next]_vars => [Decision!Next]_(Decision!release)
<1> SUFFICES ASSUME IInv, Due, [Next]_vars PROVE [Decision!Next]_(Decision!release)
  OBVIOUS
<1>1. ASSUME ledger' = ledger, overlap' = overlap \/ overlap' PROVE [Decision!Next]_(Decision!release)
  <2>1. \A kind, a, u : Has(kind, a, u)' = Has(kind, a, u)
    BY <1>1 DEF Has
  <2>2. UNCHANGED <<{a \in Acceptance : Reviewed(a)}, {u \in Authorization : Active(u)},
                    {u \in Authorization : Revoked(u)},
                    {s \in Acceptance \X Authorization : Has("CLOSED", s[1], s[2])}>>
    BY <2>1 DEF Reviewed, Active, Given, Revoked
  <2> QED BY <1>1, <2>2 DEF Decision!release, Decision!Next, Decision!Race
<1>2. ASSUME NEW p \in Proc, Write(p) PROVE [Decision!Next]_(Decision!release)
  <2>1. CASE overlap
    BY <1>2, <2>1 DEF Write, Decision!Next, Decision!Race
  <2> QED BY <1>2, <2>1, WriteDecides
<1>3. ASSUME NEW p \in Proc, Step(p), ~Write(p) PROVE ledger' = ledger /\ overlap' = overlap
  BY <1>3 DEF Step, Accept, Authorize, Revoke, Evaluate, Settle, Unreadable, Check, Crash
<1>4. ASSUME NEW p \in Proc, Command(p) PROVE ledger' = ledger /\ (overlap' = overlap \/ overlap')
  BY <1>4 DEF Command, Start, IInv, TypeOK
<1> QED BY <1>1, <1>2, <1>3, <1>4 DEF Next, Reconcile8D, Decide8B, vars

\* The ledger only says what was still due when it was written, for any number of
\* commands, acceptances and authorizations.
THEOREM DecisionsFollowed == Spec => FollowsDecision
<1>1. Init => Due
  BY DEF Init, InitWith, Due, Events
<1> QED BY <1>1, Inductive, DueNext, StepDecides, PTL DEF Spec, FollowsDecision

\* Stage 8E implements the release as decisions taken at once.
THEOREM DecisionImplemented == Spec => Decision!Spec
<1>1. Init => Decision!Init
  BY DEF Init, InitWith, Decision!Init, Reviewed, Active, Given, Revoked, Has, Events
<1> QED BY <1>1, DecisionsFollowed, PTL DEF Spec, Decision!Spec, FollowsDecision
=============================================================================
