---------------------------- MODULE ReleaseDecision ----------------------------
(***************************************************************************)
(* What stage 8E promises of the release of one revision, as decisions     *)
(* that are taken at once ("deterministically drives it through" review,   *)
(* authorization, readiness and closure; "append-only, idempotent,         *)
(* conflict-rejected"): one verdict; one authorization in force at a time, *)
(* only while the verdict is a full acceptance, and never the same one     *)
(* again after its revocation; one closure, under the authorization in     *)
(* force at that moment.  Nothing is promised once two commands have run   *)
(* at the same time.                                                       *)
(***************************************************************************)
CONSTANTS
  Acceptance,    \* the verdicts that can be given
  Full,          \* those of them that are a full acceptance
  Authorization, \* the authorizations that can be given
  acceptanceOf   \* the acceptance each refers to

VARIABLES
  verdicts,      \* the acceptances on record
  live,          \* the authorizations in force
  revoked,       \* the authorizations withdrawn
  closures,      \* the final closures: an acceptance and an authorization each
  raced          \* two commands have run at the same time

release == <<verdicts, live, revoked, closures, raced>>

Init == verdicts = {} /\ live = {} /\ revoked = {} /\ closures = {} /\ raced = FALSE

\* To race decides nothing; what comes after it may be anything.
Race == raced' /\ (raced \/ UNCHANGED <<verdicts, live, revoked, closures>>)

Decide(a) ==
  /\ verdicts = {} /\ verdicts' = {a}
  /\ UNCHANGED <<live, revoked, closures, raced>>

Authorize(u) ==
  /\ verdicts = {acceptanceOf[u]} /\ verdicts \subseteq Full
  /\ live = {} /\ u \notin revoked
  /\ live' = {u}
  /\ UNCHANGED <<verdicts, revoked, closures, raced>>

Revoke(u) ==
  /\ u \in live
  /\ live' = {} /\ revoked' = revoked \cup {u}
  /\ UNCHANGED <<verdicts, closures, raced>>

Close(u) ==
  /\ live = {u} /\ closures = {}
  /\ closures' = {<<acceptanceOf[u], u>>}
  /\ UNCHANGED <<verdicts, live, revoked, raced>>

Next ==
  \/ Race
  \/ \E a \in Acceptance : Decide(a)
  \/ \E u \in Authorization : Authorize(u) \/ Revoke(u) \/ Close(u)

Spec == Init /\ [][Next]_release
=============================================================================
