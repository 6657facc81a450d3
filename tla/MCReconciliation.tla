--------------------------- MODULE MCReconciliation ---------------------------
(***************************************************************************)
(* Reconciliation on a small instance: one project whose first delivery d0 *)
(* is revised by v, with two results that contradict each other and one    *)
(* failed one, each of which any call may ask to be registered as any      *)
(* delivery by any evidence.  It starts with nothing requested, with the   *)
(* dispatch on record, or with a reconciliation behind it that died when   *)
(* it had registered its delivery.                                         *)
(***************************************************************************)
EXTENDS Reconciliation, TLC

CONSTANTS a, b, f, da, v, d0, d1, d2

MCDispatchOf == a :> da @@ b :> da @@ f :> da
MCRevisionOf == da :> v
MCOriginalOf == v :> d0

\* Processes, evidences and stamps are interchangeable, and so are the two
\* contradicting results and the two deliveries that are not the project's first.
Symmetric == Permutations(Proc) \cup Permutations(Stamp) \cup Permutations(Evidence)
               \cup Permutations({a, b}) \cup Permutations({d1, d2})

Dispatched == \E t \in Stamp : InitWith(Begun, <<DispatchEvent("CREATED", da, t, t)>>)

HalfDone == \E t \in Stamp, d \in {d1, d2}, e \in Evidence :
  InitWith(Begun \o <<LineageEvent("REQUESTED", d, d0, 2, None, t),
                     LineageEvent("REGISTERED", d, d0, 2, e, t)>>,
           <<DispatchEvent("CREATED", da, t, t)>>)

MCSpec == (Init \/ Dispatched \/ HalfDone) /\ [][Next]_vars
=============================================================================
