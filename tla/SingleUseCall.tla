----------------------------- MODULE SingleUseCall -----------------------------
(***************************************************************************)
(* What hvs_render_execution_service.py and the materialization service    *)
(* promise of a call that costs something ("Exactly ONE HVS render call    *)
(* may occur, guarded by single-use capability consumption"): its permit   *)
(* is spent before the call, the call is made once, and an outcome is      *)
(* final and follows the answer.  The process may die after any of these,  *)
(* which then is the last one.  Nothing is promised of a call that two     *)
(* processes work on at once.                                              *)
(***************************************************************************)
CONSTANT Key       \* what a call is made for

VARIABLE phase     \* how far the call of each key has come

Init == phase = [k \in Key |-> "new"]

Pass(k, from, to) == phase[k] = from /\ phase' = [phase EXCEPT ![k] = to]

Spend(k) == Pass(k, "new", "spent")
Ask(k) == Pass(k, "spent", "asked")

\* HVS answered ok and what it made was found good; without that only a failure.
Verify(k) == Pass(k, "asked", "verified")
Succeed(k) == Pass(k, "verified", "done")
Fail(k) == Pass(k, "asked", "failed")

Race(raced) == phase' = [k \in Key |-> IF k \in raced THEN "raced" ELSE phase[k]]

Next ==
  \/ \E raced \in SUBSET Key : Race(raced)
  \/ \E k \in Key : Spend(k) \/ Ask(k) \/ Verify(k) \/ Succeed(k) \/ Fail(k)

Spec == Init /\ [][Next]_phase
=============================================================================
