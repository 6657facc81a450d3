--------------------------- MODULE MCMaterialization ---------------------------
(***************************************************************************)
(* Materialization on a small instance.                                     *)
(***************************************************************************)
EXTENDS Materialization, TLC

CONSTANTS p1, p2, c1, c2, a1, a2

Symmetric == Permutations({p1, p2}) \cup Permutations({c1, c2}) \cup Permutations({a1, a2})

\* Once the last run has started no step reads the authorizations any more.
Relevant ==
  <<IF runs = MaxRuns THEN {} ELSE granted, cap, state, tree, pc, locals, runs, history>>
=============================================================================
