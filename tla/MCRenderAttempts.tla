--------------------------- MODULE MCRenderAttempts ---------------------------
(***************************************************************************)
(* RenderAttempts on a small instance: two revisions of one project.       *)
(***************************************************************************)
EXTENDS RenderAttempts, TLC

CONSTANTS r1, r2, video

MCProjectOf == (r1 :> video) @@ (r2 :> video)

\* What an idle process executed last has no effect on what it can do next.
View == <<store, outside, history, pc,
          [p \in Proc |-> IF pc[p] = "idle" THEN {} ELSE {plan[p]}]>>

Symmetric == Permutations(Proc) \cup Permutations(Plan)
=============================================================================
