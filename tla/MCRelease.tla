------------------------------ MODULE MCRelease ------------------------------
(***************************************************************************)
(* Release on a small instance: a full and a partial acceptance, and two   *)
(* authorizations of the full one.                                         *)
(***************************************************************************)
EXTENDS Release, TLC

CONSTANTS p1, p2, full, part, u1, u2

MCVerdictOf == full :> "ACCEPTED" @@ part :> "PARTIALLY_ACCEPTED"
MCAcceptanceOf == u1 :> full @@ u2 :> full

Symmetric == Permutations({p1, p2}) \cup Permutations({u1, u2})

\* Where two and where three commands lead to from Init.  Starting there, too,
\* leaves MaxCalls for a second closure with a revocation before it.
Released ==
  <<Event(Timed("ACCEPTED", full, None, 1), 1), Event(Timed("AUTHORIZED", full, u1, 1), 1)>>
Finished == Append(Released, Event(Timed("CLOSED", full, u1, 1), 1))

MCInit == Init \/ InitWith(Released, "whole") \/ InitWith(Finished, "whole")

MCSpec == MCInit /\ [][Next]_vars
=============================================================================
