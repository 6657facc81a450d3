---------------------------- MODULE MCMemoryStore ----------------------------
(***************************************************************************)
(* MemoryStore on a small instance: three records, two of one identity.    *)
(***************************************************************************)
EXTENDS MemoryStore, TLC

CONSTANTS a1, a2, b1, A, B

MCKeyOf == (a1 :> A) @@ (a2 :> A) @@ (b1 :> B)
=============================================================================
