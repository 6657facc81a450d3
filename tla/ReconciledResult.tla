---------------------------- MODULE ReconciledResult ----------------------------
(***************************************************************************)
(* What stage 8E sees of a reconciled result when it reads the stage 8D    *)
(* ledger: the interface of the two stages.  Release lets the stage move   *)
(* along Later; Reconciliation shows that its ledgers do nothing else.     *)
(***************************************************************************)

\* Not all of it is there, all of it is, or that and a refusal or failure of the
\* same result as well.
Stages8D == {"incomplete", "whole", "spoiled"}

Unreconciled == "incomplete"

\* The ledger only grows: what is found stays, and so does a refusal.
Later(stage) ==
  {next \in Stages8D : <<stage, next>> \in
     {<<"incomplete", "whole">>, <<"incomplete", "spoiled">>, <<"whole", "spoiled">>}}
=============================================================================
