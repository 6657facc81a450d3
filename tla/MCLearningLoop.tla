---------------------------- MODULE MCLearningLoop ----------------------------
(***************************************************************************)
(* LearningLoop on a small instance: two projects that share a slot and a  *)
(* folder (names without a-z and 0-9, for instance, that differ in signs), *)
(* and two recommendations; from the beginning, or from a first run that   *)
(* went through without a recommendation.                                  *)
(***************************************************************************)
EXTENDS LearningLoop, TLC

CONSTANTS p1, p2, h1, h2, slot, folder, s1, s2

MCSlotOf == h1 :> slot @@ h2 :> slot
MCFolderOf == h1 :> folder @@ h2 :> folder
MCSlotOfSeed == s1 :> slot @@ s2 :> slot
FirstDone ==
  \E h \in Project :
    LET r == [project |-> h, time |-> 1, seed |-> None]
        x == <<folderOf[h], 0>>
    IN  /\ memory = <<r>> /\ acked = {r}
        /\ pending = [l \in Slot |-> None] /\ consumed = {}
        /\ dirs = {x}
        /\ archive = [y \in Places |-> IF y = x THEN [record |-> r, at |-> 1] ELSE None]
        /\ counted = [q \in Records |-> IF q = r THEN 1 ELSE 0]
        /\ now = 1 /\ runs = 0
        /\ pc = [p \in Proc |-> "idle"] /\ job = [p \in Proc |-> None]
        /\ offered = [s \in Seed |-> 0]
        /\ stray = {} /\ again = {} /\ left = {} /\ shared = {} /\ clashed = {}

MCSpec == (Init \/ FirstDone) /\ [][Next]_vars

\* What the steps and the properties read: --keep-seed of a run with a seed, a
\* directory that is chosen and not filled yet, strays not on record, and whether a
\* seed is excepted from being credited once, for whatever reason.
View ==
  <<memory, acked, seeds, archives, counted, now, pc, runs, offered, clashed,
    [p \in Proc |->
       IF job[p] = None THEN None
         ELSE [job[p] EXCEPT !.keep = @ /\ SeedOf(p) # None /\ pc[p] # "consume",
                             !.dir = IF pc[p] \in Filling THEN @ ELSE 0]],
    stray \ {memory[i].seed : i \in DOMAIN memory}, left \cup again \cup shared>>

Symmetric == Permutations(Proc) \cup Permutations(Project) \cup Permutations(Seed)
=============================================================================
