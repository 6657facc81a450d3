-------------------------- MODULE LearningLoop_proofs --------------------------
(***************************************************************************)
(* Proofs about LearningLoop: its inductive invariant, one lemma for every *)
(* action, and from it the properties that MCLearningLoop.cfg checks.      *)
(***************************************************************************)
EXTENDS LearningLoop, TLAPS

USE LoopAssumption

(* Types and places.                                                       *)

\* What a run at work has in its job.
LEMMA JobTypes ==
  ASSUME TypeOK, NEW p \in Proc, pc[p] # "idle", Along(p)
  PROVE  /\ job[p] \in Jobs /\ job[p].dir \in Versions
         /\ RecordOf(p) \in Records /\ RecordOf(p).project \in Project
         /\ RecordOf(p).seed \in MaybeSeed
         /\ Place(p) \in Places /\ Place(p) = <<folderOf[RecordOf(p).project], job[p].dir>>
BY DEF Along, Jobs, Records, RecordOf, Place, Places, Versions

\* What it means for the memory that a record is added.
LEMMA AddMeans ==
  ASSUME TypeOK, Memory!NothingLost, NEW r \in Records, Memory!Add(r)
  PROVE  /\ memory' \in Seq(Records) /\ acked' = acked
         /\ \A i \in DOMAIN memory :
              /\ i \in DOMAIN memory' /\ memory'[i] = memory[i]
              /\ memory[i] \in Records /\ memory[i] # r
              /\ ~(memory[i].project = r.project /\ memory[i].time = r.time)
         /\ \A i \in DOMAIN memory' : i \in DOMAIN memory \/ i = Len(memory) + 1
         /\ Len(memory) + 1 \in DOMAIN memory' /\ memory'[Len(memory) + 1] = r
         /\ r \notin acked
<1>1. memory \in Seq(Records) /\ acked \subseteq Records
  BY DEF TypeOK, Memory!LogTypeOK
<1>2. memory' = Append(memory, r) /\ acked' = acked
  BY DEF Memory!Add
<1>3. \A i \in DOMAIN memory :
        /\ i \in DOMAIN memory' /\ memory'[i] = memory[i] /\ memory[i] \in Records
  BY <1>1, <1>2
<1>4. ASSUME NEW i \in DOMAIN memory
      PROVE  ~(memory[i].project = r.project /\ memory[i].time = r.time)
  <2>1. KeyOf[memory[i]] # KeyOf[r]
    BY DEF Memory!Add, Memory!Holds
  <2>2. KeyOf[memory[i]] = <<memory[i].project, memory[i].time>> /\ KeyOf[r] = <<r.project, r.time>>
    BY <1>3 DEF KeyOf
  <2> QED BY <2>1, <2>2
<1>5. r \notin acked
  BY <1>4 DEF Memory!NothingLost, Memory!Entries
<1>6. /\ memory' \in Seq(Records)
      /\ \A i \in DOMAIN memory' : i \in DOMAIN memory \/ i = Len(memory) + 1
      /\ Len(memory) + 1 \in DOMAIN memory' /\ memory'[Len(memory) + 1] = r
  BY <1>1, <1>2
<1> QED BY <1>2, <1>3, <1>4, <1>5, <1>6

(* One lemma for every action.                                             *)

\* The clock is in no part of the invariant but the types.
LEMMA TickKeeps ==
  ASSUME IInv, Tick
  PROVE  IInv'
<1> USE DEF RecordOf, SeedOf, SlotFor, Goto, Leave, seeds, archives, history
<1>1. TypeOK'
  BY DEF IInv, TypeOK, Memory!LogTypeOK, Recorded, Tick
<1>2. (Memory!OnePerKey /\ Memory!NothingLost)'
  BY DEF IInv, Memory!OnePerKey, Memory!NothingLost, Memory!Entries, Tick
<1>3. FollowsMemory'
  BY DEF IInv, FollowsMemory, Along, TypeOK, Recorded, Acknowledged, Tick
<1>4. CreditedOnce'
  BY DEF IInv, CreditedOnce, Tick
<1>5. ConsumedWasUsed'
  BY DEF IInv, ConsumedWasUsed, Tick
<1>6. (\A q \in Proc : Along(q))'
  BY DEF IInv, Along, Recorded, Acknowledged, TypeOK, Memory!Entries, Tick
<1>7. OwnRecords'
  BY DEF IInv, OwnRecords, Recorded, TypeOK, Tick
<1>8. SharesNoted'
  BY DEF IInv, SharesNoted, TypeOK, Tick
<1>9. SeedsAtHome'
  BY DEF IInv, SeedsAtHome, AtHome, TypeOK, Tick
<1>10. RetiredOrOnTheWay'
  BY DEF IInv, RetiredOrOnTheWay, Orderly, Recorded, TypeOK, Tick
<1>11. NotYetCredited'
  BY DEF IInv, NotYetCredited, Orderly, TypeOK, Tick
<1>12. StraysNoted'
  BY DEF IInv, StraysNoted, TypeOK, Tick
<1>13. PlacesKept'
  <2>1. /\ now' = now + 1 /\ now \in Nat /\ archive' = archive /\ dirs' = dirs
        /\ clashed' = clashed /\ pc' = pc /\ job' = job
    BY DEF IInv, TypeOK, Tick
  <2>2. \A x \in Places : archive[x] # None => archive[x].at \in Nat
    BY DEF IInv, TypeOK, Manifests
  <2>3. \A q \in Proc : pc[q] \in Filling => job[q].dir \in Nat
    BY JobTypes DEF IInv, Filling, Versions
  <2> QED BY <2>1, <2>2, <2>3 DEF IInv, PlacesKept, Place
<1> QED
  BY <1>1, <1>2, <1>3, <1>4, <1>5, <1>6, <1>7, <1>8, <1>9, <1>10, <1>11, <1>12, <1>13 DEF IInv

\* A fresh seed is on record nowhere; runs of its project see it as a stray.
LEMMA RecommendKeeps ==
  ASSUME IInv, NEW s \in Seed, Recommend(s)
  PROVE  IInv'
<1> USE DEF RecordOf, SeedOf, SlotFor, Goto, Leave, seeds, archives, history
<1>1. TypeOK'
  BY DEF IInv, TypeOK, Memory!LogTypeOK, Recorded, MaybeSeed, Jobs, Versions, Recommend
<1>2. (Memory!OnePerKey /\ Memory!NothingLost)'
  BY DEF IInv, Memory!OnePerKey, Memory!NothingLost, Memory!Entries, Recommend
<1>3. FollowsMemory'
  BY DEF IInv, FollowsMemory, Along, TypeOK, Recorded, Acknowledged, Recommend
<1>4. CreditedOnce'
  BY DEF IInv, CreditedOnce, Recommend
<1>5. ConsumedWasUsed'
  BY DEF IInv, ConsumedWasUsed, Recommend
<1>6. (\A q \in Proc : Along(q))'
  BY DEF IInv, Along, Recorded, Acknowledged, TypeOK, Memory!Entries, Recommend
<1>7. OwnRecords'
  BY DEF IInv, OwnRecords, Recorded, TypeOK, Recommend
<1>8. SharesNoted'
  BY DEF IInv, SharesNoted, TypeOK, Recommend
<1>9. SeedsAtHome'
  BY DEF IInv, SeedsAtHome, AtHome, TypeOK, Recommend
<1>10. RetiredOrOnTheWay'
  <2> SUFFICES ASSUME NEW i \in DOMAIN memory, Orderly(memory[i].seed)',
                      pending'[slotOfSeed[memory[i].seed]] = memory[i].seed
               PROVE  \E q \in Proc : pc[q] \in Recorded /\ RecordOf(q) = memory[i]
    BY DEF RetiredOrOnTheWay, Recommend
  <2> DEFINE m == memory[i].seed
  <2>1. m \in Seed /\ Orderly(m)
    BY DEF Orderly, Recommend
  <2>2. m # s
    BY <2>1 DEF IInv, SeedsAtHome, AtHome, Orderly, Recommend
  <2>3. pending[slotOfSeed[m]] = m
    BY <2>1, <2>2 DEF IInv, TypeOK, Recommend
  <2> QED BY <2>1, <2>3 DEF IInv, RetiredOrOnTheWay
<1>11. NotYetCredited'
  BY DEF IInv, NotYetCredited, Orderly, TypeOK, Recommend
<1>12. StraysNoted'
  BY DEF IInv, StraysNoted, TypeOK, Recommend
<1>13. PlacesKept'
  BY DEF IInv, PlacesKept, Place, Filling, TypeOK, Recommend
<1> QED
  BY <1>1, <1>2, <1>3, <1>4, <1>5, <1>6, <1>7, <1>8, <1>9, <1>10, <1>11, <1>12, <1>13 DEF IInv

\* A pending seed less.
LEMMA CleanUpKeeps ==
  ASSUME IInv, NEW k \in Slot, CleanUp(k)
  PROVE  IInv'
<1> USE DEF RecordOf, SeedOf, SlotFor, Goto, Leave, seeds, archives, history
<1>1. TypeOK'
  BY DEF IInv, TypeOK, Memory!LogTypeOK, Recorded, MaybeSeed, Jobs, Versions, CleanUp
<1>2. (Memory!OnePerKey /\ Memory!NothingLost)'
  BY DEF IInv, Memory!OnePerKey, Memory!NothingLost, Memory!Entries, CleanUp
<1>3. FollowsMemory'
  BY DEF IInv, FollowsMemory, Along, TypeOK, Recorded, Acknowledged, CleanUp
<1>4. CreditedOnce'
  BY DEF IInv, CreditedOnce, CleanUp
<1>5. ConsumedWasUsed'
  BY DEF IInv, ConsumedWasUsed, CleanUp
<1>6. (\A q \in Proc : Along(q))'
  BY DEF IInv, Along, Recorded, Acknowledged, TypeOK, Memory!Entries, CleanUp
<1>7. OwnRecords'
  BY DEF IInv, OwnRecords, Recorded, TypeOK, CleanUp
<1>8. SharesNoted'
  BY DEF IInv, SharesNoted, TypeOK, CleanUp
<1>9. SeedsAtHome'
  BY DEF IInv, SeedsAtHome, AtHome, TypeOK, CleanUp
<1>10. RetiredOrOnTheWay'
  BY DEF IInv, RetiredOrOnTheWay, Orderly, Recorded, TypeOK, CleanUp
<1>11. NotYetCredited'
  BY DEF IInv, NotYetCredited, Orderly, TypeOK, CleanUp
<1>12. StraysNoted'
  BY DEF IInv, StraysNoted, TypeOK, CleanUp
<1>13. PlacesKept'
  BY DEF IInv, PlacesKept, Place, Filling, TypeOK, CleanUp
<1> QED
  BY <1>1, <1>2, <1>3, <1>4, <1>5, <1>6, <1>7, <1>8, <1>9, <1>10, <1>11, <1>12, <1>13 DEF IInv

\* A pending seed that is on record already is being retired by a run: a
\* second one that starts from it makes it shared.
LEMMA StartKeeps ==
  ASSUME IInv, NEW p \in Proc, NEW h \in Project, NEW s \in MaybeSeed,
         NEW t \in 1..now, NEW keep \in BOOLEAN, Start(p, h, s, t, keep)
  PROVE  IInv'
<1> USE DEF RecordOf, SeedOf, SlotFor, Goto, Leave, seeds, archives, history
<1>1. TypeOK'
  <2>1. [record |-> [project |-> h, time |-> t, seed |-> s], keep |-> keep, dir |-> 0] \in Jobs
    BY DEF IInv, TypeOK, Jobs, Records, Versions
  <2> QED BY <2>1 DEF IInv, TypeOK, Memory!LogTypeOK, Recorded, MaybeSeed, Start
<1>2. (Memory!OnePerKey /\ Memory!NothingLost)'
  BY DEF IInv, Memory!OnePerKey, Memory!NothingLost, Memory!Entries, Start
<1>3. FollowsMemory'
  BY DEF IInv, FollowsMemory, Along, TypeOK, Recorded, Acknowledged, Start
<1>4. CreditedOnce'
  BY DEF IInv, CreditedOnce, Start
<1>5. ConsumedWasUsed'
  BY DEF IInv, ConsumedWasUsed, Start
<1>6. (\A q \in Proc : Along(q))'
  <2>1. [record |-> [project |-> h, time |-> t, seed |-> s], keep |-> keep, dir |-> 0] \in Jobs
    BY DEF IInv, TypeOK, Jobs, Records, Versions
  <2>2. Along(p)'
    BY <2>1 DEF IInv, Along, TypeOK, Recorded, Acknowledged, Start
  <2>3. ASSUME NEW q \in Proc, q # p PROVE Along(q)'
    BY <2>3 DEF IInv, Along, TypeOK, Memory!Entries, Start
  <2> QED BY <2>2, <2>3
<1>7. OwnRecords'
  BY DEF IInv, OwnRecords, Recorded, TypeOK, Start
<1>8. SharesNoted'
  BY DEF IInv, SharesNoted, TypeOK, Start
<1>9. SeedsAtHome'
  BY DEF IInv, SeedsAtHome, AtHome, TypeOK, Start
<1>10. RetiredOrOnTheWay'
  BY DEF IInv, RetiredOrOnTheWay, Orderly, Recorded, TypeOK, Start
<1>11. NotYetCredited'
  <2> SUFFICES ASSUME NEW q \in Proc, NEW i \in DOMAIN memory, pc'[q] = "append",
                      Orderly(job[q].record.seed)', memory[i].seed = job'[q].record.seed
               PROVE  FALSE
    BY DEF NotYetCredited, Start
  <2>1. CASE q # p
    BY <2>1 DEF IInv, NotYetCredited, Orderly, TypeOK, Start
  <2>2. CASE q = p
    <3>1. memory[i].seed = s /\ s \in Seed /\ s \notin left \cup again' \cup shared'
      BY <2>2 DEF IInv, TypeOK, Orderly, Start
    <3>2. s = pending[slotOf[h]] /\ Orderly(s)
      BY <3>1 DEF Orderly, Start
    <3>3. slotOfSeed[s] = slotOf[h]
      BY <3>1, <3>2 DEF IInv, SeedsAtHome
    <3>4. PICK r \in Proc : pc[r] \in Recorded /\ RecordOf(r) = memory[i]
      BY <3>1, <3>2, <3>3 DEF IInv, RetiredOrOnTheWay
    <3>5. pc[r] # "idle" /\ SeedOf(r) = s
      BY <3>1, <3>4 DEF Recorded
    <3> QED BY <3>1, <3>5 DEF Start
  <2> QED BY <2>1, <2>2
<1>12. StraysNoted'
  BY DEF IInv, StraysNoted, TypeOK, Start
<1>13. PlacesKept'
  BY DEF IInv, PlacesKept, Place, Filling, TypeOK, Start
<1> QED
  BY <1>1, <1>2, <1>3, <1>4, <1>5, <1>6, <1>7, <1>8, <1>9, <1>10, <1>11, <1>12, <1>13 DEF IInv

\* The record is new, and so is the credit of its seed.
LEMMA AddKeeps ==
  ASSUME IInv, NEW p \in Proc, pc[p] = "append", Memory!Add(RecordOf(p)), Goto(p, "acknowledge"),
         UNCHANGED <<job, seeds, archives, counted, now, runs, history>>
  PROVE  IInv'
<1> USE DEF RecordOf, SeedOf, SlotFor, Goto, Leave, seeds, archives, history
<1>1. /\ job[p] \in Jobs /\ job[p].dir \in Versions
      /\ RecordOf(p) \in Records /\ RecordOf(p).project \in Project
      /\ RecordOf(p).seed \in MaybeSeed
      /\ Place(p) \in Places /\ Place(p) = <<folderOf[RecordOf(p).project], job[p].dir>>
  BY JobTypes DEF IInv
<1>2. /\ memory' \in Seq(Records) /\ acked' = acked
      /\ \A i \in DOMAIN memory :
           /\ i \in DOMAIN memory' /\ memory'[i] = memory[i]
           /\ memory[i] \in Records /\ memory[i] # RecordOf(p)
           /\ ~(memory[i].project = RecordOf(p).project /\ memory[i].time = RecordOf(p).time)
      /\ \A i \in DOMAIN memory' : i \in DOMAIN memory \/ i = Len(memory) + 1
      /\ Len(memory) + 1 \in DOMAIN memory' /\ memory'[Len(memory) + 1] = RecordOf(p)
      /\ RecordOf(p) \notin acked
  BY <1>1, AddMeans DEF IInv
<1>3. TypeOK'
  BY <1>1, <1>2 DEF IInv, TypeOK, Memory!LogTypeOK, Recorded
<1>4. (Memory!OnePerKey /\ Memory!NothingLost)'
  <2>1. \A i \in DOMAIN memory' :
          KeyOf[memory'[i]] = <<memory'[i].project, memory'[i].time>>
    BY <1>1, <1>2 DEF KeyOf
  <2>2. \A i \in DOMAIN memory : KeyOf[memory[i]] = <<memory[i].project, memory[i].time>>
    BY <1>2 DEF KeyOf
  <2>3. Memory!OnePerKey'
    BY <1>2, <2>1, <2>2 DEF IInv, Memory!OnePerKey
  <2>4. Memory!NothingLost'
    BY <1>2 DEF IInv, Memory!NothingLost, Memory!Entries
  <2> QED BY <2>3, <2>4
<1>5. FollowsMemory'
  BY <1>2 DEF IInv, FollowsMemory, Along, TypeOK, Recorded, Acknowledged
<1>6. CreditedOnce'
  <2>1. ASSUME NEW i \in DOMAIN memory, memory[i].seed = RecordOf(p).seed,
               memory[i].seed \notin left \cup again \cup shared \cup {None}
        PROVE  FALSE
    <3>1. Orderly(RecordOf(p).seed)
      BY <1>1, <2>1 DEF Orderly, MaybeSeed
    <3> QED BY <2>1, <3>1 DEF IInv, NotYetCredited
  <2> QED BY <1>2, <2>1 DEF IInv, CreditedOnce
<1>7. ConsumedWasUsed'
  BY <1>2 DEF IInv, ConsumedWasUsed
<1>8. (\A q \in Proc : Along(q))'
  <2>1. Memory!Entries(memory)' = Memory!Entries(memory) \cup {RecordOf(p)}
    BY <1>2 DEF Memory!Entries
  <2>2. counted[RecordOf(p)] = 0
    BY <1>1, <1>2 DEF IInv, FollowsMemory, TypeOK
  <2>3. Along(p)'
    BY <1>1, <2>1, <2>2 DEF IInv, Along, Recorded, Acknowledged, TypeOK
  <2>4. ASSUME NEW q \in Proc, q # p PROVE Along(q)'
    BY <1>2, <2>1, <2>4 DEF IInv, Along, TypeOK
  <2> QED BY <2>3, <2>4
<1>9. OwnRecords'
  <2>1. ASSUME NEW q \in Proc, pc[q] \in Recorded PROVE RecordOf(q) # RecordOf(p)
    BY <1>2, <2>1 DEF IInv, Along, Memory!Entries
  <2> QED BY <2>1 DEF IInv, OwnRecords, TypeOK
<1>10. SharesNoted'
  BY <1>2 DEF IInv, SharesNoted, TypeOK
<1>11. SeedsAtHome'
  <2>1. \A i \in DOMAIN memory' : AtHome(memory'[i].seed, memory'[i].project)
    BY <1>2 DEF IInv, SeedsAtHome
  <2> QED BY <2>1 DEF IInv, SeedsAtHome, AtHome, TypeOK
<1>12. RetiredOrOnTheWay'
  <2> SUFFICES ASSUME NEW i \in DOMAIN memory', Orderly(memory'[i].seed),
                      pending[slotOfSeed[memory'[i].seed]] = memory'[i].seed
               PROVE  \E q \in Proc : pc'[q] \in Recorded /\ RecordOf(q) = memory'[i]
    BY DEF RetiredOrOnTheWay, Orderly
  <2>1. CASE i \in DOMAIN memory
    <3>1. PICK q \in Proc : pc[q] \in Recorded /\ RecordOf(q) = memory[i]
      BY <1>2, <2>1 DEF IInv, RetiredOrOnTheWay
    <3>2. pc'[q] \in Recorded
      BY <3>1 DEF IInv, TypeOK, Recorded
    <3> QED BY <1>2, <2>1, <3>1, <3>2
  <2>2. CASE i = Len(memory) + 1
    <3>1. pc'[p] \in Recorded
      BY DEF IInv, TypeOK, Recorded
    <3> QED BY <1>2, <2>2, <3>1
  <2> QED BY <1>2, <2>1, <2>2
<1>13. NotYetCredited'
  <2>1. ASSUME NEW q \in Proc, q # p, pc[q] = "append", Orderly(RecordOf(q).seed),
               RecordOf(p).seed = RecordOf(q).seed
        PROVE  FALSE
    BY <2>1 DEF IInv, SharesNoted, Orderly
  <2>2. \A q \in Proc : pc'[q] = "append" => q # p /\ pc[q] = "append"
    BY DEF IInv, TypeOK
  <2> QED BY <1>2, <2>1, <2>2 DEF IInv, NotYetCredited, Orderly
<1>14. StraysNoted'
  BY <1>2 DEF IInv, StraysNoted, TypeOK
<1>15. PlacesKept'
  BY <1>2 DEF IInv, PlacesKept, Place, Filling, TypeOK
<1> QED
  BY <1>3, <1>4, <1>5, <1>6, <1>7, <1>8, <1>9, <1>10, <1>11, <1>12, <1>13, <1>14, <1>15 DEF IInv

\* A refused run has left nothing behind.
LEMMA RefuseKeeps ==
  ASSUME IInv, NEW p \in Proc, pc[p] = "append", Leave(p),
         UNCHANGED <<memory, acked, seeds, archives, counted, now, runs, history>>
  PROVE  IInv'
<1> USE DEF RecordOf, SeedOf, SlotFor, Goto, Leave, seeds, archives, history
<1>1. /\ job[p] \in Jobs /\ job[p].dir \in Versions
      /\ RecordOf(p) \in Records /\ RecordOf(p).project \in Project
      /\ RecordOf(p).seed \in MaybeSeed
      /\ Place(p) \in Places /\ Place(p) = <<folderOf[RecordOf(p).project], job[p].dir>>
  BY JobTypes DEF IInv
<1>2. TypeOK'
  BY <1>1 DEF IInv, TypeOK, Memory!LogTypeOK, Recorded
<1>3. (Memory!OnePerKey /\ Memory!NothingLost)'
  BY <1>1 DEF IInv, Memory!OnePerKey, Memory!NothingLost, Memory!Entries
<1>4. FollowsMemory'
  BY <1>1 DEF IInv, FollowsMemory, Along, TypeOK, Recorded, Acknowledged
<1>5. CreditedOnce'
  BY <1>1 DEF IInv, CreditedOnce
<1>6. ConsumedWasUsed'
  BY <1>1 DEF IInv, ConsumedWasUsed
<1>7. (\A q \in Proc : Along(q))'
  BY <1>1 DEF IInv, Along, Recorded, Acknowledged, TypeOK, Memory!Entries
<1>8. OwnRecords'
  BY <1>1 DEF IInv, OwnRecords, Recorded, TypeOK
<1>9. SharesNoted'
  BY <1>1 DEF IInv, SharesNoted, TypeOK
<1>10. SeedsAtHome'
  BY <1>1 DEF IInv, SeedsAtHome, AtHome, TypeOK
<1>11. RetiredOrOnTheWay'
  BY <1>1 DEF IInv, RetiredOrOnTheWay, Orderly, Recorded, TypeOK
<1>12. NotYetCredited'
  BY <1>1 DEF IInv, NotYetCredited, Orderly, TypeOK
<1>13. StraysNoted'
  BY <1>1 DEF IInv, StraysNoted, TypeOK
<1>14. PlacesKept'
  BY <1>1 DEF IInv, PlacesKept, Place, Filling, TypeOK
<1> QED
  BY <1>2, <1>3, <1>4, <1>5, <1>6, <1>7, <1>8, <1>9, <1>10, <1>11, <1>12, <1>13, <1>14 DEF IInv

\* One more acknowledged record, which is in the memory.
LEMMA AcknowledgeKeeps ==
  ASSUME IInv, NEW p \in Proc, Acknowledge(p)
  PROVE  IInv'
<1> USE DEF RecordOf, SeedOf, SlotFor, Goto, Leave, seeds, archives, history
<1>1. /\ job[p] \in Jobs /\ job[p].dir \in Versions
      /\ RecordOf(p) \in Records /\ RecordOf(p).project \in Project
      /\ RecordOf(p).seed \in MaybeSeed
      /\ Place(p) \in Places /\ Place(p) = <<folderOf[RecordOf(p).project], job[p].dir>>
  BY JobTypes DEF IInv, Acknowledge
<1>2. TypeOK'
  BY <1>1 DEF IInv, TypeOK, Memory!LogTypeOK, Recorded, Acknowledge, Memory!Acknowledge
<1>3. (Memory!OnePerKey /\ Memory!NothingLost)'
  BY <1>1 DEF IInv, Memory!OnePerKey, Memory!NothingLost, Memory!Entries, Acknowledge, Memory!Acknowledge
<1>4. FollowsMemory'
  BY <1>1 DEF IInv, FollowsMemory, Along, TypeOK, Recorded, Acknowledged, Acknowledge, Memory!Acknowledge
<1>5. CreditedOnce'
  BY <1>1 DEF IInv, CreditedOnce, Acknowledge, Memory!Acknowledge
<1>6. ConsumedWasUsed'
  BY <1>1 DEF IInv, ConsumedWasUsed, Acknowledge, Memory!Acknowledge
<1>7. (\A q \in Proc : Along(q))'
  BY <1>1 DEF IInv, Along, Recorded, Acknowledged, TypeOK, Memory!Entries, Acknowledge, Memory!Acknowledge
<1>8. OwnRecords'
  BY <1>1 DEF IInv, OwnRecords, Recorded, TypeOK, Acknowledge
<1>9. SharesNoted'
  BY <1>1 DEF IInv, SharesNoted, TypeOK, Acknowledge
<1>10. SeedsAtHome'
  BY <1>1 DEF IInv, SeedsAtHome, AtHome, TypeOK, Acknowledge, Memory!Acknowledge
<1>11. RetiredOrOnTheWay'
  BY <1>1 DEF IInv, RetiredOrOnTheWay, Orderly, Recorded, TypeOK, Acknowledge, Memory!Acknowledge
<1>12. NotYetCredited'
  BY <1>1 DEF IInv, NotYetCredited, Orderly, TypeOK, Acknowledge, Memory!Acknowledge
<1>13. StraysNoted'
  BY <1>1 DEF IInv, StraysNoted, TypeOK, Acknowledge
<1>14. PlacesKept'
  BY <1>1 DEF IInv, PlacesKept, Place, Filling, TypeOK, Acknowledge
<1> QED
  BY <1>2, <1>3, <1>4, <1>5, <1>6, <1>7, <1>8, <1>9, <1>10, <1>11, <1>12, <1>13, <1>14 DEF IInv

\* The plain directory is chosen only where there is none.
LEMMA LookKeeps ==
  ASSUME IInv, NEW p \in Proc, Look(p)
  PROVE  IInv'
<1> USE DEF RecordOf, SeedOf, SlotFor, Goto, Leave, seeds, archives, history
<1>1. /\ job[p] \in Jobs /\ job[p].dir \in Versions
      /\ RecordOf(p) \in Records /\ RecordOf(p).project \in Project
      /\ RecordOf(p).seed \in MaybeSeed
      /\ Place(p) \in Places /\ Place(p) = <<folderOf[RecordOf(p).project], job[p].dir>>
  BY JobTypes DEF IInv, Look
<1>2. TypeOK'
  <2>1. job'[p] \in Jobs /\ job' \in [Proc -> Jobs \cup {None}]
    BY <1>1 DEF IInv, TypeOK, Jobs, Versions, Places, Look, Choose
  <2>2. clashed' \subseteq Places
    BY <1>1 DEF IInv, TypeOK, Places, Versions, Look, Choose
  <2> QED BY <2>1, <2>2 DEF IInv, TypeOK, Memory!LogTypeOK, Recorded, Look
<1>3. (Memory!OnePerKey /\ Memory!NothingLost)'
  BY <1>1 DEF IInv, Memory!OnePerKey, Memory!NothingLost, Memory!Entries, Look, Choose
<1>4. FollowsMemory'
  BY <1>1 DEF IInv, FollowsMemory, Along, TypeOK, Recorded, Acknowledged, Look, Choose
<1>5. CreditedOnce'
  BY <1>1 DEF IInv, CreditedOnce, Look, Choose
<1>6. ConsumedWasUsed'
  BY <1>1 DEF IInv, ConsumedWasUsed, Look, Choose
<1>7. (\A q \in Proc : Along(q))'
  <2>1. job'[p] \in Jobs /\ job'[p].record = job[p].record
    BY <1>1 DEF IInv, TypeOK, Jobs, Versions, Places, Look, Choose
  <2>2. Along(p)'
    BY <2>1 DEF IInv, Along, Recorded, Acknowledged, TypeOK, Memory!Entries, Look, Choose
  <2>3. ASSUME NEW q \in Proc, q # p PROVE Along(q)'
    BY <2>3 DEF IInv, Along, TypeOK, Memory!Entries, Look, Choose
  <2> QED BY <2>2, <2>3
<1>8. OwnRecords'
  BY <1>1 DEF IInv, OwnRecords, Recorded, TypeOK, Look, Choose
<1>9. SharesNoted'
  BY <1>1 DEF IInv, SharesNoted, TypeOK, Look, Choose
<1>10. SeedsAtHome'
  BY <1>1 DEF IInv, SeedsAtHome, AtHome, TypeOK, Look, Choose
<1>11. RetiredOrOnTheWay'
  BY <1>1 DEF IInv, RetiredOrOnTheWay, Orderly, Recorded, TypeOK, Look, Choose
<1>12. NotYetCredited'
  BY <1>1 DEF IInv, NotYetCredited, Orderly, TypeOK, Look, Choose
<1>13. StraysNoted'
  BY <1>1 DEF IInv, StraysNoted, TypeOK, Look, Choose
<1>14. PlacesKept'
  <2> DEFINE f == folderOf[RecordOf(p).project]
  <2> DEFINE v == IF <<f, 0>> \in dirs THEN now ELSE 0
  <2>1. /\ job'[p].dir = v /\ Place(p)' = <<f, v>>
        /\ v \in Versions /\ v <= now /\ <<f, v>> \in Places /\ <<f, 0>> \in Places
    BY <1>1 DEF IInv, TypeOK, Jobs, Place, Places, Versions, Look, Choose
  <2>2. \A q \in Proc \ {p} : Place(q)' = Place(q) /\ job'[q] = job[q] /\ pc'[q] = pc[q]
    BY DEF IInv, TypeOK, Place, Look, Choose
  <2>3. /\ archive[<<f, v>>] # None => v # 0 /\ archive[<<f, v>>].at = v
    <3> SUFFICES ASSUME archive[<<f, v>>] # None PROVE v # 0 /\ archive[<<f, v>>].at = v
      OBVIOUS
    <3>1. <<f, v>> \in dirs /\ v <= archive[<<f, v>>].at /\ archive[<<f, v>>].at <= now
      BY <2>1 DEF IInv, PlacesKept
    <3>2. archive[<<f, v>>].at \in Nat /\ now \in Nat \ {0}
      BY <2>1 DEF IInv, TypeOK, Manifests
    <3> QED BY <3>1, <3>2
  <2>4. clashed \subseteq clashed'
    BY DEF Look, Choose
  <2>5. \A q \in Proc \ {p} : pc[q] \in Filling /\ Place(q) = <<f, v>> => <<f, v>> \in clashed'
    BY DEF Look, Choose, Filling
  <2>6. pc'[p] = "mkdir" /\ pc' = [pc EXCEPT ![p] = "mkdir"] /\ archive' = archive /\ dirs' = dirs /\ now' = now
    BY DEF IInv, TypeOK, Look, Choose
  <2>7. \A q \in Proc :
          /\ pc'[q] = "fill" => Place(q)' \in dirs
          /\ pc'[q] \in Filling => job'[q].dir <= now
    BY <2>1, <2>2, <2>6 DEF IInv, PlacesKept, Filling
  <2>8. \A q \in Proc :
          pc'[q] \in Filling /\ Place(q)' \notin clashed' /\ archive[Place(q)'] # None
            => job'[q].dir # 0 /\ archive[Place(q)'].at = job'[q].dir
    BY <2>1, <2>2, <2>3, <2>4 DEF IInv, PlacesKept
  <2>9. \A q, r \in Proc :
          pc'[q] \in Filling /\ pc'[r] \in Filling /\ Place(q)' = Place(r)'
            => q = r \/ Place(q)' \in clashed'
    BY <2>1, <2>2, <2>4, <2>5 DEF IInv, PlacesKept
  <2> QED BY <2>6, <2>7, <2>8, <2>9 DEF IInv, PlacesKept, Filling
<1> QED
  BY <1>2, <1>3, <1>4, <1>5, <1>6, <1>7, <1>8, <1>9, <1>10, <1>11, <1>12, <1>13, <1>14 DEF IInv

\* A directory more.
LEMMA MkdirKeeps ==
  ASSUME IInv, NEW p \in Proc, Mkdir(p)
  PROVE  IInv'
<1> USE DEF RecordOf, SeedOf, SlotFor, Goto, Leave, seeds, archives, history
<1>1. /\ job[p] \in Jobs /\ job[p].dir \in Versions
      /\ RecordOf(p) \in Records /\ RecordOf(p).project \in Project
      /\ RecordOf(p).seed \in MaybeSeed
      /\ Place(p) \in Places /\ Place(p) = <<folderOf[RecordOf(p).project], job[p].dir>>
  BY JobTypes DEF IInv, Mkdir
<1>2. TypeOK'
  BY <1>1 DEF IInv, TypeOK, Memory!LogTypeOK, Recorded, Mkdir
<1>3. (Memory!OnePerKey /\ Memory!NothingLost)'
  BY <1>1 DEF IInv, Memory!OnePerKey, Memory!NothingLost, Memory!Entries, Mkdir
<1>4. FollowsMemory'
  BY <1>1 DEF IInv, FollowsMemory, Along, TypeOK, Recorded, Acknowledged, Mkdir
<1>5. CreditedOnce'
  BY <1>1 DEF IInv, CreditedOnce, Mkdir
<1>6. ConsumedWasUsed'
  BY <1>1 DEF IInv, ConsumedWasUsed, Mkdir
<1>7. (\A q \in Proc : Along(q))'
  BY <1>1 DEF IInv, Along, Recorded, Acknowledged, TypeOK, Memory!Entries, Mkdir
<1>8. OwnRecords'
  BY <1>1 DEF IInv, OwnRecords, Recorded, TypeOK, Mkdir
<1>9. SharesNoted'
  BY <1>1 DEF IInv, SharesNoted, TypeOK, Mkdir
<1>10. SeedsAtHome'
  BY <1>1 DEF IInv, SeedsAtHome, AtHome, TypeOK, Mkdir
<1>11. RetiredOrOnTheWay'
  BY <1>1 DEF IInv, RetiredOrOnTheWay, Orderly, Recorded, TypeOK, Mkdir
<1>12. NotYetCredited'
  BY <1>1 DEF IInv, NotYetCredited, Orderly, TypeOK, Mkdir
<1>13. StraysNoted'
  BY <1>1 DEF IInv, StraysNoted, TypeOK, Mkdir
<1>14. PlacesKept'
  BY <1>1 DEF IInv, PlacesKept, Place, Filling, TypeOK, Mkdir
<1> QED
  BY <1>2, <1>3, <1>4, <1>5, <1>6, <1>7, <1>8, <1>9, <1>10, <1>11, <1>12, <1>13, <1>14 DEF IInv

\* The manifest is of an acknowledged record; whoever else is about to fill the same
\* directory is another run of the project.
LEMMA FillKeeps ==
  ASSUME IInv, NEW p \in Proc, Fill(p)
  PROVE  IInv'
<1> USE DEF RecordOf, SeedOf, SlotFor, Goto, Leave, seeds, archives, history
<1>1. /\ job[p] \in Jobs /\ job[p].dir \in Versions
      /\ RecordOf(p) \in Records /\ RecordOf(p).project \in Project
      /\ RecordOf(p).seed \in MaybeSeed
      /\ Place(p) \in Places /\ Place(p) = <<folderOf[RecordOf(p).project], job[p].dir>>
  BY JobTypes DEF IInv, Fill
<1>2. TypeOK'
  <2>1. [record |-> RecordOf(p), at |-> now] \in Manifests
    BY <1>1 DEF IInv, TypeOK, Manifests
  <2> QED BY <1>1, <2>1 DEF IInv, TypeOK, Memory!LogTypeOK, Recorded, Fill
<1>3. (Memory!OnePerKey /\ Memory!NothingLost)'
  BY <1>1 DEF IInv, Memory!OnePerKey, Memory!NothingLost, Memory!Entries, Fill
<1>4. FollowsMemory'
  BY <1>1 DEF IInv, FollowsMemory, Along, TypeOK, Recorded, Acknowledged, Fill
<1>5. CreditedOnce'
  BY <1>1 DEF IInv, CreditedOnce, Fill
<1>6. ConsumedWasUsed'
  BY <1>1 DEF IInv, ConsumedWasUsed, Fill
<1>7. (\A q \in Proc : Along(q))'
  BY <1>1 DEF IInv, Along, Recorded, Acknowledged, TypeOK, Memory!Entries, Fill
<1>8. OwnRecords'
  BY <1>1 DEF IInv, OwnRecords, Recorded, TypeOK, Fill
<1>9. SharesNoted'
  BY <1>1 DEF IInv, SharesNoted, TypeOK, Fill
<1>10. SeedsAtHome'
  BY <1>1 DEF IInv, SeedsAtHome, AtHome, TypeOK, Fill
<1>11. RetiredOrOnTheWay'
  BY <1>1 DEF IInv, RetiredOrOnTheWay, Orderly, Recorded, TypeOK, Fill
<1>12. NotYetCredited'
  BY <1>1 DEF IInv, NotYetCredited, Orderly, TypeOK, Fill
<1>13. StraysNoted'
  BY <1>1 DEF IInv, StraysNoted, TypeOK, Fill
<1>14. PlacesKept'
  <2>1. /\ archive' = [archive EXCEPT ![Place(p)] = [record |-> RecordOf(p), at |-> now]]
        /\ Place(p) \in dirs /\ job[p].dir <= now
        /\ dirs' = dirs /\ now' = now /\ clashed' = clashed
    BY DEF IInv, PlacesKept, Filling, Fill
  <2>2. \A q \in Proc : Place(q)' = Place(q)
    BY DEF Place, Fill
  <2>3. \A q \in Proc : pc'[q] \in Filling => q # p /\ pc'[q] = pc[q] /\ pc[q] \in Filling
    BY DEF IInv, TypeOK, Fill, Filling
  <2>4. \A q \in Proc :
          pc'[q] \in Filling /\ Place(q) \notin clashed =>
            Place(q) # Place(p) /\ Place(q) \in Places
    BY <2>3, JobTypes DEF IInv, PlacesKept, Filling, Fill
  <2>5. \A x \in Places : archive'[x] # None =>
          x \in dirs /\ x[2] <= archive'[x].at /\ archive'[x].at <= now
    BY <1>1, <2>1 DEF IInv, TypeOK, PlacesKept, Versions
  <2>6. \A q \in Proc :
          pc'[q] \in Filling /\ Place(q) \notin clashed /\ archive'[Place(q)] # None
            => job[q].dir # 0 /\ archive'[Place(q)].at = job[q].dir
    BY <1>1, <2>1, <2>3, <2>4 DEF IInv, TypeOK, PlacesKept
  <2>7. job' = job
    BY DEF Fill
  <2> QED BY <2>1, <2>2, <2>3, <2>5, <2>6, <2>7 DEF IInv, PlacesKept, Filling
<1> QED
  BY <1>2, <1>3, <1>4, <1>5, <1>6, <1>7, <1>8, <1>9, <1>10, <1>11, <1>12, <1>13, <1>14 DEF IInv

\* Counted for the first time, as only this run counts its record.
LEMMA CountKeeps ==
  ASSUME IInv, NEW p \in Proc, Count(p)
  PROVE  IInv'
<1> USE DEF RecordOf, SeedOf, SlotFor, Goto, Leave, seeds, archives, history
<1>1. /\ job[p] \in Jobs /\ job[p].dir \in Versions
      /\ RecordOf(p) \in Records /\ RecordOf(p).project \in Project
      /\ RecordOf(p).seed \in MaybeSeed
      /\ Place(p) \in Places /\ Place(p) = <<folderOf[RecordOf(p).project], job[p].dir>>
  BY JobTypes DEF IInv, Count
<1>2. TypeOK'
  <2>1. counted' \in [Records -> Nat]
    BY <1>1 DEF IInv, TypeOK, Count
  <2>2. job' \in [Proc -> Jobs \cup {None}] /\ left' \subseteq Seed
    BY <1>1 DEF IInv, TypeOK, MaybeSeed, Count
  <2>3. pc' \in [Proc -> {"idle", "append"} \cup Recorded]
    BY DEF IInv, TypeOK, Recorded, Count
  <2> QED BY <2>1, <2>2, <2>3 DEF IInv, TypeOK, Memory!LogTypeOK, Count
<1>3. (Memory!OnePerKey /\ Memory!NothingLost)'
  BY <1>1 DEF IInv, Memory!OnePerKey, Memory!NothingLost, Memory!Entries, Count
<1>4. FollowsMemory'
  BY <1>1 DEF IInv, FollowsMemory, Along, TypeOK, Recorded, Acknowledged, Count
<1>5. CreditedOnce'
  BY <1>1 DEF IInv, CreditedOnce, Count
<1>6. ConsumedWasUsed'
  BY <1>1 DEF IInv, ConsumedWasUsed, Count
<1>7. (\A q \in Proc : Along(q))'
  <2>1. Along(p)'
    BY <1>1 DEF IInv, Along, Recorded, Acknowledged, TypeOK, Count
  <2>2. ASSUME NEW q \in Proc, q # p PROVE Along(q)'
    <3>1. pc'[q] = pc[q] /\ job'[q] = job[q] /\ memory' = memory /\ acked' = acked
      BY <2>2 DEF IInv, TypeOK, Count
    <3>2. pc[q] \in Recorded => RecordOf(q) # RecordOf(p)
      BY <2>2 DEF IInv, OwnRecords, Recorded, Count
    <3>3. pc[q] # "idle" => RecordOf(q) \in Records
      BY JobTypes DEF IInv
    <3>4. pc[q] \in Recorded => pc[q] # "idle"
      BY DEF Recorded
    <3>5. pc[q] \in Recorded => counted'[RecordOf(q)] = counted[RecordOf(q)]
      BY <1>1, <3>2, <3>3, <3>4 DEF IInv, TypeOK, Count
    <3>6. Along(q)
      BY DEF IInv
    <3> QED BY <3>1, <3>5, <3>6 DEF Along, Memory!Entries
  <2> QED BY <2>1, <2>2
<1>8. OwnRecords'
  BY <1>1 DEF IInv, OwnRecords, Recorded, TypeOK, Count
<1>9. SharesNoted'
  BY <1>1 DEF IInv, SharesNoted, TypeOK, Count
<1>10. SeedsAtHome'
  BY <1>1 DEF IInv, SeedsAtHome, AtHome, TypeOK, Count
<1>11. RetiredOrOnTheWay'
  BY <1>1 DEF IInv, RetiredOrOnTheWay, Orderly, Recorded, TypeOK, Count
<1>12. NotYetCredited'
  BY <1>1 DEF IInv, NotYetCredited, Orderly, TypeOK, Count
<1>13. StraysNoted'
  BY <1>1 DEF IInv, StraysNoted, TypeOK, Count
<1>14. PlacesKept'
  BY <1>1 DEF IInv, PlacesKept, Place, Filling, TypeOK, Count
<1> QED
  BY <1>2, <1>3, <1>4, <1>5, <1>6, <1>7, <1>8, <1>9, <1>10, <1>11, <1>12, <1>13, <1>14 DEF IInv

\* What is moved is the seed on record, or a stray.
LEMMA ConsumeKeeps ==
  ASSUME IInv, NEW p \in Proc, Consume(p)
  PROVE  IInv'
<1> USE DEF RecordOf, SeedOf, SlotFor, Goto, Leave, seeds, archives, history
<1>1. /\ job[p] \in Jobs /\ job[p].dir \in Versions
      /\ RecordOf(p) \in Records /\ RecordOf(p).project \in Project
      /\ RecordOf(p).seed \in MaybeSeed
      /\ Place(p) \in Places /\ Place(p) = <<folderOf[RecordOf(p).project], job[p].dir>>
  BY JobTypes DEF IInv, Consume
<1>2. TypeOK'
  BY <1>1 DEF IInv, TypeOK, Memory!LogTypeOK, Recorded, MaybeSeed, Jobs, Versions, Consume
<1>3. (Memory!OnePerKey /\ Memory!NothingLost)'
  BY <1>1 DEF IInv, Memory!OnePerKey, Memory!NothingLost, Memory!Entries, Consume
<1>4. FollowsMemory'
  BY <1>1 DEF IInv, FollowsMemory, Along, TypeOK, Recorded, Acknowledged, Consume
<1>5. CreditedOnce'
  BY <1>1 DEF IInv, CreditedOnce, Consume
<1>6. ConsumedWasUsed'
  <2> DEFINE x == pending[SlotFor(p)]
  <2>1. x \in stray \cup {RecordOf(p).seed, None}
    BY DEF IInv, StraysNoted, Consume
  <2>2. \E i \in DOMAIN memory : memory[i].seed = RecordOf(p).seed
    BY DEF IInv, Along, Recorded, Memory!Entries, Consume
  <2>3. consumed' = consumed \cup ({x} \ {None}) /\ memory' = memory /\ stray' = stray
    BY DEF Consume
  <2> QED BY <2>1, <2>2, <2>3 DEF IInv, ConsumedWasUsed
<1>7. (\A q \in Proc : Along(q))'
  BY <1>1 DEF IInv, Along, Recorded, Acknowledged, TypeOK, Memory!Entries, Consume
<1>8. OwnRecords'
  BY <1>1 DEF IInv, OwnRecords, Recorded, TypeOK, Consume
<1>9. SharesNoted'
  BY <1>1 DEF IInv, SharesNoted, TypeOK, Consume
<1>10. SeedsAtHome'
  BY <1>1 DEF IInv, SeedsAtHome, AtHome, TypeOK, Consume
<1>11. RetiredOrOnTheWay'
  <2> SUFFICES ASSUME NEW i \in DOMAIN memory, Orderly(memory[i].seed),
                      pending'[slotOfSeed[memory[i].seed]] = memory[i].seed
               PROVE  \E q \in Proc : pc'[q] \in Recorded /\ job'[q].record = memory[i]
    BY DEF RetiredOrOnTheWay, Orderly, Consume
  <2> DEFINE m == memory[i].seed
  <2>1. m \in Seed /\ slotOfSeed[m] \in Slot /\ slotOfSeed[m] = slotOf[memory[i].project]
    BY DEF IInv, SeedsAtHome, AtHome, Orderly
  <2>2. slotOfSeed[m] # SlotFor(p) /\ pending[slotOfSeed[m]] = m
    BY <1>1, <2>1 DEF IInv, TypeOK, Consume
  <2>3. PICK q \in Proc : pc[q] \in Recorded /\ RecordOf(q) = memory[i]
    BY <2>2 DEF IInv, RetiredOrOnTheWay
  <2>4. q # p
    BY <2>1, <2>2, <2>3
  <2> QED BY <2>3, <2>4 DEF IInv, TypeOK, Consume
<1>12. NotYetCredited'
  BY <1>1 DEF IInv, NotYetCredited, Orderly, TypeOK, Consume
<1>13. StraysNoted'
  BY <1>1 DEF IInv, StraysNoted, TypeOK, Consume
<1>14. PlacesKept'
  BY <1>1 DEF IInv, PlacesKept, Place, Filling, TypeOK, Consume
<1> QED
  BY <1>2, <1>3, <1>4, <1>5, <1>6, <1>7, <1>8, <1>9, <1>10, <1>11, <1>12, <1>13, <1>14 DEF IInv

\* Whoever dies past the append leaves its seed behind as such.
LEMMA CrashKeeps ==
  ASSUME IInv, NEW p \in Proc, Crash(p)
  PROVE  IInv'
<1> USE DEF RecordOf, SeedOf, SlotFor, Goto, Leave, seeds, archives, history
<1>1. /\ job[p] \in Jobs /\ job[p].dir \in Versions
      /\ RecordOf(p) \in Records /\ RecordOf(p).project \in Project
      /\ RecordOf(p).seed \in MaybeSeed
      /\ Place(p) \in Places /\ Place(p) = <<folderOf[RecordOf(p).project], job[p].dir>>
  BY JobTypes DEF IInv, Crash
<1>2. TypeOK'
  BY <1>1 DEF IInv, TypeOK, Memory!LogTypeOK, Recorded, MaybeSeed, Jobs, Versions, Crash
<1>3. (Memory!OnePerKey /\ Memory!NothingLost)'
  BY <1>1 DEF IInv, Memory!OnePerKey, Memory!NothingLost, Memory!Entries, Crash
<1>4. FollowsMemory'
  BY <1>1 DEF IInv, FollowsMemory, Along, TypeOK, Recorded, Acknowledged, Crash
<1>5. CreditedOnce'
  BY <1>1 DEF IInv, CreditedOnce, Crash
<1>6. ConsumedWasUsed'
  BY <1>1 DEF IInv, ConsumedWasUsed, Crash
<1>7. (\A q \in Proc : Along(q))'
  BY <1>1 DEF IInv, Along, Recorded, Acknowledged, TypeOK, Memory!Entries, Crash
<1>8. OwnRecords'
  BY <1>1 DEF IInv, OwnRecords, Recorded, TypeOK, Crash
<1>9. SharesNoted'
  BY <1>1 DEF IInv, SharesNoted, TypeOK, Crash
<1>10. SeedsAtHome'
  BY <1>1 DEF IInv, SeedsAtHome, AtHome, TypeOK, Crash
<1>11. RetiredOrOnTheWay'
  BY <1>1 DEF IInv, RetiredOrOnTheWay, Orderly, Recorded, TypeOK, Crash
<1>12. NotYetCredited'
  BY <1>1 DEF IInv, NotYetCredited, Orderly, TypeOK, Crash
<1>13. StraysNoted'
  BY <1>1 DEF IInv, StraysNoted, TypeOK, Crash
<1>14. PlacesKept'
  BY <1>1 DEF IInv, PlacesKept, Place, Filling, TypeOK, Crash
<1> QED
  BY <1>2, <1>3, <1>4, <1>5, <1>6, <1>7, <1>8, <1>9, <1>10, <1>11, <1>12, <1>13, <1>14 DEF IInv

\* Nothing is recorded, counted or archived at the start.
LEMMA InitIInv == Init => IInv
<1> SUFFICES ASSUME Init PROVE IInv
  OBVIOUS
<1>1. memory = <<>> /\ acked = {}
  BY DEF Init, Memory!Init
<1>2. TypeOK
  BY <1>1 DEF Init, TypeOK, Memory!LogTypeOK, MaybeSeed, Recorded
<1>3. DOMAIN memory = {}
  BY <1>1
<1>4. \A x \in Places : archive[x] = None
  BY DEF Init
<1>5. Memory!OnePerKey /\ Memory!NothingLost /\ FollowsMemory /\ CreditedOnce /\ ConsumedWasUsed
  BY <1>1, <1>3, <1>4 DEF Init, Memory!OnePerKey, Memory!NothingLost, FollowsMemory, CreditedOnce,
    ConsumedWasUsed
<1>6. /\ \A p \in Proc : Along(p)
      /\ OwnRecords /\ SharesNoted /\ SeedsAtHome
      /\ RetiredOrOnTheWay /\ NotYetCredited /\ StraysNoted /\ PlacesKept
  BY <1>3, <1>4 DEF Init, Along, Recorded, Acknowledged, OwnRecords, SharesNoted, SeedsAtHome,
    RetiredOrOnTheWay, NotYetCredited, StraysNoted, PlacesKept, Filling
<1> QED BY <1>2, <1>5, <1>6 DEF IInv

\* The lemmas above, put together: every step keeps the invariant.
LEMMA NextIInv == IInv /\ [Next]_vars => IInv'
<1> SUFFICES ASSUME IInv, [Next]_vars PROVE IInv'
  OBVIOUS
<1>1. ASSUME NEW p \in Proc, AppendRecord(p) PROVE IInv'
  <2>1. CASE Memory!Add(RecordOf(p)) /\ Goto(p, "acknowledge") /\ UNCHANGED job
    BY <1>1, <2>1, AddKeeps DEF AppendRecord
  <2>2. CASE Leave(p) /\ UNCHANGED <<memory, acked>>
    BY <1>1, <2>2, RefuseKeeps DEF AppendRecord
  <2> QED BY <1>1, <2>1, <2>2 DEF AppendRecord
<1>2. ASSUME NEW p \in Proc, Step(p) PROVE IInv'
  BY <1>1, <1>2, AcknowledgeKeeps, LookKeeps, MkdirKeeps, FillKeeps, CountKeeps, ConsumeKeeps,
    CrashKeeps DEF Step
<1>3. CASE UNCHANGED vars
  BY <1>3 DEF vars, seeds, archives, history, IInv, TypeOK, Memory!LogTypeOK, Memory!OnePerKey,
    Memory!NothingLost, Memory!Entries, FollowsMemory, CreditedOnce, ConsumedWasUsed, Along,
    RecordOf, OwnRecords, SharesNoted, SeedsAtHome, AtHome, RetiredOrOnTheWay, Orderly,
    SeedOf, SlotFor, NotYetCredited, StraysNoted, PlacesKept, Place
<1> QED BY <1>2, <1>3, StartKeeps, RecommendKeeps, CleanUpKeeps, TickKeeps DEF Next

(* Theorems.                                                               *)

\* Where every run stands, what is pending and what is on record agree throughout.
THEOREM Inductive == Spec => []IInv
BY InitIInv, NextIInv, PTL DEF Spec

\* Type correctness of the four stores and of every run.
THEOREM TypeCorrect == Spec => []TypeOK
<1>1. IInv => TypeOK
  BY DEF IInv
<1> QED BY <1>1, Inductive, PTL

\* The anchor library and the archive hold nothing the memory did not acknowledge,
\* and count nothing twice, whatever is repeated, crashes or races.
THEOREM DerivedFollowsMemory == Spec => []FollowsMemory
<1>1. IInv => FollowsMemory
  BY DEF IInv
<1> QED BY <1>1, Inductive, PTL

\* A recommendation is credited once, with the named exceptions.
THEOREM SeedsCreditedOnce == Spec => []CreditedOnce
<1>1. IInv => CreditedOnce
  BY DEF IInv
<1> QED BY <1>1, Inductive, PTL

\* consume_seed moves nothing that was not used, strays apart.
THEOREM ConsumedSeedsUsed == Spec => []ConsumedWasUsed
<1>1. IInv => ConsumedWasUsed
  BY DEF IInv
<1> QED BY <1>1, Inductive, PTL

\* archive_project replaces a manifest only within the second of its directory's name,
\* or in a directory two runs chose at once: any other archive is kept for ever.
THEOREM ArchivesAreKept == Spec => ArchivesKept
<1>1. ASSUME IInv, [Next]_vars, NEW x \in Places \ clashed, archive[x] # None, archive'[x] # archive[x]
      PROVE  x[2] # 0 /\ archive[x].at = x[2]
  <2>1. (\A p \in Proc : ~Fill(p)) => archive' = archive
    BY <1>1 DEF Next, Step, AppendRecord, Acknowledge, Look, Mkdir, Count, Consume, Crash, Start,
      Recommend, CleanUp, Tick, vars, archives
  <2>2. PICK p \in Proc : Fill(p)
    BY <1>1, <2>1
  <2>3. Place(p) = x /\ x[2] = job[p].dir
    BY <1>1, <2>2 DEF IInv, TypeOK, Fill, Place
  <2> QED BY <1>1, <2>2, <2>3 DEF IInv, PlacesKept, Filling, Fill
<1>2. IInv /\ [Next]_vars =>
        [\A x \in Places \ clashed :
           archive[x] # None /\ archive'[x] # archive[x] => x[2] # 0 /\ archive[x].at = x[2]]_vars
  BY <1>1
<1> QED BY <1>2, Inductive, PTL DEF Spec, ArchivesKept
=============================================================================
