----------------------------- MODULE LearningLoop -----------------------------
(***************************************************************************)
(* The learning loop of integrations/learning: learning_manager.py records *)
(* a finished project in the canonical memory, archives it, counts its     *)
(* highlight anchors and retires the seed it started from; seeds are what  *)
(* recommendation_service.py left in seed_store.py for the next run.       *)
(*                                                                         *)
(* Every run of learning_manager is a process of its own.  It touches four *)
(* stores one after the other, each safe by itself, without anything that  *)
(* holds them together: other runs and recommendations come in between,    *)
(* and a run can die or raise after any of them.  The memory is used as    *)
(* AppendLog promises it (MemoryStore implements that).                    *)
(*                                                                         *)
(* The stores know a project by different names: the memory by the exact   *)
(* one, the archive by archive_manager.slugify of it, the seeds by         *)
(* seed_store._slug, which keeps a-z and 0-9 only, so that all names       *)
(* without them are "project".  Projects can share a folder or a slot.     *)
(***************************************************************************)
EXTENDS Naturals, Sequences

CONSTANTS Proc,      \* runs of learning_manager that can be alive at once
          Project,   \* names of projects
          Slot,      \* files for pending seeds: values of _slug
          slotOf,    \* the slot of each project
          Folder,    \* archive directories: values of slugify
          folderOf,  \* the folder of each project
          Seed,      \* recommendation ids: a second, and a hash of niche and name
          slotOfSeed, \* the slot of the name (or else the niche) each is made for
          None,      \* no seed, no manifest, no job
          MaxTime,   \* bound: seconds that pass
          MaxRuns    \* bound: runs started

VARIABLES
  memory,   \* records of database.json
  acked,    \* records whose append returned ok = True
  pending,  \* work/seeds/<slot>.json
  consumed, \* seeds in work/seeds/_consumed/
  dirs,     \* archive directories that exist
  archive,  \* the manifest of each: its record and archived_at
  counted,  \* how often the anchor library counts the anchors of each record
  now,      \* the clock, in seconds
  pc,       \* next step of each run
  job,      \* its record, --keep-seed, and the archive directory it chose
  runs,     \* runs started
  offered,  \* history: the second each seed was recommended in, 0 for never
  stray,    \* history: seeds that lay pending beside a run made from another one
  again,    \* history: seeds given out besides: by --seed-json, or recommended twice
  left,     \* history: seeds on record that their run did not try to retire
  shared,   \* history: seeds that two runs alive at once were made from
  clashed   \* history: archive directories two runs chose at once

ASSUME LoopAssumption ==
  /\ slotOf \in [Project -> Slot] /\ folderOf \in [Project -> Folder]
  /\ slotOfSeed \in [Seed -> Slot] /\ None \notin Seed
  /\ MaxTime \in Nat \ {0} /\ MaxRuns \in Nat

seeds == <<pending, consumed>>
archives == <<dirs, archive>>
history == <<offered, stray, again, left, shared, clashed>>
vars == <<memory, acked, seeds, archives, counted, now, pc, job, runs, history>>

MaybeSeed == Seed \cup {None}

\* A record is known by its project, its created_at and the recommendation its
\* provenance names.  created_at has the precision of the clock; the duplicate
\* guard compares it together with the project.
Records == [project : Project, time : 1..MaxTime, seed : MaybeSeed]
KeyOf == [r \in Records |-> <<r.project, r.time>>]

Memory == INSTANCE AppendLog WITH log <- memory, Record <- Records, keyOf <- KeyOf

\* Archive directories: the plain one of a folder, and one for every second.
Versions == 0..MaxTime
Places == Folder \X Versions
Manifests == [record : Records, at : 1..MaxTime]
Jobs == [record : Records, keep : BOOLEAN, dir : Versions]

Recorded == {"acknowledge", "look", "mkdir", "fill", "count", "consume"}
Acknowledged == Recorded \ {"acknowledge"}

TypeOK ==
  /\ Memory!LogTypeOK
  /\ pending \in [Slot -> MaybeSeed]
  /\ consumed \subseteq Seed
  /\ dirs \subseteq Places
  /\ archive \in [Places -> Manifests \cup {None}]
  /\ counted \in [Records -> Nat]
  /\ now \in 1..MaxTime
  /\ pc \in [Proc -> {"idle", "append"} \cup Recorded]
  /\ job \in [Proc -> Jobs \cup {None}]
  /\ runs \in 0..MaxRuns
  /\ offered \in [Seed -> 0..MaxTime]
  /\ stray \subseteq Seed /\ again \subseteq Seed /\ left \subseteq Seed /\ shared \subseteq Seed
  /\ clashed \subseteq Places

Init ==
  /\ Memory!Init
  /\ pending = [k \in Slot |-> None]
  /\ consumed = {}
  /\ dirs = {}
  /\ archive = [x \in Places |-> None]
  /\ counted = [r \in Records |-> 0]
  /\ now = 1
  /\ pc = [p \in Proc |-> "idle"]
  /\ job = [p \in Proc |-> None]
  /\ runs = 0
  /\ offered = [s \in Seed |-> 0]
  /\ stray = {} /\ again = {} /\ left = {} /\ shared = {}
  /\ clashed = {}

-----------------------------------------------------------------------------
(* Around the runs.                                                        *)

SeedOf(p) == job[p].record.seed
SlotFor(p) == slotOf[job[p].record.project]

Tick ==
  /\ now < MaxTime
  /\ now' = now + 1
  /\ UNCHANGED <<memory, acked, seeds, archives, counted, pc, job, runs, history>>

\* recommend() persists its seed over what is pending in its slot, which may be of
\* another project.  Asked twice in one second, it gives the same id again.
Recommend(s) ==
  LET k == slotOfSeed[s]
      beside == {p \in Proc : pc[p] # "idle" /\ SlotFor(p) = k /\ SeedOf(p) # s}
  IN  /\ offered[s] \in {0, now}
      /\ offered' = [offered EXCEPT ![s] = now]
      /\ again' = IF offered[s] = 0 THEN again ELSE again \cup {s}
      /\ pending' = [pending EXCEPT ![k] = s]
      /\ stray' = IF beside # {} THEN stray \cup {s} ELSE stray
      /\ UNCHANGED <<memory, acked, consumed, archives, counted, now, pc, job, runs, left, shared, clashed>>

\* cleanup_seeds drops a pending seed that has become old.
CleanUp(k) ==
  /\ pending' = [pending EXCEPT ![k] = None]
  /\ UNCHANGED <<memory, acked, consumed, archives, counted, now, pc, job, runs, history>>

-----------------------------------------------------------------------------
(* A run: main() and process_project().                                    *)

Goto(p, step) == pc' = [pc EXCEPT ![p] = step]
RecordOf(p) == job[p].record

Leave(p) ==
  /\ Goto(p, "idle")
  /\ job' = [job EXCEPT ![p] = None]

\* The seed is the one pending in the project's slot, any one given by --seed-json,
\* or none.  created_at is the clock's, or an earlier one given for a run that is
\* repeated.  A run that is dry, or whose project failed QA, writes nothing: no step.
Start(p, h, s, t, keep) ==
  LET waiting == pending[slotOf[h]]
  IN  /\ pc[p] = "idle" /\ runs < MaxRuns
      /\ s # None => offered[s] # 0
      /\ runs' = runs + 1
      /\ job' = [job EXCEPT ![p] = [record |-> [project |-> h, time |-> t, seed |-> s],
                                    keep |-> keep, dir |-> 0]]
      /\ again' = IF s \in {waiting, None} THEN again ELSE again \cup {s}
      /\ stray' = IF waiting \in {s, None} THEN stray ELSE stray \cup {waiting}
      /\ shared' = IF s # None /\ (\E q \in Proc : pc[q] # "idle" /\ SeedOf(q) = s)
                     THEN shared \cup {s} ELSE shared
      /\ Goto(p, "append")
      /\ UNCHANGED <<memory, acked, seeds, archives, counted, now, offered, left, clashed>>

\* Faulty variant: goes on to the archive whatever safe_append answered.
AppendUnchecked(p) ==
  /\ pc[p] = "append"
  /\ \/ Memory!Add(RecordOf(p)) /\ Goto(p, "acknowledge")
     \/ Goto(p, "look") /\ UNCHANGED <<memory, acked>>
  /\ UNCHANGED <<seeds, archives, counted, now, job, runs, history>>

\* Faulty variant: a seed is retired whatever safe_append answered.
AppendThenConsume(p) ==
  /\ pc[p] = "append"
  /\ \/ Memory!Add(RecordOf(p)) /\ Goto(p, "acknowledge") /\ UNCHANGED job
     \/ /\ UNCHANGED <<memory, acked, job>>
        /\ Goto(p, IF RecordOf(p).seed # None THEN "consume" ELSE "idle")
  /\ UNCHANGED <<seeds, archives, counted, now, runs, history>>

\* safe_append adds the record, or refuses it: a duplicate, a busy lock, a memory
\* edited by hand, an invalid record.  A refusal ends the run.
AppendRecord(p) ==
  /\ pc[p] = "append"
  /\ \/ Memory!Add(RecordOf(p)) /\ Goto(p, "acknowledge") /\ UNCHANGED job
     \/ Leave(p) /\ UNCHANGED <<memory, acked>>
  /\ UNCHANGED <<seeds, archives, counted, now, runs, history>>

Acknowledge(p) ==
  /\ pc[p] = "acknowledge"
  /\ Memory!Acknowledge(RecordOf(p))
  /\ Goto(p, "look")
  /\ UNCHANGED <<seeds, archives, counted, now, job, runs, history>>

Place(p) == <<folderOf[RecordOf(p).project], job[p].dir>>

\* The run will fill directory v of its folder, whoever else is about to.
Choose(p, v) ==
  LET x == <<folderOf[RecordOf(p).project], v>>
  IN  /\ job' = [job EXCEPT ![p].dir = v]
      /\ clashed' = IF \E q \in Proc : pc[q] \in {"mkdir", "fill"} /\ Place(q) = x
                      THEN clashed \cup {x} ELSE clashed

\* Faulty variant: an archive that exists is taken again.
LookNowhere(p) ==
  /\ pc[p] = "look"
  /\ Choose(p, 0)
  /\ Goto(p, "mkdir")
  /\ UNCHANGED <<memory, acked, seeds, archives, counted, now, runs, offered, stray, again, left, shared>>

\* archive_project: the plain directory, or one named to the second if that exists.
Look(p) ==
  /\ pc[p] = "look"
  /\ Choose(p, IF <<folderOf[RecordOf(p).project], 0>> \in dirs THEN now ELSE 0)
  /\ Goto(p, "mkdir")
  /\ UNCHANGED <<memory, acked, seeds, archives, counted, now, runs, offered, stray, again, left, shared>>

\* exist_ok: the directory may have come into being in between.
Mkdir(p) ==
  /\ pc[p] = "mkdir"
  /\ dirs' = dirs \cup {Place(p)}
  /\ Goto(p, "fill")
  /\ UNCHANGED <<memory, acked, seeds, archive, counted, now, job, runs, history>>

\* The artifacts, then the manifest, over what is there.
Fill(p) ==
  /\ pc[p] = "fill"
  /\ archive' = [archive EXCEPT ![Place(p)] = [record |-> RecordOf(p), at |-> now]]
  /\ Goto(p, "count")
  /\ UNCHANGED <<memory, acked, seeds, dirs, counted, now, job, runs, history>>

\* Faulty variant: the seed is never retired.
CountOnly(p) ==
  /\ pc[p] = "count"
  /\ counted' = [counted EXCEPT ![RecordOf(p)] = @ + 1]
  /\ Leave(p)
  /\ UNCHANGED <<memory, acked, seeds, archives, now, runs, history>>

\* record_project_anchors, one locked section with one replacement.  It may be
\* refused (busy lock, invalid library), which the run does not look at.
Count(p) ==
  LET s == RecordOf(p).seed
  IN  /\ pc[p] = "count"
      /\ counted' \in {counted, [counted EXCEPT ![RecordOf(p)] = @ + 1]}
      /\ IF s # None /\ ~job[p].keep
           THEN Goto(p, "consume") /\ UNCHANGED <<job, left>>
           ELSE Leave(p) /\ left' = left \cup ({s} \ {None})
      /\ UNCHANGED <<memory, acked, seeds, archives, now, runs, offered, stray, again, shared, clashed>>

\* Faulty variant: does not look whether there is a seed to move.
ConsumeBlind(p) ==
  LET k == SlotFor(p)
  IN  /\ pc[p] = "consume"
      /\ consumed' = consumed \cup {pending[k]}
      /\ pending' = [pending EXCEPT ![k] = None]
      /\ Leave(p)
      /\ UNCHANGED <<memory, acked, archives, counted, now, runs, history>>

\* consume_seed moves the seed that is pending in the slot by now, whose ever it is.
Consume(p) ==
  LET k == SlotFor(p)
  IN  /\ pc[p] = "consume"
      /\ consumed' = consumed \cup ({pending[k]} \ {None})
      /\ pending' = [pending EXCEPT ![k] = None]
      /\ Leave(p)
      /\ UNCHANGED <<memory, acked, archives, counted, now, runs, history>>

\* The run dies, or an operation raises out of it: what is stored stays.
Crash(p) ==
  /\ pc[p] # "idle"
  /\ left' = IF pc[p] \in Recorded THEN left \cup ({RecordOf(p).seed} \ {None}) ELSE left
  /\ Leave(p)
  /\ UNCHANGED <<memory, acked, seeds, archives, counted, now, runs, offered, stray, again, shared, clashed>>

Step(p) ==
  \/ AppendRecord(p) \/ Acknowledge(p) \/ Look(p) \/ Mkdir(p) \/ Fill(p)
  \/ Count(p) \/ Consume(p) \/ Crash(p)

Next ==
  \/ \E p \in Proc : Step(p)
  \/ \E p \in Proc, h \in Project, s \in MaybeSeed, t \in 1..now, keep \in BOOLEAN :
       Start(p, h, s, t, keep)
  \/ \E s \in Seed : Recommend(s)
  \/ \E k \in Slot : CleanUp(k)
  \/ Tick

Spec == Init /\ [][Next]_vars

-----------------------------------------------------------------------------
(* Properties.                                                             *)

\* What is derived from the memory follows it: the anchor library counts a record
\* at most once, however often a run is repeated, and only a record, like a
\* manifest in the archive, whose append was acknowledged.
FollowsMemory ==
  /\ \A r \in Records : counted[r] <= 1 /\ (counted[r] = 1 => r \in acked)
  /\ \A x \in Places : archive[x] # None => archive[x].record \in acked

\* A recommendation is credited by one record, of one project of those that share
\* its slot, unless two runs alive at once started from it (process_project holds
\* nothing between resolve_seed and consume_seed), its run did not come to retiring
\* it, or it was given out besides.
CreditedOnce ==
  \A i, j \in DOMAIN memory :
    memory[i].seed = memory[j].seed /\ memory[i].seed \notin left \cup again \cup shared \cup {None}
    => i = j

\* A seed among the consumed ones was used: a record names it, unless it lay
\* pending beside a run that was made from another one, of whatever project its
\* slot is shared with.
ConsumedWasUsed ==
  \A s \in consumed : s \in stray \/ \E i \in DOMAIN memory : memory[i].seed = s

\* "write-once: don't clobber an existing archive" (archive_project), as far as it
\* goes: a manifest is replaced only in a directory that is named to the second the
\* manifest was completed in, or that two runs had chosen at once.
ArchivesKept ==
  [][\A x \in Places \ clashed :
       archive[x] # None /\ archive'[x] # archive[x] => x[2] # 0 /\ archive[x].at = x[2]]_vars

-----------------------------------------------------------------------------
(* The inductive invariant behind them.                                    *)

\* What is behind a run at each of its steps.
Along(p) ==
  /\ pc[p] # "idle" => job[p] \in Jobs
  /\ pc[p] \in Recorded => RecordOf(p) \in Memory!Entries(memory)
  /\ pc[p] \in Acknowledged => RecordOf(p) \in acked
  /\ pc[p] \in Recorded \ {"consume"} => counted[RecordOf(p)] = 0

\* Only the run that added a record works on with it.
OwnRecords ==
  \A p, q \in Proc :
    pc[p] \in Recorded /\ pc[q] \in Recorded /\ RecordOf(p) = RecordOf(q) => p = q

SharesNoted ==
  \A p, q \in Proc :
    pc[p] # "idle" /\ pc[q] # "idle" /\ SeedOf(p) = SeedOf(q) /\ SeedOf(p) # None
    => p = q \/ SeedOf(p) \in shared

\* A seed belongs to the slot it was made for, unless somebody gave it out besides.
AtHome(s, h) == s # None => offered[s] # 0 /\ (s \notin again => slotOfSeed[s] = slotOf[h])
SeedsAtHome ==
  /\ \A k \in Slot : pending[k] # None => offered[pending[k]] # 0 /\ slotOfSeed[pending[k]] = k
  /\ \A i \in DOMAIN memory : AtHome(memory[i].seed, memory[i].project)
  /\ \A p \in Proc : pc[p] # "idle" => AtHome(SeedOf(p), RecordOf(p).project)

\* What happened to a seed says nothing against it being credited once.
Orderly(s) == s \in Seed \ (left \cup again \cup shared)

\* Such a seed is on record and pending only while its run is on its way to it.
RetiredOrOnTheWay ==
  \A i \in DOMAIN memory :
    LET s == memory[i].seed
    IN  Orderly(s) /\ pending[slotOfSeed[s]] = s
          => \E p \in Proc : pc[p] \in Recorded /\ RecordOf(p) = memory[i]

NotYetCredited ==
  \A p \in Proc, i \in DOMAIN memory :
    pc[p] = "append" /\ Orderly(SeedOf(p)) => memory[i].seed # SeedOf(p)

StraysNoted ==
  \A p \in Proc :
    pc[p] # "idle" => pending[SlotFor(p)] \in stray \cup {SeedOf(p), None}

\* A manifest is completed in the second its directory is named after or later; who
\* is about to fill a directory alone finds one there at most from that very second.
Filling == {"mkdir", "fill"}
PlacesKept ==
  /\ \A x \in Places : archive[x] # None => x \in dirs /\ x[2] <= archive[x].at /\ archive[x].at <= now
  /\ \A p \in Proc :
       /\ pc[p] = "fill" => Place(p) \in dirs
       /\ pc[p] \in Filling => job[p].dir <= now
       /\ pc[p] \in Filling /\ Place(p) \notin clashed /\ archive[Place(p)] # None
            => job[p].dir # 0 /\ archive[Place(p)].at = job[p].dir
  /\ \A p, q \in Proc :
       pc[p] \in Filling /\ pc[q] \in Filling /\ Place(p) = Place(q)
         => p = q \/ Place(p) \in clashed

IInv ==
  /\ TypeOK
  /\ Memory!OnePerKey /\ Memory!NothingLost
  /\ FollowsMemory /\ CreditedOnce /\ ConsumedWasUsed
  /\ \A p \in Proc : Along(p)
  /\ OwnRecords /\ SharesNoted /\ SeedsAtHome
  /\ RetiredOrOnTheWay /\ NotYetCredited /\ StraysNoted
  /\ PlacesKept
=============================================================================
