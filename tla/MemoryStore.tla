----------------------------- MODULE MemoryStore -----------------------------
(***************************************************************************)
(* The canonical learning memory: safe_append of                           *)
(* integrations/learning/memory_writer.py, called by processes that share  *)
(* one database.json, under the advisory lock of _filelock.py.             *)
(*                                                                         *)
(* The database is replaced atomically; its integrity marker is a second   *)
(* file, truncated and then written, after the replacement.  A process may *)
(* die, or an operation may raise, between any two steps; the operating    *)
(* system then frees the lock.  A person may edit the database by hand,    *)
(* which takes no lock: the event the marker exists to reveal.             *)
(*                                                                         *)
(* A sha256 is modelled by the content it was computed from: different     *)
(* contents have different hashes.                                         *)
(***************************************************************************)
EXTENDS Sequences, Naturals

CONSTANTS Proc,     \* processes that call safe_append
          Record,   \* records that pass validation
          Key,      \* (project_name, created_at) pairs
          keyOf,    \* the pair of each record
          Nobody,   \* the holder of a free lock
          NoMarker, \* a marker that reads as None: missing, empty or cut short
          MaxEdits  \* bound on edits by hand

ASSUME StoreAssumption ==
  /\ keyOf \in [Record -> Key]
  /\ Nobody \notin Proc
  /\ NoMarker \notin Seq(Record)
  /\ MaxEdits \in Nat

VARIABLES
  db,       \* records of database.json; a missing file is an empty one
  marker,   \* the content the marker's sha256 stands for, or NoMarker
  backups,  \* contents copied into _db_backups/
  lock,     \* holder of .database.json.lock
  pc,       \* next step of each safe_append
  rec,      \* its record
  held,     \* the content it last read: as records to extend, or to hash
  acked,    \* records whose append returned ok = True
  edits,    \* edits by hand so far
  noticed,  \* history: an edit was made while nobody held the lock, over a
            \* database whose marker was readable
  cut       \* history: a writer stopped between the replacement and the end
            \* of the marker write

files == <<db, marker, backups>>
local == <<rec, held>>
outside == <<edits, noticed>>
vars == <<files, lock, pc, local, acked, outside, cut>>

Log == INSTANCE AppendLog WITH log <- db

UnderLock == {"verify", "read", "backup", "replace", "hash", "truncate", "fill", "return"}
Steps == {"idle", "lock"} \cup UnderLock
MarkerPending == {"hash", "truncate", "fill"}

TypeOK ==
  /\ db \in Seq(Record)
  /\ marker \in Seq(Record) \cup {NoMarker}
  /\ backups \subseteq Seq(Record)
  /\ lock \in Proc \cup {Nobody}
  /\ pc \in [Proc -> Steps]
  /\ rec \in [Proc -> Record]
  /\ held \in [Proc -> Seq(Record)]
  /\ acked \subseteq Record
  /\ edits \in 0..MaxEdits
  /\ noticed \in BOOLEAN
  /\ cut \in BOOLEAN

Init ==
  /\ db = <<>>
  /\ marker = NoMarker
  /\ backups = {}
  /\ lock = Nobody
  /\ pc = [p \in Proc |-> "idle"]
  /\ rec \in [Proc -> Record]
  /\ held = [p \in Proc |-> <<>>]
  /\ acked = {}
  /\ edits = 0
  /\ noticed = FALSE
  /\ cut = FALSE

-----------------------------------------------------------------------------
(* The lock.                                                               *)

Goto(p, step) == pc' = [pc EXCEPT ![p] = step]
Leave(p) == Goto(p, "idle") /\ lock' = Nobody

Call(p, r) ==
  /\ pc[p] = "idle"
  /\ rec' = [rec EXCEPT ![p] = r]
  /\ Goto(p, "lock")
  /\ UNCHANGED <<files, lock, held, acked, outside, cut>>

\* Faulty variant: the lock is not exclusive.
AcquireAnyway(p) ==
  /\ pc[p] = "lock"
  /\ lock' = p
  /\ Goto(p, "verify")
  /\ UNCHANGED <<files, local, acked, outside, cut>>

\* Faulty variant: the lock records that it is taken, not by whom.
AcquireUntyped(p) ==
  /\ pc[p] = "lock"
  /\ lock = Nobody
  /\ lock' = TRUE
  /\ Goto(p, "verify")
  /\ UNCHANGED <<files, local, acked, outside, cut>>

Acquire(p) ==
  /\ pc[p] = "lock"
  /\ lock = Nobody
  /\ lock' = p
  /\ Goto(p, "verify")
  /\ UNCHANGED <<files, local, acked, outside, cut>>

\* Polling gives up after the timeout: "lock busy", and nothing was touched.
LockTimeout(p) ==
  /\ pc[p] = "lock"
  /\ lock # Nobody
  /\ Goto(p, "idle")
  /\ UNCHANGED <<files, lock, local, acked, outside, cut>>

-----------------------------------------------------------------------------
(* _safe_append_locked.                                                    *)

Trusted == marker \in {NoMarker, db}

\* Faulty variant: the append goes on whatever the marker says.
VerifyNothing(p) ==
  /\ pc[p] = "verify"
  /\ Goto(p, "read")
  /\ UNCHANGED <<files, lock, local, acked, outside, cut>>

\* verify_db_integrity: no readable marker is trusted, a different hash refuses.
Verify(p) ==
  /\ pc[p] = "verify"
  /\ IF Trusted
       THEN Goto(p, "read") /\ UNCHANGED lock
       ELSE Leave(p)
  /\ UNCHANGED <<files, local, acked, outside, cut>>

\* Validation may refuse the record or what is in the file; so does the
\* duplicate guard.  The records read here are the ones written back.
Read(p) ==
  /\ pc[p] = "read"
  /\ \E valid \in BOOLEAN :
       IF valid /\ ~Log!Holds(db, keyOf[rec[p]])
         THEN /\ held' = [held EXCEPT ![p] = db]
              /\ Goto(p, "backup")
              /\ UNCHANGED lock
         ELSE /\ Leave(p)
              /\ UNCHANGED held
  /\ UNCHANGED <<files, rec, acked, outside, cut>>

\* Faulty variant: nothing is copied before the write.
SkipBackup(p) ==
  /\ pc[p] = "backup"
  /\ Goto(p, "replace")
  /\ UNCHANGED <<files, lock, local, acked, outside, cut>>

Backup(p) ==
  /\ pc[p] = "backup"
  /\ backups' = IF db = <<>> THEN backups ELSE backups \cup {db}
  /\ Goto(p, "replace")
  /\ UNCHANGED <<db, marker, lock, local, acked, outside, cut>>

Replace(p) ==
  /\ pc[p] = "replace"
  /\ db' = Append(held[p], rec[p])
  /\ Goto(p, "hash")
  /\ UNCHANGED <<marker, backups, lock, local, acked, outside, cut>>

\* _write_marker hashes the file as it is on disk now.
HashDb(p) ==
  /\ pc[p] = "hash"
  /\ held' = [held EXCEPT ![p] = db]
  /\ Goto(p, "truncate")
  /\ UNCHANGED <<files, lock, rec, acked, outside, cut>>

\* write_text is not atomic: the old marker is gone before the new one is there.
TruncateMarker(p) ==
  /\ pc[p] = "truncate"
  /\ marker' = NoMarker
  /\ Goto(p, "fill")
  /\ UNCHANGED <<db, backups, lock, local, acked, outside, cut>>

\* Faulty variant: the marker keeps the hash from before the append.
FillStale(p) ==
  /\ pc[p] = "fill"
  /\ marker' = SubSeq(held[p], 1, Len(held[p]) - 1)
  /\ Goto(p, "return")
  /\ UNCHANGED <<db, backups, lock, local, acked, outside, cut>>

FillMarker(p) ==
  /\ pc[p] = "fill"
  /\ marker' = held[p]
  /\ Goto(p, "return")
  /\ UNCHANGED <<db, backups, lock, local, acked, outside, cut>>

\* Faulty variant: the lock is not released on the way out.
ReturnHolding(p) ==
  /\ pc[p] = "return"
  /\ acked' = acked \cup {rec[p]}
  /\ Goto(p, "idle")
  /\ UNCHANGED <<files, lock, local, outside, cut>>

Return(p) ==
  /\ pc[p] = "return"
  /\ acked' = acked \cup {rec[p]}
  /\ Leave(p)
  /\ UNCHANGED <<files, local, outside, cut>>

\* The process dies, or a file operation raises out of safe_append.
Crash(p) ==
  /\ pc[p] # "idle"
  /\ Goto(p, "idle")
  /\ lock' = IF lock = p THEN Nobody ELSE lock
  /\ cut' = (cut \/ pc[p] \in MarkerPending)
  /\ UNCHANGED <<files, local, acked, outside>>

\* Somebody removes the last record, or adds one, with an editor.
EditByHand ==
  /\ edits < MaxEdits
  /\ edits' = edits + 1
  /\ \/ db # <<>> /\ db' = SubSeq(db, 1, Len(db) - 1)
     \/ \E r \in Record : ~Log!Holds(db, keyOf[r]) /\ db' = Append(db, r)
  /\ noticed' = (noticed \/ (lock = Nobody /\ marker = db))
  /\ UNCHANGED <<marker, backups, lock, pc, local, acked, cut>>

Step(p) ==
  \/ Acquire(p) \/ LockTimeout(p) \/ Verify(p) \/ Read(p) \/ Backup(p) \/ Replace(p)
  \/ HashDb(p) \/ TruncateMarker(p) \/ FillMarker(p) \/ Return(p)

Next ==
  \/ \E p \in Proc : (\E r \in Record : Call(p, r)) \/ Step(p) \/ Crash(p)
  \/ EditByHand

Spec == Init /\ [][Next]_vars

\* A process that is inside safe_append keeps running unless it dies: the polling
\* loop and the locked section have no unbounded wait.
FairSpec == Spec /\ \A p \in Proc : WF_vars(Step(p))

-----------------------------------------------------------------------------
(* Properties.                                                             *)

\* Without edits by hand the database is the append-only log of AppendLog, with
\* any number of writers, timeouts and crashes: no acknowledged record is lost
\* to another writer, none is altered, no identity is in it twice.
ImplementsLog == Log!Spec

\* Every content the database had before its present one can be restored from a
\* backup, as long as nobody edited it by hand.
EarlierContentsBackedUp ==
  edits = 0 => \A n \in 1 .. Len(db) - 1 : SubSeq(db, 1, n) \in backups

\* The guard refuses nobody without a cause: whenever the lock is free, the next
\* append finds a marker it trusts, unless a writer was cut off between the
\* replacement and the marker, or the database was edited.
TrustedUnlessCut == lock = Nobody /\ ~cut /\ edits = 0 => Trusted

\* An edit made while no append was running, over a database with a readable
\* marker, is never built upon: no append ever writes or is acknowledged again
\* (unless a second edit restores the content; MaxEdits is 1 where it is checked).
EditsRefused ==
  [][noticed /\ edits' = edits => UNCHANGED <<db, marker, acked>>]_vars

\* The lock is always freed again.
LockFreed == lock # Nobody ~> lock = Nobody

-----------------------------------------------------------------------------
(* The inductive invariant behind the safety properties.                   *)

\* Exactly the holder of the lock is in the locked section.
LockInv == \A p \in Proc : pc[p] \in UnderLock <=> lock = p

\* What the holder knows, while nobody edits by hand.
HolderInv(p) ==
  /\ pc[p] = "verify" /\ ~cut => Trusted
  /\ pc[p] \in {"read", "backup", "replace"} => Trusted
  /\ pc[p] \in {"backup", "replace", "truncate", "fill"} => held[p] = db
  /\ pc[p] \in {"backup", "replace"} => ~Log!Holds(db, keyOf[rec[p]])
  /\ pc[p] = "replace" /\ db # <<>> => db \in backups
  /\ pc[p] \in {"hash", "truncate", "fill", "return"} => rec[p] \in Log!Entries(db)
  /\ pc[p] = "return" => marker = db

\* An edit that was noticed stays visible, and stops every append at the guard.
EditInv ==
  noticed => /\ edits = 1
             /\ ~Trusted
             /\ \A p \in Proc : pc[p] \in {"idle", "lock", "verify"}

IInv ==
  /\ TypeOK
  /\ LockInv
  /\ MaxEdits <= 1 => EditInv
  /\ edits = 0 => \A p \in Proc : HolderInv(p)
  /\ EarlierContentsBackedUp
  /\ TrustedUnlessCut

-----------------------------------------------------------------------------
(* What the comments claim.                                                *)

\* "ok=False means the DB was written OUTSIDE safe_append" (verify_db_integrity):
\* while nobody has edited it, no append is refused by the marker.
RefusalMeansOutsideWrite ==
  \A p \in Proc : pc[p] = "verify" /\ edits = 0 => Trusted
=============================================================================
