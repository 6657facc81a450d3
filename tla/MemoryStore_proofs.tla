------------------------- MODULE MemoryStore_proofs -------------------------
(***************************************************************************)
(* Proofs about MemoryStore, for any number of processes and records.      *)
(***************************************************************************)
EXTENDS MemoryStore, SequenceTheorems, TLAPS

USE StoreAssumption

\* The initial state has the types of TypeOK.
LEMMA InitTypeOK == Init => TypeOK
<1> SUFFICES ASSUME Init PROVE TypeOK
  OBVIOUS
<1>1. db \in Seq(Record) /\ held \in [Proc -> Seq(Record)] /\ backups \subseteq Seq(Record)
  BY DEF Init
<1>2. pc \in [Proc -> Steps] /\ edits \in 0 .. MaxEdits
  BY DEF Init, Steps
<1> QED BY <1>1, <1>2 DEF Init, TypeOK

\* Type correctness of the files, the lock and every append.
THEOREM TypeCorrect == Spec => []TypeOK
<1>1. Init => TypeOK
  BY InitTypeOK
<1>2. TypeOK /\ [Next]_vars => TypeOK'
  <2> SUFFICES ASSUME TypeOK, [Next]_vars PROVE TypeOK'
    OBVIOUS
  <2> USE DEF TypeOK, Steps, UnderLock, Goto, Leave, files, local, outside
  <2>1. ASSUME NEW p \in Proc, NEW r \in Record, Call(p, r) PROVE TypeOK'
    BY <2>1 DEF Call
  <2>2. ASSUME NEW p \in Proc, Step(p) PROVE TypeOK'
    <3>1. CASE Acquire(p) BY <3>1 DEF Acquire
    <3>2. CASE LockTimeout(p) BY <3>2 DEF LockTimeout
    <3>3. CASE Verify(p) BY <3>3 DEF Verify
    <3>4. CASE Read(p) BY <3>4 DEF Read
    <3>5. CASE Backup(p) BY <3>5 DEF Backup
    <3>6. CASE Replace(p)
      <4>1. db' \in Seq(Record)
        BY <3>6, AppendProperties DEF Replace
      <4> QED BY <3>6, <4>1 DEF Replace
    <3>7. CASE HashDb(p) BY <3>7 DEF HashDb
    <3>8. CASE TruncateMarker(p) BY <3>8 DEF TruncateMarker
    <3>9. CASE FillMarker(p) BY <3>9 DEF FillMarker
    <3>10. CASE Return(p) BY <3>10 DEF Return
    <3> QED BY <2>2, <3>1, <3>2, <3>3, <3>4, <3>5, <3>6, <3>7, <3>8, <3>9, <3>10 DEF Step
  <2>3. ASSUME NEW p \in Proc, Crash(p) PROVE TypeOK'
    BY <2>3 DEF Crash
  <2>4. CASE EditByHand
    <3>1. CASE db # <<>> /\ db' = SubSeq(db, 1, Len(db) - 1)
      <4>1. Len(db) - 1 \in Nat /\ \A i \in 1 .. Len(db) - 1 : db[i] \in Record
        BY <3>1
      <4> QED BY <3>1, <4>1, <2>4, SubSeqProperties DEF EditByHand
    <3>2. CASE \E r \in Record : db' = Append(db, r)
      BY <3>2, <2>4, AppendProperties DEF EditByHand
    <3> QED BY <2>4, <3>1, <3>2 DEF EditByHand
  <2>5. CASE UNCHANGED vars
    BY <2>5 DEF vars
  <2> QED BY <2>1, <2>2, <2>3, <2>4, <2>5 DEF Next
<1> QED BY <1>1, <1>2, PTL DEF Spec

-----------------------------------------------------------------------------
(* The inductive invariant.                                                *)

\* The prefixes of an extended sequence are those of the sequence, and itself.
LEMMA PrefixesOfAppend ==
  ASSUME NEW S, NEW s \in Seq(S), NEW e \in S, NEW n \in 1 .. Len(s)
  PROVE  SubSeq(Append(s, e), 1, n) = SubSeq(s, 1, n)
<1> DEFINE t == Append(s, e)
<1>1. t \in Seq(S) /\ Len(t) = Len(s) + 1 /\ \A i \in 1 .. Len(s) : t[i] = s[i]
  BY AppendProperties
<1>2. /\ SubSeq(t, 1, n) \in Seq(S) /\ Len(SubSeq(t, 1, n)) = n
      /\ \A i \in 1 .. n : SubSeq(t, 1, n)[i] = t[i]
  BY <1>1, SubSeqProperties
<1>3. /\ SubSeq(s, 1, n) \in Seq(S) /\ Len(SubSeq(s, 1, n)) = n
      /\ \A i \in 1 .. n : SubSeq(s, 1, n)[i] = s[i]
  BY SubSeqProperties
<1> QED BY <1>1, <1>2, <1>3, SeqEqual

\* What a replacement makes of a database that was as read.
LEMMA ReplaceExtends ==
  ASSUME IInv, edits = 0, NEW p \in Proc, Replace(p)
  PROVE  /\ db' = Append(db, rec[p])
         /\ ~Log!Holds(db, keyOf[rec[p]])
         /\ rec[p] \in Log!Entries(db')
         /\ EarlierContentsBackedUp'
<1>1. /\ db' = Append(db, rec[p]) /\ ~Log!Holds(db, keyOf[rec[p]])
      /\ db # <<>> => db \in backups
      /\ rec[p] \in Record /\ db \in Seq(Record) /\ UNCHANGED <<backups, rec, edits>>
  BY DEF Replace, IInv, HolderInv, TypeOK, local, outside
<1>2. /\ Len(db') = Len(db) + 1 /\ db'[Len(db) + 1] = rec[p]
      /\ DOMAIN db' = 1 .. Len(db) + 1 /\ Len(db) \in Nat
  BY <1>1, AppendProperties
<1>3. rec[p] \in Log!Entries(db')
  BY <1>2 DEF Log!Entries
<1>4. ASSUME NEW n \in 1 .. Len(db') - 1 PROVE SubSeq(db', 1, n) \in backups
  <2>1. n \in 1 .. Len(db)
    BY <1>2, <1>4
  <2>2. SubSeq(db', 1, n) = SubSeq(db, 1, n)
    BY <1>1, <2>1, PrefixesOfAppend
  <2>3. CASE n = Len(db)
    <3>1. SubSeq(db, 1, Len(db)) = db /\ db # <<>>
      BY <1>1, <2>1, SubSeqFull
    <3> QED BY <1>1, <2>2, <2>3, <3>1
  <2>4. CASE n < Len(db)
    <3>1. n \in 1 .. Len(db) - 1
      BY <1>2, <2>1, <2>4
    <3> QED BY <1>1, <2>2, <3>1 DEF IInv, EarlierContentsBackedUp
  <2> QED BY <1>2, <2>1, <2>3, <2>4
<1> QED BY <1>1, <1>3, <1>4 DEF EarlierContentsBackedUp

\* One step of an append preserves the invariant.
LEMMA StepPreserves ==
  ASSUME IInv, TypeOK', NEW p \in Proc, Step(p)
  PROVE  IInv'
<1> USE DEF IInv, TypeOK, LockInv, EditInv, HolderInv, TrustedUnlessCut, Trusted, UnderLock,
            Steps, Goto, Leave, files, local, outside, EarlierContentsBackedUp
<1>1. CASE Acquire(p) BY <1>1 DEF Acquire
<1>2. CASE LockTimeout(p) BY <1>2 DEF LockTimeout
<1>3. CASE Verify(p)
  <2>1. CASE Trusted BY <1>3, <2>1 DEF Verify
  <2>2. CASE ~Trusted
    <3>1. /\ pc[p] = "verify" /\ pc' = [pc EXCEPT ![p] = "idle"] /\ lock' = Nobody
          /\ UNCHANGED <<db, marker, backups, rec, held, acked, edits, noticed, cut>>
      BY <1>3, <2>2 DEF Verify
    <3>2. edits = 0 => cut
      BY <2>2, <3>1
    <3> QED BY <2>2, <3>1, <3>2
  <2> QED BY <2>1, <2>2
<1>4. CASE Read(p)
  <2>1. \/ /\ ~Log!Holds(db, keyOf[rec[p]]) /\ UNCHANGED lock
           /\ pc' = [pc EXCEPT ![p] = "backup"] /\ held' = [held EXCEPT ![p] = db]
        \/ /\ pc' = [pc EXCEPT ![p] = "idle"] /\ lock' = Nobody /\ UNCHANGED held
    BY <1>4 DEF Read
  <2>2. pc[p] = "read" /\ UNCHANGED <<db, marker, backups, rec, acked, edits, noticed, cut>>
    BY <1>4 DEF Read
  <2>3. CASE pc' = [pc EXCEPT ![p] = "backup"]
    BY <2>1, <2>2, <2>3
  <2>4. CASE lock' = Nobody
    BY <2>1, <2>2, <2>4
  <2> QED BY <2>1, <2>3, <2>4
<1>5. CASE Backup(p)
  <2> USE <1>5 DEF Backup
  <2>1. LockInv' /\ (MaxEdits <= 1 => EditInv')
    OBVIOUS
  <2>2. edits' = 0 => \A q \in Proc : HolderInv(q)'
    OBVIOUS
  <2>3. EarlierContentsBackedUp' /\ TrustedUnlessCut'
    OBVIOUS
  <2> QED BY <2>1, <2>2, <2>3
<1>6. CASE Replace(p)
  BY <1>6, ReplaceExtends DEF Replace
<1>7. CASE HashDb(p) BY <1>7 DEF HashDb
<1>8. CASE TruncateMarker(p) BY <1>8 DEF TruncateMarker
<1>9. CASE FillMarker(p) BY <1>9 DEF FillMarker
<1>10. CASE Return(p) BY <1>10 DEF Return
<1> QED BY <1>1, <1>2, <1>3, <1>4, <1>5, <1>6, <1>7, <1>8, <1>9, <1>10 DEF Step

\* The invariant holds initially.
LEMMA InitIInv == Init => IInv
<1> SUFFICES ASSUME Init PROVE IInv
  OBVIOUS
<1>1. TypeOK
  BY InitTypeOK
<1> QED BY <1>1 DEF Init, IInv, LockInv, EditInv, HolderInv, EarlierContentsBackedUp,
           TrustedUnlessCut, Trusted, UnderLock

\* Every step preserves it.
LEMMA NextIInv == IInv /\ TypeOK' /\ [Next]_vars => IInv'
<1> SUFFICES ASSUME IInv, TypeOK', [Next]_vars PROVE IInv'
  OBVIOUS
<1> USE DEF IInv, LockInv, UnderLock, Goto, files, local, outside
<1>1. ASSUME NEW p \in Proc, NEW r \in Record, Call(p, r) PROVE IInv'
  BY <1>1 DEF Call, TypeOK, EditInv, HolderInv, TrustedUnlessCut, Trusted, EarlierContentsBackedUp
<1>2. ASSUME NEW p \in Proc, Step(p) PROVE IInv'
  BY <1>2, StepPreserves
<1>3. ASSUME NEW p \in Proc, Crash(p) PROVE IInv'
  <2> USE <1>3 DEF Crash, TypeOK, Steps
  <2>1. LockInv' /\ (MaxEdits <= 1 => EditInv')
    BY DEF EditInv, Trusted
  <2>2. edits' = 0 => \A q \in Proc : HolderInv(q)'
    BY DEF HolderInv, Trusted
  <2>3. EarlierContentsBackedUp'
    BY DEF EarlierContentsBackedUp
  <2>4. TrustedUnlessCut'
    BY DEF TrustedUnlessCut, Trusted, HolderInv, MarkerPending
  <2> QED BY <2>1, <2>2, <2>3, <2>4
<1>4. CASE EditByHand
  <2>1. edits' > 0 /\ UNCHANGED <<lock, pc, marker>>
    BY <1>4 DEF EditByHand, TypeOK
  <2>2. ASSUME MaxEdits <= 1 PROVE EditInv'
    <3>1. edits = 0 /\ edits' = 1 /\ ~noticed
      BY <1>4, <2>2 DEF EditByHand, TypeOK, EditInv
    <3>2. ASSUME lock = Nobody, marker = db PROVE EditInv'
      <4>1. db' # db
        <5>1. CASE db # <<>> /\ db' = SubSeq(db, 1, Len(db) - 1)
          <6>1. Len(db) - 1 \in Nat /\ \A i \in 1 .. Len(db) - 1 : db[i] \in Record
            BY <5>1 DEF TypeOK
          <6>2. Len(db') # Len(db)
            BY <5>1, <6>1, SubSeqProperties DEF TypeOK
          <6> QED BY <6>2
        <5>2. CASE \E r \in Record : db' = Append(db, r)
          <6>1. Len(db') # Len(db)
            BY <5>2, AppendProperties DEF TypeOK
          <6> QED BY <6>1
        <5> QED BY <1>4, <5>1, <5>2 DEF EditByHand
      <4>2. \A p \in Proc : pc[p] \in {"idle", "lock"}
        BY <3>2 DEF TypeOK, Steps
      <4> QED BY <2>1, <3>1, <3>2, <4>1, <4>2 DEF EditInv, Trusted, TypeOK
    <3> QED BY <1>4, <3>1, <3>2 DEF EditByHand, EditInv
  <2> QED BY <2>1, <2>2 DEF EarlierContentsBackedUp, TrustedUnlessCut
<1>5. CASE UNCHANGED vars
  BY <1>5 DEF vars, TypeOK, EditInv, HolderInv, TrustedUnlessCut, Trusted, EarlierContentsBackedUp
<1> QED BY <1>1, <1>2, <1>3, <1>4, <1>5 DEF Next

\* The inductive invariant: lock holder, marker, backups and the holder's copy
\* agree in every reachable state.
THEOREM Inductive == Spec => []IInv
BY InitIInv, NextIInv, TypeCorrect, PTL DEF Spec

-----------------------------------------------------------------------------
(* What follows from it.                                                   *)

\* Every earlier content of an unedited database is among the backups.
THEOREM BackupsComplete == Spec => []EarlierContentsBackedUp
BY Inductive, PTL DEF IInv

\* The marker refuses nobody without a cause.
THEOREM GuardHasCause == Spec => []TrustedUnlessCut
BY Inductive, PTL DEF IInv

\* An edit made between appends stops every later append, if it is the only one.
THEOREM EditsStopAppends == ASSUME MaxEdits <= 1 PROVE Spec => EditsRefused
<1>1. IInv /\ [Next]_vars
        => [noticed /\ edits' = edits => UNCHANGED <<db, marker, acked>>]_vars
  <2> SUFFICES ASSUME IInv, [Next]_vars, noticed, edits' = edits
               PROVE  UNCHANGED <<db, marker, acked>>
    OBVIOUS
  <2>1. ~EditByHand
    BY DEF EditByHand, IInv, TypeOK
  <2>2. \A p \in Proc : pc[p] \in {"idle", "lock", "verify"}
    BY DEF IInv, EditInv
  <2> QED BY <2>1, <2>2 DEF Next, Step, Call, Acquire, LockTimeout, Verify, Read, Backup,
             Replace, HashDb, TruncateMarker, FillMarker, Return, Crash, vars, files
<1> QED BY <1>1, Inductive, PTL DEF Spec, EditsRefused

\* Without edits by hand, safe_append implements the append-only log: Replace adds
\* a record, Return acknowledges one, every other step leaves the log alone.
THEOREM LogImplemented == ASSUME MaxEdits = 0 PROVE Spec => ImplementsLog
<1>1. Init => Log!Init
  BY DEF Init, Log!Init
<1>2. IInv /\ [Next]_vars => [Log!Next]_<<db, acked>>
  <2> SUFFICES ASSUME IInv, [Next]_vars PROVE [Log!Next]_<<db, acked>>
    OBVIOUS
  <2>1. edits = 0 /\ ~EditByHand
    BY DEF IInv, TypeOK, EditByHand
  <2>2. ASSUME NEW p \in Proc, Replace(p) PROVE Log!Add(rec[p]) /\ rec[p] \in Record
    BY <2>1, <2>2, ReplaceExtends DEF Replace, Log!Add, IInv, TypeOK
  <2>3. ASSUME NEW p \in Proc, Return(p) PROVE Log!Acknowledge(rec[p]) /\ rec[p] \in Record
    BY <2>1, <2>3 DEF Return, Log!Acknowledge, IInv, TypeOK, HolderInv, files
  <2>4. ASSUME ~\E p \in Proc : Replace(p) \/ Return(p)
        PROVE  UNCHANGED <<db, acked>>
    BY <2>1, <2>4 DEF Next, Step, Call, Acquire, LockTimeout, Verify, Read, Backup,
       HashDb, TruncateMarker, FillMarker, Crash, vars, files
  <2> QED BY <2>2, <2>3, <2>4 DEF Log!Next
<1> QED BY <1>1, <1>2, Inductive, PTL DEF Spec, ImplementsLog, Log!Spec

LogFacts == INSTANCE AppendLog_proofs WITH log <- db

\* No acknowledged append is ever lost, however appends, timeouts and crashes
\* interleave: what AppendLog promises, carried over by the refinement.
THEOREM AcknowledgedKept == ASSUME MaxEdits = 0 PROVE Spec => []Log!NothingLost
<1>1. LogFacts!Spec => []LogFacts!NothingLost
  BY LogFacts!LogNothingLost
<1>2. Log!Init <=> LogFacts!Init
  BY DEF Log!Init, LogFacts!Init
<1>3. [Log!Next]_<<db, acked>> <=> [LogFacts!Next]_<<db, acked>>
  BY DEF Log!Next, LogFacts!Next, Log!Add, LogFacts!Add, Log!Acknowledge, LogFacts!Acknowledge,
         Log!Holds, LogFacts!Holds, Log!Entries, LogFacts!Entries
<1>4. LogFacts!NothingLost <=> Log!NothingLost
  BY DEF Log!NothingLost, LogFacts!NothingLost, Log!Entries, LogFacts!Entries
<1> QED BY <1>1, <1>2, <1>3, <1>4, LogImplemented, PTL
        DEF ImplementsLog, Log!Spec, LogFacts!Spec
=============================================================================
