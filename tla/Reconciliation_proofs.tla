------------------------- MODULE Reconciliation_proofs -------------------------
(***************************************************************************)
(* Proofs about Reconciliation, for any number of processes, results and   *)
(* deliveries.                                                             *)
(***************************************************************************)
EXTENDS Reconciliation, EventLedger_proofs

USE LinkAssumption

\* Links lead to dispatches, revisions and deliveries.
LEMMA Links ==
  ASSUME NEW r \in Result
  PROVE  /\ dispatchOf[r] \in Dispatch /\ RevisionOf(r) \in Revision
         /\ OriginalOf(r) \in Delivery
BY DEF RevisionOf, OriginalOf

-----------------------------------------------------------------------------
(* The initial state.                                                      *)

\* At the start there is one record, of the root, and no process.
LEMMA InitIInv == Init => IInv
<1> SUFFICES ASSUME Init PROVE IInv
  OBVIOUS
<1> DEFINE asked == LineageEvent("REQUESTED", Root, None, 1, None, None)
           root == LineageEvent("REGISTERED", Root, None, 1, None, None)
<1>1. asked \in LineageEvents /\ root \in LineageEvents
  BY DEF LineageEvent, Event, LineageEvents
<1>2. lineage = <<asked, root>> /\ dispatches = <<>> /\ results = <<>>
  BY DEF Init, InitWith, Begun
<1>3. /\ Events(lineage) = {asked, root} /\ Events(dispatches) = {} /\ Events(results) = {}
      /\ Readable(lineage) /\ Readable(dispatches) /\ Readable(results)
  BY <1>2 DEF Events, Readable, LineageEvent, Event
<1>4. Records = {root}
  BY <1>3 DEF Records, LineageEvent, Event
<1>5. TypeOK
  <2>1. lineage \in Seq(LineageEvents)
    BY <1>1, <1>2
  <2>2. dispatches \in Seq(DispatchEvents) /\ results \in Seq(ResultEvents)
    BY <1>2
  <2>3. closed \subseteq Delivery /\ answers \subseteq Answers
    <3>1. closed = {e.id.delivery : e \in Events(lineage)}
      BY DEF Init, InitWith
    <3> QED BY <1>3, <3>1 DEF Init, InitWith, LineageEvent, Event
  <2>5. overlap \in BOOLEAN
    BY DEF Init, InitWith
  <2>6. calls \in 0 .. MaxCalls
    BY DEF Init, InitWith
  <2>4. /\ pc \in [Proc -> {"idle", "ask"} \cup Reading \cup Appending] /\ checked \in [Proc -> BOOLEAN]
        /\ job \in [Proc -> Calls \cup Requests \cup {None}]
        /\ entry \in [Proc -> LineageEvents \cup {None}] /\ code \in [Proc -> Codes \cup {None}]
    BY DEF Init, InitWith
  <2> QED BY <2>1, <2>2, <2>3, <2>4, <2>5, <2>6 DEF TypeOK
<1>6. SupersededIsWhole /\ VersionsUnique /\ LedgersReadable
  BY <1>3, <1>4 DEF SupersededIsWhole, VersionsUnique, LedgersReadable
<1>7. Chained /\ OneCloser
  BY <1>3, <1>4 DEF Chained, OneCloser, Taken, Closed, Recorded, LineageEvent, Event
<1>8. Solitary /\ \A p \in Proc : Along(p) /\ Fresh(p)
  BY DEF Init, InitWith, Along, Solitary, Fresh, Reading, Appending, ToLineage, ToResults, Ordering
<1> QED BY <1>5, <1>6, <1>7, <1>8 DEF IInv

-----------------------------------------------------------------------------
(* Steps that read.                                                        *)

\* What the readers find in the ledgers does not change while they do not.
LEMMA SameFound ==
  ASSUME UNCHANGED ledgers
  PROVE  /\ Records' = Records /\ Taken' = Taken
         /\ \A d : RecordsOf(d)' = RecordsOf(d)
         /\ \A r, d : Delivered(r, d)' = Delivered(r, d) /\ AcceptedAs(r, d)' = AcceptedAs(r, d)
         /\ \A r : Closed(r)' = Closed(r) /\ Completed(r)' = Completed(r)
         /\ \A r : Closers(r)' = Closers(r)
         /\ \A e : Succeeds(e)' = Succeeds(e)
         /\ \A n : VersionTaken(n)' = VersionTaken(n)
BY DEF ledgers, Records, Taken, RecordsOf, Delivered, AcceptedAs, Closed, Completed, Closers, Succeeds,
       VersionTaken

\* Nor does what the invariant says of them.
LEMMA GlobalStays ==
  ASSUME IInv, UNCHANGED ledgers, overlap => overlap'
  PROVE  SupersededIsWhole' /\ VersionsUnique' /\ LedgersReadable' /\ Chained' /\ OneCloser'
<1>1. SupersededIsWhole'
  BY SameFound DEF IInv, ledgers, SupersededIsWhole
<1>2. VersionsUnique' /\ LedgersReadable'
  BY SameFound DEF IInv, ledgers, VersionsUnique, LedgersReadable
<1>3. Chained' /\ OneCloser'
  BY SameFound DEF IInv, Chained, OneCloser
<1> QED BY <1>1, <1>2, <1>3

\* Neither does what a process knows that does not move.
Still(q) ==
  /\ pc'[q] = pc[q] /\ checked'[q] = checked[q] /\ job'[q] = job[q]
  /\ entry'[q] = entry[q] /\ code'[q] = code[q]

\* What a process has behind it stays behind it while another one steps.
LEMMA OthersStay ==
  ASSUME IInv, UNCHANGED ledgers, NEW q \in Proc, Still(q)
  PROVE  Along(q)'
<1>1. Along(q)
  BY DEF IInv
<1> QED BY <1>1, SameFound DEF Along, Planned, Still, ledgers

\* While it is alone, the process that moves is the only one there is.
LEMMA Lonely ==
  ASSUME IInv, ~overlap, NEW p \in Proc, pc[p] # "idle", NEW q \in Proc, q # p
  PROVE  pc[q] = "idle" /\ ~checked[q]
BY DEF IInv, Solitary, Along, Appending, ToLineage, ToResults, Ordering, TypeOK

\* A step that writes nothing only has to account for the process that takes it.
LEMMA ReadPreserves ==
  ASSUME IInv, UNCHANGED <<ledgers, overlap>>, TypeOK',
         NEW p \in Proc, pc[p] # "idle", \A q \in Proc \ {p} : Still(q),
         Along(p)', ~overlap => Fresh(p)'
  PROVE  IInv'
<1>1. SupersededIsWhole' /\ VersionsUnique' /\ LedgersReadable' /\ Chained' /\ OneCloser'
  BY GlobalStays
<1>2. \A q \in Proc : Along(q)'
  BY OthersStay
<1>3. ASSUME ~overlap PROVE Solitary' /\ \A q \in Proc : Fresh(q)'
  <2>1. \A q \in Proc : q # p => pc'[q] = "idle" /\ ~checked'[q]
    BY <1>3, Lonely DEF Still
  <2>2. \A q \in Proc : q # p => Fresh(q)'
    BY <2>1 DEF Fresh
  <2> QED BY <1>3, <2>1, <2>2 DEF Solitary
<1> QED BY <1>1, <1>2, <1>3 DEF IInv

\* A process that leaves knows nothing.
LEMMA LeavePreserves ==
  ASSUME IInv, UNCHANGED <<ledgers, closed, calls, overlap>>, NEW p \in Proc, pc[p] # "idle", Leave(p),
         answers' \subseteq Answers
  PROVE  IInv'
<1> USE DEF Leave, Goto
<1>1. TypeOK'
  BY DEF IInv, TypeOK, ledgers
<1>2. /\ pc'[p] = "idle" /\ ~checked'[p]
      /\ \A q \in Proc \ {p} : Still(q)
  BY DEF IInv, TypeOK, Still
<1>3. Along(p)' /\ Fresh(p)'
  BY <1>2 DEF Along, Fresh, Reading, Appending, ToLineage, ToResults, Ordering
<1> QED BY <1>1, <1>2, <1>3, ReadPreserves

\* Nor one that is about to refuse its result, but the reason.
LEMMA RefusePreserves ==
  ASSUME IInv, UNCHANGED <<ledgers, closed, calls, overlap>>, NEW p \in Proc, NEW c \in Codes,
         pc[p] \in Reading, Refuse(p, c)
  PROVE  IInv'
<1> USE DEF Refuse, Goto
<1>1. TypeOK'
  BY DEF IInv, TypeOK, ledgers, Appending, ToResults
<1>2. /\ pc[p] # "idle" /\ ~checked[p] /\ job[p] \in Calls
      /\ pc'[p] = "refuse" /\ UNCHANGED <<checked, job>>
      /\ \A q \in Proc \ {p} : Still(q)
  BY DEF IInv, TypeOK, Still, Reading, Appending, ToLineage, ToResults, Ordering, Along
<1>3. Along(p)' /\ Fresh(p)'
  BY <1>2 DEF Along, Fresh, Reading, Appending, ToResults, Ordering
<1> QED BY <1>1, <1>2, <1>3, ReadPreserves

\* A reading process that goes on with what it was called with.
LEMMA ProceedPreserves ==
  ASSUME IInv, UNCHANGED <<ledgers, closed, calls, overlap>>, NEW p \in Proc,
         NEW step \in {"ask", "gate"} \cup Appending, pc[p] \in {"ask"} \cup Reading,
         Proceed(p, step), Along(p)',
         ~overlap /\ step \in {"request", "registered"} =>
                       ~VersionTaken(entry[p].id.version) /\ RecordsOf(job[p].delivery) = {}
  PROVE  IInv'
<1> USE DEF Proceed, Goto
<1>1. TypeOK /\ ~checked[p] /\ pc[p] # "idle"
  BY DEF IInv, Along, Reading, Appending, ToLineage, ToResults, Ordering
<1>2. TypeOK'
  BY <1>1 DEF TypeOK, ledgers, local, Reading
<1>3. /\ pc'[p] = step /\ UNCHANGED <<checked, job, entry>>
      /\ \A q \in Proc \ {p} : Still(q)
  BY <1>1 DEF TypeOK, Still, local
<1>4. ~overlap => Fresh(p)'
  BY <1>1, <1>3, SameFound DEF Fresh
<1> QED BY <1>1, <1>2, <1>3, <1>4, ReadPreserves

\* A request appends nothing but what its answer is.
LEMMA AskPreserves ==
  ASSUME IInv, NEW p \in Proc, Ask(p)
  PROVE  IInv'
<1>1. /\ pc[p] = "ask" /\ UNCHANGED <<ledgers, closed, calls, overlap>>
      /\ job[p] \in Requests /\ ~checked[p] /\ TypeOK
  BY DEF Ask, IInv, Along, Appending, ToLineage, ToResults, Ordering
<1>2. CASE Raise(p)
  BY <1>1, <1>2, LeavePreserves DEF Raise, IInv, TypeOK
<1>3. ASSUME NEW step \in Ordering, Proceed(p, step) PROVE IInv'
  <2>1. pc'[p] = step /\ job'[p] = job[p] /\ ~checked'[p]
    BY <1>1, <1>3 DEF Proceed, Goto, TypeOK, local
  <2>2. Along(p)'
    BY <1>1, <2>1 DEF Along, Ordering
  <2> QED BY <1>1, <1>3, <2>2, ProceedPreserves DEF Ordering, Appending
<1> QED BY <1>2, <1>3 DEF Ask, Ordering

\* The lookup appends nothing; it answers with what is on record.
LEMMA LookupPreserves ==
  ASSUME IInv, NEW p \in Proc, Lookup(p)
  PROVE  IInv'
<1>1. /\ pc[p] = "lookup" /\ UNCHANGED <<ledgers, closed, calls, overlap>>
      /\ job[p] \in Calls /\ ~checked[p] /\ TypeOK
  BY DEF Lookup, IInv, Along, Reading, Appending, ToLineage, ToResults, Ordering
<1>2. CASE Raise(p)
  BY <1>1, <1>2, LeavePreserves DEF Raise, IInv, TypeOK
<1>3. CASE \E c \in Codes : Refuse(p, c)
  BY <1>1, <1>3, RefusePreserves DEF Reading
<1>4. CASE Leave(p) /\ Reconstruct(p)
  <2>1. ASSUME NEW d \in Delivery \cup {None}, Answer(p, d) PROVE answers' \subseteq Answers
    BY <1>1, <2>1 DEF Answer, Answers, TypeOK, Calls
  <2>2. \A i \in Made : results[i].id.delivery \in Delivery \cup {None}
    <3>1. \A i \in DOMAIN results : results[i] \in ResultEvents
      BY <1>1 DEF TypeOK
    <3> QED BY <3>1 DEF Made, ResultEvents
  <2>3. answers' \subseteq Answers
    BY <1>4, <2>1, <2>2 DEF Reconstruct
  <2> QED BY <1>1, <1>4, <2>3, LeavePreserves
<1>5. CASE Proceed(p, "gate")
  <2>1. pc'[p] = "gate" /\ job'[p] = job[p] /\ ~checked'[p]
    BY <1>1, <1>5 DEF Proceed, Goto, TypeOK, local
  <2>2. Along(p)'
    BY <1>1, <2>1 DEF Along, Ordering
  <2> QED BY <1>1, <1>5, <2>2, ProceedPreserves DEF Reading
<1> QED BY <1>2, <1>3, <1>4, <1>5 DEF Lookup, Codes

\* What derive_successor_version plans follows the record it was planned from.
LEMMA CandidateSucceeds ==
  ASSUME TypeOK, NEW call \in Calls, Registered(OriginalOf(call.result))
  PROVE  LET e == Candidate(call)
         IN  /\ e \in LineageEvents /\ Succeeds(e)
             /\ e.id.kind = "REGISTERED" /\ e.id.delivery = call.delivery
             /\ e.id.parent = OriginalOf(call.result)
<1> DEFINE parent == OriginalOf(call.result)
<1>1. PICK o \in RecordsOf(parent) : RecordsOf(parent) = {o}
  BY DEF Registered
<1>2. VersionOf(parent) = o.id.version
  BY <1>1 DEF VersionOf
<1>3. o.id.version \in Nat
  <2>1. o \in LineageEvents
    BY <1>1 DEF RecordsOf, Records, Events, TypeOK
  <2> QED BY <2>1 DEF LineageEvents
<1>4. call.delivery \in Delivery /\ call.evidence \in Evidence /\ call.stamp \in Stamp
      /\ parent \in Delivery
  BY Links DEF Calls
<1>5. Candidate(call) \in LineageEvents
  BY <1>2, <1>3, <1>4 DEF Candidate, LineageEvent, Event, LineageEvents
<1>6. Succeeds(Candidate(call))
  BY <1>1, <1>2 DEF Succeeds, Candidate, LineageEvent, Event
<1> QED BY <1>5, <1>6 DEF Candidate, LineageEvent, Event

\* The gate plans a record that follows one of its parent.
LEMMA GatePreserves ==
  ASSUME IInv, NEW p \in Proc, Gate(p)
  PROVE  IInv'
<1>1. /\ pc[p] = "gate" /\ UNCHANGED <<ledgers, closed, calls, overlap>>
      /\ job[p] \in Calls /\ ~checked[p] /\ TypeOK
  BY DEF Gate, IInv, Along, Reading, Appending, ToLineage, ToResults, Ordering
<1>2. CASE Raise(p)
  BY <1>1, <1>2, LeavePreserves DEF Raise, IInv, TypeOK
<1>3. CASE \E c \in Codes : Refuse(p, c)
  BY <1>1, <1>3, RefusePreserves DEF Reading
<1>4. CASE Proceed(p, "fail")
  <2>1. pc'[p] = "fail" /\ job'[p] = job[p] /\ ~checked'[p]
    BY <1>1, <1>4 DEF Proceed, Goto, TypeOK, local
  <2>2. Along(p)'
    BY <1>1, <2>1 DEF Along, Ordering
  <2> QED BY <1>1, <1>4, <2>2, ProceedPreserves DEF Reading, Appending, ToResults
<1>5. CASE /\ Registered(OriginalOf(job[p].result)) /\ Goto(p, "register")
           /\ entry' = [entry EXCEPT ![p] = Candidate(job[p])]
           /\ UNCHANGED <<checked, job, code, answers>>
  <2> DEFINE mine == Candidate(job[p])
  <2>1. /\ mine \in LineageEvents /\ Succeeds(mine)
        /\ mine.id.kind = "REGISTERED" /\ mine.id.delivery = job[p].delivery
        /\ mine.id.parent = OriginalOf(job[p].result)
    BY <1>1, <1>5, CandidateSucceeds
  <2> HIDE DEF mine
  <2>2. /\ pc'[p] = "register" /\ entry'[p] = mine /\ ~checked'[p] /\ job'[p] = job[p]
        /\ \A q \in Proc \ {p} : Still(q)
    BY <1>1, <1>5 DEF TypeOK, Still, Goto, mine
  <2>3. TypeOK'
    BY <1>1, <1>5, <2>1 DEF TypeOK, ledgers, Reading, Goto, mine
  <2>4. Planned(p)'
    BY <1>1, <2>1, <2>2, SameFound DEF Planned
  <2>5. Along(p)' /\ Fresh(p)'
    BY <1>1, <2>2, <2>4 DEF Along, Fresh, Ordering
  <2> QED BY <1>1, <2>2, <2>3, <2>5, ReadPreserves
<1> QED BY <1>1, <1>2, <1>3, <1>4, <1>5 DEF Gate, Codes

\* Past the registration the version is free or the delivery is registered.
LEMMA RegisterPreserves ==
  ASSUME IInv, NEW p \in Proc, Register(p)
  PROVE  IInv'
<1> DEFINE current == RecordsOf(job[p].delivery)
<1>1. /\ pc[p] = "register" /\ UNCHANGED <<ledgers, closed, calls, overlap>>
      /\ job[p] \in Calls /\ ~checked[p] /\ TypeOK /\ Planned(p)
  BY DEF Register, IInv, Along, Reading, Appending, ToLineage, ToResults, Ordering
<1>2. CASE Raise(p)
  BY <1>1, <1>2, LeavePreserves DEF Raise, IInv, TypeOK
<1>3. CASE \E c \in Codes : Refuse(p, c)
  BY <1>1, <1>3, RefusePreserves DEF Reading
<1>4. ASSUME NEW e \in current, e.id = entry[p].id, Proceed(p, "close") PROVE IInv'
  <2>1. pc'[p] = "close" /\ job'[p] = job[p] /\ ~checked'[p]
    BY <1>1, <1>4 DEF Proceed, Goto, TypeOK, local
  <2>2. Delivered(job[p].result, job[p].delivery)
    BY <1>1, <1>4 DEF Delivered, Planned
  <2>3. Along(p)'
    BY <1>1, <2>1, <2>2, SameFound DEF Along, Ordering
  <2> QED BY <1>1, <1>4, <2>3, ProceedPreserves DEF Reading, Appending, ToResults
<1>5. ASSUME NEW e \in current, Goto(p, "conflict"),
             entry' = [entry EXCEPT ![p] = Conflict(e, job[p].stamp)],
             UNCHANGED <<checked, job, code, answers>>
      PROVE  IInv'
  <2>1. e \in LineageEvents /\ job[p].stamp \in Stamp
    BY <1>1 DEF RecordsOf, Records, Events, TypeOK, Calls
  <2>2. Conflict(e, job[p].stamp) \in LineageEvents /\ Conflict(e, job[p].stamp).id.kind = "CONFLICT"
    BY <2>1 DEF Conflict, Event, LineageEvents
  <2>3. TypeOK'
    BY <1>1, <1>5, <2>2 DEF TypeOK, ledgers, Appending, ToLineage, Goto
  <2>4. /\ pc'[p] = "conflict" /\ entry'[p] = Conflict(e, job[p].stamp)
        /\ job'[p] = job[p] /\ ~checked'[p]
        /\ \A q \in Proc \ {p} : Still(q)
    BY <1>1, <1>5 DEF TypeOK, Still, Goto
  <2>5. Along(p)' /\ Fresh(p)'
    BY <1>1, <2>2, <2>4 DEF Along, Fresh, Ordering
  <2> QED BY <1>1, <2>3, <2>4, <2>5, ReadPreserves
<1>6. CASE current = {} /\ ~VersionTaken(entry[p].id.version) /\ Proceed(p, "request")
  <2>1. pc'[p] = "request" /\ job'[p] = job[p] /\ ~checked'[p] /\ entry'[p] = entry[p]
    BY <1>1, <1>6 DEF Proceed, Goto, TypeOK, local
  <2>2. Planned(p)'
    BY <1>1, <2>1, SameFound DEF Planned
  <2>3. Along(p)'
    BY <1>1, <2>1, <2>2 DEF Along, Ordering
  <2> QED BY <1>1, <1>6, <2>3, ProceedPreserves DEF Reading, Appending, ToLineage
<1> QED BY <1>1, <1>2, <1>3, <1>4, <1>5, <1>6 DEF Register, Codes

-----------------------------------------------------------------------------
(* Steps that append.                                                      *)

\* The ledgers hold what they held, and maybe more.
Grow ==
  /\ Events(lineage) \subseteq Events(lineage')
  /\ Events(dispatches) \subseteq Events(dispatches')
  /\ Events(results) \subseteq Events(results')

\* What is on record stays on record.
LEMMA OnRecordStays ==
  ASSUME Grow
  PROVE  /\ \A id : Recorded(results, id) => Recorded(results', id)
         /\ \A id : Recorded(dispatches, id) => Recorded(dispatches', id)
         /\ \A r : (Closed(r) => Closed(r)') /\ (Completed(r) => Completed(r)')
         /\ \A r, d : (AcceptedAs(r, d) => AcceptedAs(r, d)') /\ (Delivered(r, d) => Delivered(r, d)')
         /\ \A e : Succeeds(e) => Succeeds(e)'
<1> USE DEF Grow
<1>1. \A id : Recorded(results, id) => Recorded(results', id)
  BY DEF Recorded
<1>2. \A id : Recorded(dispatches, id) => Recorded(dispatches', id)
  BY DEF Recorded
<1>3. \A d : RecordsOf(d) \subseteq RecordsOf(d)'
  BY DEF RecordsOf, Records
<1> QED BY <1>1, <1>2, <1>3 DEF Closed, Completed, AcceptedAs, Delivered, Succeeds

\* A process that does not move knows as much as before.
LEMMA OthersKnow ==
  ASSUME IInv, Grow, NEW q \in Proc, Still(q)
  PROVE  Along(q)'
<1>1. Along(q)
  BY DEF IInv
<1> QED BY <1>1, OnRecordStays DEF Along, Planned, Still

\* What an append that returned has left on record, by its step.
Noted(p) ==
  LET r == job[p].result
      d == job[p].delivery
      noted(kind, e, note) ==
        Recorded(results', [kind |-> kind, result |-> r, delivery |-> e, note |-> note])
  IN  /\ pc[p] = "registered" => entry[p] \in Events(lineage')
      /\ pc[p] = "complete" =>
           Recorded(dispatches', [kind |-> "COMPLETED", dispatch |-> dispatchOf[r], note |-> r])
      /\ pc[p] = "close" => \E e \in Delivery : noted("COMPLETED", e, None)
      /\ pc[p] = "accept" => noted("ACCEPTED", d, None)
      /\ pc[p] = "create" => noted("CREATED", d, job[p].stamp)

\* After it, the process stands where it should, or has left.
LEMMA AfterAppend ==
  ASSUME IInv, NEW p \in Proc, pc[p] \in Appending, Grow, Noted(p), Done(p)
  PROVE  /\ Along(p)' /\ ~checked'[p] /\ \A q \in Proc \ {p} : Still(q)
         /\ pc'[p] \in {"idle"} \cup Appending
         /\ pc'[p] \in {"request", "registered"} =>
              /\ pc[p] = "request" /\ pc'[p] = "registered" /\ UNCHANGED <<entry, job>>
<1> USE DEF Ordering, ToLineage, ToResults, Reading
<1>1. /\ Along(p) /\ TypeOK /\ pc[p] # "idle"
  BY DEF IInv, Appending
<1>2. CASE Leave(p)
  <2>1. pc'[p] = "idle" /\ ~checked'[p] /\ \A q \in Proc \ {p} : Still(q)
    BY <1>1, <1>2 DEF TypeOK, Still, Leave, Goto
  <2> QED BY <2>1 DEF Along, Appending
<1>3. CASE /\ pc[p] \notin {"fail", "refuse", "supersede"} \cup Ordering
           /\ Goto(p, Following(pc[p])) /\ checked' = [checked EXCEPT ![p] = FALSE]
           /\ code' = [code EXCEPT ![p] = IF pc[p] = "conflict" THEN "DELIVERY_TAKEN" ELSE @]
           /\ UNCHANGED <<job, entry, answers>>
  <2>1. /\ pc'[p] = Following(pc[p]) /\ ~checked'[p] /\ \A q \in Proc \ {p} : Still(q)
        /\ UNCHANGED <<job, entry>>
    BY <1>1, <1>3 DEF TypeOK, Still, Goto
  <2>2. /\ pc[p] = "request" => pc'[p] = "registered"
        /\ pc[p] = "registered" => pc'[p] = "close"
        /\ pc[p] = "close" => pc'[p] = "complete"
        /\ pc[p] = "complete" => pc'[p] = "accept"
        /\ pc[p] = "accept" => pc'[p] = "create"
        /\ pc[p] = "create" => pc'[p] = "supersede"
        /\ pc[p] = "conflict" => pc'[p] = "refuse"
        /\ pc[p] \in {"request", "registered", "close", "complete", "accept", "create", "conflict"}
    BY <1>3, <2>1 DEF Following, Appending
  <2>0. job[p] \in Calls
    BY <1>1, <2>2 DEF Along, Appending
  <2>3. CASE pc[p] = "request"
    <3>1. Planned(p)'
      BY <1>1, <2>1, <2>3, OnRecordStays DEF Along, Planned
    <3> QED BY <2>0, <2>1, <2>2, <2>3, <3>1 DEF Along, Appending
  <2>4. CASE pc[p] = "registered"
    <3>1. Planned(p) /\ entry[p] \in Events(lineage')
      BY <1>1, <2>4 DEF Along, Noted
    <3>2. Delivered(job[p].result, job[p].delivery)'
      BY <2>1, <3>1 DEF Planned, Delivered, RecordsOf, Records
    <3> QED BY <2>0, <2>1, <2>2, <2>4, <3>2 DEF Along, Appending
  <2>5. CASE pc[p] = "conflict"
    BY <2>0, <2>1, <2>2, <2>5 DEF Along, Appending
  <2>6. CASE pc[p] \in {"close", "complete", "accept", "create"}
    <3> DEFINE r == job[p].result
               d == job[p].delivery
    <3>1. /\ Delivered(r, d) /\ (pc[p] # "close" => Closed(r))
          /\ pc[p] \in {"accept", "create"} => Completed(r)
          /\ pc[p] = "create" => AcceptedAs(r, d)
      BY <1>1, <2>6 DEF Along
    <3>2. Delivered(r, d)'
      BY <2>1, <3>1, OnRecordStays
    <3>3. Closed(r)'
      BY <2>1, <2>6, <3>1, OnRecordStays DEF Noted, Closed
    <3>4. pc[p] # "close" => Completed(r)'
      BY <2>1, <2>6, <3>1, OnRecordStays DEF Noted, Completed
    <3>5. pc[p] \in {"accept", "create"} => AcceptedAs(r, d)'
      BY <2>1, <2>6, <3>1, OnRecordStays DEF Noted, AcceptedAs
    <3>6. pc[p] = "create" => Recorded(results', [kind |-> "CREATED", result |-> r, delivery |-> d,
                                                 note |-> job[p].stamp])
      BY DEF Noted
    <3> QED BY <2>0, <2>1, <2>2, <2>6, <3>2, <3>3, <3>4, <3>5, <3>6 DEF Along, Appending
  <2>7. pc'[p] \in Appending
    BY <2>2 DEF Appending
  <2> QED BY <2>1, <2>2, <2>3, <2>4, <2>5, <2>6, <2>7
<1> QED BY <1>1, <1>2, <1>3 DEF Done, Raise

\* It leaves every variable in its type.
LEMMA DoneTypes ==
  ASSUME IInv, NEW p \in Proc, pc[p] \in Appending, Done(p), UNCHANGED <<closed, calls, overlap>>,
         lineage' \in Seq(LineageEvents), dispatches' \in Seq(DispatchEvents),
         results' \in Seq(ResultEvents)
  PROVE  TypeOK'
<1> USE DEF Goto
<1>1. TypeOK
  BY DEF IInv
<1>2. CASE Leave(p) /\ UNCHANGED answers
  BY <1>1, <1>2 DEF Leave, TypeOK
<1>3. CASE pc[p] = "supersede" /\ Leave(p) /\ Answer(p, job[p].delivery)
  <2>1. job[p] \in Calls
    BY <1>3 DEF IInv, Along, Appending, ToResults, Ordering
  <2>2. answers' \subseteq Answers
    BY <1>1, <1>3, <2>1 DEF Answer, Answers, TypeOK, Calls
  <2> QED BY <1>1, <1>3, <2>2 DEF Leave, TypeOK
<1>4. CASE /\ Goto(p, Following(pc[p])) /\ checked' = [checked EXCEPT ![p] = FALSE]
           /\ code' = [code EXCEPT ![p] = IF pc[p] = "conflict" THEN "DELIVERY_TAKEN" ELSE @]
           /\ UNCHANGED <<job, entry, answers>>
  <2>1. Following(pc[p]) \in Appending /\ "DELIVERY_TAKEN" \in Codes
    BY DEF Following, Appending, ToLineage, ToResults, Codes
  <2> QED BY <1>1, <1>4, <2>1 DEF TypeOK
<1> QED BY <1>2, <1>3, <1>4 DEF Done, Raise

\* The event of a step belongs into its ledger.
LEMMA PendingTypes ==
  ASSUME IInv, NEW p \in Proc, pc[p] \in Appending
  PROVE  /\ pc[p] \in ToLineage => Pending(p) \in LineageEvents
         /\ pc[p] \in {"complete"} \cup Ordering => Pending(p) \in DispatchEvents
         /\ pc[p] \in ToResults => Pending(p) \in ResultEvents /\ Pending(p).id.result = job[p].result
<1> USE DEF ToLineage, ToResults, Ordering
<1>1. TypeOK /\ Along(p) /\ code[p] \in Codes \cup {None}
  BY DEF IInv, TypeOK
<1>2. pc[p] \notin Ordering => /\ job[p].result \in Result /\ job[p].delivery \in Delivery
                               /\ job[p].stamp \in Stamp /\ dispatchOf[job[p].result] \in Dispatch
  BY <1>1, Links DEF Along, Appending, Calls
<1>3. pc[p] \in Ordering => job[p].dispatch \in Dispatch /\ job[p].stamp \in Stamp
  BY <1>1 DEF Along, Requests
<1>4. ASSUME pc[p] \in ToLineage PROVE Pending(p) \in LineageEvents
  <2>1. entry[p] \in LineageEvents
    BY <1>1, <1>4 DEF Along, Planned
  <2>2. CASE pc[p] = "request"
    <3>1. Pending(p) = Event([entry[p].id EXCEPT !.kind = "REQUESTED"], [by |-> None, stamp |-> job[p].stamp])
      BY <2>2 DEF Pending
    <3> QED BY <1>2, <2>1, <2>2, <3>1 DEF Event, LineageEvents
  <2>3. CASE pc[p] \in {"registered", "conflict"}
    BY <2>1, <2>3 DEF Pending
  <2> QED BY <1>4, <2>2, <2>3
<1>5. pc[p] = "complete" => Pending(p) \in DispatchEvents
  BY <1>2 DEF Pending, DispatchEvent, Event, DispatchEvents
<1>6. pc[p] \in Ordering => Pending(p) \in DispatchEvents
  BY <1>3 DEF Pending, DispatchEvent, Event, DispatchEvents
<1>7. ASSUME pc[p] \in ToResults
      PROVE  Pending(p) \in ResultEvents /\ Pending(p).id.result = job[p].result
  BY <1>1, <1>2, <1>7 DEF Pending, ResultEvent, Event, ResultEvents
<1> QED BY <1>4, <1>5, <1>6, <1>7

\* The first half of an append: what it skips is on record already.
LEMMA CheckPreserves ==
  ASSUME IInv, NEW p \in Proc, Check(p)
  PROVE  IInv'
<1>1. /\ pc[p] \in Appending /\ ~checked[p] /\ pc[p] # "idle"
      /\ UNCHANGED <<ledgers, closed, calls, overlap>> /\ TypeOK /\ Along(p)
  BY DEF Check, IInv, Appending, ToLineage, ToResults, Ordering
<1>2. CASE Raise(p)
  BY <1>1, <1>2, LeavePreserves DEF Raise, TypeOK
<1>3. CASE Done(p) /\ Noted(p)
  <2>1. Grow
    BY <1>1 DEF Grow, ledgers
  <2>2. TypeOK'
    BY <1>1, <1>3, DoneTypes DEF ledgers, TypeOK
  <2>3. /\ Along(p)' /\ ~checked'[p] /\ \A q \in Proc \ {p} : Still(q)
        /\ pc'[p] \in {"request", "registered"} => pc[p] = "request" /\ UNCHANGED <<entry, job>>
    BY <1>1, <1>3, <2>1, AfterAppend
  <2>4. ~overlap => Fresh(p)'
    BY <1>1, <2>3, SameFound DEF IInv, Fresh
  <2> QED BY <1>1, <2>2, <2>3, <2>4, ReadPreserves
<1>4. CASE /\ checked' = [checked EXCEPT ![p] = TRUE] /\ UNCHANGED <<pc, local, answers>>
           /\ ~Recorded(LogOf(pc[p]), Pending(p).id)
           /\ pc[p] = "close" => Closers(job[p].result) = {}
  <2>1. TypeOK'
    BY <1>1, <1>4 DEF TypeOK, ledgers, local
  <2>2. \A q \in Proc \ {p} : Still(q)
    BY <1>1, <1>4 DEF TypeOK, Still, local
  <2>3. checked'[p] /\ UNCHANGED <<pc, job, entry, code>>
    BY <1>1, <1>4 DEF TypeOK, local
  <2>4. Along(p)'
    BY <1>1, <2>3, SameFound DEF Along, Planned, ledgers
  <2>5. Recorded(LogOf(pc[p]), Pending(p).id)' = Recorded(LogOf(pc[p]), Pending(p).id)
    BY <1>1, <2>3 DEF LogOf, Pending, ledgers
  <2>6. ~overlap => Fresh(p)'
    BY <1>1, <1>4, <2>3, <2>5, SameFound DEF IInv, Fresh
  <2> QED BY <1>1, <2>1, <2>2, <2>4, <2>6, ReadPreserves
<1>5. CASE pc[p] # "close" /\ Known(LogOf(pc[p]), Pending(p)) /\ Done(p)
  <2>1. Noted(p)
    <3>1. Pending(p) \in Events(LogOf(pc[p]))
      BY <1>5 DEF Known
    <3>2. CASE pc[p] = "registered"
      BY <1>1, <3>1, <3>2 DEF Noted, LogOf, Pending, ledgers, ToLineage, ToResults
    <3>3. CASE pc[p] = "complete"
      BY <1>1, <3>1, <3>3 DEF Noted, LogOf, Pending, Recorded, ledgers, DispatchEvent, Event, ToLineage, ToResults
    <3>4. CASE pc[p] \in {"accept", "create"}
      BY <1>1, <3>1, <3>4 DEF Noted, LogOf, Pending, Recorded, ledgers, ResultEvent, Event, ToLineage, ToResults
    <3> QED BY <1>5, <3>2, <3>3, <3>4 DEF Noted
  <2> QED BY <1>3, <1>5, <2>1
<1>6. CASE pc[p] = "close" /\ job[p].result \in Closers(job[p].result) /\ Done(p)
  <2>1. Noted(p)
    BY <1>1, <1>6 DEF Noted, Closers, Closed, ledgers
  <2> QED BY <1>3, <1>6, <2>1
<1> QED BY <1>2, <1>4, <1>5, <1>6 DEF Check

\* A write adds the event of its step to one ledger.
LEMMA WriteGrows ==
  ASSUME IInv, NEW p \in Proc, Write(p)
  PROVE  LET e == Pending(p)
             step == pc[p]
         IN  /\ step \in Appending /\ Along(p)
             /\ Done(p) /\ UNCHANGED <<closed, calls, overlap>>
             /\ lineage' \in Seq(LineageEvents) /\ dispatches' \in Seq(DispatchEvents)
             /\ results' \in Seq(ResultEvents)
             /\ Events(lineage') = IF step \in ToLineage THEN Events(lineage) \cup {e} ELSE Events(lineage)
             /\ Events(results') = IF step \in ToResults THEN Events(results) \cup {e} ELSE Events(results)
             /\ Events(dispatches') = IF step \in ToLineage \cup ToResults
                                        THEN Events(dispatches) ELSE Events(dispatches) \cup {e}
             /\ LedgersReadable'
<1> DEFINE e == Pending(p)
<1>1. /\ TypeOK /\ Along(p) /\ pc[p] \in Appending /\ Done(p)
      /\ UNCHANGED <<closed, calls, overlap>> /\ Written(p, e)
  BY DEF IInv, Along, Write
<1>2. ~overlap => ~Recorded(LogOf(pc[p]), e.id) /\ Readable(lineage) /\ Readable(dispatches) /\ Readable(results)
  BY DEF IInv, Fresh, Write, LedgersReadable
<1>0. ToLineage \cap ToResults = {}
  BY DEF ToLineage, ToResults
<1> HIDE DEF e
<1>3. CASE pc[p] \in ToLineage
  <2>1. e \in LineageEvents
    BY <1>1, <1>3, PendingTypes DEF e
  <2>2. lineage' = Append(lineage, e) /\ UNCHANGED <<dispatches, results>>
    BY <1>0, <1>1, <1>3 DEF Written
  <2>3. Events(lineage') = Events(lineage) \cup {e} /\ lineage' \in Seq(LineageEvents)
    BY <1>1, <2>1, <2>2, EventsOfAppend, AppendProperties DEF TypeOK
  <2>4. ASSUME ~overlap PROVE Readable(lineage')
    <3>1. ~Recorded(lineage, e.id)
      BY <1>0, <1>2, <1>3, <2>4 DEF LogOf
    <3> QED BY <1>1, <1>2, <2>1, <2>2, <2>4, <3>1, ReadableAppend DEF TypeOK
  <2>5. LedgersReadable'
    BY <1>1, <1>2, <2>2, <2>4 DEF LedgersReadable
  <2> QED BY <1>0, <1>1, <1>3, <2>2, <2>3, <2>5 DEF e, TypeOK
<1>4. CASE pc[p] \in ToResults
  <2>1. e \in ResultEvents
    BY <1>1, <1>4, PendingTypes DEF e
  <2>2. results' = Append(results, e) /\ UNCHANGED <<lineage, dispatches>>
    BY <1>0, <1>1, <1>4 DEF Written
  <2>3. Events(results') = Events(results) \cup {e} /\ results' \in Seq(ResultEvents)
    BY <1>1, <2>1, <2>2, EventsOfAppend, AppendProperties DEF TypeOK
  <2>4. ASSUME ~overlap PROVE Readable(results')
    <3>1. ~Recorded(results, e.id)
      BY <1>0, <1>2, <1>4, <2>4 DEF LogOf
    <3> QED BY <1>1, <1>2, <2>1, <2>2, <2>4, <3>1, ReadableAppend DEF TypeOK
  <2>5. LedgersReadable'
    BY <1>1, <1>2, <2>2, <2>4 DEF LedgersReadable
  <2> QED BY <1>0, <1>1, <1>4, <2>2, <2>3, <2>5 DEF e, TypeOK
<1>5. CASE pc[p] \notin ToLineage \cup ToResults
  <2>1. e \in DispatchEvents
    BY <1>1, <1>5, PendingTypes DEF e, Appending
  <2>2. dispatches' = Append(dispatches, e) /\ UNCHANGED <<lineage, results>>
    BY <1>1, <1>5 DEF Written
  <2>3. Events(dispatches') = Events(dispatches) \cup {e} /\ dispatches' \in Seq(DispatchEvents)
    BY <1>1, <2>1, <2>2, EventsOfAppend, AppendProperties DEF TypeOK
  <2>4. ASSUME ~overlap PROVE Readable(dispatches')
    <3>1. ~Recorded(dispatches, e.id)
      BY <1>2, <1>5, <2>4 DEF LogOf
    <3> QED BY <1>1, <1>2, <2>1, <2>2, <2>4, <3>1, ReadableAppend DEF TypeOK
  <2>5. LedgersReadable'
    BY <1>1, <1>2, <2>2, <2>4 DEF LedgersReadable
  <2> QED BY <1>1, <1>5, <2>2, <2>3, <2>5 DEF e, TypeOK
<1> QED BY <1>3, <1>4, <1>5

\* The results' event that a write adds, by its kind, is the step the process is at.
LEMMA NewResult ==
  ASSUME IInv, NEW p \in Proc, Write(p), NEW e \in Events(results') \ Events(results)
  PROVE  /\ pc[p] \in ToResults /\ Along(p) /\ e = Pending(p) /\ job[p] \in Calls
         /\ e.id.result = job[p].result /\ e.id.result \in Result
         /\ e.id.kind = "COMPLETED" => pc[p] = "close"
         /\ e.id.kind = "ACCEPTED" => pc[p] = "accept"
         /\ e.id.kind = "CREATED" => pc[p] = "create"
         /\ e.id.kind = "SUPERSEDED" => pc[p] = "supersede"
         /\ pc[p] \in {"close", "accept", "create", "supersede"} => e.id.delivery = job[p].delivery
         /\ pc[p] \in {"close", "accept"} => e.id.note = None
         /\ pc[p] \in {"create", "supersede"} => e.id.note = job[p].stamp
<1>1. pc[p] \in ToResults /\ Along(p) /\ e = Pending(p)
  BY WriteGrows
<1>2. job[p] \in Calls /\ job[p].result \in Result
  BY <1>1 DEF Along, Appending, ToResults, Ordering, Calls
<1>3. CASE pc[p] \in {"close", "accept", "create", "supersede"}
  BY <1>1, <1>2, <1>3 DEF Pending, ResultEvent, Event
<1>4. CASE pc[p] \in {"fail", "refuse"}
  BY <1>1, <1>2, <1>4 DEF Pending, ResultEvent, Event
<1> QED BY <1>1, <1>3, <1>4 DEF ToResults

\* The supersession is the last thing written, so what it needs is there.
LEMMA WriteKeepsWhole ==
  ASSUME IInv, NEW p \in Proc, Write(p), Grow
  PROVE  SupersededIsWhole'
<1> DEFINE whole(id) ==
             /\ Closed(id.result) /\ AcceptedAs(id.result, id.delivery) /\ Completed(id.result)
             /\ Recorded(results, [id EXCEPT !.kind = "CREATED"])
             /\ Delivered(id.result, id.delivery)
<1>1. ASSUME NEW s \in Events(results'), s.id.kind = "SUPERSEDED" PROVE whole(s.id)
  <2>1. CASE s \in Events(results)
    BY <1>1, <2>1 DEF IInv, SupersededIsWhole
  <2>2. CASE s \notin Events(results)
    <3>1. /\ pc[p] = "supersede" /\ Along(p) /\ s = Pending(p)
          /\ s.id.result = job[p].result /\ s.id.delivery = job[p].delivery /\ s.id.note = job[p].stamp
      BY <1>1, <2>2, NewResult
    <3>2. [s.id EXCEPT !.kind = "CREATED"] = [kind |-> "CREATED", result |-> job[p].result,
                                              delivery |-> job[p].delivery, note |-> job[p].stamp]
      BY <3>1 DEF Pending, ResultEvent, Event
    <3> QED BY <3>1, <3>2 DEF Along
  <2> QED BY <2>1, <2>2
<1>2. \A id : whole(id) => whole(id)'
  BY OnRecordStays
<1> HIDE DEF whole
<1>3. \A s \in Events(results') : s.id.kind = "SUPERSEDED" => whole(s.id)'
  BY <1>1, <1>2
<1> QED BY <1>3 DEF SupersededIsWhole, whole

\* A new record follows its parent's, and what is written of a result finds what it
\* rests on.
LEMMA WriteKeepsChain ==
  ASSUME IInv, NEW p \in Proc, Write(p), Grow
  PROVE  Chained'
<1>1. Along(p) /\ pc[p] \in Appending
  BY WriteGrows
<1>2. ASSUME NEW e \in Records', e.id.parent # None PROVE Succeeds(e)'
  <2>1. CASE e \in Records
    BY <1>2, <2>1, OnRecordStays DEF IInv, Chained
  <2>2. CASE e \notin Records
    <3>1. e = Pending(p) /\ pc[p] \in ToLineage /\ e.id.kind = "REGISTERED"
      BY <1>2, <2>2, WriteGrows DEF Records
    <3>2. pc[p] = "registered" /\ e = entry[p]
      BY <1>1, <3>1 DEF Pending, Event, Along, ToLineage, Planned, LineageEvents
    <3> QED BY <1>1, <3>2, OnRecordStays DEF Along, Planned
  <2> QED BY <2>1, <2>2
<1> DEFINE backed(e) ==
             /\ e.id.delivery \in Delivery
             /\ Delivered(e.id.result, e.id.delivery)
             /\ e.id.kind \in {"CREATED", "SUPERSEDED"} => AcceptedAs(e.id.result, e.id.delivery)
<1>3. ASSUME NEW e \in Taken' PROVE backed(e) /\ Closed(e.id.result)'
  <2>1. CASE e \in Events(results)
    <3>1. e \in Taken
      BY <1>3, <2>1 DEF Taken
    <3> QED BY <3>1, OnRecordStays DEF IInv, Chained
  <2>2. CASE e \notin Events(results)
    <3>1. /\ e \in Events(results') \ Events(results)
          /\ e.id.kind \in {"COMPLETED", "ACCEPTED", "CREATED", "SUPERSEDED"}
      BY <1>3, <2>2 DEF Taken
    <3>2. /\ e.id.kind = "COMPLETED" => pc[p] = "close"
          /\ e.id.kind = "ACCEPTED" => pc[p] = "accept"
          /\ e.id.kind \in {"CREATED", "SUPERSEDED"} => pc[p] \in {"create", "supersede"}
          /\ pc[p] \in {"close", "accept", "create", "supersede"}
          /\ e.id.result = job[p].result /\ e.id.delivery = job[p].delivery /\ job[p] \in Calls
          /\ e = Pending(p)
      BY <3>1, NewResult
    <3>3. backed(e)
      BY <1>1, <3>2 DEF Along, Calls
    <3>4. CASE pc[p] # "close"
      <4>1. Closed(e.id.result)
        BY <1>1, <3>2, <3>4 DEF Along
      <4> QED BY <3>3, <4>1, OnRecordStays
    <3>5. CASE pc[p] = "close"
      <4>1. e.id = [kind |-> "COMPLETED", result |-> e.id.result, delivery |-> e.id.delivery, note |-> None]
        BY <3>2, <3>5 DEF Pending, ResultEvent, Event
      <4>2. Recorded(results', e.id) /\ e.id.delivery \in Delivery
        BY <3>1, <3>2 DEF Recorded, Calls
      <4>3. Closed(e.id.result)'
        BY <4>1, <4>2 DEF Closed
      <4> QED BY <3>3, <4>3
    <3> QED BY <3>4, <3>5
  <2> QED BY <2>1, <2>2
<1>4. \A e : backed(e) => backed(e)'
  BY OnRecordStays
<1> HIDE DEF backed
<1>5. \A e \in Taken' : backed(e)' /\ Closed(e.id.result)'
  BY <1>3, <1>4
<1> QED BY <1>2, <1>5 DEF Chained, backed

\* While nobody else is alive, a closure is written where there was none of the
\* revision.
LEMMA WriteKeepsCloser ==
  ASSUME IInv, NEW p \in Proc, Write(p)
  PROVE  OneCloser'
<1> SUFFICES ASSUME ~overlap, NEW q \in Result, NEW r \in Result, RevisionOf(q) = RevisionOf(r),
                    Closed(q)', Closed(r)'
             PROVE  q = r
  BY WriteGrows DEF OneCloser
<1>1. checked[p] /\ Fresh(p)
  BY DEF Write, IInv
<1>2. ASSUME NEW x \in Result, Closed(x)', ~Closed(x)
      PROVE  pc[p] = "close" /\ x = job[p].result
  <2>1. PICK e \in Events(results') : \E d \in Delivery :
          e.id = [kind |-> "COMPLETED", result |-> x, delivery |-> d, note |-> None]
    BY <1>2 DEF Closed, Recorded
  <2>2. e \notin Events(results)
    BY <1>2, <2>1 DEF Closed, Recorded
  <2>3. e.id.kind = "COMPLETED" /\ e.id.result = x
    BY <2>1
  <2> QED BY <2>2, <2>3, NewResult
<1>3. pc[p] = "close" => \A x \in Result : RevisionOf(x) = RevisionOf(job[p].result) => ~Closed(x)
  BY <1>1 DEF Fresh, Closers
<1>4. Closed(q) /\ Closed(r) => q = r
  BY DEF IInv, OneCloser
<1> QED BY <1>2, <1>3, <1>4

\* While nobody else is alive, the version of a new record is new, and so is its
\* delivery.
LEMMA WriteKeepsVersions ==
  ASSUME IInv, NEW p \in Proc, Write(p)
  PROVE  VersionsUnique'
<1> SUFFICES ASSUME ~overlap, NEW e \in Records', NEW f \in Records',
                    e.id.version = f.id.version \/ e.id.delivery = f.id.delivery
             PROVE  e = f
  BY WriteGrows DEF VersionsUnique
<1>1. Along(p) /\ Fresh(p)
  BY DEF IInv
<1>2. ASSUME NEW x \in Records', x \notin Records
      PROVE  pc[p] = "registered" /\ x = entry[p]
  <2>1. x = Pending(p) /\ pc[p] \in ToLineage /\ x.id.kind = "REGISTERED"
    BY <1>2, WriteGrows DEF Records
  <2> QED BY <1>1, <2>1 DEF Pending, Event, Along, ToLineage, Planned, LineageEvents
<1>3. pc[p] = "registered" =>
        \A x \in Records : x.id.version # entry[p].id.version /\ x.id.delivery # entry[p].id.delivery
  BY <1>1 DEF Along, Planned, Fresh, VersionTaken, RecordsOf
<1>4. e \in Records /\ f \in Records => e = f
  BY DEF IInv, VersionsUnique
<1> QED BY <1>2, <1>3, <1>4

\* The second half of an append: one event more, new if the process is alone.
LEMMA WritePreserves ==
  ASSUME IInv, NEW p \in Proc, Write(p)
  PROVE  IInv'
<1>1. Grow /\ Done(p) /\ pc[p] \in Appending /\ UNCHANGED <<closed, calls, overlap>>
  BY WriteGrows DEF Grow
<1>2. TypeOK'
  BY <1>1, WriteGrows, DoneTypes
<1>3. Noted(p)
  <2>1. /\ pc[p] = "registered" => Pending(p) = entry[p] /\ Pending(p) \in Events(lineage')
        /\ pc[p] = "complete" => Pending(p) \in Events(dispatches')
        /\ pc[p] \in {"close", "accept", "create"} => Pending(p) \in Events(results')
    BY WriteGrows DEF Pending, ToLineage, ToResults
  <2>2. pc[p] = "close" => job[p].delivery \in Delivery
    BY DEF IInv, Along, Appending, ToResults, Ordering, Calls
  <2>3. CASE pc[p] = "registered"
    BY <2>1, <2>3 DEF Noted
  <2>4. CASE pc[p] = "complete"
    BY <2>1, <2>4 DEF Noted, Recorded, Pending, DispatchEvent, Event
  <2>5. CASE pc[p] \in {"close", "accept", "create"}
    BY <2>1, <2>2, <2>5 DEF Noted, Recorded, Pending, ResultEvent, Event
  <2> QED BY <2>3, <2>4, <2>5 DEF Noted
<1>4. /\ Along(p)' /\ ~checked'[p] /\ \A q \in Proc \ {p} : Still(q)
      /\ pc'[p] \in {"request", "registered"} => pc[p] = "request" /\ UNCHANGED <<entry, job>>
  BY <1>1, <1>3, AfterAppend
<1>5. \A q \in Proc : Along(q)'
  BY <1>1, <1>4, OthersKnow
<1>6. ASSUME ~overlap PROVE Solitary' /\ \A q \in Proc : Fresh(q)'
  <2>1. pc[p] # "idle"
    BY <1>1 DEF Appending, ToLineage, ToResults, Ordering
  <2>2. \A q \in Proc : q # p => pc'[q] = "idle" /\ ~checked'[q]
    BY <1>4, <1>6, <2>1, Lonely DEF Still
  <2>3. \A q \in Proc : q # p => Fresh(q)'
    BY <2>2 DEF Fresh
  <2>4. pc[p] = "request" => Records' = Records
    <3>1. pc[p] = "request" => Pending(p).id.kind # "REGISTERED"
      <4>1. pc[p] = "request" => entry[p] \in LineageEvents
        BY DEF IInv, Along, Planned
      <4> QED BY <4>1 DEF Pending, Event, LineageEvents
    <3> QED BY <3>1, WriteGrows DEF Records
  <2>5. Fresh(p)'
    BY <1>4, <1>6, <2>4 DEF IInv, Fresh, VersionTaken, RecordsOf
  <2> QED BY <2>2, <2>3, <2>5 DEF Solitary
<1>7. SupersededIsWhole' /\ VersionsUnique' /\ Chained' /\ OneCloser' /\ LedgersReadable'
  BY <1>1, WriteKeepsWhole, WriteKeepsChain, WriteKeepsCloser, WriteKeepsVersions, WriteGrows
<1> QED BY <1>1, <1>2, <1>5, <1>6, <1>7 DEF IInv

-----------------------------------------------------------------------------
(* The other steps.                                                        *)

\* A command that starts: it is alone, or an overlap is noted.
LEMMA StartPreserves ==
  ASSUME IInv, NEW p \in Proc, NEW step \in {"ask", "lookup"}, NEW call,
         step = "ask" => call \in Requests, step = "lookup" => call \in Calls, Start(p, step, call)
  PROVE  IInv'
<1> USE DEF Goto
<1>1. /\ TypeOK /\ pc[p] = "idle" /\ ~checked[p] /\ UNCHANGED <<ledgers, closed>>
      /\ overlap' = (overlap \/ \E q \in Proc : pc[q] # "idle")
  BY DEF Start, IInv, Along, Appending, ToLineage, ToResults, Ordering
<1>2. TypeOK'
  <2>1. calls' \in 0 .. MaxCalls \/ ~(calls < MaxCalls)
    BY <1>1 DEF Start, TypeOK
  <2>2. calls < MaxCalls /\ overlap' \in BOOLEAN
    BY <1>1 DEF Start, TypeOK
  <2> QED BY <1>1, <2>1, <2>2 DEF Start, TypeOK, Reading, ledgers
<1>3. SupersededIsWhole' /\ VersionsUnique' /\ LedgersReadable' /\ Chained' /\ OneCloser'
  BY <1>1, GlobalStays
<1>4. /\ pc'[p] = step /\ ~checked'[p] /\ job'[p] = call
      /\ \A q \in Proc \ {p} : Still(q)
  BY <1>1 DEF Start, TypeOK, Still
<1>5. Along(p)' /\ Fresh(p)'
  BY <1>4 DEF Along, Fresh, Reading, Appending, ToLineage, ToResults, Ordering
<1>6. \A q \in Proc : Along(q)'
  BY <1>1, <1>4, <1>5, OthersStay
<1>7. ASSUME ~overlap' PROVE Solitary' /\ \A q \in Proc : Fresh(q)'
  <2>1. \A q \in Proc : q # p => pc'[q] = "idle" /\ ~checked'[q]
    BY <1>1, <1>4, <1>7 DEF Still, IInv, Along, Appending, ToLineage, ToResults, Ordering, TypeOK
  <2> QED BY <1>5, <2>1 DEF Solitary, Fresh
<1> QED BY <1>2, <1>3, <1>6, <1>7 DEF IInv

\* Steps that leave the processes and the ledgers alone keep everything.
LEMMA QuietPreserves ==
  ASSUME IInv, UNCHANGED <<ledgers, pc, checked, local, answers, calls, overlap>>, closed' \subseteq Delivery
  PROVE  IInv'
<1>1. TypeOK'
  BY DEF IInv, TypeOK, ledgers, local
<1>2. \A q \in Proc : Along(q)'
  BY OthersStay DEF Still, local
<1>3. ~overlap => Solitary' /\ \A q \in Proc : Fresh(q)'
  <2>1. \A q \in Proc : Recorded(LogOf(pc[q]), Pending(q).id)' = Recorded(LogOf(pc[q]), Pending(q).id)
    BY DEF LogOf, Pending, ledgers, local
  <2> QED BY <2>1, SameFound DEF IInv, Solitary, Fresh, local
<1> QED BY <1>1, <1>2, <1>3, GlobalStays DEF IInv

\* A delivery that the customer accepts changes nothing the invariant is about.
LEMMA ClosePreserves ==
  ASSUME IInv, NEW d \in Delivery, CloseDelivery(d)
  PROVE  IInv'
<1>1. closed' \subseteq Delivery
  BY DEF CloseDelivery, IInv, TypeOK
<1> QED BY <1>1, QuietPreserves DEF CloseDelivery

\* The lemmas above, put together: every step keeps the invariant.
LEMMA NextIInv == IInv /\ [Next]_vars => IInv'
<1> SUFFICES ASSUME IInv, [Next]_vars PROVE IInv'
  OBVIOUS
<1>1. ASSUME NEW p \in Proc, Step(p) PROVE IInv'
  BY <1>1, AskPreserves, LookupPreserves, GatePreserves, RegisterPreserves, CheckPreserves, WritePreserves
     DEF Step
<1>2. ASSUME NEW p \in Proc, Crash(p) PROVE IInv'
  <2>1. answers' \subseteq Answers
    BY <1>2 DEF Crash, IInv, TypeOK
  <2> QED BY <1>2, <2>1, LeavePreserves DEF Crash
<1>3. ASSUME NEW p \in Proc, NEW call \in Calls, Reconcile(p, call) PROVE IInv'
  BY <1>3, StartPreserves DEF Reconcile
<1>4. ASSUME NEW p \in Proc, NEW d \in Dispatch, NEW t \in Stamp, Request(p, d, t) PROVE IInv'
  <2>1. [dispatch |-> d, stamp |-> t] \in Requests
    BY DEF Requests
  <2> QED BY <1>4, <2>1, StartPreserves DEF Request
<1>5. CASE UNCHANGED vars
  <2>1. closed' \subseteq Delivery
    BY <1>5 DEF vars, IInv, TypeOK
  <2> QED BY <1>5, <2>1, QuietPreserves DEF vars
<1> QED BY <1>1, <1>2, <1>3, <1>4, <1>5, ClosePreserves DEF Next

-----------------------------------------------------------------------------
(* The theorems.                                                           *)

\* How far a process is says what is on record for its result: the invariant all
\* the others follow from.
THEOREM Inductive == Spec => []IInv
BY InitIInv, NextIInv, PTL DEF Spec

\* Type correctness of the ledgers and of every reconciliation.
THEOREM TypeCorrect == Spec => []TypeOK
<1>1. IInv => TypeOK
  BY DEF IInv
<1> QED BY <1>1, Inductive, PTL

\* A supersession on record means a whole reconciliation on record, for any number
\* of processes that race, raise and die.
THEOREM SupersessionsWhole == Spec => []SupersededIsWhole
<1>1. IInv => SupersededIsWhole
  BY DEF IInv
<1> QED BY <1>1, Inductive, PTL

\* Without overlap, versions and deliveries correspond one to one.
THEOREM VersionsOneToOne == Spec => []VersionsUnique
<1>1. IInv => VersionsUnique
  BY DEF IInv
<1> QED BY <1>1, Inductive, PTL

\* Without overlap, of reconciliations or of dispatch requests, no ledger is ever
\* made unreadable.
THEOREM LedgersStayReadable == Spec => []LedgersReadable
<1>1. IInv => LedgersReadable
  BY DEF IInv
<1> QED BY <1>1, Inductive, PTL

\* Without overlap, a revision is taken up by one result and one delivery: one
\* result closes it, and two deliveries that are registered would both have the
\* version after the delivery they revise, which only one has.
LEMMA OneResult == IInv => OneResultPerRevision
<1>1. ASSUME IInv, ~overlap, NEW x \in Records, NEW y \in Records,
             x.id.parent = y.id.parent, x.id.parent # None
      PROVE  x = y
  <2>1. PICK o \in RecordsOf(x.id.parent) : x.id.version = o.id.version + 1
    BY <1>1 DEF IInv, Chained, Succeeds
  <2>2. PICK n \in RecordsOf(x.id.parent) : y.id.version = n.id.version + 1
    BY <1>1 DEF IInv, Chained, Succeeds
  <2>3. o = n
    BY <1>1 DEF IInv, VersionsUnique, RecordsOf
  <2> QED BY <1>1, <2>1, <2>2, <2>3 DEF IInv, VersionsUnique
<1> SUFFICES ASSUME IInv, ~overlap, NEW e \in Taken
             PROVE  /\ \A f \in Taken : RevisionOf(f.id.result) = RevisionOf(e.id.result) =>
                         f.id.result = e.id.result /\ f.id.delivery = e.id.delivery
                    /\ \A x \in Records :
                         x.id.parent = OriginalOf(e.id.result) => x.id.delivery = e.id.delivery
  BY DEF OneResultPerRevision
<1>2. \A f \in Taken : f.id.result \in Result
  <2>1. Taken \subseteq ResultEvents
    BY DEF Taken, Events, IInv, TypeOK
  <2> QED BY <2>1 DEF ResultEvents
<1>3. \A f \in Taken : Delivered(f.id.result, f.id.delivery) /\ Closed(f.id.result)
  BY DEF IInv, Chained
<1>4. ASSUME NEW x \in Records, x.id.parent = OriginalOf(e.id.result)
      PROVE  x.id.delivery = e.id.delivery
  <2>1. PICK y \in RecordsOf(e.id.delivery) : y.id.parent = OriginalOf(e.id.result)
    BY <1>3 DEF Delivered
  <2>2. x.id.parent # None /\ y \in Records
    BY <1>2, <1>4, Links DEF RecordsOf
  <2>3. x = y
    BY <1>1, <1>4, <2>1, <2>2
  <2> QED BY <2>1, <2>3 DEF RecordsOf
<1>5. ASSUME NEW f \in Taken, RevisionOf(f.id.result) = RevisionOf(e.id.result)
      PROVE  f.id.result = e.id.result /\ f.id.delivery = e.id.delivery
  <2>1. f.id.result = e.id.result
    BY <1>2, <1>3, <1>5 DEF IInv, OneCloser
  <2>2. PICK y \in RecordsOf(f.id.delivery) : y.id.parent = OriginalOf(e.id.result)
    BY <1>3, <2>1 DEF Delivered
  <2>3. y.id.delivery = e.id.delivery
    BY <1>4, <2>2 DEF RecordsOf
  <2> QED BY <2>1, <2>2, <2>3 DEF RecordsOf
<1> QED BY <1>4, <1>5

\* Without overlap, what is written of a revision names one result and one delivery.
THEOREM OneResultTaken == Spec => []OneResultPerRevision
BY Inductive, OneResult, PTL

\* An answer from the ledger or at the end of a run finds on record what it says.
LEMMA AnswersKept ==
  IInv /\ AnswersOnRecord /\ [Next]_vars => AnswersOnRecord'
<1> SUFFICES ASSUME IInv, AnswersOnRecord, [Next]_vars
             PROVE  AnswersOnRecord'
  OBVIOUS
<1> DEFINE told(a, d) ==
             /\ Accepted(a)
             /\ d # None => \E q \in Result : AcceptedAs(q, d) /\ Delivered(q, d)
<1>1. ASSUME Grow, \A ans \in answers' : ans \in answers \/ told(ans[1], ans[2])
      PROVE  AnswersOnRecord'
  <2>1. \A a, d : told(a, d) => told(a, d)'
    BY <1>1, OnRecordStays DEF Accepted
  <2>2. \A ans \in answers' : told(ans[1], ans[2])
    BY <1>1 DEF AnswersOnRecord
  <2> QED BY <2>1, <2>2 DEF AnswersOnRecord
<1>2. ASSUME NEW p \in Proc, Lookup(p) PROVE \A ans \in answers' : ans \in answers \/ told(ans[1], ans[2])
  <2>1. ASSUME Accepted(job[p].result), Reconstruct(p)
        PROVE  \A ans \in answers' : ans \in answers \/ told(ans[1], ans[2])
    <3>1. CASE Answer(p, None)
      BY <2>1, <3>1 DEF Answer
    <3>2. ASSUME NEW i \in Made, Answer(p, results[i].id.delivery)
          PROVE  told(job[p].result, results[i].id.delivery)
      <4>1. results[i] \in ResultEvents /\ results[i] \in Taken
        BY DEF IInv, TypeOK, Made, Events, Taken
      <4>2. results[i].id.result \in Result /\ results[i].id.kind = "CREATED"
        BY <4>1 DEF ResultEvents, Made
      <4>3. /\ AcceptedAs(results[i].id.result, results[i].id.delivery)
            /\ Delivered(results[i].id.result, results[i].id.delivery)
        BY <4>1, <4>2 DEF IInv, Chained
      <4> QED BY <2>1, <4>2, <4>3
    <3> QED BY <2>1, <3>1, <3>2 DEF Reconstruct, Answer
  <2>2. \/ UNCHANGED answers
        \/ Accepted(job[p].result) /\ Reconstruct(p)
    BY <1>2 DEF Lookup, Raise, Refuse, Proceed
  <2> QED BY <2>1, <2>2
<1>3. ASSUME NEW p \in Proc, pc[p] \in Appending, Done(p)
      PROVE  \A ans \in answers' : ans \in answers \/ told(ans[1], ans[2])
  <2>1. CASE pc[p] = "supersede"
    <3>1. /\ answers' = answers \cup {<<job[p].result, job[p].delivery>>}
          /\ AcceptedAs(job[p].result, job[p].delivery) /\ Delivered(job[p].result, job[p].delivery)
          /\ job[p] \in Calls
      BY <1>3, <2>1 DEF Done, Answer, IInv, Along, Appending, ToResults, Ordering
    <3>2. told(job[p].result, job[p].delivery)
      BY <3>1 DEF Accepted, Calls
    <3> QED BY <3>1, <3>2
  <2>2. CASE pc[p] # "supersede"
    BY <1>3, <2>2 DEF Done, Raise
  <2> QED BY <2>1, <2>2
<1>4. CASE UNCHANGED ledgers /\ UNCHANGED answers
  BY <1>1, <1>4 DEF Grow, ledgers
<1>5. ASSUME NEW p \in Proc, Step(p) PROVE AnswersOnRecord'
  <2>1. CASE Lookup(p)
    BY <1>1, <1>2, <2>1 DEF Lookup, Grow, ledgers
  <2>2. CASE Ask(p) \/ Gate(p) \/ Register(p)
    BY <1>4, <2>2 DEF Ask, Gate, Register, Proceed, Refuse, Raise
  <2>3. CASE Write(p)
    BY <1>1, <1>3, <2>3, WriteGrows DEF Grow
  <2>4. CASE Check(p)
    <3>1. Grow /\ pc[p] \in Appending /\ UNCHANGED ledgers
      BY <2>4 DEF Check, Grow, ledgers
    <3> QED BY <1>1, <1>3, <1>4, <2>4, <3>1 DEF Check, Raise
  <2> QED BY <1>5, <2>1, <2>2, <2>3, <2>4 DEF Step
<1>6. CASE \/ \E p \in Proc : Crash(p)
           \/ \E p \in Proc, call \in Calls : Reconcile(p, call)
           \/ \E p \in Proc, d \in Dispatch, t \in Stamp : Request(p, d, t)
           \/ \E d \in Delivery : CloseDelivery(d)
           \/ UNCHANGED vars
  BY <1>4, <1>6 DEF Crash, Reconcile, Request, Start, CloseDelivery, vars
<1> QED BY <1>5, <1>6 DEF Next

\* Nobody is told of a reconciliation or a delivery that is not on record, whatever
\* races or dies.
THEOREM AnswersAreOnRecord == Spec => []AnswersOnRecord
<1>1. Init => AnswersOnRecord
  BY DEF Init, InitWith, AnswersOnRecord
<1> QED BY <1>1, Inductive, AnswersKept, PTL DEF Spec

\* Whatever a step does, the results' ledger only grows.
LEMMA ResultsGrow == IInv /\ [Next]_vars => Events(results) \subseteq Events(results')
<1> SUFFICES ASSUME IInv, [Next]_vars PROVE Events(results) \subseteq Events(results')
  OBVIOUS
<1>1. ASSUME NEW p \in Proc, Write(p) PROVE Events(results) \subseteq Events(results')
  BY <1>1, WriteGrows DEF Grow
<1>2. CASE UNCHANGED results
  BY <1>2
<1>3. ASSUME NEW p \in Proc, Step(p), ~Write(p) PROVE UNCHANGED results
  BY <1>3 DEF Step, Ask, Lookup, Gate, Register, Check, ledgers
<1> QED BY <1>1, <1>2, <1>3
        DEF Next, Crash, Reconcile, Request, Start, CloseDelivery, vars, ledgers

\* Stage 8E finds no torn result: a revised delivery is backed by the acceptance of
\* its result and by the closure of its revision.
LEMMA NeverTorn == IInv => \A r \in Result, d \in Delivery : ShownTo8E(r, d) \in Stages8D
<1> SUFFICES ASSUME IInv, NEW r \in Result, NEW d \in Delivery PROVE ShownTo8E(r, d) \in Stages8D
  OBVIOUS
<1>1. (\E e \in Shows("CREATED", d) : e.id.result = r) => Accepted(r) /\ Closers(r) # {}
  BY DEF IInv, Chained, Taken, Shows, Accepted, Closers
<1> QED BY <1>1 DEF ShownTo8E, Stages8D

\* What stage 8E reads of a revised delivery starts as nothing and only moves the way
\* the release lets it, for all results, processes, crashes and overlaps.
THEOREM ReleaseFed == Spec => FeedsRelease
<1>1. Init => \A r \in Result, d \in Delivery : ShownTo8E(r, d) = Unreconciled
  BY DEF Init, InitWith, ShownTo8E, Shows, Unreconciled, Events
<1> DEFINE whole == \A r \in Result, d \in Delivery : ShownTo8E(r, d) \in Stages8D
<1>2. ASSUME IInv, whole, whole', NEW r \in Result, NEW d \in Delivery, [Next]_vars,
             ShownTo8E(r, d)' # ShownTo8E(r, d)
      PROVE  ShownTo8E(r, d)' \in Later(ShownTo8E(r, d))
  <2>0. ShownTo8E(r, d) \in Stages8D /\ ShownTo8E(r, d)' \in Stages8D
    BY <1>2
  <2>1. Events(results) \subseteq Events(results')
    BY <1>2, ResultsGrow
  <2>2. Refused(r) => Refused(r)'
    BY <2>1 DEF Refused
  <2>3. ASSUME ShownTo8E(r, d) # "incomplete"
        PROVE  ShownTo8E(r, d)' = IF Refused(r)' THEN "spoiled" ELSE "whole"
    <3>1. (\E e \in Shows("CREATED", d) : e.id.result = r) /\ Shows("SUPERSEDED", d) # {}
      BY <2>3 DEF ShownTo8E
    <3>2. (\E e \in Shows("CREATED", d)' : e.id.result = r) /\ Shows("SUPERSEDED", d)' # {}
      BY <2>1, <3>1 DEF Shows
    <3> QED BY <2>0, <3>2 DEF ShownTo8E, Stages8D
  <2>4. CASE ShownTo8E(r, d) = "incomplete"
    BY <1>2, <2>0, <2>4 DEF Stages8D, Later
  <2>5. CASE ShownTo8E(r, d) = "whole"
    BY <1>2, <2>0, <2>3, <2>5 DEF Stages8D, Later
  <2>6. CASE ShownTo8E(r, d) = "spoiled"
    <3>1. Refused(r)
      BY <2>6 DEF ShownTo8E
    <3> QED BY <1>2, <2>2, <2>3, <2>6, <3>1
  <2> QED BY <2>0, <2>4, <2>5, <2>6 DEF Stages8D
<1> HIDE DEF whole
<1>3. IInv /\ whole /\ whole' /\ [Next]_vars =>
        [\A r \in Result, d \in Delivery :
           ShownTo8E(r, d)' # ShownTo8E(r, d) => ShownTo8E(r, d)' \in Later(ShownTo8E(r, d))]_results
  BY <1>2
<1>4. IInv => whole
  BY NeverTorn DEF whole
<1> QED BY <1>1, <1>3, <1>4, Inductive, PTL DEF Spec, FeedsRelease
=============================================================================
