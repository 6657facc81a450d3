----------------------------- MODULE EventLedger -----------------------------
(***************************************************************************)
(* The JSONL event ledgers of scos/control_center (hvs_*_store.py).  They  *)
(* share one code: append_*_event reads the whole file, compares event ids *)
(* and then appends one line; nothing is locked.  An event is a record of  *)
(* its id (what the event id is hashed from) and its body (everything else *)
(* in the line: the time of recording, the operator).                      *)
(***************************************************************************)
EXTENDS Naturals, Sequences

Event(id, body) == [id |-> id, body |-> body]

Events(log) == {log[i] : i \in DOMAIN log}

Recorded(log, id) == \E e \in Events(log) : e.id = id

\* read_*_events raises when two lines carry one event id: from then on every
\* read of the ledger raises, and so does every append, which starts with one.
Readable(log) == \A i, j \in DOMAIN log : log[i].id = log[j].id => i = j

\* What append_*_event decides before it writes: the event is there already (it
\* returns), its id is there with another body (it raises), or it is new.
Known(log, e) == e \in Events(log)
Clash(log, e) == Recorded(log, e.id) /\ ~Known(log, e)
=============================================================================
