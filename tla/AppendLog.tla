------------------------------ MODULE AppendLog ------------------------------
(***************************************************************************)
(* What the learning stores of integrations/learning promise their callers *)
(* ("append-only", "existing records verified byte-identical", "duplicate  *)
(* guard"): a log that only grows, holds at most one record per key, and   *)
(* keeps every record whose append was acknowledged with ok = True.  The   *)
(* log may grow without an acknowledgement: its writer can die in between. *)
(***************************************************************************)
EXTENDS Sequences, Naturals

CONSTANTS Record,  \* valid records
          keyOf    \* the identity of each, which the duplicate guard compares

VARIABLES log, acked

Entries(l) == {l[i] : i \in DOMAIN l}
Holds(l, k) == \E i \in DOMAIN l : keyOf[l[i]] = k

Init == log = <<>> /\ acked = {}

Add(r) ==
  /\ ~Holds(log, keyOf[r])
  /\ log' = Append(log, r)
  /\ UNCHANGED acked

Acknowledge(r) ==
  /\ r \in Entries(log)
  /\ acked' = acked \cup {r}
  /\ UNCHANGED log

Next == \E r \in Record : Add(r) \/ Acknowledge(r)

Spec == Init /\ [][Next]_<<log, acked>>

-----------------------------------------------------------------------------
LogTypeOK == log \in Seq(Record) /\ acked \subseteq Record

\* No two records of the log have one identity.
OnePerKey == \A i, j \in DOMAIN log : keyOf[log[i]] = keyOf[log[j]] => i = j

\* An acknowledged record is never lost.
NothingLost == acked \subseteq Entries(log)

\* A step only ever adds behind the records that are there.
AppendOnly ==
  [][/\ Len(log) <= Len(log')
     /\ \A i \in DOMAIN log : log'[i] = log[i]]_<<log, acked>>
=============================================================================
