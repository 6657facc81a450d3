-------------------------- MODULE AppendLog_proofs --------------------------
(***************************************************************************)
(* What AppendLog promises, for any set of records and identities.         *)
(***************************************************************************)
EXTENDS AppendLog, TLAPS

LogInv == LogTypeOK /\ OnePerKey /\ NothingLost

\* The types and the two state properties together are inductive.
LEMMA LogInvInductive == Spec => []LogInv
<1>1. Init => LogInv
  BY DEF Init, LogInv, LogTypeOK, OnePerKey, NothingLost
<1>2. LogInv /\ [Next]_<<log, acked>> => LogInv'
  <2> SUFFICES ASSUME LogInv, [Next]_<<log, acked>> PROVE LogInv'
    OBVIOUS
  <2> USE DEF LogInv, LogTypeOK, OnePerKey, NothingLost, Entries, Holds
  <2>1. ASSUME NEW r \in Record, Add(r) PROVE LogInv'
    <3>1. /\ Len(log') = Len(log) + 1
          /\ log'[Len(log) + 1] = r
          /\ \A i \in DOMAIN log : log'[i] = log[i]
      BY <2>1 DEF Add
    <3>2. DOMAIN log' = DOMAIN log \cup {Len(log) + 1}
      BY <2>1, <3>1 DEF Add
    <3> QED BY <2>1, <3>1, <3>2 DEF Add
  <2>2. ASSUME NEW r \in Record, Acknowledge(r) PROVE LogInv'
    BY <2>2 DEF Acknowledge
  <2>3. CASE UNCHANGED <<log, acked>>
    BY <2>3
  <2> QED BY <2>1, <2>2, <2>3 DEF Next
<1> QED BY <1>1, <1>2, PTL DEF Spec

\* No two records have one identity (the duplicate guard).
THEOREM LogOnePerKey == Spec => []OnePerKey
BY LogInvInductive, PTL DEF LogInv

\* An acknowledged append is in the log for good.
THEOREM LogNothingLost == Spec => []NothingLost
BY LogInvInductive, PTL DEF LogInv

\* Records are only ever added, behind those that are there.
THEOREM LogAppendOnly == Spec => AppendOnly
<1>1. LogInv /\ [Next]_<<log, acked>>
        => [/\ Len(log) <= Len(log')
            /\ \A i \in DOMAIN log : log'[i] = log[i]]_<<log, acked>>
  <2> SUFFICES ASSUME LogInv, NEW r \in Record, Add(r) \/ Acknowledge(r)
               PROVE  /\ Len(log) <= Len(log')
                      /\ \A i \in DOMAIN log : log'[i] = log[i]
    BY DEF Next
  <2> QED BY DEF LogInv, LogTypeOK, Add, Acknowledge
<1> QED BY <1>1, LogInvInductive, PTL DEF Spec, AppendOnly
=============================================================================
