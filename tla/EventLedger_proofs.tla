-------------------------- MODULE EventLedger_proofs --------------------------
(***************************************************************************)
(* What appending one event does to an event ledger.                       *)
(***************************************************************************)
EXTENDS EventLedger, SequenceTheorems, TLAPS

\* An append adds its event and nothing else: every reader that looks for an event
\* finds what was there, and the new one.
LEMMA EventsOfAppend ==
  ASSUME NEW S, NEW log \in Seq(S), NEW e \in S
  PROVE  Events(Append(log, e)) = Events(log) \cup {e}
<1> DEFINE new == Append(log, e)
<1>1. /\ Len(new) = Len(log) + 1 /\ new[Len(log) + 1] = e
      /\ \A i \in 1 .. Len(log) : new[i] = log[i]
      /\ DOMAIN new = 1 .. Len(log) + 1 /\ DOMAIN log = 1 .. Len(log) /\ Len(log) \in Nat
  BY AppendProperties
<1>2. \A x \in Events(new) : x \in Events(log) \cup {e}
  BY <1>1 DEF Events
<1>3. \A x \in Events(log) \cup {e} : x \in Events(new)
  BY <1>1 DEF Events
<1> QED BY <1>2, <1>3

\* A ledger that can be read stays so when the append found its id unused at the
\* moment of the write, not only when it looked.
LEMMA ReadableAppend ==
  ASSUME NEW S, NEW log \in Seq(S), NEW e \in S, Readable(log), ~Recorded(log, e.id)
  PROVE  Readable(Append(log, e))
<1> DEFINE new == Append(log, e)
<1>1. /\ Len(new) = Len(log) + 1 /\ new[Len(log) + 1] = e
      /\ \A i \in 1 .. Len(log) : new[i] = log[i]
      /\ DOMAIN new = 1 .. Len(log) + 1 /\ DOMAIN log = 1 .. Len(log) /\ Len(log) \in Nat
  BY AppendProperties
<1>2. \A i \in 1 .. Len(log) : log[i].id # e.id
  BY <1>1 DEF Recorded, Events
<1> QED BY <1>1, <1>2 DEF Readable

\* In a readable ledger one id is one event.
LEMMA ReadableIds ==
  ASSUME NEW S, NEW log \in Seq(S), Readable(log), NEW e \in Events(log), NEW f \in Events(log), e.id = f.id
  PROVE  e = f
BY DEF Events, Readable
=============================================================================
