--------------------------- MODULE ServiceProofs ---------------------------
(***************************************************************************)
(* What every implementation of Service inherits, for any set of announces.*)
(***************************************************************************)
EXTENDS Service, TLAPS

\* An announce that is to be credited is on record, and what is on record has
\* arrived, so it keeps its key.
RecordKept ==
  /\ phase \in [Child -> Phase] /\ key \in [Child -> Key]
  /\ \A c \in Child : phase[c] = "recorded" => c \in records
  /\ \A c \in Child : phase[c] = "idle" => c \notin records
  /\ records \subseteq Child
  /\ CreditRecorded

LEMMA RecordKeptStep ==
  ASSUME RecordKept, [Next]_vars
  PROVE  RecordKept'
<1> USE DEF RecordKept, CreditRecorded, Phase
<1>1. CASE OpenGates
  BY <1>1 DEF OpenGates
<1>2. ASSUME NEW c \in Child, Arrive(c) PROVE RecordKept'
  <2>1. /\ phase[c] = "idle" /\ phase' = [phase EXCEPT ![c] = "arrived"]
        /\ records' = records /\ totals' = totals
        /\ \E k \in Key : key' = [key EXCEPT ![c] = k]
    BY <1>2 DEF Arrive, Move
  <2> QED  BY <2>1
<1>3. ASSUME NEW c \in Child, Record(c) PROVE RecordKept'
  <2>1. /\ phase' = [phase EXCEPT ![c] = "recorded"]
        /\ key' = key /\ totals' = totals
        /\ records' = records \cup {c}
    BY <1>3 DEF Record, Move
  <2> QED  BY <2>1
<1>4. ASSUME NEW c \in Child, Credit(c) PROVE RecordKept'
  <2>1. /\ phase[c] = "recorded" /\ phase' = [phase EXCEPT ![c] = "answering"]
        /\ key' = key /\ records' = records /\ DOMAIN totals' = DOMAIN totals \cup {key[c]}
    BY <1>4 DEF Credit, Move
  <2> QED  BY <2>1
<1>5. ASSUME NEW c \in Child,
             Admit(c) \/ Forgo(c) \/ Refuse(c) \/ Answer(c) \/ Lose(c)
      PROVE  RecordKept'
  <2>1. PICK p \in Phase \ {"recorded", "idle"} : phase' = [phase EXCEPT ![c] = p]
    BY <1>5 DEF Admit, Forgo, Refuse, Answer, Lose, Move
  <2>2. UNCHANGED <<key, records, totals>>
    BY <1>5 DEF Admit, Forgo, Refuse, Answer, Lose
  <2> QED  BY <2>1, <2>2
<1>6. CASE UNCHANGED vars
  BY <1>6 DEF vars
<1> QED  BY <1>1, <1>2, <1>3, <1>4, <1>5, <1>6 DEF Next

\* Whoever implements Service credits nobody for a torrent without having recorded
\* an announce of his of it.
THEOREM ServiceCreditsRecords == Spec => []CreditRecorded
<1>1. Init => RecordKept
  BY DEF Init, RecordKept, CreditRecorded, Phase
<1>2. RecordKept /\ [Next]_vars => RecordKept'
  BY RecordKeptStep
<1>3. RecordKept => CreditRecorded
  BY DEF RecordKept
<1> QED  BY <1>1, <1>2, <1>3, PTL DEF Spec

=============================================================================
