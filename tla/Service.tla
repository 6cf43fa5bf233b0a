------------------------------ MODULE Service -------------------------------
(***************************************************************************)
(* What the tracker promises about an announce, without statements, tables *)
(* or catch blocks: it is admitted only after every gate has been open, it *)
(* is recorded before it is credited, it is credited at most once, and it  *)
(* is served with peers only on that way.  It may be refused or lost at    *)
(* any point, and what it has left behind by then stays.                   *)
(*                                                                         *)
(* AnnounceRefines shows that Announce implements this specification.      *)
(***************************************************************************)
EXTENDS Integers

CONSTANTS
  Child,     \* the announces
  User, Torrent,
  Gate,      \* the conditions for being admitted
  Counter    \* what is credited

Key == User \X Torrent

VARIABLES
  phase,     \* how far each announce has come
  key,       \* whom and for which torrent it is to be credited
  open,      \* the gates that have been open to it
  records,   \* the announces of which a record exists
  totals     \* the credit of each key

vars == <<phase, key, open, records, totals>>

Phase    == {"idle", "arrived", "admitted", "recorded", "answering", "refusing",
             "served", "refused", "lost"}
Underway == {"arrived", "admitted", "recorded", "answering", "refusing"}

Init ==
  /\ phase = [c \in Child |-> "idle"]
  /\ key \in [Child -> Key]
  /\ open = [c \in Child |-> {}]
  /\ records = {}
  /\ totals = [k \in {} |-> 0]

Move(c, from, to) == phase[c] \in from /\ phase' = [phase EXCEPT ![c] = to]

Arrive(c) ==
  /\ Move(c, {"idle"}, "arrived")
  /\ \E k \in Key : key' = [key EXCEPT ![c] = k]
  /\ \E g \in SUBSET Gate : open' = [open EXCEPT ![c] = g]
  /\ UNCHANGED <<records, totals>>

\* The site opens gates; what has been open counts.
OpenGates ==
  /\ open' \in [Child -> SUBSET Gate]
  /\ \A c \in Child : open[c] \subseteq open'[c]
  /\ UNCHANGED <<phase, key, records, totals>>

Admit(c) ==
  /\ open[c] = Gate
  /\ Move(c, {"arrived"}, "admitted")
  /\ UNCHANGED <<key, open, records, totals>>

Record(c) ==
  /\ Move(c, {"admitted"}, "recorded")
  /\ records' = records \cup {c}
  /\ UNCHANGED <<key, open, totals>>

\* The totals of the key get a row, or their counters grow.
Credit(c) ==
  /\ Move(c, {"recorded"}, "answering")
  /\ DOMAIN totals' = DOMAIN totals \cup {key[c]}
  /\ \A k \in DOMAIN totals \ {key[c]} : totals'[k] = totals[k]
  /\ key[c] \in DOMAIN totals =>
       \A n \in Counter : totals'[key[c]][n] >= totals[key[c]][n]
  /\ UNCHANGED <<key, open, records>>

\* The record cannot be written: the announce is answered and not credited.
Forgo(c) ==
  /\ Move(c, {"admitted"}, "answering")
  /\ UNCHANGED <<key, open, records, totals>>

Refuse(c) ==
  /\ Move(c, {"arrived", "admitted", "recorded"}, "refusing")
  /\ UNCHANGED <<key, open, records, totals>>

Answer(c) ==
  /\ Move(c, {"answering"}, "served") \/ Move(c, {"refusing"}, "refused")
  /\ UNCHANGED <<key, open, records, totals>>

Lose(c) ==
  /\ Move(c, Underway, "lost")
  /\ UNCHANGED <<key, open, records, totals>>

Next ==
  \/ OpenGates
  \/ \E c \in Child : \/ Arrive(c) \/ Admit(c) \/ Record(c) \/ Credit(c) \/ Forgo(c)
                      \/ Refuse(c) \/ Answer(c) \/ Lose(c)

Spec == Init /\ [][Next]_vars

\* Whoever is credited for a torrent has an announce of it on record.
CreditRecorded == \A k \in DOMAIN totals : \E c \in records : key[c] = k

=============================================================================
