--------------------------- MODULE AnnounceRefines --------------------------
(***************************************************************************)
(* The statements of Announce as steps of Service.  A child's phase is     *)
(* where its next statement stands in updateClientTorrents and getTorrent. *)
(***************************************************************************)
EXTENDS Announce

PhaseOf(x) ==
  CASE x.pc = "idle" -> "idle"
    [] x.pc \in GateStatement -> "arrived"
    [] x.pc \in ClientStatement \cup UpdateStatement \cup {"createClientTorrent"} -> "admitted"
    [] x.pc \in BonusStatement \cup TotalsStatement -> "recorded"
    [] x.pc \in AnswerStatement \cup {"buildDictionary"} -> "answering"
    [] x.pc = "buildErrorDict" -> "refusing"
    [] x.pc = "done" /\ x.reply = "peers" -> "served"
    [] x.pc = "done" /\ x.reply # "peers" -> "refused"
    [] x.pc = "dead" -> "lost"

S == INSTANCE Service WITH
  phase   <- [c \in Child |-> PhaseOf(child[c])],
  key     <- [c \in Child |-> <<child[c].req.user, child[c].req.torrent>>],
  open    <- [c \in Child |-> child[c].open],
  records <- {c \in Child : HasRecord(c)},
  totals  <- [k \in DOMAIN totals |-> totals[k].bytes]

\* Announce implements Service: every interleaving of statements, failures and
\* changes of the site looks like announces that are admitted, recorded, credited
\* once and answered, or given up on the way.
ServiceSpec == S!Spec

=============================================================================
