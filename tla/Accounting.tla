----------------------------- MODULE Accounting -----------------------------
(***************************************************************************)
(* What the tracker's books say against what happened.  Announce is        *)
(* extended with the BitTorrent clients' side of the story: each user runs *)
(* one client per torrent, which transfers bytes, reports its counters in  *)
(* every announce and starts them again at zero when it restarts.          *)
(***************************************************************************)
EXTENDS Announce

\* The table of torrents is finite.
ASSUME TorrentAssumption == IsFiniteSet(Torrent)

VARIABLES
  reported,  \* by user and torrent: the counters of the last announce
  moved,     \* the bytes that the reports account for, over all restarts
  seeded,    \* the minutes during which the user had an active record
  restarted, \* by user and torrent: the kinds of restart the reports have shown
  company,   \* company[c]: how many children have been alive at the same time as c
  overlaps   \* overlaps[u]: how many pairs of u's announces were alive at the same time

history == <<reported, moved, seeded, restarted, company, overlaps>>

Key == User \X Torrent

AccountingInit ==
  /\ Init
  /\ reported  = [k \in Key |-> Zero]
  /\ moved     = [k \in Key |-> Zero]
  /\ seeded    = [k \in Key |-> 0]
  /\ restarted = [k \in Key |-> {}]
  /\ company   = [c \in Child |-> 0]
  /\ overlaps  = [u \in User |-> 0]

\* A client that restarts shows it by a counter below its last report.  It has
\* transferred less than before ("below") unless another counter is above.
Restart(old, new) ==
  CASE \A n \in Counter : new[n] >= old[n] -> {}
    [] \A n \in Counter : new[n] <= old[n] /\ new # old -> {"below"}
    [] OTHER -> {"mixed"}

\* The client announces r.  After a restart everything reported is new.
Send(r) ==
  LET k       == <<r.user, r.torrent>>
      restart == Restart(reported[k], r.bytes)
      base    == IF restart = {} THEN reported[k] ELSE Zero
  IN
  /\ reported'  = [reported EXCEPT ![k] = r.bytes]
  /\ moved'     = [moved EXCEPT ![k] = [n \in Counter |-> @[n] + r.bytes[n] - base[n]]]
  /\ restarted' = [restarted EXCEPT ![k] = @ \cup restart]
  /\ UNCHANGED seeded

\* Child c starts with announce r while others are alive.
Join(c, r) ==
  LET alive == {d \in Child : Live(d)}
      same  == {d \in alive : child[d].req.user = r.user}
  IN  /\ company' = [d \in Child |-> CASE d = c -> Cardinality(alive)
                                       [] d \in alive -> company[d] + 1
                                       [] OTHER -> company[d]]
      /\ overlaps' = [overlaps EXCEPT ![r.user] = @ + Cardinality(same)]

\* The user to whose address a record of clientTorrents leads.
Owner(i) == ipAddress[client[clientTorrents[i].client].ip].user

\* A minute passes for every active record.
Minute ==
  LET active(k) == \E i \in DOMAIN clientTorrents :
        /\ clientTorrents[i].torrent = k[2] /\ Owner(i) = k[1]
        /\ clientTorrents[i].isActive = 1
  IN
  /\ seeded' = [k \in Key |-> IF active(k) THEN seeded[k] + 1 ELSE seeded[k]]
  /\ UNCHANGED <<reported, moved, restarted, company, overlaps>>

\* What the website decides stays as it is at first: the books are about what the
\* gates let through.
AccountingNext ==
  \/ \E c \in Child, r \in Request : Fork(c, r) /\ Send(r) /\ Join(c, r)
  \/ \E c \in Child : (Execute(c) \/ Throw(c) \/ Die(c)) /\ UNCHANGED history
  \/ Tick /\ Minute
  \/ Finished /\ UNCHANGED history

AccountingSpec == AccountingInit /\ [][AccountingNext]_<<vars, history>>

----------------------------------------------------------------------------
\* No two announces of user u have been alive at the same time: his client waits
\* for each answer.
Apart(u) == overlaps[u] = 0

\* Nobody else announces from an address of user u.  A shared address belongs to
\* the user who announced from it first, and the records of the others with it.
Private(u) == \A r, s \in Request : r.user = u /\ s.ip = r.ip => s.user = u

\* The client of key k keeps one address and port.
Settled(k) ==
  \A r, s \in Request : <<r.user, r.torrent>> = k /\ <<s.user, s.torrent>> = k =>
    r.ip = s.ip /\ r.port = s.port

\* No user is ever credited more bytes than his client has transferred.  The
\* comment in setOldUploadAndDownload (Database.cpp:1044) says of a client without
\* a record of its own: "The default old upload and download is set to 0, so this
\* should not be a problem."
Bounded(k) == \A n \in Counter : totals[k].bytes[n] <= moved[k][n]
CreditBounded == \A k \in DOMAIN totals : Bounded(k)

\* What the code credits rightly: a client at an address and port of its own that
\* waits for each answer.  (Announces that overlap can be recorded out of order,
\* and then the older counters wrap the difference like a restart.)
Orderly(k) == Apart(k[1]) /\ Private(k[1]) /\ Settled(k)

\* The credit of an orderly client that has not restarted is at most what it has
\* transferred, whatever statement fails and whatever other users do meanwhile.
CreditBoundedWhileRunning ==
  \A k \in DOMAIN totals : Orderly(k) /\ restarted[k] = {} => Bounded(k)

\* The credit of one that has restarted is bounded too if nothing has failed,
\* because the wrapped difference makes MySQL refuse the sum: of both counters, so
\* after a restart with one counter above its last report the totals stay behind
\* the record, and a later wrapped difference may pass.
CreditBoundedThroughRestarts ==
  \A k \in DOMAIN totals :
    /\ Orderly(k) /\ faults = 0
    /\ "mixed" \notin restarted[k] /\ moved[k] \in Bytes
    => Bounded(k)

\* Seed time and bonus points are given only for minutes in which the user had
\* an active record, each once and once more for each pair of his announces that
\* overlap, whatever fails in between and whatever other users do.
SeedTimeBounded ==
  \A u \in User : Private(u) =>
    /\ \A t \in Torrent : <<u, t>> \in DOMAIN totals =>
         totals[<<u, t>>].timeActive <= (1 + overlaps[u]) * seeded[<<u, t>>]
    /\ points[u] <= (1 + overlaps[u]) *
                    SumFunctionOnSet([t \in Torrent |-> seeded[<<u, t>>]], Torrent)

\* A user has one record per torrent, however often his client changes its
\* peerId, port or address: the UPDATE moves the record to the new client
\* instead of leaving the old one behind as a second active peer.
OneRecordPerUserTorrent ==
  \A i, j \in DOMAIN clientTorrents :
    /\ Owner(i) = Owner(j) /\ Apart(Owner(i)) /\ Private(Owner(i))
    /\ clientTorrents[i].torrent = clientTorrents[j].torrent
    => i = j

\* A restarted client with a new peerId takes over the row of its endpoint.
OneClientPerEndpoint ==
  \A i, j \in DOMAIN client :
    LET u == ipAddress[client[i].ip].user IN
    /\ client[i].ip = client[j].ip /\ client[i].port = client[j].port
    /\ Apart(u) /\ Private(u)
    => i = j

\* The two queries of one answer agree but for what happens between them: every
\* announce that is alive meanwhile makes the list of peers longer by at most one
\* than the count of seeders sent with it, which counts every fresh peer.  (Without
\* a unique key one UPDATE may refresh several records of its user.)
PeersWithinCount ==
  UniqueTorrentClient =>
    \A c \in Child : Cardinality(child[c].peers) <= child[c].seeders + company[c]
=============================================================================
