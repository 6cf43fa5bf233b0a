---------------------------- MODULE MCAccounting ----------------------------
(***************************************************************************)
(* Small instances of Accounting for TLC.  Two announces are alive at a    *)
(* time, of one user or of two, so every property of a user whose own      *)
(* announces do not overlap is checked while another user's do.            *)
(***************************************************************************)
EXTENDS Accounting, TLC

CONSTANTS c1, c2, c3, c4, u1, u2, t1, ip1, ip2, p1, p2, peer1, peer2

Announcement(u, ip, port, peer, event, down, up) ==
  [user |-> u, ip |-> ip, port |-> port, peer |-> peer, torrent |-> t1, event |-> event,
   left |-> 1 - down, bytes |-> [n \in Counter |-> IF n = "downloaded" THEN down ELSE up]]

\* A client at a fixed address and port, which may restart under a new peerId, and
\* another user's.
FixedRequests ==
  { Announcement(u1, ip1, p1, peer1, "started", 0, 1),
    Announcement(u1, ip1, p1, peer1, "stopped", 1, 2),
    Announcement(u1, ip1, p1, peer2, "started", 0, 0),
    Announcement(u2, ip2, p1, peer1, "started", 1, 1) }

\* A client that moves between addresses and ports, and another user's client.
RoamingRequests ==
  { Announcement(u1, ip1, p1, peer1, "started", 0, 1),
    Announcement(u1, ip1, p2, peer1, "bump",    0, 1),
    Announcement(u1, ip1, p1, peer2, "stopped", 1, 1),
    Announcement(u2, ip2, p1, peer1, "started", 1, 2) }

\* Everybody is admitted at first; what the gates refuse is not accounted for.
OpenInit ==
  /\ AccountingInit
  /\ account = [u \in User |-> "member"] /\ torrents = Torrent

OpenSpec == OpenInit /\ [][AccountingNext]_<<vars, history>>

\* What an ended child still holds does not matter: no action reads it, and the
\* invariants that do have judged it while the child was alive.
Alive(f) == [c \in Child |-> IF child[c].pc \in Ended THEN <<>> ELSE <<f[c]>>]

Tables == <<site, rows, now, faults>>

\* No action reads the history, nor what a child has already counted, listed and
\* noted for other properties: a run sees only what its invariants read of it.
Rest(c) == [child[c] EXCEPT !.errorMessage = "", !.open = {}, !.failed = {}, !.credit = Zero]

CreditView ==
  LET told(c) == [Rest(c) EXCEPT !.seeders = 0, !.leechers = 0, !.peers = {}]
  IN  << Alive([c \in Child |-> told(c)]), Tables, reported, moved, restarted,
         {u \in User : Apart(u)} >>

RoamingView ==
  << Alive([c \in Child |-> Rest(c)]), Alive(company), Tables, seeded, overlaps >>

Symmetry == Permutations(Child)
=============================================================================
