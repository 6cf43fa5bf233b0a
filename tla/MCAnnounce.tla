----------------------------- MODULE MCAnnounce -----------------------------
(* Small instances of Announce for TLC. *)
EXTENDS AnnounceRefines, TLC

CONSTANTS c1, c2, c3, c4, u1, u2, t1, t2, ip1, ip2, p1, p2, peer1, peer2

Announcement(u, ip, port, peer, event, left, down, up) ==
  [user |-> u, ip |-> ip, port |-> port, peer |-> peer, torrent |-> t1, event |-> event,
   left |-> left, bytes |-> [n \in Counter |-> IF n = "downloaded" THEN down ELSE up]]

\* Two clients of u1 compete for one endpoint, and u2 announces from u1's address.
RaceRequests ==
  { Announcement(u1, ip1, p1, peer1, "started", 1, 0, 1),
    Announcement(u1, ip1, p1, peer2, "bump",    0, 1, 2),
    Announcement(u2, ip1, p2, peer1, "stopped", 0, 1, 1) }

\* Two clients compete for one endpoint while statements fail and the site changes.
LiveRequests ==
  { Announcement(u1, ip1, p1, peer1, "started", 1, 0, 1),
    Announcement(u1, ip1, p1, peer2, "bump",    0, 1, 2) }

\* Two announces of one user meet failures and a busy web site.
FaultRequests ==
  { Announcement(u1, ip1, p1, peer1, "started", 1, 0, 1),
    Announcement(u1, ip1, p1, peer1, "bump",    0, 1, 2) }

Symmetry == Permutations(Child)

\* No action reads what an ended child holds, nor what a live one has noted for
\* the answer and for properties: the race sees only the credit of the former,
\* and of the latter what its invariants read.
RaceView ==
  LET rest(c) == [child[c] EXCEPT !.errorMessage = "", !.open = {}, !.failed = {},
                    !.recorded = {}, !.seeders = 0, !.leechers = 0, !.peers = {}]
  IN  << [c \in Child |-> IF child[c].pc \in Ended THEN <<TotalsKey(c), child[c].credit>>
                          ELSE <<rest(c)>>],
         site, rows, now, faults >>
=============================================================================
