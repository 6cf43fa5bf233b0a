CONSTANTS
  c1 = c1 c2 = c2 c3 = c3 c4 = c4
  u1 = u1 u2 = u2 t1 = t1 t2 = t2 ip1 = ip1 ip2 = ip2 p1 = p1 p2 = p2
  peer1 = peer1 peer2 = peer2
  Child = {c1, c2, c3}
  User = {u1, u2}
  Torrent = {t1}
  Ip = {ip1}
  Port = {p1, p2}
  PeerId = {peer1, peer2}
  Request <- RaceRequests
  W = 4
  PeerTimeout = 1
  UniqueTorrentClient = TRUE
  DefaultActive = 1
  MaxConcurrent = 2
  MaxTime = 1
  MaxFaults = 0
  MaxWeb = 0
SPECIFICATION Spec
SYMMETRY Symmetry
VIEW RaceView
INVARIANTS ClientIdValid JoinsComplete NoLostCredit
PROPERTIES TotalsMonotone
