CONSTANTS
  c1 = c1 c2 = c2 c3 = c3 c4 = c4
  u1 = u1 u2 = u2 t1 = t1 t2 = t2 ip1 = ip1 ip2 = ip2 p1 = p1 p2 = p2
  peer1 = peer1 peer2 = peer2
  Child = {c1, c2}
  User = {u1}
  Torrent = {t1}
  Ip = {ip1}
  Port = {p1}
  PeerId = {peer1}
  Request <- FaultRequests
  W = 4
  PeerTimeout = 1
  UniqueTorrentClient = FALSE
  DefaultActive = 0
  MaxConcurrent = 2
  MaxTime = 0
  MaxFaults = 1
  MaxWeb = 2
SPECIFICATION Spec
SYMMETRY Symmetry
INVARIANTS Gated FailsClosed
PROPERTY ServiceSpec
