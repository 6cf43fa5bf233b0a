CONSTANTS
  k1 = k1
  k2 = k2
  c1 = c1
  c2 = c2
  Conn <- ConnValue
  Child <- ChildValue
  NoConn = NoConn
  Parent = Parent
  Backlog = 0
  Segments = 2
  MaxFaults = 1

SPECIFICATION FairSpec

INVARIANTS
  AtMostOneZombie
  OneHolder
  OwnAnswer

PROPERTY
  EveryConnectionEnds
