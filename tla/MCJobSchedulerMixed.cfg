\* A node with a shorter lease joins while the others still run with the old one.
CONSTANTS
  n1 = n1  n2 = n2
  Nodes = {n1, n2}
  Tokens = {t1, t2, t3, t4}
  NoToken = NoToken
  LeaseMs <- MixedLease
  HeartbeatMs <- MixedHeartbeat
  Latency = 1
  MaxBeats = 2
  MaxFaults = 0
SPECIFICATION Spec
SYMMETRY TokenSymmetry
INVARIANT
  LiveOwnerKept
