\* Two nodes with equal options and every interleaving of two faults; the caches.
CONSTANTS
  Parts = {"lease", "flights", "memory", "redis", "tenantKeys", "userKeys"}
  Rest = Rest
  \* JobScheduler
  Nodes = {n1, n2}  Tokens = {t1, t2, t3, t4}  NoToken = NoToken  Latency = 1  MaxBeats = 2  MaxFaults = 2
  LeaseMs <- SameLease  HeartbeatMs <- SameHeartbeat
  \* Cache
  Processes = {"n1", "n2"}  CacheCallers = {"c1", "c2", "c3"}  Ttl = 1  MaxVersion = 2  MaxLate = 1  Reachable = TRUE
  NodeOf <- SomeNodeOf
SPECIFICATION PartsSpec
SYMMETRY TokenSymmetry
INVARIANTS
  TypeOK
  LiveOwnerKept
  SingleWinner
  LoadShared
PROPERTIES
  SuccessIsFinal
  ImplementsLeaseLock
  CachesKeep
CHECK_DEADLOCK FALSE
