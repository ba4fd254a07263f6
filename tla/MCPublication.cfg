\* Publication and the batches of the sweep.
CONSTANTS
  Parts = {"leases", "replaced", "batches"}
  p1 = p1  p2 = p2  g1 = g1  g2 = g2  d1 = d1  d2 = d2
  \* Publication
  Gens = {g1, g2}  NoGen = NoGen  Descriptors = {d1, d2}  Runners = {p1, p2}  Tokens = {t1, t2, t3}  NoToken = NoToken
  LeaseMs = 2  RetryMs = 1  Foreign = {g1, g2}  Prompt = FALSE  MaxFaults = 1  MaxLate = 1
  \* SweepBatch: three rows that always fail, batches of three (odd quotas)
  Rows = {1, 2, 3, 4, 5}  Poison = {1, 2, 3}  PoisonKinds = {"settled", "initial", "retry"}
  ArrivalKinds = {"settled", "initial", "retry", "direct", "staged"}
  Limit = 3  Batches = 2  Backoff = 1  Lease = 2  Period = 2  Old = 4  MaxRefusals = 2
SPECIFICATION PartsSpec
SYMMETRY PublicationSymmetry
INVARIANTS
  ProjectedIsPublished
  BatchShared
PROPERTIES
  GenerationsKept
CHECK_DEADLOCK FALSE
