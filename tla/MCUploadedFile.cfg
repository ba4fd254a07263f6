\* One upload against two workers on two instances: every interleaving, with
\* sub-millisecond soft-delete timestamps.
CONSTANTS
  f1 = f1  f2 = f2  w1 = w1  w2 = w2  i1 = i1  i2 = i2
  Files = {f1}
  Temps = {}
  Workers = {w1, w2}
  Instances = {i1, i2}
  InstanceOf <- MCInstanceOf
  ActivationLease = 4
  ClaimLease = 4
  Backoff = 2
  TempLife = 8
  SubMs = {0, 1}
  LateWrites = FALSE
  PromptSweeps = FALSE
  TickMs = 4
  MaxTime = 21
  LastUpload = 1
  LastFault = 21
  MaxFaults = 2
SPECIFICATION Spec
INVARIANTS
  TypeOK
  ActiveHasBytes
  NoOrphan
  ClaimsDistinct
PROPERTY
  NoResurrection
CHECK_DEADLOCK FALSE
