\* A storage write that was reported failed takes effect later.
CONSTANTS
  f1 = f1  f2 = f2  w1 = w1  w2 = w2  i1 = i1  i2 = i2
  Files = {f1}
  Temps = {}
  Workers = {w1, w2}
  Instances = {i1, i2}
  InstanceOf <- MCInstanceOf
  ActivationLease = 8
  ClaimLease = 8
  Backoff = 4
  TempLife = 8
  SubMs = {0, 1}
  LateWrites = TRUE
  PromptSweeps = FALSE
  TickMs = 4
  MaxTime = 21
  LastUpload = 5
  LastFault = 21
  MaxFaults = 1
SPECIFICATION Spec
INVARIANTS
  NoOrphan
CHECK_DEADLOCK FALSE
