\* A permanent and a temporary file: batches under one claim, partial storage
\* failure, purge against markUsed, expiry.
CONSTANTS
  f1 = f1  f2 = f2  w1 = w1  w2 = w2  i1 = i1  i2 = i2
  Files = {f1, f2}
  Temps = {f2}
  Workers = {w1, w2}
  Instances = {i1, i2}
  InstanceOf <- MCInstanceOf
  ActivationLease = 4
  ClaimLease = 4
  Backoff = 2
  TempLife = 4
  SubMs = {0}
  LateWrites = FALSE
  PromptSweeps = FALSE
  TickMs = 4
  MaxTime = 9
  LastUpload = 1
  LastFault = 4
  MaxFaults = 1
SPECIFICATION Spec
PROPERTY
  ImplementsStoredFile
CHECK_DEADLOCK FALSE
