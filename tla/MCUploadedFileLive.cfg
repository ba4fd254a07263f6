\* Faults stop at LastFault; from then on sweeps drain the outbox.  Soft-delete
\* timestamps have whole milliseconds.
CONSTANTS
  f1 = f1  f2 = f2  w1 = w1  w2 = w2  i1 = i1  i2 = i2
  Files = {f1}
  Temps = {}
  Workers = {w2}
  Instances = {i1, i2}
  InstanceOf <- MCInstanceOf
  ActivationLease = 4
  ClaimLease = 4
  Backoff = 2
  TempLife = 4
  SubMs = {0}
  LateWrites = FALSE
  PromptSweeps = TRUE
  TickMs = 4
  MaxTime = 21
  LastUpload = 1
  LastFault = 9
  MaxFaults = 2
SPECIFICATION FairSpec
PROPERTIES
  BytesReclaimed
  DeletionSettles
CHECK_DEADLOCK FALSE
