CONSTANTS
  v2 = v2
  f = f
  ten = ten
  x = x
  y = y
  t1 = t1
  t2 = t2
  Off = Off
  Absent = Absent
  Versions = {v2}
  Features = {f}
  Values = {ten, x, y, Off}
  MaxRevision = 2
  Manifest <- RollbackManifest
  Threads = {t1, t2}
  MaxApplies = 3
  MaxFaults = 1
  MaxSyncs = 1
SPECIFICATION FairComposedSpec
INVARIANTS
  NothingLost
  SuccessWasServed
  RestsOnServed
  OneDeployment
  ObservedIsServed
PROPERTY Converges
CHECK_DEADLOCK FALSE
