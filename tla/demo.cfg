CONSTANTS
  r1 = r1
  r2 = r2
  w1 = w1
  w2 = w2
  q1 = q1
  None = None
  Runs = {r1}
  Workers = {w1, w2}
  Requests = {q1}
  MaxReplays = 2
  MaxRepeats = 1
  MaxCrashes = 1
SPECIFICATION FairSpec
INVARIANTS
  TrafficOnce
  RecoveryOnce
  RecoveryAfterRollback
PROPERTIES
  NeverRevived
  EmissionEnds
  RecoveryReplayed
CHECK_DEADLOCK FALSE
