CONSTANTS
  i1 = i1
  i2 = i2
  m1 = m1
  w1 = w1
  w2 = w2
  c1 = c1
  None = None
  Incidents = {i1, i2}
  Monitors = {m1}
  MonitorOf <- TwoOfOneMonitor
  MaxEpoch = 1
  Workers = {w1, w2}
  Checkers = {c1}
  CheckTimes = {2}
  AsOfTimes = {1}
  LeaseTime = 2
  Interval = 1
  RetryTime = 1
  Moves = {"resolved", "open"}
  MaxTime = 3
  Mortal = {w1}
  MaxCrashes = 1
SPECIFICATION FairSpec
INVARIANTS
  OneActivePerMonitor
  TriggeredIsAnswered
  EvaluatedAlone
PROPERTIES
  LifecycleSpec
  NeverStarved
CHECK_DEADLOCK FALSE
