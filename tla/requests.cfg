CONSTANTS
  i1 = i1
  a1 = a1
  m1 = m1
  w1 = w1
  w2 = w2
  h1 = h1
  h2 = h2
  None = None
  Incidents = {i1}
  Monitors = {m1}
  MonitorOf <- OneMonitorOf
  Actions = {a1}
  IncidentOf <- OneIncidentOf
  WorkerAdapters = {"webhook"}
  Workers = {w1}
  Handlers = {h1}
  Requests = {"transition", "record", "reinvestigate", "result"}
  MaxEpoch = 1
  MaxCrashes = 0
SPECIFICATION Spec
INVARIANTS
  TypeOK
  ApprovalInv
  VerifiedMeansRecovered
  ResolvedAfterRecovery
  CancelOwed
