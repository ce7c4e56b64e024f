SPECIFICATION Spec
SYMMETRY Replicas
CONSTANTS
  Tenants = {t1}
  Procs = {p1, p2}
  Requests = {q1}
  Leads = {l1}
  LeadTenant <- OneTenant
  TestLeads = {l1}
  Phoneless = {}
  CatchupEnabled = TRUE
  HeartbeatEveryRows = 1
  None = None
  MaxRuns = 2
  MaxPresses = 1
  MaxCrashes = 0
INVARIANTS
  TypeOK
  OneWorkerPerPull
  FailedRunUntouched
PROPERTIES
  PullNeverDisplaced
  KeepsPromise
