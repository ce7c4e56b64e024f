SPECIFICATION Spec
CONSTANTS
  Tenants = {t1}
  Procs = {p1, p2}
  Requests = {q1}
  Leads = {l1}
  LeadTenant <- OneTenant
  TestLeads = {}
  Phoneless = {}
  CatchupEnabled = FALSE
  HeartbeatEveryRows = 1
  None = None
  MaxRuns = 1
  MaxPresses = 2
  MaxCrashes = 0
INVARIANT SingleApplier
