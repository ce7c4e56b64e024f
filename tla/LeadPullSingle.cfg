SPECIFICATION FairSpec
CONSTANTS
  Tenants = {t1}
  Procs = {p1}
  Requests = {q1}
  Leads = {l1, l2}
  LeadTenant <- OneTenant
  TestLeads = {}
  Phoneless = {l2}
  CatchupEnabled = FALSE
  HeartbeatEveryRows = 1
  None = None
  MaxRuns = 1
  MaxPresses = 2
  MaxCrashes = 1
PROPERTIES
  OutcomeIsFinal
  NoLockout
