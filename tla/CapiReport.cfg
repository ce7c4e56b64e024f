\* A lead of Meta and one of the website, two stages, two triggers that overlap,
\* and credentials of either app that are changed here and elsewhere.
SPECIFICATION Spec
CONSTANTS
  fb = fb  web = web
  m1 = m1  m2 = m2  m3 = m3
  won = won  lost = lost
  lead = lead  purchase = purchase
  k1 = k1  k2 = k2
  Leads = {fb, web}
  MetaLeads = {m1, m2, m3}
  LinksOf <- MCLinksOf
  FromMeta = {fb}
  Stages = {won, lost}
  StartStages <- MCStartStages
  Events = {lead, purchase}
  ManualEvents = {lead}
  StartMaps <- MCStartMaps
  Triggers = {t1, t2}
  Creds = {k1, k2}
  StartApps <- MCStartApps
  Inactive = Inactive
  None = None
  Absent = Absent
  MaxSteps = 3
INVARIANTS TypeOK ReportIsDue StaleIsExcused
