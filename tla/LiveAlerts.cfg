\* A counsellor and a branch head, two branches, three leads that fall due one
\* after the other over two days of clock, one more than a query takes, a
\* handset and a restart.
SPECIFICATION Spec
CONSTANTS
  rep = rep  head = head
  o1 = o1  o2 = o2  tenant = tenant
  l1 = l1  l2 = l2  l3 = l3
  Users = {rep, head}
  RoleOf <- MCRoleOf
  SeesUnassigned = {rep}
  Orgs = {o1, o2}
  TenantOf <- MCTenantOf
  Leads = {l1, l2, l3}
  OrgOf <- MCOrgOf
  Conns = {c1}
  Sessions <- MCSessions
  Devices = {d1}
  Ticks = {1, 2}
  Dues = {0, 1, 2}
  StartRows <- MCStartRows
  NewRows <- MCNewRows
  StartDevices <- MCStartDevices
  DayLength = 2
  Ahead = 1
  Back = 1
  Cap = 2
  None = None
  MaxClock = 2
  MaxEdits = 1
  MaxRestarts = 1
INVARIANTS TypeOK OwnBranchOnly
PROPERTIES OncePerDay DueIsNoticed
