SPECIFICATION Spec
SYMMETRY Replicas
CONSTANTS
  f1 = f1
  o1 = o1
  o2 = o2
  t1 = t1
  t2 = t2
  phone = phone
  email = email
  Leads = {m1}
  Forms = {f1}
  Tenants = {t1, t2}
  Orgs = {o1, o2}
  TenantOf <- Branches
  FormOf <- OneForm
  PhoneOf <- SharedPhone
  EmailOf <- OwnEmail
  TestLeads = {}
  AppTenant = None
  Contacts <- ByPhoneOrEmail
  Actors = {a1, a2}
  None = None
  MaxRequests = 3
INVARIANTS
  TypeOK
  OneChain
  NothingLost
  ResolvedHasLanded
PROPERTIES
  LandedStays
