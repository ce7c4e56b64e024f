CONSTANTS
    a1 = a1  a2 = a2  b1 = b1  tenantA = tenantA  tenantB = tenantB
    p1 = p1  p2 = p2  f1 = f1  f2 = f2  f3 = f3  c1 = c1  ad1 = ad1  ad2 = ad2
    l1 = l1  l2 = l2  l3 = l3  l4 = l4  l5 = l5
    Null = Null  Missing = Missing
    Branches = {a1, a2, b1}
    TenantOf <- MCTenantOf
    Pages = {p1, p2}
    Forms = {f1, f2, f3}
    PageOf <- MCPageOf
    Ads = {ad1, ad2}
    CampaignOf <- MCCampaignOf
    Promotes <- MCPromotes
    FormOf <- MCFormOf
    AdOf <- MCAdOf
    Created <- MCCreated
    Newest <- MCNewest
    Reaches <- MCReaches
    Tables <- MCTables
    Dumps <- MCDumps
    EditRows <- MCEditRows
    Asks <- MCAsks
    PageSize = 1
    MaxPages = 3
    Attempts = 2
    MaxRuns = 1
    MaxEdits = 1
SPECIFICATION WalkSpec
INVARIANTS WalkTypeOK NothingMissed OnlyAsked RoutesLikeWebhook
PROPERTIES WalkEnds
CHECK_DEADLOCK FALSE
