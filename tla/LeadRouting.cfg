CONSTANTS
    rep = rep  boss = boss  hr = hr  o1 = o1  sales = sales  hiring = hiring  c1 = c1  r1 = r1  r2 = r2
    Null = Null  Absent = Absent
    LeadRows = {1, 2, 3}
    Users = {rep, boss, hr}
    Branches = {o1}
    Campaigns = {c1}
    Types = {sales, hiring}
    LiveTypes = {sales, hiring}
    DefaultType = sales
    DeptOf <- MCDeptOf
    Capable = {rep, boss, hr}
    Members <- MCMembers
    Weights <- MCWeights
    Requests = {r1, r2}
    Firsts <- MCFirsts
    BatchLimit = 1
    MaxEdits = 3
SPECIFICATION RoutingSpec
INVARIANTS RoutingTypeOK
PROPERTIES FillersTakeNobody CountedAreRelabelled
SYMMETRY MCSymmetry
CHECK_DEADLOCK FALSE
