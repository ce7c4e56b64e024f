CONSTANTS
    a = a  b = b  c1 = c1  p1 = p1  n1 = n1  n2 = n2
    salesA = salesA  hiringA = hiringA  internA = internA  salesB = salesB  q1 = q1  q2 = q2  q3 = q3
    None = None  Absent = Absent
    Tenants = {a, b}
    Campaigns = {c1}
    Pages = {p1}
    Names = {n1, n2}
    TypesOf <- MCTypesOf
    DefaultOf <- MCDefaultOf
    KeywordType <- MCKeywordType
    PagesOf <- MCPagesOf
    Earlier <- MCEarlier
    Requests = {q1, q2, q3}
    RulesToWrite <- MCRulesToWrite
    Firsts <- MCFirsts
    MaxRules = 2
    MaxEdits = 1
SPECIFICATION Spec
INVARIANTS TypeOK FollowsTheRuling LeadTypeIsOwn
PROPERTIES ConfirmedStands
SYMMETRY MCSymmetry
CHECK_DEADLOCK FALSE
