------------------------- MODULE MCCampaignMapping -------------------------
(* CampaignMapping with the values TLC checks it for. *)
EXTENDS CampaignMapping, TLC

CONSTANTS a, b, c1, p1, n1, n2, salesA, hiringA, internA, salesB, q1, q2, q3

MCTypesOf == [t \in Tenants |-> IF t = a THEN {salesA, hiringA, internA} ELSE {salesB}]
MCDefaultOf == [t \in Tenants |-> IF t = a THEN salesA ELSE salesB]
MCKeywordType == [x \in Tenants \X Names |-> IF x = <<a, n1>> THEN hiringA ELSE IF x = <<b, n2>> THEN salesB ELSE None]
MCPagesOf == [c \in Campaigns |-> Pages]
MCEarlier == [c \in Campaigns |-> {b}]
\* The page serves one tenant, with a default type, or form by form both; the
\* rule of a reads the campaign's name or the lead's; the campaign is new, or an
\* administrator of a has ruled on it.
HiringRule(field) == [field |-> field, on |-> n1, type |-> hiringA]
Pair(x, y) == [t \in Tenants |-> IF t = a THEN x ELSE y]
New == [c \in Campaigns |-> Absent]
Ruled == [c \in Campaigns |-> [tenant |-> a, name |-> n2, type |-> internA, suggested |-> None,
                              status |-> "confirmed", conflict |-> FALSE]]
Served(x, y) == [p \in Pages |-> Pair(x, y)]
First(rows, rule, served) == [camp |-> rows, rules |-> Pair(rule, << >>), page |-> served]
MCFirsts ==
    {First(New, <<HiringRule("campaign")>>, Served(hiringA, Absent)),
     First(New, <<HiringRule("lead")>>, Served(None, None)),
     First(Ruled, << >>, Served(hiringA, Absent))}
\* One more rule of either kind, and one that contradicts the first.
MCRulesToWrite == {HiringRule("campaign"), [field |-> "campaign", on |-> n1, type |-> salesA]}
MCSymmetry == Permutations(Requests)
=============================================================================
