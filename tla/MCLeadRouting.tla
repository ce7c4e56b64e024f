--------------------------- MODULE MCLeadRouting ---------------------------
(* LeadRouting with the values TLC checks it for. *)
EXTENDS LeadRouting, TLC

CONSTANTS rep, boss, hr, o1, sales, hiring, c1, r1, r2

MCDeptOf == [x \in Users \cup Types |-> IF x \in {hr, hiring} THEN "people" ELSE "sales"]
MCMembers == [o \in Branches |-> Users]
Shares(a, b, c) == [u \in Users |-> IF u = rep THEN a ELSE IF u = boss THEN b ELSE c]
\* Nobody, the two of sales, and everybody: the shares of the wrong department count for nothing.
MCWeights == {Shares(0, 0, 0), Shares(60, 40, 0), Shares(0, 0, 100)}
Row(over) ==
    [k \in {"org", "camp", "type", "owner", "reason", "open", "live", "touched"} |->
       IF k \in DOMAIN over THEN over[k]
       ELSE IF k = "org" THEN o1 ELSE IF k \in {"open", "live"} THEN TRUE ELSE IF k = "touched" THEN FALSE ELSE Null]
\* Two leads that arrived before there was anybody to take them, or were
\* unassigned since, or that a member of sales has; hiring is staffed or not.
MCFirsts ==
    [lead : {[l \in LeadRows |-> IF l = 1 THEN a ELSE IF l = 2 THEN b ELSE Absent] :
               a \in {Row([camp |-> c1, type |-> sales, owner |-> rep]),
                      Row([camp |-> c1, type |-> sales, reason |-> "no_weighted_users"])},
               b \in {Row([camp |-> c1]), Row([type |-> sales])}},
     weight : {[x \in Branches \X Types |-> IF x[2] = sales THEN Shares(60, 40, 0) ELSE w] :
                 w \in {Shares(0, 0, 0), Shares(0, 0, 100)}}]

\* Requests differ by name only.
MCSymmetry == Permutations(Requests)
=============================================================================
