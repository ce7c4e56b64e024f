---------------------------- MODULE MCGraphWalk ----------------------------
(* GraphWalk with the values TLC checks it for. *)
EXTENDS GraphWalk, TLC

CONSTANTS a1, a2, b1, tenantA, tenantB, p1, p2, f1, f2, f3, c1, ad1, ad2, l1, l2, l3, l4, l5

MCTenantOf == (a1 :> tenantA) @@ (a2 :> tenantA) @@ (b1 :> tenantB)
\* Page p1 has two forms, p2 one.
MCPageOf == (f1 :> p1) @@ (f2 :> p1) @@ (f3 :> p2)
MCCampaignOf == (ad1 :> c1) @@ (ad2 :> c1)
MCPromotes == (ad1 :> p1) @@ (ad2 :> Null)
\* The first page of f1's results is too new, the second straddles the cut-off.
MCNewest == <<l1, l2, l3, l4, l5>>
MCFormOf == (l1 :> f1) @@ (l2 :> f2) @@ (l3 :> f1) @@ (l4 :> f3) @@ (l5 :> f1)
MCAdOf == (l1 :> Null) @@ (l2 :> ad1) @@ (l3 :> ad1) @@ (l4 :> Null) @@ (l5 :> ad2)
MCCreated == (l1 :> "late") @@ (l2 :> "odd") @@ (l3 :> "in") @@ (l4 :> "in") @@ (l5 :> "old")
MCReaches == {Pages, {p1}}
Row(o, p, f) == [org |-> o, page |-> p, form |-> f]
\* a1 has page p1 but for form f2, which is a2's or b1's; p2 is b1's or nobody's.
MCTables == {{Row(a1, p1, Null), Row(a2, p1, f2), Row(b1, p2, Null)},
             {Row(a1, p1, Null), Row(b1, p1, f2)}, {Row(a1, p1, f1), Row(b1, p2, f3)}}
\* A file downloaded when nothing mapped f2.
MCDumps == {[Nowhere EXCEPT ![l2] = Null, ![l3] = a1, ![l5] = a1]}
MCEditRows == {Row(a2, p1, f2)}
\* a1 has page p1, but form f2 is another tenant's.
MCForeignTables == {{Row(a1, p1, Null), Row(b1, p1, f2)}}
To(kind, t, orgs, ps, cs, until) ==
    [kind |-> kind, tenant |-> t, orgs |-> orgs, pages |-> ps, campaigns |-> cs, until |-> until]
MCAsks == {To("pull", tenantA, {}, {}, {}, TRUE), To("pull", tenantA, {a1}, Pages, {}, TRUE),
           To("pull", tenantA, {}, {p1}, {c1}, FALSE),
           To("campaign", tenantA, {}, {}, {c1}, TRUE), To("campaign", tenantA, {a2}, {}, {c1}, TRUE),
           To("sync", Null, {}, {}, {}, FALSE), To("sync", Null, {a1}, {}, {}, FALSE),
           To("sync", tenantA, {}, {p2}, {}, FALSE),
           To("download", Null, {}, {}, {}, TRUE), To("import", Null, {}, {}, {}, FALSE),
           To("forms", Null, {}, {}, {}, FALSE)}
MCPullAsks == {ask \in MCAsks : IsPull(ask)}
=============================================================================
