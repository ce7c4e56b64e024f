---------------------------- MODULE MCLiveAlerts ----------------------------
(* LiveAlerts with the values TLC checks it for. *)
EXTENDS LiveAlerts, TLC

CONSTANTS rep, head, o1, o2, tenant, l1, l2, l3

\* The counsellor has leads in two branches; the head administers the first one.
MCRoleOf == (rep :> "counsellor") @@ (head :> "org_admin")
MCTenantOf == (o1 :> tenant) @@ (o2 :> tenant)
MCOrgOf == (l1 :> o1) @@ (l2 :> o2) @@ (l3 :> o1)
MCSessions == {<<rep, o1>>, <<head, o1>>}
\* Due one after the other: all three when the clock has moved once, which is
\* one too many, and the last two when it has moved twice.
ForRep(due) == [due |-> due, owner |-> rep, wanted |-> TRUE]
MCStartRows == {(l1 :> ForRep(0)) @@ (l2 :> ForRep(1)) @@ (l3 :> ForRep(2))}
MCStartDevices == [Devices -> {<<head, o1>>}]
\* Rescheduled and taken from its owner.
MCNewRows == {[due |-> 1, owner |-> None, wanted |-> TRUE]}
=============================================================================
