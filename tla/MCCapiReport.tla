---------------------------- MODULE MCCapiReport ----------------------------
(* CapiReport with the values TLC checks it for. *)
EXTENDS CapiReport, TLC

CONSTANTS fb, web, m1, m2, m3, won, lost, lead, purchase, k1, k2

\* Two Meta leads were folded into fb's; a third into a lead of the website.
MCLinksOf == (fb :> {m1, m2}) @@ (web :> {m3})
MCStartStages == {[l \in Leads |-> lost]}
MCStartMaps == {(won :> purchase) @@ (lost :> None)}
MCStartApps == {[own |-> k1, shared |-> k2], [own |-> Inactive, shared |-> k2]}
=============================================================================
