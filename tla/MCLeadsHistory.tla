--------------------------- MODULE MCLeadsHistory ---------------------------
(* AssignDesk and LeadsHistory with the values TLC checks them for. *)
EXTENDS LeadsHistory, TLC

CONSTANTS ann, bob, l1, l2, l3, x, y

MCOrgOf == (l1 :> x) @@ (l2 :> y) @@ (l3 :> x)
MCAt    == (ann :> x)
MCGrant == (ann :> "peers")
MCRank  == (ann :> (x :> 2 @@ y :> 1)) @@ (bob :> (x :> 1 @@ y :> 3))
MCFirst == (l1 :> [owner |-> None, deleted |-> FALSE, superseded |-> FALSE])
        @@ (l2 :> [owner |-> bob, deleted |-> FALSE, superseded |-> FALSE])
        @@ (l3 :> [owner |-> bob, deleted |-> FALSE, superseded |-> FALSE])
MCMembers == {<<ann, x>>, <<ann, y>>, <<bob, x>>}
MCStandings == (ann :> {[scope |-> "none", unassigned |-> TRUE], [scope |-> "org", unassigned |-> FALSE],
                        [scope |-> "org", unassigned |-> TRUE]})
MCFirstStanding == (ann :> [scope |-> "org", unassigned |-> TRUE])
MCReadable == (ann :> {x, y})
=============================================================================
