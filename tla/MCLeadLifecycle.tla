-------------------------- MODULE MCLeadLifecycle --------------------------
(* LeadLifecycle with the values TLC checks it for. *)
EXTENDS LeadLifecycle

CONSTANTS u1, u2, o1, o2, ph1, ph2, new, contacting, closed, out, lost

\* An administrator who belongs to the other branch, and a member of the first.
MCMaps == [u \in {u1, u2} |-> (IF u = u1 THEN {o2} ELSE {o1}) \cap Orgs]
Body(over) ==
    [k \in {"stage", "outcome", "comment", "owner", "due", "rep", "phone", "expected"} |->
       IF k \in DOMAIN over THEN over[k] ELSE IF k = "expected" THEN TRUE ELSE Keep]
\* Moves with and without a due time, with and without an outcome and its
\* comment, comments alone, new owners, a new phone; read first or written blindly.
MCBodies ==
    UNION {{Body([stage |-> s, due |-> d]) : s \in {contacting, closed}, d \in {1, Keep}},
           {Body([stage |-> closed, phone |-> ph2, expected |-> FALSE])},
           {Body([stage |-> s, outcome |-> lost, comment |-> c]) : s \in {contacting, closed}, c \in {"text", Keep}},
           {Body([comment |-> "text", expected |-> FALSE])},
           {Body([owner |-> u2, due |-> 1, rep |-> u1])},
           {Body([owner |-> u1, expected |-> FALSE])},
           {Body([due |-> 1])}}
MCEntries ==
    {[org |-> o1, phone |-> ph1, stage |-> new, owner |-> None],
     [org |-> o1, phone |-> ph1, stage |-> contacting, owner |-> u2]}
MCNewEntries == {e \in MCEntries : e.stage = new}
MCStages == {new, contacting, closed, out}
MCOutcomeStage == [x \in {lost} |-> closed]
=============================================================================
