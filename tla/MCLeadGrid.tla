----------------------------- MODULE MCLeadGrid -----------------------------
(* LeadGrid with the values TLC checks it for. *)
EXTENDS LeadGrid, TLC

CONSTANTS l1, rep, new, contacting, lost

\* The lead's branch, and another one.
MCFilters == {{l1}, {}}
\* A lead nobody has, before one who administers the branch; the user's own lead,
\* before a counsellor, who lists and is told of own leads only.
MCLead(owner) == [l \in Leads |-> [stage |-> new, owner |-> owner, v |-> 0, theirs |-> 0, alive |-> TRUE]]
MCStarts ==
  {<<[sees |-> TRUE, hears |-> TRUE], MCLead(None)>>, <<[sees |-> FALSE, hears |-> FALSE], MCLead(Me)>>}
\* Another user moves the lead on, or takes it, or hands it over.
MCTheirEdits == {<<contacting, rep>>, <<lost, Me>>}
=============================================================================
