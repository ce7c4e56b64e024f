----------------------------- MODULE MCLeadPull -----------------------------
(***************************************************************************)
(* Instances of LeadPull for TLC.                                          *)
(***************************************************************************)
EXTENDS LeadPull, TLC

\* Every lead is on a page of one tenant.
OneTenant == [l \in Leads |-> CHOOSE t \in Tenants : TRUE]

\* Processes are interchangeable, and so are requests.
Replicas == Permutations(Procs) \cup Permutations(Requests)
=============================================================================
