---------------------------- MODULE MCLeadIngest ----------------------------
(***************************************************************************)
(* Instances of LeadIngest for TLC: every lead on one form of the page,    *)
(* with the same phone number and e-mail, so that their intakes meet, and  *)
(* one branch in each of two tenants.                                      *)
(***************************************************************************)
EXTENDS LeadIngest, TLC

CONSTANTS f1, o1, o2, t1, t2, phone, email

OneForm   == [l \in Leads |-> f1]
Branches  == o1 :> t1 @@ o2 :> t2
SharedPhone == [l \in Leads |-> phone]
OwnEmail  == [l \in Leads |-> email]
ByPhoneOrEmail == {[phone |-> phone, email |-> None], [phone |-> None, email |-> email]}

Replicas == Permutations(Actors)
=============================================================================
