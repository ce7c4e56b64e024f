------------------------------ MODULE PullSlot ------------------------------
(***************************************************************************)
(* What a lead pull promises the administrator who starts it.  A tenant    *)
(* has one slot per kind of run.  A pull accepted into a slot is worked    *)
(* exactly once: nothing else enters the slot before that pull has         *)
(* started and ended, and it ends only after it has started.               *)
(***************************************************************************)
CONSTANT Slots

VARIABLE slot

TypeOK == slot \in [Slots -> {"idle", "queued", "running"}]

Init == slot = [s \in Slots |-> "idle"]

\* A pull is accepted: POST /meta/lead-pull/runs answers a run id.
Enqueue(s) ==
  /\ slot[s] = "idle"
  /\ slot' = [slot EXCEPT ![s] = "queued"]

\* One worker starts it.
Start(s) ==
  /\ slot[s] = "queued"
  /\ slot' = [slot EXCEPT ![s] = "running"]

\* It completes or fails; the reaper may end several at once.
End(S) ==
  /\ \A s \in S : slot[s] = "running"
  /\ slot' = [s \in Slots |-> IF s \in S THEN "idle" ELSE slot[s]]

Next ==
  \/ \E s \in Slots : Enqueue(s) \/ Start(s)
  \/ \E S \in SUBSET Slots : End(S)

Spec == Init /\ [][Next]_slot
=============================================================================
