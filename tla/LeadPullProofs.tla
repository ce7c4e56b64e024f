--------------------------- MODULE LeadPullProofs ---------------------------
(***************************************************************************)
(* LeadPull is type correct; its inductive invariant, what follows, and    *)
(* that it implements PullSlot.                                            *)
(*                                                                         *)
(* Most steps are "calm": they move the status of runs forward within the  *)
(* phase they are in, never add a row, and take no run up for pulling.     *)
(* What a calm step is is stated once, in Calm; CalmStep shows that it     *)
(* keeps the invariant and CalmActions that all actions but four are calm. *)
(* The four that are not (the check and the replacement of createPullRun,  *)
(* the claim of a pull, the staging of a page) have lemmas of their own.   *)
(* The outcome of a row has an invariant of its own, InHandOpen, and holds *)
(* for as long as a run has one applier.                                   *)
(***************************************************************************)
EXTENDS LeadPull, TLAPS

-----------------------------------------------------------------------------
(* Types: every step keeps the shape of every variable. *)

LEMMA TickSteps ==
  /\ "idle" \in Steps
  /\ "down" \in Steps
  /\ "catchup" \in Steps
  /\ "reap" \in Steps
  /\ "claim" \in Steps
  /\ "claimApply" \in Steps
  BY DEF Steps

LEMMA PullSteps ==
  /\ "load" \in Steps
  /\ "walk" \in Steps
  /\ "beat" \in Steps
  /\ "finish" \in Steps
  /\ "failing" \in Steps
  BY DEF Steps, PULLING

LEMMA ApplySteps ==
  /\ "integration" \in Steps
  /\ "mark" \in Steps
  /\ "rows" \in Steps
  /\ "apply" \in Steps
  /\ "recordApplied" \in Steps
  /\ "recordFailed" \in Steps
  /\ "applyBeat" \in Steps
  /\ "unapply" \in Steps
  BY DEF Steps, APPLYING

LEMMA StatusNames == \A s \in {"queued", "running", "completed", "apply_queued", "applying", "applied", "failed"} : s \in Statuses
  BY DEF Statuses, PULL_LIVE, PostPull
LEMMA IdleType == IdleWork \in Work
  BY TickSteps, BoundsAssumption DEF IdleWork, Work

LEMMA CounterType == ASSUME NEW d \in Nat PROVE (d + 1) % HeartbeatEveryRows \in 0 .. HeartbeatEveryRows - 1
  BY BoundsAssumption
RunTable == [RunIds -> Run \cup {None}]
RowTable == [RunIds -> [Leads -> Row \cup {None}]]
LEMMA SetStatusType ==
  ASSUME NEW r, r \in RunIds => runs[r] # None, NEW s \in Statuses, runs \in RunTable
  PROVE  SetStatus(r, s) \in RunTable
<1>1. CASE r \in RunIds
  BY <1>1 DEF SetStatus, Run, RunTable
<1>2. CASE r \notin RunIds
  BY <1>2 DEF SetStatus, RunTable
<1> QED BY <1>1, <1>2

LEMMA SetStatusIfType ==
  ASSUME NEW r, NEW from, from # "deleted", NEW s \in Statuses, runs \in RunTable
  PROVE  SetStatusIf(r, from, s) \in RunTable
<1>1. CASE Status(r) = from
  <2>1. runs[r] # None
    BY <1>1 DEF Status, Exists
  <2> QED BY <1>1, <2>1, SetStatusType DEF SetStatusIf
<1>2. CASE Status(r) # from
  BY <1>2 DEF SetStatusIf
<1> QED BY <1>1, <1>2

LEMMA BeatType == ASSUME NEW r, runs \in RunTable PROVE Beat(r) \in RunTable
<1>1. CASE r \in RunIds
  BY <1>1 DEF Beat, Run, RunTable, Exists
<1>2. CASE r \notin RunIds
  BY <1>2 DEF Beat, RunTable
<1> QED BY <1>1, <1>2

LEMMA VerdictType == ASSUME NEW l, NEW org PROVE VerdictOf(l, org) \in Verdicts
  BY DEF VerdictOf, Verdicts

LEMMA ClassifiedType == ASSUME NEW r, rows \in RowTable PROVE Classified(r) \in RowTable
<1>1. CASE r \in RunIds
  <2>1. \A l \in Leads : rows[r][l] # None => [rows[r][l] EXCEPT !.verdict = VerdictOf(l, rows[r][l].org)] \in Row
    BY <1>1, VerdictType DEF RowTable, Row
  <2> QED BY <1>1, <2>1 DEF Classified, RowTable
<1>2. CASE r \notin RunIds
  BY <1>2 DEF Classified, RowTable
<1> QED BY <1>1, <1>2

LEMMA RecordedType ==
  ASSUME NEW r, NEW l, NEW o \in {"applied", "skipped", "failed"}, rows \in RowTable
  PROVE Recorded(r, l, o) \in RowTable
<1>1. CASE r \in RunIds /\ l \in Leads
  <2>1. rows[r][l] # None => [rows[r][l] EXCEPT !.applied = o] \in Row
    BY <1>1 DEF RowTable, Row
  <2> QED BY <1>1, <2>1 DEF Recorded, RowTable
<1>2. CASE r \notin RunIds
  BY <1>2 DEF Recorded, RowTable
<1>3. CASE r \in RunIds /\ l \notin Leads
  BY <1>3 DEF Recorded, RowTable
<1> QED BY <1>1, <1>2, <1>3

LEMMA RowUpdate ==
  ASSUME NEW row \in Row
  PROVE  [row EXCEPT !.org = TRUE, !.applied = "pending"] \in Row
  BY DEF Row


LEMMA TypeStep == TypeOK /\ [Next]_vars => TypeOK'
<1> SUFFICES ASSUME TypeOK, [Next]_vars PROVE TypeOK'
  OBVIOUS
<1>1. ASSUME NEW l \in Leads, LandOutsideRun(l) PROVE TypeOK'
  BY <1>1 DEF TypeOK, LandOutsideRun, db
<1>2. ASSUME NEW l \in Leads, MapForm(l) PROVE TypeOK'
  BY <1>2 DEF TypeOK, MapForm, db
<1>3. ASSUME NEW l \in Leads, UnmapForm(l) PROVE TypeOK'
  BY <1>3 DEF TypeOK, UnmapForm, db
<1>4. ASSUME NEW r \in RunIds, Age(r) PROVE TypeOK'
  BY <1>4, StatusNames DEF TypeOK, Age, env, Run, Status, Exists
<1>5. ASSUME NEW r \in RunIds, QueueApply(r) PROVE TypeOK'
  <2> USE <1>5
  <2>1. presses' \in 0 .. MaxPresses /\ presses + 1 \in 0 .. MaxPresses
    BY BoundsAssumption DEF TypeOK, QueueApply
  <2>2. runs[r] # None /\ r \in RunIds
    BY DEF QueueApply, Status, Exists
  <2>3. [runs[r] EXCEPT !.status = "apply_queued", !.stale = FALSE, !.pressed = presses + 1] \in Run
    BY <2>1, <2>2, StatusNames DEF TypeOK, Run
  <2> QED BY <2>1, <2>2, <2>3 DEF TypeOK, QueueApply, env
<1>6. ASSUME NEW p \in Procs, Crash(p) PROVE TypeOK'
  <2> USE <1>6
  <2>1. [IdleWork EXCEPT !.pc = "down"] \in Work
    BY IdleType, TickSteps DEF Work
  <2>2. crashes' \in 0 .. MaxCrashes
    BY BoundsAssumption DEF TypeOK, Crash
  <2> QED BY <2>1, <2>2 DEF TypeOK, Crash, db, Creators
<1>7. ASSUME NEW p \in Procs, Restart(p) PROVE TypeOK'
  BY <1>7, TickSteps, ZenonT(40) DEF TypeOK, Restart, db, env, Goto, Work
<1>8. ASSUME NEW c \in Creators, NEW t \in Tenants, CreateCheck(c, t) PROVE TypeOK'
  BY <1>8 DEF TypeOK, CreateCheck, db, env
<1>9. ASSUME NEW c \in Creators, CreateReplace(c) PROVE TypeOK'
  <2> USE <1>9
  <2> DEFINE t == creating[c]
             new == [tenant |-> t, kind |-> KindOf(c), status |-> "queued",
                     stale |-> FALSE, pressed |-> 0]
  <2>1. t \in Tenants
    BY DEF CreateReplace, TypeOK
  <2>2. new \in Run
    BY <2>1, StatusNames, BoundsAssumption DEF Run, KindOf
  <2>3. runs' \in RunTable
    BY <2>2 DEF TypeOK, CreateReplace, RunTable
  <2>4. rows' \in RowTable
    BY DEF TypeOK, CreateReplace, RowTable
  <2>5. nextId' \in 1 .. MaxRuns + 1
    BY BoundsAssumption DEF TypeOK, CreateReplace
  <2>6. DropDue(c, t) \in [Procs -> Work]
    BY DEF TypeOK, DropDue, Work
  <2>7. creating' \in [Creators -> Tenants \cup {None}]
    BY DEF TypeOK, CreateReplace
  <2> QED BY <2>3, <2>4, <2>5, <2>6, <2>7 DEF TypeOK, CreateReplace, env, RunTable, RowTable
<1>10. ASSUME NEW c \in Creators, CreateAbort(c) PROVE TypeOK'
  BY <1>10, TickSteps, ZenonT(40) DEF TypeOK, CreateAbort, db, env, DropDue, Work
<1>11. ASSUME NEW p \in Procs, StartTick(p) PROVE TypeOK'
  <2> USE <1>11
  <2>1. PICK due \in SUBSET Tenants :
          work' = [work EXCEPT ![p] = [work[p] EXCEPT !.pc = "catchup", !.due = due]]
    BY DEF StartTick
  <2>2. [work[p] EXCEPT !.pc = "catchup", !.due = due] \in Work
    BY TickSteps DEF TypeOK, Work
  <2> QED BY <2>1, <2>2 DEF TypeOK, StartTick, db, env
<1>12. ASSUME NEW p \in Procs, NEW t \in Tenants, CatchupSkips(p, t) PROVE TypeOK'
  <2> USE <1>12
  <2>1. [work[p] EXCEPT !.due = @ \ {t}] \in Work
    BY DEF TypeOK, Work
  <2>2. work' = [work EXCEPT ![p] = [work[p] EXCEPT !.due = @ \ {t}]]
    BY DEF CatchupSkips, DropDue
  <2> QED BY <2>1, <2>2 DEF TypeOK, CatchupSkips, db, env
<1>13. ASSUME NEW p \in Procs, CatchupDone(p) PROVE TypeOK'
  <2> USE <1>13
  <2>1. [work[p] EXCEPT !.pc = "reap"] \in Work
    BY TickSteps DEF TypeOK, Work
  <2> QED BY <2>1 DEF TypeOK, CatchupDone, Goto, db, env
<1>14. ASSUME NEW p \in Procs, Reap(p) PROVE TypeOK'
  <2> USE <1>14
  <2>1. \A s \in Statuses : ReapedStatus(s) \in Statuses
    BY StatusNames DEF ReapedStatus
  <2>2. \A r \in RunIds : Reapable(r) =>
          [runs[r] EXCEPT !.status = ReapedStatus(@), !.stale = FALSE] \in Run
    BY <2>1 DEF TypeOK, Reapable, Status, Exists, Run
  <2>3. runs' \in RunTable
    BY <2>2 DEF TypeOK, Reap, RunTable
  <2>4. work' \in [Procs -> Work]
    BY TickSteps, ZenonT(40) DEF TypeOK, Reap, Goto, Work
  <2> QED BY <2>3, <2>4 DEF TypeOK, Reap, env, RunTable
<1>15. ASSUME NEW p \in Procs, ClaimPull(p) PROVE TypeOK'
  <2> USE <1>15
  <2>1. PICK r \in RunIds :
          /\ Status(r) = "queued"
          /\ runs' = SetStatus(r, "running")
          /\ work' = [work EXCEPT ![p] = [IdleWork EXCEPT !.pc = "load", !.run = r,
                                                         !.todo = TenantLeads(runs[r].tenant)]]
    BY DEF ClaimPull
  <2>2. runs' \in RunTable
    BY <2>1, StatusNames, SetStatusType DEF TypeOK, Status, Exists, RunTable
  <2>3. [IdleWork EXCEPT !.pc = "load", !.run = r, !.todo = TenantLeads(runs[r].tenant)] \in Work
    BY <2>1, IdleType, PullSteps DEF Work, TenantLeads
  <2>4. work' \in [Procs -> Work]
    BY <2>1, <2>3 DEF TypeOK
  <2> QED BY <2>2, <2>4 DEF TypeOK, ClaimPull, env, RunTable
<1>16. ASSUME NEW p \in Procs, NoPullQueued(p) PROVE TypeOK'
  BY <1>16, TickSteps, ZenonT(40) DEF TypeOK, NoPullQueued, db, env, Goto, Work
<1>17. ASSUME NEW p \in Procs, ClaimApply(p) PROVE TypeOK'
  <2> USE <1>17
  <2>1. PICK r \in RunIds :
          /\ Status(r) = "apply_queued"
          /\ runs' = SetStatus(r, "applying")
          /\ work' = [work EXCEPT ![p] = [IdleWork EXCEPT !.pc = "integration", !.run = r]]
    BY DEF ClaimApply
  <2>2. runs' \in RunTable
    BY <2>1, StatusNames, SetStatusType DEF TypeOK, Status, Exists, RunTable
  <2>3. [IdleWork EXCEPT !.pc = "integration", !.run = r] \in Work
    BY <2>1, IdleType, ApplySteps DEF Work
  <2>4. work' \in [Procs -> Work]
    BY <2>1, <2>3 DEF TypeOK
  <2> QED BY <2>2, <2>4 DEF TypeOK, ClaimApply, env, RunTable
<1>18. ASSUME NEW p \in Procs, NoApplyQueued(p) PROVE TypeOK'
  BY <1>18, IdleType DEF TypeOK, NoApplyQueued, db, env
<1>19. ASSUME NEW p \in Procs, TickAborted(p) PROVE TypeOK'
  BY <1>19, IdleType DEF TypeOK, TickAborted, db, env
<1>20. ASSUME NEW p \in Procs, LoadMappings(p) PROVE TypeOK'
  <2> USE <1>20
  <2>1. PICK pages \in SUBSET work[p].todo :
          work' = [work EXCEPT ![p].pc = IF pages = {} THEN "finish" ELSE "walk",
                               ![p].todo = pages, ![p].known = routed \cap work[p].todo]
    BY DEF LoadMappings
  <2>2. work[p] \in Work /\ routed \subseteq Leads
    BY DEF TypeOK
  <2>3. pages \subseteq Leads /\ routed \cap work[p].todo \subseteq Leads
    BY <2>2 DEF Work
  <2> DEFINE w == [work[p] EXCEPT !.pc = IF pages = {} THEN "finish" ELSE "walk",
                                 !.todo = pages, !.known = routed \cap work[p].todo]
  <2>4. w \in Work
    BY <2>2, <2>3, PullSteps DEF Work
  <2>5. work' = [work EXCEPT ![p] = w]
    BY <2>1
  <2> QED BY <2>4, <2>5 DEF TypeOK, LoadMappings, db, env
<1>21. ASSUME NEW p \in Procs, NEW l \in Leads, WalkPage(p, l) PROVE TypeOK'
  <2> USE <1>21
  <2>1. \A org \in BOOLEAN : [org |-> org, verdict |-> None, applied |-> "pending"] \in Row
    BY DEF Row
  <2>2. \A org \in BOOLEAN, r \in RunIds \cup {None} : Staged(r, l, org) \in RowTable
    BY <2>1 DEF TypeOK, Staged, RowTable
  <2>3. rows' \in RowTable
    BY <2>2 DEF TypeOK, WalkPage, Work, RowTable
  <2>4. [work[p] EXCEPT !.pc = "beat", !.todo = @ \ {l}] \in Work
    BY PullSteps DEF TypeOK, Work
  <2>5. work' = [work EXCEPT ![p] = [work[p] EXCEPT !.pc = "beat", !.todo = @ \ {l}]]
    BY DEF WalkPage
  <2> QED BY <2>3, <2>4, <2>5 DEF TypeOK, WalkPage, env, RowTable
<1>22. ASSUME NEW p \in Procs, NEW l \in Leads, PageFails(p, l) PROVE TypeOK'
  BY <1>22, PullSteps, ZenonT(40) DEF TypeOK, PageFails, db, env, Work
<1>23. ASSUME NEW p \in Procs, PageHeartbeat(p) PROVE TypeOK'
  <2> USE <1>23
  <2>1. runs' \in RunTable
    BY BeatType DEF TypeOK, PageHeartbeat, RunTable
  <2>2. work' \in [Procs -> Work]
    BY PullSteps, ZenonT(40) DEF TypeOK, PageHeartbeat, Goto, Work
  <2> QED BY <2>1, <2>2 DEF TypeOK, PageHeartbeat, env, RunTable
<1>24. ASSUME NEW p \in Procs, Classify(p) PROVE TypeOK'
  <2> USE <1>24
  <2>1. rows' \in RowTable
    BY ClassifiedType DEF TypeOK, Classify, RowTable
  <2>2. work' \in [Procs -> Work]
    BY PullSteps, ZenonT(40) DEF TypeOK, Classify, Goto, Work
  <2> QED BY <2>1, <2>2 DEF TypeOK, Classify, env, RowTable
<1>25. ASSUME NEW p \in Procs, FinishRun(p) PROVE TypeOK'
  <2> USE <1>25
  <2>1. runs' \in RunTable
    BY SetStatusIfType, StatusNames DEF TypeOK, FinishRun, RunTable, Finished
  <2> QED BY <2>1, IdleType DEF TypeOK, FinishRun, env, RunTable
<1>26. ASSUME NEW p \in Procs, PullThrows(p) PROVE TypeOK'
  BY <1>26, PullSteps, ZenonT(40) DEF TypeOK, PullThrows, db, env, Goto, Work
<1>27. ASSUME NEW p \in Procs, FailRun(p) PROVE TypeOK'
  <2> USE <1>27
  <2>1. SetStatusIf(work[p].run, "running", "failed") \in RunTable
    BY SetStatusIfType, StatusNames DEF TypeOK, RunTable
  <2>2. runs' \in RunTable
    BY <2>1 DEF TypeOK, FailRun, RunTable
  <2> QED BY <2>2, IdleType DEF TypeOK, FailRun, env, RunTable
<1>28. ASSUME NEW p \in Procs, ReadIntegration(p) PROVE TypeOK'
  BY <1>28, ApplySteps, ZenonT(40) DEF TypeOK, ReadIntegration, db, env, Goto, Work
<1>29. ASSUME NEW p \in Procs, IntegrationThrows(p) PROVE TypeOK'
  BY <1>29, IdleType DEF TypeOK, IntegrationThrows, db, env
<1>30. ASSUME NEW p \in Procs, MarkNonImportable(p) PROVE TypeOK'
  <2> USE <1>30
  <2> DEFINE r == work[p].run
  <2>1. rows' \in RowTable
    <3>1. CASE r \in RunIds
      <4>1. \A l \in Pending(r) : l \in Leads /\ [rows[r][l] EXCEPT !.applied = "skipped"] \in Row
        BY <3>1 DEF TypeOK, Pending, Row
      <4> QED BY <3>1, <4>1 DEF TypeOK, MarkNonImportable, RowTable
    <3>2. CASE r \notin RunIds
      BY <3>2 DEF TypeOK, MarkNonImportable, RowTable
    <3> QED BY <3>1, <3>2
  <2>2. work' \in [Procs -> Work]
    BY ApplySteps, ZenonT(40) DEF TypeOK, MarkNonImportable, Goto, Work
  <2> QED BY <2>1, <2>2 DEF TypeOK, MarkNonImportable, env, RowTable
<1>31. ASSUME NEW p \in Procs, LoadImportableRows(p) PROVE TypeOK'
  <2> USE <1>31
  <2> DEFINE r == work[p].run
             known == {l \in Loaded(r) : rows[r][l].org}
             w == [work[p] EXCEPT !.pc = "apply", !.todo = Loaded(r), !.known = known]
  <2>1. Loaded(r) \subseteq Leads /\ known \subseteq Leads
    BY DEF Loaded, ToImport, Pending
  <2>2. w \in Work
    BY <2>1, ApplySteps DEF TypeOK, Work
  <2>3. work' = [work EXCEPT ![p] = w]
    BY DEF LoadImportableRows
  <2> QED BY <2>2, <2>3 DEF TypeOK, LoadImportableRows, db, env
<1>32. ASSUME NEW p \in Procs, NEW l \in Leads, ApplyRow(p, l) PROVE TypeOK'
  <2> USE <1>32
  <2>1. PICK landed \in BOOLEAN :
          IF Refused(work[p], l)
          THEN /\ rows' = Recorded(work[p].run, l, "skipped")
               /\ work' = [work EXCEPT ![p].todo = @ \ {l},
                                       ![p].done = (@ + 1) % HeartbeatEveryRows]
               /\ UNCHANGED synced
          ELSE /\ work' = [work EXCEPT ![p].todo = @ \ {l}, ![p].lead = l,
                     ![p].pc = IF landed THEN "recordApplied" ELSE "recordFailed"]
               /\ synced' = IF landed THEN synced \cup {l} ELSE synced
               /\ UNCHANGED rows
    BY DEF ApplyRow
  <2>2. rows' \in RowTable
    BY <2>1, RecordedType DEF TypeOK, RowTable
  <2>3. (work[p].done + 1) % HeartbeatEveryRows \in 0 .. HeartbeatEveryRows - 1
    BY CounterType DEF TypeOK, Work
  <2> DEFINE w == work[p]
             skipped == [w EXCEPT !.todo = @ \ {l}, !.done = (@ + 1) % HeartbeatEveryRows]
             sent(pc) == [w EXCEPT !.todo = @ \ {l}, !.lead = l, !.pc = pc]
  <2>6. skipped \in Work /\ sent("recordApplied") \in Work /\ sent("recordFailed") \in Work
    BY <2>3, ApplySteps DEF TypeOK, Work
  <2>7. \/ work' = [work EXCEPT ![p] = skipped]
        \/ work' = [work EXCEPT ![p] = sent("recordApplied")]
        \/ work' = [work EXCEPT ![p] = sent("recordFailed")]
    BY <2>1
  <2>4. work' \in [Procs -> Work]
    BY <2>6, <2>7 DEF TypeOK
  <2>5. synced' \subseteq Leads
    BY <2>1 DEF TypeOK
  <2> QED BY <2>2, <2>4, <2>5 DEF TypeOK, ApplyRow, RowTable
<1>33. ASSUME NEW p \in Procs, RecordOutcome(p) PROVE TypeOK'
  <2> USE <1>33
  <2> DEFINE done == (work[p].done + 1) % HeartbeatEveryRows
             w == [work[p] EXCEPT !.pc = IF done = 0 THEN "applyBeat" ELSE "apply",
                                 !.done = done, !.lead = None]
  <2>1. rows' \in RowTable
    BY RecordedType DEF TypeOK, RecordOutcome, RowTable
  <2>2. done \in 0 .. HeartbeatEveryRows - 1
    BY CounterType DEF TypeOK, Work
  <2>3. w \in Work
    BY <2>2, ApplySteps DEF TypeOK, Work
  <2>4. work' = [work EXCEPT ![p] = w]
    BY DEF RecordOutcome
  <2> QED BY <2>1, <2>3, <2>4 DEF TypeOK, RecordOutcome, env, RowTable
<1>34. ASSUME NEW p \in Procs, RecordThrows(p) PROVE TypeOK'
  <2> USE <1>34
  <2>1. [work[p] EXCEPT !.pc = "recordFailed"] \in Work /\ [work[p] EXCEPT !.pc = "unapply"] \in Work
    BY ApplySteps DEF TypeOK, Work
  <2> QED BY <2>1 DEF TypeOK, RecordThrows, Goto, db, env
<1>35. ASSUME NEW p \in Procs, ApplyHeartbeat(p) PROVE TypeOK'
  <2> USE <1>35
  <2>1. runs' \in RunTable
    BY BeatType DEF TypeOK, ApplyHeartbeat, RunTable
  <2>2. work' \in [Procs -> Work]
    BY ApplySteps, ZenonT(40) DEF TypeOK, ApplyHeartbeat, Goto, Work
  <2> QED BY <2>1, <2>2 DEF TypeOK, ApplyHeartbeat, env, RunTable
<1>36. ASSUME NEW p \in Procs, FinishApply(p) PROVE TypeOK'
  <2> USE <1>36
  <2>1. runs' \in RunTable
    BY SetStatusIfType, StatusNames DEF TypeOK, FinishApply, RunTable
  <2> QED BY <2>1, IdleType DEF TypeOK, FinishApply, env, RunTable
<1>37. ASSUME NEW p \in Procs, ApplyThrows(p) PROVE TypeOK'
  BY <1>37, ApplySteps, ZenonT(40) DEF TypeOK, ApplyThrows, db, env, Goto, Work
<1>38. ASSUME NEW p \in Procs, ReturnToCompleted(p) PROVE TypeOK'
  <2> USE <1>38
  <2>1. SetStatusIf(work[p].run, "applying", "completed") \in RunTable
    BY SetStatusIfType, StatusNames DEF TypeOK, RunTable
  <2>2. runs' \in RunTable
    BY <2>1 DEF TypeOK, ReturnToCompleted, RunTable
  <2> QED BY <2>2, IdleType DEF TypeOK, ReturnToCompleted, env, RunTable
<1>39. ASSUME NEW q \in Requests, NEW r \in RunIds, RemapCheck(q, r) PROVE TypeOK'
  BY <1>39 DEF TypeOK, RemapCheck, db, env, Remap
<1>40. ASSUME NEW q \in Requests, RemapUpdate(q) PROVE TypeOK'
  <2> USE <1>40
  <2> DEFINE r == remap[q].run
  <2>1. r \in RunIds
    BY DEF TypeOK, RemapUpdate, Remap
  <2>2. \A l \in Leads : rows[r][l] # None =>
          [rows[r][l] EXCEPT !.org = TRUE, !.applied = "pending"] \in Row
    <3>1. \A l \in Leads : rows[r][l] \in Row \cup {None}
      BY <2>1 DEF TypeOK
    <3> QED BY <3>1, RowUpdate
  <2>3. rows' \in RowTable
    BY <2>1, <2>2 DEF TypeOK, RemapUpdate, RowTable
  <2>4. remap' \in [Requests -> Remap \cup {None}]
    BY DEF TypeOK, RemapUpdate, Remap
  <2> QED BY <2>3, <2>4 DEF TypeOK, RemapUpdate, env, RowTable
<1>41. ASSUME NEW q \in Requests, RemapClassify(q) PROVE TypeOK'
  <2> USE <1>41
  <2>1. rows' \in RowTable
    BY ClassifiedType DEF TypeOK, RemapClassify, RowTable
  <2> QED BY <2>1 DEF TypeOK, RemapClassify, env, RowTable
<1>42. ASSUME NEW q \in Requests, RemapAborted(q) PROVE TypeOK'
  BY <1>42 DEF TypeOK, RemapAborted, db, env
<1>43. CASE UNCHANGED vars
  BY <1>43 DEF TypeOK, vars
<1> QED
  BY <1>1, <1>2, <1>3, <1>4, <1>5, <1>6, <1>7, <1>8, <1>9, <1>10, <1>11, <1>12, <1>13, <1>14, <1>15, <1>16, <1>17, <1>18, <1>19, <1>20, <1>21, <1>22, <1>23, <1>24, <1>25, <1>26, <1>27, <1>28, <1>29, <1>30, <1>31, <1>32, <1>33, <1>34, <1>35, <1>36, <1>37, <1>38, <1>39, <1>40, <1>41, <1>42, <1>43
     DEF Next, Environment, RequestStep, CreateStep, CatchupStep, ClaimStep, ClaimApplyStep,
         PullStep, ApplyStep, Creators

LEMMA InitType == Init => TypeOK
<1> SUFFICES ASSUME Init PROVE TypeOK
  OBVIOUS
<1>1. nextId \in 1 .. MaxRuns + 1 /\ presses \in 0 .. MaxPresses /\ crashes \in 0 .. MaxCrashes
  BY BoundsAssumption DEF Init
<1> QED BY <1>1, IdleType DEF Init, TypeOK

\* Every reachable state of the pull queue is well typed: a run has a status
\* of the table's CHECK constraint and a worker a step of tick().
THEOREM TypeCorrect == Spec => []TypeOK
  BY InitType, TypeStep, PTL DEF Spec

-----------------------------------------------------------------------------
(* The calm steps. *)

Rest ==
  /\ RowsHaveRun /\ IdsGrow /\ CreationsExclude /\ CheckedSlotFree
  /\ PullHoldsRun /\ PostPullWork /\ RowsOfPull
  /\ OneWorkerPerPull /\ FailedRunUntouched /\ CompletedRunIsClassified /\ ImportableHasBranch

\* Every row of run r has a verdict.
Judged(r) == \A l \in Leads : rows[r][l] # None => rows[r][l].verdict # None

\* A status moves only out of "running" or within PostPull, and a run that
\* completes has its verdicts and no worker left.
RunsMove ==
  \A r \in RunIds :
    /\ runs'[r] = None <=> runs[r] = None
    /\ runs[r] # None => runs'[r].tenant = runs[r].tenant /\ runs'[r].kind = runs[r].kind
    /\ \/ Status(r)' = Status(r)
       \/ Status(r) = "running" /\ Status(r)' = "failed"
       \/ Status(r) \in PostPull /\ Status(r)' \in PostPull
       \/ /\ Status(r) = "running" /\ Status(r)' = "completed" /\ Judged(r)
          /\ \A p \in Procs : Pulling(p)' => work'[p].run # r

\* Rows stay, keep a verdict, and get an outcome only once their run is past its pull.
RowsMove ==
  \A r \in RunIds, l \in Leads :
    /\ rows'[r][l] = None <=> rows[r][l] = None
    /\ rows[r][l] # None =>
         /\ rows[r][l].verdict # None => rows'[r][l].verdict # None
         /\ rows'[r][l].verdict = "importable" => rows'[r][l].org
         /\ \/ rows'[r][l].applied \in {rows[r][l].applied, "pending"}
            \/ Status(r) \in PostPull

\* Nobody begins a pull, and a walk ends only with verdicts.
PullersStay ==
  \A p \in Procs : Pulling(p)' =>
    /\ Pulling(p) /\ work'[p].run = work[p].run
    /\ work'[p].pc = "load" => work[p].pc = "load"
    /\ work'[p].pc = "finish" => work[p].pc = "finish" \/ Judged(work[p].run)'

\* Applies and remaps are taken up only for runs past their pull.
AppliersHold ==
  \A p \in Procs : Applying(p)' =>
    \/ Applying(p) /\ work'[p].run = work[p].run
    \/ work'[p].run \in RunIds /\ Status(work[p].run)' \in PostPull
RemapsHold ==
  \A q \in Requests : remap'[q] # None =>
    \/ remap[q] # None /\ remap'[q].run = remap[q].run
    \/ remap'[q].run \in RunIds /\ Status(remap[q].run)' \in PostPull

NoNewCreation == \A c \in Creators : creating'[c] # None => creating'[c] = creating[c]

Calm ==
  /\ RunsMove /\ RowsMove /\ PullersStay /\ AppliersHold /\ RemapsHold /\ NoNewCreation
  /\ UNCHANGED nextId

LEMMA Facts == ASSUME IInv PROVE
  /\ \A p \in Procs : Pulling(p) \/ Applying(p) => work[p].run \in RunIds
  /\ \A q \in Requests : remap[q] # None => remap[q].run \in RunIds
  /\ \A r \in RunIds : Status(r) = "deleted" <=> runs[r] = None
<1>1. \A r \in RunIds : runs[r] # None => runs[r].status # "deleted"
  <2>1. "deleted" \notin Statuses
    BY DEF Statuses, PULL_LIVE, PostPull
  <2> QED BY <2>1 DEF IInv, TypeOK, Run
<1> QED BY <1>1 DEF IInv, IdsGrow, TypeOK, Remap, Status, Exists

LEMMA CalmStep ==
  ASSUME IInv, TypeOK', Calm
  PROVE  Rest'
<1>a. \A p \in Procs : Pulling(p) \/ Applying(p) => work[p].run \in RunIds
  BY Facts
<1>b. \A q \in Requests : remap[q] # None => remap[q].run \in RunIds
  BY Facts
<1>c. \A r \in RunIds : Status(r)' \in PostPull => runs'[r] # None
  BY DEF Status, Exists, PostPull
<1>1. RowsHaveRun'
  BY DEF IInv, Calm, RunsMove, RowsMove, RowsHaveRun
<1>2. IdsGrow'
  <2>1. \A r \in RunIds : Status(r)' \in PostPull => r < nextId
    BY <1>c DEF IInv, Calm, RunsMove, IdsGrow, TypeOK, RunIds
  <2>2. \A r \in RunIds : r >= nextId' => runs'[r] = None
    BY DEF IInv, Calm, RunsMove, IdsGrow
  <2>3. \A p \in Procs : Pulling(p)' \/ Applying(p)' =>
          work'[p].run \in RunIds /\ work'[p].run < nextId'
    BY <2>1 DEF IInv, Calm, PullersStay, AppliersHold, IdsGrow
  <2>4. \A q \in Requests : remap'[q] # None => remap'[q].run < nextId'
    BY <2>1 DEF IInv, Calm, RemapsHold, IdsGrow
  <2> QED BY <2>2, <2>3, <2>4 DEF IdsGrow
<1>3. CreationsExclude'
  BY DEF IInv, Calm, NoNewCreation, CreationsExclude
<1>4. CheckedSlotFree'
  <2>1. \A r \in RunIds : Status(r)' \in PULL_LIVE => Status(r) = Status(r)'
    BY DEF Calm, RunsMove, PULL_LIVE, PostPull
  <2> QED BY <2>1 DEF IInv, Calm, RunsMove, NoNewCreation, CheckedSlotFree, InSlot, Exists, Status
<1>5. PullHoldsRun'
  BY <1>a DEF IInv, Calm, RunsMove, PullersStay, PullHoldsRun, PostPull
<1>6. PostPullWork'
  <2>1. \A r \in RunIds : Status(r) \in PostPull \cup {"deleted"} => Status(r)' \in PostPull \cup {"deleted"}
    BY DEF Calm, RunsMove, PostPull
  <2>2. \A p \in Procs : Applying(p)' => Status(work[p].run)' \in PostPull \cup {"deleted"}
    BY <2>1, <1>a DEF IInv, Calm, AppliersHold, PostPullWork
  <2>3. \A q \in Requests : remap'[q] # None => Status(remap[q].run)' \in PostPull \cup {"deleted"}
    BY <2>1, <1>b DEF IInv, Calm, RemapsHold, PostPullWork
  <2> QED BY <2>2, <2>3 DEF PostPullWork
<1>7. RowsOfPull'
  <2>1. \A r \in RunIds : Status(r)' = "queued" => Status(r) = "queued"
    BY DEF Calm, RunsMove, PostPull
  <2>2. \A p \in Procs : work'[p].pc \in {"load", "finish"} => Pulling(p)'
    BY DEF Pulling, PULLING
  <2>3. \A p \in Procs : work[p].pc = "finish" => Judged(work[p].run)
    BY DEF IInv, RowsOfPull, Judged
  <2>4. \A r \in RunIds : Judged(r) => Judged(r)'
    BY DEF Calm, RowsMove, Judged
  <2>5. \A p \in Procs : work'[p].pc = "finish" => Judged(work[p].run)'
    BY <2>2, <2>3, <2>4, <1>a DEF Calm, PullersStay
  <2>6. \A p \in Procs, l \in Leads : work'[p].pc = "load" => rows'[work'[p].run][l] = None
    BY <2>2, <1>a DEF IInv, Calm, RowsMove, PullersStay, RowsOfPull
  <2>7. \A r \in RunIds, l \in Leads : Status(r)' = "queued" => rows'[r][l] = None
    BY <2>1 DEF IInv, Calm, RowsMove, RowsOfPull
  <2> QED BY <2>5, <2>6, <2>7 DEF RowsOfPull, Judged
<1>8. OneWorkerPerPull'
  BY DEF IInv, Calm, PullersStay, OneWorkerPerPull
<1>9. FailedRunUntouched'
  BY DEF IInv, Calm, RunsMove, RowsMove, FailedRunUntouched, PostPull
<1>10. CompletedRunIsClassified'
  BY DEF IInv, Calm, RunsMove, RowsMove, Judged, CompletedRunIsClassified, PostPull
<1>11. ImportableHasBranch'
  BY DEF IInv, Calm, RowsMove, ImportableHasBranch, Importable
<1> QED BY <1>1, <1>2, <1>3, <1>4, <1>5, <1>6, <1>7, <1>8, <1>9, <1>10, <1>11 DEF Rest


\* What a step does to the worker p: nothing else moves.
Others(p) == \A q \in Procs \ {p} : work'[q] = work[q]
Idles(p) == Others(p) /\ work'[p].pc \notin PULLING \cup APPLYING
PullsOn(p) ==
  /\ Others(p) /\ Pulling(p) /\ work'[p].run = work[p].run
  /\ work'[p].pc \notin APPLYING \cup {"load"}
  /\ work'[p].pc = "finish" => Judged(work[p].run)'
AppliesOn(p) ==
  /\ Others(p) /\ Applying(p) /\ work'[p].run = work[p].run
  /\ work'[p].pc \notin PULLING

LEMMA OneWorkerMoves ==
  ASSUME IInv, NEW p \in Procs, Idles(p) \/ PullsOn(p) \/ AppliesOn(p)
  PROVE  PullersStay /\ AppliersHold
  BY DEF PullersStay, AppliersHold, Others, Idles, PullsOn, AppliesOn, Pulling, Applying

LEMMA RunsSame == ASSUME UNCHANGED runs PROVE RunsMove
  BY DEF RunsMove, Status, Exists

LEMMA RowsSame == ASSUME IInv, UNCHANGED rows PROVE RowsMove
  BY DEF IInv, ImportableHasBranch, Importable, RowsMove

\* A step of one worker that keeps to the phase of every run is calm.
LEMMA WorkerMoves ==
  ASSUME IInv, NEW p \in Procs, RunsMove, RowsMove,
         Idles(p) \/ PullsOn(p) \/ AppliesOn(p), UNCHANGED <<nextId, creating, remap>>
  PROVE  Calm
<1>1. RemapsHold /\ NoNewCreation
  BY DEF RemapsHold, NoNewCreation
<1> QED BY <1>1, OneWorkerMoves DEF Calm

\* So is a step of anybody else.
LEMMA OthersMove ==
  ASSUME IInv, RunsMove, RowsMove, RemapsHold, NoNewCreation, UNCHANGED <<nextId, work>>
  PROVE  Calm
<1>1. PullersStay /\ AppliersHold
  BY DEF PullersStay, AppliersHold, Pulling, Applying
<1> QED BY <1>1 DEF Calm

LEMMA RemapsSame == ASSUME UNCHANGED <<remap, creating>> PROVE RemapsHold /\ NoNewCreation
  BY DEF RemapsHold, NoNewCreation

LEMMA Disjoint ==
  /\ PULLING \cap APPLYING = {}
  /\ \A pc \in {"idle", "down", "catchup", "reap", "claim", "claimApply"} :
       pc \notin PULLING \cup APPLYING
  BY DEF PULLING, APPLYING

-----------------------------------------------------------------------------
(* What the updates of the two tables do to the invariant's view of them.   *)

LEMMA RunSet ==
  ASSUME NEW run \in Run, NEW s \in Statuses, NEW b \in BOOLEAN
  PROVE  LET new == [run EXCEPT !.status = s, !.stale = b] IN
         /\ new # None /\ new.status = s
         /\ new.tenant = run.tenant /\ new.kind = run.kind
<1>1. [run EXCEPT !.status = s, !.stale = b] \in Run
  BY DEF Run
<1> QED BY <1>1, NoneAssumption DEF Run

LEMMA RunBeat ==
  ASSUME NEW run \in Run, NEW b \in BOOLEAN
  PROVE  LET new == [run EXCEPT !.stale = b] IN
         /\ new # None /\ new.status = run.status
         /\ new.tenant = run.tenant /\ new.kind = run.kind
<1>1. [run EXCEPT !.stale = b] \in Run
  BY DEF Run
<1> QED BY <1>1, NoneAssumption DEF Run

LEMMA RowSet ==
  ASSUME NEW row \in Row, NEW o \in {"pending", "applied", "skipped", "failed"}
  PROVE  LET new == [row EXCEPT !.applied = o] IN
         /\ new # None /\ new.applied = o
         /\ new.verdict = row.verdict /\ new.org = row.org
<1>1. [row EXCEPT !.applied = o] \in Row
  BY DEF Row
<1> QED BY <1>1, NoneAssumption DEF Row

LEMMA RowJudged ==
  ASSUME NEW row \in Row, NEW v \in Verdicts
  PROVE  LET new == [row EXCEPT !.verdict = v] IN
         /\ new # None /\ new.verdict = v
         /\ new.applied = row.applied /\ new.org = row.org
<1>1. [row EXCEPT !.verdict = v] \in Row
  BY DEF Row
<1> QED BY <1>1, NoneAssumption DEF Row

LEMMA RowRemapped ==
  ASSUME NEW row \in Row
  PROVE  LET new == [row EXCEPT !.org = TRUE, !.applied = "pending"] IN
         /\ new # None /\ new.applied = "pending" /\ new.org /\ new.verdict = row.verdict
<1>1. [row EXCEPT !.org = TRUE, !.applied = "pending"] \in Row
  BY DEF Row
<1> QED BY <1>1, NoneAssumption DEF Row

\* One run changes its status and nothing else.
LEMMA StatusChange ==
  ASSUME IInv, NEW r \in RunIds, NEW s \in Statuses, runs[r] # None, runs' = SetStatus(r, s)
  PROVE  /\ runs'[r] # None /\ Status(r)' = s /\ runs'[r].status = s
         /\ runs'[r].tenant = runs[r].tenant /\ runs'[r].kind = runs[r].kind
         /\ \A o \in RunIds \ {r} : runs'[o] = runs[o] /\ Status(o)' = Status(o)
<1> DEFINE new == [runs[r] EXCEPT !.status = s, !.stale = FALSE]
<1>1. runs[r] \in Run
  BY DEF IInv, TypeOK
<1>2. new # None /\ new.status = s /\ new.tenant = runs[r].tenant /\ new.kind = runs[r].kind
  BY <1>1, RunSet
<1>3. runs'[r] = new /\ \A o \in RunIds \ {r} : runs'[o] = runs[o]
  BY DEF SetStatus, IInv, TypeOK
<1> HIDE DEF new
<1> QED BY <1>2, <1>3 DEF Status, Exists

\* It does so within what RunsMove allows.
LEMMA StatusMoves ==
  ASSUME IInv, NEW r \in RunIds, NEW s \in Statuses, runs[r] # None, runs' = SetStatus(r, s),
         \/ Status(r) = s
         \/ Status(r) = "running" /\ s = "failed"
         \/ Status(r) \in PostPull /\ s \in PostPull
         \/ /\ Status(r) = "running" /\ s = "completed" /\ Judged(r)
            /\ \A p \in Procs : Pulling(p)' => work'[p].run # r
  PROVE  RunsMove /\ Status(r)' = s
  BY StatusChange DEF RunsMove

\* A heartbeat, or the lack of one, changes no status.
LEMMA BeatMoves ==
  ASSUME IInv, NEW r \in RunIds, NEW b \in BOOLEAN, runs[r] # None,
         runs' = [runs EXCEPT ![r].stale = b]
  PROVE  RunsMove
<1> DEFINE new == [runs[r] EXCEPT !.stale = b]
<1>1. runs[r] \in Run
  BY DEF IInv, TypeOK
<1>2. /\ new # None /\ new.status = runs[r].status
      /\ new.tenant = runs[r].tenant /\ new.kind = runs[r].kind
  BY <1>1, RunBeat
<1>3. runs'[r] = new /\ \A o \in RunIds \ {r} : runs'[o] = runs[o]
  BY DEF IInv, TypeOK
<1> HIDE DEF new
<1> QED BY <1>2, <1>3 DEF RunsMove, Status, Exists

LEMMA VerdictLadder ==
  ASSUME NEW l, NEW org \in BOOLEAN
  PROVE  /\ VerdictOf(l, org) \in Verdicts /\ VerdictOf(l, org) # None
         /\ VerdictOf(l, org) = "importable" => org
<1>1. VerdictOf(l, org) = "importable" => org
  BY DEF VerdictOf
<1> QED BY <1>1, VerdictType, NoneAssumption

LEMMA ClassifiedMoves ==
  ASSUME IInv, NEW r \in RunIds, rows' = Classified(r)
  PROVE  RowsMove /\ Judged(r)'
<1> DEFINE verdict(l) == VerdictOf(l, rows[r][l].org)
           new(l) == [rows[r][l] EXCEPT !.verdict = verdict(l)]
<1>1. \A s \in RunIds, l \in Leads :
        rows'[s][l] = IF s = r /\ rows[r][l] # None THEN new(l) ELSE rows[s][l]
  BY DEF Classified, IInv, TypeOK
<1>2. ASSUME NEW l \in Leads, rows[r][l] # None
      PROVE  /\ new(l) # None /\ new(l).verdict # None
             /\ new(l).applied = rows[r][l].applied
             /\ new(l).verdict = "importable" => new(l).org
  <2>1. rows[r][l] \in Row
    BY <1>2 DEF IInv, TypeOK
  <2>2. rows[r][l].org \in BOOLEAN
    BY <2>1 DEF Row
  <2>3. verdict(l) \in Verdicts /\ verdict(l) # None /\ (verdict(l) = "importable" => rows[r][l].org)
    BY <2>2, VerdictLadder
  <2> HIDE DEF verdict
  <2> QED BY <2>1, <2>3, RowJudged
<1> HIDE DEF new
<1>3. Judged(r)'
  BY <1>1, <1>2 DEF Judged
<1>4. RowsMove
  BY <1>1, <1>2 DEF RowsMove, IInv, ImportableHasBranch, Importable
<1> QED BY <1>3, <1>4

LEMMA RecordedMoves ==
  ASSUME IInv, NEW r \in RunIds, Status(r) \in PostPull \cup {"deleted"},
         NEW k, NEW o \in {"applied", "skipped", "failed"}, rows' = Recorded(r, k, o)
  PROVE  RowsMove
<1>0. CASE k \notin Leads \/ UNCHANGED rows
  <2>1. UNCHANGED rows
    BY <1>0 DEF Recorded, IInv, TypeOK
  <2> QED BY <2>1, RowsSame
<1>1. CASE k \in Leads /\ rows' # rows
  <2> DEFINE new == [rows[r][k] EXCEPT !.applied = o]
  <2>1. rows[r][k] # None /\ rows[r][k] \in Row
    BY <1>1 DEF Recorded, IInv, TypeOK
  <2>2. \A s \in RunIds, l \in Leads :
          rows'[s][l] = IF s = r /\ l = k THEN new ELSE rows[s][l]
    BY <1>1, <2>1 DEF Recorded, IInv, TypeOK
  <2>3. new # None /\ new.verdict = rows[r][k].verdict /\ new.org = rows[r][k].org
    BY <2>1, RowSet
  <2>4. Status(r) \in PostPull
    BY <2>1, <1>1, Facts DEF IInv, RowsHaveRun
  <2> HIDE DEF new
  <2> QED BY <1>1, <2>1, <2>2, <2>3, <2>4 DEF RowsMove, IInv, ImportableHasBranch, Importable
<1> QED BY <1>0, <1>1

-----------------------------------------------------------------------------
(* The calm actions.                                                        *)

\* Every step but the four below is calm.
LEMMA CalmActions ==
  ASSUME IInv, TypeOK', [Next]_vars
  PROVE  \/ Calm
         \/ \E c \in Creators : CreateReplace(c) \/ \E t \in Tenants : CreateCheck(c, t)
         \/ \E p \in Procs : ClaimPull(p) \/ \E l \in Leads : WalkPage(p, l)
<1>1. ASSUME NEW l \in Leads, LandOutsideRun(l) PROVE Calm
  BY <1>1, RunsSame, RowsSame, RemapsSame, OthersMove DEF LandOutsideRun, db
<1>2. ASSUME NEW l \in Leads, MapForm(l) PROVE Calm
  BY <1>2, RunsSame, RowsSame, RemapsSame, OthersMove DEF MapForm, db
<1>3. ASSUME NEW l \in Leads, UnmapForm(l) PROVE Calm
  BY <1>3, RunsSame, RowsSame, RemapsSame, OthersMove DEF UnmapForm, db
<1>4. ASSUME NEW r \in RunIds, Age(r) PROVE Calm
  <2>1. runs[r] # None
    BY <1>4 DEF Age, Status, Exists
  <2>2. RunsMove
    BY <1>4, <2>1, BeatMoves DEF Age
  <2> QED BY <1>4, <2>2, RowsSame, RemapsSame, OthersMove DEF Age
<1>5. ASSUME NEW r \in RunIds, QueueApply(r) PROVE Calm
  <2> DEFINE new == [runs[r] EXCEPT !.status = "apply_queued", !.stale = FALSE, !.pressed = presses + 1]
  <2>1. runs[r] # None /\ Status(r) \in PostPull
    BY <1>5 DEF QueueApply, Status, Exists, PostPull
  <2>2. runs'[r] = new /\ \A o \in RunIds \ {r} : runs'[o] = runs[o]
    BY <1>5 DEF QueueApply, IInv, TypeOK
  <2>3. /\ new # None /\ new.status = "apply_queued"
        /\ new.tenant = runs[r].tenant /\ new.kind = runs[r].kind
    <3>1. runs[r] \in Run
      BY <2>1 DEF IInv, TypeOK
    <3>2. new \in Run
      <4>1. runs'[r] \in Run \cup {None}
        BY DEF TypeOK
      <4>2. presses' \in 0 .. MaxPresses /\ presses' = presses + 1
        BY <1>5 DEF QueueApply, TypeOK
      <4> QED BY <3>1, <4>2, StatusNames DEF Run
    <3> QED BY <3>1, <3>2, NoneAssumption DEF Run
  <2> HIDE DEF new
  <2>4. RunsMove
    BY <2>1, <2>2, <2>3 DEF RunsMove, Status, Exists, PostPull
  <2> QED BY <1>5, <2>4, RowsSame, RemapsSame, OthersMove DEF QueueApply
<1>6. ASSUME NEW p \in Procs, Crash(p) PROVE Calm
  <2>1. Idles(p)
    BY <1>6, Disjoint DEF IInv, TypeOK, Work, Crash, Idles, Others, IdleWork
  <2>2. NoNewCreation
    BY <1>6 DEF Crash, IInv, TypeOK, NoNewCreation
  <2>3. RemapsHold
    BY <1>6 DEF Crash, RemapsHold
  <2> QED BY <1>6, <2>1, <2>2, <2>3, OneWorkerMoves, RunsSame, RowsSame DEF Calm, Crash, db
<1>7. ASSUME NEW p \in Procs, Restart(p) PROVE Calm
  <2>1. Idles(p)
    BY <1>7, Disjoint DEF IInv, TypeOK, Work, Restart, Idles, Others, Goto
  <2> QED BY <1>7, <2>1, RunsSame, RowsSame, WorkerMoves DEF Restart, db
<1>8. ASSUME NEW c \in Creators, CreateAbort(c) PROVE Calm
  <2>1. NoNewCreation
    BY <1>8 DEF CreateAbort, IInv, TypeOK, NoNewCreation
  <2>2. PullersStay /\ AppliersHold
    BY <1>8 DEF CreateAbort, DropDue, IInv, TypeOK, Work, PullersStay, AppliersHold, Pulling, Applying
  <2>3. RemapsHold
    BY <1>8 DEF CreateAbort, RemapsHold
  <2> QED BY <1>8, <2>1, <2>2, <2>3, RunsSame, RowsSame DEF Calm, CreateAbort, db
<1>9. ASSUME NEW p \in Procs, StartTick(p) PROVE Calm
  <2>1. Idles(p)
    BY <1>9, Disjoint DEF IInv, TypeOK, Work, StartTick, Idles, Others, db
  <2> QED BY <1>9, <2>1, RunsSame, RowsSame, WorkerMoves DEF StartTick, db
<1>10. ASSUME NEW p \in Procs, NEW t \in Tenants, CatchupSkips(p, t) PROVE Calm
  <2>1. Idles(p)
    BY <1>10, Disjoint DEF IInv, TypeOK, Work, CatchupSkips, Idles, Others, DropDue
  <2> QED BY <1>10, <2>1, RunsSame, RowsSame, WorkerMoves DEF CatchupSkips, db
<1>11. ASSUME NEW p \in Procs, CatchupDone(p) PROVE Calm
  <2>1. Idles(p)
    BY <1>11, Disjoint DEF IInv, TypeOK, Work, CatchupDone, Idles, Others, Goto
  <2> QED BY <1>11, <2>1, RunsSame, RowsSame, WorkerMoves DEF CatchupDone, db
<1>12. ASSUME NEW p \in Procs, Reap(p) PROVE Calm
  <2>1. Idles(p)
    BY <1>12, Disjoint DEF IInv, TypeOK, Work, Reap, Idles, Others, Goto
  <2>2. ASSUME NEW r \in RunIds, Reapable(r)
        PROVE  /\ runs[r] # None /\ runs'[r] # None
               /\ runs'[r].tenant = runs[r].tenant /\ runs'[r].kind = runs[r].kind
               /\ \/ Status(r) = "running" /\ Status(r)' = "failed"
                  \/ Status(r) = "applying" /\ Status(r)' = "completed"
    <3>1. runs[r] # None /\ Status(r) = runs[r].status /\ Status(r) \in {"running", "applying"}
      BY <2>2 DEF Reapable, Status, Exists
    <3>2. runs[r] \in Run
      BY <3>1 DEF IInv, TypeOK
    <3>3. ReapedStatus(runs[r].status) \in Statuses
      BY StatusNames DEF ReapedStatus
    <3>4. runs'[r] = [runs[r] EXCEPT !.status = ReapedStatus(runs[r].status), !.stale = FALSE]
      BY <1>12, <2>2 DEF Reap
    <3>5. /\ runs'[r] # None /\ runs'[r].status = ReapedStatus(runs[r].status)
          /\ runs'[r].tenant = runs[r].tenant /\ runs'[r].kind = runs[r].kind
      <4> DEFINE s == ReapedStatus(runs[r].status)
                 new == [runs[r] EXCEPT !.status = s, !.stale = FALSE]
      <4>1. s \in Statuses /\ runs'[r] = new
        BY <3>3, <3>4
      <4> HIDE DEF s
      <4>2. new # None /\ new.status = s /\ new.tenant = runs[r].tenant /\ new.kind = runs[r].kind
        BY <3>2, <4>1, RunSet
      <4> HIDE DEF new
      <4>3. runs'[r].status = s
        BY <4>1, <4>2
      <4> QED BY <4>1, <4>2, <4>3 DEF s
    <3> QED BY <3>1, <3>5 DEF ReapedStatus, Status, Exists
  <2>3. \A r \in RunIds : ~Reapable(r) => runs'[r] = runs[r]
    BY <1>12 DEF Reap
  <2>4. RunsMove
    BY <2>2, <2>3 DEF RunsMove, Status, Exists, PostPull
  <2> QED BY <1>12, <2>1, <2>4, RowsSame, WorkerMoves DEF Reap
<1>13. ASSUME NEW p \in Procs, NoPullQueued(p) PROVE Calm
  <2>1. Idles(p)
    BY <1>13, Disjoint DEF IInv, TypeOK, Work, NoPullQueued, Idles, Others, Goto
  <2> QED BY <1>13, <2>1, RunsSame, RowsSame, WorkerMoves DEF NoPullQueued, db
<1>14. ASSUME NEW p \in Procs, ClaimApply(p) PROVE Calm
  <2>1. PICK r \in RunIds :
          /\ Status(r) = "apply_queued"
          /\ runs' = SetStatus(r, "applying")
          /\ work' = [work EXCEPT ![p] = [IdleWork EXCEPT !.pc = "integration", !.run = r]]
    BY <1>14 DEF ClaimApply
  <2>2. runs[r] # None
    BY <2>1 DEF Status, Exists
  <2>3. RunsMove /\ Status(r)' = "applying"
    BY <2>1, <2>2, StatusMoves, StatusNames DEF PostPull
  <2>4. work'[p].pc = "integration" /\ work'[p].run = r /\ Others(p)
    BY <2>1 DEF IInv, TypeOK, IdleWork, Others
  <2>5. PullersStay /\ AppliersHold
    BY <2>3, <2>4 DEF PullersStay, AppliersHold, Pulling, Applying, Others, PULLING, PostPull
  <2>6. RemapsHold /\ NoNewCreation
    BY <1>14, RemapsSame DEF ClaimApply
  <2> QED BY <1>14, <2>3, <2>5, <2>6, RowsSame DEF Calm, ClaimApply
<1>15. ASSUME NEW p \in Procs, NoApplyQueued(p) PROVE Calm
  <2>1. Idles(p)
    BY <1>15, Disjoint DEF IInv, TypeOK, Work, NoApplyQueued, Idles, Others, IdleWork
  <2> QED BY <1>15, <2>1, RunsSame, RowsSame, WorkerMoves DEF NoApplyQueued, db
<1>16. ASSUME NEW p \in Procs, TickAborted(p) PROVE Calm
  <2>1. Idles(p)
    BY <1>16, Disjoint DEF IInv, TypeOK, Work, TickAborted, Idles, Others, IdleWork
  <2> QED BY <1>16, <2>1, RunsSame, RowsSame, WorkerMoves DEF TickAborted, db
<1>17. ASSUME NEW p \in Procs, LoadMappings(p) PROVE Calm
  <2>1. PICK pages \in SUBSET work[p].todo :
          work' = [work EXCEPT ![p].pc = IF pages = {} THEN "finish" ELSE "walk",
                               ![p].todo = pages, ![p].known = routed \cap work[p].todo]
    BY <1>17 DEF LoadMappings
  <2>2. Others(p) /\ work'[p].pc \in {"finish", "walk"} /\ work'[p].run = work[p].run
    BY <2>1 DEF IInv, TypeOK, Work, Others
  <2>3. Judged(work[p].run)'
    BY <1>17, <2>2 DEF LoadMappings, IInv, RowsOfPull, Judged, db
  <2>4. PullsOn(p)
    BY <1>17, <2>2, <2>3 DEF LoadMappings, PullsOn, Pulling, PULLING, APPLYING
  <2> QED BY <1>17, <2>4, RunsSame, RowsSame, WorkerMoves DEF LoadMappings, db
<1>18. ASSUME NEW p \in Procs, NEW l \in Leads, PageFails(p, l) PROVE Calm
  <2>1. PullsOn(p)
    BY <1>18 DEF IInv, TypeOK, Work, PageFails, PullsOn, Others, Pulling, PULLING, APPLYING
  <2> QED BY <1>18, <2>1, RunsSame, RowsSame, WorkerMoves DEF PageFails, db
<1>19. ASSUME NEW p \in Procs, PageHeartbeat(p) PROVE Calm
  <2>1. PullsOn(p)
    BY <1>19 DEF IInv, TypeOK, Work, PageHeartbeat, Goto, PullsOn, Others, Pulling, PULLING, APPLYING
  <2>2. runs' = runs \/ (runs[work[p].run] # None /\ runs' = [runs EXCEPT ![work[p].run].stale = FALSE])
    BY <1>19 DEF PageHeartbeat, Beat, Exists
  <2>3. work[p].run \in RunIds
    BY <2>1, Facts DEF PullsOn
  <2>4. RunsMove
    BY <2>2, <2>3, RunsSame, BeatMoves
  <2> QED BY <1>19, <2>1, <2>4, RowsSame, WorkerMoves DEF PageHeartbeat
<1>20. ASSUME NEW p \in Procs, Classify(p) PROVE Calm
  <2>1. work[p].run \in RunIds
    BY <1>20, Facts DEF Classify, Pulling, PULLING
  <2>2. RowsMove /\ Judged(work[p].run)'
    <3>1. RowsMove /\ \A l \in Leads : rows'[work[p].run][l] # None => rows'[work[p].run][l].verdict # None
      BY <1>20, <2>1, ClassifiedMoves DEF Classify, Judged
    <3>2. work'[p].run = work[p].run
      BY <1>20 DEF Classify, Goto, IInv, TypeOK, Work
    <3> QED BY <3>1, <3>2 DEF Judged
  <2>3. PullsOn(p)
    BY <1>20, <2>2 DEF IInv, TypeOK, Work, Classify, Goto, PullsOn, Others, Pulling, PULLING, APPLYING
  <2> QED BY <1>20, <2>2, <2>3, RunsSame, WorkerMoves DEF Classify
<1>21. ASSUME NEW p \in Procs, FinishRun(p) PROVE Calm
  <2> DEFINE r == work[p].run
  <2>1. r \in RunIds /\ Pulling(p)
    BY <1>21, Facts DEF FinishRun, Pulling, PULLING
  <2>2. \A q \in Procs : Pulling(q)' => work'[q].run # r
    BY <1>21, <2>1, Disjoint DEF IInv, TypeOK, FinishRun, IdleWork, OneWorkerPerPull, Pulling
  <2>3. Judged(r)
    BY <1>21 DEF IInv, RowsOfPull, FinishRun, Judged
  <2>4. ASSUME UNCHANGED runs PROVE RunsMove
    BY <2>4, RunsSame
  <2>5. ASSUME Status(r) = "running", runs' = SetStatus(r, "completed") PROVE RunsMove
    <3>1. runs[r] # None
      BY <2>5 DEF Status, Exists
    <3> HIDE DEF r
    <3> QED BY <2>1, <2>2, <2>3, <2>5, <3>1, StatusMoves, StatusNames
  <2>6. RunsMove
    BY <1>21, <2>4, <2>5 DEF FinishRun, Finished, SetStatusIf
  <2>7. Idles(p)
    BY <1>21, Disjoint DEF IInv, TypeOK, Work, FinishRun, Idles, Others, IdleWork
  <2> QED BY <1>21, <2>6, <2>7, RowsSame, WorkerMoves DEF FinishRun
<1>22. ASSUME NEW p \in Procs, PullThrows(p) PROVE Calm
  <2>1. PullsOn(p)
    BY <1>22 DEF IInv, TypeOK, Work, PullThrows, PullsOn, Others, Pulling, PULLING, APPLYING, Goto
  <2> QED BY <1>22, <2>1, RunsSame, RowsSame, WorkerMoves DEF PullThrows, db
<1>23. ASSUME NEW p \in Procs, FailRun(p) PROVE Calm
  <2> DEFINE r == work[p].run
  <2>1. r \in RunIds
    BY <1>23, Facts DEF FailRun, Pulling, PULLING, Applying, APPLYING
  <2>2. UNCHANGED runs \/ (Status(r) = "running" /\ runs' = SetStatus(r, "failed"))
    BY <1>23 DEF FailRun, SetStatusIf
  <2>3. Status(r) = "running" => runs[r] # None
    BY DEF Status, Exists
  <2> HIDE DEF r
  <2>4. RunsMove
    BY <2>1, <2>2, <2>3, RunsSame, StatusMoves, StatusNames DEF PostPull
  <2>5. Idles(p)
    BY <1>23, Disjoint DEF IInv, TypeOK, Work, FailRun, Idles, Others, IdleWork
  <2> QED BY <1>23, <2>4, <2>5, RowsSame, WorkerMoves DEF FailRun
<1>24. ASSUME NEW p \in Procs, ReadIntegration(p) PROVE Calm
  <2>1. AppliesOn(p)
    BY <1>24 DEF IInv, TypeOK, Work, ReadIntegration, AppliesOn, Others, Applying, PULLING, APPLYING, Goto
  <2> QED BY <1>24, <2>1, RunsSame, RowsSame, WorkerMoves DEF ReadIntegration, db
<1>25. ASSUME NEW p \in Procs, IntegrationThrows(p) PROVE Calm
  <2>1. Idles(p)
    BY <1>25, Disjoint DEF IInv, TypeOK, Work, IntegrationThrows, Idles, Others, IdleWork
  <2> QED BY <1>25, <2>1, RunsSame, RowsSame, WorkerMoves DEF IntegrationThrows, db
<1>26. ASSUME NEW p \in Procs, MarkNonImportable(p) PROVE Calm
  <2> DEFINE r == work[p].run
             hit(l) == l \in Pending(r) \ Importable(r)
             new(l) == [rows[r][l] EXCEPT !.applied = "skipped"]
  <2>1. r \in RunIds /\ Status(r) \in PostPull \cup {"deleted"}
    BY <1>26, Facts DEF MarkNonImportable, Applying, APPLYING, IInv, PostPullWork
  <2>2. \A s \in RunIds, l \in Leads :
          rows'[s][l] = IF s = r /\ hit(l) THEN new(l) ELSE rows[s][l]
    BY <1>26, <2>1 DEF MarkNonImportable, IInv, TypeOK
  <2>3. ASSUME NEW l \in Leads, hit(l)
        PROVE  /\ rows[r][l] # None /\ Status(r) \in PostPull /\ new(l) # None
               /\ new(l).verdict = rows[r][l].verdict /\ new(l).org = rows[r][l].org
    <3>1. rows[r][l] # None /\ rows[r][l] \in Row
      BY <2>1, <2>3 DEF Pending, IInv, TypeOK
    <3>2. Status(r) \in PostPull
      BY <2>1, <3>1, Facts DEF IInv, RowsHaveRun
    <3> QED BY <3>1, <3>2, RowSet
  <2>4. RowsMove
    <3> HIDE DEF new, hit
    <3> QED BY <2>1, <2>2, <2>3 DEF RowsMove, IInv, ImportableHasBranch, Importable
  <2>5. AppliesOn(p)
    BY <1>26 DEF IInv, TypeOK, Work, MarkNonImportable, AppliesOn, Others, Applying, PULLING, APPLYING, Goto
  <2> QED BY <1>26, <2>4, <2>5, RunsSame, WorkerMoves DEF MarkNonImportable
<1>27. ASSUME NEW p \in Procs, LoadImportableRows(p) PROVE Calm
  <2>1. AppliesOn(p)
    BY <1>27 DEF IInv, TypeOK, Work, LoadImportableRows, AppliesOn, Others, Applying, PULLING, APPLYING
  <2> QED BY <1>27, <2>1, RunsSame, RowsSame, WorkerMoves DEF LoadImportableRows, db
<1>28. ASSUME NEW p \in Procs, NEW l \in Leads, ApplyRow(p, l) PROVE Calm
  <2>1. work[p].run \in RunIds /\ Status(work[p].run) \in PostPull \cup {"deleted"}
    BY <1>28, Facts DEF ApplyRow, Applying, APPLYING, IInv, PostPullWork
  <2>2. rows' = Recorded(work[p].run, l, "skipped") \/ UNCHANGED rows
    BY <1>28 DEF ApplyRow
  <2>3. RowsMove
    BY <2>1, <2>2, RecordedMoves, RowsSame
  <2>4. AppliesOn(p)
    BY <1>28 DEF IInv, TypeOK, Work, ApplyRow, AppliesOn, Others, Applying, PULLING, APPLYING
  <2> QED BY <1>28, <2>3, <2>4, RunsSame, WorkerMoves DEF ApplyRow
<1>29. ASSUME NEW p \in Procs, RecordOutcome(p) PROVE Calm
  <2>1. work[p].run \in RunIds /\ Status(work[p].run) \in PostPull \cup {"deleted"}
    BY <1>29, Facts DEF RecordOutcome, Applying, APPLYING, IInv, PostPullWork
  <2>2. \E o \in {"applied", "failed"} : rows' = Recorded(work[p].run, work[p].lead, o)
    BY <1>29 DEF RecordOutcome
  <2>3. RowsMove
    BY <2>1, <2>2, RecordedMoves, RowsSame
  <2>4. AppliesOn(p)
    BY <1>29 DEF IInv, TypeOK, Work, RecordOutcome, AppliesOn, Others, Applying, PULLING, APPLYING
  <2> QED BY <1>29, <2>3, <2>4, RunsSame, WorkerMoves DEF RecordOutcome
<1>30. ASSUME NEW p \in Procs, RecordThrows(p) PROVE Calm
  <2>1. AppliesOn(p)
    BY <1>30 DEF IInv, TypeOK, Work, RecordThrows, AppliesOn, Others, Applying, PULLING, APPLYING, Goto
  <2> QED BY <1>30, <2>1, RunsSame, RowsSame, WorkerMoves DEF RecordThrows, db
<1>31. ASSUME NEW p \in Procs, ApplyHeartbeat(p) PROVE Calm
  <2>1. AppliesOn(p)
    BY <1>31 DEF IInv, TypeOK, Work, ApplyHeartbeat, Goto, AppliesOn, Others, Applying, PULLING, APPLYING
  <2>2. runs' = runs \/ (runs[work[p].run] # None /\ runs' = [runs EXCEPT ![work[p].run].stale = FALSE])
    BY <1>31 DEF ApplyHeartbeat, Beat, Exists
  <2>3. work[p].run \in RunIds
    BY <2>1, Facts DEF AppliesOn
  <2>4. RunsMove
    BY <2>2, <2>3, RunsSame, BeatMoves
  <2> QED BY <1>31, <2>1, <2>4, RowsSame, WorkerMoves DEF ApplyHeartbeat
<1>32. ASSUME NEW p \in Procs, FinishApply(p) PROVE Calm
  <2> DEFINE r == work[p].run
  <2>1. r \in RunIds
    BY <1>32, Facts DEF FinishApply, Pulling, PULLING, Applying, APPLYING
  <2>2. UNCHANGED runs \/ (Status(r) = "applying" /\ runs' = SetStatus(r, "applied"))
    BY <1>32 DEF FinishApply, SetStatusIf
  <2>3. Status(r) = "applying" => runs[r] # None
    BY DEF Status, Exists
  <2> HIDE DEF r
  <2>4. RunsMove
    BY <2>1, <2>2, <2>3, RunsSame, StatusMoves, StatusNames DEF PostPull
  <2>5. Idles(p)
    BY <1>32, Disjoint DEF IInv, TypeOK, Work, FinishApply, Idles, Others, IdleWork
  <2> QED BY <1>32, <2>4, <2>5, RowsSame, WorkerMoves DEF FinishApply
<1>33. ASSUME NEW p \in Procs, ApplyThrows(p) PROVE Calm
  <2>1. AppliesOn(p)
    BY <1>33 DEF IInv, TypeOK, Work, ApplyThrows, AppliesOn, Others, Applying, PULLING, APPLYING, Goto
  <2> QED BY <1>33, <2>1, RunsSame, RowsSame, WorkerMoves DEF ApplyThrows, db
<1>34. ASSUME NEW p \in Procs, ReturnToCompleted(p) PROVE Calm
  <2> DEFINE r == work[p].run
  <2>1. r \in RunIds
    BY <1>34, Facts DEF ReturnToCompleted, Pulling, PULLING, Applying, APPLYING
  <2>2. UNCHANGED runs \/ (Status(r) = "applying" /\ runs' = SetStatus(r, "completed"))
    BY <1>34 DEF ReturnToCompleted, SetStatusIf
  <2>3. Status(r) = "applying" => runs[r] # None
    BY DEF Status, Exists
  <2> HIDE DEF r
  <2>4. RunsMove
    BY <2>1, <2>2, <2>3, RunsSame, StatusMoves, StatusNames DEF PostPull
  <2>5. Idles(p)
    BY <1>34, Disjoint DEF IInv, TypeOK, Work, ReturnToCompleted, Idles, Others, IdleWork
  <2> QED BY <1>34, <2>4, <2>5, RowsSame, WorkerMoves DEF ReturnToCompleted
<1>35. ASSUME NEW q \in Requests, NEW r \in RunIds, RemapCheck(q, r) PROVE Calm
  <2>1. RemapsHold
    BY <1>35 DEF RemapCheck, RemapsHold, IInv, TypeOK, db, Status, Exists, PostPull
  <2>2. NoNewCreation
    BY <1>35 DEF RemapCheck, NoNewCreation
  <2> QED BY <1>35, <2>1, <2>2, RunsSame, RowsSame, OthersMove DEF RemapCheck, db
<1>36. ASSUME NEW q \in Requests, RemapUpdate(q) PROVE Calm
  <2> DEFINE r == remap[q].run
             hit(l) == /\ rows[r][l] # None /\ l \in routed
                       /\ ~rows[r][l].org /\ rows[r][l].applied \in {"pending", "skipped"}
             new(l) == [rows[r][l] EXCEPT !.org = TRUE, !.applied = "pending"]
  <2>1. r \in RunIds
    BY <1>36, Facts DEF RemapUpdate
  <2>2. \A s \in RunIds, l \in Leads :
          rows'[s][l] = IF s = r /\ hit(l) THEN new(l) ELSE rows[s][l]
    BY <1>36, <2>1 DEF RemapUpdate, IInv, TypeOK
  <2>3. ASSUME NEW l \in Leads, hit(l)
        PROVE  /\ rows[r][l] # None /\ new(l) # None /\ new(l).org
               /\ new(l).verdict = rows[r][l].verdict /\ new(l).applied = "pending"
    <3>1. rows[r][l] # None /\ rows[r][l] \in Row
      BY <2>1, <2>3 DEF IInv, TypeOK
    <3> QED BY <3>1, RowRemapped
  <2>4. RowsMove
    <3> HIDE DEF new, hit
    <3> QED BY <2>1, <2>2, <2>3 DEF RowsMove, IInv, ImportableHasBranch, Importable
  <2>5. RemapsHold
    BY <1>36 DEF RemapUpdate, RemapsHold, IInv, TypeOK, Remap
  <2>6. NoNewCreation
    BY <1>36 DEF RemapUpdate, NoNewCreation
  <2> QED BY <1>36, <2>4, <2>5, <2>6, RunsSame, OthersMove DEF RemapUpdate
<1>37. ASSUME NEW q \in Requests, RemapClassify(q) PROVE Calm
  <2>1. remap[q].run \in RunIds
    BY <1>37, Facts DEF RemapClassify
  <2>2. RowsMove
    BY <1>37, <2>1, ClassifiedMoves DEF RemapClassify
  <2>3. RemapsHold
    BY <1>37 DEF RemapClassify, RemapsHold, IInv, TypeOK
  <2>4. NoNewCreation
    BY <1>37 DEF RemapClassify, NoNewCreation
  <2> QED BY <1>37, <2>2, <2>3, <2>4, RunsSame, OthersMove DEF RemapClassify
<1>38. ASSUME NEW q \in Requests, RemapAborted(q) PROVE Calm
  <2>1. RemapsHold
    BY <1>38 DEF RemapAborted, RemapsHold, IInv, TypeOK
  <2>2. NoNewCreation
    BY <1>38 DEF RemapAborted, NoNewCreation
  <2> QED BY <1>38, <2>1, <2>2, RunsSame, RowsSame, OthersMove DEF RemapAborted, db
<1>39. CASE UNCHANGED vars
  BY <1>39, RunsSame, RowsSame, RemapsSame, OthersMove DEF vars
<1> QED
  BY <1>1, <1>2, <1>3, <1>4, <1>5, <1>6, <1>7, <1>8, <1>9, <1>10, <1>11, <1>12, <1>13, <1>14,
     <1>15, <1>16, <1>17, <1>18, <1>19, <1>20, <1>21, <1>22, <1>23, <1>24, <1>25, <1>26, <1>27,
     <1>28, <1>29, <1>30, <1>31, <1>32, <1>33, <1>34, <1>35, <1>36, <1>37, <1>38, <1>39
     DEF Next, Environment, RequestStep, CreateStep, CatchupStep, ClaimStep, ClaimApplyStep,
         PullStep, ApplyStep, Creators

-----------------------------------------------------------------------------
(* The four steps that are not calm.                                        *)

LEMMA RunTableFacts ==
  ASSUME IInv, NEW r \in RunIds, runs[r] # None
  PROVE  Status(r) = runs[r].status /\ r < nextId
  BY DEF IInv, IdsGrow, TypeOK, RunIds, Status, Exists

\* The check of createPullRun touches no table: it only enters the creation,
\* having seen that nobody else is in one and that the slot holds no live run.
LEMMA CreateCheckStep ==
  ASSUME IInv, TypeOK', NEW c \in Creators, NEW t \in Tenants, CreateCheck(c, t)
  PROVE  Rest'
<1>1. /\ UNCHANGED <<runs, rows, nextId, work, remap>>
      /\ creating' = [creating EXCEPT ![c] = t]
  BY DEF CreateCheck, db
<1>2. CreationsExclude'
  BY DEF IInv, TypeOK, CreationsExclude, CreateCheck, LockFree
<1>3. CheckedSlotFree'
  <2>1. ASSUME NEW d \in Creators, NEW r \in RunIds,
               creating'[d] # None, InSlot(r, creating[d], KindOf(d))'
        PROVE  runs'[r].status \notin PULL_LIVE
    <3>1. CASE d = c
      <4>1. InSlot(r, t, KindOf(c))
        BY <1>1, <2>1, <3>1 DEF IInv, TypeOK, InSlot, Exists
      <4>2. runs[r].status \notin LIVE_STATUSES
        BY <4>1 DEF CreateCheck, LiveIn
      <4> QED BY <1>1, <4>2 DEF LIVE_STATUSES
    <3>2. CASE d # c
      BY <1>1, <2>1, <3>2 DEF IInv, TypeOK, CheckedSlotFree, InSlot, Exists
    <3> QED BY <3>1, <3>2
  <2> QED BY <2>1 DEF CheckedSlotFree
<1>4. RowsHaveRun' /\ IdsGrow' /\ FailedRunUntouched' /\ CompletedRunIsClassified' /\ ImportableHasBranch'
  BY <1>1 DEF IInv, RowsHaveRun, IdsGrow, FailedRunUntouched, CompletedRunIsClassified,
              ImportableHasBranch, Importable, Pulling, Applying, Status, Exists
<1>5. PullHoldsRun' /\ PostPullWork' /\ RowsOfPull' /\ OneWorkerPerPull'
  BY <1>1 DEF IInv, PullHoldsRun, PostPullWork, RowsOfPull, OneWorkerPerPull,
              Pulling, Applying, Status, Exists
<1> QED BY <1>2, <1>3, <1>4, <1>5 DEF Rest

\* The delete and the insert: whatever the slot holds is not being pulled, and
\* the id of the new run is one that nothing refers to.
LEMMA CreateReplaceStep ==
  ASSUME IInv, TypeOK', NEW c \in Creators, CreateReplace(c)
  PROVE  Rest'
<1> DEFINE t == creating[c]
           old(r) == InSlot(r, t, KindOf(c))
           new == [tenant |-> t, kind |-> KindOf(c), status |-> "queued",
                   stale |-> FALSE, pressed |-> 0]
<1>1. nextId \in RunIds /\ runs[nextId] = None /\ t # None /\ t \in Tenants
  BY BoundsAssumption DEF CreateReplace, IInv, TypeOK, IdsGrow, RunIds
<1>2. ~old(nextId) /\ \A r \in RunIds : old(r) => runs[r] # None
  BY <1>1 DEF InSlot, Exists
<1>3. /\ runs'[nextId] = new
      /\ \A r \in RunIds \ {nextId} : runs'[r] = IF old(r) THEN None ELSE runs[r]
  BY <1>1 DEF CreateReplace
<1>4. new # None
  <2>1. KindOf(c) \in {"manual", "scheduled"} /\ 0 \in 0 .. MaxPresses
    BY BoundsAssumption DEF KindOf
  <2>2. new \in Run
    BY <1>1, <2>1, StatusNames DEF Run
  <2> QED BY <2>2, NoneAssumption
<1>5. new.tenant = t /\ new.kind = KindOf(c) /\ new.status = "queued"
  OBVIOUS
<1>6. \A r \in RunIds, l \in Leads : rows'[r][l] = IF old(r) THEN None ELSE rows[r][l]
  BY DEF CreateReplace
<1>7. \A p \in Procs : work'[p].pc = work[p].pc /\ work'[p].run = work[p].run
  BY DEF CreateReplace, DropDue, IInv, TypeOK, Work
<1>8. \A p \in Procs : (Pulling(p)' <=> Pulling(p)) /\ (Applying(p)' <=> Applying(p))
  BY <1>7 DEF Pulling, Applying
<1>9. UNCHANGED remap /\ nextId' = nextId + 1 /\ creating' = [creating EXCEPT ![c] = None]
  BY DEF CreateReplace, env
<1>10. \A r \in RunIds : old(r) => Status(r) \notin PULL_LIVE
  BY <1>1, <1>2, RunTableFacts DEF IInv, CheckedSlotFree
<1> HIDE DEF old, new
<1>11. \A r \in RunIds : Status(r)' =
         IF r = nextId THEN "queued" ELSE IF old(r) THEN "deleted" ELSE Status(r)
  BY <1>3, <1>4, <1>5 DEF Status, Exists
<1>12. \A r \in RunIds : r < nextId => r # nextId
  BY DEF IInv, TypeOK, RunIds
<1>13. /\ \A p \in Procs : Pulling(p) \/ Applying(p) =>
            work[p].run \in RunIds /\ work[p].run < nextId /\ work[p].run # nextId
       /\ \A q \in Requests : remap[q] # None =>
            remap[q].run \in RunIds /\ remap[q].run < nextId /\ remap[q].run # nextId
  BY <1>12, Facts DEF IInv, IdsGrow
<1>14. RowsHaveRun'
  <2>1. ASSUME NEW r \in RunIds, runs'[r] = None, NEW l \in Leads PROVE rows'[r][l] = None
    BY <2>1, <1>3, <1>4, <1>6 DEF IInv, RowsHaveRun
  <2> QED BY <2>1 DEF RowsHaveRun
<1>15. IdsGrow'
  <2>1. nextId \in Nat /\ \A r \in RunIds : r \in Nat
    BY DEF IInv, TypeOK, RunIds
  <2>2. \A r \in RunIds : r >= nextId' => runs'[r] = None
    BY <1>3, <1>9, <2>1 DEF IInv, IdsGrow
  <2>3. \A r \in RunIds : r < nextId => r < nextId'
    BY <1>9, <2>1
  <2>4. \A p \in Procs : Pulling(p)' \/ Applying(p)' => work'[p].run \in RunIds /\ work'[p].run < nextId'
    BY <1>7, <1>8, <1>13, <2>3
  <2>5. \A q \in Requests : remap'[q] # None => remap'[q].run < nextId'
    BY <1>9, <1>13, <2>3
  <2> QED BY <2>2, <2>4, <2>5 DEF IdsGrow
<1>16. CreationsExclude'
  BY <1>9 DEF IInv, TypeOK, CreationsExclude
<1>17. CheckedSlotFree'
  <2>1. ASSUME NEW d \in Creators, NEW r \in RunIds,
               creating'[d] # None, InSlot(r, creating[d], KindOf(d))'
        PROVE  runs'[r].status \notin PULL_LIVE
    <3>1. d # c /\ creating'[d] = creating[d]
      BY <1>9, <2>1 DEF IInv, TypeOK
    <3>2. creating[d] # t
      BY <1>1, <2>1, <3>1 DEF IInv, CreationsExclude
    <3>3. r # nextId
      BY <1>3, <1>5, <2>1, <3>1, <3>2 DEF InSlot
    <3>4. runs'[r] = runs[r] /\ runs[r] # None
      BY <1>3, <2>1, <3>3 DEF InSlot, Exists
    <3> QED BY <2>1, <3>1, <3>4 DEF IInv, CheckedSlotFree, InSlot, Exists
  <2> QED BY <2>1 DEF CheckedSlotFree
<1>18. PullHoldsRun'
  BY <1>7, <1>8, <1>11, <1>13 DEF IInv, PullHoldsRun
<1>19. PostPullWork'
  <2>1. \A p \in Procs : Applying(p)' => Status(work[p].run)' \in PostPull \cup {"deleted"}
    BY <1>7, <1>8, <1>11, <1>13 DEF IInv, PostPullWork
  <2>2. \A q \in Requests : remap'[q] # None => Status(remap[q].run)' \in PostPull \cup {"deleted"}
    BY <1>9, <1>11, <1>13 DEF IInv, PostPullWork
  <2> QED BY <2>1, <2>2 DEF PostPullWork
<1>20. RowsOfPull'
  <2>1. ASSUME NEW r \in RunIds, NEW l \in Leads, Status(r)' = "queued" PROVE rows'[r][l] = None
    <3>1. CASE r = nextId
      BY <1>1, <1>6, <3>1 DEF IInv, RowsHaveRun
    <3>2. CASE r # nextId
      BY <1>6, <1>11, <2>1, <3>2 DEF IInv, RowsOfPull
    <3> QED BY <3>1, <3>2
  <2>2. \A p \in Procs : work'[p].pc \in {"load", "finish"} => Pulling(p)
    BY <1>7 DEF Pulling, PULLING
  <2>3. ASSUME NEW p \in Procs, NEW l \in Leads
        PROVE  /\ work'[p].pc = "load" => rows'[work'[p].run][l] = None
               /\ work'[p].pc = "finish" /\ rows'[work'[p].run][l] # None
                    => rows'[work'[p].run][l].verdict # None
    BY <1>6, <1>7, <1>13, <2>2 DEF IInv, RowsOfPull
  <2> QED BY <2>1, <2>3 DEF RowsOfPull
<1>21. OneWorkerPerPull'
  BY <1>7, <1>8 DEF IInv, OneWorkerPerPull
<1>22. FailedRunUntouched'
  BY <1>1, <1>6, <1>11 DEF IInv, FailedRunUntouched, RowsHaveRun
<1>23. CompletedRunIsClassified'
  BY <1>6, <1>11 DEF IInv, CompletedRunIsClassified, PostPull
<1>24. ImportableHasBranch'
  BY <1>6 DEF IInv, ImportableHasBranch, Importable
<1> QED BY <1>14, <1>15, <1>16, <1>17, <1>18, <1>19, <1>20, <1>21, <1>22, <1>23, <1>24 DEF Rest

\* Claiming a queued pull: nobody works on a queued run, so the claimant is alone.
LEMMA ClaimPullStep ==
  ASSUME IInv, TypeOK', NEW p \in Procs, ClaimPull(p)
  PROVE  Rest'
<1>1. PICK r \in RunIds :
        /\ Status(r) = "queued"
        /\ runs' = SetStatus(r, "running")
        /\ work' = [work EXCEPT ![p] = [IdleWork EXCEPT !.pc = "load", !.run = r,
                                         !.todo = TenantLeads(runs[r].tenant)]]
  BY DEF ClaimPull
<1>2. runs[r] # None /\ runs[r].status = "queued"
  BY <1>1 DEF Status, Exists
<1>3. /\ runs'[r] # None /\ Status(r)' = "running"
      /\ runs'[r].tenant = runs[r].tenant /\ runs'[r].kind = runs[r].kind
      /\ \A o \in RunIds \ {r} : runs'[o] = runs[o] /\ Status(o)' = Status(o)
  BY <1>1, <1>2, StatusChange, StatusNames
<1>4. work'[p].pc = "load" /\ work'[p].run = r /\ Others(p)
  BY <1>1 DEF IInv, TypeOK, IdleWork, Others
<1>5. UNCHANGED <<rows, nextId, creating, remap>>
  BY DEF ClaimPull
<1>6. /\ \A q \in Procs : Pulling(q) \/ Applying(q) => work[q].run # r /\ work[q].run \in RunIds
      /\ \A q \in Requests : remap[q] # None => remap[q].run # r /\ remap[q].run \in RunIds
  BY <1>1, Facts DEF IInv, PullHoldsRun, PostPullWork, PostPull
<1>7. \A q \in Procs \ {p} : /\ work'[q] = work[q]
                             /\ Pulling(q)' <=> Pulling(q)
                             /\ Applying(q)' <=> Applying(q)
  BY <1>4 DEF Others, Pulling, Applying
<1>8. Pulling(p)' /\ ~Applying(p)'
  BY <1>4 DEF Pulling, Applying, PULLING, APPLYING
<1>9. RowsHaveRun'
  BY <1>2, <1>3, <1>5 DEF IInv, RowsHaveRun
<1>10. IdsGrow'
  <2>1. r < nextId
    BY <1>2, RunTableFacts
  <2> QED BY <2>1, <1>2, <1>3, <1>4, <1>5, <1>7, <1>8 DEF IInv, IdsGrow
<1>11. CreationsExclude'
  BY <1>5 DEF IInv, CreationsExclude
<1>12. CheckedSlotFree'
  <2>1. ASSUME NEW c \in Creators, creating[c] # None PROVE ~InSlot(r, creating[c], KindOf(c))
    BY <1>2, <2>1 DEF IInv, CheckedSlotFree, PULL_LIVE
  <2> QED BY <2>1, <1>2, <1>3, <1>5 DEF IInv, CheckedSlotFree, InSlot, Exists
<1>13. PullHoldsRun'
  BY <1>3, <1>4, <1>6, <1>7 DEF IInv, PullHoldsRun
<1>14. PostPullWork'
  BY <1>3, <1>5, <1>6, <1>7, <1>8 DEF IInv, PostPullWork
<1>15. RowsOfPull'
  <2>1. \A o \in RunIds, l \in Leads : Status(o)' = "queued" => rows'[o][l] = None
    BY <1>3, <1>5 DEF IInv, RowsOfPull
  <2>2. ASSUME NEW q \in Procs, NEW l \in Leads
        PROVE  /\ work'[q].pc = "load" => rows'[work'[q].run][l] = None
               /\ work'[q].pc = "finish" /\ rows'[work'[q].run][l] # None
                    => rows'[work'[q].run][l].verdict # None
    <3>1. CASE q = p
      BY <1>1, <1>4, <1>5, <3>1 DEF IInv, RowsOfPull
    <3>2. CASE q # p
      BY <1>5, <1>7, <3>2 DEF IInv, RowsOfPull
    <3> QED BY <3>1, <3>2
  <2> QED BY <2>1, <2>2 DEF RowsOfPull
<1>16. OneWorkerPerPull'
  BY <1>4, <1>6, <1>7 DEF IInv, OneWorkerPerPull
<1>17. FailedRunUntouched'
  BY <1>1, <1>3, <1>5 DEF IInv, FailedRunUntouched
<1>18. CompletedRunIsClassified'
  BY <1>3, <1>5 DEF IInv, CompletedRunIsClassified, PostPull
<1>19. ImportableHasBranch'
  BY <1>5 DEF IInv, ImportableHasBranch, Importable
<1> QED BY <1>9, <1>10, <1>11, <1>12, <1>13, <1>14, <1>15, <1>16, <1>17, <1>18, <1>19 DEF Rest

\* Staging a page: a run with a worker in its walk is running or was failed by
\* the reaper, so the new row needs neither a verdict nor an outcome yet, and no
\* other worker relies on the rows of the run.
LEMMA WalkPageStep ==
  ASSUME IInv, TypeOK', NEW p \in Procs, NEW l \in Leads, WalkPage(p, l)
  PROVE  Calm \/ Rest'
<1> DEFINE r == work[p].run
           new == [org |-> l \in work[p].known, verdict |-> None, applied |-> "pending"]
<1>1. PullsOn(p)
  BY DEF IInv, TypeOK, Work, WalkPage, PullsOn, Others, Pulling, PULLING, APPLYING
<1>2. UNCHANGED <<runs, nextId, creating, remap>>
  BY DEF WalkPage
<1>3. CASE UNCHANGED rows
  BY <1>1, <1>2, <1>3, RunsSame, RowsSame, WorkerMoves
<1>4. CASE rows' # rows
  <2>1. r \in RunIds /\ runs[r] # None /\ rows[r][l] = None /\ Pulling(p)
    BY <1>1, <1>4, Facts DEF WalkPage, Staged, Exists, PullsOn
  <2>2. Status(r) \in {"running", "failed"}
    BY <2>1, Facts DEF IInv, PullHoldsRun
  <2>3. \A s \in RunIds, k \in Leads :
          rows'[s][k] = IF s = r /\ k = l THEN new ELSE rows[s][k]
    BY <1>4, <2>1 DEF WalkPage, Staged, IInv, TypeOK
  <2>4. new.verdict = None /\ new.verdict # "importable" /\ new.applied = "pending"
    BY NoneAssumption DEF Verdicts
  <2>5. work'[p].pc = "beat" /\ work'[p].run = r /\ Others(p)
    BY <1>1 DEF WalkPage, PullsOn, IInv, TypeOK, Work
  <2> HIDE DEF new, r
  <2>6. \A q \in Procs : /\ work'[q].run = work[q].run
                         /\ Pulling(q)' <=> Pulling(q)
                         /\ Applying(q)' <=> Applying(q)
    BY <2>1, <2>5, Disjoint DEF Others, Pulling, Applying, PULLING, r
  <2>7. \A q \in Procs : work'[q].pc \in {"load", "finish"} =>
          q # p /\ work'[q] = work[q] /\ Pulling(q) /\ work[q].run # r
    BY <2>1, <2>5 DEF Others, Pulling, PULLING, IInv, OneWorkerPerPull, r
  <2>8. \A s \in RunIds : Status(s)' = Status(s)
    BY <1>2 DEF Status, Exists
  <2>9. RowsHaveRun'
    BY <1>2, <2>1, <2>3 DEF IInv, RowsHaveRun
  <2>10. IdsGrow'
    BY <1>2, <2>6 DEF IInv, IdsGrow
  <2>11. CreationsExclude' /\ CheckedSlotFree'
    BY <1>2 DEF IInv, CreationsExclude, CheckedSlotFree, InSlot, Exists
  <2>12. PullHoldsRun'
    BY <2>6, <2>8, Facts DEF IInv, PullHoldsRun
  <2>13. PostPullWork'
    BY <1>2, <2>6, <2>8, Facts DEF IInv, PostPullWork
  <2>14. RowsOfPull'
    <3>1. \A s \in RunIds, k \in Leads : Status(s)' = "queued" => rows'[s][k] = None
      BY <2>2, <2>3, <2>8 DEF IInv, RowsOfPull
    <3>2. \A q \in Procs, k \in Leads :
            /\ work'[q].pc = "load" => rows'[work'[q].run][k] = None
            /\ work'[q].pc = "finish" /\ rows'[work'[q].run][k] # None
                 => rows'[work'[q].run][k].verdict # None
      BY <2>3, <2>7, Facts DEF IInv, RowsOfPull
    <3> QED BY <3>1, <3>2 DEF RowsOfPull
  <2>15. OneWorkerPerPull'
    BY <2>6 DEF IInv, OneWorkerPerPull
  <2>16. FailedRunUntouched'
    BY <2>3, <2>4, <2>8 DEF IInv, FailedRunUntouched
  <2>17. CompletedRunIsClassified'
    BY <2>2, <2>3, <2>8 DEF IInv, CompletedRunIsClassified, PostPull
  <2>18. ImportableHasBranch'
    BY <2>3, <2>4 DEF IInv, ImportableHasBranch, Importable
  <2> QED BY <2>9, <2>10, <2>11, <2>12, <2>13, <2>14, <2>15, <2>16, <2>17, <2>18 DEF Rest
<1> QED BY <1>3, <1>4

-----------------------------------------------------------------------------
(* The invariant, and what it gives.                                        *)

LEMMA InitInv == Init => IInv
<1> SUFFICES ASSUME Init PROVE IInv
  OBVIOUS
<1>1. /\ \A r \in RunIds : runs[r] = None
      /\ \A r \in RunIds, l \in Leads : rows[r][l] = None
      /\ \A p \in Procs : ~Pulling(p) /\ ~Applying(p) /\ work[p].pc = "idle"
      /\ \A c \in Creators : creating[c] = None
      /\ \A q \in Requests : remap[q] = None
  BY DEF Init, IdleWork, Pulling, Applying, PULLING, APPLYING
<1>2. TypeOK
  BY InitType
<1>3. RowsHaveRun /\ IdsGrow /\ CreationsExclude /\ CheckedSlotFree
  BY <1>1 DEF RowsHaveRun, IdsGrow, CreationsExclude, CheckedSlotFree
<1>4. PullHoldsRun /\ PostPullWork /\ RowsOfPull /\ OneWorkerPerPull
  BY <1>1 DEF PullHoldsRun, PostPullWork, RowsOfPull, OneWorkerPerPull, Status, Exists
<1>5. FailedRunUntouched /\ CompletedRunIsClassified /\ ImportableHasBranch
  BY <1>1 DEF FailedRunUntouched, CompletedRunIsClassified, ImportableHasBranch, Importable
<1> QED BY <1>2, <1>3, <1>4, <1>5 DEF IInv

LEMMA InvStep == IInv /\ [Next]_vars => IInv'
<1> SUFFICES ASSUME IInv, [Next]_vars PROVE IInv'
  OBVIOUS
<1>1. TypeOK'
  BY TypeStep DEF IInv
<1>2. Rest'
  BY <1>1, CalmActions, CalmStep, CreateCheckStep, CreateReplaceStep, ClaimPullStep, WalkPageStep
<1> QED BY <1>1, <1>2 DEF IInv, Rest

\* IInv holds of every reachable state, for any number of processes, requests,
\* tenants, leads and runs.
THEOREM Invariance == Spec => []IInv
  BY InitInv, InvStep, PTL DEF Spec

\* The reaper and the claim never give one pull to two workers.
THEOREM PullHasOneWorker == Spec => []OneWorkerPerPull
<1>1. IInv => OneWorkerPerPull
  BY DEF IInv
<1> QED BY <1>1, Invariance, PTL

\* No row of a run that is queued, being pulled or failed has an outcome: the
\* reaper's "nothing was written to the LMS" is true.
THEOREM FailedRunIsUntouched == Spec => []FailedRunUntouched
<1>1. IInv => FailedRunUntouched
  BY DEF IInv
<1> QED BY <1>1, Invariance, PTL

\* Every row of a run whose pull has completed has a verdict.
THEOREM CompletedIsClassified == Spec => []CompletedRunIsClassified
<1>1. IInv => CompletedRunIsClassified
  BY DEF IInv
<1> QED BY <1>1, Invariance, PTL

\* Every row offered for import has a branch to land in.
THEOREM ImportableIsMapped == Spec => []ImportableHasBranch
<1>1. IInv => ImportableHasBranch
  BY DEF IInv
<1> QED BY <1>1, Invariance, PTL

\* The check and the delete of createPullRun, between which anything may run,
\* never delete a pull that is queued or running.
THEOREM PullIsNeverDisplaced == Spec => PullNeverDisplaced
<1>1. ASSUME IInv, [Next]_vars
      PROVE  [\A r \in RunIds : Status(r) \in PULL_LIVE => runs'[r] # None]_vars
  <2>1. ASSUME NEW r \in RunIds, Status(r) \in PULL_LIVE PROVE runs'[r] # None
    <3>1. runs[r] # None
      BY <2>1 DEF Status, Exists, PULL_LIVE
    <3>2. ASSUME Calm PROVE runs'[r] # None
      BY <3>1, <3>2 DEF Calm, RunsMove
    <3>3. ASSUME NEW c \in Creators, CreateReplace(c) PROVE runs'[r] # None
      <4>1. creating[c] # None /\ ~InSlot(r, creating[c], KindOf(c))
        BY <1>1, <2>1, <3>1, <3>3, RunTableFacts DEF IInv, CheckedSlotFree, CreateReplace
      <4>2. r # nextId
        BY <1>1, <3>1, RunTableFacts DEF IInv, TypeOK, RunIds
      <4> QED BY <3>1, <3>3, <4>1, <4>2 DEF CreateReplace
    <3>4. ASSUME NEW c \in Creators, NEW t \in Tenants, CreateCheck(c, t) PROVE runs'[r] # None
      BY <3>1, <3>4 DEF CreateCheck, db
    <3>5. ASSUME NEW p \in Procs, ClaimPull(p) PROVE runs'[r] # None
      <4>1. PICK s \in RunIds : Status(s) = "queued" /\ runs' = SetStatus(s, "running")
        BY <3>5 DEF ClaimPull
      <4>2. runs[s] # None
        BY <4>1 DEF Status, Exists
      <4> QED BY <1>1, <3>1, <4>1, <4>2, StatusChange, StatusNames
    <3>6. ASSUME NEW p \in Procs, NEW l \in Leads, WalkPage(p, l) PROVE runs'[r] # None
      BY <3>1, <3>6 DEF WalkPage
    <3>7. TypeOK'
      BY <1>1, TypeStep DEF IInv
    <3> QED BY <1>1, <3>2, <3>3, <3>4, <3>5, <3>6, <3>7, CalmActions
  <2> QED BY <2>1
<1> QED BY <1>1, Invariance, PTL DEF Spec, PullNeverDisplaced

\* A run the reaper or failRun has failed stays failed until a later pull
\* deletes it: no worker that was only slow completes it.
THEOREM FailedStaysFailed == Spec => ReapedStaysFailed
<1>1. ASSUME IInv, [Next]_vars
      PROVE  [\A r \in RunIds : Status(r) = "failed" => runs'[r] = None \/ runs'[r].status = "failed"]_vars
  <2>1. ASSUME NEW r \in RunIds, Status(r) = "failed"
        PROVE  runs'[r] = None \/ runs'[r].status = "failed"
    <3>1. runs[r] # None
      BY <2>1 DEF Status, Exists
    <3>2. ASSUME Calm PROVE Status(r)' = "failed"
      BY <2>1, <3>1, <3>2 DEF Calm, RunsMove, PostPull
    <3>3. ASSUME NEW c \in Creators, CreateReplace(c) PROVE runs'[r] = None \/ runs'[r] = runs[r]
      <4>1. r # nextId
        BY <1>1, <3>1, RunTableFacts DEF IInv, TypeOK, RunIds
      <4> QED BY <3>3, <4>1 DEF CreateReplace
    <3>4. ASSUME NEW c \in Creators, NEW t \in Tenants, CreateCheck(c, t) PROVE runs'[r] = runs[r]
      BY <3>4 DEF CreateCheck, db
    <3>5. ASSUME NEW p \in Procs, ClaimPull(p) PROVE runs'[r] = runs[r]
      <4>1. PICK s \in RunIds : Status(s) = "queued" /\ runs' = SetStatus(s, "running")
        BY <3>5 DEF ClaimPull
      <4>2. runs[s] # None /\ s # r
        BY <2>1, <4>1 DEF Status, Exists
      <4> QED BY <1>1, <4>1, <4>2, StatusChange, StatusNames
    <3>6. ASSUME NEW p \in Procs, NEW l \in Leads, WalkPage(p, l) PROVE runs'[r] = runs[r]
      BY <3>6 DEF WalkPage
    <3>7. TypeOK'
      BY <1>1, TypeStep DEF IInv
    <3>8. Status(r)' = "failed" \/ runs'[r] = None \/ runs'[r] = runs[r]
      BY <1>1, <3>2, <3>3, <3>4, <3>5, <3>6, <3>7, CalmActions
    <3> QED BY <2>1, <3>1, <3>8 DEF Status, Exists
  <2> QED BY <2>1
<1> QED BY <1>1, Invariance, PTL DEF Spec, ReapedStaysFailed

\* The scheduled catch-up never takes away what an administrator pulled: only
\* the replacement deletes a run, one of its own kind.
THEOREM CatchupKeepsToItself == Spec => CatchupSparesManual
<1>1. ASSUME IInv, [Next]_vars
      PROVE  [\A r \in RunIds : Exists(r) /\ runs[r].kind = "manual" /\ runs'[r] = None =>
                \E n \in RunIds : ~Exists(n) /\ runs'[n] # None /\ runs'[n].kind = "manual"]_vars
  <2>1. ASSUME NEW r \in RunIds, Exists(r), runs[r].kind = "manual", runs'[r] = None
        PROVE  \E n \in RunIds : ~Exists(n) /\ runs'[n] # None /\ runs'[n].kind = "manual"
    <3>1. ~Calm
      BY <2>1 DEF Calm, RunsMove, Exists
    <3>2. ASSUME NEW c \in Creators, NEW t \in Tenants, CreateCheck(c, t) PROVE FALSE
      BY <2>1, <3>2 DEF CreateCheck, db, Exists
    <3>3. ASSUME NEW p \in Procs, ClaimPull(p) PROVE FALSE
      <4>1. PICK s \in RunIds : Status(s) = "queued" /\ runs' = SetStatus(s, "running")
        BY <3>3 DEF ClaimPull
      <4>2. runs[s] # None
        BY <4>1 DEF Status, Exists
      <4> QED BY <1>1, <2>1, <4>1, <4>2, StatusChange, StatusNames DEF Exists
    <3>4. ASSUME NEW p \in Procs, NEW l \in Leads, WalkPage(p, l) PROVE FALSE
      BY <2>1, <3>4 DEF WalkPage, Exists
    <3>5. PICK c \in Creators : CreateReplace(c)
      <4>1. TypeOK'
        BY <1>1, TypeStep DEF IInv
      <4> QED BY <1>1, <3>1, <3>2, <3>3, <3>4, <4>1, CalmActions
    <3> DEFINE new == [tenant |-> creating[c], kind |-> KindOf(c), status |-> "queued",
                       stale |-> FALSE, pressed |-> 0]
    <3>6. nextId \in RunIds /\ ~Exists(nextId)
      BY <1>1, <3>5, BoundsAssumption DEF IInv, TypeOK, RunIds, IdsGrow, CreateReplace, Exists
    <3>7. runs' = [s \in RunIds |-> IF s = nextId THEN new
                                    ELSE IF InSlot(s, creating[c], KindOf(c)) THEN None ELSE runs[s]]
      BY <3>5 DEF CreateReplace
    <3>8. KindOf(c) = "manual"
      <4>1. r # nextId
        BY <2>1, <3>6
      <4>2. InSlot(r, creating[c], KindOf(c))
        BY <2>1, <3>7, <4>1 DEF Exists
      <4> QED BY <2>1, <4>2 DEF InSlot
    <3>9. runs'[nextId] = new /\ new.kind = "manual"
      BY <3>6, <3>7, <3>8
    <3>10. new # None
      <4>1. creating[c] \in Tenants /\ 0 \in 0 .. MaxPresses
        BY <1>1, <3>5, BoundsAssumption DEF CreateReplace, IInv, TypeOK
      <4>2. new \in Run
        BY <3>8, <4>1, StatusNames DEF Run
      <4> QED BY <4>2, NoneAssumption
    <3> QED BY <3>6, <3>9, <3>10
  <2> QED BY <2>1
<1> QED BY <1>1, Invariance, PTL DEF Spec, CatchupSparesManual

-----------------------------------------------------------------------------
(* The outcome of a row.  The guard of an apply on the rows it loads is exact *)
(* as long as a run has one applier, which is what lead-apply.service.ts      *)
(* relies on: what it has in hand, nobody else records meanwhile.             *)

AppliedRow(r, l) == rows[r][l] # None /\ rows[r][l].applied = "applied"

Recording(p) == work[p].pc \in {"recordApplied", "recordFailed"}

\* The rows of its run whose outcome worker p has yet to record.
InHand(p, l) ==
  \/ work[p].pc \in {"apply", "applyBeat", "recordApplied", "recordFailed"} /\ l \in work[p].todo
  \/ Recording(p) /\ l = work[p].lead

\* None of them is recorded as applied, and the row being recorded is not among
\* those still to come.
InHandOpen ==
  \A p \in Procs :
    /\ Recording(p) => work[p].lead \notin work[p].todo
    /\ \A l \in Leads : InHand(p, l) => ~AppliedRow(work[p].run, l)

\* A row becomes applied, or stops being it, in the hands of an applier only.
OutcomesKept ==
  \A r \in RunIds, l \in Leads :
    /\ AppliedRow(r, l)' => AppliedRow(r, l)
    /\ AppliedRow(r, l) => AppliedRow(r, l)' \/ rows'[r][l] = None

LEMMA SameRowsKept == ASSUME UNCHANGED rows PROVE OutcomesKept
  BY DEF OutcomesKept, AppliedRow

LEMMA ClassifiedKept ==
  ASSUME IInv, NEW r \in RunIds, rows' = Classified(r)
  PROVE  OutcomesKept
<1> DEFINE verdict(l) == VerdictOf(l, rows[r][l].org)
           new(l) == [rows[r][l] EXCEPT !.verdict = verdict(l)]
<1>1. \A s \in RunIds, l \in Leads :
        rows'[s][l] = IF s = r /\ rows[r][l] # None THEN new(l) ELSE rows[s][l]
  BY DEF Classified, IInv, TypeOK
<1>2. ASSUME NEW l \in Leads, rows[r][l] # None
      PROVE  new(l) # None /\ new(l).applied = rows[r][l].applied
  <2>1. rows[r][l] \in Row
    BY <1>2 DEF IInv, TypeOK
  <2>2. rows[r][l].org \in BOOLEAN
    BY <2>1 DEF Row
  <2>3. verdict(l) \in Verdicts
    BY <2>2, VerdictLadder
  <2> HIDE DEF verdict
  <2> QED BY <2>1, <2>3, RowJudged
<1> HIDE DEF new
<1> QED BY <1>1, <1>2 DEF OutcomesKept, AppliedRow

LEMMA OutcomeWriters ==
  ASSUME IInv, [Next]_vars
  PROVE  OutcomesKept \/ \E p \in Procs : RecordOutcome(p) \/ \E l \in Leads : ApplyRow(p, l)
<1>1. ASSUME NEW c \in Creators, CreateReplace(c) PROVE OutcomesKept
  <2>1. \A r \in RunIds, l \in Leads : rows'[r][l] = None \/ rows'[r][l] = rows[r][l]
    BY <1>1 DEF CreateReplace
  <2> QED BY <2>1 DEF OutcomesKept, AppliedRow
<1>2. ASSUME NEW p \in Procs, NEW k \in Leads, WalkPage(p, k) PROVE OutcomesKept
  <2> DEFINE w == work[p]
             new == [org |-> k \in w.known, verdict |-> None, applied |-> "pending"]
  <2>1. CASE UNCHANGED rows
    BY <2>1, SameRowsKept
  <2>2. CASE rows[w.run][k] = None /\ rows' = [rows EXCEPT ![w.run][k] = new]
    <3>1. \A r \in RunIds, l \in Leads :
            rows'[r][l] = IF r = w.run /\ l = k THEN new ELSE rows[r][l]
      BY <2>2 DEF IInv, TypeOK
    <3> QED BY <2>2, <3>1 DEF OutcomesKept, AppliedRow
  <2> QED BY <1>2, <2>1, <2>2 DEF WalkPage, Staged
<1>3. ASSUME NEW p \in Procs, Classify(p) PROVE OutcomesKept
  <2>1. work[p].run \in RunIds
    BY <1>3, Facts DEF Classify, Pulling, PULLING
  <2> QED BY <1>3, <2>1, ClassifiedKept DEF Classify
<1>4. ASSUME NEW q \in Requests, RemapClassify(q) PROVE OutcomesKept
  <2>1. remap[q].run \in RunIds
    BY <1>4, Facts DEF RemapClassify
  <2> QED BY <1>4, <2>1, ClassifiedKept DEF RemapClassify
<1>5. ASSUME NEW p \in Procs, MarkNonImportable(p) PROVE OutcomesKept
  <2> DEFINE r == work[p].run
             hit(l) == l \in Pending(r) \ Importable(r)
             new(l) == [rows[r][l] EXCEPT !.applied = "skipped"]
  <2>1. r \in RunIds
    BY <1>5, Facts DEF MarkNonImportable, Applying, APPLYING
  <2>2. \A s \in RunIds, l \in Leads : rows'[s][l] = IF s = r /\ hit(l) THEN new(l) ELSE rows[s][l]
    BY <1>5, <2>1 DEF MarkNonImportable, IInv, TypeOK
  <2>3. ASSUME NEW l \in Leads, hit(l)
        PROVE  rows[r][l].applied = "pending" /\ new(l) # None /\ new(l).applied = "skipped"
    <3>1. rows[r][l] \in Row /\ rows[r][l].applied = "pending"
      BY <2>1, <2>3 DEF Pending, IInv, TypeOK
    <3> QED BY <3>1, RowSet
  <2> HIDE DEF hit, new, r
  <2> QED BY <2>2, <2>3 DEF OutcomesKept, AppliedRow
<1>6. ASSUME NEW q \in Requests, RemapUpdate(q) PROVE OutcomesKept
  <2> DEFINE r == remap[q].run
             hit(l) == /\ rows[r][l] # None /\ l \in routed
                       /\ ~rows[r][l].org /\ rows[r][l].applied \in {"pending", "skipped"}
             new(l) == [rows[r][l] EXCEPT !.org = TRUE, !.applied = "pending"]
  <2>1. r \in RunIds
    BY <1>6, Facts DEF RemapUpdate
  <2>2. \A s \in RunIds, l \in Leads : rows'[s][l] = IF s = r /\ hit(l) THEN new(l) ELSE rows[s][l]
    BY <1>6, <2>1 DEF RemapUpdate, IInv, TypeOK
  <2>3. ASSUME NEW l \in Leads, hit(l)
        PROVE  /\ rows[r][l].applied \in {"pending", "skipped"}
               /\ new(l) # None /\ new(l).applied = "pending"
    <3>1. rows[r][l] \in Row
      BY <2>1, <2>3 DEF IInv, TypeOK
    <3> QED BY <2>3, <3>1, RowRemapped
  <2> HIDE DEF hit, new, r
  <2> QED BY <2>2, <2>3 DEF OutcomesKept, AppliedRow
<1>7. ASSUME UNCHANGED rows PROVE OutcomesKept
  BY <1>7, SameRowsKept
<1>8. ASSUME Environment PROVE UNCHANGED rows
  BY <1>8 DEF Environment, LandOutsideRun, MapForm, UnmapForm, Age, QueueApply, Crash, Restart, db
<1>9. ASSUME NEW q \in Requests, RequestStep(q) PROVE OutcomesKept
  BY <1>4, <1>6, <1>7, <1>9 DEF RequestStep, CreateCheck, RemapCheck, RemapAborted, db
<1>10. ASSUME NEW c \in Creators, CreateStep(c) PROVE OutcomesKept
  BY <1>1, <1>7, <1>10 DEF CreateStep, CreateAbort, db
<1>11. ASSUME NEW p \in Procs,
              StartTick(p) \/ CatchupStep(p) \/ Reap(p) \/ ClaimStep(p) \/ ClaimApplyStep(p) \/ TickAborted(p)
       PROVE  UNCHANGED rows
  BY <1>11 DEF StartTick, CatchupStep, CatchupDone, CreateCheck, CatchupSkips, Reap, ClaimStep,
       ClaimPull, NoPullQueued, ClaimApplyStep, ClaimApply, NoApplyQueued, TickAborted, db
<1>12. ASSUME NEW p \in Procs, PullStep(p) PROVE OutcomesKept
  BY <1>2, <1>3, <1>7, <1>12
     DEF PullStep, LoadMappings, PageHeartbeat, FinishRun, PullThrows, FailRun, PageFails, db
<1>13. ASSUME NEW p \in Procs, ApplyStep(p)
       PROVE  OutcomesKept \/ RecordOutcome(p) \/ \E l \in Leads : ApplyRow(p, l)
  BY <1>5, <1>7, <1>13
     DEF ApplyStep, ReadIntegration, IntegrationThrows, LoadImportableRows, RecordThrows,
         ApplyHeartbeat, FinishApply, ApplyThrows, ReturnToCompleted, db
<1>14. CASE UNCHANGED vars
  BY <1>7, <1>14 DEF vars
<1> QED
  BY <1>7, <1>8, <1>9, <1>10, <1>11, <1>12, <1>13, <1>14 DEF Next

\* What the two of them do to the row they are about.
LEMMA RecordedRow ==
  ASSUME IInv, NEW r \in RunIds, NEW k, NEW o \in {"applied", "skipped", "failed"}, rows' = Recorded(r, k, o)
  PROVE  /\ \A s \in RunIds, l \in Leads : s # r \/ l # k => rows'[s][l] = rows[s][l]
         /\ o # "applied" /\ k \in Leads => ~AppliedRow(r, k)'
<1>1. CASE rows[r][k] = None
  BY <1>1 DEF Recorded, AppliedRow
<1>2. CASE rows[r][k] # None /\ k \notin Leads
  <2>1. \A s \in RunIds, l \in Leads : rows'[s][l] = rows[s][l]
    BY <1>2 DEF Recorded, IInv, TypeOK
  <2> QED BY <1>2, <2>1
<1>3. CASE rows[r][k] # None /\ k \in Leads
  <2> DEFINE new == [rows[r][k] EXCEPT !.applied = o]
  <2>1. new.applied = o
    <3>1. rows[r][k] \in Row
      BY <1>3 DEF IInv, TypeOK
    <3> QED BY <3>1, RowSet
  <2>2. \A s \in RunIds, l \in Leads : rows'[s][l] = IF s = r /\ l = k THEN new ELSE rows[s][l]
    BY <1>3 DEF Recorded, IInv, TypeOK
  <2> HIDE DEF new
  <2> QED BY <1>3, <2>1, <2>2 DEF AppliedRow
<1> QED BY <1>1, <1>2, <1>3

\* The steps at which a worker has rows in hand.
HANDLING == {"apply", "applyBeat", "recordApplied", "recordFailed"}

\* Worker p has nothing in hand that it had not before, on the run it had.
HandsOn(p) ==
  /\ Recording(p)' => work'[p].lead \notin work'[p].todo
  /\ \A l \in Leads : InHand(p, l)' => InHand(p, l) /\ work'[p].run = work[p].run

LEMMA HandKept ==
  ASSUME InHandOpen, NEW p \in Procs,
         work'[p].pc = work[p].pc, work'[p].run = work[p].run,
         work'[p].todo = work[p].todo, work'[p].lead = work[p].lead
  PROVE  HandsOn(p)
  BY DEF InHandOpen, HandsOn, InHand, Recording

LEMMA HandEmpty ==
  ASSUME NEW p \in Procs, work'[p].pc \notin HANDLING
  PROVE  HandsOn(p)
  BY DEF HANDLING, HandsOn, InHand, Recording

\* Only loading the rows takes new ones in hand.
LEMMA HandStep ==
  ASSUME IInv, InHandOpen, [Next]_vars, NEW p \in Procs
  PROVE  LoadImportableRows(p) \/ HandsOn(p)
<1>0. work \in [Procs -> Work]
  BY DEF IInv, TypeOK
<1> DEFINE Elsewhere(q) == \A o \in Procs \ {q} : work'[o] = work[o]
           Empty(q) == Elsewhere(q) /\ work'[q].pc \notin HANDLING
<1>1. ASSUME UNCHANGED work PROVE HandsOn(p)
  BY <1>1, HandKept
<1>2. ASSUME NEW q \in Procs, Empty(q) PROVE HandsOn(p)
  <2>1. CASE p = q
    BY <1>2, <2>1, HandEmpty
  <2>2. CASE p # q
    BY <1>2, <2>2, HandKept
  <2> QED BY <2>1, <2>2
<1>3. ASSUME NEW c \in Creators, NEW t, work' = DropDue(c, t) PROVE HandsOn(p)
  <2>1. /\ work'[p].pc = work[p].pc /\ work'[p].run = work[p].run
        /\ work'[p].todo = work[p].todo /\ work'[p].lead = work[p].lead
    BY <1>3 DEF DropDue, IInv, TypeOK, Work
  <2> QED BY <2>1, HandKept
<1>4. CASE Environment
  <2>1. ASSUME NEW q \in Procs, Crash(q) \/ Restart(q) PROVE Empty(q)
    BY <2>1 DEF Crash, Restart, Goto, IdleWork, HANDLING, IInv, TypeOK, Work
  <2>2. UNCHANGED work \/ \E q \in Procs : Crash(q) \/ Restart(q)
    BY <1>4 DEF Environment, LandOutsideRun, MapForm, UnmapForm, Age, QueueApply
  <2> HIDE DEF Empty
  <2> QED BY <1>1, <1>2, <2>1, <2>2
<1>5. ASSUME NEW q \in Requests, RequestStep(q) PROVE HandsOn(p)
  BY <1>1, <1>5 DEF RequestStep, CreateCheck, RemapCheck, RemapUpdate, RemapClassify, RemapAborted
<1>6. ASSUME NEW c \in Creators, CreateStep(c) PROVE HandsOn(p)
  BY <1>3, <1>6 DEF CreateStep, CreateReplace, CreateAbort
<1>7. ASSUME NEW q \in Procs,
             StartTick(q) \/ CatchupStep(q) \/ Reap(q) \/ ClaimStep(q) \/ ClaimApplyStep(q) \/ TickAborted(q)
      PROVE  HandsOn(p)
  <2>1. ASSUME NEW t \in Tenants, CreateCheck(q, t) \/ CatchupSkips(q, t) PROVE HandsOn(p)
    BY <1>1, <1>3, <2>1 DEF CreateCheck, CatchupSkips, Creators
  <2>2. ASSUME StartTick(q) \/ CatchupDone(q) \/ Reap(q) \/ NoPullQueued(q) PROVE Empty(q)
    <3>1. Elsewhere(q)
      BY <1>0, <2>2 DEF StartTick, CatchupDone, Reap, NoPullQueued, Goto
    <3>2. work'[q].pc \in {"catchup", "reap", "claim", "claimApply"}
      <4>1. work'[q].pc = "catchup" \/ \E pc \in {"reap", "claim", "claimApply"} : work' = Goto(q, pc)
        BY <1>0, <2>2 DEF StartTick, CatchupDone, Reap, NoPullQueued, Work
      <4> QED BY <1>0, <4>1 DEF Goto, Work
    <3> QED BY <3>1, <3>2 DEF HANDLING
  <2>3. ASSUME NoApplyQueued(q) \/ TickAborted(q) \/ ClaimPull(q) \/ ClaimApply(q) PROVE Empty(q)
    <3>1. Elsewhere(q)
      BY <1>0, <2>3 DEF NoApplyQueued, TickAborted, ClaimPull, ClaimApply
    <3>2. work'[q].pc \in {"idle", "load", "integration"}
      <4>1. CASE work' = [work EXCEPT ![q] = IdleWork]
        BY <1>0, <4>1 DEF IdleWork
      <4>2. ASSUME NEW run, NEW todo,
                   work' = [work EXCEPT ![q] = [IdleWork EXCEPT !.pc = "load", !.run = run, !.todo = todo]]
            PROVE  work'[q].pc = "load"
        BY <1>0, <4>2 DEF IdleWork
      <4>3. ASSUME NEW run, work' = [work EXCEPT ![q] = [IdleWork EXCEPT !.pc = "integration", !.run = run]]
            PROVE  work'[q].pc = "integration"
        BY <1>0, <4>3 DEF IdleWork
      <4> QED BY <2>3, <4>1, <4>2, <4>3 DEF NoApplyQueued, TickAborted, ClaimPull, ClaimApply
    <3> QED BY <3>1, <3>2 DEF HANDLING
  <2> HIDE DEF Empty
  <2> QED BY <1>2, <1>7, <2>1, <2>2, <2>3 DEF CatchupStep, ClaimStep, ClaimApplyStep
<1>8. ASSUME NEW q \in Procs, PullStep(q) PROVE HandsOn(p)
  <2>1. ASSUME FinishRun(q) \/ FailRun(q) PROVE Empty(q)
    <3>1. Elsewhere(q)
      BY <1>0, <2>1 DEF FinishRun, FailRun
    <3>2. work'[q].pc = "idle"
      BY <2>1 DEF FinishRun, FailRun, IdleWork, IInv, TypeOK, Work
    <3> QED BY <3>1, <3>2 DEF HANDLING
  <2>2. ASSUME LoadMappings(q) \/ PageHeartbeat(q) \/ Classify(q) \/ PullThrows(q) PROVE Empty(q)
    <3>1. Elsewhere(q)
      BY <1>0, <2>2 DEF LoadMappings, PageHeartbeat, Classify, PullThrows, Goto
    <3>2. work'[q].pc \in {"finish", "walk", "failing"}
      <4>1. ASSUME LoadMappings(q) PROVE work'[q].pc \in {"finish", "walk"}
        <5>1. work[q] \in Work
          BY <1>0
        <5>2. PICK pages, known : work' = [work EXCEPT ![q].pc = IF pages = {} THEN "finish" ELSE "walk",
                                                      ![q].todo = pages, ![q].known = known]
          BY <4>1 DEF LoadMappings
        <5> QED BY <1>0, <5>1, <5>2 DEF Work
      <4>2. ASSUME NEW pc \in {"finish", "walk", "failing"}, work' = Goto(q, pc) PROVE work'[q].pc = pc
        BY <1>0, <4>2 DEF Goto, Work
      <4> QED BY <2>2, <4>1, <4>2 DEF PageHeartbeat, Classify, PullThrows
    <3> QED BY <3>1, <3>2 DEF HANDLING
  <2>3. ASSUME NEW l \in Leads, WalkPage(q, l) \/ PageFails(q, l) PROVE Empty(q)
    BY <2>3 DEF WalkPage, PageFails, HANDLING, IInv, TypeOK, Work
  <2> HIDE DEF Empty
  <2> QED BY <1>2, <1>8, <2>1, <2>2, <2>3 DEF PullStep
<1>9. ASSUME NEW q \in Procs, ApplyStep(q) PROVE LoadImportableRows(p) \/ HandsOn(p)
  <2>1. ASSUME ReadIntegration(q) \/ IntegrationThrows(q) \/ MarkNonImportable(q) \/ FinishApply(q)
                 \/ ApplyThrows(q) \/ ReturnToCompleted(q)
        PROVE  Empty(q)
    BY <2>1 DEF ReadIntegration, IntegrationThrows, MarkNonImportable, FinishApply, ApplyThrows,
         ReturnToCompleted, Goto, IdleWork, HANDLING, IInv, TypeOK, Work
  <2>2. ASSUME LoadImportableRows(q) PROVE LoadImportableRows(p) \/ HandsOn(p)
    <3>1. Elsewhere(q)
      BY <1>0, <2>2 DEF LoadImportableRows
    <3> QED BY <2>2, <3>1, HandKept
  <2>3. ASSUME RecordOutcome(q) \/ RecordThrows(q) \/ ApplyHeartbeat(q) PROVE HandsOn(p)
    <3>1. Elsewhere(q)
      BY <1>0, <2>3 DEF RecordOutcome, RecordThrows, ApplyHeartbeat, Goto
    <3>2. ASSUME p = q PROVE HandsOn(p)
      BY <2>3, <3>2 DEF RecordOutcome, RecordThrows, ApplyHeartbeat, Goto, InHandOpen, HandsOn,
           InHand, Recording, IInv, TypeOK, Work
    <3> QED BY <3>1, <3>2, HandKept
  <2>4. ASSUME NEW l \in Leads, ApplyRow(q, l) PROVE HandsOn(p)
    <3>1. Elsewhere(q)
      BY <1>0, <2>4 DEF ApplyRow
    <3>2. ASSUME p = q PROVE HandsOn(p)
      BY <2>4, <3>2 DEF ApplyRow, InHandOpen, HandsOn, InHand, Recording, IInv, TypeOK, Work
    <3> QED BY <3>1, <3>2, HandKept
  <2> HIDE DEF Empty
  <2> QED BY <1>2, <1>9, <2>1, <2>2, <2>3, <2>4 DEF ApplyStep
<1>10. CASE UNCHANGED vars
  BY <1>1, <1>10 DEF vars
<1> QED
  BY <1>4, <1>5, <1>6, <1>7, <1>8, <1>9, <1>10 DEF Next

\* With one applier to a run, what it has in hand stays open.
LEMMA InHandStep ==
  ASSUME IInv, SingleApplier, InHandOpen, [Next]_vars
  PROVE  InHandOpen'
<1> SUFFICES ASSUME NEW p \in Procs
             PROVE  /\ Recording(p)' => work'[p].lead \notin work'[p].todo
                    /\ \A l \in Leads : InHand(p, l)' => ~AppliedRow(work[p].run, l)'
  BY DEF InHandOpen
<1>1. CASE LoadImportableRows(p)
  <2>1. work'[p].pc = "apply" /\ work'[p].run = work[p].run /\ work'[p].todo = Loaded(work[p].run)
    BY <1>1 DEF LoadImportableRows, IInv, TypeOK, Work
  <2>2. \A l \in Loaded(work[p].run) : rows'[work[p].run][l].applied = "pending"
    BY <1>1 DEF Loaded, ToImport, Pending, LoadImportableRows, db
  <2> QED BY <2>1, <2>2 DEF InHand, Recording, AppliedRow
<1>2. CASE HandsOn(p)
  <2> SUFFICES ASSUME NEW l \in Leads, InHand(p, l)' PROVE ~AppliedRow(work[p].run, l)'
    BY <1>2 DEF HandsOn
  <2>0. InHand(p, l) /\ work'[p].run = work[p].run
    BY <1>2 DEF HandsOn
  <2>a. Applying(p) /\ work[p].run \in RunIds
    BY <2>0, Facts DEF InHand, Recording, Applying, APPLYING
  <2>2. PICK r \in RunIds : r = work[p].run
    BY <2>a
  <2>1. InHand(p, l) /\ work'[p].run = r /\ ~AppliedRow(r, l)
    BY <2>0, <2>2 DEF InHandOpen
  <2>3. ASSUME OutcomesKept PROVE ~AppliedRow(r, l)'
    BY <2>1, <2>2, <2>3 DEF OutcomesKept
  <2>4. ASSUME NEW q \in Procs, RecordOutcome(q) PROVE ~AppliedRow(r, l)'
    <3>1. Applying(q) /\ work[q].run \in RunIds
      BY <2>4, Facts DEF RecordOutcome, Applying, APPLYING
    <3>2. PICK o \in {"applied", "failed"} : rows' = Recorded(work[q].run, work[q].lead, o)
      BY <2>4 DEF RecordOutcome
    <3>3. work[q].run # r \/ work[q].lead # l
      <4>1. CASE q = p
        BY <2>0, <2>4, <4>1 DEF RecordOutcome, InHand, InHandOpen, Recording, IInv, TypeOK, Work
      <4>2. CASE q # p
        BY <2>2, <2>a, <3>1, <4>2 DEF SingleApplier
      <4> QED BY <4>1, <4>2
    <3>4. rows'[r][l] = rows[r][l]
      BY <2>2, <3>1, <3>2, <3>3, RecordedRow
    <3> QED BY <2>1, <3>4 DEF AppliedRow
  <2>5. ASSUME NEW q \in Procs, NEW k \in Leads, ApplyRow(q, k) PROVE ~AppliedRow(r, l)'
    <3>1. work[q].run \in RunIds
      BY <2>5, Facts DEF ApplyRow, Applying, APPLYING
    <3>2. UNCHANGED rows \/ rows' = Recorded(work[q].run, k, "skipped")
      BY <2>5 DEF ApplyRow
    <3>3. rows'[r][l] = rows[r][l] \/ ~AppliedRow(r, l)'
      BY <2>2, <3>1, <3>2, RecordedRow
    <3> QED BY <2>1, <3>3 DEF AppliedRow
  <2>6. ~AppliedRow(r, l)'
    BY <2>3, <2>4, <2>5, OutcomeWriters
  <2> QED BY <2>1, <2>6 DEF AppliedRow
<1> QED BY <1>1, <1>2, HandStep

\* As long as no two workers apply one run, a row recorded as applied stays so.
THEOREM OutcomeStays == Spec /\ []SingleApplier => OutcomeIsFinal
<1>1. Init => InHandOpen
  BY DEF Init, IdleWork, InHandOpen, InHand, Recording
<1>2. IInv /\ SingleApplier /\ InHandOpen /\ [Next]_vars => InHandOpen'
  BY InHandStep
<1>3. ASSUME IInv, SingleApplier, InHandOpen, [Next]_vars
      PROVE  [\A r \in RunIds, l \in Leads :
                rows[r][l] # None /\ rows[r][l].applied = "applied" =>
                  rows'[r][l] = None \/ rows'[r][l].applied = "applied"]_vars
  <2> SUFFICES ASSUME NEW r \in RunIds, NEW l \in Leads, AppliedRow(r, l)
               PROVE  rows'[r][l] = None \/ AppliedRow(r, l)'
    BY DEF AppliedRow
  <2>1. CASE OutcomesKept
    BY <2>1 DEF OutcomesKept
  <2>2. ASSUME NEW q \in Procs, NEW k, NEW o \in {"applied", "skipped", "failed"},
               k \in Leads, rows' = Recorded(work[q].run, k, o), InHand(q, k), Applying(q)
        PROVE  rows'[r][l] = rows[r][l]
    <3>1. work[q].run \in RunIds
      BY <1>3, <2>2, Facts
    <3>2. work[q].run # r \/ k # l
      BY <1>3, <2>2 DEF InHandOpen
    <3> QED BY <1>3, <2>2, <3>1, <3>2, RecordedRow
  <2>3. ASSUME NEW q \in Procs, RecordOutcome(q) PROVE rows'[r][l] = rows[r][l]
    <3>1. PICK o \in {"applied", "failed"} : rows' = Recorded(work[q].run, work[q].lead, o)
      BY <2>3 DEF RecordOutcome
    <3>2. InHand(q, work[q].lead) /\ Applying(q)
      BY <2>3 DEF RecordOutcome, InHand, Recording, Applying, APPLYING
    <3>3. CASE work[q].lead \in Leads
      BY <2>2, <3>1, <3>2, <3>3
    <3>4. CASE work[q].lead \notin Leads
      <4>1. work[q].run \in RunIds
        BY <1>3, <3>2, Facts
      <4> QED BY <1>3, <3>1, <3>4, <4>1, RecordedRow
    <3> QED BY <3>3, <3>4
  <2>4. ASSUME NEW q \in Procs, NEW k \in Leads, ApplyRow(q, k) PROVE rows'[r][l] = rows[r][l]
    <3>1. UNCHANGED rows \/ rows' = Recorded(work[q].run, k, "skipped")
      BY <2>4 DEF ApplyRow
    <3>2. InHand(q, k) /\ Applying(q)
      BY <2>4 DEF ApplyRow, InHand, Applying, APPLYING
    <3> QED BY <2>2, <3>1, <3>2
  <2> QED BY <1>3, <2>1, <2>3, <2>4, OutcomeWriters DEF AppliedRow
<1> QED BY <1>1, <1>2, <1>3, Invariance, PTL DEF Spec, OutcomeIsFinal

\* A service of one process has one applier: there the outcome of a row is
\* final, whatever crashes, reaps, remaps and repeated applies do.
THEOREM OutcomeStaysWithOneProcess ==
  ASSUME \A p, q \in Procs : p = q
  PROVE  Spec => OutcomeIsFinal
<1>1. SingleApplier
  BY DEF SingleApplier
<1> QED BY <1>1, OutcomeStays, PTL

-----------------------------------------------------------------------------
(* LeadPull implements PullSlot: every pull a slot accepts is worked exactly
   once before the slot takes the next one. *)

\* Besides the invariant the refinement needs that a slot holds one pull.
OnePullPerSlot ==
  \A r, s \in RunIds :
    r # s /\ Status(r) \in PULL_LIVE /\ Status(s) \in PULL_LIVE
      => runs[r].tenant # runs[s].tenant \/ runs[r].kind # runs[s].kind

\* Some run of the slot has status x.
Holds(t, k, x) == \E r \in RunIds : Exists(r) /\ runs[r].tenant = t /\ runs[r].kind = k /\ Status(r) = x

LEMMA SlotStateIs ==
  ASSUME NEW t, NEW k
  PROVE  SlotState(t, k) = IF Holds(t, k, "running") THEN "running"
                           ELSE IF Holds(t, k, "queued") THEN "queued" ELSE "idle"
<1>1. \A x : Holds(t, k, x) <=> \E r \in RunIds : InSlot(r, t, k) /\ runs[r].status = x
  BY DEF Holds, InSlot, Status
<1> QED BY <1>1 DEF SlotState

\* The claim of a pull, by the facts the proofs use about it.
LEMMA ClaimFacts ==
  ASSUME IInv, NEW p \in Procs, ClaimPull(p)
  PROVE  \E r \in RunIds :
           /\ Status(r) = "queued" /\ Status(r)' = "running"
           /\ runs[r] # None /\ runs'[r] # None
           /\ runs'[r].tenant = runs[r].tenant /\ runs'[r].kind = runs[r].kind
           /\ \A o \in RunIds \ {r} : runs'[o] = runs[o] /\ Status(o)' = Status(o)
<1>1. PICK r \in RunIds : Status(r) = "queued" /\ runs' = SetStatus(r, "running")
  BY DEF ClaimPull
<1>2. runs[r] # None
  BY <1>1 DEF Status, Exists
<1> QED BY <1>1, <1>2, StatusChange, StatusNames

\* The replacement: the new run is queued, the slot's others are gone, and
\* none of them was being pulled.
LEMMA ReplaceFacts ==
  ASSUME IInv, NEW c \in Creators, CreateReplace(c)
  PROVE  \E t \in Tenants, n \in RunIds :
           /\ runs[n] = None /\ runs'[n] # None /\ Status(n)' = "queued"
           /\ runs'[n].tenant = t /\ runs'[n].kind = KindOf(c)
           /\ \A r \in RunIds : InSlot(r, t, KindOf(c)) => Status(r) \notin PULL_LIVE
           /\ \A r \in RunIds \ {n} :
                runs'[r] = IF InSlot(r, t, KindOf(c)) THEN None ELSE runs[r]
<1> DEFINE t == creating[c]
           new == [tenant |-> t, kind |-> KindOf(c), status |-> "queued",
                   stale |-> FALSE, pressed |-> 0]
<1>1. nextId \in RunIds /\ runs[nextId] = None /\ t # None /\ t \in Tenants
  BY BoundsAssumption DEF CreateReplace, IInv, TypeOK, IdsGrow, RunIds
<1>2. /\ runs'[nextId] = new
      /\ \A r \in RunIds \ {nextId} : runs'[r] = IF InSlot(r, t, KindOf(c)) THEN None ELSE runs[r]
  BY <1>1 DEF CreateReplace, InSlot, Exists
<1>3. new # None
  <2>1. KindOf(c) \in {"manual", "scheduled"} /\ 0 \in 0 .. MaxPresses
    BY BoundsAssumption DEF KindOf
  <2>2. new \in Run
    BY <1>1, <2>1, StatusNames DEF Run
  <2> QED BY <2>2, NoneAssumption
<1>4. new.tenant = t /\ new.kind = KindOf(c) /\ new.status = "queued"
  OBVIOUS
<1>5. \A r \in RunIds : InSlot(r, t, KindOf(c)) => Status(r) \notin PULL_LIVE
  BY <1>1, RunTableFacts DEF IInv, CheckedSlotFree, InSlot, Exists
<1> HIDE DEF t, new
<1>6. PICK n \in RunIds : n = nextId
  BY <1>1
<1>7. /\ runs'[n] # None /\ Status(n)' = "queued"
      /\ runs'[n].tenant = t /\ runs'[n].kind = KindOf(c)
  BY <1>2, <1>3, <1>4, <1>6 DEF Status, Exists
<1> QED BY <1>1, <1>2, <1>5, <1>6, <1>7

LEMMA OnePullStep ==
  ASSUME IInv, OnePullPerSlot, [Next]_vars
  PROVE  OnePullPerSlot'
<1>1. TypeOK'
  BY TypeStep DEF IInv
<1>2. ASSUME Calm PROVE OnePullPerSlot'
  <2>1. \A r \in RunIds : Status(r)' \in PULL_LIVE =>
          /\ Status(r) \in PULL_LIVE /\ runs[r] # None
          /\ runs'[r].tenant = runs[r].tenant /\ runs'[r].kind = runs[r].kind
    BY <1>2 DEF Calm, RunsMove, PULL_LIVE, PostPull, Status, Exists
  <2> QED BY <2>1 DEF OnePullPerSlot
<1>3. ASSUME UNCHANGED runs PROVE OnePullPerSlot'
  BY <1>3 DEF OnePullPerSlot, Status, Exists
<1>4. ASSUME NEW p \in Procs, ClaimPull(p) PROVE OnePullPerSlot'
  <2>1. \A r \in RunIds : Status(r)' \in PULL_LIVE =>
          /\ Status(r) \in PULL_LIVE
          /\ runs'[r].tenant = runs[r].tenant /\ runs'[r].kind = runs[r].kind
    BY <1>4, ClaimFacts DEF PULL_LIVE
  <2> QED BY <2>1 DEF OnePullPerSlot
<1>5. ASSUME NEW c \in Creators, CreateReplace(c) PROVE OnePullPerSlot'
  <2>1. PICK t \in Tenants, n \in RunIds :
          /\ runs[n] = None /\ runs'[n] # None /\ Status(n)' = "queued"
          /\ runs'[n].tenant = t /\ runs'[n].kind = KindOf(c)
          /\ \A r \in RunIds \ {n} : runs'[r] = IF InSlot(r, t, KindOf(c)) THEN None ELSE runs[r]
    BY <1>5, ReplaceFacts
  <2>2. ASSUME NEW r \in RunIds \ {n}, Status(r)' \in PULL_LIVE
        PROVE  /\ runs'[r] = runs[r] /\ Status(r) \in PULL_LIVE
               /\ runs[r].tenant # t \/ runs[r].kind # KindOf(c)
    BY <2>1, <2>2 DEF Status, Exists, InSlot, PULL_LIVE
  <2> QED BY <2>1, <2>2 DEF OnePullPerSlot
<1>6. ASSUME NEW c \in Creators, NEW t \in Tenants, CreateCheck(c, t) PROVE OnePullPerSlot'
  BY <1>3, <1>6 DEF CreateCheck, db
<1>7. ASSUME NEW p \in Procs, NEW l \in Leads, WalkPage(p, l) PROVE OnePullPerSlot'
  BY <1>3, <1>7 DEF WalkPage
<1> QED BY <1>1, <1>2, <1>4, <1>5, <1>6, <1>7, CalmActions

\* The slot a pair of Slots names, and when two pairs are the same slot.
LEMMA SlotPairs ==
  /\ \A s \in Slots : s[1] \in Tenants /\ s[2] \in {"manual", "scheduled"} /\ s = <<s[1], s[2]>>
  /\ \A t \in Tenants, k \in {"manual", "scheduled"} : <<t, k>> \in Slots
  BY DEF Slots

State == [s \in Slots |-> SlotState(s[1], s[2])]

LEMMA StutterIfRunsSame == ASSUME UNCHANGED runs PROVE UNCHANGED State
<1>1. \A t, k : SlotState(t, k)' = SlotState(t, k)
  BY DEF SlotState, InSlot, Exists
<1> QED BY <1>1 DEF State

\* A calm step ends pulls and starts none.
LEMMA CalmEnds ==
  ASSUME IInv, OnePullPerSlot, Calm
  PROVE  \E S \in SUBSET Slots : Promise!End(S)
<1>1. ASSUME NEW t, NEW k
      PROVE  /\ Holds(t, k, "running")' => Holds(t, k, "running")
             /\ Holds(t, k, "queued")' <=> Holds(t, k, "queued")
  <2>1. \A r \in RunIds :
          /\ Status(r)' = "running" => Status(r) = "running"
          /\ Status(r)' = "queued" <=> Status(r) = "queued"
          /\ runs'[r] = None <=> runs[r] = None
          /\ runs[r] # None => runs'[r].tenant = runs[r].tenant /\ runs'[r].kind = runs[r].kind
    BY DEF Calm, RunsMove, PostPull
  <2> QED BY <2>1 DEF Holds, Exists
<1>2. \A t, k : ~(Holds(t, k, "running") /\ Holds(t, k, "queued"))
  BY DEF OnePullPerSlot, Holds, PULL_LIVE
<1>3. \A t, k : \/ SlotState(t, k)' = SlotState(t, k)
                \/ SlotState(t, k) = "running" /\ SlotState(t, k)' = "idle"
  <2> SUFFICES ASSUME NEW t, NEW k
               PROVE  \/ SlotState(t, k)' = SlotState(t, k)
                      \/ SlotState(t, k) = "running" /\ SlotState(t, k)' = "idle"
    OBVIOUS
  <2>1. SlotState(t, k) = IF Holds(t, k, "running") THEN "running"
                          ELSE IF Holds(t, k, "queued") THEN "queued" ELSE "idle"
    BY SlotStateIs
  <2>2. SlotState(t, k)' = IF Holds(t, k, "running")' THEN "running"
                           ELSE IF Holds(t, k, "queued")' THEN "queued" ELSE "idle"
    <3>1. \A x : Holds(t, k, x)' <=> \E r \in RunIds : InSlot(r, t, k)' /\ runs'[r].status = x
      BY DEF Holds, InSlot, Status, Exists
    <3> QED BY <3>1 DEF SlotState
  <2> QED BY <1>1, <1>2, <2>1, <2>2
<1> DEFINE S == {s \in Slots : SlotState(s[1], s[2])' # SlotState(s[1], s[2])}
<1>4. \A s \in S : State[s] = "running"
  BY <1>3 DEF State
<1>5. State' = [s \in Slots |-> IF s \in S THEN "idle" ELSE State[s]]
  BY <1>3 DEF State
<1>6. S \in SUBSET Slots
  OBVIOUS
<1> HIDE DEF S
<1> QED BY <1>4, <1>5, <1>6 DEF Promise!End, State

\* Claiming a pull starts the one its slot holds.
LEMMA ClaimStarts ==
  ASSUME IInv, OnePullPerSlot, NEW p \in Procs, ClaimPull(p)
  PROVE  \E s \in Slots : Promise!Start(s)
<1>1. PICK r \in RunIds :
        /\ Status(r) = "queued" /\ Status(r)' = "running"
        /\ runs[r] # None /\ runs'[r] # None
        /\ runs'[r].tenant = runs[r].tenant /\ runs'[r].kind = runs[r].kind
        /\ \A o \in RunIds \ {r} : runs'[o] = runs[o] /\ Status(o)' = Status(o)
  BY ClaimFacts
<1> DEFINE t == runs[r].tenant
           k == runs[r].kind
<1>2. t \in Tenants /\ k \in {"manual", "scheduled"}
  BY <1>1 DEF IInv, TypeOK, Run
<1>3. SlotState(t, k) = "queued"
  <2>1. ~Holds(t, k, "running") /\ Holds(t, k, "queued")
    BY <1>1 DEF OnePullPerSlot, Holds, PULL_LIVE, Exists
  <2> QED BY <2>1, SlotStateIs
<1>4. ASSUME NEW u, NEW v
      PROVE  SlotState(u, v)' = IF u = t /\ v = k THEN "running" ELSE SlotState(u, v)
  <2>1. CASE u = t /\ v = k
    <3>1. InSlot(r, u, v)' /\ runs'[r].status = "running"
      BY <1>1, <2>1 DEF InSlot, Status, Exists
    <3> QED BY <2>1, <3>1 DEF SlotState
  <2>2. CASE ~(u = t /\ v = k)
    <3>1. \A o \in RunIds : /\ InSlot(o, u, v)' <=> InSlot(o, u, v)
                            /\ InSlot(o, u, v) => runs'[o] = runs[o]
      BY <1>1, <2>2 DEF InSlot, Exists
    <3> HIDE DEF t, k
    <3> QED BY <2>2, <3>1 DEF SlotState
  <2> QED BY <2>1, <2>2
<1> HIDE DEF t, k
<1>5. <<t, k>> \in Slots /\ \A s \in Slots : s = <<t, k>> <=> s[1] = t /\ s[2] = k
  BY <1>2, SlotPairs
<1>6. State[<<t, k>>] = "queued"
  BY <1>3, <1>5 DEF State
<1>7. State' = [State EXCEPT ![<<t, k>>] = "running"]
  BY <1>4, <1>5 DEF State
<1> QED BY <1>5, <1>6, <1>7 DEF Promise!Start, State

\* The replacement of createPullRun accepts a pull into an idle slot.
LEMMA ReplaceEnqueues ==
  ASSUME IInv, NEW c \in Creators, CreateReplace(c)
  PROVE  \E s \in Slots : Promise!Enqueue(s)
<1> DEFINE k == KindOf(c)
<1>1. PICK t \in Tenants, n \in RunIds :
        /\ runs[n] = None /\ runs'[n] # None /\ Status(n)' = "queued"
        /\ runs'[n].tenant = t /\ runs'[n].kind = k
        /\ \A r \in RunIds : InSlot(r, t, k) => Status(r) \notin PULL_LIVE
        /\ \A r \in RunIds \ {n} : runs'[r] = IF InSlot(r, t, k) THEN None ELSE runs[r]
  BY ReplaceFacts
<1>2. k \in {"manual", "scheduled"}
  BY DEF KindOf
<1> HIDE DEF k
<1>3. SlotState(t, k) = "idle"
  <2>1. \A r \in RunIds : InSlot(r, t, k) => runs[r].status \notin PULL_LIVE
    BY <1>1 DEF InSlot, Status
  <2> QED BY <2>1 DEF SlotState, PULL_LIVE
<1>4. ASSUME NEW u, NEW v
      PROVE  SlotState(u, v)' = IF u = t /\ v = k THEN "queued" ELSE SlotState(u, v)
  <2>1. CASE u = t /\ v = k
    <3>1. InSlot(n, u, v)' /\ runs'[n].status = "queued"
      BY <1>1, <2>1 DEF InSlot, Status, Exists
    <3>2. \A r \in RunIds : InSlot(r, u, v)' => r = n
      BY <1>1, <2>1 DEF InSlot, Exists
    <3> QED BY <2>1, <3>1, <3>2 DEF SlotState
  <2>2. CASE ~(u = t /\ v = k)
    <3>1. \A o \in RunIds : /\ InSlot(o, u, v)' <=> InSlot(o, u, v)
                            /\ InSlot(o, u, v) => runs'[o] = runs[o]
      BY <1>1, <2>2 DEF InSlot, Exists
    <3> QED BY <2>2, <3>1 DEF SlotState
  <2> QED BY <2>1, <2>2
<1>5. <<t, k>> \in Slots /\ \A s \in Slots : s = <<t, k>> <=> s[1] = t /\ s[2] = k
  BY <1>2, SlotPairs
<1>6. State[<<t, k>>] = "idle"
  BY <1>3, <1>5 DEF State
<1>7. State' = [State EXCEPT ![<<t, k>>] = "queued"]
  BY <1>4, <1>5 DEF State
<1> QED BY <1>5, <1>6, <1>7 DEF Promise!Enqueue, State

LEMMA PromiseStep ==
  ASSUME IInv, OnePullPerSlot, [Next]_vars
  PROVE  [Promise!Next]_State
<1>1. TypeOK'
  BY TypeStep DEF IInv
<1>2. ASSUME Calm PROVE Promise!Next
  BY <1>2, CalmEnds DEF Promise!Next
<1>3. ASSUME NEW c \in Creators, CreateReplace(c) PROVE Promise!Next
  BY <1>3, ReplaceEnqueues DEF Promise!Next
<1>4. ASSUME NEW c \in Creators, NEW t \in Tenants, CreateCheck(c, t) PROVE UNCHANGED State
  BY <1>4, StutterIfRunsSame DEF CreateCheck, db
<1>5. ASSUME NEW p \in Procs, ClaimPull(p) PROVE Promise!Next
  BY <1>5, ClaimStarts DEF Promise!Next
<1>6. ASSUME NEW p \in Procs, NEW l \in Leads, WalkPage(p, l) PROVE UNCHANGED State
  BY <1>6, StutterIfRunsSame DEF WalkPage
<1> QED BY <1>1, <1>2, <1>3, <1>4, <1>5, <1>6, CalmActions

LEMMA PromiseInit ==
  ASSUME Init
  PROVE  OnePullPerSlot /\ Promise!Init
<1>1. \A r \in RunIds : runs[r] = None /\ Status(r) = "deleted" /\ ~Exists(r)
  BY DEF Init, Status, Exists
<1>2. OnePullPerSlot
  BY <1>1 DEF OnePullPerSlot, PULL_LIVE
<1>3. \A t, k : SlotState(t, k) = "idle"
  BY <1>1 DEF SlotState, InSlot
<1> QED BY <1>2, <1>3 DEF Promise!Init

\* Requests, catch-ups, claims, reaps, crashes and slow workers together keep
\* the promise of PullSlot, for any number of tenants, processes and runs.
THEOREM Refinement == Spec => KeepsPromise
<1>1. Init => OnePullPerSlot /\ Promise!Init
  BY PromiseInit
<1>2. IInv /\ OnePullPerSlot /\ [Next]_vars => OnePullPerSlot'
  BY OnePullStep
<1>3. IInv /\ OnePullPerSlot /\ [Next]_vars => [Promise!Next]_State
  BY PromiseStep
<1> QED BY <1>1, <1>2, <1>3, Invariance, PTL DEF Spec, KeepsPromise, Promise!Spec, State
=============================================================================
