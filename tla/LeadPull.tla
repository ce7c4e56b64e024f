------------------------------ MODULE LeadPull ------------------------------
(***************************************************************************)
(* The Meta lead pull of meta-conversion-api: the run rows of              *)
(* scratch.meta_pull_runs used as a queue, the poller of every service     *)
(* process that works them, the staged rows of scratch.meta_pull_leads,    *)
(* and the administrator's requests (pull, apply, remap).                  *)
(*                                                                         *)
(* One action is one database transaction (or one call to a service)       *)
(* together with the local computation up to the next one, because that    *)
(* is where other processes, requests and the webhook can run.  A SELECT   *)
(* or UPDATE sees what is committed when it starts (READ COMMITTED).       *)
(*                                                                         *)
(* Abstractions.  A page carries one form and a form one lead, so a lead   *)
(* stands for its form and its page: "routed" is the set of leads whose    *)
(* form has an active row in ext.meta_page_form_org_map.  A heartbeat is   *)
(* a flag, "stale", that time can raise and that a heartbeat clears.  The  *)
(* duplicate verdicts are one verdict, "importable".                       *)
(***************************************************************************)
EXTENDS Integers, FiniteSets

CONSTANTS
  Tenants,            \* the tenants with a Meta integration
  Procs,              \* service processes, each with one lead-pull poller
  Requests,           \* administrator requests that may be in flight at once
  Leads,              \* leads on Meta, each on a form and page of its own
  LeadTenant,         \* the tenant whose page carries the lead
  TestLeads,          \* placeholder leads of Meta's testing tool
  Phoneless,          \* leads without a phone value
  CatchupEnabled,     \* leadPullCatchupIntervalHours > 0
  HeartbeatEveryRows, \* HEARTBEAT_EVERY_ROWS, 25 in the code
  None,               \* SQL NULL, "no row", "no tenant"
  MaxRuns,            \* bound: runs ever created
  MaxPresses,         \* bound: times Apply is pressed
  MaxCrashes          \* bound: crashes of service processes

ASSUME BoundsAssumption ==
  /\ MaxRuns \in Nat /\ MaxPresses \in Nat /\ MaxCrashes \in Nat
  /\ HeartbeatEveryRows \in Nat \ {0}
  /\ CatchupEnabled \in BOOLEAN

ASSUME ActorsAssumption ==
  /\ Procs \cap Requests = {}
  /\ LeadTenant \in [Leads -> Tenants]
  /\ TestLeads \subseteq Leads /\ Phoneless \subseteq Leads

VARIABLES
  runs,      \* scratch.meta_pull_runs, by id
  rows,      \* scratch.meta_pull_leads, by run and Meta lead
  nextId,    \* the id the next run gets; ids grow with created_at
  presses,   \* how often Apply was pressed: the order of updated_at
  work,      \* what the poller of each process is doing
  creating,  \* the tenant whose run a request or poller is creating
  remap,     \* the remap a request is in the middle of
  routed,    \* leads whose form is mapped to a branch now
  synced,    \* leads with a row in ext.meta_leads
  crashes    \* crashes so far

db   == <<runs, rows, nextId, presses>>
env  == <<routed, synced, crashes>>
vars == <<runs, rows, nextId, presses, work, creating, remap, routed, synced, crashes>>

-----------------------------------------------------------------------------
RunIds   == 1 .. MaxRuns
Creators == Requests \cup Procs

PULL_LIVE     == {"queued", "running"}
LIVE_STATUSES == PULL_LIVE \cup {"apply_queued", "applying"}
PostPull      == {"completed", "apply_queued", "applying", "applied"}
Statuses      == PULL_LIVE \cup PostPull \cup {"failed"}
Verdicts      == {"importable", "already_synced", "test_lead", "unmapped_form",
                  "missing_contact"}

PULLING  == {"load", "walk", "beat", "finish", "failing"}
APPLYING == {"integration", "mark", "rows", "apply", "recordApplied",
             "recordFailed", "applyBeat", "unapply"}
Steps    == {"idle", "down", "catchup", "reap", "claim", "claimApply"}
              \cup PULLING \cup APPLYING

Run == [tenant : Tenants, kind : {"manual", "scheduled"}, status : Statuses,
        stale : BOOLEAN, pressed : 0 .. MaxPresses]
Row == [org : BOOLEAN, verdict : Verdicts \cup {None},
        applied : {"pending", "applied", "skipped", "failed"}]
Remap == [run : RunIds, step : {"update", "classify"}]
Work == [pc : Steps, run : RunIds \cup {None}, todo : SUBSET Leads, known : SUBSET Leads,
         lead : Leads \cup {None}, done : 0 .. HeartbeatEveryRows - 1,
         due : SUBSET Tenants]

ASSUME NoneAssumption ==
  /\ None \notin Tenants /\ None \notin Leads /\ None \notin RunIds /\ None \notin Verdicts
  /\ None \notin Run /\ None \notin Row /\ None \notin Remap

\* A tick between two claims holds nothing but the tenants still to enqueue.
IdleWork == [pc |-> "idle", run |-> None, todo |-> {}, known |-> {},
             lead |-> None, done |-> 0, due |-> {}]

\* Only administrators create manual runs, only pollers scheduled ones.
KindOf(c) == IF c \in Procs THEN "scheduled" ELSE "manual"

Exists(r)    == runs[r] # None
Status(r)    == IF Exists(r) THEN runs[r].status ELSE "deleted"
\* The slot of a tenant and a kind: at most one live run, replaced by the next.
InSlot(r, t, k) == Exists(r) /\ runs[r].tenant = t /\ runs[r].kind = k
LiveIn(t, k) == \E r \in RunIds : InSlot(r, t, k) /\ runs[r].status \in LIVE_STATUSES
TenantLeads(t) == {l \in Leads : LeadTenant[l] = t}

Init ==
  /\ runs = [r \in RunIds |-> None]
  /\ rows = [r \in RunIds |-> [l \in Leads |-> None]]
  /\ nextId = 1
  /\ presses = 0
  /\ work = [p \in Procs |-> IdleWork]
  /\ creating = [c \in Creators |-> None]
  /\ remap = [q \in Requests |-> None]
  /\ routed \in SUBSET Leads
  /\ synced = {}
  /\ crashes = 0

\* The status of run r becomes s; its heartbeat is only read while it is
\* claimed, so the flag is lowered with every change of status.
SetStatus(r, s) == [runs EXCEPT ![r] = [@ EXCEPT !.status = s, !.stale = FALSE]]

\* An UPDATE ... WHERE id = r AND status = from: nothing happens when the run
\* is gone or has left that status.
SetStatusIf(r, from, s) == IF Status(r) = from THEN SetStatus(r, s) ELSE runs

Beat(r) == IF Exists(r) THEN [runs EXCEPT ![r].stale = FALSE] ELSE runs

Goto(p, pc) == [work EXCEPT ![p].pc = pc]

-----------------------------------------------------------------------------
(* Outside the run: the webhook, the mapping screens, time, the processes.  *)

\* A lead lands through another door: the webhook, an inbox retry.  The sync
\* refuses a lead without a phone and its callers a test lead.
LandOutsideRun(l) ==
  /\ l \in routed \ (TestLeads \cup Phoneless \cup synced)
  /\ synced' = synced \cup {l}
  /\ UNCHANGED <<db, work, creating, remap, routed, crashes>>

MapForm(l) ==
  /\ l \notin routed
  /\ routed' = routed \cup {l}
  /\ UNCHANGED <<db, work, creating, remap, synced, crashes>>

UnmapForm(l) ==
  /\ l \in routed
  /\ routed' = routed \ {l}
  /\ UNCHANGED <<db, work, creating, remap, synced, crashes>>

\* leadPullStaleRunMinutes pass without a heartbeat of a claimed run.
Age(r) ==
  /\ Status(r) \in {"running", "applying"} /\ ~runs[r].stale
  /\ runs' = [runs EXCEPT ![r].stale = TRUE]
  /\ UNCHANGED <<rows, nextId, presses, work, creating, remap, env>>

\* A process dies: its transactions roll back and it forgets what it claimed.
Crash(p) ==
  /\ crashes < MaxCrashes /\ work[p].pc # "down"
  /\ crashes' = crashes + 1
  /\ work' = [work EXCEPT ![p] = [IdleWork EXCEPT !.pc = "down"]]
  /\ creating' = [creating EXCEPT ![p] = None]
  /\ UNCHANGED <<db, remap, routed, synced>>

Restart(p) ==
  /\ work[p].pc = "down"
  /\ work' = Goto(p, "idle")
  /\ UNCHANGED <<db, creating, remap, env>>

-----------------------------------------------------------------------------
(* Creating a run: createPullRun, called by a request or by a catch-up.     *)

\* Mutant: the advisory lock is forgotten.
LockIgnored(t) == TRUE

\* pg_advisory_xact_lock on the tenant: nobody else is creating a run for it.
LockFree(t) == \A c \in Creators : creating[c] # t

\* The transaction takes the lock and finds no live run of the kind.
CreateCheck(c, t) ==
  /\ creating[c] = None /\ nextId <= MaxRuns
  /\ IF c \in Procs THEN work[c].pc = "catchup" /\ t \in work[c].due
                    ELSE remap[c] = None
  /\ LockFree(t)
  /\ ~LiveIn(t, KindOf(c))
  /\ creating' = [creating EXCEPT ![c] = t]
  /\ UNCHANGED <<db, work, remap, env>>

\* A poller that is done with tenant t, however that went, turns to the next.
DropDue(c, t) == IF c \in Procs THEN [work EXCEPT ![c].due = @ \ {t}] ELSE work

\* It deletes whatever the slot holds by now, with its rows, and inserts.
CreateReplace(c) ==
  LET t == creating[c]
      old == {r \in RunIds : InSlot(r, t, KindOf(c))}
      new == [tenant |-> t, kind |-> KindOf(c), status |-> "queued",
              stale |-> FALSE, pressed |-> 0]
  IN
  /\ t # None /\ nextId <= MaxRuns
  /\ runs' = [r \in RunIds |-> IF r = nextId THEN new
                               ELSE IF r \in old THEN None ELSE runs[r]]
  /\ rows' = [r \in RunIds |-> IF r \in old THEN [l \in Leads |-> None] ELSE rows[r]]
  /\ nextId' = nextId + 1
  /\ creating' = [creating EXCEPT ![c] = None]
  /\ work' = DropDue(c, t)
  /\ UNCHANGED <<presses, remap, env>>

\* The transaction fails after the check and rolls back.
CreateAbort(c) ==
  /\ creating[c] # None
  /\ creating' = [creating EXCEPT ![c] = None]
  /\ work' = DropDue(c, creating[c])
  /\ UNCHANGED <<db, remap, env>>

-----------------------------------------------------------------------------
(* A tick: catch-up, reap, claim a pull, or else claim an apply.            *)

\* runGuarded: the next tick starts only when the last one has ended.  Which
\* tenants are due depends on the clock: any that maps a form may be.
StartTick(p) ==
  /\ work[p].pc = "idle"
  /\ \E due \in SUBSET {t \in Tenants : CatchupEnabled /\ TenantLeads(t) \cap routed # {}} :
       work' = [work EXCEPT ![p].pc = "catchup", ![p].due = due]
  /\ UNCHANGED <<db, creating, remap, env>>

\* createPullRun throws, most often the 409 of a live scheduled run.
CatchupSkips(p, t) ==
  /\ work[p].pc = "catchup" /\ creating[p] = None /\ t \in work[p].due
  /\ work' = DropDue(p, t)
  /\ UNCHANGED <<db, creating, remap, env>>

CatchupDone(p) ==
  /\ work[p].pc = "catchup" /\ work[p].due = {} /\ creating[p] = None
  /\ work' = Goto(p, "reap")
  /\ UNCHANGED <<db, creating, remap, env>>

\* Mutants: a stalled pull is queued again, a stalled apply is failed, a status
\* the table does not know.
ReapedRequeued(s) == IF s = "applying" THEN "completed" ELSE "queued"
ReapedFailed(s) == "failed"
ReapedUnknown(s) == IF s = "applying" THEN "completed" ELSE "abandoned"

\* A stalled pull is failed, a stalled apply goes back to completed.
ReapedStatus(s) == IF s = "applying" THEN "completed" ELSE "failed"

\* Mutant: stalled applies are forgotten.
ReapPullsOnly(r) == Status(r) = "running" /\ runs[r].stale

\* Claimed, with a heartbeat older than leadPullStaleRunMinutes.
Reapable(r) == Status(r) \in {"running", "applying"} /\ runs[r].stale

Reap(p) ==
  /\ work[p].pc = "reap"
  /\ runs' = [r \in RunIds |->
                IF Reapable(r)
                THEN [runs[r] EXCEPT !.status = ReapedStatus(@), !.stale = FALSE]
                ELSE runs[r]]
  /\ work' = Goto(p, "claim")
  /\ UNCHANGED <<rows, nextId, presses, creating, remap, env>>

ClaimPull(p) ==
  /\ work[p].pc = "claim"
  /\ \E r \in RunIds :
       /\ Status(r) = "queued"
       /\ \A s \in RunIds : Status(s) = "queued" => r <= s
       /\ runs' = SetStatus(r, "running")
       /\ work' = [work EXCEPT ![p] = [IdleWork EXCEPT !.pc = "load", !.run = r,
                                         !.todo = TenantLeads(runs[r].tenant)]]
  /\ UNCHANGED <<rows, nextId, presses, creating, remap, env>>

NoPullQueued(p) ==
  /\ work[p].pc = "claim"
  /\ \A r \in RunIds : Status(r) # "queued"
  /\ work' = Goto(p, "claimApply")
  /\ UNCHANGED <<db, creating, remap, env>>

ClaimApply(p) ==
  /\ work[p].pc = "claimApply"
  /\ \E r \in RunIds :
       /\ Status(r) = "apply_queued"
       /\ \A s \in RunIds : Status(s) = "apply_queued" => runs[r].pressed <= runs[s].pressed
       /\ runs' = SetStatus(r, "applying")
       /\ work' = [work EXCEPT ![p] = [IdleWork EXCEPT !.pc = "integration", !.run = r]]
  /\ UNCHANGED <<rows, nextId, presses, creating, remap, env>>

NoApplyQueued(p) ==
  /\ work[p].pc = "claimApply"
  /\ \A r \in RunIds : Status(r) # "apply_queued"
  /\ work' = [work EXCEPT ![p] = IdleWork]
  /\ UNCHANGED <<db, creating, remap, env>>

\* The database refuses a reap or a claim: the tick ends, logged.
TickAborted(p) ==
  /\ work[p].pc \in {"reap", "claim", "claimApply"}
  /\ work' = [work EXCEPT ![p] = IdleWork]
  /\ UNCHANGED <<db, creating, remap, env>>

-----------------------------------------------------------------------------
(* A pull: runPull walks the pages, stages their leads and classifies them. *)

\* The mappings are read once and kept for the whole walk.  The pages in scope
\* are any of the tenant's: filters and other tenants' pages narrow them.
LoadMappings(p) ==
  /\ work[p].pc = "load"
  /\ \E pages \in SUBSET work[p].todo :
       work' = [work EXCEPT ![p].pc = IF pages = {} THEN "finish" ELSE "walk",
                            ![p].todo = pages, ![p].known = routed \cap work[p].todo]
  /\ UNCHANGED <<db, creating, remap, env>>

\* INSERT ... ON CONFLICT DO NOTHING; the foreign key refuses a deleted run.
Staged(r, l, org) ==
  IF rows[r][l] # None THEN rows
  ELSE [rows EXCEPT ![r][l] = [org |-> org, verdict |-> None, applied |-> "pending"]]

\* One page: its lead is staged, unless the window, the campaign or the branch
\* selection drops it or its form cannot be read.
WalkPage(p, l) ==
  LET w == work[p] IN
  /\ w.pc = "walk" /\ l \in w.todo
  /\ \/ Exists(w.run) /\ rows' = Staged(w.run, l, l \in w.known)
     \/ UNCHANGED rows
  /\ work' = [work EXCEPT ![p].pc = "beat", ![p].todo = @ \ {l}]
  /\ UNCHANGED <<runs, nextId, presses, creating, remap, env>>

\* No token for the page, or its forms cannot be listed: reported, no heartbeat.
PageFails(p, l) ==
  /\ work[p].pc = "walk" /\ l \in work[p].todo
  /\ work' = [work EXCEPT ![p].todo = @ \ {l}]
  /\ UNCHANGED <<db, creating, remap, env>>

PageHeartbeat(p) ==
  /\ work[p].pc = "beat"
  /\ runs' = Beat(work[p].run)
  /\ work' = Goto(p, "walk")
  /\ UNCHANGED <<rows, nextId, presses, creating, remap, env>>

\* The verdict ladder, judged against live data.
VerdictOf(l, org) ==
  CASE l \in synced    -> "already_synced"
    [] l \in TestLeads -> "test_lead"
    [] ~org            -> "unmapped_form"
    [] l \in Phoneless -> "missing_contact"
    [] OTHER           -> "importable"

\* classifyRunLeads rewrites the verdict of every row of the run.
Classified(r) ==
  [rows EXCEPT ![r] = [l \in Leads |->
     IF @[l] = None THEN None ELSE [@[l] EXCEPT !.verdict = VerdictOf(l, rows[r][l].org)]]]

Classify(p) ==
  /\ work[p].pc = "walk" /\ work[p].todo = {}
  /\ rows' = Classified(work[p].run)
  /\ work' = Goto(p, "finish")
  /\ UNCHANGED <<runs, nextId, presses, creating, remap, env>>

\* Only while the worker still owns the run.
Finished(r) == SetStatusIf(r, "running", "completed")

FinishRun(p) ==
  /\ work[p].pc = "finish"
  /\ runs' = Finished(work[p].run)
  /\ work' = [work EXCEPT ![p] = IdleWork]
  /\ UNCHANGED <<rows, nextId, presses, creating, remap, env>>

\* Anything in the pull or in finishRun throws: no integration, no token, the
\* database, the foreign key of a deleted run.
PullThrows(p) ==
  /\ work[p].pc \in {"load", "walk", "beat", "finish"}
  /\ work' = Goto(p, "failing")
  /\ UNCHANGED <<db, creating, remap, env>>

\* failRun, whose own failure is swallowed.
FailRun(p) ==
  /\ work[p].pc = "failing"
  /\ \/ runs' = SetStatusIf(work[p].run, "running", "failed")
     \/ UNCHANGED runs
  /\ work' = [work EXCEPT ![p] = IdleWork]
  /\ UNCHANGED <<rows, nextId, presses, creating, remap, env>>

-----------------------------------------------------------------------------
(* An apply: applyRun sends the importable rows through the lead sync.      *)

ReadIntegration(p) ==
  /\ work[p].pc = "integration"
  /\ work' = Goto(p, "mark")
  /\ UNCHANGED <<db, creating, remap, env>>

\* getIntegrationByTenantId is called before the try block: when it throws,
\* nothing returns the run to completed.
IntegrationThrows(p) ==
  /\ work[p].pc = "integration"
  /\ work' = [work EXCEPT ![p] = IdleWork]
  /\ UNCHANGED <<db, creating, remap, env>>

Pending(r) == {l \in Leads : rows[r][l] # None /\ rows[r][l].applied = "pending"}
Importable(r) == {l \in Leads : rows[r][l] # None /\ rows[r][l].verdict = "importable"}
ToImport(r) == Pending(r) \cap Importable(r)

MarkNonImportable(p) ==
  LET r == work[p].run IN
  /\ work[p].pc = "mark"
  /\ rows' = [rows EXCEPT ![r] = [l \in Leads |->
                IF l \in Pending(r) \ Importable(r) THEN [@[l] EXCEPT !.applied = "skipped"]
                ELSE @[l]]]
  /\ work' = Goto(p, "rows")
  /\ UNCHANGED <<runs, nextId, presses, creating, remap, env>>

\* Mutant: a resumed apply starts over.
LoadedAnyOutcome(r) == Importable(r)

\* The rows an apply loads: only those still pending, so that it resumes.
Loaded(r) == ToImport(r)

LoadImportableRows(p) ==
  LET r == work[p].run IN
  /\ work[p].pc = "rows"
  /\ work' = [work EXCEPT ![p].pc = "apply", ![p].todo = Loaded(r),
                           ![p].known = {l \in Loaded(r) : rows[r][l].org}]
  /\ UNCHANGED <<db, creating, remap, env>>

\* UPDATE scratch.meta_pull_leads ... WHERE id = row: no other condition.
Recorded(r, l, outcome) ==
  IF rows[r][l] = None THEN rows ELSE [rows EXCEPT ![r][l].applied = outcome]

Refused(w, l) == l \in TestLeads \/ l \notin w.known

\* One row.  A test lead or one without a branch is skipped on the spot, which
\* passes over the heartbeat.  Otherwise syncLeadToDatabase: an already synced
\* lead is a duplicate and counts as landed, a lead without a phone throws, and
\* any call may fail.
ApplyRow(p, l) ==
  LET w == work[p] IN
  /\ w.pc = "apply" /\ l \in w.todo
  /\ \E landed \in BOOLEAN :
       /\ landed => l \in synced \/ l \notin Phoneless
       /\ IF Refused(w, l)
          THEN /\ rows' = Recorded(w.run, l, "skipped")
               /\ work' = [work EXCEPT ![p].todo = @ \ {l},
                                       ![p].done = (@ + 1) % HeartbeatEveryRows]
               /\ UNCHANGED synced
          ELSE /\ work' = [work EXCEPT ![p].todo = @ \ {l}, ![p].lead = l,
                     ![p].pc = IF landed THEN "recordApplied" ELSE "recordFailed"]
               /\ synced' = IF landed THEN synced \cup {l} ELSE synced
               /\ UNCHANGED rows
  /\ UNCHANGED <<runs, nextId, presses, creating, remap, routed, crashes>>

\* recordOutcome, and the heartbeat after every HEARTBEAT_EVERY_ROWS rows.
RecordOutcome(p) ==
  LET w == work[p]
      done == (w.done + 1) % HeartbeatEveryRows
  IN
  /\ w.pc \in {"recordApplied", "recordFailed"}
  /\ rows' = Recorded(w.run, w.lead, IF w.pc = "recordApplied" THEN "applied" ELSE "failed")
  /\ work' = [work EXCEPT ![p].pc = IF done = 0 THEN "applyBeat" ELSE "apply",
                          ![p].done = done, ![p].lead = None]
  /\ UNCHANGED <<runs, nextId, presses, creating, remap, env>>

\* Recording "applied" inside the row's try block fails: the row is recorded
\* "failed" although its lead landed.  Recording "failed" is outside it.
RecordThrows(p) ==
  /\ work[p].pc \in {"recordApplied", "recordFailed"}
  /\ work' = Goto(p, IF work[p].pc = "recordApplied" THEN "recordFailed" ELSE "unapply")
  /\ UNCHANGED <<db, creating, remap, env>>

ApplyHeartbeat(p) ==
  /\ work[p].pc = "applyBeat"
  /\ runs' = Beat(work[p].run)
  /\ work' = Goto(p, "apply")
  /\ UNCHANGED <<rows, nextId, presses, creating, remap, env>>

FinishApply(p) ==
  /\ work[p].pc = "apply" /\ work[p].todo = {}
  /\ runs' = SetStatusIf(work[p].run, "applying", "applied")
  /\ work' = [work EXCEPT ![p] = IdleWork]
  /\ UNCHANGED <<rows, nextId, presses, creating, remap, env>>

\* A statement of the batch itself throws: the marking, the loading, the
\* skipping of a row, a heartbeat, the final update.
ApplyThrows(p) ==
  LET w == work[p] IN
  /\ \/ w.pc \in {"mark", "rows", "applyBeat"}
     \/ w.pc = "apply" /\ (w.todo = {} \/ \E l \in w.todo : Refused(w, l))
  /\ work' = Goto(p, "unapply")
  /\ UNCHANGED <<db, creating, remap, env>>

\* Back to completed, unless that update fails too.
ReturnToCompleted(p) ==
  /\ work[p].pc = "unapply"
  /\ \/ runs' = SetStatusIf(work[p].run, "applying", "completed")
     \/ UNCHANGED runs
  /\ work' = [work EXCEPT ![p] = IdleWork]
  /\ UNCHANGED <<rows, nextId, presses, creating, remap, env>>

-----------------------------------------------------------------------------
(* The administrator's requests on a staged run.                            *)

\* Apply is pressed: accepted for a completed run, and again for an applied
\* one that has pending importable rows.
QueueApply(r) ==
  /\ presses < MaxPresses
  /\ \/ Status(r) = "completed"
     \/ Status(r) = "applied" /\ ToImport(r) # {}
  /\ presses' = presses + 1
  /\ runs' = [runs EXCEPT ![r] = [@ EXCEPT !.status = "apply_queued", !.stale = FALSE,
                                          !.pressed = presses + 1]]
  /\ UNCHANGED <<rows, nextId, work, creating, remap, env>>

\* remapRun: a plain SELECT of the status, no lock.
RemapCheck(q, r) ==
  /\ remap[q] = None /\ creating[q] = None
  /\ Status(r) \in {"completed", "applied"}
  /\ remap' = [remap EXCEPT ![q] = [run |-> r, step |-> "update"]]
  /\ UNCHANGED <<db, work, creating, env>>

\* ... then the rows without a branch get the one mapped now, and those that
\* were skipped are pending again.
RemapUpdate(q) ==
  LET r == remap[q].run IN
  /\ remap[q] # None /\ remap[q].step = "update"
  /\ rows' = [rows EXCEPT ![r] = [l \in Leads |->
                IF /\ @[l] # None /\ l \in routed
                   /\ ~@[l].org /\ @[l].applied \in {"pending", "skipped"}
                THEN [@[l] EXCEPT !.org = TRUE, !.applied = "pending"]
                ELSE @[l]]]
  /\ remap' = [remap EXCEPT ![q].step = "classify"]
  /\ UNCHANGED <<runs, nextId, presses, work, creating, env>>

\* ... and then, in a transaction of its own, the run is classified again.
RemapClassify(q) ==
  /\ remap[q] # None /\ remap[q].step = "classify"
  /\ rows' = Classified(remap[q].run)
  /\ remap' = [remap EXCEPT ![q] = None]
  /\ UNCHANGED <<runs, nextId, presses, work, creating, env>>

\* The request fails between its transactions, or dies with its process.
RemapAborted(q) ==
  /\ remap[q] # None
  /\ remap' = [remap EXCEPT ![q] = None]
  /\ UNCHANGED <<db, work, creating, env>>

-----------------------------------------------------------------------------
CatchupStep(p) == CatchupDone(p) \/ \E t \in Tenants : CreateCheck(p, t) \/ CatchupSkips(p, t)
CreateStep(c)  == CreateReplace(c) \/ CreateAbort(c)
ClaimStep(p)   == ClaimPull(p) \/ NoPullQueued(p)
ClaimApplyStep(p) == ClaimApply(p) \/ NoApplyQueued(p)

PullStep(p) ==
  \/ LoadMappings(p) \/ PageHeartbeat(p) \/ Classify(p) \/ FinishRun(p)
  \/ PullThrows(p) \/ FailRun(p)
  \/ \E l \in Leads : WalkPage(p, l) \/ PageFails(p, l)

ApplyStep(p) ==
  \/ ReadIntegration(p) \/ IntegrationThrows(p) \/ MarkNonImportable(p)
  \/ LoadImportableRows(p) \/ RecordOutcome(p) \/ RecordThrows(p)
  \/ ApplyHeartbeat(p) \/ FinishApply(p) \/ ApplyThrows(p) \/ ReturnToCompleted(p)
  \/ \E l \in Leads : ApplyRow(p, l)

RequestStep(q) ==
  \/ \E t \in Tenants : CreateCheck(q, t)
  \/ \E r \in RunIds : RemapCheck(q, r)
  \/ RemapUpdate(q) \/ RemapClassify(q) \/ RemapAborted(q)

Environment ==
  \/ \E l \in Leads : LandOutsideRun(l) \/ MapForm(l) \/ UnmapForm(l)
  \/ \E r \in RunIds : Age(r) \/ QueueApply(r)
  \/ \E p \in Procs : Crash(p) \/ Restart(p)

Next ==
  \/ Environment
  \/ \E q \in Requests : RequestStep(q)
  \/ \E c \in Creators : CreateStep(c)
  \/ \E p \in Procs :
       \/ StartTick(p) \/ CatchupStep(p) \/ Reap(p) \/ ClaimStep(p) \/ ClaimApplyStep(p)
       \/ TickAborted(p) \/ PullStep(p) \/ ApplyStep(p)

Spec == Init /\ [][Next]_vars

\* setInterval keeps ticking, an async function that was started runs on, a
\* process is restarted, time passes.  The database may refuse a statement of
\* a tick, but not the same one for ever: strong fairness.
Fairness ==
  /\ \A p \in Procs :
       /\ WF_vars(StartTick(p)) /\ WF_vars(Restart(p)) /\ WF_vars(CatchupStep(p))
       /\ WF_vars(PullStep(p)) /\ WF_vars(ApplyStep(p))
       /\ SF_vars(Reap(p)) /\ SF_vars(ClaimStep(p)) /\ SF_vars(ClaimApplyStep(p))
  /\ \A c \in Creators : WF_vars(CreateStep(c))
  /\ \A r \in RunIds : WF_vars(Age(r))

FairSpec == Spec /\ Fairness

-----------------------------------------------------------------------------
Pulling(p)  == work[p].pc \in PULLING
Applying(p) == work[p].pc \in APPLYING

\* Every variable keeps its shape, and so every run a status of the table's
\* CHECK constraint and every worker a step of tick().
TypeOK ==
  /\ runs \in [RunIds -> Run \cup {None}]
  /\ rows \in [RunIds -> [Leads -> Row \cup {None}]]
  /\ nextId \in 1 .. MaxRuns + 1
  /\ presses \in 0 .. MaxPresses
  /\ work \in [Procs -> Work]
  /\ creating \in [Creators -> Tenants \cup {None}]
  /\ remap \in [Requests -> Remap \cup {None}]
  /\ routed \subseteq Leads /\ synced \subseteq Leads
  /\ crashes \in 0 .. MaxCrashes

\* createPullRun checks and then deletes: no interleaving of requests, catch-ups
\* and pollers lets it delete a pull that is waiting for or held by a worker.
PullNeverDisplaced ==
  [][\A r \in RunIds : Status(r) \in PULL_LIVE => runs'[r] # None]_vars

\* The claim and the reaper together never give one pull to two workers, not
\* even when the first is only slow.
OneWorkerPerPull ==
  \A p, q \in Procs : p # q /\ Pulling(p) /\ Pulling(q) => work[p].run # work[q].run

\* A run the reaper has failed is not flipped back by the worker it was taken
\* from: the reason the administrator reads stands until the next pull.
ReapedStaysFailed ==
  [][\A r \in RunIds : Status(r) = "failed" =>
       runs'[r] = None \/ runs'[r].status = "failed"]_vars

\* The reaper tells the administrator of a failed pull that nothing was written
\* to the LMS: no row of a run that did not complete has an outcome, whatever
\* applies and remaps are still running.
FailedRunUntouched ==
  \A r \in RunIds, l \in Leads :
    Status(r) \in {"queued", "running", "failed"} /\ rows[r][l] # None
      => rows[r][l].applied = "pending"

\* Whoever reviews a completed run sees a verdict on every row: no page is
\* staged after the classification, by any worker.
CompletedRunIsClassified ==
  \A r \in RunIds, l \in Leads :
    Status(r) \in PostPull /\ rows[r][l] # None => rows[r][l].verdict # None

\* A row offered for import has a branch to land in, though mappings come and
\* go and a run is classified again.
ImportableHasBranch ==
  \A r \in RunIds : \A l \in Importable(r) : rows[r][l].org

\* A row recorded as applied keeps that outcome: no later apply, remap or
\* resumed worker turns it into anything else.
OutcomeIsFinal ==
  [][\A r \in RunIds, l \in Leads :
       rows[r][l] # None /\ rows[r][l].applied = "applied" =>
         rows'[r][l] = None \/ rows'[r][l].applied = "applied"]_vars

\* A live run keeps the tenant from starting another one: every live run stops
\* being live, through crashes, refused statements and thrown applies.
NoLockout ==
  \A r \in RunIds :
    Status(r) \in LIVE_STATUSES ~> Status(r) \notin LIVE_STATUSES

\* The catch-up has a slot of its own: no step that creates a scheduled run
\* takes away a run an administrator pulled (pull-poller.ts).
CatchupSparesManual ==
  [][\A r \in RunIds :
       Exists(r) /\ runs[r].kind = "manual" /\ runs'[r] = None =>
         \E n \in RunIds : ~Exists(n) /\ runs'[n] # None /\ runs'[n].kind = "manual"]_vars

\* "There is only ever one applier" (lead-apply.service.ts).
SingleApplier ==
  \A p, q \in Procs : p # q /\ Applying(p) /\ Applying(q) => work[p].run # work[q].run

\* After a remap the rows of a newly mapped form can be applied
\* (lead-pull.admin.service.ts): none that could land stays skipped.  An apply
\* between its two transactions breaks it; no run lists it, and the README tells how.
RemappedRowNotStranded ==
  \A r \in RunIds : \A l \in Importable(r) :
    rows[r][l].org => rows[r][l].applied # "skipped"

-----------------------------------------------------------------------------
(* The run table implements the promise of PullSlot.                        *)

Slots == Tenants \X {"manual", "scheduled"}

SlotState(t, k) ==
  IF \E r \in RunIds : InSlot(r, t, k) /\ runs[r].status = "running" THEN "running"
  ELSE IF \E r \in RunIds : InSlot(r, t, k) /\ runs[r].status = "queued" THEN "queued"
  ELSE "idle"

Promise == INSTANCE PullSlot WITH slot <- [s \in Slots |-> SlotState(s[1], s[2])]

\* Every pull a slot accepts is worked exactly once before the slot takes the
\* next one: requests, catch-ups, claims, reaps and slow workers all map to
\* steps of PullSlot or to none.
KeepsPromise == Promise!Spec

-----------------------------------------------------------------------------
(* The inductive invariant: what the steps keep so that the properties hold *)
(* of every reachable state.                                               *)

\* A run that was deleted or is still to come has no rows.
RowsHaveRun ==
  \A r \in RunIds : runs[r] = None => \A l \in Leads : rows[r][l] = None

\* Ids are handed out in order: a worker's run was created, and is not created again.
IdsGrow ==
  /\ \A r \in RunIds : r >= nextId => runs[r] = None
  /\ \A p \in Procs : Pulling(p) \/ Applying(p) => work[p].run \in RunIds /\ work[p].run < nextId
  /\ \A q \in Requests : remap[q] # None => remap[q].run < nextId

\* The advisory lock: two creations for a tenant are never both past the check.
CreationsExclude ==
  \A c, d \in Creators : c # d /\ creating[c] # None => creating[c] # creating[d]

\* Between the check and the delete no pull goes live in the slot.
CheckedSlotFree ==
  \A c \in Creators, r \in RunIds :
    creating[c] # None /\ InSlot(r, creating[c], KindOf(c)) => runs[r].status \notin PULL_LIVE

\* A worker pulls a run it has claimed, unless it was reaped or deleted since.
PullHoldsRun ==
  \A p \in Procs : Pulling(p) => Status(work[p].run) \in {"running", "failed", "deleted"}

\* Applies and remaps are about runs whose pull has completed, or deleted ones.
PostPullWork ==
  /\ \A p \in Procs : Applying(p) => Status(work[p].run) \in PostPull \cup {"deleted"}
  /\ \A q \in Requests : remap[q] # None => Status(remap[q].run) \in PostPull \cup {"deleted"}

\* Rows appear only once the walk has begun, and have verdicts once it has ended.
RowsOfPull ==
  /\ \A r \in RunIds, l \in Leads : Status(r) = "queued" => rows[r][l] = None
  /\ \A p \in Procs, l \in Leads :
       /\ work[p].pc = "load" => rows[work[p].run][l] = None
       /\ work[p].pc = "finish" /\ rows[work[p].run][l] # None
            => rows[work[p].run][l].verdict # None

IInv ==
  /\ TypeOK /\ RowsHaveRun /\ IdsGrow /\ CreationsExclude /\ CheckedSlotFree
  /\ PullHoldsRun /\ PostPullWork /\ RowsOfPull
  /\ OneWorkerPerPull /\ FailedRunUntouched /\ CompletedRunIsClassified /\ ImportableHasBranch

=============================================================================
