--------------------------- MODULE LeadLifecycle ---------------------------
(***************************************************************************)
(* What happens to a lead once it exists: leads-service creates it by hand, *)
(* edits it (stage, outcome, owner, next follow-up), schedules, completes   *)
(* and deletes its follow-ups, deletes it, and transfers it to a branch.    *)
(*                                                                         *)
(* Every handler runs in one READ COMMITTED transaction.  updateLead reads  *)
(* its row FOR UPDATE, so it is one step; the others read first and write   *)
(* later without having locked what they read, so they are a Begin step     *)
(* (what the reads return) and a commit step (the writes, serialised by the *)
(* row locks they take).                                                    *)
(***************************************************************************)
EXTENDS Naturals, Sequences, FiniteSets

CONSTANTS
    Leads,        \* lead ids, marketing_leads.id
    Users,        \* the people who act
    Admins,       \* those with tenant-wide reach (tenant_admin, super_admin)
    Orgs,         \* the branches of one tenant
    Maps,         \* Maps[u]: the branches u holds an active mapping to
    Phones,       \* telephone numbers; None is a lead without one
    Stages,       \* the tenant's lead_stage catalogue
    FollowStages, \* those with followup_required
    New, Out,     \* the stages 'new' and 'transferred_out'
    Outcomes,     \* the lead_stage_outcome catalogue
    OutcomeStage, \* the stage an outcome belongs to
    NeedsComment, \* the outcomes with requires_comment
    Statuses,     \* the follow_up_statuses catalogue
    None,         \* NULL
    Keep,         \* a key the request body does not carry
    Absent,       \* an id not inserted yet
    Entries,      \* the request bodies of POST /leads
    Bodies,       \* the request bodies of PATCH /leads/:id
    MaxByHand,    \* bound: leads entered by hand
    MaxDue,       \* bound: due times are 1..MaxDue
    MaxRows,      \* bound: follow-up rows ever inserted
    MaxWrites,    \* bound: writes to leads
    MaxOpen       \* bound: dialogs and transactions open at once

Due      == 1 .. MaxDue
NoDue    == 0          \* scheduled_at IS NULL
Comments == {"text", "empty"}

Lead == [org : Orgs, phone : Phones, stage : Stages, due : Due \cup {NoDue},
         outcome : Outcomes \cup {None}, comment : Comments, owner : Users \cup {None},
         version : 1 .. MaxWrites, active : BOOLEAN, deleted : BOOLEAN,
         next : Leads \cup {None}, copyOf : Leads \cup {None}]

\* What POST /leads and PATCH /leads/:id may ask for.
Entry == [org : Orgs, phone : Phones, stage : Stages, owner : Users \cup {None}]
Patch == [stage : Stages \cup {Keep}, outcome : Outcomes \cup {Keep},
          comment : Comments \cup {Keep}, owner : Users \cup {None, Keep},
          due : Due \cup {Keep}, rep : Users \cup {Keep}, phone : (Phones \ {None}) \cup {Keep},
          expected : BOOLEAN]

ASSUME CatalogueAssumption ==
    /\ {New, Out} \subseteq Stages
    /\ FollowStages \subseteq Stages \ {New, Out}
    /\ OutcomeStage \in [Outcomes -> Stages]
    /\ NeedsComment \subseteq Outcomes
    /\ {"pending", "completed"} \subseteq Statuses
    /\ Entries \subseteq Entry /\ Bodies \subseteq Patch
ASSUME NullAssumption ==
    /\ None \notin Leads /\ None \notin Users /\ None \notin Outcomes
    /\ Keep \notin Users /\ Keep \notin Outcomes /\ Keep \notin Stages
    /\ Keep \notin Due /\ Keep \notin Comments
    /\ Keep # None /\ Absent \notin Lead
ASSUME PeopleAssumption == Admins \subseteq Users /\ Maps \in [Users -> SUBSET Orgs]
ASSUME BoundsAssumption == {MaxByHand, MaxDue, MaxRows, MaxWrites, MaxOpen} \subseteq Nat \ {0}

VARIABLES
    lead,   \* lms.marketing_leads
    rows,   \* lms.lead_follow_ups, in the order of insertion
    dialog, \* each user's Edit Lead dialog: the lead as it was when opened
    tx,     \* each user's open transaction: what it has read so far
    now     \* the clock, as far as it can be read off updated_at

vars == <<lead, rows, dialog, tx, now>>

Idle   == [op |-> "idle"]
Closed == [lead |-> None]

FollowUp == [lead : Leads, status : Statuses, due : Due, done : BOOLEAN,
             owner : Users, deleted : BOOLEAN]

\* What an open transaction remembers.
Begin == [op : {"transfer"}, lead : Leads, to : Orgs, phone : Phones]
    \cup [op : {"schedule"}, lead : Leads, rep : Users]
    \cup [op : {"update"}, row : 1 .. MaxRows, prev : FollowUp, stage : Stages]
    \cup [op : {"delete"}, row : 1 .. MaxRows, left : SUBSET Due]

Exists(l) == lead[l] # Absent
Opened == {u \in Users : dialog[u] # Closed}
Begun  == {u \in Users : tx[u] # Idle}
MayOpen == Cardinality(Opened) + Cardinality(Begun) < MaxOpen
RowsOf(l) == {i \in DOMAIN rows : rows[i].lead = l}
Standing(i) == ~rows[i].deleted

(***************************************************************************)
(* Who may write where.                                                     *)
(***************************************************************************)
\* leadWriteCtx, the row policies and the scope triggers: an admin reaches every
\* branch of the tenant, anybody else the branches he is mapped to.
Reaches(u, o) == u \in Admins \/ o \in Maps[u]

\* iam.can_assign_to: both parties reach the lead's branch.
CanAssign(u, o, rep) == Reaches(u, o) /\ o \in Maps[rep]

\* effectiveInOrgActor: the user a write is attributed to.
ActorFor(u, o, owner) == IF o \in Maps[u] \/ owner = None THEN u ELSE owner

\* resolveLeadWriteScope
Writable(u, l) == Exists(l) /\ ~lead[l].deleted /\ Reaches(u, lead[l].org)

\* The partial unique index (org_id, phone) WHERE is_active, for the lead l.
PhoneIsFree(l, o, ph) ==
    ph = None \/ \A k \in Leads \ {l} :
                   Exists(k) /\ lead[k].active => <<lead[k].org, lead[k].phone>> # <<o, ph>>

\* The trigger that keeps an outcome and its comment with the stage they
\* belong to: what no longer fits is dropped without an error.
StageOutcomeTrigger(r) ==
    IF r.outcome = None \/ OutcomeStage[r.outcome] # r.stage
    THEN [r EXCEPT !.outcome = None, !.comment = "empty"]
    ELSE r

\* Every UPDATE of a lead gives it a new updated_at.
Written(r) == [StageOutcomeTrigger(r) EXCEPT !.version = now + 1]
Ticks == now < MaxWrites /\ now' = now + 1

\* A lead as it is inserted, by hand or as the copy a transfer makes.
NewLead(o, ph, stage, owner, copyOf) ==
    [org |-> o, phone |-> ph, stage |-> stage, due |-> NoDue, outcome |-> None,
     comment |-> "empty", owner |-> owner, version |-> now + 1, active |-> TRUE,
     deleted |-> FALSE, next |-> None, copyOf |-> copyOf]

(***************************************************************************)
(* Leads.                                                                   *)
(***************************************************************************)
\* A lead entered by hand.  A stage and an owner may come with it; without an
\* owner the picker proposes somebody of the branch, or nobody: pick.
CreateLead(u, l, e, pick) ==
    /\ ~Exists(l) /\ Cardinality({k \in Leads : Exists(k) /\ lead[k].copyOf = None}) < MaxByHand
    /\ Reaches(u, e.org) /\ Ticks
    /\ PhoneIsFree(l, e.org, e.phone)
    /\ e.owner # None => pick = e.owner
    /\ pick # None => e.org \in Maps[pick]
    /\ lead' = [lead EXCEPT ![l] = NewLead(e.org, e.phone, e.stage, pick, None)]
    /\ UNCHANGED <<rows, dialog, tx>>

\* The Edit Lead dialog opens on the lead as it is now.
OpenDialog(u, l) ==
    /\ Writable(u, l)
    /\ dialog[u] = Closed => MayOpen
    /\ dialog' = [dialog EXCEPT ![u] = [lead |-> l, seen |-> lead[l]]]
    /\ UNCHANGED <<lead, rows, tx, now>>

Or(given, current) == IF given = Keep THEN current ELSE given
Moves(r, p) == p.stage # Keep /\ p.stage # r.stage

\* Mutant: the version the dialog was opened on is not compared.
AnyVersion(u, l, p) == p.expected => dialog[u].lead = l

\* expected_updated_at, when the body carries it, must be the row's.
VersionIsCurrent(u, l, p) == p.expected => dialog[u].lead = l /\ dialog[u].seen.version = lead[l].version

\* Mutant: only an outcome the body names is compared with the stage.
CommentIsKeepable(r, p) ==
    LET outcome == Or(p.outcome, r.outcome)
        comment == Or(p.comment, r.comment)
    IN  /\ outcome \in NeedsComment => comment = "text"
        /\ p.outcome # Keep => OutcomeStage[p.outcome] = Or(p.stage, r.stage)
        /\ outcome = None => p.comment # "text"

\* assertOutcomeCommentIsKeepable
OutcomeCommentIsKeepable(r, p) ==
    LET outcome == Or(p.outcome, r.outcome)
        comment == Or(p.comment, r.comment)
    IN  /\ outcome # None =>
             /\ outcome \in NeedsComment => comment = "text"
             /\ OutcomeStage[outcome] = Or(p.stage, r.stage)
        /\ outcome = None => p.comment # "text"

\* assertFollowUpIsScheduled
FollowUpIsScheduled(r, p) ==
    Moves(r, p) /\ p.stage \in FollowStages => p.due # Keep \/ r.due # NoDue

\* The body must change the lead itself: a due time alone, or nothing, is refused.
ChangesTheLead(p) == \E k \in {"stage", "outcome", "comment", "owner", "phone"} : p[k] # Keep

\* The due time after the save: the one it schedules, none when it moves the
\* lead out of the follow-up stages, else the old one.
DueAfter(r, p) ==
    IF p.due # Keep THEN p.due
    ELSE IF Moves(r, p) /\ p.stage \notin FollowStages THEN NoDue
    ELSE r.due

Patched(r, p) ==
    [r EXCEPT !.stage = Or(p.stage, @), !.outcome = Or(p.outcome, @), !.comment = Or(p.comment, @),
              !.owner = Or(p.owner, @), !.phone = Or(p.phone, @), !.due = DueAfter(r, p)]

\* Mutant: nobody is found to attribute the follow-up to.
UnownedRow(l, due, rep) ==
    [lead |-> l, status |-> "pending", due |-> due, done |-> FALSE, owner |-> None, deleted |-> FALSE]

PendingRow(l, due, rep) ==
    [lead |-> l, status |-> "pending", due |-> due, done |-> FALSE, owner |-> rep, deleted |-> FALSE]

\* insertFollowUpTx: the history row of a newly scheduled follow-up.
Scheduled(fs, l, due, rep) == Append(fs, PendingRow(l, due, rep))

\* The open follow-ups of a lead go to its new owner.
HandedOver(fs, l, owner) ==
    [i \in DOMAIN fs |-> IF fs[i].lead = l /\ ~fs[i].deleted /\ ~fs[i].done
                         THEN [fs[i] EXCEPT !.owner = owner] ELSE fs[i]]

\* A transaction that deletes a follow-up holds its row until it ends.
RowsAreFree(l) == \A v \in Users : tx[v].op = "delete" => rows[tx[v].row].lead # l

\* Whom the follow-up of a save is for.
RepAfter(u, r, p) == Or(p.rep, IF r.owner # None THEN r.owner ELSE ActorFor(u, r.org, None))

\* Mutant: the hand-over comes before the new follow-up.
HandedOverFirst(u, l, p) ==
    LET after == Patched(lead[l], p)
        moved == IF p.owner \in Users THEN HandedOver(rows, l, p.owner) ELSE rows
    IN  IF p.due = Keep THEN moved ELSE Scheduled(moved, l, p.due, RepAfter(u, after, p))

\* The follow-ups after a save: the new one first, then the hand-over.
RowsAfter(u, l, p) ==
    LET after == Patched(lead[l], p)
        added == IF p.due = Keep THEN rows ELSE Scheduled(rows, l, p.due, RepAfter(u, after, p))
    IN  IF p.owner \in Users THEN HandedOver(added, l, p.owner) ELSE added

\* updateLead, from its locked read to the commit.
Save(u, l, p) ==
    /\ Writable(u, l) /\ Ticks
    /\ p.owner \in Users => CanAssign(u, lead[l].org, p.owner) /\ RowsAreFree(l)
    /\ p.rep # Keep => p.due # Keep /\ Reaches(p.rep, lead[l].org)
    /\ p.phone # Keep /\ lead[l].active => PhoneIsFree(l, lead[l].org, p.phone)
    /\ VersionIsCurrent(u, l, p)
    /\ OutcomeCommentIsKeepable(lead[l], p)
    /\ FollowUpIsScheduled(lead[l], p)
    /\ ChangesTheLead(p)
    /\ p.due # Keep => Len(rows) < MaxRows
    /\ lead' = [lead EXCEPT ![l] = Written(Patched(@, p))]
    /\ rows' = RowsAfter(u, l, p)
    /\ dialog' = IF p.expected THEN [dialog EXCEPT ![u] = Closed] ELSE dialog
    /\ UNCHANGED tx

\* deleteLead: is_active stays as it is.
DeleteLead(u, l) ==
    /\ Writable(u, l) /\ Ticks
    /\ lead' = [lead EXCEPT ![l] = Written([@ EXCEPT !.deleted = TRUE])]
    /\ UNCHANGED <<rows, dialog, tx>>

\* transferLead reads the active source, and the target branch, without a lock.
BeginTransfer(u, l, o) ==
    /\ tx[u] = Idle /\ MayOpen
    /\ Writable(u, l) /\ lead[l].active /\ lead[l].org \in Maps[u]
    /\ o # lead[l].org
    /\ tx' = [tx EXCEPT ![u] = [op |-> "transfer", lead |-> l, to |-> o, phone |-> lead[l].phone]]
    /\ UNCHANGED <<lead, rows, dialog, now>>

\* ... then inserts the copy and closes the source, whatever has become of it.
CommitTransfer(u, copy, owner) ==
    LET t == tx[u]
    IN  /\ t.op = "transfer"
        /\ ~Exists(copy) /\ Ticks
        /\ PhoneIsFree(copy, t.to, t.phone)
        /\ owner # None => t.to \in Maps[owner]
        /\ lead' = [lead EXCEPT
             ![copy] = NewLead(t.to, t.phone, New, owner, t.lead),
             ![t.lead] = Written([@ EXCEPT !.stage = Out, !.active = FALSE, !.next = copy])]
        /\ tx' = [tx EXCEPT ![u] = Idle]
        /\ UNCHANGED <<rows, dialog>>

(***************************************************************************)
(* Follow-ups.                                                              *)
(***************************************************************************)
\* createFollowUp looks the lead up, and with it whom to schedule for.
BeginSchedule(u, l, rep) ==
    /\ tx[u] = Idle /\ MayOpen
    /\ Writable(u, l)
    /\ rep \notin {u, Keep} => CanAssign(u, lead[l].org, rep)
    /\ tx' = [tx EXCEPT ![u] = [op |-> "schedule", lead |-> l,
                                rep |-> Or(rep, ActorFor(u, lead[l].org, lead[l].owner))]]
    /\ UNCHANGED <<lead, rows, dialog, now>>

CommitSchedule(u, due) ==
    LET t == tx[u]
    IN  /\ t.op = "schedule"
        /\ Ticks /\ Len(rows) < MaxRows
        /\ lead' = [lead EXCEPT ![t.lead] = Written([@ EXCEPT !.due = due])]
        /\ rows' = Scheduled(rows, t.lead, due, t.rep)
        /\ tx' = [tx EXCEPT ![u] = Idle]
        /\ UNCHANGED dialog

\* updateFollowUp reads the follow-up and the stage of its lead, unlocked.
BeginUpdate(u, i) ==
    /\ tx[u] = Idle /\ MayOpen
    /\ Standing(i) /\ Reaches(u, lead[rows[i].lead].org)
    /\ tx' = [tx EXCEPT ![u] = [op |-> "update", row |-> i, prev |-> rows[i],
                                stage |-> lead[rows[i].lead].stage]]
    /\ UNCHANGED <<lead, rows, dialog, now>>

\* Without a status the follow-up keeps the one it had: a note on a completed
\* follow-up completes it once more.
StatusAfter(prev, status) == Or(status, prev.status)
Completes(prev, status) == StatusAfter(prev, status) = "completed"

\* Completing without the next due time is refused while the stage read at the
\* start requires a follow-up.
MayComplete(t, status, next) ==
    Completes(t.prev, status) /\ next = Keep => t.stage \notin FollowStages

\* The row of this action: a new one, the old one is never changed.
ActionRow(prev, status, done, due) ==
    [prev EXCEPT !.status = StatusAfter(prev, status), !.due = Or(due, @),
                 !.done = IF status = Keep THEN @ ELSE done]

CommitUpdate(u, status, done, due, next) ==
    LET t == tx[u]
        l == t.prev.lead
        completes == Completes(t.prev, status)
        row == ActionRow(t.prev, status, done, due)
        opens == completes /\ next # Keep
    IN  /\ t.op = "update"
        /\ Ticks /\ Len(rows) + (IF opens THEN 2 ELSE 1) <= MaxRows
        /\ MayComplete(t, status, next)
        /\ lead' = [lead EXCEPT ![l] = Written([@ EXCEPT !.due =
                      IF opens THEN next ELSE IF completes THEN NoDue ELSE row.due])]
        /\ rows' = IF opens THEN Scheduled(Append(rows, row), l, next, t.prev.owner)
                            ELSE Append(rows, row)
        /\ tx' = [tx EXCEPT ![u] = Idle]
        /\ UNCHANGED dialog

\* deleteFollowUp marks the row, which it then holds, and starts the statement
\* that sets the lead's due time: the snapshot of that statement is what it
\* sees of the other follow-ups, even if it has to wait for the lead's lock.
BeginDelete(u, i) ==
    /\ tx[u] = Idle /\ MayOpen
    /\ Standing(i) /\ Reaches(u, lead[rows[i].lead].org)
    /\ \A v \in Users : tx[v].op = "delete" => tx[v].row # i
    /\ tx' = [tx EXCEPT ![u] =
                [op |-> "delete", row |-> i,
                 left |-> {rows[j].due : j \in {k \in RowsOf(rows[i].lead) \ {i} :
                                                  Standing(k) /\ rows[k].status = "pending"}}]]
    /\ UNCHANGED <<lead, rows, dialog, now>>

\* ORDER BY scheduled_at DESC LIMIT 1
IsLatest(due, dues) ==
    IF dues = {} THEN due = NoDue ELSE due \in dues /\ \A d \in dues : d <= due

CommitDelete(u, due) ==
    LET t == tx[u]
        l == rows[t.row].lead
    IN  /\ t.op = "delete"
        /\ Ticks
        /\ IsLatest(due, t.left)
        /\ lead' = [lead EXCEPT ![l] = Written([@ EXCEPT !.due = due])]
        /\ rows' = [rows EXCEPT ![t.row].deleted = TRUE]
        /\ tx' = [tx EXCEPT ![u] = Idle]
        /\ UNCHANGED dialog

\* A transaction that fails, whatever the reason, leaves nothing behind.
Rollback(u) ==
    /\ tx[u] # Idle
    /\ tx' = [tx EXCEPT ![u] = Idle]
    /\ UNCHANGED <<lead, rows, dialog, now>>

-----------------------------------------------------------------------------
Init ==
    /\ lead = [l \in Leads |-> Absent]
    /\ rows = <<>>
    /\ dialog = [u \in Users |-> Closed]
    /\ tx = [u \in Users |-> Idle]
    /\ now = 0

LeadStep(u, l) ==
    \/ \E e \in Entries, pick \in Users \cup {None} : CreateLead(u, l, e, pick)
    \/ OpenDialog(u, l)
    \/ \E p \in Bodies : Save(u, l, p)
    \/ DeleteLead(u, l)
    \/ \E o \in Orgs : BeginTransfer(u, l, o)
    \/ \E owner \in Users \cup {None} : CommitTransfer(u, l, owner)
    \/ \E rep \in Users \cup {Keep} : BeginSchedule(u, l, rep)

FollowUpStep(u) ==
    \/ \E i \in DOMAIN rows : BeginUpdate(u, i) \/ BeginDelete(u, i)
    \/ \E due \in Due : CommitSchedule(u, due)
    \/ \E status \in Statuses \cup {Keep}, done \in BOOLEAN, due, next \in Due \cup {Keep} :
         CommitUpdate(u, status, done, due, next)
    \/ \E due \in Due \cup {NoDue} : CommitDelete(u, due)

Next == \E u \in Users : (\E l \in Leads : LeadStep(u, l)) \/ FollowUpStep(u) \/ Rollback(u)

Spec == Init /\ [][Next]_vars

-----------------------------------------------------------------------------
(* Properties. *)

\* Every variable has the shape its table, or its handler, gives it.
TypeOK ==
    /\ now \in 0 .. MaxWrites
    /\ lead \in [Leads -> Lead \cup {Absent}]
    /\ rows \in Seq(FollowUp) /\ Len(rows) <= MaxRows
    /\ dialog \in [Users -> [lead : Leads, seen : Lead] \cup {Closed}]
    /\ tx \in [Users -> Begin \cup {Idle}]
    /\ \A i \in DOMAIN rows : Exists(rows[i].lead)
    /\ \A u \in Users : dialog[u] # Closed => Exists(dialog[u].lead)
    /\ \A u \in Users : tx[u].op \in {"transfer", "schedule"} => Exists(tx[u].lead)
    /\ \A u \in Users : tx[u].op = "update" => Exists(tx[u].prev.lead)
    /\ \A u \in Users : tx[u].op = "delete" => tx[u].row \in DOMAIN rows

\* A lead nobody is reminded of: its stage requires a follow-up and it has no
\* due time, so the reminders and the overdue lists pass it by.
Dark(r) == r # Absent /\ r.active /\ ~r.deleted /\ r.stage \in FollowStages /\ r.due = NoDue

\* A save from a dialog that carries the version it was opened on never writes
\* over anything: whatever the other handlers committed since, updateLead finds
\* the lead exactly as the user saw it, or refuses.
NoLostUpdate ==
    [][\A u \in Users : dialog[u] # Closed /\ dialog'[u] = Closed =>
         lead[dialog[u].lead] = dialog[u].seen]_vars

TextBodies == {b \in Bodies : b.comment = "text"}

\* A comment a save accepted is in the lead afterwards: the checks of updateLead
\* refuse every body whose comment the database would silently drop.
CommentIsKept ==
    [][\A l \in Leads : lead'[l] # lead[l] /\ lead'[l].comment = "empty" =>
         ~ \E u \in Users, p \in TextBodies : Save(u, l, p)]_vars

\* An outcome that was recorded is never dropped on the way to another stage: a
\* save that would orphan it is refused, and only a transfer clears it.  (So a
\* lead with an outcome cannot go back to a stage that has none.)
OutcomeIsNeverDropped ==
    [][\A l \in Leads : Exists(l) /\ lead[l].outcome # None /\ lead'[l].outcome = None =>
         lead'[l].stage = Out]_vars

\* Whoever gets a lead gets its open follow-ups too, the one scheduled by the
\* same save included.
FollowUpsMoveWithLead ==
    [][\A l \in Leads : Exists(l) /\ lead'[l].owner # lead[l].owner /\ lead'[l].owner # None =>
         \A i \in RowsOf(l)' : rows'[i].deleted \/ rows'[i].done \/ rows'[i].owner = lead'[l].owner]_vars

\* What leads.repository.ts says of the check in updateLead: it makes a stage
\* that requires a follow-up and its due time inseparable.  A lead created, or
\* its follow-up deleted, breaks it; no run lists it, and the README tells how.
StageHasItsDueTime == \A l \in Leads : ~Dark(lead[l])

\* What deleteFollowUp says of the due time it derives: it is that of a
\* follow-up that survives.  Two deleted at once each find the other still
\* there; no run lists this either.
DueTimeHasItsFollowUp ==
    \A l \in Leads : Exists(l) /\ lead[l].due # NoDue =>
        \E i \in RowsOf(l) : Standing(i) /\ rows[i].due = lead[l].due
=============================================================================
