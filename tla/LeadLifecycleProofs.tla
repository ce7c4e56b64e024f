------------------------ MODULE LeadLifecycleProofs ------------------------
(***************************************************************************)
(* LeadLifecycle for every value of its constants: type correctness, no    *)
(* lost update, no outcome dropped on the way to another stage, the comment *)
(* a save accepts, and the owner of a lead and of its follow-ups.           *)
(***************************************************************************)
EXTENDS LeadLifecycle, TLAPS

-----------------------------------------------------------------------------
(* What the operators on leads and follow-ups return. *)

LEMMA BoundsAreNat == MaxWrites \in Nat /\ MaxRows \in Nat /\ MaxDue \in Nat
  BY BoundsAssumption

LEMMA TriggerType ==
  ASSUME NEW r \in Lead
  PROVE  StageOutcomeTrigger(r) \in Lead
  BY DEF StageOutcomeTrigger, Lead, Comments

LEMMA WrittenType ==
  ASSUME NEW r \in Lead, now \in 0 .. MaxWrites, now < MaxWrites
  PROVE  Written(r) \in Lead
<1>1. now + 1 \in 1 .. MaxWrites
  BY BoundsAreNat
<1>2. StageOutcomeTrigger(r) \in Lead
  BY TriggerType
<1> QED
  BY <1>1, <1>2 DEF Written, Lead

LEMMA PatchedType ==
  ASSUME NEW r \in Lead, NEW p \in Patch
  PROVE  Patched(r, p) \in Lead
<1>1. DueAfter(r, p) \in Due \cup {NoDue}
  BY DEF DueAfter, Moves, Lead, Patch
<1>2. /\ Or(p.stage, r.stage) \in Stages
      /\ Or(p.outcome, r.outcome) \in Outcomes \cup {None}
      /\ Or(p.comment, r.comment) \in Comments
      /\ Or(p.owner, r.owner) \in Users \cup {None}
      /\ Or(p.phone, r.phone) \in Phones
  BY DEF Or, Lead, Patch
<1> QED
  BY <1>1, <1>2 DEF Patched, Lead

LEMMA NewLeadType ==
  ASSUME NEW o \in Orgs, NEW ph \in Phones, NEW stage \in Stages, NEW owner \in Users \cup {None},
         NEW copyOf \in Leads \cup {None}, now \in 0 .. MaxWrites, now < MaxWrites
  PROVE  NewLead(o, ph, stage, owner, copyOf) \in Lead
<1>1. now + 1 \in 1 .. MaxWrites
  BY BoundsAreNat
<1> QED
  BY <1>1 DEF NewLead, Lead, Comments

LEMMA HandedOverType ==
  ASSUME NEW fs \in Seq(FollowUp), NEW l \in Leads, NEW owner \in Users
  PROVE  /\ HandedOver(fs, l, owner) \in Seq(FollowUp)
         /\ Len(HandedOver(fs, l, owner)) = Len(fs)
         /\ DOMAIN HandedOver(fs, l, owner) = DOMAIN fs
         /\ \A i \in DOMAIN fs : HandedOver(fs, l, owner)[i].lead = fs[i].lead
<1> DEFINE h == HandedOver(fs, l, owner)
<1>1. \A i \in DOMAIN fs : h[i] \in FollowUp /\ h[i].lead = fs[i].lead
  <2> SUFFICES ASSUME NEW i \in DOMAIN fs
               PROVE  h[i] \in FollowUp /\ h[i].lead = fs[i].lead
    OBVIOUS
  <2>1. fs[i] \in FollowUp
    OBVIOUS
  <2>2. [fs[i] EXCEPT !.owner = owner] \in FollowUp /\ [fs[i] EXCEPT !.owner = owner].lead = fs[i].lead
    BY <2>1 DEF FollowUp
  <2> QED
    BY <2>1, <2>2 DEF HandedOver
<1>2. DOMAIN h = DOMAIN fs /\ DOMAIN fs = 1 .. Len(fs) /\ Len(fs) \in Nat
  BY DEF HandedOver
<1>3. h = [i \in 1 .. Len(fs) |-> h[i]]
  BY <1>2 DEF HandedOver
<1> HIDE DEF h
<1>4. h \in [1 .. Len(fs) -> FollowUp]
  BY <1>1, <1>2, <1>3
<1>5. h \in Seq(FollowUp)
  BY <1>2, <1>4
<1>6. Len(h) = Len(fs)
  BY <1>2, <1>5
<1> QED
  BY <1>1, <1>2, <1>5, <1>6 DEF h

\* fs grows out of old by rows of the lead l alone.
Extends(old, fs, l) ==
    /\ fs \in Seq(FollowUp) /\ Len(old) <= Len(fs)
    /\ \A i \in 1 .. Len(fs) : IF i <= Len(old) THEN fs[i].lead = old[i].lead ELSE fs[i].lead = l

LEMMA ScheduledExtends ==
  ASSUME NEW fs \in Seq(FollowUp), NEW l \in Leads, NEW due \in Due, NEW rep \in Users
  PROVE  /\ Extends(fs, Scheduled(fs, l, due, rep), l)
         /\ Len(Scheduled(fs, l, due, rep)) = Len(fs) + 1
<1>1. PendingRow(l, due, rep) \in FollowUp
  BY CatalogueAssumption DEF PendingRow, FollowUp
<1>2. PendingRow(l, due, rep).lead = l
  BY DEF PendingRow
<1> QED
  BY <1>1, <1>2 DEF Scheduled, Extends

LEMMA HandedOverExtends ==
  ASSUME NEW old \in Seq(FollowUp), NEW fs \in Seq(FollowUp), NEW l \in Leads, NEW owner \in Users,
         Extends(old, fs, l)
  PROVE  Extends(old, HandedOver(fs, l, owner), l)
<1> DEFINE h == HandedOver(fs, l, owner)
<1>1. h \in Seq(FollowUp) /\ Len(h) = Len(fs) /\ \A i \in DOMAIN fs : h[i].lead = fs[i].lead
  BY HandedOverType
<1>2. \A i \in 1 .. Len(fs) : h[i].lead = fs[i].lead
  BY <1>1
<1> HIDE DEF h
<1>3. Extends(old, h, l)
  BY <1>1, <1>2 DEF Extends
<1> QED
  BY <1>3 DEF h

\* The follow-ups after a save: at most one more, and that one is of the lead.
LEMMA RowsAfterType ==
  ASSUME TypeOK, NEW u \in Users, NEW l \in Leads, Exists(l), NEW p \in Patch
  PROVE  /\ Extends(rows, RowsAfter(u, l, p), l)
         /\ Len(RowsAfter(u, l, p)) = IF p.due = Keep THEN Len(rows) ELSE Len(rows) + 1
<1> DEFINE after == Patched(lead[l], p)
           rep   == RepAfter(u, after, p)
           added == IF p.due = Keep THEN rows ELSE Scheduled(rows, l, p.due, rep)
<1>1. lead[l] \in Lead /\ rows \in Seq(FollowUp)
  BY DEF TypeOK, Exists
<1>2. after \in Lead
  BY <1>1, PatchedType
<1>3. rep \in Users
  <2>1. after.owner \in Users \cup {None} /\ p.rep \in Users \cup {Keep}
    BY <1>2 DEF Lead, Patch
  <2>2. ActorFor(u, after.org, None) = u
    BY DEF ActorFor
  <2> QED
    BY <2>1, <2>2 DEF RepAfter, Or
<1>4. Extends(rows, added, l) /\ Len(added) = IF p.due = Keep THEN Len(rows) ELSE Len(rows) + 1
  <2>1. CASE p.due = Keep
    BY <2>1, <1>1 DEF Extends
  <2>2. CASE p.due # Keep
    <3>1. p.due \in Due
      BY <2>2 DEF Patch
    <3> QED
      BY <2>2, <3>1, <1>1, <1>3, ScheduledExtends
  <2> QED
    BY <2>1, <2>2
<1>5. added \in Seq(FollowUp)
  BY <1>4 DEF Extends
<1>6. RowsAfter(u, l, p) = IF p.owner \in Users THEN HandedOver(added, l, p.owner) ELSE added
  BY DEF RowsAfter
<1> HIDE DEF added
<1>7. CASE p.owner \in Users
  <2>1. Extends(rows, HandedOver(added, l, p.owner), l)
    BY <1>1, <1>4, <1>5, <1>7, HandedOverExtends
  <2>2. Len(HandedOver(added, l, p.owner)) = Len(added)
    BY <1>5, <1>7, HandedOverType
  <2> QED
    BY <1>4, <1>6, <1>7, <2>1, <2>2
<1>8. CASE p.owner \notin Users
  BY <1>4, <1>6, <1>8
<1> QED
  BY <1>7, <1>8

-----------------------------------------------------------------------------
(* Type correctness. *)

LEMMA TypeInit == Init => TypeOK
  BY BoundsAreNat DEF Init, TypeOK, Exists, Idle, Closed

\* A write that gives leads a record keeps those that existed.
LEMMA LeadWrite ==
  ASSUME TypeOK, NEW l \in Leads, NEW r \in Lead, lead' = [lead EXCEPT ![l] = r]
  PROVE  /\ lead' \in [Leads -> Lead \cup {Absent}]
         /\ \A k \in Leads : Exists(k) => Exists(k)'
         /\ Exists(l)'
  BY NullAssumption DEF TypeOK, Exists

LEMMA TickType ==
  ASSUME TypeOK, Ticks
  PROVE  now < MaxWrites /\ now' \in 0 .. MaxWrites
  BY BoundsAreNat DEF TypeOK, Ticks

\* What a step has to show that writes to the lead l, its follow-ups or a copy
\* of it, and at most closes dialogs and transactions.
LEMMA TypeKept ==
  ASSUME TypeOK, now' \in 0 .. MaxWrites, NEW l \in Leads, Exists(l)',
         lead' \in [Leads -> Lead \cup {Absent}], \A k \in Leads : Exists(k) => Exists(k)',
         Extends(rows, rows', l), Len(rows') <= MaxRows,
         \A u \in Users : dialog'[u] = dialog[u] \/ dialog'[u] = Closed,
         dialog' \in [Users -> [lead : Leads, seen : Lead] \cup {Closed}],
         \A u \in Users : tx'[u] = tx[u] \/ tx'[u] = Idle,
         tx' \in [Users -> Begin \cup {Idle}]
  PROVE  TypeOK'
<1>1. rows' \in Seq(FollowUp) /\ Len(rows) \in Nat /\ Len(rows') \in Nat
      /\ DOMAIN rows = 1 .. Len(rows) /\ DOMAIN rows' = 1 .. Len(rows') /\ Len(rows) <= Len(rows')
  BY DEF TypeOK, Extends
<1>2. \A i \in DOMAIN rows' : Exists(rows[i].lead)'
  <2> SUFFICES ASSUME NEW i \in DOMAIN rows' PROVE Exists(rows[i].lead)'
    OBVIOUS
  <2>1. CASE i <= Len(rows)
    <3>1. rows[i] \in FollowUp /\ Exists(rows[i].lead)
      BY <1>1, <2>1 DEF TypeOK
    <3>2. rows[i].lead \in Leads
      BY <3>1 DEF FollowUp
    <3>3. rows'[i].lead = rows[i].lead
      BY <1>1, <2>1 DEF Extends
    <3> QED
      BY <3>1, <3>2, <3>3 DEF Exists
  <2>2. CASE ~(i <= Len(rows))
    <3>1. rows'[i].lead = l
      BY <1>1, <2>2 DEF Extends
    <3> QED
      BY <3>1 DEF Exists
  <2> QED
    BY <2>1, <2>2
<1>3. \A u \in Users : dialog'[u] # Closed => Exists(dialog[u].lead)'
  <2> SUFFICES ASSUME NEW u \in Users, dialog'[u] # Closed PROVE Exists(dialog[u].lead)'
    OBVIOUS
  <2>1. dialog'[u] = dialog[u]
    OBVIOUS
  <2>2. dialog[u].lead \in Leads /\ Exists(dialog[u].lead)
    BY <2>1 DEF TypeOK
  <2> QED
    BY <2>1, <2>2 DEF Exists
<1>4. \A u \in Users : /\ tx'[u].op \in {"transfer", "schedule"} => Exists(tx[u].lead)'
                       /\ tx'[u].op = "update" => Exists(tx[u].prev.lead)'
                       /\ tx'[u].op = "delete" => tx'[u].row \in DOMAIN rows'
  <2> SUFFICES ASSUME NEW u \in Users
               PROVE  /\ tx'[u].op \in {"transfer", "schedule"} => Exists(tx[u].lead)'
                      /\ tx'[u].op = "update" => Exists(tx[u].prev.lead)'
                      /\ tx'[u].op = "delete" => tx'[u].row \in DOMAIN rows'
    OBVIOUS
  <2>1. CASE tx'[u] = Idle
    BY <2>1 DEF Idle
  <2>2. CASE tx'[u] = tx[u] /\ tx[u] # Idle
    <3>1. tx[u] \in Begin
      BY <2>2 DEF TypeOK
    <3>2. /\ tx[u].op \in {"transfer", "schedule"} => tx[u].lead \in Leads
          /\ tx[u].op = "update" => tx[u].prev.lead \in Leads
      BY <3>1 DEF Begin, FollowUp
    <3>3. /\ tx[u].op \in {"transfer", "schedule"} => Exists(tx[u].lead)
          /\ tx[u].op = "update" => Exists(tx[u].prev.lead)
          /\ tx[u].op = "delete" => tx[u].row \in DOMAIN rows
      BY DEF TypeOK
    <3> QED
      BY <2>2, <3>2, <3>3, <1>1 DEF Exists
  <2> QED
    BY <2>1, <2>2
<1> QED
  BY <1>1, <1>2, <1>3, <1>4 DEF TypeOK

LEMMA ExtendsSelf ==
  ASSUME TypeOK, NEW l \in Leads
  PROVE  Extends(rows, rows, l) /\ Len(rows) <= MaxRows
  BY DEF TypeOK, Extends

LEMMA CreateLeadType ==
  ASSUME TypeOK, NEW u \in Users, NEW l \in Leads, NEW e \in Entries, NEW pick \in Users \cup {None},
         CreateLead(u, l, e, pick)
  PROVE  TypeOK'
<1>1. now < MaxWrites /\ now \in 0 .. MaxWrites /\ now' \in 0 .. MaxWrites
  BY TickType DEF CreateLead, TypeOK
<1>2. e.org \in Orgs /\ e.phone \in Phones /\ e.stage \in Stages
  BY CatalogueAssumption DEF Entry
<1> DEFINE r == NewLead(e.org, e.phone, e.stage, pick, None)
<1>3. r \in Lead
  BY <1>1, <1>2, NewLeadType
<1>4. lead' = [lead EXCEPT ![l] = r] /\ rows' = rows /\ dialog' = dialog /\ tx' = tx
  BY DEF CreateLead
<1> HIDE DEF r
<1>5. /\ lead' \in [Leads -> Lead \cup {Absent}]
      /\ \A k \in Leads : Exists(k) => Exists(k)'
      /\ Exists(l)'
  BY <1>3, <1>4, LeadWrite
<1>6. dialog \in [Users -> [lead : Leads, seen : Lead] \cup {Closed}] /\ tx \in [Users -> Begin \cup {Idle}]
  BY DEF TypeOK
<1> QED
  BY <1>1, <1>4, <1>5, <1>6, ExtendsSelf, TypeKept

LEMMA OpenDialogType ==
  ASSUME TypeOK, NEW u \in Users, NEW l \in Leads, OpenDialog(u, l)
  PROVE  TypeOK'
<1>1. Exists(l) /\ lead[l] \in Lead
  BY DEF OpenDialog, Writable, Exists, TypeOK
<1>2. dialog' = [dialog EXCEPT ![u] = [lead |-> l, seen |-> lead[l]]] /\ UNCHANGED <<lead, rows, tx, now>>
  BY DEF OpenDialog
<1>3. dialog' \in [Users -> [lead : Leads, seen : Lead] \cup {Closed}]
  BY <1>1, <1>2 DEF TypeOK
<1>4. \A v \in Users : dialog'[v] # Closed => Exists(dialog[v].lead)'
  BY <1>1, <1>2 DEF TypeOK, Exists
<1> QED
  BY <1>2, <1>3, <1>4 DEF TypeOK, Exists

LEMMA SaveType ==
  ASSUME TypeOK, NEW u \in Users, NEW l \in Leads, NEW p \in Bodies, Save(u, l, p)
  PROVE  TypeOK'
<1>1. now < MaxWrites /\ now \in 0 .. MaxWrites /\ now' \in 0 .. MaxWrites
  BY TickType DEF Save, TypeOK
<1>2. Exists(l) /\ lead[l] \in Lead
  BY DEF Save, Writable, Exists, TypeOK
<1>3. p \in Patch
  BY CatalogueAssumption
<1> DEFINE r == Written(Patched(lead[l], p))
<1>4. r \in Lead
  BY <1>1, <1>2, <1>3, PatchedType, WrittenType
<1>5. lead' = [lead EXCEPT ![l] = r] /\ rows' = RowsAfter(u, l, p) /\ tx' = tx
  BY DEF Save
<1> HIDE DEF r
<1>6. /\ lead' \in [Leads -> Lead \cup {Absent}]
      /\ \A k \in Leads : Exists(k) => Exists(k)'
      /\ Exists(l)'
  BY <1>4, <1>5, LeadWrite
<1>7. Extends(rows, rows', l) /\ Len(rows') <= MaxRows
  <2>1. /\ Extends(rows, RowsAfter(u, l, p), l)
        /\ Len(RowsAfter(u, l, p)) = IF p.due = Keep THEN Len(rows) ELSE Len(rows) + 1
    BY <1>2, <1>3, RowsAfterType
  <2>2. (p.due # Keep => Len(rows) < MaxRows) /\ Len(rows) <= MaxRows /\ Len(rows) \in Nat
    BY DEF Save, TypeOK
  <2> QED
    BY <1>5, <2>1, <2>2, BoundsAreNat
<1>8. dialog' = [dialog EXCEPT ![u] = Closed] \/ dialog' = dialog
  BY DEF Save
<1>9. /\ dialog \in [Users -> [lead : Leads, seen : Lead] \cup {Closed}]
      /\ tx \in [Users -> Begin \cup {Idle}]
  BY DEF TypeOK
<1>10. /\ \A v \in Users : dialog'[v] = dialog[v] \/ dialog'[v] = Closed
       /\ dialog' \in [Users -> [lead : Leads, seen : Lead] \cup {Closed}]
  BY <1>8, <1>9
<1> QED
  BY <1>1, <1>5, <1>6, <1>7, <1>9, <1>10, TypeKept

LEMMA DeleteLeadType ==
  ASSUME TypeOK, NEW u \in Users, NEW l \in Leads, DeleteLead(u, l)
  PROVE  TypeOK'
<1>1. now < MaxWrites /\ now \in 0 .. MaxWrites /\ now' \in 0 .. MaxWrites
  BY TickType DEF DeleteLead, TypeOK
<1>2. lead[l] \in Lead
  BY DEF DeleteLead, Writable, Exists, TypeOK
<1> DEFINE gone == [lead[l] EXCEPT !.deleted = TRUE]
           r == Written(gone)
<1>3. gone \in Lead
  BY <1>2 DEF Lead
<1>4. r \in Lead
  <2> HIDE DEF gone
  <2> QED
    BY <1>1, <1>3, WrittenType
<1>5. lead' = [lead EXCEPT ![l] = r] /\ rows' = rows /\ dialog' = dialog /\ tx' = tx
  BY DEF DeleteLead
<1> HIDE DEF r
<1>6. /\ lead' \in [Leads -> Lead \cup {Absent}]
      /\ \A k \in Leads : Exists(k) => Exists(k)'
      /\ Exists(l)'
  BY <1>4, <1>5, LeadWrite
<1>7. dialog \in [Users -> [lead : Leads, seen : Lead] \cup {Closed}] /\ tx \in [Users -> Begin \cup {Idle}]
  BY DEF TypeOK
<1> QED
  BY <1>1, <1>5, <1>6, <1>7, ExtendsSelf, TypeKept

\* What opening a transaction has to show of what it has read.
LEMMA BeginKept ==
  ASSUME TypeOK, NEW u \in Users, NEW t \in Begin,
         t.op \in {"transfer", "schedule"} => Exists(t.lead),
         t.op = "update" => Exists(t.prev.lead),
         t.op = "delete" => t.row \in DOMAIN rows,
         tx' = [tx EXCEPT ![u] = t], UNCHANGED <<lead, rows, dialog, now>>
  PROVE  TypeOK'
<1>1. tx' \in [Users -> Begin \cup {Idle}]
  BY DEF TypeOK
<1>2. \A v \in Users : tx'[v] = tx[v] \/ tx'[v] = t
  BY DEF TypeOK
<1>3. \A v \in Users : /\ tx'[v].op \in {"transfer", "schedule"} => Exists(tx'[v].lead)
                       /\ tx'[v].op = "update" => Exists(tx'[v].prev.lead)
                       /\ tx'[v].op = "delete" => tx'[v].row \in DOMAIN rows
  BY <1>2 DEF TypeOK
<1> QED
  BY <1>1, <1>3 DEF TypeOK, Exists

LEMMA BeginTransferType ==
  ASSUME TypeOK, NEW u \in Users, NEW l \in Leads, NEW o \in Orgs, BeginTransfer(u, l, o)
  PROVE  TypeOK'
<1> DEFINE t == [op |-> "transfer", lead |-> l, to |-> o, phone |-> lead[l].phone]
<1>1. Exists(l) /\ lead[l].phone \in Phones
  BY DEF BeginTransfer, Writable, Exists, TypeOK, Lead
<1>2. t \in Begin /\ t.op = "transfer" /\ t.lead = l
  BY <1>1 DEF Begin
<1>3. tx' = [tx EXCEPT ![u] = t] /\ UNCHANGED <<lead, rows, dialog, now>>
  BY DEF BeginTransfer
<1> HIDE DEF t
<1> QED
  BY <1>1, <1>2, <1>3, BeginKept

LEMMA BeginScheduleType ==
  ASSUME TypeOK, NEW u \in Users, NEW l \in Leads, NEW rep \in Users \cup {Keep}, BeginSchedule(u, l, rep)
  PROVE  TypeOK'
<1> DEFINE for == Or(rep, ActorFor(u, lead[l].org, lead[l].owner))
           t == [op |-> "schedule", lead |-> l, rep |-> for]
<1>1. Exists(l) /\ lead[l].owner \in Users \cup {None}
  BY DEF BeginSchedule, Writable, Exists, TypeOK, Lead
<1>2. for \in Users
  BY <1>1, NullAssumption DEF Or, ActorFor
<1>3. tx' = [tx EXCEPT ![u] = t] /\ UNCHANGED <<lead, rows, dialog, now>>
  BY DEF BeginSchedule
<1> HIDE DEF for
<1>4. t \in Begin /\ t.op = "schedule" /\ t.lead = l
  BY <1>2 DEF Begin
<1> HIDE DEF t
<1> QED
  BY <1>1, <1>3, <1>4, BeginKept

\* A standing row: what it is and what it belongs to.
LEMMA RowType ==
  ASSUME TypeOK, NEW i \in DOMAIN rows
  PROVE  /\ i \in 1 .. MaxRows /\ rows[i] \in FollowUp
         /\ rows[i].lead \in Leads /\ Exists(rows[i].lead) /\ lead[rows[i].lead] \in Lead
<1>1. i \in 1 .. MaxRows /\ rows[i] \in FollowUp /\ Exists(rows[i].lead)
  BY BoundsAreNat DEF TypeOK
<1>2. rows[i].lead \in Leads
  BY <1>1 DEF FollowUp
<1> QED
  BY <1>1, <1>2 DEF TypeOK, Exists

LEMMA BeginUpdateType ==
  ASSUME TypeOK, NEW u \in Users, NEW i \in DOMAIN rows, BeginUpdate(u, i)
  PROVE  TypeOK'
<1> DEFINE s == lead[rows[i].lead].stage
           t == [op |-> "update", row |-> i, prev |-> rows[i], stage |-> s]
<1>1. i \in 1 .. MaxRows /\ rows[i] \in FollowUp /\ Exists(rows[i].lead) /\ s \in Stages
  BY RowType DEF Lead
<1>2. tx' = [tx EXCEPT ![u] = t] /\ UNCHANGED <<lead, rows, dialog, now>>
  BY DEF BeginUpdate
<1>3. t \in Begin /\ t.op = "update" /\ t.prev = rows[i]
  BY <1>1 DEF Begin
<1> HIDE DEF t
<1> QED
  BY <1>1, <1>2, <1>3, BeginKept

LEMMA BeginDeleteType ==
  ASSUME TypeOK, NEW u \in Users, NEW i \in DOMAIN rows, BeginDelete(u, i)
  PROVE  TypeOK'
<1> DEFINE left == {rows[j].due : j \in {k \in RowsOf(rows[i].lead) \ {i} :
                                           Standing(k) /\ rows[k].status = "pending"}}
           t == [op |-> "delete", row |-> i, left |-> left]
<1>1. i \in 1 .. MaxRows
  BY RowType
<1>2. left \subseteq Due
  BY RowType DEF RowsOf, FollowUp
<1>3. tx' = [tx EXCEPT ![u] = t] /\ UNCHANGED <<lead, rows, dialog, now>>
  BY DEF BeginDelete
<1> HIDE DEF left
<1>4. t \in Begin /\ t.op = "delete" /\ t.row = i
  BY <1>1, <1>2 DEF Begin
<1> HIDE DEF t
<1> QED
  BY <1>3, <1>4, BeginKept

LEMMA RollbackType ==
  ASSUME TypeOK, NEW u \in Users, Rollback(u)
  PROVE  TypeOK'
<1>1. tx' = [tx EXCEPT ![u] = Idle] /\ UNCHANGED <<lead, rows, dialog, now>>
  BY DEF Rollback
<1>2. tx' \in [Users -> Begin \cup {Idle}]
  BY <1>1 DEF TypeOK
<1>3. \A v \in Users : /\ tx'[v].op \in {"transfer", "schedule"} => Exists(tx'[v].lead)
                       /\ tx'[v].op = "update" => Exists(tx'[v].prev.lead)
                       /\ tx'[v].op = "delete" => tx'[v].row \in DOMAIN rows
  BY <1>1 DEF TypeOK, Idle
<1> QED
  BY <1>1, <1>2, <1>3 DEF TypeOK, Exists

\* What an open transaction remembers, by what it is doing.
LEMMA OpenTx ==
  ASSUME TypeOK, NEW u \in Users
  PROVE  /\ tx[u].op = "transfer" => /\ tx[u].lead \in Leads /\ Exists(tx[u].lead) /\ lead[tx[u].lead] \in Lead
                                     /\ tx[u].to \in Orgs /\ tx[u].phone \in Phones
         /\ tx[u].op = "schedule" => /\ tx[u].lead \in Leads /\ Exists(tx[u].lead) /\ lead[tx[u].lead] \in Lead
                                     /\ tx[u].rep \in Users
         /\ tx[u].op = "update" => /\ tx[u].prev \in FollowUp /\ tx[u].prev.lead \in Leads
                                   /\ Exists(tx[u].prev.lead) /\ lead[tx[u].prev.lead] \in Lead
         /\ tx[u].op = "delete" => tx[u].row \in DOMAIN rows /\ tx[u].left \subseteq Due
<1>1. tx[u] \in Begin \/ tx[u] = Idle
  BY DEF TypeOK
<1>2. /\ tx[u].op = "transfer" => tx[u].lead \in Leads /\ tx[u].to \in Orgs /\ tx[u].phone \in Phones
      /\ tx[u].op = "schedule" => tx[u].lead \in Leads /\ tx[u].rep \in Users
      /\ tx[u].op = "update" => tx[u].prev \in FollowUp
      /\ tx[u].op = "delete" => tx[u].left \subseteq Due
  BY <1>1 DEF Begin, Idle
<1>3. tx[u].op = "update" => tx[u].prev.lead \in Leads
  BY <1>2 DEF FollowUp
<1>4. /\ tx[u].op = "transfer" => Exists(tx[u].lead)
      /\ tx[u].op = "schedule" => Exists(tx[u].lead)
      /\ tx[u].op = "update" => Exists(tx[u].prev.lead)
      /\ tx[u].op = "delete" => tx[u].row \in DOMAIN rows
  BY DEF TypeOK
<1>5. \A l \in Leads : Exists(l) => lead[l] \in Lead
  BY DEF TypeOK, Exists
<1> QED
  BY <1>2, <1>3, <1>4, <1>5

\* What a commit has to show: TypeKept, for a transaction that ends with it.
LEMMA CommitKept ==
  ASSUME TypeOK, NEW u \in Users, Ticks, NEW l \in Leads, Exists(l)', dialog' = dialog,
         tx' = [tx EXCEPT ![u] = Idle],
         lead' \in [Leads -> Lead \cup {Absent}], \A k \in Leads : Exists(k) => Exists(k)',
         Extends(rows, rows', l), Len(rows') <= MaxRows
  PROVE  TypeOK'
<1>1. now' \in 0 .. MaxWrites
  BY TickType
<1>2. /\ dialog \in [Users -> [lead : Leads, seen : Lead] \cup {Closed}]
      /\ tx \in [Users -> Begin \cup {Idle}]
  BY DEF TypeOK
<1>3. tx' \in [Users -> Begin \cup {Idle}] /\ \A v \in Users : tx'[v] = tx[v] \/ tx'[v] = Idle
  BY <1>2
<1> QED
  BY <1>1, <1>2, <1>3, TypeKept

LEMMA CommitTransferType ==
  ASSUME TypeOK, NEW u \in Users, NEW copy \in Leads, NEW owner \in Users \cup {None},
         CommitTransfer(u, copy, owner)
  PROVE  TypeOK'
<1>1. now \in 0 .. MaxWrites /\ now < MaxWrites /\ Ticks
  BY TickType DEF CommitTransfer, TypeOK
<1>2. PICK l \in Leads : /\ l = tx[u].lead /\ Exists(l) /\ lead[l] \in Lead
                        /\ tx[u].to \in Orgs /\ tx[u].phone \in Phones
  BY OpenTx DEF CommitTransfer
<1> DEFINE closed == [lead[l] EXCEPT !.stage = Out, !.active = FALSE, !.next = copy]
           new == NewLead(tx[u].to, tx[u].phone, New, owner, l)
           old == Written(closed)
<1>3. New \in Stages /\ Out \in Stages
  BY CatalogueAssumption
<1>4. closed \in Lead
  BY <1>2, <1>3 DEF Lead
<1>5. old \in Lead
  <2> HIDE DEF closed
  <2> QED
    BY <1>1, <1>4, WrittenType
<1>6. new \in Lead
  BY <1>1, <1>2, <1>3, NewLeadType
<1>7. /\ lead' = [lead EXCEPT ![copy] = new, ![l] = old]
      /\ ~Exists(copy) /\ rows' = rows /\ dialog' = dialog /\ tx' = [tx EXCEPT ![u] = Idle]
  <2>1. copy # l
    BY <1>2 DEF CommitTransfer
  <2> QED
    BY <1>2, <2>1 DEF CommitTransfer
<1> HIDE DEF new, old
<1>8. lead' \in [Leads -> Lead \cup {Absent}]
  BY <1>2, <1>5, <1>6, <1>7 DEF TypeOK
<1>9. \A k \in Leads : lead'[k] = lead[k] \/ lead'[k] = new \/ lead'[k] = old
  BY <1>7 DEF TypeOK
<1>10. \A k \in Leads : Exists(k) => Exists(k)'
  BY <1>5, <1>6, <1>9, NullAssumption DEF Exists
<1>11. Exists(l)'
  BY <1>2, <1>10
<1> QED
  BY <1>1, <1>2, <1>7, <1>8, <1>10, <1>11, ExtendsSelf, CommitKept

LEMMA CommitScheduleType ==
  ASSUME TypeOK, NEW u \in Users, NEW due \in Due, CommitSchedule(u, due)
  PROVE  TypeOK'
<1>1. now \in 0 .. MaxWrites /\ now < MaxWrites /\ Ticks
  BY TickType DEF CommitSchedule, TypeOK
<1>2. PICK l \in Leads : l = tx[u].lead /\ Exists(l) /\ lead[l] \in Lead /\ tx[u].rep \in Users
  BY OpenTx DEF CommitSchedule
<1> DEFINE set == [lead[l] EXCEPT !.due = due]
           r == Written(set)
<1>3. set \in Lead
  BY <1>2 DEF Lead
<1>4. r \in Lead
  <2> HIDE DEF set
  <2> QED
    BY <1>1, <1>3, WrittenType
<1>5. /\ lead' = [lead EXCEPT ![l] = r] /\ rows' = Scheduled(rows, l, due, tx[u].rep)
      /\ dialog' = dialog /\ tx' = [tx EXCEPT ![u] = Idle]
  BY <1>2 DEF CommitSchedule
<1> HIDE DEF r
<1>6. /\ lead' \in [Leads -> Lead \cup {Absent}]
      /\ \A k \in Leads : Exists(k) => Exists(k)'
      /\ Exists(l)'
  BY <1>2, <1>4, <1>5, LeadWrite
<1>7. Extends(rows, rows', l) /\ Len(rows') <= MaxRows
  <2>1. rows \in Seq(FollowUp) /\ Len(rows) < MaxRows
    BY DEF TypeOK, CommitSchedule
  <2>2. Extends(rows, rows', l) /\ Len(rows') = Len(rows) + 1
    BY <2>1, <1>2, <1>5, ScheduledExtends
  <2> QED
    BY <2>1, <2>2, BoundsAreNat
<1> QED
  BY <1>1, <1>2, <1>5, <1>6, <1>7, CommitKept

\* The row updateFollowUp appends is of the lead of the one it read.
LEMMA ActionRowType ==
  ASSUME NEW prev \in FollowUp, NEW status \in Statuses \cup {Keep}, NEW done \in BOOLEAN,
         NEW due \in Due \cup {Keep}
  PROVE  ActionRow(prev, status, done, due) \in FollowUp
         /\ ActionRow(prev, status, done, due).lead = prev.lead
<1>1. StatusAfter(prev, status) \in Statuses /\ Or(due, prev.due) \in Due
  BY DEF StatusAfter, Or, FollowUp
<1>2. (IF status = Keep THEN prev.done ELSE done) \in BOOLEAN
  BY DEF FollowUp
<1> QED
  BY <1>1, <1>2 DEF ActionRow, FollowUp

LEMMA CommitUpdateType ==
  ASSUME TypeOK, NEW u \in Users, NEW status \in Statuses \cup {Keep}, NEW done \in BOOLEAN,
         NEW due \in Due \cup {Keep}, NEW next \in Due \cup {Keep},
         CommitUpdate(u, status, done, due, next)
  PROVE  TypeOK'
<1>1. now \in 0 .. MaxWrites /\ now < MaxWrites /\ Ticks
  BY TickType DEF CommitUpdate, TypeOK
<1>2. PICK l \in Leads : /\ l = tx[u].prev.lead /\ Exists(l) /\ lead[l] \in Lead
                        /\ tx[u].prev \in FollowUp /\ tx[u].prev.owner \in Users
  BY OpenTx DEF CommitUpdate, FollowUp
<1> DEFINE row == ActionRow(tx[u].prev, status, done, due)
           completes == Completes(tx[u].prev, status)
           opens == completes /\ next # Keep
           dueNow == IF opens THEN next ELSE IF completes THEN NoDue ELSE row.due
           set == [lead[l] EXCEPT !.due = dueNow]
           r == Written(set)
<1>3. row \in FollowUp /\ row.lead = l
  BY <1>2, ActionRowType
<1>4. dueNow \in Due \cup {NoDue} /\ (opens => next \in Due)
  <2>1. row.due \in Due
    BY <1>3 DEF FollowUp
  <2> HIDE DEF row, completes
  <2> QED
    BY <2>1
<1>5. set \in Lead
  <2> HIDE DEF dueNow
  <2> QED
    BY <1>2, <1>4 DEF Lead
<1>6. r \in Lead
  <2> HIDE DEF set
  <2> QED
    BY <1>1, <1>5, WrittenType
<1>7. /\ lead' = [lead EXCEPT ![l] = r]
      /\ rows' = IF opens THEN Scheduled(Append(rows, row), l, next, tx[u].prev.owner) ELSE Append(rows, row)
      /\ Len(rows) + (IF opens THEN 2 ELSE 1) <= MaxRows
      /\ dialog' = dialog /\ tx' = [tx EXCEPT ![u] = Idle]
  BY <1>2 DEF CommitUpdate
<1> HIDE DEF r, row, opens
<1>8. /\ lead' \in [Leads -> Lead \cup {Absent}]
      /\ \A k \in Leads : Exists(k) => Exists(k)'
      /\ Exists(l)'
  BY <1>2, <1>6, <1>7, LeadWrite
<1>9. Extends(rows, rows', l) /\ Len(rows') <= MaxRows
  <2> DEFINE fs == Append(rows, row)
  <2>1. rows \in Seq(FollowUp)
    BY DEF TypeOK
  <2>2. fs \in Seq(FollowUp) /\ Len(fs) = Len(rows) + 1 /\ Extends(rows, fs, l)
    BY <2>1, <1>3 DEF Extends
  <2> HIDE DEF fs
  <2>3. CASE opens
    <3>1. Extends(fs, rows', l) /\ Len(rows') = Len(fs) + 1
      BY <1>2, <1>4, <1>7, <2>2, <2>3, ScheduledExtends DEF fs
    <3>2. Extends(rows, rows', l)
      BY <2>1, <2>2, <3>1 DEF Extends
    <3> QED
      BY <1>7, <2>1, <2>2, <2>3, <3>1, <3>2, BoundsAreNat
  <2>4. CASE ~opens
    BY <1>7, <2>1, <2>2, <2>4, BoundsAreNat DEF fs
  <2> QED
    BY <2>3, <2>4
<1> QED
  BY <1>1, <1>2, <1>7, <1>8, <1>9, CommitKept

LEMMA CommitDeleteType ==
  ASSUME TypeOK, NEW u \in Users, NEW due \in Due \cup {NoDue}, CommitDelete(u, due)
  PROVE  TypeOK'
<1>1. now \in 0 .. MaxWrites /\ now < MaxWrites /\ Ticks
  BY TickType DEF CommitDelete, TypeOK
<1>2. PICK i \in DOMAIN rows : i = tx[u].row
  BY OpenTx DEF CommitDelete
<1>3. PICK l \in Leads : l = rows[i].lead /\ Exists(l) /\ lead[l] \in Lead /\ rows[i] \in FollowUp
  BY RowType
<1> DEFINE set == [lead[l] EXCEPT !.due = due]
           r == Written(set)
           gone == [rows[i] EXCEPT !.deleted = TRUE]
<1>4. set \in Lead
  BY <1>3 DEF Lead
<1>5. r \in Lead
  <2> HIDE DEF set
  <2> QED
    BY <1>1, <1>4, WrittenType
<1>6. gone \in FollowUp /\ gone.lead = l
  BY <1>3 DEF FollowUp
<1>7. /\ lead' = [lead EXCEPT ![l] = r] /\ rows' = [rows EXCEPT ![i] = gone]
      /\ dialog' = dialog /\ tx' = [tx EXCEPT ![u] = Idle]
  BY <1>2, <1>3 DEF CommitDelete
<1> HIDE DEF r, gone
<1>8. /\ lead' \in [Leads -> Lead \cup {Absent}]
      /\ \A k \in Leads : Exists(k) => Exists(k)'
      /\ Exists(l)'
  BY <1>3, <1>5, <1>7, LeadWrite
<1>9. Extends(rows, rows', l) /\ Len(rows') <= MaxRows
  <2>1. rows \in Seq(FollowUp) /\ Len(rows) <= MaxRows
    BY DEF TypeOK
  <2>2. rows' \in Seq(FollowUp) /\ Len(rows') = Len(rows)
        /\ \A k \in 1 .. Len(rows) : rows'[k].lead = rows[k].lead
    BY <1>3, <1>6, <1>7, <2>1
  <2> QED
    BY <2>1, <2>2 DEF Extends
<1> QED
  BY <1>1, <1>3, <1>7, <1>8, <1>9, CommitKept

LEMMA TypeStep ==
  ASSUME TypeOK, [Next]_vars
  PROVE  TypeOK'
<1>1. CASE UNCHANGED vars
  BY <1>1 DEF vars, TypeOK, Exists
<1>2. ASSUME NEW u \in Users, NEW l \in Leads, LeadStep(u, l) PROVE TypeOK'
  BY <1>2, CreateLeadType, OpenDialogType, SaveType, DeleteLeadType, BeginTransferType,
     CommitTransferType, BeginScheduleType DEF LeadStep
<1>3. ASSUME NEW u \in Users, FollowUpStep(u) PROVE TypeOK'
  BY <1>3, BeginUpdateType, BeginDeleteType, CommitScheduleType, CommitUpdateType, CommitDeleteType
     DEF FollowUpStep
<1>4. ASSUME NEW u \in Users, Rollback(u) PROVE TypeOK'
  BY <1>4, RollbackType
<1> QED
  BY <1>1, <1>2, <1>3, <1>4 DEF Next

\* Every table, dialog and transaction keeps the shape its schema or handler
\* gives it, and never refers to a lead or a follow-up that is not there.
THEOREM TypeCorrect == Spec => []TypeOK
  BY TypeInit, TypeStep, PTL DEF Spec

-----------------------------------------------------------------------------
(* What a write does to the version and the outcome of a lead.              *)

\* The trigger's work: an outcome fits the stage it is recorded at.
OutcomeFits ==
    \A l \in Leads : Exists(l) /\ lead[l].outcome # None => OutcomeStage[lead[l].outcome] = lead[l].stage

\* What a write of r keeps of the lead k: the outcome, unless it closes the lead.
KeepsOutcome(k, r) ==
    r.stage # Out /\ lead[k].outcome # None => r.outcome # None /\ OutcomeStage[r.outcome] = r.stage

\* What a step does to the lead k.
Touches(k) ==
    \/ lead'[k] = lead[k]
    \/ ~Exists(k) /\ lead'[k].version = now + 1 /\ lead'[k].outcome = None
    \/ Exists(k) /\ \E r \in Lead : lead'[k] = Written(r) /\ KeepsOutcome(k, r)

\* A step that writes, one that opens a dialog, and one that does neither.
WriteStep ==
    /\ Ticks /\ \A k \in Leads : Touches(k)
    /\ \A u \in Users : \/ dialog'[u] = dialog[u]
                        \/ /\ dialog'[u] = Closed
                           /\ \E l \in Leads, p \in Bodies : VersionIsCurrent(u, l, p) /\ p.expected
ReadStep == UNCHANGED <<lead, dialog, now>>

LEMMA WrittenFields ==
  ASSUME NEW r \in Lead, now \in 0 .. MaxWrites, now < MaxWrites
  PROVE  /\ Written(r) \in Lead /\ Written(r).version = now + 1 /\ Written(r).stage = r.stage
         /\ r.outcome # None /\ OutcomeStage[r.outcome] = r.stage => Written(r).outcome = r.outcome
         /\ Written(r).outcome # None => OutcomeStage[Written(r).outcome] = Written(r).stage
<1> DEFINE t == StageOutcomeTrigger(r)
<1>1. t \in Lead /\ Written(r) \in Lead
  BY TriggerType, WrittenType
<1>2. /\ t.stage = r.stage
      /\ r.outcome # None /\ OutcomeStage[r.outcome] = r.stage => t.outcome = r.outcome
      /\ t.outcome # None => OutcomeStage[t.outcome] = t.stage
  BY DEF StageOutcomeTrigger, Lead
<1>3. Written(r) = [t EXCEPT !.version = now + 1]
  BY DEF Written
<1> HIDE DEF t
<1>4. Written(r).version = now + 1 /\ Written(r).stage = t.stage /\ Written(r).outcome = t.outcome
  BY <1>1, <1>3 DEF Lead
<1> QED
  BY <1>1, <1>2, <1>4

\* A write that leaves stage and outcome alone keeps the outcome.
LEMMA SameStage ==
  ASSUME OutcomeFits, NEW k \in Leads, Exists(k), NEW r \in Lead,
         r.stage = lead[k].stage, r.outcome = lead[k].outcome
  PROVE  KeepsOutcome(k, r)
  BY DEF OutcomeFits, KeepsOutcome

LEMMA OneWrite ==
  ASSUME TypeOK, NEW l \in Leads, Exists(l), NEW r \in Lead, KeepsOutcome(l, r),
         lead' = [lead EXCEPT ![l] = Written(r)]
  PROVE  \A k \in Leads : Touches(k)
<1>1. \A k \in Leads : k # l => lead'[k] = lead[k]
  BY DEF TypeOK
<1>2. lead'[l] = Written(r)
  BY DEF TypeOK
<1> QED
  BY <1>1, <1>2 DEF Touches

LEMMA SaveWrites ==
  ASSUME TypeOK, NEW u \in Users, NEW l \in Leads, NEW p \in Bodies, Save(u, l, p)
  PROVE  WriteStep
<1> DEFINE r == Patched(lead[l], p)
<1>1. Exists(l) /\ lead[l] \in Lead /\ p \in Patch
  BY CatalogueAssumption DEF Save, Writable, Exists, TypeOK
<1>2. r \in Lead
  BY <1>1, PatchedType
<1>3. r.stage = Or(p.stage, lead[l].stage) /\ r.outcome = Or(p.outcome, lead[l].outcome)
  BY <1>1 DEF Patched, Lead
<1>4. lead[l].outcome # None => Or(p.outcome, lead[l].outcome) # None
  BY <1>1, NullAssumption DEF Or, Patch
<1>5. OutcomeCommentIsKeepable(lead[l], p) /\ lead' = [lead EXCEPT ![l] = Written(r)] /\ Ticks
  BY DEF Save
<1> HIDE DEF r
<1>6. KeepsOutcome(l, r)
  BY <1>3, <1>4, <1>5 DEF OutcomeCommentIsKeepable, KeepsOutcome
<1>7. \A k \in Leads : Touches(k)
  BY <1>1, <1>2, <1>5, <1>6, OneWrite
<1>8. \A v \in Users : dialog'[v] = dialog[v] \/ (v = u /\ dialog'[v] = Closed /\ p.expected /\ VersionIsCurrent(u, l, p))
  BY DEF Save, TypeOK
<1> QED
  BY <1>5, <1>7, <1>8 DEF WriteStep

LEMMA CreateLeadWrites ==
  ASSUME TypeOK, NEW u \in Users, NEW l \in Leads, NEW e \in Entries, NEW pick \in Users \cup {None},
         CreateLead(u, l, e, pick)
  PROVE  WriteStep
<1>1. \A k \in Leads : lead'[k] = lead[k] \/ (k = l /\ lead'[k] = NewLead(e.org, e.phone, e.stage, pick, None))
  BY DEF CreateLead, TypeOK
<1> QED
  BY <1>1 DEF CreateLead, NewLead, WriteStep, Touches

LEMMA DeleteLeadWrites ==
  ASSUME TypeOK, OutcomeFits, NEW u \in Users, NEW l \in Leads, DeleteLead(u, l)
  PROVE  WriteStep
<1> DEFINE r == [lead[l] EXCEPT !.deleted = TRUE]
<1>1. Exists(l) /\ lead[l] \in Lead
  BY DEF DeleteLead, Writable, Exists, TypeOK
<1>2. r \in Lead /\ r.stage = lead[l].stage /\ r.outcome = lead[l].outcome
  BY <1>1 DEF Lead
<1>3. lead' = [lead EXCEPT ![l] = Written(r)] /\ Ticks /\ dialog' = dialog
  BY DEF DeleteLead
<1> HIDE DEF r
<1> QED
  BY <1>1, <1>2, <1>3, SameStage, OneWrite DEF WriteStep

LEMMA CommitTransferWrites ==
  ASSUME TypeOK, NEW u \in Users, NEW copy \in Leads, NEW owner \in Users \cup {None},
         CommitTransfer(u, copy, owner)
  PROVE  WriteStep
<1>1. PICK l \in Leads : l = tx[u].lead /\ Exists(l) /\ lead[l] \in Lead
  BY OpenTx DEF CommitTransfer
<1> DEFINE r == [lead[l] EXCEPT !.stage = Out, !.active = FALSE, !.next = copy]
           new == NewLead(tx[u].to, tx[u].phone, New, owner, l)
<1>2. r \in Lead /\ r.stage = Out
  BY <1>1, CatalogueAssumption DEF Lead
<1>3. new.version = now + 1 /\ new.outcome = None
  BY DEF NewLead
<1>4. /\ lead' = [lead EXCEPT ![copy] = new, ![l] = Written(r)]
      /\ ~Exists(copy) /\ Ticks /\ dialog' = dialog
  <2>1. copy # l
    BY <1>1 DEF CommitTransfer
  <2> QED
    BY <1>1, <2>1 DEF CommitTransfer
<1> HIDE DEF r, new
<1>5. \A k \in Leads : \/ lead'[k] = lead[k] \/ (k = copy /\ lead'[k] = new)
                       \/ (k = l /\ lead'[k] = Written(r))
  BY <1>4 DEF TypeOK
<1>6. KeepsOutcome(l, r)
  BY <1>2 DEF KeepsOutcome
<1> QED
  BY <1>1, <1>2, <1>3, <1>4, <1>5, <1>6 DEF WriteStep, Touches

\* The three commits that set a due time and nothing else of the lead.
LEMMA DueWrites ==
  ASSUME TypeOK, OutcomeFits, NEW l \in Leads, Exists(l), NEW due \in Due \cup {NoDue},
         lead' = [lead EXCEPT ![l] = Written([lead[l] EXCEPT !.due = due])],
         Ticks, dialog' = dialog
  PROVE  WriteStep
<1> DEFINE r == [lead[l] EXCEPT !.due = due]
<1>1. lead[l] \in Lead
  BY DEF Exists, TypeOK
<1>2. r \in Lead /\ r.stage = lead[l].stage /\ r.outcome = lead[l].outcome
  BY <1>1 DEF Lead
<1>3. lead' = [lead EXCEPT ![l] = Written(r)]
  OBVIOUS
<1> HIDE DEF r
<1> QED
  BY <1>2, <1>3, SameStage, OneWrite DEF WriteStep

LEMMA CommitUpdateWrites ==
  ASSUME TypeOK, OutcomeFits, NEW u \in Users, NEW status \in Statuses \cup {Keep}, NEW done \in BOOLEAN,
         NEW due \in Due \cup {Keep}, NEW next \in Due \cup {Keep},
         CommitUpdate(u, status, done, due, next)
  PROVE  WriteStep
<1>1. /\ tx[u].prev \in FollowUp /\ tx[u].prev.lead \in Leads /\ Exists(tx[u].prev.lead)
  BY OpenTx DEF CommitUpdate
<1> DEFINE row == ActionRow(tx[u].prev, status, done, due)
           completes == Completes(tx[u].prev, status)
           dueNow == IF completes /\ next # Keep THEN next ELSE IF completes THEN NoDue ELSE row.due
<1>2. dueNow \in Due \cup {NoDue}
  <2>1. row.due \in Due
    BY <1>1, ActionRowType DEF FollowUp
  <2> HIDE DEF row, completes
  <2> QED
    BY <2>1
<1>3. /\ lead' = [lead EXCEPT ![tx[u].prev.lead] = Written([lead[tx[u].prev.lead] EXCEPT !.due = dueNow])]
      /\ Ticks /\ dialog' = dialog
  BY DEF CommitUpdate
<1> HIDE DEF dueNow
<1> QED
  BY <1>1, <1>2, <1>3, DueWrites

LEMMA FollowUpWrites ==
  ASSUME TypeOK, OutcomeFits, NEW u \in Users, FollowUpStep(u)
  PROVE  WriteStep \/ ReadStep
<1>1. ASSUME NEW due \in Due, CommitSchedule(u, due) PROVE WriteStep
  <2>1. tx[u].lead \in Leads /\ Exists(tx[u].lead)
    BY <1>1, OpenTx DEF CommitSchedule
  <2>2. /\ lead' = [lead EXCEPT ![tx[u].lead] = Written([lead[tx[u].lead] EXCEPT !.due = due])]
        /\ Ticks /\ dialog' = dialog
    BY <1>1 DEF CommitSchedule
  <2> QED
    BY <2>1, <2>2, DueWrites
<1>2. ASSUME NEW due \in Due \cup {NoDue}, CommitDelete(u, due) PROVE WriteStep
  <2>1. PICK l \in Leads : l = rows[tx[u].row].lead /\ Exists(l)
    BY <1>2, OpenTx, RowType DEF CommitDelete
  <2>2. /\ lead' = [lead EXCEPT ![l] = Written([lead[l] EXCEPT !.due = due])]
        /\ Ticks /\ dialog' = dialog
    BY <1>2, <2>1 DEF CommitDelete
  <2> QED
    BY <2>1, <2>2, DueWrites
<1>3. ASSUME NEW i \in DOMAIN rows, BeginUpdate(u, i) \/ BeginDelete(u, i) PROVE ReadStep
  BY <1>3 DEF BeginUpdate, BeginDelete, ReadStep
<1> QED
  BY <1>1, <1>2, <1>3, CommitUpdateWrites DEF FollowUpStep

LEMMA EveryStep ==
  ASSUME TypeOK, OutcomeFits, [Next]_vars
  PROVE  WriteStep \/ ReadStep \/ \E u \in Users, l \in Leads : OpenDialog(u, l)
<1>1. CASE UNCHANGED vars
  BY <1>1 DEF vars, ReadStep
<1>2. ASSUME NEW u \in Users, NEW l \in Leads, LeadStep(u, l), ~OpenDialog(u, l) PROVE WriteStep \/ ReadStep
  <2>1. ASSUME NEW o \in Orgs, BeginTransfer(u, l, o) PROVE ReadStep
    BY <2>1 DEF BeginTransfer, ReadStep
  <2>2. ASSUME NEW rep \in Users \cup {Keep}, BeginSchedule(u, l, rep) PROVE ReadStep
    BY <2>2 DEF BeginSchedule, ReadStep
  <2> QED
    BY <1>2, <2>1, <2>2, CreateLeadWrites, SaveWrites, DeleteLeadWrites, CommitTransferWrites DEF LeadStep
<1>3. ASSUME NEW u \in Users, Rollback(u) PROVE ReadStep
  BY <1>3 DEF Rollback, ReadStep
<1> QED
  BY <1>1, <1>2, <1>3, FollowUpWrites DEF Next

-----------------------------------------------------------------------------
(* The versions: no lead is newer than the clock, and a dialog that saw the *)
(* version a lead has now saw the lead as it is now.                        *)
Fresh ==
    /\ \A l \in Leads : Exists(l) => lead[l].version <= now
    /\ \A u \in Users : dialog[u] # Closed =>
         /\ dialog[u].seen.version <= now
         /\ dialog[u].seen.version = lead[dialog[u].lead].version => dialog[u].seen = lead[dialog[u].lead]

IInv == TypeOK /\ OutcomeFits /\ Fresh

LEMMA IInvInit == Init => IInv
  BY TypeInit DEF Init, IInv, OutcomeFits, Fresh, Exists

LEMMA OutcomeFitsWrite ==
  ASSUME TypeOK, TypeOK', OutcomeFits, WriteStep
  PROVE  OutcomeFits'
<1>1. now \in 0 .. MaxWrites /\ now < MaxWrites
  BY TickType DEF WriteStep, TypeOK
<1> SUFFICES ASSUME NEW k \in Leads, Exists(k)', lead'[k].outcome # None
             PROVE  OutcomeStage[lead'[k].outcome] = lead'[k].stage
  BY DEF OutcomeFits
<1>2. CASE lead'[k] = lead[k]
  BY <1>2 DEF OutcomeFits, Exists
<1>3. CASE lead'[k] # lead[k]
  <2>1. PICK r \in Lead : lead'[k] = Written(r)
    BY <1>3 DEF WriteStep, Touches
  <2> QED
    BY <1>1, <2>1, WrittenFields
<1> QED
  BY <1>2, <1>3

LEMMA FreshWrite ==
  ASSUME TypeOK, TypeOK', Fresh, WriteStep
  PROVE  Fresh'
<1>1. now \in 0 .. MaxWrites /\ now < MaxWrites /\ now' = now + 1 /\ now \in Nat /\ MaxWrites \in Nat
  BY TickType, BoundsAreNat DEF WriteStep, TypeOK, Ticks
<1>2. \A k \in Leads : lead'[k] = lead[k] \/ lead'[k].version = now + 1
  BY <1>1, WrittenFields DEF WriteStep, Touches
<1>3. \A k \in Leads : Exists(k)' => lead'[k].version <= now'
  <2> SUFFICES ASSUME NEW k \in Leads, Exists(k)' PROVE lead'[k].version <= now'
    OBVIOUS
  <2>1. CASE lead'[k] = lead[k]
    <3>1. Exists(k) /\ lead[k] \in Lead
      BY <2>1 DEF Exists, TypeOK
    <3>2. lead[k].version <= now /\ lead[k].version \in 1 .. MaxWrites
      BY <3>1 DEF Fresh, Lead
    <3> QED
      BY <1>1, <2>1, <3>2
  <2>2. CASE lead'[k].version = now + 1
    BY <1>1, <2>2
  <2> QED
    BY <1>2, <2>1, <2>2
<1>4. ASSUME NEW u \in Users, dialog'[u] # Closed
      PROVE  /\ dialog'[u].seen.version <= now'
             /\ dialog'[u].seen.version = lead'[dialog'[u].lead].version =>
                  dialog'[u].seen = lead'[dialog'[u].lead]
  <2>1. dialog'[u] = dialog[u]
    BY <1>4 DEF WriteStep
  <2>2. dialog[u] \in [lead : Leads, seen : Lead]
    BY <1>4, <2>1 DEF TypeOK
  <2>3. /\ dialog[u].seen.version <= now /\ dialog[u].seen.version \in 1 .. MaxWrites
        /\ dialog[u].seen.version = lead[dialog[u].lead].version => dialog[u].seen = lead[dialog[u].lead]
    BY <1>4, <2>1, <2>2 DEF Fresh, Lead
  <2>4. dialog[u].seen.version < now + 1
    BY <1>1, <2>3
  <2> QED
    BY <1>1, <1>2, <2>1, <2>2, <2>3, <2>4
<1> QED
  BY <1>3, <1>4 DEF Fresh

LEMMA OpenKeepsIInv ==
  ASSUME IInv, NEW u \in Users, NEW l \in Leads, OpenDialog(u, l)
  PROVE  OutcomeFits' /\ Fresh'
<1>1. /\ dialog' = [dialog EXCEPT ![u] = [lead |-> l, seen |-> lead[l]]] /\ UNCHANGED <<lead, now>>
      /\ Exists(l)
  BY DEF OpenDialog, Writable
<1>2. \A v \in Users : dialog'[v] = IF v = u THEN [lead |-> l, seen |-> lead[l]] ELSE dialog[v]
  BY <1>1 DEF IInv, TypeOK
<1>3. OutcomeFits'
  BY <1>1 DEF IInv, OutcomeFits, Exists
<1>4. Fresh'
  BY <1>1, <1>2 DEF IInv, Fresh, Exists
<1> QED
  BY <1>3, <1>4

LEMMA IInvStep ==
  ASSUME IInv, [Next]_vars
  PROVE  IInv'
<1>1. TypeOK'
  BY TypeStep DEF IInv
<1>2. CASE WriteStep
  BY <1>1, <1>2, OutcomeFitsWrite, FreshWrite DEF IInv
<1>3. CASE ReadStep
  BY <1>1, <1>3 DEF IInv, ReadStep, OutcomeFits, Fresh, Exists
<1>4. CASE \E u \in Users, l \in Leads : OpenDialog(u, l)
  BY <1>1, <1>4, OpenKeepsIInv DEF IInv
<1> QED
  BY <1>2, <1>3, <1>4, EveryStep DEF IInv

LEMMA IInvHolds == Spec => []IInv
  BY IInvInit, IInvStep, PTL DEF Spec

LEMMA NoLostUpdateStep ==
  ASSUME IInv, [Next]_vars, NEW u \in Users, dialog[u] # Closed, dialog'[u] = Closed
  PROVE  lead[dialog[u].lead] = dialog[u].seen
<1>1. CASE WriteStep
  <2>1. PICK l \in Leads, p \in Bodies : VersionIsCurrent(u, l, p) /\ p.expected
    BY <1>1 DEF WriteStep
  <2>2. dialog[u].lead = l /\ dialog[u].seen.version = lead[l].version
    BY <2>1 DEF VersionIsCurrent
  <2> QED
    BY <2>2 DEF IInv, Fresh
<1>2. CASE ReadStep
  BY <1>2 DEF ReadStep
<1>3. ASSUME NEW v \in Users, NEW l \in Leads, OpenDialog(v, l) PROVE FALSE
  <2>1. dialog'[u] = [lead |-> l, seen |-> lead[l]] \/ dialog'[u] = dialog[u]
    BY <1>3 DEF OpenDialog, IInv, TypeOK
  <2>2. dialog'[u].lead = l
    BY <2>1
  <2>3. Closed.lead = None
    BY DEF Closed
  <2> QED
    BY <2>2, <2>3, NullAssumption
<1> QED
  BY <1>1, <1>2, <1>3, EveryStep DEF IInv

\* A dialog that saves with the version it was opened on overwrites nothing,
\* however many users, leads and writes there are.
THEOREM NoUpdateIsLost == Spec => NoLostUpdate
<1>1. IInv /\ [Next]_vars => [\A u \in Users : dialog[u] # Closed /\ dialog'[u] = Closed =>
                                lead[dialog[u].lead] = dialog[u].seen]_vars
  BY NoLostUpdateStep
<1> QED
  BY <1>1, IInvHolds, PTL DEF Spec, NoLostUpdate

LEMMA OutcomeStep ==
  ASSUME IInv, [Next]_vars, NEW l \in Leads, Exists(l), lead[l].outcome # None, lead'[l].outcome = None
  PROVE  lead'[l].stage = Out
<1>1. CASE WriteStep
  <2>1. now \in 0 .. MaxWrites /\ now < MaxWrites
    BY <1>1, TickType DEF WriteStep, IInv, TypeOK
  <2>2. PICK r \in Lead : lead'[l] = Written(r) /\ KeepsOutcome(l, r)
    BY <1>1 DEF WriteStep, Touches
  <2>3. Written(r).outcome = None /\ Written(r).stage = r.stage
    BY <2>1, <2>2, WrittenFields
  <2>4. r.stage = Out
    BY <2>1, <2>2, <2>3, WrittenFields DEF KeepsOutcome
  <2> QED
    BY <2>2, <2>3, <2>4
<1>2. CASE ReadStep \/ \E u \in Users, k \in Leads : OpenDialog(u, k)
  BY <1>2 DEF ReadStep, OpenDialog
<1> QED
  BY <1>1, <1>2, EveryStep DEF IInv

\* An outcome once recorded only goes when the lead is transferred out.
THEOREM OutcomeIsKept == Spec => OutcomeIsNeverDropped
<1>1. IInv /\ [Next]_vars => [\A l \in Leads : Exists(l) /\ lead[l].outcome # None /\ lead'[l].outcome = None =>
                                lead'[l].stage = Out]_vars
  BY OutcomeStep
<1> QED
  BY <1>1, IInvHolds, PTL DEF Spec, OutcomeIsNeverDropped

\* The trigger leaves the comment of a save alone: what OutcomeCommentIsKeepable
\* lets through with a comment has an outcome, and of the stage it leaves.
LEMMA SaveKeepsComment ==
  ASSUME TypeOK, NEW u \in Users, NEW l \in Leads, NEW p \in TextBodies, Save(u, l, p)
  PROVE  lead'[l].comment = "text"
<1>1. lead[l] \in Lead /\ p \in Patch /\ p.comment = "text"
  BY CatalogueAssumption DEF Save, Writable, Exists, TypeOK, TextBodies
<1>2. OutcomeCommentIsKeepable(lead[l], p) /\ lead' = [lead EXCEPT ![l] = Written(Patched(lead[l], p))]
  BY DEF Save
<1> DEFINE r == Patched(lead[l], p)
<1>3. /\ r.stage = Or(p.stage, lead[l].stage) /\ r.outcome = Or(p.outcome, lead[l].outcome)
      /\ r.comment = Or(p.comment, lead[l].comment)
  BY <1>1 DEF Patched, Lead
<1>4. Or(p.comment, lead[l].comment) = "text"
  BY <1>1, NullAssumption DEF Or, Patch, Comments
<1>5. r \in Lead
  BY <1>1, PatchedType
<1> HIDE DEF r
<1>6. r.comment = "text" /\ r.outcome # None /\ OutcomeStage[r.outcome] = r.stage
  BY <1>1, <1>2, <1>3, <1>4 DEF OutcomeCommentIsKeepable
<1>7. StageOutcomeTrigger(r) = r
  BY <1>6 DEF StageOutcomeTrigger
<1>8. Written(r).comment = "text"
  BY <1>5, <1>6, <1>7 DEF Written, Lead
<1> QED
  BY <1>2, <1>8 DEF r, TypeOK

\* A comment a save accepted is in the lead afterwards, whatever the catalogue
\* of stages and outcomes.
THEOREM CommentStays == Spec => CommentIsKept
<1>1. TypeOK /\ [Next]_vars => [\A l \in Leads : lead'[l] # lead[l] /\ lead'[l].comment = "empty" =>
                                  ~ \E u \in Users, p \in TextBodies : Save(u, l, p)]_vars
  BY SaveKeepsComment
<1> QED
  BY <1>1, TypeCorrect, PTL DEF Spec, CommentIsKept

-----------------------------------------------------------------------------
(* The owner of a lead and of its follow-ups. *)

LEMMA WrittenOwner ==
  ASSUME NEW r \in Lead
  PROVE  Written(r).owner = r.owner
<1>1. StageOutcomeTrigger(r) \in Lead /\ StageOutcomeTrigger(r).owner = r.owner
  BY TriggerType DEF StageOutcomeTrigger, Lead
<1> QED
  BY <1>1 DEF Written, Lead

\* A write of the lead l that leaves its owner alone leaves every owner alone.
KeepsOwners == \A k \in Leads : Exists(k) => lead'[k].owner = lead[k].owner

LEMMA SameOwner ==
  ASSUME TypeOK, NEW l \in Leads, NEW r \in Lead, r.owner = lead[l].owner,
         lead' = [lead EXCEPT ![l] = Written(r)]
  PROVE  KeepsOwners
<1>1. \A k \in Leads : lead'[k] = IF k = l THEN Written(r) ELSE lead[k]
  BY DEF TypeOK
<1> QED
  BY <1>1, WrittenOwner DEF KeepsOwners

LEMMA SameOwnerDue ==
  ASSUME TypeOK, NEW l \in Leads, Exists(l), NEW due \in Due \cup {NoDue},
         lead' = [lead EXCEPT ![l] = Written([lead[l] EXCEPT !.due = due])]
  PROVE  KeepsOwners
<1> DEFINE r == [lead[l] EXCEPT !.due = due]
<1>1. lead[l] \in Lead
  BY DEF Exists, TypeOK
<1>2. r \in Lead /\ r.owner = lead[l].owner
  BY <1>1 DEF Lead
<1>3. lead' = [lead EXCEPT ![l] = Written(r)]
  OBVIOUS
<1> HIDE DEF r
<1> QED
  BY <1>2, <1>3, SameOwner

LEMMA TransferKeepsOwners ==
  ASSUME TypeOK, NEW u \in Users, NEW copy \in Leads, NEW owner \in Users \cup {None},
         CommitTransfer(u, copy, owner)
  PROVE  KeepsOwners
<1>1. PICK l \in Leads : l = tx[u].lead /\ Exists(l) /\ lead[l] \in Lead
  BY OpenTx DEF CommitTransfer
<1> DEFINE r == [lead[l] EXCEPT !.stage = Out, !.active = FALSE, !.next = copy]
           new == NewLead(tx[u].to, tx[u].phone, New, owner, l)
<1>2. r \in Lead /\ r.owner = lead[l].owner
  BY <1>1, CatalogueAssumption DEF Lead
<1>3. /\ lead' = [lead EXCEPT ![copy] = new, ![l] = Written(r)]
      /\ ~Exists(copy)
  <2>1. copy # l
    BY <1>1 DEF CommitTransfer
  <2> QED
    BY <1>1, <2>1 DEF CommitTransfer
<1> HIDE DEF r, new
<1>4. \A k \in Leads : k # copy => lead'[k] = IF k = l THEN Written(r) ELSE lead[k]
  BY <1>3 DEF TypeOK
<1>5. Written(r).owner = r.owner
  BY <1>2, WrittenOwner
<1>6. ASSUME NEW k \in Leads, Exists(k) PROVE lead'[k].owner = lead[k].owner
  <2>1. k # copy
    BY <1>3, <1>6
  <2> QED
    BY <1>2, <1>4, <1>5, <2>1
<1> QED
  BY <1>6 DEF KeepsOwners

LEMMA FollowUpsKeepOwners ==
  ASSUME TypeOK, NEW u \in Users, FollowUpStep(u)
  PROVE  KeepsOwners
<1>1. ASSUME NEW due \in Due, CommitSchedule(u, due) PROVE KeepsOwners
  <2>1. tx[u].lead \in Leads /\ Exists(tx[u].lead)
    BY <1>1, OpenTx DEF CommitSchedule
  <2>2. lead' = [lead EXCEPT ![tx[u].lead] = Written([lead[tx[u].lead] EXCEPT !.due = due])]
    BY <1>1 DEF CommitSchedule
  <2> QED
    BY <2>1, <2>2, SameOwnerDue
<1>2. ASSUME NEW due \in Due \cup {NoDue}, CommitDelete(u, due) PROVE KeepsOwners
  <2>1. PICK l \in Leads : l = rows[tx[u].row].lead /\ Exists(l)
    BY <1>2, OpenTx, RowType DEF CommitDelete
  <2>2. lead' = [lead EXCEPT ![l] = Written([lead[l] EXCEPT !.due = due])]
    BY <1>2, <2>1 DEF CommitDelete
  <2> QED
    BY <2>1, <2>2, SameOwnerDue
<1>3. ASSUME NEW i \in DOMAIN rows, BeginUpdate(u, i) \/ BeginDelete(u, i) PROVE KeepsOwners
  BY <1>3 DEF BeginUpdate, BeginDelete, KeepsOwners
<1>4. ASSUME NEW status \in Statuses \cup {Keep}, NEW done \in BOOLEAN, NEW due \in Due \cup {Keep},
             NEW next \in Due \cup {Keep}, CommitUpdate(u, status, done, due, next)
      PROVE  KeepsOwners
  <2>1. tx[u].prev \in FollowUp /\ tx[u].prev.lead \in Leads /\ Exists(tx[u].prev.lead)
    BY <1>4, OpenTx DEF CommitUpdate
  <2> DEFINE row == ActionRow(tx[u].prev, status, done, due)
             completes == Completes(tx[u].prev, status)
             dueNow == IF completes /\ next # Keep THEN next ELSE IF completes THEN NoDue ELSE row.due
  <2>2. dueNow \in Due \cup {NoDue}
    <3>1. row.due \in Due
      BY <2>1, ActionRowType DEF FollowUp
    <3> HIDE DEF row, completes
    <3> QED
      BY <3>1
  <2>3. lead' = [lead EXCEPT ![tx[u].prev.lead] = Written([lead[tx[u].prev.lead] EXCEPT !.due = dueNow])]
    BY <1>4 DEF CommitUpdate
  <2> HIDE DEF dueNow
  <2> QED
    BY <2>1, <2>2, <2>3, SameOwnerDue
<1> QED
  BY <1>1, <1>2, <1>3, <1>4 DEF FollowUpStep

\* Only a save gives a lead that exists another owner, and the one it names.
LEMMA OwnerStep ==
  ASSUME TypeOK, [Next]_vars, NEW l \in Leads, Exists(l), lead'[l].owner # lead[l].owner
  PROVE  \E u \in Users, p \in Bodies : Save(u, l, p) /\ p.owner # Keep /\ lead'[l].owner = p.owner
<1>1. ~KeepsOwners
  BY DEF KeepsOwners
<1>2. CASE UNCHANGED vars
  BY <1>1, <1>2 DEF vars, KeepsOwners
<1>3. ASSUME NEW u \in Users, FollowUpStep(u) PROVE FALSE
  BY <1>1, <1>3, FollowUpsKeepOwners
<1>4. ASSUME NEW u \in Users, Rollback(u) PROVE FALSE
  BY <1>1, <1>4 DEF Rollback, KeepsOwners
<1>5. ASSUME NEW u \in Users, NEW k \in Leads, LeadStep(u, k) PROVE \E p \in Bodies : Save(u, k, p)
  <2>1. ASSUME NEW e \in Entries, NEW pick \in Users \cup {None}, CreateLead(u, k, e, pick) PROVE KeepsOwners
    <3>1. \A m \in Leads : m # k => lead'[m] = lead[m]
      BY <2>1 DEF CreateLead, TypeOK
    <3> QED
      BY <2>1, <3>1 DEF CreateLead, KeepsOwners
  <2>2. ASSUME DeleteLead(u, k) PROVE KeepsOwners
    <3> DEFINE r == [lead[k] EXCEPT !.deleted = TRUE]
    <3>1. lead[k] \in Lead
      BY <2>2 DEF DeleteLead, Writable, Exists, TypeOK
    <3>2. r \in Lead /\ r.owner = lead[k].owner
      BY <3>1 DEF Lead
    <3>3. lead' = [lead EXCEPT ![k] = Written(r)]
      BY <2>2 DEF DeleteLead
    <3> HIDE DEF r
    <3> QED
      BY <3>2, <3>3, SameOwner
  <2>3. ASSUME NEW o \in Orgs, BeginTransfer(u, k, o) PROVE KeepsOwners
    BY <2>3 DEF BeginTransfer, KeepsOwners
  <2>4. ASSUME NEW rep \in Users \cup {Keep}, BeginSchedule(u, k, rep) PROVE KeepsOwners
    BY <2>4 DEF BeginSchedule, KeepsOwners
  <2>5. ASSUME OpenDialog(u, k) PROVE KeepsOwners
    BY <2>5 DEF OpenDialog, KeepsOwners
  <2> QED
    BY <1>1, <1>5, <2>1, <2>2, <2>3, <2>4, <2>5, TransferKeepsOwners DEF LeadStep
<1>6. ASSUME NEW u \in Users, NEW k \in Leads, NEW p \in Bodies, Save(u, k, p)
      PROVE  k = l /\ p.owner # Keep /\ lead'[l].owner = p.owner
  <2> DEFINE r == Patched(lead[k], p)
  <2>1. lead[k] \in Lead /\ p \in Patch
    BY <1>6, CatalogueAssumption DEF Save, Writable, Exists, TypeOK
  <2>2. r \in Lead /\ r.owner = Or(p.owner, lead[k].owner)
    BY <2>1, PatchedType DEF Patched, Lead
  <2>3. lead' = [lead EXCEPT ![k] = Written(r)]
    BY <1>6 DEF Save
  <2> HIDE DEF r
  <2>4. r.owner # lead[k].owner
    BY <1>1, <2>2, <2>3, SameOwner
  <2>5. p.owner # Keep /\ r.owner = p.owner
    BY <2>2, <2>4 DEF Or
  <2>6. \A m \in Leads : lead'[m] = IF m = k THEN Written(r) ELSE lead[m]
    BY <2>3 DEF TypeOK
  <2>7. k = l
    BY <2>6
  <2> QED
    BY <2>2, <2>5, <2>6, <2>7, WrittenOwner
<1> QED
  BY <1>2, <1>3, <1>4, <1>5, <1>6 DEF Next

\* The hand-over of the follow-ups fs leaves no open one of the lead to anybody else.
LEMMA HandOverReaches ==
  ASSUME NEW fs \in Seq(FollowUp), NEW l \in Leads, NEW owner \in Users,
         NEW i \in DOMAIN HandedOver(fs, l, owner), HandedOver(fs, l, owner)[i].lead = l
  PROVE  LET f == HandedOver(fs, l, owner)[i] IN f.deleted \/ f.done \/ f.owner = owner
<1>1. i \in DOMAIN fs /\ fs[i] \in FollowUp /\ fs[i].lead = l
  BY HandedOverType
<1>2. HandedOver(fs, l, owner)[i] = IF fs[i].lead = l /\ ~fs[i].deleted /\ ~fs[i].done
                                    THEN [fs[i] EXCEPT !.owner = owner] ELSE fs[i]
  BY <1>1 DEF HandedOver
<1>3. [fs[i] EXCEPT !.owner = owner].owner = owner
  BY <1>1 DEF FollowUp
<1> QED
  BY <1>1, <1>2, <1>3

LEMMA FollowUpsMove ==
  ASSUME TypeOK, [Next]_vars, NEW l \in Leads, Exists(l), lead'[l].owner # lead[l].owner, lead'[l].owner # None
  PROVE  \A i \in RowsOf(l)' : rows'[i].deleted \/ rows'[i].done \/ rows'[i].owner = lead'[l].owner
<1>1. PICK u \in Users, p \in Bodies : Save(u, l, p) /\ p.owner # Keep /\ lead'[l].owner = p.owner
  BY OwnerStep
<1>2. p \in Patch /\ p.owner \in Users
  <2>1. p \in Patch
    BY CatalogueAssumption
  <2> QED
    BY <1>1, <2>1 DEF Patch
<1> DEFINE rep == RepAfter(u, Patched(lead[l], p), p)
           added == IF p.due = Keep THEN rows ELSE Scheduled(rows, l, p.due, rep)
<1>3. rows' = HandedOver(added, l, p.owner)
  BY <1>1, <1>2 DEF Save, RowsAfter
<1>4. added \in Seq(FollowUp)
  <2>1. rows \in Seq(FollowUp)
    BY DEF TypeOK
  <2>2. CASE p.due = Keep
    BY <2>1, <2>2
  <2>3. CASE p.due # Keep
    <3>1. p.due \in Due
      BY <1>2, <2>3 DEF Patch
    <3>2. rep \in Users
      <4>1. lead[l] \in Lead
        BY DEF Exists, TypeOK
      <4>2. Patched(lead[l], p) \in Lead
        BY <1>2, <4>1, PatchedType
      <4>3. Patched(lead[l], p).owner \in Users \cup {None} /\ p.rep \in Users \cup {Keep}
        BY <1>2, <4>2 DEF Lead, Patch
      <4> QED
        BY <4>3 DEF RepAfter, Or, ActorFor
    <3> HIDE DEF rep
    <3>3. Extends(rows, Scheduled(rows, l, p.due, rep), l)
      BY <2>1, <3>1, <3>2, ScheduledExtends
    <3> QED
      BY <2>3, <3>3 DEF Extends
  <2> QED
    BY <2>2, <2>3
<1> HIDE DEF added
<1>5. \A i \in RowsOf(l)' : i \in DOMAIN HandedOver(added, l, p.owner) /\ HandedOver(added, l, p.owner)[i].lead = l
  BY <1>3 DEF RowsOf
<1> QED
  BY <1>1, <1>2, <1>3, <1>4, <1>5, HandOverReaches

\* Whoever gets a lead gets all its open follow-ups, the one that the same save
\* schedules included.
THEOREM FollowUpsGoAlong == Spec => FollowUpsMoveWithLead
<1>1. TypeOK /\ [Next]_vars =>
        [\A l \in Leads : Exists(l) /\ lead'[l].owner # lead[l].owner /\ lead'[l].owner # None =>
           \A i \in RowsOf(l)' : rows'[i].deleted \/ rows'[i].done \/ rows'[i].owner = lead'[l].owner]_vars
  BY FollowUpsMove
<1> QED
  BY <1>1, TypeCorrect, PTL DEF Spec, FollowUpsMoveWithLead
=============================================================================
