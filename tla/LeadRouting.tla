---------------------------- MODULE LeadRouting ----------------------------
(***************************************************************************)
(* Which person a lead goes to.  A lead belongs to a branch and a campaign *)
(* type; the two name a pool of users with weights, and the picker of      *)
(* lib/assignment.ts takes the member furthest below its share.  Leads are *)
(* picked for when they arrive, by the paged re-run of the admin console,  *)
(* and when an administrator confirms the type of a Meta campaign, which   *)
(* saves the mapping and then fans out over the campaign's leads.  People  *)
(* assign, reassign and unassign the same leads meanwhile.                 *)
(*                                                                         *)
(* A re-run batch and a fan-out are long transactions: what they wrote is  *)
(* in tx[r].writes, seen by nobody else and locked, until they commit.     *)
(* Every statement reads what is committed by then and its own writes.     *)
(* An intake locks the older lead of its phone before it picks, and makes  *)
(* intakes of a campaign new to the branch wait until it commits.          *)
(*                                                                         *)
(* Abstractions.  Leads are numbered by created_at, id.  One tenant; no    *)
(* dry runs, filters of the re-run, deleted leads or inactive users        *)
(* (Members is who is in a branch); the shares are whole percents, the     *)
(* code compares them as floats.  A pick and the update it is for are one  *)
(* step, taken when the update is.  A fan-out takes its leads in the same  *)
(* order, by branch and id in the code.  Which lead is of the same phone   *)
(* as a new one is LeadIngest's: here it may be any live one of the branch. *)
(***************************************************************************)
EXTENDS Integers, FiniteSets

CONSTANTS
  LeadRows,     \* row numbers of lms.marketing_leads, in order of created_at
  Users, Branches, Campaigns,
  Types,        \* campaign types of the tenant
  LiveTypes,    \* those that are active
  DefaultType,  \* the tenant's catch-all type, Null when it has none
  DeptOf,       \* the department of a user's role or of a type, Null when none
  Capable,      \* users whose role has the LMS capability
  Members,      \* the users of each branch
  Weights,      \* lms.lead_assignment_weights of a pool, the values it takes
  Requests,     \* requests and their transactions
  Firsts,       \* tables to start from
  Null,         \* SQL NULL, or nothing
  Absent,       \* no such row
  BatchLimit,   \* RERUN_BATCH_LIMIT
  MaxEdits      \* bound: what people and campaigns do

ASSUME RoutingAssumption ==
  /\ LeadRows \subseteq Nat /\ IsFiniteSet(LeadRows)
  /\ LiveTypes \subseteq Types /\ DefaultType \in LiveTypes \cup {Null}
  /\ Members \in [Branches -> SUBSET Users]
  /\ Weights \subseteq [Users -> 0 .. 100]
  /\ Null \notin Users \cup Types \cup Campaigns
  /\ BatchLimit \in Nat \ {0} /\ MaxEdits \in Nat

VARIABLES
  lead,     \* lms.marketing_leads
  adType,   \* the type of marketing.ad_campaigns, by branch and campaign
  mapping,  \* ext.meta_campaigns: the type of a campaign
  weight,   \* lms.lead_assignment_weights, by branch and type
  tx,       \* what each request is doing
  same,     \* see StillSame
  edits     \* steps of people so far

routingVars == <<lead, adType, mapping, weight, tx, same, edits>>

-----------------------------------------------------------------------------
Reasons == {"no_campaign_type", "no_weighted_users", "no_department_match", "no_capable_users"}
\* open: its stage is not terminated; live: active and not superseded;
\* touched: someone logged an interaction.
Lead == [org : Branches, camp : Campaigns \cup {Null}, type : Types \cup {Null}, owner : Users \cup {Null},
         reason : Reasons \cup {Null}, open : BOOLEAN, live : BOOLEAN, touched : BOOLEAN]
\* What the table may start as.
ASSUME RowAssumption ==
  /\ Absent \notin Lead
  /\ Firsts \subseteq [lead : [LeadRows -> Lead \cup {Absent}], weight : [Branches \X Types -> Weights]]
Target == [l : LeadRows, type : Types \cup {Null}]
NoWrites == [l \in {} |-> Absent]
NoTx == [kind |-> "idle", writes |-> NoWrites]
IsTx(x) ==
    \/ x = NoTx
    \/ x \in [kind : {"arriving"}, org : Branches, camp : Campaigns \cup {Null}, type : Types \cup {Null}, writes : {NoWrites}]
    \/ x \in [kind : {"batchDone"}, next : LeadRows, writes : {NoWrites}]
    \/ x \in [kind : {"confirmed"}, camp : Campaigns, type : Types, writes : {NoWrites}]
    \/ \E ls \in SUBSET LeadRows : x \in [kind : {"inserting"}, row : Lead, writes : [ls -> Lead]]
    \/ \E ls \in SUBSET LeadRows :
         x \in [kind : {"rerun"}, todo : SUBSET Target, next : LeadRows \cup {Null}, writes : [ls -> Lead]]
    \/ \E ls \in SUBSET LeadRows :
         x \in [kind : {"selected", "fanout"}, camp : Campaigns, type : Types, affected : SUBSET LeadRows,
                todo : SUBSET LeadRows, ads : SUBSET Branches, writes : [ls -> Lead]]

There == {l \in LeadRows : lead[l] # Absent}
Locked(l) == \E r \in Requests : l \in DOMAIN tx[r].writes
LockedForIt(r, l) == \E q \in Requests \ {r} : l \in DOMAIN tx[q].writes
\* The table as the statements of r see it, and as its commit leaves it.
Seen(r) == [l \in LeadRows |-> IF l \in DOMAIN tx[r].writes THEN tx[r].writes[l] ELSE lead[l]]
Wrote(r, l, row) == [k \in DOMAIN tx[r].writes \cup {l} |-> IF k = l THEN row ELSE tx[r].writes[k]]
First(ls) == CHOOSE l \in ls : \A k \in ls : l <= k

\* The leads a re-run or a fan-out set out with that nobody else has changed
\* since: a record for the properties, not of the code.
Gap(row) == row # Absent /\ row.owner = Null /\ row.live /\ row.open /\ ~row.touched
StillSame ==
    same' = [r \in Requests |->
              IF tx'[r] = NoTx THEN {}
              ELSE IF tx[r] = NoTx /\ tx'[r].kind = "rerun" THEN {l \in LeadRows : Gap(lead[l])}
              ELSE IF tx'[r].kind = "selected" /\ tx[r].kind = "confirmed" THEN tx'[r].affected
              ELSE {l \in same[r] : lead'[l] = lead[l] \/ (tx[r].kind = "rerun" /\ tx'[r] # tx[r])}]

-----------------------------------------------------------------------------
\* resolveAutoAssignedUser.
Weighted(o, t) == {u \in Members[o] : t # Null /\ weight[<<o, t>>][u] > 0}
InDepartment(o, t) == {u \in Weighted(o, t) : DeptOf[u] # Null /\ DeptOf[u] = DeptOf[t]}
Eligible(o, t) == InDepartment(o, t) \cap Capable
WhyNobody(o, t) ==
    CASE t = Null -> "no_campaign_type"
      [] t # Null /\ Weighted(o, t) = {} -> "no_weighted_users"
      [] t # Null /\ Weighted(o, t) # {} /\ InDepartment(o, t) = {} -> "no_department_match"
      [] OTHER -> "no_capable_users"
\* The open leads of a user in one pool.
HeldIn(table, o, t, u) ==
    {l \in LeadRows : /\ table[l] # Absent
                   /\ table[l].org = o /\ table[l].type = t /\ table[l].owner = u
                   /\ table[l].live /\ table[l].open}
Held(table, o, t, u) == Cardinality(HeldIn(table, o, t, u))
TotalOpen(table, o, t) == Cardinality(UNION {HeldIn(table, o, t, u) : u \in Eligible(o, t)}) + 1
\* A hundred times the deficit.
Deficit(table, o, t, u) == weight[<<o, t>>][u] * TotalOpen(table, o, t) - 100 * Held(table, o, t, u)
Best(table, o, t) ==
    {u \in Eligible(o, t) : \A v \in Eligible(o, t) : Deficit(table, o, t, v) <= Deficit(table, o, t, u)}
\* Mutant: the reason is stored as the picker gives it (storedAutoAssignReason forgotten).
RawPicks(table, o, t) ==
    IF Eligible(o, t) = {} THEN {[user |-> Null, reason |-> WhyNobody(o, t)]}
    ELSE {[user |-> u, reason |-> "assigned"] : u \in Best(table, o, t)}
Picks(table, o, t) ==
    IF Eligible(o, t) = {} THEN {[user |-> Null, reason |-> WhyNobody(o, t)]}
    ELSE {[user |-> u, reason |-> Null] : u \in Best(table, o, t)}

-----------------------------------------------------------------------------
\* resolveCampaignForIntake: the confirmed type, or what the rules and the
\* page's default say, or nothing when typing failed.
CallerTypes(c) == IF c # Null /\ mapping[c] \in LiveTypes THEN {mapping[c], Null} ELSE Types \cup {Null}
\* resolveCampaignForLead: a retired type falls through to the form's, d, and
\* that to the tenant's.
TypeFor(t, d) == IF t \in LiveTypes THEN t ELSE IF d \in LiveTypes THEN d ELSE DefaultType

\* An intake is asked for; what type it names was decided before it is sent.
Arrive(r, o, c, t, d) ==
    /\ tx[r] = NoTx /\ edits < MaxEdits
    /\ t \in CallerTypes(c)
    /\ tx' = [tx EXCEPT ![r] = [kind |-> "arriving", org |-> o, camp |-> c, type |-> TypeFor(t, d), writes |-> NoWrites]]
    /\ edits' = edits + 1
    /\ UNCHANGED <<lead, adType, mapping, weight>>
    /\ StillSame

\* The older lead of the phone is deactivated.
Superseding(l) == [k \in {l} |-> [lead[k] EXCEPT !.live = FALSE]]
\* The branch's row of the campaign, which q has inserted and not committed.
InsertsCampaign(q, o, c) ==
    /\ tx[q].kind = "inserting" /\ tx[q].row.org = o /\ tx[q].row.camp = c
    /\ c # Null /\ adType[<<o, c>>] = Absent
PickedLead(x, pick) ==
    [org |-> x.org, camp |-> x.camp, type |-> x.type, owner |-> pick.user, reason |-> pick.reason,
     open |-> TRUE, live |-> TRUE, touched |-> FALSE]
PickForIntake(r) ==
    LET x == tx[r] IN
    /\ x.kind = "arriving"
    /\ \A q \in Requests : ~InsertsCampaign(q, x.org, x.camp)
    /\ \E writes \in {NoWrites} \cup {Superseding(l) : l \in {k \in There : lead[k].org = x.org /\ lead[k].live}} :
         /\ \A l \in DOMAIN writes : ~LockedForIt(r, l)
         /\ \E pick \in Picks([l \in LeadRows |-> IF l \in DOMAIN writes THEN writes[l] ELSE lead[l]], x.org, x.type) :
              tx' = [tx EXCEPT ![r] = [kind |-> "inserting", row |-> PickedLead(x, pick), writes |-> writes]]
    /\ UNCHANGED <<lead, adType, mapping, weight, edits>>
    /\ StillSame

\* lms.sync_lead_campaign_type, a trigger: an untyped lead takes its campaign's type.
TypedByTrigger(row) ==
    IF row.type = Null /\ row.camp # Null /\ adType[<<row.org, row.camp>>] # Absent
    THEN [row EXCEPT !.type = adType[<<row.org, row.camp>>]] ELSE row

\* The insert and the branch's projection of the campaign, which whoever
\* inserts it first types.
CommitIntake(r, l) ==
    LET row == tx[r].row IN
    /\ tx[r].kind = "inserting" /\ l \notin There
    /\ lead' = [Seen(r) EXCEPT ![l] = TypedByTrigger(row)]
    /\ adType' = IF row.camp # Null /\ adType[<<row.org, row.camp>>] = Absent
                 THEN [adType EXCEPT ![<<row.org, row.camp>>] = row.type] ELSE adType
    /\ tx' = [tx EXCEPT ![r] = NoTx]
    /\ UNCHANGED <<mapping, weight, edits>>
    /\ StillSame

-----------------------------------------------------------------------------
\* The re-run, of the leads it may fill.
Or(t, other) == IF t = Null THEN other ELSE t
Candidates(after) == {l \in LeadRows : Gap(lead[l]) /\ (after # Null => l > after)}
FirstOf(ls, n) == {l \in ls : Cardinality({k \in ls : k < l}) < n}
\* next_cursor: the last lead of the batch while there are more.
NextCursor(all, some) ==
    IF Cardinality(all) > Cardinality(some) THEN CHOOSE l \in some : \A k \in some : k <= l ELSE Null
Batch(after) ==
    LET all == Candidates(after)
        some == FirstOf(all, BatchLimit) IN
    [kind |-> "rerun", writes |-> NoWrites,
     todo |-> {[l |-> l, type |-> Or(lead[l].type, DefaultType)] : l \in some},
     next |-> NextCursor(all, some)]

StartRerun(r) ==
    /\ tx[r] = NoTx /\ edits < MaxEdits
    /\ tx' = [tx EXCEPT ![r] = Batch(Null)]
    /\ edits' = edits + 1
    /\ UNCHANGED <<lead, adType, mapping, weight>>
    /\ StillSame

\* The administrator presses "Run next batch".
NextBatch(r) ==
    /\ tx[r].kind = "batchDone"
    /\ tx' = [tx EXCEPT ![r] = Batch(tx[r].next)]
    /\ UNCHANGED <<lead, adType, mapping, weight, edits>>
    /\ StillSame

\* One lead of the batch.  The pick is for the type it had when selected; the
\* update waits for its row and then tests only that it is unassigned.
Filled(row, t, pick) ==
    [row EXCEPT !.owner = pick.user, !.type = Or(@, t), !.reason = IF pick.user = Null THEN pick.reason ELSE @]
\* Mutant: the update tests nothing but the id.
Whoever(row) == TRUE
Unclaimed(row) == row.owner = Null
RerunLead(r) ==
    LET l == First({c.l : c \in tx[r].todo})
        c == CHOOSE x \in tx[r].todo : x.l = l
        row == Seen(r)[l] IN
    /\ tx[r].kind = "rerun" /\ tx[r].todo # {}
    /\ ~LockedForIt(r, l)
    /\ \E pick \in Picks(Seen(r), row.org, c.type) :
         tx' = [tx EXCEPT ![r].todo = @ \ {c},
                          ![r].writes = IF Unclaimed(row) THEN Wrote(r, l, Filled(row, c.type, pick)) ELSE @]
    /\ UNCHANGED <<lead, adType, mapping, weight, edits>>
    /\ StillSame

CommitRerun(r) ==
    /\ tx[r].kind = "rerun" /\ tx[r].todo = {}
    /\ lead' = Seen(r)
    /\ tx' = [tx EXCEPT ![r] = IF tx[r].next = Null THEN NoTx
                               ELSE [kind |-> "batchDone", next |-> tx[r].next, writes |-> NoWrites]]
    /\ UNCHANGED <<adType, mapping, weight, edits>>
    /\ StillSame

-----------------------------------------------------------------------------
\* confirmCampaignMapping saves the mapping in a transaction of its own and
\* then asks for the fan-out; reclassifyCampaign does it in one other.
Confirm(r, c, t) ==
    /\ tx[r] = NoTx /\ edits < MaxEdits
    /\ t \in LiveTypes
    /\ mapping' = [mapping EXCEPT ![c] = t]
    /\ tx' = [tx EXCEPT ![r] = [kind |-> "confirmed", camp |-> c, type |-> t, writes |-> NoWrites]]
    /\ edits' = edits + 1
    /\ UNCHANGED <<lead, adType, weight>>
    /\ StillSame

OfCampaign(c) == {l \in There : lead[l].camp = c}
\* An owner who is in the pool of the new type keeps the lead.
InPool(u, o, t) == u \in Members[o] /\ weight[<<o, t>>][u] > 0 /\ DeptOf[u] # Null /\ DeptOf[u] = DeptOf[t]
Reroutable(row, t) == row.live /\ row.open /\ (row.owner = Null \/ ~InPool(row.owner, row.org, t))

FanOutSelect(r) ==
    LET all == OfCampaign(tx[r].camp) IN
    /\ tx[r].kind = "confirmed"
    /\ tx' = [tx EXCEPT ![r] = [kind |-> "selected", camp |-> @.camp, type |-> @.type, affected |-> all,
                todo |-> {l \in all : Reroutable(lead[l], tx[r].type)}, ads |-> {}, writes |-> NoWrites]]
    /\ UNCHANGED <<lead, adType, mapping, weight, edits>>
    /\ StillSame

\* The branches' campaigns, then every lead of the campaign that is not about
\* to be re-routed.
Relabel(r) ==
    LET c == tx[r].camp
        t == tx[r].type
        ads == {o \in Branches : adType[<<o, c>>] \notin {t, Absent}}
        wrong == {l \in OfCampaign(c) \ tx[r].todo : lead[l].type # t} IN
    /\ tx[r].kind = "selected"
    /\ \A q \in Requests : tx[q].kind = "fanout" /\ tx[q].camp = c => tx[q].ads \cap ads = {}
    /\ \A l \in wrong : ~LockedForIt(r, l)
    /\ tx' = [tx EXCEPT ![r].kind = "fanout", ![r].ads = ads,
                        ![r].writes = [l \in wrong |-> [lead[l] EXCEPT !.type = t]]]
    /\ UNCHANGED <<lead, adType, mapping, weight, edits>>
    /\ StillSame

\* One lead of the list.  The update tests nothing but its id.
\* Mutant: a lead nobody can take is left as it was.
MovedIfTaken(row, t, pick) ==
    IF pick.user = Null THEN row ELSE [row EXCEPT !.owner = pick.user, !.reason = pick.reason, !.type = t]
Moved(row, t, pick) == [row EXCEPT !.owner = pick.user, !.reason = pick.reason, !.type = t]
FanOutLead(r) ==
    LET l == First(tx[r].todo)
        row == Seen(r)[l] IN
    /\ tx[r].kind = "fanout" /\ tx[r].todo # {}
    /\ ~LockedForIt(r, l)
    /\ \E pick \in Picks(Seen(r), row.org, tx[r].type) :
         tx' = [tx EXCEPT ![r].todo = @ \ {l}, ![r].writes = Wrote(r, l, Moved(row, tx[r].type, pick))]
    /\ UNCHANGED <<lead, adType, mapping, weight, edits>>
    /\ StillSame

CommitFanOut(r) ==
    /\ tx[r].kind = "fanout" /\ tx[r].todo = {}
    /\ lead' = Seen(r)
    /\ adType' = [x \in Branches \X Campaigns |->
                   IF x[1] \in tx[r].ads /\ x[2] = tx[r].camp THEN tx[r].type ELSE adType[x]]
    /\ tx' = [tx EXCEPT ![r] = NoTx]
    /\ UNCHANGED <<mapping, weight, edits>>
    /\ StillSame

\* A request fails, loses a deadlock or is given up: its transaction is undone.
\* A saved mapping stays.
Fail(r) ==
    /\ tx[r] # NoTx
    /\ tx' = [tx EXCEPT ![r] = NoTx]
    /\ UNCHANGED <<lead, adType, mapping, weight, edits>>
    /\ StillSame

-----------------------------------------------------------------------------
\* People.  Each is one update that waits for the rows it matches.
Edit(ls, row(_)) ==
    /\ edits < MaxEdits /\ edits' = edits + 1
    /\ \A l \in ls : ~Locked(l)
    /\ lead' = [l \in LeadRows |-> IF l \in ls THEN row(lead[l]) ELSE lead[l]]
    /\ UNCHANGED <<adType, mapping, weight, tx>>
    /\ StillSame

\* createAssignment: only a lead nobody has.
Assign(l, u) ==
    /\ l \in There /\ lead[l].owner = Null /\ u \in Members[lead[l].org]
    /\ Edit({l}, LAMBDA row : [row EXCEPT !.owner = u])

\* reassignLead and bulkAssignLeads, which wants leads of one branch.
Reassign(ls, u) ==
    /\ ls # {} /\ ls \subseteq There
    /\ \A l \in ls : u \in Members[lead[l].org]
    /\ \A k, l \in ls : k # l => lead[k].org = lead[l].org /\ lead[l].live
    /\ Edit({l \in ls : lead[l].owner # u}, LAMBDA row : [row EXCEPT !.owner = u])

Unassign(l) == l \in There /\ Edit({l}, LAMBDA row : [row EXCEPT !.owner = Null])

\* reassignOrgLeads: the leads of somebody who leaves a branch, whatever their stage.
HandOver(o, u, heir) ==
    /\ heir \in Members[o] \cup {Null}
    /\ Edit({l \in There : lead[l].org = o /\ lead[l].owner = u /\ lead[l].live},
            LAMBDA row : [row EXCEPT !.owner = heir])

\* createInteraction, a move to a terminated stage, a transfer to another branch.
Touch(l) == l \in There /\ ~lead[l].touched /\ Edit({l}, LAMBDA row : [row EXCEPT !.touched = TRUE])
Close(l) == l \in There /\ lead[l].open /\ Edit({l}, LAMBDA row : [row EXCEPT !.open = FALSE])
Supersede(l) == l \in There /\ lead[l].live /\ Edit({l}, LAMBDA row : [row EXCEPT !.live = FALSE])

\* An administrator changes the weights of a pool.
Staff(o, t, w) ==
    /\ edits < MaxEdits /\ edits' = edits + 1
    /\ w # weight[<<o, t>>] /\ weight' = [weight EXCEPT ![<<o, t>>] = w]
    /\ UNCHANGED <<lead, adType, mapping, tx>>
    /\ StillSame

-----------------------------------------------------------------------------
RoutingInit ==
    /\ \E first \in Firsts : lead = first.lead /\ weight = first.weight
    /\ adType = [x \in Branches \X Campaigns |->
                  IF \E l \in LeadRows : lead[l] # Absent /\ lead[l].org = x[1] /\ lead[l].camp = x[2]
                  THEN DefaultType ELSE Absent]
    /\ mapping = [c \in Campaigns |-> Null]
    /\ tx = [r \in Requests |-> NoTx]
    /\ same = [r \in Requests |-> {}]
    /\ edits = 0

Work(r) ==
    \/ PickForIntake(r) \/ \E l \in LeadRows : CommitIntake(r, l)
    \/ StartRerun(r) \/ NextBatch(r) \/ RerunLead(r) \/ CommitRerun(r)
    \/ FanOutSelect(r) \/ Relabel(r) \/ FanOutLead(r) \/ CommitFanOut(r)
    \/ Fail(r)
RoutingNext ==
    \/ \E r \in Requests : Work(r)
    \/ \E r \in Requests, o \in Branches, c \in Campaigns \cup {Null}, t, d \in Types \cup {Null} : Arrive(r, o, c, t, d)
    \/ \E r \in Requests, c \in Campaigns, t \in Types : Confirm(r, c, t)
    \/ \E l \in LeadRows, u \in Users : Assign(l, u)
    \/ \E ls \in SUBSET LeadRows, u \in Users : Reassign(ls, u)
    \/ \E l \in LeadRows : Unassign(l) \/ Touch(l) \/ Close(l) \/ Supersede(l)
    \/ \E o \in Branches, u \in Users, heir \in Users \cup {Null} : HandOver(o, u, heir)
    \/ \E o \in Branches, t \in Types, w \in Weights : Staff(o, t, w)

RoutingSpec == RoutingInit /\ [][RoutingNext]_routingVars

-----------------------------------------------------------------------------
RoutingTypeOK ==
    /\ lead \in [LeadRows -> Lead \cup {Absent}]
    /\ adType \in [Branches \X Campaigns -> Types \cup {Null, Absent}]
    /\ mapping \in [Campaigns -> Types \cup {Null}]
    /\ weight \in [Branches \X Types -> Weights]
    /\ DOMAIN tx = Requests /\ \A r \in Requests : IsTx(tx[r])
    /\ same \in [Requests -> SUBSET LeadRows]
    /\ edits \in 0 .. MaxEdits

\* "This tool must never move a lead away from a person"
\* (lead-assignment-rerun.repository.ts), and a claim never takes a lead from
\* somebody (assignLead): whoever got a lead while the batch was running keeps it.
FillersTakeNobody ==
    [][\A l \in There :
         \/ \E r \in Requests : CommitRerun(r)
         \/ \E u \in Users : Assign(l, u)
         => \/ lead[l].owner = Null \/ lead'[l].owner = lead[l].owner]_routingVars

\* leads_relabelled is true: when a fan-out commits, every lead it counted and
\* nobody else has changed has the confirmed type, also where its pool had
\* nobody to take the lead.
CountedAreRelabelled ==
    [][\A r \in Requests : CommitFanOut(r) => \A l \in same[r] : lead'[l].type = tx[r].type]_routingVars

\* "A pick can never hand someone a lead RLS then hides from them"
\* (lib/assignment.ts): who a re-run gives a lead to is in the department of its type.
\* A lead relabelled under the re-run is the exception; no run lists this, and
\* the README tells how.
PicksCanSee ==
    [][\A r \in Requests : CommitRerun(r) =>
         \A l \in There : lead'[l].owner # lead[l].owner => DeptOf[lead'[l].owner] = DeptOf[lead'[l].type]]_routingVars
=============================================================================
