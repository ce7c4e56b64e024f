----------------------------- MODULE LeadIngest -----------------------------
(***************************************************************************)
(* How a Meta lead becomes an LMS lead.  A webhook delivery, an inbox      *)
(* retry and the apply of a pull all call syncLeadToDatabase of            *)
(* meta-conversion-api, which calls the intake of leads-service over HTTP  *)
(* and then links the Meta lead to the LMS lead in ext.meta_leads.  The    *)
(* public API calls the intake alone.  What does not land is parked in     *)
(* ext.meta_lead_inbox.                                                    *)
(*                                                                         *)
(* One action is one transaction or one answer of another service.  The    *)
(* intake is a request of its own: it goes on after its caller stopped     *)
(* waiting.  Its transaction is two steps, because a concurrent intake can *)
(* commit after its SELECTs and before its INSERT; the row lock of its     *)
(* UPDATE and the unique index on (org, phone) of active leads make the    *)
(* rest of it one step.                                                    *)
(*                                                                         *)
(* Abstractions.  All leads come from one page.  Typing a lead             *)
(* (resolveCampaignForIntake) never throws and changes nothing here, nor   *)
(* do events and timestamps.  The reason and the counter of an inbox row   *)
(* are left out; its "data" says whether the answers of the lead are kept. *)
(***************************************************************************)
EXTENDS Integers, FiniteSets, Sequences

CONSTANTS
  Leads,      \* Meta leads
  Forms,      \* lead forms of the page
  Tenants, Orgs, TenantOf,   \* tenants, their branches, and whose a branch is
  FormOf,     \* the form of a lead, None when Meta names none
  PhoneOf, EmailOf,          \* the contact of a lead, None when not given
  TestLeads,  \* placeholder leads of Meta's testing tool
  AppTenant,  \* the tenant of the Meta app, None for the shared app
  Contacts,   \* contacts submitted through the public API
  Actors,     \* requests and workers that may be active at once
  None,       \* SQL NULL, or nothing
  MaxRequests \* bound: requests ever started

ASSUME IngestAssumption ==
  /\ TenantOf \in [Orgs -> Tenants]
  /\ FormOf \in [Leads -> Forms \cup {None}] /\ None \notin Forms
  /\ AppTenant \in Tenants \cup {None} /\ None \notin Nat
  /\ TestLeads \subseteq Leads
  /\ \A c \in Contacts : c.phone # None \/ c.email # None
  /\ MaxRequests \in Nat

VARIABLES
  routes,   \* ext.meta_page_form_org_map: branch by form, None the page's catch-all
  lms,      \* lms.marketing_leads with its lead_links, in order of creation
  metaRows, \* ext.meta_leads: the LMS lead of a Meta lead
  inbox,    \* ext.meta_lead_inbox
  job,      \* what each actor is doing
  intake,   \* the intake request of each actor at leads-service
  closing,  \* resolveInboxByMetaLead calls nobody waits for
  handled,  \* leads a webhook delivery has dealt with and not dropped
  started   \* requests so far

vars == <<routes, lms, metaRows, inbox, job, intake, closing, handled, started>>
store == <<routes, lms, metaRows, inbox>>

-----------------------------------------------------------------------------
LmsIds == Nat \ {0}

Idle == [pc |-> "idle", kind |-> None, lead |-> None, todo |-> {}, org |-> None,
         tenant |-> None, data |-> FALSE, id |-> None]

\* The branch a form or, failing that, the page is mapped to, within a tenant
\* when there is one to stay in.
InScope(o, t) == o # None /\ (t = None \/ TenantOf[o] = t)
RouteOf(l, t) ==
  IF FormOf[l] # None /\ InScope(routes[FormOf[l]], t) THEN routes[FormOf[l]]
  ELSE IF InScope(routes[None], t) THEN routes[None]
  ELSE None

Init ==
  /\ routes \in [Forms \cup {None} -> Orgs \cup {None}]
  /\ lms = <<>>
  /\ metaRows = [l \in Leads |-> None]
  /\ inbox = [l \in Leads |-> None]
  /\ job = [a \in Actors |-> Idle]
  /\ intake = [a \in Actors |-> None]
  /\ closing = {}
  /\ handled = {}
  /\ started = 0

Become(a, j) == job' = [job EXCEPT ![a] = j]
Begin(a, j) ==
  /\ job[a].pc = "idle" /\ started < MaxRequests
  /\ started' = started + 1
  /\ Become(a, j)
Step(a, pc)  == Become(a, [job[a] EXCEPT !.pc = pc])

\* The lead in hand is done with: a delivery goes on with the rest of its
\* batch, every other request ends.
Rest(a) ==
  IF job[a].kind = "delivery"
  THEN [Idle EXCEPT !.pc = "next", !.kind = "delivery", !.todo = job[a].todo]
  ELSE Idle
DoneWith(a) ==
  /\ Become(a, Rest(a))
  /\ handled' = IF job[a].kind = "delivery" THEN handled \cup {job[a].lead} ELSE handled

\* Mutant: a retry that fails closes the row all the same.
CloseAnyway(a) ==
  IF job[a].kind = "delivery"
  THEN Step(a, "record") /\ UNCHANGED handled
  ELSE Step(a, IF job[a].kind = "public" THEN "idle" ELSE "close") /\ UNCHANGED handled

\* An exception leaves the sync: the webhook parks the lead, an inbox retry
\* answers with the error, an apply records it on its row.
Throw(a) ==
  IF job[a].kind = "delivery"
  THEN Step(a, "record") /\ UNCHANGED handled
  ELSE DoneWith(a)

-----------------------------------------------------------------------------
(* The webhook.                                                             *)

\* Meta delivers a batch, possibly again.
StartDelivery(a, batch) ==
  /\ batch # {}
  /\ Begin(a, [Idle EXCEPT !.pc = "next", !.kind = "delivery", !.todo = batch])
  /\ UNCHANGED <<store, intake, closing, handled>>

\* fetchLeadFromMeta answers, or throws: only then is nothing known of the lead.
Fetch(a, l) ==
  /\ job[a].pc = "next" /\ l \in job[a].todo
  /\ \E got \in BOOLEAN :
       Become(a, [job[a] EXCEPT !.pc = IF got THEN "route" ELSE "record", !.lead = l,
                                !.todo = @ \ {l}, !.data = got, !.tenant = AppTenant])
  /\ UNCHANGED <<store, intake, closing, handled, started>>

\* The batch is through and the webhook answers 200.
Answer(a) ==
  /\ job[a].pc = "next" /\ job[a].todo = {}
  /\ Become(a, Idle)
  /\ UNCHANGED <<store, intake, closing, handled, started>>

\* The lead is routed; unmapped leads are parked, test leads skipped, and the
\* sync refuses a lead without a phone before it touches anything.
RouteDelivery(a) ==
  LET l == job[a].lead
      o == RouteOf(l, AppTenant)
      t == IF AppTenant # None \/ o = None THEN AppTenant ELSE TenantOf[o]
  IN /\ job[a].pc = "route" /\ job[a].kind = "delivery"
     /\ IF l \in TestLeads
        THEN DoneWith(a)
        ELSE /\ Become(a, [job[a] EXCEPT !.org = o, !.tenant = t,
                             !.pc = IF o = None \/ PhoneOf[l] = None THEN "record" ELSE "check"])
             /\ UNCHANGED handled
     /\ UNCHANGED <<store, intake, closing, started>>

\* One row per Meta lead: a repeated failure refreshes an open row, and keeps
\* what it knew; a closed one is left as it is.
RecordedRow(l, t, d) ==
  LET old == inbox[l]
  IN IF old = None THEN [status |-> "open", data |-> d, tenant |-> t, lead |-> None]
     ELSE IF old.status = "open"
          THEN [old EXCEPT !.data = @ \/ d, !.tenant = IF t # None THEN t ELSE @]
          ELSE old

\* Mutant: leads that failed are only logged.
RecordNothing(a) == job[a].pc = "record" /\ DoneWith(a) /\ UNCHANGED <<store, intake, closing, started>>

\* recordInbox, which may fail like any other write; that leaves a log line.
RecordInbox(a) ==
  LET l == job[a].lead
  IN /\ job[a].pc = "record"
     /\ \/ /\ inbox' = [inbox EXCEPT ![l] = RecordedRow(l, job[a].tenant, job[a].data)]
           /\ DoneWith(a)
        \/ UNCHANGED <<inbox, handled>> /\ Become(a, Rest(a))
     /\ UNCHANGED <<routes, lms, metaRows, intake, closing, started>>

-----------------------------------------------------------------------------
(* syncLeadToDatabase.                                                      *)

\* The call has answered that the lead is LMS lead i.  The webhook does not
\* wait for the inbox row to be closed, the others do.
Landed(a, i) ==
  IF job[a].kind = "delivery"
  THEN DoneWith(a) /\ closing' = closing \cup {[lead |-> job[a].lead, id |-> i]}
  ELSE /\ Become(a, [job[a] EXCEPT !.pc = "close", !.id = i])
       /\ UNCHANGED <<closing, handled>>

\* The fast check: a linked Meta lead is a duplicate, any other goes to intake.
PreCheck(a) ==
  LET l == job[a].lead
  IN /\ job[a].pc = "check"
     /\ IF metaRows[l] # None
        THEN Landed(a, metaRows[l]) /\ UNCHANGED intake
        ELSE /\ intake[a] = None
             /\ intake' = [intake EXCEPT ![a] =
                  [step |-> "match", org |-> job[a].org, phone |-> PhoneOf[l],
                   email |-> EmailOf[l], lead |-> l, found |-> None]]
             /\ Step(a, "wait")
             /\ UNCHANGED <<closing, handled>>
     /\ UNCHANGED <<store, started>>

\* The intake answered.
IntakeReplies(a) ==
  /\ job[a].pc = "wait" /\ intake[a].step = "reply"
  /\ IF job[a].kind = "public" THEN Become(a, Idle)
     ELSE Become(a, [job[a] EXCEPT !.pc = "link", !.id = intake[a].found])
  /\ intake' = [intake EXCEPT ![a] = None]
  /\ UNCHANGED <<store, closing, handled, started>>

\* The intake refused, or did not answer in time: it may still commit.
IntakeFails(a) ==
  /\ job[a].pc = "wait"
  /\ intake' = [intake EXCEPT ![a] = IF @.step \in {"reply", "refused"} THEN None ELSE @]
  /\ Throw(a)
  /\ UNCHANGED <<store, closing, started>>

\* Mutant: the transaction trusts the check made before the intake call.
LinkAnyway(l, i) == i

\* The re-check and the unique key of ext.meta_leads: the first link stays.
LinkedTo(l, i) == IF metaRows[l] # None THEN metaRows[l] ELSE i

\* The Meta lead is linked unless a concurrent sync has done it; either way
\* the caller hears of the lead this intake gave.
Link(a) ==
  LET l == job[a].lead
  IN /\ job[a].pc = "link"
     /\ metaRows' = [metaRows EXCEPT ![l] = LinkedTo(l, job[a].id)]
     /\ Landed(a, job[a].id)
     /\ UNCHANGED <<routes, lms, inbox, intake, started>>

\* A statement of the sync, or of the routing before it, fails.
StatementFails(a) ==
  /\ job[a].pc \in {"route", "check", "link"}
  /\ Throw(a)
  /\ UNCHANGED <<store, intake, closing, started>>

-----------------------------------------------------------------------------
(* createWebhookLead of leads-service.                                      *)

ActiveWith(o, field, v) ==
  {i \in 1 .. Len(lms) : v # None /\ lms[i].org = o /\ lms[i].active /\ lms[i][field] = v}

\* The SELECTs: an active lead of the branch with this phone is going to be
\* superseded; without one, an active lead with this e-mail is the answer.
IntakeMatch(a) ==
  LET r       == intake[a]
      byPhone == ActiveWith(r.org, "phone", r.phone)
      byEmail == ActiveWith(r.org, "email", r.email)
  IN /\ r # None /\ r.step = "match"
     /\ \/ \E i \in byPhone :
             intake' = [intake EXCEPT ![a] = [r EXCEPT !.step = "commit", !.found = i]]
        \/ /\ byPhone = {}
           /\ \E i \in byEmail :
                intake' = [intake EXCEPT ![a] = [r EXCEPT !.step = "reply", !.found = i]]
        \/ /\ byPhone \cup byEmail = {}
           /\ intake' = [intake EXCEPT ![a] = [r EXCEPT !.step = "commit"]]
     /\ UNCHANGED <<store, job, closing, handled, started>>

\* The unique index on (org, phone) of active leads, once the matched lead has
\* been made inactive.
PhoneIsFree(r) == ActiveWith(r.org, "phone", r.phone) \subseteq {r.found}

\* Mutant: the matched lead is made inactive and never pointed forward.
UnlinkedBy(old, n) == [old EXCEPT !.active = FALSE]

\* The matched lead, inactive and pointing to the lead that replaces it.
SupersededBy(old, n) == [old EXCEPT !.active = FALSE, !.next = n]

\* The answer names the lead that was created.
ReplyNew(r, n) == [r EXCEPT !.step = "reply", !.found = n]

NewLead(r) == [org |-> r.org, phone |-> r.phone, email |-> r.email,
               active |-> TRUE, next |-> None, meta |-> r.lead]

\* The old lead is superseded, the new one inserted and linked.
IntakeCommit(a) ==
  LET r == intake[a]
      n == Len(lms) + 1
  IN /\ r # None /\ r.step = "commit"
     /\ PhoneIsFree(r)
     /\ lms' = Append([i \in DOMAIN lms |-> IF i = r.found THEN SupersededBy(lms[i], n) ELSE lms[i]],
                      NewLead(r))
     /\ intake' = [intake EXCEPT ![a] = ReplyNew(r, n)]
     /\ UNCHANGED <<routes, metaRows, inbox, job, closing, handled, started>>

\* The index refuses the insert, or any statement fails: all is rolled back.
IntakeRefused(a) ==
  /\ intake[a] # None /\ intake[a].step \in {"match", "commit"}
  /\ intake' = [intake EXCEPT ![a].step = "refused"]
  /\ UNCHANGED <<store, job, closing, handled, started>>

\* An answer nobody waits for any more.
IntakeUnheard(a) ==
  /\ intake[a] # None /\ intake[a].step \in {"reply", "refused"} /\ job[a].pc # "wait"
  /\ intake' = [intake EXCEPT ![a] = None]
  /\ UNCHANGED <<store, job, closing, handled, started>>

\* The public API takes a contact straight to the intake.
StartPublic(a, o, c) ==
  /\ intake[a] = None
  /\ Begin(a, [Idle EXCEPT !.pc = "wait", !.kind = "public", !.org = o])
  /\ intake' = [intake EXCEPT ![a] =
       [step |-> "match", org |-> o, phone |-> c.phone, email |-> c.email,
        lead |-> None, found |-> None]]
  /\ UNCHANGED <<store, closing, handled>>

-----------------------------------------------------------------------------
(* The inbox, and the other callers of the sync.                            *)

\* Retry: the row is read and must be open, with answers to send and a phone
\* or the sync would throw at once.
StartRetry(a, l) ==
  /\ inbox[l] # None /\ inbox[l].status = "open" /\ inbox[l].data
  /\ l \notin TestLeads /\ PhoneOf[l] # None
  /\ Begin(a, [Idle EXCEPT !.pc = "route", !.kind = "retry", !.lead = l, !.tenant = inbox[l].tenant])
  /\ UNCHANGED <<store, intake, closing, handled>>

\* A tenant-scoped retry must stay in that tenant.
StaysIn(o, t) == t = None \/ TenantOf[o] = t

\* The branch comes from the mapping as it stands now, in whatever tenant: a
\* retry refuses one that has left the tenant of its row.
RouteRetry(a) ==
  LET o == RouteOf(job[a].lead, None)
  IN /\ job[a].pc = "route" /\ job[a].kind = "retry"
     /\ IF o # None /\ StaysIn(o, job[a].tenant)
        THEN Become(a, [job[a] EXCEPT !.pc = "check", !.org = o]) /\ UNCHANGED handled
        ELSE DoneWith(a)
     /\ UNCHANGED <<store, intake, closing, started>>

\* Mutant: a status the table does not know.
DoneRow(row, i) == [row EXCEPT !.status = "done", !.lead = i]

\* A row closed as landed.
ResolvedRow(row, i) == [row EXCEPT !.status = "resolved", !.lead = i]

\* The last update of a retry does not look at the status; it names the
\* tenant of a row that had none.
InTenant(row, t) == IF row.tenant = None THEN [row EXCEPT !.tenant = t] ELSE row
CloseRetry(a) ==
  /\ job[a].pc = "close" /\ job[a].kind = "retry"
  /\ inbox' = [inbox EXCEPT ![job[a].lead] =
       InTenant(ResolvedRow(@, job[a].id), TenantOf[job[a].org])]
  /\ DoneWith(a)
  /\ UNCHANGED <<routes, lms, metaRows, intake, closing, started>>

\* resolveInboxByMetaLead: closes an open row, if there is one.
ClosedIfOpen(l, i) ==
  IF inbox[l] # None /\ inbox[l].status = "open"
  THEN [inbox EXCEPT ![l] = ResolvedRow(@, i)] ELSE inbox

\* The applier of a pull has a staged row with a branch in hand.
StartApply(a, l, o) ==
  /\ l \notin TestLeads /\ PhoneOf[l] # None
  /\ Begin(a, [Idle EXCEPT !.pc = "check", !.kind = "apply", !.lead = l, !.org = o])
  /\ UNCHANGED <<store, intake, closing, handled>>

\* Having recorded the outcome the applier closes the inbox row of the lead.
CloseApply(a) ==
  /\ job[a].pc = "close" /\ job[a].kind = "apply"
  /\ inbox' = ClosedIfOpen(job[a].lead, job[a].id)
  /\ DoneWith(a)
  /\ UNCHANGED <<routes, lms, metaRows, intake, closing, started>>

\* The last write of a retry or an apply fails.
CloseFails(a) ==
  /\ job[a].pc = "close"
  /\ DoneWith(a)
  /\ UNCHANGED <<store, intake, closing, started>>

\* A call the webhook did not wait for is carried out, or fails unseen.
CloseUnawaited(c) ==
  /\ closing' = closing \ {c}
  /\ inbox' \in {inbox, ClosedIfOpen(c.lead, c.id)}
  /\ UNCHANGED <<routes, lms, metaRows, job, intake, handled, started>>

\* An administrator ignores an open row.
IgnoreInbox(l) ==
  /\ inbox[l] # None /\ inbox[l].status = "open"
  /\ inbox' = [inbox EXCEPT ![l].status = "ignored"]
  /\ UNCHANGED <<routes, lms, metaRows, job, intake, closing, handled, started>>

\* An administrator maps the form, or the page, to a branch, or to none.
MapRoute(f, o) ==
  /\ routes[f] # o
  /\ routes' = [routes EXCEPT ![f] = o]
  /\ UNCHANGED <<lms, metaRows, inbox, job, intake, closing, handled, started>>

\* meta-conversion-api stops: its requests are gone, those at leads-service
\* are not.
Crash ==
  /\ job' = [a \in Actors |-> Idle]
  /\ closing' = {}
  /\ UNCHANGED <<store, intake, handled, started>>

SyncStep(a) ==
  \/ PreCheck(a) \/ IntakeReplies(a) \/ IntakeFails(a) \/ Link(a) \/ StatementFails(a)
IntakeStep(a) ==
  \/ IntakeMatch(a) \/ IntakeCommit(a) \/ IntakeRefused(a) \/ IntakeUnheard(a)
RequestStep(a) ==
  \/ \E batch \in SUBSET Leads : StartDelivery(a, batch)
  \/ \E l \in Leads :
       \/ Fetch(a, l) \/ StartRetry(a, l)
       \/ \E o \in Orgs : StartApply(a, l, o)
  \/ \E o \in Orgs, c \in Contacts : StartPublic(a, o, c)
  \/ Answer(a) \/ RouteDelivery(a) \/ RecordInbox(a)
  \/ RouteRetry(a) \/ CloseRetry(a) \/ CloseApply(a) \/ CloseFails(a)

Next ==
  \/ \E a \in Actors : SyncStep(a) \/ IntakeStep(a) \/ RequestStep(a)
  \/ \E c \in closing : CloseUnawaited(c)
  \/ \E l \in Leads : IgnoreInbox(l)
  \/ \E f \in Forms \cup {None}, o \in Orgs \cup {None} : MapRoute(f, o)
  \/ Crash

Spec == Init /\ [][Next]_vars

-----------------------------------------------------------------------------
Ids == LmsIds \cup {None}
Job == [pc : {"idle", "next", "route", "record", "check", "wait", "link", "close"},
        kind : {"delivery", "retry", "apply", "public", None},
        lead : Leads \cup {None}, todo : SUBSET Leads, org : Orgs \cup {None},
        tenant : Tenants \cup {None}, data : BOOLEAN, id : Ids]
InboxRow == [status : {"open", "resolved", "ignored"}, data : BOOLEAN,
             tenant : Tenants \cup {None}, lead : Ids]
Phones == {PhoneOf[l] : l \in Leads} \cup {c.phone : c \in Contacts}
Emails == {EmailOf[l] : l \in Leads} \cup {c.email : c \in Contacts}
Intake == [step : {"match", "commit", "reply", "refused"}, org : Orgs, phone : Phones,
           email : Emails, lead : Leads \cup {None}, found : Ids]
LmsLead == [org : Orgs, phone : Phones, email : Emails, active : BOOLEAN,
            next : Ids, meta : Leads \cup {None}]

ASSUME NothingIsNoRow == None \notin InboxRow \cup Intake

\* Every variable keeps its shape.
TypeOK ==
  /\ routes \in [Forms \cup {None} -> Orgs \cup {None}]
  /\ lms \in Seq(LmsLead)
  /\ metaRows \in [Leads -> Ids]
  /\ inbox \in [Leads -> InboxRow \cup {None}]
  /\ job \in [Actors -> Job]
  /\ intake \in [Actors -> Intake \cup {None}]
  /\ closing \subseteq [lead : Leads, id : LmsIds]
  /\ handled \subseteq Leads
  /\ started \in 0 .. MaxRequests

\* Two LMS leads of one branch and phone.
SamePhone(i, j) == lms[i].phone # None /\ lms[i].phone = lms[j].phone /\ lms[i].org = lms[j].org

\* The leads of one phone in one branch are a single chain: every lead but the
\* newest is inactive and points to the next one, whatever intakes overlapped,
\* so the history of a customer can be followed and nobody has two live leads.
OneChain ==
  \A i \in 1 .. Len(lms) :
    LET later == {j \in i + 1 .. Len(lms) : SamePhone(i, j)}
    IN IF later = {} THEN lms[i].active /\ lms[i].next = None
       ELSE /\ ~lms[i].active
            /\ lms[i].next \in later /\ \A j \in later : lms[i].next <= j

\* A Meta lead that has landed stays linked to the lead it was linked to, so
\* conversions are reported for that one only.
LandedStays ==
  [][\A l \in Leads : metaRows[l] # None => metaRows'[l] = metaRows[l]]_vars

\* The webhook answers 200 whatever happens and Meta does not send the lead
\* again: every lead it has dealt with is linked or in the inbox, unless the
\* write to the inbox failed too.
NothingLost ==
  \A l \in handled \ TestLeads : metaRows[l] # None \/ inbox[l] # None

\* A row closed as resolved is about a lead that has landed.
ResolvedHasLanded ==
  \A l \in Leads : inbox[l] # None /\ inbox[l].status = "resolved" =>
    metaRows[l] # None /\ inbox[l].lead # None

\* Nobody is working on the lead.
Quiet(l) ==
  /\ \A a \in Actors : job[a].lead # l
  /\ \A a \in Actors : intake[a] # None => intake[a].lead # l
  /\ \A c \in closing : c.lead # l

\* The inbox holds "webhook leads that did NOT become an LMS lead"
\* (lead-inbox.service.ts): an open row nobody is working on is about a lead
\* that no LMS lead was created from.  The code does not keep this (an intake
\* that answers too late); no run lists it, and the README tells how.
OpenIsNotInLms ==
  \A l \in Leads : inbox[l] # None /\ inbox[l].status = "open" /\ Quiet(l) =>
    \A i \in 1 .. Len(lms) : lms[i].meta # l

=============================================================================
