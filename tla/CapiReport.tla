----------------------------- MODULE CapiReport -----------------------------
(***************************************************************************)
(* Reporting stages of leads to Meta's Conversions API, and the cache of   *)
(* the credentials the reports and the webhook are made with.              *)
(*                                                                         *)
(* A stage change of a lead that Meta captured fires a call, not awaited,  *)
(* to meta-conversion-api.  There one transaction checks the lead, its     *)
(* source, its Meta lead and its tenant's integration, finds the event of  *)
(* the stage, skips what a SUCCESS row of the log shows was sent, sends    *)
(* and logs.  Anybody with the right may send an event by hand.            *)
(*                                                                         *)
(* The credentials are two rows: the tenant's own app, and the app tenants *)
(* share.  The own row is read afresh for a report; the webhook reads      *)
(* either through a cache of 60 seconds, which a write on this instance    *)
(* clears; other instances, and psql, write the same rows.                 *)
(*                                                                         *)
(* Abstractions.  A credential is a value.  The names of the leads' fields *)
(* and their hashes are left out: an event is known by its Meta lead and   *)
(* its name, from which event_id is computed.  Expire is the end of an     *)
(* entry's 60 seconds.                                                     *)
(***************************************************************************)
EXTENDS Integers, Sequences, FiniteSets, FiniteSetsExt

CONSTANTS
  Leads, MetaLeads, LinksOf,    \* the Meta leads of a lead
  FromMeta,                     \* leads whose source is Meta's
  Stages, StartStages, Events,
  ManualEvents,                 \* events that are sent by hand
  StartMaps,                    \* lead_stage_capi_event_map to start from
  Triggers,                     \* transactions of triggerCapiEvent under way
  Creds, StartApps,             \* meta_tenant_config to start from
  Inactive, None, Absent,
  MaxSteps                      \* bound: stage moves events, and edits of
                                \* the mapping and of the rows

Apps == {"own", "shared"}
NoEvent == None

ASSUME CapiAssumption ==
  /\ LinksOf \in [Leads -> SUBSET MetaLeads] /\ FromMeta \subseteq Leads
  /\ ManualEvents \subseteq Events /\ StartStages \subseteq [Leads -> Stages]
  /\ StartMaps \subseteq [Stages -> Events \cup {NoEvent}]
  /\ StartApps \subseteq [Apps -> Creds \cup {Inactive}]
  /\ {Inactive, None, Absent} \cap Creds = {} /\ Absent \notin {Inactive, None} /\ None \notin Events \cup MetaLeads
  /\ MaxSteps \in Nat

VARIABLES
  stage,                \* of each lead
  calls,                \* auto-trigger calls on their way
  eventOf,              \* ext.vw_lead_stage_capi_event_map
  trig,                 \* the transactions
  received,             \* what Meta got: lead, Meta lead, event
  log,                  \* ext.meta_capi_outbound_logs: lead, event, status
  app,                  \* ext.meta_tenant_config: a credential, or Inactive
  cache, load,          \* integrationCache, and the loads of its entries
  clearing,             \* a write has committed and the cache is yet to be cleared
  excused,              \* history: entries a write may leave stale
  entered, meant, asked,    \* history: stages entered, events of stages events
  steps                 \* counter

crm     == <<stage, calls, entered>>
mapping == <<eventOf, meant>>
reports == <<trig, received, log, asked>>
cached  == <<cache, load, excused>>
rows    == <<app, clearing>>
vars    == <<crm, mapping, reports, cached, rows, steps>>

\* A trigger: where it is, its lead and event, and the credential it will use.
\* A manual one has its event from the start, an automatic one has a stage.
Idle == [pc |-> "idle", lead |-> None, stage |-> None, event |-> None, meta |-> None, cred |-> None]
Trig == [pc : {"idle", "lead", "app", "shared", "event", "send", "log"}, lead : Leads \cup {None},
         stage : Stages \cup {None}, event : Events \cup {None}, meta : MetaLeads \cup {None},
         cred : Creds \cup {None}]
Report == [lead : Leads, meta : MetaLeads, event : Events]

TypeOK ==
  /\ stage \in [Leads -> Stages] /\ calls \subseteq Leads \X Stages
  /\ eventOf \in [Stages -> Events \cup {NoEvent}]
  /\ trig \in [Triggers -> Trig]
  /\ received \subseteq Report
  /\ log \subseteq [lead : Leads, event : Events, status : {"SUCCESS", "FAILED"}]
  /\ app \in [Apps -> Creds \cup {Inactive}]
  /\ cache \in [Apps -> Creds \cup {Inactive, Absent}]
  /\ load \in [Apps -> SUBSET (Creds \cup {Inactive})]
  /\ clearing \in BOOLEAN /\ excused \subseteq Apps
  /\ entered \subseteq Leads \X Stages /\ meant \subseteq Stages \X Events /\ asked \subseteq Leads \X Events
  /\ steps \in 0 .. MaxSteps
  \* An event is sent only with a Meta lead, a name and a credential.
  /\ \A t \in Triggers : trig[t].pc \in {"send", "log"} =>
       None \notin {trig[t].event, trig[t].meta, trig[t].cred}

Init ==
  /\ stage \in StartStages /\ calls = {}
  /\ entered = {<<l, stage[l]>> : l \in Leads}
  /\ eventOf \in StartMaps /\ meant = {<<s, eventOf[s]>> : s \in {x \in Stages : eventOf[x] # NoEvent}}
  /\ trig = [t \in Triggers |-> Idle] /\ received = {} /\ log = {} /\ asked = {}
  /\ app \in StartApps
  /\ cache = [e \in Apps |-> Absent] /\ load = [e \in Apps |-> {}]
  /\ clearing = FALSE /\ excused = {} /\ steps = 0

Counted == steps < MaxSteps /\ steps' = steps + 1

-----------------------------------------------------------------------------
(* leads-service *)

\* updateLead: Meta hears only of its own leads, and only when the stage moved.
ReportsToMeta(l, s) == s # stage[l] /\ l \in FromMeta

UpdateLead(l, s) ==
  /\ Counted
  /\ stage' = [stage EXCEPT ![l] = s]
  /\ entered' = entered \cup {<<l, s>>}
  /\ calls' = IF ReportsToMeta(l, s) THEN calls \cup {<<l, s>>} ELSE calls
  /\ UNCHANGED <<mapping, reports, cached, rows>>

\* fireCapiAutoTrigger is not awaited: a call that fails is only logged.
CallLost(call) ==
  /\ call \in calls
  /\ calls' = calls \ {call}
  /\ UNCHANGED <<stage, entered, mapping, reports, cached, rows, steps>>

\* putMappings: each stage in a statement of its own, "no event" being no row.
PutMapping(s, event) ==
  /\ Counted /\ event # eventOf[s]
  /\ eventOf' = [eventOf EXCEPT ![s] = event]
  /\ meant' = IF event = NoEvent THEN meant ELSE meant \cup {<<s, event>>}
  /\ UNCHANGED <<crm, reports, cached, rows>>

-----------------------------------------------------------------------------
(* triggerCapiEvent *)

AutoTrigger(t, call) ==
  /\ call \in calls /\ trig[t].pc = "idle"
  /\ calls' = calls \ {call}
  /\ trig' = [trig EXCEPT ![t] = [Idle EXCEPT !.pc = "lead", !.lead = call[1], !.stage = call[2]]]
  /\ UNCHANGED <<stage, entered, received, log, asked, mapping, cached, rows, steps>>

ManualCrmEvent(t, l, event) ==
  /\ Counted /\ trig[t].pc = "idle"
  /\ asked' = asked \cup {<<l, event>>}
  /\ trig' = [trig EXCEPT ![t] = [Idle EXCEPT !.pc = "lead", !.lead = l, !.event = event]]
  /\ UNCHANGED <<received, log, crm, mapping, cached, rows>>

\* The transaction ends: skipped, or an exception rolled it back.
Ends(t) == trig' = [trig EXCEPT ![t] = Idle]

\* The link to a Meta lead taken for the source.
LinkedIsMeta(l)  == LinksOf[l] # {}
SourceIsMeta(l)  == l \in FromMeta

\* The lead, its source, and any one of its Meta leads.
ReadLead(t) ==
  LET l == trig[t].lead IN
  /\ trig[t].pc = "lead"
  /\ IF SourceIsMeta(l) /\ LinksOf[l] # {}
     THEN \E meta \in LinksOf[l] : trig' = [trig EXCEPT ![t].pc = "app", ![t].meta = meta]
     ELSE Ends(t)
  /\ UNCHANGED <<received, log, asked, crm, mapping, cached, rows, steps>>

\* getIntegrationByTenantId: the own app when it is active, else the shared one.
ReadOwn(t) ==
  /\ trig[t].pc = "app"
  /\ trig' = [trig EXCEPT ![t] = IF app["own"] # Inactive
                                 THEN [@ EXCEPT !.pc = "event", !.cred = app["own"]]
                                 ELSE [@ EXCEPT !.pc = "shared"]]
  /\ UNCHANGED <<received, log, asked, crm, mapping, cached, rows, steps>>

\* The shared app, from the cache; an entry that is missing is loaded first.
ReadShared(t) ==
  LET cred == cache["shared"] IN
  /\ trig[t].pc = "shared" /\ cred # Absent
  /\ IF cred = Inactive THEN Ends(t) ELSE trig' = [trig EXCEPT ![t].pc = "event", ![t].cred = cred]
  /\ UNCHANGED <<received, log, asked, crm, mapping, cached, rows, steps>>

\* The event of the stage the call names; nothing to do when there is none, or
\* when the log has a SUCCESS for the lead and the event.
EventFor(t) == IF trig[t].event # None THEN trig[t].event ELSE eventOf[trig[t].stage]
AlreadySent(l, event) == [lead |-> l, event |-> event, status |-> "SUCCESS"] \in log
\* A stage without an event not noticed.
SkipsSentOnly(l, event) == AlreadySent(l, event)
Skips(l, event)         == event = NoEvent \/ AlreadySent(l, event)

ResolveEvent(t) ==
  LET event == EventFor(t) IN
  /\ trig[t].pc = "event"
  /\ IF Skips(trig[t].lead, event) THEN Ends(t)
     ELSE trig' = [trig EXCEPT ![t].pc = "send", ![t].event = event]
  /\ UNCHANGED <<received, log, asked, crm, mapping, cached, rows, steps>>

Logged(t, status) == log \cup {[lead |-> trig[t].lead, event |-> trig[t].event, status |-> status]}
Sent(t) == [lead |-> trig[t].lead, meta |-> trig[t].meta, event |-> trig[t].event]

GotUnlessLost(t) == received' \in {received, received \cup {Sent(t)}}
GotByMeta(t)     == received' = received \cup {Sent(t)}

\* Meta has the event; the answer arrives in time.
SendAnswered(t) ==
  /\ trig[t].pc = "send"
  /\ GotByMeta(t)
  /\ trig' = [trig EXCEPT ![t].pc = "log"]
  /\ UNCHANGED <<log, asked, crm, mapping, cached, rows, steps>>

\* Meta refuses it, or does not answer in 15 seconds, having it or not: FAILED.
SendFails(t) ==
  /\ trig[t].pc = "send"
  /\ GotUnlessLost(t)
  /\ log' = Logged(t, "FAILED")
  /\ Ends(t)
  /\ UNCHANGED <<asked, crm, mapping, cached, rows, steps>>

WriteLog(t) ==
  /\ trig[t].pc = "log"
  /\ log' = Logged(t, "SUCCESS")
  /\ Ends(t)
  /\ UNCHANGED <<received, asked, crm, mapping, cached, rows, steps>>

\* The row is not written, or the process dies: the event stays with Meta.
TriggerDies(t) ==
  /\ trig[t].pc # "idle"
  /\ Ends(t)
  /\ UNCHANGED <<received, log, asked, crm, mapping, cached, rows, steps>>

-----------------------------------------------------------------------------
(* The cache and the rows.  load holds what lookups that missed have read  *)
(* and not yet put into the cache.                                         *)

\* A lookup that missed, of the webhook or of a trigger, reads the row.
LoadRead(e) ==
  /\ load' = [load EXCEPT ![e] = @ \cup {app[e]}]
  /\ UNCHANGED <<cache, excused, crm, mapping, reports, rows, steps>>

\* Nothing old is left of the entry.
Settled(e) == IF load'[e] \subseteq {app[e]} /\ cache'[e] \in {Absent, app[e]} THEN excused \ {e} ELSE excused

\* What was read is cached; or the load throws, and is not.
LoadEnd(e) ==
  /\ \E value \in load[e] :
       /\ load' = [load EXCEPT ![e] = @ \ {value}]
       /\ cache' \in {cache, [cache EXCEPT ![e] = value]}
  /\ excused' = Settled(e)
  /\ UNCHANGED <<crm, mapping, reports, rows, steps>>

Expire(e) ==
  /\ cache[e] # Absent
  /\ cache' = [cache EXCEPT ![e] = Absent] /\ UNCHANGED load
  /\ excused' = Settled(e)
  /\ UNCHANGED <<crm, mapping, reports, rows, steps>>

\* createIntegration and updateIntegration write the tenant's own row.
UpdateIntegration(value) ==
  /\ Counted /\ ~clearing /\ value # app["own"]
  /\ app' = [app EXCEPT !["own"] = value]
  /\ clearing' = TRUE
  /\ excused' = IF load["own"] # {} THEN excused \cup {"own"} ELSE excused
  /\ UNCHANGED <<cache, load, crm, mapping, reports>>

\* One key cleared, and not the row's others.
ClearedByOne == [cache EXCEPT !["shared"] = Absent]
Cleared      == [e \in Apps |-> Absent]

\* Then they clear the cache.
InvalidateIntegrationCache ==
  /\ clearing
  /\ cache' = Cleared
  /\ clearing' = FALSE
  /\ excused' = excused \ {e \in Apps : load[e] \subseteq {app[e]}}
  /\ UNCHANGED <<app, load, crm, mapping, reports, steps>>

\* External: another instance writes a row, or psql does.
ChangeElsewhere(e, value) ==
  /\ Counted /\ value # app[e]
  /\ app' = [app EXCEPT ![e] = value]
  /\ excused' = IF cache[e] # Absent \/ load[e] # {} THEN excused \cup {e} ELSE excused
  /\ UNCHANGED <<clearing, cache, load, crm, mapping, reports>>

-----------------------------------------------------------------------------
Next ==
  \/ \E l \in Leads, s \in Stages : UpdateLead(l, s)
  \/ \E call \in calls : CallLost(call)
  \/ \E s \in Stages, event \in Events \cup {NoEvent} : PutMapping(s, event)
  \/ \E t \in Triggers, call \in calls : AutoTrigger(t, call)
  \/ \E t \in Triggers, l \in Leads, event \in ManualEvents : ManualCrmEvent(t, l, event)
  \/ \E t \in Triggers :
       \/ ReadLead(t) \/ ReadOwn(t) \/ ReadShared(t) \/ ResolveEvent(t)
       \/ SendAnswered(t) \/ SendFails(t) \/ WriteLog(t) \/ TriggerDies(t)
  \/ \E e \in Apps : LoadRead(e) \/ LoadEnd(e) \/ Expire(e)
  \/ \E value \in Creds \cup {Inactive} : UpdateIntegration(value)
  \/ InvalidateIntegrationCache
  \/ \E e \in Apps, value \in Creds \cup {Inactive} : ChangeElsewhere(e, value)

Spec == Init /\ [][Next]_vars

-----------------------------------------------------------------------------
(* Properties. *)

\* What Meta gets is of a lead Meta captured, under one of that lead's own Meta
\* leads, and for an event somebody sent by hand or that was, at some time, the
\* event of a stage the lead was in: a call that arrives late, after the lead or
\* the mapping has moved on, reports nothing else (capi-trigger.service.ts:67-78
\* and 109-123).
ReportIsDue ==
  \A r \in received :
    /\ r.lead \in FromMeta /\ r.meta \in LinksOf[r.lead]
    /\ \/ <<r.lead, r.event>> \in asked
       \/ \E s \in Stages : <<r.lead, s>> \in entered /\ <<s, r.event>> \in meant

\* This instance keeps an old credential only where its writes cannot reach: in
\* a load that read the row before, between the write and the clearing, or when
\* the row was changed elsewhere (integration.service.ts:35 and 66-73).
StaleIsExcused == \A e \in Apps : cache[e] \notin {Absent, app[e]} => e \in excused \/ clearing
=============================================================================
