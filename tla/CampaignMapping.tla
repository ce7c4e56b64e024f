-------------------------- MODULE CampaignMapping --------------------------
(***************************************************************************)
(* Which type a Meta campaign is of, and which type its leads get.         *)
(*                                                                         *)
(* ext.meta_campaigns holds one row per campaign, for every tenant         *)
(* together.  Five writers share it: a lead arriving through the services  *)
(* (resolveCampaignType), a lead imported by the scripts                   *)
(* (resolve_campaign_type), "Fetch campaigns" (syncCampaigns), the scripts' *)
(* own refresh (sync_campaigns.py) and the administrator who confirms.     *)
(* Beside it administrators edit the ordered rules, retire types and map   *)
(* pages to tenants, and Meta renames campaigns.                           *)
(*                                                                         *)
(* Each request is a sequence of steps; a step is what its statements do   *)
(* between two points where another transaction can commit.  A writer that *)
(* has updated the row holds its lock until it commits, so the update and  *)
(* what follows it are one step.                                           *)
(*                                                                         *)
(* Abstractions.  A rule matches one name exactly; the names of the form,  *)
(* the ad set and the ad are one name of the lead.  A page has at most one *)
(* mapping per tenant.  Objective, status, ad account and the counts that  *)
(* are reported are left out, and so are leads without a campaign: they    *)
(* take the same ladder from its second step.  What the type does to a     *)
(* lead afterwards is LeadRouting's.                                       *)
(***************************************************************************)
EXTENDS Integers, Sequences, FiniteSets, FiniteSetsExt, SequencesExt

CONSTANTS
  Tenants, Campaigns, Pages, Names,
  TypesOf,      \* the campaign types of each tenant
  DefaultOf,    \* the catch-all type of each tenant
  KeywordType,  \* marketing.fn_match_campaign_type, by tenant and name
  PagesOf,      \* the pages the ad sets of a campaign promote
  Earlier,      \* tenants a campaign brought leads to before
  RulesToWrite, \* the rules administrators may write
  Requests,     \* requests and script runs, each does one thing
  Firsts,       \* rows, rules and pages to start from
  None,         \* SQL NULL
  Absent,       \* no such row
  MaxRules,     \* bound: live rules of a tenant
  MaxEdits      \* bound: what people and Meta change

AllTypes == UNION {TypesOf[t] : t \in Tenants}

ASSUME MappingAssumption ==
  /\ \A t, u \in Tenants : t # u => TypesOf[t] \cap TypesOf[u] = {}
  /\ \A t \in Tenants : DefaultOf[t] \in TypesOf[t]
  /\ \A t \in Tenants, n \in Names : KeywordType[<<t, n>>] \in TypesOf[t] \cup {None}
  /\ None \notin AllTypes \cup Names \cup Tenants /\ Absent \notin AllTypes \cup {None}
  /\ PagesOf \in [Campaigns -> SUBSET Pages] /\ Earlier \in [Campaigns -> SUBSET Tenants]
  /\ RulesToWrite \subseteq [field : {"campaign", "lead"}, on : Names, type : AllTypes]
  /\ MaxRules \in Nat /\ MaxEdits \in Nat
  /\ \A f \in Firsts :
       /\ f.rules \in [Tenants -> Seq([field : {"campaign", "lead"}, on : Names, type : AllTypes])]
       /\ \A t \in Tenants : Len(f.rules[t]) <= MaxRules
       /\ f.page \in [Pages -> [Tenants -> AllTypes \cup {None, Absent}]]

VARIABLES
  camp,      \* ext.meta_campaigns
  rules,     \* marketing.campaign_type_rules of a tenant, in rule_order
  live,      \* types that are active and not deleted
  page,      \* ext.meta_page_form_org_map: the default type of a page, by tenant
  metaName,  \* what Meta calls a campaign
  cached,    \* campaignNameCache
  job,       \* what each request is doing
  ruled,     \* see Watch
  edits      \* changes by people and Meta so far

vars == <<camp, rules, live, page, metaName, cached, job, ruled, edits>>

-----------------------------------------------------------------------------
Types == AllTypes \cup {None}
Status == {"unmapped", "suggested", "confirmed"}
Row == [tenant : Tenants, name : Names \cup {None}, type : Types, suggested : Types,
        status : Status, conflict : BOOLEAN]
Rule == [field : {"campaign", "lead"}, on : Names, type : AllTypes]
ASSUME RowAssumption ==
  /\ Absent \notin Row
  /\ \A f \in Firsts : f.camp \in [Campaigns -> Row \cup {Absent}]
  /\ \A f \in Firsts, c \in Campaigns :
       f.camp[c] # Absent /\ f.camp[c].status = "confirmed" => f.camp[c].type \in TypesOf[f.camp[c].tenant]
\* What readCampaignRow returned: the row, and whether its type was live then.
Snapshot == [row : Row, typeIsLive : BOOLEAN]

Idle == [pc |-> "idle"]
IsJob(j) ==
    \/ j = Idle
    \/ j \in [pc : {"arrived"}, c : Campaigns, tenant : Tenants, page : Pages,
              name : Names \cup {None}, leadName : Names \cup {None}]
    \/ j \in [pc : {"read", "insert"}, c : Campaigns, tenant : Tenants, default : Types,
              name : Names \cup {None}, leadName : Names \cup {None}]
    \/ j \in [pc : {"use"}, c : Campaigns, tenant : Tenants, default : Types,
              name : Names \cup {None}, leadName : Names \cup {None}, seen : Snapshot]
    \/ j \in [pc : {"scriptRead", "scriptInsert"}, c : Campaigns, tenant : Tenants, default : Types]
    \/ j \in [pc : {"typed", "done"}, via : {"service", "failed", "script"}, c : Campaigns, tenant : Tenants,
              type : Types, default : Types]
    \/ j \in [pc : {"listed"}, c : Campaigns, name : Names, tenants : SUBSET Tenants,
              scope : Tenants \cup {None}]
    \/ j \in [pc : {"scriptNamed"}, c : Campaigns, tenant : Tenants, name : Names]
    \/ j \in [pc : {"confirming"}, c : Campaigns, tenant : Tenants, type : AllTypes]
    \/ j \in [pc : {"retiring"}, type : AllTypes]
    \/ j = [pc |-> "ended"]

Now(q, j) == job' = [job EXCEPT ![q] = j]
\* What the resolution hands to the intake: the type and the default of the form.
Typed(q, via, c, t, type, default) ==
    Now(q, [pc |-> "typed", via |-> via, c |-> c, tenant |-> t, type |-> type, default |-> default])
End(q) == Now(q, [pc |-> "ended"])
Free == edits < MaxEdits
Edited == edits' = edits + 1
\* Tenants in which ext.meta_leads has a lead of the campaign.
LeadsOf(c) == Earlier[c] \cup {job[q].tenant : q \in {r \in Requests : job[r].pc = "done" /\ job[r].c = c}}

-----------------------------------------------------------------------------
IfLive(x) == IF x \in live THEN x ELSE None
\* fn_match_campaign_type_rules: the first rule on one of the names given.
Applies(r, campaignName, leadName) ==
    /\ r.type \in live
    /\ \/ r.field = "campaign" /\ r.on = campaignName
       \/ r.field = "lead" /\ r.on = leadName
MatchRules(t, campaignName, leadName) ==
    LET hits == {i \in DOMAIN rules[t] : Applies(rules[t][i], campaignName, leadName)}
    IN IF hits = {} THEN None ELSE rules[t][Min(hits)].type
Suggestion(t, n) == MatchRules(t, n, None)
MatchKeyword(t, n) == IF n = None THEN None ELSE IfLive(KeywordType[<<t, n>>])
StatusOf(s) == IF s = None THEN "unmapped" ELSE "suggested"

\* resolveFormDefaultType.
FormDefault(p, t) == IF page[p][t] = Absent THEN None ELSE IfLive(page[p][t])
\* leads-service types the lead again: the first of what it was handed that is
\* a live type of the tenant, then the catch-all.  It refuses a type of another
\* tenant; none reaches it, the ladder having asked the tenant before.
Usable(t, x) == x \in live \cap TypesOf[t]
\* Mutant: the default of the form is not forwarded.
TypeForAlone(t, x, default) == IF Usable(t, x) THEN x ELSE DefaultOf[t]
TypeFor(t, x, default) == IF Usable(t, x) THEN x ELSE IF Usable(t, default) THEN default ELSE DefaultOf[t]
\* Steps 2 to 4 of the ladder.
Ladder(t, campaignName, leadName, default) ==
    LET rule == MatchRules(t, campaignName, leadName)
    IN IF rule # None THEN rule ELSE IF default # None THEN default ELSE DefaultOf[t]

\* Mutant: the tenant of the row is left out.
BlankRow(t, n, type, suggested, status) ==
    [tenant |-> None, name |-> n, type |-> type, suggested |-> suggested, status |-> status, conflict |-> FALSE]
NewRow(t, n, type, suggested, status) ==
    [tenant |-> t, name |-> n, type |-> type, suggested |-> suggested, status |-> status, conflict |-> FALSE]
Put(c, row) == camp' = [camp EXCEPT ![c] = row]

-----------------------------------------------------------------------------
\* A lead through the services.  The name is looked up only when no row of
\* the campaign has one, and the lookup is shared through the cache; the
\* lead's own name only when a live rule reads it.
CampaignIsUnknown(c) == camp[c] = Absent \/ camp[c].name = None
ReadsLeadNames(t) == \E i \in DOMAIN rules[t] : rules[t][i].field = "lead" /\ rules[t][i].type \in live
\* resolveLeadNames: each name from its cache, its row or Meta, or not at all.
LeadNames(t) == IF ReadsLeadNames(t) THEN Names \cup {None} ELSE {None}
Lookups(c) == IF ~CampaignIsUnknown(c) THEN {}
              ELSE IF cached[c] # Absent THEN {cached[c]} ELSE {metaName[c], None}
Arrive(q, c, p, t) ==
    /\ job[q] = Idle
    /\ page[p][t] # Absent
    /\ \E n \in IF CampaignIsUnknown(c) THEN Lookups(c) ELSE {None},
          ln \in LeadNames(t) :
         /\ cached' = IF CampaignIsUnknown(c) THEN [cached EXCEPT ![c] = n] ELSE cached
         /\ Now(q, [pc |-> "arrived", c |-> c, tenant |-> t, page |-> p, name |-> n, leadName |-> ln])
    /\ UNCHANGED <<camp, rules, live, page, metaName, edits>>

\* resolveCampaignType: the default of the form, then the row.
ReadDefault(q) ==
    /\ job[q].pc = "arrived"
    /\ Now(q, [pc |-> "read", c |-> job[q].c, tenant |-> job[q].tenant, name |-> job[q].name,
               leadName |-> job[q].leadName, default |-> FormDefault(job[q].page, job[q].tenant)])
    /\ UNCHANGED <<camp, rules, live, page, metaName, cached, edits>>

ReadRow(q) ==
    LET j == job[q] row == camp[j.c]
    IN /\ j.pc = "read"
       /\ IF row = Absent THEN Now(q, [j EXCEPT !.pc = "insert"])
          ELSE Now(q, [pc |-> "use", c |-> j.c, tenant |-> j.tenant, default |-> j.default, name |-> j.name,
                       leadName |-> j.leadName,
                       seen |-> [row |-> row, typeIsLive |-> row.type \in live]])
       /\ UNCHANGED <<camp, rules, live, page, metaName, cached, edits>>

\* INSERT ... ON CONFLICT DO NOTHING: the loser reads the row of the winner.
InsertRow(q) ==
    LET j == job[q] s == Suggestion(j.tenant, j.name)
    IN /\ j.pc = "insert"
       /\ IF camp[j.c] = Absent
          THEN /\ Put(j.c, NewRow(j.tenant, j.name, None, s, StatusOf(s)))
               /\ Typed(q, "service", j.c, j.tenant, Ladder(j.tenant, j.name, j.leadName, j.default), j.default)
          ELSE /\ Now(q, [j EXCEPT !.pc = "read"])
               /\ UNCHANGED camp
       /\ UNCHANGED <<rules, live, page, metaName, cached, edits>>

\* The name a nameless row gets, and the suggestion re-derived from it.  The
\* row was read before: each update tests the row as it is now.
WithName(row, n) == IF row.name = None THEN [row EXCEPT !.name = n] ELSE row
RefreshSuggestion(row, t, n) ==
    IF row.status = "confirmed" \/ row.tenant # t THEN row
    ELSE [row EXCEPT !.suggested = Suggestion(t, n), !.status = StatusOf(Suggestion(t, n))]
Named(row, j) ==
    IF j.name = None \/ j.seen.row.name # None THEN row
    ELSE IF j.seen.row.status = "confirmed" THEN WithName(row, j.name)
    ELSE RefreshSuggestion(WithName(row, j.name), j.tenant, j.name)
\* Mutant: the rules come before the confirmation.
RuledUnlessRule(j) ==
    /\ j.seen.row.tenant = j.tenant /\ j.seen.row.status = "confirmed" /\ j.seen.typeIsLive
    /\ MatchRules(j.tenant, j.seen.row.name, j.leadName) = None
\* Step 1 of the ladder, then the rest.
IsRuling(j) == j.seen.row.tenant = j.tenant /\ j.seen.row.status = "confirmed" /\ j.seen.typeIsLive
CampaignNameOf(j) ==
    IF j.seen.row.tenant = j.tenant /\ j.name = None THEN j.seen.row.name ELSE j.name
Resolved(j) ==
    IF IsRuling(j) THEN j.seen.row.type
    ELSE Ladder(j.tenant, CampaignNameOf(j), j.leadName, j.default)
UseRow(q) ==
    LET j == job[q] row == camp[j.c]
    IN /\ j.pc = "use"
       /\ Put(j.c, IF j.seen.row.tenant # j.tenant THEN [row EXCEPT !.conflict = TRUE] ELSE Named(row, j))
       /\ Typed(q, "service", j.c, j.tenant, Resolved(j), j.default)
       /\ UNCHANGED <<rules, live, page, metaName, cached, edits>>

\* Anything thrown on the way: the lead goes on without a type or a default.
ResolutionFails(q) ==
    /\ job[q].pc \in {"arrived", "read", "insert", "use"}
    /\ Typed(q, "failed", job[q].c, job[q].tenant, None, None)
    /\ UNCHANGED <<camp, rules, live, page, metaName, cached, edits>>

-----------------------------------------------------------------------------
\* A lead through the scripts.  The mapping, with its default, was loaded when
\* the run started; the name of the campaign is not known on this path.
ScriptArrive(q, c, p, t) ==
    /\ job[q] = Idle
    /\ page[p][t] # Absent
    /\ Now(q, [pc |-> "scriptRead", c |-> c, tenant |-> t, default |-> FormDefault(p, t)])
    /\ UNCHANGED <<camp, rules, live, page, metaName, cached, edits>>

\* Mutant: the re-check is dropped.
ScriptTypeAsIs(t, x) == x
\* lead_writer re-checks a type it was given, not one it was not.
ScriptTypeFor(t, x) == IF x = None \/ Usable(t, x) THEN x ELSE DefaultOf[t]
ScriptFallback(j) == IF j.default # None THEN j.default ELSE DefaultOf[j.tenant]
ScriptHitType(j, row) ==
    IF row.tenant = j.tenant /\ row.type \in live THEN row.type ELSE ScriptFallback(j)
ScriptRead(q) ==
    LET j == job[q] row == camp[j.c]
    IN /\ j.pc = "scriptRead"
       /\ IF row = Absent THEN Now(q, [j EXCEPT !.pc = "scriptInsert"])
          ELSE Typed(q, "script", j.c, j.tenant, ScriptHitType(j, row), None)
       /\ UNCHANGED <<camp, rules, live, page, metaName, cached, edits>>

\* The type of the settled row is the lead's, whoever wrote the row.
ScriptInsert(q) ==
    LET j == job[q] row == camp[j.c]
    IN /\ j.pc = "scriptInsert"
       /\ IF row = Absent
          THEN /\ Put(j.c, NewRow(j.tenant, None, ScriptFallback(j), None, "unmapped"))
               /\ Typed(q, "script", j.c, j.tenant, ScriptFallback(j), None)
          ELSE /\ UNCHANGED camp
               /\ Typed(q, "script", j.c, j.tenant,
                        IF row.tenant = j.tenant THEN row.type ELSE ScriptFallback(j), None)
       /\ UNCHANGED <<rules, live, page, metaName, cached, edits>>

-----------------------------------------------------------------------------
\* The intake: leads-service by a call of its own, or lead_writer by its next
\* statement.  The lead is there with the type it gets now.
Intake(q) ==
    LET j == job[q]
        type == IF j.via = "script" THEN ScriptTypeFor(j.tenant, j.type) ELSE TypeFor(j.tenant, j.type, j.default)
    IN /\ j.pc = "typed"
       /\ Now(q, [j EXCEPT !.pc = "done", !.type = type])
       /\ UNCHANGED <<camp, rules, live, page, metaName, cached, edits>>

-----------------------------------------------------------------------------
\* "Fetch campaigns": the tenants of the pages are read once, then the
\* account is listed, then each campaign is one transaction.
StartFetch(q, c, scope) ==
    /\ job[q] = Idle
    /\ Now(q, [pc |-> "listed", c |-> c, name |-> metaName[c], scope |-> scope,
               tenants |-> {t \in Tenants : \E p \in PagesOf[c] : page[p][t] # Absent}])
    /\ UNCHANGED <<camp, rules, live, page, metaName, cached, edits>>

\* Mutant: the upsert has no CASE.
RefreshedAnyway(row, t, n) ==
    [row EXCEPT !.name = n, !.conflict = FALSE, !.suggested = Suggestion(t, n), !.status = StatusOf(Suggestion(t, n))]
\* The row after ON CONFLICT DO UPDATE: Meta's facts, and the suggestion
\* unless an administrator has confirmed.
Refreshed(row, t, n) ==
    LET facts == [row EXCEPT !.name = n, !.conflict = FALSE]
    IN IF row.status = "confirmed" THEN facts
       ELSE [facts EXCEPT !.suggested = Suggestion(t, n), !.status = StatusOf(Suggestion(t, n))]
\* A row of another tenant is refused by row-level security: an error, no write.
Upserted(c, t, n) ==
    IF camp[c] = Absent THEN NewRow(t, n, None, Suggestion(t, n), StatusOf(Suggestion(t, n)))
    ELSE IF camp[c].tenant # t THEN camp[c]
    ELSE Refreshed(camp[c], t, n)
Flagged(c) == IF camp[c] = Absent THEN Absent ELSE [camp[c] EXCEPT !.conflict = TRUE]
StoreFetched(q) ==
    LET j == job[q]
    IN /\ j.pc = "listed"
       /\ \/ /\ Cardinality(j.tenants) > 1
             /\ Put(j.c, Flagged(j.c))
          \/ \E t \in Tenants :
               /\ j.tenants = {t} /\ j.scope \in {None, t}
               /\ Put(j.c, Upserted(j.c, t, j.name))
          \/ /\ \/ j.tenants = {}
                \/ Cardinality(j.tenants) = 1 /\ j.scope \notin j.tenants \cup {None}
             /\ UNCHANGED camp
       /\ End(q)
       /\ UNCHANGED <<rules, live, page, metaName, cached, edits>>

\* sync_campaigns.py, for one branch's campaign: the name, then the upsert.
\* It runs outside row-level security and does not test the row's tenant.
StartScriptSync(q, c, t) ==
    /\ job[q] = Idle
    /\ t \in LeadsOf(c)
    /\ Now(q, [pc |-> "scriptNamed", c |-> c, tenant |-> t, name |-> metaName[c]])
    /\ UNCHANGED <<camp, rules, live, page, metaName, cached, edits>>

ScriptRefreshed(row, t, n) ==
    IF row.status = "confirmed" THEN [row EXCEPT !.name = n]
    ELSE [row EXCEPT !.name = n, !.type = MatchKeyword(t, n), !.status = StatusOf(MatchKeyword(t, n))]
ScriptSync(q) ==
    LET j == job[q] k == MatchKeyword(j.tenant, j.name)
    IN /\ j.pc = "scriptNamed"
       /\ Put(j.c, IF camp[j.c] = Absent THEN NewRow(j.tenant, j.name, k, None, StatusOf(k))
                   ELSE ScriptRefreshed(camp[j.c], j.tenant, j.name))
       /\ End(q)
       /\ UNCHANGED <<rules, live, page, metaName, cached, edits>>

-----------------------------------------------------------------------------
\* confirmCampaignMapping: the checks, then the update, in one transaction
\* that locks nothing before the update.  It may add a rule.
StartConfirm(q, c, t, x) ==
    /\ job[q] = Idle
    /\ camp[c] # Absent /\ camp[c].tenant = t
    /\ x \in live \cap TypesOf[t]
    /\ Now(q, [pc |-> "confirming", c |-> c, tenant |-> t, type |-> x])
    /\ UNCHANGED <<camp, rules, live, page, metaName, cached, edits>>

SaveConfirm(q) ==
    LET j == job[q]
    IN /\ j.pc = "confirming"
       /\ Put(j.c, [camp[j.c] EXCEPT !.type = j.type, !.status = "confirmed"])
       /\ \/ UNCHANGED rules
          \/ /\ Len(rules[j.tenant]) < MaxRules
             /\ \E r \in RulesToWrite : r.type = j.type /\ rules' = [rules EXCEPT ![j.tenant] = Append(@, r)]
       /\ End(q)
       /\ UNCHANGED <<live, page, metaName, cached, edits>>

\* A type is retired, by deactivating or deleting it: first the check that
\* nothing routes new leads through it, then the update.
RoutesThrough(x) ==
    \/ \E c \in Campaigns : camp[c] # Absent /\ camp[c].type = x
    \/ \E p \in Pages, t \in Tenants : page[p][t] = x
StartRetire(q, x) ==
    /\ job[q] = Idle
    /\ x \in live /\ x \notin {DefaultOf[t] : t \in Tenants}
    /\ ~RoutesThrough(x)
    /\ Now(q, [pc |-> "retiring", type |-> x])
    /\ UNCHANGED <<camp, rules, live, page, metaName, cached, edits>>
Retire(q) ==
    /\ job[q].pc = "retiring"
    /\ live' = live \ {job[q].type}
    /\ End(q)
    /\ UNCHANGED <<camp, rules, page, metaName, cached, edits>>

-----------------------------------------------------------------------------
\* The rules of a tenant: added at the end or in between, changed, deleted,
\* reordered.
AddRule(t, i, r) ==
    /\ Free /\ Len(rules[t]) < MaxRules
    /\ r.type \in live \cap TypesOf[t]
    /\ rules' = [rules EXCEPT ![t] = InsertAt(@, i, r)]
    /\ Edited /\ UNCHANGED <<camp, live, page, metaName, cached, job>>
ChangeRule(t, i, r) ==
    /\ Free
    /\ r # rules[t][i]
    /\ r.type = rules[t][i].type \/ r.type \in live \cap TypesOf[t]
    /\ rules' = [rules EXCEPT ![t][i] = r]
    /\ Edited /\ UNCHANGED <<camp, live, page, metaName, cached, job>>
DeleteRule(t, i) ==
    /\ Free
    /\ rules' = [rules EXCEPT ![t] = RemoveAt(@, i)]
    /\ Edited /\ UNCHANGED <<camp, live, page, metaName, cached, job>>
ReorderRules(t) ==
    /\ Free /\ Len(rules[t]) > 1
    /\ \E s \in SetToSeqs(ToSet(rules[t])) :
         /\ Len(s) = Len(rules[t]) /\ s # rules[t]
         /\ rules' = [rules EXCEPT ![t] = s]
    /\ Edited /\ UNCHANGED <<camp, live, page, metaName, cached, job>>

\* A page is mapped to a tenant with a default type or none, or unmapped.
MapPage(p, t, x) ==
    /\ Free /\ page[p][t] # x
    /\ x = None \/ x \in live \cap TypesOf[t]
    /\ page' = [page EXCEPT ![p][t] = x]
    /\ Edited /\ UNCHANGED <<camp, rules, live, metaName, cached, job>>
UnmapPage(p, t) ==
    /\ Free /\ page[p][t] # Absent
    /\ page' = [page EXCEPT ![p][t] = Absent]
    /\ Edited /\ UNCHANGED <<camp, rules, live, metaName, cached, job>>

\* Meta renames a campaign; a cached name expires or is pushed out.
Rename(c, n) ==
    /\ Free /\ metaName[c] # n
    /\ metaName' = [metaName EXCEPT ![c] = n]
    /\ Edited /\ UNCHANGED <<camp, rules, live, page, cached, job>>
Forget(c) ==
    /\ Free /\ cached[c] # Absent
    /\ cached' = [cached EXCEPT ![c] = Absent]
    /\ Edited /\ UNCHANGED <<camp, rules, live, page, metaName, job>>

-----------------------------------------------------------------------------
\* The type an administrator has ruled for the campaign's leads of a tenant.
Ruling(c, t, rows, alive) ==
    IF rows[c] # Absent /\ rows[c].tenant = t /\ rows[c].status = "confirmed" /\ rows[c].type \in alive
    THEN rows[c].type ELSE None
\* The rulings in force until a lead was typed: for the properties.
Watch ==
    ruled' = [q \in Requests |->
               IF job'[q].pc \in {"arrived", "scriptRead"} /\ job[q] = Idle
               THEN {Ruling(job'[q].c, job'[q].tenant, camp', live')}
               ELSE IF job[q].pc \in {"arrived", "read", "insert", "use", "scriptRead", "scriptInsert"}
               THEN ruled[q] \cup {Ruling(job[q].c, job[q].tenant, camp', live')}
               ELSE ruled[q]]

Init ==
    /\ \E f \in Firsts : camp = f.camp /\ rules = f.rules /\ page = f.page
    /\ live = AllTypes
    /\ metaName \in [Campaigns -> Names]
    /\ cached = [c \in Campaigns |-> Absent]
    /\ job = [q \in Requests |-> Idle]
    /\ ruled = [q \in Requests |-> {}]
    /\ edits = 0

Begin(q) ==
    \/ \E c \in Campaigns, p \in Pages, t \in Tenants : Arrive(q, c, p, t) \/ ScriptArrive(q, c, p, t)
    \/ \E c \in Campaigns, scope \in Tenants \cup {None} : StartFetch(q, c, scope)
    \/ \E c \in Campaigns, t \in Tenants : StartScriptSync(q, c, t)
    \/ \E c \in Campaigns, t \in Tenants, x \in AllTypes : StartConfirm(q, c, t, x)
    \/ \E x \in AllTypes : StartRetire(q, x)
Continue(q) ==
    \/ ReadDefault(q) \/ ReadRow(q) \/ InsertRow(q) \/ UseRow(q) \/ ResolutionFails(q)
    \/ ScriptRead(q) \/ ScriptInsert(q) \/ Intake(q)
    \/ StoreFetched(q) \/ ScriptSync(q) \/ SaveConfirm(q) \/ Retire(q)
People ==
    \/ \E t \in Tenants, r \in RulesToWrite :
         \/ \E i \in 1 .. Len(rules[t]) + 1 : AddRule(t, i, r)
         \/ \E i \in 1 .. Len(rules[t]) : ChangeRule(t, i, r)
    \/ \E t \in Tenants : ReorderRules(t) \/ \E i \in 1 .. Len(rules[t]) : DeleteRule(t, i)
    \/ \E p \in Pages, t \in Tenants : UnmapPage(p, t) \/ \E x \in Types : MapPage(p, t, x)
    \/ \E c \in Campaigns : Forget(c) \/ \E n \in Names : Rename(c, n)
Next == ((\E q \in Requests : Begin(q) \/ Continue(q)) \/ People) /\ Watch
Spec == Init /\ [][Next]_vars

-----------------------------------------------------------------------------
TypeOK ==
    /\ camp \in [Campaigns -> Row \cup {Absent}]
    /\ rules \in [Tenants -> Seq(Rule)] /\ \A t \in Tenants : Len(rules[t]) <= MaxRules
    /\ live \subseteq AllTypes
    /\ page \in [Pages -> [Tenants -> Types \cup {Absent}]]
    /\ metaName \in [Campaigns -> Names]
    /\ cached \in [Campaigns -> Names \cup {None, Absent}]
    /\ DOMAIN job = Requests /\ \A q \in Requests : IsJob(job[q])
    /\ ruled \in [Requests -> SUBSET Types]
    /\ edits \in 0 .. MaxEdits

\* "A confirmed mapping is never overwritten" (campaign-sync.service.ts:33):
\* of the five writers, which all read before they write, only another
\* confirmation for the tenant that owns the row changes a confirmed type, and
\* nothing takes the confirmation or the row from its tenant.
ConfirmedStands ==
    [][\A c \in Campaigns :
         camp[c] # Absent /\ camp[c].status = "confirmed" =>
           /\ camp'[c].status = "confirmed" /\ camp'[c].tenant = camp[c].tenant
           /\ \/ camp'[c].type = camp[c].type
              \/ \E q \in Requests : /\ job[q].pc = "confirming" /\ job'[q] # job[q]
                                     /\ job[q].c = c /\ job[q].tenant = camp[c].tenant]_vars

\* Step 1 of the ladder: a lead whose campaign was ruled on, by live rulings,
\* all the time it was being typed gets one of those types, by either path (a
\* failure of the resolution apart), whatever it read before the others wrote.
\* Once one of them is retired it may get the default of its form instead, or,
\* when there is none or that is retired too, its tenant's catch-all.
FollowsTheRuling ==
    \A q \in Requests : LET j == job[q] IN
      j.pc = "done" /\ j.via # "failed" /\ None \notin ruled[q] =>
        \/ j.type \in ruled[q]
        \/ /\ ~(ruled[q] \subseteq live)
           /\ \/ j.type = j.default /\ j.type # None
              \/ j.type = DefaultOf[j.tenant] /\ ~Usable(j.tenant, j.default)

\* "A campaign must never span tenants": whatever the shared row says, by
\* whomever it was written, no lead gets a type of another tenant.
LeadTypeIsOwn ==
    \A q \in Requests : job[q].pc = "done" => job[q].type \in TypesOf[job[q].tenant] \cup {None}

\* "Returning the hit's type here left the lead UNASSIGNED while the webhook
\* routed the same lead to the default pool -- the two ingest paths
\* disagreeing is exactly what this module exists to prevent"
\* (campaign_resolution.py:178-181): no lead is left without a type.  A row that
\* a sync inserts between the script's two reads breaks it; no run lists this, and
\* the README tells how.
LeadsAreTyped == \A q \in Requests : job[q].pc = "done" => job[q].type # None
=============================================================================
