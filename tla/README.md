# msq-lms: specifications, model checking and proofs

This directory holds TLA+ modules of the lead management system in `src/`, the TLC
configurations that check them on small instances, and proofs, checked by TLAPS, of what
matters most for every value of the constants. `PROJECT.json` relates every definition to
the lines it models and lists runs, mutants, findings, hazards and theorems.

    tlc -workers 2 -config LeadPullReplicas.cfg MCLeadPull     # one run
    tlapm LeadPullProofs.tla                                   # one proof module

Contents: [the system](#the-system), [hazards](#what-is-hard-here),
[LeadPull](#leadpull-the-pull-queue), [LeadIngest](#leadingest-from-meta-to-the-lms),
[LeadLifecycle](#leadlifecycle-a-lead-and-its-follow-ups),
[LeadRouting](#leadrouting-who-a-lead-goes-to),
[CampaignMapping](#campaignmapping-the-type-of-a-campaign),
[GraphWalk](#graphwalk-the-walks-over-metas-graph),
[LiveAlerts](#livealerts-reminders-and-live-events),
[CapiReport](#capireport-stages-reported-to-meta), [LeadGrid](#leadgrid-the-list-in-the-browser),
[AssignDesk and LeadsHistory](#assigndesk-and-leadshistory-who-gives-leads-and-who-sees-them),
[runs](#runs-and-bounds), [mutants](#mutants), [proofs](#proofs),
[what is only model-checked](#what-is-only-model-checked),
[what disagrees with the documentation](#where-the-code-and-its-comments-disagree),
[not modelled](#not-modelled), [plan](#plan).

## The system

Leads (prospective customers) arrive from Meta ads, from a public API or by hand, are typed
by campaign, routed to a branch (org) of a tenant, assigned to a counsellor, followed up, and
reported back to Meta when their stage moves. Four services share one PostgreSQL database;
each handler runs in READ COMMITTED transactions, and most races below come from a read in one
statement or transaction and a write in the next.

| Part | Where in `src/` | State | Operations | Talks to |
|---|---|---|---|---|
| Lead pull queue | `services/meta-conversion-api/src`: `workers/pull-poller.ts`, `services/lead-pull.admin.service.ts`, `services/lead-apply.service.ts` | `scratch.meta_pull_runs`, `meta_pull_leads` | pull, claim, heartbeat, reap, finish, fail, scheduled catch-up, apply, remap | Graph API, lead sync, database locks |
| Walk, staging, classification | `services/lead-pull.service.ts`, `services/lead-reconcile.service.ts` | rows of a run | walk pages, stage leads, verdict ladder | Graph API, page mappings |
| Page and form routing | `services/page-org-map.service.ts`, `page-org-map.admin.service.ts` | `ext.meta_page_form_org_map` | resolve a form or page to a branch, edit | webhook, pull, retry |
| Lead sync | `services/lead-sync.service.ts`, `lib/internal-leads-client.ts` | `ext.meta_leads` | look up, intake call with a time-out, look up again, link | leads-service over HTTP |
| Webhook | `api/v1/webhook/*` | none | deliver a batch, always answer 200 | Graph API, sync, inbox |
| Lead inbox | `services/lead-inbox.service.ts` | `ext.meta_lead_inbox` | record, resolve, retry, ignore | sync |
| Intake | `services/leads-service/src/api/v1/intake/*` | `lms.marketing_leads`, `lead_links` | supersede on phone, fold on e-mail, insert | picker |
| Assignment picker | `services/leads-service/src/lib/assignment.ts` | assignments, quotas | weighted pick, catch-all | intake, create, transfer |
| Rerun, reclassification | `lead-assignment-rerun/*`, `services/campaign-reclassify.service.ts` | leads | select untouched leads, then update them | picker, campaigns |
| Manual and bulk assignment | `api/v1/assignments/*`, `api/v1/internal/*` | leads | assign, reassign, unassign, bulk, move a branch's leads | the pages of the web application |
| Leads History | `api/v1/assignments/*` (`listLeadsHistory`); in lms-web `components/leads-history/*` | the open page: ticks, names, answers | pick, apply, reset, sort | roles, memberships |
| Lead lifecycle | `api/v1/leads/*`, `lib/lead-write-scope.ts` | leads | create, update, delete, transfer | follow-ups, triggers, reporting |
| Follow-ups | `api/v1/follow-ups/*` | `lms.lead_follow_ups`, the lead's due time | schedule, update or complete, delete | lead lifecycle |
| Campaign mapping | `services/campaign-*.service.ts`; in leads-service `lib/campaign-resolution.ts` | campaign types and their confirmation | suggest, sync, confirm, fan out | intake |
| Conversions API | `services/capi-trigger.service.ts`, `lib/meta-capi-trigger.ts` | report log | look up the log, send, log | Graph API |
| Integrations | `services/integration.service.ts` | credentials and a TTL cache | read through, invalidate | all Graph callers |
| Graph client | `services/meta-api.service.ts` | none | paginate, retry, back off | Meta |
| Follow-up checker | `services/notifications-service/src/services/followup-checker.ts` | per-day sets of what was notified | scan the due window every tick | live notifications |
| Live notifications | `services/notifications-service/src` (`connections/manager`, `routes/stream`, `transport`) | open SSE connections | connect, deliver, keep alive, LISTEN | pg NOTIFY |
| Web application | `packages/lms-web`, `apps/lms-web` | browser state | lists, dialogs, hooks | leads-service |
| Analytics, lookups, WhatsApp, scripts | various | single rows or none | reads, one-row CRUD, one external call | |

How they interact. The webhook, an inbox retry and the apply of a pull all end in
`syncLeadToDatabase`, which calls the intake of leads-service over HTTP and then links the Meta
lead to the LMS lead: this is where processes, time-outs and redeliveries meet. A pull runs
next to the webhook on the same leads. From then on the lead belongs to its users: the
lifecycle and the follow-ups write the same two tables from overlapping transactions.

What makes each part correct, in one line each:

- *Pull queue*: a pull accepted is worked once, by one worker, and its outcome can be read; no run
  blocks its tenant for ever; nothing an administrator is waiting for is deleted.
- *Sync, webhook, inbox*: a Meta lead that was delivered is linked or parked, never neither; its
  link never changes; an inbox row says the truth about it.
- *Intake*: one active lead per branch and phone, older ones chained to it.
- *Lifecycle*: nobody's edit is lost, nothing the user typed is silently dropped, a lead in a stage
  that requires a follow-up has one.
- *Picker and re-assignment*: quotas hold, and a lead somebody works on is not taken away.
- *Campaign mapping*: a confirmed type is never overwritten, and leads carry the confirmed type.
- *Walks*: nothing asked for is lost without a word, nothing else is taken, and every door routes a lead alike.
- *Conversions API*: what Meta gets was true of the lead at some time; a credential that was replaced is not used for long.
- *Notifications*: every due follow-up is notified, once a day, to its owner only.
- *Manual assignment, Leads History*: a lead is given within the branch and the reach of whoever gives it, to a member of its
  branch; a report shows what was asked for and may be seen.
- *Web application*: what the list shows is what the database has, as far as the tab was told; a save of
  several requests makes the follow-up it was to make, once.

## What is hard here

`PROJECT.json` lists the hazards, each at its line. They fall into five groups: two processes or
requests between a read and a write (pull creation, apply, remap, sync, intake, transfer,
follow-ups); a worker that is slow and taken for dead (the reaper, the time-out of the intake
call); a failure between two transactions of one operation (remap, apply, the parked lead, a save of
several requests); a sequence of legal calls that ends in a state the rules exclude (follow-up
required but none due); and calls, events or responses cut short, lost or overtaken (the walks over
Meta's Graph, live notifications, list requests). Hazards whose property the code does not keep name the
definition that states it; [below](#where-the-code-and-its-comments-disagree) is how to see it violated.

## LeadPull: the pull queue

Modules `LeadPull` (the system), `PullSlot` (what it promises), `MCLeadPull` (instances),
`LeadPullProofs`.

**State.** `runs` and `rows` are the two tables; `work[p]` is the local state of the poller of
process `p` between two database transactions (its program counter `pc`, the run it claimed, the
leads still to do, what it has read of the mappings); `creating[c]` is the transaction of
`createPullRun`, which holds the tenant's advisory lock from its look at the live runs to its
DELETE and INSERT; `remap[q]` is a remap between its transactions; `routed` and `synced` are the
mapping and `ext.meta_leads`, which other requests change at any time.

**Actions.** One action is one transaction or one call of another service, with the computation
up to the next. `CreateCheck`/`CreateReplace`/`CreateAbort` are `createPullRun`, by a request or by
the scheduled catch-up; `StartTick` .. `NoApplyQueued` are one `tick()`; `LoadMappings` .. `FailRun`
are `runPull`, `finishRun` and `failRun`; `ReadIntegration` .. `ReturnToCompleted` are `applyRun`,
row by row; `QueueApply`, `RemapCheck`, `RemapUpdate`, `RemapClassify` are the requests on a staged
run. The environment lands leads through other doors, edits mappings, lets time pass (`Age`),
and crashes and restarts processes.

**Data.** A heartbeat is a flag that time raises and a heartbeat lowers: the reaper only asks
whether it is older than `leadPullStaleRunMinutes`. A page has one form and a form one lead. The
verdict ladder keeps its order; the two duplicate verdicts, which do not stop an import, are one
with `importable`. `HEARTBEAT_EVERY_ROWS` is 25 in the code and 1 in the runs: a heartbeat follows
every landed row. A row that is skipped
passes over the heartbeat, as in the code. `applyRun`'s test for a test lead or a missing branch
is modelled although the classification already excludes such rows, so its branch only fires
when a verdict has gone stale.

**Properties.** One worker per pull, however slow the first is; no interleaving deletes a queued
or running pull; the rows of a failed run have no outcome (the reaper tells the
administrator so); a landed row
stays landed through resumed applies; every live run stops
being live (`NoLockout`). `KeepsPromise` is the refinement of `PullSlot`: every accepted pull is
worked exactly once before its slot takes the next. That a failed run stays failed, a completed one is
classified, an importable row has a branch and the catch-up keeps to its own slot (`CatchupSparesManual`) is proved (below) and not in a run.

**Fairness** (`FairSpec`, for `NoLockout`). `setInterval` ticks for ever and an async function that
was started runs on: weak fairness of ticks, pulls and applies. Processes are restarted by their
supervisor and time passes: weak fairness of `Restart` and `Age`. Strong fairness of the reap and of
the two claims says that a statement the database refuses now and then is not refused every
time: after each refusal the tick ends, so weak fairness would not be enough. `ApplyStep` and `PullStep` are
weakly fair as a whole, because a step of theirs may fail and then another one runs; nothing
assumes that a call succeeds. A queued apply waits behind queued pulls, which are claimed
first: `NoLockout` relies on finitely many pulls (`MaxRuns`); under an endless stream of pulls an apply could wait for
ever, as it could in the code.

## LeadIngest: from Meta to the LMS

Modules `LeadIngest`, `MCLeadIngest` and `IntakeProofs`.

**State.** `routes` (mapping of forms and of the whole page to branches), `lms` (leads in order of
creation with their chain `next`), `metaRows` (the link), `inbox`, and per actor a `job` (webhook
delivery, retry, apply or public API call) and an `intake`, the HTTP request at leads-service, which lives
on when its caller gives up. `closing` are the `resolveInboxByMetaLead` calls the webhook does not
await. `handled` is what the webhook has answered 200 for and should not have dropped.

**Actions.** `StartDelivery`, `Fetch`, `RouteDelivery`, `RecordInbox`, `Answer` are the webhook;
`PreCheck`, `IntakeReplies`, `IntakeFails`, `Link`, `StatementFails` the sync; `IntakeMatch`,
`IntakeCommit`, `IntakeRefused`, `IntakeUnheard` the intake, whose SELECTs and commit are two steps
because another intake may commit between them; `StartRetry` .. `CloseFails` the inbox and the
applier; `IgnoreInbox` and `MapRoute` an administrator; `Crash` stops meta-conversion-api while
leads-service goes on.

**Properties.** Leads of one phone in one branch form one chain whose last is the only active one
(`OneChain`); a link never changes (`LandedStays`); a lead the webhook dealt with is linked or parked unless the
write to the inbox failed too (`NothingLost`); a resolved row is about a lead that landed (`ResolvedHasLanded`).

**Taken from comments.** The schema is not in `src/`: the unique key of `ext.meta_leads` is named in
`src/apps/meta-sync-scripts/README.md:278` and the unique index on (org, phone) of active leads in
`src/services/leads-service/src/api/v1/intake/intake.repository.ts:156`. An abandoned intake keeps its
place in the model until it ends, so its actor starts no second one meanwhile; the leads come from one page.

## LeadLifecycle: a lead and its follow-ups

Modules `LeadLifecycle`, `MCLeadLifecycle`, `LeadLifecycleProofs`.

**State.** `lead` and `rows` are the tables; `dialog[u]` is the Edit Lead dialog of a user, with the
lead as it was when opened (`expectedUpdatedAt` in `LeadEditModal.tsx`); `tx[u]` is an open transaction and
what it has read; `now` is the clock behind `updated_at`, which a trigger maintains. Timestamps are
truncated to milliseconds on their way to the browser; two writes within one millisecond are not modelled.

**Actions.** `updateLead` locks its row first (`SELECT .. FOR UPDATE`), so `Save` is one step with all its
refusals: the version, the outcome and its comment, the follow-up a stage requires, an empty body.
Transfer, scheduling, updating and deleting a follow-up read without the locks they later take: a
`Begin` step for the reads, a `Commit` step for the writes. `Rollback` ends any of them, for instance after a
deadlock: `deleteFollowUp` locks a follow-up and then its lead, a save with a new owner the other way round.
The subquery of `deleteFollowUp` sees the snapshot of its statement even when the update has to
wait for the row lock; that is why `BeginDelete` remembers what is left.

**The database's part** (external in the map): the trigger that drops an outcome that does not
belong to the stage, the unique index, `iam.can_assign_to`, the clock. They are modelled from how
the code in `src/` relies on them.

**Properties.** A save with a version overwrites only what its author saw (`NoLostUpdate`); a comment a save accepted is in the lead
afterwards, and an outcome once recorded only goes with a transfer (`CommentIsKept`, proved and not in the run;
`OutcomeIsNeverDropped`: the refusals of `updateLead` are exactly strong enough that the trigger never has to
drop anything); and open follow-ups go to a new owner, the one scheduled by the same save included
(`FollowUpsMoveWithLead`).

**Noticed while modelling**, none of it against a stated rule: two overlapping transfers of one lead both
commit, into two branches; the second overwrites the source's pointer to its successor. A note on a
completed follow-up completes it again and clears the due time. A lead with an outcome cannot move back
to a stage without outcomes: the dialog clears the outcome, the request has no way to say so, and the
server compares the old one. The dialog's second PATCH carries no version. The assignee named for the
follow-up of a save that also changes the owner is overwritten by the hand-over.

## LeadRouting: who a lead goes to

Modules `LeadRouting`, `MCLeadRouting` and `IntakeProofs`.

**State.** `lead` is `lms.marketing_leads` as far as routing reads it: branch, campaign, type, owner, the
reason nobody was found, and whether it is open, live (active and not superseded) and touched (an interaction was
logged); `adType` the branches' campaigns with their types; `mapping` the confirmed type of a Meta campaign;
`weight` the shares of each pool, a pool being a branch and a type. `tx[r]` is what a request is doing, with what its
transaction has written and not committed in `writes`: other statements do not see it and wait for it.
`same` is not code: it remembers which leads of a running re-run or fan-out nobody else has changed.

**Actions.** `Picks` is `resolveAutoAssignedUser`: members with a share, in the department of the type, with the
capability, the one furthest below its share of the pool's open leads, ties at random. It is used by
`PickForIntake` and `CommitIntake` (the intake: the older lead of the phone is deactivated under its lock, an intake that has inserted the branch's
row of the campaign is waited for, and what is picked may be stale when it inserts); by
`StartRerun`, `RerunLead`, `CommitRerun` and `NextBatch` (the re-run of the console, one transaction a page, the cursor
handed back by the administrator); and by `Confirm`, `FanOutSelect`, `Relabel`, `FanOutLead`, `CommitFanOut` (the mapping saved in
its own transaction, then the fan-out in another). `Assign`, `Reassign`, `Unassign`, `HandOver`, `Touch`, `Close`,
`Supersede` (a transfer to another branch) and `Staff` are what people do meanwhile, each one statement. `Fail` undoes any transaction. A
pick and the update it is for are one step, at the time of the update: the counts may be a little older in the code, the type and the row are
not.

**Properties.** A re-run and a claim never take a lead from anybody (`FillersTakeNobody`); when a fan-out commits, what it
counted as relabelled is (`CountedAreRelabelled`).

**Noticed while modelling**, without a run. `src/README.md:109-114` says that a lead somebody has called stays with them and asks
not to widen the conditions; since 1.51.0 the code moves every open lead whose owner is not in the new pool
(`campaign-reclassify.service.ts:21-28` records the decision, the README does not). Confirming the same type again is not idempotent for owners:
`selectReroutableLeads` does not look at the type of a lead, so open leads whose owner lost their share since are moved
again (`campaign-admin.service.ts:352` says otherwise). Two overlapping fan-outs of one campaign can leave
its leads with two types: neither sees what the other has not committed. A lead that arrives between the fan-out's selection
and its relabelling gets the new type and keeps its owner; one that was typed before the confirmation and is inserted after the
fan-out keeps the old type. The re-run's assigning update leaves `auto_assign_reason` on the lead it assigns, and a
manual unassignment leaves none (`assignment.ts:46-48` says every writer stamps it). `reassignOrgLeads` also moves leads in
terminated stages, which its comment calls still open.

## CampaignMapping: the type of a campaign

Modules `CampaignMapping`, `MCCampaignMapping` and `CampaignMappingProofs`.

**State.** `camp` is `ext.meta_campaigns`, one row per campaign for every tenant together: the tenant that owns it, name, type,
suggestion, status and whether a conflict was noted. `rules`, `live` and `page` are what administrators edit (ordered
rules, types that are active, default types of pages), `metaName` what Meta calls a campaign, `cached` the cache of
names. `job[q]` is a request or a script run, with what it has read; a lead that is *typed* carries the type and the default of its form to the
intake. `ruled` is not code: the confirmed and live types a campaign has had while a lead of it was being typed, or `None` if for a moment it had none.

**Actions.** `Arrive`, `ReadDefault`, `ReadRow`, `InsertRow`, `UseRow`, `ResolutionFails` are `resolveCampaignType` (a lead
through the services), `ScriptArrive`, `ScriptRead`, `ScriptInsert` are `resolve_campaign_type` (a lead through the scripts). `Intake` is what becomes of either: leads-service takes
the type it is handed, then the default of the form, then the tenant's catch-all, whichever is first a live type of the tenant *by then* (`TypeFor`); the scripts ask once more
for the tenant of the type. `StartFetch` and
`StoreFetched` are `syncCampaigns`, `StartScriptSync` and `ScriptSync` the scripts' refresh, `StartConfirm` and `SaveConfirm` the
administrator who rules on a campaign, `StartRetire` and `Retire` the retirement of a type. `AddRule` .. `Forget`
are single statements of administrators, renames by Meta and the end of a cache entry.

**Properties.** A lead whose campaign had confirmed live types all the time it was being typed gets one of them, by either path; if one of them was retired before the intake, it may get
the default of its form, or its tenant's catch-all where there is no such default or that is retired too (`FollowsTheRuling`); no lead gets a type of another tenant, whoever wrote the shared row (`LeadTypeIsOwn`); and once confirmed, a
row keeps status and type, except by another confirmation (`ConfirmedStands`: neither a sync, a first lead,
a refresh of the suggestion nor a script writes what it derived before the confirmation).

**Noticed while modelling.** The scripts write `campaign_type_id` into rows nobody confirmed, where `campaign-mapping.service.ts:30`
reserves it for confirmations. `sync_campaigns.py` updates a row without looking at its tenant, under a role that bypasses
row-level security. Between the check and the update of a retirement a campaign may be confirmed to the retired type. A suggestion may
be derived from a name that is no longer the row's. The handler at `campaign-mapping.service.ts:290` lets the transaction go on after a failed
INSERT, which PostgreSQL has aborted by then; types are retired, not deleted, so it hardly fires.

## GraphWalk: the walks over Meta's Graph

Modules `GraphWalk`, `MCGraphWalk` and `MetaProofs`.

**State.** `table` is the mapping of pages and forms to branches, `landed` the leads that are in the LMS with their branch, `dump` a
file of downloaded leads, and `w` the walk: where it is (`pc`), what it was asked for (`ask`), the mappings it read at its start
(`before`), the pages its token reaches, the pages or campaigns left (`left`, `at`), the forms or ads of the current one
(`edges`, `edge`), what is left of a form's results (`rest`), the page of results in hand (`got`), how many pages and attempts
there were, the errors and truncated forms it reports, what it has staged (`rows`) and mapped (`added`).

**Actions.** `StartPull` .. `Finish` are `runPull` in its two modes (pages, or campaigns with their ads), and the scripts `sync_leads`,
`download_page_leads`, `import_downloaded_leads` and `sync_forms`: one specification, since they are written to be alike, with what
differs between them as conditions on the kind of walk. `GetTokens`, `ListLeadGenForms`, `ListCampaignAds` and `FetchLeads` are calls of
Meta that may fail and be tried again (`CallFails`), fail for good (`GiveUp`: one form, one page or, for the scripts'
unanswered calls, everything), give a page twice or lead nowhere. `StageLeads`, `WriteLead`, `DumpLeads` and `ImportLead` store;
a script's run is one transaction, so what it wrote is not seen until it ends. `Land` is the webhook;
`MapForm` and `UnmapForm` are administrators.

**Properties.** A walk that ends normally has staged or landed every lead it was asked for, or names the form, ad or page where it has not
(`NothingMissed`, "LOUD, not silent"); it takes nothing outside the window, which Meta's own filter is known to ignore, nor of campaigns,
branches or pages it was not asked for (`OnlyAsked`); where it can see every mapping of a page it sends a lead where the
webhook would (`RoutesLikeWebhook`); it ends, though Meta may name a next page for ever (`WalkEnds`).

**Fairness.** Every call of Meta has a time-out and every statement ends, so a step of a walk that can be taken is taken: weak fairness of
`Step` as a whole. Nothing assumes that calls succeed.

**Noticed while modelling.** The lists of pages and forms are themselves cut at 20 and 50 pages of results without a word
(`meta-api.service.ts`); the scripts have no such cap. A call that gets no answer ends a whole script run. `sync_leads` does not look for test
leads. `get_known_page_ids` does not see deactivated rows.

## LiveAlerts: reminders and live events

Modules `LiveAlerts`, `MCLiveAlerts` and `LiveAlertsProofs`.

**State.** `lead` is the due time, the owner and whether a follow-up is wanted; `wire` the NOTIFY payloads on their way; `conn` the browsers' side of
the connections and `clients` the connection manager's map, which are not the same; `device` the push subscriptions;
`seenDue`, `seenMissed`, `lastReset`, `running` the checker's memory, `tick[t]` a check in progress with the rows it read.
`told` and `heard` are not code: what was pushed on which day in which life of the process, and whom the last step told.

**Actions.** `TickStart`, `TickQuery`, `TickFails`, `Skip`, `Tell`, `Pushed`, `PushThrows`, `TickDone` are `runGuarded` and `checkFollowUps`, row by row,
since each push is awaited. `Ask`, `LeaveEarly`, `AddClient`, `RankFails`, `RemoveClient` are the stream route: a connection
may close while its role is being resolved and is added all the same. `Broadcast` and `Unlisten` deliver and lose
events. `Subscribe` and `Unsubscribe` are the handset. `Change` is any commit of leads-service, `Pass` the clock, `Stop` and `Restart`
the process.

**Properties.** A life of the process pushes one schedule of a lead at most once as due and once as overdue on a day (`OncePerDay`); nobody hears of a lead of another
branch, on a connection or a handset, administrators of the tenant or platform excepted (`OwnBranchOnly`); a follow-up that stays due, and among as many as one query takes, is told
(`DueIsNoticed`). What the query cuts off is another matter: `CutOffIsDeferred`, under *Where the code and its comments disagree*.

**Fairness.** The interval fires for ever and a check that was started goes on (weak fairness of `Check`; every push is caught, failed or not);
the query is not refused every time (strong fairness of `TickQuery`: a refusal ends the check, and the next one asks again); a stopped process is started
again (`WF(~up /\ Restart)`). The clock is not fair: `DueIsNoticed` must not need time to pass.

**Noticed while modelling.** A connection closed while its role was being resolved stays in the map for ever: `manager.ts:171` believes the
close handler has run. A check that spans midnight tells on the new day under the memory of the old one, so the next check may tell the same again that day. The owner is read
with the query: a lead reassigned during a check is pushed to its former owner. A push that never answers keeps `running` set, and no check starts again. A restart
repeats what was told. With several processes each would tell.

## CapiReport: stages reported to Meta

Modules `CapiReport`, `MCCapiReport` and `MetaProofs`.

**State.** `stage` of each lead, `calls` from leads-service on their way, `eventOf` the mapping of stages to events, `trig[t]` a transaction
of `triggerCapiEvent` and what it has read, `received` what Meta got, `log` the outbound log, `app` the two rows of credentials (the tenant's
app and the shared one), `cache` and `load` the cached reads with those under way, `clearing` between a write's commit and the clearing.
`entered`, `meant`, `asked` and `excused` are not code: what the properties compare with.

**Actions.** `UpdateLead` moves a stage and fires the call, `CallLost` loses it. `AutoTrigger` and `ManualCrmEvent` start a trigger; `ReadLead`, `ReadOwn`,
`ReadShared`, `ResolveEvent`, `SendAnswered` or `SendFails`, `WriteLog` are its statements, one after another in one transaction that holds no lock, and `TriggerDies`
rolls it back, but not the event Meta already has. `PutMapping` edits the mapping. `LoadRead`, `LoadEnd`, `Expire`, `UpdateIntegration`,
`InvalidateIntegrationCache` and `ChangeElsewhere` are the cache, its writers on this instance and elsewhere.

**Properties.** What Meta gets is of a lead Meta captured, under one of that lead's own Meta leads, for an event that was sent by hand or that was, at some
time, the event of a stage the lead was in (`ReportIsDue`); a credential that is no longer the row's stays in the cache only where this instance's writes cannot reach it
(`StaleIsExcused`).

**Noticed while modelling.** Two triggers of one change both find no log row and both send; an event sent whose log row is rolled back is sent again. Neither harms: the event's id
is a function of the Meta lead and the event, and Meta counts it once. But where two Meta leads were folded into one lead, which of them a
report names is left to a `LIMIT 1` without an order, and two reports may differ. A call is not awaited and may be lost; a
`FAILED` row is never tried again. A load in flight when the cache is cleared puts the old credential back, for 60 seconds from when the load ends.

## LeadGrid: the list in the browser

Modules `LeadGrid`, `MCLeadGrid` and `LeadGridProofs`.

**State.** `db` is the leads with a version and the version of the last change by another user; `wire` the events on their way to this tab; `viewer` what the
user may list and what the user is told of, which different rules decide; `filter`, `grid`, `error` and `fetches` are `useLeads` with the lists it has asked for;
`editor` is `LeadEditModal` with the row it was opened with and how far its save is (the owner picked may be nobody). `heard`, `late` and `made` are not code: the version this tab
asked for the list on account of, whether the answer shown was overtaken, and the follow-ups this press of Save created.

**Actions.** `OtherUpdates` and `OtherDeletes` are commits by others with what they publish; `ListLeads` is the list handler, `Listed` and `FetchFails` the answers in any
order; `ChangeFilter` and `OnEvent` ask again. `OpenEditor`, `HandleSave`, `ServerWrites`, `NextRequest`, `SaveEnds`, `RequestFails` and `CloseEditor` are the dialog: the stage shown
at once, the PATCH of stage and outcome, the one of the assignee, the POST of the follow-up, each with the version or the follow-up only if it is the first to write.

**Properties.** A quiet tab shows each lead as the database has it, if it was told of the lead's last change or made it in a save that ended (`InStep`).
A save that ends well has created the follow-up it was to create, and one only (`FollowUpOnce`). That is about one press: when the answer of the follow-up's POST is lost, another press creates a second one.

**What `InStep` excuses, and why.** Each is what the code does: an event that was lost; one the user was not told of, because the notifications service decides by the role's
name what the list decides by capability, because the former owner is not named in a reassignment, or because a deletion names nobody and a counsellor is not told; a
save whose later request failed, which does not ask for the list though the first one wrote; a write whose answer was lost; and answers that arrive out
of order, where an older list stays on screen and even wipes the error of the newer one.

**Noticed while modelling.** When the list asked for after a refused stage fails as well, the stage the server refused stays on
screen, next to the error. Pressed again after a partial save, or after a lost answer, Save is refused by its own change. The follow-up's POST
carries no version. A second tab of the same user ignores that user's events.

## AssignDesk and LeadsHistory: who gives leads, and who sees them

Modules `AssignDesk`, `LeadsHistory` (which extends it), `MCLeadsHistory` and `LeadsHistoryProofs`.

**State.** `lead` is owner, deletion and supersession of each lead, `member` the active memberships of branches; `desk[u]` is the page a person has open
(Bulk Assign with its branch, rows and ticks, or the Assignments page with its dialog) and `call[u]` the request it made, with what the request has found
out. `standing` is how far each person sees, by role and rank, and `report[u]` the Leads History page: the standing it was
opened with, the branches and names it offers, the ticks, the query applied last, the answers under way and the rows on screen. `left` is not
code: the memberships that ended while the request ran.

**Actions.** `ChooseBranch` .. `Pick` are the pages, `SubmitBulk`, `SubmitEdit`, `Unassign` and `ApiCreate` the presses; `FindLeads`, `CheckReach`, `CheckTarget` and
`WriteLeads` or `WriteNothing` are the four transactions of a request, which lock nothing in between. `Delete`, `Supersede`, `Leave`, `Join` and `HandOver`
are what others do meanwhile. `Open` .. `GoToPage` are the report's page, `Arrives` and `Fails` the answers in any order: the server
narrows each query by what the reader is when it runs (`Users`, `OrgIds`, `UnassignedMode`), not when it was sent. `Promote` changes a role under open
pages. A person has either the report or an assigning page open.

**Properties.** Whoever a request gives a lead to is a member of the lead's branch, and the lead is within the caller's reach, unless the membership
ended while the request ran (`WithinReach`); a report shows leads its reader asked for and may see, whatever ticks are left over from another branch
or another role (`SaysWhatWasAsked`). A scope of the whole tenant and a tenant-wide role are the same people here, since both come from the role.

**Noticed while modelling**, without a run. The Save of a stale Edit Assignment dialog whose owner was not touched sends the owner it was opened with, and so takes
the lead back from whoever got it since, though `AssignLeadModal.tsx:113-116` calls it a no-op. The bulk dialog names one branch, while the ticked rows may still be of the branch shown before: the
server goes by the leads. `writeCtxForOrg` refuses a tenant-wide role in a branch that is neither its session's nor mapped to it, although the comment of
`getUserForAssignment` says that asking for a mapping would take reach away. What a bulk assignment logs and notifies about the previous owner was read before it
wrote, and what it counts as already assigned includes leads deleted meanwhile. Answers that arrive out of order leave the older report
on screen.

## Runs and bounds

| Run | Module, cfg | What it shows |
|---|---|---|
| `pull_replicas` | `MCLeadPull`, `LeadPullReplicas` | two processes with their catch-ups, a request, two runs created, one Apply: the safety of the queue and the refinement |
| `pull_recovery` | `LeadPullSingle` | one process, one crash, one lead that always fails, two presses: resumed applies and `NoLockout` |
| `pull_two_appliers` | `LeadPullTwoAppliers` | violation, see below |
| `ingest_races` | `MCLeadIngest`, `LeadIngest` | three requests of two actors about one lead, mappings changing, time-outs and crashes |
| `lifecycle` | `MCLeadLifecycle`, `LeadLifecycle` | two users (a member of the first branch, an administrator of the other), one lead and its copy, overlapping transactions, four writes; a save may carry a telephone number that is taken |
| `routing` | `MCLeadRouting`, `LeadRouting` | two requests (intakes, re-runs, confirmations) on three leads of one campaign, three people, two pools, three interventions |
| `mapping` | `MCCampaignMapping`, `CampaignMapping` | three requests (leads by either path, syncs, confirmations, retirements) on one campaign two tenants get leads of, new or ruled on, three types of one tenant, one change by people or Meta |
| `walk` | `MCGraphWalk`, `GraphWalk` | one walk of each of eleven kinds over three tables of mappings, calls failing and pages coming twice, leads landing and a form mapped meanwhile |
| `alerts` | `MCLiveAlerts`, `LiveAlerts` | two checks that could overlap, three leads of two branches that fall due one after the other, one more than a query takes, two users, a connection, a handset, a restart |
| `capi` | `MCCapiReport`, `CapiReport` | two triggers, a lead of Meta (two Meta leads folded into it) and one of the website, three stage moves or edits |
| `grid` | `MCLeadGrid`, `LeadGrid` | one lead before a branch head or a counsellor, another user's change, two presses of Save, one other filter |
| `leads_history` | `MCLeadsHistory`, `LeadsHistory` | a person with two branches, the desk and the report, ranks and grants that differ by branch; requests against memberships, roles and leads that change |

Bounds and why they are enough. *LeadPull*: the hazards are between two workers, or a worker and
a request, on one run and the run that replaces it: two processes and `MaxRuns = 2`. A third
run only repeats what the second does to the first. One lead per run is enough where the property is
about statuses; in `pull_replicas` it is a test lead, which an apply skips, while `pull_recovery` has two leads to land, so that an apply can fail on one and go on with the other. Tenants do
not share runs, and the theorems below do not bound anything. *LeadIngest*: three requests let a
failed delivery, a late commit of its intake and a retry meet; both tenants of a moved mapping are there. *LeadLifecycle*: four writes are a creation, two edits that
overlap, and what a third makes of them; two rows are the two follow-ups of one completion; `MaxDue = 1` suffices because the
properties tell a due time from none. `MaxOpen` bounds dialogs and transactions open at once. *LeadRouting*: the races are
between two transactions and one person; `MaxEdits = 3` gives both requests and one intervention, or a re-run and two of
them. With `BatchLimit = 1` two leads already need a second page. Two users share the sales pool, so that shares are
compared; the third is the whole hiring pool, which may be empty. Three leads let one arrive while two are there. *CampaignMapping*: a lead, a writer it races
with and a confirmation are three requests; requests are symmetric. A tenant has a ruled type, a default of the page and a catch-all that differ, so that each rung of the ladder can be told from the others. `MaxEdits = 1`: each property is about one change between two steps of a request. *GraphWalk*: five leads over three forms, so that a form has
a page of results that is wholly too new, one that straddles the cut-off and one too old; `MaxPages = 3` is reached by a form that comes twice; with `Attempts = 2` a call
fails once and is tried again, or is given up. One walk at a time, since walks share nothing but the tables, which others change anyway. *LiveAlerts*: days of two ticks of the clock, so that a
lead falls due, is late, and a day ends; at the second tick all three leads are due, one more than `Cap = 2`, so the query cuts one off, which is told once another has left the window. The handset is registered to the head at first and may be moved to the counsellor or unsubscribed, and people make one kind of change: a lead is
rescheduled and taken from its owner. *CapiReport*: two triggers are the race; three steps a move there, a changed mapping and
a move back. *LeadGrid*: a save has at most three requests, so two presses and one change by another user let each of them be refused and pressed again; two lists on
their way can overtake each other. *LeadsHistory*: three leads, two in one branch and one in the other, so that a tick can be left over from another branch and a bulk request can mix them
or exceed `BulkMax = 2`; two requests or reports (`MaxCalls = 2`) let answers overtake each other, and one change by others falls between any two steps. There is no tenant-wide desk in the
run, and its types are not in it; the theorems cover both.

Deadlock is checked in LeadPull, LeadIngest, LiveAlerts, CapiReport and LeadsHistory, where some step is always possible. In the others the bounds on clock,
history, interventions, walks or presses really run out, and nothing has to go on after that.

## Mutants

Every property of a passing run has a mutant in `PROJECT.json`: an operator of the module,
commented *Mutant*, that replaces one definition by the form a plausible bug would give it (the advisory lock forgotten, the
reaper requeueing, the guard on the status dropped, an upsert without its WHERE, the version not compared, the hand-over
before the insertion), and with it TLC finds the property violated under the same
configuration. What no such bug can break is not listed as a property.

## Proofs

All theorems hold for every value of the constants that satisfies the named assumptions in the
modules; TLC evaluates those on the instances. No theorem is assumed. `IntakeProofs` and `MetaProofs` hold the proofs of two components
each, one after the other and independent of each other; the other proof modules belong to one. The theorems of a component come last; the lemmas
above them go from the data to the actions. Every safety and action property a passing run checks is proved.

| Module | Theorems (the property a run checks, where it has another name) |
|---|---|
| `LeadPullProofs` | `TypeCorrect`, `Invariance`, `PullHasOneWorker` (`OneWorkerPerPull`), `FailedRunIsUntouched`, `CompletedIsClassified`, `ImportableIsMapped`, `PullIsNeverDisplaced`, `FailedStaysFailed`, `CatchupKeepsToItself`, `OutcomeStays` and `OutcomeStaysWithOneProcess` (`OutcomeIsFinal`), `Refinement` (`KeepsPromise`) |
| `IntakeProofs`, LeadIngest | `TypeCorrect`, `LeadsAreOneChain` (`OneChain`), `NoLeadIsLost` (`NothingLost`), `ResolvedRowsLanded` (`ResolvedHasLanded`), `LinksStay` (`LandedStays`) |
| `IntakeProofs`, LeadRouting | `RoutingInvariance`, `RoutingTypeCorrect` (`RoutingTypeOK`), `NobodyLosesALead` (`FillersTakeNobody`), `RelabelledIsTrue` (`CountedAreRelabelled`) |
| `LeadLifecycleProofs` | `TypeCorrect`, `NoUpdateIsLost` (`NoLostUpdate`), `OutcomeIsKept` (`OutcomeIsNeverDropped`), `CommentStays`, `FollowUpsGoAlong` (`FollowUpsMoveWithLead`) |
| `CampaignMappingProofs` | `TypeCorrect`, `ConfirmedIsKept` (`ConfirmedStands`), `LeadsFollowTheRuling` (`FollowsTheRuling`), `TypesStayAtHome` (`LeadTypeIsOwn`) |
| `LiveAlertsProofs` | `TypeCorrect`, `BranchesAreKept` (`OwnBranchOnly`), `PushedOnceADay` (`OncePerDay`) |
| `MetaProofs`, CapiReport | `TypeCorrect`, `ReportsAreDue` (`ReportIsDue`), `StaleHasAnExcuse` (`StaleIsExcused`) |
| `MetaProofs`, GraphWalk | `WalkInvariance`, `WalkTypeCorrect` (`WalkTypeOK`), `StagesOnlyAsked` (`OnlyAsked`), `RoutesAsWebhook` (`RoutesLikeWebhook`), `MissesNothing` (`NothingMissed`) |
| `LeadGridProofs` | `Invariance`, `TypeCorrect`, `QuietIsInStep` (`InStep`), `FollowUpIsMadeOnce` (`FollowUpOnce`) |
| `LeadsHistoryProofs` | `Invariance`, `TypeCorrect`, `StaysWithinReach` (`WithinReach`), `ReportsSayWhatWasAsked` (`SaysWhatWasAsked`) |

**LeadPull.** Type correctness comes first, action by action. The safety properties are not
inductive by themselves: that no pull has two workers follows from what a worker may find in its run, which follows from
who may delete it, which follows from the advisory lock. `IInv` in `LeadPull` is the
conjunction that closes the circle:

- `CreationsExclude`, `CheckedSlotFree`: two creations for a tenant are never both past their look at the live runs, and
  between that look and the DELETE no pull goes live in the slot;
- `IdsGrow`, `RowsHaveRun`: a worker's run was created before and is never created again, and a deleted run has no rows;
- `PullHoldsRun`, `PostPullWork`: a puller finds its run running, failed or gone; an applier or a remap finds its run past its pull or gone;
- `RowsOfPull`: rows appear after the walk has begun and have verdicts when it ends;
- and the properties themselves.

Most actions are *calm*: they move statuses, rows, workers and remaps only in ways that
`IInv` allows (`Calm` in `LeadPullProofs` names them), so one lemma, `CalmStep`, covers them all and each action only has to be
shown calm; the four that are not (check, replace, claim of a pull, staging a row) have proofs of their own. The
result is `Invariance`, from which `PullHasOneWorker`, `FailedRunIsUntouched`, `CompletedIsClassified`,
`ImportableIsMapped` and the action properties `PullIsNeverDisplaced`, `FailedStaysFailed` and `CatchupKeepsToItself` follow.
`OutcomeStays` is `Spec /\ []SingleApplier => OutcomeIsFinal`: while no two workers apply one run, what an applier has in hand
(`InHandOpen`) is not recorded by anybody else, because only `RecordOutcome` and `ApplyRow` write outcomes that count and a remap touches
pending and skipped rows alone. The hypothesis is what the code's comment claims and cannot be dropped: run `pull_two_appliers` breaks it.
`OutcomeStaysWithOneProcess` discharges it for one service process.
The last part shows that every step is, on the slots, an `Enqueue`, a `Start`, an `End` of some of
them, or a stutter: THEOREM `Refinement` is `Spec => KeepsPromise`.

**LeadLifecycle.** `TypeCorrect` includes that no follow-up, dialog or transaction refers to a lead that does not exist. Every
write goes through `TypeKept`, which asks that the rows only grow by rows of the lead written (`Extends`). The two action properties rest on
`IInv == TypeOK /\ OutcomeFits /\ Fresh`: the outcome of a lead belongs to its stage (the trigger's work), no lead
is newer than the clock, and a dialog whose version is still the lead's holds the lead as it is. A step either
writes with a new version (`WriteStep`), or opens a dialog, or does neither (`EveryStep`). `NoUpdateIsLost` then follows: a dialog
closes only by a save that compared versions, and by `Fresh` equal versions mean equal leads.
`OutcomeIsKept` follows because a save is refused unless the outcome it leaves belongs to the stage it leaves, and `CommentStays`
because the trigger drops a comment only with the outcome it explains. `FollowUpsGoAlong` needs the order of a save's statements: only a save
gives a lead that exists another owner (`OwnerStep`), and its hand-over comes after the insertion, so it reaches the follow-up of the same save too (`HandOverReaches`).

**LeadIngest.** `IngestInv` says what a job has in hand at each of its steps (`JobFits`), that what an intake found was a lead of its branch and phone, or nobody,
and, for each lead of a phone, that it points to the next one of that phone (`Linked`) and that one of them ends the chain (`EndOf`). `OneChain` speaks of all
later leads at once; that the chain ends somewhere is an induction over the sequence of leads, so the invariant carries the
end of the chain of each lead and every intake shows what the new end is. A commit either finds the last active lead of the phone, which the unique index makes the only one,
or is refused. What a retry may close needs that its row exists (`RetryInv`); `ResolvedHasLanded` that a close follows a link.

**LeadRouting.** The two action properties speak of a commit, and the statements a commit makes good were evaluated long before. `RoutingInv` says what holds in between: no row
is under the locks of two transactions (`LocksInv`); a row a re-run has filled, and has not committed, has nobody in the table (`FillersOf`, which also says that an intake locks only a lead that is there), since its `UPDATE` tests that in the
statement that locks the row; and a fan-out has given the confirmed type to every lead that nobody else has changed and that it is not about to move (`FanOutOf`). That others leave locked
rows alone (`OthersKeep`), that a commit publishes only what its own transaction wrote (`CommitKeeps`) and that a change by a person takes its lead out of `same` (`SameShrinks`) carry
the rest, one lemma per action. A page of the re-run ends at the least and greatest row number: that they exist rests on row numbers being natural numbers and finitely many.

**CampaignMapping.** `MapInv` ties each request to the row it works on: the ruling in force is always among those remembered (`IsWatched`), a request that found no row found no ruling, and one that found a row while a ruling
was in force read it (`HasSeenRuling`). Between the typing and the intake the row no longer matters, only what is live: `TypedWell` says that a lead
typed under a ruling carries a type of its tenant that was ruled, so the intake passes it over only if it has been retired since; `FollowsTheRuling` then says what becomes of the lead, the
default of its form or the catch-all (`LandsWell`), which stays true because no retired type comes back. `ConfirmedIsKept` is by cases over the five writers.

**LiveAlerts.** `OncePerDay` needs that at most one check is at work and that it holds `running` (`WorkInv`), that what was told of this day and life is in the memory a check consults, or is the
row whose push is awaited (`Remembered`), and that nothing was told of a day to come (`PastDays`); the midnight reset empties the memory together with the day it is about.
`OwnBranchOnly` is inductive with the types of what was heard.

**CapiReport.** What a transaction carries from statement to statement is due when it is read and stays so, since `entered`, `meant` and `asked` only grow (`AllCarried`): that is
why a late call harms nobody. The cache has an invariant of its own (`CacheInv`): a load that may still put an older row in the cache is excused from the moment the row was written.

**GraphWalk.** `WalkInv` says, for every step of a walk, where it is and what it has in hand: the page or campaign it is at was asked for, the form or ad is of that page or campaign and may be read
(`PlaceFits`); the leads in hand are of that form or ad and of the window, and what is left of the results has the old ones last (`HandFits`); a staged lead was asked for and has the branch the
walk's own mappings give (`RowsFit`); every lead asked for is staged, landed, excused or still to come (`CoverFits`: behind a page not yet listed, a form not yet fetched, results not yet read, or in hand).
When a walk is done nothing is to come, and `MissesNothing` is what remains; `StagesOnlyAsked` is `RowsFit`. The step that matters is a page of results (`FetchLeadsStep`): what the window leaves out
of it is not wanted, and where the walk stops at a page that is all old, by `NewestFirst` so is everything behind it. `RoutesAsWebhook` needs the two rules to agree where the walk sees the page
(`RulesAgree`), which holds because a mapping is unique by page and form and a form is mapped under its own page (`Keyed`, which every edit and every automatic mapping keeps). The filter of a page (`Among`) is a
recursive function; what it returns (`AmongKeeps`) is proved from the least length at which it would fail, since the naturals are well-founded. The proof made the assumptions explicit: that Meta sends
newest first, which `fetchFormLeads` relies on in so many words (a lead whose time cannot be parsed counts as in the window, and `NewestFirst` excludes one behind a page of old leads, which the walk would not
reach); that a form's page is the one its ads promote; and that no script takes campaigns and only `sync_leads` takes branches, as their arguments say.

**AssignDesk and LeadsHistory.** `WithinReach` is about the last of four transactions and rests on what the second and third found: `ReachChecked` and `TargetChecked` say that
it is still so or that the membership is in `left`. A report's step changes rows only by `Arrives`; then `SaysWhatWasAsked` is a matter of the operators (`ModesMean`, `BranchesMean`):
what the server makes of a query is what its ticks mean to a reader of that standing. The types say that a reader below the team scope has no names ticked.

**LeadGrid.** `InStep` speaks of a moment when nothing is under way, the invariant of every moment (`LastAnswers`): if the tab was told of a lead's last change, the list asked for *last* has it, or is yet to read it,
or has been overtaken by something newer; with no list under way, the grid has it, unless it shows an error, an overtaken answer or a stage the server has not answered for. No other list matters,
since an answer that arrives before a later request was asked marks nothing late. Versions of events on their way are past (`WireIsPast`), so an event read late never claims more than it knows. A list in flight changes in four ways only (asked, read, settled,
all overtaken), each with a lemma. `FollowUpOnce` rests on `MadeByFirst`: the follow-up exists as soon as the first request was carried out, and from then on `written` keeps the others from carrying it. That the leads to start with are
well-typed and no younger than their last change (`Starts`) is an assumption on a constant, and what any table satisfies.

## What is only model-checked

`NoLockout`, `WalkEnds` and `DueIsNoticed` are liveness under fairness and out of the prover's reach; of these `DueIsNoticed` is about follow-ups within the cap of a query.
`OutcomeIsFinal` is proved and checked for one applier only; of two (see `pull_two_appliers`) the slower one may record a
failure over a lead the other has landed.
The statements of comments that the code does not keep (next section) are definitions TLC refutes, and have no theorems.

## Where the code and its comments disagree

One run is expected to fail, with one property that states what a comment says; `findings` in `PROJECT.json` quotes it.

- `pull_two_appliers`: "there is only ever one applier" (`lead-apply.service.ts:50-52`). The claim is not fenced: after the reaper took
  an apply from a slow worker, Apply pressed again gives the run a second one, and both pass the guard on the status. `OutcomeIsFinal` under the same configuration
shows what it leads to: a row recorded as applied becomes a failed one.

More statements of comments are defined in the modules and not listed in a run; TLC finds each violated when it takes the place of the
`INVARIANTS` and `PROPERTIES` of the configuration named (and, where said, with the change):

| Definition | Configuration | What the comment says, and what happens |
|---|---|---|
| `RemappedRowNotStranded` | `LeadPullReplicas`, with `CatchupEnabled = FALSE` and `TestLeads = {}` | a remap lets skipped rows be imported (`lead-pull.admin.service.ts:408-411`). An apply between its two transactions skips them again, for good |
| `OpenIsNotInLms` | `LeadIngest` | the inbox holds leads that did not become an LMS lead (`lead-inbox.service.ts:10`). Not after the time-out of an intake that commits (`internal-leads-client.ts:63`) |
| `StageHasItsDueTime` | `LeadLifecycle` | a stage that requires a follow-up and its due time are inseparable (`leads.repository.ts:531`). A lead created in such a stage need not have one, and deleting the follow-up takes it away |
| `DueTimeHasItsFollowUp` | `LeadLifecycle`, with `MaxWrites = 5` | the due time is that of a follow-up that survives (`follow-ups.repository.ts:243-246`). Of two deleted at once, each finds the other still there |
| `PicksCanSee` | `LeadRouting` | "a pick can never hand someone a lead RLS then hides from them" (`assignment.ts:86-88`). A re-run that picked for the type a lead had when selected gives it away under the type a confirmation has set since |
| `LeadsAreTyped` | `CampaignMapping` | a script must not leave a lead untyped where the webhook uses the default (`campaign_resolution.py:178-181`). It does for a row a sync has inserted between its two reads (`:245`) |
| `RerunPicksUp` | `GraphWalk` | "add the mappings and re-run this script to pick them up" (`import_downloaded_leads.py:227-229`). The dump keeps the branch of the day it was written |
| `RoutesAgree` | `GraphWalk`, with `Tables <- MCForeignTables`, `Asks <- MCPullAsks` and `MaxEdits = 0` | the pull, the webhook and the scripts must agree on the branch of a lead (`lead-pull.service.ts:222-224`). A pull reads the mappings of its tenant only: where another tenant has a form of a page this tenant has as a whole, it stages the form's leads for its own branch, and the webhook gives them to the other's |
| `EmptyIsAnAnswer` | `LeadsHistory` | "An empty intersection is a real answer - do not fall back to full coverage" (`assignments.service.ts:358-362`). The empty list it makes restricts nothing in `listAssignmentsFiltered`, so a report on branches that are no longer covered shows those that the row policy allows |
| `CutOffIsDeferred` | `LiveAlerts` | what the cap cuts off is deferred to the next tick (`followup-checker.ts:189-196`). The next tick reads the same rows, told or not, so it waits until they leave the window; rows due at the same time leave it together |
| `NoWriteClobbers` | `LeadGrid` | the version is sent with every write so that nobody's edit is overwritten (`LeadEditModal.tsx:104-106`). The second PATCH of a save carries none |

Two more are reachable in LeadPull and have no definition of their own: an Apply pressed between the live check and the DELETE of
`createPullRun` is deleted with its run, although `lead-pull.admin.service.ts:26-30` calls a run waiting to be applied still in
use (`QueueApply` takes no lock the pull waits for); and an apply whose read of the integration throws stays `applying`
until the reaper finds it, although `pull-poller.ts:235` believes it returned to `completed` (`IntegrationThrows`).

Noted and not checkable here: `remapRun` is an `UPDATE .. FROM LATERAL` whose lateral query names the table being
updated; PostgreSQL may reject that reference. The model takes the statement to do what it says.

## Not modelled

The components of `PROJECT.json` give the reason for each. In short: analytics and reports only read; catalogs and
configuration are single-row operations behind unique keys; the authorization and validation packages are pure tables; encryption
and signatures are library calls; of the web application only the list and its dialog keep state that others change. Of the list, pages, the catalog and
the follow-ups' variant without optimistic edits are left out. Within the modelled parts, wording, counters, timestamps,
audit and interaction rows are left out. A request reported as failed to the browser does not land later in LeadGrid; LeadIngest has that case for the intake.

## Plan

All modules of the inventory worth a model are written, and every safety and action property their passing runs check is proved. What is left is composition.

Composition: `LeadIngest` with `LeadRouting` (the intake's pick), `LeadLifecycle` with `CapiReport`
(a stage move triggers the report). Abstract specifications worth stating: a report sent at least once while nothing is lost, a
lead owned by one person at a time and moved only by those entitled to.
