----------------------------- MODULE GraphWalk -----------------------------
(***************************************************************************)
(* The walks over Meta's Graph API: pages, their lead forms, the leads of   *)
(* each form, page by page of results.                                      *)
(*                                                                         *)
(* The walk exists twice, in the services (runPull, in pages and in         *)
(* campaign mode) and in the scripts (sync_leads, download_page_leads with  *)
(* import_downloaded_leads, sync_forms).  A walk reads the mappings of      *)
(* pages and forms to branches once, asks Meta for the pages its token      *)
(* reaches, lists each page's forms (or each campaign's ads) and fetches    *)
(* the leads of each, newest first, retrying, giving up on one form or page *)
(* without giving up on the rest, and stopping at a cap.  What it finds it  *)
(* stages for review, writes in one transaction, or dumps to a file that a  *)
(* later import writes.  Meanwhile administrators map forms and the webhook *)
(* lands leads.                                                            *)
(*                                                                         *)
(* Abstractions.  A lead is of a form, perhaps of an ad, and was created    *)
(* before the cut-off, in the window, after its end, or at a time that      *)
(* cannot be parsed.  Lists of pages, forms and ads are one answer: their   *)
(* own caps are far above any number here.  The waits between attempts, the *)
(* counters that only inform, the heartbeat and the verdicts are left out   *)
(* (LeadPull has the last two); so are leads without a usable contact.      *)
(***************************************************************************)
EXTENDS Integers, Sequences, FiniteSets, SequencesExt

CONSTANTS
  Branches, TenantOf,       \* branches and the tenant of each
  Pages, Forms, PageOf,     \* each form is of one page
  Ads, CampaignOf,          \* the campaign of an ad
  Promotes,                 \* the page its ad set promotes, or Null
  FormOf, AdOf,             \* of a lead; an organic lead has no ad
  Created,                  \* "old", "in", "late" or "odd"
  Newest,                   \* all leads, the newest first
  Reaches,                  \* sets of pages a token may reach
  Tables, Dumps,            \* mappings, and downloaded files, to start from
  EditRows,                 \* mappings administrators may add or remove
  Asks,                     \* what may be asked of a walk
  PageSize, MaxPages,       \* leads in a page of results; META_LEAD_PULL_MAX_PAGES
  Attempts,                 \* MAX_GRAPH_ATTEMPTS
  Null, Missing,
  MaxRuns, MaxEdits         \* bounds: walks, and changes to the mappings

AllLeads  == ToSet(Newest)
Tenants   == {TenantOf[b] : b \in Branches}
Campaigns == {CampaignOf[a] : a \in Ads}
Mapping   == [org : Branches, page : Pages, form : Forms \cup {Null}]
Kinds     == {"pull", "campaign", "sync", "download", "import", "forms"}
\* A request: the tenant (a script may name none), and the branches, pages and
\* campaigns it is narrowed to, where the empty set is all of them.
Ask == [kind : Kinds, tenant : Tenants \cup {Null}, orgs : SUBSET Branches,
        pages : SUBSET Pages, campaigns : SUBSET Campaigns, until : BOOLEAN]

ASSUME WalkAssumption ==
  /\ Newest \in Seq(AllLeads) /\ IsInjective(Newest)
  /\ PageOf \in [Forms -> Pages] /\ FormOf \in [AllLeads -> Forms] /\ AdOf \in [AllLeads -> Ads \cup {Null}]
  /\ Promotes \in [Ads -> Pages \cup {Null}]
  /\ Created \in [AllLeads -> {"old", "in", "late", "odd"}]
  /\ Asks \subseteq Ask /\ Reaches \subseteq SUBSET Pages /\ Tables \subseteq SUBSET Mapping
  /\ Dumps \subseteq [AllLeads -> Branches \cup {Null, Missing}] /\ EditRows \subseteq Mapping
  /\ PageSize \in Nat \ {0} /\ MaxPages \in Nat \ {0} /\ Attempts \in Nat \ {0}
  /\ MaxRuns \in Nat /\ MaxEdits \in Nat
  /\ Null \notin Branches \cup Forms \cup Ads \cup Pages /\ Missing \notin Branches \cup {Null}
  /\ Forms \cap Ads = {}
\* Meta sends the newest first: behind a lead before the cut-off are only such.
OldLast(s) == \A i, j \in 1 .. Len(s) : i < j /\ Created[s[i]] = "old" => Created[s[j]] = "old"
ASSUME NewestFirst == OldLast(Newest)
\* The form of an ad is one of the page its ad set promotes.
ASSUME AdAssumption ==
  \A l \in AllLeads : AdOf[l] # Null /\ Promotes[AdOf[l]] # Null => Promotes[AdOf[l]] = PageOf[FormOf[l]]
\* A mapping is unique by page and form, and a form is mapped under its page.
Keyed(ms) ==
  /\ \A r, x \in ms : r.page = x.page /\ r.form = x.form => r = x
  /\ \A r \in ms : r.form # Null => PageOf[r.form] = r.page
ASSUME TableAssumption == \A ms \in Tables : Keyed(ms)
\* No script takes campaigns, and only sync_leads takes branches.
ASSUME AskAssumption ==
  \A ask \in Asks : ask.kind \notin {"pull", "campaign"} => ask.campaigns = {} /\ (ask.kind # "sync" => ask.orgs = {})

VARIABLES
  table,    \* ext.meta_page_form_org_map, its active rows
  landed,   \* ext.meta_leads: the branch of a lead that is in the LMS
  dump,     \* page_*_raw.json: the branch a downloaded lead was found for
  w,        \* the walk
  runs, edits

walkVars == <<table, landed, dump, w, runs, edits>>

-----------------------------------------------------------------------------
Nowhere == [l \in AllLeads |-> Missing]
\* What of s is in S, in the order of s.
Among(s, S) ==
    LET keep[n \in 0 .. Len(s)] ==
          IF n = 0 THEN << >> ELSE IF s[n] \in S THEN Append(keep[n - 1], s[n]) ELSE keep[n - 1]
    IN keep[Len(s)]
IdleWalk == [pc |-> "idle", ask |-> Null, before |-> {}, reach |-> {}, left |-> {}, at |-> Null, edges |-> {},
             edge |-> Null, rest |-> << >>, got |-> << >>, page |-> 0, tries |-> 0, errors |-> {},
             truncated |-> {}, rows |-> Nowhere, added |-> {}]
Ended(x) == x.pc \in {"done", "failed"}
IsPull(ask) == ask.kind \in {"pull", "campaign"}

\* loadMappings, under the policy of the tenant, and load_form_org_map.
LoadMappings(ask, ms) ==
    {r \in ms : TenantOf[r.org] = ask.tenant /\ (ask.pages = {} \/ r.page \in ask.pages)}
LoadFormOrgMap(ask, ms) ==
    {r \in ms : /\ ask.tenant \in {Null, TenantOf[r.org]}
                /\ ask.kind = "sync" => ask.orgs = {} \/ r.org \in ask.orgs}
Visible(ask, ms) == IF IsPull(ask) THEN LoadMappings(ask, ms) ELSE LoadFormOrgMap(ask, ms)
\* Mutant: the row of the page comes first, as the webhook once had it.
ResolvePageFirst(ms, p, f) ==
    LET exact == {r \in ms : r.form = f}
        level == {r \in ms : r.page = p /\ r.form = Null}
    IN IF level # {} THEN (CHOOSE r \in level : TRUE).org
       ELSE IF exact # {} THEN (CHOOSE r \in exact : TRUE).org ELSE Null
\* The row of the form, else the row of the page, else no branch.  At most one
\* of each: both are unique in the table.
Resolve(ms, p, f) ==
    LET exact == {r \in ms : r.form = f}
        level == {r \in ms : r.page = p /\ r.form = Null}
    IN IF exact # {} THEN (CHOOSE r \in exact : TRUE).org
       ELSE IF level # {} THEN (CHOOSE r \in level : TRUE).org ELSE Null
\* foreignPages: pages another tenant maps and this one does not.
Foreign(ask, ms) ==
    {r.page : r \in {x \in ms : TenantOf[x.org] # ask.tenant}}
      \ {r.page : r \in {x \in ms : TenantOf[x.org] = ask.tenant}}
Selected(ask, org) == ask.orgs = {} \/ org \in ask.orgs
\* The pages a pull was asked for; a script takes the pages it knows and more.
PagesRequested(ask, ms) ==
    IF ask.pages # {} THEN ask.pages
    ELSE {r.page : r \in {x \in LoadMappings(ask, ms) : Selected(ask, x.org)}}
KnownPages(ask, ms) == {r.page : r \in LoadFormOrgMap(ask, ms)} \cup ask.pages
PagesAsked(ask, ms) == IF IsPull(ask) THEN PagesRequested(ask, ms) ELSE KnownPages(ask, ms)
\* The pages walked; in campaign mode, the campaigns.
Stops(ask, ms) ==
    IF ask.kind = "campaign" THEN ask.campaigns
    ELSE IF ask.kind = "pull" THEN PagesRequested(ask, ms) \ Foreign(ask, ms) ELSE KnownPages(ask, ms)

InWindow(ask, l) == Created[l] \in {"in", "odd"} \/ (Created[l] = "late" /\ ~ask.until)
BeforeCutoff(l) == Created[l] = "old"

-----------------------------------------------------------------------------
\* A walk is asked for.  The mappings are read once, here.
Begin(ask, new) ==
    /\ w.pc = "idle" \/ Ended(w)
    /\ runs < MaxRuns
    /\ runs' = runs + 1
    /\ w' = [new EXCEPT !.ask = ask, !.before = table]
    /\ UNCHANGED <<table, landed, edits>>
StartPull(ask) ==
    /\ IsPull(ask)
    /\ LET stops == Stops(ask, table)
       IN Begin(ask, [IdleWalk EXCEPT
                        !.pc = IF ask.kind = "pull" /\ stops = {} THEN "done" ELSE "tokens",
                        !.left = stops,
                        !.errors = PagesRequested(ask, table) \cap Foreign(ask, table)])
    /\ UNCHANGED dump
\* A download writes to a directory of its own.
StartScript(ask) ==
    /\ ask.kind \in {"sync", "download", "forms"}
    /\ Begin(ask, [IdleWalk EXCEPT !.pc = IF KnownPages(ask, table) = {} THEN "done" ELSE "tokens",
                                   !.left = KnownPages(ask, table)])
    /\ dump' = IF ask.kind = "download" THEN Nowhere ELSE dump
StartImport(ask) ==
    /\ ask.kind = "import"
    /\ \E l \in AllLeads : dump[l] # Missing
    /\ Begin(ask, [IdleWalk EXCEPT !.pc = "keep", !.got = Among(Newest, {l \in AllLeads : dump[l] # Missing})])
    /\ UNCHANGED dump

\* graphGet: one call.  A throttled, broken or unanswered one is tried again
\* while attempts are left, any other failure is final.
Calls == {"tokens", "list", "fetch"}
\* Mutant: the attempts are counted from zero.
AttemptsFromZero == Attempts + 1
AttemptsLeft == Attempts
PageAt(e) == IF e \in Forms THEN PageOf[e] ELSE Promotes[e]
\* What the walk does without the answer: no token, no walk; else it reports
\* the page, the campaign or the ad's page and goes on.
GiveUp ==
    \/ w.pc = "tokens" /\ w' = [w EXCEPT !.pc = "failed"]
    \/ w.pc = "list" /\ w' = [w EXCEPT !.pc = "stop", !.errors = @ \cup {w.at}, !.tries = 0]
    \/ /\ w.pc = "fetch"
       /\ w' = [w EXCEPT !.pc = "edge", !.errors = @ \cup {PageAt(w.edge)}, !.tries = 0,
                         !.rest = << >>, !.got = << >>, !.page = 0]
CallFails(retryable) ==
    /\ w.pc \in Calls /\ IsPull(w.ask)
    /\ IF retryable /\ w.tries + 1 < AttemptsLeft
       THEN w' = [w EXCEPT !.tries = @ + 1]
       ELSE GiveUp
    /\ UNCHANGED <<table, landed, dump, runs, edits>>
\* A script tries once.  An error Meta answers with is caught, an answer that
\* does not come is not, and ends the script.
ScriptCallFails(answered) ==
    /\ w.pc \in Calls /\ ~IsPull(w.ask)
    /\ IF answered THEN w.pc # "tokens" /\ GiveUp
       ELSE w' = [w EXCEPT !.pc = "failed", !.added = {}, !.rows = Nowhere]
    /\ UNCHANGED <<table, landed, dump, runs, edits>>

\* getManagedPageTokens: the pages a page token was found for.
GetTokens(pages) ==
    /\ w.pc = "tokens" /\ IsPull(w.ask)
    /\ w' = [w EXCEPT !.pc = "stop", !.reach = pages, !.tries = 0]
    /\ UNCHANGED <<table, landed, dump, runs, edits>>
\* resolve_page_clients: over every integration, without those whose list fails.
ResolvePageClients(pages) ==
    /\ w.pc = "tokens" /\ ~IsPull(w.ask)
    /\ w' = [w EXCEPT !.pc = "stop", !.reach = pages]
    /\ UNCHANGED <<table, landed, dump, runs, edits>>

\* The next page of the walk, or campaign; a page out of reach is reported.
NextStop(s) ==
    /\ w.pc = "stop" /\ s \in w.left
    /\ LET on == [w EXCEPT !.left = @ \ {s}, !.at = s]
       IN w' = IF w.ask.kind # "campaign" /\ s \notin w.reach THEN [on EXCEPT !.errors = @ \cup {s}]
               ELSE [on EXCEPT !.pc = "list"]
    /\ UNCHANGED <<table, landed, dump, runs, edits>>

ListLeadGenForms ==
    /\ w.pc = "list" /\ w.ask.kind # "campaign"
    /\ w' = [w EXCEPT !.pc = "edge", !.tries = 0, !.edges = {f \in Forms : PageOf[f] = w.at}]
    /\ UNCHANGED <<table, landed, dump, runs, edits>>
ListCampaignAds ==
    /\ w.pc = "list" /\ w.ask.kind = "campaign"
    /\ w' = [w EXCEPT !.pc = "edge", !.tries = 0, !.edges = {a \in Ads : CampaignOf[a] = w.at}]
    /\ UNCHANGED <<table, landed, dump, runs, edits>>

Seen == Visible(w.ask, w.before)
\* The next form or ad.  An ad whose page cannot be read or is another
\* tenant's is reported; sync_leads passes over a form without a mapping.
Unreadable(e) ==
    /\ w.ask.kind = "campaign"
    /\ Promotes[e] = Null \/ Promotes[e] \in Foreign(w.ask, w.before) \/ Promotes[e] \notin w.reach
\* What Meta has behind an edge.
FormLeads(f) == Among(Newest, {l \in AllLeads : FormOf[l] = f})
AdLeads(a) == Among(Newest, {l \in AllLeads : AdOf[l] = a})
NextForm(f) ==
    /\ w.pc = "edge" /\ f \in w.edges /\ w.ask.kind \in {"pull", "sync", "download"}
    /\ LET on == [w EXCEPT !.edges = @ \ {f}, !.edge = f]
       IN w' = IF w.ask.kind = "sync" /\ Resolve(Seen, w.at, f) = Null THEN on
               ELSE [on EXCEPT !.pc = "fetch", !.rest = FormLeads(f)]
    /\ UNCHANGED <<table, landed, dump, runs, edits>>
NextAd(a) ==
    /\ w.pc = "edge" /\ a \in w.edges /\ w.ask.kind = "campaign"
    /\ LET on == [w EXCEPT !.edges = @ \ {a}, !.edge = a]
       IN w' = IF Unreadable(a) THEN [on EXCEPT !.errors = @ \cup {IF Promotes[a] = Null THEN a ELSE Promotes[a]}]
               ELSE [on EXCEPT !.pc = "fetch", !.rest = AdLeads(a)]
    /\ UNCHANGED <<table, landed, dump, runs, edits>>
\* sync_forms records each form it finds, whoever it is mapped to.
NextFoundForm(f) ==
    /\ w.pc = "edge" /\ f \in w.edges /\ w.ask.kind = "forms"
    /\ w' = [w EXCEPT !.pc = "form", !.edges = @ \ {f}, !.edge = f]
    /\ UNCHANGED <<table, landed, dump, runs, edits>>
\* A page is done; a download now writes its file.
EdgesDone ==
    /\ w.pc = "edge" /\ w.edges = {}
    /\ w' = [w EXCEPT !.pc = "stop", !.edge = Null]
    /\ dump' = IF w.ask.kind = "download" THEN [l \in AllLeads |-> IF w.rows[l] # Missing THEN w.rows[l] ELSE dump[l]]
               ELSE dump
    /\ UNCHANGED <<table, landed, runs, edits>>

\* Mutants: the window is left to Meta; an empty harvest ends the walk; the cap
\* does not count.
KeptAll(ask, batch) == batch
NothingKept(batch, kept) == kept = << >>
SamePage(n) == n
\* fetchEdgeLeads, get_leads_all: what is kept of a page of results, and
\* whether nothing newer can follow it.
Kept(ask, batch) == Among(batch, {l \in AllLeads : InWindow(ask, l)})
AllOld(batch, kept) == kept = << >> /\ \A l \in ToSet(batch) : BeforeCutoff(l)
NextPage(n) == n + 1
\* One page of leads.  Meta names a next page as long as there is one, and
\* sometimes when there is none; it may send the same leads again.
FetchLeads ==
    LET size   == IF PageSize < Len(w.rest) THEN PageSize ELSE Len(w.rest)
        batch  == SubSeq(w.rest, 1, size)
        behind == SubSeq(w.rest, size + 1, Len(w.rest))
        kept   == Kept(w.ask, batch)
        Harvest(truncated) ==
            w' = [w EXCEPT !.pc = "keep", !.got = @ \o kept, !.tries = 0, !.rest = << >>, !.page = 0,
                           !.truncated = IF truncated THEN @ \cup {w.edge} ELSE @]
    IN /\ w.pc = "fetch"
       /\ \/ /\ batch = << >> \/ AllOld(batch, kept) \/ behind = << >>
             /\ Harvest(FALSE)
          \/ /\ batch # << >> /\ ~AllOld(batch, kept)
             /\ NextPage(w.page) >= MaxPages
             /\ Harvest(TRUE)
          \/ /\ batch # << >> /\ ~AllOld(batch, kept)
             /\ NextPage(w.page) < MaxPages
             /\ \E next \in {behind, w.rest} :
                  w' = [w EXCEPT !.rest = next, !.got = @ \o kept, !.page = NextPage(@), !.tries = 0]
       /\ UNCHANGED <<table, landed, dump, runs, edits>>

-----------------------------------------------------------------------------
\* runPull: the leads of one form, or ad, are staged in one transaction.  A
\* lead Meta sent twice is staged once.
OrgFor(l) == Resolve(Seen, PageAt(w.edge), FormOf[l])
CampaignAsked(ask, l) ==
    \/ ask.kind = "campaign" \/ ask.campaigns = {}
    \/ AdOf[l] # Null /\ CampaignOf[AdOf[l]] \in ask.campaigns
OutOfScope(org) == org # Null /\ ~Selected(w.ask, org)
StageLeads ==
    LET sent  == {l \in ToSet(w.got) : CampaignAsked(w.ask, l) /\ ~OutOfScope(OrgFor(l))}
        fresh == {l \in sent : w.rows[l] = Missing}
    IN /\ w.pc = "keep" /\ IsPull(w.ask)
       /\ w' = [w EXCEPT !.pc = "edge", !.got = << >>,
                         !.rows = [l \in AllLeads |-> IF l \in fresh THEN OrgFor(l) ELSE @[l]]]
       /\ UNCHANGED <<table, landed, dump, runs, edits>>

\* download_page_leads: the form and its leads, with the branch the form is
\* mapped to now.
DumpLeads ==
    /\ w.pc = "keep" /\ w.ask.kind = "download"
    /\ w' = [w EXCEPT !.pc = "edge", !.got = << >>,
                      !.rows = [l \in AllLeads |-> IF l \in ToSet(w.got) THEN Resolve(Seen, w.at, w.edge) ELSE @[l]]]
    /\ UNCHANGED <<table, landed, dump, runs, edits>>

\* A lead is checked, and written if it is not known yet.  The whole run is one
\* transaction: a lead that landed in between breaks the unique index and with
\* it the run.
Writes(ask) == ask.kind \in {"sync", "import"}
Goes(known) ==
    /\ w' = IF known THEN [w EXCEPT !.got = Tail(@)] ELSE [w EXCEPT !.pc = "write"]
    /\ UNCHANGED <<table, landed, dump, runs, edits>>
IsAlreadySynced(l) == landed[l] # Missing \/ w.rows[l] # Missing
\* process_lead, and classify for what was downloaded.
ProcessLead ==
    /\ w.pc = "keep" /\ w.ask.kind = "sync" /\ w.got # << >>
    /\ Goes(IsAlreadySynced(Head(w.got)))
ClassifyLead ==
    /\ w.pc = "keep" /\ w.ask.kind = "import" /\ w.got # << >>
    /\ Goes(IsAlreadySynced(Head(w.got)) \/ dump[Head(w.got)] = Null)
Written(org) ==
    LET l == Head(w.got)
    IN /\ w' = IF landed[l] # Missing THEN [w EXCEPT !.pc = "failed", !.rows = Nowhere]
               ELSE [w EXCEPT !.pc = "keep", !.got = Tail(@), !.rows = [@ EXCEPT ![l] = org]]
       /\ UNCHANGED <<table, landed, dump, runs, edits>>
\* write_meta_lead_and_children and import_lead, which takes the branch of the
\* file.
WriteLead ==
    /\ w.pc = "write" /\ w.ask.kind = "sync"
    /\ Written(Resolve(Seen, w.at, w.edge))
ImportLead ==
    /\ w.pc = "write" /\ w.ask.kind = "import"
    /\ Written(dump[Head(w.got)])
FormDone ==
    /\ w.pc = "keep" /\ Writes(w.ask) /\ w.got = << >>
    /\ w' = [w EXCEPT !.pc = IF w.ask.kind = "import" THEN "stop" ELSE "edge"]
    /\ UNCHANGED <<table, landed, dump, runs, edits>>

\* maybe_auto_map_form: a new form goes to the only branch of its page.  The
\* branches are read, and read again to take the latest row.
Known == table \cup w.added
BranchesOn(p) == {r.org : r \in {x \in Known : x.page = p}}
TryForm ==
    /\ w.pc = "form"
    /\ w' = IF (\E r \in Known : r.form = w.edge) \/ Cardinality(BranchesOn(w.at)) # 1
            THEN [w EXCEPT !.pc = "edge"] ELSE [w EXCEPT !.pc = "map"]
    /\ UNCHANGED <<table, landed, dump, runs, edits>>
AutoMap ==
    /\ w.pc = "map"
    /\ \/ /\ BranchesOn(w.at) = {} \/ \E r \in Known : r.form = w.edge
          /\ w' = [w EXCEPT !.pc = "edge"]
       \/ /\ ~\E r \in Known : r.form = w.edge
          /\ \E b \in BranchesOn(w.at) :
               w' = [w EXCEPT !.pc = "edge", !.added = @ \cup {[org |-> b, page |-> w.at, form |-> w.edge]}]
    /\ UNCHANGED <<table, landed, dump, runs, edits>>

\* The end: a pull classifies what it staged, a script commits.
Finish ==
    /\ w.pc = "stop" /\ w.left = {}
    /\ landed' = [l \in AllLeads |-> IF Writes(w.ask) /\ w.rows[l] # Missing THEN w.rows[l] ELSE landed[l]]
    /\ table' = table \cup w.added
    /\ w' = [w EXCEPT !.pc = "done"]
    /\ UNCHANGED <<dump, runs, edits>>

\* An error of the database: a pull keeps what it staged, a script rolls back.
Throw ==
    /\ w.pc \in {"keep", "write", "form", "map"}
    /\ w' = [w EXCEPT !.pc = "failed", !.added = {}, !.rows = IF IsPull(w.ask) THEN @ ELSE Nowhere]
    /\ UNCHANGED <<table, landed, dump, runs, edits>>

-----------------------------------------------------------------------------
\* Meanwhile: the webhook lands a lead, unless a script has it in its open
\* transaction, and administrators map and unmap forms and pages.
\* resolveTenantAndOrg: the webhook's own rule, over every tenant's rows.
WebhookOrg(ms, l) ==
    LET fits == {r \in ms : r.form = FormOf[l] \/ (r.form = Null /\ r.page = PageOf[FormOf[l]])}
        own  == {r \in fits : r.form # Null}
    IN IF fits = {} THEN Null ELSE (CHOOSE r \in fits : own # {} => r \in own).org
Uncommitted(l) == Writes(w.ask) /\ ~Ended(w) /\ w.rows[l] # Missing
Land(l) ==
    /\ w.pc \in {"keep", "write"} /\ Writes(w.ask)
    /\ landed[l] = Missing /\ ~Uncommitted(l)
    /\ WebhookOrg(table, l) # Null
    /\ landed' = [landed EXCEPT ![l] = WebhookOrg(table, l)]
    /\ UNCHANGED <<table, dump, w, runs, edits>>
MapForm(r) ==
    /\ edits < MaxEdits
    /\ ~\E x \in Known : x.page = r.page /\ x.form = r.form
    /\ r.form # Null => PageOf[r.form] = r.page
    /\ table' = table \cup {r}
    /\ edits' = edits + 1
    /\ UNCHANGED <<landed, dump, w, runs>>
UnmapForm(r) ==
    /\ edits < MaxEdits /\ r \in table
    /\ table' = table \ {r}
    /\ edits' = edits + 1
    /\ UNCHANGED <<landed, dump, w, runs>>

WalkInit ==
    /\ table \in Tables
    /\ landed = Nowhere /\ dump \in Dumps
    /\ w = IdleWalk
    /\ runs = 0 /\ edits = 0

Step ==
    \/ \E yes \in BOOLEAN : CallFails(yes) \/ ScriptCallFails(yes)
    \/ \E pages \in Reaches : GetTokens(pages) \/ ResolvePageClients(pages)
    \/ \E s \in Pages \cup Campaigns : NextStop(s)
    \/ \E f \in Forms : NextForm(f) \/ NextFoundForm(f)
    \/ \E a \in Ads : NextAd(a)
    \/ ListLeadGenForms \/ ListCampaignAds \/ EdgesDone \/ FetchLeads \/ StageLeads \/ DumpLeads
    \/ ProcessLead \/ ClassifyLead \/ WriteLead \/ ImportLead \/ FormDone
    \/ TryForm \/ AutoMap \/ Finish \/ Throw
Others ==
    \/ \E ask \in Asks : StartPull(ask) \/ StartScript(ask) \/ StartImport(ask)
    \/ \E l \in AllLeads : Land(l)
    \/ \E r \in EditRows : MapForm(r) \/ UnmapForm(r)
WalkNext == Step \/ Others
\* Every call returns or times out, so a walk goes on by itself.
WalkSpec == WalkInit /\ [][WalkNext]_walkVars /\ WF_walkVars(Step)

-----------------------------------------------------------------------------
Walk == [pc : {"idle", "tokens", "stop", "list", "edge", "fetch", "keep", "write", "form", "map", "done", "failed"},
         ask : Asks \cup {Null}, before : SUBSET Mapping, reach : SUBSET Pages,
         left : SUBSET (Pages \cup Campaigns), at : Pages \cup Campaigns \cup {Null},
         edges : SUBSET (Forms \cup Ads), edge : Forms \cup Ads \cup {Null},
         rest : Seq(AllLeads), got : Seq(AllLeads), page : 0 .. MaxPages, tries : 0 .. Attempts - 1,
         errors : SUBSET (Pages \cup Campaigns \cup Ads), truncated : SUBSET (Forms \cup Ads),
         rows : [AllLeads -> Branches \cup {Null, Missing}], added : SUBSET Mapping]
WalkTypeOK ==
    /\ table \in SUBSET Mapping
    /\ landed \in [AllLeads -> Branches \cup {Missing}]
    /\ dump \in [AllLeads -> Branches \cup {Null, Missing}]
    /\ w \in Walk
    /\ runs \in 0 .. MaxRuns /\ edits \in 0 .. MaxEdits

\* The leads a walk was asked for, by the mappings it read.
AskedOf(ask, before, l) ==
    LET page == IF ask.kind = "campaign" THEN Promotes[AdOf[l]] ELSE PageOf[FormOf[l]]
        org  == Resolve(Visible(ask, before), page, FormOf[l])
    IN /\ InWindow(ask, l)
       /\ CampaignAsked(ask, l)
       /\ IF ask.kind = "campaign" THEN CampaignOf[AdOf[l]] \in ask.campaigns ELSE page \in PagesAsked(ask, before)
       /\ IF IsPull(ask) THEN org = Null \/ Selected(ask, org) ELSE org # Null
Excused(l) ==
    \/ FormOf[l] \in w.truncated \/ PageOf[FormOf[l]] \in w.errors
    \/ AdOf[l] # Null /\ (AdOf[l] \in w.truncated \/ {AdOf[l], CampaignOf[AdOf[l]], Promotes[AdOf[l]]} \cap w.errors # {})

\* "Cap reached with pagination still going. LOUD, not silent": whatever
\* failed, was throttled, sent twice or cut short on the way, a walk that ends
\* normally has staged, or landed, every lead it was asked for, or says in its
\* errors or its truncated forms where it has not.
NothingMissed ==
    w.pc = "done" /\ w.ask.kind \in {"pull", "campaign", "sync", "download"} =>
      \A l \in AllLeads :
        (w.ask.kind = "campaign" => AdOf[l] # Null) /\ AskedOf(w.ask, w.before, l) =>
          w.rows[l] # Missing \/ landed[l] # Missing \/ Excused(l)

\* Nothing is staged or written but what was asked for: of the window, which
\* Meta is known to ignore, of the campaigns, of the branches selected or none,
\* and nothing of a page that is another tenant's only.
OnlyAsked ==
    \A l \in AllLeads :
      w.rows[l] # Missing /\ w.ask.kind # "import" =>
        /\ InWindow(w.ask, l)
        /\ w.ask.kind = "campaign" => AdOf[l] # Null /\ CampaignOf[AdOf[l]] \in w.ask.campaigns
        /\ CampaignAsked(w.ask, l)
        /\ w.rows[l] = Null \/ Selected(w.ask, w.rows[l])
        /\ IsPull(w.ask) => PageOf[FormOf[l]] \notin Foreign(w.ask, w.before)

\* The branch the webhook would choose by the mappings the walk read.
WebhookRoute(l) == WebhookOrg(w.before, l)
\* "The three must agree": a walk that could see every mapping of the lead's
\* page sends it where the webhook would.
RoutesLikeWebhook ==
    \A l \in AllLeads :
      /\ w.rows[l] # Missing /\ w.ask.kind # "import"
      /\ {r \in w.before : r.page = PageOf[FormOf[l]]} \subseteq Visible(w.ask, w.before)
      => w.rows[l] = WebhookRoute(l)

\* "routing a lead by one rule here and another on the webhook path would send
\* the same lead to different branches depending on which door it came through"
\* (lead-pull.service.ts:222-224), whatever part of the table the walk reads.
\* A form no visible row maps may be staged for review.
RoutesAgree ==
    \A l \in AllLeads :
      w.rows[l] \notin {Missing, Null} /\ w.ask.kind # "import" => w.rows[l] = WebhookRoute(l)

\* "add the mappings (see %s) and re-run this script to pick them up"
\* (import_downloaded_leads.py:227-229): an import that ends has landed every
\* downloaded lead whose form was mapped when it started.  The dump keeps the
\* routing of its own day; no run lists this, and the README tells how.
RerunPicksUp ==
    w.pc = "done" /\ w.ask.kind = "import" =>
      \A l \in AllLeads : dump[l] # Missing /\ WebhookRoute(l) # Null => landed[l] # Missing

\* A walk ends, also when Meta keeps naming a next page.
WalkEnds == w.pc \notin {"idle", "done", "failed"} ~> Ended(w)
=============================================================================
