----------------------------- MODULE AssignDesk -----------------------------
(***************************************************************************)
(* People who give leads to people: the Bulk Assign page, the Assignments  *)
(* page with its dialog, the API, and the requests they make of            *)
(* leads-service, while members come and go and leads are deleted,         *)
(* superseded and handed over.                                             *)
(*                                                                         *)
(* A request is up to four transactions: find the leads and their branch,  *)
(* ask whether the caller may write there, look the assignee up in that    *)
(* branch, write.  Nothing is locked in between.                           *)
(*                                                                         *)
(* Abstractions.  One tenant.  A lead keeps its branch: a transfer makes a *)
(* copy and supersedes it (LeadLifecycle), as does a resubmission.  An     *)
(* answer to the browser holds what the server has when it arrives.  Stage *)
(* and text filters are a choice of the rows that remain.  The dialog that *)
(* adds a walk-in lead is the creation LeadLifecycle has.                  *)
(***************************************************************************)
EXTENDS Naturals, FiniteSets

CONSTANTS
  People, Leads, Orgs, None,
  OrgOf,                \* the branch of a lead
  Desks,                \* the people who assign
  At,                   \* the branch the session of a desk is switched into
  Wide,                 \* desks with a tenant-wide role
  Grant,                \* how far lms.leads.assign.* lets a desk reach
  Rank,                 \* the rank of a person in a branch
  ADMIN,                \* from this rank on nobody is given leads
  BulkMax,              \* bulkAssignSchema: leads in one request
  FirstLeads, FirstMembers,          \* what there is in the beginning
  MaxCalls, MaxEdits    \* bounds: requests of all desks together, changes by others

Members == SUBSET (People \X Orgs)
Lead == [owner : People \cup {None}, deleted : BOOLEAN, superseded : BOOLEAN]

ASSUME DeskAssumption ==
  /\ Desks \subseteq People /\ Wide \subseteq Desks /\ None \notin People \cup Leads \cup Orgs
  /\ IsFiniteSet(Leads)
  /\ OrgOf \in [Leads -> Orgs] /\ At \in [Desks -> Orgs]
  /\ Grant \in [Desks -> {"any", "peers", "reports", "none"}]
  /\ Rank \in [People -> [Orgs -> Nat]] /\ {ADMIN, BulkMax, MaxCalls, MaxEdits} \subseteq Nat
  /\ FirstLeads \in [Leads -> Lead] /\ FirstMembers \in Members

VARIABLES
  lead,         \* lms.marketing_leads
  member,       \* iam.user_org_mapping, the active rows of active users
  desk,         \* the page a person has open
  call,         \* the person's request
  left,         \* history: the memberships that ended while the request ran
  calls, edits  \* counters

vars == <<lead, member, desk, call, left, calls, edits>>

db == <<lead, member, edits>>

\* No form is open, or Bulk Assign's, or the dialog that edits an assignment.
Desk == [branch : Orgs \cup {None}, list : {"none", "loading", "shown", "failed"},
         rows : SUBSET Leads, ticked : SUBSET Leads,
         form : {"none", "bulk", "edit"}, of : Leads \cup {None}, was : People \cup {None},
         listed : BOOLEAN, offered : SUBSET People, pick : People \cup {None}]
Kinds == {"create", "reassign", "unassign", "bulk"}
Call == [kind : Kinds, leads : SUBSET Leads, to : People \cup {None},
         pc : {"find", "reach", "target", "write"}, org : Orgs \cup {None}]
Idle == [kind |-> "none"]

\* Types, and what a request knows by the step it is at.
TypeOK ==
  /\ lead \in [Leads -> Lead] /\ member \in Members
  /\ desk \in [Desks -> Desk]
  /\ call \in [Desks -> Call \cup {Idle}]
  /\ left \in [Desks -> Members]
  /\ calls \in 0 .. MaxCalls /\ edits \in 0 .. MaxEdits
  /\ \A u \in Desks : call[u] # Idle =>
       /\ call[u].leads # {} /\ (call[u].kind = "unassign" <=> call[u].to = None)
       /\ call[u].kind # "bulk" => \E l \in Leads : call[u].leads = {l}
       /\ call[u].pc # "find" => /\ call[u].org \in Orgs
                                 /\ \A l \in call[u].leads : OrgOf[l] = call[u].org

-----------------------------------------------------------------------------
(* What leads-service reads *)

Live(l) == ~lead[l].deleted /\ ~lead[l].superseded

\* getCoveredOrgIds: the caller's own mappings, or the current branch without any.
Covered(u) ==
  LET mapped == {o \in Orgs : <<u, o>> \in member} IN IF mapped = {} THEN {At[u]} ELSE mapped

\* writeCtxForOrg refuses what is neither the session's branch nor covered.
MayWriteIn(u, o) == o = At[u] \/ o \in Covered(u)

\* Mutant: the lookup without orgId finds the assignee in any branch the caller shares.
IsMemberSomewhere(u, p, o) == \E b \in Orgs : <<p, b>> \in member /\ (u \in Wide \/ <<u, b>> \in member)

\* getUserForAssignment: an active member of the lead's branch, which the caller
\* shares unless the caller's role is tenant-wide.
IsMemberOf(u, p, o) == <<p, o>> \in member /\ (u \in Wide \/ <<u, o>> \in member)

\* canAssignToUser
MayGive(u, p, o) ==
  /\ Rank[p][o] < ADMIN
  /\ \/ u = p
     \/ Grant[u] = "any"
     \/ Grant[u] = "peers" /\ Rank[p][o] <= Rank[u][At[u]]
     \/ Grant[u] = "reports" /\ Rank[p][o] < Rank[u][At[u]]

\* GET /leads of one branch, of which a caller below the branch's managers is shown
\* some, and GET /assignments.
ListedIn(u, o) == {l \in Leads : Live(l) /\ OrgOf[l] = o /\ (u \in Wide \/ o \in Covered(u))}
Assignments(u) == {l \in Leads : Live(l) /\ lead[l].owner # None /\ (u \in Wide \/ OrgOf[l] = At[u])}

\* GET /users/assignable of one branch.
Assignable(u, o) == {p \in People : IsMemberOf(u, p, o) /\ MayGive(u, p, o)}

-----------------------------------------------------------------------------
(* The pages *)

NoForm(d) == [d EXCEPT !.form = "none", !.of = None, !.was = None, !.listed = FALSE, !.offered = {}, !.pick = None]
Reload(d) == [d EXCEPT !.list = "loading", !.ticked = {}]

SetDesk(u, d) == desk' = [desk EXCEPT ![u] = d]
Browse(u, d) == SetDesk(u, d) /\ UNCHANGED <<db, call, left, calls>>

\* The rows of the last branch stay on screen, and can be ticked, until the new ones arrive.
ChooseBranch(u, o) ==
  /\ desk[u].form = "none" /\ desk[u].branch # o
  /\ Browse(u, Reload([desk[u] EXCEPT !.branch = o]))

RowsArrive(u) ==
  /\ desk[u].list = "loading"
  /\ Browse(u, [desk[u] EXCEPT !.list = "shown", !.rows = ListedIn(u, desk[u].branch)])

RowsFail(u) ==
  /\ desk[u].list = "loading"
  /\ Browse(u, [desk[u] EXCEPT !.list = "failed", !.rows = {}])

Retry(u) ==
  /\ desk[u].list = "failed" /\ desk[u].form = "none"
  /\ Browse(u, Reload(desk[u]))

\* toggleOne, and toggleAll over the rows S the filters leave.
Tick(u, S) ==
  /\ desk[u].form = "none" /\ S # {} /\ S \subseteq desk[u].rows
  /\ Browse(u, [desk[u] EXCEPT !.ticked = IF S \subseteq @ THEN @ \ S ELSE @ \cup S])

OpenBulk(u) ==
  /\ desk[u].form = "none" /\ desk[u].ticked # {}
  /\ Browse(u, [NoForm(desk[u]) EXCEPT !.form = "bulk"])

\* The dialog keeps the assignment as the page had it.
OpenEdit(u, l) ==
  /\ desk[u].form = "none" /\ l \in Assignments(u)
  /\ Browse(u, [NoForm(desk[u]) EXCEPT !.form = "edit", !.of = l, !.was = lead[l].owner])

Close(u) ==
  /\ desk[u].form # "none" /\ call[u] = Idle
  /\ Browse(u, NoForm(desk[u]))

FormBranch(d) == IF d.form = "edit" THEN OrgOf[d.of] ELSE d.branch

\* The current owner is preselected while assignable.
CandidatesArrive(u) ==
  /\ desk[u].form # "none" /\ ~desk[u].listed
  /\ LET d == desk[u]
         who == Assignable(u, FormBranch(d))
     IN  Browse(u, [d EXCEPT !.listed = TRUE, !.offered = who, !.pick = IF d.was \in who THEN d.was ELSE @])

CandidatesFail(u) ==
  /\ desk[u].form # "none" /\ ~desk[u].listed
  /\ Browse(u, [desk[u] EXCEPT !.listed = TRUE])

Pick(u, p) ==
  /\ desk[u].form # "none" /\ call[u] = Idle /\ p \in desk[u].offered
  /\ Browse(u, [desk[u] EXCEPT !.pick = p])

Ask(u, kind, S, p) ==
  /\ call[u] = Idle /\ calls < MaxCalls
  /\ calls' = calls + 1
  /\ call' = [call EXCEPT ![u] = [kind |-> kind, leads |-> S, to |-> p, pc |-> "find", org |-> None]]
  /\ left' = [left EXCEPT ![u] = {}]
  /\ UNCHANGED <<db, desk>>

SubmitBulk(u) == desk[u].form = "bulk" /\ desk[u].pick # None /\ Ask(u, "bulk", desk[u].ticked, desk[u].pick)
SubmitEdit(u) == desk[u].form = "edit" /\ desk[u].pick # None /\ Ask(u, "reassign", {desk[u].of}, desk[u].pick)
Unassign(u)   == desk[u].form = "edit" /\ Ask(u, "unassign", {desk[u].of}, None)

\* No page of this repository uses POST /assignments.
ApiCreate(u, l, p) == desk[u].form = "none" /\ Grant[u] # "none" /\ Ask(u, "create", {l}, p)

-----------------------------------------------------------------------------
(* The request, transaction by transaction *)

\* The request ends with an error, which the form shows.
Refuse(u) ==
  /\ call' = [call EXCEPT ![u] = Idle]
  /\ left' = [left EXCEPT ![u] = {}]
  /\ UNCHANGED <<db, desk, calls>>

Proceed(u, c) ==
  /\ call' = [call EXCEPT ![u] = c]
  /\ UNCHANGED <<db, desk, left, calls>>

\* getLeadOrgId, getLeadsForBulkAssignment and the checks of what they return
Found(c) ==
  IF c.kind = "bulk"
    THEN /\ Cardinality(c.leads) <= BulkMax
         /\ \A l \in c.leads : Live(l)
         /\ \A l, k \in c.leads : OrgOf[l] = OrgOf[k]
    ELSE \A l \in c.leads : ~lead[l].deleted

FindLeads(u) ==
  /\ call[u] # Idle /\ call[u].pc = "find"
  /\ IF Found(call[u])
       THEN \E l \in call[u].leads : Proceed(u, [call[u] EXCEPT !.pc = "reach", !.org = OrgOf[l]])
       ELSE Refuse(u)

CheckReach(u) ==
  /\ call[u] # Idle /\ call[u].pc = "reach"
  /\ IF MayWriteIn(u, call[u].org)
       THEN Proceed(u, [call[u] EXCEPT !.pc = IF call[u].kind = "unassign" THEN "write" ELSE "target"])
       ELSE Refuse(u)

CheckTarget(u) ==
  /\ call[u] # Idle /\ call[u].pc = "target"
  /\ IF IsMemberOf(u, call[u].to, call[u].org) /\ MayGive(u, call[u].to, call[u].org)
       THEN Proceed(u, [call[u] EXCEPT !.pc = "write"])
       ELSE Refuse(u)

\* The rows the UPDATE of a request matches.  It tests nothing of what was found before.
Matched(c) ==
  {l \in c.leads : /\ ~lead[l].deleted
                   /\ c.kind = "create" => lead[l].owner = None
                   /\ c.kind = "bulk" => lead[l].owner # c.to}

\* An answer that does not arrive leaves the form open with an error.
Answered(u, heard) ==
  /\ call' = [call EXCEPT ![u] = Idle]
  /\ left' = [left EXCEPT ![u] = {}]
  /\ SetDesk(u, IF ~heard THEN desk[u]
                ELSE IF call[u].kind = "bulk" THEN Reload(NoForm(desk[u])) ELSE NoForm(desk[u]))
  /\ UNCHANGED <<member, edits, calls>>

\* A bulk assignment that matches nothing still succeeds; the others answer 404 or 409.
WriteLeads(u, heard) ==
  /\ call[u] # Idle /\ call[u].pc = "write"
  /\ Matched(call[u]) # {} \/ call[u].kind = "bulk"
  /\ lead' = [l \in Leads |-> IF l \in Matched(call[u]) THEN [lead[l] EXCEPT !.owner = call[u].to] ELSE lead[l]]
  /\ Answered(u, heard)

WriteNothing(u) ==
  /\ call[u] # Idle /\ call[u].pc = "write"
  /\ Matched(call[u]) = {} /\ call[u].kind # "bulk"
  /\ Refuse(u)

\* A statement fails, or the request never arrives.
RequestFails(u) == call[u] # Idle /\ Refuse(u)

-----------------------------------------------------------------------------
(* What others do meanwhile *)

Edit ==
  /\ edits < MaxEdits /\ edits' = edits + 1
  /\ UNCHANGED <<desk, call, calls>>

Delete(l) ==
  /\ Edit /\ ~lead[l].deleted
  /\ lead' = [lead EXCEPT ![l].deleted = TRUE] /\ UNCHANGED <<member, left>>

Supersede(l) ==
  /\ Edit /\ Live(l)
  /\ lead' = [lead EXCEPT ![l].superseded = TRUE] /\ UNCHANGED <<member, left>>

Leave(p, o) ==
  /\ Edit /\ <<p, o>> \in member
  /\ member' = member \ {<<p, o>>}
  /\ left' = [u \in Desks |-> IF call[u] = Idle THEN left[u] ELSE left[u] \cup {<<p, o>>}]
  /\ UNCHANGED lead

Join(p, o) ==
  /\ Edit /\ <<p, o>> \notin member
  /\ member' = member \cup {<<p, o>>} /\ UNCHANGED <<lead, left>>

\* reassignOrgLeads: the open leads of someone who leaves go to a member, or to nobody.
HandOver(p, q, o) ==
  LET theirs == {l \in Leads : lead[l].owner = p /\ OrgOf[l] = o /\ Live(l)}
  IN  /\ Edit /\ p # q /\ (q = None \/ <<q, o>> \in member) /\ theirs # {}
      /\ lead' = [l \in Leads |-> IF l \in theirs THEN [lead[l] EXCEPT !.owner = q] ELSE lead[l]]
      /\ UNCHANGED <<member, left>>

-----------------------------------------------------------------------------
NewDesk == [branch |-> None, list |-> "none", rows |-> {}, ticked |-> {}, form |-> "none",
            of |-> None, was |-> None, listed |-> FALSE, offered |-> {}, pick |-> None]

Init ==
  /\ lead = FirstLeads /\ member = FirstMembers
  /\ desk = [u \in Desks |-> NewDesk]
  /\ call = [u \in Desks |-> Idle]
  /\ left = [u \in Desks |-> {}]
  /\ calls = 0 /\ edits = 0

PageStep(u) ==
  \/ \E o \in Orgs : ChooseBranch(u, o)
  \/ RowsArrive(u) \/ RowsFail(u) \/ Retry(u)
  \/ \E S \in SUBSET Leads : Tick(u, S)
  \/ OpenBulk(u) \/ Close(u) \/ CandidatesArrive(u) \/ CandidatesFail(u)
  \/ \E l \in Leads : OpenEdit(u, l)
  \/ \E p \in People : Pick(u, p)

AskStep(u) ==
  \/ SubmitBulk(u) \/ SubmitEdit(u) \/ Unassign(u)
  \/ \E l \in Leads, p \in People : ApiCreate(u, l, p)

ServerStep(u) ==
  \/ FindLeads(u) \/ CheckReach(u) \/ CheckTarget(u)
  \/ \E heard \in BOOLEAN : WriteLeads(u, heard)
  \/ WriteNothing(u) \/ RequestFails(u)

OtherStep ==
  \/ \E l \in Leads : Delete(l) \/ Supersede(l)
  \/ \E p \in People, o \in Orgs : Leave(p, o) \/ Join(p, o)
  \/ \E p \in People, q \in People \cup {None}, o \in Orgs : HandOver(p, q, o)

Next == (\E u \in Desks : PageStep(u) \/ AskStep(u) \/ ServerStep(u)) \/ OtherStep

Spec == Init /\ [][Next]_vars

-----------------------------------------------------------------------------
(* Properties *)

\* The steps in which a request writes.
WriteBy(u) == call[u] # Idle /\ call[u].pc = "write" /\ call'[u] = Idle

\* Whoever a request gives a lead to is an active member of the lead's branch, and
\* the lead is in the branch of the caller's session or in one the caller covers:
\* whatever was ticked in whatever branch, unless the membership ended while the
\* request ran (getUserForAssignment, writeCtxForOrg).
WithinReach ==
  [][\A u \in Desks, l \in Leads : WriteBy(u) /\ lead'[l].owner # lead[l].owner =>
       /\ lead'[l].owner # None => <<lead'[l].owner, OrgOf[l]>> \in member \cup left[u]
       /\ MayWriteIn(u, OrgOf[l]) \/ <<u, OrgOf[l]>> \in left[u]]_vars
-----------------------------------------------------------------------------
(* What the steps keep so that WithinReach holds *)

\* What a form submits.
FormsHold ==
  \A u \in Desks : /\ desk[u].form = "bulk" => desk[u].ticked # {}
                   /\ desk[u].form = "edit" => desk[u].of \in Leads

\* What a request has found out stays true of its caller and its assignee while
\* they keep their memberships.
ReachChecked ==
  \A u \in Desks : call[u] # Idle /\ call[u].pc \in {"target", "write"} =>
    MayWriteIn(u, call[u].org) \/ <<u, call[u].org>> \in left[u]

TargetChecked ==
  \A u \in Desks : call[u] # Idle /\ call[u].pc = "write" /\ call[u].to # None =>
    <<call[u].to, call[u].org>> \in member \cup left[u]
=============================================================================
