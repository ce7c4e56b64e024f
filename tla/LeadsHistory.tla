---------------------------- MODULE LeadsHistory ----------------------------
(***************************************************************************)
(* The Leads History page: a report on the leads that AssignDesk's         *)
(* requests give and take.  A reader picks branches and assignees; the     *)
(* server narrows what is asked to what the reader may see by then.        *)
(*                                                                         *)
(* Abstractions.  A person has one page open; leaving it forgets it.       *)
(* Dates, stages, outcomes, sources and types only narrow a report and     *)
(* are left out, as are the order and the size of its pages.  The          *)
(* database's row policy is the set of branches a reader may read.         *)
(***************************************************************************)
EXTENDS AssignDesk

CONSTANTS
  Unassigned,           \* the sentinel among the assignees
  Standings,            \* the standings each person may have
  FirstStanding,        \* and has in the beginning
  Readable              \* the branches the row policy lets a person read

\* How far a person sees, and whether unassigned leads too
\* (getLeadsHistoryAssignedToScope, canViewUnassignedLeads: two independent thresholds).
Standing == [scope : {"none", "org", "tenant"}, unassigned : BOOLEAN]

ASSUME HistoryAssumption ==
  /\ Unassigned \notin People \cup {None} /\ Standings \in [Desks -> SUBSET Standing]
  /\ \A u \in Desks : \A s \in Standings[u] : s.scope = "tenant" <=> u \in Wide
  /\ FirstStanding \in [Desks -> Standing] /\ \A u \in Desks : FirstStanding[u] \in Standings[u]
  /\ Readable \in [Desks -> SUBSET Orgs] /\ \A u \in Desks : At[u] \in Readable[u]

VARIABLES
  standing,  \* of each person, by role and rank
  report     \* the page, while it is open

history == <<standing, report>>

Query == [orgs : SUBSET Orgs, who : SUBSET (People \cup {Unassigned})]
Shown == [lead : Leads, owner : People \cup {None}]
Report == [as : Standing, branches : SUBSET Orgs,
           orgs : SUBSET Orgs, who : SUBSET (People \cup {Unassigned}), offering : BOOLEAN, offered : SUBSET People,
           last : Query, flight : SUBSET Query, busy : BOOLEAN, rows : SUBSET Shown]
Closed == [as |-> "closed"]

ReportTypeOK ==
  /\ TypeOK
  /\ standing \in [Desks -> Standing] /\ report \in [Desks -> Report \cup {Closed}]
  /\ \A u \in Desks : report[u] # Closed =>
       /\ desk[u] = NewDesk /\ call[u] = Idle
       \* Names are offered, and picked, only by a reader who has the filter.
       /\ report[u].as.scope = "none" => report[u].offered = {} /\ report[u].who = {}
       /\ report[u].orgs \subseteq report[u].branches

-----------------------------------------------------------------------------
(* listLeadsHistory *)

\* parseAssignedTo drops the sentinel for those who may not see unassigned leads.
UserIds(q) == q.who \ {Unassigned}

\* Mutant: the sentinel counts whoever sends it.
SentinelSent(s, q) == Unassigned \in q.who

UnassignedRequested(s, q) == s.unassigned /\ Unassigned \in q.who

\* modeFor; below the team scope never anything but one's own.
UnassignedMode(s, q) ==
  IF s.scope = "none" THEN "exclude"
  ELSE IF UnassignedRequested(s, q) THEN (IF UserIds(q) = {} THEN "only" ELSE "include")
  ELSE IF UserIds(q) # {} \/ ~s.unassigned THEN "exclude" ELSE "include"

Users(u, q) == IF standing[u].scope = "none" THEN {u} ELSE UserIds(q)

\* orgIds; Orgs stands for null, no restriction.
OrgIds(u, q) ==
  CASE standing[u].scope = "none"   -> {At[u]}
    [] standing[u].scope = "org"    -> IF q.orgs = {} THEN Covered(u) ELSE q.orgs \cap Covered(u)
    [] standing[u].scope = "tenant" -> IF q.orgs = {} THEN Orgs ELSE q.orgs

\* listAssignmentsFiltered: the predicate on the assignee ...
OwnerMatches(mode, users, owner) ==
  CASE mode = "only"    -> owner = None
    [] mode = "exclude" -> owner # None /\ (users = {} \/ owner \in users)
    [] mode = "include" -> users = {} \/ owner = None \/ owner \in users

\* ... and on the branch: an empty list restricts nothing.
OrgMatches(orgs, o) == orgs = {} \/ o \in orgs

Result(u, q) ==
  {[lead |-> l, owner |-> lead[l].owner] : l \in
     {k \in Leads : /\ Live(k) /\ OrgOf[k] \in Readable[u]
                    /\ OwnerMatches(UnassignedMode(standing[u], q), Users(u, q), lead[k].owner)
                    /\ OrgMatches(OrgIds(u, q), OrgOf[k])}}

-----------------------------------------------------------------------------
(* The page *)

Everything == [orgs |-> {}, who |-> {}]

\* GET /auth/my-orgs
MyOrgs(u) == IF standing[u].scope = "tenant" THEN Orgs ELSE Covered(u)

\* The page opens with a report on everything, and asks for the names.
Open(u) ==
  /\ report[u] = Closed /\ desk[u].form = "none" /\ call[u] = Idle /\ calls < MaxCalls
  /\ calls' = calls + 1
  /\ SetDesk(u, NewDesk)
  /\ report' = [report EXCEPT ![u] =
       [as |-> standing[u], branches |-> MyOrgs(u), orgs |-> {}, who |-> {},
        offering |-> standing[u].scope # "none", offered |-> {},
        last |-> Everything, flight |-> {Everything}, busy |-> TRUE, rows |-> {}]]
  /\ UNCHANGED <<db, call, left, standing>>

CloseReport(u) ==
  /\ report[u] # Closed
  /\ report' = [report EXCEPT ![u] = Closed]
  /\ UNCHANGED <<vars, standing>>

Turn(u, r) ==
  /\ report[u] # Closed
  /\ report' = [report EXCEPT ![u] = r]
  /\ UNCHANGED <<vars, standing>>

Send(u, r, q) ==
  /\ report[u] # Closed /\ calls < MaxCalls
  /\ calls' = calls + 1
  /\ report' = [report EXCEPT ![u] = [r EXCEPT !.last = q, !.flight = @ \cup {q}, !.busy = TRUE]]
  /\ UNCHANGED <<db, desk, call, left, standing>>

\* Other branches picked: the names are asked for again, and the picks of names go.
Rebranched(r, S) ==
  IF S = r.orgs THEN r
  ELSE [r EXCEPT !.orgs = S, !.who = @ \cap {Unassigned}, !.offering = (r.as.scope # "none")]

\* With a single branch there is nothing to pick.
PickOrgs(u, S) ==
  /\ report[u] # Closed /\ Cardinality(report[u].branches) > 1
  /\ S \subseteq report[u].branches /\ S # report[u].orgs
  /\ Turn(u, Rebranched(report[u], S))

\* GET /users/assignable for a filter: the members of the branches picked, or of all covered.
NamesFor(u, S) == {p \in People : \E o \in (IF S = {} THEN MyOrgs(u) ELSE S \cap MyOrgs(u)) : <<p, o>> \in member}

NamesArrive(u) ==
  /\ report[u] # Closed /\ report[u].offering
  /\ Turn(u, [report[u] EXCEPT !.offering = FALSE, !.offered = NamesFor(u, report[u].orgs)])

\* The names stay those of the branches picked before.
NamesFail(u) ==
  /\ report[u] # Closed /\ report[u].offering
  /\ Turn(u, [report[u] EXCEPT !.offering = FALSE])

PickWho(u, S) ==
  /\ report[u] # Closed /\ report[u].as.scope # "none"
  /\ S \subseteq report[u].offered \cup (IF report[u].as.unassigned THEN {Unassigned} ELSE {})
  /\ S # report[u].who
  /\ Turn(u, [report[u] EXCEPT !.who = S])

Picks(r) == [orgs |-> r.orgs, who |-> r.who]

\* Apply waits for an answer; Reset does not, nor do the column headings and the
\* page numbers of a table that has rows.
Apply(u)    == report[u] # Closed /\ ~report[u].busy /\ Send(u, report[u], Picks(report[u]))
Sort(u)     == report[u] # Closed /\ report[u].rows # {} /\ Send(u, report[u], Picks(report[u]))
Reset(u)    == report[u] # Closed /\ Send(u, [Rebranched(report[u], {}) EXCEPT !.who = {}], Everything)
GoToPage(u) == report[u] # Closed /\ report[u].rows # {} /\ Send(u, report[u], report[u].last)

\* Answers arrive in any order, and each is shown.
Arrives(u, q) ==
  Turn(u, [report[u] EXCEPT !.flight = @ \ {q}, !.busy = FALSE, !.rows = Result(u, q)])

Fails(u, q) ==
  Turn(u, [report[u] EXCEPT !.flight = @ \ {q}, !.busy = FALSE])

\* A role changes; open pages stay as they are.
Promote(u, s) ==
  /\ Edit /\ standing[u] # s
  /\ standing' = [standing EXCEPT ![u] = s]
  /\ UNCHANGED <<lead, member, left, report>>

-----------------------------------------------------------------------------
HistoryInit ==
  /\ Init
  /\ standing = FirstStanding
  /\ report = [u \in Desks |-> Closed]

HistoryStep(u) ==
  \/ Open(u) \/ CloseReport(u)
  \/ \E S \in SUBSET Orgs : PickOrgs(u, S)
  \/ \E S \in SUBSET (People \cup {Unassigned}) : PickWho(u, S)
  \/ NamesArrive(u) \/ NamesFail(u)
  \/ Apply(u) \/ Sort(u) \/ Reset(u) \/ GoToPage(u)
  \/ report[u] # Closed /\ \E q \in report[u].flight : Arrives(u, q) \/ Fails(u, q)
  \/ \E s \in Standings[u] : Promote(u, s)

\* The desk's pages and requests, by who has not the report open.
DeskStep == (\E u \in Desks : report[u] = Closed /\ (PageStep(u) \/ AskStep(u) \/ ServerStep(u))) \/ OtherStep

HistoryNext == (DeskStep /\ UNCHANGED history) \/ \E u \in Desks : HistoryStep(u)

HistorySpec == HistoryInit /\ [][HistoryNext]_<<vars, history>>

-----------------------------------------------------------------------------
(* Properties *)

\* What the ticks of the filter mean to a reader of standing s: the table beside
\* UnassignedMode from the team scope on, one's own leads below it.
Meant(u, s, q, owner) ==
  IF s.scope = "none" THEN owner = u
  ELSE IF owner = None THEN s.unassigned /\ (q.who = {} \/ Unassigned \in q.who)
  ELSE q.who \subseteq (IF s.unassigned THEN {} ELSE {Unassigned}) \/ owner \in q.who

AnsweredIn(u) == IF Closed \in {report[u], report'[u]} THEN {} ELSE report[u].flight \ report'[u].flight

\* A report shows the leads its reader asked for, by assignee and, where a branch
\* asked for is still covered, by branch, and the reader may see: no ticks left
\* over from another branch or another role show more (listLeadsHistory).
SaysWhatWasAsked ==
  [][\A u \in Desks : \A q \in AnsweredIn(u) :
       report'[u].rows # report[u].rows => \A row \in report'[u].rows :
         /\ Meant(u, standing[u], q, row.owner)
         /\ standing[u].scope # "none" /\ q.orgs \cap MyOrgs(u) # {} => OrgOf[row.lead] \in q.orgs]_<<vars, history>>

\* "An empty intersection is a real answer - do not fall back to full coverage"
\* (assignments.service.ts).  The list it makes is empty, and an empty list restricts nothing.
EmptyIsAnAnswer ==
  [][\A u \in Desks : \A q \in AnsweredIn(u) :
       \A row \in report'[u].rows \ report[u].rows :
         standing[u].scope = "org" /\ q.orgs # {} => OrgOf[row.lead] \in q.orgs]_<<vars, history>>

\* Who has no filter by name is not about to get one.
NamesAreForReaders == \A u \in Desks : report[u] # Closed /\ report[u].as.scope = "none" => ~report[u].offering

\* The inductive invariant.
IInv == ReportTypeOK /\ FormsHold /\ ReachChecked /\ TargetChecked /\ NamesAreForReaders
=============================================================================
