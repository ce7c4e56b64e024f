------------------------- MODULE LeadsHistoryProofs -------------------------
(***************************************************************************)
(* AssignDesk and LeadsHistory: types, what a request has found out while  *)
(* memberships come and go, and what a report shows.                       *)
(*                                                                         *)
(* A step of a page only replaces the desk of its person (Browse), a step  *)
(* of a request its call and what ended meanwhile; what the others do is   *)
(* the one thing that touches all requests at once.                        *)
(***************************************************************************)
EXTENDS LeadsHistory, TLAPS

-----------------------------------------------------------------------------
(* The pages *)

GoodDesk(d) ==
  /\ d \in Desk
  /\ d.form = "bulk" => d.ticked # {}
  /\ d.form = "edit" => d.of \in Leads

GoodDesks == \A u \in Desks : GoodDesk(desk[u])

LEMMA DeskFacts == TypeOK /\ FormsHold => GoodDesks
  BY DEF TypeOK, FormsHold, GoodDesks, GoodDesk

\* A desk that is replaced by a good one keeps types and forms.
LEMMA DeskSet ==
  ASSUME TypeOK, FormsHold, NEW u \in Desks, NEW d, GoodDesk(d), SetDesk(u, d)
  PROVE  desk' \in [Desks -> Desk] /\ FormsHold' /\ \A v \in Desks \ {u} : desk'[v] = desk[v]
<1>1. desk' = [desk EXCEPT ![u] = d] /\ desk \in [Desks -> Desk] /\ d \in Desk
  BY DEF SetDesk, TypeOK, GoodDesk
<1>2. desk' \in [Desks -> Desk] /\ \A v \in Desks : desk'[v] = IF v = u THEN d ELSE desk[v]
  BY <1>1
<1>3. FormsHold'
  BY <1>2, DeskFacts DEF FormsHold, GoodDesks, GoodDesk
<1> QED
  BY <1>2, <1>3

LEMMA NewDeskGood == GoodDesk(NewDesk)
  BY DEF NewDesk, GoodDesk, Desk

LEMMA NoFormGood ==
  ASSUME NEW d \in Desk
  PROVE  GoodDesk(NoForm(d)) /\ NoForm(d).form = "none" /\ NoForm(d).ticked = d.ticked
  BY DEF NoForm, GoodDesk, Desk

LEMMA ReloadGood ==
  ASSUME NEW d \in Desk, d.form = "none"
  PROVE  GoodDesk(Reload(d))
  BY DEF Reload, GoodDesk, Desk

\* Whatever a person does on a page leaves a desk of the right shape.
LEMMA PageGood ==
  ASSUME TypeOK, FormsHold, NEW u \in Desks, PageStep(u)
  PROVE  \E d : GoodDesk(d) /\ Browse(u, d)
<1> DEFINE d == desk[u]
<1>1. GoodDesk(d) /\ d \in Desk
  BY DeskFacts DEF GoodDesks, GoodDesk
<1> HIDE DEF d
<1>2. ASSUME NEW o \in Orgs, ChooseBranch(u, o) PROVE \E e : GoodDesk(e) /\ Browse(u, e)
  <2>1. [d EXCEPT !.branch = o] \in Desk /\ [d EXCEPT !.branch = o].form = d.form
    BY <1>1 DEF Desk
  <2> QED
    BY <1>2, <2>1, ReloadGood DEF ChooseBranch, d
<1>3. CASE RowsArrive(u)
  <2>1. GoodDesk([d EXCEPT !.list = "shown", !.rows = ListedIn(u, d.branch)])
    BY <1>1 DEF GoodDesk, Desk, ListedIn
  <2> QED
    BY <1>3, <2>1 DEF RowsArrive, d
<1>4. CASE RowsFail(u)
  <2>1. GoodDesk([d EXCEPT !.list = "failed", !.rows = {}])
    BY <1>1 DEF GoodDesk, Desk
  <2> QED
    BY <1>4, <2>1 DEF RowsFail, d
<1>5. CASE Retry(u)
  BY <1>1, <1>5, ReloadGood DEF Retry, d
<1>6. ASSUME NEW S \in SUBSET Leads, Tick(u, S) PROVE \E e : GoodDesk(e) /\ Browse(u, e)
  <2>1. d.form = "none" /\ (IF S \subseteq d.ticked THEN d.ticked \ S ELSE d.ticked \cup S) \in SUBSET Leads
    BY <1>1, <1>6 DEF Tick, Desk, d
  <2>2. GoodDesk([d EXCEPT !.ticked = IF S \subseteq @ THEN @ \ S ELSE @ \cup S])
    BY <1>1, <2>1 DEF GoodDesk, Desk
  <2> QED
    BY <1>6, <2>2 DEF Tick, d
<1>7. CASE OpenBulk(u)
  <2>1. d.ticked # {}
    BY <1>7 DEF OpenBulk, d
  <2>2. NoForm(d) \in Desk /\ NoForm(d).ticked # {}
    BY <1>1, <2>1, NoFormGood DEF GoodDesk
  <2>3. GoodDesk([NoForm(d) EXCEPT !.form = "bulk"])
    BY <2>2 DEF GoodDesk, Desk
  <2> QED
    BY <1>7, <2>3 DEF OpenBulk, d
<1>8. ASSUME NEW l \in Leads, OpenEdit(u, l) PROVE \E e : GoodDesk(e) /\ Browse(u, e)
  <2>1. NoForm(d) \in Desk /\ lead[l].owner \in People \cup {None}
    BY <1>1, NoFormGood DEF GoodDesk, TypeOK, Lead
  <2>2. GoodDesk([NoForm(d) EXCEPT !.form = "edit", !.of = l, !.was = lead[l].owner])
    BY <2>1 DEF GoodDesk, Desk
  <2> QED
    BY <1>8, <2>2 DEF OpenEdit, d
<1>9. CASE Close(u)
  BY <1>1, <1>9, NoFormGood DEF Close, d
<1>10. CASE CandidatesArrive(u)
  <2> DEFINE who == Assignable(u, FormBranch(d))
             e == [d EXCEPT !.listed = TRUE, !.offered = who, !.pick = IF d.was \in who THEN d.was ELSE @]
  <2>1. who \subseteq People
    BY DEF Assignable
  <2> HIDE DEF who
  <2>2. (IF d.was \in who THEN d.was ELSE d.pick) \in People \cup {None}
    BY <1>1, <2>1 DEF Desk
  <2>3. GoodDesk(e)
    BY <1>1, <2>1, <2>2 DEF GoodDesk, Desk
  <2>4. Browse(u, e)
    BY <1>10 DEF CandidatesArrive, d, who
  <2> QED
    BY <2>3, <2>4
<1>11. CASE CandidatesFail(u)
  <2>1. GoodDesk([d EXCEPT !.listed = TRUE])
    BY <1>1 DEF GoodDesk, Desk
  <2> QED
    BY <1>11, <2>1 DEF CandidatesFail, d
<1>12. ASSUME NEW p \in People, Pick(u, p) PROVE \E e : GoodDesk(e) /\ Browse(u, e)
  <2>1. GoodDesk([d EXCEPT !.pick = p])
    BY <1>1 DEF GoodDesk, Desk
  <2> QED
    BY <1>12, <2>1 DEF Pick, d
<1> QED
  BY <1>2, <1>3, <1>4, <1>5, <1>6, <1>7, <1>8, <1>9, <1>10, <1>11, <1>12 DEF PageStep

-----------------------------------------------------------------------------
(* The requests *)

GoodCall(c) ==
  /\ c \in Call
  /\ c.leads # {} /\ (c.kind = "unassign" <=> c.to = None)
  /\ c.kind # "bulk" => \E l \in Leads : c.leads = {l}
  /\ c.pc # "find" => c.org \in Orgs /\ \A l \in c.leads : OrgOf[l] = c.org

GoodCalls == \A u \in Desks : call[u] = Idle \/ GoodCall(call[u])

\* What the request of u has found out, if it is still so.
Fine(u) ==
  call[u] # Idle =>
    /\ call[u].pc \in {"target", "write"} => MayWriteIn(u, call[u].org) \/ <<u, call[u].org>> \in left[u]
    /\ call[u].pc = "write" /\ call[u].to # None => <<call[u].to, call[u].org>> \in member \cup left[u]

DInv == TypeOK /\ FormsHold /\ ReachChecked /\ TargetChecked

LEMMA CallFacts == DInv => GoodCalls /\ GoodDesks /\ \A u \in Desks : Fine(u)
  BY DeskFacts DEF DInv, TypeOK, GoodCalls, GoodCall, Fine, ReachChecked, TargetChecked

\* The invariant after a step, put together again.
LEMMA DInvFrom ==
  ASSUME lead' \in [Leads -> Lead], member' \in Members, desk' \in [Desks -> Desk], FormsHold',
         call' \in [Desks -> Call \cup {Idle}], GoodCalls',
         left' \in [Desks -> Members], calls' \in 0 .. MaxCalls, edits' \in 0 .. MaxEdits,
         \A u \in Desks : Fine(u)'
  PROVE  DInv'
  BY DEF DInv, TypeOK, GoodCalls, GoodCall, Fine, ReachChecked, TargetChecked

\* A request nothing happens to is as fine as before.
LEMMA StillFine ==
  ASSUME NEW v \in Desks, Fine(v), call'[v] = call[v], left'[v] = left[v], UNCHANGED member
  PROVE  Fine(v)'
  BY DEF Fine, MayWriteIn, Covered

\* Replacing the call of u, and what ended meanwhile.
LEMMA CallSet ==
  ASSUME DInv, NEW u \in Desks, NEW c, c = Idle \/ GoodCall(c), NEW L \in Members,
         call' = [call EXCEPT ![u] = c], left' = [left EXCEPT ![u] = L]
  PROVE  /\ call' \in [Desks -> Call \cup {Idle}] /\ GoodCalls'
         /\ left' \in [Desks -> Members]
         /\ call'[u] = c /\ left'[u] = L
         /\ UNCHANGED member /\ Fine(u)' => \A v \in Desks : Fine(v)'
<1>1. call \in [Desks -> Call \cup {Idle}] /\ left \in [Desks -> Members] /\ c \in Call \cup {Idle}
  BY DEF DInv, TypeOK, GoodCall
<1>2. \A v \in Desks : /\ call'[v] = IF v = u THEN c ELSE call[v]
                       /\ left'[v] = IF v = u THEN L ELSE left[v]
  BY <1>1
<1>3. call' \in [Desks -> Call \cup {Idle}] /\ left' \in [Desks -> Members]
  BY <1>1
<1>4. GoodCalls'
  <2> SUFFICES ASSUME NEW v \in Desks PROVE call'[v] = Idle \/ GoodCall(call'[v])
    BY DEF GoodCalls, GoodCall, Idle, Call
  <2> QED
    BY <1>2, CallFacts DEF GoodCalls
<1>5. ASSUME UNCHANGED member, Fine(u)', NEW v \in Desks PROVE Fine(v)'
  BY <1>2, <1>5, StillFine, CallFacts
<1> QED
  BY <1>2, <1>3, <1>4, <1>5

LEMMA NoMembers == {} \in Members
  BY DEF Members

LEMMA PageKeeps ==
  ASSUME DInv, NEW u \in Desks, PageStep(u)
  PROVE  DInv' /\ UNCHANGED <<lead, call>>
<1>1. PICK d : GoodDesk(d) /\ Browse(u, d)
  BY PageGood DEF DInv
<1>2. desk' \in [Desks -> Desk] /\ FormsHold' /\ UNCHANGED <<lead, member, edits, call, left, calls>>
  BY <1>1, DeskSet DEF Browse, db, DInv
<1>3. GoodCalls' /\ \A v \in Desks : Fine(v)'
  BY <1>2, CallFacts, StillFine DEF GoodCalls
<1> QED
  BY <1>2, <1>3, DInvFrom DEF DInv, TypeOK

\* A request starts with nothing found out.
LEMMA AskKeeps ==
  ASSUME DInv, NEW u \in Desks, AskStep(u)
  PROVE  DInv' /\ UNCHANGED lead
<1>1. ASSUME NEW kind \in Kinds, NEW S \in SUBSET Leads, NEW p \in People \cup {None}, Ask(u, kind, S, p),
             S # {}, kind = "unassign" <=> p = None, kind # "bulk" => \E l \in Leads : S = {l}
      PROVE  DInv' /\ UNCHANGED lead
  <2> DEFINE c == [kind |-> kind, leads |-> S, to |-> p, pc |-> "find", org |-> None]
  <2>1. GoodCall(c) /\ c.pc = "find"
    BY <1>1 DEF GoodCall, Call
  <2>2. /\ call' = [call EXCEPT ![u] = c] /\ left' = [left EXCEPT ![u] = {}]
        /\ UNCHANGED <<lead, member, edits, desk>> /\ calls' \in 0 .. MaxCalls
    BY <1>1, DeskAssumption DEF Ask, db, DInv, TypeOK
  <2> HIDE DEF c
  <2>3. /\ call' \in [Desks -> Call \cup {Idle}] /\ GoodCalls' /\ left' \in [Desks -> Members] /\ call'[u] = c
        /\ Fine(u)' => \A v \in Desks : Fine(v)'
    BY <2>1, <2>2, CallSet, NoMembers
  <2>4. Fine(u)'
    BY <2>1, <2>3 DEF Fine
  <2>5. FormsHold'
    BY <2>2 DEF FormsHold, DInv
  <2> QED
    BY <2>2, <2>3, <2>4, <2>5, DInvFrom DEF DInv, TypeOK
<1>2. /\ GoodDesk(desk[u]) /\ desk[u].ticked \in SUBSET Leads /\ desk[u].pick \in People \cup {None}
      /\ None \notin People /\ {"create", "reassign", "unassign", "bulk"} = Kinds
  BY CallFacts, DeskAssumption DEF GoodDesks, GoodDesk, Desk, Kinds
<1>3. CASE SubmitBulk(u)
  BY <1>1, <1>2, <1>3 DEF SubmitBulk, GoodDesk
<1>4. CASE SubmitEdit(u)
  <2>1. desk[u].of \in Leads /\ Ask(u, "reassign", {desk[u].of}, desk[u].pick) /\ desk[u].pick # None
    BY <1>2, <1>4 DEF SubmitEdit, GoodDesk
  <2> QED
    BY <1>1, <1>2, <2>1
<1>5. CASE Unassign(u)
  <2>1. desk[u].of \in Leads /\ Ask(u, "unassign", {desk[u].of}, None)
    BY <1>2, <1>5 DEF Unassign, GoodDesk
  <2> QED
    BY <1>1, <1>2, <2>1
<1>6. ASSUME NEW l \in Leads, NEW p \in People, ApiCreate(u, l, p) PROVE DInv' /\ UNCHANGED lead
  <2>1. Ask(u, "create", {l}, p)
    BY <1>6 DEF ApiCreate
  <2> QED
    BY <1>1, <1>2, <2>1
<1> QED
  BY <1>3, <1>4, <1>5, <1>6 DEF AskStep

LEMMA RefuseKeeps ==
  ASSUME DInv, NEW u \in Desks, Refuse(u)
  PROVE  DInv' /\ UNCHANGED lead
<1>1. /\ call' = [call EXCEPT ![u] = Idle] /\ left' = [left EXCEPT ![u] = {}]
      /\ UNCHANGED <<lead, member, edits, desk, calls>>
  BY DEF Refuse, db
<1>2. /\ call' \in [Desks -> Call \cup {Idle}] /\ GoodCalls' /\ left' \in [Desks -> Members] /\ call'[u] = Idle
      /\ Fine(u)' => \A v \in Desks : Fine(v)'
  BY <1>1, CallSet, NoMembers
<1>3. Fine(u)' /\ FormsHold'
  BY <1>1, <1>2 DEF Fine, FormsHold, DInv
<1> QED
  BY <1>1, <1>2, <1>3, DInvFrom DEF DInv, TypeOK

\* A request goes on with what the step has just found out.
LEMMA ProceedKeeps ==
  ASSUME DInv, NEW u \in Desks, NEW c, GoodCall(c), Proceed(u, c),
         c.pc \in {"target", "write"} => MayWriteIn(u, c.org) \/ <<u, c.org>> \in left[u],
         c.pc = "write" /\ c.to # None => <<c.to, c.org>> \in member \cup left[u]
  PROVE  DInv' /\ UNCHANGED lead
<1>1. left[u] \in Members /\ left' = [left EXCEPT ![u] = left[u]]
  BY DEF Proceed, DInv, TypeOK
<1>2. call' = [call EXCEPT ![u] = c] /\ UNCHANGED <<lead, member, edits, desk, left, calls>>
  BY DEF Proceed, db
<1>3. /\ call' \in [Desks -> Call \cup {Idle}] /\ GoodCalls' /\ left' \in [Desks -> Members] /\ call'[u] = c
      /\ Fine(u)' => \A v \in Desks : Fine(v)'
  BY <1>1, <1>2, CallSet
<1>4. Fine(u)' /\ FormsHold'
  BY <1>2, <1>3 DEF Fine, FormsHold, DInv, MayWriteIn, Covered
<1> QED
  BY <1>2, <1>3, <1>4, DInvFrom DEF DInv, TypeOK

LEMMA FindKeeps ==
  ASSUME DInv, NEW u \in Desks, FindLeads(u)
  PROVE  DInv' /\ UNCHANGED lead
<1> DEFINE c == call[u]
<1>1. GoodCall(c) /\ c.pc = "find"
  BY CallFacts DEF GoodCalls, FindLeads
<1>2. ASSUME NEW l \in c.leads, Proceed(u, [c EXCEPT !.pc = "reach", !.org = OrgOf[l]]), Found(c)
      PROVE  DInv' /\ UNCHANGED lead
  <2>1. l \in Leads /\ OrgOf[l] \in Orgs
    BY <1>1, <1>2, DeskAssumption DEF GoodCall, Call
  <2>2. \A k \in c.leads : OrgOf[k] = OrgOf[l]
    <3>1. CASE c.kind = "bulk"
      BY <1>2, <3>1 DEF Found
    <3>2. CASE c.kind # "bulk"
      BY <1>1, <1>2, <3>2 DEF GoodCall
    <3> QED
      BY <3>1, <3>2
  <2> HIDE DEF c
  <2>3. GoodCall([c EXCEPT !.pc = "reach", !.org = OrgOf[l]])
    BY <1>1, <2>1, <2>2 DEF GoodCall, Call
  <2>4. [c EXCEPT !.pc = "reach", !.org = OrgOf[l]].pc = "reach"
    BY <1>1 DEF GoodCall, Call
  <2> QED
    BY <1>2, <2>3, <2>4, ProceedKeeps
<1> QED
  BY <1>2, RefuseKeeps DEF FindLeads

LEMMA ReachKeeps ==
  ASSUME DInv, NEW u \in Desks, CheckReach(u)
  PROVE  DInv' /\ UNCHANGED lead
<1> DEFINE c == call[u]
           next == IF c.kind = "unassign" THEN "write" ELSE "target"
<1>1. GoodCall(c) /\ c.pc = "reach"
  BY CallFacts DEF GoodCalls, CheckReach
<1>2. ASSUME Proceed(u, [c EXCEPT !.pc = next]), MayWriteIn(u, c.org)
      PROVE  DInv' /\ UNCHANGED lead
  <2> HIDE DEF c
  <2>1. next \in {"target", "write"} /\ (next = "write" => c.to = None)
    BY <1>1 DEF GoodCall
  <2> HIDE DEF next
  <2>2. GoodCall([c EXCEPT !.pc = next])
    BY <1>1, <2>1 DEF GoodCall, Call
  <2>3. [c EXCEPT !.pc = next].pc = next /\ [c EXCEPT !.pc = next].org = c.org /\ [c EXCEPT !.pc = next].to = c.to
    BY <1>1 DEF GoodCall, Call
  <2> QED
    BY <1>2, <2>1, <2>2, <2>3, ProceedKeeps
<1> QED
  BY <1>2, RefuseKeeps DEF CheckReach

LEMMA TargetKeeps ==
  ASSUME DInv, NEW u \in Desks, CheckTarget(u)
  PROVE  DInv' /\ UNCHANGED lead
<1> DEFINE c == call[u]
<1>1. GoodCall(c) /\ c.pc = "target" /\ (MayWriteIn(u, c.org) \/ <<u, c.org>> \in left[u])
  BY CallFacts DEF GoodCalls, CheckTarget, Fine
<1>2. ASSUME Proceed(u, [c EXCEPT !.pc = "write"]), IsMemberOf(u, c.to, c.org)
      PROVE  DInv' /\ UNCHANGED lead
  <2>1. <<c.to, c.org>> \in member
    BY <1>2 DEF IsMemberOf
  <2> HIDE DEF c
  <2>2. GoodCall([c EXCEPT !.pc = "write"])
    BY <1>1 DEF GoodCall, Call
  <2>3. /\ [c EXCEPT !.pc = "write"].pc = "write" /\ [c EXCEPT !.pc = "write"].org = c.org
        /\ [c EXCEPT !.pc = "write"].to = c.to
    BY <1>1 DEF GoodCall, Call
  <2> QED
    BY <1>1, <1>2, <2>1, <2>2, <2>3, ProceedKeeps
<1> QED
  BY <1>2, RefuseKeeps DEF CheckTarget

\* The write: only the owners of what it matches change.
LEMMA WriteKeeps ==
  ASSUME DInv, NEW u \in Desks, NEW heard \in BOOLEAN, WriteLeads(u, heard)
  PROVE  DInv'
<1>1. GoodCall(call[u]) /\ call[u].to \in People \cup {None} /\ GoodDesk(desk[u]) /\ desk[u] \in Desk
  BY CallFacts DEF GoodCalls, GoodDesks, GoodDesk, GoodCall, WriteLeads, Call
<1>2. lead' \in [Leads -> Lead]
  <2>1. \A l \in Leads : [lead[l] EXCEPT !.owner = call[u].to] \in Lead
    BY <1>1 DEF DInv, TypeOK, Lead
  <2>2. \A l \in Leads : (IF l \in Matched(call[u]) THEN [lead[l] EXCEPT !.owner = call[u].to] ELSE lead[l]) \in Lead
    BY <2>1 DEF DInv, TypeOK
  <2> QED
    BY <2>2 DEF WriteLeads
<1>3. /\ call' = [call EXCEPT ![u] = Idle] /\ left' = [left EXCEPT ![u] = {}]
      /\ UNCHANGED <<member, edits, calls>>
  BY DEF WriteLeads, Answered
<1>4. /\ call' \in [Desks -> Call \cup {Idle}] /\ GoodCalls' /\ left' \in [Desks -> Members] /\ call'[u] = Idle
      /\ Fine(u)' => \A v \in Desks : Fine(v)'
  BY <1>3, CallSet, NoMembers
<1>5. Fine(u)'
  BY <1>4 DEF Fine
<1>6. PICK d : GoodDesk(d) /\ SetDesk(u, d)
  <2>1. GoodDesk(NoForm(desk[u])) /\ NoForm(desk[u]).form = "none" /\ NoForm(desk[u]) \in Desk
    BY <1>1, NoFormGood DEF GoodDesk
  <2>2. GoodDesk(Reload(NoForm(desk[u])))
    BY <2>1, ReloadGood
  <2> QED
    BY <1>1, <2>1, <2>2 DEF WriteLeads, Answered
<1>7. desk' \in [Desks -> Desk] /\ FormsHold'
  BY <1>6, DeskSet DEF DInv
<1> QED
  BY <1>2, <1>3, <1>4, <1>5, <1>7, DInvFrom DEF DInv, TypeOK

LEMMA ServerKeeps ==
  ASSUME DInv, NEW u \in Desks, ServerStep(u)
  PROVE  DInv'
  BY FindKeeps, ReachKeeps, TargetKeeps, WriteKeeps, RefuseKeeps DEF ServerStep, WriteNothing, RequestFails

-----------------------------------------------------------------------------
(* What others do *)

LEMMA EditKeeps ==
  ASSUME DInv, Edit, lead' \in [Leads -> Lead], member' \in Members, left' \in [Desks -> Members],
         \A v \in Desks : Fine(v)'
  PROVE  DInv' /\ UNCHANGED call
<1>1. UNCHANGED <<desk, call, calls>> /\ edits' \in 0 .. MaxEdits
  BY DeskAssumption DEF Edit, DInv, TypeOK
<1>2. GoodCalls' /\ FormsHold'
  BY <1>1, CallFacts DEF GoodCalls, FormsHold, DInv
<1> QED
  BY <1>1, <1>2, DInvFrom DEF DInv, TypeOK

LEMMA LeadEditKeeps ==
  ASSUME DInv, Edit, lead' \in [Leads -> Lead], UNCHANGED <<member, left>>
  PROVE  DInv' /\ UNCHANGED call
<1>1. \A v \in Desks : Fine(v)'
  BY CallFacts, StillFine DEF Edit
<1> QED
  BY <1>1, EditKeeps DEF DInv, TypeOK

\* A request remembers every membership that ends under it.
LEMMA LeaveKeeps ==
  ASSUME DInv, NEW p \in People, NEW o \in Orgs, Leave(p, o)
  PROVE  DInv' /\ UNCHANGED <<lead, call>>
<1>1. /\ member' = member \ {<<p, o>>} /\ UNCHANGED <<lead, call>>
      /\ left' = [u \in Desks |-> IF call[u] = Idle THEN left[u] ELSE left[u] \cup {<<p, o>>}]
  BY DEF Leave, Edit
<1>2. member' \in Members /\ left' \in [Desks -> Members]
  BY <1>1 DEF DInv, TypeOK, Members
<1>3. ASSUME NEW v \in Desks PROVE Fine(v)'
  <2> SUFFICES ASSUME call[v] # Idle PROVE Fine(v)'
    BY <1>1 DEF Fine
  <2>1. left'[v] = left[v] \cup {<<p, o>>} /\ call'[v] = call[v] /\ Fine(v)
    BY <1>1, CallFacts
  <2>2. ASSUME MayWriteIn(v, call[v].org) PROVE MayWriteIn(v, call[v].org)' \/ <<v, call[v].org>> \in left'[v]
    <3>1. CASE <<v, call[v].org>> = <<p, o>>
      BY <2>1, <3>1
    <3>2. CASE <<v, call[v].org>> # <<p, o>>
      BY <1>1, <2>1, <2>2, <3>2 DEF MayWriteIn, Covered
    <3> QED
      BY <3>1, <3>2
  <2>3. member \cup left[v] \subseteq member' \cup left'[v]
    BY <1>1, <2>1
  <2>4. call[v].pc \in {"target", "write"} => MayWriteIn(v, call[v].org)' \/ <<v, call[v].org>> \in left'[v]
    BY <2>1, <2>2 DEF Fine
  <2>5. call[v].pc = "write" /\ call[v].to # None => <<call[v].to, call[v].org>> \in member' \cup left'[v]
    BY <2>1, <2>3 DEF Fine
  <2> QED
    BY <2>1, <2>4, <2>5 DEF Fine, MayWriteIn
<1> QED
  BY <1>1, <1>2, <1>3, EditKeeps DEF Leave, DInv, TypeOK

\* Whoever joins a branch may write in it, and where he could before.
LEMMA JoinKeeps ==
  ASSUME DInv, NEW p \in People, NEW o \in Orgs, Join(p, o)
  PROVE  DInv' /\ UNCHANGED <<lead, call>>
<1>1. member' = member \cup {<<p, o>>} /\ UNCHANGED <<lead, call, left>>
  BY DEF Join, Edit
<1>2. member' \in Members
  BY <1>1 DEF DInv, TypeOK, Members
<1>3. ASSUME NEW v \in Desks PROVE Fine(v)'
  <2>1. \A b : MayWriteIn(v, b) => MayWriteIn(v, b)'
    BY <1>1 DEF MayWriteIn, Covered
  <2> QED
    BY <1>1, <2>1, CallFacts DEF Fine
<1> QED
  BY <1>1, <1>2, <1>3, EditKeeps DEF Join, DInv, TypeOK

LEMMA OtherKeeps ==
  ASSUME DInv, OtherStep
  PROVE  DInv' /\ UNCHANGED call
<1>1. ASSUME NEW l \in Leads, Delete(l) \/ Supersede(l) PROVE DInv' /\ UNCHANGED call
  <2>1. [lead[l] EXCEPT !.deleted = TRUE] \in Lead /\ [lead[l] EXCEPT !.superseded = TRUE] \in Lead
    BY DEF DInv, TypeOK, Lead
  <2>2. lead' \in [Leads -> Lead]
    BY <1>1, <2>1 DEF Delete, Supersede, DInv, TypeOK
  <2> QED
    BY <1>1, <2>2, LeadEditKeeps DEF Delete, Supersede
<1>2. ASSUME NEW p \in People, NEW q \in People \cup {None}, NEW o \in Orgs, HandOver(p, q, o)
      PROVE  DInv' /\ UNCHANGED call
  <2>1. \A l \in Leads : [lead[l] EXCEPT !.owner = q] \in Lead
    BY DEF DInv, TypeOK, Lead
  <2>2. PICK S : lead' = [l \in Leads |-> IF l \in S THEN [lead[l] EXCEPT !.owner = q] ELSE lead[l]]
    BY <1>2 DEF HandOver
  <2>3. lead' \in [Leads -> Lead]
    BY <2>1, <2>2 DEF DInv, TypeOK
  <2> QED
    BY <1>2, <2>3, LeadEditKeeps DEF HandOver
<1> QED
  BY <1>1, <1>2, LeaveKeeps, JoinKeeps DEF OtherStep

-----------------------------------------------------------------------------
(* Reports *)

Shape(r) ==
  /\ r \in Report
  /\ r.as.scope = "none" => r.offered = {} /\ r.who = {} /\ ~r.offering
  /\ r.orgs \subseteq r.branches

Shapes == \A u \in Desks : report[u] # Closed => Shape(report[u]) /\ desk[u] = NewDesk /\ call[u] = Idle

LEMMA IInvParts == IInv => DInv /\ Shapes /\ standing \in [Desks -> Standing] /\ report \in [Desks -> Report \cup {Closed}]
  BY DEF IInv, DInv, ReportTypeOK, Shapes, Shape, NamesAreForReaders

LEMMA IInvFrom ==
  ASSUME DInv', Shapes', standing' \in [Desks -> Standing], report' \in [Desks -> Report \cup {Closed}]
  PROVE  IInv'
  BY DEF IInv, DInv, ReportTypeOK, Shapes, Shape, NamesAreForReaders

\* A person at the desk has no report open, so the desk's steps leave the reports alone.
LEMMA DeskStepKeeps ==
  ASSUME IInv, DeskStep, UNCHANGED history
  PROVE  IInv'
<1>1. DInv /\ Shapes /\ UNCHANGED <<standing, report>>
  BY IInvParts DEF history
<1>2. ASSUME NEW u \in Desks, report[u] = Closed, PageStep(u) \/ AskStep(u) \/ ServerStep(u)
      PROVE  DInv' /\ \A v \in Desks \ {u} : desk'[v] = desk[v] /\ call'[v] = call[v]
  <2>1. DInv'
    BY <1>1, <1>2, PageKeeps, AskKeeps, ServerKeeps
  <2> QED
    BY <1>1, <1>2, <2>1 DEF PageStep, AskStep, ServerStep, ChooseBranch, RowsArrive, RowsFail, Retry, Tick, OpenBulk,
      Close, CandidatesArrive, CandidatesFail, OpenEdit, Pick, Browse, SetDesk, SubmitBulk, SubmitEdit, Unassign,
      ApiCreate, Ask, FindLeads, CheckReach, CheckTarget, WriteLeads, WriteNothing, RequestFails, Refuse, Proceed,
      Answered, DInv, TypeOK
<1>3. CASE OtherStep
  <2>1. UNCHANGED <<desk, call>>
    BY <1>3 DEF OtherStep, Delete, Supersede, Leave, Join, HandOver, Edit
  <2>2. Shapes'
    BY <1>1, <2>1 DEF Shapes, Shape
  <2> QED
    BY <1>1, <1>3, <2>2, OtherKeeps, IInvParts, IInvFrom
<1>4. ASSUME NEW u \in Desks, report[u] = Closed, PageStep(u) \/ AskStep(u) \/ ServerStep(u)
      PROVE  IInv'
  <2>1. Shapes'
    BY <1>1, <1>2, <1>4 DEF Shapes, Shape
  <2> QED
    BY <1>1, <1>2, <1>4, <2>1, IInvParts, IInvFrom
<1> QED
  BY <1>3, <1>4 DEF DeskStep

\* The steps of a report that leave desk, requests and tables alone, but for the counter.
LEMMA DeskIdle ==
  ASSUME DInv, UNCHANGED <<lead, member, desk, call, left, edits>>, calls' \in 0 .. MaxCalls
  PROVE  DInv'
<1>1. GoodCalls' /\ \A v \in Desks : Fine(v)'
  BY CallFacts, StillFine DEF GoodCalls
<1>2. FormsHold'
  BY DEF DInv, FormsHold
<1> QED
  BY <1>1, <1>2, DInvFrom DEF DInv, TypeOK

LEMMA ReportSet ==
  ASSUME IInv, NEW u \in Desks, NEW r, Shape(r), report' = [report EXCEPT ![u] = r],
         report[u] # Closed, UNCHANGED <<lead, member, desk, call, left, edits, standing>>, calls' \in 0 .. MaxCalls
  PROVE  IInv'
<1>1. DInv /\ Shapes /\ standing \in [Desks -> Standing] /\ report \in [Desks -> Report \cup {Closed}] /\ r \in Report
  BY IInvParts DEF Shape
<1>2. report' \in [Desks -> Report \cup {Closed}] /\ \A v \in Desks : report'[v] = IF v = u THEN r ELSE report[v]
  BY <1>1
<1>3. Shapes'
  <2> SUFFICES ASSUME NEW v \in Desks, report'[v] # Closed
               PROVE  Shape(report'[v]) /\ desk[v] = NewDesk /\ call[v] = Idle
    BY DEF Shapes, Shape
  <2> QED
    BY <1>1, <1>2 DEF Shapes
<1> QED
  BY <1>1, <1>2, <1>3, DeskIdle, IInvFrom

LEMMA TurnKeeps ==
  ASSUME IInv, NEW u \in Desks, NEW r, Shape(r), Turn(u, r)
  PROVE  IInv'
  BY ReportSet DEF Turn, vars, IInv, ReportTypeOK, TypeOK

LEMMA SendKeeps ==
  ASSUME IInv, NEW u \in Desks, NEW r, Shape(r), NEW q \in Query, Send(u, r, q)
  PROVE  IInv'
<1> DEFINE s == [r EXCEPT !.last = q, !.flight = @ \cup {q}, !.busy = TRUE]
<1>1. Shape(s)
  BY DEF Shape, Report
<1>2. calls' \in 0 .. MaxCalls
  BY DeskAssumption DEF Send, IInv, ReportTypeOK, TypeOK
<1>3. report' = [report EXCEPT ![u] = s] /\ report[u] # Closed
      /\ UNCHANGED <<lead, member, desk, call, left, edits, standing>>
  BY DEF Send, db
<1> HIDE DEF s
<1> QED
  BY <1>1, <1>2, <1>3, ReportSet

LEMMA RebranchedShape ==
  ASSUME NEW r, Shape(r), NEW S, S \subseteq r.branches
  PROVE  Shape(Rebranched(r, S)) /\ Rebranched(r, S) \in Report
<1>1. r \in Report /\ S \in SUBSET Orgs /\ r.who \cap {Unassigned} \in SUBSET (People \cup {Unassigned})
  BY DEF Shape, Report
<1>2. CASE S = r.orgs
  BY <1>1, <1>2 DEF Rebranched
<1>3. CASE S # r.orgs
  <2> DEFINE t == [r EXCEPT !.orgs = S, !.who = @ \cap {Unassigned}, !.offering = (r.as.scope # "none")]
  <2>1. t \in Report /\ t.as = r.as /\ t.branches = r.branches /\ t.offered = r.offered
        /\ t.orgs = S /\ t.who = r.who \cap {Unassigned} /\ t.offering = (r.as.scope # "none")
    BY <1>1 DEF Report
  <2>2. Shape(t)
    BY <2>1 DEF Shape
  <2> QED
    BY <1>3, <2>1, <2>2 DEF Rebranched
<1> QED
  BY <1>2, <1>3

LEMMA OpenKeeps ==
  ASSUME IInv, NEW u \in Desks, Open(u)
  PROVE  IInv'
<1>1. DInv /\ Shapes /\ standing \in [Desks -> Standing] /\ report \in [Desks -> Report \cup {Closed}]
  BY IInvParts
<1> DEFINE r == [as |-> standing[u], branches |-> MyOrgs(u), orgs |-> {}, who |-> {},
                 offering |-> standing[u].scope # "none", offered |-> {},
                 last |-> Everything, flight |-> {Everything}, busy |-> TRUE, rows |-> {}]
<1>2. /\ report' = [report EXCEPT ![u] = r] /\ SetDesk(u, NewDesk) /\ call[u] = Idle
      /\ UNCHANGED <<lead, member, edits, call, left, standing>>
  BY DEF Open, db
<1>3. Shape(r)
  <2>1. MyOrgs(u) \in SUBSET Orgs /\ standing[u] \in Standing /\ Everything \in Query
    BY <1>1, DeskAssumption DEF MyOrgs, Covered, Everything, Query
  <2>2. r \in Report
    BY <2>1 DEF Report
  <2> QED
    BY <2>2 DEF Shape
<1>4. r \in Report
  BY <1>3 DEF Shape
<1> HIDE DEF r
<1>5. desk' \in [Desks -> Desk] /\ FormsHold' /\ desk'[u] = NewDesk /\ \A v \in Desks \ {u} : desk'[v] = desk[v]
  BY <1>1, <1>2, DeskSet, NewDeskGood DEF DInv, SetDesk, TypeOK
<1>6. DInv'
  <2>1. GoodCalls' /\ \A v \in Desks : Fine(v)'
    BY <1>1, <1>2, CallFacts, StillFine DEF GoodCalls
  <2>2. calls' \in 0 .. MaxCalls
    BY <1>1, DeskAssumption DEF Open, DInv, TypeOK
  <2> QED
    BY <1>1, <1>2, <1>5, <2>1, <2>2, DInvFrom DEF DInv, TypeOK
<1>7. \A v \in Desks : report'[v] = IF v = u THEN r ELSE report[v]
  BY <1>1, <1>2
<1>8. Shapes'
  <2> SUFFICES ASSUME NEW v \in Desks, report'[v] # Closed
               PROVE  Shape(report'[v]) /\ desk'[v] = NewDesk /\ call[v] = Idle
    BY <1>2 DEF Shapes, Shape
  <2> QED
    BY <1>1, <1>2, <1>3, <1>5, <1>7 DEF Shapes
<1> QED
  BY <1>1, <1>2, <1>4, <1>6, <1>8, IInvFrom

LEMMA CloseKeeps ==
  ASSUME IInv, NEW u \in Desks, CloseReport(u)
  PROVE  IInv'
<1>1. DInv /\ Shapes /\ standing \in [Desks -> Standing] /\ report \in [Desks -> Report \cup {Closed}]
  BY IInvParts
<1>2. report' = [report EXCEPT ![u] = Closed] /\ UNCHANGED <<lead, member, desk, call, left, calls, edits, standing>>
  BY DEF CloseReport, vars
<1>3. DInv'
  BY <1>1, <1>2, DeskIdle DEF DInv, TypeOK
<1>4. Shapes'
  <2> SUFFICES ASSUME NEW v \in Desks, report'[v] # Closed
               PROVE  Shape(report'[v]) /\ desk[v] = NewDesk /\ call[v] = Idle
    BY <1>2 DEF Shapes, Shape
  <2> QED
    BY <1>1, <1>2 DEF Shapes
<1> QED
  BY <1>1, <1>2, <1>3, <1>4, IInvFrom

LEMMA PromoteKeeps ==
  ASSUME IInv, NEW u \in Desks, NEW s \in Standings[u], Promote(u, s)
  PROVE  IInv'
<1>1. DInv /\ Shapes /\ standing \in [Desks -> Standing] /\ report \in [Desks -> Report \cup {Closed}]
  BY IInvParts
<1>2. /\ Edit /\ standing' = [standing EXCEPT ![u] = s] /\ s \in Standing
      /\ UNCHANGED <<lead, member, left, report, desk, call>>
  BY HistoryAssumption DEF Promote, Edit
<1>3. DInv'
  BY <1>1, <1>2, LeadEditKeeps DEF DInv, TypeOK
<1>4. Shapes'
  BY <1>1, <1>2 DEF Shapes, Shape
<1> QED
  BY <1>1, <1>2, <1>3, <1>4, IInvFrom

LEMMA ResultType ==
  ASSUME IInv, NEW u \in Desks, NEW q
  PROVE  Result(u, q) \subseteq Shown
  BY DEF Result, Shown, IInv, ReportTypeOK, TypeOK, Lead

LEMMA HistoryStepKeeps ==
  ASSUME IInv, NEW u \in Desks, HistoryStep(u)
  PROVE  IInv'
<1> DEFINE r == report[u]
<1>1. r # Closed => Shape(r) /\ r \in Report
  BY IInvParts DEF Shapes, Shape
<1> HIDE DEF r
<1>2. ASSUME NEW S \in SUBSET Orgs, PickOrgs(u, S) PROVE IInv'
  BY <1>1, <1>2, RebranchedShape, TurnKeeps DEF PickOrgs, r
<1>3. ASSUME NEW S \in SUBSET (People \cup {Unassigned}), PickWho(u, S) PROVE IInv'
  <2>1. r # Closed /\ r.as.scope # "none"
    BY <1>3 DEF PickWho, r
  <2>2. Shape([r EXCEPT !.who = S])
    BY <1>1, <2>1 DEF Shape, Report
  <2> QED
    BY <1>3, <2>2, TurnKeeps DEF PickWho, r
<1>4. CASE NamesArrive(u)
  <2>1. r # Closed /\ r.offering
    BY <1>4 DEF NamesArrive, r
  <2>2. NamesFor(u, r.orgs) \in SUBSET People
    BY DEF NamesFor
  <2>3. Shape([r EXCEPT !.offering = FALSE, !.offered = NamesFor(u, r.orgs)])
    BY <1>1, <2>1, <2>2 DEF Shape, Report
  <2> QED
    BY <1>4, <2>3, TurnKeeps DEF NamesArrive, r
<1>5. CASE NamesFail(u)
  <2>1. r # Closed
    BY <1>5 DEF NamesFail, r
  <2>2. Shape([r EXCEPT !.offering = FALSE])
    BY <1>1, <2>1 DEF Shape, Report
  <2> QED
    BY <1>5, <2>2, TurnKeeps DEF NamesFail, r
<1>6. CASE Apply(u) \/ Sort(u) \/ GoToPage(u)
  <2>1. r # Closed
    BY <1>6 DEF Apply, Sort, GoToPage, r
  <2>2. Picks(r) \in Query /\ r.last \in Query
    BY <1>1, <2>1 DEF Picks, Report, Query
  <2> QED
    BY <1>1, <1>6, <2>1, <2>2, SendKeeps DEF Apply, Sort, GoToPage, r
<1>7. CASE Reset(u)
  <2>1. r # Closed
    BY <1>7 DEF Reset, r
  <2> DEFINE t == Rebranched(r, {})
  <2>2. Shape(t) /\ t \in Report
    BY <1>1, <2>1, RebranchedShape
  <2>3. Everything \in Query
    BY DEF Everything, Query
  <2> HIDE DEF t
  <2>4. Shape([t EXCEPT !.who = {}])
    BY <2>2 DEF Shape, Report
  <2> QED
    BY <1>7, <2>3, <2>4, SendKeeps DEF Reset, r, t
<1>8. ASSUME r # Closed, NEW q \in r.flight, Arrives(u, q) \/ Fails(u, q) PROVE IInv'
  <2>1. Shape([r EXCEPT !.flight = @ \ {q}, !.busy = FALSE])
    BY <1>1, <1>8 DEF Shape, Report
  <2>2. Shape([r EXCEPT !.flight = @ \ {q}, !.busy = FALSE, !.rows = Result(u, q)])
    BY <1>1, <1>8, ResultType DEF Shape, Report
  <2> QED
    BY <1>8, <2>1, <2>2, TurnKeeps DEF Arrives, Fails, r
<1> QED
  BY <1>2, <1>3, <1>4, <1>5, <1>6, <1>7, <1>8, OpenKeeps, CloseKeeps, PromoteKeeps DEF HistoryStep, r

LEMMA IInvInit == HistoryInit => IInv
<1> SUFFICES ASSUME HistoryInit PROVE IInv
  OBVIOUS
<1>1. /\ lead \in [Leads -> Lead] /\ member \in Members /\ {} \in Members
      /\ call = [u \in Desks |-> Idle] /\ left = [u \in Desks |-> {}] /\ report = [u \in Desks |-> Closed]
      /\ calls \in 0 .. MaxCalls /\ edits \in 0 .. MaxEdits /\ standing \in [Desks -> Standing]
  BY DeskAssumption, HistoryAssumption, NoMembers DEF HistoryInit, Init
<1>2. desk = [u \in Desks |-> NewDesk] /\ NewDesk \in Desk /\ NewDesk.form = "none"
  BY NewDeskGood DEF HistoryInit, Init, GoodDesk, NewDesk
<1> QED
  BY <1>1, <1>2 DEF IInv, ReportTypeOK, TypeOK, FormsHold, ReachChecked, TargetChecked, NamesAreForReaders

LEMMA IInvStep ==
  ASSUME IInv, [HistoryNext]_<<vars, history>>
  PROVE  IInv'
<1>1. CASE UNCHANGED <<vars, history>>
  <2>1. DInv /\ Shapes /\ UNCHANGED <<lead, member, desk, call, left, calls, edits, standing, report>>
    BY <1>1, IInvParts DEF vars, history
  <2>2. DInv'
    BY <2>1, DeskIdle DEF DInv, TypeOK
  <2>3. Shapes'
    BY <2>1 DEF Shapes, Shape
  <2> QED
    BY <2>1, <2>2, <2>3, IInvParts, IInvFrom
<1> QED
  BY <1>1, DeskStepKeeps, HistoryStepKeeps DEF HistoryNext

\* The invariant holds of every reachable state, for any number of people,
\* branches, leads and requests, tenant-wide roles included.
THEOREM Invariance == HistorySpec => []IInv
  BY IInvInit, IInvStep, PTL DEF HistorySpec

\* Desks, requests and reports keep their shape, a request knows of its leads'
\* branch what it has found, and who may not filter by name is offered no names.
THEOREM TypeCorrect == HistorySpec => []ReportTypeOK
<1>1. IInv => ReportTypeOK
  BY DEF IInv
<1> QED
  BY <1>1, Invariance, PTL

-----------------------------------------------------------------------------
(* What a request gives, and what a report shows *)

LEMMA GiveStep ==
  ASSUME IInv, [HistoryNext]_<<vars, history>>, NEW u \in Desks, NEW l \in Leads,
         WriteBy(u), lead'[l].owner # lead[l].owner
  PROVE  /\ lead'[l].owner # None => <<lead'[l].owner, OrgOf[l]>> \in member \cup left[u]
         /\ MayWriteIn(u, OrgOf[l]) \/ <<u, OrgOf[l]>> \in left[u]
<1>1. DInv /\ call[u] # Idle /\ call[u].pc = "write" /\ call'[u] = Idle
  BY IInvParts DEF WriteBy
<1>2. ASSUME HistoryStep(u) PROVE UNCHANGED lead
  BY <1>2 DEF HistoryStep, Open, CloseReport, PickOrgs, PickWho, NamesArrive, NamesFail, Apply, Sort, Reset, GoToPage,
     Arrives, Fails, Turn, Send, Promote, db, vars
<1>3. ~UNCHANGED lead
  OBVIOUS
<1>4. ASSUME NEW v \in Desks, HistoryStep(v) PROVE UNCHANGED lead
  BY <1>4 DEF HistoryStep, Open, CloseReport, PickOrgs, PickWho, NamesArrive, NamesFail, Apply, Sort, Reset, GoToPage,
     Arrives, Fails, Turn, Send, Promote, db, vars
<1>5. ~OtherStep
  BY <1>1, OtherKeeps
<1>6. PICK v \in Desks : PageStep(v) \/ AskStep(v) \/ ServerStep(v)
  BY <1>3, <1>4, <1>5 DEF HistoryNext, DeskStep, vars
<1>7. PICK heard \in BOOLEAN : WriteLeads(v, heard)
  BY <1>1, <1>3, <1>6, PageKeeps, AskKeeps, FindKeeps, ReachKeeps, TargetKeeps, RefuseKeeps
  DEF ServerStep, WriteNothing, RequestFails
<1>8. v = u
  BY <1>1, <1>7 DEF WriteLeads, Answered, DInv, TypeOK
<1>9. l \in Matched(call[u]) /\ lead'[l] = [lead[l] EXCEPT !.owner = call[u].to]
  BY <1>7, <1>8 DEF WriteLeads
<1>10. lead'[l].owner = call[u].to
  BY <1>1, <1>9 DEF DInv, TypeOK, Lead
<1>11. OrgOf[l] = call[u].org
  BY <1>1, <1>9, CallFacts DEF GoodCalls, GoodCall, Matched
<1> QED
  BY <1>1, <1>10, <1>11, CallFacts DEF Fine

\* However memberships, screens and requests interleave, a request gives leads
\* only within reach.
THEOREM StaysWithinReach == HistorySpec => WithinReach
<1>1. IInv /\ [HistoryNext]_<<vars, history>> =>
        [\A u \in Desks, l \in Leads : WriteBy(u) /\ lead'[l].owner # lead[l].owner =>
          /\ lead'[l].owner # None => <<lead'[l].owner, OrgOf[l]>> \in member \cup left[u]
          /\ MayWriteIn(u, OrgOf[l]) \/ <<u, OrgOf[l]>> \in left[u]]_vars
  BY GiveStep
<1> QED
  BY <1>1, Invariance, PTL DEF HistorySpec, WithinReach

\* What a filter means is what the server makes of it.
LEMMA ModesMean ==
  ASSUME NEW u \in Desks, standing[u] \in Standing, NEW q \in Query, NEW owner \in People \cup {None},
         OwnerMatches(UnassignedMode(standing[u], q), Users(u, q), owner)
  PROVE  Meant(u, standing[u], q, owner)
<1> DEFINE s == standing[u]
<1>1. u \in People /\ None \notin People /\ Unassigned \notin People \cup {None} /\ s.unassigned \in BOOLEAN
  BY DeskAssumption, HistoryAssumption DEF Standing
<1>2. CASE s.scope = "none"
  BY <1>1, <1>2 DEF OwnerMatches, UnassignedMode, Users, Meant
<1>3. CASE s.scope # "none" /\ s.unassigned /\ Unassigned \in q.who
  BY <1>1, <1>3 DEF OwnerMatches, UnassignedMode, UnassignedRequested, Users, UserIds, Meant
<1>4. CASE s.scope # "none" /\ ~(s.unassigned /\ Unassigned \in q.who)
  BY <1>1, <1>4 DEF OwnerMatches, UnassignedMode, UnassignedRequested, Users, UserIds, Meant
<1> QED
  BY <1>2, <1>3, <1>4

LEMMA BranchesMean ==
  ASSUME NEW u \in Desks, standing[u] \in Standing, NEW q \in Query, NEW o,
         OrgMatches(OrgIds(u, q), o), standing[u].scope # "none", q.orgs \cap MyOrgs(u) # {}
  PROVE  o \in q.orgs
<1>1. CASE standing[u].scope = "org"
  BY <1>1 DEF OrgMatches, OrgIds, MyOrgs
<1>2. CASE standing[u].scope = "tenant"
  BY <1>2 DEF OrgMatches, OrgIds, MyOrgs
<1> QED
  BY <1>1, <1>2 DEF Standing

\* An answer is taken from those on their way only when it arrives or fails.
LEMMA AnswerStep ==
  ASSUME IInv, [HistoryNext]_<<vars, history>>, NEW u \in Desks, NEW q \in AnsweredIn(u),
         report'[u].rows # report[u].rows
  PROVE  q \in Query /\ report'[u].rows = Result(u, q) /\ UNCHANGED <<standing, member, lead>>
<1>1. report[u] # Closed /\ report'[u] # Closed /\ q \in report[u].flight /\ q \notin report'[u].flight
  BY DEF AnsweredIn
<1>2. report \in [Desks -> Report \cup {Closed}] /\ report[u] \in Report
  BY <1>1, IInvParts
<1>3. ~UNCHANGED report
  BY <1>1
<1>4. ~Open(u) /\ ~CloseReport(u) /\ \A s \in Standings[u] : ~Promote(u, s)
  BY <1>1, <1>2, <1>3 DEF Open, CloseReport, Promote
<1>5. PICK v \in Desks : HistoryStep(v)
  BY <1>3 DEF HistoryNext, history
<1>6. HistoryStep(u)
  BY <1>1, <1>2, <1>5 DEF HistoryStep, Open, CloseReport, PickOrgs, PickWho, NamesArrive, NamesFail, Apply, Sort, Reset,
     GoToPage, Arrives, Fails, Turn, Send, Promote
<1>7. ASSUME NEW r, Turn(u, r), r.flight = report[u].flight PROVE FALSE
  BY <1>1, <1>2, <1>7 DEF Turn
<1>8. ASSUME NEW r \in Report, NEW k, Send(u, r, k), r.flight = report[u].flight PROVE FALSE
  BY <1>1, <1>2, <1>8 DEF Send, Report
<1>9. \A S : Rebranched(report[u], S).flight = report[u].flight
  BY <1>2 DEF Rebranched, Report
<1>10. PICK k \in report[u].flight : Arrives(u, k) \/ Fails(u, k)
  <2>1. ~(\E S \in SUBSET Orgs : PickOrgs(u, S))
    BY <1>7, <1>9 DEF PickOrgs
  <2>2. ~(\E S \in SUBSET (People \cup {Unassigned}) : PickWho(u, S))
    BY <1>2, <1>7 DEF PickWho, Report
  <2>3. ~NamesArrive(u) /\ ~NamesFail(u)
    BY <1>2, <1>7 DEF NamesArrive, NamesFail, Report
  <2>4. ~Apply(u) /\ ~Sort(u) /\ ~GoToPage(u)
    BY <1>2, <1>8 DEF Apply, Sort, GoToPage
  <2>5. ~Reset(u)
    <3> DEFINE t == Rebranched(report[u], {})
    <3>1. t \in Report /\ t.flight = report[u].flight
      BY <1>1, <1>9, IInvParts, RebranchedShape DEF Shapes
    <3> HIDE DEF t
    <3>2. [t EXCEPT !.who = {}] \in Report /\ [t EXCEPT !.who = {}].flight = report[u].flight
      BY <3>1 DEF Report
    <3> QED
      BY <1>8, <3>2 DEF Reset, t
  <2> QED
    BY <1>4, <1>6, <2>1, <2>2, <2>3, <2>4, <2>5 DEF HistoryStep
<1>11. CASE Arrives(u, k)
  <2>1. /\ report'[u] = [report[u] EXCEPT !.flight = @ \ {k}, !.busy = FALSE, !.rows = Result(u, k)]
        /\ UNCHANGED <<standing, member, lead>>
    BY <1>2, <1>11 DEF Arrives, Turn, vars
  <2>2. report'[u].flight = report[u].flight \ {k} /\ report'[u].rows = Result(u, k)
    BY <1>2, <2>1 DEF Report
  <2>3. k = q /\ q \in Query
    BY <1>1, <1>2, <2>2 DEF Report
  <2> QED
    BY <2>1, <2>2, <2>3
<1>12. CASE Fails(u, k)
  BY <1>2, <1>12 DEF Fails, Turn, Report
<1> QED
  BY <1>10, <1>11, <1>12

\* A report shows what was asked and may be seen, whatever was ticked before.
THEOREM ReportsSayWhatWasAsked == HistorySpec => SaysWhatWasAsked
<1>1. ASSUME IInv, [HistoryNext]_<<vars, history>>
      PROVE  \A u \in Desks : \A q \in AnsweredIn(u) :
               report'[u].rows # report[u].rows => \A row \in report'[u].rows :
                 /\ Meant(u, standing[u], q, row.owner)
                 /\ standing[u].scope # "none" /\ q.orgs \cap MyOrgs(u) # {} => OrgOf[row.lead] \in q.orgs
  <2> SUFFICES ASSUME NEW u \in Desks, NEW q \in AnsweredIn(u), report'[u].rows # report[u].rows,
                      NEW row \in report'[u].rows
               PROVE  /\ Meant(u, standing[u], q, row.owner)
                      /\ standing[u].scope # "none" /\ q.orgs \cap MyOrgs(u) # {} => OrgOf[row.lead] \in q.orgs
    OBVIOUS
  <2>1. row \in Result(u, q) /\ q \in Query /\ standing[u] \in Standing
    BY <1>1, AnswerStep, IInvParts
  <2>2. PICK l \in Leads : /\ row = [lead |-> l, owner |-> lead[l].owner]
                           /\ OwnerMatches(UnassignedMode(standing[u], q), Users(u, q), lead[l].owner)
                           /\ OrgMatches(OrgIds(u, q), OrgOf[l])
    BY <2>1 DEF Result
  <2>3. lead[l].owner \in People \cup {None} /\ row.owner = lead[l].owner /\ row.lead = l
    BY <1>1, <2>2 DEF IInv, ReportTypeOK, TypeOK, Lead
  <2> QED
    BY <2>1, <2>2, <2>3, ModesMean, BranchesMean
<1> QED
  BY <1>1, Invariance, PTL DEF HistorySpec, SaysWhatWasAsked
=============================================================================
