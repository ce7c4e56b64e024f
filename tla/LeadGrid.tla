------------------------------ MODULE LeadGrid ------------------------------
(***************************************************************************)
(* The web application's lead grid and its Edit Lead dialog, against a     *)
(* database that other users change meanwhile.                             *)
(*                                                                         *)
(* useLeads keeps a copy of the rows the server lists.  It asks for the    *)
(* list again when the filter changes, when an event tells of a change by  *)
(* somebody else, when a save has ended, and when the server refused a     *)
(* stage it already shows; nothing ties an answer to the request that is   *)
(* newest.  LeadEditModal works on the row it was opened with, and a press *)
(* of Save is one to three requests, each with a follow-up and a version   *)
(* or without.                                                             *)
(*                                                                         *)
(* Abstractions.  One tab.  A filter is the set of leads it admits.  The   *)
(* user's choices in the dialog are made at the press of Save.  Catalogue, *)
(* pages, totals and wording are left out; required fields are filled in,  *)
(* and the server refuses a write for its version, for a deleted lead, or  *)
(* because it never arrived (LeadLifecycle has its other reasons).         *)
(***************************************************************************)
EXTENDS Integers, Sequences, FiniteSets, SequencesExt

CONSTANTS
  Leads, Stages,
  Needs,                  \* stages that require a follow-up
  Rejected,               \* stages that reject the lead
  Me, Others, None,       \* the user of this tab, the other users, nobody
  Filters,
  Starts,                 \* a viewer and the leads to start with
  TheirEdits,             \* stage and owner another user may give a lead
  MaxEdits, MaxPresses, MaxPicks, MaxFetches   \* bounds: changes by others, saves, filters picked, lists in flight

Owners == {Me} \cup Others

VARIABLES
  db,         \* lms.marketing_leads; v counts the changes, theirs is the last one by another user
  wire,       \* events on their way to this tab
  viewer,     \* what the user may list, and what the notifications service tells the user
  filter,
  grid,       \* the rows shown
  error,      \* whether the last answer to arrive was an error
  fetches,    \* lists asked for and not yet arrived, in the order they were asked for
  late,       \* history: the answer shown was overtaken by a newer one
  heard,      \* history: the version of a lead this tab asked for the list on account of
  editor,     \* the dialog and its save
  made,       \* history: follow-ups this press of Save has created
  edits, presses, picks                \* counters

vars == <<db, wire, viewer, filter, grid, error, fetches, late, heard, editor, made, edits, presses, picks>>

server == <<db, wire, edits>>
tab    == <<viewer, filter, picks, grid, error, fetches, late, heard>>
save   == <<editor, made, presses>>

\* Whether the user lists every lead, and is told of every lead.
Viewer == [sees : BOOLEAN, hears : BOOLEAN]
Row   == [stage : Stages, owner : Owners \cup {None}, v : Nat, theirs : Nat, alive : BOOLEAN]
Shown == [stage : Stages, owner : Owners \cup {None}, v : Nat]
Event == [type : {"updated", "deleted"}, lead : Leads, v : Nat]
View(row) == [stage |-> row.stage, owner |-> row.owner, v |-> row.v]

\* Some of the leads, as they are listed; and a list asked for.
IsGrid(rows) == DOMAIN rows \subseteq Leads /\ rows \in [DOMAIN rows -> Shown]
IsFetch(f) ==
  /\ f \in [of : SUBSET Leads, rows : {f.rows}, read : BOOLEAN, save : BOOLEAN, passed : BOOLEAN]
  /\ IsGrid(f.rows) /\ DOMAIN f.rows \subseteq f.of

Closed == [pc |-> "closed"]
Steps  == {"stage", "outcome", "owner", "due"}
Dialog == [pc : {"open"}, lead : Leads, snap : Shown]
Saving == [pc : Steps \cup {"refused"}, lead : Leads, snap : Shown, stage : Stages, owner : Owners \cup {None},
           outcome : BOOLEAN, due : BOOLEAN, written : BOOLEAN, req : {"sent", "done"}]
Opened(l, snap) == [pc |-> "open", lead |-> l, snap |-> snap]

ASSUME GridAssumption ==
  /\ IsFiniteSet(Leads) /\ Needs \subseteq Stages /\ Rejected \subseteq Stages
  /\ Me \notin Others /\ None \notin Owners
  /\ TheirEdits \subseteq Stages \X Owners
  /\ Filters \subseteq SUBSET Leads
  /\ {MaxEdits, MaxPresses, MaxPicks} \subseteq Nat /\ MaxFetches \in Nat \ {0}
  /\ \A s \in Starts : /\ s[1] \in Viewer /\ s[2] \in [Leads -> Row]
                      /\ \A l \in Leads : s[2][l].theirs <= s[2][l].v

TypeOK ==
  /\ db \in [Leads -> Row] /\ heard \in [Leads -> Nat]
  /\ \A l \in Leads : db[l].theirs <= db[l].v /\ heard[l] <= db[l].v
  /\ wire \in Seq(Event) /\ viewer \in Viewer /\ filter \in Filters
  /\ IsGrid(grid) /\ error \in BOOLEAN /\ late \in BOOLEAN
  /\ fetches \in Seq({fetches[i] : i \in DOMAIN fetches}) /\ \A i \in DOMAIN fetches : IsFetch(fetches[i])
  /\ editor \in {Closed} \cup Dialog \cup Saving
  \* A save has written before its second request.
  /\ editor.pc \in {"stage", "outcome", "due"} => ~editor.written
  \* Only a refused stage waits for the list, and it waits for one list.
  /\ Cardinality({i \in DOMAIN fetches : fetches[i].save}) = (IF editor.pc = "refused" THEN 1 ELSE 0)
  /\ {made, edits, presses, picks} \subseteq Nat

-----------------------------------------------------------------------------
(* leads-service: what it lists, and what is told of a change *)

Visible(l) == db[l].alive /\ (viewer.sees \/ db[l].owner = Me)
Listing(S) == [l \in {k \in S : Visible(k)} |-> View(db[l])]

\* canSeeEvent: everything, or what is assigned to the user.  A deletion names
\* nobody.  NOTIFY and the connection may lose an event: its failure is only logged.
Hears(type, owner) == viewer.hears \/ (type = "updated" /\ owner = Me)
Publish(type, l, row) ==
  \/ /\ Hears(type, row.owner)
     /\ wire' = Append(wire, [type |-> type, lead |-> l, v |-> row.v])
  \/ UNCHANGED wire

ChangeByOther(l, type, row) ==
  /\ edits < MaxEdits /\ db[l].alive
  /\ edits' = edits + 1
  /\ db' = [db EXCEPT ![l] = row]
  /\ Publish(type, l, row)
  /\ UNCHANGED <<tab, save>>

OtherUpdates(l, stage, owner) ==
  /\ <<stage, owner>> # <<db[l].stage, db[l].owner>>
  /\ ChangeByOther(l, "updated", [db[l] EXCEPT !.stage = stage, !.owner = owner, !.v = @ + 1, !.theirs = db[l].v + 1])
OtherDeletes(l) ==
  ChangeByOther(l, "deleted", [db[l] EXCEPT !.alive = FALSE, !.v = @ + 1, !.theirs = db[l].v + 1])

-----------------------------------------------------------------------------
(* useLeads: the list *)

Request(of, forSave) == [of |-> of, rows |-> << >>, read |-> FALSE, save |-> forSave, passed |-> FALSE]
CanAsk == Len(fetches) < MaxFetches
\* fetchData: reads the filter of the moment, and keeps nothing to tell its answer by.
FetchData(requests, of, forSave) == CanAsk /\ fetches' = Append(requests, Request(of, forSave))

\* The server reads the rows some time before the answer arrives.
ListLeads(i) ==
  /\ ~fetches[i].read
  /\ fetches' = [fetches EXCEPT ![i].read = TRUE, ![i].rows = Listing(fetches[i].of)]
  /\ UNCHANGED <<server, viewer, filter, picks, grid, error, late, heard, save>>

\* What arrives, as rows or as an error, is taken whatever has arrived before.
Settled(i) ==
  /\ late' = fetches[i].passed
  /\ fetches' = RemoveAt([j \in DOMAIN fetches |-> [fetches[j] EXCEPT !.passed = @ \/ j < i]], i)
  \* A refused save was waiting for its list.
  /\ editor' = IF fetches[i].save THEN Opened(editor.lead, editor.snap) ELSE editor
  /\ UNCHANGED <<server, viewer, filter, picks, heard, made, presses>>
Listed(i)     == fetches[i].read /\ grid' = fetches[i].rows /\ error' = FALSE /\ Settled(i)
FetchFails(i) == error' = TRUE /\ UNCHANGED grid /\ Settled(i)

\* Another branch, source or type is picked: the effect empties the grid and asks.
ChangeFilter(f) ==
  /\ f # filter /\ picks < MaxPicks
  /\ filter' = f /\ picks' = picks + 1
  /\ grid' = << >>
  /\ FetchData(fetches, f, FALSE)
  /\ UNCHANGED <<server, viewer, error, late, heard, save>>

\* removeLeadById: the row is dropped without asking; what is on its way is not stopped.
RemoveLeadById(l) ==
  /\ grid' = [k \in DOMAIN grid \ {l} |-> grid[k]]
  /\ fetches' = [j \in DOMAIN fetches |-> [fetches[j] EXCEPT !.passed = TRUE]]

\* useRealtimeEvents, for a change by somebody else (one of the user's own is ignored).
OnEvent ==
  /\ wire # << >>
  /\ LET e == Head(wire) IN
       /\ wire' = Tail(wire)
       /\ heard' = [heard EXCEPT ![e.lead] = e.v]
       /\ \/ e.type = "deleted" /\ RemoveLeadById(e.lead)
          \/ e.type = "updated" /\ FetchData(fetches, filter, FALSE) /\ UNCHANGED grid
  /\ UNCHANGED <<db, viewer, filter, picks, error, late, edits, save>>

-----------------------------------------------------------------------------
(* LeadEditModal: what a press of Save will send *)

StatusChanged(e)   == e.stage # e.snap.stage
AssigneeChanged(e) == e.owner # e.snap.owner
FuFieldChanged(e)  == e.stage \in Needs /\ (StatusChanged(e) \/ e.due \/ AssigneeChanged(e))
AnyFieldChanged(e) == StatusChanged(e) \/ AssigneeChanged(e) \/ e.outcome \/ FuFieldChanged(e)
\* A lead nobody has becomes the user's when the user rejects it.
AutoAssign(e)      == StatusChanged(e) /\ e.stage \in Rejected /\ e.snap.owner = None
AssigneeToSet(e)   == IF AutoAssign(e) THEN Me ELSE e.owner

\* The steps in their order; "end" when nothing is left.
DueStep(e, written) == IF FuFieldChanged(e) /\ ~written THEN "due" ELSE "end"
AssigneeStep(e, written) == IF AutoAssign(e) \/ AssigneeChanged(e) THEN "owner" ELSE DueStep(e, written)
FirstStep(e) ==
  IF StatusChanged(e) THEN "stage" ELSE IF e.outcome THEN "outcome" ELSE AssigneeStep(e, FALSE)
StepAfterUnwritten(e) ==
  IF e.pc \in {"stage", "outcome"} THEN AssigneeStep(e, FALSE) ELSE "end"
StepAfter(e) ==
  IF e.pc \in {"stage", "outcome"} THEN AssigneeStep(e, TRUE) ELSE "end"

\* The follow-up rides on the write that comes first, and only on it.
CarriesFollowUpTwice(e) == FuFieldChanged(e)
CarriesFollowUp(e) == FuFieldChanged(e) /\ ~e.written
\* So does the version; a follow-up on its own is created without one.
CarriesToken(e)    == ~e.written /\ e.pc # "due"

Sent(e, pc) == [e EXCEPT !.pc = pc, !.req = "sent"]

OpenEditor(l) ==
  /\ editor = Closed /\ l \in DOMAIN grid
  /\ editor' = Opened(l, grid[l])
  /\ UNCHANGED <<server, tab, made, presses>>

CloseEditor ==
  /\ editor.pc = "open"
  /\ editor' = Closed
  /\ UNCHANGED <<server, tab, made, presses>>

\* updateLead shows the new stage before the server has it.
Optimistic(e) ==
  IF StatusChanged(e) /\ e.lead \in DOMAIN grid
  THEN [grid EXCEPT ![e.lead].stage = e.stage] ELSE grid

HandleSave(stage, owner, outcome, due) ==
  /\ editor.pc = "open" /\ presses < MaxPresses
  \* A new stage begins with no outcome, and with a due time if it needs one.
  /\ outcome \/ due => stage = editor.snap.stage
  /\ due => stage \in Needs
  /\ LET e == [pc |-> "open", lead |-> editor.lead, snap |-> editor.snap, stage |-> stage, owner |-> owner,
               outcome |-> outcome, due |-> due, written |-> FALSE, req |-> "sent"]
     IN  /\ AnyFieldChanged(e)
         /\ editor' = Sent(e, FirstStep(e))
         /\ grid' = Optimistic(e)
  /\ made' = 0 /\ presses' = presses + 1
  /\ UNCHANGED <<server, viewer, filter, picks, error, fetches, late, heard>>

\* The row as the request leaves it.
Written(e, row) ==
  [row EXCEPT !.v = @ + 1,
              !.stage = IF e.pc = "stage" THEN e.stage ELSE @,
              !.owner = IF e.pc = "owner" THEN AssigneeToSet(e) ELSE @]

\* PATCH /leads/:id, or POST /leads/:id/follow-ups: the row is locked, its version
\* compared.  The event of it is one this tab ignores.
ServerWrites ==
  /\ editor.pc \in Steps /\ editor.req = "sent"
  /\ db[editor.lead].alive
  /\ CarriesToken(editor) => db[editor.lead].v = editor.snap.v
  /\ db' = [db EXCEPT ![editor.lead] = Written(editor, @)]
  /\ made' = made + (IF CarriesFollowUp(editor) THEN 1 ELSE 0)
  /\ editor' = [editor EXCEPT !.req = "done"]
  /\ UNCHANGED <<wire, edits, tab, presses>>

\* This tab asks for the list on account of the lead it was saving.
AsksAgain(forSave) ==
  /\ FetchData(fetches, filter, forSave)
  /\ heard' = [heard EXCEPT ![editor.lead] = db[editor.lead].v]
  /\ UNCHANGED <<server, viewer, filter, picks, grid, error, late, made, presses>>

NextRequest ==
  /\ editor.pc \in Steps /\ editor.req = "done" /\ StepAfter(editor) # "end"
  /\ editor' = [Sent(editor, StepAfter(editor)) EXCEPT !.written = TRUE]
  /\ UNCHANGED <<server, tab, made, presses>>

\* onAssignmentChanged, onClose
SaveEnds ==
  /\ editor.pc \in Steps /\ editor.req = "done" /\ StepAfter(editor) = "end"
  /\ editor' = Closed
  /\ AsksAgain(FALSE)

\* A 409, a 404, a request that did not arrive, or whose answer did not.  The
\* dialog stays open; a stage that is shown already is put right by asking for
\* the list, and the dialog is busy until it has come.
BackToDialog == editor' = Opened(editor.lead, editor.snap) /\ UNCHANGED <<server, tab, made, presses>>
StageStays == editor.pc = "stage" /\ BackToDialog
StageFails == editor.pc = "stage" /\ editor' = [editor EXCEPT !.pc = "refused"] /\ AsksAgain(TRUE)
RequestFails == StageFails \/ (editor.pc \in Steps \ {"stage"} /\ BackToDialog)

-----------------------------------------------------------------------------
Init ==
  /\ \E s \in Starts : viewer = s[1] /\ db = s[2]
  /\ wire = << >> /\ edits = 0 /\ presses = 0 /\ picks = 0 /\ made = 0
  /\ filter \in Filters
  /\ grid = << >> /\ error = FALSE /\ late = FALSE
  /\ fetches = <<Request(filter, FALSE)>>
  /\ heard = [l \in Leads |-> db[l].v]
  /\ editor = Closed

ServerNext ==
  \/ \E l \in Leads : OtherDeletes(l) \/ \E e \in TheirEdits : OtherUpdates(l, e[1], e[2])
  \/ \E i \in DOMAIN fetches : ListLeads(i)
  \/ ServerWrites
TabNext ==
  \/ \E i \in DOMAIN fetches : Listed(i) \/ FetchFails(i)
  \/ \E f \in Filters : ChangeFilter(f)
  \/ OnEvent
EditorNext ==
  \/ \E l \in Leads : OpenEditor(l)
  \/ CloseEditor
  \/ \E stage \in Stages, owner \in Owners \cup {None}, outcome, due \in BOOLEAN : HandleSave(stage, owner, outcome, due)
  \/ NextRequest \/ SaveEnds \/ RequestFails
Next == ServerNext \/ TabNext \/ EditorNext

Spec == Init /\ [][Next]_vars

-----------------------------------------------------------------------------
(* Properties *)

\* Nothing is under way in this tab, and what it shows is the newest answer it asked for.
Quiet == fetches = << >> /\ editor.pc \in {"closed", "open"} /\ ~error /\ ~late

\* The rows have the lead as the database has it.
Matches(rows, l) ==
  /\ l \in DOMAIN rows <=> l \in filter /\ Visible(l)
  /\ l \in DOMAIN rows => <<rows[l].stage, rows[l].owner>> = <<db[l].stage, db[l].owner>>

\* A quiet grid shows every lead as the database has it, if the tab was told of
\* the lead's last change or made it in a save that came to its end: events,
\* refused stages, filters and saves all lead to a list read after the change.
InStep == Quiet => \A l \in Leads : heard[l] = db[l].v => Matches(grid, l)

\* A save that ends well has created the follow-up it was to create, once,
\* whichever of its requests came first.
FollowUpOnce ==
  [][editor.pc \in Steps /\ editor' = Closed => made = (IF FuFieldChanged(editor) THEN 1 ELSE 0)]_vars

\* LeadEditModal.tsx:104-106, of the version: "Sent with every write so the
\* server can reject a save that would clobber someone else's concurrent edit".
\* Not so of a save's second request, which may overwrite what another user did
\* between the two; no run lists it, and the README tells how.
NoWriteClobbers ==
  [][editor.pc \in {"stage", "owner"} /\ db' # db /\ edits' = edits =>
       db[editor.lead].theirs <= editor.snap.v]_vars
-----------------------------------------------------------------------------
(* What the steps keep so that these hold *)

\* An event is of a change the database has, and a deletion is for good.
WireIsPast ==
  \A i \in DOMAIN wire : LET e == wire[i] IN
    e.v <= db[e.lead].v /\ (e.type = "deleted" => ~db[e.lead].alive)

\* The follow-up was created by the first request that was carried out.
MadeByFirst ==
  editor.pc \in Steps =>
    /\ editor.pc = "stage" => StatusChanged(editor)
    /\ editor.pc = "due" => FuFieldChanged(editor)
    /\ made = IF FuFieldChanged(editor) /\ (editor.written \/ editor.req = "done") THEN 1 ELSE 0

\* A lead the tab was told of is in the answer that was asked for last, if one is on
\* its way; once none is, it is in the grid, unless that shows an error, an
\* overtaken answer or a stage the server has not answered for.
LastAsked == fetches[Len(fetches)]
LastAnswers ==
  \A l \in Leads : heard[l] = db[l].v =>
    IF fetches # << >>
    THEN LastAsked.passed \/ (LastAsked.of = filter /\ (LastAsked.read => Matches(LastAsked.rows, l)))
    ELSE error \/ late \/ Matches(grid, l) \/ (editor.pc = "stage" /\ editor.req = "sent" /\ editor.lead = l)

\* The inductive invariant.
IInv == TypeOK /\ WireIsPast /\ MadeByFirst /\ LastAnswers
=============================================================================
