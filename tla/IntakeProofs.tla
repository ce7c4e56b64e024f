---------------------------- MODULE IntakeProofs ----------------------------
(***************************************************************************)
(* What comes in and whose it becomes, for every value of the constants.   *)
(*                                                                         *)
(* LeadIngest: type correctness, one chain of leads per phone and branch,  *)
(* no lead of a delivery lost, and links that stay.                        *)
(* LeadRouting: type correctness, that filling never takes a lead from a   *)
(* person, and that a committed fan-out relabelled what it counted.        *)
(***************************************************************************)
EXTENDS LeadIngest, LeadRouting, SequenceTheorems, FiniteSetTheorems, WellFoundedInduction, TLAPS

-----------------------------------------------------------------------------
(* LeadIngest *)

\* What a job has in hand at each of its steps.
JobFits(j) ==
  /\ j.pc # "idle" => j.kind \in {"delivery", "retry", "apply", "public"}
  /\ j.pc \in {"next", "record"} => j.kind = "delivery"
  /\ j.kind = "public" => j.pc \in {"wait", "idle"}
  /\ j.pc \in {"route", "record", "check", "wait", "link", "close"} /\ j.kind # "public" => j.lead \in Leads
  /\ j.pc \in {"check", "wait", "link", "close"} => j.org \in Orgs
  /\ j.pc \in {"link", "close"} => j.id \in LmsIds
  /\ j.pc = "close" => j.kind \in {"retry", "apply"}
JobInv ==
  /\ job \in [Actors -> Job]
  /\ \A a \in Actors : JobFits(job[a]) /\ (job[a].pc = "wait" => intake[a] # None)

\* What an intake has found: the lead it is to supersede has its branch and its
\* phone, though another intake may have superseded it meanwhile.
IntakeFits(r) ==
  /\ r.step = "match" => r.found = None
  /\ r.step = "reply" => r.found \in LmsIds
  /\ r.step = "commit" /\ r.found # None =>
       /\ r.found \in 1 .. Len(lms) /\ r.phone # None
       /\ lms[r.found].org = r.org /\ lms[r.found].phone = r.phone
IntakeInv ==
  /\ intake \in [Actors -> Intake \cup {None}]
  /\ \A a \in Actors : intake[a] # None => IntakeFits(intake[a])

\* OneChain without sets: a lead is active, or points to the next of its chain.
Linked(i) ==
  IF \E j \in i + 1 .. Len(lms) : SamePhone(i, j)
  THEN /\ ~lms[i].active
       /\ lms[i].next \in i + 1 .. Len(lms) /\ SamePhone(i, lms[i].next)
       /\ \A j \in i + 1 .. Len(lms) : SamePhone(i, j) => lms[i].next <= j
  ELSE lms[i].active /\ lms[i].next = None
\* The chain of every lead comes to an end.
EndOf(i, j) == (j = i \/ SamePhone(i, j)) /\ \A k \in j + 1 .. Len(lms) : ~SamePhone(i, k)
ChainInv ==
  /\ lms \in Seq(LmsLead)
  /\ \A i \in 1 .. Len(lms) : Linked(i) /\ \E j \in i .. Len(lms) : EndOf(i, j)

\* Whoever is about to close a row has linked its lead.
LandInv ==
  /\ metaRows \in [Leads -> Ids]
  /\ inbox \in [Leads -> InboxRow \cup {None}]
  /\ closing \subseteq [lead : Leads, id : LmsIds]
  /\ \A a \in Actors : job[a].pc = "close" => metaRows[job[a].lead] # None
  /\ \A c \in closing : metaRows[c.lead] # None
  /\ ResolvedHasLanded

\* A retry is about a row of the inbox.
Retries(j)  == j.pc # "idle" /\ j.kind = "retry"
RetryInv == \A a \in Actors : Retries(job[a]) => inbox[job[a].lead] # None

HandInv == handled \subseteq Leads /\ NothingLost
OwnInv  == routes \in [Forms \cup {None} -> Orgs \cup {None}] /\ started \in 0 .. MaxRequests

IngestInv == OwnInv /\ JobInv /\ IntakeInv /\ ChainInv /\ LandInv /\ HandInv

-----------------------------------------------------------------------------
(* The jobs. *)

LEMMA IdleFits == Idle \in Job /\ JobFits(Idle) /\ Idle.pc = "idle"
  BY DEF Idle, Job, JobFits, Ids

\* One actor has a new job; its intake may change with it.
LEMMA OneJob ==
  ASSUME JobInv, NEW a \in Actors, NEW j \in Job, JobFits(j), Become(a, j),
         j.pc = "wait" => intake'[a] # None,
         \A s \in Actors : s # a => intake'[s] = intake[s]
  PROVE  JobInv' /\ job'[a] = j /\ \A s \in Actors : s # a => job'[s] = job[s]
<1>1. job'[a] = j /\ \A s \in Actors : s # a => job'[s] = job[s]
  BY DEF JobInv, Become
<1>2. job' \in [Actors -> Job]
  BY DEF JobInv, Become
<1>3. \A s \in Actors : JobFits(job'[s]) /\ (job'[s].pc = "wait" => intake'[s] # None)
  BY <1>1 DEF JobInv
<1> QED
  BY <1>1, <1>2, <1>3, Zenon DEF JobInv, JobFits

\* The jobs stay, and nobody who waits loses the intake it waits for.
LEMMA JobsStay ==
  ASSUME JobInv, UNCHANGED job,
         \A a \in Actors : job[a].pc = "wait" => intake'[a] # None
  PROVE  JobInv'
  BY DEF JobInv, JobFits

LEMMA RestFits ==
  ASSUME JobInv, NEW a \in Actors
  PROVE  Rest(a) \in Job /\ JobFits(Rest(a)) /\ Rest(a).pc \in {"idle", "next"}
<1>1. job[a] \in Job
  BY DEF JobInv
<1>2. CASE job[a].kind = "delivery"
  BY <1>1, <1>2 DEF Rest, Idle, Job, JobFits, Ids
<1>3. CASE job[a].kind # "delivery"
  BY <1>3, IdleFits DEF Rest
<1> QED
  BY <1>2, <1>3

\* The lead of a job is one of the leads, unless it came by the public API.
LEMMA LeadInHand ==
  ASSUME JobInv, NEW a \in Actors, job[a].pc \notin {"idle", "next"}, job[a].kind # "public"
  PROVE  job[a].lead \in Leads
  BY DEF JobInv, JobFits, Job

\* What is left when the lead in hand is done with.
LEMMA DoneKeeps ==
  ASSUME JobInv, NEW a \in Actors, DoneWith(a), \A s \in Actors : s # a => intake'[s] = intake[s]
  PROVE  /\ JobInv'
         /\ \A s \in Actors : job'[s].pc = "close" => job[s].pc = "close" /\ job'[s] = job[s]
         /\ handled' \subseteq handled \cup {job[a].lead}
         /\ job[a].kind # "delivery" => handled' = handled
<1>1. Become(a, Rest(a))
  BY DEF DoneWith
<1>2. JobInv' /\ job'[a] = Rest(a) /\ \A s \in Actors : s # a => job'[s] = job[s]
  BY <1>1, RestFits, OneJob
<1> QED
  BY <1>2, RestFits DEF DoneWith

\* A job that fails: a delivery records its lead, any other ends.
LEMMA ThrowKeeps ==
  ASSUME JobInv, NEW a \in Actors, Throw(a), job[a].pc \in {"route", "check", "wait", "link"},
         \A s \in Actors : s # a => intake'[s] = intake[s]
  PROVE  /\ JobInv' /\ handled' = handled
         /\ \A s \in Actors : job'[s].pc = "close" => job[s].pc = "close" /\ job'[s] = job[s]
<1>1. CASE job[a].kind = "delivery"
  <2> DEFINE j == [job[a] EXCEPT !.pc = "record"]
  <2>1. j \in Job /\ JobFits(j) /\ j.pc = "record"
    BY <1>1 DEF JobInv, JobFits, Job
  <2>2. Become(a, j) /\ handled' = handled
    BY <1>1 DEF Throw, Step
  <2>3. JobInv' /\ job'[a] = j /\ \A s \in Actors : s # a => job'[s] = job[s]
    BY <2>1, <2>2, OneJob
  <2> QED
    BY <2>1, <2>2, <2>3
<1>2. CASE job[a].kind # "delivery"
  BY <1>2, DoneKeeps DEF Throw
<1> QED
  BY <1>1, <1>2

-----------------------------------------------------------------------------
(* What a step leaves alone. *)

LEMMA OwnStays ==
  ASSUME OwnInv, UNCHANGED <<routes, started>>
  PROVE  OwnInv'
  BY DEF OwnInv

LEMMA ChainStays ==
  ASSUME ChainInv, UNCHANGED lms
  PROVE  ChainInv'
<1>1. \A i, j : SamePhone(i, j)' <=> SamePhone(i, j)
  BY DEF SamePhone
<1>2. \A i : Linked(i)' <=> Linked(i)
  BY <1>1 DEF Linked
<1>3. \A i, j : EndOf(i, j)' <=> EndOf(i, j)
  BY <1>1 DEF EndOf
<1> QED
  BY <1>2, <1>3 DEF ChainInv

LEMMA IntakeStays ==
  ASSUME IntakeInv, UNCHANGED <<lms, intake>>
  PROVE  IntakeInv'
  BY DEF IntakeInv, IntakeFits

\* One intake changes, and no LMS lead.
LEMMA OneIntake ==
  ASSUME IntakeInv, NEW a \in Actors, NEW r \in Intake \cup {None}, r # None => IntakeFits(r),
         UNCHANGED lms, intake' = [intake EXCEPT ![a] = r]
  PROVE  IntakeInv' /\ intake'[a] = r /\ \A s \in Actors : s # a => intake'[s] = intake[s]
  BY DEF IntakeInv, IntakeFits

LEMMA LandStays ==
  ASSUME LandInv, UNCHANGED <<metaRows, inbox, closing>>,
         \A s \in Actors : job'[s].pc = "close" => job[s].pc = "close" /\ job'[s] = job[s]
  PROVE  LandInv'
  BY DEF LandInv, ResolvedHasLanded

LEMMA HandStays ==
  ASSUME HandInv, UNCHANGED <<metaRows, inbox, handled>>
  PROVE  HandInv'
  BY DEF HandInv, NothingLost

\* A step that only gives an actor a job which closes nothing.
LEMMA MoveKeeps ==
  ASSUME IngestInv, NEW a \in Actors, NEW j \in Job, JobFits(j), Become(a, j), j.pc \notin {"wait", "close"},
         UNCHANGED <<store, intake, closing, handled>>
  PROVE  JobInv' /\ IntakeInv' /\ ChainInv' /\ LandInv' /\ HandInv'
<1> USE DEF IngestInv, store
<1>1. JobInv' /\ job'[a] = j /\ \A s \in Actors : s # a => job'[s] = job[s]
  BY OneJob
<1>2. LandInv'
  BY <1>1, LandStays
<1> QED
  BY <1>1, <1>2, IntakeStays, ChainStays, HandStays

\* A step that ends the work on a lead which is landed, recorded or a test.
LEMMA EndKeeps ==
  ASSUME IngestInv, NEW a \in Actors, DoneWith(a), job[a].pc \notin {"idle", "next"},
         UNCHANGED <<store, intake, closing>>,
         job[a].kind = "delivery" => job[a].lead \in TestLeads
  PROVE  JobInv' /\ IntakeInv' /\ ChainInv' /\ LandInv' /\ HandInv'
<1> USE DEF IngestInv, store
<1>1. JobInv' /\ LandInv'
  BY DoneKeeps, LandStays
<1>2. HandInv'
  BY DoneKeeps, LeadInHand, HandStays DEF HandInv, NothingLost
<1> QED
  BY <1>1, <1>2, IntakeStays, ChainStays

LEMMA FailKeeps ==
  ASSUME IngestInv, NEW a \in Actors, Throw(a), job[a].pc \in {"route", "check", "wait", "link"},
         UNCHANGED <<store, intake, closing>>
  PROVE  JobInv' /\ IntakeInv' /\ ChainInv' /\ LandInv' /\ HandInv'
<1> USE DEF IngestInv, store
<1>1. JobInv' /\ LandInv' /\ handled' = handled
  BY ThrowKeeps, LandStays
<1> QED
  BY <1>1, IntakeStays, ChainStays, HandStays

LEMMA BeginKeeps ==
  ASSUME OwnInv, NEW a, NEW j, Begin(a, j), UNCHANGED routes
  PROVE  OwnInv' /\ job[a].pc = "idle" /\ Become(a, j)
  BY IngestAssumption DEF OwnInv, Begin

-----------------------------------------------------------------------------
(* The webhook. *)

LEMMA RouteInForms ==
  ASSUME OwnInv, NEW l \in Leads, NEW t
  PROVE  RouteOf(l, t) \in Orgs \cup {None}
  BY IngestAssumption DEF OwnInv, RouteOf, InScope

LEMMA StartDeliveryKeeps ==
  ASSUME IngestInv, NEW a \in Actors, NEW batch \in SUBSET Leads, StartDelivery(a, batch)
  PROVE  IngestInv'
<1> USE DEF IngestInv
<1> DEFINE j == [Idle EXCEPT !.pc = "next", !.kind = "delivery", !.todo = batch]
<1>1. j \in Job /\ JobFits(j) /\ j.pc = "next"
  BY DEF Idle, Job, JobFits, Ids
<1>2. OwnInv' /\ Become(a, j)
  BY BeginKeeps DEF StartDelivery, store
<1> QED
  BY <1>1, <1>2, MoveKeeps DEF StartDelivery

LEMMA FetchKeeps ==
  ASSUME IngestInv, NEW a \in Actors, NEW l \in Leads, Fetch(a, l)
  PROVE  IngestInv'
<1> USE DEF IngestInv
<1> PICK got \in BOOLEAN :
      Become(a, [job[a] EXCEPT !.pc = IF got THEN "route" ELSE "record", !.lead = l,
                               !.todo = @ \ {l}, !.data = got, !.tenant = AppTenant])
  BY DEF Fetch
<1> DEFINE j == [job[a] EXCEPT !.pc = IF got THEN "route" ELSE "record", !.lead = l,
                               !.todo = @ \ {l}, !.data = got, !.tenant = AppTenant]
<1>1. j \in Job /\ JobFits(j) /\ j.pc \in {"route", "record"}
  BY IngestAssumption, ZenonT(40) DEF Fetch, JobInv, JobFits, Job
<1>2. OwnInv'
  BY OwnStays DEF Fetch, store
<1> QED
  BY <1>1, <1>2, MoveKeeps DEF Fetch

LEMMA AnswerKeeps ==
  ASSUME IngestInv, NEW a \in Actors, Answer(a)
  PROVE  IngestInv'
<1> USE DEF IngestInv
<1>1. OwnInv'
  BY OwnStays DEF Answer, store
<1> QED
  BY <1>1, IdleFits, MoveKeeps DEF Answer

LEMMA RouteDeliveryKeeps ==
  ASSUME IngestInv, NEW a \in Actors, RouteDelivery(a)
  PROVE  IngestInv'
<1> USE DEF IngestInv
<1> DEFINE l == job[a].lead
<1>1. OwnInv'
  BY OwnStays DEF RouteDelivery, store
<1>2. job[a].pc = "route" /\ job[a].kind = "delivery" /\ UNCHANGED <<store, intake, closing>>
  BY DEF RouteDelivery
<1>3. CASE l \in TestLeads
  <2>1. DoneWith(a)
    BY <1>3 DEF RouteDelivery
  <2> QED
    BY <1>1, <1>2, <1>3, <2>1, EndKeeps
<1>4. CASE l \notin TestLeads
  <2> DEFINE o == RouteOf(l, AppTenant)
             t == IF AppTenant # None \/ o = None THEN AppTenant ELSE TenantOf[o]
             j == [job[a] EXCEPT !.org = o, !.tenant = t,
                     !.pc = IF o = None \/ PhoneOf[l] = None THEN "record" ELSE "check"]
  <2>1. l \in Leads
    BY <1>2, LeadInHand
  <2>2. o \in Orgs \cup {None}
    BY <2>1, RouteInForms
  <2>3. t \in Tenants \cup {None}
    BY <2>2, IngestAssumption
  <2> HIDE DEF o, t, l
  <2>4. j \in Job /\ JobFits(j) /\ j.pc \in {"record", "check"}
    BY ZenonT(60), <1>2, <2>2, <2>3 DEF JobInv, JobFits, Job
  <2>5. Become(a, j) /\ UNCHANGED handled
    BY <1>4 DEF RouteDelivery, o, t, l
  <2> HIDE DEF j
  <2> QED
    BY <1>1, <1>2, <2>4, <2>5, MoveKeeps
<1> QED
  BY <1>3, <1>4

LEMMA RecordInboxKeeps ==
  ASSUME IngestInv, NEW a \in Actors, RecordInbox(a)
  PROVE  IngestInv'
<1> USE DEF IngestInv
<1> DEFINE l   == job[a].lead
           row == RecordedRow(l, job[a].tenant, job[a].data)
<1>1. OwnInv' /\ IntakeInv' /\ ChainInv'
  BY OwnStays, IntakeStays, ChainStays DEF RecordInbox
<1>2. job[a].pc = "record" /\ UNCHANGED <<metaRows, intake, closing>>
  BY DEF RecordInbox
<1>3. l \in Leads /\ job[a] \in Job
  BY <1>2, LeadInHand DEF JobInv, JobFits
<1>4. CASE inbox' = [inbox EXCEPT ![l] = row] /\ DoneWith(a)
  <2>1. row \in InboxRow /\ (row.status = "resolved" => inbox[l] = row)
    <3>1. CASE inbox[l] = None
      BY <1>3, <3>1 DEF RecordedRow, InboxRow, Job, Ids
    <3>2. CASE inbox[l] # None /\ inbox[l].status = "open"
      <4>1. inbox[l] \in InboxRow
        BY <1>3, <3>2 DEF LandInv
      <4>2. job[a].tenant \in Tenants \cup {None} /\ job[a].data \in BOOLEAN
        BY <1>3 DEF Job
      <4>3. (inbox[l].data \/ job[a].data) \in BOOLEAN
        BY <4>1, <4>2 DEF InboxRow
      <4> QED
        BY <3>2, <4>1, <4>2, <4>3 DEF RecordedRow, InboxRow
    <3>3. CASE inbox[l] # None /\ inbox[l].status # "open"
      BY <1>3, <3>3 DEF RecordedRow, LandInv
    <3> QED
      BY <3>1, <3>2, <3>3
  <2> HIDE DEF row
  <2>2. JobInv' /\ \A s \in Actors : job'[s].pc = "close" => job[s].pc = "close" /\ job'[s] = job[s]
    BY <1>2, <1>4, DoneKeeps
  <2>3. LandInv'
    BY <1>2, <1>3, <1>4, <2>1, <2>2, NothingIsNoRow DEF LandInv, ResolvedHasLanded
  <2>4. HandInv'
    BY <1>2, <1>3, <1>4, <2>1, DoneKeeps, NothingIsNoRow DEF LandInv, HandInv, NothingLost
  <2> QED
    BY <1>1, <2>2, <2>3, <2>4
<1>5. CASE UNCHANGED <<inbox, handled>> /\ Become(a, Rest(a))
  <2>1. JobInv' /\ \A s \in Actors : job'[s].pc = "close" => job[s].pc = "close" /\ job'[s] = job[s]
    BY <1>2, <1>5, RestFits, OneJob
  <2> QED
    BY <1>1, <1>2, <1>5, <2>1, LandStays, HandStays
<1> QED
  BY <1>4, <1>5 DEF RecordInbox

-----------------------------------------------------------------------------
(* syncLeadToDatabase. *)

\* A lead that is linked is done with, or its row is still to be closed.
LEMMA LandedKeeps ==
  ASSUME IngestInv, NEW a \in Actors, NEW i \in LmsIds, Landed(a, i), job[a].pc \in {"check", "link"},
         metaRows'[job[a].lead] # None, metaRows' \in [Leads -> Ids],
         \A k \in Leads : metaRows[k] # None => metaRows'[k] # None,
         UNCHANGED <<lms, inbox, intake>>
  PROVE  JobInv' /\ IntakeInv' /\ ChainInv' /\ LandInv' /\ HandInv'
<1> USE DEF IngestInv
<1> DEFINE l == job[a].lead
<1>1. IntakeInv' /\ ChainInv'
  BY IntakeStays, ChainStays
<1>2. job[a].kind # "public" /\ l \in Leads
  BY LeadInHand DEF JobInv, JobFits
<1>3. CASE job[a].kind = "delivery"
  <2>1. DoneWith(a) /\ closing' = closing \cup {[lead |-> l, id |-> i]}
    BY <1>3 DEF Landed
  <2>2. JobInv' /\ \A s \in Actors : job'[s].pc = "close" => job[s].pc = "close" /\ job'[s] = job[s]
    BY <2>1, DoneKeeps
  <2>3. \A s \in Actors : job'[s].pc = "close" => job'[s].lead \in Leads
    BY <2>2 DEF JobInv, JobFits
  <2>4. closing' \subseteq [lead : Leads, id : LmsIds] /\ \A c \in closing' : metaRows'[c.lead] # None
    BY <1>2, <2>1 DEF LandInv
  <2>5. \A s \in Actors : job'[s].pc = "close" => metaRows'[job'[s].lead] # None
    BY <2>2, <2>3 DEF LandInv
  <2>6. LandInv'
    BY <2>4, <2>5 DEF LandInv, ResolvedHasLanded
  <2>7. HandInv'
    BY <1>2, <2>1, DoneKeeps DEF HandInv, NothingLost
  <2> QED
    BY <1>1, <2>2, <2>6, <2>7
<1>4. CASE job[a].kind # "delivery"
  <2> DEFINE j == [job[a] EXCEPT !.pc = "close", !.id = i]
  <2>1. j \in Job /\ JobFits(j) /\ j.pc = "close" /\ j.lead = l
    <3>1. job[a].kind \in {"retry", "apply"}
      BY <1>2, <1>4 DEF JobInv, JobFits, Job, LmsIds
    <3> QED
      BY <1>2, <3>1, ZenonT(40) DEF JobInv, JobFits, Job, Ids
  <2>2. Become(a, j) /\ UNCHANGED <<closing, handled>>
    BY <1>4 DEF Landed
  <2> HIDE DEF j
  <2>3. JobInv' /\ job'[a] = j /\ \A s \in Actors : s # a => job'[s] = job[s]
    BY <2>1, <2>2, OneJob
  <2>4. \A s \in Actors : job'[s].pc = "close" => metaRows'[job'[s].lead] # None
    <3> SUFFICES ASSUME NEW s \in Actors, s # a, job'[s].pc = "close"
                 PROVE  metaRows'[job'[s].lead] # None
      BY <2>1, <2>3
    <3>1. job'[s] = job[s] /\ job[s].lead \in Leads /\ metaRows[job[s].lead] # None
      BY <2>3 DEF LandInv, JobInv, JobFits
    <3> QED
      BY <3>1
  <2>5. LandInv'
    BY <2>2, <2>4 DEF LandInv, ResolvedHasLanded
  <2>6. HandInv'
    BY <2>2 DEF HandInv, NothingLost
  <2> QED
    BY <1>1, <2>3, <2>5, <2>6
<1> QED
  BY <1>3, <1>4

\* The intake an actor asks for fits, and nothing else is told of the actor.
LEMMA AskKeeps ==
  ASSUME IngestInv, NEW a \in Actors, NEW j \in Job, JobFits(j), Become(a, j), j.pc # "close",
         NEW r \in Intake \cup {None}, r # None => IntakeFits(r), j.pc = "wait" => r # None,
         intake' = [intake EXCEPT ![a] = r], UNCHANGED <<store, closing, handled>>
  PROVE  JobInv' /\ IntakeInv' /\ ChainInv' /\ LandInv' /\ HandInv'
<1> USE DEF IngestInv, store
<1>1. IntakeInv' /\ intake'[a] = r /\ \A s \in Actors : s # a => intake'[s] = intake[s]
  BY OneIntake
<1>2. JobInv' /\ job'[a] = j /\ \A s \in Actors : s # a => job'[s] = job[s]
  BY <1>1, OneJob
<1>3. LandInv'
  BY <1>2, LandStays
<1> QED
  BY <1>1, <1>2, <1>3, ChainStays, HandStays

LEMMA PreCheckKeeps ==
  ASSUME IngestInv, NEW a \in Actors, PreCheck(a)
  PROVE  IngestInv'
<1> USE DEF IngestInv
<1> DEFINE l == job[a].lead
<1>1. job[a].pc = "check" /\ OwnInv' /\ UNCHANGED store
  BY OwnStays DEF PreCheck, store
<1>2. l \in Leads /\ job[a].kind # "public" /\ job[a] \in Job /\ job[a].org \in Orgs
  BY <1>1, LeadInHand DEF JobInv, JobFits
<1>3. CASE metaRows[l] # None
  <2>1. metaRows[l] \in LmsIds /\ Landed(a, metaRows[l]) /\ UNCHANGED intake
    BY <1>2, <1>3 DEF PreCheck, LandInv, Ids
  <2> QED
    BY <1>1, <1>3, <2>1, LandedKeeps DEF LandInv, store
<1>4. CASE metaRows[l] = None
  <2> DEFINE r == [step |-> "match", org |-> job[a].org, phone |-> PhoneOf[l],
                   email |-> EmailOf[l], lead |-> l, found |-> None]
             j == [job[a] EXCEPT !.pc = "wait"]
  <2>1. r \in Intake /\ IntakeFits(r)
    BY <1>2 DEF Intake, IntakeFits, Phones, Emails, Ids
  <2>2. j \in Job /\ JobFits(j) /\ j.pc = "wait"
    BY <1>1, <1>2 DEF Job, JobInv, JobFits
  <2>3. Become(a, j) /\ intake' = [intake EXCEPT ![a] = r] /\ UNCHANGED <<closing, handled>>
    BY <1>4 DEF PreCheck, Step
  <2> HIDE DEF r, j
  <2> QED
    BY <1>1, <2>1, <2>2, <2>3, NothingIsNoRow, AskKeeps
<1> QED
  BY <1>3, <1>4

LEMMA IntakeRepliesKeeps ==
  ASSUME IngestInv, NEW a \in Actors, IntakeReplies(a)
  PROVE  IngestInv'
<1> USE DEF IngestInv
<1>1. OwnInv' /\ job[a] \in Job /\ intake[a] # None
  BY OwnStays DEF IntakeReplies, store, JobInv
<1>2. intake[a].found \in LmsIds
  BY <1>1 DEF IntakeReplies, IntakeInv, IntakeFits
<1>3. CASE job[a].kind = "public"
  BY <1>1, <1>3, IdleFits, AskKeeps DEF IntakeReplies
<1>4. CASE job[a].kind # "public"
  <2> DEFINE j == [job[a] EXCEPT !.pc = "link", !.id = intake[a].found]
  <2>1. j \in Job /\ JobFits(j) /\ j.pc = "link"
    BY <1>1, <1>2, <1>4 DEF IntakeReplies, Job, JobInv, JobFits, Ids
  <2>2. Become(a, j)
    BY <1>4 DEF IntakeReplies
  <2> HIDE DEF j
  <2> QED
    BY <1>1, <2>1, <2>2, AskKeeps DEF IntakeReplies
<1> QED
  BY <1>3, <1>4

LEMMA IntakeFailsKeeps ==
  ASSUME IngestInv, NEW a \in Actors, IntakeFails(a)
  PROVE  IngestInv'
<1> USE DEF IngestInv
<1> DEFINE r == IF intake[a].step \in {"reply", "refused"} THEN None ELSE intake[a]
<1>1. OwnInv' /\ job[a].pc = "wait" /\ Throw(a) /\ UNCHANGED <<store, closing>>
  BY OwnStays DEF IntakeFails, store
<1>2. r \in Intake \cup {None} /\ (r # None => IntakeFits(r)) /\ intake' = [intake EXCEPT ![a] = r]
  BY DEF IntakeFails, IntakeInv
<1> HIDE DEF r
<1>3. IntakeInv' /\ \A s \in Actors : s # a => intake'[s] = intake[s]
  BY <1>1, <1>2, OneIntake DEF store
<1>4. /\ JobInv' /\ handled' = handled
      /\ \A s \in Actors : job'[s].pc = "close" => job[s].pc = "close" /\ job'[s] = job[s]
  BY <1>1, <1>3, ThrowKeeps
<1> QED
  BY <1>1, <1>3, <1>4, ChainStays, LandStays, HandStays DEF store

LEMMA LinkKeeps ==
  ASSUME IngestInv, NEW a \in Actors, Link(a)
  PROVE  IngestInv'
<1> USE DEF IngestInv
<1> DEFINE l == job[a].lead
<1>1. OwnInv' /\ job[a].pc = "link" /\ Landed(a, job[a].id) /\ UNCHANGED <<lms, inbox, intake>>
  BY OwnStays DEF Link
<1>2. l \in Leads /\ job[a].id \in LmsIds
  BY <1>1, LeadInHand DEF JobInv, JobFits
<1>3. None \notin LmsIds
  BY IngestAssumption DEF LmsIds
<1>4. LinkedTo(l, job[a].id) \in LmsIds
  BY <1>2 DEF LinkedTo, LandInv, Ids
<1>5. metaRows' = [metaRows EXCEPT ![l] = LinkedTo(l, job[a].id)]
  BY DEF Link
<1>6. metaRows' \in [Leads -> Ids] /\ metaRows'[l] # None
  BY <1>2, <1>3, <1>4, <1>5 DEF LandInv, Ids
<1>7. \A k \in Leads : metaRows[k] # None => metaRows'[k] # None
  BY <1>2, <1>5, <1>6 DEF LandInv
<1> QED
  BY <1>1, <1>2, <1>6, <1>7, LandedKeeps

LEMMA StatementFailsKeeps ==
  ASSUME IngestInv, NEW a \in Actors, StatementFails(a)
  PROVE  IngestInv'
<1> USE DEF IngestInv
<1>1. OwnInv'
  BY OwnStays DEF StatementFails, store
<1> QED
  BY <1>1, FailKeeps DEF StatementFails

-----------------------------------------------------------------------------
(* createWebhookLead. *)

\* Only the intake of one actor moves.
LEMMA IntakeMoves ==
  ASSUME IngestInv, NEW a \in Actors, NEW r \in Intake, IntakeFits(r),
         intake' = [intake EXCEPT ![a] = r], UNCHANGED <<store, job, closing, handled, started>>
  PROVE  IngestInv'
<1> USE DEF IngestInv, store
<1>1. IntakeInv' /\ intake'[a] = r /\ \A s \in Actors : s # a => intake'[s] = intake[s]
  BY OneIntake
<1>2. JobInv'
  BY <1>1, JobsStay, NothingIsNoRow DEF JobInv
<1>3. OwnInv' /\ ChainInv' /\ HandInv'
  BY OwnStays, ChainStays, HandStays
<1>4. LandInv'
  BY LandStays
<1> QED
  BY <1>1, <1>2, <1>3, <1>4

LEMMA IntakeMatchKeeps ==
  ASSUME IngestInv, NEW a \in Actors, IntakeMatch(a)
  PROVE  IngestInv'
<1> DEFINE q == intake[a]
           byPhone == ActiveWith(q.org, "phone", q.phone)
           byEmail == ActiveWith(q.org, "email", q.email)
<1>1. q \in Intake /\ q.step = "match" /\ q.found = None
  BY DEF IntakeMatch, IngestInv, IntakeInv, IntakeFits
<1>2. Len(lms) \in Nat
  BY DEF IngestInv, ChainInv
<1>3. ASSUME NEW i \in byPhone, intake' = [intake EXCEPT ![a] = [q EXCEPT !.step = "commit", !.found = i]]
      PROVE  IngestInv'
  <2> DEFINE r == [q EXCEPT !.step = "commit", !.found = i]
  <2>1. i \in 1 .. Len(lms) /\ q.phone # None /\ lms[i].org = q.org /\ lms[i].phone = q.phone
    BY DEF ActiveWith
  <2>2. i \in Ids
    BY <1>2, <2>1 DEF Ids, LmsIds
  <2>3. r \in Intake
    BY <1>1, <2>2 DEF Intake
  <2>4. r.step = "commit" /\ r.found = i /\ r.org = q.org /\ r.phone = q.phone
    BY <1>1 DEF Intake
  <2>5. IntakeFits(r)
    BY <2>1, <2>4 DEF IntakeFits
  <2> QED
    BY <1>3, <2>3, <2>5, IntakeMoves DEF IntakeMatch
<1>4. ASSUME NEW i \in byEmail, intake' = [intake EXCEPT ![a] = [q EXCEPT !.step = "reply", !.found = i]]
      PROVE  IngestInv'
  <2> DEFINE r == [q EXCEPT !.step = "reply", !.found = i]
  <2>1. i \in LmsIds
    BY <1>2 DEF ActiveWith, LmsIds
  <2>2. r \in Intake /\ IntakeFits(r)
    BY <1>1, <2>1 DEF Intake, IntakeFits, Ids
  <2> QED
    BY <1>4, <2>2, IntakeMoves DEF IntakeMatch
<1>5. ASSUME intake' = [intake EXCEPT ![a] = [q EXCEPT !.step = "commit"]]
      PROVE  IngestInv'
  <2> DEFINE r == [q EXCEPT !.step = "commit"]
  <2>1. r \in Intake /\ IntakeFits(r)
    BY <1>1 DEF Intake, IntakeFits
  <2> QED
    BY <1>5, <2>1, IntakeMoves DEF IntakeMatch
<1> QED
  BY <1>3, <1>4, <1>5 DEF IntakeMatch

\* The lead an intake adds to the leads, and what becomes of the one it found.
LEMMA CommitKeepsChain ==
  ASSUME ChainInv, NEW r \in Intake, IntakeFits(r), r.step = "commit", PhoneIsFree(r),
         lms' = Append([i \in DOMAIN lms |-> IF i = r.found THEN SupersededBy(lms[i], Len(lms) + 1) ELSE lms[i]],
                       NewLead(r))
  PROVE  /\ ChainInv' /\ Len(lms') = Len(lms) + 1
         /\ \A i \in 1 .. Len(lms) : lms'[i].org = lms[i].org /\ lms'[i].phone = lms[i].phone
<1>1. Len(lms) \in Nat /\ DOMAIN lms = 1 .. Len(lms) /\ Len(lms) + 1 \in LmsIds /\ None \notin Nat
  BY IngestAssumption DEF ChainInv, LmsIds
<1> PICK n \in LmsIds : n = Len(lms) + 1
  BY <1>1
<1> DEFINE old == [i \in DOMAIN lms |-> IF i = r.found THEN SupersededBy(lms[i], n) ELSE lms[i]]
<1>2. \A i \in 1 .. Len(lms) : lms[i] \in LmsLead
  BY DEF ChainInv
<1>3. old \in Seq(LmsLead) /\ Len(old) = Len(lms)
  <2>1. \A i \in 1 .. Len(lms) : old[i] \in LmsLead
    BY <1>1, <1>2 DEF SupersededBy, LmsLead, Ids
  <2> QED
    BY <1>1, <2>1
<1>4. NewLead(r) \in LmsLead
  BY DEF NewLead, LmsLead, Intake, Ids
<1>5. /\ lms' \in Seq(LmsLead) /\ Len(lms') = n /\ lms'[n] = NewLead(r)
      /\ \A i \in 1 .. Len(lms) : lms'[i] = old[i]
  BY <1>1, <1>3, <1>4
<1> HIDE DEF old
<1>6. \A i \in 1 .. Len(lms) : /\ i # r.found => lms'[i] = lms[i]
                               /\ i = r.found => lms'[i] = [lms[i] EXCEPT !.active = FALSE, !.next = n]
  BY <1>1, <1>5 DEF old, SupersededBy
<1>7. \A i \in 1 .. Len(lms) : lms'[i].org = lms[i].org /\ lms'[i].phone = lms[i].phone
  BY <1>2, <1>6 DEF LmsLead
<1>8. lms'[n] = [org |-> r.org, phone |-> r.phone, email |-> r.email, active |-> TRUE, next |-> None, meta |-> r.lead]
  BY <1>5 DEF NewLead
<1> DEFINE Joins(i) == lms[i].phone # None /\ lms[i].phone = r.phone /\ lms[i].org = r.org
<1>9. \A i, j \in 1 .. Len(lms) : SamePhone(i, j)' = SamePhone(i, j)
  BY <1>7 DEF SamePhone
<1>10. \A i \in 1 .. Len(lms) : SamePhone(i, n)' = Joins(i)
  BY <1>7, <1>8, SMTT(30) DEF SamePhone
\* The lead the intake found is the newest of the chain the new lead joins.
<1>11. ASSUME NEW i \in 1 .. Len(lms), Joins(i)
       PROVE  r.found \in i .. Len(lms) /\ EndOf(i, r.found)
  <2>1. PICK j \in i .. Len(lms) : EndOf(i, j)
    BY DEF ChainInv
  <2>2. j \in 1 .. Len(lms) /\ Joins(j)
    BY <1>1, <1>11, <2>1 DEF EndOf, SamePhone
  <2>3. ~\E k \in j + 1 .. Len(lms) : SamePhone(j, k)
    BY <1>11, <2>1, <2>2 DEF EndOf, SamePhone
  <2>4. lms[j].active
    BY <2>2, <2>3 DEF ChainInv, Linked
  <2>5. j \in ActiveWith(r.org, "phone", r.phone)
    BY <2>2, <2>4 DEF ActiveWith
  <2>6. j = r.found
    BY <2>5 DEF PhoneIsFree
  <2> QED
    BY <2>1, <2>6
<1>12. r.found \in 1 .. Len(lms) => Joins(r.found)
  BY <1>1 DEF IntakeFits
<1> HIDE DEF Joins
<1>13. ASSUME NEW i \in 1 .. Len(lms), Joins(i)
       PROVE  Linked(i)' /\ \E j \in i .. n : EndOf(i, j)'
  <2>1. n \in i + 1 .. n /\ SamePhone(i, n)'
    BY <1>1, <1>10, <1>13
  <2>2. EndOf(i, n)'
    BY <1>1, <1>5, <2>1 DEF EndOf
  <2>3. r.found \in i .. Len(lms) /\ EndOf(i, r.found)
    BY <1>11, <1>13
  <2>4. CASE i = r.found
    <3>1. ~lms'[i].active /\ lms'[i].next = n
      BY <1>2, <1>6, <2>4 DEF LmsLead
    <3>2. \A j \in i + 1 .. Len(lms) : ~SamePhone(i, j)'
      BY <1>1, <1>9, <2>3, <2>4 DEF EndOf
    <3>3. \A j \in i + 1 .. n : SamePhone(i, j)' => n <= j
      BY <1>1, <3>2
    <3> QED
      BY <1>1, <1>5, <2>1, <2>2, <3>1, <3>3 DEF Linked
  <2>5. CASE i # r.found
    <3>1. SamePhone(i, r.found) /\ r.found \in i + 1 .. Len(lms)
      BY <1>1, <2>3, <2>5 DEF EndOf
    <3>2. /\ ~lms[i].active
          /\ lms[i].next \in i + 1 .. Len(lms) /\ SamePhone(i, lms[i].next)
          /\ \A j \in i + 1 .. Len(lms) : SamePhone(i, j) => lms[i].next <= j
      BY <3>1 DEF ChainInv, Linked
    <3>3. lms'[i] = lms[i]
      BY <1>6, <2>5
    <3>4. SamePhone(i, lms[i].next)' /\ lms[i].next \in i + 1 .. n
      BY <1>1, <1>9, <3>2, <3>3
    <3>5. \A j \in i + 1 .. n : SamePhone(i, j)' => lms[i].next <= j
      BY <1>1, <1>9, <3>2
    <3> QED
      BY <1>1, <1>5, <2>1, <2>2, <3>2, <3>3, <3>4, <3>5 DEF Linked
  <2> QED
    BY <2>4, <2>5
<1>14. ASSUME NEW i \in 1 .. Len(lms), ~Joins(i)
       PROVE  Linked(i)' /\ \E j \in i .. n : EndOf(i, j)'
  <2>1. i # r.found /\ lms'[i] = lms[i]
    BY <1>6, <1>12, <1>14
  <2>2. ~SamePhone(i, n)'
    BY <1>10, <1>14
  <2>3. \A j \in i + 1 .. n : SamePhone(i, j)' <=> j \in i + 1 .. Len(lms) /\ SamePhone(i, j)
    BY <1>1, <1>9, <2>2
  <2>4. Linked(i)'
    BY <1>1, <1>5, <1>9, <2>1, <2>3 DEF ChainInv, Linked
  <2>5. PICK j \in i .. Len(lms) : EndOf(i, j)
    BY DEF ChainInv
  <2>6. EndOf(i, j)'
    BY <1>1, <1>5, <1>9, <2>3, <2>5 DEF EndOf
  <2> QED
    BY <1>1, <2>4, <2>5, <2>6
<1>15. Linked(n)' /\ EndOf(n, n)'
  BY <1>1, <1>5, <1>8 DEF Linked, EndOf
<1>16. ChainInv'
  <2>1. \A i \in 1 .. n : Linked(i)' /\ \E j \in i .. n : EndOf(i, j)'
    <3> TAKE i \in 1 .. n
    <3>1. CASE i = n
      BY <1>1, <1>15, <3>1
    <3>2. CASE i # n
      BY <1>1, <1>13, <1>14, <3>2
    <3> QED
      BY <3>1, <3>2
  <2> QED
    BY <1>5, <2>1, Zenon DEF ChainInv
<1> QED
  BY <1>5, <1>7, <1>16

LEMMA IntakeCommitKeeps ==
  ASSUME IngestInv, NEW a \in Actors, IntakeCommit(a)
  PROVE  IngestInv'
<1> USE DEF IngestInv
<1> DEFINE q == intake[a]
<1>1. q \in Intake /\ IntakeFits(q) /\ q.step = "commit" /\ PhoneIsFree(q)
  BY DEF IntakeCommit, IntakeInv
<1> PICK r \in Intake : r = q
  BY <1>1
<1>2. /\ ChainInv' /\ Len(lms') = Len(lms) + 1
      /\ \A i \in 1 .. Len(lms) : lms'[i].org = lms[i].org /\ lms'[i].phone = lms[i].phone
  BY <1>1, CommitKeepsChain DEF IntakeCommit
<1>3. Len(lms) \in Nat /\ Len(lms) + 1 \in LmsIds
  BY DEF ChainInv, LmsIds
<1> PICK n \in LmsIds : n = Len(lms) + 1
  BY <1>3
<1>4. ReplyNew(r, n) \in Intake /\ ReplyNew(r, n).step = "reply" /\ ReplyNew(r, n).found = n
  BY DEF ReplyNew, Intake, Ids
<1>5. intake' = [intake EXCEPT ![a] = ReplyNew(r, n)]
  BY DEF IntakeCommit
<1>6. \A s \in Actors : intake'[s] = IF s = a THEN ReplyNew(r, n) ELSE intake[s]
  BY <1>5 DEF IntakeInv
<1>7. intake' \in [Actors -> Intake \cup {None}]
  BY <1>4, <1>5 DEF IntakeInv
<1>8. ASSUME NEW s \in Actors, intake'[s] # None
      PROVE  IntakeFits(intake[s])'
  <2>1. CASE s = a
    BY <1>4, <1>6, <2>1 DEF IntakeFits
  <2>2. CASE s # a
    <3>1. intake[s] # None /\ intake'[s] = intake[s] /\ IntakeFits(intake[s])
      BY <1>6, <1>8, <2>2 DEF IntakeInv
    <3>2. intake[s].found \in 1 .. Len(lms) => intake[s].found \in 1 .. Len(lms')
      BY <1>2, <1>3
    <3> QED
      BY <1>2, <3>1, <3>2 DEF IntakeFits
  <2> QED
    BY <2>1, <2>2
<1>9. IntakeInv'
  BY <1>7, <1>8 DEF IntakeInv
<1>10. JobInv'
  BY <1>4, <1>6, JobsStay, NothingIsNoRow DEF IntakeCommit, JobInv
<1>11. OwnInv' /\ LandInv' /\ HandInv'
  BY OwnStays, LandStays, HandStays DEF IntakeCommit
<1> QED
  BY <1>2, <1>9, <1>10, <1>11

LEMMA IntakeRefusedKeeps ==
  ASSUME IngestInv, NEW a \in Actors, IntakeRefused(a)
  PROVE  IngestInv'
<1> DEFINE r == [intake[a] EXCEPT !.step = "refused"]
<1>1. intake[a] \in Intake
  BY DEF IntakeRefused, IngestInv, IntakeInv
<1>2. r \in Intake /\ IntakeFits(r) /\ intake' = [intake EXCEPT ![a] = r]
  BY <1>1 DEF IntakeRefused, Intake, IntakeFits
<1> QED
  BY <1>2, IntakeMoves DEF IntakeRefused

LEMMA IntakeUnheardKeeps ==
  ASSUME IngestInv, NEW a \in Actors, IntakeUnheard(a)
  PROVE  IngestInv'
<1> USE DEF IngestInv
<1>1. IntakeInv' /\ \A s \in Actors : s # a => intake'[s] = intake[s]
  BY OneIntake DEF IntakeUnheard, store
<1>2. JobInv'
  BY <1>1, JobsStay DEF IntakeUnheard, JobInv
<1>3. OwnInv' /\ ChainInv' /\ HandInv' /\ LandInv'
  BY OwnStays, ChainStays, HandStays, LandStays DEF IntakeUnheard, store
<1> QED
  BY <1>1, <1>2, <1>3

LEMMA StartPublicKeeps ==
  ASSUME IngestInv, NEW a \in Actors, NEW o \in Orgs, NEW c \in Contacts, StartPublic(a, o, c)
  PROVE  IngestInv'
<1> USE DEF IngestInv
<1> DEFINE j == [Idle EXCEPT !.pc = "wait", !.kind = "public", !.org = o]
           r == [step |-> "match", org |-> o, phone |-> c.phone, email |-> c.email, lead |-> None, found |-> None]
<1>1. j \in Job /\ JobFits(j) /\ j.pc = "wait"
  BY DEF Idle, Job, JobFits, Ids
<1>2. r \in Intake /\ IntakeFits(r)
  BY DEF Intake, IntakeFits, Phones, Emails, Ids
<1>3. OwnInv' /\ Become(a, j)
  BY BeginKeeps DEF StartPublic, store
<1>4. intake' = [intake EXCEPT ![a] = r] /\ UNCHANGED <<store, closing, handled>>
  BY DEF StartPublic
<1> HIDE DEF j, r
<1> QED
  BY <1>1, <1>2, <1>3, <1>4, NothingIsNoRow, AskKeeps

-----------------------------------------------------------------------------
(* The inbox, and the other callers of the sync. *)

LEMMA StartRetryKeeps ==
  ASSUME IngestInv, NEW a \in Actors, NEW l \in Leads, StartRetry(a, l)
  PROVE  IngestInv'
<1> USE DEF IngestInv
<1> DEFINE j == [Idle EXCEPT !.pc = "route", !.kind = "retry", !.lead = l, !.tenant = inbox[l].tenant]
<1>1. inbox[l].tenant \in Tenants \cup {None}
  BY DEF StartRetry, LandInv, InboxRow
<1>2. j \in Job /\ JobFits(j) /\ j.pc = "route"
  BY <1>1 DEF Idle, Job, JobFits, Ids
<1>3. OwnInv' /\ Become(a, j)
  BY BeginKeeps DEF StartRetry, store
<1> HIDE DEF j
<1> QED
  BY <1>2, <1>3, MoveKeeps DEF StartRetry

LEMMA RouteRetryKeeps ==
  ASSUME IngestInv, NEW a \in Actors, RouteRetry(a)
  PROVE  IngestInv'
<1> USE DEF IngestInv
<1> DEFINE o == RouteOf(job[a].lead, None)
           j == [job[a] EXCEPT !.pc = "check", !.org = o]
<1>1. OwnInv' /\ job[a].pc = "route" /\ job[a].kind = "retry" /\ UNCHANGED <<store, intake, closing>>
  BY OwnStays DEF RouteRetry, store
<1>2. CASE o # None /\ Become(a, j) /\ UNCHANGED handled
  <2>1. o \in Orgs
    BY <1>1, <1>2, LeadInHand, RouteInForms
  <2> HIDE DEF o
  <2>2. j \in Job /\ JobFits(j) /\ j.pc = "check"
    BY ZenonT(60), <1>1, <2>1 DEF JobInv, JobFits, Job
  <2> HIDE DEF j
  <2> QED
    BY <1>1, <1>2, <2>2, MoveKeeps
<1>3. CASE DoneWith(a)
  BY <1>1, <1>3, EndKeeps
<1> QED
  BY <1>2, <1>3 DEF RouteRetry

\* The work on an inbox row ends, with the row closed or as it was.
LEMMA CloseKeeps ==
  ASSUME IngestInv, NEW a \in Actors, job[a].pc = "close", DoneWith(a),
         NEW row \in InboxRow \cup {None}, inbox[job[a].lead] # None => row # None,
         row # None /\ row.status = "resolved" => row = inbox[job[a].lead] \/ row.lead \in LmsIds,
         inbox' = [inbox EXCEPT ![job[a].lead] = row],
         UNCHANGED <<routes, lms, metaRows, intake, closing, started>>
  PROVE  IngestInv'
<1> USE DEF IngestInv
<1> DEFINE l == job[a].lead
<1>1. job[a].kind \in {"retry", "apply"} /\ l \in Leads /\ None \notin LmsIds
  BY IngestAssumption DEF JobInv, JobFits, LmsIds
<1>2. /\ JobInv' /\ handled' = handled
      /\ \A s \in Actors : job'[s].pc = "close" => job[s].pc = "close" /\ job'[s] = job[s]
  BY <1>1, DoneKeeps
<1>3. OwnInv' /\ IntakeInv' /\ ChainInv'
  BY OwnStays, IntakeStays, ChainStays
<1>4. metaRows[l] # None
  BY DEF LandInv
<1>5. LandInv'
  BY <1>1, <1>2, <1>4 DEF LandInv, ResolvedHasLanded
<1>6. HandInv'
  BY <1>1, <1>2 DEF HandInv, NothingLost, LandInv
<1> QED
  BY <1>2, <1>3, <1>5, <1>6

\* A row that is closed is a row still.
LEMMA ResolvedRowIs ==
  ASSUME NEW row \in InboxRow, NEW i \in LmsIds
  PROVE  ResolvedRow(row, i) \in InboxRow /\ ResolvedRow(row, i).lead = i
  BY DEF ResolvedRow, InboxRow, Ids

LEMMA CloseRetryRow ==
  ASSUME IngestInv, RetryInv, NEW a \in Actors, CloseRetry(a)
  PROVE  \E row \in InboxRow : row.lead \in LmsIds /\ inbox' = [inbox EXCEPT ![job[a].lead] = row]
<1> DEFINE old == inbox[job[a].lead]
           closed == ResolvedRow(old, job[a].id)
           row == InTenant(closed, TenantOf[job[a].org])
<1>1. job[a].pc = "close" /\ job[a].id \in LmsIds /\ job[a].org \in Orgs /\ job[a].lead \in Leads
  BY DEF CloseRetry, IngestInv, JobInv, JobFits
<1>2. old \in InboxRow
  BY <1>1 DEF CloseRetry, RetryInv, Retries, IngestInv, LandInv
<1>3. closed \in InboxRow /\ closed.lead = job[a].id
  BY <1>1, <1>2, ResolvedRowIs
<1>4. TenantOf[job[a].org] \in Tenants
  BY <1>1, IngestAssumption
<1>5. inbox' = [inbox EXCEPT ![job[a].lead] = row]
  BY DEF CloseRetry
<1> HIDE DEF closed
<1>6. row \in InboxRow /\ row.lead = job[a].id
  BY <1>3, <1>4 DEF InTenant, InboxRow
<1> HIDE DEF row
<1> QED
  BY <1>1, <1>5, <1>6

LEMMA CloseRetryKeeps ==
  ASSUME IngestInv, RetryInv, NEW a \in Actors, CloseRetry(a)
  PROVE  IngestInv'
<1> PICK row \in InboxRow : row.lead \in LmsIds /\ inbox' = [inbox EXCEPT ![job[a].lead] = row]
  BY CloseRetryRow
<1>1. job[a].pc = "close" /\ DoneWith(a) /\ UNCHANGED <<routes, lms, metaRows, intake, closing, started>>
  BY DEF CloseRetry
<1> QED
  BY <1>1, NothingIsNoRow, CloseKeeps

\* ClosedIfOpen: the row of one lead is closed, or nothing is.
LEMMA ClosedIfOpenIs ==
  ASSUME LandInv, NEW l \in Leads, NEW i \in LmsIds
  PROVE  \E row \in InboxRow \cup {None} :
           /\ ClosedIfOpen(l, i) = [inbox EXCEPT ![l] = row]
           /\ inbox[l] # None => row # None
           /\ row # None /\ row.status = "resolved" => row = inbox[l] \/ row.lead \in LmsIds
<1>1. CASE inbox[l] # None /\ inbox[l].status = "open"
  <2>1. inbox[l] \in InboxRow
    BY <1>1 DEF LandInv
  <2> QED
    BY <1>1, <2>1, ResolvedRowIs, NothingIsNoRow DEF ClosedIfOpen
<1>2. CASE ~(inbox[l] # None /\ inbox[l].status = "open")
  <2>1. ClosedIfOpen(l, i) = [inbox EXCEPT ![l] = inbox[l]]
    BY <1>2 DEF ClosedIfOpen, LandInv
  <2> QED
    BY <2>1 DEF LandInv
<1> QED
  BY <1>1, <1>2

LEMMA StartApplyKeeps ==
  ASSUME IngestInv, NEW a \in Actors, NEW l \in Leads, NEW o \in Orgs, StartApply(a, l, o)
  PROVE  IngestInv'
<1> USE DEF IngestInv
<1> DEFINE j == [Idle EXCEPT !.pc = "check", !.kind = "apply", !.lead = l, !.org = o]
<1>1. j \in Job /\ JobFits(j) /\ j.pc = "check"
  BY DEF Idle, Job, JobFits, Ids
<1>2. OwnInv' /\ Become(a, j)
  BY BeginKeeps DEF StartApply, store
<1> HIDE DEF j
<1> QED
  BY <1>1, <1>2, MoveKeeps DEF StartApply

LEMMA CloseApplyKeeps ==
  ASSUME IngestInv, NEW a \in Actors, CloseApply(a)
  PROVE  IngestInv'
<1>1. job[a].pc = "close" /\ job[a].id \in LmsIds /\ job[a].lead \in Leads
  BY DEF CloseApply, IngestInv, JobInv, JobFits
<1> PICK row \in InboxRow \cup {None} :
           /\ ClosedIfOpen(job[a].lead, job[a].id) = [inbox EXCEPT ![job[a].lead] = row]
           /\ inbox[job[a].lead] # None => row # None
           /\ row # None /\ row.status = "resolved" => row = inbox[job[a].lead] \/ row.lead \in LmsIds
  BY <1>1, ClosedIfOpenIs DEF IngestInv
<1>2. /\ DoneWith(a) /\ inbox' = [inbox EXCEPT ![job[a].lead] = row]
      /\ UNCHANGED <<routes, lms, metaRows, intake, closing, started>>
  BY DEF CloseApply
<1> QED
  BY <1>1, <1>2, CloseKeeps

LEMMA CloseFailsKeeps ==
  ASSUME IngestInv, NEW a \in Actors, CloseFails(a)
  PROVE  IngestInv'
<1> USE DEF IngestInv
<1>1. OwnInv' /\ job[a].kind # "delivery"
  BY OwnStays DEF CloseFails, store, JobInv, JobFits
<1> QED
  BY <1>1, EndKeeps DEF CloseFails

LEMMA CloseUnawaitedKeeps ==
  ASSUME IngestInv, NEW c \in closing, CloseUnawaited(c)
  PROVE  IngestInv'
<1> USE DEF IngestInv
<1>1. OwnInv' /\ IntakeInv' /\ ChainInv' /\ JobInv'
  BY OwnStays, IntakeStays, ChainStays, JobsStay DEF CloseUnawaited, JobInv
<1>2. c.lead \in Leads /\ c.id \in LmsIds /\ metaRows[c.lead] # None /\ None \notin LmsIds
  BY IngestAssumption DEF LandInv, LmsIds
<1>3. closing' \subseteq closing /\ UNCHANGED <<metaRows, job, handled>>
  BY DEF CloseUnawaited
<1>4. CASE inbox' = inbox
  BY <1>1, <1>3, <1>4, HandStays DEF LandInv, ResolvedHasLanded
<1>5. CASE inbox' = ClosedIfOpen(c.lead, c.id)
  <2> PICK row \in InboxRow \cup {None} :
           /\ inbox' = [inbox EXCEPT ![c.lead] = row]
           /\ inbox[c.lead] # None => row # None
           /\ row # None /\ row.status = "resolved" => row = inbox[c.lead] \/ row.lead \in LmsIds
    BY <1>2, <1>5, ClosedIfOpenIs, SMTT(30)
  <2>1. LandInv'
    BY <1>2, <1>3 DEF LandInv, ResolvedHasLanded
  <2>2. HandInv'
    BY <1>2, <1>3 DEF HandInv, NothingLost, LandInv
  <2> QED
    BY <1>1, <2>1, <2>2
<1> QED
  BY <1>4, <1>5 DEF CloseUnawaited

LEMMA IgnoreInboxKeeps ==
  ASSUME IngestInv, NEW l \in Leads, IgnoreInbox(l)
  PROVE  IngestInv'
<1> USE DEF IngestInv
<1>1. OwnInv' /\ IntakeInv' /\ ChainInv' /\ JobInv'
  BY OwnStays, IntakeStays, ChainStays, JobsStay DEF IgnoreInbox, JobInv
<1> DEFINE row == [inbox[l] EXCEPT !.status = "ignored"]
<1>2. row \in InboxRow /\ row.status = "ignored" /\ inbox' = [inbox EXCEPT ![l] = row]
  BY DEF IgnoreInbox, LandInv, InboxRow
<1> HIDE DEF row
<1>3. LandInv'
  BY <1>2, NothingIsNoRow DEF IgnoreInbox, LandInv, ResolvedHasLanded
<1>4. HandInv'
  BY <1>2, NothingIsNoRow DEF IgnoreInbox, HandInv, NothingLost, LandInv
<1> QED
  BY <1>1, <1>3, <1>4

LEMMA MapRouteKeeps ==
  ASSUME IngestInv, NEW f \in Forms \cup {None}, NEW o \in Orgs \cup {None}, MapRoute(f, o)
  PROVE  IngestInv'
<1> USE DEF IngestInv
<1>1. OwnInv'
  BY DEF MapRoute, OwnInv
<1> QED
  BY <1>1, IntakeStays, ChainStays, JobsStay, LandStays, HandStays DEF MapRoute, JobInv

LEMMA CrashKeeps ==
  ASSUME IngestInv, Crash
  PROVE  IngestInv'
<1> USE DEF IngestInv
<1>1. \A a \in Actors : job'[a] = Idle
  BY DEF Crash
<1>2. JobInv'
  BY <1>1, IdleFits DEF Crash, JobInv
<1>3. LandInv'
  BY <1>1, IdleFits DEF Crash, store, LandInv, ResolvedHasLanded
<1>4. OwnInv' /\ IntakeInv' /\ ChainInv' /\ HandInv'
  BY OwnStays, IntakeStays, ChainStays, HandStays DEF Crash, store
<1> QED
  BY <1>2, <1>3, <1>4

-----------------------------------------------------------------------------
(* Every step. *)

\* The row a closing call leaves is a row.
LEMMA ClosedIfOpenStays ==
  ASSUME LandInv, NEW l \in Leads, NEW i \in LmsIds, NEW k \in Leads, inbox[k] # None
  PROVE  ClosedIfOpen(l, i)[k] # None
<1> PICK row \in InboxRow \cup {None} :
      ClosedIfOpen(l, i) = [inbox EXCEPT ![l] = row] /\ (inbox[l] # None => row # None)
  BY ClosedIfOpenIs
<1> QED
  BY DEF LandInv

\* No row leaves the inbox.
LEMMA RowsStay ==
  ASSUME IngestInv, RetryInv, Next, NEW k \in Leads, inbox[k] # None
  PROVE  inbox'[k] # None
<1> USE DEF IngestInv
<1>1. CASE UNCHANGED inbox
  BY <1>1
<1>2. CASE \E a \in Actors : RecordInbox(a)
  <2> PICK a \in Actors : RecordInbox(a)
    BY <1>2
  <2> DEFINE l == job[a].lead
             row == RecordedRow(l, job[a].tenant, job[a].data)
  <2>1. l \in Leads
    BY LeadInHand DEF RecordInbox, JobInv, JobFits
  <2>2. inbox[l] # None => row # None
    <3> SUFFICES ASSUME inbox[l] # None PROVE row # None
      OBVIOUS
    <3>1. inbox[l] \in InboxRow /\ job[a] \in Job
      BY <2>1 DEF LandInv, JobInv
    <3>2. CASE inbox[l].status = "open"
      <4>1. (inbox[l].data \/ job[a].data) \in BOOLEAN /\ job[a].tenant \in Tenants \cup {None}
        BY <3>1 DEF InboxRow, Job
      <4>2. row \in InboxRow
        BY <3>1, <3>2, <4>1 DEF RecordedRow, InboxRow
      <4> QED
        BY <4>2, NothingIsNoRow
    <3>3. CASE inbox[l].status # "open"
      BY <3>3 DEF RecordedRow
    <3> QED
      BY <3>2, <3>3
  <2> HIDE DEF row
  <2>3. UNCHANGED inbox \/ inbox' = [inbox EXCEPT ![l] = row]
    BY DEF RecordInbox, row
  <2> QED
    BY <2>1, <2>2, <2>3 DEF LandInv
<1>3. CASE \E a \in Actors : CloseRetry(a)
  BY <1>3, CloseRetryRow, NothingIsNoRow DEF LandInv
<1>4. CASE \E a \in Actors : CloseApply(a)
  <2> PICK a \in Actors : CloseApply(a)
    BY <1>4
  <2>1. job[a].lead \in Leads /\ job[a].id \in LmsIds /\ inbox' = ClosedIfOpen(job[a].lead, job[a].id)
    BY DEF CloseApply, JobInv, JobFits
  <2> QED
    BY <2>1, ClosedIfOpenStays
<1>5. CASE \E c \in closing : CloseUnawaited(c)
  <2> PICK c \in closing : CloseUnawaited(c)
    BY <1>5
  <2>1. c.lead \in Leads /\ c.id \in LmsIds
    BY DEF LandInv
  <2>2. inbox' = inbox \/ inbox' = ClosedIfOpen(c.lead, c.id)
    BY DEF CloseUnawaited
  <2> QED
    BY <2>1, <2>2, ClosedIfOpenStays
<1>6. CASE \E l \in Leads : IgnoreInbox(l)
  <2> PICK l \in Leads : IgnoreInbox(l)
    BY <1>6
  <2>1. [inbox[l] EXCEPT !.status = "ignored"] \in InboxRow /\ inbox' = [inbox EXCEPT ![l] = [inbox[l] EXCEPT !.status = "ignored"]]
    BY DEF IgnoreInbox, LandInv, InboxRow
  <2> QED
    BY <2>1, NothingIsNoRow DEF LandInv
<1> QED
  BY ZenonT(60), <1>1, <1>2, <1>3, <1>4, <1>5, <1>6
  DEF Next, SyncStep, PreCheck, IntakeReplies, IntakeFails, Link, StatementFails,
      IntakeStep, IntakeMatch, IntakeCommit, IntakeRefused, IntakeUnheard,
      RequestStep, StartDelivery, Fetch, StartRetry, StartApply, StartPublic, Answer, RouteDelivery,
      RouteRetry, CloseFails, MapRoute, Crash, store

\* Who retries a lead now was at it before, or has just read its row.
Resumes(a, j) ==
  Retries(j) => \/ Retries(job[a]) /\ j.lead = job[a].lead
                \/ j.lead \in Leads /\ inbox[j.lead] # None

LEMMA RestIsNoRetry == ASSUME NEW a PROVE ~Retries(Rest(a))
  BY DEF Retries, Rest, Idle

LEMMA OneResumes ==
  ASSUME JobInv, NEW a \in Actors, NEW j, Become(a, j), Resumes(a, j), NEW s \in Actors
  PROVE  Resumes(s, job'[s])
<1>1. CASE s = a
  BY <1>1 DEF JobInv, Become
<1>2. CASE s # a
  BY <1>2 DEF JobInv, Become, Resumes
<1> QED
  BY <1>1, <1>2

LEMMA StepResumes ==
  ASSUME JobInv, NEW a \in Actors, NEW pc, Step(a, pc), job[a].pc # "idle", NEW s \in Actors
  PROVE  Resumes(s, job'[s])
<1>1. job[a] \in Job
  BY DEF JobInv
<1>2. Resumes(a, [job[a] EXCEPT !.pc = pc])
  BY <1>1 DEF Resumes, Retries, Job
<1> QED
  BY <1>2, OneResumes DEF Step

LEMMA DoneResumes ==
  ASSUME JobInv, NEW a \in Actors, DoneWith(a), NEW s \in Actors
  PROVE  Resumes(s, job'[s])
  BY OneResumes, RestIsNoRetry DEF DoneWith, Resumes

LEMMA LandedResumes ==
  ASSUME JobInv, NEW a \in Actors, NEW i, Landed(a, i), job[a].pc # "idle", NEW s \in Actors
  PROVE  Resumes(s, job'[s])
<1>1. CASE job[a].kind = "delivery"
  BY <1>1, DoneResumes DEF Landed
<1>2. CASE job[a].kind # "delivery"
  <2>1. Resumes(a, [job[a] EXCEPT !.pc = "close", !.id = i])
    BY DEF JobInv, Job, Resumes, Retries
  <2> QED
    BY <1>2, <2>1, OneResumes DEF Landed
<1> QED
  BY <1>1, <1>2

LEMMA OnlyRetries ==
  ASSUME JobInv, Next, NEW s \in Actors
  PROVE  Resumes(s, job'[s])
<1>1. CASE UNCHANGED job
  BY <1>1 DEF Resumes, Retries, JobInv
<1>2. ASSUME NEW a \in Actors, SyncStep(a)
      PROVE  Resumes(s, job'[s])
  <2>1. CASE PreCheck(a)
    BY <2>1, LandedResumes, StepResumes DEF PreCheck
  <2>2. CASE IntakeReplies(a)
    <3>1. Resumes(a, Idle)
      BY DEF Resumes, Retries, Idle
    <3>2. Resumes(a, [job[a] EXCEPT !.pc = "link", !.id = intake[a].found])
      BY <2>2 DEF IntakeReplies, JobInv, Job, Resumes, Retries
    <3> QED
      BY <2>2, <3>1, <3>2, OneResumes DEF IntakeReplies
  <2>3. CASE IntakeFails(a) \/ StatementFails(a)
    BY <2>3, StepResumes, DoneResumes DEF IntakeFails, StatementFails, Throw
  <2>4. CASE Link(a)
    BY <2>4, LandedResumes DEF Link
  <2> QED
    BY <1>2, <2>1, <2>2, <2>3, <2>4 DEF SyncStep
<1>3. ASSUME NEW a \in Actors, IntakeStep(a) \/ \E o \in Orgs, c \in Contacts : StartPublic(a, o, c)
      PROVE  Resumes(s, job'[s])
  <2>1. CASE IntakeStep(a)
    BY <1>1, <2>1 DEF IntakeStep, IntakeMatch, IntakeCommit, IntakeRefused, IntakeUnheard
  <2>2. CASE \E o \in Orgs, c \in Contacts : StartPublic(a, o, c)
    <3> PICK o \in Orgs, c \in Contacts : StartPublic(a, o, c)
      BY <2>2
    <3>1. Resumes(a, [Idle EXCEPT !.pc = "wait", !.kind = "public", !.org = o])
      BY DEF Resumes, Retries, Idle
    <3> QED
      BY <3>1, OneResumes DEF StartPublic, Begin
  <2> QED
    BY <1>3, <2>1, <2>2
<1>4. ASSUME NEW a \in Actors, NEW batch \in SUBSET Leads, StartDelivery(a, batch)
      PROVE  Resumes(s, job'[s])
  <2>1. Resumes(a, [Idle EXCEPT !.pc = "next", !.kind = "delivery", !.todo = batch])
    BY DEF Resumes, Retries, Idle
  <2> QED
    BY <1>4, <2>1, OneResumes DEF StartDelivery, Begin
<1>5. ASSUME NEW a \in Actors, NEW l \in Leads, Fetch(a, l) \/ StartRetry(a, l) \/ \E o \in Orgs : StartApply(a, l, o)
      PROVE  Resumes(s, job'[s])
  <2>1. CASE Fetch(a, l)
    <3> PICK got \in BOOLEAN :
          Become(a, [job[a] EXCEPT !.pc = IF got THEN "route" ELSE "record", !.lead = l,
                                   !.todo = @ \ {l}, !.data = got, !.tenant = AppTenant])
      BY <2>1 DEF Fetch
    <3>1. job[a] \in Job /\ job[a].kind = "delivery"
      BY <2>1 DEF Fetch, JobInv, JobFits
    <3>2. Resumes(a, [job[a] EXCEPT !.pc = IF got THEN "route" ELSE "record", !.lead = l,
                                    !.todo = @ \ {l}, !.data = got, !.tenant = AppTenant])
      BY <3>1 DEF Resumes, Retries, Job
    <3> QED
      BY <3>2, OneResumes
  <2>2. CASE StartRetry(a, l)
    <3>1. Resumes(a, [Idle EXCEPT !.pc = "route", !.kind = "retry", !.lead = l, !.tenant = inbox[l].tenant])
      BY <2>2 DEF StartRetry, Resumes, Retries, Idle
    <3> QED
      BY <2>2, <3>1, OneResumes DEF StartRetry, Begin
  <2>3. CASE \E o \in Orgs : StartApply(a, l, o)
    <3> PICK o \in Orgs : StartApply(a, l, o)
      BY <2>3
    <3>1. Resumes(a, [Idle EXCEPT !.pc = "check", !.kind = "apply", !.lead = l, !.org = o])
      BY DEF Resumes, Retries, Idle
    <3> QED
      BY <3>1, OneResumes DEF StartApply, Begin
  <2> QED
    BY <1>5, <2>1, <2>2, <2>3
<1>6. ASSUME NEW a \in Actors, Answer(a) \/ RecordInbox(a) \/ CloseRetry(a) \/ CloseApply(a) \/ CloseFails(a)
      PROVE  Resumes(s, job'[s])
  <2>1. Resumes(a, Idle) /\ Resumes(a, Rest(a))
    BY RestIsNoRetry DEF Resumes, Retries, Idle
  <2> QED
    BY <1>6, <2>1, OneResumes, DoneResumes DEF Answer, RecordInbox, CloseRetry, CloseApply, CloseFails
<1>7. ASSUME NEW a \in Actors, RouteDelivery(a)
      PROVE  Resumes(s, job'[s])
  <2> DEFINE o == RouteOf(job[a].lead, AppTenant)
             t == IF AppTenant # None \/ o = None THEN AppTenant ELSE TenantOf[o]
             j == [job[a] EXCEPT !.org = o, !.tenant = t,
                     !.pc = IF o = None \/ PhoneOf[job[a].lead] = None THEN "record" ELSE "check"]
  <2>1. job[a] \in Job /\ job[a].kind = "delivery"
    BY <1>7 DEF RouteDelivery, JobInv
  <2> HIDE DEF o, t
  <2>2. Resumes(a, j)
    BY <2>1 DEF Resumes, Retries, Job
  <2>3. DoneWith(a) \/ Become(a, j)
    BY <1>7 DEF RouteDelivery, o, t
  <2> HIDE DEF j
  <2> QED
    BY <2>2, <2>3, OneResumes, DoneResumes
<1>8. ASSUME NEW a \in Actors, RouteRetry(a)
      PROVE  Resumes(s, job'[s])
  <2> DEFINE o == RouteOf(job[a].lead, None)
             j == [job[a] EXCEPT !.pc = "check", !.org = o]
  <2> HIDE DEF o
  <2>1. Resumes(a, j)
    BY <1>8 DEF RouteRetry, JobInv, Job, Resumes, Retries
  <2>2. DoneWith(a) \/ Become(a, j)
    BY <1>8 DEF RouteRetry, o
  <2> HIDE DEF j
  <2> QED
    BY <2>1, <2>2, OneResumes, DoneResumes
<1>9. CASE Crash
  BY <1>9 DEF Crash, Resumes, Retries, Idle
<1>10. CASE \/ \E c \in closing : CloseUnawaited(c)
            \/ \E l \in Leads : IgnoreInbox(l)
            \/ \E f \in Forms \cup {None}, o \in Orgs \cup {None} : MapRoute(f, o)
  BY <1>1, <1>10 DEF CloseUnawaited, IgnoreInbox, MapRoute
<1> QED
  BY <1>2, <1>3, <1>4, <1>5, <1>6, <1>7, <1>8, <1>9, <1>10 DEF Next, RequestStep

LEMMA RetryKeeps ==
  ASSUME IngestInv, RetryInv, Next
  PROVE  RetryInv'
<1> SUFFICES ASSUME NEW s \in Actors, Retries(job'[s])
             PROVE  inbox'[job'[s].lead] # None
  BY DEF RetryInv, Retries
<1>1. job'[s].lead \in Leads /\ inbox[job'[s].lead] # None
  <2>1. CASE Retries(job[s]) /\ job'[s].lead = job[s].lead
    BY <2>1 DEF Retries, RetryInv, IngestInv, JobInv, JobFits, Job
  <2> QED
    BY <2>1, OnlyRetries DEF Resumes, IngestInv
<1> QED
  BY <1>1, RowsStay

LEMMA StepKeeps ==
  ASSUME IngestInv, RetryInv, Next
  PROVE  IngestInv'
<1>1. ASSUME NEW a \in Actors, SyncStep(a) PROVE IngestInv'
  BY <1>1, PreCheckKeeps, IntakeRepliesKeeps, IntakeFailsKeeps, LinkKeeps, StatementFailsKeeps DEF SyncStep
<1>2. ASSUME NEW a \in Actors, IntakeStep(a) PROVE IngestInv'
  BY <1>2, IntakeMatchKeeps, IntakeCommitKeeps, IntakeRefusedKeeps, IntakeUnheardKeeps DEF IntakeStep
<1>3. ASSUME NEW a \in Actors, RequestStep(a) PROVE IngestInv'
  BY <1>3, StartDeliveryKeeps, FetchKeeps, AnswerKeeps, RouteDeliveryKeeps, RecordInboxKeeps, StartPublicKeeps,
     StartRetryKeeps, RouteRetryKeeps, CloseRetryKeeps, StartApplyKeeps, CloseApplyKeeps, CloseFailsKeeps
     DEF RequestStep
<1> QED
  BY <1>1, <1>2, <1>3, CloseUnawaitedKeeps, IgnoreInboxKeeps, MapRouteKeeps, CrashKeeps DEF Next

\* The invariant of LeadIngest.
LEMMA Invariance == Spec => [](IngestInv /\ RetryInv)
<1>1. Init => IngestInv /\ RetryInv
  <2> SUFFICES ASSUME Init PROVE IngestInv /\ RetryInv
    OBVIOUS
  <2>1. OwnInv /\ HandInv
    BY IngestAssumption DEF Init, OwnInv, HandInv, NothingLost
  <2>2. JobInv /\ RetryInv
    BY IdleFits DEF Init, JobInv, RetryInv, Retries
  <2>3. IntakeInv
    BY DEF Init, IntakeInv
  <2>4. ChainInv
    BY EmptySeq DEF Init, ChainInv
  <2>5. LandInv
    BY IdleFits DEF Init, LandInv, ResolvedHasLanded, Ids
  <2> QED
    BY <2>1, <2>2, <2>3, <2>4, <2>5 DEF IngestInv
<1>2. IngestInv /\ RetryInv /\ [Next]_vars => (IngestInv /\ RetryInv)'
  <2> SUFFICES ASSUME IngestInv, RetryInv, [Next]_vars PROVE (IngestInv /\ RetryInv)'
    OBVIOUS
  <2>1. CASE Next
    BY <2>1, StepKeeps, RetryKeeps
  <2>2. CASE UNCHANGED vars
    <3>1. OwnInv' /\ JobInv' /\ IntakeInv' /\ ChainInv' /\ LandInv' /\ HandInv'
      BY <2>2, OwnStays, JobsStay, IntakeStays, ChainStays, LandStays, HandStays DEF vars, IngestInv, JobInv
    <3>2. RetryInv'
      BY <2>2 DEF vars, RetryInv, Retries
    <3> QED
      BY <3>1, <3>2 DEF IngestInv
  <2> QED
    BY <2>1, <2>2
<1> QED
  BY <1>1, <1>2, PTL DEF Spec

-----------------------------------------------------------------------------
(* The theorems. *)

\* Every variable keeps its shape, whatever overlaps, fails or crashes.
THEOREM TypeCorrect == Spec => []TypeOK
<1>1. IngestInv => TypeOK
  BY DEF IngestInv, OwnInv, JobInv, IntakeInv, ChainInv, LandInv, HandInv, TypeOK
<1> QED
  BY <1>1, Invariance, PTL

\* createWebhookLead: however its transactions overlap, the leads of one phone
\* in one branch are one chain, of which the newest alone is active.
THEOREM LeadsAreOneChain == Spec => []OneChain
<1>1. IngestInv => OneChain
  <2> SUFFICES ASSUME ChainInv PROVE OneChain
    BY DEF IngestInv
  <2> SUFFICES ASSUME NEW i \in 1 .. Len(lms)
               PROVE  LET later == {j \in i + 1 .. Len(lms) : SamePhone(i, j)}
                      IN IF later = {} THEN lms[i].active /\ lms[i].next = None
                         ELSE /\ ~lms[i].active
                              /\ lms[i].next \in later /\ \A j \in later : lms[i].next <= j
    BY DEF OneChain
  <2> DEFINE later == {j \in i + 1 .. Len(lms) : SamePhone(i, j)}
  <2>1. Linked(i)
    BY DEF ChainInv
  <2>2. CASE later = {}
    BY <2>1, <2>2 DEF Linked
  <2>3. CASE later # {}
    BY <2>1, <2>3 DEF Linked
  <2> QED
    BY <2>2, <2>3
<1> QED
  BY <1>1, Invariance, PTL

\* The webhook: a lead a delivery has dealt with is linked or in the inbox,
\* unless it is a test lead or the write to the inbox failed too.
THEOREM NoLeadIsLost == Spec => []NothingLost
<1>1. IngestInv => NothingLost
  BY DEF IngestInv, HandInv
<1> QED
  BY <1>1, Invariance, PTL

\* The inbox: a row is resolved for a lead that has landed, and names it.
THEOREM ResolvedRowsLanded == Spec => []ResolvedHasLanded
<1>1. IngestInv => ResolvedHasLanded
  BY DEF IngestInv, LandInv
<1> QED
  BY <1>1, Invariance, PTL

\* syncLeadToDatabase: the first link of a Meta lead stays.
THEOREM LinksStay == Spec => LandedStays
<1>1. IngestInv /\ [Next]_vars => [\A l \in Leads : metaRows[l] # None => metaRows'[l] = metaRows[l]]_vars
  <2> SUFFICES ASSUME IngestInv, Next, NEW l \in Leads, metaRows[l] # None
               PROVE  metaRows'[l] = metaRows[l]
    BY DEF vars
  <2>1. CASE \E a \in Actors : Link(a)
    BY <2>1 DEF Link, LinkedTo, IngestInv, LandInv
  <2>2. CASE ~\E a \in Actors : Link(a)
    <3>1. UNCHANGED metaRows
      BY ZenonT(60), <2>2
      DEF Next, SyncStep, PreCheck, IntakeReplies, IntakeFails, StatementFails,
          IntakeStep, IntakeMatch, IntakeCommit, IntakeRefused, IntakeUnheard,
          RequestStep, StartDelivery, Fetch, StartRetry, StartApply, StartPublic, Answer, RouteDelivery,
          RecordInbox, RouteRetry, CloseRetry, CloseApply, CloseFails, CloseUnawaited, IgnoreInbox, MapRoute, Crash, store
    <3> QED
      BY <3>1
  <2> QED
    BY <2>1, <2>2
<1> QED
  BY <1>1, Invariance, PTL DEF Spec, LandedStays

-----------------------------------------------------------------------------
(* LeadRouting.  What a transaction wrote belongs to it alone, so a row   *)
(* under its lock is, in the table, what it was when the statement read it. *)

LocksInv == \A q, r \in Requests : q # r => DOMAIN tx[q].writes \cap DOMAIN tx[r].writes = {}

\* A re-run wrote only rows that have nobody, an intake the older lead.
FillersOf(r) ==
  /\ tx[r].kind = "inserting" => DOMAIN tx[r].writes \subseteq There
  /\ tx[r].kind = "rerun" =>
       /\ \A c \in tx[r].todo : c.l \in There
       /\ \A l \in DOMAIN tx[r].writes : l \in There /\ lead[l].owner = Null

\* A fan-out has given the confirmed type to every lead that is still the same
\* and that it is not about to move.
FanOutOf(r) ==
  tx[r].kind \in {"selected", "fanout"} =>
    /\ tx[r].todo \subseteq There /\ DOMAIN tx[r].writes \subseteq There
    /\ \A l \in same[r] : l \in There /\ lead[l].camp = tx[r].camp
    /\ tx[r].kind = "fanout" => \A l \in same[r] \ tx[r].todo : Seen(r)[l].type = tx[r].type

RoutingInv == RoutingTypeOK /\ LocksInv /\ \A r \in Requests : FillersOf(r) /\ FanOutOf(r)

-----------------------------------------------------------------------------
(* Least and greatest row numbers *)

LEMMA LeastRow ==
  ASSUME NEW S \in SUBSET LeadRows, S # {}
  PROVE  First(S) \in S /\ \A k \in S : First(S) <= k
<1> DEFINE R == OpToRel(<, Nat)
<1>1. IsWellFoundedOn(R, Nat) /\ S \subseteq Nat
  BY NatLessThanWellFounded, RoutingAssumption
<1>2. \A x, y \in Nat : <<x, y>> \in R <=> x < y
  BY DEF OpToRel
<1> HIDE DEF R
<1>3. PICK x \in S : \A y \in S : ~(<<y, x>> \in R)
  BY <1>1, WFMin
<1>4. ASSUME NEW y \in S
      PROVE  x <= y
  <2>1. x \in Nat /\ y \in Nat /\ ~(y < x)
    BY <1>1, <1>2, <1>3
  <2> QED
    BY <2>1
<1> QED
  BY <1>4 DEF First

\* Of the sets of row numbers without a greatest take one with the fewest
\* members: without one of them it has a greatest.
LEMMA GreatestRow ==
  ASSUME NEW T \in SUBSET LeadRows, T # {}
  PROVE  \E m \in T : \A k \in T : k <= m
<1> DEFINE Unbounded(S) == S # {} /\ \A m \in S : \E k \in S : ~(k <= m)
           Sizes == {n \in Nat : \E S \in SUBSET LeadRows : Unbounded(S) /\ Cardinality(S) = n}
           R == OpToRel(<, Nat)
<1>1. IsWellFoundedOn(R, Nat) /\ LeadRows \subseteq Nat /\ IsFiniteSet(LeadRows)
  BY NatLessThanWellFounded, RoutingAssumption
<1>2. \A x, y \in Nat : <<x, y>> \in R <=> x < y
  BY DEF OpToRel
<1>3. \A S \in SUBSET LeadRows : IsFiniteSet(S) /\ Cardinality(S) \in Nat
  BY <1>1, FS_Subset, FS_CardinalityType
<1> HIDE DEF R
<1> SUFFICES ASSUME Unbounded(T) PROVE FALSE
  OBVIOUS
<1>4. Sizes # {} /\ Sizes \subseteq Nat
  BY <1>3
<1>5. PICK n \in Sizes : \A k \in Sizes : ~(<<k, n>> \in R)
  <2> HIDE DEF Sizes
  <2> QED
    BY <1>1, <1>4, WFMin
<1>6. PICK S \in SUBSET LeadRows : Unbounded(S) /\ Cardinality(S) = n
  BY <1>5
<1>7. PICK x \in S : TRUE
  BY <1>6
<1> DEFINE U == S \ {x}
<1>8. IsFiniteSet(U) /\ U \in SUBSET LeadRows /\ Cardinality(U) = n - 1 /\ n \in Nat /\ Cardinality(U) \in Nat
  BY <1>3, <1>4, <1>6, <1>7, FS_RemoveElement
<1>9. ~Unbounded(U)
  <2>1. Cardinality(U) \notin Sizes
    <3>1. n - 1 < n /\ n - 1 \in Nat
      BY <1>8
    <3>2. <<n - 1, n>> \in R
      BY <1>2, <1>8, <3>1
    <3> QED
      BY <1>5, <1>8, <3>2
  <2> QED
    BY <1>8, <2>1
<1>10. CASE U = {}
  <2>1. S = {x} /\ x \in Nat
    BY <1>1, <1>6, <1>7, <1>10
  <2>2. x <= x
    BY <2>1
  <2> QED
    BY <1>6, <2>1, <2>2
<1>11. CASE U # {}
  <2>1. PICK m \in U : \A k \in U : k <= m
    BY <1>9, <1>11
  <2>2. m \in Nat /\ x \in Nat /\ m \in S /\ S \subseteq Nat /\ S = U \cup {x}
    BY <1>1, <1>6, <1>7, <2>1
  <2>3. \A k \in S : x <= m => k <= m
    BY <2>1, <2>2
  <2>4. \A k \in S : ~(x <= m) => k <= x
    <3> HIDE DEF U
    <3> QED
      BY <2>1, <2>2
  <2> QED
    BY <1>6, <1>7, <2>2, <2>3, <2>4
<1> QED
  BY <1>10, <1>11

-----------------------------------------------------------------------------
(* Transactions by what they are doing *)

Writes == UNION {[ls -> Lead] : ls \in SUBSET LeadRows}
Arriving == [kind : {"arriving"}, org : Branches, camp : Campaigns \cup {Null}, type : Types \cup {Null}, writes : {NoWrites}]
Inserting == [kind : {"inserting"}, row : Lead, writes : Writes]
BatchDone == [kind : {"batchDone"}, next : LeadRows, writes : {NoWrites}]
Confirmed == [kind : {"confirmed"}, camp : Campaigns, type : Types, writes : {NoWrites}]
Rerun == [kind : {"rerun"}, todo : SUBSET Target, next : LeadRows \cup {Null}, writes : Writes]
FanOut == [kind : {"selected", "fanout"}, camp : Campaigns, type : Types, affected : SUBSET LeadRows,
           todo : SUBSET LeadRows, ads : SUBSET Branches, writes : Writes]

LEMMA TxSets ==
  ASSUME NEW x
  PROVE  IsTx(x) <=> x \in {NoTx} \cup Arriving \cup Inserting \cup BatchDone \cup Confirmed \cup Rerun \cup FanOut
<1>1. ASSUME IsTx(x)
      PROVE  x \in {NoTx} \cup Arriving \cup Inserting \cup BatchDone \cup Confirmed \cup Rerun \cup FanOut
  <2>1. CASE \E ls \in SUBSET LeadRows :
               x \in [kind : {"rerun"}, todo : SUBSET Target, next : LeadRows \cup {Null}, writes : [ls -> Lead]]
    BY <2>1 DEF Rerun, Writes
  <2>2. CASE \E ls \in SUBSET LeadRows :
               x \in [kind : {"selected", "fanout"}, camp : Campaigns, type : Types, affected : SUBSET LeadRows,
                      todo : SUBSET LeadRows, ads : SUBSET Branches, writes : [ls -> Lead]]
    BY <2>2 DEF FanOut, Writes
  <2>3. CASE \E ls \in SUBSET LeadRows : x \in [kind : {"inserting"}, row : Lead, writes : [ls -> Lead]]
    BY <2>3 DEF Inserting, Writes
  <2> QED
    BY <1>1, <2>1, <2>2, <2>3 DEF IsTx, Arriving, BatchDone, Confirmed
<1>2. ASSUME x \in Rerun PROVE IsTx(x)
  <2>1. PICK ls \in SUBSET LeadRows : x.writes \in [ls -> Lead]
    BY <1>2 DEF Rerun, Writes
  <2>2. x \in [kind : {"rerun"}, todo : SUBSET Target, next : LeadRows \cup {Null}, writes : [ls -> Lead]]
    BY <1>2, <2>1 DEF Rerun
  <2> QED
    BY <2>2 DEF IsTx
<1>3. ASSUME x \in FanOut PROVE IsTx(x)
  <2>1. PICK ls \in SUBSET LeadRows : x.writes \in [ls -> Lead]
    BY <1>3 DEF FanOut, Writes
  <2>2. x \in [kind : {"selected", "fanout"}, camp : Campaigns, type : Types, affected : SUBSET LeadRows,
               todo : SUBSET LeadRows, ads : SUBSET Branches, writes : [ls -> Lead]]
    BY <1>3, <2>1 DEF FanOut
  <2> QED
    BY <2>2 DEF IsTx
<1>4. ASSUME x \in Inserting PROVE IsTx(x)
  <2>1. PICK ls \in SUBSET LeadRows : x.writes \in [ls -> Lead]
    BY <1>4 DEF Inserting, Writes
  <2>2. x \in [kind : {"inserting"}, row : Lead, writes : [ls -> Lead]]
    BY <1>4, <2>1 DEF Inserting
  <2> QED
    BY <2>2 DEF IsTx
<1>5. ASSUME x \in {NoTx} \cup Arriving \cup BatchDone \cup Confirmed PROVE IsTx(x)
  BY <1>5 DEF IsTx, Arriving, BatchDone, Confirmed
<1> QED
  BY <1>1, <1>2, <1>3, <1>4, <1>5

LEMMA WritesGood ==
  /\ NoWrites \in Writes /\ DOMAIN NoWrites = {}
  /\ \A f \in Writes : DOMAIN f \subseteq LeadRows /\ \A l \in DOMAIN f : f[l] \in Lead
  /\ \A ls \in SUBSET LeadRows : \A f \in [ls -> Lead] : f \in Writes
<1>1. NoWrites \in [{} -> Lead] /\ DOMAIN NoWrites = {}
  BY DEF NoWrites
<1> QED
  BY <1>1 DEF Writes

\* What the kind of a transaction tells of it.
LEMMA TxKinds ==
  ASSUME NEW x, IsTx(x)
  PROVE  /\ x = NoTx <=> x.kind = "idle"
         /\ x.kind = "arriving" => x \in Arriving
         /\ x.kind = "inserting" => x \in Inserting
         /\ x.kind = "batchDone" => x \in BatchDone
         /\ x.kind = "confirmed" => x \in Confirmed
         /\ x.kind = "rerun" => x \in Rerun
         /\ x.kind \in {"selected", "fanout"} => x \in FanOut
         /\ x.writes \in Writes
         /\ x.kind \notin {"inserting", "rerun", "selected", "fanout"} => x.writes = NoWrites
BY TxSets, WritesGood DEF NoTx, Arriving, Inserting, BatchDone, Confirmed, Rerun, FanOut

LEMMA SeenGood ==
  ASSUME RoutingTypeOK, NEW r \in Requests
  PROVE  /\ Seen(r) \in [LeadRows -> Lead \cup {Absent}]
         /\ \A l \in LeadRows : l \in There => Seen(r)[l] \in Lead
         /\ \A l \in DOMAIN tx[r].writes : l \in LeadRows /\ Seen(r)[l] = tx[r].writes[l] /\ Seen(r)[l] \in Lead
         /\ \A l \in LeadRows \ DOMAIN tx[r].writes : Seen(r)[l] = lead[l]
<1>1. tx[r].writes \in Writes
  BY TxKinds DEF RoutingTypeOK
<1>2. \A l \in DOMAIN tx[r].writes : l \in LeadRows /\ tx[r].writes[l] \in Lead
  BY <1>1, WritesGood
<1> QED
  BY <1>2, RowAssumption DEF Seen, There, RoutingTypeOK

LEMMA WroteGood ==
  ASSUME RoutingTypeOK, NEW r \in Requests, NEW l \in LeadRows, NEW row \in Lead
  PROVE  /\ Wrote(r, l, row) \in Writes /\ DOMAIN Wrote(r, l, row) = DOMAIN tx[r].writes \cup {l}
         /\ Wrote(r, l, row)[l] = row
         /\ \A k \in DOMAIN tx[r].writes \ {l} : Wrote(r, l, row)[k] = tx[r].writes[k]
<1>1. tx[r].writes \in Writes
  BY TxKinds DEF RoutingTypeOK
<1>2. /\ DOMAIN tx[r].writes \subseteq LeadRows
      /\ \A k \in DOMAIN tx[r].writes : tx[r].writes[k] \in Lead
  BY <1>1, WritesGood
<1>3. Wrote(r, l, row) \in [DOMAIN tx[r].writes \cup {l} -> Lead]
  BY <1>2 DEF Wrote
<1>4. DOMAIN tx[r].writes \cup {l} \in SUBSET LeadRows
  BY <1>2
<1> QED
  BY <1>3, <1>4, WritesGood DEF Wrote

-----------------------------------------------------------------------------
(* Picks, and the rows made of them *)

LEMMA PickGood ==
  ASSUME NEW table, NEW o \in Branches, NEW t, NEW pick \in Picks(table, o, t)
  PROVE  pick.user \in Users \cup {Null} /\ pick.reason \in Reasons \cup {Null}
<1>1. Eligible(o, t) \subseteq Users /\ Best(table, o, t) \subseteq Users
  BY RoutingAssumption DEF Eligible, InDepartment, Weighted, Best
<1>2. WhyNobody(o, t) \in Reasons
  BY DEF WhyNobody, Reasons
<1> QED
  BY <1>1, <1>2 DEF Picks

LEMMA RowsGood ==
  ASSUME NEW row \in Lead, NEW t \in Types \cup {Null}, NEW pick,
         pick.user \in Users \cup {Null}, pick.reason \in Reasons \cup {Null}
  PROVE  Filled(row, t, pick) \in Lead /\ Moved(row, t, pick) \in Lead /\ Moved(row, t, pick).type = t
BY DEF Filled, Moved, Or, Lead

LEMMA TriggeredGood ==
  ASSUME NEW row \in Lead, RoutingTypeOK
  PROVE  TypedByTrigger(row) \in Lead
<1>1. row.org \in Branches /\ row.camp \in Campaigns \cup {Null}
  BY DEF Lead
<1>2. CASE row.camp # Null /\ adType[<<row.org, row.camp>>] # Absent
  <2>1. adType[<<row.org, row.camp>>] \in Types \cup {Null}
    BY <1>1, <1>2 DEF RoutingTypeOK
  <2> QED
    BY <2>1 DEF TypedByTrigger, Lead
<1>3. CASE ~(row.camp # Null /\ adType[<<row.org, row.camp>>] # Absent)
  BY <1>3 DEF TypedByTrigger
<1> QED
  BY <1>2, <1>3

LEMMA CallerTypeGood ==
  ASSUME NEW t \in Types \cup {Null}, NEW d \in Types \cup {Null}
  PROVE  TypeFor(t, d) \in Types \cup {Null}
BY RoutingAssumption DEF TypeFor

LEMMA BatchGood ==
  ASSUME RoutingTypeOK, NEW after
  PROVE  /\ Batch(after) \in Rerun /\ Batch(after).kind = "rerun" /\ Batch(after).writes = NoWrites
         /\ \A c \in Batch(after).todo : c.l \in There
<1> DEFINE all == Candidates(after)
           some == FirstOf(all, BatchLimit)
           todo == {[l |-> l, type |-> Or(lead[l].type, DefaultType)] : l \in some}
<1>1. some \subseteq all /\ all \subseteq There /\ There \subseteq LeadRows
  BY DEF Candidates, FirstOf, Gap, There
<1>2. ASSUME NEW l \in some
      PROVE  [l |-> l, type |-> Or(lead[l].type, DefaultType)] \in Target
  <2>1. lead[l] \in Lead /\ l \in LeadRows
    BY <1>1 DEF There, RoutingTypeOK
  <2>2. lead[l].type \in Types \cup {Null} /\ DefaultType \in Types \cup {Null}
    BY <2>1, RoutingAssumption DEF Lead
  <2> QED
    BY <2>1, <2>2 DEF Or, Target
<1>3. NextCursor(all, some) \in LeadRows \cup {Null}
  <2>1. CASE Cardinality(all) > Cardinality(some)
    <3>1. all # {}
      <4>1. ASSUME all = {} PROVE FALSE
        <5>1. some = {} /\ Cardinality({}) = 0
          BY <1>1, <4>1, FS_EmptySet
        <5>2. Cardinality(all) = 0 /\ Cardinality(some) = 0
          <6> HIDE DEF all, some
          <6> QED
            BY <4>1, <5>1
        <5> HIDE DEF all, some
        <5> QED
          BY <2>1, <5>2
      <4> QED
        BY <4>1
    <3>2. First(all) \in all /\ \A k \in all : First(all) <= k
      <4> HIDE DEF all
      <4> QED
        BY <1>1, <3>1, LeastRow
    <3>3. {k \in all : k < First(all)} = {}
      <4>1. all \subseteq Nat
        BY <1>1, RoutingAssumption
      <4> DEFINE x == First(all)
      <4>2. x \in all /\ \A k \in all : x <= k
        BY <3>2
      <4> HIDE DEF all, x
      <4>3. \A k \in all : ~(k < x)
        BY <4>1, <4>2
      <4> QED
        BY <4>3 DEF x
    <3>4. First(all) \in some
      <4>1. Cardinality({}) = 0 /\ 0 < BatchLimit
        BY FS_EmptySet, RoutingAssumption
      <4> HIDE DEF all
      <4> QED
        BY <3>2, <3>3, <4>1 DEF FirstOf
    <3>5. \E m \in some : \A k \in some : k <= m
      <4> HIDE DEF some
      <4> QED
        BY <1>1, <3>4, GreatestRow
    <3> HIDE DEF all, some
    <3> QED
      BY <1>1, <2>1, <3>5 DEF NextCursor
  <2>2. CASE ~(Cardinality(all) > Cardinality(some))
    BY <2>2 DEF NextCursor
  <2> QED
    BY <2>1, <2>2
<1>4. Batch(after) = [kind |-> "rerun", writes |-> NoWrites, todo |-> todo, next |-> NextCursor(all, some)]
  BY DEF Batch
<1>5. todo \subseteq Target /\ \A c \in todo : c.l \in There
  BY <1>1, <1>2
<1> HIDE DEF all, some, todo
<1> QED
  BY <1>3, <1>4, <1>5, WritesGood DEF Rerun

-----------------------------------------------------------------------------
(* What is left alone stays good *)

\* The leads a transaction set out with only become fewer while it works.
LEMMA SameShrinks ==
  ASSUME StillSame, NEW r \in Requests
  PROVE  /\ same'[r] = {} \/ tx'[r] # NoTx
         /\ tx'[r] = tx[r] => same'[r] \subseteq {l \in same[r] : lead'[l] = lead[l]}
         /\ tx[r].kind = "selected" /\ tx'[r].kind = "fanout" => same'[r] \subseteq {l \in same[r] : lead'[l] = lead[l]}
         /\ tx[r].kind = "fanout" /\ tx'[r].kind = "fanout" => same'[r] \subseteq {l \in same[r] : lead'[l] = lead[l]}
         /\ tx[r].kind = "confirmed" /\ tx'[r].kind = "selected" => same'[r] = tx'[r].affected
BY DEF StillSame, NoTx

LEMMA SameType ==
  ASSUME RoutingTypeOK, StillSame, \A r \in Requests : IsTx(tx'[r])
  PROVE  same' \in [Requests -> SUBSET LeadRows]
<1>1. ASSUME NEW r \in Requests, tx'[r].kind = "selected"
      PROVE  tx'[r].affected \subseteq LeadRows
  BY <1>1, TxKinds DEF FanOut
<1> QED
  BY <1>1 DEF StillSame, RoutingTypeOK

LEMMA OthersKeep ==
  ASSUME RoutingTypeOK, StillSame, NEW q \in Requests, tx'[q] = tx[q],
         There \subseteq There', \A l \in DOMAIN tx[q].writes : lead'[l] = lead[l],
         FillersOf(q), FanOutOf(q)
  PROVE  FillersOf(q)' /\ FanOutOf(q)'
<1>1. FillersOf(q)'
  BY DEF FillersOf
<1>2. same'[q] \subseteq {l \in same[q] : lead'[l] = lead[l]}
  BY SameShrinks
<1>3. ASSUME tx[q].kind = "fanout", NEW l \in same'[q] \ tx[q].todo
      PROVE  Seen(q)'[l].type = tx[q].type
  <2>1. l \in same[q] \ tx[q].todo /\ lead'[l] = lead[l] /\ l \in LeadRows
    BY <1>2, <1>3 DEF RoutingTypeOK
  <2>2. Seen(q)[l].type = tx[q].type
    BY <1>3, <2>1 DEF FanOutOf
  <2>3. Seen(q)'[l] = Seen(q)[l]
    BY <2>1 DEF Seen
  <2> QED
    BY <2>2, <2>3
<1>4. FanOutOf(q)'
  BY <1>2, <1>3 DEF FanOutOf
<1> QED
  BY <1>1, <1>4

\* A step of one transaction that commits nothing.
LEMMA RequestMoveKeeps ==
  ASSUME RoutingInv, StillSame, NEW r \in Requests, NEW x, IsTx(x), tx' = [tx EXCEPT ![r] = x],
         lead' = lead, adType' = adType, mapping' \in [Campaigns -> Types \cup {Null}], weight' = weight,
         edits' \in 0 .. MaxEdits,
         \A l \in DOMAIN x.writes : l \in DOMAIN tx[r].writes \/ ~LockedForIt(r, l),
         FillersOf(r)', FanOutOf(r)'
  PROVE  RoutingInv'
<1>1. tx'[r] = x /\ DOMAIN tx' = Requests /\ \A q \in Requests \ {r} : tx'[q] = tx[q]
  BY DEF RoutingInv, RoutingTypeOK
<1>2. \A q \in Requests : IsTx(tx'[q])
  BY <1>1 DEF RoutingInv, RoutingTypeOK
<1>3. RoutingTypeOK'
  BY <1>1, <1>2, SameType DEF RoutingInv, RoutingTypeOK
<1>4. ASSUME NEW q \in Requests, q # r
      PROVE  FillersOf(q)' /\ FanOutOf(q)'
  BY <1>1, <1>4, OthersKeep DEF RoutingInv, There
<1>5. \A q \in Requests \ {r} : DOMAIN x.writes \cap DOMAIN tx[q].writes = {}
  BY DEF RoutingInv, LocksInv, LockedForIt
<1>6. LocksInv'
  BY <1>1, <1>5 DEF RoutingInv, LocksInv
<1> QED
  BY <1>3, <1>4, <1>6 DEF RoutingInv

\* A transaction ends, and the table takes what it wrote or inserted.
LEMMA CommitKeeps ==
  ASSUME RoutingInv, StillSame, NEW r \in Requests, NEW x, IsTx(x), x.writes = NoWrites,
         x.kind \in {"idle", "batchDone"}, tx' = [tx EXCEPT ![r] = x],
         lead' \in [LeadRows -> Lead \cup {Absent}], There \subseteq There',
         \A q \in Requests \ {r} : \A l \in DOMAIN tx[q].writes : lead'[l] = lead[l],
         adType' \in [Branches \X Campaigns -> Types \cup {Null, Absent}],
         mapping' = mapping, weight' = weight, edits' = edits
  PROVE  RoutingInv'
<1>1. tx'[r] = x /\ DOMAIN tx' = Requests /\ \A q \in Requests \ {r} : tx'[q] = tx[q]
  BY DEF RoutingInv, RoutingTypeOK
<1>2. \A q \in Requests : IsTx(tx'[q])
  BY <1>1 DEF RoutingInv, RoutingTypeOK
<1>3. RoutingTypeOK'
  BY <1>1, <1>2, SameType DEF RoutingInv, RoutingTypeOK
<1>4. ASSUME NEW q \in Requests, q # r
      PROVE  FillersOf(q)' /\ FanOutOf(q)'
  BY <1>1, <1>4, OthersKeep DEF RoutingInv
<1>5. FillersOf(r)' /\ FanOutOf(r)'
  BY <1>1 DEF FillersOf, FanOutOf
<1>6. LocksInv'
  BY <1>1, WritesGood DEF RoutingInv, LocksInv
<1> QED
  BY <1>3, <1>4, <1>5, <1>6 DEF RoutingInv

\* People change rows that nobody has locked.
LEMMA EditKeeps ==
  ASSUME RoutingInv, StillSame, NEW ls \in SUBSET LeadRows, \A l \in ls : ~Locked(l),
         lead' \in [LeadRows -> Lead \cup {Absent}], There \subseteq There',
         \A l \in LeadRows \ ls : lead'[l] = lead[l],
         UNCHANGED <<adType, mapping, tx>>, weight' \in [Branches \X Types -> Weights],
         edits < MaxEdits, edits' = edits + 1
  PROVE  RoutingInv'
<1>1. edits' \in 0 .. MaxEdits
  BY RoutingAssumption DEF RoutingInv, RoutingTypeOK
<1>2. RoutingTypeOK'
  BY <1>1, SameType DEF RoutingInv, RoutingTypeOK
<1>3. ASSUME NEW q \in Requests
      PROVE  FillersOf(q)' /\ FanOutOf(q)'
  <2>1. tx[q].writes \in Writes
    BY TxKinds DEF RoutingInv, RoutingTypeOK
  <2>2. \A l \in DOMAIN tx[q].writes : l \in LeadRows \ ls
    BY <2>1, WritesGood DEF Locked
  <2> QED
    BY <2>2, OthersKeep DEF RoutingInv
<1>4. LocksInv'
  BY DEF RoutingInv, LocksInv
<1> QED
  BY <1>2, <1>3, <1>4 DEF RoutingInv

-----------------------------------------------------------------------------
(* Intakes *)

LEMMA IdleKeeps ==
  ASSUME RoutingInv, StillSame, NEW r \in Requests, NEW x, IsTx(x), tx' = [tx EXCEPT ![r] = x],
         x.kind \notin {"inserting", "rerun", "selected", "fanout"},
         lead' = lead, adType' = adType, mapping' \in [Campaigns -> Types \cup {Null}], weight' = weight,
         edits' \in 0 .. MaxEdits
  PROVE  RoutingInv'
<1>1. tx'[r] = x /\ x.writes = NoWrites
  BY TxKinds DEF RoutingInv, RoutingTypeOK
<1>2. FillersOf(r)' /\ FanOutOf(r)'
  BY <1>1 DEF FillersOf, FanOutOf
<1>3. \A l \in DOMAIN x.writes : l \in DOMAIN tx[r].writes \/ ~LockedForIt(r, l)
  BY <1>1, WritesGood
<1> QED
  BY <1>2, <1>3, RequestMoveKeeps

LEMMA EditBound ==
  ASSUME RoutingTypeOK, edits < MaxEdits, edits' = edits + 1
  PROVE  edits' \in 0 .. MaxEdits
BY RoutingAssumption DEF RoutingTypeOK

LEMMA ArriveKeeps ==
  ASSUME RoutingInv, NEW r \in Requests, NEW o \in Branches, NEW c \in Campaigns \cup {Null},
         NEW t \in Types \cup {Null}, NEW d \in Types \cup {Null}, Arrive(r, o, c, t, d)
  PROVE  RoutingInv'
<1> DEFINE x == [kind |-> "arriving", org |-> o, camp |-> c, type |-> TypeFor(t, d), writes |-> NoWrites]
<1>1. x \in Arriving /\ x.kind = "arriving"
  BY CallerTypeGood DEF Arriving
<1>2. IsTx(x)
  BY <1>1, TxSets
<1>3. tx' = [tx EXCEPT ![r] = x] /\ UNCHANGED <<lead, adType, mapping, weight>> /\ StillSame
  BY DEF Arrive
<1>4. edits' \in 0 .. MaxEdits
  BY EditBound DEF Arrive, RoutingInv
<1> HIDE DEF x
<1> QED
  BY <1>1, <1>2, <1>3, <1>4, IdleKeeps DEF RoutingInv, RoutingTypeOK

LEMMA PickKeeps ==
  ASSUME RoutingInv, NEW r \in Requests, PickForIntake(r)
  PROVE  RoutingInv'
<1>1. tx[r] \in Arriving
  BY TxKinds DEF PickForIntake, RoutingInv, RoutingTypeOK
<1>2. PICK writes \in {NoWrites} \cup {Superseding(l) : l \in {k \in There : lead[k].org = tx[r].org /\ lead[k].live}} :
         /\ \A l \in DOMAIN writes : ~LockedForIt(r, l)
         /\ \E pick \in Picks([l \in LeadRows |-> IF l \in DOMAIN writes THEN writes[l] ELSE lead[l]], tx[r].org, tx[r].type) :
              tx' = [tx EXCEPT ![r] = [kind |-> "inserting", row |-> PickedLead(tx[r], pick), writes |-> writes]]
  BY DEF PickForIntake
<1> DEFINE table == [l \in LeadRows |-> IF l \in DOMAIN writes THEN writes[l] ELSE lead[l]]
<1>3. PICK pick \in Picks(table, tx[r].org, tx[r].type) :
         tx' = [tx EXCEPT ![r] = [kind |-> "inserting", row |-> PickedLead(tx[r], pick), writes |-> writes]]
  BY <1>2
<1> DEFINE x == [kind |-> "inserting", row |-> PickedLead(tx[r], pick), writes |-> writes]
<1>4. tx[r].org \in Branches /\ tx[r].camp \in Campaigns \cup {Null} /\ tx[r].type \in Types \cup {Null}
  BY <1>1 DEF Arriving
<1>5. pick.user \in Users \cup {Null} /\ pick.reason \in Reasons \cup {Null}
  <2> HIDE DEF table
  <2> QED
    BY <1>4, PickGood
<1>6. PickedLead(tx[r], pick) \in Lead
  BY <1>4, <1>5 DEF PickedLead, Lead
<1>7. writes \in Writes /\ DOMAIN writes \subseteq There
  <2>1. CASE writes = NoWrites
    BY <2>1, WritesGood
  <2>2. CASE writes # NoWrites
    <3>1. PICK l \in There : writes = Superseding(l)
      BY <1>2, <2>2
    <3>2. l \in LeadRows /\ lead[l] \in Lead
      BY <3>1 DEF There, RoutingInv, RoutingTypeOK
    <3>3. [lead[l] EXCEPT !.live = FALSE] \in Lead
      BY <3>2 DEF Lead
    <3>4. Superseding(l) \in [{l} -> Lead] /\ DOMAIN Superseding(l) = {l}
      BY <3>3 DEF Superseding
    <3>5. {l} \in SUBSET LeadRows
      BY <3>2
    <3> QED
      BY <3>1, <3>4, <3>5, WritesGood
  <2> QED
    BY <2>1, <2>2
<1>8. x \in Inserting /\ x.kind = "inserting" /\ x.writes = writes
  BY <1>6, <1>7 DEF Inserting
<1>9. tx' = [tx EXCEPT ![r] = x] /\ UNCHANGED <<lead, adType, mapping, weight, edits>> /\ StillSame
  BY <1>3 DEF PickForIntake
<1> HIDE DEF x
<1>10. IsTx(x) /\ tx'[r] = x
  BY <1>8, <1>9, TxSets DEF RoutingInv, RoutingTypeOK
<1>11. FillersOf(r)' /\ FanOutOf(r)'
  BY <1>7, <1>8, <1>9, <1>10 DEF FillersOf, FanOutOf, There
<1>12. \A l \in DOMAIN x.writes : l \in DOMAIN tx[r].writes \/ ~LockedForIt(r, l)
  BY <1>2, <1>8
<1> QED
  BY <1>9, <1>10, <1>11, <1>12, RequestMoveKeeps DEF RoutingInv, RoutingTypeOK

LEMMA NoTxGood == IsTx(NoTx) /\ NoTx.kind = "idle" /\ NoTx.writes = NoWrites
BY TxSets DEF NoTx

-----------------------------------------------------------------------------
(* The re-run *)

LEMMA BatchKeeps ==
  ASSUME RoutingInv, NEW r \in Requests, NEW after, tx' = [tx EXCEPT ![r] = Batch(after)],
         UNCHANGED <<lead, adType, mapping, weight>>, edits' \in 0 .. MaxEdits, StillSame
  PROVE  RoutingInv'
<1> DEFINE x == Batch(after)
<1>1. x \in Rerun /\ x.kind = "rerun" /\ x.writes = NoWrites /\ \A c \in x.todo : c.l \in There
  BY BatchGood DEF RoutingInv
<1>2. IsTx(x)
  BY <1>1, TxSets
<1> HIDE DEF x
<1>3. tx'[r] = x
  BY DEF x, RoutingInv, RoutingTypeOK
<1>4. FillersOf(r)' /\ FanOutOf(r)'
  BY <1>1, <1>3, WritesGood DEF FillersOf, FanOutOf, There
<1>5. \A l \in DOMAIN x.writes : l \in DOMAIN tx[r].writes \/ ~LockedForIt(r, l)
  BY <1>1, WritesGood
<1>6. tx' = [tx EXCEPT ![r] = x]
  BY DEF x
<1> QED
  BY <1>2, <1>4, <1>5, <1>6, RequestMoveKeeps DEF RoutingInv, RoutingTypeOK

LEMMA StartRerunKeeps ==
  ASSUME RoutingInv, NEW r \in Requests, StartRerun(r)
  PROVE  RoutingInv'
<1>1. edits' \in 0 .. MaxEdits
  BY EditBound DEF StartRerun, RoutingInv
<1> QED
  BY <1>1, BatchKeeps DEF StartRerun

LEMMA NextBatchKeeps ==
  ASSUME RoutingInv, NEW r \in Requests, NextBatch(r)
  PROVE  RoutingInv'
<1>1. edits' \in 0 .. MaxEdits
  BY DEF NextBatch, RoutingInv, RoutingTypeOK
<1>2. tx' = [tx EXCEPT ![r] = Batch(tx[r].next)]
  BY DEF NextBatch
<1> QED
  BY <1>1, <1>2, BatchKeeps DEF NextBatch

LEMMA RerunLeadKeeps ==
  ASSUME RoutingInv, NEW r \in Requests, RerunLead(r)
  PROVE  RoutingInv'
<1> DEFINE ls == {c.l : c \in tx[r].todo}
           l == First(ls)
           c0 == CHOOSE x \in tx[r].todo : x.l = l
           row == Seen(r)[l]
<1>1. /\ tx[r].kind = "rerun" /\ tx[r].todo # {} /\ ~LockedForIt(r, l)
      /\ UNCHANGED <<lead, adType, mapping, weight, edits>> /\ StillSame
  BY DEF RerunLead
<1>2. PICK pick \in Picks(Seen(r), row.org, c0.type) :
         tx' = [tx EXCEPT ![r].todo = @ \ {c0},
                          ![r].writes = IF Unclaimed(row) THEN Wrote(r, l, Filled(row, c0.type, pick)) ELSE @]
  BY DEF RerunLead
<1>3. tx[r] \in Rerun /\ tx[r].todo \subseteq Target
  BY <1>1, TxKinds DEF RoutingInv, RoutingTypeOK, Rerun
<1>4. ls \subseteq There /\ ls # {} /\ ls \in SUBSET LeadRows
  BY <1>1 DEF RoutingInv, FillersOf, There
<1>5. l \in ls
  <2> HIDE DEF ls
  <2> QED
    BY <1>4, LeastRow
<1>6. c0 \in tx[r].todo /\ c0.l = l /\ c0.type \in Types \cup {Null}
  <2>1. \E x \in tx[r].todo : x.l = l
    BY <1>5
  <2>2. c0 \in tx[r].todo /\ c0.l = l
    <3> HIDE DEF l
    <3> QED
      BY <2>1
  <2> QED
    BY <1>3, <2>2 DEF Target
<1> HIDE DEF ls, l, c0
<1>7. l \in There /\ l \in LeadRows
  BY <1>4, <1>5
<1>8. row \in Lead /\ row.org \in Branches
  BY <1>7, SeenGood DEF RoutingInv, Lead
<1>9. pick.user \in Users \cup {Null} /\ pick.reason \in Reasons \cup {Null}
  BY <1>8, PickGood
<1> DEFINE new == Filled(row, c0.type, pick)
           ws == IF Unclaimed(row) THEN Wrote(r, l, new) ELSE tx[r].writes
           x == [tx[r] EXCEPT !.todo = @ \ {c0}, !.writes = ws]
<1>10. new \in Lead
  BY <1>6, <1>8, <1>9, RowsGood
<1>11. /\ ws \in Writes
       /\ DOMAIN ws \subseteq DOMAIN tx[r].writes \cup {l}
       /\ l \in DOMAIN ws => l \in DOMAIN tx[r].writes \/ row.owner = Null
  <2> HIDE DEF new, row
  <2>1. tx[r].writes \in Writes
    BY TxKinds DEF RoutingInv, RoutingTypeOK
  <2>2. CASE Unclaimed(row)
    <3>1. row.owner = Null /\ ws = Wrote(r, l, new)
      BY <2>2 DEF Unclaimed
    <3>2. Wrote(r, l, new) \in Writes /\ DOMAIN Wrote(r, l, new) = DOMAIN tx[r].writes \cup {l}
      BY <1>7, <1>10, WroteGood DEF RoutingInv
    <3> HIDE DEF ws
    <3> QED
      BY <3>1, <3>2
  <2>3. CASE ~Unclaimed(row)
    <3>1. ws = tx[r].writes
      BY <2>3
    <3> HIDE DEF ws
    <3> QED
      BY <2>1, <3>1
  <2> QED
    BY <2>2, <2>3
<1>12. tx' = [tx EXCEPT ![r] = x] /\ tx'[r] = x
  BY <1>2 DEF RoutingInv, RoutingTypeOK
<1> HIDE DEF ws
<1>13. x \in Rerun /\ x.kind = "rerun" /\ x.todo = tx[r].todo \ {c0} /\ x.writes = ws
  BY <1>1, <1>3, <1>11 DEF Rerun
<1>14. IsTx(x)
  BY <1>13, TxSets
<1> HIDE DEF x
<1>15. ASSUME NEW k \in DOMAIN ws
       PROVE  k \in There /\ lead[k].owner = Null
  <2>1. CASE k \in DOMAIN tx[r].writes
    BY <1>1, <2>1 DEF RoutingInv, FillersOf
  <2>2. CASE k \notin DOMAIN tx[r].writes
    <3>1. k = l /\ row.owner = Null
      BY <1>11, <2>2
    <3>2. row = lead[l]
      BY <1>7, <2>2, <3>1, SeenGood DEF RoutingInv
    <3> QED
      BY <1>7, <3>1, <3>2
  <2> QED
    BY <2>1, <2>2
<1>16. FillersOf(r)' /\ FanOutOf(r)'
  BY <1>1, <1>12, <1>13, <1>15 DEF RoutingInv, FillersOf, FanOutOf, There
<1>17. \A k \in DOMAIN x.writes : k \in DOMAIN tx[r].writes \/ ~LockedForIt(r, k)
  BY <1>1, <1>11, <1>13
<1> QED
  BY <1>1, <1>12, <1>14, <1>16, <1>17, RequestMoveKeeps DEF RoutingInv, RoutingTypeOK

LEMMA CommitIntakeKeeps ==
  ASSUME RoutingInv, NEW r \in Requests, NEW l \in LeadRows, CommitIntake(r, l)
  PROVE  RoutingInv'
<1> DEFINE row == tx[r].row
<1>1. row \in Lead
  BY TxKinds DEF CommitIntake, RoutingInv, RoutingTypeOK, Inserting
<1>2. TypedByTrigger(row) \in Lead
  BY <1>1, TriggeredGood DEF RoutingInv
<1>3. /\ lead' = [Seen(r) EXCEPT ![l] = TypedByTrigger(row)] /\ tx' = [tx EXCEPT ![r] = NoTx] /\ l \notin There
      /\ adType' = IF row.camp # Null /\ adType[<<row.org, row.camp>>] = Absent
                   THEN [adType EXCEPT ![<<row.org, row.camp>>] = row.type] ELSE adType
      /\ UNCHANGED <<mapping, weight, edits>> /\ StillSame
  BY DEF CommitIntake
<1>4. adType' \in [Branches \X Campaigns -> Types \cup {Null, Absent}]
  <2>1. row.org \in Branches /\ row.camp \in Campaigns \cup {Null} /\ row.type \in Types \cup {Null}
    BY <1>1 DEF Lead
  <2> HIDE DEF row
  <2> QED
    BY <1>3, <2>1 DEF RoutingInv, RoutingTypeOK
<1>5. /\ lead' \in [LeadRows -> Lead \cup {Absent}]
      /\ lead'[l] \in Lead /\ \A k \in LeadRows \ {l} : lead'[k] = Seen(r)[k]
  BY <1>2, <1>3, SeenGood DEF RoutingInv
<1>6. There \subseteq There'
  <2>1. ASSUME NEW k \in There
        PROVE  k \in LeadRows /\ lead'[k] # Absent
    <3>1. k \in LeadRows /\ k # l
      BY <1>3, <2>1 DEF There
    <3>2. lead'[k] \in Lead
      BY <1>5, <2>1, <3>1, SeenGood DEF RoutingInv
    <3> QED
      BY <3>1, <3>2, RowAssumption
  <2> QED
    BY <2>1 DEF There
<1>7. ASSUME NEW q \in Requests \ {r}, NEW k \in DOMAIN tx[q].writes
      PROVE  lead'[k] = lead[k]
  <2>1. IsTx(tx[q]) /\ k \in LeadRows
    BY TxKinds, WritesGood DEF RoutingInv, RoutingTypeOK
  <2>2. tx[q].kind \in {"inserting", "rerun", "selected", "fanout"}
    BY <2>1, TxKinds, WritesGood
  <2>3. k \in There
    BY <2>2 DEF RoutingInv, FillersOf, FanOutOf
  <2>4. k # l /\ k \notin DOMAIN tx[r].writes
    BY <1>3, <1>7, <2>3 DEF RoutingInv, LocksInv
  <2> QED
    BY <1>5, <2>1, <2>4, SeenGood DEF RoutingInv
<1> HIDE DEF row
<1> QED
  BY <1>3, <1>4, <1>5, <1>6, <1>7, NoTxGood, CommitKeeps

\* What a commit of r does to the table.
LEMMA SeenCommits ==
  ASSUME RoutingInv, NEW r \in Requests, lead' = Seen(r)
  PROVE  /\ lead' \in [LeadRows -> Lead \cup {Absent}] /\ There \subseteq There'
         /\ \A q \in Requests \ {r} : \A l \in DOMAIN tx[q].writes : lead'[l] = lead[l]
<1>1. lead' \in [LeadRows -> Lead \cup {Absent}]
  BY SeenGood DEF RoutingInv
<1>2. There \subseteq There'
  BY SeenGood, RowAssumption DEF There, RoutingInv
<1>3. ASSUME NEW q \in Requests \ {r}, NEW l \in DOMAIN tx[q].writes
      PROVE  lead'[l] = lead[l]
  <2>1. l \in LeadRows
    BY SeenGood DEF RoutingInv
  <2>2. l \notin DOMAIN tx[r].writes
    BY <1>3 DEF RoutingInv, LocksInv
  <2> QED
    BY <2>1, <2>2, SeenGood DEF RoutingInv
<1> QED
  BY <1>1, <1>2, <1>3

LEMMA CommitRerunKeeps ==
  ASSUME RoutingInv, NEW r \in Requests, CommitRerun(r)
  PROVE  RoutingInv'
<1> DEFINE x == IF tx[r].next = Null THEN NoTx
                ELSE [kind |-> "batchDone", next |-> tx[r].next, writes |-> NoWrites]
<1>1. tx[r] \in Rerun /\ tx[r].next \in LeadRows \cup {Null}
  BY TxKinds DEF CommitRerun, RoutingInv, RoutingTypeOK, Rerun
<1>2. IsTx(x) /\ x.kind \in {"idle", "batchDone"} /\ x.writes = NoWrites
  <2>1. CASE tx[r].next = Null
    BY <2>1, NoTxGood
  <2>2. CASE tx[r].next # Null
    <3>1. x \in BatchDone
      BY <1>1, <2>2 DEF BatchDone
    <3> QED
      BY <2>2, <3>1, TxSets
  <2> QED
    BY <2>1, <2>2
<1>3. tx' = [tx EXCEPT ![r] = x] /\ lead' = Seen(r) /\ UNCHANGED <<adType, mapping, weight, edits>> /\ StillSame
  BY DEF CommitRerun
<1> HIDE DEF x
<1>4. adType' \in [Branches \X Campaigns -> Types \cup {Null, Absent}]
  BY <1>3 DEF RoutingInv, RoutingTypeOK
<1> QED
  BY <1>2, <1>3, <1>4, SeenCommits, CommitKeeps

-----------------------------------------------------------------------------
(* A confirmation and its fan-out *)

LEMMA ConfirmKeeps ==
  ASSUME RoutingInv, NEW r \in Requests, NEW c \in Campaigns, NEW t \in Types, Confirm(r, c, t)
  PROVE  RoutingInv'
<1> DEFINE x == [kind |-> "confirmed", camp |-> c, type |-> t, writes |-> NoWrites]
<1>1. x \in Confirmed /\ x.kind = "confirmed"
  BY DEF Confirmed
<1>2. IsTx(x)
  BY <1>1, TxSets
<1>3. /\ tx' = [tx EXCEPT ![r] = x] /\ mapping' = [mapping EXCEPT ![c] = t]
      /\ UNCHANGED <<lead, adType, weight>> /\ StillSame
  BY DEF Confirm
<1>4. edits' \in 0 .. MaxEdits
  BY EditBound DEF Confirm, RoutingInv
<1>5. mapping' \in [Campaigns -> Types \cup {Null}]
  BY <1>3 DEF RoutingInv, RoutingTypeOK
<1> HIDE DEF x
<1> QED
  BY <1>1, <1>2, <1>3, <1>4, <1>5, IdleKeeps

LEMMA FanOutSelectKeeps ==
  ASSUME RoutingInv, NEW r \in Requests, FanOutSelect(r)
  PROVE  RoutingInv'
<1> DEFINE all == OfCampaign(tx[r].camp)
           todo == {l \in all : Reroutable(lead[l], tx[r].type)}
           x == [kind |-> "selected", camp |-> tx[r].camp, type |-> tx[r].type, affected |-> all,
                 todo |-> todo, ads |-> {}, writes |-> NoWrites]
<1>1. tx[r].kind = "confirmed" /\ tx[r] \in Confirmed /\ tx[r].camp \in Campaigns /\ tx[r].type \in Types
  BY TxKinds DEF FanOutSelect, RoutingInv, RoutingTypeOK, Confirmed
<1>2. /\ all \subseteq There /\ There \subseteq LeadRows /\ todo \subseteq all
      /\ \A l \in all : lead[l].camp = tx[r].camp
  BY DEF OfCampaign, There
<1>3. tx' = [tx EXCEPT ![r] = x] /\ UNCHANGED <<lead, adType, mapping, weight, edits>> /\ StillSame
  BY DEF FanOutSelect
<1> HIDE DEF all, todo
<1>4. x \in FanOut /\ x.kind = "selected" /\ x.writes = NoWrites /\ x.todo = todo /\ x.affected = all /\ x.camp = tx[r].camp
  BY <1>1, <1>2, WritesGood DEF FanOut
<1> HIDE DEF x
<1>5. IsTx(x) /\ tx'[r] = x
  BY <1>3, <1>4, TxSets DEF RoutingInv, RoutingTypeOK
<1>6. same'[r] = all
  BY <1>1, <1>3, <1>4, <1>5, SameShrinks
<1>7. FillersOf(r)' /\ FanOutOf(r)'
  BY <1>2, <1>3, <1>4, <1>5, <1>6, WritesGood DEF FillersOf, FanOutOf, There
<1>8. \A l \in DOMAIN x.writes : l \in DOMAIN tx[r].writes \/ ~LockedForIt(r, l)
  BY <1>4, WritesGood
<1> QED
  BY <1>3, <1>5, <1>7, <1>8, RequestMoveKeeps DEF RoutingInv, RoutingTypeOK

LEMMA RelabelKeeps ==
  ASSUME RoutingInv, NEW r \in Requests, Relabel(r)
  PROVE  RoutingInv'
<1> DEFINE c == tx[r].camp
           t == tx[r].type
           ads == {o \in Branches : adType[<<o, c>>] \notin {t, Absent}}
           wrong == {l \in OfCampaign(c) \ tx[r].todo : lead[l].type # t}
           ws == [l \in wrong |-> [lead[l] EXCEPT !.type = t]]
           x == [tx[r] EXCEPT !.kind = "fanout", !.ads = ads, !.writes = ws]
<1>1. tx[r].kind = "selected" /\ tx[r] \in FanOut /\ t \in Types /\ tx[r].todo \subseteq There
  BY TxKinds DEF Relabel, RoutingInv, RoutingTypeOK, FanOut, FanOutOf
<1>2. /\ \A l \in wrong : ~LockedForIt(r, l)
      /\ tx' = [tx EXCEPT ![r].kind = "fanout", ![r].ads = ads, ![r].writes = ws]
      /\ UNCHANGED <<lead, adType, mapping, weight, edits>> /\ StillSame
  BY DEF Relabel
<1>3. wrong \subseteq There /\ There \subseteq LeadRows
  BY DEF OfCampaign, There
<1>4. ASSUME NEW l \in wrong
      PROVE  ws[l] \in Lead /\ ws[l].type = t
  <2>1. lead[l] \in Lead
    BY <1>3 DEF There, RoutingInv, RoutingTypeOK
  <2>2. [lead[l] EXCEPT !.type = t] \in Lead /\ [lead[l] EXCEPT !.type = t].type = t
    BY <1>1, <2>1 DEF Lead
  <2> QED
    BY <2>2
<1>5. DOMAIN ws = wrong /\ ws \in Writes
  <2>1. ws \in [wrong -> Lead]
    BY <1>4
  <2> QED
    BY <1>3, <2>1, WritesGood
<1>6. tx' = [tx EXCEPT ![r] = x] /\ tx'[r] = x
  BY <1>2 DEF RoutingInv, RoutingTypeOK
<1>7. ASSUME NEW l \in LeadRows, l \in There, lead[l].camp = c, l \notin tx[r].todo, l \notin wrong
      PROVE  lead[l].type = t
  BY <1>7 DEF OfCampaign
<1> HIDE DEF ws, wrong
<1>8. /\ x \in FanOut /\ x.kind = "fanout" /\ x.writes = ws /\ x.todo = tx[r].todo
      /\ x.camp = tx[r].camp /\ x.type = t
  BY <1>1, <1>5 DEF FanOut
<1> HIDE DEF x
<1>9. IsTx(x)
  BY <1>8, TxSets
<1>10. same'[r] \subseteq same[r]
  BY <1>1, <1>2, <1>6, <1>8, SameShrinks
<1>11. ASSUME NEW l \in same'[r] \ x.todo
       PROVE  Seen(r)'[l].type = t
  <2>1. l \in same[r] /\ l \in There /\ lead[l].camp = c /\ l \in LeadRows
    BY <1>1, <1>10 DEF RoutingInv, FanOutOf, There
  <2>2. Seen(r)'[l] = IF l \in wrong THEN ws[l] ELSE lead[l]
    BY <1>2, <1>5, <1>6, <1>8, <2>1 DEF Seen
  <2> QED
    BY <1>4, <1>7, <1>8, <2>1, <2>2
<1>12. FanOutOf(r)'
  <2>1. tx'[r].todo \subseteq There' /\ DOMAIN tx'[r].writes \subseteq There'
    BY <1>1, <1>2, <1>3, <1>5, <1>6, <1>8 DEF There
  <2>2. \A l \in same'[r] : l \in There' /\ lead'[l].camp = tx'[r].camp
    BY <1>1, <1>2, <1>6, <1>8, <1>10 DEF RoutingInv, FanOutOf, There
  <2> QED
    BY <1>6, <1>8, <1>11, <2>1, <2>2 DEF FanOutOf
<1>13. FillersOf(r)'
  BY <1>6, <1>8 DEF FillersOf
<1>14. \A l \in DOMAIN x.writes : l \in DOMAIN tx[r].writes \/ ~LockedForIt(r, l)
  BY <1>2, <1>5, <1>8
<1> QED
  BY <1>2, <1>6, <1>9, <1>12, <1>13, <1>14, RequestMoveKeeps DEF RoutingInv, RoutingTypeOK

LEMMA FanOutLeadKeeps ==
  ASSUME RoutingInv, NEW r \in Requests, FanOutLead(r)
  PROVE  RoutingInv'
<1> DEFINE l == First(tx[r].todo)
           row == Seen(r)[l]
           t == tx[r].type
<1>1. /\ tx[r].kind = "fanout" /\ tx[r].todo # {} /\ ~LockedForIt(r, l)
      /\ UNCHANGED <<lead, adType, mapping, weight, edits>> /\ StillSame
  BY DEF FanOutLead
<1>2. PICK pick \in Picks(Seen(r), row.org, t) :
         tx' = [tx EXCEPT ![r].todo = @ \ {l}, ![r].writes = Wrote(r, l, Moved(row, t, pick))]
  BY DEF FanOutLead
<1>3. tx[r] \in FanOut /\ tx[r].todo \in SUBSET LeadRows /\ tx[r].todo \subseteq There /\ t \in Types
  BY <1>1, TxKinds DEF RoutingInv, RoutingTypeOK, FanOut, FanOutOf
<1>4. l \in tx[r].todo /\ l \in LeadRows /\ l \in There
  BY <1>1, <1>3, LeastRow
<1> HIDE DEF l
<1>5. row \in Lead /\ row.org \in Branches
  BY <1>4, SeenGood DEF RoutingInv, Lead
<1>6. pick.user \in Users \cup {Null} /\ pick.reason \in Reasons \cup {Null}
  BY <1>5, PickGood
<1> DEFINE new == Moved(row, t, pick)
           ws == Wrote(r, l, new)
           x == [tx[r] EXCEPT !.todo = @ \ {l}, !.writes = ws]
<1>7. new \in Lead /\ new.type = t
  BY <1>3, <1>5, <1>6, RowsGood
<1>8. /\ ws \in Writes /\ DOMAIN ws = DOMAIN tx[r].writes \cup {l} /\ ws[l] = new
      /\ \A k \in DOMAIN tx[r].writes \ {l} : ws[k] = tx[r].writes[k]
  <2> HIDE DEF new
  <2> QED
    BY <1>4, <1>7, WroteGood DEF RoutingInv
<1>9. tx' = [tx EXCEPT ![r] = x] /\ tx'[r] = x
  BY <1>2 DEF RoutingInv, RoutingTypeOK
<1> HIDE DEF ws, new
<1>10. /\ x \in FanOut /\ x.kind = "fanout" /\ x.todo = tx[r].todo \ {l} /\ x.writes = ws
       /\ x.camp = tx[r].camp /\ x.type = t
  BY <1>1, <1>3, <1>8 DEF FanOut
<1> HIDE DEF x
<1>11. IsTx(x)
  BY <1>10, TxSets
<1>12. same'[r] \subseteq same[r]
  BY <1>1, <1>9, <1>10, SameShrinks
<1>13. ASSUME NEW k \in same'[r] \ x.todo
       PROVE  Seen(r)'[k].type = t
  <2>1. k \in same[r] /\ k \in LeadRows
    BY <1>1, <1>12 DEF RoutingInv, FanOutOf, There
  <2>2. Seen(r)'[k] = IF k \in DOMAIN ws THEN ws[k] ELSE lead[k]
    BY <1>1, <1>9, <1>10, <2>1 DEF Seen
  <2>3. CASE k = l
    BY <1>7, <1>8, <2>2, <2>3
  <2>4. CASE k # l
    <3>1. k \notin tx[r].todo
      BY <1>10, <1>13, <2>4
    <3>2. Seen(r)[k].type = t
      BY <1>1, <2>1, <3>1 DEF RoutingInv, FanOutOf
    <3>3. Seen(r)'[k] = Seen(r)[k]
      BY <1>8, <2>1, <2>2, <2>4 DEF Seen
    <3> QED
      BY <3>2, <3>3
  <2> QED
    BY <2>3, <2>4
<1>14. FanOutOf(r)'
  <2>1. tx'[r].todo \subseteq There' /\ DOMAIN tx'[r].writes \subseteq There'
    BY <1>1, <1>3, <1>4, <1>8, <1>9, <1>10 DEF There, RoutingInv, FanOutOf
  <2>2. \A k \in same'[r] : k \in There' /\ lead'[k].camp = tx'[r].camp
    BY <1>1, <1>9, <1>10, <1>12 DEF RoutingInv, FanOutOf, There
  <2> QED
    BY <1>9, <1>10, <1>13, <2>1, <2>2 DEF FanOutOf
<1>15. FillersOf(r)'
  BY <1>9, <1>10 DEF FillersOf
<1>16. \A k \in DOMAIN x.writes : k \in DOMAIN tx[r].writes \/ ~LockedForIt(r, k)
  BY <1>1, <1>8, <1>10
<1> QED
  BY <1>1, <1>9, <1>11, <1>14, <1>15, <1>16, RequestMoveKeeps DEF RoutingInv, RoutingTypeOK

LEMMA CommitFanOutKeeps ==
  ASSUME RoutingInv, NEW r \in Requests, CommitFanOut(r)
  PROVE  RoutingInv'
<1>1. tx[r] \in FanOut /\ tx[r].type \in Types
  BY TxKinds DEF CommitFanOut, RoutingInv, RoutingTypeOK, FanOut
<1>2. /\ tx' = [tx EXCEPT ![r] = NoTx] /\ lead' = Seen(r) /\ UNCHANGED <<mapping, weight, edits>> /\ StillSame
      /\ adType' = [x \in Branches \X Campaigns |->
                     IF x[1] \in tx[r].ads /\ x[2] = tx[r].camp THEN tx[r].type ELSE adType[x]]
  BY DEF CommitFanOut
<1>3. adType' \in [Branches \X Campaigns -> Types \cup {Null, Absent}]
  BY <1>1, <1>2 DEF RoutingInv, RoutingTypeOK
<1> QED
  BY <1>2, <1>3, NoTxGood, SeenCommits, CommitKeeps

LEMMA RequestFailKeeps ==
  ASSUME RoutingInv, NEW r \in Requests, Fail(r)
  PROVE  RoutingInv'
BY NoTxGood, IdleKeeps DEF Fail, RoutingInv, RoutingTypeOK

-----------------------------------------------------------------------------
(* People *)

\* Each changes rows that are there, and leaves them rows.
LEMMA RowsEdited ==
  ASSUME RoutingInv, NEW ls \in SUBSET There, NEW new, \A l \in ls : new[l] \in Lead, \A l \in ls : ~Locked(l),
         lead' = [l \in LeadRows |-> IF l \in ls THEN new[l] ELSE lead[l]],
         UNCHANGED <<adType, mapping, weight, tx>>, edits < MaxEdits, edits' = edits + 1, StillSame
  PROVE  RoutingInv'
<1>1. lead' \in [LeadRows -> Lead \cup {Absent}] /\ ls \in SUBSET LeadRows
  BY DEF There, RoutingInv, RoutingTypeOK
<1>2. There \subseteq There'
  BY RowAssumption DEF There
<1>3. weight' \in [Branches \X Types -> Weights]
  BY DEF RoutingInv, RoutingTypeOK
<1> QED
  BY <1>1, <1>2, <1>3, EditKeeps

LEMMA ThereGood ==
  ASSUME RoutingInv
  PROVE  \A l \in There : l \in LeadRows /\ lead[l] \in Lead
BY DEF There, RoutingInv, RoutingTypeOK

LEMMA OwnerGood ==
  ASSUME NEW row \in Lead, NEW u \in Users \cup {Null}
  PROVE  [row EXCEPT !.owner = u] \in Lead
BY DEF Lead

LEMMA OwnersKeep ==
  ASSUME RoutingInv, NEW ls \in SUBSET There, NEW u \in Users \cup {Null}, \A l \in ls : ~Locked(l),
         lead' = [l \in LeadRows |-> IF l \in ls THEN [lead[l] EXCEPT !.owner = u] ELSE lead[l]],
         UNCHANGED <<adType, mapping, weight, tx>>, edits < MaxEdits, edits' = edits + 1, StillSame
  PROVE  RoutingInv'
<1> DEFINE new == [l \in LeadRows |-> [lead[l] EXCEPT !.owner = u]]
<1>1. \A l \in ls : new[l] \in Lead /\ new[l] = [lead[l] EXCEPT !.owner = u]
  BY ThereGood, OwnerGood
<1>2. lead' = [l \in LeadRows |-> IF l \in ls THEN new[l] ELSE lead[l]]
  BY <1>1
<1> HIDE DEF new
<1> QED
  BY <1>1, <1>2, RowsEdited

LEMMA OwnerKeeps ==
  ASSUME RoutingInv, NEW l \in There, NEW u \in Users \cup {Null}, ~Locked(l),
         lead' = [k \in LeadRows |-> IF k \in {l} THEN [lead[k] EXCEPT !.owner = u] ELSE lead[k]],
         UNCHANGED <<adType, mapping, weight, tx>>, edits < MaxEdits, edits' = edits + 1, StillSame
  PROVE  RoutingInv'
<1> DEFINE ls == {l}
<1>1. ls \in SUBSET There /\ \A k \in ls : ~Locked(k)
  OBVIOUS
<1>2. lead' = [k \in LeadRows |-> IF k \in ls THEN [lead[k] EXCEPT !.owner = u] ELSE lead[k]]
  OBVIOUS
<1> HIDE DEF ls
<1> QED
  BY <1>1, <1>2, OwnersKeep

LEMMA AssignKeeps ==
  ASSUME RoutingInv, NEW l \in LeadRows, NEW u \in Users, Assign(l, u)
  PROVE  RoutingInv'
<1>1. l \in There
  BY DEF Assign
<1>2. /\ lead' = [k \in LeadRows |-> IF k \in {l} THEN [lead[k] EXCEPT !.owner = u] ELSE lead[k]]
      /\ ~Locked(l)
      /\ UNCHANGED <<adType, mapping, weight, tx>> /\ edits < MaxEdits /\ edits' = edits + 1 /\ StillSame
  BY DEF Assign, Edit
<1> QED
  BY <1>1, <1>2, OwnerKeeps

LEMMA UnassignKeeps ==
  ASSUME RoutingInv, NEW l \in LeadRows, Unassign(l)
  PROVE  RoutingInv'
<1>1. l \in There
  BY DEF Unassign
<1>2. /\ lead' = [k \in LeadRows |-> IF k \in {l} THEN [lead[k] EXCEPT !.owner = Null] ELSE lead[k]]
      /\ ~Locked(l)
      /\ UNCHANGED <<adType, mapping, weight, tx>> /\ edits < MaxEdits /\ edits' = edits + 1 /\ StillSame
  BY DEF Unassign, Edit
<1> QED
  BY <1>1, <1>2, OwnerKeeps

LEMMA ReassignKeeps ==
  ASSUME RoutingInv, NEW ls \in SUBSET LeadRows, NEW u \in Users, Reassign(ls, u)
  PROVE  RoutingInv'
<1> DEFINE to == {k \in ls : lead[k].owner # u}
<1>1. to \in SUBSET There
  BY DEF Reassign
<1>2. /\ lead' = [k \in LeadRows |-> IF k \in to THEN [lead[k] EXCEPT !.owner = u] ELSE lead[k]]
      /\ \A k \in to : ~Locked(k)
      /\ UNCHANGED <<adType, mapping, weight, tx>> /\ edits < MaxEdits /\ edits' = edits + 1 /\ StillSame
  BY DEF Reassign, Edit
<1> HIDE DEF to
<1> QED
  BY <1>1, <1>2, OwnersKeep

LEMMA HandOverKeeps ==
  ASSUME RoutingInv, NEW o \in Branches, NEW u \in Users, NEW heir \in Users \cup {Null}, HandOver(o, u, heir)
  PROVE  RoutingInv'
<1> DEFINE ls == {l \in There : lead[l].org = o /\ lead[l].owner = u /\ lead[l].live}
<1>1. /\ lead' = [l \in LeadRows |-> IF l \in ls THEN [lead[l] EXCEPT !.owner = heir] ELSE lead[l]]
      /\ \A l \in ls : ~Locked(l)
      /\ UNCHANGED <<adType, mapping, weight, tx>> /\ edits < MaxEdits /\ edits' = edits + 1 /\ StillSame
  BY DEF HandOver, Edit
<1>2. ls \in SUBSET There
  OBVIOUS
<1> HIDE DEF ls
<1> QED
  BY <1>1, <1>2, OwnersKeep

LEMMA ChangesKeep ==
  ASSUME RoutingInv, NEW l \in LeadRows, Touch(l) \/ Close(l) \/ Supersede(l)
  PROVE  RoutingInv'
<1>1. l \in There /\ {l} \in SUBSET There /\ lead[l] \in Lead
  BY ThereGood DEF Touch, Close, Supersede
<1>2. PICK row \in Lead :
        /\ lead' = [k \in LeadRows |-> IF k \in {l} THEN row ELSE lead[k]]
        /\ \A k \in {l} : ~Locked(k)
        /\ UNCHANGED <<adType, mapping, weight, tx>> /\ edits < MaxEdits /\ edits' = edits + 1 /\ StillSame
  <2>1. CASE Touch(l)
    <3>1. [lead[l] EXCEPT !.touched = TRUE] \in Lead
      BY <1>1 DEF Lead
    <3> QED
      BY <2>1, <3>1 DEF Touch, Edit
  <2>2. CASE Close(l)
    <3>1. [lead[l] EXCEPT !.open = FALSE] \in Lead
      BY <1>1 DEF Lead
    <3> QED
      BY <2>2, <3>1 DEF Close, Edit
  <2>3. CASE Supersede(l)
    <3>1. [lead[l] EXCEPT !.live = FALSE] \in Lead
      BY <1>1 DEF Lead
    <3> QED
      BY <2>3, <3>1 DEF Supersede, Edit
  <2> QED
    BY <2>1, <2>2, <2>3
<1> DEFINE new == [k \in LeadRows |-> row]
<1>3. \A k \in {l} : new[k] = row /\ new[k] \in Lead
  BY <1>1, <1>2
<1>4. lead' = [k \in LeadRows |-> IF k \in {l} THEN new[k] ELSE lead[k]]
  BY <1>2, <1>3
<1> HIDE DEF new
<1> QED
  BY <1>1, <1>2, <1>3, <1>4, RowsEdited

LEMMA StaffKeeps ==
  ASSUME RoutingInv, NEW o \in Branches, NEW t \in Types, NEW w \in Weights, Staff(o, t, w)
  PROVE  RoutingInv'
<1>1. weight' \in [Branches \X Types -> Weights] /\ lead' \in [LeadRows -> Lead \cup {Absent}]
  BY DEF Staff, RoutingInv, RoutingTypeOK
<1> DEFINE ls == {}
<1>2. /\ There \subseteq There' /\ \A l \in LeadRows \ ls : lead'[l] = lead[l]
      /\ ls \in SUBSET LeadRows /\ \A l \in ls : ~Locked(l)
  BY DEF Staff, There
<1>3. UNCHANGED <<adType, mapping, tx>> /\ edits < MaxEdits /\ edits' = edits + 1 /\ StillSame
  BY DEF Staff
<1> HIDE DEF ls
<1> QED
  BY <1>1, <1>2, <1>3, EditKeeps

-----------------------------------------------------------------------------
(* Every step *)

LEMMA RoutingStarts == RoutingInit => RoutingInv
<1> SUFFICES ASSUME RoutingInit PROVE RoutingInv
  OBVIOUS
<1>1. lead \in [LeadRows -> Lead \cup {Absent}] /\ weight \in [Branches \X Types -> Weights]
  BY RowAssumption DEF RoutingInit
<1>2. adType \in [Branches \X Campaigns -> Types \cup {Null, Absent}] /\ mapping \in [Campaigns -> Types \cup {Null}]
  BY RoutingAssumption DEF RoutingInit
<1>3. DOMAIN tx = Requests /\ \A r \in Requests : tx[r] = NoTx
  BY DEF RoutingInit
<1>4. RoutingTypeOK
  BY <1>1, <1>2, <1>3, NoTxGood, RoutingAssumption DEF RoutingInit, RoutingTypeOK
<1>5. LocksInv /\ \A r \in Requests : FillersOf(r) /\ FanOutOf(r)
  BY <1>3, NoTxGood, WritesGood DEF LocksInv, FillersOf, FanOutOf
<1> QED
  BY <1>4, <1>5 DEF RoutingInv

LEMMA WorkKeeps ==
  ASSUME RoutingInv, NEW r \in Requests, Work(r)
  PROVE  RoutingInv'
BY PickKeeps, CommitIntakeKeeps, StartRerunKeeps, NextBatchKeeps, RerunLeadKeeps, CommitRerunKeeps,
   FanOutSelectKeeps, RelabelKeeps, FanOutLeadKeeps, CommitFanOutKeeps, RequestFailKeeps DEF Work

LEMMA StutterKeeps ==
  ASSUME RoutingInv, UNCHANGED routingVars
  PROVE  RoutingInv'
<1>1. UNCHANGED <<lead, adType, mapping, weight, tx, same, edits>>
  BY DEF routingVars
<1>2. RoutingTypeOK' /\ LocksInv'
  BY <1>1 DEF RoutingInv, RoutingTypeOK, LocksInv
<1>3. ASSUME NEW r \in Requests PROVE FillersOf(r)' /\ FanOutOf(r)'
  BY <1>1 DEF RoutingInv, FillersOf, FanOutOf, There, Seen
<1> QED
  BY <1>2, <1>3 DEF RoutingInv

LEMMA RoutingKeeps == RoutingInv /\ [RoutingNext]_routingVars => RoutingInv'
<1> SUFFICES ASSUME RoutingInv, [RoutingNext]_routingVars PROVE RoutingInv'
  OBVIOUS
<1>1. ASSUME NEW r \in Requests, Work(r) PROVE RoutingInv'
  BY <1>1, WorkKeeps
<1>2. ASSUME NEW r \in Requests, NEW o \in Branches, NEW c \in Campaigns \cup {Null}, NEW t \in Types \cup {Null},
             NEW d \in Types \cup {Null}, Arrive(r, o, c, t, d)
      PROVE  RoutingInv'
  BY <1>2, ArriveKeeps
<1>3. ASSUME NEW r \in Requests, NEW c \in Campaigns, NEW t \in Types, Confirm(r, c, t) PROVE RoutingInv'
  BY <1>3, ConfirmKeeps
<1>4. ASSUME NEW l \in LeadRows, NEW u \in Users, Assign(l, u) PROVE RoutingInv'
  BY <1>4, AssignKeeps
<1>5. ASSUME NEW ls \in SUBSET LeadRows, NEW u \in Users, Reassign(ls, u) PROVE RoutingInv'
  BY <1>5, ReassignKeeps
<1>6. ASSUME NEW l \in LeadRows, Unassign(l) \/ Touch(l) \/ Close(l) \/ Supersede(l) PROVE RoutingInv'
  BY <1>6, UnassignKeeps, ChangesKeep
<1>7. ASSUME NEW o \in Branches, NEW u \in Users, NEW heir \in Users \cup {Null}, HandOver(o, u, heir) PROVE RoutingInv'
  BY <1>7, HandOverKeeps
<1>8. ASSUME NEW o \in Branches, NEW t \in Types, NEW w \in Weights, Staff(o, t, w) PROVE RoutingInv'
  BY <1>8, StaffKeeps
<1>9. CASE UNCHANGED routingVars
  BY <1>9, StutterKeeps
<1> QED
  BY <1>1, <1>2, <1>3, <1>4, <1>5, <1>6, <1>7, <1>8, <1>9 DEF RoutingNext

-----------------------------------------------------------------------------
(* What follows *)

\* In every reachable state: no row is under the locks of two transactions,
\* whatever a re-run filled has nobody in the table, and a fan-out has given
\* its type to all that is still as it found it.
THEOREM RoutingInvariance == RoutingSpec => []RoutingInv
<1> QED
  BY RoutingStarts, RoutingKeeps, PTL DEF RoutingSpec

\* Leads, campaigns, weights and transactions always have their types.
THEOREM RoutingTypeCorrect == RoutingSpec => []RoutingTypeOK
<1>1. RoutingInv => RoutingTypeOK
  BY DEF RoutingInv
<1> QED
  BY <1>1, RoutingInvariance, PTL

LEMMA FillersStep ==
  ASSUME RoutingInv, NEW l \in There,
         (\E r \in Requests : CommitRerun(r)) \/ \E u \in Users : Assign(l, u)
  PROVE  lead[l].owner = Null \/ lead'[l].owner = lead[l].owner
<1>1. ASSUME NEW r \in Requests, CommitRerun(r)
      PROVE  lead[l].owner = Null \/ lead'[l].owner = lead[l].owner
  <2>1. lead' = Seen(r) /\ l \in LeadRows
    BY <1>1, ThereGood DEF CommitRerun
  <2>2. CASE l \in DOMAIN tx[r].writes
    BY <1>1, <2>2 DEF CommitRerun, RoutingInv, FillersOf
  <2>3. CASE l \notin DOMAIN tx[r].writes
    BY <2>1, <2>3, SeenGood DEF RoutingInv
  <2> QED
    BY <2>2, <2>3
<1>2. ASSUME NEW u \in Users, Assign(l, u)
      PROVE  lead[l].owner = Null
  BY <1>2 DEF Assign
<1> QED
  BY <1>1, <1>2

\* A re-run that commits, and a claim, take no lead from anybody, however the
\* batch raced with assignments, hand-overs, intakes and fan-outs.
THEOREM NobodyLosesALead == RoutingSpec => FillersTakeNobody
<1>1. RoutingInv => (\A l \in There :
                       \/ \E r \in Requests : CommitRerun(r)
                       \/ \E u \in Users : Assign(l, u)
                       => \/ lead[l].owner = Null \/ lead'[l].owner = lead[l].owner)
  BY FillersStep
<1> QED
  BY <1>1, RoutingInvariance, PTL DEF FillersTakeNobody

\* Every lead a fan-out counted and nobody else has changed since has the
\* confirmed type when it commits.
THEOREM RelabelledIsTrue == RoutingSpec => CountedAreRelabelled
<1>1. ASSUME RoutingInv, NEW r \in Requests, CommitFanOut(r), NEW l \in same[r]
      PROVE  lead'[l].type = tx[r].type
  BY <1>1 DEF CommitFanOut, RoutingInv, FanOutOf
<1>2. RoutingInv => \A r \in Requests : CommitFanOut(r) => \A l \in same[r] : lead'[l].type = tx[r].type
  BY <1>1
<1> QED
  BY <1>2, RoutingInvariance, PTL DEF CountedAreRelabelled

=============================================================================
