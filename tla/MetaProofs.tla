----------------------------- MODULE MetaProofs -----------------------------
(***************************************************************************)
(* What goes to Meta and what comes from it, for every value of the        *)
(* constants.                                                              *)
(*                                                                         *)
(* CapiReport: type correctness, that what Meta gets is due, and that a    *)
(* stale credential has an excuse.                                         *)
(* GraphWalk: type correctness, that a walk stages only what it was asked  *)
(* for, routes it as the webhook would, and misses nothing in silence.     *)
(***************************************************************************)
EXTENDS CapiReport, GraphWalk, SequenceTheorems, WellFoundedInduction, TLAPS

-----------------------------------------------------------------------------
(* CapiReport *)


\* The event of a stage the lead was in, or one that was asked for.
IsDue(l, event) ==
  \/ <<l, event>> \in asked
  \/ \E s \in Stages : <<l, s>> \in entered /\ <<s, event>> \in meant

\* What a transaction carries from statement to statement: its lead; an event
\* that is due, or a stage its lead was in; the Meta lead it found; a credential.
Carried(g) ==
  g.pc # "idle" =>
    /\ g.lead \in Leads
    /\ IF g.event # None THEN IsDue(g.lead, g.event)
       ELSE g.stage \in Stages /\ <<g.lead, g.stage>> \in entered
    /\ g.pc # "lead" => g.lead \in FromMeta /\ g.meta \in LinksOf[g.lead]
    /\ g.pc \in {"event", "send", "log"} => g.cred \in Creds
    /\ g.pc \in {"send", "log"} => g.event # None

AllCarried    == \A t \in Triggers : Carried(trig[t])
CallsAreOfStages == calls \subseteq entered
MappingIsMeant   == \A s \in Stages : eventOf[s] # NoEvent => <<s, eventOf[s]>> \in meant
OldLoadsAreExcused == \A e \in Apps : ~(load[e] \subseteq {app[e]}) => e \in excused

ReportInv == TypeOK /\ AllCarried /\ CallsAreOfStages /\ MappingIsMeant /\ ReportIsDue
CacheInv  == OldLoadsAreExcused /\ StaleIsExcused

-----------------------------------------------------------------------------
(* Histories only grow, and what was due stays due. *)

Grow == asked \subseteq asked' /\ entered \subseteq entered' /\ meant \subseteq meant'

LEMMA DueStays ==
  ASSUME Grow, NEW l, NEW event, IsDue(l, event)
  PROVE  IsDue(l, event)'
  BY DEF Grow, IsDue

LEMMA CarriedStays ==
  ASSUME Grow, NEW g, Carried(g)
  PROVE  Carried(g)'
  BY DueStays DEF Grow, Carried

LEMMA ReportsStayDue ==
  ASSUME Grow, ReportIsDue, received' \subseteq received
  PROVE  ReportIsDue'
  BY DEF Grow, ReportIsDue

LEMMA IdleIsTrig == Idle \in Trig /\ Carried(Idle) /\ Carried(Idle)'
  BY DEF Idle, Trig, Carried

\* The parts of the type invariant that are not about one variable.
TrigType == trig \in [Triggers -> Trig]
SendType == \A t \in Triggers : trig[t].pc \in {"send", "log"} =>
              None \notin {trig[t].event, trig[t].meta, trig[t].cred}

LEMMA CarriedCanSend ==
  ASSUME NEW g, Carried(g), g.pc \in {"send", "log"}
  PROVE  None \notin {g.event, g.meta, g.cred}
  BY CapiAssumption DEF Carried

\* A step of one transaction, which leaves behind what it may carry.
LEMMA OneTrigger ==
  ASSUME TrigType, AllCarried, Grow, NEW t \in Triggers, NEW g \in Trig, Carried(g)',
         trig' = [trig EXCEPT ![t] = g]
  PROVE  TrigType' /\ AllCarried' /\ SendType'
<1>1. TrigType'
  BY DEF TrigType
<1>2. \A u \in Triggers : trig'[u] = IF u = t THEN g ELSE trig[u]
  BY DEF TrigType
<1>3. AllCarried'
  <2> SUFFICES ASSUME NEW u \in Triggers PROVE Carried(trig[u])'
    BY DEF AllCarried
  <2>1. CASE u = t
    BY <2>1, <1>2 DEF Carried, IsDue
  <2>2. CASE u # t
    <3>1. Carried(trig[u]) /\ trig'[u] = trig[u]
      BY <2>2, <1>2 DEF AllCarried
    <3> QED
      BY <3>1, DueStays DEF Grow, Carried
  <2> QED
    BY <2>1, <2>2
<1>4. SendType'
  <2> SUFFICES ASSUME NEW u \in Triggers, trig'[u].pc \in {"send", "log"}
               PROVE  None \notin {trig'[u].event, trig'[u].meta, trig'[u].cred}
    BY DEF SendType
  <2>1. Carried(trig[u])'
    BY <1>3 DEF AllCarried
  <2> QED
    BY <2>1, CapiAssumption DEF Carried
<1> QED
  BY <1>1, <1>3, <1>4

\* No transaction moves.
LEMMA NoTrigger ==
  ASSUME TrigType, AllCarried, Grow, trig' = trig
  PROVE  TrigType' /\ AllCarried' /\ SendType'
<1>1. AllCarried'
  <2> SUFFICES ASSUME NEW u \in Triggers PROVE Carried(trig[u])'
    BY DEF AllCarried
  <2>1. Carried(trig[u]) /\ trig'[u] = trig[u]
    BY DEF AllCarried
  <2> QED
    BY <2>1, DueStays DEF Grow, Carried
<1> QED
  BY <1>1, CapiAssumption DEF TrigType, AllCarried, Carried, SendType

-----------------------------------------------------------------------------
(* The type invariant, one group of variables at a time. *)

CrmType    == stage \in [Leads -> Stages] /\ calls \subseteq Leads \X Stages /\ entered \subseteq Leads \X Stages
MapType    == eventOf \in [Stages -> Events \cup {NoEvent}] /\ meant \subseteq Stages \X Events
LogType    == /\ received \subseteq Report /\ asked \subseteq Leads \X Events
              /\ log \subseteq [lead : Leads, event : Events, status : {"SUCCESS", "FAILED"}]
CachedType == /\ cache \in [Apps -> Creds \cup {Inactive, Absent}] /\ excused \subseteq Apps
              /\ load \in [Apps -> SUBSET (Creds \cup {Inactive})]
RowsType   == app \in [Apps -> Creds \cup {Inactive}] /\ clearing \in BOOLEAN
StepsType  == steps \in 0 .. MaxSteps

LEMMA TypeParts ==
  TypeOK <=> /\ CrmType /\ MapType /\ LogType /\ CachedType /\ RowsType /\ StepsType
             /\ TrigType /\ SendType
  BY DEF TypeOK, CrmType, MapType, LogType, CachedType, RowsType, StepsType, TrigType, SendType

LEMMA TypePartsNext ==
  TypeOK' <=> /\ CrmType' /\ MapType' /\ LogType' /\ CachedType' /\ RowsType' /\ StepsType'
              /\ TrigType' /\ SendType'
  BY DEF TypeOK, CrmType, MapType, LogType, CachedType, RowsType, StepsType, TrigType, SendType

\* What does not change keeps its type and what is said of it.
LEMMA CrmStays ==
  ASSUME CrmType, CallsAreOfStages, UNCHANGED crm
  PROVE  CrmType' /\ CallsAreOfStages' /\ entered \subseteq entered'
  BY DEF CrmType, CallsAreOfStages, crm

LEMMA MapStays ==
  ASSUME MapType, MappingIsMeant, UNCHANGED mapping
  PROVE  MapType' /\ MappingIsMeant' /\ meant \subseteq meant'
  BY DEF MapType, MappingIsMeant, mapping

LEMMA LogStays ==
  ASSUME LogType, UNCHANGED <<received, log, asked>>
  PROVE  LogType' /\ asked \subseteq asked' /\ received' \subseteq received
  BY DEF LogType

LEMMA CountedType ==
  ASSUME StepsType, Counted
  PROVE  StepsType'
  BY CapiAssumption DEF StepsType, Counted

-----------------------------------------------------------------------------
(* The steps of leads-service. *)

LEMMA UpdateLeadKeeps ==
  ASSUME ReportInv, NEW l \in Leads, NEW s \in Stages, UpdateLead(l, s)
  PROVE  ReportInv'
<1> USE TypeParts DEF ReportInv
<1>1. CrmType' /\ entered \subseteq entered'
  BY DEF UpdateLead, CrmType
<1>2. CallsAreOfStages'
  BY DEF UpdateLead, CallsAreOfStages
<1>3. /\ MapType' /\ MappingIsMeant' /\ meant \subseteq meant'
      /\ LogType' /\ asked \subseteq asked' /\ received' \subseteq received
  BY MapStays, LogStays DEF UpdateLead, reports
<1>4. CachedType' /\ RowsType' /\ StepsType'
  BY CountedType DEF UpdateLead, CachedType, RowsType, cached, rows
<1>5. Grow
  BY <1>1, <1>3 DEF Grow
<1>6. TrigType' /\ AllCarried' /\ SendType' /\ ReportIsDue'
  BY <1>3, <1>5, NoTrigger, ReportsStayDue DEF UpdateLead, reports
<1> QED
  BY <1>1, <1>2, <1>3, <1>4, <1>6, TypePartsNext

LEMMA CallLostKeeps ==
  ASSUME ReportInv, NEW call \in calls, CallLost(call)
  PROVE  ReportInv'
<1> USE TypeParts DEF ReportInv
<1>1. CrmType' /\ CallsAreOfStages' /\ entered \subseteq entered'
  BY DEF CallLost, CrmType, CallsAreOfStages
<1>2. /\ MapType' /\ MappingIsMeant' /\ meant \subseteq meant'
      /\ LogType' /\ asked \subseteq asked' /\ received' \subseteq received
  BY MapStays, LogStays DEF CallLost, reports
<1>3. CachedType' /\ RowsType' /\ StepsType'
  BY DEF CallLost, CachedType, RowsType, StepsType, cached, rows
<1>4. Grow
  BY <1>1, <1>2 DEF Grow
<1>5. TrigType' /\ AllCarried' /\ SendType' /\ ReportIsDue'
  BY <1>2, <1>4, NoTrigger, ReportsStayDue DEF CallLost, reports
<1> QED
  BY <1>1, <1>2, <1>3, <1>5, TypePartsNext

LEMMA PutMappingKeeps ==
  ASSUME ReportInv, NEW s \in Stages, NEW event \in Events \cup {NoEvent}, PutMapping(s, event)
  PROVE  ReportInv'
<1> USE TypeParts DEF ReportInv
<1>1. MapType' /\ meant \subseteq meant'
  BY DEF PutMapping, MapType
<1>2. MappingIsMeant'
  BY DEF PutMapping, MappingIsMeant, MapType
<1>3. /\ CrmType' /\ CallsAreOfStages' /\ entered \subseteq entered'
      /\ LogType' /\ asked \subseteq asked' /\ received' \subseteq received
  BY CrmStays, LogStays DEF PutMapping, reports
<1>4. CachedType' /\ RowsType' /\ StepsType'
  BY CountedType DEF PutMapping, CachedType, RowsType, cached, rows
<1>5. Grow
  BY <1>1, <1>3 DEF Grow
<1>6. TrigType' /\ AllCarried' /\ SendType' /\ ReportIsDue'
  BY <1>3, <1>5, NoTrigger, ReportsStayDue DEF PutMapping, reports
<1> QED
  BY <1>1, <1>2, <1>3, <1>4, <1>6, TypePartsNext

-----------------------------------------------------------------------------
(* The steps of triggerCapiEvent. *)

\* A step that changes trig, and nothing its properties are about, keeps the
\* invariant when what it leaves behind may be carried.
LEMMA TriggerKeeps ==
  ASSUME ReportInv, NEW t \in Triggers, NEW g \in Trig, Carried(g)',
         trig' = [trig EXCEPT ![t] = g],
         CrmType', CallsAreOfStages', entered \subseteq entered', UNCHANGED <<mapping, cached, rows>>,
         LogType', asked \subseteq asked', StepsType',
         ReportIsDue'
  PROVE  ReportInv'
<1> USE TypeParts DEF ReportInv
<1>1. MapType' /\ MappingIsMeant' /\ meant \subseteq meant'
  BY MapStays
<1>2. CachedType' /\ RowsType'
  BY DEF CachedType, RowsType, cached, rows
<1>3. TrigType' /\ AllCarried' /\ SendType'
  BY <1>1, OneTrigger DEF Grow
<1> QED
  BY <1>1, <1>2, <1>3, TypePartsNext

LEMMA AutoTriggerKeeps ==
  ASSUME ReportInv, NEW t \in Triggers, NEW call \in calls, AutoTrigger(t, call)
  PROVE  ReportInv'
<1> USE TypeParts DEF ReportInv
<1> DEFINE g == [Idle EXCEPT !.pc = "lead", !.lead = call[1], !.stage = call[2]]
<1>1. call[1] \in Leads /\ call[2] \in Stages /\ call = <<call[1], call[2]>> /\ call \in entered
  BY DEF CrmType, CallsAreOfStages
<1>2. /\ CrmType' /\ CallsAreOfStages' /\ entered' = entered
      /\ LogType' /\ asked \subseteq asked' /\ received' \subseteq received /\ StepsType'
  BY LogStays DEF AutoTrigger, CrmType, CallsAreOfStages, StepsType
<1>3. g \in Trig /\ Carried(g)'
  BY <1>1, <1>2 DEF Idle, Trig, Carried
<1>4. trig' = [trig EXCEPT ![t] = g] /\ UNCHANGED <<mapping, cached, rows>>
  BY DEF AutoTrigger
<1>5. ReportIsDue'
  BY <1>2, <1>4, ReportsStayDue, MapStays DEF Grow
<1> HIDE DEF g
<1> QED
  BY <1>2, <1>3, <1>4, <1>5, TriggerKeeps

LEMMA ManualCrmEventKeeps ==
  ASSUME ReportInv, NEW t \in Triggers, NEW l \in Leads, NEW event \in ManualEvents,
         ManualCrmEvent(t, l, event)
  PROVE  ReportInv'
<1> USE TypeParts DEF ReportInv
<1> DEFINE g == [Idle EXCEPT !.pc = "lead", !.lead = l, !.event = event]
<1>1. event \in Events
  BY CapiAssumption
<1>2. /\ CrmType' /\ CallsAreOfStages' /\ entered \subseteq entered'
      /\ LogType' /\ asked \subseteq asked' /\ received' = received /\ StepsType'
  BY <1>1, CrmStays, CountedType DEF ManualCrmEvent, LogType
<1>3. g \in Trig /\ Carried(g)'
  BY <1>1, CapiAssumption DEF Idle, Trig, Carried, IsDue, ManualCrmEvent
<1>4. trig' = [trig EXCEPT ![t] = g] /\ UNCHANGED <<mapping, cached, rows>>
  BY DEF ManualCrmEvent
<1>5. ReportIsDue'
  BY <1>2, <1>4, ReportsStayDue, MapStays DEF Grow
<1> HIDE DEF g
<1> QED
  BY <1>2, <1>3, <1>4, <1>5, TriggerKeeps

\* A step that only moves a transaction on, or ends it.
LEMMA MoveKeeps ==
  ASSUME ReportInv, NEW t \in Triggers, NEW g \in Trig, Carried(g),
         trig' = [trig EXCEPT ![t] = g],
         UNCHANGED <<received, log, asked, crm, mapping, cached, rows, steps>>
  PROVE  ReportInv'
<1> USE TypeParts DEF ReportInv
<1>1. /\ CrmType' /\ CallsAreOfStages' /\ entered \subseteq entered'
      /\ LogType' /\ asked \subseteq asked' /\ received' \subseteq received
  BY CrmStays, LogStays
<1>2. Grow /\ StepsType'
  BY <1>1, MapStays DEF Grow, StepsType
<1>3. ReportIsDue' /\ Carried(g)'
  BY <1>1, <1>2, ReportsStayDue, CarriedStays
<1> QED
  BY <1>1, <1>2, <1>3, TriggerKeeps

LEMMA EndsKeeps ==
  ASSUME ReportInv, NEW t \in Triggers, Ends(t),
         UNCHANGED <<received, log, asked, crm, mapping, cached, rows, steps>>
  PROVE  ReportInv'
  BY IdleIsTrig, MoveKeeps DEF Ends

LEMMA ReadLeadKeeps ==
  ASSUME ReportInv, NEW t \in Triggers, ReadLead(t)
  PROVE  ReportInv'
<1>1. PICK old \in Trig : old = trig[t] /\ Carried(old)
  BY TypeParts DEF ReportInv, TrigType, AllCarried
<1>2. CASE SourceIsMeta(trig[t].lead) /\ LinksOf[trig[t].lead] # {}
  <2>1. PICK meta \in LinksOf[old.lead] : trig' = [trig EXCEPT ![t].pc = "app", ![t].meta = meta]
    BY <1>1, <1>2 DEF ReadLead
  <2> DEFINE g == [old EXCEPT !.pc = "app", !.meta = meta]
  <2>2. old.lead \in Leads /\ old.pc = "lead"
    BY <1>1 DEF ReadLead, Carried
  <2>3. meta \in MetaLeads
    BY <2>1, <2>2, CapiAssumption
  <2>4. g \in Trig
    BY <1>1, <2>3 DEF Trig
  <2>5. Carried(g)
    BY <1>1, <1>2, <2>1, <2>2 DEF Carried, Trig, SourceIsMeta
  <2>6. trig' = [trig EXCEPT ![t] = g]
    BY <1>1, <2>1, TypeParts DEF ReportInv, TrigType, Trig
  <2> HIDE DEF g
  <2> QED
    BY <2>4, <2>5, <2>6, MoveKeeps DEF ReadLead
<1>3. CASE ~(SourceIsMeta(trig[t].lead) /\ LinksOf[trig[t].lead] # {})
  BY <1>3, EndsKeeps DEF ReadLead
<1> QED
  BY <1>2, <1>3

LEMMA ReadOwnKeeps ==
  ASSUME ReportInv, NEW t \in Triggers, ReadOwn(t)
  PROVE  ReportInv'
<1>1. PICK old \in Trig : old = trig[t] /\ Carried(old) /\ old.pc = "app"
  BY TypeParts DEF ReportInv, TrigType, AllCarried, ReadOwn
<1>2. CASE app["own"] # Inactive
  <2>1. PICK cred \in Creds : cred = app["own"]
    BY <1>2, TypeParts DEF ReportInv, RowsType, Apps
  <2> DEFINE g == [old EXCEPT !.pc = "event", !.cred = cred]
  <2>2. g \in Trig /\ Carried(g)
    BY <1>1 DEF Trig, Carried
  <2>3. trig' = [trig EXCEPT ![t] = g]
    BY <1>1, <1>2, <2>1 DEF ReadOwn
  <2> HIDE DEF g
  <2> QED
    BY <2>2, <2>3, MoveKeeps DEF ReadOwn
<1>3. CASE app["own"] = Inactive
  <2> DEFINE g == [old EXCEPT !.pc = "shared"]
  <2>1. g \in Trig /\ Carried(g)
    BY <1>1 DEF Trig, Carried
  <2>2. trig' = [trig EXCEPT ![t] = g]
    BY <1>1, <1>3 DEF ReadOwn
  <2> HIDE DEF g
  <2> QED
    BY <2>1, <2>2, MoveKeeps DEF ReadOwn
<1> QED
  BY <1>2, <1>3

LEMMA ReadSharedKeeps ==
  ASSUME ReportInv, NEW t \in Triggers, ReadShared(t)
  PROVE  ReportInv'
<1>1. PICK old \in Trig : old = trig[t] /\ Carried(old) /\ old.pc = "shared"
  BY TypeParts DEF ReportInv, TrigType, AllCarried, ReadShared
<1>2. CASE cache["shared"] = Inactive
  BY <1>2, EndsKeeps DEF ReadShared
<1>3. CASE cache["shared"] # Inactive
  <2>1. PICK cred \in Creds : cred = cache["shared"]
    BY <1>3, TypeParts DEF ReportInv, CachedType, Apps, ReadShared
  <2> DEFINE g == [old EXCEPT !.pc = "event", !.cred = cred]
  <2>2. g \in Trig /\ Carried(g)
    BY <1>1 DEF Trig, Carried
  <2>3. trig' = [trig EXCEPT ![t] = g]
    BY <1>1, <1>3, <2>1, TypeParts DEF ReportInv, TrigType, ReadShared, Trig
  <2> HIDE DEF g
  <2> QED
    BY <2>2, <2>3, MoveKeeps DEF ReadShared
<1> QED
  BY <1>2, <1>3

\* The event of a stage the lead was in is due when the mapping has it.
LEMMA ResolveEventKeeps ==
  ASSUME ReportInv, NEW t \in Triggers, ResolveEvent(t)
  PROVE  ReportInv'
<1>1. PICK old \in Trig : old = trig[t] /\ Carried(old) /\ old.pc = "event"
  BY TypeParts DEF ReportInv, TrigType, AllCarried, ResolveEvent
<1>2. CASE Skips(trig[t].lead, EventFor(t))
  BY <1>2, EndsKeeps DEF ResolveEvent
<1>3. CASE ~Skips(trig[t].lead, EventFor(t))
  <2>1. PICK event \in Events : event = EventFor(t) /\ IsDue(old.lead, event)
    <3>1. EventFor(t) # NoEvent
      BY <1>3 DEF Skips
    <3>2. CASE old.event # None
      BY <1>1, <3>2 DEF Carried, EventFor, Trig
    <3>3. CASE old.event = None
      <4>1. old.stage \in Stages /\ <<old.lead, old.stage>> \in entered /\ EventFor(t) = eventOf[old.stage]
        BY <1>1, <3>3 DEF Carried, EventFor
      <4>2. eventOf[old.stage] \in Events /\ <<old.stage, eventOf[old.stage]>> \in meant
        BY <3>1, <4>1, TypeParts DEF ReportInv, MapType, MappingIsMeant
      <4> QED
        BY <4>1, <4>2 DEF IsDue
    <3> QED
      BY <3>2, <3>3
  <2> DEFINE g == [old EXCEPT !.pc = "send", !.event = event]
  <2>2. g \in Trig
    BY <1>1 DEF Trig
  <2>3. Carried(g)
    BY <1>1, <2>1, CapiAssumption DEF Trig, Carried
  <2>4. trig' = [trig EXCEPT ![t] = g]
    BY <1>1, <1>3, <2>1, TypeParts DEF ReportInv, TrigType, ResolveEvent, Trig
  <2> HIDE DEF g
  <2> QED
    BY <2>2, <2>3, <2>4, MoveKeeps DEF ResolveEvent
<1> QED
  BY <1>2, <1>3

\* What a transaction that sends has, is due.
LEMMA SentIsDue ==
  ASSUME ReportInv, NEW t \in Triggers, trig[t].pc \in {"send", "log"}
  PROVE  /\ Sent(t) \in Report /\ IsDue(Sent(t).lead, Sent(t).event)
         /\ Sent(t).lead \in FromMeta /\ Sent(t).meta \in LinksOf[Sent(t).lead]
         /\ trig[t].lead \in Leads /\ trig[t].event \in Events
<1>1. trig[t] \in Trig /\ Carried(trig[t])
  BY TypeParts DEF ReportInv, TrigType, AllCarried
<1>2. trig[t].lead \in Leads /\ trig[t].event \in Events /\ trig[t].meta \in MetaLeads
  BY <1>1, CapiAssumption DEF Carried, Trig
<1> QED
  BY <1>1, <1>2, CapiAssumption DEF Carried, Sent, Report

\* A step that lets Meta have what a transaction sends, or writes the log.
LEMMA SendKeeps ==
  ASSUME ReportInv, NEW t \in Triggers, trig[t].pc \in {"send", "log"}, NEW g \in Trig, Carried(g),
         trig' = [trig EXCEPT ![t] = g],
         received' \subseteq received \cup {Sent(t)},
         \E status \in {"SUCCESS", "FAILED"} : log' \in {log, Logged(t, status)},
         UNCHANGED <<asked, crm, mapping, cached, rows, steps>>
  PROVE  ReportInv'
<1> USE TypeParts DEF ReportInv
<1>1. /\ Sent(t) \in Report /\ IsDue(Sent(t).lead, Sent(t).event)
      /\ Sent(t).lead \in FromMeta /\ Sent(t).meta \in LinksOf[Sent(t).lead]
      /\ trig[t].lead \in Leads /\ trig[t].event \in Events
  BY SentIsDue
<1>2. CrmType' /\ CallsAreOfStages' /\ entered \subseteq entered' /\ meant \subseteq meant'
  BY CrmStays, MapStays
<1>3. LogType' /\ asked \subseteq asked' /\ StepsType' /\ Grow
  BY <1>1, <1>2 DEF LogType, Logged, StepsType, Grow
<1>4. ReportIsDue'
  <2>1. \A r \in received \cup {Sent(t)} : r.lead \in FromMeta /\ r.meta \in LinksOf[r.lead] /\ IsDue(r.lead, r.event)
    BY <1>1 DEF ReportIsDue, IsDue
  <2> QED
    BY <2>1 DEF ReportIsDue, IsDue, crm, mapping
<1>5. Carried(g)'
  BY <1>3, CarriedStays
<1> QED
  BY <1>2, <1>3, <1>4, <1>5, TriggerKeeps

LEMMA SendAnsweredKeeps ==
  ASSUME ReportInv, NEW t \in Triggers, SendAnswered(t)
  PROVE  ReportInv'
<1>1. PICK old \in Trig : old = trig[t] /\ Carried(old) /\ old.pc = "send"
  BY TypeParts DEF ReportInv, TrigType, AllCarried, SendAnswered
<1> DEFINE g == [old EXCEPT !.pc = "log"]
<1>2. g \in Trig /\ Carried(g)
  BY <1>1 DEF Trig, Carried
<1>3. trig' = [trig EXCEPT ![t] = g]
  BY <1>1 DEF SendAnswered
<1> HIDE DEF g
<1> QED
  BY <1>1, <1>2, <1>3, SendKeeps DEF SendAnswered, GotByMeta

LEMMA SendFailsKeeps ==
  ASSUME ReportInv, NEW t \in Triggers, SendFails(t)
  PROVE  ReportInv'
  BY IdleIsTrig, SendKeeps DEF SendFails, GotUnlessLost, Ends

LEMMA WriteLogKeeps ==
  ASSUME ReportInv, NEW t \in Triggers, WriteLog(t)
  PROVE  ReportInv'
  BY IdleIsTrig, SendKeeps DEF WriteLog, Ends

LEMMA TriggerDiesKeeps ==
  ASSUME ReportInv, NEW t \in Triggers, TriggerDies(t)
  PROVE  ReportInv'
  BY EndsKeeps DEF TriggerDies

-----------------------------------------------------------------------------
(* The cache. *)

\* A step of the cache or of the rows moves nothing the reports are about.
LEMMA ReportsStay ==
  ASSUME ReportInv, UNCHANGED <<crm, mapping, reports>>, CachedType', RowsType', StepsType'
  PROVE  ReportInv'
<1> USE TypeParts DEF ReportInv
<1>1. /\ CrmType' /\ CallsAreOfStages' /\ MapType' /\ MappingIsMeant' /\ Grow
      /\ LogType' /\ received' \subseteq received
  BY CrmStays, MapStays, LogStays DEF reports, Grow
<1>2. TrigType' /\ AllCarried' /\ SendType' /\ ReportIsDue'
  BY <1>1, NoTrigger, ReportsStayDue DEF reports
<1> QED
  BY <1>1, <1>2, TypePartsNext

LEMMA LoadReadKeeps ==
  ASSUME ReportInv, CacheInv, NEW e \in Apps, LoadRead(e)
  PROVE  ReportInv' /\ CacheInv'
<1> USE TypeParts DEF ReportInv
<1>1. CachedType' /\ RowsType' /\ StepsType'
  BY DEF LoadRead, CachedType, RowsType, StepsType, rows
<1>2. CacheInv'
  BY DEF LoadRead, CacheInv, OldLoadsAreExcused, StaleIsExcused, CachedType, rows
<1> QED
  BY <1>1, <1>2, ReportsStay DEF LoadRead

\* An entry loses its excuse only when nothing old is left of it.
LEMMA SettledIsSafe ==
  ASSUME CachedType, CacheInv, NEW e \in Apps, UNCHANGED rows, excused' = Settled(e),
         NEW before, before = cache[e],
         CachedType', load'[e] \subseteq load[e],
         cache'[e] \in {Absent, cache[e]} \cup load[e],
         \A d \in Apps \ {e} : load'[d] = load[d] /\ cache'[d] = cache[d]
  PROVE  CacheInv'
<1>1. OldLoadsAreExcused'
  BY DEF CacheInv, OldLoadsAreExcused, Settled, rows
<1>2. StaleIsExcused'
  BY DEF CacheInv, OldLoadsAreExcused, StaleIsExcused, Settled, rows
<1> QED
  BY <1>1, <1>2 DEF CacheInv

LEMMA LoadEndKeeps ==
  ASSUME ReportInv, CacheInv, NEW e \in Apps, LoadEnd(e)
  PROVE  ReportInv' /\ CacheInv'
<1> USE TypeParts DEF ReportInv
<1>1. PICK value \in load[e] :
        /\ load' = [load EXCEPT ![e] = @ \ {value}]
        /\ cache' \in {cache, [cache EXCEPT ![e] = value]}
  BY DEF LoadEnd
<1>2. excused' \subseteq Apps
  BY DEF LoadEnd, Settled, CachedType
<1>3. CachedType' /\ RowsType' /\ StepsType'
  BY <1>1, <1>2 DEF LoadEnd, CachedType, RowsType, StepsType, rows
<1>4. /\ load'[e] \subseteq load[e] /\ cache'[e] \in {Absent, cache[e]} \cup load[e]
      /\ \A d \in Apps \ {e} : load'[d] = load[d] /\ cache'[d] = cache[d]
  BY <1>1 DEF CachedType
<1>5. CacheInv'
  BY <1>3, <1>4, SettledIsSafe DEF LoadEnd
<1> QED
  BY <1>3, <1>5, ReportsStay DEF LoadEnd

LEMMA ExpireKeeps ==
  ASSUME ReportInv, CacheInv, NEW e \in Apps, Expire(e)
  PROVE  ReportInv' /\ CacheInv'
<1> USE TypeParts DEF ReportInv
<1>1. excused' \subseteq Apps
  BY DEF Expire, Settled, CachedType
<1>2. CachedType' /\ RowsType' /\ StepsType'
  BY <1>1 DEF Expire, CachedType, RowsType, StepsType, rows
<1>3. /\ load'[e] \subseteq load[e] /\ cache'[e] \in {Absent, cache[e]} \cup load[e]
      /\ \A d \in Apps \ {e} : load'[d] = load[d] /\ cache'[d] = cache[d]
  BY DEF CachedType, Expire
<1>4. CacheInv'
  BY <1>2, <1>3, SettledIsSafe DEF Expire
<1> QED
  BY <1>2, <1>4, ReportsStay DEF Expire

LEMMA UpdateIntegrationKeeps ==
  ASSUME ReportInv, CacheInv, NEW value \in Creds \cup {Inactive}, UpdateIntegration(value)
  PROVE  ReportInv' /\ CacheInv'
<1> USE TypeParts DEF ReportInv
<1>1. CachedType' /\ RowsType'
  BY DEF UpdateIntegration, CachedType, RowsType, Apps
<1>2. StepsType'
  BY CountedType DEF UpdateIntegration
<1>3. CacheInv'
  BY DEF UpdateIntegration, CacheInv, OldLoadsAreExcused, StaleIsExcused, CachedType, RowsType, Apps
<1> QED
  BY <1>1, <1>2, <1>3, ReportsStay DEF UpdateIntegration

LEMMA InvalidateKeeps ==
  ASSUME ReportInv, CacheInv, InvalidateIntegrationCache
  PROVE  ReportInv' /\ CacheInv'
<1> USE TypeParts DEF ReportInv
<1>1. CachedType' /\ RowsType' /\ StepsType'
  BY DEF InvalidateIntegrationCache, Cleared, CachedType, RowsType, StepsType, Apps
<1>2. CacheInv'
  BY DEF InvalidateIntegrationCache, Cleared, CacheInv, OldLoadsAreExcused, StaleIsExcused, CachedType
<1> QED
  BY <1>1, <1>2, ReportsStay DEF InvalidateIntegrationCache

LEMMA ChangeElsewhereKeeps ==
  ASSUME ReportInv, CacheInv, NEW e \in Apps, NEW value \in Creds \cup {Inactive}, ChangeElsewhere(e, value)
  PROVE  ReportInv' /\ CacheInv'
<1> USE TypeParts DEF ReportInv
<1>1. CachedType' /\ RowsType'
  BY DEF ChangeElsewhere, CachedType, RowsType
<1>2. StepsType'
  BY CountedType DEF ChangeElsewhere
<1>3. CacheInv'
  BY DEF ChangeElsewhere, CacheInv, OldLoadsAreExcused, StaleIsExcused, CachedType, RowsType
<1> QED
  BY <1>1, <1>2, <1>3, ReportsStay DEF ChangeElsewhere

-----------------------------------------------------------------------------
(* Every step, and the theorems. *)

LEMMA InitHolds ==
  ASSUME Init
  PROVE  ReportInv /\ CacheInv
<1>1. CrmType /\ CallsAreOfStages
  BY CapiAssumption DEF Init, CrmType, CallsAreOfStages
<1>2. MapType /\ MappingIsMeant
  BY CapiAssumption DEF Init, MapType, MappingIsMeant
<1>3. LogType /\ ReportIsDue /\ TrigType /\ AllCarried /\ SendType
  BY IdleIsTrig DEF Init, LogType, ReportIsDue, TrigType, AllCarried, SendType, Carried, Idle
<1>4. RowsType
  <2>1. StartApps \subseteq [Apps -> Creds \cup {Inactive}]
    BY CapiAssumption, Zenon DEF CapiAssumption
  <2>2. app \in StartApps /\ clearing = FALSE
    BY DEF Init
  <2> QED
    BY <2>1, <2>2, Zenon DEF RowsType
<1>5. StepsType
  BY CapiAssumption DEF Init, StepsType, CapiAssumption
<1>6. CachedType /\ CacheInv
  BY DEF Init, CachedType, CacheInv, OldLoadsAreExcused, StaleIsExcused
<1> QED
  BY <1>1, <1>2, <1>3, <1>4, <1>5, <1>6, TypeParts DEF ReportInv

\* No step but those on the cache and the rows touches what CacheInv is about.
LEMMA CacheStays ==
  ASSUME CacheInv, UNCHANGED <<cached, rows>>
  PROVE  CacheInv'
  BY DEF CacheInv, OldLoadsAreExcused, StaleIsExcused, cached, rows

LEMMA NextKeeps ==
  ASSUME ReportInv, CacheInv, [Next]_vars
  PROVE  ReportInv' /\ CacheInv'
<1>1. CASE UNCHANGED vars
  <2>1. CachedType' /\ RowsType' /\ StepsType'
    BY <1>1, TypeParts DEF vars, ReportInv, CachedType, RowsType, StepsType, cached, rows
  <2> QED
    BY <1>1, <2>1, ReportsStay, CacheStays DEF vars
<1>2. CASE \E l \in Leads, s \in Stages : UpdateLead(l, s)
  BY <1>2, UpdateLeadKeeps, CacheStays DEF UpdateLead
<1>3. CASE \E call \in calls : CallLost(call)
  BY <1>3, CallLostKeeps, CacheStays DEF CallLost
<1>4. CASE \E s \in Stages, event \in Events \cup {NoEvent} : PutMapping(s, event)
  BY <1>4, PutMappingKeeps, CacheStays DEF PutMapping
<1>5. CASE \E t \in Triggers, call \in calls : AutoTrigger(t, call)
  BY <1>5, AutoTriggerKeeps, CacheStays DEF AutoTrigger
<1>6. CASE \E t \in Triggers, l \in Leads, event \in ManualEvents : ManualCrmEvent(t, l, event)
  BY <1>6, ManualCrmEventKeeps, CacheStays DEF ManualCrmEvent
<1>7. ASSUME NEW t \in Triggers,
             \/ ReadLead(t) \/ ReadOwn(t) \/ ReadShared(t) \/ ResolveEvent(t)
             \/ SendAnswered(t) \/ SendFails(t) \/ WriteLog(t) \/ TriggerDies(t)
      PROVE  ReportInv' /\ CacheInv'
  <2>1. UNCHANGED <<cached, rows>>
    BY <1>7 DEF ReadLead, ReadOwn, ReadShared, ResolveEvent, SendAnswered, SendFails, WriteLog, TriggerDies
  <2>2. CASE ReadLead(t)
    BY <2>2, ReadLeadKeeps, <2>1, CacheStays
  <2>3. CASE ReadOwn(t)
    BY <2>3, ReadOwnKeeps, <2>1, CacheStays
  <2>4. CASE ReadShared(t)
    BY <2>4, ReadSharedKeeps, <2>1, CacheStays
  <2>5. CASE ResolveEvent(t)
    BY <2>5, ResolveEventKeeps, <2>1, CacheStays
  <2>6. CASE SendAnswered(t)
    BY <2>6, SendAnsweredKeeps, <2>1, CacheStays
  <2>7. CASE SendFails(t)
    BY <2>7, SendFailsKeeps, <2>1, CacheStays
  <2>8. CASE WriteLog(t)
    BY <2>8, WriteLogKeeps, <2>1, CacheStays
  <2>9. CASE TriggerDies(t)
    BY <2>9, TriggerDiesKeeps, <2>1, CacheStays
  <2> QED
    BY <1>7, <2>2, <2>3, <2>4, <2>5, <2>6, <2>7, <2>8, <2>9
<1>8. CASE \E e \in Apps : LoadRead(e) \/ LoadEnd(e) \/ Expire(e)
  BY <1>8, LoadReadKeeps, LoadEndKeeps, ExpireKeeps
<1>9. CASE \E value \in Creds \cup {Inactive} : UpdateIntegration(value)
  BY <1>9, UpdateIntegrationKeeps
<1>10. CASE InvalidateIntegrationCache
  BY <1>10, InvalidateKeeps
<1>11. CASE \E e \in Apps, value \in Creds \cup {Inactive} : ChangeElsewhere(e, value)
  BY <1>11, ChangeElsewhereKeeps
<1> QED
  BY <1>1, <1>2, <1>3, <1>4, <1>5, <1>6, <1>7, <1>8, <1>9, <1>10, <1>11 DEF Next

\* The inductive invariant: what is under way carries only what was true of its
\* lead, and an old value is in a load or the cache only with an excuse.
LEMMA Invariance == Spec => [](ReportInv /\ CacheInv)
<1>1. Init => ReportInv /\ CacheInv
  BY InitHolds
<1>2. ReportInv /\ CacheInv /\ [Next]_vars => (ReportInv /\ CacheInv)'
  BY NextKeeps
<1> QED
  BY <1>1, <1>2, PTL DEF Spec

\* Every variable keeps its type, and an event leaves for Meta only with a Meta
\* lead, a name and a credential (capi-trigger.service.ts:64-160).
THEOREM TypeCorrect == Spec => []TypeOK
<1>1. ReportInv /\ CacheInv => TypeOK
  BY DEF ReportInv
<1> QED
  BY <1>1, Invariance, PTL

\* However late a call arrives, and whatever moves between its statements, Meta
\* gets events only of its own leads, under their own Meta leads, that somebody
\* asked for or a stage of the lead once meant (capi-trigger.service.ts:67-123).
THEOREM ReportsAreDue == Spec => []ReportIsDue
<1>1. ReportInv /\ CacheInv => ReportIsDue
  BY DEF ReportInv
<1> QED
  BY <1>1, Invariance, PTL

\* A replaced credential stays in this instance's cache only through a load that
\* read it before the write, a write elsewhere, or until the clearing that
\* follows the write (integration.service.ts:35-73).
THEOREM StaleHasAnExcuse == Spec => []StaleIsExcused
<1>1. ReportInv /\ CacheInv => StaleIsExcused
  BY DEF CacheInv
<1> QED
  BY <1>1, Invariance, PTL

-----------------------------------------------------------------------------
(* GraphWalk: what Among keeps of a list *)

\* The recursion of Among has a solution: of the lengths without one take the
\* least, and extend the solution of the one before.
LEMMA AmongExists ==
  ASSUME NEW s \in Seq(AllLeads), NEW S
  PROVE  \E keep : keep = [n \in 0 .. Len(s) |->
           IF n = 0 THEN << >> ELSE IF s[n] \in S THEN Append(keep[n - 1], s[n]) ELSE keep[n - 1]]
<1> DEFINE Next1(keep, n) == IF n = 0 THEN << >> ELSE IF s[n] \in S THEN Append(keep[n - 1], s[n]) ELSE keep[n - 1]
           Solved(m) == \E keep : keep = [n \in 0 .. m |-> Next1(keep, n)]
           Open == {m \in 0 .. Len(s) : ~Solved(m)}
           R == OpToRel(<, Nat)
<1>0. Len(s) \in Nat
  BY LenProperties
<1>1. IsWellFoundedOn(R, Nat) /\ Len(s) \in Nat
  BY <1>0, NatLessThanWellFounded
<1>2. \A x, y \in Nat : <<x, y>> \in R <=> x < y
  BY DEF OpToRel
<1> HIDE DEF R
<1>3. Open = {}
  <2> SUFFICES ASSUME Open # {} PROVE FALSE
    OBVIOUS
  <2>1. Open \subseteq Nat
    BY <1>1
  <2>2. PICK m \in Open : \A k \in Open : ~(<<k, m>> \in R)
    <3> HIDE DEF Open
    <3> QED
      BY <1>1, <2>1, WFMin
  <2>3. m \in 0 .. Len(s) /\ ~Solved(m)
    BY <2>2
  <2>4. Solved(0)
    <3> DEFINE g == [n \in 0 .. 0 |-> << >>]
    <3>1. \A n \in 0 .. 0 : Next1(g, n) = << >>
      OBVIOUS
    <3>2. g = [n \in 0 .. 0 |-> Next1(g, n)]
      <4> HIDE DEF Next1
      <4> QED
        BY <3>1
    <3> QED
      BY <3>2
  <2>5. m # 0 /\ m - 1 \in 0 .. Len(s) /\ m \in Nat
    <3> HIDE DEF Solved
    <3> QED
      BY <1>1, <2>3, <2>4
  <2>6. Solved(m - 1)
    <3>1. m - 1 \notin Open
      <4>1. <<m - 1, m>> \in R
        BY <1>1, <1>2, <2>5
      <4> HIDE DEF Open
      <4> QED
        BY <2>2, <4>1
    <3> QED
      BY <2>5, <3>1
  <2>7. PICK keep : keep = [n \in 0 .. m - 1 |-> Next1(keep, n)]
    BY <2>6
  <2> DEFINE g == [n \in 0 .. m |-> IF n = m THEN Next1(keep, m) ELSE keep[n]]
  <2>8. \A n \in 0 .. m : g[n] = Next1(g, n)
    <3> SUFFICES ASSUME NEW n \in 0 .. m PROVE g[n] = Next1(g, n)
      OBVIOUS
    <3>1. n # 0 => n - 1 \in 0 .. m - 1 /\ g[n - 1] = keep[n - 1]
      BY <2>5
    <3>2. Next1(g, n) = Next1(keep, n)
      <4> HIDE DEF g
      <4> QED
        BY <3>1
    <3>3. n # m => g[n] = keep[n] /\ keep[n] = Next1(keep, n)
      <4>1. n # m => n \in 0 .. m - 1
        BY <2>5
      <4> QED
        BY <2>7, <4>1
    <3> QED
      BY <3>2, <3>3
  <2>9. g = [n \in 0 .. m |-> Next1(g, n)]
    BY <2>8
  <2> QED
    BY <2>3, <2>9
<1>4. Solved(Len(s))
  <2> HIDE DEF Solved
  <2> QED
    BY <1>0, <1>3
<1> QED
  BY <1>4

\* What Among keeps: the elements of s in S, and the old ones last.
LEMMA AmongKeeps ==
  ASSUME NEW s \in Seq(AllLeads), NEW S
  PROVE  /\ Among(s, S) \in Seq(AllLeads)
         /\ ToSet(Among(s, S)) = ToSet(s) \cap S
         /\ OldLast(s) => OldLast(Among(s, S))
<1> DEFINE Keeps(keep) == keep = [n \in 0 .. Len(s) |->
           IF n = 0 THEN << >> ELSE IF s[n] \in S THEN Append(keep[n - 1], s[n]) ELSE keep[n - 1]]
           f == CHOOSE keep : Keeps(keep)
<1>1. Keeps(f)
  BY ZenonT(60), AmongExists
<1>2. Among(s, S) = f[Len(s)]
  BY DEF Among
<1> HIDE DEF f
<1>3. Len(s) \in Nat /\ s \in [1 .. Len(s) -> AllLeads]
  BY LenProperties
<1>4. \A n \in 0 .. Len(s) :
        f[n] = IF n = 0 THEN << >> ELSE IF s[n] \in S THEN Append(f[n - 1], s[n]) ELSE f[n - 1]
  BY <1>1
<1> DEFINE Upto(n) == {s[i] : i \in 1 .. n} \cap S
           Right(n) == /\ f[n] \in Seq(AllLeads)
                       /\ \A l : (\E i \in 1 .. Len(f[n]) : f[n][i] = l) <=> (\E i \in 1 .. n : s[i] = l /\ l \in S)
                       /\ OldLast(s) => OldLast(f[n])
           Wrong == {n \in 0 .. Len(s) : ~Right(n)}
           R == OpToRel(<, Nat)
<1>5. IsWellFoundedOn(R, Nat)
  BY NatLessThanWellFounded
<1>6. \A x, y \in Nat : <<x, y>> \in R <=> x < y
  BY DEF OpToRel
<1> HIDE DEF R
<1>7. Right(0)
  <2>1. f[0] = << >>
    BY <1>3, <1>4
  <2> QED
    BY <2>1, EmptySeq DEF OldLast
<1>8. ASSUME NEW n \in 1 .. Len(s), Right(n - 1) PROVE Right(n)
  <2>1. n \in 0 .. Len(s) /\ n - 1 \in 0 .. Len(s) /\ n # 0 /\ s[n] \in AllLeads
    BY <1>3
  <2>2. CASE s[n] \notin S
    <3>1. f[n] = f[n - 1]
      BY <1>4, <2>1, <2>2
    <3>2. ASSUME NEW l, NEW i \in 1 .. n, s[i] = l, l \in S
          PROVE  i \in 1 .. n - 1
      BY <1>3, <2>2, <3>2
    <3>3. \A l : (\E i \in 1 .. n : s[i] = l /\ l \in S) <=> (\E i \in 1 .. n - 1 : s[i] = l /\ l \in S)
      BY <1>3, <2>1, <3>2
    <3>4. \A l : (\E i \in 1 .. Len(f[n - 1]) : f[n - 1][i] = l) <=> (\E i \in 1 .. n - 1 : s[i] = l /\ l \in S)
      BY <1>8
    <3>5. \A l : (\E i \in 1 .. Len(f[n]) : f[n][i] = l) <=> (\E i \in 1 .. n : s[i] = l /\ l \in S)
      BY <3>1, <3>3, <3>4
    <3>6. f[n] \in Seq(AllLeads) /\ (OldLast(s) => OldLast(f[n]))
      BY <1>8, <3>1
    <3> QED
      BY <3>5, <3>6
  <2>3. CASE s[n] \in S
    <3> DEFINE h == f[n - 1]
    <3>1. f[n] = Append(h, s[n]) /\ h \in Seq(AllLeads)
      BY <1>4, <1>8, <2>1, <2>3
    <3> HIDE DEF h
    <3>2. /\ Append(h, s[n]) \in Seq(AllLeads)
          /\ Len(Append(h, s[n])) = Len(h) + 1 /\ Len(h) \in Nat
          /\ \A i \in 1 .. Len(h) : Append(h, s[n])[i] = h[i]
          /\ Append(h, s[n])[Len(h) + 1] = s[n]
      BY <2>1, <3>1, AppendProperties, LenProperties
    <3>3. \A l : (\E i \in 1 .. Len(h) : h[i] = l) <=> (\E i \in 1 .. n - 1 : s[i] = l /\ l \in S)
      BY <1>8 DEF h
    <3>4. \A l : (\E i \in 1 .. Len(f[n]) : f[n][i] = l) <=> (\E i \in 1 .. n : s[i] = l /\ l \in S)
      <4> DEFINE g == Append(h, s[n])
      <4>1. \A i \in 1 .. Len(h) + 1 : g[i] = IF i = Len(h) + 1 THEN s[n] ELSE h[i]
        BY <3>2
      <4>2. f[n] = g /\ Len(g) = Len(h) + 1
        BY <3>1, <3>2
      <4> HIDE DEF g
      <4>3. \A l : (\E i \in 1 .. Len(g) : g[i] = l) <=> l = s[n] \/ \E i \in 1 .. Len(h) : h[i] = l
        BY <3>2, <4>1, <4>2
      <4>4. \A l : (\E i \in 1 .. n : s[i] = l /\ l \in S) <=> l = s[n] \/ \E i \in 1 .. n - 1 : s[i] = l /\ l \in S
        BY <1>3, <2>1, <2>3
      <4> QED
        BY <3>3, <4>2, <4>3, <4>4
    <3>5. ASSUME OldLast(s) PROVE OldLast(Append(h, s[n]))
      <4> DEFINE g == Append(h, s[n])
      <4> SUFFICES ASSUME NEW i \in 1 .. Len(h) + 1, NEW j \in 1 .. Len(h) + 1, i < j, Created[g[i]] = "old"
                   PROVE  Created[g[j]] = "old"
        BY <3>2 DEF OldLast
      <4>1. i \in 1 .. Len(h) /\ g[i] = h[i]
        BY <3>2
      <4>2. CASE j \in 1 .. Len(h)
        <5>1. OldLast(h)
          BY <1>8, <3>5 DEF h
        <5>2. g[j] = h[j]
          BY <3>2, <4>2
        <5> QED
          BY <4>1, <4>2, <5>1, <5>2 DEF OldLast
      <4>3. CASE j = Len(h) + 1
        <5>1. PICK k \in 1 .. n - 1 : s[k] = h[i]
          BY <3>3, <4>1
        <5>2. k \in 1 .. Len(s) /\ n \in 1 .. Len(s) /\ k < n
          BY <1>3, <2>1
        <5>3. Created[s[n]] = "old"
          BY <3>5, <4>1, <5>1, <5>2 DEF OldLast
        <5> QED
          BY <3>2, <4>3, <5>3
      <4> QED
        BY <3>2, <4>2, <4>3
    <3> QED
      BY <3>1, <3>2, <3>4, <3>5
  <2> QED
    BY <2>2, <2>3
<1>9. Wrong = {}
  <2> HIDE DEF Right
  <2> SUFFICES ASSUME Wrong # {} PROVE FALSE
    OBVIOUS
  <2>1. Wrong \subseteq Nat
    BY <1>3
  <2>2. PICK m \in Wrong : \A k \in Wrong : ~(<<k, m>> \in R)
    <3> HIDE DEF Wrong
    <3> QED
      BY <1>5, <2>1, WFMin
  <2>3. m \in 1 .. Len(s) /\ ~Right(m) /\ m \in Nat /\ m - 1 \in Nat
    BY <1>3, <1>7, <2>2
  <2>4. m - 1 \notin Wrong
    <3>1. <<m - 1, m>> \in R
      BY <1>6, <2>3
    <3> HIDE DEF Wrong
    <3> QED
      BY <2>2, <3>1
  <2>5. Right(m - 1)
    BY <1>3, <2>3, <2>4
  <2> QED
    BY <1>8, <2>3, <2>5
<1>10. Right(Len(s))
  BY <1>3, <1>9
<1>11. \A l : l \in ToSet(f[Len(s)]) <=> l \in ToSet(s) /\ l \in S
  BY <1>3, <1>10, LenProperties DEF ToSet
<1> QED
  BY <1>2, <1>10, <1>11
-----------------------------------------------------------------------------
(* GraphWalk: the inductive invariant *)

\* The steps in which the walk has leads of a form, or of an ad, in hand.
InEdge == {"fetch", "keep", "write"}
EdgesOf(s) == IF w.ask.kind = "campaign" THEN {a \in Ads : CampaignOf[a] = s} ELSE {f \in Forms : PageOf[f] = s}
EdgeOf(l) == IF w.ask.kind = "campaign" THEN AdOf[l] ELSE FormOf[l]
StopOf(l) == IF w.ask.kind = "campaign" THEN CampaignOf[AdOf[l]] ELSE PageOf[FormOf[l]]

\* The mappings stay unique, those of the open transaction included.
MapInv == Keyed(Known) /\ Keyed(w.before)
\* What kind of walk may be at each step.
KindFits ==
  /\ w.ask \in Asks
  /\ w.pc \in {"tokens", "list", "edge"} => w.ask.kind # "import"
  /\ w.pc = "fetch" => w.ask.kind \in {"pull", "campaign", "sync", "download"}
  /\ w.pc = "keep" => w.ask.kind # "forms"
  /\ w.pc = "write" => w.ask.kind \in {"sync", "import"}
  /\ w.pc \in {"form", "map"} => w.ask.kind = "forms"
\* Where the walk is: at a page or campaign it was asked for, at a form or ad
\* of it that it may read.
PlaceFits ==
  /\ w.left \subseteq Stops(w.ask, w.before)
  /\ w.pc = "done" \/ w.ask.kind = "import" => w.left = {}
  /\ w.ask.kind # "import" =>
       /\ w.pc \in {"list", "edge", "form", "map"} \cup InEdge => w.at \in Stops(w.ask, w.before)
       /\ w.pc \in {"edge", "form", "map"} \cup InEdge => w.edges \subseteq EdgesOf(w.at)
       /\ w.pc \in {"form", "map"} \cup InEdge => w.edge \in EdgesOf(w.at)
  /\ w.pc \in InEdge => (w.ask.kind = "campaign" => ~Unreadable(w.edge))
  /\ w.pc \in InEdge => (w.ask.kind = "sync" => Resolve(Seen, w.at, w.edge) # Null)
\* What it has in hand: leads of that form or ad, in the window, the old last.
HandFits ==
  /\ w.pc \in {"tokens", "stop", "list", "edge", "form", "map"} => w.got = << >>
  /\ w.pc \in InEdge /\ w.ask.kind # "import" =>
       /\ \A l \in ToSet(w.rest) \cup ToSet(w.got) : EdgeOf(l) = w.edge
       /\ \A l \in ToSet(w.got) : InWindow(w.ask, l)
  /\ w.pc = "fetch" => OldLast(w.rest)
  /\ w.pc = "write" => w.got # << >>
  /\ w.pc = "write" /\ w.ask.kind = "import" => dump[Head(w.got)] # Null
\* What it has staged or written: leads it was asked for, each with the branch
\* its own mappings give the lead's form.
RowFits(ask, ms, l, org) ==
  /\ InWindow(ask, l)
  /\ ask.kind = "campaign" => AdOf[l] # Null /\ CampaignOf[AdOf[l]] \in ask.campaigns
  /\ CampaignAsked(ask, l)
  /\ org = Null \/ Selected(ask, org)
  /\ IsPull(ask) => PageOf[FormOf[l]] \notin Foreign(ask, ms)
  /\ org = Resolve(Visible(ask, ms), PageOf[FormOf[l]], FormOf[l])
RowsFit ==
  \A l \in AllLeads :
    /\ w.rows[l] # Missing /\ w.ask.kind # "import" => RowFits(w.ask, w.before, l, w.rows[l])
    /\ Writes(w.ask) => w.rows[l] # Null
\* Every lead it was asked for is there, or excused, or still to come.
Wanted(l) == (w.ask.kind = "campaign" => AdOf[l] # Null) /\ AskedOf(w.ask, w.before, l)
ToCome(l) ==
  \/ StopOf(l) \in w.left
  \/ w.pc = "list" /\ w.at = StopOf(l)
  \/ w.pc \in {"edge"} \cup InEdge /\ w.at = StopOf(l) /\ EdgeOf(l) \in w.edges
  \/ w.pc = "fetch" /\ l \in ToSet(w.rest)
  \/ w.pc \in InEdge /\ l \in ToSet(w.got)
CoverFits ==
  w.pc # "failed" /\ w.ask.kind \in {"pull", "campaign", "sync", "download"} =>
    \A l \in AllLeads : Wanted(l) => w.rows[l] # Missing \/ landed[l] # Missing \/ Excused(l) \/ ToCome(l)
WalkInv ==
  /\ WalkTypeOK
  /\ MapInv
  /\ w.pc = "idle" => w = IdleWalk
  /\ w.pc # "idle" => KindFits /\ PlaceFits /\ HandFits /\ RowsFit /\ CoverFits

-----------------------------------------------------------------------------
(* Lemmas about the rules *)

LEMMA KeyedSub ==
  ASSUME NEW S, Keyed(S), NEW T \in SUBSET S
  PROVE  Keyed(T)
BY DEF Keyed

\* A branch that is found is that of a mapping.
LEMMA ResolveFinds ==
  ASSUME NEW ms, NEW p, NEW f
  PROVE  \/ Resolve(ms, p, f) = Null
         \/ \E r \in ms : Resolve(ms, p, f) = r.org
<1> DEFINE exact == {r \in ms : r.form = f}
           level == {r \in ms : r.page = p /\ r.form = Null}
           x == CHOOSE r \in exact : TRUE
           y == CHOOSE r \in level : TRUE
<1>1. exact # {} => x \in exact
  OBVIOUS
<1>2. level # {} => y \in level
  OBVIOUS
<1>3. Resolve(ms, p, f) = IF exact # {} THEN x.org ELSE IF level # {} THEN y.org ELSE Null
  BY DEF Resolve
<1> HIDE DEF x, y
<1> QED
  BY <1>1, <1>2, <1>3

LEMMA VisibleIn ==
  ASSUME NEW ask, NEW ms
  PROVE  /\ Visible(ask, ms) \subseteq ms
         /\ ask.kind = "sync" => \A r \in Visible(ask, ms) : ask.orgs = {} \/ r.org \in ask.orgs
BY DEF Visible, LoadMappings, LoadFormOrgMap, IsPull

LEMMA ResolveType ==
  ASSUME NEW ask, NEW ms \in SUBSET Mapping, NEW p, NEW f
  PROVE  /\ Resolve(Visible(ask, ms), p, f) \in Branches \cup {Null}
         /\ Resolve(Visible(ask, ms), p, f) # Missing
         /\ ask.kind = "sync" => Resolve(Visible(ask, ms), p, f) = Null
                                  \/ Selected(ask, Resolve(Visible(ask, ms), p, f))
<1> DEFINE seen == Visible(ask, ms)
           org == Resolve(seen, p, f)
<1>1. org = Null \/ \E r \in seen : org = r.org
  BY ResolveFinds
<1>2. seen \subseteq Mapping
  BY VisibleIn
<1>3. ask.kind = "sync" => \A r \in seen : ask.orgs = {} \/ r.org \in ask.orgs
  BY VisibleIn
<1> HIDE DEF seen, org
<1>4. org \in Branches \cup {Null} /\ org # Missing
  BY <1>1, <1>2, WalkAssumption DEF Mapping
<1>5. ask.kind = "sync" => org = Null \/ Selected(ask, org)
  BY <1>1, <1>3 DEF Selected
<1> QED
  BY <1>4, <1>5 DEF seen, org

\* The two rules agree on a lead when the walk sees all mappings of its page.
LEMMA RulesAgree ==
  ASSUME NEW ms \in SUBSET Mapping, Keyed(ms), NEW seen \in SUBSET ms, NEW l \in AllLeads,
         {r \in ms : r.page = PageOf[FormOf[l]]} \subseteq seen
  PROVE  Resolve(seen, PageOf[FormOf[l]], FormOf[l]) = WebhookOrg(ms, l)
<1> DEFINE f == FormOf[l]
           p == PageOf[f]
           exact == {r \in seen : r.form = f}
           level == {r \in seen : r.page = p /\ r.form = Null}
           x == CHOOSE r \in exact : TRUE
           y == CHOOSE r \in level : TRUE
           fits == {r \in ms : r.form = f \/ (r.form = Null /\ r.page = p)}
           own == {r \in fits : r.form # Null}
           z == CHOOSE r \in fits : own # {} => r \in own
<1>1. f \in Forms /\ f # Null
  BY WalkAssumption
<1>2. exact # {} => x \in exact
  OBVIOUS
<1>3. level # {} => y \in level
  OBVIOUS
<1>4. fits # {} => z \in fits /\ (own # {} => z \in own)
  <2>1. fits # {} => \E r \in fits : own # {} => r \in own
    OBVIOUS
  <2> QED
    BY <2>1
<1>5. Resolve(seen, p, f) = IF exact # {} THEN x.org ELSE IF level # {} THEN y.org ELSE Null
  BY DEF Resolve
<1>6. WebhookOrg(ms, l) = IF fits = {} THEN Null ELSE z.org
  BY DEF WebhookOrg
<1> HIDE DEF x, y, z
<1>7. exact = own
  BY <1>1 DEF Keyed
<1>8. fits = exact \cup level
  BY <1>1 DEF Keyed
<1>9. \A r, s \in exact : r = s
  <2>1. \A r \in exact : r \in ms /\ r.form = f /\ r.page = p
    BY <1>1 DEF Keyed
  <2> HIDE DEF exact, f, p
  <2> QED
    BY <2>1 DEF Keyed
<1>10. \A r, s \in level : r = s
  BY DEF Keyed
<1>11. CASE exact # {}
  <2>1. x = z
    BY <1>2, <1>4, <1>7, <1>8, <1>9, <1>11
  <2> QED
    BY <1>5, <1>6, <1>8, <1>11, <2>1
<1>12. CASE exact = {} /\ level # {}
  <2>1. y = z
    BY <1>3, <1>4, <1>8, <1>10, <1>12
  <2> QED
    BY <1>5, <1>6, <1>8, <1>12, <2>1
<1>13. CASE exact = {} /\ level = {}
  BY <1>5, <1>6, <1>8, <1>13
<1> QED
  BY <1>11, <1>12, <1>13

LEMMA StopsType ==
  ASSUME NEW ask \in Asks, NEW ms \in SUBSET Mapping
  PROVE  /\ Stops(ask, ms) \subseteq Pages \cup Campaigns
         /\ ask.kind # "campaign" => Stops(ask, ms) \subseteq Pages
         /\ KnownPages(ask, ms) \subseteq Pages /\ PagesRequested(ask, ms) \subseteq Pages
<1>1. ask \in Ask
  BY WalkAssumption
<1>2. KnownPages(ask, ms) \subseteq Pages /\ PagesRequested(ask, ms) \subseteq Pages
  BY <1>1 DEF Ask, KnownPages, PagesRequested, LoadFormOrgMap, LoadMappings, Mapping
<1> QED
  BY <1>1, <1>2 DEF Ask, Stops
-----------------------------------------------------------------------------
(* Steps in general *)

\* What a walk is asked for, and what it has read, it keeps.
LEMMA SameAsk ==
  ASSUME w'.ask = w.ask, w'.before = w.before
  PROVE  /\ Seen' = Seen
         /\ \A s : EdgesOf(s)' = EdgesOf(s)
         /\ \A l : EdgeOf(l)' = EdgeOf(l)
         /\ \A l : StopOf(l)' = StopOf(l)
         /\ \A l : Wanted(l)' <=> Wanted(l)
<1>1. Seen' = Seen
  BY DEF Seen
<1>2. \A s : EdgesOf(s)' = EdgesOf(s)
  BY DEF EdgesOf
<1>3. \A l : EdgeOf(l)' = EdgeOf(l)
  BY DEF EdgeOf
<1>4. \A l : StopOf(l)' = StopOf(l)
  BY DEF StopOf
<1>5. \A l : Wanted(l)' <=> Wanted(l)
  BY DEF Wanted
<1> QED
  BY <1>1, <1>2, <1>3, <1>4, <1>5

LEMMA ExcusedStays ==
  ASSUME w.errors \subseteq w'.errors, w.truncated \subseteq w'.truncated
  PROVE  \A l : Excused(l) => Excused(l)'
BY DEF Excused

\* A step that leaves what is staged or written.
LEMMA RowsStay ==
  ASSUME RowsFit, w'.ask = w.ask, w'.before = w.before, w'.rows = w.rows
  PROVE  RowsFit'
BY DEF RowsFit, Writes

\* A step that has only to say what becomes of the leads to come.
LEMMA CoverStep ==
  ASSUME CoverFits, w.pc # "failed", w'.ask = w.ask, w'.before = w.before,
         w.errors \subseteq w'.errors, w.truncated \subseteq w'.truncated,
         \A l \in AllLeads : w.rows[l] # Missing /\ w.ask.kind # "import" => w'.rows[l] # Missing,
         \A l \in AllLeads : landed[l] # Missing => landed'[l] # Missing,
         w'.pc # "failed" =>
           \A l \in AllLeads : w.ask.kind \in {"pull", "campaign", "sync", "download"} /\ Wanted(l) /\ ToCome(l) =>
             w'.rows[l] # Missing \/ landed'[l] # Missing \/ Excused(l)' \/ ToCome(l)'
  PROVE  CoverFits'
<1> SUFFICES ASSUME w'.pc # "failed", w'.ask.kind \in {"pull", "campaign", "sync", "download"},
                    NEW l \in AllLeads, Wanted(l)'
             PROVE  w'.rows[l] # Missing \/ landed'[l] # Missing \/ Excused(l)' \/ ToCome(l)'
  BY DEF CoverFits
<1>1. Wanted(l)
  BY SameAsk
<1>2. w.rows[l] # Missing \/ landed[l] # Missing \/ Excused(l) \/ ToCome(l)
  BY <1>1 DEF CoverFits
<1>3. Excused(l) => Excused(l)'
  BY ExcusedStays
<1> QED
  BY <1>1, <1>2, <1>3

LEMMA NextStopStep ==
  ASSUME WalkInv, NEW s, NextStop(s)
  PROVE  WalkInv'
<1> USE DEF WalkInv
<1>1. w \in Walk /\ w.pc = "stop" /\ s \in w.left /\ UNCHANGED <<table, landed, dump, runs, edits>>
  BY DEF NextStop, WalkTypeOK
<1>2. /\ w' \in Walk
      /\ w'.ask = w.ask /\ w'.before = w.before /\ w'.reach = w.reach /\ w'.left = w.left \ {s} /\ w'.at = s
      /\ w'.got = w.got /\ w'.rows = w.rows /\ w'.truncated = w.truncated /\ w'.added = w.added
  BY ZenonT(60), <1>1 DEF NextStop, Walk
<1>3. \/ w'.pc = "stop" /\ w'.errors = w.errors \cup {s} /\ w.ask.kind # "campaign"
      \/ w'.pc = "list" /\ w'.errors = w.errors
  BY <1>1 DEF NextStop, Walk
<1>4. /\ Seen' = Seen
      /\ \A l : StopOf(l)' = StopOf(l)
  BY <1>2, SameAsk
<1>5. WalkTypeOK' /\ MapInv'
  BY <1>1, <1>2 DEF WalkTypeOK, MapInv, Known
<1>6. KindFits'
  BY <1>1, <1>2, <1>3 DEF KindFits, PlaceFits, Stops
<1>7. PlaceFits'
  BY <1>1, <1>2, <1>3 DEF PlaceFits, InEdge
<1>8. HandFits'
  BY <1>1, <1>2, <1>3 DEF HandFits, InEdge
<1>9. RowsFit'
  BY <1>1, <1>2, RowsStay
<1>10. ASSUME NEW l \in AllLeads, ToCome(l) PROVE Excused(l)' \/ ToCome(l)'
  <2>1. StopOf(l) \in w.left
    BY <1>1, <1>10 DEF ToCome, InEdge
  <2>2. CASE StopOf(l) # s
    BY <1>2, <1>4, <2>1, <2>2 DEF ToCome
  <2>3. CASE StopOf(l) = s
    BY <1>2, <1>3, <1>4, <2>3 DEF ToCome, Excused, StopOf
  <2> QED
    BY <2>2, <2>3
<1>11. CoverFits'
  BY <1>1, <1>2, <1>3, <1>10, CoverStep
<1> QED
  BY <1>3, <1>5, <1>6, <1>7, <1>8, <1>9, <1>11

LEMMA ZeroType ==
  << >> \in Seq(AllLeads) /\ 0 \in 0 .. MaxPages /\ 0 \in 0 .. Attempts - 1
BY WalkAssumption

\* A walk that fails: a pull keeps its rows, a script has none.
LEMMA FailedStep ==
  ASSUME WalkInv, w.pc # "idle", w' \in Walk, w'.pc = "failed", w'.ask = w.ask, w'.before = w.before,
         w'.left = w.left, w'.rows \in {w.rows, Nowhere}, w'.added \subseteq w.added,
         UNCHANGED <<table, landed, dump, runs, edits>>
  PROVE  WalkInv'
<1> USE DEF WalkInv
<1>1. Known' \subseteq Known
  BY DEF Known
<1>2. MapInv'
  BY <1>1, KeyedSub DEF MapInv
<1>3. KindFits' /\ HandFits' /\ CoverFits' /\ WalkTypeOK'
  BY DEF KindFits, HandFits, InEdge, CoverFits, WalkTypeOK
<1>4. PlaceFits'
  BY DEF PlaceFits, InEdge
<1>5. RowsFit'
  <2>1. \A l \in AllLeads : w'.rows[l] = w.rows[l] \/ w'.rows[l] = Missing
    BY DEF Nowhere
  <2> QED
    BY <2>1, WalkAssumption DEF RowsFit, Writes
<1> QED
  BY <1>2, <1>3, <1>4, <1>5

LEMMA GiveUpStep ==
  ASSUME WalkInv, GiveUp, UNCHANGED <<table, landed, dump, runs, edits>>
  PROVE  WalkInv'
<1> USE DEF WalkInv
<1>1. w \in Walk /\ w.pc \in {"tokens", "list", "fetch"}
  BY DEF GiveUp, WalkTypeOK
<1>2. CASE w.pc = "tokens"
  <2>1. /\ w' \in Walk /\ w'.pc = "failed" /\ w'.ask = w.ask /\ w'.before = w.before
        /\ w'.left = w.left /\ w'.rows = w.rows /\ w'.added = w.added
    BY <1>1, <1>2 DEF GiveUp, Walk
  <2> QED
    BY <1>1, <2>1, FailedStep
<1>3. CASE w.pc \in {"list", "fetch"}
  <2>1. w.pc = "list" => w.at \in Pages \cup Campaigns
    <3>1. w.ask \in Asks /\ w.before \in SUBSET Mapping
      BY <1>1, <1>3 DEF KindFits, Walk
    <3> QED
      BY <1>3, <3>1, StopsType DEF PlaceFits, KindFits
  <2>2. w.pc = "fetch" => /\ w.edge \in EdgesOf(w.at)
                          /\ w.ask.kind = "campaign" => Promotes[w.edge] # Null
    BY <1>3 DEF PlaceFits, KindFits, InEdge, Unreadable
  <2>3. w.pc = "fetch" => PageAt(w.edge) \in Pages
    BY <2>2, WalkAssumption DEF EdgesOf, PageAt
  <2>4. /\ w' \in Walk /\ w'.ask = w.ask /\ w'.before = w.before /\ w'.left = w.left /\ w'.at = w.at
        /\ w'.edges = w.edges /\ w'.truncated = w.truncated /\ w'.rows = w.rows /\ w'.added = w.added
        /\ w.errors \subseteq w'.errors
    <3> DEFINE es == w.errors \cup {IF w.pc = "list" THEN w.at ELSE PageAt(w.edge)}
    <3>1. es \in SUBSET (Pages \cup Campaigns \cup Ads) /\ w.errors \subseteq es
      BY <1>1, <1>3, <2>1, <2>3 DEF Walk
    <3>2. w.pc = "list" => w' = [w EXCEPT !.pc = "stop", !.errors = es, !.tries = 0]
      BY DEF GiveUp
    <3>3. w.pc = "fetch" => w' = [w EXCEPT !.pc = "edge", !.errors = es, !.tries = 0,
                                           !.rest = << >>, !.got = << >>, !.page = 0]
      BY DEF GiveUp
    <3> HIDE DEF es
    <3>5. CASE w.pc = "list"
      BY ZenonT(60), <1>1, <3>1, <3>2, <3>5, ZeroType DEF Walk
    <3>6. CASE w.pc = "fetch"
      <4>1. w' = [w EXCEPT !.pc = "edge", !.errors = es, !.tries = 0, !.rest = << >>, !.got = << >>, !.page = 0]
        BY <3>3, <3>6
      <4>2. w' \in Walk
        BY <1>1, <3>1, <4>1, ZeroType DEF Walk
      <4>3. w'.errors = es /\ w'.ask = w.ask /\ w'.before = w.before /\ w'.left = w.left /\ w'.at = w.at
        BY <1>1, <4>1 DEF Walk
      <4>4. w'.edges = w.edges /\ w'.truncated = w.truncated /\ w'.rows = w.rows /\ w'.added = w.added
        BY <1>1, <4>1 DEF Walk
      <4> QED
        BY <3>1, <4>2, <4>3, <4>4
    <3> QED
      BY <1>3, <3>5, <3>6
  <2>5. w.pc = "list" => w'.pc = "stop" /\ w'.errors = w.errors \cup {w.at} /\ w'.got = w.got
    BY <1>1 DEF GiveUp, Walk
  <2>6. w.pc = "fetch" => w'.pc = "edge" /\ w'.errors = w.errors \cup {PageAt(w.edge)} /\ w'.got = << >>
    BY <1>1 DEF GiveUp, Walk
  <2>7. /\ Seen' = Seen
        /\ \A l : StopOf(l)' = StopOf(l) /\ EdgeOf(l)' = EdgeOf(l)
        /\ EdgesOf(w.at)' = EdgesOf(w.at)
    BY <2>4, SameAsk DEF EdgesOf
  <2>8. WalkTypeOK' /\ MapInv'
    BY <2>4 DEF WalkTypeOK, MapInv, Known
  <2>9. KindFits'
    BY <1>3, <2>4, <2>5, <2>6 DEF KindFits
  <2>10. PlaceFits'
    BY <1>3, <2>4, <2>5, <2>6, <2>7 DEF PlaceFits, InEdge, EdgesOf
  <2>11. HandFits'
    BY <1>3, <2>5, <2>6 DEF HandFits, InEdge
  <2>12. RowsFit'
    BY <1>3, <2>4, RowsStay
  <2>13. ASSUME NEW l \in AllLeads, Wanted(l), ToCome(l) PROVE Excused(l)' \/ ToCome(l)'
    <3>1. CASE w.pc = "list"
      BY <2>4, <2>5, <2>7, <2>13, <3>1 DEF ToCome, InEdge, Excused, StopOf, Wanted
    <3>2. CASE w.pc = "fetch"
      <4>1. CASE l \in ToSet(w.rest) \cup ToSet(w.got)
        <5>1. EdgeOf(l) = w.edge
          BY <3>2, <4>1 DEF HandFits, KindFits, InEdge
        <5>2. w.ask.kind = "campaign" => AdOf[l] = w.edge /\ w.edge \notin Forms /\ AdOf[l] # Null
          BY <2>13, <5>1, <2>2, <3>2, WalkAssumption DEF EdgeOf, EdgesOf, Wanted
        <5>3. w.ask.kind # "campaign" => FormOf[l] = w.edge /\ w.edge \in Forms
          BY <5>1, <2>2, <3>2 DEF EdgeOf, EdgesOf
        <5>4. CASE w.ask.kind = "campaign"
          <6>1. Promotes[AdOf[l]] \in w'.errors
            BY <2>6, <3>2, <5>2, <5>4 DEF PageAt
          <6> QED
            BY <5>2, <5>4, <6>1 DEF Excused
        <5>5. CASE w.ask.kind # "campaign"
          <6>1. PageOf[FormOf[l]] \in w'.errors
            BY <2>6, <3>2, <5>3, <5>5 DEF PageAt
          <6> QED
            BY <6>1 DEF Excused
        <5> QED
          BY <5>4, <5>5
      <4>2. CASE l \notin ToSet(w.rest) \cup ToSet(w.got)
        <5>1. StopOf(l) \in w.left \/ (w.at = StopOf(l) /\ EdgeOf(l) \in w.edges)
          BY <2>13, <3>2, <4>2 DEF ToCome
        <5> QED
          BY <2>4, <2>6, <2>7, <3>2, <5>1 DEF ToCome
      <4> QED
        BY <4>1, <4>2
    <3> QED
      BY <1>3, <3>1, <3>2
  <2>14. CoverFits'
    BY <1>3, <2>4, <2>13, CoverStep
  <2> QED
    BY <1>3, <2>5, <2>6, <2>8, <2>9, <2>10, <2>11, <2>12, <2>14
<1> QED
  BY <1>1, <1>2, <1>3

LEMMA CallFailsStep ==
  ASSUME WalkInv, NEW retryable, CallFails(retryable)
  PROVE  WalkInv'
<1> USE DEF WalkInv
<1>1. w \in Walk /\ w.pc \in Calls /\ UNCHANGED <<table, landed, dump, runs, edits>>
  BY DEF CallFails, WalkTypeOK
<1>2. CASE w.tries + 1 < AttemptsLeft /\ w' = [w EXCEPT !.tries = @ + 1]
  <2> DEFINE n == w.tries + 1
  <2>1. n \in 0 .. Attempts - 1
    BY <1>1, <1>2, WalkAssumption DEF Walk, AttemptsLeft
  <2>2. w' = [w EXCEPT !.tries = n]
    BY <1>2
  <2> HIDE DEF n
  <2>3. /\ w' \in Walk /\ w'.pc = w.pc /\ w'.ask = w.ask /\ w'.before = w.before /\ w'.reach = w.reach
        /\ w'.left = w.left /\ w'.at = w.at /\ w'.edges = w.edges /\ w'.edge = w.edge /\ w'.rest = w.rest
        /\ w'.got = w.got /\ w'.errors = w.errors /\ w'.truncated = w.truncated /\ w'.rows = w.rows
        /\ w'.added = w.added
    BY <1>1, <2>1, <2>2 DEF Walk
  <2>4. /\ Seen' = Seen
        /\ \A l : StopOf(l)' = StopOf(l) /\ EdgeOf(l)' = EdgeOf(l)
        /\ EdgesOf(w.at)' = EdgesOf(w.at)
    BY <2>3, SameAsk DEF EdgesOf
  <2>5. WalkTypeOK' /\ MapInv' /\ KindFits'
    BY <1>1, <2>3 DEF WalkTypeOK, MapInv, Known, KindFits, Calls
  <2>6. PlaceFits'
    BY <1>1, <2>3, <2>4 DEF PlaceFits, InEdge, Calls, EdgesOf, Unreadable
  <2>7. HandFits'
    BY <1>1, <2>3, <2>4 DEF HandFits, InEdge, Calls
  <2>8. RowsFit'
    BY <1>1, <2>3, RowsStay DEF Calls
  <2>9. \A l : ToCome(l) => ToCome(l)'
    BY <2>3, <2>4 DEF ToCome
  <2>10. CoverFits'
    BY <1>1, <2>3, <2>9, CoverStep DEF Calls
  <2> QED
    BY <1>1, <2>3, <2>5, <2>6, <2>7, <2>8, <2>10 DEF Calls
<1>3. CASE GiveUp
  BY <1>1, <1>3, GiveUpStep
<1> QED
  BY <1>2, <1>3 DEF CallFails

LEMMA ScriptCallFailsStep ==
  ASSUME WalkInv, NEW answered, ScriptCallFails(answered)
  PROVE  WalkInv'
<1> USE DEF WalkInv
<1>1. w \in Walk /\ w.pc \in Calls /\ UNCHANGED <<table, landed, dump, runs, edits>>
  BY DEF ScriptCallFails, WalkTypeOK
<1>2. CASE GiveUp
  BY <1>1, <1>2, GiveUpStep
<1>3. CASE w' = [w EXCEPT !.pc = "failed", !.added = {}, !.rows = Nowhere]
  <2>1. Nowhere \in [AllLeads -> Branches \cup {Null, Missing}]
    BY DEF Nowhere
  <2>2. /\ w' \in Walk /\ w'.pc = "failed" /\ w'.ask = w.ask /\ w'.before = w.before
        /\ w'.left = w.left /\ w'.rows = Nowhere /\ w'.added = {}
    BY <1>1, <1>3, <2>1 DEF Walk
  <2> QED
    BY <1>1, <2>2, FailedStep DEF Calls
<1> QED
  BY <1>2, <1>3 DEF ScriptCallFails

LEMMA TokensStep ==
  ASSUME WalkInv, NEW pages \in Reaches, GetTokens(pages) \/ ResolvePageClients(pages)
  PROVE  WalkInv'
<1> USE DEF WalkInv
<1>1. w \in Walk /\ w.pc = "tokens" /\ UNCHANGED <<table, landed, dump, runs, edits>>
  BY DEF GetTokens, ResolvePageClients, WalkTypeOK
<1>2. pages \in SUBSET Pages
  BY WalkAssumption
<1>3. /\ w' \in Walk /\ w'.pc = "stop" /\ w'.ask = w.ask /\ w'.before = w.before
      /\ w'.left = w.left /\ w'.got = w.got /\ w'.errors = w.errors /\ w'.truncated = w.truncated
      /\ w'.rows = w.rows /\ w'.added = w.added
  BY ZenonT(60), <1>1, <1>2, ZeroType DEF GetTokens, ResolvePageClients, Walk
<1>4. \A l : StopOf(l)' = StopOf(l)
  BY <1>3, SameAsk
<1>5. WalkTypeOK' /\ MapInv' /\ KindFits'
  BY <1>1, <1>3 DEF WalkTypeOK, MapInv, Known, KindFits
<1>6. PlaceFits' /\ HandFits'
  BY <1>1, <1>3 DEF PlaceFits, HandFits, InEdge
<1>7. RowsFit'
  BY <1>1, <1>3, RowsStay
<1>8. \A l : ToCome(l) => ToCome(l)'
  BY <1>1, <1>3, <1>4 DEF ToCome, InEdge
<1>9. CoverFits'
  BY <1>1, <1>3, <1>8, CoverStep
<1> QED
  BY <1>3, <1>5, <1>6, <1>7, <1>9

LEMMA ListStep ==
  ASSUME WalkInv, ListLeadGenForms \/ ListCampaignAds
  PROVE  WalkInv'
<1> USE DEF WalkInv
<1>1. w \in Walk /\ w.pc = "list" /\ UNCHANGED <<table, landed, dump, runs, edits>>
  BY DEF ListLeadGenForms, ListCampaignAds, WalkTypeOK
<1> DEFINE found == EdgesOf(w.at)
<1>2. found \in SUBSET (Forms \cup Ads)
  BY DEF EdgesOf
<1>3. w' = [w EXCEPT !.pc = "edge", !.tries = 0, !.edges = found]
  BY DEF ListLeadGenForms, ListCampaignAds, EdgesOf
<1>4. /\ w' \in Walk /\ w'.pc = "edge" /\ w'.ask = w.ask /\ w'.before = w.before /\ w'.left = w.left
      /\ w'.at = w.at /\ w'.edges = found /\ w'.got = w.got /\ w'.errors = w.errors
      /\ w'.truncated = w.truncated /\ w'.rows = w.rows /\ w'.added = w.added
  <2> HIDE DEF found
  <2> QED
    BY <1>1, <1>2, <1>3, ZeroType DEF Walk
<1>5. /\ \A l : StopOf(l)' = StopOf(l) /\ EdgeOf(l)' = EdgeOf(l)
      /\ EdgesOf(w.at)' = EdgesOf(w.at)
  BY <1>4, SameAsk DEF EdgesOf
<1>6. WalkTypeOK' /\ MapInv' /\ KindFits'
  BY <1>1, <1>4 DEF WalkTypeOK, MapInv, Known, KindFits
<1>7. PlaceFits' /\ HandFits'
  BY <1>1, <1>4, <1>5 DEF PlaceFits, HandFits, InEdge
<1>8. RowsFit'
  BY <1>1, <1>4, RowsStay
<1>9. ASSUME NEW l \in AllLeads, Wanted(l), ToCome(l) PROVE ToCome(l)'
  <2>1. StopOf(l) \in w.left \/ w.at = StopOf(l)
    BY <1>1, <1>9 DEF ToCome, InEdge
  <2>2. w.at = StopOf(l) => EdgeOf(l) \in found
    BY <1>9, WalkAssumption DEF EdgesOf, EdgeOf, StopOf, Wanted
  <2> QED
    BY <1>4, <1>5, <2>1, <2>2 DEF ToCome
<1>10. CoverFits'
  BY <1>1, <1>4, <1>9, CoverStep
<1> QED
  BY <1>4, <1>6, <1>7, <1>8, <1>10

LEMMA EdgesDoneStep ==
  ASSUME WalkInv, EdgesDone
  PROVE  WalkInv'
<1> USE DEF WalkInv
<1>1. w \in Walk /\ w.pc = "edge" /\ w.edges = {} /\ UNCHANGED <<table, landed, runs, edits>>
  BY DEF EdgesDone, WalkTypeOK
<1>2. /\ w' \in Walk /\ w'.pc = "stop" /\ w'.ask = w.ask /\ w'.before = w.before /\ w'.left = w.left
      /\ w'.got = w.got /\ w'.errors = w.errors /\ w'.truncated = w.truncated /\ w'.rows = w.rows
      /\ w'.added = w.added
  BY <1>1 DEF EdgesDone, Walk
<1>3. dump' \in [AllLeads -> Branches \cup {Null, Missing}]
  BY <1>1 DEF EdgesDone, Walk, WalkTypeOK
<1>4. \A l : StopOf(l)' = StopOf(l)
  BY <1>2, SameAsk
<1>5. WalkTypeOK' /\ MapInv' /\ KindFits'
  BY <1>1, <1>2, <1>3 DEF WalkTypeOK, MapInv, Known, KindFits
<1>6. PlaceFits' /\ HandFits'
  BY <1>1, <1>2 DEF PlaceFits, HandFits, InEdge
<1>7. RowsFit'
  BY <1>1, <1>2, RowsStay
<1>8. \A l : ToCome(l) => ToCome(l)'
  BY <1>1, <1>2, <1>4 DEF ToCome, InEdge
<1>9. CoverFits'
  BY <1>1, <1>2, <1>8, CoverStep
<1> QED
  BY <1>2, <1>5, <1>6, <1>7, <1>9

\* All leads of a form, or of an ad, are behind it.
LEMMA BehindEdges ==
  /\ \A f : /\ FormLeads(f) \in Seq(AllLeads)
            /\ ToSet(FormLeads(f)) = {l \in AllLeads : FormOf[l] = f}
            /\ OldLast(FormLeads(f))
  /\ \A a : /\ AdLeads(a) \in Seq(AllLeads)
            /\ ToSet(AdLeads(a)) = {l \in AllLeads : AdOf[l] = a}
            /\ OldLast(AdLeads(a))
<1>1. Newest \in Seq(AllLeads) /\ ToSet(Newest) = AllLeads /\ OldLast(Newest)
  BY WalkAssumption, NewestFirst DEF AllLeads
<1>2. ASSUME NEW f
      PROVE  /\ FormLeads(f) \in Seq(AllLeads)
             /\ ToSet(FormLeads(f)) = {l \in AllLeads : FormOf[l] = f}
             /\ OldLast(FormLeads(f))
  <2> DEFINE S == {l \in AllLeads : FormOf[l] = f}
  <2>1. FormLeads(f) = Among(Newest, S) /\ AllLeads \cap S = S
    BY DEF FormLeads
  <2> HIDE DEF S
  <2>2. ToSet(FormLeads(f)) = S /\ FormLeads(f) \in Seq(AllLeads) /\ OldLast(FormLeads(f))
    BY <1>1, <2>1, AmongKeeps
  <2> QED
    BY <2>2 DEF S
<1>3. ASSUME NEW a
      PROVE  /\ AdLeads(a) \in Seq(AllLeads)
             /\ ToSet(AdLeads(a)) = {l \in AllLeads : AdOf[l] = a}
             /\ OldLast(AdLeads(a))
  <2> DEFINE S == {l \in AllLeads : AdOf[l] = a}
  <2>1. AdLeads(a) = Among(Newest, S) /\ AllLeads \cap S = S
    BY DEF AdLeads
  <2> HIDE DEF S
  <2>2. ToSet(AdLeads(a)) = S /\ AdLeads(a) \in Seq(AllLeads) /\ OldLast(AdLeads(a))
    BY <1>1, <2>1, AmongKeeps
  <2> QED
    BY <2>2 DEF S
<1> QED
  BY <1>2, <1>3

LEMMA NextFormStep ==
  ASSUME WalkInv, NEW f \in Forms, NextForm(f)
  PROVE  WalkInv'
<1> USE DEF WalkInv
<1>1. /\ w \in Walk /\ w.pc = "edge" /\ f \in w.edges /\ w.ask.kind \in {"pull", "sync", "download"}
      /\ UNCHANGED <<table, landed, dump, runs, edits>>
  BY DEF NextForm, WalkTypeOK
<1>2. /\ w' \in Walk
      /\ w'.ask = w.ask /\ w'.before = w.before /\ w'.reach = w.reach /\ w'.left = w.left /\ w'.at = w.at
      /\ w'.edges = w.edges \ {f} /\ w'.edge = f /\ w'.got = w.got /\ w'.errors = w.errors
      /\ w'.truncated = w.truncated /\ w'.rows = w.rows /\ w'.added = w.added
  <2>1. FormLeads(f) \in Seq(AllLeads)
    BY BehindEdges
  <2> QED
    BY ZenonT(60), <1>1, <2>1 DEF NextForm, Walk
<1>3. \/ w'.pc = "edge" /\ w.ask.kind = "sync" /\ Resolve(Seen, w.at, f) = Null
      \/ w'.pc = "fetch" /\ w'.rest = FormLeads(f) /\ ~(w.ask.kind = "sync" /\ Resolve(Seen, w.at, f) = Null)
  BY <1>1 DEF NextForm, Walk
<1>4. /\ Seen' = Seen
      /\ \A l : StopOf(l)' = StopOf(l) /\ EdgeOf(l)' = EdgeOf(l)
      /\ EdgesOf(w.at)' = EdgesOf(w.at)
  BY <1>2, SameAsk DEF EdgesOf
<1>5. WalkTypeOK' /\ MapInv' /\ KindFits'
  BY <1>1, <1>2, <1>3 DEF WalkTypeOK, MapInv, Known, KindFits
<1>6. f \in EdgesOf(w.at) /\ PageOf[f] = w.at
  BY <1>1 DEF PlaceFits, KindFits, EdgesOf
<1>7. PlaceFits'
  BY <1>1, <1>2, <1>3, <1>4, <1>6 DEF PlaceFits, InEdge, EdgesOf
<1>8. HandFits'
  <2>1. w'.got = << >> /\ ToSet(w'.got) = {}
    BY <1>1, <1>2 DEF HandFits, ToSet
  <2>2. w'.pc = "fetch" => \A l \in ToSet(w'.rest) : EdgeOf(l)' = f
    BY <1>1, <1>3, <1>4, BehindEdges DEF EdgeOf
  <2>3. w'.pc = "fetch" => OldLast(w'.rest)
    BY <1>3, BehindEdges
  <2> QED
    BY <1>2, <1>3, <2>1, <2>2, <2>3 DEF HandFits, InEdge
<1>9. RowsFit'
  BY <1>1, <1>2, RowsStay
<1>10. ASSUME NEW l \in AllLeads, Wanted(l), ToCome(l) PROVE ToCome(l)'
  <2>1. StopOf(l) \in w.left \/ (w.at = StopOf(l) /\ EdgeOf(l) \in w.edges)
    <3>1. ToSet(w.got) = {}
      BY <1>1 DEF HandFits, ToSet
    <3> QED
      BY <1>1, <1>10, <3>1 DEF ToCome
  <2>2. CASE StopOf(l) \in w.left \/ (w.at = StopOf(l) /\ EdgeOf(l) \in w.edges /\ EdgeOf(l) # f)
    BY <1>2, <1>3, <1>4, <2>2 DEF ToCome, InEdge
  <2>3. CASE w.at = StopOf(l) /\ EdgeOf(l) = f
    <3>1. FormOf[l] = f /\ PageOf[FormOf[l]] = w.at
      BY <1>1, <2>3 DEF EdgeOf, StopOf
    <3>2. CASE w'.pc = "edge"
      <4>1. Resolve(Seen, PageOf[FormOf[l]], FormOf[l]) # Null
        BY <1>1, <1>3, <1>10, <3>2 DEF Wanted, AskedOf, Seen, IsPull
      <4> QED
        BY <1>3, <3>1, <3>2, <4>1
    <3>3. CASE w'.pc = "fetch"
      BY <1>3, <3>1, <3>3, BehindEdges DEF ToCome
    <3> QED
      BY <1>3, <3>2, <3>3
  <2> QED
    BY <2>1, <2>2, <2>3
<1>11. CoverFits'
  BY <1>1, <1>2, <1>10, CoverStep
<1> QED
  BY <1>3, <1>5, <1>7, <1>8, <1>9, <1>11

LEMMA NextAdStep ==
  ASSUME WalkInv, NEW a \in Ads, NextAd(a)
  PROVE  WalkInv'
<1> USE DEF WalkInv
<1>1. /\ w \in Walk /\ w.pc = "edge" /\ a \in w.edges /\ w.ask.kind = "campaign"
      /\ UNCHANGED <<table, landed, dump, runs, edits>>
  BY DEF NextAd, WalkTypeOK
<1> DEFINE page == IF Promotes[a] = Null THEN a ELSE Promotes[a]
<1>2. \/ /\ Unreadable(a)
         /\ w' = [w EXCEPT !.edges = @ \ {a}, !.edge = a, !.errors = @ \cup {page}]
      \/ /\ ~Unreadable(a)
         /\ w' = [w EXCEPT !.edges = @ \ {a}, !.edge = a, !.pc = "fetch", !.rest = AdLeads(a)]
  BY DEF NextAd
<1>3. /\ w' \in Walk
      /\ w'.ask = w.ask /\ w'.before = w.before /\ w'.reach = w.reach /\ w'.left = w.left /\ w'.at = w.at
      /\ w'.edges = w.edges \ {a} /\ w'.edge = a /\ w'.got = w.got
      /\ w'.truncated = w.truncated /\ w'.rows = w.rows /\ w'.added = w.added
  <2> DEFINE es == w.errors \cup {page}
             left == w.edges \ {a}
             behind == AdLeads(a)
  <2>1. behind \in Seq(AllLeads) /\ page \in Pages \cup Ads
    BY BehindEdges, WalkAssumption
  <2>2. es \in SUBSET (Pages \cup Campaigns \cup Ads) /\ left \in SUBSET (Forms \cup Ads)
    <3> HIDE DEF page
    <3> QED
      BY <1>1, <2>1 DEF Walk
  <2>3. \/ w' = [w EXCEPT !.edges = left, !.edge = a, !.errors = es]
        \/ w' = [w EXCEPT !.edges = left, !.edge = a, !.pc = "fetch", !.rest = behind]
    BY <1>2
  <2> HIDE DEF es, left, behind
  <2>4. CASE w' = [w EXCEPT !.edges = left, !.edge = a, !.errors = es]
    BY <1>1, <2>2, <2>4 DEF Walk, left
  <2>5. CASE w' = [w EXCEPT !.edges = left, !.edge = a, !.pc = "fetch", !.rest = behind]
    BY <1>1, <2>1, <2>2, <2>5 DEF Walk, left
  <2> QED
    BY <2>3, <2>4, <2>5
<1>4. \/ w'.pc = "edge" /\ w'.errors = w.errors \cup {page}
      \/ w'.pc = "fetch" /\ w'.errors = w.errors /\ w'.rest = AdLeads(a) /\ ~Unreadable(a)
  BY <1>1, <1>2 DEF Walk
<1>5. /\ Seen' = Seen
      /\ \A l : StopOf(l)' = StopOf(l) /\ EdgeOf(l)' = EdgeOf(l)
      /\ EdgesOf(w.at)' = EdgesOf(w.at)
      /\ Unreadable(a)' <=> Unreadable(a)
  BY <1>3, SameAsk DEF EdgesOf, Unreadable
<1>6. WalkTypeOK' /\ MapInv' /\ KindFits'
  BY <1>1, <1>3, <1>4 DEF WalkTypeOK, MapInv, Known, KindFits
<1>7. a \in EdgesOf(w.at) /\ CampaignOf[a] = w.at
  BY <1>1 DEF PlaceFits, KindFits, EdgesOf
<1>8. PlaceFits'
  BY <1>1, <1>3, <1>4, <1>5, <1>7 DEF PlaceFits, InEdge, EdgesOf
<1>9. HandFits'
  <2>1. w'.got = << >> /\ ToSet(w'.got) = {}
    BY <1>1, <1>3 DEF HandFits, ToSet
  <2>2. w'.pc = "fetch" => \A l \in ToSet(w'.rest) : EdgeOf(l)' = a
    BY <1>1, <1>4, <1>5, BehindEdges DEF EdgeOf
  <2>3. w'.pc = "fetch" => OldLast(w'.rest)
    BY <1>4, BehindEdges
  <2> QED
    BY <1>3, <1>4, <2>1, <2>2, <2>3 DEF HandFits, InEdge
<1>10. RowsFit'
  BY <1>1, <1>3, RowsStay
<1>11. ASSUME NEW l \in AllLeads, Wanted(l), ToCome(l) PROVE Excused(l)' \/ ToCome(l)'
  <2>1. StopOf(l) \in w.left \/ (w.at = StopOf(l) /\ EdgeOf(l) \in w.edges)
    <3>1. ToSet(w.got) = {}
      BY <1>1 DEF HandFits, ToSet
    <3> QED
      BY <1>1, <1>11, <3>1 DEF ToCome
  <2>2. CASE StopOf(l) \in w.left \/ (w.at = StopOf(l) /\ EdgeOf(l) \in w.edges /\ EdgeOf(l) # a)
    BY <1>3, <1>4, <1>5, <2>2 DEF ToCome, InEdge
  <2>3. CASE EdgeOf(l) = a
    <3>1. AdOf[l] = a /\ AdOf[l] # Null
      BY <1>1, <1>11, <2>3 DEF EdgeOf, Wanted
    <3>2. CASE w'.pc = "edge"
      BY <1>4, <3>1, <3>2 DEF Excused
    <3>3. CASE w'.pc = "fetch"
      BY <1>4, <3>1, <3>3, BehindEdges DEF ToCome
    <3> QED
      BY <1>4, <3>2, <3>3
  <2> QED
    BY <2>1, <2>2, <2>3
<1>12. CoverFits'
  BY <1>1, <1>3, <1>4, <1>11, CoverStep
<1> QED
  BY <1>4, <1>6, <1>8, <1>9, <1>10, <1>12

LEMMA NextFoundFormStep ==
  ASSUME WalkInv, NEW f \in Forms, NextFoundForm(f)
  PROVE  WalkInv'
<1> USE DEF WalkInv
<1>1. /\ w \in Walk /\ w.pc = "edge" /\ f \in w.edges /\ w.ask.kind = "forms"
      /\ UNCHANGED <<table, landed, dump, runs, edits>>
  BY DEF NextFoundForm, WalkTypeOK
<1>2. /\ w' \in Walk /\ w'.pc = "form"
      /\ w'.ask = w.ask /\ w'.before = w.before /\ w'.left = w.left /\ w'.at = w.at
      /\ w'.edges = w.edges \ {f} /\ w'.edge = f /\ w'.got = w.got /\ w'.rows = w.rows /\ w'.added = w.added
  BY <1>1 DEF NextFoundForm, Walk
<1>3. EdgesOf(w.at)' = EdgesOf(w.at)
  BY <1>2, SameAsk DEF EdgesOf
<1>4. WalkTypeOK' /\ MapInv' /\ KindFits' /\ HandFits' /\ CoverFits'
  BY <1>1, <1>2 DEF WalkTypeOK, MapInv, Known, KindFits, HandFits, InEdge, CoverFits
<1>5. PlaceFits'
  BY <1>1, <1>2, <1>3 DEF PlaceFits, KindFits, InEdge
<1>6. RowsFit'
  BY <1>1, <1>2, RowsStay
<1> QED
  BY <1>2, <1>4, <1>5, <1>6

LEMMA TryFormStep ==
  ASSUME WalkInv, TryForm
  PROVE  WalkInv'
<1> USE DEF WalkInv
<1>1. /\ w \in Walk /\ w.pc = "form" /\ UNCHANGED <<table, landed, dump, runs, edits>>
      /\ w.ask.kind = "forms"
  BY DEF TryForm, WalkTypeOK, KindFits
<1>2. /\ w' \in Walk /\ w'.pc \in {"edge", "map"}
      /\ w'.ask = w.ask /\ w'.before = w.before /\ w'.left = w.left /\ w'.at = w.at /\ w'.got = w.got
      /\ w'.edges = w.edges /\ w'.edge = w.edge /\ w'.rows = w.rows /\ w'.added = w.added
  BY ZenonT(60), <1>1 DEF TryForm, Walk
<1>3. EdgesOf(w.at)' = EdgesOf(w.at)
  BY <1>2, SameAsk DEF EdgesOf
<1>4. WalkTypeOK' /\ MapInv' /\ KindFits' /\ CoverFits'
  BY <1>1, <1>2 DEF WalkTypeOK, MapInv, Known, KindFits, CoverFits
<1>5. PlaceFits' /\ HandFits'
  BY <1>1, <1>2, <1>3 DEF PlaceFits, KindFits, InEdge, HandFits
<1>6. RowsFit'
  BY <1>1, <1>2, RowsStay
<1> QED
  BY <1>2, <1>4, <1>5, <1>6

\* The new form is mapped under its page, and no row has it yet.
LEMMA AutoMapStep ==
  ASSUME WalkInv, AutoMap
  PROVE  WalkInv'
<1> USE DEF WalkInv
<1>1. /\ w \in Walk /\ w.pc = "map" /\ UNCHANGED <<table, landed, dump, runs, edits>>
      /\ w.ask.kind = "forms" /\ Known \in SUBSET Mapping
  BY DEF AutoMap, WalkTypeOK, KindFits, Known, Walk
<1>2. w.at \in Pages /\ w.edge \in Forms /\ PageOf[w.edge] = w.at
  BY <1>1, WalkAssumption DEF PlaceFits, KindFits, EdgesOf
<1>3. /\ w' \in Walk /\ w'.pc = "edge"
      /\ w'.ask = w.ask /\ w'.before = w.before /\ w'.left = w.left /\ w'.at = w.at /\ w'.got = w.got
      /\ w'.edges = w.edges /\ w'.edge = w.edge /\ w'.rows = w.rows
      /\ Keyed(Known')
  <2>1. CASE w' = [w EXCEPT !.pc = "edge"]
    <3>1. /\ w' \in Walk /\ w'.pc = "edge"
          /\ w'.ask = w.ask /\ w'.before = w.before /\ w'.left = w.left /\ w'.at = w.at /\ w'.got = w.got
          /\ w'.edges = w.edges /\ w'.edge = w.edge /\ w'.rows = w.rows /\ w'.added = w.added
      BY <1>1, <2>1 DEF Walk
    <3> QED
      BY <1>1, <3>1 DEF MapInv, Known
  <2>2. CASE /\ ~\E r \in Known : r.form = w.edge
             /\ \E b \in BranchesOn(w.at) :
                  w' = [w EXCEPT !.pc = "edge", !.added = @ \cup {[org |-> b, page |-> w.at, form |-> w.edge]}]
    <3>1. PICK b \in BranchesOn(w.at) :
            w' = [w EXCEPT !.pc = "edge", !.added = @ \cup {[org |-> b, page |-> w.at, form |-> w.edge]}]
      BY <2>2
    <3> DEFINE r == [org |-> b, page |-> w.at, form |-> w.edge]
               more == w.added \cup {r}
    <3>2. b \in Branches
      BY <1>1, <3>1 DEF BranchesOn, Mapping
    <3>3. r \in Mapping /\ r.page = w.at /\ r.form = w.edge
      BY <1>2, <3>2 DEF Mapping
    <3> HIDE DEF r
    <3>4. more \in SUBSET Mapping
      BY <1>1, <3>3 DEF Walk
    <3>5. w' = [w EXCEPT !.pc = "edge", !.added = more]
      BY <3>1 DEF r
    <3>6. Keyed(Known \cup {r})
      <4>1. \A x \in Known : x.form # r.form
        BY <2>2, <3>3
      <4> QED
        BY <1>2, <3>3, <4>1 DEF Keyed, MapInv
    <3> HIDE DEF more
    <3>7. /\ w' \in Walk /\ w'.pc = "edge"
          /\ w'.ask = w.ask /\ w'.before = w.before /\ w'.left = w.left /\ w'.at = w.at /\ w'.got = w.got
          /\ w'.edges = w.edges /\ w'.edge = w.edge /\ w'.rows = w.rows /\ w'.added = more
      BY <1>1, <3>4, <3>5 DEF Walk
    <3>8. Known' = Known \cup {r}
      BY <1>1, <3>7 DEF Known, more
    <3> QED
      BY <3>6, <3>7, <3>8
  <2> QED
    BY <2>1, <2>2 DEF AutoMap
<1>4. EdgesOf(w.at)' = EdgesOf(w.at)
  BY <1>3, SameAsk DEF EdgesOf
<1>5. WalkTypeOK' /\ MapInv' /\ KindFits' /\ CoverFits'
  BY <1>1, <1>3 DEF WalkTypeOK, MapInv, KindFits, CoverFits
<1>6. PlaceFits' /\ HandFits'
  BY <1>1, <1>3, <1>4 DEF PlaceFits, KindFits, InEdge, HandFits
<1>7. RowsFit'
  BY <1>1, <1>3, RowsStay
<1> QED
  BY <1>3, <1>5, <1>6, <1>7

LEMMA ThrowStep ==
  ASSUME WalkInv, Throw
  PROVE  WalkInv'
<1>1. w \in Walk /\ w.pc \in {"keep", "write", "form", "map"} /\ UNCHANGED <<table, landed, dump, runs, edits>>
  BY DEF Throw, WalkInv, WalkTypeOK
<1> DEFINE left == IF IsPull(w.ask) THEN w.rows ELSE Nowhere
<1>2. left \in [AllLeads -> Branches \cup {Null, Missing}] /\ left \in {w.rows, Nowhere}
  BY <1>1 DEF Nowhere, Walk
<1>3. w' = [w EXCEPT !.pc = "failed", !.added = {}, !.rows = left]
  BY DEF Throw
<1> HIDE DEF left
<1>4. /\ w' \in Walk /\ w'.pc = "failed" /\ w'.ask = w.ask /\ w'.before = w.before
      /\ w'.left = w.left /\ w'.rows = left /\ w'.added = {}
  BY <1>1, <1>2, <1>3 DEF Walk
<1> QED
  BY <1>1, <1>2, <1>4, FailedStep

LEMMA FinishStep ==
  ASSUME WalkInv, Finish
  PROVE  WalkInv'
<1> USE DEF WalkInv
<1>1. w \in Walk /\ w.pc = "stop" /\ w.left = {} /\ UNCHANGED <<dump, runs, edits>> /\ table' = table \cup w.added
  BY DEF Finish, WalkTypeOK
<1>2. /\ w' \in Walk /\ w'.pc = "done"
      /\ w'.ask = w.ask /\ w'.before = w.before /\ w'.left = w.left
      /\ w'.rows = w.rows /\ w'.added = w.added /\ w'.errors = w.errors /\ w'.truncated = w.truncated
  BY <1>1 DEF Finish, Walk
<1>3. landed' \in [AllLeads -> Branches \cup {Missing}]
  <2>1. ASSUME NEW l \in AllLeads, Writes(w.ask), w.rows[l] # Missing PROVE w.rows[l] \in Branches
    BY <1>1, <2>1 DEF Walk, RowsFit
  <2> QED
    BY <2>1 DEF Finish, WalkTypeOK
<1>4. \A l \in AllLeads : landed[l] # Missing => landed'[l] # Missing
  BY DEF Finish
<1>5. WalkTypeOK' /\ MapInv' /\ KindFits' /\ PlaceFits' /\ HandFits'
  BY <1>1, <1>2, <1>3 DEF WalkTypeOK, Walk, MapInv, Known, KindFits, PlaceFits, HandFits, InEdge
<1>6. RowsFit'
  BY <1>1, <1>2, RowsStay
<1>7. \A l : ~ToCome(l)
  BY <1>1 DEF ToCome, InEdge
<1>8. CoverFits'
  BY <1>1, <1>2, <1>4, <1>7, CoverStep
<1> QED
  BY <1>2, <1>5, <1>6, <1>8

\* What others do: the webhook lands a lead, an administrator edits a mapping.
LEMMA WebhookOrgType ==
  ASSUME NEW ms \in SUBSET Mapping, NEW l, WebhookOrg(ms, l) # Null
  PROVE  WebhookOrg(ms, l) \in Branches
<1> DEFINE fits == {r \in ms : r.form = FormOf[l] \/ (r.form = Null /\ r.page = PageOf[FormOf[l]])}
           own == {r \in fits : r.form # Null}
           z == CHOOSE r \in fits : own # {} => r \in own
<1>1. WebhookOrg(ms, l) = IF fits = {} THEN Null ELSE z.org
  BY DEF WebhookOrg
<1>2. fits # {} => \E r \in fits : own # {} => r \in own
  OBVIOUS
<1>3. fits # {} => z \in fits
  BY <1>2
<1> HIDE DEF z
<1> QED
  BY <1>1, <1>3 DEF Mapping

LEMMA OthersStep ==
  ASSUME WalkInv, \/ \E l \in AllLeads : Land(l)
                  \/ \E r \in EditRows : MapForm(r) \/ UnmapForm(r)
  PROVE  WalkInv'
<1> USE DEF WalkInv
<1>1. UNCHANGED <<dump, w, runs>>
  BY DEF Land, MapForm, UnmapForm
<1>2. /\ landed' \in [AllLeads -> Branches \cup {Missing}]
      /\ \A l \in AllLeads : landed[l] # Missing => landed'[l] # Missing
  <2>1. CASE \E l \in AllLeads : Land(l)
    <3>1. PICK l \in AllLeads : Land(l)
      BY <2>1
    <3>2. WebhookOrg(table, l) \in Branches
      BY <3>1, WebhookOrgType DEF Land, WalkTypeOK
    <3> QED
      BY <3>1, <3>2, WalkAssumption DEF Land, WalkTypeOK
  <2>2. CASE \E r \in EditRows : MapForm(r) \/ UnmapForm(r)
    BY <2>2 DEF MapForm, UnmapForm, WalkTypeOK
  <2> QED
    BY <2>1, <2>2
<1>3. table' \in SUBSET Mapping /\ edits' \in 0 .. MaxEdits /\ Keyed(Known')
  <2>1. CASE \E l \in AllLeads : Land(l)
    BY <1>1, <2>1 DEF Land, WalkTypeOK, MapInv, Known
  <2>2. ASSUME NEW r \in EditRows, MapForm(r)
        PROVE  table' \in SUBSET Mapping /\ edits' \in 0 .. MaxEdits /\ Keyed(Known')
    <3>1. r \in Mapping
      BY WalkAssumption
    <3>2. Known' = Known \cup {r}
      BY <1>1, <2>2 DEF MapForm, Known
    <3>3. Keyed(Known \cup {r})
      BY <2>2 DEF MapForm, MapInv, Keyed
    <3> QED
      BY <2>2, <3>1, <3>2, <3>3, WalkAssumption DEF MapForm, WalkTypeOK
  <2>3. ASSUME NEW r \in EditRows, UnmapForm(r)
        PROVE  table' \in SUBSET Mapping /\ edits' \in 0 .. MaxEdits /\ Keyed(Known')
    <3>1. Known' \subseteq Known
      BY <1>1, <2>3 DEF UnmapForm, Known
    <3> QED
      BY <2>3, <3>1, KeyedSub, WalkAssumption DEF UnmapForm, WalkTypeOK, MapInv
  <2> QED
    BY <2>1, <2>2, <2>3
<1>4. WalkTypeOK' /\ MapInv'
  BY <1>1, <1>2, <1>3 DEF WalkTypeOK, MapInv
<1>5. (w.pc = "idle" => w = IdleWalk)'
  BY <1>1 DEF IdleWalk, Nowhere
<1>6. ASSUME w.pc # "idle"
      PROVE  KindFits' /\ PlaceFits' /\ HandFits' /\ RowsFit' /\ CoverFits'
  <2>1. /\ Seen' = Seen
        /\ \A l : StopOf(l)' = StopOf(l) /\ EdgeOf(l)' = EdgeOf(l)
        /\ EdgesOf(w.at)' = EdgesOf(w.at)
    BY <1>1, SameAsk DEF EdgesOf
  <2>2. KindFits'
    BY <1>1, <1>6 DEF KindFits
  <2>3. PlaceFits'
    BY <1>1, <1>6, <2>1 DEF PlaceFits, Unreadable
  <2>4. HandFits'
    BY <1>1, <1>6, <2>1 DEF HandFits
  <2>5. RowsFit'
    BY <1>1, <1>6, RowsStay
  <2>6. \A l : (Excused(l) => Excused(l)') /\ (ToCome(l) => ToCome(l)') /\ (Wanted(l)' => Wanted(l))
    BY <1>1, <2>1, SameAsk DEF Excused, ToCome
  <2>7. CoverFits'
    BY <1>1, <1>2, <1>6, <2>6 DEF CoverFits
  <2> QED
    BY <2>2, <2>3, <2>4, <2>5, <2>7
<1> QED
  BY <1>1, <1>4, <1>5, <1>6

\* A lead in hand is of the page, or the ad, the walk is at, and has its page.
LEMMA HandLead ==
  ASSUME WalkInv, w.pc \in InEdge, w.ask.kind # "import", NEW l \in ToSet(w.got)
  PROVE  /\ l \in AllLeads /\ InWindow(w.ask, l) /\ EdgeOf(l) = w.edge
         /\ PageAt(w.edge) = PageOf[FormOf[l]]
         /\ w.ask.kind # "campaign" => w.edge = FormOf[l] /\ w.at = PageOf[FormOf[l]]
         /\ w.ask.kind = "campaign" => /\ AdOf[l] # Null /\ CampaignOf[AdOf[l]] \in w.ask.campaigns
         /\ IsPull(w.ask) => PageOf[FormOf[l]] \notin Foreign(w.ask, w.before)
<1> USE DEF WalkInv
<1>1. w \in Walk /\ w.pc # "idle"
  BY DEF WalkTypeOK, InEdge
<1>2. l \in AllLeads /\ InWindow(w.ask, l) /\ EdgeOf(l) = w.edge
  <2>1. w.got \in Seq(AllLeads)
    BY <1>1 DEF Walk
  <2>2. l \in AllLeads
    BY <2>1, LenProperties DEF ToSet
  <2> QED
    BY <1>1, <2>2 DEF HandFits
<1>3. w.at \in Stops(w.ask, w.before) /\ w.edge \in EdgesOf(w.at)
  BY <1>1 DEF PlaceFits
<1>4. CASE w.ask.kind = "campaign"
  <2>1. AdOf[l] = w.edge /\ w.edge \in Ads /\ CampaignOf[w.edge] = w.at /\ w.at \in w.ask.campaigns
    BY <1>2, <1>3, <1>4 DEF EdgeOf, EdgesOf, Stops
  <2>2. Promotes[w.edge] # Null /\ Promotes[w.edge] \notin Foreign(w.ask, w.before)
    BY <1>1, <1>4 DEF PlaceFits, Unreadable
  <2>3. PageAt(w.edge) = Promotes[w.edge] /\ AdOf[l] # Null /\ Promotes[w.edge] = PageOf[FormOf[l]]
    BY <1>2, <2>1, <2>2, WalkAssumption, AdAssumption DEF PageAt
  <2> QED
    BY <1>2, <1>4, <2>1, <2>2, <2>3
<1>5. CASE w.ask.kind # "campaign"
  <2>1. FormOf[l] = w.edge /\ w.edge \in Forms /\ PageOf[w.edge] = w.at
    BY <1>2, <1>3, <1>5 DEF EdgeOf, EdgesOf
  <2>2. IsPull(w.ask) => w.at \notin Foreign(w.ask, w.before)
    BY <1>3, <1>5 DEF IsPull, Stops
  <2> QED
    BY <1>2, <1>5, <2>1, <2>2 DEF PageAt
<1> QED
  BY <1>4, <1>5

\* The branch of a lead in hand, by the rule of its form and page.
LEMMA HandOrg ==
  ASSUME WalkInv, w.pc \in InEdge, w.ask.kind # "import", NEW l \in ToSet(w.got)
  PROVE  /\ OrgFor(l) = Resolve(Seen, PageOf[FormOf[l]], FormOf[l])
         /\ w.ask.kind # "campaign" => Resolve(Seen, w.at, w.edge) = OrgFor(l)
         /\ OrgFor(l) \in Branches \cup {Null} /\ OrgFor(l) # Missing
         /\ CampaignAsked(w.ask, l) /\ ~OutOfScope(OrgFor(l)) => RowFits(w.ask, w.before, l, OrgFor(l))
         /\ ~IsPull(w.ask) => CampaignAsked(w.ask, l) /\ ~OutOfScope(OrgFor(l))
<1>1. /\ l \in AllLeads /\ InWindow(w.ask, l) /\ EdgeOf(l) = w.edge
      /\ PageAt(w.edge) = PageOf[FormOf[l]]
      /\ w.ask.kind # "campaign" => w.edge = FormOf[l] /\ w.at = PageOf[FormOf[l]]
      /\ w.ask.kind = "campaign" => /\ AdOf[l] # Null /\ CampaignOf[AdOf[l]] \in w.ask.campaigns
      /\ IsPull(w.ask) => PageOf[FormOf[l]] \notin Foreign(w.ask, w.before)
  BY HandLead
<1>2. w.ask \in Asks /\ w.before \in SUBSET Mapping
  BY DEF WalkInv, KindFits, WalkTypeOK, Walk, InEdge
<1>3. OrgFor(l) = Resolve(Seen, PageOf[FormOf[l]], FormOf[l])
  BY <1>1 DEF OrgFor
<1>4. /\ OrgFor(l) \in Branches \cup {Null} /\ OrgFor(l) # Missing
      /\ w.ask.kind = "sync" => OrgFor(l) = Null \/ Selected(w.ask, OrgFor(l))
  BY <1>2, ResolveType DEF OrgFor, Seen
<1>5. CampaignAsked(w.ask, l) /\ ~OutOfScope(OrgFor(l)) => RowFits(w.ask, w.before, l, OrgFor(l))
  BY <1>1, <1>3 DEF RowFits, OutOfScope, Seen
<1>6. ~IsPull(w.ask) => CampaignAsked(w.ask, l) /\ ~OutOfScope(OrgFor(l))
  BY <1>2, <1>4, AskAssumption DEF IsPull, CampaignAsked, OutOfScope, Selected
<1> QED
  BY <1>1, <1>3, <1>4, <1>5, <1>6

LEMMA ToSetTail ==
  ASSUME NEW s \in Seq(AllLeads), s # << >>
  PROVE  /\ Head(s) \in ToSet(s) /\ Head(s) \in AllLeads /\ Tail(s) \in Seq(AllLeads)
         /\ \A l : l \in ToSet(s) <=> l = Head(s) \/ l \in ToSet(Tail(s))
<1>1. /\ Len(s) \in Nat \ {0} /\ Head(s) = s[1] /\ Head(s) \in AllLeads
      /\ Tail(s) \in Seq(AllLeads) /\ Len(Tail(s)) = Len(s) - 1
      /\ \A i \in 1 .. Len(Tail(s)) : Tail(s)[i] = s[i + 1]
  BY HeadTailProperties, EmptySeq
<1>2. \A l : l \in ToSet(s) <=> \E i \in 1 .. Len(s) : s[i] = l
  BY LenProperties DEF ToSet
<1>3. \A l : l \in ToSet(Tail(s)) <=> \E i \in 1 .. Len(s) - 1 : s[i + 1] = l
  BY <1>1, LenProperties DEF ToSet
<1>4. ASSUME NEW l, NEW i \in 1 .. Len(s), s[i] = l
      PROVE  l = Head(s) \/ \E k \in 1 .. Len(s) - 1 : s[k + 1] = l
  <2>1. CASE i = 1
    BY <1>1, <1>4, <2>1
  <2>2. CASE i # 1
    <3>1. i - 1 \in 1 .. Len(s) - 1 /\ s[i - 1 + 1] = l
      BY <1>1, <1>4, <2>2
    <3> QED
      BY <3>1
  <2> QED
    BY <2>1, <2>2
<1>5. \A k \in 1 .. Len(s) - 1 : k + 1 \in 1 .. Len(s)
  BY <1>1
<1>6. 1 \in 1 .. Len(s)
  BY <1>1
<1> QED
  BY <1>1, <1>2, <1>3, <1>4, <1>5, <1>6

\* Back at the list of forms or ads with nothing in hand: what was in hand is
\* staged, or not wanted.
LEMMA KeepDone ==
  ASSUME WalkInv, w.pc = "keep", w.ask.kind # "import",
         w' \in Walk, w'.pc = "edge", w'.ask = w.ask, w'.before = w.before, w'.left = w.left, w'.at = w.at,
         w'.edges = w.edges, w'.got = << >>, w'.errors = w.errors, w'.truncated = w.truncated,
         w'.added = w.added, UNCHANGED <<table, landed, dump, runs, edits>>, RowsFit',
         \A l \in AllLeads : w.rows[l] # Missing => w'.rows[l] # Missing,
         \A l \in ToSet(w.got) : Wanted(l) => w'.rows[l] # Missing
  PROVE  WalkInv'
<1> USE DEF WalkInv
<1>1. /\ Seen' = Seen
      /\ \A l : StopOf(l)' = StopOf(l) /\ EdgeOf(l)' = EdgeOf(l)
      /\ EdgesOf(w.at)' = EdgesOf(w.at)
  BY SameAsk DEF EdgesOf
<1>2. WalkTypeOK' /\ MapInv' /\ KindFits'
  BY DEF WalkTypeOK, MapInv, Known, KindFits
<1>3. PlaceFits' /\ HandFits'
  BY <1>1 DEF PlaceFits, HandFits, InEdge
<1>4. ASSUME NEW l \in AllLeads, Wanted(l), ToCome(l) PROVE w'.rows[l] # Missing \/ ToCome(l)'
  BY <1>1, <1>4 DEF ToCome, InEdge
<1>5. CoverFits'
  BY <1>4, CoverStep
<1> QED
  BY <1>2, <1>3, <1>5

LEMMA StageLeadsStep ==
  ASSUME WalkInv, StageLeads
  PROVE  WalkInv'
<1>1. /\ w \in Walk /\ w.pc = "keep" /\ IsPull(w.ask) /\ UNCHANGED <<table, landed, dump, runs, edits>>
      /\ w.pc \in InEdge /\ w.ask.kind # "import"
  BY DEF StageLeads, WalkInv, WalkTypeOK, IsPull, InEdge
<1> DEFINE sent == {l \in ToSet(w.got) : CampaignAsked(w.ask, l) /\ ~OutOfScope(OrgFor(l))}
           fresh == {l \in sent : w.rows[l] = Missing}
           staged == [l \in AllLeads |-> IF l \in fresh THEN OrgFor(l) ELSE w.rows[l]]
<1>2. w' = [w EXCEPT !.pc = "edge", !.got = << >>, !.rows = staged]
  BY DEF StageLeads
<1>3. staged \in [AllLeads -> Branches \cup {Null, Missing}]
  <2>1. \A l \in fresh : OrgFor(l) \in Branches \cup {Null}
    BY <1>1, HandOrg
  <2>2. w.rows \in [AllLeads -> Branches \cup {Null, Missing}]
    BY <1>1 DEF Walk
  <2> HIDE DEF fresh
  <2> QED
    BY <2>1, <2>2
<1>4. \A l \in AllLeads : staged[l] = IF l \in fresh THEN OrgFor(l) ELSE w.rows[l]
  OBVIOUS
<1> HIDE DEF staged
<1>5. /\ w' \in Walk /\ w'.pc = "edge" /\ w'.ask = w.ask /\ w'.before = w.before /\ w'.left = w.left
      /\ w'.at = w.at /\ w'.edges = w.edges /\ w'.got = << >> /\ w'.errors = w.errors
      /\ w'.truncated = w.truncated /\ w'.added = w.added /\ w'.rows = staged
  BY <1>1, <1>2, <1>3, ZeroType DEF Walk
<1>6. RowsFit'
  <2>2. ASSUME NEW l \in AllLeads, l \in fresh PROVE RowFits(w.ask, w.before, l, OrgFor(l))
    BY <1>1, <2>2, HandOrg
  <2>3. ASSUME NEW l \in AllLeads, w.rows[l] # Missing PROVE RowFits(w.ask, w.before, l, w.rows[l])
    BY <1>1, <2>3 DEF WalkInv, RowsFit
  <2>4. ~Writes(w.ask)
    BY <1>1 DEF Writes, IsPull
  <2>5. ASSUME NEW l \in AllLeads, staged[l] # Missing PROVE RowFits(w.ask, w.before, l, staged[l])
    <3> HIDE DEF fresh
    <3> QED
      BY <1>4, <2>2, <2>3, <2>5
  <2> QED
    BY <1>5, <2>4, <2>5 DEF RowsFit, Writes
<1>7. \A l \in AllLeads : w.rows[l] # Missing => w'.rows[l] # Missing
  BY <1>4, <1>5
<1>8. ASSUME NEW l \in ToSet(w.got), Wanted(l) PROVE w'.rows[l] # Missing
  <2>1. /\ l \in AllLeads /\ PageAt(w.edge) = PageOf[FormOf[l]] /\ EdgeOf(l) = w.edge
        /\ OrgFor(l) = Resolve(Seen, PageOf[FormOf[l]], FormOf[l]) /\ OrgFor(l) # Missing
    BY <1>1, HandLead, HandOrg
  <2>2. CampaignAsked(w.ask, l)
    BY <1>8 DEF Wanted, AskedOf
  <2>3. w.ask.kind = "campaign" => Promotes[AdOf[l]] = PageOf[FormOf[l]]
    <3>1. w.ask.kind = "campaign" => w.edge = AdOf[l] /\ w.edge \in Ads /\ w.edge \notin Forms
      BY <1>1, <2>1, WalkAssumption DEF EdgeOf, WalkInv, PlaceFits, EdgesOf
    <3> QED
      BY <2>1, <3>1 DEF PageAt
  <2>4. OrgFor(l) = Null \/ Selected(w.ask, OrgFor(l))
    BY <1>1, <1>8, <2>1, <2>3 DEF Wanted, AskedOf, Seen
  <2>5. l \in sent
    BY <2>2, <2>4 DEF OutOfScope
  <2> QED
    BY <1>4, <1>5, <2>1, <2>5
<1> QED
  BY <1>1, <1>5, <1>6, <1>7, <1>8, KeepDone

LEMMA DumpLeadsStep ==
  ASSUME WalkInv, DumpLeads
  PROVE  WalkInv'
<1>1. /\ w \in Walk /\ w.pc = "keep" /\ w.ask.kind = "download" /\ UNCHANGED <<table, landed, dump, runs, edits>>
      /\ w.pc \in InEdge
  BY DEF DumpLeads, WalkInv, WalkTypeOK, InEdge
<1> DEFINE org == Resolve(Seen, w.at, w.edge)
           dumped == [l \in AllLeads |-> IF l \in ToSet(w.got) THEN org ELSE w.rows[l]]
<1>2. w' = [w EXCEPT !.pc = "edge", !.got = << >>, !.rows = dumped]
  BY DEF DumpLeads
<1>3. org \in Branches \cup {Null} /\ org # Missing
  BY <1>1, ResolveType DEF Seen, Walk
<1>4. \A l \in AllLeads : dumped[l] = IF l \in ToSet(w.got) THEN org ELSE w.rows[l]
  OBVIOUS
<1> HIDE DEF org
<1>5. dumped \in [AllLeads -> Branches \cup {Null, Missing}]
  BY <1>1, <1>3 DEF Walk
<1> HIDE DEF dumped
<1>6. /\ w' \in Walk /\ w'.pc = "edge" /\ w'.ask = w.ask /\ w'.before = w.before /\ w'.left = w.left
      /\ w'.at = w.at /\ w'.edges = w.edges /\ w'.got = << >> /\ w'.errors = w.errors
      /\ w'.truncated = w.truncated /\ w'.added = w.added /\ w'.rows = dumped
  BY <1>1, <1>2, <1>5, ZeroType DEF Walk
<1>7. RowsFit'
  <2>2. ASSUME NEW l \in ToSet(w.got) PROVE RowFits(w.ask, w.before, l, org)
    <3>1. org = OrgFor(l) /\ RowFits(w.ask, w.before, l, OrgFor(l))
      BY <1>1, HandOrg DEF org, IsPull
    <3> QED
      BY <3>1
  <2>3. ASSUME NEW l \in AllLeads, w.rows[l] # Missing PROVE RowFits(w.ask, w.before, l, w.rows[l])
    BY <1>1, <2>3 DEF WalkInv, RowsFit
  <2>4. ASSUME NEW l \in AllLeads, dumped[l] # Missing PROVE RowFits(w.ask, w.before, l, dumped[l])
    BY <1>4, <2>2, <2>3, <2>4
  <2> QED
    BY <1>1, <1>6, <2>4 DEF RowsFit, Writes
<1>8. /\ \A l \in AllLeads : w.rows[l] # Missing => w'.rows[l] # Missing
      /\ \A l \in ToSet(w.got) : w'.rows[l] # Missing
  BY <1>1, <1>3, <1>4, <1>6, HandLead
<1> QED
  BY <1>1, <1>6, <1>7, <1>8, KeepDone

\* A script goes on to the next lead in hand: the one it leaves is there.
LEMMA TailStep ==
  ASSUME WalkInv, w.pc \in {"keep", "write"}, Writes(w.ask), w.got # << >>,
         w' \in Walk, w'.pc = "keep", w'.ask = w.ask, w'.before = w.before, w'.reach = w.reach,
         w'.left = w.left, w'.at = w.at, w'.edges = w.edges, w'.edge = w.edge, w'.rest = w.rest,
         w'.got = Tail(w.got), w'.errors = w.errors, w'.truncated = w.truncated,
         w'.added = w.added, UNCHANGED <<table, landed, dump, runs, edits>>, RowsFit',
         \A l \in AllLeads : w.rows[l] # Missing /\ w.ask.kind # "import" => w'.rows[l] # Missing,
         w.ask.kind = "sync" => w'.rows[Head(w.got)] # Missing \/ landed[Head(w.got)] # Missing
  PROVE  WalkInv'
<1> USE DEF WalkInv
<1>1. w \in Walk /\ w.got \in Seq(AllLeads) /\ w.ask.kind \in {"sync", "import"}
  BY DEF WalkTypeOK, Walk, Writes
<1>2. /\ Seen' = Seen
      /\ \A l : StopOf(l)' = StopOf(l) /\ EdgeOf(l)' = EdgeOf(l)
      /\ EdgesOf(w.at)' = EdgesOf(w.at)
  BY SameAsk DEF EdgesOf
<1>3. \A l : l \in ToSet(w.got) <=> l = Head(w.got) \/ l \in ToSet(w'.got)
  BY <1>1, ToSetTail
<1>4. WalkTypeOK' /\ MapInv' /\ KindFits'
  BY <1>1 DEF WalkTypeOK, MapInv, Known, KindFits
<1>5. PlaceFits'
  BY <1>1, <1>2 DEF PlaceFits, InEdge
<1>6. HandFits'
  BY <1>1, <1>2, <1>3 DEF HandFits, InEdge
<1>7. ASSUME NEW l \in AllLeads, w.ask.kind \in {"pull", "campaign", "sync", "download"}, ToCome(l)
      PROVE  w'.rows[l] # Missing \/ landed'[l] # Missing \/ ToCome(l)'
  BY <1>1, <1>2, <1>3, <1>7 DEF ToCome, InEdge
<1>8. CoverFits'
  BY <1>7, CoverStep
<1> QED
  BY <1>4, <1>5, <1>6, <1>8

LEMMA GoesStep ==
  ASSUME WalkInv, NEW known, Goes(known), w.pc = "keep", Writes(w.ask), w.got # << >>,
         known /\ w.ask.kind = "sync" => IsAlreadySynced(Head(w.got)),
         ~known /\ w.ask.kind = "import" => dump[Head(w.got)] # Null
  PROVE  WalkInv'
<1> USE DEF WalkInv
<1>1. /\ w \in Walk /\ w.got \in Seq(AllLeads) /\ w.ask.kind \in {"sync", "import"}
      /\ UNCHANGED <<table, landed, dump, runs, edits>>
  BY DEF Goes, WalkTypeOK, Walk, Writes
<1>2. CASE known
  <2>1. Tail(w.got) \in Seq(AllLeads)
    BY <1>1, ToSetTail
  <2>2. w' = [w EXCEPT !.pc = "keep", !.got = Tail(w.got)]
    BY <1>1, <1>2 DEF Goes, Walk
  <2>3. /\ w' \in Walk /\ w'.pc = "keep" /\ w'.ask = w.ask /\ w'.before = w.before /\ w'.reach = w.reach
        /\ w'.left = w.left /\ w'.at = w.at /\ w'.edges = w.edges /\ w'.edge = w.edge /\ w'.rest = w.rest
        /\ w'.got = Tail(w.got) /\ w'.errors = w.errors /\ w'.truncated = w.truncated
        /\ w'.rows = w.rows /\ w'.added = w.added
    BY <1>1, <2>1, <2>2 DEF Walk
  <2>4. RowsFit'
    BY <2>3, RowsStay
  <2> QED
    BY <1>1, <1>2, <2>3, <2>4, TailStep DEF IsAlreadySynced
<1>3. CASE ~known
  <2>1. /\ w' \in Walk /\ w'.pc = "write" /\ w'.ask = w.ask /\ w'.before = w.before /\ w'.reach = w.reach
        /\ w'.left = w.left /\ w'.at = w.at /\ w'.edges = w.edges /\ w'.edge = w.edge /\ w'.rest = w.rest
        /\ w'.got = w.got /\ w'.errors = w.errors /\ w'.truncated = w.truncated
        /\ w'.rows = w.rows /\ w'.added = w.added
    BY <1>1, <1>3 DEF Goes, Walk
  <2>2. /\ Seen' = Seen
        /\ \A l : StopOf(l)' = StopOf(l) /\ EdgeOf(l)' = EdgeOf(l)
        /\ EdgesOf(w.at)' = EdgesOf(w.at)
    BY <2>1, SameAsk DEF EdgesOf
  <2>3. WalkTypeOK' /\ MapInv' /\ KindFits'
    BY <1>1, <2>1 DEF WalkTypeOK, MapInv, Known, KindFits
  <2>4. PlaceFits'
    BY <1>1, <2>1, <2>2 DEF PlaceFits, InEdge
  <2>5. HandFits'
    BY <1>1, <1>3, <2>1, <2>2 DEF HandFits, InEdge
  <2>6. RowsFit'
    BY <2>1, RowsStay
  <2>7. \A l : ToCome(l) => ToCome(l)'
    BY <2>1, <2>2 DEF ToCome, InEdge
  <2>8. CoverFits'
    BY <1>1, <2>1, <2>7, CoverStep
  <2> QED
    BY <2>1, <2>3, <2>4, <2>5, <2>6, <2>8
<1> QED
  BY <1>2, <1>3

LEMMA CheckStep ==
  ASSUME WalkInv, ProcessLead \/ ClassifyLead
  PROVE  WalkInv'
<1> DEFINE known == IF w.ask.kind = "sync" THEN IsAlreadySynced(Head(w.got))
                    ELSE IsAlreadySynced(Head(w.got)) \/ dump[Head(w.got)] = Null
<1>1. w.pc = "keep" /\ w.got # << >> /\ w.ask.kind \in {"sync", "import"} /\ Goes(known)
  BY DEF ProcessLead, ClassifyLead
<1>2. Writes(w.ask)
  BY <1>1 DEF Writes
<1>3. known /\ w.ask.kind = "sync" => IsAlreadySynced(Head(w.got))
  OBVIOUS
<1>4. ~known /\ w.ask.kind = "import" => dump[Head(w.got)] # Null
  BY <1>1
<1> HIDE DEF known
<1> QED
  BY <1>1, <1>2, <1>3, <1>4, GoesStep

LEMMA WrittenStep ==
  ASSUME WalkInv, NEW org \in Branches \cup {Null, Missing}, Written(org), w.pc = "write", Writes(w.ask), org # Null,
         w.ask.kind = "sync" => org # Missing /\ RowFits(w.ask, w.before, Head(w.got), org)
  PROVE  WalkInv'
<1> USE DEF WalkInv
<1>1. /\ w \in Walk /\ w.got \in Seq(AllLeads) /\ w.got # << >> /\ w.ask.kind \in {"sync", "import"}
      /\ UNCHANGED <<table, landed, dump, runs, edits>>
  BY DEF Written, WalkTypeOK, Walk, Writes, HandFits
<1> DEFINE l == Head(w.got)
           written == [w.rows EXCEPT ![l] = org]
<1>2. l \in AllLeads /\ Tail(w.got) \in Seq(AllLeads)
  BY <1>1, ToSetTail
<1>3. CASE landed[l] # Missing
  <2>1. w' = [w EXCEPT !.pc = "failed", !.rows = Nowhere]
    BY <1>3 DEF Written
  <2>2. Nowhere \in [AllLeads -> Branches \cup {Null, Missing}]
    BY DEF Nowhere
  <2>3. /\ w' \in Walk /\ w'.pc = "failed" /\ w'.ask = w.ask /\ w'.before = w.before
        /\ w'.left = w.left /\ w'.rows = Nowhere /\ w'.added = w.added
    BY <1>1, <2>1, <2>2 DEF Walk
  <2> QED
    BY <1>1, <2>3, FailedStep
<1>4. CASE landed[l] = Missing
  <2>1. w' = [w EXCEPT !.pc = "keep", !.got = Tail(w.got), !.rows = written]
    BY <1>4 DEF Written
  <2>2. /\ written \in [AllLeads -> Branches \cup {Null, Missing}]
        /\ \A k \in AllLeads : written[k] = IF k = l THEN org ELSE w.rows[k]
    <3> HIDE DEF l
    <3> QED
      BY <1>1, <1>2 DEF Walk
  <2> HIDE DEF written, l
  <2>3. /\ w' \in Walk /\ w'.pc = "keep" /\ w'.ask = w.ask /\ w'.before = w.before /\ w'.reach = w.reach
        /\ w'.left = w.left /\ w'.at = w.at /\ w'.edges = w.edges /\ w'.edge = w.edge /\ w'.rest = w.rest
        /\ w'.got = Tail(w.got) /\ w'.errors = w.errors /\ w'.truncated = w.truncated
        /\ w'.rows = written /\ w'.added = w.added
    BY <1>1, <1>2, <2>1, <2>2 DEF Walk
  <2>4. RowsFit'
    <3>1. ASSUME NEW k \in AllLeads, written[k] # Missing, w.ask.kind # "import"
          PROVE  RowFits(w.ask, w.before, k, written[k])
      BY <1>1, <2>2, <3>1 DEF RowsFit, l
    <3>2. \A k \in AllLeads : written[k] # Null
      BY <2>2 DEF RowsFit
    <3> QED
      BY <2>3, <3>1, <3>2 DEF RowsFit
  <2>5. \A k \in AllLeads : w.rows[k] # Missing /\ w.ask.kind # "import" => w'.rows[k] # Missing
    BY <1>1, <2>2, <2>3
  <2>6. w.ask.kind = "sync" => w'.rows[Head(w.got)] # Missing
    BY <1>2, <2>2, <2>3 DEF l
  <2> QED
    BY <1>1, <2>3, <2>4, <2>5, <2>6, TailStep
<1> QED
  BY <1>3, <1>4

LEMMA WriteLeadStep ==
  ASSUME WalkInv, WriteLead
  PROVE  WalkInv'
<1> DEFINE org == Resolve(Seen, w.at, w.edge)
           l == Head(w.got)
<1>1. w.pc = "write" /\ w.ask.kind = "sync" /\ Writes(w.ask) /\ w.pc \in InEdge /\ Written(org)
  BY DEF WriteLead, Writes, InEdge
<1>2. l \in ToSet(w.got)
  <2>1. w.got \in Seq(AllLeads) /\ w.got # << >>
    BY <1>1 DEF WalkInv, WalkTypeOK, Walk, HandFits
  <2> QED
    BY <2>1, ToSetTail
<1>3. org # Null
  BY <1>1 DEF WalkInv, PlaceFits
<1> HIDE DEF l, org
<1>4. /\ OrgFor(l) = org /\ OrgFor(l) \in Branches \cup {Null} /\ OrgFor(l) # Missing
      /\ RowFits(w.ask, w.before, l, OrgFor(l))
  BY <1>1, <1>2, HandOrg DEF org, IsPull
<1> QED
  BY <1>1, <1>3, <1>4, WrittenStep DEF l

LEMMA ImportLeadStep ==
  ASSUME WalkInv, ImportLead
  PROVE  WalkInv'
<1> DEFINE org == dump[Head(w.got)]
<1>1. w.pc = "write" /\ w.ask.kind = "import" /\ Writes(w.ask) /\ Written(org)
  BY DEF ImportLead, Writes
<1>2. org # Null
  BY <1>1 DEF WalkInv, HandFits
<1>3. org \in Branches \cup {Null, Missing}
  <2>1. w.got \in Seq(AllLeads) /\ w.got # << >> /\ dump \in [AllLeads -> Branches \cup {Null, Missing}]
    BY <1>1 DEF WalkInv, WalkTypeOK, Walk, HandFits
  <2>2. Head(w.got) \in AllLeads
    BY <2>1, ToSetTail
  <2> QED
    BY <2>1, <2>2
<1> HIDE DEF org
<1> QED
  BY <1>1, <1>2, <1>3, WrittenStep

LEMMA FormDoneStep ==
  ASSUME WalkInv, FormDone
  PROVE  WalkInv'
<1> USE DEF WalkInv
<1>1. /\ w \in Walk /\ w.pc = "keep" /\ w.got = << >> /\ w.ask.kind \in {"sync", "import"}
      /\ UNCHANGED <<table, landed, dump, runs, edits>>
  BY DEF FormDone, WalkTypeOK, Writes
<1>2. /\ w' \in Walk /\ w'.pc = IF w.ask.kind = "import" THEN "stop" ELSE "edge"
      /\ w'.ask = w.ask /\ w'.before = w.before
      /\ w'.left = w.left /\ w'.at = w.at /\ w'.edges = w.edges /\ w'.got = << >>
      /\ w'.errors = w.errors /\ w'.truncated = w.truncated /\ w'.rows = w.rows /\ w'.added = w.added
  BY <1>1 DEF FormDone, Walk
<1>3. RowsFit'
  BY <1>1, <1>2, RowsStay
<1>4. CASE w.ask.kind = "sync"
  <2>1. ToSet(w.got) = {}
    BY <1>1 DEF ToSet
  <2> QED
    BY <1>1, <1>2, <1>3, <1>4, <2>1, KeepDone
<1>5. CASE w.ask.kind = "import"
  <2>1. WalkTypeOK' /\ MapInv' /\ KindFits' /\ PlaceFits' /\ HandFits' /\ CoverFits'
    BY <1>1, <1>2, <1>5 DEF WalkTypeOK, MapInv, Known, KindFits, PlaceFits, HandFits, CoverFits, InEdge
  <2> QED
    BY <1>2, <1>3, <1>5, <2>1
<1> QED
  BY <1>1, <1>4, <1>5

\* A walk begins, with the mappings of now and nothing else.
LEMMA BeginStep ==
  ASSUME WalkInv, NEW ask \in Asks, runs < MaxRuns, runs' = runs + 1, UNCHANGED <<table, landed, edits>>,
         dump' \in {dump, Nowhere},
         w' \in Walk, w'.pc \in {"tokens", "done", "keep"}, w'.ask = ask, w'.before = table, w'.rows = Nowhere,
         w'.added = {}, w'.left \subseteq Stops(ask, table),
         w'.pc = "tokens" => ask.kind # "import" /\ w'.got = << >>,
         w'.pc = "done" \/ ask.kind = "import" => w'.left = {},
         w'.pc = "keep" => ask.kind = "import",
         ask.kind \in {"pull", "campaign", "sync", "download"} =>
           \A l \in AllLeads : (ask.kind = "campaign" => AdOf[l] # Null) /\ AskedOf(ask, table, l) =>
             Excused(l)' \/ StopOf(l)' \in w'.left
  PROVE  WalkInv'
<1> USE DEF WalkInv
<1>1. runs' \in 0 .. MaxRuns /\ dump' \in [AllLeads -> Branches \cup {Null, Missing}]
  BY WalkAssumption DEF WalkTypeOK, Nowhere
<1>2. WalkTypeOK'
  BY <1>1 DEF WalkTypeOK
<1>3. MapInv'
  <2>1. table \subseteq Known /\ Known' = table
    BY DEF Known
  <2>2. Keyed(table)
    BY <2>1, KeyedSub DEF MapInv
  <2> QED
    BY <2>1, <2>2 DEF MapInv
<1>4. KindFits'
  BY DEF KindFits
<1>5. PlaceFits'
  BY DEF PlaceFits, InEdge
<1>6. HandFits'
  BY DEF HandFits, InEdge
<1>7. RowsFit'
  BY WalkAssumption DEF RowsFit, Nowhere
<1>8. CoverFits'
  BY DEF CoverFits, Wanted, ToCome
<1> QED
  BY <1>2, <1>3, <1>4, <1>5, <1>6, <1>7, <1>8

LEMMA NewWalk ==
  ASSUME NEW ask \in Asks, NEW ms \in SUBSET Mapping, NEW new \in Walk,
         w' = [new EXCEPT !.ask = ask, !.before = ms]
  PROVE  /\ w' \in Walk /\ w'.ask = ask /\ w'.before = ms /\ w'.pc = new.pc /\ w'.left = new.left
         /\ w'.errors = new.errors /\ w'.got = new.got /\ w'.rows = new.rows /\ w'.added = new.added
BY DEF Walk

LEMMA IdleFields ==
  /\ IdleWalk \in Walk /\ IdleWalk.got = << >> /\ IdleWalk.rows = Nowhere /\ IdleWalk.added = {}
  /\ IdleWalk.left = {} /\ IdleWalk.errors = {}
<1>1. Nowhere \in [AllLeads -> Branches \cup {Null, Missing}]
  BY DEF Nowhere
<1> QED
  BY <1>1, ZeroType DEF IdleWalk, Walk

LEMMA StartPullStep ==
  ASSUME WalkInv, NEW ask \in Asks, StartPull(ask)
  PROVE  WalkInv'
<1> USE DEF WalkInv
<1>1. /\ IsPull(ask) /\ runs < MaxRuns /\ runs' = runs + 1 /\ UNCHANGED <<table, landed, dump, edits>>
      /\ table \in SUBSET Mapping
  BY DEF StartPull, Begin, WalkTypeOK
<1> DEFINE stops == Stops(ask, table)
           es == PagesRequested(ask, table) \cap Foreign(ask, table)
           first == IF ask.kind = "pull" /\ stops = {} THEN "done" ELSE "tokens"
           new == [IdleWalk EXCEPT !.pc = first, !.left = stops, !.errors = es]
<1>2. w' = [new EXCEPT !.ask = ask, !.before = table]
  BY DEF StartPull, Begin
<1>3. stops \in SUBSET (Pages \cup Campaigns) /\ es \in SUBSET (Pages \cup Campaigns \cup Ads)
  BY <1>1, StopsType
<1>4. first \in {"tokens", "done"} /\ (first = "done" => stops = {})
  OBVIOUS
<1> HIDE DEF stops, es, first
<1>5. /\ new \in Walk /\ new.pc = first /\ new.left = stops /\ new.errors = es
      /\ new.got = << >> /\ new.rows = Nowhere /\ new.added = {}
  BY <1>3, <1>4, IdleFields DEF Walk
<1> HIDE DEF new
<1>6. w' \in Walk
  BY <1>1, <1>2, <1>5, NewWalk
<1>7. /\ w'.ask = ask /\ w'.before = table /\ w'.pc = first /\ w'.left = stops /\ w'.errors = es
      /\ w'.got = << >> /\ w'.rows = Nowhere /\ w'.added = {}
  BY ZenonT(60), <1>1, <1>2, <1>5, NewWalk
<1>8. ASSUME NEW l \in AllLeads, ask.kind = "campaign" => AdOf[l] # Null, AskedOf(ask, table, l)
      PROVE  Excused(l)' \/ StopOf(l)' \in w'.left
  <2>1. CASE ask.kind = "campaign"
    BY <1>7, <1>8, <2>1 DEF stops, Stops, StopOf, AskedOf
  <2>2. CASE ask.kind = "pull"
    <3>1. PageOf[FormOf[l]] \in PagesRequested(ask, table)
      BY <1>1, <1>8, <2>2 DEF AskedOf, PagesAsked
    <3>2. PageOf[FormOf[l]] \in stops \/ PageOf[FormOf[l]] \in es
      BY <2>2, <3>1 DEF stops, es, Stops
    <3> QED
      BY <1>7, <2>2, <3>2 DEF StopOf, Excused
  <2> QED
    BY <1>1, <2>1, <2>2 DEF IsPull
<1>9. ask.kind # "import"
  BY <1>1 DEF IsPull
<1> QED
  BY <1>1, <1>4, <1>6, <1>7, <1>8, <1>9, BeginStep DEF stops

LEMMA StartScriptStep ==
  ASSUME WalkInv, NEW ask \in Asks, StartScript(ask)
  PROVE  WalkInv'
<1> USE DEF WalkInv
<1>1. /\ ask.kind \in {"sync", "download", "forms"} /\ runs < MaxRuns /\ runs' = runs + 1
      /\ UNCHANGED <<table, landed, edits>> /\ dump' \in {dump, Nowhere} /\ table \in SUBSET Mapping
  BY DEF StartScript, Begin, WalkTypeOK
<1> DEFINE stops == KnownPages(ask, table)
           first == IF stops = {} THEN "done" ELSE "tokens"
           new == [IdleWalk EXCEPT !.pc = first, !.left = stops]
<1>2. w' = [new EXCEPT !.ask = ask, !.before = table]
  BY DEF StartScript, Begin
<1>3. stops \in SUBSET (Pages \cup Campaigns) /\ stops = Stops(ask, table)
  BY <1>1, StopsType DEF Stops
<1>4. first \in {"tokens", "done"} /\ (first = "done" => stops = {})
  OBVIOUS
<1> HIDE DEF stops, first
<1>5. /\ new \in Walk /\ new.pc = first /\ new.left = stops
      /\ new.got = << >> /\ new.rows = Nowhere /\ new.added = {}
  BY <1>3, <1>4, IdleFields DEF Walk
<1> HIDE DEF new
<1>6. w' \in Walk
  BY <1>1, <1>2, <1>5, NewWalk
<1>7. /\ w'.ask = ask /\ w'.before = table /\ w'.pc = first /\ w'.left = stops
      /\ w'.got = << >> /\ w'.rows = Nowhere /\ w'.added = {}
  BY ZenonT(60), <1>1, <1>2, <1>5, NewWalk
<1>8. ASSUME NEW l \in AllLeads, AskedOf(ask, table, l)
      PROVE  StopOf(l)' \in w'.left
  BY <1>1, <1>7, <1>8 DEF stops, StopOf, AskedOf, PagesAsked, IsPull
<1> QED
  BY <1>1, <1>3, <1>4, <1>6, <1>7, <1>8, BeginStep

LEMMA StartImportStep ==
  ASSUME WalkInv, NEW ask \in Asks, StartImport(ask)
  PROVE  WalkInv'
<1> USE DEF WalkInv
<1>1. /\ ask.kind = "import" /\ runs < MaxRuns /\ runs' = runs + 1 /\ UNCHANGED <<table, landed, dump, edits>>
      /\ table \in SUBSET Mapping
  BY DEF StartImport, Begin, WalkTypeOK
<1> DEFINE found == Among(Newest, {l \in AllLeads : dump[l] # Missing})
           new == [IdleWalk EXCEPT !.pc = "keep", !.got = found]
<1>2. w' = [new EXCEPT !.ask = ask, !.before = table]
  BY DEF StartImport, Begin
<1>3. found \in Seq(AllLeads)
  BY WalkAssumption, AmongKeeps
<1> HIDE DEF found
<1>4. new \in Walk /\ new.pc = "keep" /\ new.left = {} /\ new.rows = Nowhere /\ new.added = {}
  BY <1>3, IdleFields DEF Walk
<1> HIDE DEF new
<1>5. /\ w' \in Walk /\ w'.ask = ask /\ w'.before = table /\ w'.pc = "keep" /\ w'.left = {} /\ w'.rows = Nowhere
      /\ w'.added = {}
  BY ZenonT(60), <1>1, <1>2, <1>4, NewWalk
<1> QED
  BY <1>1, <1>5, BeginStep

\* A page of results, and what is behind it.
LEMMA Splits ==
  ASSUME NEW s \in Seq(AllLeads), NEW k \in 0 .. Len(s)
  PROVE  /\ SubSeq(s, 1, k) \in Seq(AllLeads) /\ SubSeq(s, k + 1, Len(s)) \in Seq(AllLeads)
         /\ \A l : l \in ToSet(s) <=> l \in ToSet(SubSeq(s, 1, k)) \/ l \in ToSet(SubSeq(s, k + 1, Len(s)))
         /\ OldLast(s) => /\ OldLast(SubSeq(s, k + 1, Len(s)))
                          /\ k # 0 /\ Created[s[1]] = "old" => \A l \in ToSet(s) : Created[l] = "old"
         /\ k # 0 => s[1] \in ToSet(SubSeq(s, 1, k))
         /\ k = 0 => SubSeq(s, 1, k) = << >>
<1> DEFINE b == SubSeq(s, 1, k)
           r == SubSeq(s, k + 1, Len(s))
<1>1. Len(s) \in Nat /\ k \in Nat /\ k <= Len(s) /\ \A i \in 1 .. Len(s) : s[i] \in AllLeads
  BY LenProperties
<1>2. /\ b \in Seq(AllLeads) /\ Len(b) = k /\ \A i \in 1 .. k : b[i] = s[i]
  <2>1. \A i \in 1 .. k : s[i] \in AllLeads
    BY <1>1
  <2> QED
    BY <1>1, <2>1, SubSeqProperties
<1>3. /\ r \in Seq(AllLeads) /\ Len(r) = Len(s) - k /\ \A i \in 1 .. Len(s) - k : r[i] = s[k + i]
  <2>1. \A i \in k + 1 .. Len(s) : s[i] \in AllLeads
    BY <1>1
  <2> QED
    BY <1>1, <2>1, SubSeqProperties
<1> HIDE DEF b, r
<1>4. \A l : l \in ToSet(b) <=> \E i \in 1 .. k : s[i] = l
  BY <1>1, <1>2, LenProperties DEF ToSet
<1>5. \A l : l \in ToSet(r) <=> \E i \in 1 .. Len(s) - k : s[k + i] = l
  BY <1>1, <1>3, LenProperties DEF ToSet
<1>6. \A l : l \in ToSet(s) <=> \E i \in 1 .. Len(s) : s[i] = l
  BY LenProperties DEF ToSet
<1>7. ASSUME NEW l PROVE l \in ToSet(s) <=> l \in ToSet(b) \/ l \in ToSet(r)
  <2>1. ASSUME NEW i \in 1 .. Len(s), s[i] = l PROVE l \in ToSet(b) \/ l \in ToSet(r)
    <3>1. CASE i <= k
      BY <1>1, <1>4, <2>1, <3>1
    <3>2. CASE ~(i <= k)
      <4>1. i - k \in 1 .. Len(s) - k /\ s[k + (i - k)] = l
        BY <1>1, <2>1, <3>2
      <4> QED
        BY <1>5, <4>1
    <3> QED
      BY <3>1, <3>2
  <2>2. \A i \in 1 .. k : i \in 1 .. Len(s)
    BY <1>1
  <2>3. \A i \in 1 .. Len(s) - k : k + i \in 1 .. Len(s)
    BY <1>1
  <2> QED
    BY <1>4, <1>5, <1>6, <2>1, <2>2, <2>3
<1>8. ASSUME OldLast(s) PROVE OldLast(r)
  <2> SUFFICES ASSUME NEW i \in 1 .. Len(s) - k, NEW j \in 1 .. Len(s) - k, i < j, Created[r[i]] = "old"
               PROVE  Created[r[j]] = "old"
    BY <1>3 DEF OldLast
  <2>1. k + i \in 1 .. Len(s) /\ k + j \in 1 .. Len(s) /\ k + i < k + j
    BY <1>1
  <2> QED
    BY <1>3, <1>8, <2>1 DEF OldLast
<1>9. ASSUME OldLast(s), k # 0, Created[s[1]] = "old", NEW l \in ToSet(s) PROVE Created[l] = "old"
  <2>1. PICK i \in 1 .. Len(s) : s[i] = l
    BY <1>6
  <2>2. 1 \in 1 .. Len(s) /\ (i = 1 \/ 1 < i)
    BY <1>1, <1>9
  <2> QED
    BY <1>9, <2>1, <2>2 DEF OldLast
<1>10. k # 0 => s[1] \in ToSet(b)
  BY <1>1, <1>4
<1>11. k = 0 => b = << >>
  BY <1>2, EmptySeq
<1> QED
  BY <1>2, <1>3, <1>7, <1>8, <1>9, <1>10, <1>11 DEF b, r

LEMMA ToSetConcat ==
  ASSUME NEW s \in Seq(AllLeads), NEW t \in Seq(AllLeads)
  PROVE  /\ s \o t \in Seq(AllLeads)
         /\ \A l : l \in ToSet(s \o t) <=> l \in ToSet(s) \/ l \in ToSet(t)
<1> DEFINE u == s \o t
<1>1. /\ u \in Seq(AllLeads) /\ Len(u) = Len(s) + Len(t) /\ Len(s) \in Nat /\ Len(t) \in Nat
      /\ \A i \in 1 .. Len(s) + Len(t) : u[i] = IF i <= Len(s) THEN s[i] ELSE t[i - Len(s)]
  BY ConcatProperties, LenProperties
<1> HIDE DEF u
<1>2. \A l : l \in ToSet(u) <=> \E i \in 1 .. Len(s) + Len(t) : u[i] = l
  BY <1>1, LenProperties DEF ToSet
<1>3. \A l : l \in ToSet(s) <=> \E i \in 1 .. Len(s) : s[i] = l
  BY LenProperties DEF ToSet
<1>4. \A l : l \in ToSet(t) <=> \E i \in 1 .. Len(t) : t[i] = l
  BY LenProperties DEF ToSet
<1>5. ASSUME NEW i \in 1 .. Len(s) + Len(t) PROVE u[i] \in ToSet(s) \/ u[i] \in ToSet(t)
  <2>1. CASE i <= Len(s)
    BY <1>1, <1>3, <2>1
  <2>2. CASE ~(i <= Len(s))
    <3>1. i - Len(s) \in 1 .. Len(t) /\ u[i] = t[i - Len(s)]
      BY <1>1, <2>2
    <3> QED
      BY <1>4, <3>1
  <2> QED
    BY <2>1, <2>2
<1>6. ASSUME NEW i \in 1 .. Len(s) PROVE s[i] \in ToSet(u)
  BY <1>1, <1>2
<1>7. ASSUME NEW i \in 1 .. Len(t) PROVE t[i] \in ToSet(u)
  <2>1. /\ Len(s) + i \in 1 .. Len(s) + Len(t) /\ ~(Len(s) + i <= Len(s)) /\ Len(s) + i - Len(s) = i
    BY <1>1
  <2>2. u[Len(s) + i] = t[i]
    BY <1>1, <2>1
  <2> QED
    BY <1>2, <2>1, <2>2
<1> QED
  BY <1>1, <1>2, <1>3, <1>4, <1>5, <1>6, <1>7 DEF u

\* A page of leads: nothing of the window that is behind it is lost.
LEMMA FetchLeadsStep ==
  ASSUME WalkInv, FetchLeads
  PROVE  WalkInv'
<1> USE DEF WalkInv
<1> DEFINE size == IF PageSize < Len(w.rest) THEN PageSize ELSE Len(w.rest)
           batch == SubSeq(w.rest, 1, size)
           behind == SubSeq(w.rest, size + 1, Len(w.rest))
           kept == Kept(w.ask, batch)
           all == w.got \o kept
           window == {l \in AllLeads : InWindow(w.ask, l)}
           cut == w.truncated \cup {w.edge}
           next == w.page + 1
\* The three ways on.
<1>1. \/ /\ batch = << >> \/ AllOld(batch, kept) \/ behind = << >>
         /\ w' = [w EXCEPT !.pc = "keep", !.got = all, !.tries = 0, !.rest = << >>, !.page = 0,
                           !.truncated = w.truncated]
      \/ w' = [w EXCEPT !.pc = "keep", !.got = all, !.tries = 0, !.rest = << >>, !.page = 0,
                        !.truncated = cut]
      \/ /\ next < MaxPages
         /\ \E more \in {behind, w.rest} :
              w' = [w EXCEPT !.rest = more, !.got = all, !.page = next, !.tries = 0]
  BY DEF FetchLeads, NextPage
<1>2. /\ w \in Walk /\ w.pc = "fetch" /\ UNCHANGED <<table, landed, dump, runs, edits>>
      /\ w.rest \in Seq(AllLeads) /\ w.got \in Seq(AllLeads) /\ OldLast(w.rest)
      /\ w.ask.kind \in {"pull", "campaign", "sync", "download"}
      /\ w.edge \in EdgesOf(w.at)
  BY DEF FetchLeads, WalkTypeOK, Walk, HandFits, KindFits, PlaceFits, InEdge
<1>3. size \in 0 .. Len(w.rest) /\ (size = 0 => w.rest = << >>)
  BY <1>2, LenProperties, EmptySeq, WalkAssumption
<1>4. /\ batch \in Seq(AllLeads) /\ behind \in Seq(AllLeads)
      /\ \A l : l \in ToSet(w.rest) <=> l \in ToSet(batch) \/ l \in ToSet(behind)
      /\ OldLast(behind)
      /\ size # 0 /\ Created[w.rest[1]] = "old" => \A l \in ToSet(w.rest) : Created[l] = "old"
      /\ size # 0 => w.rest[1] \in ToSet(batch)
      /\ size = 0 => batch = << >>
  <2> HIDE DEF size
  <2> QED
    BY <1>2, <1>3, Splits
<1> HIDE DEF size, batch, behind
<1>5. kept \in Seq(AllLeads) /\ \A l \in AllLeads : l \in ToSet(kept) <=> l \in ToSet(batch) /\ InWindow(w.ask, l)
  <2>1. kept \in Seq(AllLeads) /\ ToSet(kept) = ToSet(batch) \cap window
    <3> HIDE DEF window
    <3> QED
      BY <1>4, AmongKeeps DEF Kept, window
  <2> HIDE DEF kept
  <2> QED
    BY <2>1
<1> HIDE DEF kept
<1>6. /\ all \in Seq(AllLeads)
      /\ \A l : l \in ToSet(all) <=> l \in ToSet(w.got) \/ l \in ToSet(kept)
      /\ \A l : l \in ToSet(all) \/ l \in ToSet(w.rest) => l \in AllLeads
  <2>1. \A s \in Seq(AllLeads) : \A l \in ToSet(s) : l \in AllLeads
    BY LenProperties DEF ToSet
  <2> QED
    BY <1>2, <1>5, <2>1, ToSetConcat
<1> HIDE DEF all
<1>7. \A l \in AllLeads : l \in ToSet(kept) => l \in ToSet(w.rest) /\ InWindow(w.ask, l)
  BY <1>4, <1>5
\* What is left out is behind, or out of the window.
<1>8. ASSUME batch = << >> \/ AllOld(batch, kept) \/ behind = << >>,
             NEW l \in ToSet(w.rest), InWindow(w.ask, l)
      PROVE  l \in ToSet(kept)
  <2>0. l \in AllLeads
    BY <1>6, <1>8
  <2>1. \A e : e \notin ToSet(<< >>)
    BY EmptySeq DEF ToSet
  <2>2. size # 0
    BY <1>2, <1>3, <1>8, <2>1
  <2>3. CASE batch = << >>
    BY <1>4, <2>1, <2>2, <2>3
  <2>4. CASE AllOld(batch, kept)
    <3>1. Created[w.rest[1]] = "old"
      BY <1>4, <2>2, <2>4 DEF AllOld, BeforeCutoff
    <3>2. Created[l] = "old"
      BY <1>4, <1>8, <2>2, <3>1
    <3> QED
      BY <1>8, <3>2 DEF InWindow
  <2>5. CASE behind = << >>
    BY <1>4, <1>5, <1>8, <2>0, <2>1, <2>5
  <2> QED
    BY <1>8, <2>3, <2>4, <2>5
<1>9. cut \in SUBSET (Forms \cup Ads)
  BY <1>2 DEF Walk, EdgesOf
<1>10. \A l \in AllLeads : (l \in ToSet(w.rest) \/ l \in ToSet(w.got)) /\ Wanted(l) /\ w.edge \in w'.truncated => Excused(l)'
  <2> SUFFICES ASSUME NEW l \in AllLeads, l \in ToSet(w.rest) \cup ToSet(w.got), Wanted(l), w.edge \in w'.truncated
               PROVE  Excused(l)'
    OBVIOUS
  <2>1. EdgeOf(l) = w.edge
    BY <1>2 DEF HandFits, InEdge
  <2>2. FormOf[l] = w.edge \/ (AdOf[l] = w.edge /\ AdOf[l] # Null)
    BY <2>1 DEF EdgeOf, Wanted
  <2> QED
    BY <2>2 DEF Excused
<1>11. ASSUME NEW more \in Seq(AllLeads), NEW T \in {w.truncated, cut}, NEW pc \in {"keep", "fetch"},
              w' \in Walk, w'.pc = pc, w'.ask = w.ask, w'.before = w.before, w'.reach = w.reach, w'.left = w.left,
              w'.at = w.at, w'.edges = w.edges, w'.edge = w.edge, w'.rest = more, w'.got = all,
              w'.errors = w.errors, w'.truncated = T, w'.rows = w.rows, w'.added = w.added,
              OldLast(more), ToSet(more) \subseteq ToSet(w.rest),
              \A l \in ToSet(w.rest) : InWindow(w.ask, l) =>
                 l \in ToSet(kept) \/ (pc = "fetch" /\ l \in ToSet(more)) \/ w.edge \in T
       PROVE  WalkInv'
  <2> HIDE DEF cut, next
  <2>1. /\ Seen' = Seen
        /\ \A l : StopOf(l)' = StopOf(l) /\ EdgeOf(l)' = EdgeOf(l)
        /\ EdgesOf(w.at)' = EdgesOf(w.at)
    BY <1>11, SameAsk DEF EdgesOf
  <2>2. w'.pc \in {"keep", "fetch"} /\ w'.pc \in InEdge /\ w.pc \in InEdge
    BY <1>2, <1>11 DEF InEdge
  <2>3. WalkTypeOK' /\ MapInv' /\ KindFits'
    BY <1>2, <1>11 DEF WalkTypeOK, MapInv, Known, KindFits
  <2>4. PlaceFits'
    BY <1>2, <1>11, <2>1, <2>2 DEF PlaceFits, EdgesOf, Unreadable
  <2>5. HandFits'
    <3>1. \A l \in ToSet(w.rest) \cup ToSet(w.got) : EdgeOf(l) = w.edge
      BY <1>2, <2>2 DEF HandFits
    <3>2. \A l \in ToSet(w.got) : InWindow(w.ask, l)
      BY <1>2, <2>2 DEF HandFits
    <3>3. \A l \in ToSet(all) : InWindow(w.ask, l) /\ (l \in ToSet(w.rest) \/ l \in ToSet(w.got))
      BY <1>6, <1>7, <3>2
    <3>4. \A l \in ToSet(more) \cup ToSet(all) : EdgeOf(l)' = w'.edge
      BY <1>11, <2>1, <3>1, <3>3
    <3>5. \A l \in ToSet(w'.rest) \cup ToSet(w'.got) : EdgeOf(l)' = w'.edge
      BY <1>11, <3>4
    <3>6. \A l \in ToSet(w'.got) : InWindow(w'.ask, l)
      BY <1>11, <3>3
    <3> QED
      BY <1>11, <2>2, <3>5, <3>6 DEF HandFits
  <2>6. RowsFit'
    BY <1>2, <1>11, RowsStay
  <2>7. ASSUME NEW l \in AllLeads, Wanted(l), ToCome(l) PROVE Excused(l)' \/ ToCome(l)'
    <3>1. InWindow(w.ask, l)
      BY <2>7 DEF Wanted, AskedOf
    <3>2. CASE StopOf(l) \in w.left \/ (w.at = StopOf(l) /\ EdgeOf(l) \in w.edges)
      BY <1>11, <2>1, <2>2, <3>2 DEF ToCome
    <3>3. CASE l \in ToSet(w.got) \/ l \in ToSet(kept)
      <4>1. l \in ToSet(w'.got)
        BY <1>6, <1>11, <3>3
      <4> QED
        BY <2>2, <4>1 DEF ToCome
    <3>4. CASE l \in ToSet(w.rest) /\ l \notin ToSet(kept)
      <4>1. (w'.pc = "fetch" /\ l \in ToSet(w'.rest)) \/ w.edge \in w'.truncated
        BY <1>11, <3>1, <3>4
      <4> QED
        BY <1>10, <2>7, <3>4, <4>1 DEF ToCome
    <3> QED
      BY <1>2, <2>7, <3>2, <3>3, <3>4 DEF ToCome, InEdge
  <2>8. CoverFits'
    <3>1. w.errors \subseteq w'.errors /\ w.truncated \subseteq w'.truncated
      BY <1>11 DEF cut
    <3> QED
      BY <1>2, <1>11, <2>7, <3>1, CoverStep
  <2> QED
    BY <2>2, <2>3, <2>4, <2>5, <2>6, <2>8
<1>12. ASSUME NEW T \in {w.truncated, cut},
              w' = [w EXCEPT !.pc = "keep", !.got = all, !.tries = 0, !.rest = << >>, !.page = 0, !.truncated = T],
              w.edge \in T \/ batch = << >> \/ AllOld(batch, kept) \/ behind = << >>
       PROVE  WalkInv'
  <2>1. T \in SUBSET (Forms \cup Ads)
    BY <1>2, <1>9 DEF Walk
  <2> HIDE DEF cut, next
  <2>3. w' \in Walk
    BY <1>2, <1>6, <1>12, <2>1, ZeroType DEF Walk
  <2>4. /\ w'.pc = "keep" /\ w'.ask = w.ask /\ w'.before = w.before /\ w'.reach = w.reach /\ w'.left = w.left
        /\ w'.at = w.at /\ w'.edges = w.edges /\ w'.edge = w.edge
    BY <1>2, <1>12 DEF Walk
  <2>5. /\ w'.rest = << >> /\ w'.got = all
        /\ w'.errors = w.errors /\ w'.truncated = T /\ w'.rows = w.rows /\ w'.added = w.added
    BY <1>2, <1>12 DEF Walk
  <2>6. << >> \in Seq(AllLeads) /\ OldLast(<< >>) /\ ToSet(<< >>) \subseteq ToSet(w.rest)
    BY EmptySeq DEF OldLast, ToSet
  <2>7. \A l \in ToSet(w.rest) : InWindow(w.ask, l) => l \in ToSet(kept) \/ w.edge \in T
    BY <1>8, <1>12
  <2> QED
    BY <1>11, <2>3, <2>4, <2>5, <2>6, <2>7
<1>13. ASSUME next < MaxPages, NEW more \in {behind, w.rest},
              w' = [w EXCEPT !.rest = more, !.got = all, !.page = next, !.tries = 0]
       PROVE  WalkInv'
  <2>1. next \in 0 .. MaxPages
    BY <1>2, <1>13, WalkAssumption DEF Walk
  <2>2. more \in Seq(AllLeads) /\ OldLast(more) /\ ToSet(more) \subseteq ToSet(w.rest)
    BY <1>2, <1>4
  <2>3. \A l \in ToSet(w.rest) : InWindow(w.ask, l) => l \in ToSet(kept) \/ l \in ToSet(more)
    BY <1>4, <1>5, <1>6
  <2> HIDE DEF cut, next
  <2>4. w' \in Walk
    BY <1>2, <1>6, <1>13, <2>1, <2>2, ZeroType DEF Walk
  <2>5. /\ w'.pc = "fetch" /\ w'.ask = w.ask /\ w'.before = w.before /\ w'.reach = w.reach /\ w'.left = w.left
        /\ w'.at = w.at /\ w'.edges = w.edges /\ w'.edge = w.edge
    BY <1>2, <1>13 DEF Walk
  <2>6. /\ w'.rest = more /\ w'.got = all
        /\ w'.errors = w.errors /\ w'.truncated = w.truncated /\ w'.rows = w.rows /\ w'.added = w.added
    BY <1>2, <1>13 DEF Walk
  <2> QED
    BY <1>11, <2>2, <2>3, <2>4, <2>5, <2>6
<1>14. w.truncated \in {w.truncated, cut} /\ cut \in {w.truncated, cut} /\ w.edge \in cut
  OBVIOUS
<1> QED
  BY <1>1, <1>12, <1>13, <1>14
-----------------------------------------------------------------------------
(* The invariant is kept, and what follows *)

LEMMA InitStep ==
  ASSUME WalkInit
  PROVE  WalkInv
<1>1. IdleWalk \in Walk
  BY IdleFields
<1>2. WalkTypeOK
  <2>1. landed \in [AllLeads -> Branches \cup {Missing}] /\ dump \in [AllLeads -> Branches \cup {Null, Missing}]
    BY WalkAssumption DEF WalkInit, Nowhere
  <2> QED
    BY <1>1, <2>1, WalkAssumption DEF WalkInit, WalkTypeOK
<1>3. w.pc = "idle" /\ w.added = {} /\ w.before = {}
  BY DEF WalkInit, IdleWalk
<1>4. MapInv
  BY <1>3, TableAssumption DEF WalkInit, MapInv, Known, Keyed
<1> QED
  BY <1>2, <1>3, <1>4 DEF WalkInv, WalkInit

LEMMA WalkStep ==
  ASSUME WalkInv, Step
  PROVE  WalkInv'
<1>1. ASSUME NEW yes \in BOOLEAN, CallFails(yes) \/ ScriptCallFails(yes) PROVE WalkInv'
  BY <1>1, CallFailsStep, ScriptCallFailsStep
<1>2. ASSUME NEW pages \in Reaches, GetTokens(pages) \/ ResolvePageClients(pages) PROVE WalkInv'
  BY <1>2, TokensStep
<1>3. ASSUME NEW s, NextStop(s) PROVE WalkInv'
  BY <1>3, NextStopStep
<1>4. ASSUME NEW f \in Forms, NextForm(f) PROVE WalkInv'
  BY <1>4, NextFormStep
<1>5. ASSUME NEW f \in Forms, NextFoundForm(f) PROVE WalkInv'
  BY <1>5, NextFoundFormStep
<1>6. ASSUME NEW a \in Ads, NextAd(a) PROVE WalkInv'
  BY <1>6, NextAdStep
<1>7. CASE ListLeadGenForms \/ ListCampaignAds
  BY <1>7, ListStep
<1>8. CASE EdgesDone
  BY <1>8, EdgesDoneStep
<1>9. CASE FetchLeads
  BY <1>9, FetchLeadsStep
<1>10. CASE StageLeads
  BY <1>10, StageLeadsStep
<1>11. CASE DumpLeads
  BY <1>11, DumpLeadsStep
<1>12. CASE ProcessLead \/ ClassifyLead
  BY <1>12, CheckStep
<1>13. CASE WriteLead
  BY <1>13, WriteLeadStep
<1>14. CASE ImportLead
  BY <1>14, ImportLeadStep
<1>15. CASE FormDone
  BY <1>15, FormDoneStep
<1>16. CASE TryForm
  BY <1>16, TryFormStep
<1>17. CASE AutoMap
  BY <1>17, AutoMapStep
<1>18. CASE Finish
  BY <1>18, FinishStep
<1>19. CASE Throw
  BY <1>19, ThrowStep
<1> QED
  BY <1>1, <1>2, <1>3, <1>4, <1>5, <1>6, <1>7, <1>8, <1>9, <1>10, <1>11, <1>12, <1>13, <1>14, <1>15, <1>16,
     <1>17, <1>18, <1>19 DEF Step

LEMMA NextStep ==
  ASSUME WalkInv, [WalkNext]_walkVars
  PROVE  WalkInv'
<1>1. CASE Step
  BY <1>1, WalkStep
<1>2. CASE Others
  <2>1. ASSUME NEW ask \in Asks, StartPull(ask) \/ StartScript(ask) \/ StartImport(ask) PROVE WalkInv'
    BY <2>1, StartPullStep, StartScriptStep, StartImportStep
  <2>2. ASSUME NEW l \in AllLeads, Land(l) PROVE WalkInv'
    BY <2>2, OthersStep
  <2>3. ASSUME NEW r \in EditRows, MapForm(r) \/ UnmapForm(r) PROVE WalkInv'
    BY <2>3, OthersStep
  <2> QED
    BY <1>2, <2>1, <2>2, <2>3 DEF Others
<1>3. CASE UNCHANGED walkVars
  <2>1. table' = table /\ landed' = landed /\ dump' = dump /\ w' = w /\ runs' = runs /\ edits' = edits
    BY <1>3 DEF walkVars
  <2>2. WalkTypeOK' /\ MapInv'
    BY <2>1 DEF WalkInv, WalkTypeOK, MapInv, Known
  <2>3. CASE w.pc = "idle"
    BY <2>1, <2>2, <2>3 DEF WalkInv
  <2>4. CASE w.pc # "idle"
    <3>1. KindFits' /\ PlaceFits' /\ HandFits'
      BY <2>1, <2>4, SameAsk DEF WalkInv, KindFits, PlaceFits, HandFits, Unreadable
    <3>2. RowsFit'
      BY <2>1, <2>4, RowsStay DEF WalkInv
    <3>3. \A l : ToCome(l) => ToCome(l)'
      BY <2>1, SameAsk DEF ToCome
    <3>4. CoverFits'
      BY <2>1, <2>4, <3>3, CoverStep DEF WalkInv, CoverFits
    <3> QED
      BY <2>1, <2>2, <2>4, <3>1, <3>2, <3>4 DEF WalkInv
  <2> QED
    BY <2>3, <2>4
<1> QED
  BY <1>1, <1>2, <1>3 DEF WalkNext

\* The inductive invariant holds in every state the walks reach.
THEOREM WalkInvariance == WalkSpec => []WalkInv
<1>1. WalkInit => WalkInv
  BY InitStep
<1>2. WalkInv /\ [WalkNext]_walkVars => WalkInv'
  BY NextStep
<1> QED
  BY <1>1, <1>2, PTL DEF WalkSpec

\* Type correctness of the walks: a page counter never passes its cap, attempts
\* never reach their number, and a landed lead always has a branch.
THEOREM WalkTypeCorrect == WalkSpec => []WalkTypeOK
<1>1. WalkInv => WalkTypeOK
  BY DEF WalkInv
<1> QED
  BY <1>1, WalkInvariance, PTL

\* No rows of a walk that has not begun.
LEMMA IdleRows ==
  ASSUME WalkInv, NEW l \in AllLeads, w.rows[l] # Missing
  PROVE  w.pc # "idle"
BY IdleFields DEF WalkInv, Nowhere

\* OnlyAsked: whatever the schedule of answers, failures, edits and landings, a
\* walk (runPull, sync_leads, download_page_leads) stages or writes only leads
\* of its window, its campaigns and its branches, and a pull none of a page
\* that is only another tenant's.
THEOREM StagesOnlyAsked == WalkSpec => []OnlyAsked
<1>1. WalkInv => OnlyAsked
  <2> SUFFICES ASSUME WalkInv, NEW l \in AllLeads, w.rows[l] # Missing, w.ask.kind # "import"
               PROVE  RowFits(w.ask, w.before, l, w.rows[l])
    BY DEF OnlyAsked, RowFits
  <2> QED
    BY IdleRows DEF WalkInv, RowsFit
<1> QED
  BY <1>1, WalkInvariance, PTL

\* RoutesLikeWebhook: a walk that sees every mapping of a lead's page gives the
\* lead the branch the webhook (resolveTenantAndOrg) would, by the mappings the
\* walk read, though the two rules are written differently.
THEOREM RoutesAsWebhook == WalkSpec => []RoutesLikeWebhook
<1>1. WalkInv => RoutesLikeWebhook
  <2> SUFFICES ASSUME WalkInv, NEW l \in AllLeads, w.rows[l] # Missing, w.ask.kind # "import",
                      {r \in w.before : r.page = PageOf[FormOf[l]]} \subseteq Visible(w.ask, w.before)
               PROVE  w.rows[l] = WebhookRoute(l)
    BY DEF RoutesLikeWebhook
  <2>1. w.rows[l] = Resolve(Visible(w.ask, w.before), PageOf[FormOf[l]], FormOf[l])
    BY IdleRows DEF WalkInv, RowsFit, RowFits
  <2>2. w.before \in SUBSET Mapping /\ Keyed(w.before)
    BY DEF WalkInv, WalkTypeOK, Walk, MapInv
  <2>3. Visible(w.ask, w.before) \in SUBSET w.before
    BY VisibleIn
  <2> QED
    BY <2>1, <2>2, <2>3, RulesAgree DEF WebhookRoute
<1> QED
  BY <1>1, WalkInvariance, PTL

\* NothingMissed: a walk that ends normally has staged or landed every lead it
\* was asked for, or says in its errors or its truncated forms where it has
\* not, whatever failed, was throttled, sent twice or cut short on the way.
THEOREM MissesNothing == WalkSpec => []NothingMissed
<1>1. WalkInv => NothingMissed
  <2> SUFFICES ASSUME WalkInv, w.pc = "done", w.ask.kind \in {"pull", "campaign", "sync", "download"},
                      NEW l \in AllLeads, Wanted(l)
               PROVE  w.rows[l] # Missing \/ landed[l] # Missing \/ Excused(l)
    BY DEF NothingMissed, Wanted
  <2>1. w.rows[l] # Missing \/ landed[l] # Missing \/ Excused(l) \/ ToCome(l)
    BY DEF WalkInv, CoverFits
  <2>2. w.left = {}
    BY DEF WalkInv, PlaceFits
  <2>3. ~ToCome(l)
    BY <2>2 DEF ToCome, InEdge
  <2> QED
    BY <2>1, <2>3
<1> QED
  BY <1>1, WalkInvariance, PTL
=============================================================================
