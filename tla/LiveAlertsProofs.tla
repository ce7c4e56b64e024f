-------------------------- MODULE LiveAlertsProofs --------------------------
(***************************************************************************)
(* LiveAlerts for every value of its constants: type correctness, that a   *)
(* lead is told of in its own branch only, and that a schedule is pushed   *)
(* once a day.                                                             *)
(***************************************************************************)
EXTENDS LiveAlerts, FiniteSetTheorems, SequenceTheorems, TLAPS

\* The type invariant, one group of variables at a time.
ClockType  == now \in 0 .. MaxClock /\ edits \in 0 .. MaxEdits /\ lives \in 0 .. MaxRestarts
DbType     == lead \in [Leads -> Row] /\ wire \in Seq(Event)
DeviceType == device \in [Devices -> Sessions \cup {None}]
LinkType   ==
  /\ conn \in [Conns -> [state : {"closed", "asking", "open", "gone"}, user : Users \cup {None}, org : Orgs \cup {None}]]
  /\ \A c \in Conns : conn[c] # Closed =>
       conn[c].state \in {"asking", "open", "gone"} /\ <<conn[c].user, conn[c].org>> \in Sessions
  /\ clients \subseteq {c \in Conns : conn[c].state \in {"open", "gone"}}
SeenType   == seenDue \subseteq Key /\ seenMissed \subseteq Key /\ lastReset \in 0 .. Day(MaxClock) \cup {None}
TickType   == tick \in [Ticks -> TickState]
RowsType   == \A t \in Ticks : Len(tick[t].rows) <= Cap /\ (tick[t].pc = "push" => tick[t].rows # << >>)
FlagType   == up \in BOOLEAN /\ running \in BOOLEAN
ToldType   == \A n \in told : n \in Notice
HeardType  == heard \subseteq Users \X Orgs \X Leads

\* The checker's flag is up while a check is under way, and only one is.
Flagged     == running = (\E t \in Ticks : tick[t].pc # "idle")
OneAtATime  == \A s, t \in Ticks : tick[s].pc # "idle" /\ tick[t].pc # "idle" => s = t
AwakeHasDay == \A t \in Ticks : tick[t].pc # "idle" => lastReset # None

\* What was told in this life was told on the day of the sets, or before it.
PastDays ==
  /\ lastReset # None => lastReset <= Day(now)
  /\ \A n \in told : n.life <= lives
  /\ \A n \in told : n.life = lives => lastReset # None /\ n.day <= lastReset

\* What was told today is in its set, but for the push that is awaited.
Awaited(n) == \E t \in Ticks : tick[t].pc = "push" /\ KeyOf(Head(tick[t].rows)) = n.key /\ tick[t].late = n.late
Remembered == \A n \in told : n.life = lives /\ n.day = lastReset => n.key \in SeenIn(n.late) \/ Awaited(n)

WorkInv  == TickType /\ RowsType /\ Flagged /\ OneAtATime
CheckInv == WorkInv /\ SeenType /\ ToldType /\ AwakeHasDay /\ PastDays /\ Remembered
HeardInv == HeardType /\ OwnBranchOnly
AlertInv == ClockType /\ DbType /\ DeviceType /\ LinkType /\ FlagType /\ CheckInv /\ HeardInv

-----------------------------------------------------------------------------
(* Days. *)

LEMMA DayIsNat ==
  ASSUME NEW a \in Nat
  PROVE  Day(a) \in Nat
<1>1. DayLength \in Nat \ {0}
  BY AlertsAssumption
<1>2. a \div DayLength \in Int /\ a < DayLength * ((a \div DayLength) + 1)
  BY <1>1
<1> QED
  BY <1>1, <1>2 DEF Day

LEMMA DaysPass ==
  ASSUME NEW a \in Nat, NEW b \in Nat, a <= b
  PROVE  Day(a) <= Day(b)
<1>1. DayLength \in Nat \ {0}
  BY AlertsAssumption
<1> QED
  BY <1>1, DayIsNat DEF Day

-----------------------------------------------------------------------------
(* What a step leaves alone. *)

LEMMA LinkStays ==
  ASSUME LinkType, UNCHANGED links
  PROVE  LinkType'
  BY DEF LinkType, links, Closed

LEMMA CheckStays ==
  ASSUME CheckInv, UNCHANGED <<now, memory, tick, told, lives>>
  PROVE  CheckInv'
  BY DEF CheckInv, WorkInv, TickType, RowsType, Flagged, OneAtATime, SeenType, ToldType, AwakeHasDay,
         PastDays, Remembered, Awaited, KeyOf, SeenIn, memory

\* A step that tells nobody.
LEMMA SilentKeeps ==
  ASSUME Silent
  PROVE  HeardInv'
  BY DEF Silent, HeardInv, HeardType, OwnBranchOnly

LEMMA FlagStays ==
  ASSUME FlagType, UNCHANGED <<up, running>>
  PROVE  FlagType'
  BY DEF FlagType

LEMMA CountedEdits ==
  ASSUME ClockType, edits < MaxEdits, edits' = edits + 1, UNCHANGED <<now, lives>>
  PROVE  ClockType'
  BY AlertsAssumption DEF ClockType

-----------------------------------------------------------------------------
(* Leads, and what their changes reach. *)

LEMMA ChangeKeeps ==
  ASSUME AlertInv, NEW l \in Leads, Change(l)
  PROVE  AlertInv'
<1> USE DEF AlertInv
<1>1. DbType'
  <2> PICK row \in NewRows, actor \in Users :
             /\ lead' = [lead EXCEPT ![l] = row]
             /\ wire' = Append(wire, [lead |-> l, owner |-> row.owner, actor |-> actor])
    BY DEF Change
  <2>1. row \in Row /\ row.owner \in Users \cup {None}
    BY AlertsAssumption DEF Row
  <2> QED
    BY <2>1 DEF DbType, Event
<1>2. ClockType'
  BY CountedEdits DEF Change
<1> QED
  BY <1>1, <1>2, LinkStays, CheckStays, SilentKeeps, FlagStays DEF Change, DeviceType, memory

\* Only sessions that are open are written to, each in its user's scope.
LEMMA ReachedInScope ==
  ASSUME LinkType, NEW e \in Event
  PROVE  LET hs == Reached({c \in clients : CanSeeEvent(c, e)}, e.lead) IN
         /\ hs \subseteq Users \X Orgs \X Leads
         /\ \A h \in hs :
              \/ h[2] = OrgOf[h[3]]
              \/ RoleOf[h[1]] = "super_admin"
              \/ RoleOf[h[1]] = "tenant_admin" /\ TenantOf[h[2]] = TenantOf[OrgOf[h[3]]]
<1> DEFINE hs == Reached({c \in clients : CanSeeEvent(c, e)}, e.lead)
<1> SUFFICES ASSUME NEW h \in hs
             PROVE  /\ h \in Users \X Orgs \X Leads
                    /\ \/ h[2] = OrgOf[h[3]]
                       \/ RoleOf[h[1]] = "super_admin"
                       \/ RoleOf[h[1]] = "tenant_admin" /\ TenantOf[h[2]] = TenantOf[OrgOf[h[3]]]
  OBVIOUS
<1>1. PICK c \in clients : CanSeeEvent(c, e) /\ conn[c].state = "open" /\ h = <<conn[c].user, conn[c].org, e.lead>>
  BY DEF Reached
<1>2. conn[c].user \in Users /\ conn[c].org \in Orgs
  <2>1. c \in Conns /\ conn[c] # Closed
    BY <1>1 DEF LinkType, Closed
  <2> QED
    BY <2>1, AlertsAssumption DEF LinkType
<1>3. e.lead \in Leads
  BY DEF Event
<1> QED
  BY <1>1, <1>2, <1>3 DEF CanSeeEvent

LEMMA BroadcastKeeps ==
  ASSUME AlertInv, Broadcast
  PROVE  AlertInv'
<1> USE DEF AlertInv
<1>1. Head(wire) \in Event /\ Tail(wire) \in Seq(Event)
  BY HeadTailProperties DEF Broadcast, DbType
<1>2. HeardInv'
  BY <1>1, ReachedInScope DEF Broadcast, HeardInv, HeardType, OwnBranchOnly
<1> QED
  BY <1>1, <1>2, LinkStays, CheckStays, FlagStays DEF Broadcast, DbType, ClockType, DeviceType, memory

LEMMA UnlistenKeeps ==
  ASSUME AlertInv, Unlisten
  PROVE  AlertInv'
<1> USE DEF AlertInv
<1>1. wire' \in Seq(Event)
  BY EmptySeq DEF Unlisten
<1> QED
  BY <1>1, LinkStays, CheckStays, SilentKeeps, FlagStays DEF Unlisten, DbType, ClockType, DeviceType, memory

-----------------------------------------------------------------------------
(* The connections and the handsets. *)

LEMMA ConnKeeps ==
  ASSUME AlertInv, NEW c \in Conns,
         Ask(c) \/ LeaveEarly(c) \/ AddClient(c) \/ RankFails(c) \/ RemoveClient(c)
  PROVE  AlertInv'
<1> USE DEF AlertInv
<1>1. LinkType'
  <2>1. CASE Ask(c)
    <3> PICK s \in Sessions : conn' = [conn EXCEPT ![c] = [state |-> "asking", user |-> s[1], org |-> s[2]]]
      BY <2>1 DEF Ask
    <3>1. s[1] \in Users /\ s[2] \in Orgs /\ <<s[1], s[2]>> \in Sessions
      BY AlertsAssumption
    <3>2. c \notin clients
      BY <2>1 DEF Ask, Closed, LinkType
    <3> QED
      BY <2>1, <3>1, <3>2 DEF Ask, LinkType, Closed
  <2>2. CASE LeaveEarly(c)
    BY <2>2 DEF LeaveEarly, LinkType, Closed
  <2>3. CASE AddClient(c)
    BY <2>3 DEF AddClient, LinkType, Closed
  <2>4. CASE RankFails(c)
    BY <2>4 DEF RankFails, LinkType, Closed
  <2>5. CASE RemoveClient(c)
    BY <2>5 DEF RemoveClient, LinkType, Closed
  <2> QED
    BY <2>1, <2>2, <2>3, <2>4, <2>5
<1>2. Silent /\ UNCHANGED <<now, db, up, device, memory, tick, told, edits, lives>>
  BY DEF Ask, LeaveEarly, AddClient, RankFails, RemoveClient
<1> QED
  BY <1>1, <1>2, CheckStays, SilentKeeps, FlagStays DEF DbType, ClockType, DeviceType, db, memory

LEMMA DeviceKeeps ==
  ASSUME AlertInv, NEW d \in Devices, Subscribe(d) \/ Unsubscribe(d)
  PROVE  AlertInv'
<1> USE DEF AlertInv
<1>1. DeviceType'
  BY DEF Subscribe, Unsubscribe, DeviceType
<1>2. edits < MaxEdits /\ edits' = edits + 1 /\ Silent /\ UNCHANGED <<now, db, up, links, memory, tick, told, lives>>
  BY DEF Subscribe, Unsubscribe
<1>3. ClockType'
  BY <1>2, CountedEdits
<1> QED
  BY <1>1, <1>2, <1>3, CheckStays, LinkStays, SilentKeeps, FlagStays DEF DbType, db, memory

-----------------------------------------------------------------------------
(* One check at a time. *)

LEMMA Alone ==
  ASSUME WorkInv, NEW t \in Ticks, tick[t].pc # "idle", NEW s \in Ticks, s # t
  PROVE  tick[s].pc = "idle"
  BY DEF WorkInv, OneAtATime

\* The check under way takes its next step.
LEMMA MoveKeeps ==
  ASSUME WorkInv, FlagType, NEW t \in Ticks, tick[t].pc # "idle",
         NEW g \in TickState, g.pc # "idle", Len(g.rows) <= Cap, g.pc = "push" => g.rows # << >>,
         tick' = [tick EXCEPT ![t] = g], running' = running
  PROVE  /\ WorkInv'
         /\ (AwakeHasDay /\ lastReset' = lastReset) => AwakeHasDay'
<1>1. tick'[t] = g /\ \A s \in Ticks : s # t => tick'[s] = tick[s]
  BY DEF WorkInv, TickType
<1>2. TickType' /\ RowsType'
  BY <1>1 DEF WorkInv, TickType, RowsType
<1>3. OneAtATime'
  BY <1>1, Alone DEF OneAtATime
<1>4. (\E s \in Ticks : tick[s].pc # "idle") = (\E s \in Ticks : tick'[s].pc # "idle")
  BY <1>1
<1>5. Flagged'
  BY <1>4 DEF WorkInv, Flagged
<1> QED
  BY <1>1, <1>2, <1>3, <1>5 DEF WorkInv, AwakeHasDay

\* It ends, with the flag.
LEMMA EndKeeps ==
  ASSUME WorkInv, FlagType, NEW t \in Ticks, tick[t].pc # "idle", EndTick(t), up' = up
  PROVE  /\ WorkInv' /\ FlagType'
         /\ \A s \in Ticks : tick'[s].pc = "idle"
<1>1. \A s \in Ticks : tick'[s] = IF s = t THEN Idle ELSE tick[s]
  BY DEF WorkInv, TickType, EndTick
<1>2. \A s \in Ticks : tick'[s].pc = "idle"
  BY <1>1, Alone DEF Idle
<1>3. Idle \in TickState /\ Len(Idle.rows) = 0
  BY EmptySeq DEF Idle, TickState
<1>4. TickType'
  BY <1>1, <1>3 DEF WorkInv, TickType, EndTick
<1>5. RowsType'
  BY <1>1, <1>2, <1>3, AlertsAssumption DEF WorkInv, RowsType
<1>6. Flagged' /\ OneAtATime' /\ FlagType'
  <2>1. running' = FALSE
    BY DEF EndTick
  <2> QED
    BY <1>2, <2>1, Zenon DEF Flagged, OneAtATime, FlagType
<1> QED
  BY <1>2, <1>4, <1>5, <1>6 DEF WorkInv

\* A step that tells nothing and forgets nothing, while no push is awaited.
LEMMA QuietKeeps ==
  ASSUME CheckInv, \A t \in Ticks : tick[t].pc # "push",
         UNCHANGED <<now, seenDue, seenMissed, lastReset, told, lives>>
  PROVE  SeenType' /\ ToldType' /\ PastDays' /\ Remembered'
<1>1. \A n \in told : n.life = lives /\ n.day = lastReset => n.key \in SeenIn(n.late)
  BY DEF CheckInv, Remembered, Awaited
<1> QED
  BY <1>1 DEF CheckInv, SeenType, ToldType, PastDays, Remembered, SeenIn

-----------------------------------------------------------------------------
(* The steps of a check. *)

\* What a new day resets, and what the same day keeps.
LEMMA ResetKeeps ==
  ASSUME CheckInv, ClockType, \A t \in Ticks : tick[t].pc = "idle", ResetIfNewDay,
         UNCHANGED <<now, told, lives>>, NEW t \in Ticks, tick' = [tick EXCEPT ![t].pc = "query"]
  PROVE  SeenType' /\ lastReset' # None /\ ToldType' /\ PastDays' /\ Remembered'
<1>1. now \in Nat /\ now <= MaxClock /\ MaxClock \in Nat
  BY AlertsAssumption DEF ClockType
<1>2. Day(now) \in Nat /\ Day(MaxClock) \in Nat /\ Day(now) <= Day(MaxClock) /\ None \notin Nat
  BY <1>1, DayIsNat, DaysPass, AlertsAssumption
<1>3. lastReset' = Day(now)
  BY DEF ResetIfNewDay
<1>4. SeenType' /\ lastReset' # None /\ ToldType'
  BY <1>2, <1>3 DEF CheckInv, SeenType, ToldType, ResetIfNewDay
<1>5. \A n \in told : n.life \in Nat /\ n.day \in Nat
  BY DEF CheckInv, ToldType, Notice
<1>6. \A n \in told : n.life = lives => n.day <= Day(now)
  BY <1>2, <1>5 DEF CheckInv, PastDays, SeenType
<1>7. PastDays'
  BY <1>2, <1>3, <1>6, <1>1 DEF CheckInv, PastDays
<1>8. Remembered'
  <2> SUFFICES ASSUME NEW n \in told, n.life = lives, n.day = Day(now)
               PROVE  n.key \in SeenIn(n.late)'
    BY <1>3 DEF Remembered
  <2>1. lastReset = Day(now)
    BY <1>2, <1>5 DEF CheckInv, PastDays, SeenType
  <2>2. UNCHANGED <<seenDue, seenMissed, lastReset>>
    BY <2>1 DEF ResetIfNewDay
  <2> QED
    BY <2>1, <2>2 DEF CheckInv, Remembered, Awaited, SeenIn
<1> QED
  BY <1>4, <1>7, <1>8

LEMMA TickStartKeeps ==
  ASSUME AlertInv, NEW t \in Ticks, TickStart(t)
  PROVE  AlertInv'
<1> USE DEF AlertInv
<1>1. \A s \in Ticks : tick[s].pc = "idle"
  <2>1. running = FALSE
    BY Zenon DEF TickStart, NotRunning, FlagType
  <2> QED
    BY <2>1, Zenon DEF CheckInv, WorkInv, Flagged
<1>2. SeenType' /\ lastReset' # None /\ ToldType' /\ PastDays' /\ Remembered'
  BY <1>1, ResetKeeps DEF TickStart
<1>3. \A s \in Ticks : tick'[s] = IF s = t THEN [tick[t] EXCEPT !.pc = "query"] ELSE tick[s]
  BY DEF TickStart, CheckInv, WorkInv, TickType
<1>4. tick[t] \in TickState /\ [tick[t] EXCEPT !.pc = "query"] \in TickState
  BY DEF CheckInv, WorkInv, TickType, TickState
<1>5. TickType' /\ RowsType'
  <2>1. TickType'
    BY <1>4 DEF TickStart, CheckInv, WorkInv, TickType
  <2>2. RowsType'
    BY <1>1, <1>3, <1>4 DEF CheckInv, WorkInv, RowsType, TickState
  <2> QED
    BY <2>1, <2>2
<1>6. tick'[t].pc = "query" /\ \A s \in Ticks : s # t => tick'[s].pc = "idle"
  BY <1>1, <1>3, <1>4 DEF TickState
<1>7. OneAtATime' /\ AwakeHasDay'
  BY <1>2, <1>6 DEF OneAtATime, AwakeHasDay
<1>8. Flagged' /\ FlagType'
  <2>1. running' = TRUE /\ up' = up
    BY DEF TickStart
  <2>2. \E s \in Ticks : tick'[s].pc # "idle"
    BY <1>6
  <2> QED
    BY <2>1, <2>2, Zenon DEF Flagged, FlagType
<1> QED
  BY <1>2, <1>5, <1>7, <1>8, LinkStays, SilentKeeps
     DEF CheckInv, WorkInv, TickStart, ClockType, DbType, DeviceType, db, links

\* What the database answers: due rows, at most Cap of them.
LEMMA AnswersAreRows ==
  ASSUME ClockType, DbType, NEW rows \in Answers
  PROVE  rows \in Seq(Found) /\ Len(rows) <= Cap
<1> DEFINE due   == {l \in Leads : Due(l)}
           found == {[lead |-> l, due |-> lead[l].due, owner |-> lead[l].owner] : l \in due}
<1>1. found \subseteq Found
  BY DEF Found, Due, DbType, Row
<1>2. IsFiniteSet(found)
  <2> DEFINE f == [l \in due |-> [lead |-> l, due |-> lead[l].due, owner |-> lead[l].owner]]
  <2>1. f \in Surjection(due, found)
    BY DEF Surjection
  <2>2. IsFiniteSet(due)
    BY AlertsAssumption, FS_Subset
  <2> QED
    BY <2>1, <2>2, FS_Surjection
<1>3. Cardinality(found) \in Nat
  BY <1>2, FS_CardinalityType
<1>4. PICK s \in SetToSeqs(found) : rows = SubSeq(s, 1, IF Len(s) < Cap THEN Len(s) ELSE Cap)
  BY DEF Answers
<1>5. s \in [1 .. Cardinality(found) -> found]
  BY <1>4 DEF SetToSeqs
<1> HIDE DEF found
<1>6. s \in Seq(Found) /\ Len(s) \in Nat
  BY <1>1, <1>3, <1>5
<1>7. Cap \in Nat
  BY AlertsAssumption
<1> QED
  BY <1>4, <1>6, <1>7

LEMMA TickQueryKeeps ==
  ASSUME AlertInv, NEW t \in Ticks, TickQuery(t)
  PROVE  AlertInv'
<1> USE DEF AlertInv
<1> PICK rows \in Answers : tick' = [tick EXCEPT ![t].pc = "rows", ![t].rows = rows]
  BY DEF TickQuery
<1> DEFINE g == [tick[t] EXCEPT !.pc = "rows", !.rows = rows]
<1>1. rows \in Seq(Found) /\ Len(rows) <= Cap
  BY AnswersAreRows
<1>2. g \in TickState /\ g.pc = "rows" /\ g.rows = rows /\ tick' = [tick EXCEPT ![t] = g]
  BY <1>1 DEF CheckInv, WorkInv, TickType, TickState
<1> HIDE DEF g
<1>3. WorkInv' /\ AwakeHasDay'
  BY <1>1, <1>2, MoveKeeps DEF TickQuery, memory, CheckInv
<1>4. \A s \in Ticks : tick[s].pc # "push"
  BY Alone DEF TickQuery, CheckInv
<1> QED
  BY <1>3, <1>4, QuietKeeps, LinkStays, SilentKeeps, FlagStays
     DEF CheckInv, TickQuery, ClockType, DbType, DeviceType, db, links, memory

LEMMA TickEndsKeep ==
  ASSUME AlertInv, NEW t \in Ticks, TickFails(t) \/ TickDone(t)
  PROVE  AlertInv'
<1> USE DEF AlertInv
<1>1. /\ tick[t].pc \in {"query", "rows"} /\ EndTick(t) /\ Silent
      /\ UNCHANGED <<now, db, up, links, device, seenDue, seenMissed, lastReset, told, edits, lives>>
  BY DEF TickFails, TickDone
<1>2. WorkInv' /\ FlagType' /\ AwakeHasDay'
  BY <1>1, EndKeeps DEF CheckInv, AwakeHasDay
<1>3. \A s \in Ticks : tick[s].pc # "push"
  BY <1>1, Alone DEF CheckInv
<1> QED
  BY <1>1, <1>2, <1>3, QuietKeeps, LinkStays, SilentKeeps
     DEF CheckInv, ClockType, DbType, DeviceType, db, links

\* The rest of the rows.
LEMMA NextRow ==
  ASSUME WorkInv, NEW t \in Ticks, tick[t].rows # << >>
  PROVE  /\ Head(tick[t].rows) \in Found
         /\ [tick[t] EXCEPT !.pc = "rows", !.rows = Tail(@)] \in TickState
         /\ Len(Tail(tick[t].rows)) <= Cap
<1>1. tick[t] \in TickState /\ tick[t].rows \in Seq(Found)
  BY DEF WorkInv, TickType, TickState
<1>2. /\ Head(tick[t].rows) \in Found /\ Tail(tick[t].rows) \in Seq(Found)
      /\ Len(Tail(tick[t].rows)) = Len(tick[t].rows) - 1
  BY <1>1, HeadTailProperties
<1>3. Len(tick[t].rows) \in Nat /\ Len(tick[t].rows) <= Cap /\ Cap \in Nat
  BY <1>1, LenProperties, AlertsAssumption DEF WorkInv, RowsType
<1>4. Len(Tail(tick[t].rows)) <= Cap
  BY <1>2, <1>3
<1> QED
  BY <1>1, <1>2, <1>4 DEF TickState

LEMMA SkipKeeps ==
  ASSUME AlertInv, NEW t \in Ticks, Skip(t)
  PROVE  AlertInv'
<1> USE DEF AlertInv
<1> DEFINE g == [tick[t] EXCEPT !.pc = "rows", !.rows = Tail(@)]
<1>1. g \in TickState /\ Len(Tail(tick[t].rows)) <= Cap
  BY NextRow DEF Skip, CheckInv
<1>2. g.pc = "rows" /\ g.rows = Tail(tick[t].rows) /\ tick' = [tick EXCEPT ![t] = g]
  BY DEF Skip, CheckInv, WorkInv, TickType, TickState
<1> HIDE DEF g
<1>3. WorkInv' /\ AwakeHasDay'
  BY <1>1, <1>2, MoveKeeps DEF Skip, memory, CheckInv
<1>4. \A s \in Ticks : tick[s].pc # "push"
  BY Alone DEF Skip, CheckInv
<1> QED
  BY <1>3, <1>4, QuietKeeps, LinkStays, SilentKeeps, FlagStays
     DEF CheckInv, Skip, ClockType, DbType, DeviceType, db, links, memory

LEMMA TellKeeps ==
  ASSUME AlertInv, NEW t \in Ticks, Tell(t)
  PROVE  AlertInv'
<1> USE DEF AlertInv
<1>1. Head(tick[t].rows) \in Found /\ tick[t] \in TickState
  BY NextRow DEF Tell, CheckInv, WorkInv, TickType
<1>2. PICK row \in Found : row = Head(tick[t].rows)
  BY <1>1
<1>3. PICK late \in BOOLEAN : late = (row.due < now)
  <2>1. (row.due < now) \in BOOLEAN
    OBVIOUS
  <2> QED
    BY <2>1, Zenon
<1>4. lastReset \in Nat /\ lives \in Nat /\ lastReset # None
  <2>1. lastReset # None
    BY DEF Tell, CheckInv, AwakeHasDay
  <2>2. Day(MaxClock) \in Nat
    BY DayIsNat, AlertsAssumption
  <2> QED
    BY <2>1, <2>2, AlertsAssumption DEF CheckInv, SeenType, ClockType
<1>5. PICK note : note = [key |-> KeyOf(row), late |-> late, day |-> lastReset, life |-> lives]
  OBVIOUS
<1>6. /\ note \in Notice /\ note.key = KeyOf(row) /\ note.late = late
      /\ note.day = lastReset /\ note.life = lives
  <2>1. KeyOf(row) \in Key
    BY DEF KeyOf, Key, Found
  <2> QED
    BY <1>3, <1>4, <1>5, <2>1 DEF Notice
<1>7. /\ tick[t].pc = "rows" /\ tick[t].rows # << >> /\ told' = told \cup {note}
      /\ heard' = Reached(SendTo(row), row.lead)
      /\ UNCHANGED <<now, db, up, links, device, memory, edits, lives>>
      /\ tick' = [tick EXCEPT ![t].pc = "push", ![t].late = late]
  BY <1>2, <1>3, <1>5 DEF Tell
<1>8. PICK g \in TickState : /\ g.pc = "push" /\ g.rows = tick[t].rows /\ g.late = late
                             /\ tick' = [tick EXCEPT ![t] = g]
  <2>1. [tick[t] EXCEPT !.pc = "push", !.late = late] \in TickState
    BY <1>1, <1>3 DEF TickState
  <2>2. tick' = [tick EXCEPT ![t] = [tick[t] EXCEPT !.pc = "push", !.late = late]]
    BY <1>7 DEF CheckInv, WorkInv, TickType
  <2> QED
    BY <1>1, <2>1, <2>2 DEF TickState
<1>9. WorkInv' /\ AwakeHasDay'
  BY <1>7, <1>8, MoveKeeps DEF memory, CheckInv, WorkInv, RowsType
<1>10. ToldType' /\ SeenType' /\ PastDays'
  <2>1. ToldType' /\ SeenType'
    BY <1>6, <1>7 DEF CheckInv, ToldType, SeenType, memory
  <2>2. PastDays'
    BY <1>4, <1>6, <1>7 DEF CheckInv, PastDays, memory
  <2> QED
    BY <2>1, <2>2
<1>11. Remembered'
  <2>1. tick'[t] = g
    BY <1>8 DEF CheckInv, WorkInv, TickType
  <2>2. Awaited(note)'
    BY <1>2, <1>3, <1>6, <1>8, <2>1 DEF Awaited, KeyOf
  <2>3. \A n \in told : n.life = lives /\ n.day = lastReset => n.key \in SeenIn(n.late)
    BY <1>7, Alone DEF CheckInv, Remembered, Awaited
  <2> QED
    BY <1>7, <2>2, <2>3 DEF Remembered, SeenIn, memory
<1>12. HeardInv'
  <2> SUFFICES ASSUME NEW h \in heard'
               PROVE  h \in Users \X Orgs \X Leads /\ h[2] = OrgOf[h[3]]
    BY DEF HeardInv, HeardType, OwnBranchOnly
  <2>1. PICK c \in SendTo(row) : conn[c].state = "open" /\ h = <<conn[c].user, conn[c].org, row.lead>>
    BY <1>7 DEF Reached
  <2>2. conn[c].user = row.owner /\ conn[c].org = OrgOf[row.lead]
    BY DEF SendTo
  <2>3. row.owner \in Users /\ row.lead \in Leads /\ OrgOf[row.lead] \in Orgs
    BY AlertsAssumption DEF Found
  <2> QED
    BY <2>1, <2>2, <2>3
<1> QED
  BY <1>7, <1>9, <1>10, <1>11, <1>12, LinkStays, FlagStays
     DEF CheckInv, ClockType, DbType, DeviceType, db, links, memory

\* The row is done with, whatever its push came to, and its key is recorded.
LEMMA RememberKeeps ==
  ASSUME CheckInv, FlagType, NEW t \in Ticks, tick[t].pc = "push", Remember(t),
         tick' = [tick EXCEPT ![t].pc = "rows", ![t].rows = Tail(@)],
         UNCHANGED <<now, lastReset, running, told, lives>>
  PROVE  CheckInv'
<1>1. tick[t].rows # << >>
  BY DEF CheckInv, WorkInv, RowsType
<1>2. PICK row \in Found : row = Head(tick[t].rows)
  BY <1>1, NextRow DEF CheckInv
<1>3. PICK g \in TickState : /\ g.pc = "rows" /\ g.rows = Tail(tick[t].rows) /\ Len(g.rows) <= Cap
                             /\ tick' = [tick EXCEPT ![t] = g]
  <2>1. [tick[t] EXCEPT !.pc = "rows", !.rows = Tail(@)] \in TickState /\ Len(Tail(tick[t].rows)) <= Cap
    BY <1>1, NextRow DEF CheckInv
  <2>2. tick' = [tick EXCEPT ![t] = [tick[t] EXCEPT !.pc = "rows", !.rows = Tail(@)]]
    BY DEF CheckInv, WorkInv, TickType
  <2> QED
    BY <2>1, <2>2 DEF CheckInv, WorkInv, TickType, TickState
<1>4. WorkInv' /\ AwakeHasDay'
  BY <1>3, MoveKeeps DEF CheckInv
<1>5. SeenType' /\ ToldType' /\ PastDays'
  <2>1. KeyOf(row) \in Key
    BY DEF KeyOf, Key, Found
  <2> QED
    BY <1>2, <2>1 DEF CheckInv, Remember, SeenType, ToldType, PastDays
<1>6. Remembered'
  <2>1. /\ seenDue \subseteq seenDue' /\ seenMissed \subseteq seenMissed'
        /\ IF tick[t].late THEN KeyOf(row) \in seenMissed' ELSE KeyOf(row) \in seenDue'
    BY <1>2 DEF Remember
  <2>2. \A n \in told : Awaited(n) => n.key = KeyOf(row) /\ n.late = tick[t].late
    BY <1>2, Alone DEF CheckInv, Awaited
  <2> SUFFICES ASSUME NEW n \in told, n.life = lives, n.day = lastReset
               PROVE  n.key \in SeenIn(n.late)'
    BY DEF Remembered
  <2>3. CASE n.key \in SeenIn(n.late)
    BY <2>1, <2>3 DEF SeenIn
  <2>4. CASE Awaited(n)
    BY <2>1, <2>2, <2>4 DEF SeenIn
  <2> QED
    BY <2>3, <2>4 DEF CheckInv, Remembered
<1> QED
  BY <1>4, <1>5, <1>6 DEF CheckInv

LEMMA PushedKeeps ==
  ASSUME AlertInv, NEW t \in Ticks, Pushed(t)
  PROVE  AlertInv'
<1> USE DEF AlertInv
<1>1. CheckInv'
  BY RememberKeeps DEF Pushed
<1> DEFINE row == Head(tick[t].rows)
<1>2. row \in Found
  BY NextRow DEF Pushed, CheckInv, WorkInv, RowsType
<1>3. PICK pruned \in SUBSET Registered(row), sent \in SUBSET Registered(row) :
        /\ device' = [d \in Devices |-> IF d \in pruned THEN None ELSE device[d]]
        /\ heard' = {<<row.owner, OrgOf[row.lead], row.lead>> : d \in sent}
  BY Zenon DEF Pushed
<1>4. DeviceType'
  BY <1>3 DEF DeviceType
<1>5. row.owner \in Users /\ row.lead \in Leads /\ OrgOf[row.lead] \in Orgs
  BY <1>2, AlertsAssumption DEF Found
<1> HIDE DEF row
<1>6. HeardInv'
  BY <1>3, <1>5 DEF HeardInv, HeardType, OwnBranchOnly
<1> QED
  BY <1>1, <1>4, <1>6, LinkStays, FlagStays DEF Pushed, ClockType, DbType, db, links

LEMMA PushThrowsKeeps ==
  ASSUME AlertInv, NEW t \in Ticks, PushThrows(t)
  PROVE  AlertInv'
<1> USE DEF AlertInv
<1>1. CheckInv'
  BY RememberKeeps DEF PushThrows, AfterThrow, ThrowCaught
<1> QED
  BY <1>1, LinkStays, FlagStays, SilentKeeps
     DEF PushThrows, AfterThrow, ThrowCaught, ClockType, DbType, DeviceType, db, links

-----------------------------------------------------------------------------
(* The process and the clock. *)

LEMMA StopKeeps ==
  ASSUME AlertInv, Stop
  PROVE  AlertInv'
<1> USE DEF AlertInv
<1>1. LinkType'
  BY DEF Stop, LinkType, Closed
<1>2. FlagType'
  <2>1. up' = FALSE /\ running' = running
    BY DEF Stop, memory
  <2> QED
    BY <2>1, Zenon DEF FlagType
<1> QED
  BY <1>1, <1>2, CheckStays, SilentKeeps DEF Stop, ClockType, DbType, DeviceType, db, memory

\* What a check that has not begun is.
LEMMA AllIdle ==
  ASSUME tick = [t \in Ticks |-> Idle], running = FALSE, seenDue = {}, seenMissed = {}, lastReset = None
  PROVE  WorkInv /\ SeenType /\ AwakeHasDay
<1>1. Idle \in TickState /\ Len(Idle.rows) = 0 /\ Idle.pc = "idle"
  BY EmptySeq DEF Idle, TickState
<1>2. \A t \in Ticks : tick[t].pc = "idle"
  BY <1>1
<1>3. TickType /\ RowsType
  BY <1>1, AlertsAssumption DEF TickType, RowsType
<1>4. Flagged /\ OneAtATime
  BY <1>2, Zenon DEF Flagged, OneAtATime
<1>5. SeenType /\ AwakeHasDay
  BY <1>2 DEF SeenType, AwakeHasDay
<1> QED
  BY <1>3, <1>4, <1>5 DEF WorkInv

LEMMA RestartKeeps ==
  ASSUME AlertInv, Restart
  PROVE  AlertInv'
<1> USE DEF AlertInv
<1>1. LinkType'
  BY DEF Restart, LinkType, Closed
<1>2. FlagType'
  <2>1. up' = TRUE /\ running' = FALSE
    BY DEF Restart
  <2> QED
    BY <2>1, Zenon DEF FlagType
<1>3. ClockType'
  BY AlertsAssumption DEF Restart, ClockType
<1>4. DbType'
  BY EmptySeq DEF Restart, DbType
<1>5. WorkInv' /\ SeenType' /\ AwakeHasDay'
  <2>1. Idle \in TickState /\ Len(Idle.rows) = 0 /\ Idle.pc = "idle"
    BY EmptySeq DEF Idle, TickState
  <2>2. \A t \in Ticks : tick'[t] = Idle
    BY DEF Restart
  <2>3. TickType' /\ RowsType'
    BY <2>1, <2>2, AlertsAssumption DEF TickType, RowsType, Restart
  <2>4. \A t \in Ticks : tick'[t].pc = "idle"
    BY <2>1, <2>2
  <2>5. running' = FALSE
    BY DEF Restart
  <2>6. Flagged' /\ OneAtATime'
    BY <2>4, <2>5, Zenon DEF Flagged, OneAtATime
  <2>7. SeenType' /\ AwakeHasDay'
    BY <2>4 DEF SeenType, AwakeHasDay, Restart
  <2> QED
    BY <2>3, <2>6, <2>7 DEF WorkInv
<1>6. ToldType' /\ PastDays' /\ Remembered'
  <2>1. lives \in Nat /\ lives' = lives + 1 /\ told' = told /\ lastReset' = None
    BY AlertsAssumption DEF Restart, ClockType
  <2>2. \A n \in told : n.life \in Nat /\ n.life <= lives
    BY DEF CheckInv, ToldType, PastDays, Notice
  <2>3. \A n \in told : n.life # lives' /\ n.life <= lives'
    BY <2>1, <2>2
  <2> QED
    BY <2>1, <2>3 DEF CheckInv, ToldType, PastDays, Remembered
<1> QED
  BY <1>1, <1>2, <1>3, <1>4, <1>5, <1>6, SilentKeeps DEF CheckInv, Restart, DeviceType

LEMMA PassKeeps ==
  ASSUME AlertInv, Pass
  PROVE  AlertInv'
<1> USE DEF AlertInv
<1>1. now \in Nat /\ now' = now + 1 /\ now' \in 0 .. MaxClock
  BY AlertsAssumption DEF Pass, ClockType
<1>2. Day(now) \in Nat /\ Day(now + 1) \in Nat /\ Day(now) <= Day(now + 1)
  BY <1>1, DayIsNat, DaysPass
<1>3. Day(now)' = Day(now + 1)
  BY <1>1 DEF Day
<1>4. PastDays'
  <2>1. lastReset # None => lastReset \in Nat
    BY DayIsNat, AlertsAssumption DEF CheckInv, SeenType
  <2> QED
    BY <1>2, <1>3, <2>1 DEF Pass, CheckInv, PastDays, memory
<1>5. CheckInv'
  BY <1>4 DEF Pass, CheckInv, WorkInv, TickType, RowsType, Flagged, OneAtATime, SeenType, ToldType, AwakeHasDay,
         Remembered, Awaited, KeyOf, SeenIn, memory
<1> QED
  BY <1>1, <1>5, LinkStays, FlagStays, SilentKeeps DEF Pass, ClockType, DbType, DeviceType, db, memory

-----------------------------------------------------------------------------
(* Every step, and the theorems. *)

LEMMA InitHolds ==
  ASSUME Init
  PROVE  AlertInv
<1>1. ClockType
  BY AlertsAssumption DEF Init, ClockType
<1>2. DbType /\ DeviceType
  BY EmptySeq, AlertsAssumption DEF Init, DbType, DeviceType, Row
<1>3. LinkType
  BY DEF Init, LinkType, Closed
<1>4. FlagType
  <2>1. up = TRUE /\ running = FALSE
    BY DEF Init
  <2> QED
    BY <2>1, Zenon DEF FlagType
<1>5. WorkInv /\ SeenType /\ AwakeHasDay
  BY AllIdle DEF Init
<1>6. ToldType /\ PastDays /\ Remembered /\ HeardInv
  BY DEF Init, ToldType, PastDays, Remembered, HeardInv, HeardType, OwnBranchOnly
<1> QED
  BY <1>1, <1>2, <1>3, <1>4, <1>5, <1>6 DEF AlertInv, CheckInv

LEMMA NextKeeps ==
  ASSUME AlertInv, [Next]_vars
  PROVE  AlertInv'
<1>1. CASE UNCHANGED vars
  <2>1. HeardInv'
    BY <1>1 DEF vars, AlertInv, HeardInv, HeardType, OwnBranchOnly
  <2> QED
    BY <1>1, <2>1, LinkStays, CheckStays, FlagStays
       DEF vars, AlertInv, ClockType, DbType, DeviceType, db, links, memory
<1>2. CASE \E l \in Leads : Change(l)
  BY <1>2, ChangeKeeps
<1>3. CASE Broadcast \/ Unlisten
  BY <1>3, BroadcastKeeps, UnlistenKeeps
<1>4. CASE \E c \in Conns : Ask(c) \/ LeaveEarly(c) \/ AddClient(c) \/ RankFails(c) \/ RemoveClient(c)
  BY <1>4, ConnKeeps
<1>5. CASE \E d \in Devices : Subscribe(d) \/ Unsubscribe(d)
  BY <1>5, DeviceKeeps
<1>6. ASSUME NEW t \in Ticks, Check(t)
      PROVE  AlertInv'
  BY <1>6, TickStartKeeps, TickQueryKeeps, TickEndsKeep, SkipKeeps, TellKeeps, PushedKeeps, PushThrowsKeeps DEF Check
<1>7. CASE Stop \/ Restart \/ Pass
  BY <1>7, StopKeeps, RestartKeeps, PassKeeps
<1> QED
  BY <1>1, <1>2, <1>3, <1>4, <1>5, <1>6, <1>7 DEF Next

\* The inductive invariant: one check at a time, and the sets hold what this
\* life told today, but for the push that is awaited.
LEMMA Invariance == Spec => []AlertInv
<1>1. Init => AlertInv
  BY InitHolds
<1>2. AlertInv /\ [Next]_vars => AlertInv'
  BY NextKeeps
<1> QED
  BY <1>1, <1>2, PTL DEF Spec

\* Every variable keeps its type, and the checker's flag is up exactly while a
\* check is under way (followup-checker.ts:204-223).
THEOREM TypeCorrect == Spec => []TypeOK
<1>1. AlertInv => TypeOK
  <2> SUFFICES ASSUME AlertInv PROVE TypeOK
    OBVIOUS
  <2>1. up \in BOOLEAN /\ running \in BOOLEAN /\ running = (\E t \in Ticks : tick[t].pc # "idle")
    BY Zenon DEF AlertInv, FlagType, CheckInv, WorkInv, Flagged
  <2> QED
    BY <2>1, Zenon DEF AlertInv, ClockType, DbType, DeviceType, LinkType, CheckInv, WorkInv, TickType, RowsType,
           SeenType, ToldType, HeardInv, HeardType, TypeOK
<1> QED
  BY <1>1, Invariance, PTL

\* Whatever changes, connects, is registered or restarts, nobody but the
\* administrators of the tenant and of the platform hears of a lead of another
\* branch than the session's (manager.ts:98-161, followup-checker.ts:129-146).
THEOREM BranchesAreKept == Spec => []OwnBranchOnly
<1>1. AlertInv => OwnBranchOnly
  BY DEF AlertInv, HeardInv
<1> QED
  BY <1>1, Invariance, PTL

\* A life of the process pushes a schedule at most once as due and once as
\* overdue a day: the flag keeps checks apart, and the sets are emptied only on
\* a new day (followup-checker.ts:63-70, 174-184 and 204-223).
THEOREM PushedOnceADay == Spec => OncePerDay
<1> DEFINE Once == \A t \in Ticks : (tick[t].pc = "rows" /\ tick'[t].pc = "push") =>
             [key |-> KeyOf(Head(tick[t].rows)), late |-> tick'[t].late, day |-> lastReset, life |-> lives]
               \notin told
<1>1. AlertInv /\ [Next]_vars => [Once]_vars
  <2> SUFFICES ASSUME AlertInv, Next, NEW t \in Ticks, tick[t].pc = "rows", tick'[t].pc = "push"
               PROVE  [key |-> KeyOf(Head(tick[t].rows)), late |-> tick'[t].late, day |-> lastReset, life |-> lives]
                        \notin told
    OBVIOUS
  <2>1. Tell(t)
    <3>1. tick \in [Ticks -> TickState] /\ Idle.pc = "idle"
      BY DEF AlertInv, CheckInv, WorkInv, TickType, Idle
    <3>2. tick'[t] # tick[t] /\ tick'[t] # Idle
      BY <3>1
    <3>3. PICK s \in Ticks : Check(s)
      BY <3>2 DEF Next, Change, Broadcast, Unlisten, Ask, LeaveEarly, AddClient, RankFails, RemoveClient,
                  Subscribe, Unsubscribe, Stop, Restart, Pass, memory
    <3>4. s = t
      BY <3>1, <3>2, <3>3 DEF Check, TickStart, TickQuery, TickFails, Skip, Tell, Pushed, PushThrows, TickDone,
                              EndTick, AfterThrow, ThrowCaught
    <3> QED
      BY <3>1, <3>3, <3>4 DEF Check, TickStart, TickQuery, TickFails, Skip, Pushed, PushThrows, TickDone,
                              EndTick, AfterThrow, ThrowCaught, TickState, Idle
  <2>2. KeyOf(Head(tick[t].rows)) \notin SeenIn(tick'[t].late)
    BY <2>1 DEF Tell, AlertInv, CheckInv, WorkInv, TickType
  <2>3. \A n : ~Awaited(n)
    BY Alone DEF AlertInv, CheckInv, Awaited
  <2> QED
    BY <2>2, <2>3 DEF AlertInv, CheckInv, Remembered
<1> QED
  BY <1>1, Invariance, PTL DEF Spec, OncePerDay
=============================================================================
