----------------------------- MODULE LiveAlerts -----------------------------
(***************************************************************************)
(* notifications-service: the follow-up checker, the live connections and  *)
(* the registered handsets.                                                *)
(*                                                                         *)
(* On every interval the checker reads the follow-ups that are due, and    *)
(* tells each owner once: on the connections the owner holds in the lead's *)
(* branch, and by Web Push.  What it has told it remembers in memory, per  *)
(* local day.  Changes of leads, published by leads-service with NOTIFY,   *)
(* are broadcast to the connections that may see them.                     *)
(*                                                                         *)
(* Abstractions.  Time is a number, and a day DayLength of them.  A lead   *)
(* has a due time, an owner and whether its follow-up is still wanted (its *)
(* stage requires one and it is not deleted).  A connection is one slot a browser may open anew.  *)
(* Wording, counters, keepalives and log lines are left out.  Leads change *)
(* in leads-service (LeadLifecycle); here a change is any new row.         *)
(***************************************************************************)
EXTENDS Integers, Sequences, FiniteSets, SequencesExt

CONSTANTS
  Users, RoleOf,            \* "super_admin", "tenant_admin", "org_admin" or another
  SeesUnassigned,           \* users whose rank may see unassigned leads
  Orgs, TenantOf,
  Leads, OrgOf,             \* the branch of a lead
  Conns,
  Sessions,                 \* users with the branch each is signed in to
  Devices,                  \* push endpoints
  Ticks,                    \* 1 .. n: checks that may overlap
  Dues,                     \* times a follow-up may be scheduled for
  StartRows, NewRows,       \* rows of the leads to start from, and to change to
  StartDevices,             \* registrations to start from
  DayLength, Ahead, Back,   \* FOLLOWUP_LOOKAHEAD_MINUTES, FOLLOWUP_LOOKBACK_MINUTES
  Cap,                      \* FOLLOWUP_MAX_ROWS_PER_TICK
  None,
  MaxClock, MaxEdits, MaxRestarts      \* bounds: changes of leads and handsets

ASSUME AlertsAssumption ==
  /\ OrgOf \in [Leads -> Orgs] /\ Sessions \subseteq Users \X Orgs
  /\ StartRows \subseteq [Leads -> [due : Dues \cup {None}, owner : Users \cup {None}, wanted : BOOLEAN]]
  /\ NewRows \subseteq [due : Dues \cup {None}, owner : Users \cup {None}, wanted : BOOLEAN]
  /\ StartDevices \subseteq [Devices -> Sessions \cup {None}]
  /\ SeesUnassigned \subseteq Users /\ Dues \subseteq Nat /\ Ticks \subseteq Nat /\ IsFiniteSet(Leads)
  /\ {DayLength, Cap} \subseteq Nat \ {0}
  /\ {Ahead, Back, MaxClock, MaxEdits, MaxRestarts} \subseteq Nat
  /\ None \notin Users \cup Nat

VARIABLES
  now,        \* the clock
  lead,       \* lms.marketing_leads
  wire,       \* NOTIFY payloads on their way
  up,         \* FALSE from the signal to stop until the process is gone
  conn,       \* each browser's side of its connection
  clients,    \* the connection manager's map
  device,     \* notify.push_subscriptions
  seenDue, seenMissed, lastReset, running,    \* the checker's memory
  tick,       \* what each run of it is doing
  told,       \* history: what was pushed, on which day, in which life
  heard,      \* who, in which branch, the last step told of which lead
  edits, lives                                \* counters

db     == <<lead, wire>>
memory == <<seenDue, seenMissed, lastReset, running>>
links  == <<conn, clients>>
vars   == <<now, db, up, links, device, memory, tick, told, heard, edits, lives>>

\* The step writes to nobody.
Silent == heard' = {}

Day(t) == t \div DayLength
Row    == [due : Dues \cup {None}, owner : Users \cup {None}, wanted : BOOLEAN]
\* A connection nobody holds; it may be opened by anybody.
Closed == [state |-> "closed", user |-> None, org |-> None]
\* A row as a check has read it.
Found  == [lead : Leads, due : Dues, owner : Users]
Event  == [lead : Leads, owner : Users \cup {None}, actor : Users]
Key    == Leads \X Dues
Notice == [key : Key, late : BOOLEAN, day : Nat, life : Nat]
Idle   == [pc |-> "idle", rows |-> << >>, late |-> FALSE]
TickState == [pc : {"idle", "query", "rows", "push"}, rows : Seq(Found), late : BOOLEAN]

TypeOK ==
  /\ now \in 0 .. MaxClock
  /\ lead \in [Leads -> Row] /\ wire \in Seq(Event)
  /\ up \in BOOLEAN
  /\ conn \in [Conns -> [state : {"closed", "asking", "open", "gone"}, user : Users \cup {None}, org : Orgs \cup {None}]]
  /\ \A c \in Conns : conn[c] # Closed =>
       conn[c].state \in {"asking", "open", "gone"} /\ <<conn[c].user, conn[c].org>> \in Sessions
  /\ clients \subseteq {c \in Conns : conn[c].state \in {"open", "gone"}}
  /\ device \in [Devices -> Sessions \cup {None}]
  /\ seenDue \subseteq Key /\ seenMissed \subseteq Key
  /\ lastReset \in 0 .. Day(MaxClock) \cup {None} /\ running \in BOOLEAN
  /\ tick \in [Ticks -> TickState]
  /\ \A t \in Ticks : Len(tick[t].rows) <= Cap /\ (tick[t].pc = "push" => tick[t].rows # << >>)
  /\ \A n \in told : n \in Notice
  /\ heard \subseteq Users \X Orgs \X Leads
  /\ edits \in 0 .. MaxEdits /\ lives \in 0 .. MaxRestarts
  /\ running = (\E t \in Ticks : tick[t].pc # "idle")

Init ==
  /\ now = 0 /\ lead \in StartRows /\ wire = << >> /\ up = TRUE
  /\ conn = [c \in Conns |-> Closed] /\ clients = {}
  /\ device \in StartDevices
  /\ seenDue = {} /\ seenMissed = {} /\ lastReset = None /\ running = FALSE
  /\ tick = [t \in Ticks |-> Idle]
  /\ told = {} /\ heard = {} /\ edits = 0 /\ lives = 0

-----------------------------------------------------------------------------
(* What a change of a lead reaches. *)

\* External: leads-service changes a lead and publishes what it did.
Change(l) ==
  /\ edits < MaxEdits
  /\ \E row \in NewRows, actor \in Users :
       /\ row # lead[l]
       /\ lead' = [lead EXCEPT ![l] = row]
       /\ wire' = Append(wire, [lead |-> l, owner |-> row.owner, actor |-> actor])
  /\ edits' = edits + 1
  /\ Silent /\ UNCHANGED <<now, up, links, device, memory, tick, told, lives>>

CanSeeEvent(c, e) ==
  LET user == conn[c].user  org == conn[c].org IN
  \/ RoleOf[user] = "super_admin"
  \/ RoleOf[user] = "tenant_admin" /\ TenantOf[org] = TenantOf[OrgOf[e.lead]]
  \/ /\ RoleOf[user] # "tenant_admin"
     /\ org = OrgOf[e.lead]
     /\ \/ RoleOf[user] = "org_admin"
        \/ e.owner = None /\ user \in SeesUnassigned
        \/ user \in {e.owner, e.actor}

\* What is written to a connection the browser has left reaches nobody.
Reached(cs, l) == {<<conn[c].user, conn[c].org, l>> : c \in {x \in cs : conn[x].state = "open"}}

Broadcast ==
  /\ wire # << >>
  /\ LET e == Head(wire)
     IN  heard' = Reached({c \in clients : CanSeeEvent(c, e)}, e.lead)
  /\ wire' = Tail(wire)
  /\ UNCHANGED <<now, lead, up, links, device, memory, tick, told, edits, lives>>

\* The transport stops listening while the process stops.
Unlisten ==
  /\ ~up /\ wire # << >>
  /\ wire' = << >>
  /\ Silent /\ UNCHANGED <<now, lead, up, links, device, memory, tick, told, edits, lives>>

-----------------------------------------------------------------------------
(* The live connections. *)

\* GET /notifications/stream: the rank of the user is resolved first.
Ask(c) ==
  /\ conn[c] = Closed
  /\ \E session \in Sessions :
       conn' = [conn EXCEPT ![c] = [state |-> "asking", user |-> session[1], org |-> session[2]]]
  /\ Silent /\ UNCHANGED <<now, db, up, clients, device, memory, tick, told, edits, lives>>

\* The browser leaves before a close handler is installed.
LeaveEarly(c) ==
  /\ conn[c].state = "asking"
  /\ conn' = [conn EXCEPT ![c].state = "gone"]
  /\ Silent /\ UNCHANGED <<now, db, up, clients, device, memory, tick, told, edits, lives>>

\* The rank is there: the connection enters the map, left by the browser or not.
AddClient(c) ==
  /\ conn[c].state \in {"asking", "gone"} /\ c \notin clients
  /\ clients' = clients \cup {c}
  /\ conn' = [conn EXCEPT ![c].state = IF @ = "asking" THEN "open" ELSE "gone"]
  /\ Silent /\ UNCHANGED <<now, db, up, device, memory, tick, told, edits, lives>>

RankFails(c) ==
  /\ conn[c].state \in {"asking", "gone"} /\ c \notin clients
  /\ conn' = [conn EXCEPT ![c] = Closed]
  /\ Silent /\ UNCHANGED <<now, db, up, clients, device, memory, tick, told, edits, lives>>

RemoveClient(c) ==
  /\ conn[c].state = "open"
  /\ conn' = [conn EXCEPT ![c] = Closed]
  /\ clients' = clients \ {c}
  /\ Silent /\ UNCHANGED <<now, db, up, device, memory, tick, told, edits, lives>>

-----------------------------------------------------------------------------
(* The handsets: @platform/web-push keeps one row per endpoint. *)

Subscribe(d) ==
  /\ edits < MaxEdits
  /\ \E session \in Sessions \ {device[d]} : device' = [device EXCEPT ![d] = session]
  /\ edits' = edits + 1
  /\ Silent /\ UNCHANGED <<now, db, up, links, memory, tick, told, lives>>

\* A request for an endpoint of somebody else, or of another branch, deletes nothing.
Unsubscribe(d) ==
  /\ edits < MaxEdits
  /\ \E session \in Sessions : device[d] = session
  /\ device' = [device EXCEPT ![d] = None]
  /\ edits' = edits + 1
  /\ Silent /\ UNCHANGED <<now, db, up, links, memory, tick, told, lives>>

-----------------------------------------------------------------------------
(* The follow-up checker. *)

\* Without runGuarded.
Overlapping(t) == tick[t].pc = "idle"
\* The timer does not wait for a check that is still running: runGuarded does.
NotRunning(t) == ~running

ResetIfNewDay ==
  IF lastReset = Day(now) THEN UNCHANGED <<seenDue, seenMissed, lastReset>>
  ELSE seenDue' = {} /\ seenMissed' = {} /\ lastReset' = Day(now)

TickStart(t) ==
  /\ up /\ NotRunning(t) /\ tick[t].pc = "idle"
  /\ \A s \in Ticks : s < t => tick[s].pc # "idle"
  /\ running' = TRUE
  /\ ResetIfNewDay
  /\ tick' = [tick EXCEPT ![t].pc = "query"]
  /\ Silent /\ UNCHANGED <<now, db, up, links, device, told, edits, lives>>

\* Leads whose follow-up is due, neither too far ahead nor too long ago.
Due(l) ==
  /\ lead[l].wanted /\ lead[l].owner # None /\ lead[l].due # None
  /\ lead[l].due \in now - Back .. now + Ahead

\* ORDER BY scheduled_at LIMIT Cap: the order of equal times is the database's.
Answers ==
  LET found == {[lead |-> l, due |-> lead[l].due, owner |-> lead[l].owner] : l \in {x \in Leads : Due(x)}}
      ordered == {s \in SetToSeqs(found) : \A i, j \in DOMAIN s : i < j => s[i].due <= s[j].due}
  IN  {SubSeq(s, 1, IF Len(s) < Cap THEN Len(s) ELSE Cap) : s \in ordered}

TickQuery(t) ==
  /\ tick[t].pc = "query"
  /\ \E rows \in Answers : tick' = [tick EXCEPT ![t].pc = "rows", ![t].rows = rows]
  /\ Silent /\ UNCHANGED <<now, db, up, links, device, memory, told, edits, lives>>

\* The flag of a check that threw is kept.
EndWithFlag(t) == tick' = [tick EXCEPT ![t] = Idle] /\ UNCHANGED running
EndTick(t)     == tick' = [tick EXCEPT ![t] = Idle] /\ running' = FALSE

\* The query throws; runGuarded logs it and clears its flag.
TickFails(t) ==
  /\ tick[t].pc = "query"
  /\ EndTick(t)
  /\ Silent /\ UNCHANGED <<now, db, up, links, device, seenDue, seenMissed, lastReset, told, edits, lives>>

KeyOf(row) == <<row.lead, row.due>>
SeenIn(late) == IF late THEN seenMissed ELSE seenDue

\* Matching on the user alone, as before the branch was passed.
SendToAnySession(row) == {c \in clients : conn[c].user = row.owner}
SendTo(row) == {c \in clients : conn[c].user = row.owner /\ conn[c].org = OrgOf[row.lead]}

Skip(t) ==
  /\ tick[t].pc = "rows" /\ tick[t].rows # << >>
  /\ LET row == Head(tick[t].rows) IN KeyOf(row) \in SeenIn(row.due < now)
  /\ tick' = [tick EXCEPT ![t].rows = Tail(@)]
  /\ Silent /\ UNCHANGED <<now, db, up, links, device, memory, told, edits, lives>>

\* The live connections are written to; the push is asked for and awaited.
Tell(t) ==
  /\ tick[t].pc = "rows" /\ tick[t].rows # << >>
  /\ LET row  == Head(tick[t].rows)
         late == row.due < now
     IN  /\ KeyOf(row) \notin SeenIn(late)
         /\ tick' = [tick EXCEPT ![t].pc = "push", ![t].late = late]
         /\ told' = told \cup {[key |-> KeyOf(row), late |-> late, day |-> lastReset, life |-> lives]}
         /\ heard' = Reached(SendTo(row), row.lead)
  /\ UNCHANGED <<now, db, up, links, device, memory, edits, lives>>

Registered(row) == {d \in Devices : device[d] = <<row.owner, OrgOf[row.lead]>>}

\* The key is recorded whoever was reached.
Remember(t) ==
  LET key == KeyOf(Head(tick[t].rows)) IN
  IF tick[t].late THEN seenMissed' = seenMissed \cup {key} /\ UNCHANGED seenDue
  ELSE seenDue' = seenDue \cup {key} /\ UNCHANGED seenMissed

\* The push reaches some handsets; the push service has dropped others.
Pushed(t) ==
  /\ tick[t].pc = "push"
  /\ LET row == Head(tick[t].rows) IN
     \E pruned \in SUBSET Registered(row), sent \in SUBSET Registered(row) :
       /\ pruned \cap sent = {}
       /\ device' = [d \in Devices |-> IF d \in pruned THEN None ELSE device[d]]
       /\ heard' = {<<row.owner, OrgOf[row.lead], row.lead>> : d \in sent}
  /\ Remember(t)
  /\ tick' = [tick EXCEPT ![t].pc = "rows", ![t].rows = Tail(@)]
  /\ UNCHANGED <<now, db, up, links, lastReset, running, told, edits, lives>>

\* An unexpected throw is logged, and the row counts as told.
ThrowCaught(t) ==
  /\ Remember(t) /\ UNCHANGED <<lastReset, running>>
  /\ tick' = [tick EXCEPT ![t].pc = "rows", ![t].rows = Tail(@)]
\* Without the inner try the throw ends the check.
ThrowEndsTick(t) ==
  /\ EndTick(t)
  /\ UNCHANGED <<seenDue, seenMissed, lastReset>>
AfterThrow(t) == ThrowCaught(t)

PushThrows(t) ==
  /\ tick[t].pc = "push"
  /\ AfterThrow(t)
  /\ Silent /\ UNCHANGED <<now, db, up, links, device, told, edits, lives>>

TickDone(t) ==
  /\ tick[t].pc = "rows" /\ tick[t].rows = << >>
  /\ EndTick(t)
  /\ Silent /\ UNCHANGED <<now, db, up, links, device, seenDue, seenMissed, lastReset, told, edits, lives>>

-----------------------------------------------------------------------------
(* The process and the clock. *)

\* SIGTERM: the timer stops and the map is emptied; a check under way goes on.
Stop ==
  /\ up /\ lives < MaxRestarts
  /\ up' = FALSE /\ clients' = {}
  /\ Silent /\ UNCHANGED <<now, db, conn, device, memory, tick, told, edits, lives>>

\* The process is gone, stopped or crashed, and another one starts.
Restart ==
  /\ lives < MaxRestarts
  /\ lives' = lives + 1 /\ up' = TRUE
  /\ conn' = [c \in Conns |-> Closed] /\ clients' = {}
  /\ seenDue' = {} /\ seenMissed' = {} /\ lastReset' = None /\ running' = FALSE
  /\ tick' = [t \in Ticks |-> Idle]
  /\ wire' = << >>
  /\ Silent /\ UNCHANGED <<now, lead, device, told, edits>>

Pass ==
  /\ now < MaxClock
  /\ now' = now + 1
  /\ Silent /\ UNCHANGED <<db, up, links, device, memory, tick, told, edits, lives>>

Check(t) ==
  \/ TickStart(t) \/ TickQuery(t) \/ TickFails(t) \/ Skip(t) \/ Tell(t)
  \/ Pushed(t) \/ PushThrows(t) \/ TickDone(t)

Next ==
  \/ \E l \in Leads : Change(l)
  \/ Broadcast \/ Unlisten
  \/ \E c \in Conns : Ask(c) \/ LeaveEarly(c) \/ AddClient(c) \/ RankFails(c) \/ RemoveClient(c)
  \/ \E d \in Devices : Subscribe(d) \/ Unsubscribe(d)
  \/ \E t \in Ticks : Check(t)
  \/ Stop \/ Restart \/ Pass

\* The interval fires again and again, a check goes on, a stopped process is
\* started again, and the database does not refuse every query for ever.  The
\* clock need not move: any number of checks fits between two of its ticks.
Fairness ==
  /\ WF_vars(\E t \in Ticks : Check(t))
  /\ SF_vars(\E t \in Ticks : TickQuery(t))
  /\ WF_vars(~up /\ Restart)

Spec == Init /\ [][Next]_vars /\ Fairness

-----------------------------------------------------------------------------
(* Properties. *)

\* A life of the process pushes a lead's schedule at most once as due and once
\* as overdue on a day (the day the check began), whatever the push came to:
\* a check whose push is awaited is not overtaken by the next one
\* (followup-checker.ts:174-184 and 204-216).
OncePerDay ==
  [][\A t \in Ticks : (tick[t].pc = "rows" /\ tick'[t].pc = "push") =>
       [key |-> KeyOf(Head(tick[t].rows)), late |-> tick'[t].late, day |-> lastReset, life |-> lives]
         \notin told]_vars

\* Nobody hears, on a connection or a handset, of a lead of a branch other than
\* the one the session was opened in, administrators of the tenant or of the
\* platform excepted (manager.ts:98-108, followup-checker.ts:129-146).
OwnBranchOnly ==
  \A h \in heard :
    \/ h[2] = OrgOf[h[3]]
    \/ RoleOf[h[1]] = "super_admin"
    \/ RoleOf[h[1]] = "tenant_admin" /\ TenantOf[h[2]] = TenantOf[OrgOf[h[3]]]

Noticed(l) == \E day \in 0 .. Day(MaxClock), late \in BOOLEAN :
  [key |-> <<l, lead[l].due>>, late |-> late, day |-> day, life |-> lives] \in told

\* No more rows are due before it, or with it, than one query takes.
WithinCap(l) == Cardinality({k \in Leads : Due(k) /\ lead[k].due <= lead[l].due}) <= Cap

\* A follow-up that stays due among the first Cap is told, though the query may
\* fail now and then, other rows' pushes may always throw and the process may
\* restart; unless it changes, is overtaken or grows older than the lookback
\* (followup-checker.ts:102-105 and 166-172).
DueIsNoticed == \A l \in Leads : Due(l) /\ WithinCap(l) ~> ~(Due(l) /\ WithinCap(l)) \/ Noticed(l)

\* "older due follow-ups deferred to the next tick" (followup-checker.ts:189-196):
\* what is beyond the cap is told later.  It is not while the rows before it
\* stay in the window, where they are only skipped, and rows due at one time
\* leave it together; no run lists this, and the README tells how.
CutOffIsDeferred == \A l \in Leads : Due(l) ~> ~Due(l) \/ Noticed(l)
=============================================================================
