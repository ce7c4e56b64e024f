----------------------- MODULE CampaignMappingProofs -----------------------
(***************************************************************************)
(* CampaignMapping for every value of its constants: type correctness,     *)
(* that a confirmed mapping stands, that leads follow it, and that no lead *)
(* gets a type of another tenant.                                          *)
(***************************************************************************)
EXTENDS CampaignMapping, FiniteSetTheorems, SequenceTheorems, WellFoundedInduction, TLAPS

\* A lead is being typed: its resolution has begun and has not ended.
OnItsWay(j) == j.pc \in {"arrived", "read", "insert", "use", "scriptRead", "scriptInsert"}

\* The type invariant without the history.
MapType ==
    /\ camp \in [Campaigns -> Row \cup {Absent}]
    /\ rules \in [Tenants -> Seq(Rule)] /\ \A t \in Tenants : Len(rules[t]) <= MaxRules
    /\ live \subseteq AllTypes
    /\ page \in [Pages -> [Tenants -> Types \cup {Absent}]]
    /\ metaName \in [Campaigns -> Names]
    /\ cached \in [Campaigns -> Names \cup {None, Absent}]
    /\ DOMAIN job = Requests /\ \A q \in Requests : IsJob(job[q])
    /\ edits \in 0 .. MaxEdits
RuledType == ruled \in [Requests -> SUBSET Types]

\* A confirmed type is one of the tenant that owns the row.
ConfirmedIsOwn ==
    \A c \in Campaigns :
      camp[c] # Absent /\ camp[c].status = "confirmed" => camp[c].type \in TypesOf[camp[c].tenant]

\* The row a request has found is still there, and still its tenant's.
RowIsThere(q) ==
    /\ job[q].pc = "use" => camp[job[q].c] # Absent
    /\ job[q].pc = "confirming" => /\ camp[job[q].c] # Absent /\ camp[job[q].c].tenant = job[q].tenant
                                   /\ job[q].type \in TypesOf[job[q].tenant]

\* The history has the ruling that is in force.
IsWatched(q) == OnItsWay(job[q]) => Ruling(job[q].c, job[q].tenant, camp, live) \in ruled[q]

\* A request that found no row found no ruling; one that found a row while a
\* ruling was in force has it in what it read.
HasSeenRuling(q) ==
    /\ job[q].pc \in {"insert", "scriptInsert"} => None \in ruled[q]
    /\ job[q].pc = "use" /\ None \notin ruled[q] =>
         IsRuling(job[q]) /\ job[q].seen.row.type \in ruled[q] \cap TypesOf[job[q].tenant]

\* What the properties say of one request.
LandsWell(q) ==
    job[q].pc = "done" =>
      /\ job[q].type \in TypesOf[job[q].tenant] \cup {None}
      /\ job[q].via # "failed" /\ None \notin ruled[q] =>
           \/ job[q].type \in ruled[q]
           \/ /\ ~(ruled[q] \subseteq live)
              /\ \/ job[q].type = job[q].default /\ job[q].type # None
                 \/ job[q].type = DefaultOf[job[q].tenant] /\ ~Usable(job[q].tenant, job[q].default)

\* What a resolution hands to the intake is a ruling, if one was in force all
\* along; the scripts hand over no default.
TypedWell(q) ==
    job[q].pc = "typed" =>
      /\ job[q].via # "failed" /\ None \notin ruled[q] => job[q].type \in ruled[q] \cap TypesOf[job[q].tenant]
      /\ job[q].via = "script" => job[q].default = None

RequestInv(q) == RowIsThere(q) /\ HasSeenRuling(q) /\ LandsWell(q) /\ TypedWell(q)
MapInv ==
    /\ MapType /\ RuledType /\ ConfirmedIsOwn
    /\ \A q \in Requests : IsWatched(q) /\ RequestInv(q)

-----------------------------------------------------------------------------
(* What the operators return. *)

LEMMA MinIsMember ==
  ASSUME NEW S \in SUBSET Nat, S # {}
  PROVE  Min(S) \in S
<1> DEFINE R == OpToRel(<, Nat)
<1>1. IsWellFoundedOn(R, Nat)
  BY NatLessThanWellFounded
<1>2. \A x, y \in Nat : x < y => <<x, y>> \in R
  BY DEF OpToRel
<1> HIDE DEF R
<1>3. PICK x \in S : \A y \in S : ~(<<y, x>> \in R)
  BY <1>1, WFMin
<1>4. ASSUME NEW y \in S
      PROVE  x <= y
  <2>1. x \in Nat /\ y \in Nat /\ ~(y < x)
    BY <1>2, <1>3
  <2> QED
    BY <2>1
<1> QED
  BY <1>4 DEF Min

LEMMA OwnTypes ==
  ASSUME NEW t \in Tenants
  PROVE  TypesOf[t] \subseteq AllTypes /\ DefaultOf[t] \in TypesOf[t] /\ DefaultOf[t] \in Types
  BY MappingAssumption DEF AllTypes, Types

LEMMA MatchIsType ==
  ASSUME MapType, NEW t \in Tenants, NEW n, NEW ln
  PROVE  MatchRules(t, n, ln) \in Types
<1> DEFINE hits == {i \in DOMAIN rules[t] : Applies(rules[t][i], n, ln)}
<1>1. rules[t] \in Seq(Rule)
  BY DEF MapType
<1>2. hits \in SUBSET Nat /\ \A i \in hits : rules[t][i].type \in AllTypes
  <2>1. DOMAIN rules[t] = 1 .. Len(rules[t]) /\ Len(rules[t]) \in Nat
    BY <1>1, LenProperties
  <2>2. \A i \in 1 .. Len(rules[t]) : rules[t][i] \in Rule
    BY <1>1, ElementOfSeq
  <2> QED
    BY <2>1, <2>2 DEF Rule
<1>3. hits # {} => Min(hits) \in hits
  BY <1>2, MinIsMember
<1>4. MatchRules(t, n, ln) = IF hits = {} THEN None ELSE rules[t][Min(hits)].type
  BY DEF MatchRules
<1> HIDE DEF hits
<1> QED
  BY <1>2, <1>3, <1>4 DEF Types

LEMMA KeywordIsType ==
  ASSUME NEW t \in Tenants, NEW n \in Names \cup {None}
  PROVE  MatchKeyword(t, n) \in Types
  BY MappingAssumption, OwnTypes DEF MatchKeyword, IfLive, Types

LEMMA DefaultIsType ==
  ASSUME MapType, NEW p \in Pages, NEW t \in Tenants
  PROVE  FormDefault(p, t) \in Types
  BY DEF MapType, FormDefault, IfLive, Types

LEMMA LadderIsType ==
  ASSUME MapType, NEW t \in Tenants, NEW n, NEW ln, NEW default \in Types
  PROVE  Ladder(t, n, ln, default) \in Types
  BY MatchIsType, OwnTypes DEF Ladder

LEMMA StatusIsStatus ==
  ASSUME NEW s
  PROVE  StatusOf(s) \in Status /\ StatusOf(s) # "confirmed"
  BY DEF StatusOf, Status

LEMMA NewRowIsRow ==
  ASSUME NEW t \in Tenants, NEW n \in Names \cup {None}, NEW x \in Types, NEW s \in Types,
         NEW status \in {"unmapped", "suggested"}
  PROVE  /\ NewRow(t, n, x, s, status) \in Row
         /\ NewRow(t, n, x, s, status).tenant = t /\ NewRow(t, n, x, s, status).status = status
  BY DEF NewRow, Row, Status

-----------------------------------------------------------------------------
(* What a request carries. *)

LEMMA JobShape ==
  ASSUME NEW j, IsJob(j)
  PROVE  /\ OnItsWay(j) => j.c \in Campaigns /\ j.tenant \in Tenants
         /\ j.pc = "arrived" => j \in [pc : {"arrived"}, c : Campaigns, tenant : Tenants, page : Pages,
                                       name : Names \cup {None}, leadName : Names \cup {None}]
         /\ j.pc \in {"read", "insert"} =>
              j \in [pc : {"read", "insert"}, c : Campaigns, tenant : Tenants, default : Types,
                     name : Names \cup {None}, leadName : Names \cup {None}]
         /\ j.pc = "use" => j \in [pc : {"use"}, c : Campaigns, tenant : Tenants, default : Types,
                                   name : Names \cup {None}, leadName : Names \cup {None}, seen : Snapshot]
         /\ j.pc \in {"scriptRead", "scriptInsert"} =>
              j \in [pc : {"scriptRead", "scriptInsert"}, c : Campaigns, tenant : Tenants, default : Types]
         /\ j.pc \in {"typed", "done"} =>
              j \in [pc : {"typed", "done"}, via : {"service", "failed", "script"}, c : Campaigns, tenant : Tenants,
                     type : Types, default : Types]
         /\ j.pc = "listed" => j \in [pc : {"listed"}, c : Campaigns, name : Names, tenants : SUBSET Tenants,
                                      scope : Tenants \cup {None}]
         /\ j.pc = "scriptNamed" => j \in [pc : {"scriptNamed"}, c : Campaigns, tenant : Tenants, name : Names]
         /\ j.pc = "confirming" => j \in [pc : {"confirming"}, c : Campaigns, tenant : Tenants, type : AllTypes]
         /\ j.pc = "retiring" => j \in [pc : {"retiring"}, type : AllTypes]
  BY DEF IsJob, Idle, OnItsWay

LEMMA JobOf ==
  ASSUME MapType, NEW q \in Requests
  PROVE  IsJob(job[q])
  BY DEF MapType

-----------------------------------------------------------------------------
(* The history of rulings. *)

LEMMA RulingIsType ==
  ASSUME NEW rows \in [Campaigns -> Row \cup {Absent}], NEW c \in Campaigns, NEW t, NEW alive
  PROVE  Ruling(c, t, rows, alive) \in Types
  BY DEF Ruling, Row, Types

\* How the job of a request may move: it arrives, it goes on with its campaign
\* and its tenant, or it is not on its way any more.
Moves(j, k) ==
    \/ k = j
    \/ j = Idle /\ k.pc \in {"arrived", "scriptRead"}
    \/ OnItsWay(j) /\ OnItsWay(k) /\ k.c = j.c /\ k.tenant = j.tenant
    \/ ~OnItsWay(k)

\* What Watch writes for one request.
LEMMA WatchOf ==
  ASSUME Watch, NEW q \in Requests
  PROVE  ruled'[q] = IF job'[q].pc \in {"arrived", "scriptRead"} /\ job[q] = Idle
                     THEN {Ruling(job'[q].c, job'[q].tenant, camp', live')}
                     ELSE IF OnItsWay(job[q])
                     THEN ruled[q] \cup {Ruling(job[q].c, job[q].tenant, camp', live')}
                     ELSE ruled[q]
  BY DEF Watch, OnItsWay

LEMMA HistoryKeeps ==
  ASSUME MapType, MapType', RuledType, Watch, \A q \in Requests : Moves(job[q], job'[q])
  PROVE  RuledType' /\ \A q \in Requests : IsWatched(q)'
<1>1. ASSUME NEW q \in Requests
      PROVE  ruled'[q] \subseteq Types /\ IsWatched(q)'
  <2>1. IsJob(job[q]) /\ IsJob(job'[q])
    BY DEF MapType
  <2>2. ruled[q] \subseteq Types /\ camp' \in [Campaigns -> Row \cup {Absent}]
    BY DEF RuledType, MapType
  <2>3. OnItsWay(job[q]) => Ruling(job[q].c, job[q].tenant, camp', live') \in Types
    BY <2>1, <2>2, JobShape, RulingIsType
  <2>4. OnItsWay(job'[q]) => Ruling(job'[q].c, job'[q].tenant, camp', live') \in Types
    BY <2>1, <2>2, JobShape, RulingIsType
  <2>5. job'[q].pc \in {"arrived", "scriptRead"} => OnItsWay(job'[q])
    BY DEF OnItsWay
  <2>6. ruled'[q] \subseteq Types
    BY <2>2, <2>3, <2>4, <2>5, WatchOf
  <2>7. ~OnItsWay(Idle)
    BY DEF OnItsWay, Idle
  <2>8. OnItsWay(job'[q]) => Ruling(job'[q].c, job'[q].tenant, camp', live') \in ruled'[q]
    BY <2>7, WatchOf DEF Moves
  <2> QED
    BY <2>6, <2>8 DEF IsWatched, Ruling, OnItsWay
<1>2. ruled' = [q \in Requests |-> ruled'[q]]
  BY DEF Watch
<1> QED
  BY <1>1, <1>2 DEF RuledType

\* The rows and the live types as every step but a request's own finds them.
RowsStay ==
    /\ \A c \in Campaigns : camp[c] # Absent => camp'[c] # Absent /\ camp'[c].tenant = camp[c].tenant
    /\ live' \subseteq live

\* A request that does not move keeps what is said of it.
LEMMA OthersKeep ==
  ASSUME MapInv, Watch, RowsStay, NEW r \in Requests, job'[r] = job[r]
  PROVE  RequestInv(r)'
<1>1. IsJob(job[r]) /\ RequestInv(r)
  BY DEF MapInv, MapType
<1>2. ruled[r] \subseteq ruled'[r] /\ (~OnItsWay(job[r]) => ruled'[r] = ruled[r])
  <2>1. ~OnItsWay(Idle) /\ Idle.pc \notin {"arrived", "scriptRead"}
    BY DEF OnItsWay, Idle
  <2> QED
    BY <2>1, WatchOf DEF OnItsWay
<1>3. RowIsThere(r)'
  BY <1>1, JobShape DEF RequestInv, RowIsThere, RowsStay, OnItsWay
<1>4. HasSeenRuling(r)'
  BY <1>1, <1>2 DEF RequestInv, HasSeenRuling, IsRuling
<1>5. LandsWell(r)' /\ TypedWell(r)'
  <2>1. job[r].pc \in {"typed", "done"} => ~OnItsWay(job[r])
    BY DEF OnItsWay
  <2> QED
    BY <1>1, <1>2, <2>1 DEF RequestInv, LandsWell, TypedWell, RowsStay, Usable
<1> QED
  BY <1>3, <1>4, <1>5 DEF RequestInv

\* A step of one request, or of nobody.
LEMMA StepKeeps ==
  ASSUME MapInv, Watch, MapType', ConfirmedIsOwn', RowsStay,
         NEW q \in Requests, \A r \in Requests \ {q} : job'[r] = job[r],
         Moves(job[q], job'[q]), RequestInv(q)'
  PROVE  MapInv'
<1>1. \A r \in Requests : Moves(job[r], job'[r])
  BY DEF Moves
<1>2. RuledType' /\ \A r \in Requests : IsWatched(r)'
  BY <1>1, HistoryKeeps DEF MapInv
<1>3. ASSUME NEW r \in Requests
      PROVE  RequestInv(r)'
  BY <1>3, OthersKeep
<1> QED
  BY <1>2, <1>3 DEF MapInv

LEMMA EditKeeps ==
  ASSUME MapInv, Watch, MapType', ConfirmedIsOwn', RowsStay, job' = job
  PROVE  MapInv'
<1>1. \A r \in Requests : Moves(job[r], job'[r])
  BY DEF Moves
<1>2. RuledType' /\ \A r \in Requests : IsWatched(r)'
  BY <1>1, HistoryKeeps DEF MapInv
<1> QED
  BY <1>2, OthersKeep DEF MapInv

-----------------------------------------------------------------------------
(* A step writes a job and at most one row. *)

LEMMA NowSets ==
  ASSUME MapType, NEW q \in Requests, NEW k, IsJob(k), Now(q, k)
  PROVE  /\ job'[q] = k /\ \A r \in Requests \ {q} : job'[r] = job[r]
         /\ DOMAIN job' = Requests /\ \A r \in Requests : IsJob(job'[r])
<1>1. job'[q] = k /\ (\A r \in Requests \ {q} : job'[r] = job[r]) /\ DOMAIN job' = Requests
  BY DEF MapType, Now
<1>2. ASSUME NEW r \in Requests
      PROVE  IsJob(job'[r])
  <2>1. CASE r = q
    BY <1>1, <2>1
  <2>2. CASE r # q
    BY <1>1, <2>2, JobOf
  <2> QED
    BY <2>1, <2>2
<1> QED
  BY <1>1, <1>2

LEMMA JobStep ==
  ASSUME MapInv, Watch, NEW q \in Requests, NEW k, IsJob(k), Now(q, k), Moves(job[q], k),
         cached' \in [Campaigns -> Names \cup {None, Absent}],
         UNCHANGED <<camp, rules, live, page, metaName, edits>>,
         RequestInv(q)'
  PROVE  MapInv'
<1>1. /\ job'[q] = k /\ \A r \in Requests \ {q} : job'[r] = job[r]
      /\ DOMAIN job' = Requests /\ \A r \in Requests : IsJob(job'[r])
  BY NowSets DEF MapInv
<1>2. MapType'
  BY <1>1 DEF MapInv, MapType
<1>3. ConfirmedIsOwn' /\ RowsStay
  BY DEF MapInv, ConfirmedIsOwn, RowsStay
<1> QED
  BY <1>1, <1>2, <1>3, StepKeeps

\* What a row may become.
Becomes(old, new) ==
    /\ new \in Row \cup {Absent}
    /\ old # Absent => new # Absent /\ new.tenant = old.tenant
    /\ new # Absent /\ new.status = "confirmed" => new.type \in TypesOf[new.tenant]

LEMMA PutKeeps ==
  ASSUME MapType, ConfirmedIsOwn, NEW c \in Campaigns, NEW row, Put(c, row), Becomes(camp[c], row), live' \subseteq live
  PROVE  /\ camp' \in [Campaigns -> Row \cup {Absent}] /\ camp'[c] = row
         /\ ConfirmedIsOwn' /\ RowsStay
  BY DEF MapType, Put, Becomes, ConfirmedIsOwn, RowsStay

LEMMA RowStep ==
  ASSUME MapInv, Watch, NEW q \in Requests, NEW k, IsJob(k), Now(q, k), ~OnItsWay(k),
         NEW c \in Campaigns, NEW row, Put(c, row), Becomes(camp[c], row),
         rules' \in [Tenants -> Seq(Rule)], \A t \in Tenants : Len(rules'[t]) <= MaxRules,
         UNCHANGED <<live, page, metaName, cached, edits>>, RequestInv(q)'
  PROVE  MapInv'
<1>1. /\ job'[q] = k /\ \A r \in Requests \ {q} : job'[r] = job[r]
      /\ DOMAIN job' = Requests /\ \A r \in Requests : IsJob(job'[r])
  BY NowSets DEF MapInv
<1>2. camp' \in [Campaigns -> Row \cup {Absent}] /\ ConfirmedIsOwn' /\ RowsStay
  BY PutKeeps DEF MapInv
<1>3. MapType'
  BY <1>1, <1>2 DEF MapInv, MapType
<1> QED
  BY <1>1, <1>2, <1>3, StepKeeps DEF Moves

\* A request that has ended has nothing left to answer for.
LEMMA EndedIsFine ==
  ASSUME MapType, NEW q \in Requests, End(q)
  PROVE  /\ IsJob([pc |-> "ended"]) /\ ~OnItsWay([pc |-> "ended"])
         /\ Now(q, [pc |-> "ended"]) /\ RequestInv(q)'
<1>1. IsJob([pc |-> "ended"])
  BY DEF IsJob
<1>2. job'[q] = [pc |-> "ended"]
  BY <1>1, NowSets DEF End
<1> QED
  BY <1>1, <1>2 DEF End, OnItsWay, RequestInv, RowIsThere, HasSeenRuling, LandsWell, TypedWell

\* A lead is typed.
LEMMA TypedIsFine ==
  ASSUME MapType, NEW q \in Requests, NEW via \in {"service", "failed", "script"},
         NEW c \in Campaigns, NEW t \in Tenants, NEW x \in Types, NEW d \in Types, Typed(q, via, c, t, x, d),
         via = "script" => d = None,
         via # "failed" /\ None \notin ruled'[q] => x \in ruled'[q] \cap TypesOf[t]
  PROVE  LET k == [pc |-> "typed", via |-> via, c |-> c, tenant |-> t, type |-> x, default |-> d]
         IN  IsJob(k) /\ ~OnItsWay(k) /\ Now(q, k) /\ RequestInv(q)'
<1> DEFINE k == [pc |-> "typed", via |-> via, c |-> c, tenant |-> t, type |-> x, default |-> d]
<1>1. IsJob(k) /\ Now(q, k)
  BY DEF IsJob, Typed
<1>2. job'[q] = k
  BY <1>1, NowSets
<1> QED
  BY <1>1, <1>2 DEF OnItsWay, RequestInv, RowIsThere, HasSeenRuling, LandsWell, TypedWell

-----------------------------------------------------------------------------
(* A lead through the services. *)

LEMMA ArriveKeeps ==
  ASSUME MapInv, Watch, NEW q \in Requests, NEW c \in Campaigns, NEW p \in Pages, NEW t \in Tenants, Arrive(q, c, p, t)
  PROVE  MapInv'
<1>1. PICK n, ln :
        /\ n \in IF CampaignIsUnknown(c) THEN Lookups(c) ELSE {None}
        /\ ln \in LeadNames(t)
        /\ cached' = IF CampaignIsUnknown(c) THEN [cached EXCEPT ![c] = n] ELSE cached
        /\ Now(q, [pc |-> "arrived", c |-> c, tenant |-> t, page |-> p, name |-> n, leadName |-> ln])
  BY DEF Arrive
<1>2. n \in Names \cup {None} /\ ln \in Names \cup {None}
  BY <1>1 DEF MapInv, MapType, Lookups, LeadNames
<1> DEFINE k == [pc |-> "arrived", c |-> c, tenant |-> t, page |-> p, name |-> n, leadName |-> ln]
<1>3. IsJob(k) /\ k.pc = "arrived"
  BY <1>2 DEF IsJob
<1>4. job'[q] = k
  BY <1>1, <1>3, NowSets DEF MapInv
<1>5. RequestInv(q)'
  BY <1>3, <1>4 DEF RequestInv, RowIsThere, HasSeenRuling, LandsWell, TypedWell
<1>6. cached' \in [Campaigns -> Names \cup {None, Absent}]
  BY <1>1, <1>2 DEF MapInv, MapType
<1>7. job[q] = Idle /\ UNCHANGED <<camp, rules, live, page, metaName, edits>>
  BY DEF Arrive
<1> HIDE DEF k
<1> QED
  BY <1>1, <1>3, <1>5, <1>6, <1>7, JobStep DEF Moves, k

LEMMA ReadDefaultKeeps ==
  ASSUME MapInv, Watch, NEW q \in Requests, ReadDefault(q)
  PROVE  MapInv'
<1>1. PICK j : j = job[q]
  OBVIOUS
<1>2. j \in [pc : {"arrived"}, c : Campaigns, tenant : Tenants, page : Pages,
             name : Names \cup {None}, leadName : Names \cup {None}]
  BY <1>1, JobOf, JobShape DEF ReadDefault, MapInv
<1>3. PICK k : k = [pc |-> "read", c |-> j.c, tenant |-> j.tenant, name |-> j.name,
                    leadName |-> j.leadName, default |-> FormDefault(j.page, j.tenant)]
  OBVIOUS
<1>4. FormDefault(j.page, j.tenant) \in Types
  BY <1>2, DefaultIsType DEF MapInv
<1>5. IsJob(k) /\ k.pc = "read" /\ k.c = j.c /\ k.tenant = j.tenant
  BY <1>2, <1>3, <1>4 DEF IsJob
<1>6. Now(q, k)
  BY <1>1, <1>3 DEF ReadDefault
<1>7. job'[q] = k
  BY <1>5, <1>6, NowSets DEF MapInv
<1>8. RequestInv(q)'
  BY <1>5, <1>7 DEF RequestInv, RowIsThere, HasSeenRuling, LandsWell, TypedWell
<1>9. Moves(job[q], k)
  BY <1>1, <1>2, <1>5 DEF Moves, OnItsWay
<1> QED
  BY <1>5, <1>6, <1>8, <1>9, JobStep DEF ReadDefault, MapInv, MapType

\* The ruling in force when the row is read is in the history, before and after.
LEMMA RulingIsRead ==
  ASSUME MapInv, Watch, NEW q \in Requests, OnItsWay(job[q])
  PROVE  /\ ruled[q] \subseteq ruled'[q]
         /\ Ruling(job[q].c, job[q].tenant, camp, live) \in ruled'[q]
<1>1. job[q] # Idle
  BY DEF OnItsWay, Idle
<1>2. ruled[q] \subseteq ruled'[q]
  BY <1>1, WatchOf
<1> QED
  BY <1>2 DEF MapInv, IsWatched

\* No ruling without a row, and a ruling is the type of a confirmed row.
LEMMA RulingIsTheRow ==
  ASSUME MapInv, NEW c \in Campaigns, NEW t \in Tenants
  PROVE  /\ camp[c] = Absent => Ruling(c, t, camp, live) = None
         /\ Ruling(c, t, camp, live) # None =>
              /\ camp[c] # Absent /\ camp[c].tenant = t /\ camp[c].status = "confirmed"
              /\ camp[c].type \in live /\ camp[c].type \in TypesOf[t] /\ Ruling(c, t, camp, live) = camp[c].type
  BY DEF Ruling, MapInv, ConfirmedIsOwn

LEMMA ReadRowKeeps ==
  ASSUME MapInv, Watch, NEW q \in Requests, ReadRow(q)
  PROVE  MapInv'
<1>1. PICK j : j = job[q]
  OBVIOUS
<1>2. /\ j \in [pc : {"read", "insert"}, c : Campaigns, tenant : Tenants, default : Types,
                name : Names \cup {None}, leadName : Names \cup {None}]
      /\ j.pc = "read" /\ OnItsWay(j)
  BY <1>1, JobOf, JobShape DEF ReadRow, MapInv, OnItsWay
<1>3. PICK row : row = camp[j.c] /\ row \in Row \cup {Absent}
  BY <1>2 DEF MapInv, MapType
<1>4. Ruling(j.c, j.tenant, camp, live) \in ruled'[q]
  BY <1>1, <1>2, RulingIsRead
<1>5. CASE row = Absent
  <2>1. PICK k : k = [j EXCEPT !.pc = "insert"]
    OBVIOUS
  <2>2. IsJob(k) /\ k.pc = "insert" /\ k.c = j.c /\ k.tenant = j.tenant
    BY <1>2, <2>1 DEF IsJob
  <2>3. Now(q, k)
    BY <1>1, <1>3, <1>5, <2>1 DEF ReadRow
  <2>4. job'[q] = k
    BY <2>2, <2>3, NowSets DEF MapInv
  <2>5. None \in ruled'[q]
    <3>1. Ruling(j.c, j.tenant, camp, live) = None
      BY <1>2, <1>3, <1>5, RulingIsTheRow
    <3> QED
      BY <1>4, <3>1
  <2>6. RequestInv(q)'
    BY <2>2, <2>4, <2>5 DEF RequestInv, RowIsThere, HasSeenRuling, LandsWell, TypedWell
  <2>7. Moves(job[q], k)
    BY <1>1, <1>2, <2>2 DEF Moves, OnItsWay
  <2> QED
    BY <2>2, <2>3, <2>6, <2>7, JobStep DEF ReadRow, MapInv, MapType
<1>6. CASE row # Absent
  <2>1. PICK alive \in BOOLEAN : alive = (row.type \in live)
    <3>1. (row.type \in live) \in BOOLEAN
      OBVIOUS
    <3> WITNESS (row.type \in live) \in BOOLEAN
    <3> QED
      OBVIOUS
  <2>2. PICK k : k = [pc |-> "use", c |-> j.c, tenant |-> j.tenant, default |-> j.default, name |-> j.name,
                      leadName |-> j.leadName, seen |-> [row |-> row, typeIsLive |-> alive]]
    OBVIOUS
  <2>3. /\ IsJob(k) /\ k.pc = "use" /\ k.c = j.c /\ k.tenant = j.tenant
        /\ k.seen.row = row /\ k.seen.typeIsLive = alive
    BY <1>2, <1>3, <1>6, <2>2 DEF IsJob, Snapshot
  <2>4. Now(q, k)
    BY <1>1, <1>3, <1>6, <2>1, <2>2 DEF ReadRow
  <2>5. job'[q] = k /\ camp' = camp
    BY <2>3, <2>4, NowSets DEF MapInv, ReadRow
  <2>6. None \notin ruled'[q] => /\ IsRuling(k) /\ row.type \in ruled'[q] \cap TypesOf[k.tenant]
    <3>1. None \notin ruled'[q] =>
            /\ row.tenant = j.tenant /\ row.status = "confirmed" /\ row.type \in live
            /\ row.type \in ruled'[q] \cap TypesOf[j.tenant]
      BY <1>2, <1>3, <1>4, RulingIsTheRow
    <3>2. row.type \in live => alive
      BY <2>1, Zenon
    <3>3. row.type \in live => k.seen.typeIsLive
      BY <3>2, <2>3, Zenon
    <3> QED
      BY <3>1, <3>3, <2>3 DEF IsRuling
  <2>7. RequestInv(q)'
    BY <1>3, <1>6, <2>3, <2>5, <2>6 DEF RequestInv, RowIsThere, HasSeenRuling, LandsWell, TypedWell, IsRuling
  <2>8. Moves(job[q], k)
    BY <1>1, <1>2, <2>3 DEF Moves, OnItsWay
  <2> QED
    BY <2>3, <2>4, <2>7, <2>8, JobStep DEF ReadRow, MapInv, MapType
<1> QED
  BY <1>5, <1>6

LEMMA InsertRowKeeps ==
  ASSUME MapInv, Watch, NEW q \in Requests, InsertRow(q)
  PROVE  MapInv'
<1>1. PICK j : j = job[q]
  OBVIOUS
<1>2. /\ j \in [pc : {"read", "insert"}, c : Campaigns, tenant : Tenants, default : Types,
                name : Names \cup {None}, leadName : Names \cup {None}]
      /\ j.pc = "insert" /\ OnItsWay(j)
  BY <1>1, JobOf, JobShape DEF InsertRow, MapInv, OnItsWay
<1>3. None \in ruled'[q]
  BY <1>1, <1>2, RulingIsRead DEF MapInv, RequestInv, HasSeenRuling
<1>4. UNCHANGED <<rules, live, page, metaName, cached, edits>>
  BY DEF InsertRow
<1>5. CASE camp[j.c] = Absent
  <2>1. PICK s \in Types : s = Suggestion(j.tenant, j.name)
    BY <1>2, MatchIsType DEF Suggestion, MapInv
  <2>2. PICK row : row = NewRow(j.tenant, j.name, None, s, StatusOf(s))
    OBVIOUS
  <2>3. StatusOf(s) \in {"unmapped", "suggested"} /\ None \in Types
    BY DEF StatusOf, Types
  <2>4. row \in Row /\ row.status # "confirmed"
    BY <1>2, <2>2, <2>3, NewRowIsRow
  <2>5. PICK x : x = Ladder(j.tenant, j.name, j.leadName, j.default)
    OBVIOUS
  <2>6. x \in Types
    BY <1>2, <2>5, LadderIsType DEF MapInv
  <2>7. Put(j.c, row) /\ Typed(q, "service", j.c, j.tenant, x, j.default)
    BY <1>1, <1>5, <2>1, <2>2, <2>5, Zenon DEF InsertRow
  <2>8. PICK k : IsJob(k) /\ ~OnItsWay(k) /\ Now(q, k) /\ RequestInv(q)'
    <3>1. MapType /\ j.c \in Campaigns /\ j.tenant \in Tenants /\ j.default \in Types
      BY <1>2 DEF MapInv
    <3> QED
      BY <1>3, <2>6, <2>7, <3>1, TypedIsFine
  <2>9. Becomes(camp[j.c], row)
    BY <1>5, <2>4, RowAssumption DEF Becomes
  <2> QED
    BY <1>2, <1>4, <2>7, <2>8, <2>9, RowStep DEF MapInv, MapType
<1>6. CASE camp[j.c] # Absent
  <2>1. PICK k : k = [j EXCEPT !.pc = "read"]
    OBVIOUS
  <2>2. IsJob(k) /\ k.pc = "read" /\ k.c = j.c /\ k.tenant = j.tenant
    BY <1>2, <2>1 DEF IsJob
  <2>3. Now(q, k) /\ camp' = camp
    BY <1>1, <1>6, <2>1 DEF InsertRow
  <2>4. job'[q] = k
    BY <2>2, <2>3, NowSets DEF MapInv
  <2>5. RequestInv(q)'
    BY <2>2, <2>4 DEF RequestInv, RowIsThere, HasSeenRuling, LandsWell, TypedWell
  <2>6. Moves(job[q], k)
    BY <1>1, <1>2, <2>2 DEF Moves, OnItsWay
  <2> QED
    BY <1>4, <2>2, <2>3, <2>5, <2>6, JobStep DEF MapInv, MapType
<1> QED
  BY <1>5, <1>6

LEMMA NamedKeeps ==
  ASSUME MapType, NEW row \in Row, NEW t \in Tenants, NEW j, j.tenant = t, j.name \in Names \cup {None}
  PROVE  /\ Named(row, j) \in Row /\ Named(row, j).tenant = row.tenant
         /\ Named(row, j).type = row.type
         /\ Named(row, j).status = "confirmed" => row.status = "confirmed"
<1>1. ASSUME NEW n \in Names \cup {None}, NEW r \in Row, r.tenant = row.tenant, r.type = row.type,
             r.status = "confirmed" => row.status = "confirmed"
      PROVE  LET new == RefreshSuggestion(r, t, n)
             IN  /\ new \in Row /\ new.tenant = row.tenant /\ new.type = row.type
                 /\ new.status = "confirmed" => row.status = "confirmed"
  <2>1. Suggestion(t, n) \in Types
    BY MatchIsType DEF Suggestion
  <2>2. StatusOf(Suggestion(t, n)) \in Status /\ StatusOf(Suggestion(t, n)) # "confirmed"
    BY StatusIsStatus
  <2> QED
    BY <1>1, <2>1, <2>2 DEF RefreshSuggestion, Row
<1>2. ASSUME NEW n \in Names
      PROVE  /\ WithName(row, n) \in Row /\ WithName(row, n).tenant = row.tenant
             /\ WithName(row, n).type = row.type /\ WithName(row, n).status = row.status
  BY DEF WithName, Row
<1>3. CASE j.name = None \/ j.seen.row.name # None
  BY <1>3 DEF Named
<1>4. CASE j.name # None /\ j.seen.row.name = None
  <2>1. j.name \in Names
    BY <1>4
  <2>2. CASE j.seen.row.status = "confirmed"
    BY <1>2, <1>4, <2>1, <2>2 DEF Named
  <2>3. CASE j.seen.row.status # "confirmed"
    <3>1. Named(row, j) = RefreshSuggestion(WithName(row, j.name), t, j.name)
      BY <1>4, <2>3 DEF Named
    <3> QED
      BY <1>1, <1>2, <2>1, <3>1
  <2> QED
    BY <2>2, <2>3
<1> QED
  BY <1>3, <1>4

LEMMA UseRowKeeps ==
  ASSUME MapInv, Watch, NEW q \in Requests, UseRow(q)
  PROVE  MapInv'
<1>1. PICK j : j = job[q]
  OBVIOUS
<1>2. /\ j \in [pc : {"use"}, c : Campaigns, tenant : Tenants, default : Types,
                name : Names \cup {None}, leadName : Names \cup {None}, seen : Snapshot]
      /\ j.pc = "use" /\ OnItsWay(j)
  BY <1>1, JobOf, JobShape DEF UseRow, MapInv, OnItsWay
<1>3. PICK row \in Row : row = camp[j.c]
  BY <1>1, <1>2 DEF MapInv, MapType, RequestInv, RowIsThere
<1>4. PICK new : new = IF j.seen.row.tenant # j.tenant THEN [row EXCEPT !.conflict = TRUE] ELSE Named(row, j)
  OBVIOUS
<1>5. PICK x : x = Resolved(j)
  OBVIOUS
<1>6. Put(j.c, new) /\ Typed(q, "service", j.c, j.tenant, x, j.default) /\ UNCHANGED <<rules, live, page, metaName, cached, edits>>
  BY <1>1, <1>3, <1>4, <1>5, Zenon DEF UseRow
<1>7. Becomes(camp[j.c], new)
  <2>1. /\ new \in Row /\ new.tenant = row.tenant /\ new.type = row.type
        /\ new.status = "confirmed" => row.status = "confirmed"
    <3>1. CASE j.seen.row.tenant # j.tenant
      BY <1>4, <3>1 DEF Row
    <3>2. CASE j.seen.row.tenant = j.tenant
      BY <1>2, <1>4, <3>2, NamedKeeps DEF MapInv
    <3> QED
      BY <3>1, <3>2
  <2> QED
    BY <1>2, <1>3, <2>1, RowAssumption DEF Becomes, MapInv, ConfirmedIsOwn
<1>8. x \in Types
  BY <1>2, <1>5, LadderIsType DEF MapInv, Resolved, Snapshot, Row
<1>9. ASSUME None \notin ruled'[q]
      PROVE  x \in ruled'[q] \cap TypesOf[j.tenant]
  <2>1. ruled[q] \subseteq ruled'[q]
    BY <1>1, <1>2, RulingIsRead
  <2>2. IsRuling(j) /\ j.seen.row.type \in ruled'[q] \cap TypesOf[j.tenant]
    BY <1>1, <1>2, <1>9, <2>1 DEF MapInv, RequestInv, HasSeenRuling
  <2> QED
    BY <1>5, <2>2 DEF Resolved
<1>10. PICK k : IsJob(k) /\ ~OnItsWay(k) /\ Now(q, k) /\ RequestInv(q)'
  <2>1. MapType /\ j.c \in Campaigns /\ j.tenant \in Tenants /\ j.default \in Types
    BY <1>2 DEF MapInv
  <2> QED
    BY <1>6, <1>8, <1>9, <2>1, TypedIsFine
<1> QED
  BY <1>2, <1>6, <1>7, <1>10, RowStep DEF MapInv, MapType

LEMMA ResolutionFailsKeeps ==
  ASSUME MapInv, Watch, NEW q \in Requests, ResolutionFails(q)
  PROVE  MapInv'
<1>1. PICK c \in Campaigns, t \in Tenants : c = job[q].c /\ t = job[q].tenant
  BY JobOf, JobShape DEF ResolutionFails, MapInv, OnItsWay
<1>2. Typed(q, "failed", c, t, None, None)
  BY <1>1 DEF ResolutionFails
<1>3. None \in Types
  BY DEF Types
<1>4. MapType
  BY DEF MapInv
<1>5. PICK k : IsJob(k) /\ ~OnItsWay(k) /\ Now(q, k) /\ RequestInv(q)'
  BY <1>2, <1>3, <1>4, TypedIsFine
<1> QED
  BY <1>5, JobStep DEF ResolutionFails, MapInv, MapType, Moves

-----------------------------------------------------------------------------
(* A lead through the scripts. *)

LEMMA ScriptArriveKeeps ==
  ASSUME MapInv, Watch, NEW q \in Requests, NEW c \in Campaigns, NEW p \in Pages, NEW t \in Tenants,
         ScriptArrive(q, c, p, t)
  PROVE  MapInv'
<1>1. PICK k : k = [pc |-> "scriptRead", c |-> c, tenant |-> t, default |-> FormDefault(p, t)]
  OBVIOUS
<1>2. FormDefault(p, t) \in Types
  BY DefaultIsType DEF MapInv
<1>3. IsJob(k) /\ k.pc = "scriptRead"
  BY <1>1, <1>2 DEF IsJob
<1>4. Now(q, k) /\ job[q] = Idle
  BY <1>1 DEF ScriptArrive
<1>5. job'[q] = k
  BY <1>3, <1>4, NowSets DEF MapInv
<1>6. RequestInv(q)'
  BY <1>3, <1>5 DEF RequestInv, RowIsThere, HasSeenRuling, LandsWell, TypedWell
<1>7. Moves(job[q], k)
  BY <1>3, <1>4 DEF Moves
<1> QED
  BY <1>3, <1>4, <1>6, <1>7, JobStep DEF ScriptArrive, MapInv, MapType

LEMMA ScriptReadKeeps ==
  ASSUME MapInv, Watch, NEW q \in Requests, ScriptRead(q)
  PROVE  MapInv'
<1>1. PICK j : j = job[q]
  OBVIOUS
<1>2. /\ j \in [pc : {"scriptRead", "scriptInsert"}, c : Campaigns, tenant : Tenants, default : Types]
      /\ j.pc = "scriptRead" /\ OnItsWay(j)
  BY <1>1, JobOf, JobShape DEF ScriptRead, MapInv, OnItsWay
<1>3. Ruling(j.c, j.tenant, camp, live) \in ruled'[q]
  BY <1>1, <1>2, RulingIsRead
<1>4. CASE camp[j.c] = Absent
  <2>1. PICK k : k = [j EXCEPT !.pc = "scriptInsert"]
    OBVIOUS
  <2>2. IsJob(k) /\ k.pc = "scriptInsert" /\ k.c = j.c /\ k.tenant = j.tenant
    BY <1>2, <2>1 DEF IsJob
  <2>3. Now(q, k)
    BY <1>1, <1>4, <2>1 DEF ScriptRead
  <2>4. job'[q] = k
    BY <2>2, <2>3, NowSets DEF MapInv
  <2>5. None \in ruled'[q]
    <3>1. Ruling(j.c, j.tenant, camp, live) = None
      BY <1>2, <1>4, RulingIsTheRow
    <3> QED
      BY <1>3, <3>1
  <2>6. RequestInv(q)'
    BY <2>2, <2>4, <2>5 DEF RequestInv, RowIsThere, HasSeenRuling, LandsWell, TypedWell
  <2>7. Moves(job[q], k)
    BY <1>1, <1>2, <2>2 DEF Moves, OnItsWay
  <2> QED
    BY <2>2, <2>3, <2>6, <2>7, JobStep DEF ScriptRead, MapInv, MapType
<1>5. CASE camp[j.c] # Absent
  <2>1. PICK x : x = ScriptHitType(j, camp[j.c])
    OBVIOUS
  <2>2. x \in Types /\ None \in Types
    BY <1>2, <1>5, <2>1, OwnTypes DEF MapInv, MapType, ScriptHitType, ScriptFallback, Row, Types
  <2>3. Typed(q, "script", j.c, j.tenant, x, None)
    BY <1>1, <1>5, <2>1 DEF ScriptRead
  <2>4. ASSUME None \notin ruled'[q]
        PROVE  x \in ruled'[q] \cap TypesOf[j.tenant]
    <3>1. /\ camp[j.c].tenant = j.tenant /\ camp[j.c].type \in live \cap TypesOf[j.tenant]
          /\ camp[j.c].type \in ruled'[q]
      BY <1>2, <1>3, <2>4, RulingIsTheRow
    <3> QED
      BY <2>1, <3>1 DEF ScriptHitType
  <2>5. PICK k : IsJob(k) /\ ~OnItsWay(k) /\ Now(q, k) /\ RequestInv(q)'
    <3>1. MapType /\ j.c \in Campaigns /\ j.tenant \in Tenants
      BY <1>2 DEF MapInv
    <3> QED
      BY <2>2, <2>3, <2>4, <3>1, TypedIsFine
  <2> QED
    BY <2>5, JobStep DEF ScriptRead, MapInv, MapType, Moves
<1> QED
  BY <1>4, <1>5

LEMMA ScriptInsertKeeps ==
  ASSUME MapInv, Watch, NEW q \in Requests, ScriptInsert(q)
  PROVE  MapInv'
<1>1. PICK j : j = job[q]
  OBVIOUS
<1>2. /\ j \in [pc : {"scriptRead", "scriptInsert"}, c : Campaigns, tenant : Tenants, default : Types]
      /\ j.pc = "scriptInsert" /\ OnItsWay(j)
  BY <1>1, JobOf, JobShape DEF ScriptInsert, MapInv, OnItsWay
<1>3. None \in ruled'[q]
  BY <1>1, <1>2, RulingIsRead DEF MapInv, RequestInv, HasSeenRuling
<1>4. MapType /\ j.c \in Campaigns /\ j.tenant \in Tenants
  BY <1>2 DEF MapInv
<1>5. UNCHANGED <<rules, live, page, metaName, cached, edits>>
  BY DEF ScriptInsert
<1>6. PICK x : Typed(q, "script", j.c, j.tenant, x, None) /\ x \in Types
  <2>1. ScriptFallback(j) \in Types
    BY <1>2, OwnTypes DEF ScriptFallback, Types
  <2>2. CASE camp[j.c] = Absent
    BY <1>1, <2>1, <2>2 DEF ScriptInsert
  <2>3. CASE camp[j.c] # Absent
    <3>1. PICK y : y = IF camp[j.c].tenant = j.tenant THEN camp[j.c].type ELSE ScriptFallback(j)
      OBVIOUS
    <3>2. Typed(q, "script", j.c, j.tenant, y, None)
      BY <1>1, <2>3, <3>1 DEF ScriptInsert
    <3>3. camp[j.c].type \in Types
      BY <1>2, <2>3 DEF MapInv, MapType, Row
    <3> QED
      BY <2>1, <3>1, <3>2, <3>3
  <2> QED
    BY <2>2, <2>3
<1>7. PICK k : IsJob(k) /\ ~OnItsWay(k) /\ Now(q, k) /\ RequestInv(q)'
  <2>1. None \in Types
    BY DEF Types
  <2> QED
    BY <1>3, <1>4, <1>6, <2>1, TypedIsFine
<1>8. CASE camp[j.c] = Absent
  <2>1. PICK row : row = NewRow(j.tenant, None, ScriptFallback(j), None, "unmapped")
    OBVIOUS
  <2>2. ScriptFallback(j) \in Types /\ None \in Types
    BY <1>2, OwnTypes DEF ScriptFallback, Types
  <2>3. row \in Row /\ row.status # "confirmed"
    BY <1>4, <2>1, <2>2, NewRowIsRow
  <2>4. Put(j.c, row)
    BY <1>1, <1>8, <2>1 DEF ScriptInsert
  <2>5. Becomes(camp[j.c], row)
    BY <1>8, <2>3, RowAssumption DEF Becomes
  <2> QED
    BY <1>4, <1>5, <1>7, <2>4, <2>5, RowStep DEF MapInv, MapType
<1>9. CASE camp[j.c] # Absent
  <2>1. camp' = camp
    BY <1>1, <1>9 DEF ScriptInsert
  <2> QED
    BY <1>4, <1>5, <1>7, <2>1, JobStep DEF MapType, Moves
<1> QED
  BY <1>8, <1>9

-----------------------------------------------------------------------------
(* The intake of a typed lead. *)

\* leads-service types the lead with a type of its tenant.
LEMMA TypeForIsOwn ==
  ASSUME NEW t \in Tenants, NEW x, NEW d
  PROVE  TypeFor(t, x, d) \in TypesOf[t] /\ TypeFor(t, x, d) \in Types
  BY OwnTypes DEF TypeFor, Usable, Types

\* What the scripts give is the tenant's, or nothing.
LEMMA ScriptTypeIsOwn ==
  ASSUME NEW t \in Tenants, NEW x
  PROVE  ScriptTypeFor(t, x) \in TypesOf[t] \cup {None} /\ ScriptTypeFor(t, x) \in Types
  BY OwnTypes DEF ScriptTypeFor, Usable, Types

LEMMA IntakeKeeps ==
  ASSUME MapInv, Watch, NEW q \in Requests, Intake(q)
  PROVE  MapInv'
<1>1. PICK j : j = job[q]
  OBVIOUS
<1>2. /\ j \in [pc : {"typed", "done"}, via : {"service", "failed", "script"}, c : Campaigns, tenant : Tenants,
                type : Types, default : Types]
      /\ j.pc = "typed" /\ ~OnItsWay(j)
  BY <1>1, JobOf, JobShape DEF Intake, MapInv, OnItsWay
<1>3. PICK x : x = IF j.via = "script" THEN ScriptTypeFor(j.tenant, j.type) ELSE TypeFor(j.tenant, j.type, j.default)
  OBVIOUS
<1>4. x \in TypesOf[j.tenant] \cup {None} /\ x \in Types
  BY <1>2, <1>3, TypeForIsOwn, ScriptTypeIsOwn
<1>5. PICK k : k = [j EXCEPT !.pc = "done", !.type = x]
  OBVIOUS
<1>6. /\ IsJob(k) /\ k.pc = "done" /\ ~OnItsWay(k)
      /\ k.via = j.via /\ k.tenant = j.tenant /\ k.type = x /\ k.default = j.default
  BY <1>2, <1>4, <1>5 DEF IsJob, OnItsWay
<1>7. Now(q, k) /\ UNCHANGED <<camp, rules, live, page, metaName, cached, edits>>
  BY <1>1, <1>3, <1>5, Zenon DEF Intake
<1>8. job'[q] = k
  BY <1>6, <1>7, NowSets DEF MapInv
<1>9. ruled'[q] = ruled[q]
  BY <1>1, <1>2, <1>6, <1>8, WatchOf
<1>10. ASSUME j.via # "failed", None \notin ruled[q], x \notin ruled[q]
       PROVE  /\ ~(ruled[q] \subseteq live)
              /\ \/ x = j.default /\ x # None
                 \/ x = DefaultOf[j.tenant] /\ ~Usable(j.tenant, j.default)
  <2>1. j.type \in ruled[q] \cap TypesOf[j.tenant] /\ (j.via = "script" => j.default = None)
    BY <1>1, <1>2, <1>10 DEF MapInv, RequestInv, TypedWell
  <2>2. None \notin TypesOf[j.tenant]
    BY <1>2, OwnTypes, MappingAssumption
  <2>3. ~Usable(j.tenant, None)
    BY <2>2 DEF Usable
  <2>4. j.type # None /\ j.type \notin live
    BY <1>3, <1>10, <2>1, <2>2 DEF ScriptTypeFor, TypeFor, Usable
  <2> QED
    BY <1>3, <2>1, <2>2, <2>3, <2>4 DEF ScriptTypeFor, TypeFor, Usable
<1>11. RequestInv(q)'
  BY <1>4, <1>6, <1>7, <1>8, <1>9, <1>10 DEF RequestInv, RowIsThere, HasSeenRuling, LandsWell, TypedWell, Usable
<1>12. Moves(job[q], k)
  BY <1>6 DEF Moves
<1> QED
  BY <1>6, <1>7, <1>11, <1>12, JobStep DEF MapInv, MapType

-----------------------------------------------------------------------------
(* The two refreshes. *)

\* The refreshes begin by reading.
LEMMA ListingKeeps ==
  ASSUME MapInv, Watch, NEW q \in Requests, NEW k, IsJob(k), k.pc \in {"listed", "scriptNamed", "retiring"},
         Now(q, k), UNCHANGED <<camp, rules, live, page, metaName, cached, edits>>
  PROVE  MapInv'
<1>1. job'[q] = k
  BY NowSets DEF MapInv
<1>2. RequestInv(q)'
  BY <1>1 DEF RequestInv, RowIsThere, HasSeenRuling, LandsWell, TypedWell
<1>3. Moves(job[q], k)
  BY DEF Moves, OnItsWay
<1> QED
  BY <1>2, <1>3, JobStep DEF MapInv, MapType

LEMMA StartFetchKeeps ==
  ASSUME MapInv, Watch, NEW q \in Requests, NEW c \in Campaigns, NEW scope \in Tenants \cup {None}, StartFetch(q, c, scope)
  PROVE  MapInv'
<1>1. PICK k : k = [pc |-> "listed", c |-> c, name |-> metaName[c], scope |-> scope,
                    tenants |-> {t \in Tenants : \E p \in PagesOf[c] : page[p][t] # Absent}]
  OBVIOUS
<1>2. metaName[c] \in Names
  BY DEF MapInv, MapType
<1>3. IsJob(k) /\ k.pc = "listed"
  BY <1>1, <1>2 DEF IsJob
<1> QED
  BY <1>1, <1>3, ListingKeeps DEF StartFetch

LEMMA StartScriptSyncKeeps ==
  ASSUME MapInv, Watch, NEW q \in Requests, NEW c \in Campaigns, NEW t \in Tenants, StartScriptSync(q, c, t)
  PROVE  MapInv'
<1>1. PICK k : k = [pc |-> "scriptNamed", c |-> c, tenant |-> t, name |-> metaName[c]]
  OBVIOUS
<1>2. metaName[c] \in Names
  BY DEF MapInv, MapType
<1>3. IsJob(k) /\ k.pc = "scriptNamed"
  BY <1>1, <1>2 DEF IsJob
<1> QED
  BY <1>1, <1>3, ListingKeeps DEF StartScriptSync

\* A refresh writes its row and ends.
LEMMA RefreshKeeps ==
  ASSUME MapInv, Watch, NEW q \in Requests, End(q), NEW c \in Campaigns, NEW row, Put(c, row),
         Becomes(camp[c], row), UNCHANGED <<rules, live, page, metaName, cached, edits>>
  PROVE  MapInv'
<1>1. PICK k : k = [pc |-> "ended"]
  OBVIOUS
<1>2. IsJob(k) /\ ~OnItsWay(k) /\ Now(q, k) /\ RequestInv(q)'
  BY <1>1, EndedIsFine DEF MapInv
<1>3. rules' \in [Tenants -> Seq(Rule)] /\ \A t \in Tenants : Len(rules'[t]) <= MaxRules
  BY DEF MapInv, MapType
<1> QED
  BY <1>2, <1>3, RowStep

LEMMA NewRowBecomes ==
  ASSUME NEW t \in Tenants, NEW n \in Names \cup {None}, NEW x \in Types, NEW s \in Types, NEW g
  PROVE  Becomes(Absent, NewRow(t, n, x, s, StatusOf(g)))
<1>1. StatusOf(g) \in {"unmapped", "suggested"}
  BY DEF StatusOf
<1> QED
  BY <1>1, NewRowIsRow, RowAssumption DEF Becomes

LEMMA UpsertedBecomes ==
  ASSUME MapInv, NEW c \in Campaigns, NEW t \in Tenants, NEW n \in Names
  PROVE  Becomes(camp[c], Upserted(c, t, n))
<1>1. PICK s \in Types : s = Suggestion(t, n)
  BY MatchIsType DEF Suggestion, MapInv
<1>2. PICK row \in Row \cup {Absent} : row = camp[c]
  BY DEF MapInv, MapType
<1>3. None \in Types
  BY DEF Types
<1>4. row # Absent /\ row.status = "confirmed" => row.type \in TypesOf[row.tenant]
  BY <1>2 DEF MapInv, ConfirmedIsOwn
<1>5. CASE row = Absent
  BY <1>1, <1>2, <1>3, <1>5, NewRowBecomes DEF Upserted
<1>6. CASE row # Absent /\ row.tenant # t
  BY <1>2, <1>4, <1>6 DEF Upserted, Becomes
<1>7. CASE row # Absent /\ row.tenant = t
  <2>1. StatusOf(s) \in Status /\ StatusOf(s) # "confirmed" /\ row \in Row
    BY <1>7, StatusIsStatus
  <2>2. PICK new : new = Refreshed(row, t, n)
    OBVIOUS
  <2>3. /\ new \in Row /\ new.tenant = row.tenant
        /\ new.status = "confirmed" => row.status = "confirmed" /\ new.type = row.type
    BY <1>1, <2>1, <2>2 DEF Refreshed, Row
  <2>4. Upserted(c, t, n) = new
    BY <1>2, <1>7, <2>2 DEF Upserted
  <2> QED
    BY <1>2, <1>4, <1>7, <2>3, <2>4, RowAssumption DEF Becomes
<1> QED
  BY <1>5, <1>6, <1>7

LEMMA StoreFetchedKeeps ==
  ASSUME MapInv, Watch, NEW q \in Requests, StoreFetched(q)
  PROVE  MapInv'
<1>1. PICK j : j = job[q]
  OBVIOUS
<1>2. j \in [pc : {"listed"}, c : Campaigns, name : Names, tenants : SUBSET Tenants, scope : Tenants \cup {None}]
  BY <1>1, JobOf, JobShape DEF StoreFetched, MapInv
<1>3. End(q) /\ UNCHANGED <<rules, live, page, metaName, cached, edits>>
  BY DEF StoreFetched
<1>4. CASE Put(j.c, Flagged(j.c))
  <2>1. Becomes(camp[j.c], Flagged(j.c))
    <3>1. PICK old \in Row \cup {Absent} : old = camp[j.c]
      BY <1>2 DEF MapInv, MapType
    <3>2. old # Absent /\ old.status = "confirmed" => old.type \in TypesOf[old.tenant]
      BY <1>2, <3>1 DEF MapInv, ConfirmedIsOwn
    <3>3. CASE old = Absent
      BY <3>1, <3>3 DEF Becomes, Flagged
    <3>4. CASE old # Absent
      <4>1. PICK new : new = [old EXCEPT !.conflict = TRUE]
        OBVIOUS
      <4>2. new \in Row /\ new.tenant = old.tenant /\ new.status = old.status /\ new.type = old.type
        BY <3>4, <4>1 DEF Row
      <4> QED
        BY <3>1, <3>2, <3>4, <4>1, <4>2, RowAssumption DEF Becomes, Flagged
    <3> QED
      BY <3>3, <3>4
  <2>2. PICK row : row = Flagged(j.c)
    OBVIOUS
  <2> QED
    BY <1>2, <1>3, <1>4, <2>1, <2>2, RefreshKeeps
<1>5. ASSUME NEW t \in Tenants, Put(j.c, Upserted(j.c, t, j.name))
      PROVE  MapInv'
  <2>1. PICK row : row = Upserted(j.c, t, j.name)
    OBVIOUS
  <2> QED
    BY <1>2, <1>3, <1>5, <2>1, UpsertedBecomes, RefreshKeeps
<1>6. CASE camp' = camp
  <2>1. PICK k : k = [pc |-> "ended"]
    OBVIOUS
  <2>2. IsJob(k) /\ ~OnItsWay(k) /\ Now(q, k) /\ RequestInv(q)'
    BY <1>3, <2>1, EndedIsFine DEF MapInv
  <2> QED
    BY <1>3, <1>6, <2>2, JobStep DEF MapInv, MapType, Moves
<1> QED
  BY <1>1, <1>4, <1>5, <1>6 DEF StoreFetched

LEMMA ScriptSyncKeeps ==
  ASSUME MapInv, Watch, NEW q \in Requests, ScriptSync(q)
  PROVE  MapInv'
<1>1. PICK j : j = job[q]
  OBVIOUS
<1>2. j \in [pc : {"scriptNamed"}, c : Campaigns, tenant : Tenants, name : Names]
  BY <1>1, JobOf, JobShape DEF ScriptSync, MapInv
<1>3. PICK x \in Types : x = MatchKeyword(j.tenant, j.name)
  BY <1>2, KeywordIsType
<1>4. PICK old \in Row \cup {Absent} : old = camp[j.c]
  BY <1>2 DEF MapInv, MapType
<1>5. PICK row : row = IF old = Absent THEN NewRow(j.tenant, j.name, x, None, StatusOf(x))
                       ELSE ScriptRefreshed(old, j.tenant, j.name)
  OBVIOUS
<1>6. End(q) /\ UNCHANGED <<rules, live, page, metaName, cached, edits>> /\ Put(j.c, row)
  BY <1>1, <1>3, <1>4, <1>5 DEF ScriptSync
<1>7. Becomes(camp[j.c], row)
  <2>1. CASE old = Absent
    BY <1>2, <1>4, <1>5, <2>1, NewRowBecomes DEF Types
  <2>2. CASE old # Absent
    <3>1. StatusOf(x) \in Status /\ StatusOf(x) # "confirmed" /\ old \in Row
      BY <2>2, StatusIsStatus
    <3>2. /\ row \in Row /\ row.tenant = old.tenant
          /\ row.status = "confirmed" => old.status = "confirmed" /\ row.type = old.type
      BY <1>2, <1>3, <1>5, <2>2, <3>1 DEF ScriptRefreshed, Row
    <3>3. old.status = "confirmed" => old.type \in TypesOf[old.tenant]
      BY <1>2, <1>4, <2>2 DEF MapInv, ConfirmedIsOwn
    <3> QED
      BY <1>4, <2>2, <3>2, <3>3, RowAssumption DEF Becomes
  <2> QED
    BY <2>1, <2>2
<1> QED
  BY <1>2, <1>6, <1>7, RefreshKeeps

-----------------------------------------------------------------------------
(* Confirming and retiring. *)

LEMMA StartConfirmKeeps ==
  ASSUME MapInv, Watch, NEW q \in Requests, NEW c \in Campaigns, NEW t \in Tenants, NEW x \in AllTypes,
         StartConfirm(q, c, t, x)
  PROVE  MapInv'
<1>1. PICK k : k = [pc |-> "confirming", c |-> c, tenant |-> t, type |-> x]
  OBVIOUS
<1>2. IsJob(k) /\ k.pc = "confirming" /\ k.c = c /\ k.tenant = t /\ k.type = x /\ ~OnItsWay(k)
  BY <1>1 DEF IsJob, OnItsWay
<1>3. Now(q, k) /\ UNCHANGED <<camp, rules, live, page, metaName, cached, edits>>
  BY <1>1 DEF StartConfirm
<1>4. job'[q] = k
  BY <1>2, <1>3, NowSets DEF MapInv
<1>5. RequestInv(q)'
  BY <1>2, <1>3, <1>4 DEF StartConfirm, RequestInv, RowIsThere, HasSeenRuling, LandsWell, TypedWell
<1> QED
  BY <1>2, <1>3, <1>5, JobStep DEF MapInv, MapType, Moves

LEMMA SaveConfirmKeeps ==
  ASSUME MapInv, Watch, NEW q \in Requests, SaveConfirm(q)
  PROVE  MapInv'
<1>1. PICK j : j = job[q]
  OBVIOUS
<1>2. j \in [pc : {"confirming"}, c : Campaigns, tenant : Tenants, type : AllTypes]
  BY <1>1, JobOf, JobShape DEF SaveConfirm, MapInv
<1>3. PICK old \in Row : old = camp[j.c] /\ old.tenant = j.tenant /\ j.type \in TypesOf[j.tenant]
  BY <1>1, <1>2 DEF SaveConfirm, MapInv, MapType, RequestInv, RowIsThere
<1>4. PICK row : row = [old EXCEPT !.type = j.type, !.status = "confirmed"]
  OBVIOUS
<1>5. row \in Row /\ row.tenant = old.tenant /\ row.type = j.type
  BY <1>2, <1>4 DEF Row, Status, Types
<1>6. Put(j.c, row) /\ End(q) /\ UNCHANGED <<live, page, metaName, cached, edits>>
  BY <1>1, <1>3, <1>4 DEF SaveConfirm
<1>7. Becomes(camp[j.c], row)
  BY <1>3, <1>5, RowAssumption DEF Becomes
<1>8. rules' \in [Tenants -> Seq(Rule)] /\ \A t \in Tenants : Len(rules'[t]) <= MaxRules
  <2>1. rules \in [Tenants -> Seq(Rule)] /\ \A t \in Tenants : Len(rules[t]) <= MaxRules
    BY DEF MapInv, MapType
  <2>2. CASE rules' = rules
    BY <2>1, <2>2
  <2>3. ASSUME NEW r \in RulesToWrite, Len(rules[j.tenant]) < MaxRules,
               rules' = [rules EXCEPT ![j.tenant] = Append(@, r)]
        PROVE  rules' \in [Tenants -> Seq(Rule)] /\ \A t \in Tenants : Len(rules'[t]) <= MaxRules
    <3>1. r \in Rule
      BY MappingAssumption DEF Rule
    <3>2. Append(rules[j.tenant], r) \in Seq(Rule) /\ Len(Append(rules[j.tenant], r)) = Len(rules[j.tenant]) + 1
      BY <1>2, <2>1, <3>1
    <3>3. Len(rules[j.tenant]) \in Nat /\ MaxRules \in Nat
      BY <1>2, <2>1, LenProperties, MappingAssumption
    <3> QED
      BY <1>2, <2>1, <2>3, <3>2, <3>3
  <2> QED
    BY <1>1, <2>2, <2>3 DEF SaveConfirm
<1>9. PICK k : k = [pc |-> "ended"]
  OBVIOUS
<1>10. IsJob(k) /\ ~OnItsWay(k) /\ Now(q, k) /\ RequestInv(q)'
  BY <1>6, <1>9, EndedIsFine DEF MapInv
<1> QED
  BY <1>2, <1>6, <1>7, <1>8, <1>10, RowStep

LEMMA StartRetireKeeps ==
  ASSUME MapInv, Watch, NEW q \in Requests, NEW x \in AllTypes, StartRetire(q, x)
  PROVE  MapInv'
<1>1. PICK k : k = [pc |-> "retiring", type |-> x]
  OBVIOUS
<1>2. IsJob(k) /\ k.pc = "retiring"
  BY <1>1 DEF IsJob
<1> QED
  BY <1>1, <1>2, ListingKeeps DEF StartRetire

LEMMA RetireKeeps ==
  ASSUME MapInv, Watch, NEW q \in Requests, Retire(q)
  PROVE  MapInv'
<1>1. PICK k : k = [pc |-> "ended"]
  OBVIOUS
<1>2. IsJob(k) /\ ~OnItsWay(k) /\ Now(q, k) /\ RequestInv(q)'
  BY <1>1, EndedIsFine DEF Retire, MapInv
<1>3. /\ job'[q] = k /\ \A r \in Requests \ {q} : job'[r] = job[r]
      /\ DOMAIN job' = Requests /\ \A r \in Requests : IsJob(job'[r])
  BY <1>2, NowSets DEF MapInv
<1>4. live' \subseteq live /\ UNCHANGED <<camp, rules, page, metaName, cached, edits>>
  BY DEF Retire
<1>5. MapType' /\ ConfirmedIsOwn' /\ RowsStay
  BY <1>3, <1>4 DEF MapInv, MapType, ConfirmedIsOwn, RowsStay
<1> QED
  BY <1>2, <1>3, <1>5, StepKeeps DEF Moves

-----------------------------------------------------------------------------
(* What people and Meta change. *)

\* A list of rules that is given another form.
LEMMA RulesKeep ==
  ASSUME MapInv, Watch, NEW t \in Tenants, NEW s \in Seq(Rule), Len(s) <= MaxRules, Free, Edited,
         rules' = [rules EXCEPT ![t] = s], UNCHANGED <<camp, live, page, metaName, cached, job>>
  PROVE  MapInv'
<1>1. MapType' /\ ConfirmedIsOwn' /\ RowsStay
  BY MappingAssumption DEF MapInv, MapType, ConfirmedIsOwn, RowsStay, Free, Edited
<1> QED
  BY <1>1, EditKeeps

LEMMA Slice ==
  ASSUME NEW S, NEW s \in Seq(S), NEW m \in Int, NEW n \in Int, 1 <= m, n <= Len(s), m <= n + 1
  PROVE  SubSeq(s, m, n) \in Seq(S) /\ Len(SubSeq(s, m, n)) = n - m + 1
<1>1. Len(s) \in Nat
  BY LenProperties
<1>2. \A i \in m .. n : s[i] \in S
  BY <1>1, ElementOfSeq
<1>3. SubSeq(s, m, n) \in Seq(S) /\ Len(SubSeq(s, m, n)) = IF m <= n THEN n - m + 1 ELSE 0
  BY <1>2, SubSeqProperties
<1> QED
  BY <1>3

LEMMA RuleToWrite ==
  ASSUME NEW r \in RulesToWrite
  PROVE  r \in Rule
<1>1. RulesToWrite \subseteq Rule
  BY MappingAssumption DEF Rule
<1> QED
  BY <1>1

LEMMA RulesOf ==
  ASSUME MapInv, NEW t \in Tenants
  PROVE  rules[t] \in Seq(Rule) /\ Len(rules[t]) \in Nat /\ MaxRules \in Nat /\ Len(rules[t]) <= MaxRules
<1>1. rules[t] \in Seq(Rule) /\ Len(rules[t]) <= MaxRules
  BY DEF MapInv, MapType
<1>2. Len(rules[t]) \in Nat
  BY <1>1, LenProperties
<1> QED
  BY <1>1, <1>2, MappingAssumption

LEMMA InsertedRule ==
  ASSUME NEW S, NEW s \in Seq(S), NEW e \in S, NEW i \in 1 .. Len(s) + 1
  PROVE  InsertAt(s, i, e) \in Seq(S) /\ Len(InsertAt(s, i, e)) = Len(s) + 1
<1>1. Len(s) \in Nat /\ i \in Int /\ 1 <= i /\ i <= Len(s) + 1
  BY LenProperties
<1>2. PICK a : a = SubSeq(s, 1, i - 1)
  OBVIOUS
<1>3. PICK b : b = SubSeq(s, i, Len(s))
  OBVIOUS
<1>4. a \in Seq(S) /\ Len(a) = i - 1
  <2>1. a \in Seq(S) /\ Len(a) = (i - 1) - 1 + 1
    BY <1>1, <1>2, Slice
  <2> QED
    BY <1>1, <2>1
<1>5. b \in Seq(S) /\ Len(b) = Len(s) - i + 1
  BY <1>1, <1>3, Slice
<1>6. <<e>> \in Seq(S) /\ Len(<<e>>) = 1
  OBVIOUS
<1>7. a \o <<e>> \in Seq(S) /\ Len(a \o <<e>>) = i
  BY <1>1, <1>4, <1>6, ConcatProperties
<1>8. (a \o <<e>>) \o b \in Seq(S) /\ Len((a \o <<e>>) \o b) = Len(s) + 1
  <2>1. (a \o <<e>>) \o b \in Seq(S) /\ Len((a \o <<e>>) \o b) = Len(a \o <<e>>) + Len(b)
    BY <1>5, <1>7, ConcatProperties
  <2> QED
    BY <1>1, <1>5, <1>7, <2>1
<1>9. InsertAt(s, i, e) = (a \o <<e>>) \o b
  BY <1>2, <1>3, Zenon DEF InsertAt
<1> QED
  BY <1>8, <1>9

LEMMA RemovedRule ==
  ASSUME NEW S, NEW s \in Seq(S), NEW i \in 1 .. Len(s)
  PROVE  RemoveAt(s, i) \in Seq(S) /\ Len(RemoveAt(s, i)) = Len(s) - 1
<1>1. Len(s) \in Nat /\ i \in Int /\ 1 <= i /\ i <= Len(s)
  BY LenProperties
<1>2. PICK a : a = SubSeq(s, 1, i - 1)
  OBVIOUS
<1>3. PICK b : b = SubSeq(s, i + 1, Len(s))
  OBVIOUS
<1>4. a \in Seq(S) /\ Len(a) = i - 1
  <2>1. a \in Seq(S) /\ Len(a) = (i - 1) - 1 + 1
    BY <1>1, <1>2, Slice
  <2> QED
    BY <1>1, <2>1
<1>5. b \in Seq(S) /\ Len(b) = Len(s) - i
  <2>1. b \in Seq(S) /\ Len(b) = Len(s) - (i + 1) + 1
    BY <1>1, <1>3, Slice
  <2> QED
    BY <1>1, <2>1
<1>6. a \o b \in Seq(S) /\ Len(a \o b) = Len(s) - 1
  <2>1. a \o b \in Seq(S) /\ Len(a \o b) = Len(a) + Len(b)
    BY <1>4, <1>5, ConcatProperties
  <2> QED
    BY <1>1, <1>4, <1>5, <2>1
<1>7. RemoveAt(s, i) = a \o b
  BY <1>2, <1>3, Zenon DEF RemoveAt
<1> QED
  BY <1>6, <1>7

LEMMA AddRuleKeeps ==
  ASSUME MapInv, Watch, NEW t \in Tenants, NEW r \in RulesToWrite, NEW i \in 1 .. Len(rules[t]) + 1, AddRule(t, i, r)
  PROVE  MapInv'
<1>1. rules[t] \in Seq(Rule) /\ Len(rules[t]) \in Nat /\ MaxRules \in Nat /\ r \in Rule
  BY RulesOf, RuleToWrite
<1>2. PICK s : s = InsertAt(rules[t], i, r)
  OBVIOUS
<1>3. s \in Seq(Rule) /\ Len(s) = Len(rules[t]) + 1
  BY <1>1, <1>2, InsertedRule
<1>4. Len(s) <= MaxRules
  BY <1>1, <1>3 DEF AddRule
<1>5. rules' = [rules EXCEPT ![t] = s]
  BY <1>2 DEF AddRule
<1> QED
  BY <1>3, <1>4, <1>5, RulesKeep DEF AddRule

LEMMA ChangeRuleKeeps ==
  ASSUME MapInv, Watch, NEW t \in Tenants, NEW r \in RulesToWrite, NEW i \in 1 .. Len(rules[t]), ChangeRule(t, i, r)
  PROVE  MapInv'
<1>1. rules[t] \in Seq(Rule) /\ Len(rules[t]) <= MaxRules /\ r \in Rule
  BY RulesOf, RuleToWrite
<1>2. PICK s : s = [rules[t] EXCEPT ![i] = r]
  OBVIOUS
<1>3. s \in Seq(Rule) /\ Len(s) = Len(rules[t])
  BY <1>1, <1>2, ExceptSeq
<1>4. rules' = [rules EXCEPT ![t] = s]
  BY <1>2 DEF ChangeRule, MapInv, MapType
<1> QED
  BY <1>1, <1>3, <1>4, RulesKeep DEF ChangeRule

LEMMA DeleteRuleKeeps ==
  ASSUME MapInv, Watch, NEW t \in Tenants, NEW i \in 1 .. Len(rules[t]), DeleteRule(t, i)
  PROVE  MapInv'
<1>1. rules[t] \in Seq(Rule) /\ Len(rules[t]) \in Nat /\ MaxRules \in Nat /\ Len(rules[t]) <= MaxRules
  BY RulesOf
<1>2. PICK s : s = RemoveAt(rules[t], i)
  OBVIOUS
<1>3. s \in Seq(Rule) /\ Len(s) = Len(rules[t]) - 1
  BY <1>1, <1>2, RemovedRule
<1>4. rules' = [rules EXCEPT ![t] = s] /\ Len(s) <= MaxRules
  BY <1>1, <1>2, <1>3 DEF DeleteRule
<1> QED
  BY <1>3, <1>4, RulesKeep DEF DeleteRule

LEMMA ReorderRulesKeeps ==
  ASSUME MapInv, Watch, NEW t \in Tenants, ReorderRules(t)
  PROVE  MapInv'
<1>1. rules[t] \in Seq(Rule) /\ Len(rules[t]) \in Nat /\ Len(rules[t]) <= MaxRules
  BY LenProperties DEF MapInv, MapType
<1> DEFINE S == ToSet(rules[t])
<1>2. S \subseteq Rule /\ IsFiniteSet(S)
  <2>1. DOMAIN rules[t] = 1 .. Len(rules[t]) /\ rules[t] \in [1 .. Len(rules[t]) -> Rule]
    BY <1>1, LenProperties
  <2>2. rules[t] \in Surjection(1 .. Len(rules[t]), S)
    BY <2>1 DEF Surjection, ToSet
  <2>3. IsFiniteSet(1 .. Len(rules[t]))
    BY <1>1, FS_Interval
  <2> QED
    BY <2>1, <2>2, <2>3, FS_Surjection DEF ToSet
<1>3. PICK s \in SetToSeqs(S) : Len(s) = Len(rules[t]) /\ rules' = [rules EXCEPT ![t] = s]
  BY DEF ReorderRules
<1>4. s \in [1 .. Cardinality(S) -> S]
  BY <1>3 DEF SetToSeqs
<1> HIDE DEF S
<1>5. s \in Seq(Rule)
  BY <1>2, <1>4, FS_CardinalityType
<1> QED
  BY <1>1, <1>3, <1>5, RulesKeep DEF ReorderRules

LEMMA PageKeeps ==
  ASSUME MapInv, Watch, NEW p \in Pages, NEW t \in Tenants, UnmapPage(p, t) \/ \E x \in Types : MapPage(p, t, x)
  PROVE  MapInv'
<1>1. PICK x \in Types \cup {Absent} : page' = [page EXCEPT ![p] = [@ EXCEPT ![t] = x]]
  BY DEF UnmapPage, MapPage
<1>2. Free /\ Edited /\ UNCHANGED <<camp, rules, live, metaName, cached, job>>
  BY DEF UnmapPage, MapPage
<1>3. page' \in [Pages -> [Tenants -> Types \cup {Absent}]]
  BY <1>1 DEF MapInv, MapType
<1>4. MapType' /\ ConfirmedIsOwn' /\ RowsStay
  BY <1>2, <1>3, MappingAssumption DEF MapInv, MapType, ConfirmedIsOwn, RowsStay, Free, Edited
<1> QED
  BY <1>2, <1>4, EditKeeps

LEMMA NameKeeps ==
  ASSUME MapInv, Watch, NEW c \in Campaigns, Forget(c) \/ \E n \in Names : Rename(c, n)
  PROVE  MapInv'
<1>1. Free /\ Edited /\ UNCHANGED <<camp, rules, live, page, job>>
  BY DEF Forget, Rename
<1>2. metaName' \in [Campaigns -> Names] /\ cached' \in [Campaigns -> Names \cup {None, Absent}]
  <2>1. metaName \in [Campaigns -> Names] /\ cached \in [Campaigns -> Names \cup {None, Absent}]
    BY DEF MapInv, MapType
  <2>2. CASE Forget(c)
    BY <2>1, <2>2 DEF Forget
  <2>3. ASSUME NEW n \in Names, Rename(c, n)
        PROVE  metaName' \in [Campaigns -> Names] /\ cached' \in [Campaigns -> Names \cup {None, Absent}]
    BY <2>1, <2>3 DEF Rename
  <2> QED
    BY <2>2, <2>3
<1>3. edits' \in 0 .. MaxEdits
  BY <1>1, MappingAssumption DEF MapInv, MapType, Free, Edited
<1>4. MapType' /\ ConfirmedIsOwn' /\ RowsStay
  BY <1>1, <1>2, <1>3 DEF MapInv, MapType, ConfirmedIsOwn, RowsStay
<1> QED
  BY <1>1, <1>4, EditKeeps

-----------------------------------------------------------------------------
(* Every step, and the theorems. *)

LEMMA InitHolds ==
  ASSUME Init
  PROVE  MapInv
<1>1. \A q \in Requests : job[q] = Idle
  BY DEF Init
<1>2. DOMAIN job = Requests /\ \A q \in Requests : IsJob(job[q])
  BY <1>1 DEF Init, IsJob
<1>3. rules \in [Tenants -> Seq(Rule)] /\ \A t \in Tenants : Len(rules[t]) <= MaxRules
  <2>1. PICK f \in Firsts : rules = f.rules
    BY DEF Init
  <2>2. /\ f.rules \in [Tenants -> Seq([field : {"campaign", "lead"}, on : Names, type : AllTypes])]
        /\ \A t \in Tenants : Len(f.rules[t]) <= MaxRules
    BY MappingAssumption
  <2> QED
    BY <2>1, <2>2 DEF Rule
<1>4. page \in [Pages -> [Tenants -> Types \cup {Absent}]]
  <2>1. PICK f \in Firsts : page = f.page
    BY DEF Init
  <2>2. f.page \in [Pages -> [Tenants -> AllTypes \cup {None, Absent}]]
    BY MappingAssumption
  <2> QED
    BY <2>1, <2>2 DEF Types
<1>5. PICK f \in Firsts : camp = f.camp
  BY DEF Init
<1>6. MapType
  <2>1. camp \in [Campaigns -> Row \cup {Absent}]
    BY <1>5, RowAssumption
  <2>2. cached \in [Campaigns -> Names \cup {None, Absent}] /\ edits \in 0 .. MaxEdits
    BY MappingAssumption DEF Init
  <2> QED
    BY <1>2, <1>3, <1>4, <2>1, <2>2 DEF Init, MapType
<1>7. RuledType
  BY DEF Init, RuledType
<1>8. ConfirmedIsOwn
  BY <1>5, RowAssumption DEF ConfirmedIsOwn
<1>9. \A q \in Requests : IsWatched(q) /\ RequestInv(q)
  <2> SUFFICES ASSUME NEW q \in Requests PROVE IsWatched(q) /\ RequestInv(q)
    OBVIOUS
  <2>1. job[q].pc = "idle"
    BY <1>1 DEF Idle
  <2> QED
    BY <2>1 DEF IsWatched, OnItsWay, RequestInv, RowIsThere, HasSeenRuling, LandsWell, TypedWell
<1> QED
  BY <1>6, <1>7, <1>8, <1>9 DEF MapInv

LEMMA NextKeeps ==
  ASSUME MapInv, [Next]_vars
  PROVE  MapInv'
<1>1. CASE UNCHANGED vars
  BY <1>1 DEF vars, MapInv, MapType, RuledType, ConfirmedIsOwn, IsWatched, OnItsWay, Ruling,
              RequestInv, RowIsThere, HasSeenRuling, IsRuling, LandsWell, TypedWell, Usable
<1>2. CASE Next
  <2>1. Watch
    BY <1>2 DEF Next
  <2>2. ASSUME NEW q \in Requests, Begin(q)
        PROVE  MapInv'
    BY <2>1, <2>2, ArriveKeeps, ScriptArriveKeeps, StartFetchKeeps, StartScriptSyncKeeps, StartConfirmKeeps,
       StartRetireKeeps DEF Begin
  <2>3. ASSUME NEW q \in Requests, Continue(q)
        PROVE  MapInv'
    BY <2>1, <2>3, ReadDefaultKeeps, ReadRowKeeps, InsertRowKeeps, UseRowKeeps, ResolutionFailsKeeps,
       ScriptReadKeeps, ScriptInsertKeeps, IntakeKeeps, StoreFetchedKeeps, ScriptSyncKeeps, SaveConfirmKeeps, RetireKeeps DEF Continue
  <2>4. CASE People
    BY <2>1, <2>4, AddRuleKeeps, ChangeRuleKeeps, ReorderRulesKeeps, DeleteRuleKeeps, PageKeeps, NameKeeps DEF People
  <2> QED
    BY <1>2, <2>2, <2>3, <2>4 DEF Next
<1> QED
  BY <1>1, <1>2

\* The inductive invariant: a request that read a row while a ruling was in
\* force carries that ruling, and the rows it will write are still its own.
LEMMA Invariance == Spec => []MapInv
<1>1. Init => MapInv
  BY InitHolds
<1>2. MapInv /\ [Next]_vars => MapInv'
  BY NextKeeps
<1> QED
  BY <1>1, <1>2, PTL DEF Spec

-----------------------------------------------------------------------------
(* A confirmed row. *)

\* Confirmed it stays, of the same tenant and the same type.
RowStands(old, new) ==
    old # Absent /\ old.status = "confirmed" =>
      new.status = "confirmed" /\ new.tenant = old.tenant /\ new.type = old.type
AllStand == \A c \in Campaigns : RowStands(camp[c], camp'[c])

LEMMA PutStands ==
  ASSUME MapType, NEW d \in Campaigns, NEW row, Put(d, row), RowStands(camp[d], row)
  PROVE  AllStand
  BY DEF MapType, Put, AllStand, RowStands

LEMMA SameStands ==
  ASSUME camp' = camp
  PROVE  AllStand
  BY DEF AllStand, RowStands

LEMMA InsertsStand ==
  ASSUME MapInv, NEW q \in Requests, InsertRow(q) \/ ScriptInsert(q)
  PROVE  AllStand
<1>1. PICK c \in Campaigns : c = job[q].c
  BY JobOf, JobShape DEF MapInv, InsertRow, ScriptInsert, OnItsWay
<1>2. camp' = camp \/ (camp[c] = Absent /\ \E row : Put(c, row))
  BY <1>1, Zenon DEF InsertRow, ScriptInsert
<1>3. RowStands(Absent, camp'[c])
  BY DEF RowStands
<1> QED
  BY <1>2, SameStands, PutStands DEF MapInv, RowStands

LEMMA UseStands ==
  ASSUME MapInv, NEW q \in Requests, UseRow(q)
  PROVE  AllStand
<1>1. PICK j : j = job[q]
  OBVIOUS
<1>2. /\ j \in [pc : {"use"}, c : Campaigns, tenant : Tenants, default : Types,
                name : Names \cup {None}, leadName : Names \cup {None}, seen : Snapshot]
      /\ camp[j.c] # Absent
  BY <1>1, JobOf, JobShape DEF UseRow, MapInv, RequestInv, RowIsThere
<1>3. PICK old \in Row : old = camp[j.c]
  BY <1>2 DEF MapInv, MapType
<1>4. PICK row : row = IF j.seen.row.tenant # j.tenant THEN [old EXCEPT !.conflict = TRUE] ELSE Named(old, j)
  OBVIOUS
<1>5. Put(j.c, row)
  BY <1>1, <1>3, <1>4 DEF UseRow
<1>6. RowStands(old, row)
  BY <1>4 DEF RowStands, Row, Named, WithName, RefreshSuggestion
<1> QED
  BY <1>2, <1>3, <1>5, <1>6, PutStands DEF MapInv

LEMMA FetchStands ==
  ASSUME MapInv, NEW q \in Requests, StoreFetched(q)
  PROVE  AllStand
<1>1. PICK j : j = job[q]
  OBVIOUS
<1>2. j.c \in Campaigns
  BY <1>1, JobOf, JobShape DEF StoreFetched, MapInv
<1>3. PICK old \in Row \cup {Absent} : old = camp[j.c]
  BY <1>2 DEF MapInv, MapType
<1>4. CASE Put(j.c, Flagged(j.c))
  <2>1. RowStands(camp[j.c], Flagged(j.c))
    BY <1>3 DEF RowStands, Flagged, Row
  <2>2. PICK row : row = Flagged(j.c)
    OBVIOUS
  <2> QED
    BY <1>2, <1>4, <2>1, <2>2, PutStands DEF MapInv
<1>5. ASSUME NEW t \in Tenants, Put(j.c, Upserted(j.c, t, j.name))
      PROVE  AllStand
  <2>1. RowStands(camp[j.c], Upserted(j.c, t, j.name))
    BY <1>3 DEF RowStands, Upserted, Refreshed, Row
  <2>2. PICK row : row = Upserted(j.c, t, j.name)
    OBVIOUS
  <2> QED
    BY <1>2, <1>5, <2>1, <2>2, PutStands DEF MapInv
<1> QED
  BY <1>1, <1>4, <1>5, SameStands DEF StoreFetched

LEMMA SyncStands ==
  ASSUME MapInv, NEW q \in Requests, ScriptSync(q)
  PROVE  AllStand
<1>1. PICK j : j = job[q]
  OBVIOUS
<1>2. j.c \in Campaigns
  BY <1>1, JobOf, JobShape DEF ScriptSync, MapInv
<1>3. PICK old \in Row \cup {Absent} : old = camp[j.c]
  BY <1>2 DEF MapInv, MapType
<1>4. PICK row : Put(j.c, row) /\ (old # Absent => row = ScriptRefreshed(old, j.tenant, j.name))
  BY <1>1, <1>3 DEF ScriptSync
<1>5. RowStands(old, row)
  BY <1>3, <1>4 DEF RowStands, ScriptRefreshed, Row
<1> QED
  BY <1>2, <1>3, <1>4, <1>5, PutStands DEF MapInv

\* An administrator's confirmation may change the type, of a row of the tenant.
LEMMA ConfirmStands ==
  ASSUME MapInv, NEW q \in Requests, SaveConfirm(q), NEW c \in Campaigns, camp[c] # Absent, camp[c].status = "confirmed"
  PROVE  /\ camp'[c].status = "confirmed" /\ camp'[c].tenant = camp[c].tenant
         /\ \/ camp'[c].type = camp[c].type
            \/ job[q].pc = "confirming" /\ job'[q] # job[q] /\ job[q].c = c /\ job[q].tenant = camp[c].tenant
<1>1. PICK j : j = job[q]
  OBVIOUS
<1>2. /\ j.pc = "confirming" /\ j.c \in Campaigns /\ camp[j.c] # Absent /\ camp[j.c].tenant = j.tenant
  BY <1>1, JobOf, JobShape DEF SaveConfirm, MapInv, RequestInv, RowIsThere
<1>3. job'[q].pc = "ended"
  BY EndedIsFine, NowSets DEF SaveConfirm, MapInv
<1>4. CASE c = j.c
  <2>1. PICK old \in Row : old = camp[c]
    BY DEF MapInv, MapType
  <2>2. camp'[c] = [old EXCEPT !.type = j.type, !.status = "confirmed"]
    BY <1>1, <1>4, <2>1 DEF SaveConfirm, Put, MapInv, MapType
  <2>3. camp'[c].status = "confirmed" /\ camp'[c].tenant = old.tenant
    BY <2>2 DEF Row
  <2> QED
    BY <1>1, <1>2, <1>3, <1>4, <2>1, <2>3
<1>5. CASE c # j.c
  BY <1>1, <1>5 DEF SaveConfirm, Put, MapInv, MapType
<1> QED
  BY <1>4, <1>5

-----------------------------------------------------------------------------
\* No row, job or cached name ever has a shape its reader does not expect,
\* in whatever order the writers of ext.meta_campaigns commit
\* (campaign-sync.service.ts, campaign-type-resolver.service.ts).
THEOREM TypeCorrect == Spec => []TypeOK
<1>1. MapInv => TypeOK
  BY DEF MapInv, MapType, RuledType, TypeOK
<1> QED
  BY <1>1, Invariance, PTL

\* "A confirmed mapping is never overwritten" (campaign-sync.service.ts:33),
\* for any number of writers at once: only another confirmation for the tenant
\* that owns the row changes the type.
THEOREM ConfirmedIsKept == Spec => ConfirmedStands
<1> DEFINE Kept(c) ==
      camp[c] # Absent /\ camp[c].status = "confirmed" =>
        /\ camp'[c].status = "confirmed" /\ camp'[c].tenant = camp[c].tenant
        /\ \/ camp'[c].type = camp[c].type
           \/ \E q \in Requests : /\ job[q].pc = "confirming" /\ job'[q] # job[q]
                                  /\ job[q].c = c /\ job[q].tenant = camp[c].tenant
<1>1. AllStand => \A c \in Campaigns : Kept(c)
  BY DEF AllStand, RowStands
<1>2. ASSUME MapInv, [Next]_vars
      PROVE  \A c \in Campaigns : Kept(c)
  <2>1. ASSUME NEW q \in Requests, SaveConfirm(q)
        PROVE  \A c \in Campaigns : Kept(c)
    BY <1>2, <2>1, ConfirmStands
  <2>2. ASSUME NEW q \in Requests, Begin(q)
        PROVE  camp' = camp
    BY <2>2 DEF Begin, Arrive, ScriptArrive, StartFetch, StartScriptSync, StartConfirm, StartRetire
  <2>3. ASSUME NEW q \in Requests, Continue(q), ~SaveConfirm(q)
        PROVE  AllStand
    <3>1. CASE ReadDefault(q) \/ ReadRow(q) \/ ResolutionFails(q) \/ ScriptRead(q) \/ Intake(q) \/ Retire(q)
      BY <3>1, SameStands DEF ReadDefault, ReadRow, ResolutionFails, ScriptRead, Intake, Retire
    <3> QED
      BY <1>2, <2>3, <3>1, InsertsStand, UseStands, FetchStands, SyncStands DEF Continue
  <2>4. CASE People
    BY <2>4, SameStands DEF People, AddRule, ChangeRule, DeleteRule, ReorderRules, MapPage, UnmapPage, Rename, Forget
  <2>5. CASE UNCHANGED vars
    BY <2>5, SameStands DEF vars
  <2> HIDE DEF Kept
  <2> QED
    BY <1>1, <1>2, <2>1, <2>2, <2>3, <2>4, <2>5, SameStands DEF Next
<1>3. MapInv /\ [Next]_vars => [\A c \in Campaigns : Kept(c)]_vars
  BY <1>2
<1> QED
  BY <1>3, Invariance, PTL DEF Spec, ConfirmedStands

\* Step 1 of resolveCampaignType's ladder and of resolve_campaign_type: whatever
\* the lead's request read before the other writers committed, a lead that was
\* under a ruling until it was typed has it; once it is retired, the form's default
\* that was forwarded, or the catch-all where that is missing or retired too
\* (resolveCampaignForLead).
THEOREM LeadsFollowTheRuling == Spec => []FollowsTheRuling
<1>1. MapInv => FollowsTheRuling
  BY DEF MapInv, RequestInv, LandsWell, FollowsTheRuling
<1> QED
  BY <1>1, Invariance, PTL

\* The shared row may be another tenant's, through either path of the code;
\* the type of the lead is not (resolveCampaignForLead, lead_writer).
THEOREM TypesStayAtHome == Spec => []LeadTypeIsOwn
<1>1. MapInv => LeadTypeIsOwn
  BY DEF MapInv, RequestInv, LandsWell, LeadTypeIsOwn
<1> QED
  BY <1>1, Invariance, PTL
=============================================================================
