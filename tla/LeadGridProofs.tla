--------------------------- MODULE LeadGridProofs ---------------------------
(***************************************************************************)
(* LeadGrid: types, that a quiet grid shows what the database has, and     *)
(* that a save makes its follow-up once.                                   *)
(*                                                                         *)
(* The lists asked for change in four ways only (one more, one read by the *)
(* server, one settled, all overtaken); each has a lemma of its own.       *)
(***************************************************************************)
EXTENDS LeadGrid, SequenceTheorems, FiniteSetTheorems, TLAPS

-----------------------------------------------------------------------------
(* The invariant by the variables it is about *)

Grids == UNION {[S -> Shown] : S \in SUBSET Leads}
Fetch == {f \in [of : SUBSET Leads, rows : Grids, read : BOOLEAN, save : BOOLEAN, passed : BOOLEAN] :
            DOMAIN f.rows \subseteq f.of}

LEMMA GridSet == \A g : IsGrid(g) <=> g \in Grids
<1>1. ASSUME NEW g, IsGrid(g) PROVE g \in Grids
  BY <1>1 DEF IsGrid, Grids
<1>2. ASSUME NEW g \in Grids PROVE IsGrid(g)
  <2>1. PICK S \in SUBSET Leads : g \in [S -> Shown]
    BY DEF Grids
  <2> QED
    BY <2>1 DEF IsGrid
<1> QED
  BY <1>1, <1>2

LEMMA FetchSet == \A f : IsFetch(f) <=> f \in Fetch
<1>1. ASSUME NEW f, IsFetch(f) PROVE f \in Fetch
  BY <1>1, GridSet DEF IsFetch, Fetch
<1>2. ASSUME NEW f \in Fetch PROVE IsFetch(f)
  BY GridSet DEF IsFetch, Fetch
<1> QED
  BY <1>1, <1>2

DbInv ==
  /\ db \in [Leads -> Row] /\ heard \in [Leads -> Nat]
  /\ \A l \in Leads : db[l].theirs <= db[l].v /\ heard[l] <= db[l].v
  /\ wire \in Seq(Event) /\ WireIsPast

TabInv ==
  /\ viewer \in Viewer /\ filter \in Filters /\ IsGrid(grid) /\ error \in BOOLEAN /\ late \in BOOLEAN
  /\ edits \in Nat /\ presses \in Nat /\ picks \in Nat

FetchInv == fetches \in Seq(Fetch)

\* A refused stage waits for one list, nothing else for any.
WaitInv ==
  IF editor.pc = "refused"
  THEN \E i \in DOMAIN fetches : \A j \in DOMAIN fetches : fetches[j].save <=> j = i
  ELSE \A j \in DOMAIN fetches : ~fetches[j].save

EditInv ==
  /\ editor \in {Closed} \cup Dialog \cup Saving /\ made \in Nat
  /\ editor.pc \in {"stage", "outcome", "due"} => ~editor.written
  /\ MadeByFirst

LEMMA FetchSeq ==
  (/\ fetches \in Seq({fetches[i] : i \in DOMAIN fetches})
   /\ \A i \in DOMAIN fetches : IsFetch(fetches[i])) <=> FetchInv
<1>1. ASSUME fetches \in Seq({fetches[i] : i \in DOMAIN fetches}), \A i \in DOMAIN fetches : IsFetch(fetches[i])
      PROVE  FetchInv
  <2>1. {fetches[i] : i \in DOMAIN fetches} \subseteq Fetch
    BY <1>1, FetchSet
  <2> DEFINE S == {fetches[i] : i \in DOMAIN fetches}
  <2>2. fetches \in Seq(S) /\ S \subseteq Fetch
    BY <1>1, <2>1
  <2> HIDE DEF S
  <2>3. fetches \in Seq(Fetch)
    BY <2>2, SeqMonotonic
  <2> QED
    BY <2>3 DEF FetchInv
<1>2. ASSUME FetchInv
      PROVE  /\ fetches \in Seq({fetches[i] : i \in DOMAIN fetches})
             /\ \A i \in DOMAIN fetches : IsFetch(fetches[i])
  <2> DEFINE S == {fetches[i] : i \in DOMAIN fetches}
  <2>1. Len(fetches) \in Nat /\ DOMAIN fetches = 1 .. Len(fetches) /\ fetches \in [1 .. Len(fetches) -> Fetch]
    BY <1>2, LenProperties DEF FetchInv
  <2>2. fetches \in [1 .. Len(fetches) -> S]
    BY <2>1
  <2>3. fetches \in Seq(S)
    BY <2>1, <2>2, SeqDef
  <2>4. \A i \in DOMAIN fetches : IsFetch(fetches[i])
    BY <2>1, FetchSet
  <2> QED
    BY <2>3, <2>4
<1> QED
  BY <1>1, <1>2

LEMMA WaitCard ==
  ASSUME FetchInv
  PROVE  (Cardinality({i \in DOMAIN fetches : fetches[i].save}) = (IF editor.pc = "refused" THEN 1 ELSE 0)) <=> WaitInv
<1> DEFINE W == {i \in DOMAIN fetches : fetches[i].save}
<1>1. DOMAIN fetches = 1 .. Len(fetches) /\ Len(fetches) \in Nat
  BY LenProperties DEF FetchInv
<1>2. IsFiniteSet(W)
  <2>1. IsFiniteSet(1 .. Len(fetches))
    BY <1>1, FS_Interval
  <2>2. W \subseteq 1 .. Len(fetches)
    BY <1>1
  <2> QED
    BY <2>1, <2>2, FS_Subset
<1>3. Cardinality(W) = 0 <=> W = {}
  BY <1>2, FS_EmptySet
<1>4. Cardinality(W) = 1 <=> \E x : W = {x}
  BY <1>2, FS_Singleton
<1>5. (\E x : W = {x}) <=> \E i \in DOMAIN fetches : \A j \in DOMAIN fetches : fetches[j].save <=> j = i
  OBVIOUS
<1>6. W = {} <=> \A j \in DOMAIN fetches : ~fetches[j].save
  OBVIOUS
<1> HIDE DEF W
<1>7. CASE editor.pc = "refused"
  BY <1>4, <1>5, <1>7 DEF WaitInv, W
<1>8. CASE editor.pc # "refused"
  BY <1>3, <1>6, <1>8 DEF WaitInv, W
<1> QED
  BY <1>7, <1>8

LEMMA Parts == IInv <=> DbInv /\ TabInv /\ FetchInv /\ WaitInv /\ EditInv /\ LastAnswers
<1>1. ASSUME IInv PROVE DbInv /\ TabInv /\ FetchInv /\ WaitInv /\ EditInv /\ LastAnswers
  BY <1>1, FetchSeq, WaitCard DEF IInv, TypeOK, DbInv, TabInv, EditInv
<1>2. ASSUME DbInv, TabInv, FetchInv, WaitInv, EditInv, LastAnswers PROVE IInv
  BY <1>2, FetchSeq, WaitCard DEF IInv, TypeOK, DbInv, TabInv, EditInv
<1> QED
  BY <1>1, <1>2

-----------------------------------------------------------------------------
(* The lists asked for *)

LEMMA FetchLen ==
  ASSUME FetchInv
  PROVE  /\ Len(fetches) \in Nat /\ DOMAIN fetches = 1 .. Len(fetches)
         /\ fetches # << >> <=> Len(fetches) > 0
         /\ fetches \in [1 .. Len(fetches) -> Fetch]
         /\ \A i \in DOMAIN fetches : fetches[i] \in Fetch
BY LenProperties, EmptySeq DEF FetchInv

LEMMA RequestGood ==
  ASSUME NEW of \in SUBSET Leads, NEW b \in BOOLEAN
  PROVE  Request(of, b) \in Fetch
<1>1. << >> \in [{} -> Shown] /\ DOMAIN << >> = {}
  OBVIOUS
<1>2. << >> \in Grids
  BY <1>1 DEF Grids
<1> QED
  BY <1>1, <1>2 DEF Request, Fetch

\* One more.
LEMMA OneMore ==
  ASSUME FetchInv, NEW of \in SUBSET Leads, NEW b \in BOOLEAN, FetchData(fetches, of, b)
  PROVE  /\ FetchInv' /\ Len(fetches') = Len(fetches) + 1
         /\ \A i \in DOMAIN fetches : fetches'[i] = fetches[i]
         /\ fetches' # << >> /\ LastAsked' = Request(of, b)
<1>1. fetches' = Append(fetches, Request(of, b)) /\ Request(of, b) \in Fetch
  BY RequestGood DEF FetchData
<1> QED
  BY <1>1, AppendProperties, FetchLen DEF FetchInv, LastAsked

\* One is read by the server.
LEMMA OneRead ==
  ASSUME FetchInv, NEW i \in DOMAIN fetches, ListLeads(i), Listing(fetches[i].of) \in Grids
  PROVE  /\ FetchInv' /\ Len(fetches') = Len(fetches)
         /\ \A j \in DOMAIN fetches : fetches'[j] = IF j = i THEN [fetches[i] EXCEPT !.read = TRUE, !.rows = Listing(fetches[i].of)]
                                                    ELSE fetches[j]
<1> DEFINE f == [fetches[i] EXCEPT !.read = TRUE, !.rows = Listing(fetches[i].of)]
<1>1. fetches[i] \in Fetch /\ fetches \in [1 .. Len(fetches) -> Fetch] /\ Len(fetches) \in Nat
  BY FetchLen
<1>2. DOMAIN Listing(fetches[i].of) \subseteq fetches[i].of
  BY DEF Listing
<1>3. f \in Fetch
  BY <1>1, <1>2 DEF Fetch
<1> HIDE DEF f
<1>4. fetches' = [fetches EXCEPT ![i] = f]
  BY DEF ListLeads, f
<1> QED
  BY <1>3, <1>4, ExceptSeq, FetchLen DEF FetchInv, f

\* All are overtaken.
Overtaken(f) == [f EXCEPT !.passed = TRUE]

LEMMA OvertakenGood ==
  ASSUME NEW f \in Fetch
  PROVE  /\ Overtaken(f) \in Fetch /\ Overtaken(f).passed /\ Overtaken(f).save = f.save
         /\ [f EXCEPT !.passed = @ \/ TRUE] = Overtaken(f) /\ [f EXCEPT !.passed = @ \/ FALSE] = f
BY DEF Overtaken, Fetch

LEMMA AllPassed ==
  ASSUME FetchInv, fetches' = [j \in DOMAIN fetches |-> Overtaken(fetches[j])]
  PROVE  /\ FetchInv' /\ Len(fetches') = Len(fetches)
         /\ \A j \in DOMAIN fetches : fetches'[j] = Overtaken(fetches[j])
<1>1. fetches' \in [1 .. Len(fetches) -> Fetch] /\ Len(fetches) \in Nat
  BY FetchLen, OvertakenGood
<1>2. fetches' \in Seq(Fetch)
  BY <1>1, SeqDef
<1> QED
  BY <1>1, <1>2, LenProperties, FetchLen DEF FetchInv

\* One is settled; those asked for earlier are overtaken by it.
LEMMA RemoveAtFacts ==
  ASSUME NEW S, NEW s \in Seq(S), NEW i \in 1 .. Len(s)
  PROVE  /\ RemoveAt(s, i) \in Seq(S) /\ Len(RemoveAt(s, i)) = Len(s) - 1
         /\ \A j \in 1 .. Len(s) - 1 : RemoveAt(s, i)[j] = IF j < i THEN s[j] ELSE s[j + 1]
<1> DEFINE n == Len(s)
<1> DEFINE a == SubSeq(s, 1, i - 1)
<1> DEFINE b == SubSeq(s, i + 1, n)
<1>1. n \in Nat /\ i \in 1 .. n /\ \A j \in 1 .. n : s[j] \in S
  BY LenProperties
<1>2. RemoveAt(s, i) = a \o b
  BY DEF RemoveAt
<1>3. /\ a \in Seq(S) /\ Len(a) = i - 1
      /\ \A j \in 1 .. i - 1 : a[j] = s[j]
  <2>1. i - 1 \in Int /\ 1 \in Int /\ \A j \in 1 .. i - 1 : s[j] \in S
    BY <1>1
  <2>2. /\ a \in Seq(S) /\ Len(a) = (IF 1 <= i - 1 THEN (i - 1) - 1 + 1 ELSE 0)
        /\ \A j \in 1 .. (i - 1) - 1 + 1 : a[j] = s[1 + j - 1]
    BY <2>1, SubSeqProperties
  <2> QED
    BY <1>1, <2>2
<1>4. /\ b \in Seq(S) /\ Len(b) = n - i
      /\ \A j \in 1 .. n - i : b[j] = s[j + i]
  <2>1. i + 1 \in Int /\ n \in Int /\ \A j \in i + 1 .. n : s[j] \in S
    BY <1>1
  <2>2. /\ b \in Seq(S) /\ Len(b) = (IF i + 1 <= n THEN n - (i + 1) + 1 ELSE 0)
        /\ \A j \in 1 .. n - (i + 1) + 1 : b[j] = s[i + 1 + j - 1]
    BY <2>1, SubSeqProperties
  <2> QED
    BY <1>1, <2>2
<1> HIDE DEF a, b
<1>5. /\ a \o b \in Seq(S) /\ Len(a \o b) = Len(a) + Len(b)
      /\ \A j \in 1 .. Len(a) + Len(b) : (a \o b)[j] = IF j <= Len(a) THEN a[j] ELSE b[j - Len(a)]
  BY <1>3, <1>4, ConcatProperties
<1>6. Len(a) + Len(b) = n - 1
  BY <1>1, <1>3, <1>4
<1>7. ASSUME NEW j \in 1 .. n - 1
      PROVE  (a \o b)[j] = IF j < i THEN s[j] ELSE s[j + 1]
  <2>1. CASE j < i
    BY <1>1, <1>3, <1>5, <1>6, <2>1
  <2>2. CASE ~(j < i)
    <3>1. j - (i - 1) \in 1 .. n - i /\ (j - (i - 1)) + i = j + 1
      BY <1>1, <2>2
    <3>2. (a \o b)[j] = b[j - (i - 1)]
      BY <1>1, <1>3, <1>5, <1>6, <2>2
    <3>3. b[j - (i - 1)] = s[(j - (i - 1)) + i]
      BY <1>4, <3>1
    <3> QED
      BY <2>2, <3>1, <3>2, <3>3
  <2> QED
    BY <2>1, <2>2
<1> QED
  BY <1>2, <1>5, <1>6, <1>7

LEMMA OneSettled ==
  ASSUME FetchInv, NEW i \in DOMAIN fetches, Settled(i)
  PROVE  /\ FetchInv' /\ Len(fetches') = Len(fetches) - 1
         /\ \A j \in DOMAIN fetches' : fetches'[j] = IF j < i THEN Overtaken(fetches[j]) ELSE fetches[j + 1]
<1> DEFINE s == [j \in DOMAIN fetches |-> [fetches[j] EXCEPT !.passed = @ \/ j < i]]
<1> DEFINE n == Len(fetches)
<1>1. n \in Nat /\ DOMAIN fetches = 1 .. n /\ \A j \in 1 .. n : fetches[j] \in Fetch
  BY FetchLen
<1>2. ASSUME NEW j \in 1 .. n
      PROVE  s[j] = IF j < i THEN Overtaken(fetches[j]) ELSE fetches[j]
  <2>1. s[j] = [fetches[j] EXCEPT !.passed = @ \/ j < i]
    BY <1>1
  <2>2. CASE j < i
    BY <1>1, <2>1, <2>2, OvertakenGood
  <2>3. CASE ~(j < i)
    BY <1>1, <2>1, <2>3, OvertakenGood
  <2> QED
    BY <2>2, <2>3
<1>3. fetches' = RemoveAt(s, i) /\ DOMAIN s = 1 .. n
  BY <1>1 DEF Settled
<1> HIDE DEF s
<1>4. \A j \in 1 .. n : s[j] \in Fetch
  BY <1>1, <1>2, OvertakenGood
<1>5. s = [j \in 1 .. n |-> s[j]]
  BY <1>3 DEF s
<1>6. s \in [1 .. n -> Fetch]
  BY <1>4, <1>5
<1>7. s \in Seq(Fetch) /\ Len(s) = n
  BY <1>1, <1>6, SeqDef, LenProperties
<1>8. /\ fetches' \in Seq(Fetch) /\ Len(fetches') = n - 1
      /\ \A j \in 1 .. n - 1 : fetches'[j] = IF j < i THEN s[j] ELSE s[j + 1]
  BY <1>1, <1>3, <1>7, RemoveAtFacts
<1>9. DOMAIN fetches' = 1 .. n - 1
  BY <1>8, LenProperties
<1>10. ASSUME NEW j \in 1 .. n - 1
       PROVE  fetches'[j] = IF j < i THEN Overtaken(fetches[j]) ELSE fetches[j + 1]
  <2>1. i \in 1 .. n /\ j \in 1 .. n /\ j + 1 \in 1 .. n /\ (~(j < i) => ~(j + 1 < i))
    BY <1>1
  <2> QED
    BY <1>2, <1>8, <2>1
<1> QED
  BY <1>8, <1>9, <1>10 DEF FetchInv

-----------------------------------------------------------------------------
(* What an answer will show *)

StageOut(l) == editor.pc = "stage" /\ editor.req = "sent" /\ editor.lead = l

\* The list the server reads is what the database has.
LEMMA ListingGood ==
  ASSUME db \in [Leads -> Row], NEW S \in SUBSET Leads
  PROVE  /\ Listing(S) \in Grids
         /\ S = filter => \A l \in Leads : Matches(Listing(S), l)
<1> DEFINE T == {k \in S : Visible(k)}
<1>1. \A l \in Leads : View(db[l]) \in Shown /\ <<View(db[l]).stage, View(db[l]).owner>> = <<db[l].stage, db[l].owner>>
  BY DEF View, Row, Shown
<1>2. Listing(S) = [l \in T |-> View(db[l])] /\ T \in SUBSET Leads
  BY DEF Listing
<1>3. Listing(S) \in [T -> Shown]
  BY <1>1, <1>2
<1>4. Listing(S) \in Grids
  BY <1>2, <1>3 DEF Grids
<1>5. ASSUME S = filter, NEW l \in Leads PROVE Matches(Listing(S), l)
  BY <1>1, <1>2, <1>5 DEF Matches
<1> QED
  BY <1>4, <1>5

\* A list that has just been asked for will show everything.
LEMMA AskedAnswers ==
  ASSUME FetchInv, filter' \in SUBSET Leads, NEW b \in BOOLEAN, FetchData(fetches, filter', b)
  PROVE  LastAnswers'
<1>1. fetches' # << >> /\ LastAsked' = Request(filter', b)
  BY OneMore
<1>2. LastAsked'.of = filter' /\ LastAsked'.read = FALSE
  BY <1>1 DEF Request
<1> QED
  BY <1>1, <1>2 DEF LastAnswers

\* Nothing changes what is coming or is shown.
LEMMA FrameAnswers ==
  ASSUME LastAnswers, UNCHANGED <<fetches, filter, viewer, error, late>>,
         \A l \in Leads : heard'[l] = db'[l].v => heard[l] = db[l].v /\ db'[l] = db[l],
         \A l \in Leads : heard'[l] = db'[l].v /\ (Matches(grid, l) \/ StageOut(l)) => Matches(grid, l)' \/ StageOut(l)'
  PROVE  LastAnswers'
<1> SUFFICES ASSUME NEW l \in Leads, heard'[l] = db'[l].v
             PROVE  IF fetches # << >>
                    THEN LastAsked'.passed \/ (LastAsked'.of = filter' /\ (LastAsked'.read => Matches(LastAsked.rows, l)'))
                    ELSE error' \/ late' \/ Matches(grid, l)' \/ StageOut(l)'
  BY DEF LastAnswers, StageOut
<1>1. heard[l] = db[l].v /\ db'[l] = db[l] /\ LastAsked' = LastAsked
  BY DEF LastAsked
<1>2. Visible(l)' <=> Visible(l)
  BY <1>1 DEF Visible
<1>3. Matches(LastAsked.rows, l) => Matches(LastAsked.rows, l)'
  BY <1>1, <1>2 DEF Matches
<1>4. CASE fetches # << >>
  BY <1>1, <1>3, <1>4 DEF LastAnswers
<1>5. CASE fetches = << >>
  BY <1>1, <1>5 DEF LastAnswers, StageOut
<1> QED
  BY <1>4, <1>5

\* The server reads a list.
LEMMA ReadAnswers ==
  ASSUME LastAnswers, FetchInv, db \in [Leads -> Row], NEW i \in DOMAIN fetches, ListLeads(i)
  PROVE  FetchInv' /\ LastAnswers' /\ Len(fetches') = Len(fetches) /\ \A j \in DOMAIN fetches : fetches'[j].save = fetches[j].save
<1>1. fetches[i] \in Fetch /\ fetches[i].of \in SUBSET Leads /\ i \in 1 .. Len(fetches) /\ Len(fetches) \in Nat
  BY FetchLen DEF Fetch
<1>2. Listing(fetches[i].of) \in Grids
  BY <1>1, ListingGood
<1> DEFINE f == [fetches[i] EXCEPT !.read = TRUE, !.rows = Listing(fetches[i].of)]
<1>3. /\ f.of = fetches[i].of /\ f.save = fetches[i].save /\ f.passed = fetches[i].passed
      /\ f.rows = Listing(fetches[i].of)
  BY <1>1 DEF Fetch
<1>4. /\ FetchInv' /\ Len(fetches') = Len(fetches)
      /\ \A j \in DOMAIN fetches : fetches'[j] = IF j = i THEN f ELSE fetches[j]
  BY <1>2, OneRead
<1> HIDE DEF f
<1>5. UNCHANGED <<db, heard, filter, viewer, grid, error, late, editor>>
  BY DEF ListLeads, server, save
<1>6. fetches # << >> /\ fetches' # << >>
  BY <1>1, <1>4, FetchLen, EmptySeq DEF FetchInv
<1>7. Len(fetches) \in DOMAIN fetches /\ LastAsked' = IF Len(fetches) = i THEN f ELSE LastAsked
  BY <1>1, <1>4, FetchLen DEF LastAsked
<1>8. ASSUME NEW l \in Leads, heard'[l] = db'[l].v
      PROVE  LastAsked'.passed \/ (LastAsked'.of = filter' /\ (LastAsked'.read => Matches(LastAsked'.rows, l)))
  <2>1. LastAsked.passed \/ (LastAsked.of = filter /\ (LastAsked.read => Matches(LastAsked.rows, l)))
    BY <1>5, <1>6, <1>8 DEF LastAnswers
  <2>2. CASE Len(fetches) = i
    <3>1. LastAsked = fetches[i] /\ LastAsked' = f
      BY <1>7, <2>2 DEF LastAsked
    <3>2. f.of = filter => Matches(f.rows, l)
      BY <1>1, <1>3, ListingGood
    <3> QED
      BY <1>3, <1>5, <2>1, <3>1, <3>2
  <2>3. CASE Len(fetches) # i
    BY <1>5, <1>7, <2>1, <2>3
  <2> QED
    BY <2>2, <2>3
<1>9. LastAnswers'
  BY <1>5, <1>6, <1>8 DEF LastAnswers, Matches, Visible
<1> QED
  BY <1>3, <1>4, <1>9, FetchLen

\* An answer arrives: it is what was asked for last, or that is still on its way,
\* or it was overtaken.
LEMMA SettledAnswers ==
  ASSUME LastAnswers, FetchInv, NEW i \in DOMAIN fetches, Listed(i) \/ FetchFails(i)
  PROVE  LastAnswers'
<1> DEFINE n == Len(fetches)
<1>1. n \in Nat /\ i \in 1 .. n /\ Settled(i) /\ \A j \in 1 .. n : fetches[j] \in Fetch
  BY FetchLen DEF Listed, FetchFails
<1>2. /\ FetchInv' /\ Len(fetches') = n - 1
      /\ \A j \in DOMAIN fetches' : fetches'[j] = IF j < i THEN Overtaken(fetches[j]) ELSE fetches[j + 1]
  BY <1>1, OneSettled
<1>3. DOMAIN fetches' = 1 .. n - 1 /\ (fetches' # << >> <=> n - 1 > 0)
  BY <1>2, LenProperties, EmptySeq DEF FetchInv
<1>4. UNCHANGED <<db, heard, filter, viewer>> /\ late' = fetches[i].passed
  BY <1>1 DEF Settled, server
<1>5. fetches # << >>
  BY <1>1, FetchLen
<1> SUFFICES ASSUME NEW l \in Leads, heard'[l] = db'[l].v
             PROVE  IF fetches' # << >>
                    THEN LastAsked'.passed \/ (LastAsked'.of = filter' /\ (LastAsked'.read => Matches(LastAsked.rows, l)'))
                    ELSE error' \/ late' \/ Matches(grid, l)' \/ StageOut(l)'
  BY DEF LastAnswers, StageOut
<1>6. LastAsked = fetches[n]
  BY DEF LastAsked
<1>7. fetches[n].passed \/ (fetches[n].of = filter /\ (fetches[n].read => Matches(fetches[n].rows, l)))
  BY <1>4, <1>5, <1>6 DEF LastAnswers
<1>8. CASE n - 1 > 0
  <2>1. LastAsked' = fetches'[n - 1] /\ n - 1 \in DOMAIN fetches'
    BY <1>1, <1>2, <1>3, <1>8 DEF LastAsked
  <2>2. CASE i = n
    <3>1. LastAsked' = Overtaken(fetches[n - 1]) /\ fetches[n - 1] \in Fetch
      BY <1>1, <1>2, <1>3, <1>8, <2>1, <2>2
    <3> QED
      BY <1>3, <1>8, <3>1, OvertakenGood
  <2>3. CASE i # n
    <3>1. LastAsked' = fetches[n]
      BY <1>1, <1>2, <2>1, <2>3
    <3> QED
      BY <1>3, <1>4, <1>6, <1>7, <1>8, <3>1 DEF Matches, Visible
  <2> QED
    BY <2>2, <2>3
<1>9. CASE ~(n - 1 > 0)
  <2>1. i = n /\ fetches' = << >>
    BY <1>1, <1>3, <1>9
  <2>2. CASE FetchFails(i)
    BY <2>1, <2>2 DEF FetchFails
  <2>3. CASE Listed(i)
    <3>1. fetches[n].read /\ grid' = fetches[n].rows
      BY <2>1, <2>3 DEF Listed
    <3>2. late' = fetches[n].passed
      BY <1>4, <2>1
    <3>3. CASE fetches[n].passed
      BY <2>1, <3>2, <3>3
    <3>4. CASE ~fetches[n].passed
      BY <1>4, <1>7, <2>1, <3>1, <3>4 DEF Matches, Visible
    <3> QED
      BY <3>3, <3>4
  <2> QED
    BY <2>2, <2>3
<1> QED
  BY <1>8, <1>9

\* A deleted lead is dropped: whatever is on its way is overtaken.
LEMMA DroppedAnswers ==
  ASSUME LastAnswers, FetchInv, NEW l \in Leads, RemoveLeadById(l), ~db[l].alive,
         UNCHANGED <<db, filter, viewer, error, late, editor>>, \A k \in Leads \ {l} : heard'[k] = heard[k]
  PROVE  FetchInv' /\ LastAnswers'
<1>1. fetches' = [j \in DOMAIN fetches |-> Overtaken(fetches[j])]
  BY DEF RemoveLeadById, Overtaken
<1>2. FetchInv' /\ Len(fetches') = Len(fetches) /\ \A j \in DOMAIN fetches : fetches'[j] = Overtaken(fetches[j])
  BY <1>1, AllPassed
<1>3. CASE fetches # << >>
  <2>1. fetches' # << >> /\ Len(fetches) \in DOMAIN fetches
    BY <1>2, <1>3, FetchLen, EmptySeq DEF FetchInv
  <2>2. LastAsked'.passed
    BY <1>2, <2>1, FetchLen, OvertakenGood DEF LastAsked
  <2> QED
    BY <1>2, <2>1, <2>2 DEF LastAnswers
<1>4. CASE fetches = << >>
  <2>1. fetches' = << >>
    BY <1>2, <1>4, FetchLen, EmptySeq DEF FetchInv
  <2>2. grid' = [k \in DOMAIN grid \ {l} |-> grid[k]]
    BY DEF RemoveLeadById
  <2>3. Matches(grid, l)'
    BY <2>2 DEF Matches, Visible
  <2>4. ASSUME NEW k \in Leads \ {l} PROVE Matches(grid, k) => Matches(grid, k)'
    BY <2>2 DEF Matches, Visible
  <2> QED
    BY <1>2, <1>4, <2>1, <2>3, <2>4 DEF LastAnswers
<1> QED
  BY <1>3, <1>4

-----------------------------------------------------------------------------
(* The server's side *)

\* A lead is written: its version grows, and a lead that is gone stays gone.
LEMMA WriteKeeps ==
  ASSUME DbInv, NEW l \in Leads, NEW row \in Row, db[l].alive,
         row.v = db[l].v + 1, row.theirs <= row.v,
         db' = [db EXCEPT ![l] = row], UNCHANGED heard
  PROVE  /\ db' \in [Leads -> Row] /\ db'[l] = row /\ \A k \in Leads \ {l} : db'[k] = db[k]
         /\ \A k \in Leads : db'[k].theirs <= db'[k].v /\ heard'[k] <= db'[k].v
         /\ \A k \in Leads : heard'[k] = db'[k].v => k # l
         /\ WireIsPast => \A i \in DOMAIN wire : LET e == wire[i] IN
                            e.v <= db'[e.lead].v /\ (e.type = "deleted" => ~db'[e.lead].alive)
<1>1. db \in [Leads -> Row] /\ heard \in [Leads -> Nat] /\ wire \in Seq(Event)
  BY DEF DbInv
<1>2. db' \in [Leads -> Row] /\ db'[l] = row /\ \A k \in Leads \ {l} : db'[k] = db[k]
  BY <1>1
<1>3. \A k \in Leads : db[k].v \in Nat /\ heard[k] \in Nat /\ db[k].theirs <= db[k].v /\ heard[k] <= db[k].v
  BY <1>1 DEF DbInv, Row
<1>4. \A k \in Leads : db'[k].theirs <= db'[k].v /\ heard'[k] <= db'[k].v /\ (heard'[k] = db'[k].v => k # l)
  BY <1>2, <1>3
<1>5. \A i \in DOMAIN wire : wire[i] \in Event
  BY <1>1, LenProperties, ElementOfSeq
<1>6. ASSUME WireIsPast, NEW i \in DOMAIN wire
      PROVE  wire[i].v <= db'[wire[i].lead].v /\ (wire[i].type = "deleted" => ~db'[wire[i].lead].alive)
  <2>1. wire[i].lead \in Leads /\ wire[i].v \in Nat
    BY <1>5, <1>6 DEF Event
  <2>2. wire[i].v <= db[wire[i].lead].v /\ (wire[i].type = "deleted" => ~db[wire[i].lead].alive)
    BY <1>6 DEF WireIsPast
  <2> QED
    BY <1>2, <1>3, <2>1, <2>2
<1> QED
  BY <1>2, <1>4, <1>6

LEMMA OtherChange ==
  ASSUME DbInv, NEW l \in Leads, NEW type \in {"updated", "deleted"}, NEW row \in Row,
         row.v = db[l].v + 1, row.theirs <= row.v, type = "deleted" => ~row.alive,
         ChangeByOther(l, type, row)
  PROVE  DbInv' /\ \A k \in Leads : heard'[k] = db'[k].v => heard[k] = db[k].v /\ db'[k] = db[k]
<1>1. db[l].alive /\ db' = [db EXCEPT ![l] = row] /\ UNCHANGED heard
  BY DEF ChangeByOther, tab
<1>2. /\ db' \in [Leads -> Row] /\ db'[l] = row /\ \A k \in Leads \ {l} : db'[k] = db[k]
      /\ \A k \in Leads : db'[k].theirs <= db'[k].v /\ heard'[k] <= db'[k].v
      /\ \A k \in Leads : heard'[k] = db'[k].v => k # l
      /\ \A i \in DOMAIN wire : LET e == wire[i] IN
           e.v <= db'[e.lead].v /\ (e.type = "deleted" => ~db'[e.lead].alive)
  BY <1>1, WriteKeeps DEF DbInv
<1>3. CASE UNCHANGED wire
  BY <1>1, <1>2, <1>3 DEF DbInv, WireIsPast
<1>4. CASE wire' = Append(wire, [type |-> type, lead |-> l, v |-> row.v])
  <2> DEFINE e == [type |-> type, lead |-> l, v |-> row.v]
  <2>1. e \in Event /\ wire \in Seq(Event)
    BY DEF Event, Row, DbInv
  <2>2. /\ wire' \in Seq(Event) /\ Len(wire') = Len(wire) + 1
        /\ \A i \in 1 .. Len(wire) : wire'[i] = wire[i]
        /\ wire'[Len(wire) + 1] = e
    BY <1>4, <2>1, AppendProperties
  <2>3. DOMAIN wire = 1 .. Len(wire) /\ DOMAIN wire' = 1 .. Len(wire) + 1 /\ Len(wire) \in Nat
    BY <2>1, <2>2, LenProperties
  <2>4. row.v <= db'[l].v /\ (type = "deleted" => ~db'[l].alive)
    BY <1>2 DEF Row
  <2>5. WireIsPast'
    <3> SUFFICES ASSUME NEW i \in DOMAIN wire'
                 PROVE  wire'[i].v <= db'[wire'[i].lead].v /\ (wire'[i].type = "deleted" => ~db'[wire'[i].lead].alive)
      BY DEF WireIsPast
    <3>1. CASE i \in 1 .. Len(wire)
      BY <1>2, <2>2, <2>3, <3>1
    <3>2. CASE i = Len(wire) + 1
      BY <2>2, <2>4, <3>2
    <3> QED
      BY <2>3, <3>1, <3>2
  <2> QED
    BY <1>1, <1>2, <2>2, <2>5 DEF DbInv
<1>5. UNCHANGED wire \/ wire' = Append(wire, [type |-> type, lead |-> l, v |-> row.v])
  BY DEF ChangeByOther, Publish
<1> QED
  BY <1>1, <1>2, <1>3, <1>4, <1>5

MovedRow(r, stage, owner) == [r EXCEPT !.stage = stage, !.owner = owner, !.v = @ + 1, !.theirs = r.v + 1]

LEMMA RowMoved ==
  ASSUME NEW r \in Row, NEW stage \in Stages, NEW owner \in Owners
  PROVE  MovedRow(r, stage, owner) \in Row /\ MovedRow(r, stage, owner).v = r.v + 1
         /\ MovedRow(r, stage, owner).theirs = r.v + 1
<1> DEFINE n == r.v + 1
<1> DEFINE row == [r EXCEPT !.stage = stage, !.owner = owner, !.v = n, !.theirs = n]
<1>0. MovedRow(r, stage, owner) = row /\ n \in Nat
  BY DEF MovedRow, Row
<1>1. row \in Row
  BY <1>0 DEF Row
<1> HIDE DEF n
<1> DEFINE a == [r EXCEPT !.stage = stage]
<1> DEFINE b == [a EXCEPT !.owner = owner]
<1> DEFINE c == [b EXCEPT !.v = n]
<1>2. a \in Row
  BY DEF Row
<1>3. row = [c EXCEPT !.theirs = n]
  OBVIOUS
<1> HIDE DEF a, row
<1>4. b \in Row
  BY <1>2 DEF Row
<1> HIDE DEF b
<1>5. c \in Row /\ c.v = n
  BY <1>0, <1>4 DEF Row
<1> HIDE DEF c
<1>6. row.v = n /\ row.theirs = n
  BY <1>3, <1>5 DEF Row
<1> QED
  BY <1>0, <1>1, <1>6 DEF row, n

LEMMA OtherSteps ==
  ASSUME DbInv, NEW l \in Leads,
         OtherDeletes(l) \/ \E e \in TheirEdits : OtherUpdates(l, e[1], e[2])
  PROVE  /\ DbInv' /\ \A k \in Leads : heard'[k] = db'[k].v => heard[k] = db[k].v /\ db'[k] = db[k]
         /\ edits' = edits + 1 /\ UNCHANGED <<tab, save>>
<1>1. db[l] \in Row /\ db[l].v \in Nat
  BY DEF DbInv, Row
<1>2. CASE OtherDeletes(l)
  <2> DEFINE row == [db[l] EXCEPT !.alive = FALSE, !.v = @ + 1, !.theirs = db[l].v + 1]
  <2>1. row \in Row /\ row.v = db[l].v + 1 /\ row.theirs <= row.v /\ ~row.alive
    <3>1. db[l].v + 1 \in Nat /\ row = [db[l] EXCEPT !.alive = FALSE, !.v = db[l].v + 1, !.theirs = db[l].v + 1]
      BY <1>1
    <3>2. row \in Row
      BY <1>1, <3>1 DEF Row
    <3>3. row.v = db[l].v + 1 /\ row.theirs = db[l].v + 1 /\ row.alive = FALSE
      BY <1>1, <3>1 DEF Row
    <3> QED
      BY <1>1, <3>2, <3>3
  <2>2. ChangeByOther(l, "deleted", row)
    BY <1>2 DEF OtherDeletes
  <2> HIDE DEF row
  <2>3. DbInv' /\ \A k \in Leads : heard'[k] = db'[k].v => heard[k] = db[k].v /\ db'[k] = db[k]
    BY <2>1, <2>2, OtherChange
  <2> QED
    BY <2>2, <2>3 DEF ChangeByOther
<1>3. ASSUME NEW stage \in Stages, NEW owner \in Owners, OtherUpdates(l, stage, owner)
      PROVE  /\ DbInv' /\ \A k \in Leads : heard'[k] = db'[k].v => heard[k] = db[k].v /\ db'[k] = db[k]
             /\ edits' = edits + 1 /\ UNCHANGED <<tab, save>>
  <2> DEFINE row == MovedRow(db[l], stage, owner)
  <2>1. row \in Row /\ row.v = db[l].v + 1 /\ row.theirs <= row.v
    BY <1>1, RowMoved
  <2>2. ChangeByOther(l, "updated", row)
    BY <1>3 DEF OtherUpdates, MovedRow
  <2> HIDE DEF row
  <2>3. DbInv' /\ \A k \in Leads : heard'[k] = db'[k].v => heard[k] = db[k].v /\ db'[k] = db[k]
    BY <2>1, <2>2, OtherChange
  <2> QED
    BY <2>2, <2>3 DEF ChangeByOther
<1>4. \A e \in TheirEdits : e[1] \in Stages /\ e[2] \in Owners
  BY GridAssumption
<1> QED
  BY <1>2, <1>3, <1>4

\* An event arrives.
LEMMA EventArrives ==
  ASSUME DbInv, OnEvent
  PROVE  /\ DbInv'
         /\ \E l \in Leads : /\ \A k \in Leads \ {l} : heard'[k] = heard[k]
                             /\ \/ RemoveLeadById(l) /\ ~db[l].alive
                                \/ FetchData(fetches, filter, FALSE) /\ UNCHANGED grid
<1> DEFINE e == Head(wire)
<1>1. wire # << >> /\ wire \in Seq(Event) /\ heard \in [Leads -> Nat] /\ db \in [Leads -> Row]
  BY DEF OnEvent, DbInv
<1>2. /\ e \in Event /\ Tail(wire) \in Seq(Event) /\ Len(Tail(wire)) = Len(wire) - 1
      /\ \A i \in 1 .. Len(wire) - 1 : Tail(wire)[i] = wire[i + 1]
  BY <1>1, HeadTailProperties
<1>3. e = wire[1] /\ Len(wire) \in Nat \ {0} /\ DOMAIN wire = 1 .. Len(wire)
  BY <1>1, EmptySeq, LenProperties
<1>4. wire' = Tail(wire) /\ heard' = [heard EXCEPT ![e.lead] = e.v] /\ UNCHANGED db
  BY DEF OnEvent
<1>5. e.v <= db[e.lead].v /\ (e.type = "deleted" => ~db[e.lead].alive)
  BY <1>3 DEF DbInv, WireIsPast
<1>6. e.lead \in Leads /\ e.v \in Nat
  BY <1>2 DEF Event
<1>7. \/ e.type = "deleted" /\ RemoveLeadById(e.lead)
      \/ FetchData(fetches, filter, FALSE) /\ UNCHANGED grid
  BY DEF OnEvent
<1> HIDE DEF e
<1>8. /\ heard' \in [Leads -> Nat] /\ heard'[e.lead] = e.v /\ \A k \in Leads \ {e.lead} : heard'[k] = heard[k]
  BY <1>1, <1>4, <1>6
<1>9. \A l \in Leads : db'[l].theirs <= db'[l].v /\ heard'[l] <= db'[l].v
  BY <1>4, <1>5, <1>8 DEF DbInv
<1>10. DOMAIN wire' = 1 .. Len(wire) - 1
  BY <1>2, <1>4, LenProperties
<1>11. WireIsPast'
  <2> SUFFICES ASSUME NEW i \in DOMAIN wire'
               PROVE  wire'[i].v <= db'[wire'[i].lead].v /\ (wire'[i].type = "deleted" => ~db'[wire'[i].lead].alive)
    BY DEF WireIsPast
  <2>1. i + 1 \in DOMAIN wire /\ wire'[i] = wire[i + 1]
    BY <1>2, <1>3, <1>4, <1>10
  <2> QED
    BY <1>4, <2>1 DEF DbInv, WireIsPast
<1>12. DbInv'
  BY <1>1, <1>2, <1>4, <1>8, <1>9, <1>11 DEF DbInv
<1> QED
  BY <1>5, <1>6, <1>7, <1>8, <1>12

-----------------------------------------------------------------------------
(* The dialog and its save *)

LEMMA EditorKinds ==
  ASSUME EditInv
  PROVE  \/ editor = Closed /\ editor.pc = "closed"
         \/ editor \in Dialog /\ editor.pc = "open" /\ editor = Opened(editor.lead, editor.snap)
         \/ editor \in Saving /\ editor.pc \in Steps \cup {"refused"}
<1>1. CASE editor = Closed
  BY <1>1 DEF Closed
<1>2. CASE editor \in Dialog
  BY <1>2 DEF Dialog, Opened
<1>3. CASE editor \in Saving
  BY <1>3 DEF Saving
<1> QED
  BY <1>1, <1>2, <1>3 DEF EditInv

LEMMA OpenedGood ==
  ASSUME NEW l \in Leads, NEW snap \in Shown
  PROVE  Opened(l, snap) \in Dialog /\ Opened(l, snap).pc = "open"
BY DEF Opened, Dialog

\* A dialog without a request satisfies all that is said of saves.
LEMMA NoSave ==
  ASSUME editor' \in {Closed} \cup Dialog, made' \in Nat
  PROVE  EditInv' /\ editor'.pc \in {"closed", "open"}
<1>1. editor'.pc \in {"closed", "open"}
  BY DEF Closed, Dialog
<1>2. editor'.pc \notin Steps
  BY <1>1 DEF Steps
<1> QED
  BY <1>1, <1>2 DEF EditInv, MadeByFirst, Steps

\* What a save is to do does not change while it lasts.
SameSave(e, f) ==
  /\ f.lead = e.lead /\ f.snap = e.snap /\ f.stage = e.stage /\ f.owner = e.owner
  /\ f.outcome = e.outcome /\ f.due = e.due

LEMMA SameChanges ==
  ASSUME NEW e, NEW f, SameSave(e, f)
  PROVE  /\ StatusChanged(f) <=> StatusChanged(e)
         /\ FuFieldChanged(f) <=> FuFieldChanged(e)
BY DEF SameSave, StatusChanged, FuFieldChanged, AssigneeChanged

Form == [pc : Steps \cup {"refused", "open"}, lead : Leads, snap : Shown, stage : Stages, owner : Owners \cup {None},
         outcome : BOOLEAN, due : BOOLEAN, written : BOOLEAN, req : {"sent", "done"}]

LEMMA SavingIsForm == Saving \subseteq Form
  BY DEF Saving, Form

\* The ways a save moves on, one field after another.
LEMMA SentGood ==
  ASSUME NEW e \in Form, NEW pc \in Steps
  PROVE  /\ Sent(e, pc) \in Saving /\ SameSave(e, Sent(e, pc))
         /\ Sent(e, pc).pc = pc /\ Sent(e, pc).req = "sent" /\ Sent(e, pc).written = e.written
BY DEF Sent, Form, Saving, SameSave

LEMMA FieldSet ==
  ASSUME NEW e \in Saving
  PROVE  /\ [e EXCEPT !.req = "done"] \in Saving /\ SameSave(e, [e EXCEPT !.req = "done"])
         /\ [e EXCEPT !.req = "done"].pc = e.pc /\ [e EXCEPT !.req = "done"].req = "done"
         /\ [e EXCEPT !.req = "done"].written = e.written
         /\ [e EXCEPT !.written = TRUE] \in Saving /\ SameSave(e, [e EXCEPT !.written = TRUE])
         /\ [e EXCEPT !.written = TRUE].pc = e.pc /\ [e EXCEPT !.written = TRUE].req = e.req
         /\ [e EXCEPT !.written = TRUE].written = TRUE
         /\ [e EXCEPT !.pc = "refused"] \in Saving /\ [e EXCEPT !.pc = "refused"].pc = "refused"
<1>1. /\ [e EXCEPT !.req = "done"] \in Saving /\ SameSave(e, [e EXCEPT !.req = "done"])
      /\ [e EXCEPT !.req = "done"].pc = e.pc /\ [e EXCEPT !.req = "done"].req = "done"
      /\ [e EXCEPT !.req = "done"].written = e.written
  BY DEF Saving, SameSave
<1>2. /\ [e EXCEPT !.written = TRUE] \in Saving /\ SameSave(e, [e EXCEPT !.written = TRUE])
      /\ [e EXCEPT !.written = TRUE].pc = e.pc /\ [e EXCEPT !.written = TRUE].req = e.req
      /\ [e EXCEPT !.written = TRUE].written = TRUE
  BY DEF Saving, SameSave
<1>3. [e EXCEPT !.pc = "refused"] \in Saving /\ [e EXCEPT !.pc = "refused"].pc = "refused"
  BY DEF Saving, Steps
<1> QED
  BY <1>1, <1>2, <1>3

LEMMA StepNames ==
  /\ "stage" \in Steps /\ "outcome" \in Steps /\ "owner" \in Steps /\ "due" \in Steps
  /\ "open" \notin Steps /\ "closed" \notin Steps /\ "refused" \notin Steps /\ "end" \notin Steps
  BY DEF Steps

\* The first request of a save that changes something.
LEMMA FirstIsAStep ==
  ASSUME NEW e, e.outcome \in BOOLEAN, AnyFieldChanged(e)
  PROVE  /\ FirstStep(e) \in Steps
         /\ FirstStep(e) = "stage" <=> StatusChanged(e)
         /\ FirstStep(e) = "due" => FuFieldChanged(e)
BY DEF AnyFieldChanged, FirstStep, AssigneeStep, DueStep, AutoAssign, Steps

\* The next is never one that only an unwritten save makes.
LEMMA NextIsOwner ==
  ASSUME NEW e, StepAfter(e) # "end"
  PROVE  StepAfter(e) = "owner"
BY DEF StepAfter, AssigneeStep, DueStep

LEMMA PressGood ==
  ASSUME EditInv, NEW stage \in Stages, NEW owner \in Owners \cup {None}, NEW outcome \in BOOLEAN, NEW due \in BOOLEAN,
         HandleSave(stage, owner, outcome, due)
  PROVE  /\ EditInv' /\ editor' \in Saving /\ editor'.pc \in Steps /\ editor'.req = "sent"
         /\ editor.pc = "open" /\ editor'.lead = editor.lead /\ editor.lead \in Leads
         /\ \/ UNCHANGED grid
            \/ /\ editor'.pc = "stage" /\ editor.lead \in DOMAIN grid
               /\ grid' = [grid EXCEPT ![editor.lead].stage = stage]
<1> DEFINE e == [pc |-> "open", lead |-> editor.lead, snap |-> editor.snap, stage |-> stage, owner |-> owner,
                 outcome |-> outcome, due |-> due, written |-> FALSE, req |-> "sent"]
<1>1. editor.pc = "open" /\ editor.lead \in Leads /\ editor.snap \in Shown
  BY EditorKinds, StepNames DEF HandleSave, Dialog
<1>2. e \in Form /\ e.outcome = outcome /\ e.written = FALSE /\ e.lead = editor.lead /\ e.stage = stage
  BY <1>1 DEF Form
<1>3. AnyFieldChanged(e) /\ editor' = Sent(e, FirstStep(e)) /\ grid' = Optimistic(e) /\ made' = 0
  BY DEF HandleSave
<1> HIDE DEF e
<1>4. /\ FirstStep(e) \in Steps /\ (FirstStep(e) = "stage" <=> StatusChanged(e))
      /\ FirstStep(e) = "due" => FuFieldChanged(e)
  BY <1>2, <1>3, FirstIsAStep
<1>5. /\ editor' \in Saving /\ SameSave(e, editor') /\ editor'.pc = FirstStep(e)
      /\ editor'.req = "sent" /\ editor'.written = FALSE
  BY <1>2, <1>3, <1>4, SentGood
<1>6. (StatusChanged(editor') <=> StatusChanged(e)) /\ (FuFieldChanged(editor') <=> FuFieldChanged(e))
  BY <1>5, SameChanges
<1>7. MadeByFirst'
  BY <1>3, <1>4, <1>5, <1>6 DEF MadeByFirst
<1>8. EditInv'
  BY <1>3, <1>5, <1>7 DEF EditInv
<1>9. grid' = IF StatusChanged(e) /\ e.lead \in DOMAIN grid THEN [grid EXCEPT ![e.lead].stage = e.stage] ELSE grid
  BY <1>3 DEF Optimistic
<1>10. editor'.lead = editor.lead
  BY <1>2, <1>5 DEF SameSave
<1> QED
  BY <1>1, <1>2, <1>4, <1>5, <1>8, <1>9, <1>10

LEMMA WriteGood ==
  ASSUME EditInv, ServerWrites
  PROVE  EditInv' /\ editor'.pc = editor.pc /\ editor.pc \in Steps /\ editor \in Saving /\ editor'.req = "done"
<1>1. editor \in Saving /\ editor.pc \in Steps /\ editor.req = "sent"
  BY EditorKinds, StepNames DEF ServerWrites
<1>2. editor' = [editor EXCEPT !.req = "done"] /\ made' = made + (IF CarriesFollowUp(editor) THEN 1 ELSE 0)
  BY DEF ServerWrites
<1>3. /\ editor' \in Saving /\ SameSave(editor, editor') /\ editor'.pc = editor.pc
      /\ editor'.req = "done" /\ editor'.written = editor.written
  BY <1>1, <1>2, FieldSet
<1>4. (StatusChanged(editor') <=> StatusChanged(editor)) /\ (FuFieldChanged(editor') <=> FuFieldChanged(editor))
  BY <1>3, SameChanges
<1>5. /\ editor.pc = "stage" => StatusChanged(editor)
      /\ editor.pc = "due" => FuFieldChanged(editor)
      /\ made = IF FuFieldChanged(editor) /\ editor.written THEN 1 ELSE 0
  BY <1>1 DEF EditInv, MadeByFirst
<1>6. made' = IF FuFieldChanged(editor) THEN 1 ELSE 0
  BY <1>2, <1>5 DEF CarriesFollowUp
<1>7. MadeByFirst'
  BY <1>3, <1>4, <1>5, <1>6 DEF MadeByFirst
<1> QED
  BY <1>1, <1>3, <1>6, <1>7 DEF EditInv

LEMMA NextGood ==
  ASSUME EditInv, NextRequest
  PROVE  EditInv' /\ editor'.pc = "owner" /\ editor.pc \in Steps /\ editor.req = "done"
<1>1. editor \in Saving /\ editor.pc \in Steps /\ editor.req = "done" /\ StepAfter(editor) # "end"
  BY EditorKinds, StepNames DEF NextRequest
<1> DEFINE s == Sent(editor, "owner")
<1>2. editor' = [s EXCEPT !.written = TRUE] /\ made' = made
  BY <1>1, NextIsOwner DEF NextRequest
<1>3. s \in Saving /\ SameSave(editor, s) /\ s.pc = "owner" /\ s.req = "sent"
  BY <1>1, SavingIsForm, SentGood, StepNames
<1> HIDE DEF s
<1>4. /\ editor' \in Saving /\ SameSave(s, editor') /\ editor'.pc = "owner" /\ editor'.req = "sent" /\ editor'.written = TRUE
  BY <1>2, <1>3, FieldSet
<1>5. FuFieldChanged(editor') <=> FuFieldChanged(editor)
  BY <1>3, <1>4, SameChanges
<1>6. made' = IF FuFieldChanged(editor) THEN 1 ELSE 0
  BY <1>1, <1>2 DEF EditInv, MadeByFirst
<1>7. MadeByFirst'
  BY <1>4, <1>5, <1>6 DEF MadeByFirst
<1> QED
  BY <1>1, <1>4, <1>6, <1>7 DEF EditInv

-----------------------------------------------------------------------------
(* Who waits for a list *)

LEMMA WaitOneMore ==
  ASSUME FetchInv, WaitInv, NEW of \in SUBSET Leads, NEW b \in BOOLEAN, FetchData(fetches, of, b),
         editor.pc = "refused" => ~b /\ editor'.pc = "refused",
         editor.pc # "refused" => (editor'.pc = "refused" <=> b)
  PROVE  WaitInv'
<1>1. /\ FetchInv' /\ Len(fetches') = Len(fetches) + 1
      /\ \A i \in DOMAIN fetches : fetches'[i] = fetches[i]
      /\ LastAsked' = Request(of, b)
  BY OneMore
<1>2. DOMAIN fetches = 1 .. Len(fetches) /\ Len(fetches) \in Nat /\ DOMAIN fetches' = 1 .. Len(fetches) + 1
  BY <1>1, FetchLen, LenProperties DEF FetchInv
<1>3. fetches'[Len(fetches) + 1].save = b
  BY <1>1 DEF LastAsked, Request
<1>4. CASE editor.pc = "refused"
  <2>1. PICK i \in DOMAIN fetches : \A j \in DOMAIN fetches : fetches[j].save <=> j = i
    BY <1>4 DEF WaitInv
  <2>2. i \in DOMAIN fetches' /\ \A j \in DOMAIN fetches' : fetches'[j].save <=> j = i
    BY <1>1, <1>2, <1>3, <1>4, <2>1
  <2> QED
    BY <1>4, <2>2 DEF WaitInv
<1>5. CASE editor.pc # "refused" /\ ~b
  BY <1>1, <1>2, <1>3, <1>5 DEF WaitInv
<1>6. CASE editor.pc # "refused" /\ b
  <2>1. \A j \in DOMAIN fetches' : fetches'[j].save <=> j = Len(fetches) + 1
    <3> SUFFICES ASSUME NEW j \in DOMAIN fetches'
                 PROVE  fetches'[j].save <=> j = Len(fetches) + 1
      OBVIOUS
    <3>1. CASE j \in DOMAIN fetches
      <4>1. ~fetches[j].save /\ j # Len(fetches) + 1
        BY <1>2, <1>6, <3>1 DEF WaitInv
      <4> QED
        BY <1>1, <3>1, <4>1
    <3>2. CASE j = Len(fetches) + 1
      BY <1>3, <1>6, <3>2
    <3> QED
      BY <1>2, <3>1, <3>2
  <2>2. Len(fetches) + 1 \in DOMAIN fetches'
    BY <1>2
  <2> QED
    BY <1>6, <2>1, <2>2 DEF WaitInv
<1> QED
  BY <1>4, <1>5, <1>6

LEMMA WaitSame ==
  ASSUME WaitInv, DOMAIN fetches' = DOMAIN fetches,
         \A j \in DOMAIN fetches : fetches'[j].save = fetches[j].save,
         editor'.pc = "refused" <=> editor.pc = "refused"
  PROVE  WaitInv'
BY DEF WaitInv

LEMMA SettledEditor ==
  ASSUME FetchInv, WaitInv, EditInv, NEW i \in DOMAIN fetches, Settled(i)
  PROVE  WaitInv' /\ EditInv'
<1>1. /\ FetchInv' /\ Len(fetches') = Len(fetches) - 1
      /\ \A j \in DOMAIN fetches' : fetches'[j] = IF j < i THEN Overtaken(fetches[j]) ELSE fetches[j + 1]
  BY OneSettled
<1>2. /\ DOMAIN fetches = 1 .. Len(fetches) /\ Len(fetches) \in Nat /\ DOMAIN fetches' = 1 .. Len(fetches) - 1
      /\ i \in 1 .. Len(fetches)
  BY <1>1, FetchLen, LenProperties DEF FetchInv
<1>3. \A j \in DOMAIN fetches : fetches[j] \in Fetch
  BY FetchLen
<1>4. ASSUME NEW j \in DOMAIN fetches'
      PROVE  fetches'[j].save = IF j < i THEN fetches[j].save ELSE fetches[j + 1].save
  BY <1>1, <1>2, <1>3, OvertakenGood
<1>5. editor' = (IF fetches[i].save THEN Opened(editor.lead, editor.snap) ELSE editor) /\ made' = made
  BY DEF Settled
<1>6. CASE fetches[i].save
  <2>1. editor.pc = "refused" /\ \A j \in DOMAIN fetches : fetches[j].save <=> j = i
    BY <1>6 DEF WaitInv
  <2>2. editor \in Saving
    BY <2>1, EditorKinds
  <2>3. editor' \in Dialog /\ editor'.pc = "open"
    BY <1>5, <1>6, <2>2, OpenedGood DEF Saving
  <2>4. \A j \in DOMAIN fetches' : ~fetches'[j].save
    BY <1>2, <1>4, <2>1
  <2> QED
    BY <1>5, <2>3, <2>4, NoSave DEF WaitInv, EditInv
<1>7. CASE ~fetches[i].save
  <2>1. UNCHANGED <<editor, made>>
    BY <1>5, <1>7
  <2>2. EditInv'
    BY <2>1 DEF EditInv, MadeByFirst
  <2>3. CASE editor.pc = "refused"
    <3>1. PICK w \in DOMAIN fetches : \A j \in DOMAIN fetches : fetches[j].save <=> j = w
      BY <2>3 DEF WaitInv
    <3>2. w # i
      BY <1>7, <3>1
    <3> DEFINE v == IF w < i THEN w ELSE w - 1
    <3>3. v \in DOMAIN fetches' /\ \A j \in DOMAIN fetches' : fetches'[j].save <=> j = v
      BY <1>2, <1>4, <3>1, <3>2
    <3> QED
      BY <2>1, <2>2, <2>3, <3>3 DEF WaitInv
  <2>4. CASE editor.pc # "refused"
    <3>1. \A j \in DOMAIN fetches' : ~fetches'[j].save
      BY <1>2, <1>4, <2>4 DEF WaitInv
    <3> QED
      BY <2>1, <2>2, <2>4, <3>1 DEF WaitInv
  <2> QED
    BY <2>3, <2>4
<1> QED
  BY <1>6, <1>7

-----------------------------------------------------------------------------
(* Every step keeps the invariant *)

Kept == DbInv' /\ TabInv' /\ FetchInv' /\ WaitInv' /\ EditInv' /\ LastAnswers'

LEMMA InitHolds == Init => IInv
<1> SUFFICES ASSUME Init PROVE IInv
  OBVIOUS
<1>1. filter \in SUBSET Leads
  BY GridAssumption DEF Init
<1>2. Request(filter, FALSE) \in Fetch
  BY <1>1, RequestGood
<1>3. fetches = <<Request(filter, FALSE)>>
  BY DEF Init
<1>4. FetchInv /\ Len(fetches) = 1 /\ fetches[1] = Request(filter, FALSE) /\ DOMAIN fetches = {1}
  <2> DEFINE q == Request(filter, FALSE)
  <2>1. q \in Fetch /\ fetches = <<q>>
    BY <1>2, <1>3
  <2> HIDE DEF q
  <2>2. fetches \in Seq(Fetch) /\ Len(fetches) = 1 /\ fetches[1] = q
    BY <2>1
  <2>3. DOMAIN fetches = {1}
    BY <2>1, <2>2
  <2> QED
    BY <2>2, <2>3 DEF FetchInv, q
<1>5. PICK s \in Starts : viewer = s[1] /\ db = s[2]
  BY DEF Init
<1>6. viewer \in Viewer /\ db \in [Leads -> Row] /\ \A l \in Leads : db[l].theirs <= db[l].v
  BY <1>5, GridAssumption
<1>7. DbInv
  <2>1. heard \in [Leads -> Nat] /\ \A l \in Leads : heard[l] <= db[l].v
    BY <1>6 DEF Init, Row
  <2>2. wire \in Seq(Event) /\ DOMAIN wire = {}
    BY EmptySeq DEF Init
  <2> QED
    BY <1>6, <2>1, <2>2 DEF DbInv, WireIsPast
<1>8. << >> \in [{} -> Shown] /\ DOMAIN << >> = {}
  OBVIOUS
<1>9. TabInv
  BY <1>6, <1>8 DEF Init, TabInv, IsGrid
<1>10. editor = Closed /\ made \in Nat
  BY DEF Init
<1>11. EditInv /\ editor.pc = "closed"
  BY <1>10, StepNames DEF EditInv, MadeByFirst, Closed
<1>12. WaitInv
  BY <1>4, <1>11 DEF WaitInv, Request
<1>13. fetches # << >> /\ LastAsked = Request(filter, FALSE)
  BY <1>3, <1>4 DEF LastAsked
<1>14. LastAnswers
  BY <1>13 DEF LastAnswers, Request
<1> QED
  BY <1>4, <1>7, <1>9, <1>11, <1>12, <1>14, Parts

\* Steps that leave the lists, the filter and the grid alone.
LEMMA ServerSide ==
  ASSUME IInv, ServerNext
  PROVE  Kept
<1>1. DbInv /\ TabInv /\ FetchInv /\ WaitInv /\ EditInv /\ LastAnswers
  BY Parts
<1>2. ASSUME NEW l \in Leads, OtherDeletes(l) \/ \E e \in TheirEdits : OtherUpdates(l, e[1], e[2])
      PROVE  Kept
  <2>1. /\ DbInv' /\ \A k \in Leads : heard'[k] = db'[k].v => heard[k] = db[k].v /\ db'[k] = db[k]
        /\ edits' = edits + 1 /\ UNCHANGED <<tab, save>>
    BY <1>1, <1>2, OtherSteps
  <2>2. UNCHANGED <<viewer, filter, picks, grid, error, fetches, late, heard, editor, made, presses>>
    BY <2>1 DEF tab, save
  <2>3. TabInv' /\ FetchInv' /\ WaitInv' /\ EditInv'
    BY <1>1, <2>1, <2>2 DEF TabInv, FetchInv, WaitInv, EditInv, MadeByFirst, IsGrid
  <2>4. ASSUME NEW l2 \in Leads, heard'[l2] = db'[l2].v, Matches(grid, l2) \/ StageOut(l2)
        PROVE  Matches(grid, l2)' \/ StageOut(l2)'
    BY <2>1, <2>2, <2>4 DEF Matches, Visible, StageOut
  <2>5. LastAnswers'
    BY <1>1, <2>1, <2>2, <2>4, FrameAnswers
  <2> QED
    BY <2>1, <2>3, <2>5 DEF Kept
<1>3. ASSUME NEW i \in DOMAIN fetches, ListLeads(i)
      PROVE  Kept
  <2>1. FetchInv' /\ LastAnswers' /\ Len(fetches') = Len(fetches) /\ \A j \in DOMAIN fetches : fetches'[j].save = fetches[j].save
    BY <1>1, <1>3, ReadAnswers DEF DbInv
  <2>2. UNCHANGED <<db, wire, heard, viewer, filter, picks, grid, error, late, editor, made, presses, edits>>
    BY <1>3 DEF ListLeads, server, save
  <2>3. DbInv' /\ TabInv' /\ EditInv'
    BY <1>1, <2>2 DEF DbInv, WireIsPast, TabInv, EditInv, MadeByFirst, IsGrid
  <2>4. WaitInv'
    <3>1. DOMAIN fetches' = DOMAIN fetches
      BY <1>1, <2>1, FetchLen, LenProperties DEF FetchInv
    <3> QED
      BY <1>1, <2>1, <2>2, <3>1, WaitSame
  <2> QED
    BY <2>1, <2>3, <2>4 DEF Kept
<1>4. ASSUME ServerWrites PROVE Kept
  <2>1. EditInv' /\ editor'.pc = editor.pc /\ editor.pc \in Steps /\ editor \in Saving /\ editor'.req = "done"
    BY <1>1, <1>4, WriteGood
  <2> DEFINE l == editor.lead
  <2> DEFINE row == Written(editor, db[l])
  <2>2. l \in Leads /\ editor.stage \in Stages /\ editor.owner \in Owners \cup {None}
    BY <2>1 DEF Saving
  <2>3. db[l] \in Row
    BY <1>1, <2>2 DEF DbInv
  <2>4. row \in Row /\ row.v = db[l].v + 1 /\ row.theirs = db[l].theirs
    <3> DEFINE st == IF editor.pc = "stage" THEN editor.stage ELSE db[l].stage
    <3> DEFINE ow == IF editor.pc = "owner" THEN AssigneeToSet(editor) ELSE db[l].owner
    <3>1. st \in Stages /\ ow \in Owners \cup {None}
      BY <2>2, <2>3 DEF Row, AssigneeToSet, Owners
    <3>2. row = [db[l] EXCEPT !.v = @ + 1, !.stage = st, !.owner = ow]
      BY DEF Written
    <3> HIDE DEF st, ow, row
    <3> DEFINE a == [db[l] EXCEPT !.v = db[l].v + 1]
    <3> DEFINE b == [a EXCEPT !.stage = st]
    <3>3. a \in Row /\ a.v = db[l].v + 1 /\ a.theirs = db[l].theirs
      BY <2>3 DEF Row
    <3>4. row = [b EXCEPT !.owner = ow]
      BY <3>2
    <3> HIDE DEF a
    <3>5. b \in Row /\ b.v = a.v /\ b.theirs = a.theirs
      BY <3>1, <3>3 DEF Row
    <3> HIDE DEF b
    <3>6. row \in Row /\ row.v = b.v /\ row.theirs = b.theirs
      BY <3>1, <3>4, <3>5 DEF Row
    <3> QED
      BY <3>3, <3>5, <3>6
  <2>5. db[l].alive /\ db' = [db EXCEPT ![l] = row] /\ UNCHANGED <<wire, edits, tab, presses>>
    BY <1>4 DEF ServerWrites
  <2> HIDE DEF row
  <2>6. UNCHANGED <<viewer, filter, picks, grid, error, fetches, late, heard, wire, edits, presses>>
    BY <2>5 DEF tab
  <2>7. row.theirs <= row.v
    BY <1>1, <2>2, <2>3, <2>4 DEF DbInv, Row
  <2>8. /\ db' \in [Leads -> Row] /\ \A k \in Leads \ {l} : db'[k] = db[k]
        /\ \A k \in Leads : db'[k].theirs <= db'[k].v /\ heard'[k] <= db'[k].v
        /\ \A k \in Leads : heard'[k] = db'[k].v => k # l
        /\ \A i \in DOMAIN wire : LET e == wire[i] IN
             e.v <= db'[e.lead].v /\ (e.type = "deleted" => ~db'[e.lead].alive)
    BY <1>1, <2>2, <2>4, <2>5, <2>6, <2>7, WriteKeeps DEF DbInv
  <2>9. DbInv'
    BY <1>1, <2>6, <2>8 DEF DbInv, WireIsPast
  <2>10. TabInv' /\ FetchInv' /\ WaitInv'
    BY <1>1, <2>1, <2>6 DEF TabInv, FetchInv, WaitInv, IsGrid
  <2>11. ASSUME NEW k \in Leads, heard'[k] = db'[k].v
         PROVE  heard[k] = db[k].v /\ db'[k] = db[k]
    BY <2>6, <2>8, <2>11
  <2>12. ASSUME NEW k \in Leads, heard'[k] = db'[k].v, Matches(grid, k) \/ StageOut(k)
         PROVE  Matches(grid, k)' \/ StageOut(k)'
    <3>1. k # l /\ db'[k] = db[k]
      BY <2>8, <2>12
    <3> QED
      BY <2>6, <2>12, <3>1 DEF Matches, Visible, StageOut
  <2>13. LastAnswers'
    BY <1>1, <2>6, <2>11, <2>12, FrameAnswers
  <2> QED
    BY <2>1, <2>9, <2>10, <2>13 DEF Kept
<1> QED
  BY <1>2, <1>3, <1>4 DEF ServerNext

LEMMA TabSide ==
  ASSUME IInv, TabNext
  PROVE  Kept
<1>1. DbInv /\ TabInv /\ FetchInv /\ WaitInv /\ EditInv /\ LastAnswers
  BY Parts
<1>2. ASSUME NEW i \in DOMAIN fetches, Listed(i) \/ FetchFails(i)
      PROVE  Kept
  <2>1. Settled(i)
    BY <1>2 DEF Listed, FetchFails
  <2>2. FetchInv' /\ WaitInv' /\ EditInv'
    BY <1>1, <2>1, OneSettled, SettledEditor
  <2>3. LastAnswers'
    BY <1>1, <1>2, SettledAnswers
  <2>4. UNCHANGED <<db, wire, edits, viewer, filter, picks, heard, presses>> /\ late' = fetches[i].passed
    BY <2>1 DEF Settled, server
  <2>5. fetches[i] \in Fetch
    BY <1>1, FetchLen
  <2>6. IsGrid(grid') /\ error' \in BOOLEAN /\ late' \in BOOLEAN
    <3>1. late' \in BOOLEAN
      BY <2>4, <2>5 DEF Fetch
    <3>2. CASE Listed(i)
      <4>1. grid' = fetches[i].rows /\ error' = FALSE
        BY <3>2 DEF Listed
      <4>2. IsGrid(fetches[i].rows)
        BY <2>5, GridSet DEF Fetch
      <4> QED
        BY <3>1, <4>1, <4>2
    <3>3. CASE FetchFails(i)
      BY <1>1, <3>1, <3>3 DEF FetchFails, TabInv, IsGrid
    <3> QED
      BY <1>2, <3>2, <3>3
  <2>7. DbInv' /\ TabInv'
    BY <1>1, <2>4, <2>6 DEF DbInv, WireIsPast, TabInv
  <2> QED
    BY <2>2, <2>3, <2>7 DEF Kept
<1>3. ASSUME NEW f \in Filters, ChangeFilter(f)
      PROVE  Kept
  <2>1. f \in SUBSET Leads
    BY GridAssumption
  <2>2. /\ filter' = f /\ picks' = picks + 1 /\ grid' = << >> /\ FetchData(fetches, f, FALSE)
        /\ UNCHANGED <<db, wire, edits, viewer, error, late, heard, editor, made, presses>>
    BY <1>3 DEF ChangeFilter, server, save
  <2>3. FetchInv' /\ LastAnswers'
    BY <1>1, <2>1, <2>2, OneMore, AskedAnswers
  <2>4. WaitInv'
    BY <1>1, <2>1, <2>2, WaitOneMore
  <2>5. IsGrid(grid')
    <3>1. << >> \in [{} -> Shown] /\ DOMAIN << >> = {}
      OBVIOUS
    <3> QED
      BY <2>2, <3>1 DEF IsGrid
  <2>6. DbInv' /\ TabInv' /\ EditInv'
    BY <1>1, <2>2, <2>5 DEF DbInv, WireIsPast, TabInv, EditInv, MadeByFirst
  <2> QED
    BY <2>3, <2>4, <2>6 DEF Kept
<1>4. ASSUME OnEvent PROVE Kept
  <2>1. PICK l \in Leads : /\ \A k \in Leads \ {l} : heard'[k] = heard[k]
                           /\ \/ RemoveLeadById(l) /\ ~db[l].alive
                              \/ FetchData(fetches, filter, FALSE) /\ UNCHANGED grid
    BY <1>1, <1>4, EventArrives
  <2>2. DbInv' /\ UNCHANGED <<db, viewer, filter, picks, error, late, edits, editor, made, presses>>
    BY <1>1, <1>4, EventArrives DEF OnEvent, save
  <2>3. EditInv'
    BY <1>1, <2>2 DEF EditInv, MadeByFirst
  <2>4. CASE RemoveLeadById(l) /\ ~db[l].alive
    <3>1. FetchInv' /\ LastAnswers'
      BY <1>1, <2>1, <2>2, <2>4, DroppedAnswers
    <3>2. fetches' = [j \in DOMAIN fetches |-> Overtaken(fetches[j])] /\ grid' = [k \in DOMAIN grid \ {l} |-> grid[k]]
      BY <2>4 DEF RemoveLeadById, Overtaken
    <3>3. DOMAIN fetches' = DOMAIN fetches /\ \A j \in DOMAIN fetches : fetches'[j].save = fetches[j].save
      BY <1>1, <3>2, FetchLen, OvertakenGood
    <3>4. WaitInv'
      BY <1>1, <2>2, <3>3, WaitSame
    <3>5. IsGrid(grid')
      BY <1>1, <3>2 DEF TabInv, IsGrid
    <3>6. TabInv'
      BY <1>1, <2>2, <3>5 DEF TabInv
    <3> QED
      BY <2>2, <2>3, <3>1, <3>4, <3>6 DEF Kept
  <2>5. CASE FetchData(fetches, filter, FALSE) /\ UNCHANGED grid
    <3>1. filter \in SUBSET Leads /\ filter' = filter
      BY <1>1, <2>2, GridAssumption DEF TabInv
    <3>2. FetchInv' /\ LastAnswers'
      BY <1>1, <2>5, <3>1, OneMore, AskedAnswers
    <3>3. WaitInv'
      BY <1>1, <2>2, <2>5, <3>1, WaitOneMore
    <3>4. TabInv'
      BY <1>1, <2>2, <2>5 DEF TabInv, IsGrid
    <3> QED
      BY <2>2, <2>3, <3>2, <3>3, <3>4 DEF Kept
  <2> QED
    BY <2>1, <2>4, <2>5
<1> QED
  BY <1>2, <1>3, <1>4 DEF TabNext

\* This tab asks again on account of the lead it was saving.
LEMMA AsksAgainGood ==
  ASSUME DbInv, TabInv, FetchInv, WaitInv, NEW b \in BOOLEAN, AsksAgain(b), editor.lead \in Leads,
         editor.pc # "refused", editor'.pc = "refused" <=> b
  PROVE  DbInv' /\ TabInv' /\ FetchInv' /\ WaitInv' /\ LastAnswers' /\ UNCHANGED made
<1>1. /\ FetchData(fetches, filter, b) /\ heard' = [heard EXCEPT ![editor.lead] = db[editor.lead].v]
      /\ UNCHANGED <<db, wire, edits, viewer, filter, picks, grid, error, late, made, presses>>
  BY DEF AsksAgain, server
<1>2. filter \in SUBSET Leads /\ filter' = filter
  BY <1>1, GridAssumption DEF TabInv
<1>3. FetchInv' /\ LastAnswers' /\ WaitInv'
  BY <1>1, <1>2, OneMore, AskedAnswers, WaitOneMore
<1>4. db[editor.lead].v \in Nat
  BY DEF DbInv, Row
<1>5. heard' \in [Leads -> Nat] /\ \A l \in Leads : heard'[l] <= db'[l].v
  BY <1>1, <1>4 DEF DbInv
<1>6. DbInv' /\ TabInv'
  BY <1>1, <1>5 DEF DbInv, WireIsPast, TabInv, IsGrid
<1> QED
  BY <1>1, <1>3, <1>6

\* Steps of the dialog that ask for nothing and are not about a stage shown at once.
LEMMA DialogOnly ==
  ASSUME DbInv, TabInv, FetchInv, WaitInv, LastAnswers, UNCHANGED <<server, tab, presses>>, EditInv',
         editor.pc # "refused", editor'.pc # "refused", editor.pc # "stage" \/ editor.req # "sent"
  PROVE  Kept
<1>1. UNCHANGED <<db, wire, edits, viewer, filter, picks, grid, error, fetches, late, heard, presses>>
  BY DEF server, tab
<1>2. DbInv' /\ TabInv' /\ FetchInv' /\ WaitInv'
  BY <1>1 DEF DbInv, WireIsPast, TabInv, FetchInv, WaitInv, IsGrid
<1>3. ASSUME NEW l \in Leads, Matches(grid, l) \/ StageOut(l)
      PROVE  Matches(grid, l)'
  BY <1>1, <1>3 DEF StageOut, Matches, Visible
<1>4. LastAnswers'
  BY <1>1, <1>3, FrameAnswers
<1> QED
  BY <1>2, <1>4 DEF Kept

LEMMA EditorSide ==
  ASSUME IInv, EditorNext
  PROVE  Kept
<1>1. DbInv /\ TabInv /\ FetchInv /\ WaitInv /\ EditInv /\ LastAnswers
  BY Parts
<1>2. ASSUME NEW l \in Leads, OpenEditor(l) PROVE Kept
  <2>1. editor.pc = "closed" /\ grid[l] \in Shown
    BY <1>1, <1>2 DEF OpenEditor, Closed, TabInv, IsGrid
  <2>2. editor' \in Dialog /\ UNCHANGED <<server, tab, made, presses>>
    BY <1>2, <2>1, OpenedGood DEF OpenEditor
  <2>3. EditInv' /\ editor'.pc \in {"closed", "open"}
    BY <1>1, <2>2, NoSave DEF EditInv
  <2> QED
    BY <1>1, <2>1, <2>2, <2>3, DialogOnly
<1>3. ASSUME CloseEditor PROVE Kept
  <2>1. editor.pc = "open" /\ editor' = Closed /\ UNCHANGED <<server, tab, made, presses>>
    BY <1>3 DEF CloseEditor
  <2>2. EditInv' /\ editor'.pc \in {"closed", "open"}
    BY <1>1, <2>1, NoSave DEF EditInv
  <2> QED
    BY <1>1, <2>1, <2>2, DialogOnly
<1>4. ASSUME NEW stage \in Stages, NEW owner \in Owners \cup {None}, NEW outcome \in BOOLEAN, NEW due \in BOOLEAN,
             HandleSave(stage, owner, outcome, due)
      PROVE  Kept
  <2>1. /\ EditInv' /\ editor' \in Saving /\ editor'.pc \in Steps /\ editor'.req = "sent"
        /\ editor.pc = "open" /\ editor'.lead = editor.lead /\ editor.lead \in Leads
        /\ \/ UNCHANGED grid
           \/ /\ editor'.pc = "stage" /\ editor.lead \in DOMAIN grid
              /\ grid' = [grid EXCEPT ![editor.lead].stage = stage]
    BY <1>1, <1>4, PressGood
  <2>2. /\ UNCHANGED <<db, wire, edits, viewer, filter, picks, error, fetches, late, heard>>
        /\ presses' = presses + 1
    BY <1>4 DEF HandleSave, server
  <2>3. DbInv' /\ FetchInv'
    BY <1>1, <2>2 DEF DbInv, WireIsPast, FetchInv
  <2>4. WaitInv'
    BY <1>1, <2>1, <2>2, StepNames DEF WaitInv
  <2>5. IsGrid(grid') /\ \A l \in Leads : l # editor.lead \/ UNCHANGED grid => (l \in DOMAIN grid' <=> l \in DOMAIN grid) /\ grid'[l] = grid[l]
    <3>1. CASE UNCHANGED grid
      BY <1>1, <3>1 DEF TabInv, IsGrid
    <3>2. CASE editor.lead \in DOMAIN grid /\ grid' = [grid EXCEPT ![editor.lead].stage = stage]
      <4>1. grid[editor.lead] \in Shown /\ grid \in [DOMAIN grid -> Shown] /\ DOMAIN grid \subseteq Leads
        BY <1>1, <3>2 DEF TabInv, IsGrid
      <4>2. [grid[editor.lead] EXCEPT !.stage = stage] \in Shown
        BY <4>1 DEF Shown
      <4> DEFINE x == [grid[editor.lead] EXCEPT !.stage = stage]
      <4>3. grid' = [grid EXCEPT ![editor.lead] = x] /\ x \in Shown
        BY <3>2, <4>2
      <4> HIDE DEF x
      <4>4. grid' \in [DOMAIN grid -> Shown] /\ DOMAIN grid' = DOMAIN grid /\ \A l \in Leads : l # editor.lead => (l \in DOMAIN grid => grid'[l] = grid[l])
        BY <4>1, <4>3
      <4>5. \A l \in Leads : l # editor.lead => grid'[l] = grid[l]
        BY <4>3, <4>4
      <4> QED
        BY <4>1, <4>4, <4>5 DEF IsGrid
    <3> QED
      BY <2>1, <3>1, <3>2
  <2>6. TabInv'
    BY <1>1, <2>2, <2>5 DEF TabInv
  <2>7. ASSUME NEW l \in Leads, Matches(grid, l) \/ StageOut(l)
        PROVE  Matches(grid, l)' \/ StageOut(l)'
    <3>1. Matches(grid, l)
      BY <2>1, <2>7 DEF StageOut
    <3>2. CASE editor'.pc = "stage" /\ l = editor.lead
      BY <2>1, <3>2 DEF StageOut
    <3>3. CASE ~(editor'.pc = "stage" /\ l = editor.lead)
      BY <2>1, <2>2, <2>5, <3>1, <3>3 DEF Matches, Visible
    <3> QED
      BY <3>2, <3>3
  <2>8. LastAnswers'
    BY <1>1, <2>2, <2>7, FrameAnswers
  <2> QED
    BY <2>1, <2>3, <2>4, <2>6, <2>8 DEF Kept
<1>5. ASSUME NextRequest PROVE Kept
  <2>1. EditInv' /\ editor'.pc = "owner" /\ editor.pc \in Steps /\ editor.req = "done"
    BY <1>1, <1>5, NextGood
  <2>2. UNCHANGED <<server, tab, made, presses>>
    BY <1>5 DEF NextRequest
  <2> QED
    BY <1>1, <2>1, <2>2, StepNames, DialogOnly
<1>6. ASSUME SaveEnds PROVE Kept
  <2>1. editor.pc \in Steps /\ editor' = Closed /\ AsksAgain(FALSE)
    BY <1>6 DEF SaveEnds
  <2>2. editor.lead \in Leads /\ editor.pc # "refused" /\ editor'.pc = "closed"
    BY <1>1, <2>1, EditorKinds, StepNames DEF Saving, Dialog, Closed
  <2>3. DbInv' /\ TabInv' /\ FetchInv' /\ WaitInv' /\ LastAnswers' /\ UNCHANGED made
    BY <1>1, <2>1, <2>2, AsksAgainGood
  <2>4. EditInv'
    BY <1>1, <2>1, <2>3, NoSave DEF EditInv
  <2> QED
    BY <2>3, <2>4 DEF Kept
<1>7. ASSUME StageFails PROVE Kept
  <2>1. editor.pc = "stage" /\ editor' = [editor EXCEPT !.pc = "refused"] /\ AsksAgain(TRUE)
    BY <1>7 DEF StageFails
  <2>2. editor \in Saving
    BY <1>1, <2>1, EditorKinds
  <2>3. editor' \in Saving /\ editor'.pc = "refused" /\ editor.lead \in Leads
    BY <2>1, <2>2, FieldSet DEF Saving
  <2>4. DbInv' /\ TabInv' /\ FetchInv' /\ WaitInv' /\ LastAnswers' /\ UNCHANGED made
    BY <1>1, <2>1, <2>3, AsksAgainGood
  <2>5. EditInv'
    BY <1>1, <2>3, <2>4, StepNames DEF EditInv, MadeByFirst
  <2> QED
    BY <2>4, <2>5 DEF Kept
<1>8. ASSUME editor.pc \in Steps \ {"stage"}, BackToDialog PROVE Kept
  <2>1. editor \in Saving
    BY <1>1, <1>8, EditorKinds, StepNames
  <2>2. editor' \in Dialog /\ UNCHANGED <<server, tab, made, presses>>
    BY <1>8, <2>1, OpenedGood DEF BackToDialog, Saving
  <2>3. EditInv' /\ editor'.pc \in {"closed", "open"}
    BY <1>1, <2>2, NoSave DEF EditInv
  <2> QED
    BY <1>1, <1>8, <2>2, <2>3, StepNames, DialogOnly
<1> QED
  BY <1>2, <1>3, <1>4, <1>5, <1>6, <1>7, <1>8 DEF EditorNext, RequestFails

\* The parts a step keeps are the invariant after the step.
LEMMA KeptIsIInv == ASSUME Kept PROVE IInv'
<1>1. Parts'
  BY Parts, PTL
<1> QED
  BY <1>1 DEF Kept

LEMMA Stutter ==
  ASSUME IInv, UNCHANGED vars
  PROVE  IInv'
<1>1. UNCHANGED <<db, wire, viewer, filter, grid, error, fetches, late, heard, editor, made, edits, presses, picks>>
  BY DEF vars
<1>2. DbInv /\ TabInv /\ FetchInv /\ WaitInv /\ EditInv /\ LastAnswers
  BY Parts
<1>3. DbInv' /\ TabInv' /\ FetchInv' /\ WaitInv' /\ EditInv'
  BY <1>1, <1>2 DEF DbInv, WireIsPast, TabInv, IsGrid, FetchInv, WaitInv, EditInv, MadeByFirst
<1>4. LastAnswers'
  BY <1>1, <1>2 DEF LastAnswers, LastAsked, Matches, Visible
<1> QED
  BY <1>3, <1>4, KeptIsIInv DEF Kept

-----------------------------------------------------------------------------
(* The theorems *)

LEMMA Inductive == IInv /\ [Next]_vars => IInv'
<1> SUFFICES ASSUME IInv, [Next]_vars PROVE IInv'
  OBVIOUS
<1>1. CASE Next
  <2>1. Kept
    BY <1>1, ServerSide, TabSide, EditorSide DEF Next
  <2> QED
    BY <2>1, KeptIsIInv
<1>2. CASE UNCHANGED vars
  BY <1>2, Stutter
<1> QED
  BY <1>1, <1>2

\* The inductive invariant holds of every state.
THEOREM Invariance == Spec => []IInv
  BY InitHolds, Inductive, PTL DEF Spec

\* Every state is one the web application and the database can be in: an answer on
\* its way holds rows of the leads asked for, and a refused stage waits for one list.
THEOREM TypeCorrect == Spec => []TypeOK
<1>1. IInv => TypeOK
  BY DEF IInv
<1> QED
  BY <1>1, Invariance, PTL

\* With nothing under way and neither an error nor an overtaken answer shown, the
\* grid has every lead the tab was told of as the database has it.
THEOREM QuietIsInStep == Spec => []InStep
<1>1. ASSUME IInv, Quiet, NEW l \in Leads, heard[l] = db[l].v
      PROVE  Matches(grid, l)
  <2>1. error \/ late \/ Matches(grid, l) \/ editor.pc = "stage"
    BY <1>1 DEF IInv, LastAnswers, Quiet
  <2> QED
    BY <1>1, <2>1 DEF Quiet
<1>2. IInv => InStep
  BY <1>1 DEF InStep
<1> QED
  BY <1>2, Invariance, PTL

\* Of all steps only the end of a save closes the dialog on it.
LEMMA OnlySaveEnds ==
  ASSUME IInv, [Next]_vars, editor.pc \in Steps, editor' = Closed
  PROVE  SaveEnds
<1>1. EditInv
  BY Parts
<1>2. editor \in Saving /\ editor' # editor /\ editor.pc # "open" /\ editor # Closed
  <2>1. Closed.pc \notin Steps
    BY StepNames DEF Closed
  <2> QED
    BY <1>1, <2>1, EditorKinds, StepNames
<1>3. editor.lead \in Leads /\ editor.snap \in Shown
  BY <1>2 DEF Saving
<1>4. Opened(editor.lead, editor.snap) # Closed
  <2>1. Opened(editor.lead, editor.snap).pc = "open" /\ Closed.pc = "closed"
    BY <1>3, OpenedGood DEF Closed
  <2> QED
    BY <2>1
<1>5. ~ServerNext
  <2>1. ~ServerWrites
    <3>1. ASSUME ServerWrites PROVE FALSE
      <4>1. editor'.pc = editor.pc
        BY <1>2, <3>1, FieldSet DEF ServerWrites
      <4> QED
        BY <4>1, StepNames DEF Closed
    <3> QED
      BY <3>1
  <2>2. \A l \in Leads : ~OtherDeletes(l) /\ \A x \in TheirEdits : ~OtherUpdates(l, x[1], x[2])
    BY <1>2 DEF OtherDeletes, OtherUpdates, ChangeByOther, save
  <2>3. \A i \in DOMAIN fetches : ~ListLeads(i)
    BY <1>2 DEF ListLeads, save
  <2> QED
    BY <2>1, <2>2, <2>3 DEF ServerNext
<1>6. ~TabNext
  <2>1. \A i \in DOMAIN fetches : ~Settled(i)
    BY <1>2, <1>4 DEF Settled
  <2>2. \A f \in Filters : ~ChangeFilter(f)
    BY <1>2 DEF ChangeFilter, save
  <2>3. ~OnEvent
    BY <1>2 DEF OnEvent, save
  <2> QED
    BY <2>1, <2>2, <2>3 DEF TabNext, Listed, FetchFails
<1>7. ~NextRequest
  <2>1. ASSUME NextRequest PROVE FALSE
    <3>1. editor'.pc = "owner"
      BY <1>1, <2>1, NextGood
    <3> QED
      BY <3>1 DEF Closed
  <2> QED
    BY <2>1
<1>8. ~RequestFails
  <2>1. ASSUME StageFails PROVE FALSE
    <3>1. editor'.pc = "refused"
      BY <1>2, <2>1, FieldSet DEF StageFails
    <3> QED
      BY <3>1 DEF Closed
  <2>2. ~BackToDialog
    BY <1>4 DEF BackToDialog
  <2> QED
    BY <2>1, <2>2 DEF RequestFails
<1>9. (\A l \in Leads : ~OpenEditor(l)) /\ ~CloseEditor
  BY <1>2 DEF OpenEditor, CloseEditor
<1>10. \A stage \in Stages, owner \in Owners \cup {None}, outcome, due \in BOOLEAN : ~HandleSave(stage, owner, outcome, due)
  BY <1>2 DEF HandleSave
<1>11. Next
  BY <1>2 DEF vars
<1> QED
  BY <1>5, <1>6, <1>7, <1>8, <1>9, <1>10, <1>11 DEF Next, EditorNext

\* A save that ends well has created its follow-up once, and none if it was to
\* create none, whichever of its requests was the first.
THEOREM FollowUpIsMadeOnce == Spec => FollowUpOnce
<1>1. ASSUME IInv, [Next]_vars, editor.pc \in Steps, editor' = Closed
      PROVE  made = (IF FuFieldChanged(editor) THEN 1 ELSE 0)
  <2>1. editor.req = "done" /\ MadeByFirst
    BY <1>1, OnlySaveEnds DEF SaveEnds, IInv
  <2> QED
    BY <1>1, <2>1 DEF MadeByFirst
<1>2. ASSUME IInv, [Next]_vars
      PROVE  [editor.pc \in Steps /\ editor' = Closed => made = (IF FuFieldChanged(editor) THEN 1 ELSE 0)]_vars
  BY <1>1, <1>2
<1> QED
  BY <1>2, Invariance, PTL DEF Spec, FollowUpOnce
=============================================================================
