------------------------------ MODULE ApiProofs ------------------------------
(***************************************************************************)
(* Proofs about components of the API that share no state, one section     *)
(* each: the pages of a list, the conversions of windows, the limits of a  *)
(* series, the sources, the signing keys, the groups and datasets, the     *)
(* charts, the days of invitations, and at the end the behaviours of all   *)
(* side by side, those of AccountsProofs among them; for any values of     *)
(* their constants.                                                        *)
(***************************************************************************)
EXTENDS MCApi, AccountsProofs, FiniteSetTheorems, SequenceTheorems, WellFoundedInduction, TLAPS

-----------------------------------------------------------------------------
(* Pages: a walk through a list shows each row that stays exactly once. *)

\* A set of numbers has a least one.
LEMMA LeastNat ==
    ASSUME NEW S \in SUBSET Nat, S # {}
    PROVE  \E x \in S : \A y \in S : x <= y
  <1>1. PICK x \in S : \A y \in S : ~(<<y, x>> \in OpToRel(<, Nat))
    BY NatLessThanWellFounded, WFMin
  <1>2. \A y \in S : y < x => <<y, x>> \in OpToRel(<, Nat)
    BY DEF OpToRel
  <1>3. \A y \in S : ~(y < x)
    BY <1>1, <1>2
  <1> QED BY <1>3

\* A finite set has a first member of an order, given as the set of what comes before each member.
LEMMA FirstMember ==
    ASSUME NEW S, IsFiniteSet(S), S # {}, NEW before \in [S -> SUBSET S],
           \A r \in S : r \notin before[r],
           \A r \in S : \A s \in before[r] : before[s] \subseteq before[r]
    PROVE  \E m \in S : before[m] = {}
  <1> DEFINE Ranks == {Cardinality(before[r]) : r \in S}
  <1>1. \A r \in S : IsFiniteSet(before[r]) /\ Cardinality(before[r]) \in Nat
    BY FS_Subset, FS_CardinalityType
  <1>2. PICK n \in Ranks : \A k \in Ranks : n <= k
    <2>1. Ranks \in SUBSET Nat /\ Ranks # {}
      BY <1>1
    <2> HIDE DEF Ranks
    <2> QED BY <2>1, LeastNat
  <1>3. PICK m \in S : Cardinality(before[m]) = n
    OBVIOUS
  <1>4. ASSUME NEW s \in before[m] PROVE FALSE
    <2>1. s \in S /\ before[s] \subseteq before[m] /\ s \notin before[s]
      BY <1>4
    <2>2. Cardinality(before[s]) <= Cardinality(before[m]) /\ Cardinality(before[s]) # Cardinality(before[m])
      BY <1>1, <1>4, <2>1, FS_Subset
    <2>3. n <= Cardinality(before[s])
      BY <1>2, <2>1
    <2> QED BY <1>1, <1>3, <2>1, <2>2, <2>3
  <1> QED BY <1>4

\* What can be in a list.
RowsThere == [step : {"row"}, value : 1..LastValue, id : RowIds]

\* Both orders of a list are total.
LEMMA OrderFacts ==
    ASSUME PagesTypeOK
    PROVE  /\ \A r \in RowsThere : ~Precedes(r, r)
           /\ \A r, s \in RowsThere : r # s => Precedes(r, s) \/ Precedes(s, r)
           /\ \A r, s, t \in RowsThere : Precedes(r, s) /\ Precedes(s, t) => Precedes(r, t)
  <1>1. \A r \in RowsThere : r.value \in Nat /\ r.id \in Nat /\ r = [step |-> "row", value |-> r.value, id |-> r.id]
    <2>1. LastValue \in Nat /\ \A i \in RowIds : i \in Nat
      BY PagesAssumption
    <2> SUFFICES ASSUME NEW r \in RowsThere
                 PROVE  r.value \in Nat /\ r.id \in Nat /\ r = [step |-> "row", value |-> r.value, id |-> r.id]
      OBVIOUS
    <2>2. r.value \in 1..LastValue /\ r.id \in RowIds
      BY DEF RowsThere
    <2>3. r = [step |-> "row", value |-> r.value, id |-> r.id]
      BY DEF RowsThere
    <2> QED BY <2>1, <2>2, <2>3
  <1>2. \A r, s \in RowsThere : r # s => r.value # s.value \/ r.id # s.id
    BY <1>1
  <1>3. CASE sorting = "newest"
    BY <1>1, <1>2, <1>3 DEF Precedes, NewestFirst
  <1>4. CASE sorting # "newest"
    BY <1>1, <1>2, <1>4 DEF Precedes, ByName
  <1> QED BY <1>3, <1>4

\* What is left to show is some of the rows of the list, finitely many.
LEMMA RestFacts ==
    ASSUME PagesTypeOK
    PROVE  /\ Rest \subseteq Rows /\ Rows \subseteq RowsThere
           /\ IsFiniteSet(Rest)
  <1>1. Rest \subseteq Rows /\ Rows \subseteq RowsThere
    BY DEF Rest, Rows, RowsThere
  <1>2. \A r, s \in Rest : r.id = s.id => r = s
    <2> SUFFICES ASSUME NEW r \in Rest, NEW s \in Rest, r.id = s.id PROVE r = s
      OBVIOUS
    <2>1. r \in RowsThere /\ s \in RowsThere /\ r.value = s.value
      BY <1>1 DEF Rest, Rows
    <2> QED BY <2>1 DEF RowsThere
  <1> DEFINE f == [r \in Rest |-> r.id]
  <1>3. f \in Injection(Rest, RowIds)
    BY <1>1, <1>2 DEF RowsThere, Injection, IsInjective
  <1> HIDE DEF f
  <1>4. IsFiniteSet(Rest)
    BY <1>3, FS_Injection, PagesAssumption
  <1> QED BY <1>1, <1>4

\* A page holds the first rows of the rest and its cursor is the last of them.
LEMMA PageFacts ==
    ASSUME PagesTypeOK
    PROVE  /\ Page \subseteq Rest
           /\ \A r \in Rest \ Page, s \in Page : Precedes(s, r)
           /\ Rest # Page => NextCursor \in Page /\ \A s \in Page : ~Precedes(NextCursor, s)
  <1>1. /\ Rest \subseteq RowsThere /\ IsFiniteSet(Rest)
        /\ PageLimit \in Nat /\ PageLimit > 0
    BY RestFacts, PagesAssumption
  <1> DEFINE Ahead(r) == {s \in Rest : Precedes(s, r)}
  <1>2. Page = {r \in Rest : Cardinality(Ahead(r)) < PageLimit}
    BY DEF Page
  <1>3. \A r \in Rest : IsFiniteSet(Ahead(r)) /\ Cardinality(Ahead(r)) \in Nat
    BY <1>1, FS_Subset, FS_CardinalityType
  <1>4. ASSUME NEW r \in Rest \ Page, NEW s \in Page PROVE Precedes(s, r)
    <2> SUFFICES ASSUME ~Precedes(s, r) PROVE FALSE
      OBVIOUS
    <2>1. r \in RowsThere /\ s \in RowsThere /\ r # s /\ s \in Rest
      BY <1>1, <1>2
    <2>2. Precedes(r, s)
      BY <2>1, OrderFacts
    <2>3. Ahead(r) \subseteq Ahead(s)
      BY <1>1, <2>1, <2>2, OrderFacts
    <2> HIDE DEF Ahead
    <2>4. Cardinality(Ahead(r)) <= Cardinality(Ahead(s))
      BY <1>3, <2>1, <2>3, FS_Subset
    <2>5. Cardinality(Ahead(s)) < PageLimit /\ ~(Cardinality(Ahead(r)) < PageLimit)
      BY <1>2, <1>4
    <2> QED BY <1>1, <1>3, <2>1, <2>4, <2>5
  <1>5. ASSUME Rest # Page PROVE NextCursor \in Page /\ \A s \in Page : ~Precedes(NextCursor, s)
    <2>1. Page \subseteq Rest /\ Rest # {}
      BY <1>2, <1>5
    <2>2. Page # {}
      <3> DEFINE before == [r \in Rest |-> Ahead(r)]
      <3>1. before \in [Rest -> SUBSET Rest]
        OBVIOUS
      <3>2. \A r \in Rest : r \notin before[r]
        BY <1>1, OrderFacts
      <3>3. \A r \in Rest : \A s \in before[r] : before[s] \subseteq before[r]
        BY <1>1, OrderFacts
      <3>4. PICK m \in Rest : before[m] = {}
        <4> HIDE DEF before
        <4> QED BY <1>1, <2>1, <3>1, <3>2, <3>3, FirstMember
      <3>5. Ahead(m) = {}
        BY <3>4
      <3>6. Cardinality(Ahead(m)) = 0
        BY <3>5, FS_EmptySet
      <3> QED BY <1>1, <1>2, <3>6
    <2>3. PICK m \in Page : \A s \in Page : ~Precedes(m, s)
      <3> DEFINE after == [r \in Page |-> {s \in Page : Precedes(r, s)}]
      <3>0. Page \subseteq RowsThere /\ IsFiniteSet(Page)
        BY <1>1, <2>1, FS_Subset
      <3>1. after \in [Page -> SUBSET Page]
        OBVIOUS
      <3>2. \A r \in Page : r \notin after[r]
        BY <3>0, OrderFacts
      <3>3. \A r \in Page : \A s \in after[r] : after[s] \subseteq after[r]
        BY <3>0, OrderFacts
      <3>4. PICK m \in Page : after[m] = {}
        <4> HIDE DEF after
        <4> QED BY <2>2, <3>0, <3>1, <3>2, <3>3, FirstMember
      <3> QED BY <3>4
    <2>4. NextCursor = CHOOSE r \in Page : \A s \in Page : ~Precedes(r, s)
      BY <1>5 DEF NextCursor
    <2> QED BY <2>3, <2>4
  <1> QED BY <1>2, <1>4, <1>5

-----------------------------------------------------------------------------
\* The row of an id as it is now.
RowOf(i) == [step |-> "row", value |-> listed[i], id |-> i]

\* A row that has stayed has been shown, once, exactly if the walk is past it.
ShownWhenPassed ==
    \A i \in steady : shown[i] = IF cursor.step = "end" \/ RowOf(i) \notin Rest THEN 1 ELSE 0

\* The inductive invariant.
PagesIInv == PagesTypeOK /\ ShownWhenPassed

\* A row that has stayed is in the list, once.
LEMMA SteadyFacts ==
    ASSUME PagesTypeOK, NEW i \in steady
    PROVE  /\ i \in RowIds /\ RowOf(i) \in Rows /\ \A r \in Rows : r.id = i => r = RowOf(i)
  <1>1. i \in RowIds /\ listed[i] \in 0..LastValue /\ listed[i] # 0 /\ LastValue \in Nat
    BY PagesAssumption DEF PagesTypeOK
  <1>2. listed[i] \in 1..LastValue
    BY <1>1
  <1>3. RowOf(i) \in Rows
    BY <1>1, <1>2 DEF RowOf, Rows
  <1>4. \A r \in Rows : r.id = i => r = RowOf(i)
    BY DEF RowOf, Rows
  <1> QED BY <1>1, <1>3, <1>4

\* The next page: rows of the page come behind the cursor and are shown; the others stay on their side.
LEMMA TurnPageKeeps ==
    ASSUME PagesIInv, TurnPage
    PROVE  PagesIInv'
  <1>0. PagesTypeOK
    BY DEF PagesIInv
  <1>1. /\ cursor.step # "end" /\ cursor' = NextCursor /\ UNCHANGED <<listed, sorting, steady>>
        /\ shown' = [i \in RowIds |-> IF \E r \in Page : r.id = i THEN shown[i] + 1 ELSE shown[i]]
    BY DEF TurnPage
  <1>2. /\ Page \subseteq Rest /\ Rest \subseteq Rows /\ Rows \subseteq RowsThere
        /\ \A r \in Rest \ Page, s \in Page : Precedes(s, r)
        /\ Rest # Page => NextCursor \in Page /\ \A s \in Page : ~Precedes(NextCursor, s)
    BY <1>0, PageFacts, RestFacts
  <1>3. PagesTypeOK'
    <2>1. NextCursor \in {TheEnd} \union RowsThere
      BY <1>2 DEF NextCursor
    <2>2. shown' \in [RowIds -> Nat]
      BY <1>0, <1>1 DEF PagesTypeOK
    <2> QED BY <1>0, <1>1, <2>1, <2>2 DEF PagesTypeOK, RowsThere
  <1>4. ASSUME NEW i \in steady
        PROVE  shown'[i] = IF cursor'.step = "end" \/ RowOf(i) \notin Rest' THEN 1 ELSE 0
    <2>1. i \in RowIds /\ RowOf(i) \in Rows /\ \A r \in Rows : r.id = i => r = RowOf(i)
      BY <1>0, SteadyFacts
    <2>2. RowOf(i).id = i
      BY DEF RowOf
    <2>3. (\E r \in Page : r.id = i) <=> RowOf(i) \in Page
      BY <1>2, <2>1, <2>2
    <2>4. shown[i] = IF RowOf(i) \notin Rest THEN 1 ELSE 0
      BY <1>1 DEF PagesIInv, ShownWhenPassed
    <2>5. shown'[i] = IF RowOf(i) \notin Rest \/ RowOf(i) \in Page THEN 1 ELSE 0
      BY <1>1, <1>2, <2>1, <2>3, <2>4
    <2>6. CASE Rest = Page
      <3>1. cursor'.step = "end"
        BY <1>1, <2>6 DEF NextCursor, TheEnd
      <3> QED BY <2>5, <2>6, <3>1
    <2>7. CASE Rest # Page
      <3> DEFINE last == NextCursor
      <3>1. last \in Page /\ last \in RowsThere /\ last \in Rest /\ \A s \in Page : ~Precedes(last, s)
        BY <1>2, <2>7
      <3>2. cursor' = last /\ cursor'.step = "row"
        BY <1>1, <3>1 DEF RowsThere
      <3>3. Rest' = {r \in Rows : Precedes(last, r)}
        BY <1>1, <3>2 DEF Rest, Rows, Precedes
      <3> HIDE DEF last
      <3>4. RowOf(i) \in Rest' <=> Precedes(last, RowOf(i))
        BY <2>1, <3>3
      <3>5. CASE RowOf(i) \in Page
        BY <2>5, <3>1, <3>2, <3>4, <3>5
      <3>6. CASE RowOf(i) \in Rest \ Page
        BY <1>2, <2>5, <3>1, <3>2, <3>4, <3>6
      <3>7. CASE RowOf(i) \notin Rest
        <4>1. cursor.step = "row" /\ ~Precedes(cursor, RowOf(i))
          BY <2>1, <3>7 DEF Rest
        <4>2. cursor \in RowsThere
          BY <1>0, <4>1 DEF PagesTypeOK, RowsThere, Beginning, TheEnd
        <4>3. Precedes(cursor, last)
          BY <3>1, <4>1 DEF Rest
        <4>4. ~Precedes(last, RowOf(i))
          BY <1>0, <1>2, <2>1, <3>1, <4>1, <4>2, <4>3, OrderFacts
        <4> QED BY <2>5, <3>2, <3>4, <3>7, <4>4
      <3> QED BY <3>5, <3>6, <3>7
    <2> QED BY <2>6, <2>7
  <1>5. ShownWhenPassed'
    BY <1>1, <1>4 DEF ShownWhenPassed, RowOf
  <1> QED BY <1>3, <1>5 DEF PagesIInv

\* A new walk begins before every row.
LEMMA StartOverKeeps ==
    ASSUME PagesIInv, StartOver
    PROVE  PagesIInv'
  <1>1. /\ cursor' = Beginning /\ UNCHANGED <<listed, sorting>>
        /\ steady' = {i \in RowIds : listed[i] # 0} /\ shown' = [i \in RowIds |-> 0]
    BY DEF StartOver
  <1>2. PagesTypeOK'
    BY <1>1 DEF PagesIInv, PagesTypeOK
  <1>3. ASSUME NEW i \in steady' PROVE shown'[i] = 0 /\ cursor'.step # "end" /\ RowOf(i)' \in Rest'
    <2>1. RowOf(i)' \in Rows'
      <3>1. i \in RowIds /\ listed'[i] \in 0..LastValue /\ listed'[i] # 0
        BY <1>1, <1>2, <1>3 DEF PagesTypeOK
      <3>2. listed'[i] \in 1..LastValue
        BY <3>1, PagesAssumption
      <3> QED BY <3>1, <3>2 DEF RowOf, Rows
    <2>2. cursor'.step = "begin"
      BY <1>1 DEF Beginning
    <2> QED BY <1>1, <2>1, <2>2 DEF Rest
  <1>4. ShownWhenPassed'
    BY <1>3 DEF ShownWhenPassed
  <1> QED BY <1>2, <1>4 DEF PagesIInv

\* A row that comes, goes or moves has not stayed; the others keep their places.
LEMMA SightRowKeeps ==
    ASSUME PagesIInv, NEW j \in RowIds, SightRow(j)
    PROVE  PagesIInv'
  <1>0. PagesTypeOK
    BY DEF PagesIInv
  <1>1. PICK value \in 0..LastValue : listed' = [listed EXCEPT ![j] = value]
    BY DEF SightRow
  <1>2. steady' = steady \ {j} /\ UNCHANGED <<sorting, cursor, shown>>
    BY DEF SightRow
  <1>3. listed' \in [RowIds -> 0..LastValue] /\ \A i \in RowIds \ {j} : listed'[i] = listed[i]
    BY <1>0, <1>1 DEF PagesTypeOK
  <1>4. PagesTypeOK'
    BY <1>0, <1>2, <1>3 DEF PagesTypeOK
  <1>5. ASSUME NEW i \in steady'
        PROVE  RowOf(i)' = RowOf(i) /\ (RowOf(i) \in Rest' <=> RowOf(i) \in Rest)
    <2>1. i \in steady /\ i \in RowIds \ {j} /\ listed'[i] = listed[i]
      BY <1>0, <1>2, <1>3, <1>5 DEF PagesTypeOK
    <2>2. RowOf(i)' = RowOf(i) /\ RowOf(i).id = i /\ RowOf(i).value = listed[i]
      BY <2>1 DEF RowOf
    <2>3. RowOf(i) \in Rows' <=> RowOf(i) \in Rows
      BY <2>1, <2>2 DEF Rows
    <2>4. \A r : Precedes(cursor, r)' <=> Precedes(cursor, r)
      BY <1>2 DEF Precedes, NewestFirst, ByName
    <2> QED BY <1>2, <2>2, <2>3, <2>4 DEF Rest, Precedes, NewestFirst, ByName
  <1>6. ShownWhenPassed'
    BY <1>2, <1>5 DEF PagesIInv, ShownWhenPassed
  <1> QED BY <1>4, <1>6 DEF PagesIInv

\* It always holds.
LEMMA PagesIInvHolds == PagesSpec => []PagesIInv
  <1>1. PagesInit => PagesIInv
    <2> SUFFICES ASSUME PagesInit PROVE PagesIInv
      OBVIOUS
    <2>1. PagesTypeOK
      BY DEF PagesInit, PagesTypeOK
    <2>2. ASSUME NEW i \in steady PROVE shown[i] = 0 /\ cursor.step # "end" /\ RowOf(i) \in Rest
      <3>1. i \in RowIds /\ RowOf(i) \in Rows
        BY <2>1, SteadyFacts
      <3>2. cursor.step = "begin"
        BY DEF PagesInit, Beginning
      <3> QED BY <3>1, <3>2 DEF PagesInit, Rest
    <2> QED BY <2>1, <2>2 DEF PagesIInv, ShownWhenPassed
  <1>2. PagesIInv /\ [PagesNext]_pageVars => PagesIInv'
    <2> SUFFICES ASSUME PagesIInv, [PagesNext]_pageVars PROVE PagesIInv'
      OBVIOUS
    <2>1. CASE TurnPage
      BY <2>1, TurnPageKeeps
    <2>2. CASE StartOver
      BY <2>2, StartOverKeeps
    <2>3. ASSUME NEW i \in RowIds, SightRow(i) PROVE PagesIInv'
      BY <2>3, SightRowKeeps
    <2>4. CASE UNCHANGED pageVars
      BY <2>4 DEF pageVars, PagesIInv, PagesTypeOK, ShownWhenPassed, RowOf, Rest, Rows, Precedes, NewestFirst, ByName
    <2> QED BY <2>1, <2>2, <2>3, <2>4 DEF PagesNext
  <1> QED BY <1>1, <1>2, PTL DEF PagesSpec

\* The type invariant.
THEOREM PagesTypeCorrect == PagesSpec => []PagesTypeOK
  <1>1. PagesIInv => PagesTypeOK
    BY DEF PagesIInv
  <1> QED BY <1>1, PagesIInvHolds, PTL

\* Whatever comes, goes and moves while a walk turns the pages of a list, each row that has stayed is
\* shown exactly once, for any ids, values and size of a page.
THEOREM PagesTheorem == PagesSpec => []PagesShowEachOnce
  <1>1. PagesIInv => PagesShowEachOnce
    <2> SUFFICES ASSUME PagesIInv, NEW i \in steady PROVE shown[i] <= 1 /\ (cursor.step = "end" => shown[i] = 1)
      BY DEF PagesShowEachOnce
    <2>1. shown[i] = IF cursor.step = "end" \/ RowOf(i) \notin Rest THEN 1 ELSE 0
      BY DEF PagesIInv, ShownWhenPassed
    <2> QED BY <2>1
  <1> QED BY <1>1, PagesIInvHolds, PTL

-----------------------------------------------------------------------------
(* What the conversions of windows promise, for every instant. *)

\* Rounding to the microsecond, down and up.
LEMMA DivisionFact == ASSUME NEW a \in Int PROVE
    /\ a \div PerUs \in Int
    /\ (a \div PerUs) * PerUs <= a
    /\ a < (a \div PerUs) * PerUs + PerUs
  BY WindowsAssumption, Z3

\* "Window starts round down and window ends round up, so a stored window always contains the core's
\* half-open window" (timeconv.py), and one that holds an instant still does.
THEOREM StoredContains ==
    ASSUME NEW start \in Int, NEW end \in Int, start < end
    PROVE  /\ ToUs(start) \in Int /\ ToUsCeil(end) \in Int
           /\ ToUs(start) <= start /\ end <= ToUsCeil(end)
           /\ ToUs(start) < ToUsCeil(end)
  <1>1. ToUs(start) \in Int /\ ToUs(start) <= start
    BY DivisionFact, WindowsAssumption DEF ToUs
  <1>2. ToUsCeil(end) \in Int /\ end <= ToUsCeil(end)
    <2>1. (-end) \div PerUs \in Int /\ ((-end) \div PerUs) * PerUs <= -end
      BY -end \in Int, DivisionFact
    <2>2. ToUsCeil(end) = -(((-end) \div PerUs) * PerUs)
      BY <2>1, WindowsAssumption DEF ToUsCeil
    <2> QED BY <2>1, <2>2, WindowsAssumption
  <1> QED BY <1>1, <1>2

\* What is rounded down to the microsecond is a whole number of them: never the core's last value.
LEMMA NeverTheLast == ASSUME NEW a \in Int PROVE ToUs(a) # CoreNsMax
  <1>1. PICK q \in Int : ToUs(a) = q * PerUs
    BY DivisionFact DEF ToUs
  <1>2. (q * PerUs) % PerUs = 0
    BY WindowsAssumption, Z3
  <1> QED BY <1>1, <1>2, WindowsAssumption

\* A dataset's window that was accepted is never empty when it runs, however far it reaches over the
\* core's range: clamped, it still begins before it ends (issue #42 in datasets.py).
THEOREM AcceptedHoldsAnInstant ==
    ASSUME NEW start \in Int, NEW end \in Int, Accepted(start, end)
    PROVE  LET w == RunWindowOf(start, end)
           IN  CoreNsMin <= w[1] /\ w[1] < w[2] /\ w[2] <= CoreNsMax
  <1>1. ToUs(start) \in Int /\ ToUs(end) \in Int
    BY DivisionFact, WindowsAssumption DEF ToUs
  <1>2. ToUs(start) < CoreNsMax /\ CoreNsMin < ToUs(end) /\ ToUs(start) < ToUs(end)
    BY <1>1, NeverTheLast, WindowsAssumption DEF Accepted, InCoreRange
  <1> QED BY <1>1, <1>2, WindowsAssumption DEF RunWindowOf, ToCore, Lesser, Greatest

\* The default window of a chart lies in the extent and is not empty.
THEOREM DefaultWindowHoldsAnInstant ==
    ASSUME NEW start \in Int, NEW end \in Int, NEW rows \in Nat, start < end
    PROVE  LET w == DefaultWindow(start, end, rows)
           IN  start <= w[1] /\ w[1] < w[2] /\ w[2] = end
  BY WindowsAssumption DEF DefaultWindow, Greatest

-----------------------------------------------------------------------------
(* Limits of a series: each writer validates what it writes against the row it has locked. *)

\* Metadata has a value, or none, in every column.
Filled(m) == DOMAIN m = Fields /\ \A f \in Fields : m[f] \in Values(f) \union {{}}

\* A change takes the values of its own fields and leaves the others.
LEMMA MergedFacts ==
    ASSUME NEW m, Filled(m), NEW c, \A f \in DOMAIN c : f \in Fields => c[f] \in Values(f) \union {{}}
    PROVE  /\ Filled(Merged(m, c))
           /\ \A f \in Fields : Merged(m, c)[f] = IF f \in DOMAIN c THEN c[f] ELSE m[f]
  BY DEF Merged, Filled

\* Whether limits leave room depends on the limits alone.
LEMMA ValidSame ==
    ASSUME NEW m, NEW n, \A f \in LimitFields : m[f] = n[f], ValidLimits(m)
    PROVE  ValidLimits(n)
  BY DEF ValidLimits, Before, Within, LimitFields, Fields

\* The inductive invariant: each writer checks the limits of the row it is about to write.
MetaIInv == SeriesMetaTypeOK /\ ValidLimits(meta)

\* An import fills what is empty, replaces the rest only when told, never clears a field, and
\* drops its limits together when the row would not be valid with them.
LEMMA AppliedFacts ==
    ASSUME NEW m, Filled(m), ValidLimits(m), NEW says \in ImportSets, NEW over \in BOOLEAN
    PROVE  /\ Filled(Applied(m, says, over)) /\ ValidLimits(Applied(m, says, over))
           /\ \A f \in Fields : m[f] # {} => /\ Applied(m, says, over)[f] # {}
                                             /\ ~over => Applied(m, says, over)[f] = m[f]
<1> DEFINE offered == Offered(m, says, over)
           rest == [f \in DOMAIN offered \ LimitFields |-> offered[f]]
<1>1. \A f \in DOMAIN says : f \in Fields /\ says[f] \in Values(f)
  BY SeriesMetaAssumption
<1>2. \A f \in DOMAIN offered : /\ f \in DOMAIN says /\ f \in Fields /\ offered[f] = says[f] /\ offered[f] \in Values(f)
                                /\ over \/ m[f] = {}
  BY <1>1 DEF Offered
<1>3. \A f \in DOMAIN rest : f \in DOMAIN offered /\ f \notin LimitFields /\ rest[f] = offered[f]
  OBVIOUS
<1>4. \A f : \A v \in Values(f) : v # {}
  BY DEF Values
<1>5. Applied(m, says, over) = Merged(m, IF ValidLimits(Merged(m, offered)) THEN offered ELSE rest)
  BY DEF Applied
<1> HIDE DEF offered, rest
<1>6. /\ Filled(Merged(m, offered)) /\ Filled(Merged(m, rest))
      /\ \A f \in Fields : Merged(m, offered)[f] = IF f \in DOMAIN offered THEN offered[f] ELSE m[f]
      /\ \A f \in Fields : Merged(m, rest)[f] = IF f \in DOMAIN rest THEN rest[f] ELSE m[f]
  BY <1>2, <1>3, MergedFacts
<1>7. ValidLimits(Merged(m, rest))
  <2> \A f \in LimitFields : m[f] = Merged(m, rest)[f]
    BY <1>3, <1>6 DEF LimitFields
  <2> QED
    BY ValidSame
<1>8. CASE ValidLimits(Merged(m, offered))
  BY <1>2, <1>4, <1>5, <1>6, <1>8
<1>9. CASE ~ValidLimits(Merged(m, offered))
  BY <1>2, <1>3, <1>4, <1>5, <1>6, <1>7, <1>9
<1> QED
  BY <1>8, <1>9

LEMMA MetaIInvInit == SeriesMetaInit => MetaIInv
  BY DEF SeriesMetaInit, MetaIInv, SeriesMetaTypeOK, ValidLimits, Before, Within, Fields

\* Every write leaves valid limits behind; what a run or an import has read before matters to no other.
LEMMA MetaIInvStep ==
    ASSUME MetaIInv, [SeriesMetaNext]_metaVars
    PROVE  MetaIInv'
<1>1. Filled(meta) /\ ValidLimits(meta)
      /\ upload \in [Uploads -> {IdleSlot} \union [step : {"checking"}, states : UploadSets]]
      /\ import \in [Imports -> {IdleSlot} \union [step : {"described"}, says : ImportSets, overwrite : BOOLEAN]]
  BY DEF MetaIInv, SeriesMetaTypeOK, Filled
<1> SUFFICES /\ Filled(meta)' /\ ValidLimits(meta)'
             /\ upload' \in [Uploads -> {IdleSlot} \union [step : {"checking"}, states : UploadSets]]
             /\ import' \in [Imports -> {IdleSlot} \union [step : {"described"}, says : ImportSets, overwrite : BOOLEAN]]
  BY DEF MetaIInv, SeriesMetaTypeOK, Filled
<1>2. CASE Patch
  <2> PICK c \in PatchSets : ValidLimits(Merged(meta, c)) /\ meta' = Merged(meta, c)
    BY <1>2 DEF Patch
  <2> \A f \in DOMAIN c : c[f] \in Values(f) \union {{}}
    BY SeriesMetaAssumption
  <2> Filled(Merged(meta, c))
    BY <1>1, MergedFacts
  <2> QED
    BY <1>1, <1>2 DEF Patch
<1>3. ASSUME NEW u \in Uploads, BeginUpload(u) PROVE MetaIInv'
  BY <1>1, <1>3 DEF BeginUpload, MetaIInv, SeriesMetaTypeOK, Filled
<1>4. ASSUME NEW u \in Uploads, EndUpload(u) PROVE Filled(meta)' /\ ValidLimits(meta)' /\ upload' \in [Uploads -> {IdleSlot} \union [step : {"checking"}, states : UploadSets]] /\ UNCHANGED import
  <2>1. upload[u].states \in UploadSets
    <3> upload[u] \in {IdleSlot} \union [step : {"checking"}, states : UploadSets] /\ upload[u].step = "checking"
      BY <1>1, <1>4 DEF EndUpload
    <3> QED
      BY DEF IdleSlot
  <2> DEFINE c == upload[u].states
  <2>2. \A f \in DOMAIN c : c[f] \in Values(f) \union {{}}
    BY <2>1, SeriesMetaAssumption
  <2>3. Filled(Merged(meta, c))
    <3> HIDE DEF c
    <3> QED
      BY <1>1, <2>2, MergedFacts
  <2>4. meta' = IF ValidLimits(Merged(meta, c)) THEN Merged(meta, c) ELSE meta
    BY <1>4 DEF EndUpload, SavedByRun
  <2>5. Filled(meta)' /\ ValidLimits(meta)'
    <3> HIDE DEF c
    <3> QED
      BY <1>1, <2>3, <2>4
  <2> QED
    BY <1>1, <1>4, <2>5 DEF EndUpload
<1>5. ASSUME NEW i \in Imports, Describe(i) PROVE MetaIInv'
  BY <1>1, <1>5 DEF Describe, MetaIInv, SeriesMetaTypeOK, Filled
<1>6. ASSUME NEW i \in Imports, Apply(i)
      PROVE  /\ Filled(meta)' /\ ValidLimits(meta)' /\ UNCHANGED upload
             /\ import' \in [Imports -> {IdleSlot} \union [step : {"described"}, says : ImportSets, overwrite : BOOLEAN]]
  <2>1. import[i].says \in ImportSets /\ import[i].overwrite \in BOOLEAN
    <3> import[i] \in {IdleSlot} \union [step : {"described"}, says : ImportSets, overwrite : BOOLEAN] /\ import[i].step = "described"
      BY <1>1, <1>6 DEF Apply
    <3> QED
      BY DEF IdleSlot
  <2>2. Filled(meta)' /\ ValidLimits(meta)'
    BY <1>1, <1>6, <2>1, AppliedFacts DEF Apply
  <2> QED
    BY <1>1, <1>6, <2>2 DEF Apply
<1>7. CASE UNCHANGED metaVars
  BY <1>1, <1>7 DEF metaVars
<1> QED
  BY <1>1, <1>2, <1>3, <1>4, <1>5, <1>6, <1>7 DEF SeriesMetaNext, MetaIInv, SeriesMetaTypeOK, Filled

\* Valid limits leave room for a value.
LEMMA RoomFact ==
    ASSUME MetaIInv
    PROVE  LimitsLeaveRoom
<1>1. \A f \in LimitFields : \A a \in meta[f] : a \in Int
  <2> SUFFICES ASSUME NEW f \in LimitFields, NEW a \in meta[f] PROVE a \in Int
    OBVIOUS
  <2> f \in Fields /\ f # "unit" /\ meta[f] \in Values(f) \union {{}}
    BY DEF MetaIInv, SeriesMetaTypeOK, LimitFields
  <2> QED
    BY SeriesMetaAssumption DEF Values
<1>2. ValidLimits(meta)
  BY DEF MetaIInv
<1>3. LimitFields = {"physical_min", "physical_max", "operational_min", "operational_max"}
  BY DEF LimitFields, Fields
<1> QED
  BY <1>1, <1>2, <1>3 DEF LimitsLeaveRoom, ValidLimits, Before, Within

LEMMA MetaIInvHolds == SeriesMetaSpec => []MetaIInv
  BY MetaIInvInit, MetaIInvStep, PTL DEF SeriesMetaSpec

\* The end of an import that may not overwrite.
LEMMA ImportStep ==
    ASSUME MetaIInv, [SeriesMetaNext]_metaVars, NEW i \in Imports,
           import[i] # IdleSlot, import'[i] = IdleSlot, ~import[i].overwrite
    PROVE  \A f \in Fields : meta[f] # {} => meta'[f] = meta[f]
<1>1. Apply(i)
  BY DEF SeriesMetaNext, metaVars, Patch, BeginUpload, EndUpload, Describe, Apply, IdleSlot, MetaIInv, SeriesMetaTypeOK
<1>2. import[i].says \in ImportSets /\ import[i].overwrite \in BOOLEAN
  <2> import[i] \in {IdleSlot} \union [step : {"described"}, says : ImportSets, overwrite : BOOLEAN] /\ import[i].step = "described"
    BY <1>1 DEF Apply, MetaIInv, SeriesMetaTypeOK
  <2> QED
    BY DEF IdleSlot
<1> QED
  BY <1>1, <1>2, AppliedFacts DEF Apply, MetaIInv, SeriesMetaTypeOK, Filled

\* Steps of uploads and imports.
LEMMA ClearStep ==
    ASSUME MetaIInv, [SeriesMetaNext]_metaVars, upload' # upload \/ import' # import
    PROVE  \A f \in Fields : meta[f] # {} => meta'[f] # {}
<1>1. CASE \E i \in Imports : Apply(i)
  <2> PICK i \in Imports : Apply(i)
    BY <1>1
  <2> import[i].says \in ImportSets /\ import[i].overwrite \in BOOLEAN
    <3> import[i] \in {IdleSlot} \union [step : {"described"}, says : ImportSets, overwrite : BOOLEAN] /\ import[i].step = "described"
      BY DEF Apply, MetaIInv, SeriesMetaTypeOK
    <3> QED
      BY DEF IdleSlot
  <2> QED
    BY AppliedFacts DEF Apply, MetaIInv, SeriesMetaTypeOK, Filled
<1>2. CASE \E u \in Uploads : EndUpload(u)
  <2> PICK u \in Uploads : EndUpload(u)
    BY <1>2
  <2>1. upload[u].states \in UploadSets
    <3> upload[u] \in {IdleSlot} \union [step : {"checking"}, states : UploadSets] /\ upload[u].step = "checking"
      BY DEF EndUpload, MetaIInv, SeriesMetaTypeOK
    <3> QED
      BY DEF IdleSlot
  <2> PICK c \in UploadSets : c = upload[u].states
    BY <2>1
  <2>2. \A f \in DOMAIN c : c[f] \in Values(f) /\ c[f] # {}
    BY SeriesMetaAssumption DEF Values
  <2>3. Filled(meta)
    BY DEF MetaIInv, SeriesMetaTypeOK, Filled
  <2>4. \A f \in Fields : Merged(meta, c)[f] = IF f \in DOMAIN c THEN c[f] ELSE meta[f]
    BY <2>2, <2>3, MergedFacts
  <2>5. meta' = Merged(meta, c) \/ meta' = meta
    BY DEF EndUpload, SavedByRun
  <2> QED
    BY <2>2, <2>4, <2>5
<1>3. CASE UNCHANGED meta
  BY <1>3
<1> QED
  BY <1>1, <1>2, <1>3 DEF SeriesMetaNext, metaVars, Patch, BeginUpload, Describe

\* The limits of a series leave room for values, whoever writes them last
\* (series.py:77-106, source_metadata.py:84-120).
THEOREM LimitsRoomTheorem == SeriesMetaSpec => []LimitsLeaveRoom
  BY MetaIInvHolds, RoomFact, PTL

\* An import fills only what is empty unless told to overwrite, and only people clear a field
\* (series.py:174-225, source_metadata.py:84-120).
THEOREM ImportsTheorem == SeriesMetaSpec => ImportFillsOnly /\ OnlyPeopleClear
<1>1. MetaIInv /\ [SeriesMetaNext]_metaVars =>
        [\A i \in Imports : import[i] # IdleSlot /\ import'[i] = IdleSlot /\ ~import[i].overwrite =>
           \A f \in Fields : meta[f] # {} => meta'[f] = meta[f]]_metaVars
  BY ImportStep
<1>2. MetaIInv /\ [SeriesMetaNext]_metaVars =>
        [(upload' # upload \/ import' # import) => \A f \in Fields : meta[f] # {} => meta'[f] # {}]_metaVars
  BY ClearStep
<1> QED
  BY <1>1, <1>2, MetaIInvHolds, PTL DEF SeriesMetaSpec, ImportFillsOnly, OnlyPeopleClear

-----------------------------------------------------------------------------
(* Sources and their points: requests that overlap. *)

\* What requests on sources are in the middle of.
SourceEditorStates ==
    [step : {"idle"}] \union
    [step : {"patch"}, row : SourceRows, change : Patches, seen : Columns] \union
    [step : {"insert"}, list : PointLists, next : Nat \ {0}, made : SUBSET Points]

Inserting(e) == sourceEditor[e].step = "insert"

\* A source that is being patched is there: nothing deletes one.
RowsStay == \A e \in SourceEditors : sourceEditor[e].step = "patch" => source[sourceEditor[e].row] # NoRow

\* Two transactions that are both open have not inserted the same point, and neither has inserted
\* one that is registered.
MadeApart ==
    \A e \in SourceEditors : Inserting(e) =>
        /\ sourceEditor[e].made \intersect registered = {}
        /\ \A f \in SourceEditors \ {e} : Inserting(f) => sourceEditor[e].made \intersect sourceEditor[f].made = {}

\* Every point a registration has come past is registered or one it has inserted itself.
PassedAreThere ==
    \A e \in SourceEditors : Inserting(e) =>
        \A i \in DOMAIN sourceEditor[e].list : i < sourceEditor[e].next =>
            sourceEditor[e].list[i] \in registered \union sourceEditor[e].made

\* The inductive invariant. Without PassedAreThere the end of a registration could leave out a point
\* that was taken for a duplicate; without MadeApart two could count one point.
SourcesIInv == SourcesTypeOK /\ RowsStay /\ MadeApart /\ PassedAreThere /\ CreatedOnce

\* The fields of a request, by its step.
LEMMA SourceEditorFacts ==
    ASSUME sourceEditor \in [SourceEditors -> SourceEditorStates], NEW e \in SourceEditors
    PROVE  /\ sourceEditor[e].step = "patch" =>
                 sourceEditor[e].row \in SourceRows /\ sourceEditor[e].change \in Patches /\ sourceEditor[e].seen \in Columns
           /\ Inserting(e) =>
                 /\ sourceEditor[e] = [step |-> "insert", list |-> sourceEditor[e].list, next |-> sourceEditor[e].next,
                                       made |-> sourceEditor[e].made]
                 /\ sourceEditor[e].list \in PointLists /\ sourceEditor[e].list \in Seq(Points)
                 /\ sourceEditor[e].next \in Nat \ {0} /\ sourceEditor[e].made \subseteq Points
  <1>1. sourceEditor[e] \in SourceEditorStates
    OBVIOUS
  <1>2. CASE sourceEditor[e] \in [step : {"idle"}]
    BY <1>2 DEF Inserting
  <1>3. CASE sourceEditor[e] \in [step : {"patch"}, row : SourceRows, change : Patches, seen : Columns]
    BY <1>3 DEF Inserting
  <1>4. CASE sourceEditor[e] \in [step : {"insert"}, list : PointLists, next : Nat \ {0}, made : SUBSET Points]
    BY <1>4, SourcesAssumption DEF Inserting
  <1> QED
    BY <1>1, <1>2, <1>3, <1>4 DEF SourceEditorStates

LEMMA SourceTypes ==
    SourcesTypeOK <=>
    /\ source \in [SourceRows -> Columns \union {NoRow}]
    /\ \A s, t \in SourceRows : s # t /\ source[s] # NoRow => source[s].name # source[t].name
    /\ registered \subseteq Points
    /\ created \in [Points -> Nat]
    /\ sourceEditor \in [SourceEditors -> SourceEditorStates]
    /\ \A e \in SourceEditors : Inserting(e) => sourceEditor[e].next <= Len(sourceEditor[e].list) + 1
  BY DEF SourcesTypeOK, SourceEditorStates, Inserting

LEMMA ColumnsAreRows == ASSUME NEW r \in Columns PROVE r # NoRow
  <1>1. DOMAIN r = {"name", "config", "enabled"} /\ DOMAIN NoRow = {"name"}
    BY DEF Columns, NoRow
  <1>2. "config" \in DOMAIN r /\ "config" \notin DOMAIN NoRow
    BY <1>1
  <1> QED
    BY <1>2

\* A patch changes the columns that differ from what it has read, to what it was asked for.
LEMMA PatchedFacts ==
    ASSUME NEW row \in Columns, NEW change \in Patches, NEW seen \in Columns
    PROVE  /\ Patched(row, change, seen) \in Columns
           /\ \A f \in SourceFields : Patched(row, change, seen)[f] # row[f] => Patched(row, change, seen)[f] = change[f]
  <1> change \in [name : SourceNames \union {Kept}, config : Configs \union {Kept}, enabled : {"on", "off", Kept}]
    BY SourcesAssumption
  <1>1. \A f \in SourceFields : Patched(row, change, seen)[f] = IF Wanted(change, seen, f) = seen[f] THEN row[f] ELSE change[f]
    BY DEF Patched
  <1>2. \A f \in SourceFields : Wanted(change, seen, f) # seen[f] => change[f] # Kept
    BY DEF Wanted
  <1>3. /\ Patched(row, change, seen)["name"] \in SourceNames /\ Patched(row, change, seen)["config"] \in Configs
        /\ Patched(row, change, seen)["enabled"] \in {"on", "off"}
    BY <1>1, <1>2 DEF SourceFields, Columns
  <1>4. Patched(row, change, seen) = [name |-> Patched(row, change, seen)["name"],
            config |-> Patched(row, change, seen)["config"], enabled |-> Patched(row, change, seen)["enabled"]]
    BY DEF Patched, SourceFields
  <1>5. Patched(row, change, seen) \in Columns
    <2> DEFINE a == Patched(row, change, seen)["name"]  b == Patched(row, change, seen)["config"]
               c == Patched(row, change, seen)["enabled"]
    <2> [name |-> a, config |-> b, enabled |-> c] \in Columns
      BY <1>3 DEF Columns
    <2> QED
      BY <1>4
  <1> QED
    BY <1>1, <1>5

LEMMA SourcesInitHolds == SourcesInit => SourcesIInv
  <1> SUFFICES ASSUME SourcesInit PROVE SourcesIInv
    OBVIOUS
  <1>1. \A e \in SourceEditors : sourceEditor[e] = [step |-> "idle"]
    BY DEF SourcesInit
  <1>2. SourcesTypeOK
    BY <1>1 DEF SourcesInit, SourcesTypeOK
  <1> QED
    BY <1>1, <1>2 DEF SourcesInit, SourcesIInv, RowsStay, MadeApart, PassedAreThere, CreatedOnce, Inserting

\* Steps on the rows.
LEMMA RowSteps ==
    ASSUME SourcesIInv, UNCHANGED <<registered, created>>,
           source' \in [SourceRows -> Columns \union {NoRow}],
           \A s, t \in SourceRows : s # t /\ source'[s] # NoRow => source'[s].name # source'[t].name,
           \A s \in SourceRows : source[s] # NoRow => source'[s] # NoRow,
           NEW e, sourceEditor' \in [SourceEditors -> SourceEditorStates],
           \A f \in SourceEditors \ {e} : sourceEditor'[f] = sourceEditor[f],
           e \in SourceEditors => ~Inserting(e)' /\ (sourceEditor'[e].step = "patch" => source'[sourceEditor'[e].row] # NoRow)
    PROVE  SourcesIInv'
  <1>1. SourcesTypeOK'
    BY SourceTypes DEF SourcesIInv, SourcesTypeOK, SourceEditorStates, Inserting
  <1>2. RowsStay'
    BY SourceEditorFacts, SourceTypes DEF SourcesIInv, RowsStay
  <1>3. MadeApart' /\ PassedAreThere'
    BY DEF SourcesIInv, MadeApart, PassedAreThere, Inserting
  <1> QED
    BY <1>1, <1>2, <1>3 DEF SourcesIInv, CreatedOnce

\* Every step of a request on sources keeps the inductive invariant.
LEMMA SourcesStep ==
    ASSUME SourcesIInv, [SourcesNext]_sourceVars
    PROVE  SourcesIInv'
  <1>0. /\ source \in [SourceRows -> Columns \union {NoRow}]
        /\ \A s, t \in SourceRows : s # t /\ source[s] # NoRow => source[s].name # source[t].name
        /\ registered \subseteq Points
        /\ created \in [Points -> Nat]
        /\ sourceEditor \in [SourceEditors -> SourceEditorStates]
        /\ \A e \in SourceEditors : Inserting(e) => sourceEditor[e].next <= Len(sourceEditor[e].list) + 1
    BY SourceTypes DEF SourcesIInv
  <1>idle. [step |-> "idle"] \in SourceEditorStates
    BY DEF SourceEditorStates
  <1>1. ASSUME NEW s \in SourceRows, NEW name \in SourceNames, NEW config \in Configs, CreateSource(s, name, config)
        PROVE  SourcesIInv'
    <2>1. [name |-> name, config |-> config, enabled |-> "on"] \in Columns
      BY DEF Columns
    <2>2. source' = [source EXCEPT ![s] = [name |-> name, config |-> config, enabled |-> "on"]] /\ source[s] = NoRow
          /\ \A t \in SourceRows \ {s} : source[t].name # name
      BY <1>1 DEF CreateSource, NameIsFree
    <2>3. \A t \in SourceRows : source[t] # NoRow => source'[t] # NoRow
      BY <2>2, <1>0
    <2>4. \A a, b \in SourceRows : a # b /\ source'[a] # NoRow => source'[a].name # source'[b].name
      BY <2>2, <1>0
    <2>5. source' \in [SourceRows -> Columns \union {NoRow}]
      BY <2>1, <2>2, <1>0
    <2> PICK e : e \notin SourceEditors
      BY NoSetContainsEverything
    <2> QED
      BY <1>1, <1>0, <2>3, <2>4, <2>5, RowSteps DEF CreateSource
  <1>2. ASSUME NEW e \in SourceEditors, BeginPatch(e) PROVE SourcesIInv'
    <2> PICK s \in SourceRows, c \in Patches :
          source[s] # NoRow /\ SourceEditorTo(e, [step |-> "patch", row |-> s, change |-> c, seen |-> source[s]])
      BY <1>2 DEF BeginPatch
    <2>1. source[s] \in Columns
      BY <1>0
    <2> DEFINE r == [step |-> "patch", row |-> s, change |-> c, seen |-> source[s]]
    <2>2. r \in SourceEditorStates /\ r.step = "patch" /\ r.row = s
      BY <2>1 DEF SourceEditorStates
    <2> HIDE DEF r
    <2>3. sourceEditor' = [sourceEditor EXCEPT ![e] = r] /\ UNCHANGED <<source, registered, created>>
      BY <1>2 DEF BeginPatch, SourceEditorTo, r
    <2>4. sourceEditor'[e] = r /\ ~Inserting(e)' /\ \A f \in SourceEditors \ {e} : sourceEditor'[f] = sourceEditor[f]
      BY <1>0, <2>2, <2>3 DEF Inserting
    <2> QED
      BY <1>0, <2>2, <2>3, <2>4, RowSteps
  <1>3. ASSUME NEW e \in SourceEditors, EndPatch(e) PROVE SourcesIInv'
    <2> DEFINE q == sourceEditor[e]  row == Patched(source[q.row], q.change, q.seen)
    <2>1. q.row \in SourceRows /\ q.change \in Patches /\ q.seen \in Columns /\ source[q.row] # NoRow
      BY <1>0, <1>3, SourceEditorFacts DEF EndPatch, SourcesIInv, RowsStay
    <2>2. row \in Columns /\ row # NoRow
      BY <1>0, <2>1, PatchedFacts, ColumnsAreRows
    <2>3. /\ sourceEditor' = [sourceEditor EXCEPT ![e] = [step |-> "idle"]]
          /\ UNCHANGED <<registered, created>>
          /\ \/ source' = source
             \/ source' = [source EXCEPT ![q.row] = row] /\ \A t \in SourceRows \ {q.row} : source[t].name # row.name
      BY <1>3 DEF EndPatch, SourceEditorEnds, SourceEditorTo, NameIsFree
    <2> HIDE DEF row
    <2>4. /\ \A t \in SourceRows : source[t] # NoRow => source'[t] # NoRow
          /\ source' \in [SourceRows -> Columns \union {NoRow}]
      BY <1>0, <2>1, <2>2, <2>3
    <2>5. \A a, b \in SourceRows : a # b /\ source'[a] # NoRow => source'[a].name # source'[b].name
      <3>1. CASE source' = source
        BY <3>1, <1>0
      <3>2. CASE source' = [source EXCEPT ![q.row] = row] /\ \A t \in SourceRows \ {q.row} : source[t].name # row.name
        <4> PICK s \in SourceRows : s = q.row
          BY <2>1
        <4> \A t \in SourceRows : source'[t] = IF t = s THEN row ELSE source[t]
          BY <1>0, <3>2
        <4> QED
          BY <1>0, <3>2
      <3> QED
        BY <2>3, <3>1, <3>2
    <2>6. sourceEditor'[e].step = "idle" /\ sourceEditor' \in [SourceEditors -> SourceEditorStates]
          /\ \A f \in SourceEditors \ {e} : sourceEditor'[f] = sourceEditor[f]
      BY <1>0, <1>idle, <2>3
    <2>7. ~Inserting(e)' /\ sourceEditor'[e].step # "patch"
      BY <2>6 DEF Inserting
    <2> QED
      BY <2>3, <2>4, <2>5, <2>6, <2>7, RowSteps
  <1>4. ASSUME NEW e \in SourceEditors, BeginRegister(e) PROVE SourcesIInv'
    <2> PICK l \in PointLists : SourceEditorTo(e, [step |-> "insert", list |-> l, next |-> 1, made |-> {}])
      BY <1>4 DEF BeginRegister
    <2> DEFINE r == [step |-> "insert", list |-> l, next |-> 1, made |-> {}]
    <2>1. r \in SourceEditorStates /\ r.step = "insert" /\ r.list = l /\ r.next = 1 /\ r.made = {}
      BY DEF SourceEditorStates
    <2> HIDE DEF r
    <2>2. sourceEditor' = [sourceEditor EXCEPT ![e] = r] /\ UNCHANGED <<source, registered, created>>
      BY <1>4 DEF BeginRegister, SourceEditorTo, r
    <2>3. sourceEditor'[e] = r /\ \A f \in SourceEditors \ {e} : sourceEditor'[f] = sourceEditor[f]
      BY <1>0, <2>2
    <2>4. l \in Seq(Points) /\ Len(l) \in Nat /\ DOMAIN l = 1..Len(l)
      BY SourcesAssumption
    <2>5. SourcesTypeOK'
      <3>1. sourceEditor' \in [SourceEditors -> SourceEditorStates]
        BY <1>0, <2>1, <2>2
      <3>2. \A f \in SourceEditors : Inserting(f)' => sourceEditor'[f].next <= Len(sourceEditor'[f].list) + 1
        <4> SUFFICES ASSUME NEW f \in SourceEditors, Inserting(f)' PROVE sourceEditor'[f].next <= Len(sourceEditor'[f].list) + 1
          OBVIOUS
        <4>1. CASE f = e
          BY <4>1, <2>1, <2>3, <2>4
        <4>2. CASE f # e
          BY <4>2, <1>0, <2>3 DEF Inserting
        <4> QED
          BY <4>1, <4>2
      <3> QED
        BY <1>0, <2>2, <3>1, <3>2 DEF SourcesTypeOK, SourceEditorStates, Inserting
    <2>6. RowsStay'
      BY <2>1, <2>2, <2>3 DEF SourcesIInv, RowsStay
    <2>7. MadeApart'
      BY <2>1, <2>2, <2>3 DEF SourcesIInv, MadeApart, Inserting
    <2>8. PassedAreThere'
      <3> SUFFICES ASSUME NEW f \in SourceEditors, Inserting(f)', NEW i \in DOMAIN sourceEditor'[f].list, i < sourceEditor'[f].next
                   PROVE  sourceEditor'[f].list[i] \in registered' \union sourceEditor'[f].made
        BY DEF PassedAreThere
      <3>1. CASE f = e
        BY <3>1, <2>1, <2>3, <2>4
      <3>2. CASE f # e
        BY <3>2, <2>2, <2>3 DEF SourcesIInv, PassedAreThere, Inserting
      <3> QED
        BY <3>1, <3>2
    <2> QED
      BY <2>2, <2>5, <2>6, <2>7, <2>8 DEF SourcesIInv, CreatedOnce
  <1>5. ASSUME NEW e \in SourceEditors, InsertPoint(e) PROVE SourcesIInv'
    <2> DEFINE q == sourceEditor[e]
    <2>1. /\ Inserting(e)
          /\ q = [step |-> "insert", list |-> q.list, next |-> q.next, made |-> q.made]
          /\ q.list \in PointLists /\ q.list \in Seq(Points) /\ q.next \in Nat \ {0} /\ q.made \subseteq Points
          /\ q.next <= Len(q.list)
      BY <1>0, <1>5, SourceEditorFacts DEF InsertPoint, Inserting
    <2>2. /\ q.list[q.next] \in Points /\ q.next + 1 \in Nat \ {0} /\ q.next + 1 <= Len(q.list) + 1
          /\ DOMAIN q.list = 1..Len(q.list) /\ Len(q.list) \in Nat
      BY <2>1
    <2> PICK p \in Points : p = q.list[q.next]
      BY <2>2
    <2> PICK made : made = IF TakenPoint(e, p) THEN q.made ELSE q.made \union {p}
      OBVIOUS
    <2>3. /\ made \subseteq Points /\ q.made \subseteq made
          /\ \A x \in made : x \in q.made \/ (x = p /\ ~TakenPoint(e, p))
          /\ TakenPoint(e, p) \/ p \in made
      BY <2>1
    <2> DEFINE r == [step |-> "insert", list |-> q.list, next |-> q.next + 1, made |-> made]
    <2>4. r \in SourceEditorStates /\ r.step = "insert" /\ r.list = q.list /\ r.next = q.next + 1 /\ r.made = made
      BY <2>1, <2>2, <2>3 DEF SourceEditorStates
    <2>5. /\ sourceEditor' = [sourceEditor EXCEPT ![e] = 
                [step |-> "insert", list |-> q.list, next |-> q.next + 1, made |-> IF TakenPoint(e, p) THEN q.made ELSE q.made \union {p}]]
          /\ ~PendingElsewhere(e, p) /\ UNCHANGED <<source, registered, created>>
      BY <1>5 DEF InsertPoint, SourceEditorTo
    <2>7. sourceEditor' = [sourceEditor EXCEPT ![e] = r]
      BY <2>5
    <2> HIDE DEF r
    <2>8. sourceEditor'[e] = r /\ \A f \in SourceEditors \ {e} : sourceEditor'[f] = sourceEditor[f]
      BY <1>0, <2>7
    <2>9. SourcesTypeOK'
      <3>1. sourceEditor' \in [SourceEditors -> SourceEditorStates]
        BY <1>0, <2>4, <2>7
      <3>2. \A f \in SourceEditors : Inserting(f)' => sourceEditor'[f].next <= Len(sourceEditor'[f].list) + 1
        <4> SUFFICES ASSUME NEW f \in SourceEditors, Inserting(f)' PROVE sourceEditor'[f].next <= Len(sourceEditor'[f].list) + 1
          OBVIOUS
        <4>1. CASE f = e
          BY <4>1, <2>2, <2>4, <2>8
        <4>2. CASE f # e
          BY <4>2, <1>0, <2>8 DEF Inserting
        <4> QED
          BY <4>1, <4>2
      <3> QED
        BY <1>0, <2>5, <3>1, <3>2 DEF SourcesTypeOK, SourceEditorStates, Inserting
    <2>10. RowsStay'
      BY <2>4, <2>5, <2>8 DEF SourcesIInv, RowsStay
    <2>11. \A f \in SourceEditors \ {e} : Inserting(f) => p \notin sourceEditor[f].made
      BY <2>5 DEF PendingElsewhere, Inserting
    <2>12. MadeApart'
      <3>1. made \intersect registered = {}
        BY <2>1, <2>3 DEF SourcesIInv, MadeApart, TakenPoint
      <3>2. \A f \in SourceEditors \ {e} : Inserting(f) => made \intersect sourceEditor[f].made = {}
        BY <2>1, <2>3, <2>11 DEF SourcesIInv, MadeApart
      <3>3. \A f \in SourceEditors \ {e} : Inserting(f) =>
              /\ sourceEditor[f].made \intersect registered = {}
              /\ \A g \in SourceEditors \ {e} : g # f /\ Inserting(g) => sourceEditor[f].made \intersect sourceEditor[g].made = {}
        BY DEF SourcesIInv, MadeApart
      <3> QED
        BY <2>4, <2>5, <2>8, <3>1, <3>2, <3>3 DEF MadeApart, Inserting
    <2>13. p \in registered \union made
      BY <2>3, <2>11 DEF TakenPoint, Inserting
    <2>14. PassedAreThere'
      <3> SUFFICES ASSUME NEW f \in SourceEditors, Inserting(f)', NEW i \in DOMAIN sourceEditor'[f].list, i < sourceEditor'[f].next
                   PROVE  sourceEditor'[f].list[i] \in registered' \union sourceEditor'[f].made
        BY DEF PassedAreThere
      <3>1. CASE f = e
        <4>1. i \in DOMAIN q.list /\ i < q.next + 1
          BY <3>1, <2>4, <2>8
        <4>2. i < q.next \/ i = q.next
          BY <4>1, <2>1, <2>2
        <4>3. q.list[i] \in registered \union made
          BY <4>1, <4>2, <2>1, <2>3, <2>13 DEF SourcesIInv, PassedAreThere
        <4> QED
          BY <3>1, <4>3, <2>4, <2>5, <2>8
      <3>2. CASE f # e
        BY <3>2, <2>5, <2>8 DEF SourcesIInv, PassedAreThere, Inserting
      <3> QED
        BY <3>1, <3>2
    <2> QED
      BY <2>5, <2>9, <2>10, <2>12, <2>14 DEF SourcesIInv, CreatedOnce
  <1>6. ASSUME NEW e \in SourceEditors, EndRegister(e) PROVE SourcesIInv'
    <2> DEFINE q == sourceEditor[e]
    <2>1. Inserting(e) /\ q.made \subseteq Points
      BY <1>0, <1>6, SourceEditorFacts DEF EndRegister, Inserting
    <2>2. /\ sourceEditor' = [sourceEditor EXCEPT ![e] = [step |-> "idle"]] /\ source' = source
          /\ registered' = registered \union q.made
          /\ created' = [p \in Points |-> created[p] + IF p \in q.made THEN 1 ELSE 0]
      BY <1>6 DEF EndRegister, SourceEditorEnds, SourceEditorTo, Counted
    <2>3. sourceEditor'[e].step = "idle" /\ \A f \in SourceEditors \ {e} : sourceEditor'[f] = sourceEditor[f]
      BY <1>0, <2>2
    <2>4. SourcesTypeOK'
      <3>1. sourceEditor' \in [SourceEditors -> SourceEditorStates]
        BY <1>0, <1>idle, <2>2
      <3>2. created' \in [Points -> Nat] /\ registered' \subseteq Points
        BY <1>0, <2>1, <2>2
      <3>3. \A f \in SourceEditors : Inserting(f)' => sourceEditor'[f].next <= Len(sourceEditor'[f].list) + 1
        BY <1>0, <2>3 DEF Inserting
      <3> QED
        BY <1>0, <2>2, <3>1, <3>2, <3>3 DEF SourcesTypeOK, SourceEditorStates, Inserting
    <2>5. RowsStay' /\ MadeApart' /\ PassedAreThere'
      <3>1. RowsStay'
        BY <2>2, <2>3 DEF SourcesIInv, RowsStay
      <3>2. PassedAreThere'
        BY <2>2, <2>3 DEF SourcesIInv, PassedAreThere, Inserting
      <3>3. \A f \in SourceEditors \ {e} : Inserting(f) => sourceEditor[f].made \intersect (registered \union q.made) = {}
        BY <2>1 DEF SourcesIInv, MadeApart
      <3>4. MadeApart'
        BY <2>2, <2>3, <3>3 DEF SourcesIInv, MadeApart, Inserting
      <3> QED
        BY <3>1, <3>2, <3>4
    <2>6. CreatedOnce'
      BY <1>0, <2>1, <2>2 DEF SourcesIInv, CreatedOnce, MadeApart
    <2> QED
      BY <2>4, <2>5, <2>6 DEF SourcesIInv
  <1>7. ASSUME NEW e \in SourceEditors, FailRegister(e) PROVE SourcesIInv'
    <2>1. sourceEditor' = [sourceEditor EXCEPT ![e] = [step |-> "idle"]] /\ UNCHANGED <<source, registered, created>>
      BY <1>7 DEF FailRegister, SourceEditorEnds, SourceEditorTo
    <2>2. sourceEditor'[e].step = "idle" /\ sourceEditor' \in [SourceEditors -> SourceEditorStates]
          /\ \A f \in SourceEditors \ {e} : sourceEditor'[f] = sourceEditor[f]
      BY <1>0, <1>idle, <2>1
    <2>3. ~Inserting(e)' /\ sourceEditor'[e].step # "patch"
      BY <2>2 DEF Inserting
    <2> QED
      BY <1>0, <2>1, <2>2, <2>3, RowSteps
  <1>8. CASE UNCHANGED sourceVars
    BY <1>8 DEF sourceVars, SourcesIInv, SourcesTypeOK, RowsStay, MadeApart, PassedAreThere, CreatedOnce, Inserting
  <1> QED
    BY <1>1, <1>2, <1>3, <1>4, <1>5, <1>6, <1>7, <1>8 DEF SourcesNext

LEMMA SourcesIInvHolds == SourcesSpec => []SourcesIInv
  BY SourcesInitHolds, SourcesStep, PTL DEF SourcesSpec

\* Only the end of a patch changes a column of a source that is there.
LEMMA PatchStep ==
    ASSUME SourcesIInv, [SourcesNext]_sourceVars, NEW s \in SourceRows, source[s] # NoRow,
           NEW f \in SourceFields, source'[s][f] # source[s][f]
    PROVE  \E e \in SourceEditors : sourceEditor[e].step = "patch" /\ sourceEditor[e].row = s
                                   /\ sourceEditor[e].change[f] = source'[s][f]
  <1>0. source \in [SourceRows -> Columns \union {NoRow}] /\ sourceEditor \in [SourceEditors -> SourceEditorStates]
    BY SourceTypes DEF SourcesIInv
  <1>1. PICK e \in SourceEditors : EndPatch(e)
    <2>1. ASSUME NEW t \in SourceRows, NEW name \in SourceNames, NEW config \in Configs, CreateSource(t, name, config)
          PROVE  FALSE
      BY <1>0, <2>1 DEF CreateSource
    <2> QED
      BY <2>1 DEF SourcesNext, sourceVars, BeginPatch, BeginRegister, InsertPoint, EndRegister, FailRegister
  <1> DEFINE q == sourceEditor[e]  row == Patched(source[q.row], q.change, q.seen)
  <1>2. q.step = "patch" /\ q.row \in SourceRows /\ q.change \in Patches /\ q.seen \in Columns /\ source[q.row] # NoRow
    BY <1>0, <1>1, SourceEditorFacts DEF EndPatch, SourcesIInv, RowsStay
  <1>3. source' = source \/ source' = [source EXCEPT ![q.row] = row]
    BY <1>1 DEF EndPatch
  <1>4. \A g \in SourceFields : row[g] # source[q.row][g] => row[g] = q.change[g]
    BY <1>0, <1>2, PatchedFacts
  <1> HIDE DEF row
  <1> QED
    BY <1>0, <1>2, <1>3, <1>4

\* A registration that ends has come past all its points.
LEMMA RegisterStep ==
    ASSUME SourcesIInv, [SourcesNext]_sourceVars, NEW e \in SourceEditors,
           sourceEditor[e].step = "insert", sourceEditor[e].next > Len(sourceEditor[e].list),
           sourceEditor'[e].step = "idle", registered' # registered \/ sourceEditor[e].made = {},
           NEW i \in DOMAIN sourceEditor[e].list
    PROVE  sourceEditor[e].list[i] \in registered'
  <1>0. sourceEditor \in [SourceEditors -> SourceEditorStates]
    BY SourceTypes DEF SourcesIInv
  <1>1. EndRegister(e) \/ FailRegister(e)
    <2>1. ASSUME NEW f \in SourceEditors, f # e, sourceEditor' = [sourceEditor EXCEPT ![f] = sourceEditor'[f]] PROVE FALSE
      BY <1>0, <2>1
    <2>2. \A s, n, c : ~CreateSource(s, n, c)
      BY DEF CreateSource
    <2>3. ASSUME NEW f \in SourceEditors, BeginPatch(f) \/ EndPatch(f) \/ BeginRegister(f) \/ InsertPoint(f) \/ EndRegister(f) \/ FailRegister(f)
          PROVE  f = e
      <3>1. \E r : sourceEditor' = [sourceEditor EXCEPT ![f] = r]
        BY <2>3 DEF BeginPatch, EndPatch, BeginRegister, InsertPoint, EndRegister, FailRegister, SourceEditorEnds, SourceEditorTo
      <3> QED
        BY <1>0, <3>1
    <2>4. ~BeginPatch(e) /\ ~EndPatch(e) /\ ~BeginRegister(e)
      BY DEF BeginPatch, EndPatch, BeginRegister
    <2>5. ~InsertPoint(e)
      BY <1>0, SourceEditorFacts DEF InsertPoint, Inserting
    <2> QED
      BY <2>2, <2>3, <2>4, <2>5 DEF SourcesNext, sourceVars
  <1>2. sourceEditor[e].list[i] \in registered \union sourceEditor[e].made
    <2>1. sourceEditor[e].list \in Seq(Points) /\ sourceEditor[e].next \in Nat \ {0}
      BY <1>0, SourceEditorFacts DEF Inserting
    <2>2. i < sourceEditor[e].next
      BY <2>1
    <2> QED
      BY <2>2 DEF SourcesIInv, PassedAreThere, Inserting
  <1> QED
    BY <1>1, <1>2 DEF EndRegister, FailRegister

\* The type invariant of the sources.
THEOREM SourcesTypeCorrect == SourcesSpec => []SourcesTypeOK
  BY SourcesIInvHolds, PTL DEF SourcesIInv

\* A point is counted as created by one registration at most, however many overlap
\* (sources.py:309-345).
THEOREM CreatedTheorem == SourcesSpec => []CreatedOnce
  BY SourcesIInvHolds, PTL DEF SourcesIInv

\* Patches of one source that overlap each change what they were asked to and nothing else, and
\* a registration that succeeds leaves all its points registered (sources.py:151-197, 309-345).
THEOREM SourcesTheorem == SourcesSpec => PatchesStayApart /\ ListedAreThere
  <1>1. SourcesIInv /\ [SourcesNext]_sourceVars =>
          [\A s \in SourceRows : source[s] # NoRow => \A f \in SourceFields : source'[s][f] # source[s][f] =>
              \E e \in SourceEditors : sourceEditor[e].step = "patch" /\ sourceEditor[e].row = s
                                       /\ sourceEditor[e].change[f] = source'[s][f]]_sourceVars
    BY PatchStep
  <1>2. SourcesIInv /\ [SourcesNext]_sourceVars =>
          [\A e \in SourceEditors :
              sourceEditor[e].step = "insert" /\ sourceEditor[e].next > Len(sourceEditor[e].list)
              /\ sourceEditor'[e].step = "idle" /\ (registered' # registered \/ sourceEditor[e].made = {}) =>
                 \A i \in DOMAIN sourceEditor[e].list : sourceEditor[e].list[i] \in registered']_sourceVars
    BY RegisterStep
  <1> QED
    BY <1>1, <1>2, SourcesIInvHolds, PTL DEF SourcesSpec, PatchesStayApart, ListedAreThere

-----------------------------------------------------------------------------
(* Signing keys: the cache, the lock and its queue. *)

\* The key ids tokens come with.
Kids == KeyIds \union {Foreign}
\* The steps at which a caller is in the queue of the lock.
QueuedSteps == Looking \union {"miss"} \union Fetching
DecoderStates == [step : {"idle"}] \union [step : QueuedSteps \union Answers, kid : Kids, now : KeyMoments]
CacheStates == {NoKeys} \union [key : KeyIds, fetchedAt : KeyMoments, keysAt : KeyMoments]

\* The queue of the lock holds each waiting caller once, and who fetches is at its head.
QueueOK ==
    /\ keyQueue \in Seq(Decoders)
    /\ \A i, j \in 1..Len(keyQueue) : keyQueue[i] = keyQueue[j] => i = j
    /\ \A i \in 1..Len(keyQueue) : decoder[keyQueue[i]].step \in QueuedSteps
    /\ \A d \in Decoders : decoder[d].step \in Fetching => Len(keyQueue) > 0 /\ keyQueue[1] = d

\* A cache that holds a withdrawn key was fetched no later than the key was withdrawn.
CacheIsDated(cache) ==
    /\ cache \in CacheStates
    /\ cache.key <= published /\ cache.fetchedAt <= keyClock /\ cache.keysAt <= keyClock
    /\ cache.key \in KeyIds /\ cache.key < published => cache.fetchedAt <= retired[cache.key]

\* Who has fetched for an unknown id and is back to look again, finds the published key in the cache.
DecodersOK ==
    /\ decoder \in [Decoders -> DecoderStates]
    /\ \A d \in Decoders : decoder[d].step # "idle" => decoder[d].kid <= published /\ decoder[d].now <= keyClock
    /\ \A d \in Decoders : decoder[d].step = "again" /\ decoder[d].kid = published => keyCache.key = published

KeyTypes == keyClock \in KeyMoments /\ published \in KeyIds /\ retired \in [KeyIds -> KeyMoments]

\* The inductive invariant.
KeysIInv == KeyTypes /\ CacheIsDated(keyCache) /\ DecodersOK /\ QueueOK

LEMMA KeyNumbers ==
    /\ CacheTtl \in Nat \ {0} /\ RefreshMin \in Nat \ {0} /\ 0 \in KeyMoments /\ 1 \in KeyIds
    /\ \A m \in KeyMoments : m \in Nat
    /\ \A k \in KeyIds : k \in Nat /\ k >= 1
    /\ \A k \in Kids : k \in Nat
  BY IdpKeysAssumption DEF KeyMoments, KeyIds, Kids, Foreign

LEMMA CacheFacts ==
    ASSUME NEW cache \in CacheStates
    PROVE  cache.key \in Nat /\ cache.fetchedAt \in Nat /\ cache.keysAt \in Nat /\ (cache # NoKeys => cache.key \in KeyIds)
           /\ cache.fetchedAt \in KeyMoments
  <1>1. CASE cache = NoKeys
    BY <1>1, KeyNumbers DEF NoKeys, Foreign
  <1>2. CASE cache \in [key : KeyIds, fetchedAt : KeyMoments, keysAt : KeyMoments]
    BY <1>2, KeyNumbers
  <1> QED
    BY <1>1, <1>2 DEF CacheStates

LEMMA StepFacts ==
    ASSUME NEW step, NEW kid, NEW now
    PROVE  /\ Step(step, kid, now).step = step /\ Step(step, kid, now).kid = kid /\ Step(step, kid, now).now = now
           /\ step \in QueuedSteps \union Answers /\ kid \in Kids /\ now \in KeyMoments => Step(step, kid, now) \in DecoderStates
  BY DEF Step, DecoderStates

\* What a caller that holds the lock comes to.
IsOutcome(r, kid) ==
    /\ r \in DecoderStates /\ r.kid = kid /\ r.now \in {0, keyClock}
    /\ r.step \in {"accepted", "rejected", "refetch", "miss", "fetch", "fetchAgain"}

\* What a caller comes to with the keys of a cache.
LEMMA CheckingFacts ==
    ASSUME keyClock \in KeyMoments, NEW kid \in Kids, NEW second \in BOOLEAN, NEW cache, NEW waiting
    PROVE  LET r == Checking(kid, second, cache, waiting) IN
           /\ IsOutcome(r, kid)
           /\ r.step = "accepted" => kid = cache.key
           /\ r.step = "rejected" => kid # cache.key /\ (second \/ Recent(cache))
  <1>1. Checking(kid, second, cache, waiting) \in {Step("accepted", kid, 0), Step("rejected", kid, 0), Step("miss", kid, 0), Step("refetch", kid, keyClock)}
        /\ (Checking(kid, second, cache, waiting) = Step("accepted", kid, 0) \/ kid # cache.key)
        /\ (Checking(kid, second, cache, waiting) = Step("rejected", kid, 0) => second \/ Recent(cache))
    <2>1. CASE kid = cache.key
      BY <2>1, StepFacts DEF Checking
    <2>2. CASE kid # cache.key /\ second
      BY <2>2 DEF Checking
    <2>3. CASE kid # cache.key /\ ~second /\ waiting = <<>>
      BY <2>3, StepFacts DEF Checking, Refreshing
    <2>4. CASE kid # cache.key /\ ~second /\ waiting # <<>>
      BY <2>4, StepFacts DEF Checking
    <2> QED
      BY <2>1, <2>2, <2>3, <2>4
  <1>2. Checking(kid, second, cache, waiting).step = "rejected" => Checking(kid, second, cache, waiting) = Step("rejected", kid, 0)
    BY <1>1, StepFacts
  <1>3. Checking(kid, second, cache, waiting).step = "accepted" => kid = cache.key
    <2>1. CASE kid = cache.key
      BY <2>1
    <2>2. CASE kid # cache.key /\ second
      BY <2>2, StepFacts DEF Checking
    <2>3. CASE kid # cache.key /\ ~second
      BY <2>3, StepFacts DEF Checking, Refreshing
    <2> QED
      BY <2>1, <2>2, <2>3
  <1>4. Checking(kid, second, cache, waiting).step = "rejected" => kid # cache.key
    BY StepFacts DEF Checking
  <1>5. IsOutcome(Checking(kid, second, cache, waiting), kid)
    BY <1>1, StepFacts, KeyNumbers DEF IsOutcome, QueuedSteps, Fetching, Looking, Answers
  <1> QED
    BY <1>1, <1>2, <1>3, <1>4, <1>5

LEMMA LookedFacts ==
    ASSUME keyClock \in KeyMoments, NEW kid \in Kids, NEW second \in BOOLEAN, NEW cache, NEW waiting
    PROVE  LET r == Looked(kid, second, cache, waiting) IN
           /\ IsOutcome(r, kid)
           /\ r.step = "accepted" => kid = cache.key /\ ~Expired(cache)
           /\ r.step = "rejected" => kid # cache.key /\ (second \/ Recent(cache))
  <1>1. CASE Expired(cache)
    BY <1>1, StepFacts DEF Looked, IsOutcome, QueuedSteps, Fetching
  <1>2. CASE ~Expired(cache)
    BY <1>2, CheckingFacts DEF Looked
  <1> QED
    BY <1>1, <1>2

LEMMA RefreshingFacts ==
    ASSUME keyClock \in KeyMoments, NEW kid \in Kids, NEW cache
    PROVE  LET r == Refreshing(kid, cache) IN
           /\ IsOutcome(r, kid) /\ r.step # "accepted"
           /\ r.step = "rejected" => Recent(cache)
  BY StepFacts, KeyNumbers DEF Refreshing, IsOutcome, QueuedSteps, Fetching, Answers

LEMMA DecoderFacts ==
    ASSUME DecodersOK, NEW d \in Decoders, decoder[d].step # "idle"
    PROVE  decoder[d].kid \in Kids /\ decoder[d].now \in KeyMoments /\ decoder[d].step \in QueuedSteps \union Answers
  <1>1. decoder[d] \in DecoderStates
    BY DEF DecodersOK
  <1>2. decoder[d] \notin [step : {"idle"}]
    OBVIOUS
  <1> QED
    BY <1>1, <1>2 DEF DecoderStates

\* The callers that are left in the queue once a caller has left it.
WaitingOK(d, waiting) ==
    /\ waiting \in Seq(Decoders)
    /\ \A i, j \in 1..Len(waiting) : waiting[i] = waiting[j] => i = j
    /\ \A i \in 1..Len(waiting) : waiting[i] # d /\ decoder[waiting[i]].step \in QueuedSteps
    /\ \A f \in Decoders \ {d} : decoder[f].step \notin Fetching

LEMMA EmptyWaits ==
    ASSUME QueueOK, NEW d, keyQueue = <<>>
    PROVE  WaitingOK(d, <<>>)
  BY EmptySeq DEF WaitingOK, QueueOK

LEMMA TailWaits ==
    ASSUME QueueOK, NEW d \in Decoders, keyQueue # <<>>, Head(keyQueue) = d
    PROVE  WaitingOK(d, Tail(keyQueue))
  <1>1. /\ Tail(keyQueue) \in Seq(Decoders) /\ Len(Tail(keyQueue)) = Len(keyQueue) - 1
        /\ \A i \in 1..Len(Tail(keyQueue)) : Tail(keyQueue)[i] = keyQueue[i + 1]
        /\ Len(keyQueue) \in Nat \ {0} /\ keyQueue[1] = d
    <2>1. keyQueue \in Seq(Decoders)
      BY DEF QueueOK
    <2>2. Tail(keyQueue) \in Seq(Decoders) /\ Len(Tail(keyQueue)) = Len(keyQueue) - 1
          /\ \A i \in 1..Len(Tail(keyQueue)) : Tail(keyQueue)[i] = keyQueue[i + 1]
      BY <2>1, HeadTailProperties
    <2>3. Len(keyQueue) \in Nat \ {0}
      BY <2>1, EmptySeq
    <2>4. keyQueue[1] = d
      BY <2>1
    <2> QED
      BY <2>2, <2>3, <2>4
  <1>2. \A i \in 1..Len(Tail(keyQueue)) : i \in Nat /\ i + 1 \in 1..Len(keyQueue) /\ 1 \in 1..Len(keyQueue) /\ i + 1 # 1
    BY <1>1
  <1>3. \A i, j \in 1..Len(Tail(keyQueue)) : i + 1 = j + 1 => i = j
    BY <1>2
  <1> DEFINE t == Tail(keyQueue)
  <1> HIDE DEF t
  <1>4. \A i, j \in 1..Len(t) : t[i] = t[j] => i = j
    BY <1>1, <1>2, <1>3 DEF QueueOK, t
  <1>5. \A i \in 1..Len(t) : t[i] # d /\ decoder[t[i]].step \in QueuedSteps
    BY <1>1, <1>2 DEF QueueOK, t
  <1>6. \A f \in Decoders \ {d} : decoder[f].step \notin Fetching
    BY <1>1 DEF QueueOK
  <1> QED
    BY <1>1, <1>4, <1>5, <1>6 DEF WaitingOK, t

\* A caller that moves on passes the lock to the head of those that wait.
LEMMA MovesQueue ==
    ASSUME decoder \in [Decoders -> DecoderStates], NEW d \in Decoders, NEW r \in DecoderStates, NEW waiting,
           WaitingOK(d, waiting), Moves(d, r, waiting), r.step # "lookup"
    PROVE  QueueOK'
  <1>1. decoder' = [decoder EXCEPT ![d] = r]
    BY DEF Moves
  <1>2. decoder'[d] = r /\ \A f \in Decoders \ {d} : decoder'[f] = decoder[f]
    BY <1>1
  <1>3. waiting \in Seq(Decoders) /\ Len(waiting) \in Nat /\ \A i \in 1..Len(waiting) : waiting[i] \in Decoders \ {d}
    BY ElementOfSeq, LenProperties DEF WaitingOK
  <1>4. \A i \in 1..Len(waiting) : decoder'[waiting[i]].step \in QueuedSteps
    BY <1>2, <1>3 DEF WaitingOK
  <1>5. \A f \in Decoders \ {d} : decoder'[f].step \notin Fetching
    BY <1>2 DEF WaitingOK
  <1>6. CASE r.step \in Fetching
    <2>1. keyQueue' = <<d>> \o waiting
      BY <1>6 DEF Moves, Fetching
    <2>2. <<d>> \in Seq(Decoders) /\ Len(<<d>>) = 1 /\ <<d>>[1] = d
      OBVIOUS
    <2>3. /\ keyQueue' \in Seq(Decoders) /\ Len(keyQueue') = 1 + Len(waiting)
          /\ \A i \in 1..1 + Len(waiting) : keyQueue'[i] = IF i <= 1 THEN <<d>>[i] ELSE waiting[i - 1]
      BY <1>3, <2>1, <2>2, ConcatProperties
    <2>4. keyQueue'[1] = d /\ \A i \in 1..Len(keyQueue') : i # 1 => i - 1 \in 1..Len(waiting) /\ keyQueue'[i] = waiting[i - 1]
      BY <1>3, <2>2, <2>3
    <2>5. \A i, j \in 1..Len(keyQueue') : i - 1 = j - 1 => i = j
      BY <1>3, <2>3
    <2>6. \A i, j \in 1..Len(keyQueue') : keyQueue'[i] = keyQueue'[j] => i = j
      BY <1>3, <2>4, <2>5 DEF WaitingOK
    <2>7. \A i \in 1..Len(keyQueue') : decoder'[keyQueue'[i]].step \in QueuedSteps
      BY <1>2, <1>4, <1>6, <2>4 DEF QueuedSteps
    <2>8. Len(keyQueue') > 0
      BY <1>3, <2>3
    <2> QED
      BY <1>5, <2>3, <2>4, <2>6, <2>7, <2>8 DEF QueueOK
  <1>7. CASE r.step \in {"miss", "again"}
    <2>1. keyQueue' = Append(waiting, d)
      BY <1>7 DEF Moves, Fetching
    <2>2. /\ keyQueue' \in Seq(Decoders) /\ Len(keyQueue') = Len(waiting) + 1
          /\ \A i \in 1..Len(waiting) : keyQueue'[i] = waiting[i]
          /\ keyQueue'[Len(waiting) + 1] = d
      BY <1>3, <2>1, AppendProperties
    <2>3. \A i \in 1..Len(keyQueue') : i \in 1..Len(waiting) \/ i = Len(waiting) + 1
      BY <1>3, <2>2
    <2>4. \A i, j \in 1..Len(keyQueue') : keyQueue'[i] = keyQueue'[j] => i = j
      BY <1>3, <2>2, <2>3 DEF WaitingOK
    <2>5. \A i \in 1..Len(keyQueue') : decoder'[keyQueue'[i]].step \in QueuedSteps
      BY <1>2, <1>4, <1>7, <2>2, <2>3 DEF QueuedSteps, Looking
    <2>6. decoder'[d].step \notin Fetching
      BY <1>2, <1>7 DEF Fetching
    <2> QED
      BY <1>5, <2>2, <2>4, <2>5, <2>6 DEF QueueOK
  <1>8. CASE r.step \notin Fetching \union {"miss", "again"}
    <2>1. keyQueue' = waiting
      BY <1>8 DEF Moves
    <2> QED
      BY <1>2, <1>4, <1>5, <1>8, <2>1 DEF QueueOK, WaitingOK
  <1> QED
    BY <1>6, <1>7, <1>8

\* A step of one caller that may replace the cache by one of the published key.
LEMMA MovesKeep ==
    ASSUME KeysIInv, NEW d \in Decoders, NEW r \in DecoderStates, NEW waiting,
           WaitingOK(d, waiting), Moves(d, r, waiting), r.step # "lookup",
           r.step # "idle" => r.kid <= published /\ r.now <= keyClock,
           r.step = "again" /\ r.kid = published => keyCache'.key = published,
           UNCHANGED <<keyClock, published, retired>>,
           keyCache' = keyCache \/ (CacheIsDated(keyCache') /\ keyCache'.key = published)
    PROVE  KeysIInv'
  <1>1. decoder' = [decoder EXCEPT ![d] = r] /\ decoder \in [Decoders -> DecoderStates]
    BY DEF Moves, KeysIInv, DecodersOK
  <1>2. QueueOK'
    BY <1>1, MovesQueue
  <1>3. DecodersOK'
    BY <1>1 DEF KeysIInv, DecodersOK
  <1>4. CacheIsDated(keyCache)'
    BY DEF KeysIInv, CacheIsDated
  <1> QED
    BY <1>2, <1>3, <1>4 DEF KeysIInv, KeyTypes

LEMMA KeysInitHolds == IdpKeysInit => KeysIInv
  <1> SUFFICES ASSUME IdpKeysInit PROVE KeysIInv
    OBVIOUS
  <1>1. keyClock = 0 /\ published = 1 /\ keyCache = NoKeys /\ keyQueue = <<>> /\ decoder = [d \in Decoders |-> [step |-> "idle"]]
        /\ retired = [k \in KeyIds |-> 0]
    BY DEF IdpKeysInit
  <1>2. KeyTypes
    BY <1>1, KeyNumbers DEF KeyTypes
  <1>3. CacheIsDated(keyCache)
    BY <1>1, KeyNumbers DEF CacheIsDated, CacheStates, NoKeys, Foreign
  <1>4. [step |-> "idle"] \in DecoderStates
    BY DEF DecoderStates
  <1>5. DecodersOK
    BY <1>1, <1>4 DEF DecodersOK
  <1>6. QueueOK
    BY <1>1, EmptySeq DEF QueueOK, Fetching
  <1> QED
    BY <1>2, <1>3, <1>5, <1>6 DEF KeysIInv

\* The record a fetch leaves.
LEMMA NewCacheDated ==
    ASSUME KeyTypes, NEW f \in KeyMoments, f <= keyClock, NEW k \in KeyMoments, k <= keyClock
    PROVE  /\ CacheIsDated([key |-> published, fetchedAt |-> f, keysAt |-> k])
           /\ [key |-> published, fetchedAt |-> f, keysAt |-> k].key = published
  BY KeyNumbers DEF KeyTypes, CacheIsDated, CacheStates

\* Who fetches holds the lock.
LEMMA FetcherFacts ==
    ASSUME KeysIInv, NEW d \in Decoders, decoder[d].step \in Fetching
    PROVE  /\ WaitingOK(d, Tail(keyQueue))
           /\ decoder[d].kid \in Kids /\ decoder[d].kid <= published
           /\ decoder[d].now \in KeyMoments /\ decoder[d].now <= keyClock
  <1>1. keyQueue \in Seq(Decoders) /\ Len(keyQueue) > 0 /\ keyQueue[1] = d
    BY DEF KeysIInv, QueueOK
  <1>2. keyQueue # <<>> /\ Head(keyQueue) = d
    BY <1>1, EmptySeq
  <1>3. decoder[d].step # "idle"
    BY DEF Fetching
  <1> QED
    BY <1>2, <1>3, TailWaits, DecoderFacts DEF KeysIInv, DecodersOK

LEMMA HeadFacts ==
    ASSUME KeysIInv, NEW d \in Decoders, keyQueue # <<>>, Head(keyQueue) = d
    PROVE  /\ WaitingOK(d, Tail(keyQueue))
           /\ decoder[d].kid \in Kids /\ decoder[d].kid <= published
  <1>1. keyQueue \in Seq(Decoders) /\ Len(keyQueue) \in Nat \ {0} /\ keyQueue[1] = d
    BY EmptySeq DEF KeysIInv, QueueOK
  <1>2. 1 \in 1..Len(keyQueue)
    BY <1>1
  <1>3. decoder[d].step \in QueuedSteps
    BY <1>1, <1>2 DEF KeysIInv, QueueOK
  <1>4. decoder[d].step # "idle"
    BY <1>3 DEF QueuedSteps, Looking, Fetching
  <1> QED
    BY <1>4, TailWaits, DecoderFacts DEF KeysIInv, DecodersOK

LEMMA OutcomeFacts ==
    ASSUME KeyTypes, NEW kid \in Kids, kid <= published, NEW r, IsOutcome(r, kid)
    PROVE  /\ r \in DecoderStates /\ r.step # "lookup" /\ r.step # "idle" /\ r.step # "again"
           /\ r.kid <= published /\ r.now <= keyClock
  BY KeyNumbers DEF IsOutcome, KeyTypes

LEMMA AnswerFacts ==
    ASSUME KeyTypes, NEW kid \in Kids, kid <= published, NEW step \in {"unavailable", "again"}
    PROVE  LET r == Step(step, kid, 0) IN
           /\ r \in DecoderStates /\ r.step = step /\ r.kid = kid /\ r.kid <= published /\ r.now <= keyClock
  BY StepFacts, KeyNumbers DEF KeyTypes, QueuedSteps, Looking, Answers

\* Decode with others in the queue.
LEMMA JoinsQueue ==
    ASSUME KeysIInv, NEW d \in Decoders, decoder[d].step = "idle", NEW kid \in Kids, kid <= published,
           decoder' = [decoder EXCEPT ![d] = Step("lookup", kid, 0)], keyQueue # <<>>,
           keyQueue' = Append(keyQueue, d), UNCHANGED <<keyClock, published, retired, keyCache>>
    PROVE  KeysIInv'
  <1>1. Step("lookup", kid, 0) \in DecoderStates /\ Step("lookup", kid, 0).step = "lookup" /\ Step("lookup", kid, 0).kid = kid
        /\ Step("lookup", kid, 0).now = 0
    BY StepFacts, KeyNumbers DEF QueuedSteps, Looking
  <1>2. /\ decoder'[d] = Step("lookup", kid, 0) /\ \A f \in Decoders \ {d} : decoder'[f] = decoder[f]
        /\ decoder' \in [Decoders -> DecoderStates]
    BY <1>1 DEF KeysIInv, DecodersOK
  <1>3. DecodersOK'
    BY <1>1, <1>2, KeyNumbers DEF KeysIInv, DecodersOK, KeyTypes
  <1>4. keyQueue \in Seq(Decoders) /\ Len(keyQueue) \in Nat \ {0} /\ \A i \in 1..Len(keyQueue) : keyQueue[i] \in Decoders
    BY EmptySeq, ElementOfSeq DEF KeysIInv, QueueOK
  <1>5. /\ keyQueue' \in Seq(Decoders) /\ Len(keyQueue') = Len(keyQueue) + 1
        /\ \A i \in 1..Len(keyQueue) : keyQueue'[i] = keyQueue[i]
        /\ keyQueue'[Len(keyQueue) + 1] = d
    BY <1>4, AppendProperties
  <1>6. \A i \in 1..Len(keyQueue) : keyQueue[i] # d
    BY DEF KeysIInv, QueueOK, QueuedSteps, Looking, Fetching
  <1>7. \A i \in 1..Len(keyQueue') : i \in 1..Len(keyQueue) \/ i = Len(keyQueue) + 1
    BY <1>4, <1>5
  <1>8. \A i, j \in 1..Len(keyQueue') : keyQueue'[i] = keyQueue'[j] => i = j
    BY <1>4, <1>5, <1>6, <1>7 DEF KeysIInv, QueueOK
  <1>9. \A i \in 1..Len(keyQueue') : decoder'[keyQueue'[i]].step \in QueuedSteps
    <2>1. \A i \in 1..Len(keyQueue) : decoder'[keyQueue[i]] = decoder[keyQueue[i]]
      BY <1>2, <1>4, <1>6
    <2>2. decoder'[d].step \in QueuedSteps
      BY <1>1, <1>2 DEF QueuedSteps, Looking
    <2> QED
      BY <1>5, <1>7, <2>1, <2>2 DEF KeysIInv, QueueOK
  <1>10. \A f \in Decoders : decoder'[f].step \in Fetching => Len(keyQueue') > 0 /\ keyQueue'[1] = f
    <2>1. decoder'[d].step \notin Fetching
      BY <1>1, <1>2 DEF Fetching
    <2>2. 1 \in 1..Len(keyQueue) /\ Len(keyQueue') > 0
      BY <1>4, <1>5
    <2> QED
      BY <1>2, <1>5, <2>1, <2>2 DEF KeysIInv, QueueOK
  <1>11. QueueOK'
    BY <1>5, <1>8, <1>9, <1>10 DEF QueueOK
  <1> QED
    BY <1>3, <1>11 DEF KeysIInv, KeyTypes, CacheIsDated

\* Every step of a caller, of the clock and of the identity provider keeps the inductive invariant.
LEMMA KeysStep ==
    ASSUME KeysIInv, [IdpKeysNext]_keyVars
    PROVE  KeysIInv'
  <1>0. KeyTypes /\ keyClock \in KeyMoments /\ CacheIsDated(keyCache) /\ QueueOK
    BY DEF KeysIInv, KeyTypes
  <1>1. ASSUME NEW d \in Decoders, Decode(d) PROVE KeysIInv'
    <2> PICK kid \in {Foreign} \union 1..published :
          IF keyQueue = <<>>
          THEN Moves(d, Looked(kid, FALSE, keyCache, <<>>), <<>>)
          ELSE /\ decoder' = [decoder EXCEPT ![d] = Step("lookup", kid, 0)]
               /\ keyQueue' = Append(keyQueue, d)
      BY <1>1 DEF Decode
    <2>1. kid \in Kids /\ kid <= published
      BY <1>0, KeyNumbers, IdpKeysAssumption DEF Kids, KeyTypes, KeyIds, Foreign
    <2>2. decoder[d].step = "idle" /\ UNCHANGED <<keyClock, published, retired, keyCache>>
      BY <1>1 DEF Decode
    <2>3. CASE keyQueue = <<>>
      <3> DEFINE r == Looked(kid, FALSE, keyCache, <<>>)
      <3>1. IsOutcome(r, kid)
        BY <1>0, <2>1, LookedFacts
      <3>2. Moves(d, r, <<>>) /\ WaitingOK(d, <<>>)
        BY <1>0, <2>3, EmptyWaits
      <3> HIDE DEF r
      <3> QED
        BY <1>0, <2>1, <2>2, <3>1, <3>2, OutcomeFacts, MovesKeep
    <2>4. CASE keyQueue # <<>>
      BY <2>1, <2>2, <2>4, JoinsQueue
    <2> QED
      BY <2>3, <2>4
  <1>2. ASSUME NEW d \in Decoders, Turn(d) PROVE KeysIInv'
    <2> DEFINE b == decoder[d]  waiting == Tail(keyQueue)
    <2>1. WaitingOK(d, waiting) /\ b.kid \in Kids /\ b.kid <= published
      BY <1>2, HeadFacts DEF Turn
    <2> HIDE DEF waiting, b
    <2>2. \E r : Moves(d, r, waiting) /\ IsOutcome(r, b.kid)
      <3>1. CASE Moves(d, Looked(b.kid, b.step = "again", keyCache, waiting), waiting)
        BY <1>0, <2>1, <3>1, LookedFacts
      <3>2. CASE Moves(d, Refreshing(b.kid, keyCache), waiting)
        BY <1>0, <2>1, <3>2, RefreshingFacts
      <3> QED
        BY <1>2, <3>1, <3>2 DEF Turn, b, waiting
    <2> QED
      BY <1>0, <1>2, <2>1, <2>2, OutcomeFacts, MovesKeep DEF Turn
  <1>3. ASSUME NEW d \in Decoders, Fetched(d) PROVE KeysIInv'
    <2> DEFINE b == decoder[d]  waiting == Tail(keyQueue)  cache == [key |-> published, fetchedAt |-> b.now, keysAt |-> b.now]
    <2>1. /\ WaitingOK(d, waiting) /\ b.kid \in Kids /\ b.kid <= published
          /\ b.now \in KeyMoments /\ b.now <= keyClock
      BY <1>3, FetcherFacts DEF Fetched, Fetching
    <2>2. CacheIsDated(cache) /\ cache.key = published
      BY <1>0, <2>1, NewCacheDated
    <2>3. \/ keyCache' = cache /\ Moves(d, Checking(b.kid, b.step = "fetchAgain", cache, waiting), waiting)
          \/ UNCHANGED keyCache /\ Moves(d, Step("unavailable", b.kid, 0), waiting)
      BY <1>3 DEF Fetched
    <2>4. UNCHANGED <<keyClock, published, retired>>
      BY <1>3 DEF Fetched
    <2> HIDE DEF waiting, b, cache
    <2>5. CASE keyCache' = cache /\ Moves(d, Checking(b.kid, b.step = "fetchAgain", cache, waiting), waiting)
      <3>1. IsOutcome(Checking(b.kid, b.step = "fetchAgain", cache, waiting), b.kid)
        BY <1>0, <2>1, CheckingFacts
      <3>2. CacheIsDated(keyCache') /\ keyCache'.key = published
        BY <2>2, <2>5
      <3> QED
        BY <1>0, <2>1, <2>4, <2>5, <3>1, <3>2, OutcomeFacts, MovesKeep
    <2>6. CASE UNCHANGED keyCache /\ Moves(d, Step("unavailable", b.kid, 0), waiting)
      BY <1>0, <2>1, <2>4, <2>6, AnswerFacts, MovesKeep
    <2> QED
      BY <2>3, <2>5, <2>6
  <1>4. ASSUME NEW d \in Decoders, Refetched(d) PROVE KeysIInv'
    <2> DEFINE b == decoder[d]  waiting == Tail(keyQueue)
               cache == [key |-> published, fetchedAt |-> keyCache.fetchedAt, keysAt |-> keyClock]
    <2>1. /\ WaitingOK(d, waiting) /\ b.kid \in Kids /\ b.kid <= published
      BY <1>4, FetcherFacts DEF Refetched, Fetching
    <2>2. CacheIsDated(cache) /\ cache.key = published
      <3>1. keyCache.fetchedAt \in KeyMoments /\ keyCache.fetchedAt <= keyClock
        BY <1>0, CacheFacts DEF CacheIsDated
      <3>2. keyClock <= keyClock
        BY <1>0, KeyNumbers
      <3> QED
        BY <1>0, <3>1, <3>2, NewCacheDated
    <2>3. \/ /\ keyCache' = cache
             /\ Moves(d, IF waiting = <<>> THEN Looked(b.kid, TRUE, cache, <<>>) ELSE Step("again", b.kid, 0), waiting)
          \/ UNCHANGED keyCache /\ Moves(d, Step("unavailable", b.kid, 0), waiting)
      BY <1>4 DEF Refetched
    <2>4. UNCHANGED <<keyClock, published, retired>>
      BY <1>4 DEF Refetched
    <2> HIDE DEF waiting, b, cache
    <2>5. CASE keyCache' = cache /\ waiting = <<>> /\ Moves(d, Looked(b.kid, TRUE, cache, <<>>), waiting)
      <3>1. IsOutcome(Looked(b.kid, TRUE, cache, <<>>), b.kid)
        BY <1>0, <2>1, LookedFacts
      <3>2. CacheIsDated(keyCache') /\ keyCache'.key = published
        BY <2>2, <2>5
      <3> QED
        BY <1>0, <2>1, <2>4, <2>5, <3>1, <3>2, OutcomeFacts, MovesKeep
    <2>6. CASE keyCache' = cache /\ Moves(d, Step("again", b.kid, 0), waiting)
      <3>1. CacheIsDated(keyCache') /\ keyCache'.key = published
        BY <2>2, <2>6
      <3> QED
        BY <1>0, <2>1, <2>4, <2>6, <3>1, AnswerFacts, MovesKeep
    <2>7. CASE UNCHANGED keyCache /\ Moves(d, Step("unavailable", b.kid, 0), waiting)
      BY <1>0, <2>1, <2>4, <2>7, AnswerFacts, MovesKeep
    <2> QED
      BY <2>3, <2>5, <2>6, <2>7
  <1>5. ASSUME NEW d \in Decoders, Decoded(d) PROVE KeysIInv'
    <2>1. /\ decoder' = [decoder EXCEPT ![d] = [step |-> "idle"]] /\ decoder[d].step \in Answers
          /\ UNCHANGED <<keyClock, published, retired, keyCache, keyQueue>>
      BY <1>5 DEF Decoded
    <2>2. [step |-> "idle"] \in DecoderStates
      BY DEF DecoderStates
    <2>3. /\ decoder'[d].step = "idle" /\ \A f \in Decoders \ {d} : decoder'[f] = decoder[f]
          /\ decoder' \in [Decoders -> DecoderStates]
      BY <2>1, <2>2 DEF KeysIInv, DecodersOK
    <2>4. DecodersOK'
      BY <2>1, <2>3 DEF KeysIInv, DecodersOK
    <2>5. QueueOK'
      <3>1. \A i \in 1..Len(keyQueue) : keyQueue[i] # d
        BY <2>1 DEF KeysIInv, QueueOK, QueuedSteps, Looking, Fetching, Answers
      <3>2. \A i \in 1..Len(keyQueue) : decoder'[keyQueue[i]] = decoder[keyQueue[i]]
        BY <2>3, <3>1, ElementOfSeq DEF KeysIInv, QueueOK
      <3>3. decoder'[d].step \notin Fetching
        BY <2>3 DEF Fetching
      <3> QED
        BY <2>1, <2>3, <3>2, <3>3 DEF KeysIInv, QueueOK
    <2> QED
      BY <2>1, <2>4, <2>5 DEF KeysIInv, KeyTypes, CacheIsDated
  <1>6. CASE Rotate
    <2>1. /\ published < LastKey /\ published' = published + 1 /\ retired' = [retired EXCEPT ![published] = keyClock]
          /\ UNCHANGED <<keyClock, keyCache, keyQueue, decoder>>
      BY <1>6 DEF Rotate
    <2>2. KeyTypes'
      BY <1>0, <2>1, IdpKeysAssumption DEF KeyTypes, KeyIds
    <2>3. CacheIsDated(keyCache)'
      <3>1. keyCache \in CacheStates /\ keyCache.key \in Nat /\ published \in Nat
        BY <1>0, CacheFacts, KeyNumbers DEF CacheIsDated, KeyTypes
      <3>2. keyCache.key <= published' /\ (keyCache.key < published' => keyCache.key = published \/ keyCache.key < published)
        BY <1>0, <2>1, <3>1 DEF CacheIsDated
      <3>3. keyCache.key \in KeyIds /\ keyCache.key < published' => keyCache.fetchedAt <= retired'[keyCache.key]
        BY <1>0, <2>1, <3>1, <3>2 DEF CacheIsDated, KeyTypes
      <3> QED
        BY <1>0, <2>1, <3>2, <3>3 DEF CacheIsDated
    <2>4. DecodersOK'
      <3>1. \A d \in Decoders : decoder[d].step # "idle" => decoder[d].kid \in Nat /\ decoder[d].kid <= published /\ published \in Nat
        BY <1>0, DecoderFacts, KeyNumbers DEF KeysIInv, DecodersOK, KeyTypes
      <3>2. \A d \in Decoders : decoder[d].step # "idle" => decoder[d].kid <= published' /\ decoder[d].kid # published'
        BY <2>1, <3>1
      <3> QED
        BY <2>1, <3>2 DEF KeysIInv, DecodersOK
    <2> QED
      BY <1>0, <2>1, <2>2, <2>3, <2>4 DEF KeysIInv, QueueOK
  <1>7. CASE PassKeyTime
    <2>1. /\ keyClock < KeyClockBound /\ keyClock' = keyClock + 1 /\ UNCHANGED <<published, retired, keyCache, keyQueue, decoder>>
      BY <1>7 DEF PassKeyTime
    <2>2. KeyTypes'
      BY <1>0, <2>1, IdpKeysAssumption DEF KeyTypes, KeyMoments
    <2>3. CacheIsDated(keyCache)'
      BY <1>0, <2>1, CacheFacts, KeyNumbers DEF CacheIsDated
    <2>4. DecodersOK'
      <3>1. \A d \in Decoders : decoder[d].step # "idle" => decoder[d].now \in Nat /\ decoder[d].now <= keyClock /\ keyClock \in Nat
        BY <1>0, DecoderFacts, KeyNumbers DEF KeysIInv, DecodersOK
      <3> QED
        BY <2>1, <3>1 DEF KeysIInv, DecodersOK
    <2> QED
      BY <1>0, <2>1, <2>2, <2>3, <2>4 DEF KeysIInv, QueueOK
  <1>8. CASE UNCHANGED keyVars
    BY <1>8 DEF keyVars, KeysIInv, KeyTypes, CacheIsDated, DecodersOK, QueueOK
  <1> QED
    BY <1>1, <1>2, <1>3, <1>4, <1>5, <1>6, <1>7, <1>8 DEF IdpKeysNext

LEMMA KeysIInvHolds == IdpKeysSpec => []KeysIInv
  BY KeysInitHolds, KeysStep, PTL DEF IdpKeysSpec

LEMMA KeysTypeFact == ASSUME KeysIInv PROVE IdpKeysTypeOK
  <1>1. keyQueue \in Seq(Decoders)
    BY DEF KeysIInv, QueueOK
  <1>2. \A d \in Decoders : decoder[d].step \in Fetching => Len(keyQueue) > 0 /\ Head(keyQueue) = d
    BY <1>1 DEF KeysIInv, QueueOK
  <1>3. decoder \in [Decoders -> [step : {"idle"}] \union
          [step : Looking \union {"miss"} \union Fetching \union Answers, kid : KeyIds \union {Foreign}, now : KeyMoments]]
    BY DEF KeysIInv, DecodersOK, DecoderStates, QueuedSteps, Kids
  <1> QED
    BY <1>1, <1>2, <1>3 DEF IdpKeysTypeOK, KeysIInv, KeyTypes, CacheIsDated, CacheStates, QueueOK

\* What is so of an answer to a caller that has looked at a cache, and of one that has gone on
\* to its keys.
IsLooked(r, kid, second, cache) ==
    /\ r.kid = kid
    /\ r.step = "accepted" => kid = cache.key /\ ~Expired(cache)
    /\ r.step = "rejected" => kid # cache.key /\ (second = TRUE \/ Recent(cache))

IsChecked(r, kid, cache) ==
    /\ r.kid = kid
    /\ r.step = "accepted" => kid = cache.key
    /\ r.step = "rejected" => kid # cache.key

LEMMA LookedAnswer ==
    ASSUME keyClock \in KeyMoments, NEW kid \in Kids, NEW second \in BOOLEAN, NEW cache, NEW waiting
    PROVE  IsLooked(Looked(kid, second, cache, waiting), kid, second, cache)
  <1> DEFINE r == Looked(kid, second, cache, waiting)
  <1>1. IsOutcome(r, kid)
    BY LookedFacts
  <1>2. r.step = "accepted" => kid = cache.key /\ ~Expired(cache)
    BY LookedFacts
  <1>3. r.step = "rejected" => kid # cache.key /\ (second = TRUE \/ Recent(cache))
    BY LookedFacts
  <1> QED
    BY <1>1, <1>2, <1>3 DEF IsOutcome, IsLooked

LEMMA CheckedAnswer ==
    ASSUME keyClock \in KeyMoments, NEW kid \in Kids, NEW second \in BOOLEAN, NEW cache, NEW waiting
    PROVE  IsChecked(Checking(kid, second, cache, waiting), kid, cache)
  BY CheckingFacts DEF IsOutcome, IsChecked

\* On what grounds a token is accepted or rejected.
LEMMA AnswerSteps ==
    ASSUME KeysIInv, [IdpKeysNext]_keyVars, NEW d \in Decoders, decoder'[d] # decoder[d]
    PROVE  /\ UNCHANGED <<keyClock, published, retired>>
           /\ \/ decoder'[d].step \notin {"accepted", "rejected"}
              \/ decoder'[d].step = "accepted" /\ decoder'[d].kid = published
              \/ decoder'[d].step = "accepted" /\ decoder'[d].kid = keyCache.key /\ ~Expired(keyCache)
              \/ decoder'[d].step = "rejected" /\ decoder'[d].kid # published
              \/ decoder'[d].step = "rejected" /\ Recent(keyCache) /\ keyCache' = keyCache
  <1>0. KeyTypes /\ keyClock \in KeyMoments /\ decoder \in [Decoders -> DecoderStates]
    BY DEF KeysIInv, KeyTypes, DecodersOK
  <1>1. \A r, w : Moves(d, r, w) => decoder'[d] = r
    BY <1>0 DEF Moves
  <1>2. Decode(d) \/ Turn(d) \/ Fetched(d) \/ Refetched(d) \/ Decoded(d)
    <2>1. ~(Rotate \/ PassKeyTime \/ UNCHANGED keyVars)
      BY DEF Rotate, PassKeyTime, keyVars
    <2>2. ASSUME NEW f \in Decoders, Decode(f) \/ Turn(f) \/ Fetched(f) \/ Refetched(f) \/ Decoded(f) PROVE f = d
      <3>1. \E r : decoder' = [decoder EXCEPT ![f] = r]
        BY <2>2 DEF Decode, Turn, Fetched, Refetched, Decoded, Moves
      <3> QED
        BY <1>0, <3>1
    <2> QED
      BY <2>1, <2>2 DEF IdpKeysNext
  <1>3. CASE Decode(d)
    <2> PICK kid \in {Foreign} \union 1..published :
          IF keyQueue = <<>>
          THEN Moves(d, Looked(kid, FALSE, keyCache, <<>>), <<>>)
          ELSE decoder' = [decoder EXCEPT ![d] = Step("lookup", kid, 0)]
      BY <1>3 DEF Decode
    <2>1. kid \in Kids
      BY <1>0, KeyNumbers, IdpKeysAssumption DEF Kids, KeyTypes, KeyIds, Foreign
    <2>2. UNCHANGED <<keyClock, published, retired, keyCache>>
      BY <1>3 DEF Decode
    <2>3. CASE keyQueue = <<>>
      <3> DEFINE r == Looked(kid, FALSE, keyCache, <<>>)
      <3>1. decoder'[d] = r
        BY <1>1, <2>3
      <3>2. IsLooked(r, kid, FALSE, keyCache)
        BY <1>0, <2>1, LookedAnswer
      <3> HIDE DEF r
      <3> QED
        BY <2>2, <3>1, <3>2 DEF IsLooked
    <2>4. CASE keyQueue # <<>>
      <3>1. decoder'[d] = Step("lookup", kid, 0)
        BY <1>0, <2>4
      <3> QED
        BY <2>2, <3>1, StepFacts
    <2> QED
      BY <2>3, <2>4
  <1>4. CASE Turn(d)
    <2> DEFINE b == decoder[d]  waiting == Tail(keyQueue)
    <2>1. b.kid \in Kids /\ UNCHANGED <<keyClock, published, retired, keyCache>>
      BY <1>4, HeadFacts DEF Turn
    <2>kid. b.kid \in Kids
      BY <2>1
    <2> HIDE DEF b, waiting
    <2>2. CASE b.step \in Looking /\ Moves(d, Looked(b.kid, b.step = "again", keyCache, waiting), waiting)
      <3> DEFINE r == Looked(b.kid, b.step = "again", keyCache, waiting)
      <3>1. decoder'[d] = r
        BY <1>1, <2>2
      <3>2. IsLooked(r, b.kid, b.step = "again", keyCache)
        BY <1>0, <2>kid, LookedAnswer
      <3>3. b.step = "again" /\ b.kid = published => keyCache.key = published
        BY DEF KeysIInv, DecodersOK, b
      <3> HIDE DEF r
      <3> QED
        BY <2>1, <3>1, <3>2, <3>3 DEF IsLooked
    <2>3. CASE Moves(d, Refreshing(b.kid, keyCache), waiting)
      <3>1. decoder'[d] = Refreshing(b.kid, keyCache)
        BY <1>1, <2>3
      <3>2. decoder'[d].step # "accepted" /\ (decoder'[d].step = "rejected" => Recent(keyCache))
        BY <1>0, <2>1, <3>1, RefreshingFacts
      <3> QED
        BY <2>1, <3>2
    <2> QED
      BY <1>4, <2>2, <2>3 DEF Turn, b, waiting
  <1>5. CASE Fetched(d)
    <2> DEFINE b == decoder[d]  waiting == Tail(keyQueue)  cache == [key |-> published, fetchedAt |-> b.now, keysAt |-> b.now]
    <2>1. b.kid \in Kids /\ UNCHANGED <<keyClock, published, retired>> /\ cache.key = published
      BY <1>5, FetcherFacts DEF Fetched, Fetching
    <2>2. \/ Moves(d, Checking(b.kid, b.step = "fetchAgain", cache, waiting), waiting)
          \/ Moves(d, Step("unavailable", b.kid, 0), waiting)
      BY <1>5 DEF Fetched
    <2>kid. b.kid \in Kids
      BY <2>1
    <2> HIDE DEF b, waiting, cache
    <2>3. CASE Moves(d, Checking(b.kid, b.step = "fetchAgain", cache, waiting), waiting)
      <3> DEFINE r == Checking(b.kid, b.step = "fetchAgain", cache, waiting)
      <3>1. decoder'[d] = r
        BY <1>1, <2>3
      <3>2. IsChecked(r, b.kid, cache)
        BY <1>0, <2>kid, CheckedAnswer
      <3> HIDE DEF r
      <3> QED
        BY <2>1, <3>1, <3>2 DEF IsChecked
    <2>4. CASE Moves(d, Step("unavailable", b.kid, 0), waiting)
      BY <1>1, <2>1, <2>4, StepFacts
    <2> QED
      BY <2>2, <2>3, <2>4
  <1>6. CASE Refetched(d)
    <2> DEFINE b == decoder[d]  waiting == Tail(keyQueue)
               cache == [key |-> published, fetchedAt |-> keyCache.fetchedAt, keysAt |-> keyClock]
    <2>1. b.kid \in Kids /\ UNCHANGED <<keyClock, published, retired>> /\ cache.key = published
      BY <1>6, FetcherFacts DEF Refetched, Fetching
    <2>2. \/ Moves(d, Looked(b.kid, TRUE, cache, <<>>), waiting)
          \/ Moves(d, Step("again", b.kid, 0), waiting) \/ Moves(d, Step("unavailable", b.kid, 0), waiting)
      BY <1>6 DEF Refetched
    <2>kid. b.kid \in Kids
      BY <2>1
    <2> HIDE DEF b, waiting, cache
    <2>3. CASE Moves(d, Looked(b.kid, TRUE, cache, <<>>), waiting)
      <3> DEFINE r == Looked(b.kid, TRUE, cache, <<>>)
      <3>1. decoder'[d] = r
        BY <1>1, <2>3
      <3>2. IsLooked(r, b.kid, TRUE, cache)
        BY <1>0, <2>kid, LookedAnswer
      <3> HIDE DEF r
      <3> QED
        BY <2>1, <3>1, <3>2 DEF IsLooked
    <2>4. CASE Moves(d, Step("again", b.kid, 0), waiting) \/ Moves(d, Step("unavailable", b.kid, 0), waiting)
      BY <1>1, <2>1, <2>4, StepFacts
    <2> QED
      BY <2>2, <2>3, <2>4
  <1>7. CASE Decoded(d)
    BY <1>0, <1>7 DEF Decoded
  <1> QED
    BY <1>2, <1>3, <1>4, <1>5, <1>6, <1>7

\* A step that accepts a key that is published no more.
LEMMA LapseStep ==
    ASSUME KeysIInv, [IdpKeysNext]_keyVars, NEW d \in Decoders,
           decoder[d].step # "accepted", decoder'[d].step = "accepted", decoder'[d].kid # published
    PROVE  keyClock - retired[decoder'[d].kid] <= CacheTtl
  <1>1. decoder'[d].kid = keyCache.key /\ ~Expired(keyCache)
    BY AnswerSteps
  <1>2. keyCache \in CacheStates /\ keyCache # NoKeys /\ keyClock - keyCache.fetchedAt <= CacheTtl
    <2>1. keyCache \in CacheStates /\ keyCache # NoKeys /\ ~(keyClock - keyCache.fetchedAt > CacheTtl)
      BY <1>1 DEF Expired, KeysIInv, CacheIsDated
    <2>2. keyCache.fetchedAt \in Nat
      BY <2>1, CacheFacts
    <2> QED
      BY <2>1, <2>2, KeyNumbers DEF KeysIInv, KeyTypes
  <1>3. keyCache.key \in KeyIds /\ keyCache.key < published /\ keyCache.fetchedAt \in Nat
    BY <1>1, <1>2, CacheFacts, KeyNumbers DEF KeysIInv, CacheIsDated, KeyTypes
  <1>4. keyCache.fetchedAt <= retired[keyCache.key] /\ retired[keyCache.key] \in Nat
    BY <1>3, KeyNumbers DEF KeysIInv, CacheIsDated, KeyTypes
  <1> QED
    BY <1>1, <1>2, <1>3, <1>4, KeyNumbers DEF KeysIInv, KeyTypes

\* A step that rejects the key that is published.
LEMMA NoticeStep ==
    ASSUME KeysIInv, [IdpKeysNext]_keyVars, NEW d \in Decoders,
           decoder[d].step # "rejected", decoder'[d].step = "rejected", decoder'[d].kid = published
    PROVE  keyClock - keyCache'.keysAt < RefreshMin
  BY AnswerSteps DEF Recent

\* The type invariant of the signing keys.
THEOREM KeysTypeCorrect == IdpKeysSpec => []IdpKeysTypeOK
  BY KeysIInvHolds, KeysTypeFact, PTL

\* A withdrawn key is accepted for the lifetime of the cache at most, and a rotation is noticed
\* within the pause between two fetches, whatever callers overlap (oidc.py:96-151).
THEOREM KeysTheorem == IdpKeysSpec => KeysTurnOver
  <1>1. KeysIInv /\ [IdpKeysNext]_keyVars =>
          [\A d \in Decoders :
             decoder[d].step # "accepted" /\ decoder'[d].step = "accepted" /\ decoder'[d].kid # published
                 => keyClock - retired[decoder'[d].kid] <= CacheTtl]_keyVars
    BY LapseStep
  <1>2. KeysIInv /\ [IdpKeysNext]_keyVars =>
          [\A d \in Decoders :
             decoder[d].step # "rejected" /\ decoder'[d].step = "rejected" /\ decoder'[d].kid = published
                 => keyClock - keyCache'.keysAt < RefreshMin]_keyVars
    BY NoticeStep
  <1> QED
    BY <1>1, <1>2, KeysIInvHolds, PTL DEF IdpKeysSpec, KeysTurnOver, WithdrawnKeysLapse, RotationIsNoticed

-----------------------------------------------------------------------------
(* Groups and datasets: the members and the names. *)

SetStates == {NoSet, Gone} \union [kind : Kinds, name : SetNames, members : SUBSET MemberRows]
\* What requests on groups and datasets are in the middle of.
SetEditorStates ==
    [step : {"idle"}] \union
    [step : {"create"}, set : Sets, kind : Kinds, name : SetNames, list : Lists] \union
    [step : {"named", "locked"}, set : Sets, kind : Kinds, change : Edits] \union
    [step : {"deleting", "deleted"}, set : Sets, kind : Kinds, change : Edits, locked : BOOLEAN, found : SUBSET MemberRows]

KindRoles(kind) == IF kind = "balance" THEN {"input", "output"} ELSE {"member"}
LeastMembers(kind) == IF kind = "dataset" THEN 1 ELSE MinMembers

\* Member rows that make a valid list of a kind: a series once, at least the least number, and the
\* roles of the kind.
RowsFit(kind, rows) ==
    /\ IsFiniteSet(rows) /\ Cardinality(rows) >= LeastMembers(kind)
    /\ {m.role : m \in rows} = KindRoles(kind)
    /\ \A m, n \in rows : m.series = n.series => m = n

SetFits(s) == s.kind \in Kinds => RowsFit(s.kind, s.members)

ChangeSteps == {"named", "locked", "deleting", "deleted"}

\* What a request has checked stays so until it writes.
EditorFits(q) ==
    /\ q.step = "create" => ValidMembers(q.kind, q.list) /\ sets[q.set] = NoSet
    /\ q.step \in ChangeSteps =>
          /\ sets[q.set] # NoSet /\ (Exists(q.set) => sets[q.set].kind = q.kind)
          /\ q.change.list # <<>> => ValidMembers(q.kind, q.change.list)
          /\ q.step # "named" => q.change.list # <<>>
          \* Of a group, only a locked row is renamed after the list.
          /\ q.step \in {"deleting", "deleted"} /\ ~q.locked /\ q.kind # "dataset" => q.change.name = Keep

\* Two requests create no group of one id.
CreatesApart ==
    \A e, f \in SetEditors : setEditor[e].step = "create" /\ setEditor[f].step = "create" /\ setEditor[e].set = setEditor[f].set => e = f

IsGroup(g)   == Exists(g) /\ sets[g].kind # "dataset"
\* A request that has updated the row of a group holds its new name until it ends: the unique index
\* makes others wait.
Holding(q) ==
    /\ q.step = "locked" \/ (q.step \in {"deleting", "deleted"} /\ q.locked)
    /\ q.kind # "dataset" /\ q.change.name # Keep
HoldsName(f) == Holding(setEditor[f])

\* A name that is held is the name of no other group, and held once.
NamesHeld ==
    /\ \A f \in SetEditors : HoldsName(f) =>
          \A h \in Sets : h # setEditor[f].set /\ IsGroup(h) => sets[h].name # setEditor[f].change.name
    /\ \A e, f \in SetEditors : HoldsName(e) /\ HoldsName(f) /\ setEditor[e].change.name = setEditor[f].change.name => e = f

\* The inductive invariant: the properties and what requests have checked and hold.
SetsIInv ==
    /\ sets \in [Sets -> SetStates] /\ setEditor \in [SetEditors -> SetEditorStates]
    /\ \A g \in Sets : SetFits(sets[g])
    /\ \A e \in SetEditors : EditorFits(setEditor[e])
    /\ CreatesApart /\ NamesHeld /\ GroupNamesDiffer

LEMMA SetNumbers ==
    /\ MinMembers \in Nat \ {0} /\ MaxMembers \in Nat /\ Keep \notin SetNames
    /\ \A c \in Edits : c.list \in Lists \union {<<>>} /\ c.row \in BOOLEAN /\ c.name \in SetNames \union {Keep}
    /\ \A l \in Lists : /\ l \in Seq([series : SeriesIds, role : {"member", "input", "output"}])
                        /\ Len(l) \in Nat /\ DOMAIN l = 1..Len(l)
                        /\ \A i \in DOMAIN l : l[i].series \in SeriesIds /\ l[i].role \in {"member", "input", "output"}
  <1>1. MinMembers \in Nat \ {0} /\ MaxMembers \in Nat /\ Keep \notin SetNames
    BY CollectionsAssumption
  <1>2. \A c \in Edits : c.list \in Lists \union {<<>>} /\ c.row \in BOOLEAN /\ c.name \in SetNames \union {Keep}
    <2>1. \A c \in Edits : c \in [list : Lists \union {<<>>}, row : BOOLEAN, name : SetNames \union {Keep}]
      BY CollectionsAssumption
    <2> QED
      BY <2>1
  <1>3. ASSUME NEW l \in Lists
        PROVE  /\ l \in Seq([series : SeriesIds, role : {"member", "input", "output"}])
               /\ Len(l) \in Nat /\ DOMAIN l = 1..Len(l)
               /\ \A i \in DOMAIN l : l[i].series \in SeriesIds /\ l[i].role \in {"member", "input", "output"}
    <2>1. l \in Seq([series : SeriesIds, role : {"member", "input", "output"}])
      BY CollectionsAssumption
    <2>2. Len(l) \in Nat /\ DOMAIN l = 1..Len(l) /\ \A i \in DOMAIN l : l[i] \in [series : SeriesIds, role : {"member", "input", "output"}]
      <3> DEFINE R == [series : SeriesIds, role : {"member", "input", "output"}]
      <3>1. l \in Seq(R)
        BY <2>1
      <3> HIDE DEF R
      <3>2. Len(l) \in Nat /\ DOMAIN l = 1..Len(l) /\ \A i \in 1..Len(l) : l[i] \in R
        BY <3>1, LenProperties, ElementOfSeq
      <3> QED
        BY <3>2 DEF R
    <2> QED
      BY <2>1, <2>2
  <1> QED
    BY <1>1, <1>2, <1>3

\* The states of sets are told apart by their kind.
LEMMA SetStateFacts ==
    ASSUME NEW s \in SetStates
    PROVE  /\ s.kind \in Kinds => /\ s = [kind |-> s.kind, name |-> s.name, members |-> s.members]
                                  /\ s.name \in SetNames /\ s.members \subseteq MemberRows
           /\ s.kind \in Kinds => s # NoSet
           /\ s.kind \notin Kinds => s = NoSet \/ s = Gone
           /\ NoSet.kind \notin Kinds /\ Gone.kind \notin Kinds /\ Gone # NoSet
  <1>1. NoSet.kind = "none" /\ Gone.kind = "gone" /\ Kinds = {"related", "balance", "dataset"}
    BY DEF NoSet, Gone, Kinds
  <1>2. CASE s \in [kind : Kinds, name : SetNames, members : SUBSET MemberRows]
    BY <1>1, <1>2
  <1>3. CASE s \in {NoSet, Gone}
    BY <1>1, <1>3
  <1> QED
    BY <1>2, <1>3 DEF SetStates

\* The rows of a valid list.
LEMMA ListRowsFacts ==
    ASSUME NEW kind \in Kinds, NEW l \in Lists, ValidMembers(kind, l)
    PROVE  RowsFit(kind, ListRows(l)) /\ ListRows(l) \subseteq MemberRows
  <1>1. /\ Len(l) \in Nat /\ DOMAIN l = 1..Len(l)
        /\ \A i \in DOMAIN l : l[i].series \in SeriesIds /\ l[i].role \in {"member", "input", "output"}
    BY SetNumbers
  <1>2. /\ Len(l) <= MaxMembers /\ (kind # "dataset" => Len(l) >= MinMembers) /\ Len(l) >= 1
        /\ \A i, j \in DOMAIN l : l[i].series = l[j].series => i = j
        /\ {l[i].role : i \in DOMAIN l} = KindRoles(kind)
    BY DEF ValidMembers, KindRoles
  <1> DEFINE row(i) == [series |-> l[i].series, role |-> l[i].role, position |-> i]
             f == [i \in 1..Len(l) |-> row(i)]
  <1>3. \A i \in DOMAIN l : row(i) \in MemberRows /\ row(i).series = l[i].series /\ row(i).role = l[i].role /\ row(i).position = i
    BY <1>1, <1>2, SetNumbers DEF MemberRows
  <1>4. \A m : m \in ListRows(l) <=> \E i \in DOMAIN l : m = row(i)
    BY DEF ListRows
  <1> HIDE DEF row
  <1>5. f \in Surjection(1..Len(l), ListRows(l))
    BY <1>1, <1>4 DEF Surjection
  <1>6. f \in Injection(1..Len(l), ListRows(l))
    BY <1>1, <1>3, <1>5 DEF Surjection, Injection, IsInjective
  <1>7. IsFiniteSet(1..Len(l)) /\ Cardinality(1..Len(l)) = Len(l)
    BY <1>1, <1>2, FS_Interval
  <1>8. IsFiniteSet(ListRows(l)) /\ Cardinality(ListRows(l)) = Len(l)
    BY <1>5, <1>6, <1>7, FS_Surjection
  <1>9. Cardinality(ListRows(l)) >= LeastMembers(kind)
    BY <1>1, <1>2, <1>8, SetNumbers DEF LeastMembers
  <1>10. {m.role : m \in ListRows(l)} = {l[i].role : i \in DOMAIN l}
    <2>1. \A m \in ListRows(l) : \E i \in DOMAIN l : m.role = l[i].role
      BY <1>3, <1>4
    <2>2. \A i \in DOMAIN l : \E m \in ListRows(l) : m.role = l[i].role
      BY <1>3, <1>4
    <2> QED
      BY <2>1, <2>2
  <1>11. \A m, n \in ListRows(l) : m.series = n.series => m = n
    BY <1>2, <1>3, <1>4
  <1>12. ListRows(l) \subseteq MemberRows
    BY <1>3, <1>4
  <1> QED
    BY <1>2, <1>8, <1>9, <1>10, <1>11, <1>12 DEF RowsFit

\* Replacing rows of a set by the rows of a valid list, where none that stays is of a series of the list.
LEMMA ReplacedFacts ==
    ASSUME NEW kind \in Kinds, NEW l \in Lists, ValidMembers(kind, l),
           NEW rows \in SUBSET MemberRows, RowsFit(kind, rows), NEW found,
           \A m \in rows \ found, i \in DOMAIN l : m.series # l[i].series
    PROVE  RowsFit(kind, Replaced(rows, found, l)) /\ Replaced(rows, found, l) \in SUBSET MemberRows
  <1>1. RowsFit(kind, ListRows(l)) /\ ListRows(l) \subseteq MemberRows
    BY ListRowsFacts
  <1> DEFINE stay == rows \ found  all == stay \union ListRows(l)
  <1>2. stay \subseteq rows /\ IsFiniteSet(stay)
    BY FS_Subset DEF RowsFit
  <1>3. IsFiniteSet(all) /\ ListRows(l) \in SUBSET all
    BY <1>1, <1>2, FS_Union DEF RowsFit
  <1>4. Cardinality(ListRows(l)) <= Cardinality(all) /\ Cardinality(ListRows(l)) \in Nat /\ Cardinality(all) \in Nat
    BY <1>1, <1>3, FS_Subset, FS_CardinalityType DEF RowsFit
  <1>5. Cardinality(all) >= LeastMembers(kind)
    BY <1>1, <1>4, SetNumbers DEF RowsFit, LeastMembers
  <1>6. \A m \in ListRows(l) : \E i \in DOMAIN l : m.series = l[i].series
    BY DEF ListRows
  <1> HIDE DEF stay
  <1>7. \A m \in stay, n \in ListRows(l) : m.series # n.series
    BY <1>6 DEF stay
  <1>8. \A m, n \in all : m.series = n.series => m = n
    BY <1>1, <1>2, <1>7 DEF RowsFit
  <1>9. {m.role : m \in all} = KindRoles(kind)
    <2>1. {m.role : m \in ListRows(l)} = KindRoles(kind) /\ {m.role : m \in rows} = KindRoles(kind)
      BY <1>1 DEF RowsFit
    <2>2. \A m \in all : m.role \in KindRoles(kind)
      BY <1>2, <2>1
    <2>3. \A r \in KindRoles(kind) : \E m \in all : m.role = r
      BY <2>1
    <2> HIDE DEF all
    <2> QED
      BY <2>2, <2>3
  <1>10. Replaced(rows, found, l) = all
    BY DEF Replaced, stay
  <1> HIDE DEF all
  <1>11. all \in SUBSET MemberRows
    BY <1>1, <1>2 DEF all
  <1> QED
    BY <1>3, <1>5, <1>8, <1>9, <1>10, <1>11 DEF RowsFit

\* What a request holds, by its step.
LEMMA SetEditorFacts ==
    ASSUME setEditor \in [SetEditors -> SetEditorStates], NEW e \in SetEditors
    PROVE  LET q == setEditor[e] IN
           /\ q.step \in {"idle", "create"} \union ChangeSteps
           /\ q.step = "create" => q.set \in Sets /\ q.kind \in Kinds /\ q.name \in SetNames /\ q.list \in Lists
           /\ q.step \in ChangeSteps => q.set \in Sets /\ q.kind \in Kinds /\ q.change \in Edits
           /\ q.step \in {"named", "locked"} => q = [step |-> q.step, set |-> q.set, kind |-> q.kind, change |-> q.change]
           /\ q.step \in {"deleting", "deleted"} => q.locked \in BOOLEAN /\ q.found \in SUBSET MemberRows
  <1> DEFINE q == setEditor[e]
  <1>1. q \in SetEditorStates
    OBVIOUS
  <1> HIDE DEF q
  <1>2. CASE q \in [step : {"idle"}]
    BY <1>2 DEF ChangeSteps, q
  <1>3. CASE q \in [step : {"create"}, set : Sets, kind : Kinds, name : SetNames, list : Lists]
    BY <1>3 DEF ChangeSteps, q
  <1>4. CASE q \in [step : {"named", "locked"}, set : Sets, kind : Kinds, change : Edits]
    BY <1>4 DEF ChangeSteps, q
  <1>5. CASE q \in [step : {"deleting", "deleted"}, set : Sets, kind : Kinds, change : Edits, locked : BOOLEAN, found : SUBSET MemberRows]
    BY <1>5 DEF ChangeSteps, q
  <1> QED
    BY <1>1, <1>2, <1>3, <1>4, <1>5 DEF SetEditorStates

\* A request does a step that leaves the sets alone.
LEMMA EditorMoves ==
    ASSUME SetsIInv, UNCHANGED sets, NEW e \in SetEditors, NEW r \in SetEditorStates, EditorTo(e, r), EditorFits(r),
           r.step = "create" => \A f \in SetEditors : setEditor[f].step = "create" => setEditor[f].set # r.set,
           Holding(r) => /\ \A h \in Sets : h # r.set /\ IsGroup(h) => sets[h].name # r.change.name
                         /\ \A f \in SetEditors \ {e} : HoldsName(f) => setEditor[f].change.name # r.change.name
    PROVE  SetsIInv'
  <1>1. /\ setEditor'[e] = r /\ \A f \in SetEditors \ {e} : setEditor'[f] = setEditor[f]
        /\ setEditor' \in [SetEditors -> SetEditorStates]
    BY DEF EditorTo, SetsIInv
  <1>2. \A q : EditorFits(q)' <=> EditorFits(q)
    BY DEF EditorFits, Exists
  <1>3. \A f \in SetEditors : EditorFits(setEditor'[f])
    BY <1>1 DEF SetsIInv
  <1>4. \A f \in SetEditors : EditorFits(setEditor[f])'
    BY <1>3 DEF EditorFits, Exists
  <1>5. CreatesApart'
    BY <1>1 DEF SetsIInv, CreatesApart
  <1>6. NamesHeld'
    <2>1. ASSUME NEW f \in SetEditors, HoldsName(f)', NEW h \in Sets, h # setEditor'[f].set, IsGroup(h)'
          PROVE  sets'[h].name # setEditor'[f].change.name
      BY <1>1, <2>1 DEF SetsIInv, NamesHeld, HoldsName, IsGroup, Exists
    <2>2. ASSUME NEW f \in SetEditors, NEW g \in SetEditors, HoldsName(f)', HoldsName(g)',
                 setEditor'[f].change.name = setEditor'[g].change.name
          PROVE  f = g
      BY <1>1, <2>2 DEF SetsIInv, NamesHeld, HoldsName
    <2> QED
      BY <2>1, <2>2 DEF NamesHeld
  <1>7. GroupNamesDiffer'
    BY DEF SetsIInv, GroupNamesDiffer, Exists
  <1> QED
    BY <1>1, <1>4, <1>5, <1>6, <1>7 DEF SetsIInv, SetFits

\* A set is written, and requests may end with it.
LEMMA SetWrites ==
    ASSUME SetsIInv, NEW g \in Sets, NEW v \in SetStates, v # NoSet, sets' = [sets EXCEPT ![g] = v], SetFits(v),
           setEditor' \in [SetEditors -> SetEditorStates],
           \A f \in SetEditors : setEditor'[f] = setEditor[f] \/ setEditor'[f].step = "idle",
           \A f \in SetEditors : setEditor'[f].step = "create" => setEditor[f].set # g,
           sets[g] = NoSet \/ (v.kind \in Kinds => v.kind = sets[g].kind),
           v.kind \in Kinds \ {"dataset"} =>
              /\ \A h \in Sets : h # g /\ IsGroup(h) => sets[h].name # v.name
              /\ \A f \in SetEditors : HoldsName(f)' /\ setEditor[f].set # g => setEditor[f].change.name # v.name
    PROVE  SetsIInv'
  <1>1. sets'[g] = v /\ (\A h \in Sets : h # g => sets'[h] = sets[h]) /\ sets' \in [Sets -> SetStates]
    BY DEF SetsIInv
  <1>2. \A h \in Sets : SetFits(sets'[h])
    BY <1>1 DEF SetsIInv
  <1>3. ASSUME NEW f \in SetEditors PROVE EditorFits(setEditor[f])'
    <2>1. CASE setEditor'[f].step = "idle"
      BY <2>1 DEF EditorFits, ChangeSteps
    <2>2. CASE setEditor'[f] = setEditor[f]
      <3> DEFINE q == setEditor[f]
      <3>1. EditorFits(q) /\ setEditor'[f] = q
        BY <2>2 DEF SetsIInv
      <3>2. /\ q.step = "create" => q.set \in Sets /\ q.set # g
            /\ q.step \in ChangeSteps => q.set \in Sets
        BY <2>2, SetEditorFacts DEF SetsIInv
      <3>3. q.step = "create" => sets'[q.set] = NoSet /\ ValidMembers(q.kind, q.list)
        BY <1>1, <3>1, <3>2 DEF EditorFits
      <3>4. q.step \in ChangeSteps => sets'[q.set] # NoSet
        BY <1>1, <3>1, <3>2 DEF EditorFits
      <3>5. q.step \in ChangeSteps /\ sets'[q.set].kind \in Kinds => sets'[q.set].kind = q.kind
        BY <1>1, <3>1, <3>2 DEF EditorFits, Exists
      <3> QED
        BY <3>1, <3>3, <3>4, <3>5 DEF EditorFits, Exists
    <2> QED
      BY <2>1, <2>2
  <1>4. CreatesApart'
    <2> \A f \in SetEditors : setEditor'[f].step = "create" => setEditor'[f] = setEditor[f]
      OBVIOUS
    <2> QED
      BY DEF SetsIInv, CreatesApart
  <1>5. \A f \in SetEditors : HoldsName(f)' => setEditor'[f] = setEditor[f] /\ HoldsName(f)
    BY DEF HoldsName, Holding
  <1>6. NamesHeld'
    <2>1. ASSUME NEW f \in SetEditors, HoldsName(f)', NEW h \in Sets, h # setEditor'[f].set, IsGroup(h)'
          PROVE  sets'[h].name # setEditor'[f].change.name
      <3>1. CASE h = g
        BY <1>1, <1>5, <2>1, <3>1 DEF IsGroup, Exists
      <3>2. CASE h # g
        BY <1>1, <1>5, <2>1, <3>2 DEF SetsIInv, NamesHeld, IsGroup, Exists
      <3> QED
        BY <3>1, <3>2
    <2>2. ASSUME NEW f \in SetEditors, NEW h \in SetEditors, HoldsName(f)', HoldsName(h)',
                 setEditor'[f].change.name = setEditor'[h].change.name
          PROVE  f = h
      BY <1>5, <2>2 DEF SetsIInv, NamesHeld
    <2> QED
      BY <2>1, <2>2 DEF NamesHeld
  <1>7. GroupNamesDiffer'
    <2> SUFFICES ASSUME NEW h \in Sets, NEW k \in Sets, IsGroup(h)', IsGroup(k)', sets'[h].name = sets'[k].name, h # k
                 PROVE  FALSE
      BY DEF GroupNamesDiffer, IsGroup
    <2>1. CASE h # g /\ k # g
      BY <1>1, <2>1 DEF SetsIInv, GroupNamesDiffer, IsGroup, Exists
    <2>2. CASE h = g
      BY <1>1, <2>2 DEF IsGroup, Exists
    <2>3. CASE k = g
      BY <1>1, <2>3 DEF IsGroup, Exists
    <2> QED
      BY <2>1, <2>2, <2>3
  <1> QED
    BY <1>1, <1>2, <1>3, <1>4, <1>6, <1>7 DEF SetsIInv

\* A request ends and leaves the sets alone.
LEMMA EditorEnds ==
    ASSUME SetsIInv, UNCHANGED sets, NEW e \in SetEditors, Ends(e)
    PROVE  SetsIInv'
  <1> DEFINE r == [step |-> "idle"]
  <1>1. r \in SetEditorStates /\ r.step = "idle"
    BY DEF SetEditorStates
  <1>2. EditorTo(e, r)
    BY DEF Ends
  <1> HIDE DEF r
  <1>3. EditorFits(r) /\ ~Holding(r)
    BY <1>1 DEF EditorFits, Holding, ChangeSteps
  <1> QED
    BY <1>1, <1>2, <1>3, EditorMoves

LEMMA SetsInitHolds == CollectionsInit => SetsIInv
  <1> SUFFICES ASSUME CollectionsInit PROVE SetsIInv
    OBVIOUS
  <1>1. sets = [g \in Sets |-> NoSet] /\ setEditor = [e \in SetEditors |-> [step |-> "idle"]]
    BY DEF CollectionsInit
  <1>2. NoSet \in SetStates /\ [step |-> "idle"] \in SetEditorStates /\ NoSet.kind \notin Kinds
    BY DEF SetStates, SetEditorStates, NoSet, Kinds
  <1>3. \A g \in Sets : SetFits(sets[g]) /\ ~Exists(g)
    BY <1>1, <1>2 DEF SetFits, Exists
  <1>4. \A e \in SetEditors : setEditor[e].step = "idle"
    BY <1>1
  <1>5. CreatesApart /\ NamesHeld /\ GroupNamesDiffer /\ \A e \in SetEditors : EditorFits(setEditor[e])
    BY <1>3, <1>4 DEF CreatesApart, NamesHeld, GroupNamesDiffer, HoldsName, Holding, EditorFits, ChangeSteps
  <1> QED
    BY <1>1, <1>2, <1>3, <1>5 DEF SetsIInv

\* Every step of a request on groups and datasets keeps the inductive invariant.
LEMMA SetsStep ==
    ASSUME SetsIInv, [CollectionsNext]_setVars
    PROVE  SetsIInv'
  <1>0. sets \in [Sets -> SetStates] /\ setEditor \in [SetEditors -> SetEditorStates]
    BY DEF SetsIInv
  <1>idle. [step |-> "idle"] \in SetEditorStates /\ [step |-> "idle"].step = "idle"
    BY DEF SetEditorStates
  <1>1. ASSUME NEW e \in SetEditors, BeginCreate(e) PROVE SetsIInv'
    <2> PICK g \in Sets, kind \in Kinds, name \in SetNames, l \in Lists :
          /\ sets[g] = NoSet /\ \A f \in SetEditors : setEditor[f].step = "create" => setEditor[f].set # g
          /\ ValidMembers(kind, l)
          /\ EditorTo(e, [step |-> "create", set |-> g, kind |-> kind, name |-> name, list |-> l])
      BY <1>1 DEF BeginCreate
    <2> DEFINE r == [step |-> "create", set |-> g, kind |-> kind, name |-> name, list |-> l]
    <2>1. r \in SetEditorStates /\ r.step = "create" /\ r.set = g /\ r.kind = kind /\ r.list = l
      BY DEF SetEditorStates
    <2>2. UNCHANGED sets /\ EditorTo(e, r)
      BY <1>1 DEF BeginCreate
    <2> HIDE DEF r
    <2>3. EditorFits(r) /\ ~Holding(r)
      BY <2>1 DEF EditorFits, Holding, ChangeSteps
    <2> QED
      BY <2>1, <2>2, <2>3, EditorMoves
  <1>2. ASSUME NEW e \in SetEditors, Create(e) PROVE SetsIInv'
    <2> DEFINE q == setEditor[e]  v == [kind |-> q.kind, name |-> q.name, members |-> ListRows(q.list)]
    <2>1. /\ q.step = "create" /\ (q.kind # "dataset" => ~NamePending(q.name, Others(e))) /\ Ends(e)
          /\ \/ UNCHANGED sets
             \/ sets' = [sets EXCEPT ![q.set] = v] /\ (q.kind # "dataset" => ~NameTaken(q.name, q.set))
      BY <1>2 DEF Create
    <2>2. q.set \in Sets /\ q.kind \in Kinds /\ q.name \in SetNames /\ q.list \in Lists
      BY <1>0, <2>1, SetEditorFacts
    <2>3. ValidMembers(q.kind, q.list) /\ sets[q.set] = NoSet
      BY <2>1 DEF SetsIInv, EditorFits
    <2>4. RowsFit(q.kind, ListRows(q.list)) /\ ListRows(q.list) \subseteq MemberRows
      BY <2>2, <2>3, ListRowsFacts
    <2>5. v \in SetStates /\ v.kind = q.kind /\ v.name = q.name /\ v.members = ListRows(q.list)
      BY <2>2, <2>4 DEF SetStates
    <2>6. CASE UNCHANGED sets
      BY <2>1, <2>6, EditorEnds
    <2>7. CASE sets' = [sets EXCEPT ![q.set] = v] /\ (q.kind # "dataset" => ~NameTaken(q.name, q.set))
      <3>1. /\ setEditor' \in [SetEditors -> SetEditorStates] /\ setEditor'[e].step = "idle"
            /\ \A f \in SetEditors \ {e} : setEditor'[f] = setEditor[f]
        BY <1>0, <1>idle, <2>1 DEF Ends, EditorTo
      <3>2. \A f \in SetEditors : setEditor'[f].step = "create" => setEditor[f].set # q.set
        BY <2>1, <3>1 DEF SetsIInv, CreatesApart
      <3> HIDE DEF v
      <3>3. v # NoSet /\ SetFits(v)
        BY <2>2, <2>4, <2>5, SetStateFacts DEF SetFits
      <3>4. q.kind # "dataset" => \A h \in Sets : h # q.set /\ IsGroup(h) => sets[h].name # v.name
        BY <2>5, <2>7 DEF NameTaken, IsGroup
      <3>5. q.kind # "dataset" => \A f \in SetEditors : HoldsName(f)' => setEditor[f].change.name # v.name
        <4> SUFFICES ASSUME q.kind # "dataset", NEW f \in SetEditors, HoldsName(f)' PROVE setEditor[f].change.name # q.name
          BY <2>5
        <4>1. f \in Others(e) /\ HoldsName(f)
          BY <3>1 DEF Others, HoldsName, Holding
        <4> QED
          BY <2>1, <2>2, <4>1, SetNumbers DEF NamePending, HoldsName, Holding, Writing
      <3> QED
        BY ZenonT(40), <2>2, <2>3, <2>5, <2>7, <3>1, <3>2, <3>3, <3>4, <3>5, SetWrites
    <2> QED
      BY <2>1, <2>6, <2>7
  <1>3. ASSUME NEW g \in Sets, DeleteSet(g) PROVE SetsIInv'
    <2>1. Exists(g) /\ sets' = [sets EXCEPT ![g] = Gone] /\ UNCHANGED setEditor
      BY <1>3 DEF DeleteSet
    <2>2. Gone \in SetStates /\ Gone # NoSet /\ Gone.kind \notin Kinds
      BY <1>0, SetStateFacts DEF SetStates
    <2>3. sets[g] # NoSet
      BY <1>0, <2>1, SetStateFacts DEF Exists
    <2>4. \A f \in SetEditors : setEditor'[f].step = "create" => setEditor[f].set # g
      BY <2>1, <2>3 DEF SetsIInv, EditorFits
    <2>5. SetFits(Gone)
      BY <2>2 DEF SetFits
    <2> QED
      BY <1>0, <2>1, <2>2, <2>4, <2>5, SetWrites
  <1>4. ASSUME NEW e \in SetEditors, BeginChange(e) PROVE SetsIInv'
    <2> PICK g \in Sets, c \in Edits :
          /\ Exists(g)
          /\ c.list # <<>> => ValidMembers(sets[g].kind, c.list)
          /\ EditorTo(e, [step |-> "named", set |-> g, kind |-> sets[g].kind, change |-> c])
      BY <1>4 DEF BeginChange
    <2>1. sets[g].kind \in Kinds /\ sets[g] # NoSet
      BY <1>0, SetStateFacts DEF Exists
    <2> PICK kind \in Kinds : kind = sets[g].kind
      BY <2>1
    <2> DEFINE r == [step |-> "named", set |-> g, kind |-> kind, change |-> c]
    <2>2. r \in SetEditorStates /\ r.step = "named" /\ r.set = g /\ r.kind = kind /\ r.change = c
      BY DEF SetEditorStates
    <2>3. UNCHANGED sets /\ EditorTo(e, r)
      BY <1>4 DEF BeginChange
    <2> HIDE DEF r
    <2>4. EditorFits(r) /\ ~Holding(r)
      BY <2>1, <2>2 DEF EditorFits, Holding, ChangeSteps
    <2> QED
      BY <2>2, <2>3, <2>4, EditorMoves
  <1>5. ASSUME NEW e \in SetEditors, ChangeRow(e) PROVE SetsIInv'
    <2> DEFINE q == setEditor[e]  s == sets[q.set]
               v == [kind |-> s.kind, name |-> Named(q, s.name), members |-> s.members]
    <2>1. /\ q.step = "named" /\ (Touches(q) => CanWriteRow(e)) /\ Ends(e)
          /\ \/ UNCHANGED sets
             \/ RowAccepts(q) /\ sets' = [sets EXCEPT ![q.set].name = Named(q, @)]
      BY <1>5 DEF ChangeRow
    <2>2. q.set \in Sets /\ q.kind \in Kinds /\ q.change \in Edits
      BY <1>0, <2>1, SetEditorFacts DEF ChangeSteps
    <2>3. CASE UNCHANGED sets
      BY <2>1, <2>3, EditorEnds
    <2>4. CASE RowAccepts(q) /\ sets' = [sets EXCEPT ![q.set].name = Named(q, @)]
      <3>1. s.kind \in Kinds /\ s.kind = q.kind /\ s \in SetStates
        BY <1>0, <2>1, <2>2, <2>4 DEF RowAccepts, Exists, SetsIInv, EditorFits, ChangeSteps
      <3>2. s = [kind |-> s.kind, name |-> s.name, members |-> s.members] /\ s.name \in SetNames /\ s.members \subseteq MemberRows
        BY <3>1, SetStateFacts
      <3>3. Named(q, s.name) \in SetNames
        BY <2>2, <3>2, SetNumbers DEF Named
      <3>4. v \in SetStates /\ v.kind = s.kind /\ v.name = Named(q, s.name) /\ v.members = s.members
        BY <3>1, <3>2, <3>3 DEF SetStates
      <3>5. sets' = [sets EXCEPT ![q.set] = v]
        <4>1. [s EXCEPT !.name = Named(q, s.name)] = v
          <5> DEFINE k == s.kind  n == s.name  m == s.members  n2 == Named(q, s.name)
          <5>1. s = [kind |-> k, name |-> n, members |-> m] /\ v = [kind |-> k, name |-> n2, members |-> m]
            BY <3>2
          <5> HIDE DEF k, n, m, n2, v, s
          <5>2. [s EXCEPT !.name = n2] = v
            BY <5>1
          <5> QED
            BY <5>2 DEF n2
        <4> QED
          BY <2>4, <4>1
      <3>6. /\ setEditor' \in [SetEditors -> SetEditorStates] /\ setEditor'[e].step = "idle"
            /\ \A f \in SetEditors \ {e} : setEditor'[f] = setEditor[f]
        BY <1>0, <1>idle, <2>1 DEF Ends, EditorTo
      <3>7. s # NoSet
        BY <3>1, SetStateFacts
      <3>8. \A f \in SetEditors : setEditor'[f].step = "create" => setEditor[f].set # q.set
        BY <3>6, <3>7 DEF SetsIInv, EditorFits
      <3>9. SetFits(v)
        BY <2>2, <3>4 DEF SetFits, SetsIInv
      <3>10. q.kind # "dataset" => /\ \A h \in Sets : h # q.set /\ IsGroup(h) => sets[h].name # v.name
                                   /\ \A f \in SetEditors : HoldsName(f)' /\ setEditor[f].set # q.set => setEditor[f].change.name # v.name
        <4> HAVE q.kind # "dataset"
        <4>1. IsGroup(q.set)
          BY <3>1 DEF IsGroup, Exists
        <4>2. ~NameTaken(q.change.name, q.set) /\ ~NamePending(q.change.name, Others(e))
          BY <2>1, <2>4 DEF RowAccepts, Touches, CanWriteRow
        <4>3. \A f \in SetEditors : HoldsName(f)' => f \in Others(e) /\ HoldsName(f)
          BY <3>6 DEF Others, HoldsName, Holding
        <4>4. CASE q.change.name = Keep
          <5>1. v.name = s.name
            BY <3>4, <4>4 DEF Named
          <5>2. \A h \in Sets : h # q.set /\ IsGroup(h) => sets[h].name # s.name
            BY <2>2, <4>1 DEF SetsIInv, GroupNamesDiffer, IsGroup
          <5>3. \A f \in SetEditors : HoldsName(f) /\ setEditor[f].set # q.set => setEditor[f].change.name # s.name
            BY <2>2, <4>1 DEF SetsIInv, NamesHeld
          <5> QED
            BY <4>3, <5>1, <5>2, <5>3
        <4>5. CASE q.change.name # Keep
          <5>1. v.name = q.change.name
            BY <3>4, <4>5 DEF Named
          <5>2. \A h \in Sets : h # q.set /\ IsGroup(h) => sets[h].name # q.change.name
            BY <4>2 DEF NameTaken, IsGroup
          <5>3. \A f \in Others(e) : HoldsName(f) => setEditor[f].change.name # q.change.name
            BY <4>2, <4>5 DEF NamePending, HoldsName, Holding, Writing
          <5> QED
            BY <4>3, <5>1, <5>2, <5>3
        <4> QED
          BY <4>4, <4>5
      <3> HIDE DEF v
      <3>11. v # NoSet
        BY <3>1, <3>4, SetStateFacts
      <3> QED
        BY <2>2, <3>1, <3>4, <3>5, <3>6, <3>8, <3>9, <3>10, <3>11, SetWrites
    <2> QED
      BY <2>1, <2>3, <2>4
  <1>6. ASSUME NEW e \in SetEditors, FlushRow(e) PROVE SetsIInv'
    <2> DEFINE q == setEditor[e]  r == [step |-> "locked", set |-> q.set, kind |-> q.kind, change |-> q.change]
    <2>1. /\ q.step = "named" /\ q.change.list # <<>> /\ CanWriteRow(e) /\ UNCHANGED sets
          /\ Ends(e) \/ (RowAccepts(q) /\ EditorTo(e, [q EXCEPT !.step = "locked"]))
      BY <1>6 DEF FlushRow
    <2>2. /\ q.set \in Sets /\ q.kind \in Kinds /\ q.change \in Edits
          /\ q = [step |-> q.step, set |-> q.set, kind |-> q.kind, change |-> q.change]
      BY <1>0, <2>1, SetEditorFacts DEF ChangeSteps
    <2>3. r \in SetEditorStates /\ r.step = "locked" /\ r.set = q.set /\ r.kind = q.kind /\ r.change = q.change
      BY <2>2 DEF SetEditorStates
    <2>4. [q EXCEPT !.step = "locked"] = r
      <3> DEFINE a == q.step  g == q.set  k == q.kind  c == q.change
      <3>1. q = [step |-> a, set |-> g, kind |-> k, change |-> c]
        BY <2>2
      <3> HIDE DEF a, g, k, c, q
      <3>2. [q EXCEPT !.step = "locked"] = [step |-> "locked", set |-> g, kind |-> k, change |-> c]
        BY <3>1
      <3> QED
        BY <3>2 DEF g, k, c
    <2>5. CASE RowAccepts(q) /\ EditorTo(e, [q EXCEPT !.step = "locked"])
      <3>1. EditorTo(e, r)
        BY <2>4, <2>5
      <3> HIDE DEF r
      <3>2. EditorFits(r)
        BY <2>1, <2>3 DEF SetsIInv, EditorFits, ChangeSteps
      <3>3. Holding(r) => /\ \A h \in Sets : h # r.set /\ IsGroup(h) => sets[h].name # r.change.name
                          /\ \A f \in SetEditors \ {e} : HoldsName(f) => setEditor[f].change.name # r.change.name
        <4> HAVE Holding(r)
        <4>1. q.kind # "dataset" /\ q.change.name # Keep
          BY <2>3 DEF Holding
        <4>2. ~NameTaken(q.change.name, q.set) /\ ~NamePending(q.change.name, Others(e))
          BY <2>1, <2>5, <4>1 DEF RowAccepts, CanWriteRow
        <4>3. \A h \in Sets : h # q.set /\ IsGroup(h) => sets[h].name # q.change.name
          BY <4>2 DEF NameTaken, IsGroup
        <4>4. \A f \in SetEditors \ {e} : HoldsName(f) => setEditor[f].change.name # q.change.name
          BY <4>1, <4>2 DEF NamePending, HoldsName, Holding, Writing, Others
        <4> QED
          BY <2>3, <4>3, <4>4
      <3> QED
        BY <2>1, <2>3, <3>1, <3>2, <3>3, EditorMoves
    <2>6. CASE Ends(e)
      BY <2>1, <2>6, EditorEnds
    <2> QED
      BY <2>1, <2>5, <2>6
  <1>7. ASSUME NEW e \in SetEditors, BeginDelete(e) PROVE SetsIInv'
    <2> DEFINE q == setEditor[e]
    <2>1. /\ q.step \in {"named", "locked"} /\ UNCHANGED sets
          /\ q.step = "named" => q.change.list # <<>> /\ ~Early(q)
          /\ EditorTo(e, [step |-> "deleting", set |-> q.set, kind |-> q.kind, change |-> q.change,
                          locked |-> q.step = "locked", found |-> IF Exists(q.set) THEN sets[q.set].members ELSE {}])
      BY <1>7 DEF BeginDelete
    <2>2. q.set \in Sets /\ q.kind \in Kinds /\ q.change \in Edits
      BY <1>0, <2>1, SetEditorFacts DEF ChangeSteps
    <2> PICK found : found = IF Exists(q.set) THEN sets[q.set].members ELSE {}
      OBVIOUS
    <2> PICK locked \in BOOLEAN : locked = (q.step = "locked")
      OBVIOUS
    <2>3. found \in SUBSET MemberRows
      BY <1>0, <2>2, SetStateFacts DEF Exists
    <2> DEFINE r == [step |-> "deleting", set |-> q.set, kind |-> q.kind, change |-> q.change, locked |-> locked, found |-> found]
    <2>4. /\ r \in SetEditorStates /\ r.step = "deleting" /\ r.set = q.set /\ r.kind = q.kind /\ r.change = q.change
          /\ r.locked = locked
      BY <2>2, <2>3 DEF SetEditorStates
    <2>5. EditorTo(e, r)
      BY <2>1
    <2> HIDE DEF r
    <2>6. EditorFits(r)
      <3>1. EditorFits(q) /\ q.step \in ChangeSteps
        BY <2>1 DEF SetsIInv, ChangeSteps
      <3>2. r.change.list # <<>>
        BY <2>1, <2>4, <3>1 DEF EditorFits
      <3>3. ~locked /\ q.kind # "dataset" => q.change.name = Keep
        BY <2>1 DEF Early
      <3> QED
        BY <2>4, <3>1, <3>2, <3>3 DEF EditorFits
    <2>7. Holding(r) => HoldsName(e)
      BY <2>4 DEF Holding, HoldsName
    <2>8. Holding(r) => /\ \A h \in Sets : h # r.set /\ IsGroup(h) => sets[h].name # r.change.name
                        /\ \A f \in SetEditors \ {e} : HoldsName(f) => setEditor[f].change.name # r.change.name
      BY <2>4, <2>7 DEF SetsIInv, NamesHeld
    <2> QED
      BY <2>1, <2>4, <2>5, <2>6, <2>8, EditorMoves
  <1>8. ASSUME NEW e \in SetEditors, DeleteMembers(e) PROVE SetsIInv'
    <2> DEFINE q == setEditor[e]
    <2>1. /\ q.step = "deleting" /\ UNCHANGED sets
          /\ EditorTo(e, [step |-> "deleted", set |-> q.set, kind |-> q.kind, change |-> q.change, locked |-> q.locked,
                          found |-> IF Exists(q.set) THEN q.found \intersect sets[q.set].members ELSE {}])
      BY <1>8 DEF DeleteMembers
    <2>2. q.set \in Sets /\ q.kind \in Kinds /\ q.change \in Edits /\ q.locked \in BOOLEAN /\ q.found \in SUBSET MemberRows
      BY <1>0, <2>1, SetEditorFacts DEF ChangeSteps
    <2> PICK found : found = IF Exists(q.set) THEN q.found \intersect sets[q.set].members ELSE {}
      OBVIOUS
    <2>3. found \in SUBSET MemberRows
      BY <2>2
    <2> DEFINE r == [step |-> "deleted", set |-> q.set, kind |-> q.kind, change |-> q.change, locked |-> q.locked, found |-> found]
    <2>4. /\ r \in SetEditorStates /\ r.step = "deleted" /\ r.set = q.set /\ r.kind = q.kind /\ r.change = q.change
          /\ r.locked = q.locked
      BY <2>2, <2>3 DEF SetEditorStates
    <2>5. EditorTo(e, r)
      BY <2>1
    <2> HIDE DEF r
    <2>6. EditorFits(r)
      <3>1. EditorFits(q) /\ q.step \in ChangeSteps
        BY <2>1 DEF SetsIInv, ChangeSteps
      <3> QED
        BY <2>1, <2>4, <3>1 DEF EditorFits
    <2>7. Holding(r) => HoldsName(e)
      BY <2>1, <2>4 DEF Holding, HoldsName
    <2>8. Holding(r) => /\ \A h \in Sets : h # r.set /\ IsGroup(h) => sets[h].name # r.change.name
                        /\ \A f \in SetEditors \ {e} : HoldsName(f) => setEditor[f].change.name # r.change.name
      BY <2>4, <2>7 DEF SetsIInv, NamesHeld
    <2> QED
      BY <2>1, <2>4, <2>5, <2>6, <2>8, EditorMoves
  <1>9. ASSUME NEW e \in SetEditors, InsertMembers(e) PROVE SetsIInv'
    <2> DEFINE q == setEditor[e]  s == sets[q.set]  l == q.change.list  rows == Replaced(s.members, q.found, l)
               v == [kind |-> s.kind, name |-> Named(q, s.name), members |-> rows]
    <2>1. /\ q.step = "deleted" /\ Ends(e)
          /\ \/ UNCHANGED sets
             \/ /\ Exists(q.set)
                /\ \A m \in s.members \ q.found, i \in DOMAIN l : m.series # l[i].series
                /\ sets' = [sets EXCEPT ![q.set] = v]
      BY <1>9 DEF InsertMembers
    <2>2. q.set \in Sets /\ q.kind \in Kinds /\ q.change \in Edits /\ q.locked \in BOOLEAN
      BY <1>0, <2>1, SetEditorFacts DEF ChangeSteps
    <2>3. CASE UNCHANGED sets
      BY <2>1, <2>3, EditorEnds
    <2>4. CASE /\ Exists(q.set)
               /\ \A m \in s.members \ q.found, i \in DOMAIN l : m.series # l[i].series
               /\ sets' = [sets EXCEPT ![q.set] = v]
      <3>1. EditorFits(q) /\ q.step \in ChangeSteps /\ s \in SetStates /\ s.kind \in Kinds /\ SetFits(s)
        BY <1>0, <2>1, <2>2, <2>4 DEF SetsIInv, ChangeSteps, Exists
      <3>2. s.name \in SetNames /\ s.members \in SUBSET MemberRows /\ s # NoSet /\ s.kind = q.kind
        BY <2>4, <3>1, SetStateFacts DEF EditorFits
      <3>3. l \in Lists /\ ValidMembers(s.kind, l)
        BY <2>1, <2>2, <3>1, <3>2, SetNumbers DEF EditorFits
      <3>4. RowsFit(s.kind, rows) /\ rows \in SUBSET MemberRows
        BY <2>4, <3>1, <3>2, <3>3, ReplacedFacts DEF SetFits
      <3>5. Named(q, s.name) \in SetNames
        BY <2>2, <3>2, SetNumbers DEF Named
      <3> HIDE DEF rows
      <3>6. v \in SetStates /\ v.kind = s.kind /\ v.name = Named(q, s.name) /\ v.members = rows
        BY <3>1, <3>4, <3>5 DEF SetStates
      <3>7. /\ setEditor' \in [SetEditors -> SetEditorStates] /\ setEditor'[e].step = "idle"
            /\ \A f \in SetEditors \ {e} : setEditor'[f] = setEditor[f]
        BY <1>0, <1>idle, <2>1 DEF Ends, EditorTo
      <3>8. \A f \in SetEditors : setEditor'[f].step = "create" => setEditor[f].set # q.set
        BY <3>2, <3>7 DEF SetsIInv, EditorFits
      <3>9. SetFits(v)
        BY <3>4, <3>6 DEF SetFits
      <3>10. q.kind # "dataset" => /\ \A h \in Sets : h # q.set /\ IsGroup(h) => sets[h].name # v.name
                                   /\ \A f \in SetEditors : HoldsName(f)' /\ setEditor[f].set # q.set => setEditor[f].change.name # v.name
        <4> HAVE q.kind # "dataset"
        <4>1. IsGroup(q.set)
          BY <3>1, <3>2 DEF IsGroup, Exists
        <4>2. \A f \in SetEditors : HoldsName(f)' => f # e /\ HoldsName(f)
          BY <3>7 DEF HoldsName, Holding
        <4>3. CASE q.change.name = Keep
          <5>1. v.name = s.name
            BY <3>6, <4>3 DEF Named
          <5>2. \A h \in Sets : h # q.set /\ IsGroup(h) => sets[h].name # s.name
            BY <2>2, <4>1 DEF SetsIInv, GroupNamesDiffer, IsGroup
          <5>3. \A f \in SetEditors : HoldsName(f) /\ setEditor[f].set # q.set => setEditor[f].change.name # s.name
            BY <2>2, <4>1 DEF SetsIInv, NamesHeld
          <5> QED
            BY <4>2, <5>1, <5>2, <5>3
        <4>4. CASE q.change.name # Keep
          <5>1. v.name = q.change.name
            BY <3>6, <4>4 DEF Named
          <5>2. HoldsName(e)
            BY <2>1, <3>1, <4>4 DEF HoldsName, Holding, EditorFits
          <5>3. \A h \in Sets : h # q.set /\ IsGroup(h) => sets[h].name # q.change.name
            BY <5>2 DEF SetsIInv, NamesHeld
          <5>4. \A f \in SetEditors : f # e /\ HoldsName(f) => setEditor[f].change.name # q.change.name
            BY <5>2 DEF SetsIInv, NamesHeld
          <5> QED
            BY <4>2, <5>1, <5>3, <5>4
        <4> QED
          BY <4>3, <4>4
      <3>11. sets' = [sets EXCEPT ![q.set] = v]
        BY <2>4
      <3> HIDE DEF v
      <3>12. v # NoSet
        BY <3>1, <3>6, SetStateFacts
      <3>13. \A f \in SetEditors : setEditor'[f] = setEditor[f] \/ setEditor'[f].step = "idle"
        BY <3>7
      <3>14. v.kind \in Kinds => v.kind = sets[q.set].kind
        BY <3>6
      <3>15. v.kind \in Kinds \ {"dataset"} =>
               /\ \A h \in Sets : h # q.set /\ IsGroup(h) => sets[h].name # v.name
               /\ \A f \in SetEditors : HoldsName(f)' /\ setEditor[f].set # q.set => setEditor[f].change.name # v.name
        BY <3>2, <3>6, <3>10
      <3>16. v \in SetStates /\ q.set \in Sets /\ setEditor' \in [SetEditors -> SetEditorStates]
        BY <2>2, <3>6, <3>7
      <3> HIDE DEF q, s
      <3> QED
        BY <3>8, <3>9, <3>11, <3>12, <3>13, <3>14, <3>15, <3>16, SetWrites
    <2> QED
      BY <2>1, <2>3, <2>4
  <1>10. ASSUME NEW e \in SetEditors, BreakDeadlock(e) PROVE SetsIInv'
    BY <1>10, EditorEnds DEF BreakDeadlock
  <1>11. CASE UNCHANGED setVars
    BY <1>11 DEF setVars, SetsIInv, SetFits, EditorFits, Exists, CreatesApart, NamesHeld, HoldsName, IsGroup, GroupNamesDiffer
  <1> QED
    BY <1>1, <1>2, <1>3, <1>4, <1>5, <1>6, <1>7, <1>8, <1>9, <1>10, <1>11 DEF CollectionsNext

LEMMA SetsIInvHolds == CollectionsSpec => []SetsIInv
  BY SetsInitHolds, SetsStep, PTL DEF CollectionsSpec

LEMMA SetsTypeFact == ASSUME SetsIInv PROVE CollectionsTypeOK
  <1>1. \A g \in Sets : Exists(g) => \A m, n \in sets[g].members : m.series = n.series => m = n
    BY DEF SetsIInv, SetFits, RowsFit, Exists
  <1>2. sets \in [Sets -> {NoSet, Gone} \union [kind : Kinds, name : SetNames, members : SUBSET MemberRows]]
    BY DEF SetsIInv, SetStates
  <1> QED
    BY <1>1, <1>2 DEF CollectionsTypeOK, SetsIInv, SetEditorStates

LEMMA SetsFitFact == ASSUME SetsIInv PROVE MembersFitKind
  <1> SUFFICES ASSUME NEW g \in Sets, Exists(g)
               PROVE  LET roles == {m.role : m \in sets[g].members} IN
                      /\ Cardinality(sets[g].members) >= (IF sets[g].kind = "dataset" THEN 1 ELSE MinMembers)
                      /\ roles = IF sets[g].kind = "balance" THEN {"input", "output"} ELSE {"member"}
    BY DEF MembersFitKind
  <1>1. RowsFit(sets[g].kind, sets[g].members)
    BY DEF SetsIInv, SetFits, Exists
  <1> QED
    BY <1>1 DEF RowsFit, LeastMembers, KindRoles

\* The type invariant of the groups and datasets.
THEOREM SetsTypeCorrect == CollectionsSpec => []CollectionsTypeOK
  BY SetsIInvHolds, SetsTypeFact, PTL

\* However requests overlap, groups and datasets keep valid members of their kind, and no two groups of a
\* workspace have one name (groups.py:69-142, datasets.py:26-45).
THEOREM SetsTheorem == CollectionsSpec => [](MembersFitKind /\ GroupNamesDiffer)
  <1>1. SetsIInv => MembersFitKind /\ GroupNamesDiffer
    BY SetsFitFact DEF SetsIInv
  <1> QED
    BY <1>1, SetsIInvHolds, PTL

-----------------------------------------------------------------------------
(* Charts: the tag a browser keeps a chart by, and who writes the series meanwhile. *)

\* A set of numbers with zero and with the successor of each of its members holds them all.
LEMMA NatSetInduction ==
    ASSUME NEW S, 0 \in S, \A n \in Nat : n \in S => n + 1 \in S
    PROVE  Nat \subseteq S
  <1> SUFFICES ASSUME Nat \ S # {} PROVE FALSE
    OBVIOUS
  <1>1. PICK x \in Nat \ S : \A y \in Nat \ S : x <= y
    BY LeastNat
  <1>2. x # 0 /\ x - 1 \in Nat /\ x - 1 < x
    OBVIOUS
  <1>3. x - 1 \in S
    BY <1>1, <1>2
  <1> QED
    BY <1>2, <1>3

\* Numbers that are bounded have a greatest one.
LEMMA GreatestNat ==
    ASSUME NEW S \in SUBSET Nat, S # {}, NEW n \in Nat, \A x \in S : x <= n
    PROVE  \E x \in S : \A y \in S : y <= x
  <1> DEFINE up == {b \in Nat : \A x \in S : x <= b}
  <1>1. PICK b \in up : \A c \in up : b <= c
    <2> n \in up /\ up \in SUBSET Nat
      OBVIOUS
    <2> HIDE DEF up
    <2> QED
      BY LeastNat
  <1>2. b \in S
    <2> SUFFICES ASSUME b \notin S PROVE FALSE
      OBVIOUS
    <2>0. b \in Nat /\ \A x \in S : x <= b
      BY <1>1
    <2>1. \A x \in S : x \in Nat /\ x <= b /\ x # b
      BY <2>0
    <2>2. b # 0 /\ b - 1 \in Nat
      <3> PICK x \in S : TRUE
        OBVIOUS
      <3> x \in Nat /\ x <= b /\ x # b
        BY <2>1
      <3> QED
        BY <2>0
    <2>3. \A x \in S : x <= b - 1
      BY <2>0, <2>1, <2>2
    <2>4. b - 1 \in up
      BY <2>2, <2>3
    <2> QED
      BY <1>1, <2>2, <2>4
  <1> QED
    BY <1>1, <1>2

LEMMA ChartNumbers ==
    /\ Instants \in Nat \ {0} /\ LastWrite \in Nat
    /\ IsFiniteSet(Window) /\ Cardinality(Window) = Instants
    /\ \A t \in Window : t \in Nat /\ t < Instants
  <1>1. Instants \in Nat \ {0} /\ LastWrite \in Nat
    BY ChartsAssumption
  <1>2. 0 \in Int /\ Instants - 1 \in Int /\ ~(0 > Instants - 1) /\ Instants - 1 - 0 + 1 = Instants
    BY <1>1
  <1>3. IsFiniteSet(Window) /\ Cardinality(Window) = Instants
    BY <1>2, FS_Interval DEF Window
  <1> QED
    BY <1>1, <1>3 DEF Window

\* How the rows of some ranges add up, one range after the other.
AddsUp(sum, S) ==
    sum = [s \in SUBSET S |-> IF s = {} THEN 0 ELSE ranges[CHOOSE x \in s : TRUE].rows + sum[s \ {CHOOSE x \in s : TRUE}]]

\* The sets of at most n ranges.
FewRanges(S, n) == {s \in SUBSET S : Cardinality(s) <= n}

\* A sum of sets of at most n ranges.
AddsFew(sum, S, n) ==
    /\ sum = [s \in FewRanges(S, n) |-> sum[s]]
    /\ \A s \in FewRanges(S, n) :
         /\ sum[s] \in Nat
         /\ sum[s] = IF s = {} THEN 0 ELSE ranges[CHOOSE x \in s : TRUE].rows + sum[s \ {CHOOSE x \in s : TRUE}]

\* A set loses one range at a time until none is left.
LEMMA FewRangesFacts ==
    ASSUME NEW S, IsFiniteSet(S)
    PROVE  /\ \A n \in Nat : \A s \in FewRanges(S, n + 1) \ {{}} : s \ {CHOOSE x \in s : TRUE} \in FewRanges(S, n)
           /\ \A n \in Nat : FewRanges(S, n) \subseteq FewRanges(S, n + 1)
           /\ \A s \in FewRanges(S, 0) : s = {}
           /\ FewRanges(S, Cardinality(S)) = SUBSET S
  <1>1. \A s \in SUBSET S : IsFiniteSet(s) /\ Cardinality(s) \in Nat /\ Cardinality(s) <= Cardinality(S)
    BY FS_Subset, FS_CardinalityType
  <1>2. ASSUME NEW n \in Nat, NEW s \in FewRanges(S, n + 1), s # {}
        PROVE  s \ {CHOOSE x \in s : TRUE} \in FewRanges(S, n)
    <2> DEFINE x == CHOOSE x \in s : TRUE
    <2>1. x \in s
      BY <1>2
    <2>2. s \in SUBSET S /\ Cardinality(s) <= n + 1 /\ IsFiniteSet(s) /\ Cardinality(s) \in Nat
      BY <1>1 DEF FewRanges
    <2> HIDE DEF x
    <2>3. Cardinality(s \ {x}) = Cardinality(s) - 1 /\ s \ {x} \in SUBSET S
      BY <2>1, <2>2, FS_RemoveElement
    <2>4. s \ {x} \in FewRanges(S, n)
      BY <2>2, <2>3 DEF FewRanges
    <2> QED
      BY <2>4 DEF x
  <1>3. \A n \in Nat : FewRanges(S, n) \subseteq FewRanges(S, n + 1)
    BY <1>1 DEF FewRanges
  <1>4. \A s \in FewRanges(S, 0) : s = {}
    BY <1>1, FS_EmptySet DEF FewRanges
  <1>5. FewRanges(S, Cardinality(S)) = SUBSET S
    BY <1>1 DEF FewRanges
  <1> QED
    BY <1>2, <1>3, <1>4, <1>5

\* There is such a sum, for sets of any size.
LEMMA SumOfFew ==
    ASSUME NEW S, IsFiniteSet(S), \A s \in S : ranges[s].rows \in Nat, NEW n \in Nat
    PROVE  \E sum : AddsFew(sum, S, n)
  <1> DEFINE K == {k \in Nat : \E sum : AddsFew(sum, S, k)}
  <1>1. 0 \in K
    <2> AddsFew([s \in FewRanges(S, 0) |-> 0], S, 0)
      BY FewRangesFacts DEF AddsFew
    <2> QED
      OBVIOUS
  <1>2. ASSUME NEW k \in Nat, k \in K PROVE k + 1 \in K
    <2>1. PICK sum : AddsFew(sum, S, k)
      BY <1>2
    <2> DEFINE more == [s \in FewRanges(S, k + 1) |->
                          IF s = {} THEN 0 ELSE ranges[CHOOSE x \in s : TRUE].rows + sum[s \ {CHOOSE x \in s : TRUE}]]
    <2>2. \A s \in FewRanges(S, k) : more[s] = sum[s] /\ sum[s] \in Nat
      BY <2>1, FewRangesFacts DEF AddsFew
    <2>3. ASSUME NEW s \in FewRanges(S, k + 1)
          PROVE  /\ more[s] \in Nat
                 /\ more[s] = IF s = {} THEN 0 ELSE ranges[CHOOSE x \in s : TRUE].rows + more[s \ {CHOOSE x \in s : TRUE}]
      <3>1. CASE s = {}
        BY <3>1
      <3>2. CASE s # {}
        <4> DEFINE x == CHOOSE x \in s : TRUE
        <4>1. x \in s /\ s \subseteq S
          BY <3>2 DEF FewRanges
        <4>2. s \ {x} \in FewRanges(S, k)
          BY <3>2, FewRangesFacts
        <4>3. more[s \ {x}] = sum[s \ {x}] /\ sum[s \ {x}] \in Nat
          BY <4>2, <2>2
        <4>4. more[s] = ranges[x].rows + sum[s \ {x}]
          BY <3>2
        <4>5. ranges[x].rows \in Nat
          BY <4>1
        <4> HIDE DEF more
        <4>6. more[s] \in Nat /\ more[s] = ranges[x].rows + more[s \ {x}]
          BY <4>3, <4>4, <4>5
        <4> QED
          BY <3>2, <4>6 DEF x
      <3> QED
        BY <3>1, <3>2
    <2>4. more = [s \in FewRanges(S, k + 1) |-> more[s]]
      OBVIOUS
    <2>5. AddsFew(more, S, k + 1)
      <3> HIDE DEF more
      <3> QED
        BY <2>3, <2>4 DEF AddsFew
    <2> QED
      BY <2>5
  <1> HIDE DEF K
  <1>3. n \in K
    BY <1>1, <1>2, NatSetInduction
  <1> QED
    BY <1>3 DEF K

\* The rows of finitely many ranges add up to a number.
LEMMA TotalIsNat ==
    ASSUME NEW S, IsFiniteSet(S), \A s \in S : ranges[s].rows \in Nat
    PROVE  Total(S) \in Nat
  <1>1. Cardinality(S) \in Nat
    BY FS_CardinalityType
  <1>2. PICK sum : AddsFew(sum, S, Cardinality(S))
    BY <1>1, SumOfFew
  <1>3. AddsUp(sum, S)
    BY <1>2, FewRangesFacts DEF AddsFew, AddsUp
  <1>4. Total(S) = (CHOOSE f : AddsUp(f, S))[S]
    BY DEF Total, MapThenSumSet, MapThenFoldSet, AddsUp
  <1> DEFINE total == CHOOSE f : AddsUp(f, S)
  <1>5. AddsUp(total, S)
    BY <1>3
  <1> HIDE DEF total
  \* Both are the function the recursion describes.
  <1> DEFINE K == {k \in Nat : \A s \in FewRanges(S, k) : total[s] \in Nat}
  <1>6. 0 \in K
    <2> SUFFICES ASSUME NEW s \in FewRanges(S, 0) PROVE total[s] \in Nat
      OBVIOUS
    <2> s = {} /\ s \in SUBSET S
      BY FewRangesFacts DEF FewRanges
    <2> QED
      BY <1>5 DEF AddsUp
  <1>7. ASSUME NEW k \in Nat, k \in K PROVE k + 1 \in K
    <2> SUFFICES ASSUME NEW s \in FewRanges(S, k + 1) PROVE total[s] \in Nat
      OBVIOUS
    <2> DEFINE x == CHOOSE x \in s : TRUE
    <2>1. s \in SUBSET S
      BY DEF FewRanges
    <2>2. total[s] = IF s = {} THEN 0 ELSE ranges[x].rows + total[s \ {x}]
      BY <1>5, <2>1 DEF AddsUp
    <2>3. s # {} => x \in s /\ s \ {x} \in FewRanges(S, k)
      BY FewRangesFacts
    <2> HIDE DEF x
    <2>4. s # {} => total[s \ {x}] \in Nat
      BY <2>3, <1>7
    <2> QED
      BY <2>1, <2>2, <2>3, <2>4
  <1> HIDE DEF K
  <1>8. Cardinality(S) \in K
    BY <1>1, <1>6, <1>7, NatSetInduction
  <1> QED
    BY <1>4, <1>8, FewRangesFacts DEF K, total

\* What a writer and a browser are in the middle of.
IdleWriters    == [step : {"idle"}]
WroteWriters   == [step : {"wrote"}, id : 1..LastWrite, lo : Window, hi : 1..Instants]
StampedWriters == [step : {"stamped"}, id : 1..LastWrite, lo : Window, hi : 1..Instants, at : 1..LastWrite]
WriterStates   == IdleWriters \union WroteWriters \union StampedWriters
Bodies         == [Window -> 0..LastWrite]
ViewerStates   == [step : {"idle", "tagged"}, tag : Tags, body : Bodies, asked : Tags]

\* The type invariant, variable by variable.
ChartTypes ==
    /\ cachedRows \in Bodies
    /\ ranges \in [Window -> Ranges \union {NoRange}]
    /\ \A s \in Window : ranges[s] # NoRange => ranges[s].end > s
    /\ writes \in 0..LastWrite /\ stamps \in 0..writes
    /\ recorded \subseteq 1..writes
    /\ writer \in [Writers -> WriterStates]
    /\ viewer \in [Viewers -> ViewerStates]

\* The writers that have not taken the time.
Wrote == {w \in Writers : writer[w].step = "wrote"}

\* Each write takes the time once.
TimesAreLeft == IsFiniteSet(Wrote) /\ Cardinality(Wrote) + stamps <= writes

\* A writer has written what a write is counted for.
WritersFit ==
    \A w \in Writers : writer[w].step # "idle" => writer[w].id <= writes /\ writer[w].lo < writer[w].hi

\* The inductive invariant of the types.
ChartsIInv == ChartTypes /\ TimesAreLeft /\ WritersFit

LEMMA ChartTypesAre == ChartTypes <=> ChartsTypeOK
  BY DEF ChartTypes, ChartsTypeOK, WriterStates, IdleWriters, WroteWriters, StampedWriters, ViewerStates, Bodies

\* The fields of a writer, by its step.
LEMMA WriterFacts ==
    ASSUME NEW q \in WriterStates
    PROVE  /\ q.step \in {"idle", "wrote", "stamped"}
           /\ q.step # "idle" => q.id \in 1..LastWrite /\ q.lo \in Window /\ q.hi \in 1..Instants
           /\ q.step = "stamped" => q.at \in 1..LastWrite
  BY DEF WriterStates, IdleWriters, WroteWriters, StampedWriters

\* The fields of a range.
LEMMA RangeFacts ==
    ASSUME NEW r \in Ranges \union {NoRange}
    PROVE  /\ r # NoRange => r \in Ranges /\ r.end \in 1..Instants /\ r.rows \in 1..Instants /\ r.at \in 1..LastWrite
           /\ r.rows \in Nat
  BY ChartNumbers DEF Ranges, NoRange

LEMMA RangeIsThere == ASSUME NEW r \in Ranges PROVE r # NoRange
  <1>1. DOMAIN r = {"end", "rows", "at"} /\ DOMAIN NoRange = {"rows"}
    BY DEF Ranges, NoRange
  <1>2. "at" \in DOMAIN r /\ "at" \notin DOMAIN NoRange
    BY <1>1
  <1> QED
    BY <1>2

\* The tag of a chart has the latest time of the recorded ranges.
LEMMA VersionFacts ==
    ASSUME ranges \in [Window -> Ranges \union {NoRange}]
    PROVE  /\ Version \in Tags
           /\ Starts = {} => Version = NoTag
           /\ Starts # {} => /\ \E s \in Starts : Version.at = ranges[s].at
                             /\ \A s \in Starts : ranges[s].at \in 1..LastWrite /\ ranges[s].at <= Version.at
  <1>1. \A s \in Starts : s \in Window /\ ranges[s] \in Ranges /\ ranges[s].at \in 1..LastWrite /\ ranges[s].rows \in Nat
    BY RangeFacts DEF Starts
  <1>2. IsFiniteSet(Starts) /\ Cardinality(Starts) \in 0..Instants
    <2>1. Starts \subseteq Window
      BY DEF Starts
    <2> QED
      BY <2>1, ChartNumbers, FS_Subset, FS_CardinalityType
  <1>3. Total(Starts) \in Nat
    BY <1>1, <1>2, TotalIsNat
  <1>4. NoTag \in Tags
    BY ChartNumbers DEF NoTag, Tags
  <1>5. CASE Starts = {}
    BY <1>4, <1>5 DEF Version
  <1>6. CASE Starts # {}
    <2> DEFINE times == {ranges[s].at : s \in Starts}
    <2>1. times \subseteq 1..LastWrite /\ times # {}
      BY <1>1, <1>6
    <2>2. \E x \in times : \A y \in times : y <= x
      <3>1. times \in SUBSET Nat /\ \A x \in times : x <= LastWrite
        BY <2>1, ChartNumbers
      <3> HIDE DEF times
      <3> QED
        BY <3>1, <2>1, GreatestNat, ChartNumbers
    <2>3. Max(times) \in times /\ \A y \in times : y <= Max(times)
      <3> HIDE DEF times
      <3>1. \E x \in times : \A y \in times : x >= y
        BY <2>1, <2>2, ChartNumbers
      <3>2. Max(times) \in times /\ \A y \in times : Max(times) >= y
        BY <3>1 DEF Max
      <3> QED
        BY <2>1, <3>2, ChartNumbers
    <2>4. Version = [at |-> Max(times), rows |-> Total(Starts), n |-> Cardinality(Starts)]
      BY <1>6 DEF Version
    <2>5. Version.at = Max(times)
      BY <2>4
    <2>6. Version \in Tags
      <3> Max(times) \in 0..LastWrite
        BY <2>1, <2>3, ChartNumbers
      <3> HIDE DEF times
      <3> QED
        BY <1>2, <1>3, <2>4 DEF Tags
    <2> QED
      BY <1>1, <1>6, <2>3, <2>5, <2>6
  <1> QED
    BY <1>5, <1>6

LEMMA ChartsInitHolds == ChartsInit => ChartsIInv
  <1> SUFFICES ASSUME ChartsInit PROVE ChartsIInv
    OBVIOUS
  <1>1. Wrote = {}
    BY DEF ChartsInit, Wrote
  <1>2. TimesAreLeft
    BY <1>1, FS_EmptySet DEF TimesAreLeft, ChartsInit
  <1>3. NoTag \in Tags
    BY ChartNumbers DEF NoTag, Tags
  <1>4. ChartTypes
    BY <1>3, ChartNumbers DEF ChartsInit, ChartTypes, WriterStates, IdleWriters, Bodies, ViewerStates, NoWrites
  <1> QED
    BY <1>2, <1>4 DEF ChartsIInv, WritersFit, ChartsInit

\* What is counted once more is left once less.
LEMMA Counting ==
    ASSUME NEW m \in Nat, NEW n \in Nat, NEW s \in Nat, NEW t \in Nat, NEW w \in Nat, NEW x \in Nat,
           n + s <= w, \/ m = n /\ t <= s + 0 + (x - w)
                       \/ m = n + 1 /\ t <= s + x - w - 1
                       \/ m = n - 1 /\ t <= s + 1 + (x - w)
                       \/ m = n /\ t <= s + x - w - 0
    PROVE  m + t <= x
  OBVIOUS

\* A step of one writer.
LEMMA WriterMoves ==
    ASSUME ChartsIInv, NEW w \in Writers, NEW q \in WriterStates, WriterTo(w, q),
           q.step # "idle" => q.id <= writes' /\ q.lo < q.hi,
           writes' \in 0..LastWrite, writes <= writes', stamps' \in Nat,
           IF writer[w].step = "wrote" THEN stamps' <= stamps + (IF q.step = "wrote" THEN 0 ELSE 1) + (writes' - writes)
           ELSE stamps' <= stamps + writes' - writes - (IF q.step = "wrote" THEN 1 ELSE 0)
    PROVE  TimesAreLeft' /\ WritersFit' /\ writer' \in [Writers -> WriterStates] /\ stamps' \in 0..writes'
  <1>0. writer \in [Writers -> WriterStates] /\ writes \in Nat /\ stamps \in Nat /\ writes' \in Nat
    BY ChartNumbers DEF ChartsIInv, ChartTypes
  <1>1. writer' = [writer EXCEPT ![w] = q]
    BY DEF WriterTo
  <1>2. writer' \in [Writers -> WriterStates] /\ writer'[w] = q /\ \A x \in Writers \ {w} : writer'[x] = writer[x]
    BY <1>0, <1>1
  <1>3. Wrote' = IF q.step = "wrote" THEN Wrote \union {w} ELSE Wrote \ {w}
    BY <1>2 DEF Wrote
  <1>4. IsFiniteSet(Wrote) /\ Cardinality(Wrote) \in Nat /\ Cardinality(Wrote) + stamps <= writes
    BY FS_CardinalityType DEF ChartsIInv, TimesAreLeft
  <1>5. w \in Wrote <=> writer[w].step = "wrote"
    BY DEF Wrote
  <1>6. /\ IsFiniteSet(Wrote')
        /\ Cardinality(Wrote') = IF q.step = "wrote" THEN IF w \in Wrote THEN Cardinality(Wrote) ELSE Cardinality(Wrote) + 1
                                 ELSE IF w \in Wrote THEN Cardinality(Wrote) - 1 ELSE Cardinality(Wrote)
    BY <1>3, <1>4, FS_AddElement, FS_RemoveElement
  <1>7. Cardinality(Wrote') \in Nat /\ Cardinality(Wrote') + stamps' <= writes'
    <2>1. Cardinality(Wrote') \in Nat
      BY <1>6, FS_CardinalityType
    <2> PICK n \in Nat, m \in Nat : n = Cardinality(Wrote) /\ m = Cardinality(Wrote')
      BY <1>4, <2>1
    <2>2. n + stamps <= writes
      BY <1>4
    <2>7. stamps \in Nat /\ stamps' \in Nat /\ writes \in Nat /\ writes' \in Nat
      BY <1>0
    <2>3. ASSUME q.step = "wrote" /\ writer[w].step = "wrote" PROVE m + stamps' <= writes'
      <3>1. m = n /\ stamps' <= stamps + 0 + (writes' - writes)
        BY <1>5, <1>6, <2>3
      <3> QED
        BY <3>1, <2>2, <2>7, Counting
    <2>4. ASSUME q.step = "wrote" /\ writer[w].step # "wrote" PROVE m + stamps' <= writes'
      <3>1. m = n + 1 /\ stamps' <= stamps + writes' - writes - 1
        BY <1>5, <1>6, <2>4
      <3> QED
        BY <3>1, <2>2, <2>7, Counting
    <2>5. ASSUME q.step # "wrote" /\ writer[w].step = "wrote" PROVE m + stamps' <= writes'
      <3>1. m = n - 1 /\ stamps' <= stamps + 1 + (writes' - writes)
        BY <1>5, <1>6, <2>5
      <3> QED
        BY <3>1, <2>2, <2>7, Counting
    <2>6. ASSUME q.step # "wrote" /\ writer[w].step # "wrote" PROVE m + stamps' <= writes'
      <3>1. m = n /\ stamps' <= stamps + writes' - writes - 0
        BY <1>5, <1>6, <2>6
      <3> QED
        BY <3>1, <2>2, <2>7, Counting
    <2> QED
      BY <2>1, <2>3, <2>4, <2>5, <2>6
  <1>8. TimesAreLeft'
    BY <1>6, <1>7 DEF TimesAreLeft
  <1>9. WritersFit'
    <2> SUFFICES ASSUME NEW x \in Writers, writer'[x].step # "idle"
                 PROVE  writer'[x].id <= writes' /\ writer'[x].lo < writer'[x].hi
      BY DEF WritersFit
    <2>1. CASE x = w
      BY <1>2, <2>1
    <2>2. CASE x # w
      <3>1. writer'[x] = writer[x] /\ writer[x] \in WriterStates
        BY <1>0, <1>2, <2>2
      <3>2. writer[x].id <= writes /\ writer[x].lo < writer[x].hi
        BY <3>1 DEF ChartsIInv, WritersFit
      <3>3. writer[x].id \in 1..LastWrite
        BY <3>1, WriterFacts
      <3> QED
        BY <1>0, <3>1, <3>2, <3>3
    <2> QED
      BY <2>1, <2>2
  <1> QED
    BY <1>0, <1>2, <1>7, <1>8, <1>9

\* A range that is recorded again ends no earlier, and has the time of who records it.
LEMMA WidenedFacts ==
    ASSUME ChartsIInv, NEW w \in Writers, writer[w].step = "stamped"
    PROVE  LET lo == writer[w].lo  row == Widened(ranges[lo], writer[w]) IN
           lo \in Window /\ row \in Ranges /\ row.end > lo /\ row.at = writer[w].at
  <1> DEFINE q == writer[w]  row == Widened(ranges[q.lo], q)
  <1>1. q \in WriterStates
    BY DEF ChartsIInv, ChartTypes
  <1>2. q.lo \in Window /\ q.hi \in 1..Instants /\ q.at \in 1..LastWrite /\ q.lo < q.hi
    BY <1>1, WriterFacts DEF ChartsIInv, WritersFit
  <1>3. ranges[q.lo] # NoRange => ranges[q.lo].end \in 1..Instants
    BY <1>2, RangeFacts DEF ChartsIInv, ChartTypes
  <1> DEFINE end == IF ranges[q.lo] = NoRange THEN q.hi ELSE Higher(ranges[q.lo].end, q.hi)
  <1>4. row = [end |-> end, rows |-> q.hi - q.lo, at |-> q.at]
    BY DEF Widened
  <1>5. end \in 1..Instants /\ end >= q.hi
    BY <1>2, <1>3, ChartNumbers DEF Higher
  <1>6. q.hi - q.lo \in 1..Instants
    BY <1>2, ChartNumbers
  <1> HIDE DEF q, end
  <1>7. row \in Ranges
    BY <1>2, <1>4, <1>5, <1>6 DEF Ranges
  <1>8. row.end > q.lo
    BY <1>2, <1>4, <1>5, ChartNumbers
  <1> QED
    BY <1>2, <1>4, <1>7, <1>8 DEF q

\* Every step of a writer or a browser keeps the types.
LEMMA ChartsStep ==
    ASSUME ChartsIInv, [ChartsNext]_chartVars
    PROVE  ChartsIInv'
  <1>0. /\ writer \in [Writers -> WriterStates] /\ writes \in Nat /\ stamps \in Nat /\ writes \in 0..LastWrite
        /\ viewer \in [Viewers -> ViewerStates] /\ cachedRows \in Bodies /\ recorded \subseteq 1..writes
        /\ stamps \in 0..writes /\ ranges \in [Window -> Ranges \union {NoRange}]
        /\ \A s \in Window : ranges[s] # NoRange => ranges[s].end > s
    BY ChartNumbers DEF ChartsIInv, ChartTypes
  <1>idle. [step |-> "idle"] \in WriterStates
    BY DEF WriterStates, IdleWriters
  <1>1. ASSUME NEW w \in Writers, WriteCache(w) PROVE ChartsIInv'
    <2>1. PICK lo \in Window, hi \in 1..Instants :
             /\ lo < hi
             /\ WriterTo(w, [step |-> "wrote", id |-> writes + 1, lo |-> lo, hi |-> hi])
             /\ cachedRows' = [t \in Window |-> IF t \in lo..(hi - 1) THEN writes + 1 ELSE cachedRows[t]]
      BY <1>1 DEF WriteCache
    <2>2. /\ writer[w].step = "idle" /\ writes' = writes + 1 /\ writes' \in 0..LastWrite /\ writes + 1 \in 1..LastWrite
          /\ stamps' = stamps
      BY <1>0, <1>1, ChartNumbers DEF WriteCache
    <2> DEFINE q == [step |-> "wrote", id |-> writes + 1, lo |-> lo, hi |-> hi]
    <2>3. q \in WriterStates
      BY <2>2 DEF WriterStates, WroteWriters
    <2>4. TimesAreLeft' /\ WritersFit' /\ writer' \in [Writers -> WriterStates] /\ stamps' \in 0..writes'
      <3>1. q.step = "wrote" /\ q.id <= writes' /\ q.lo < q.hi /\ WriterTo(w, q)
        BY <1>0, <2>1, <2>2
      <3>2. stamps' <= stamps + writes' - writes - 1 /\ writes <= writes' /\ stamps' \in Nat
        BY <1>0, <2>2
      <3> HIDE DEF q
      <3> QED
        BY <2>2, <2>3, <3>1, <3>2, WriterMoves
    <2>5. cachedRows' \in Bodies
      BY <1>0, <2>1, <2>2 DEF Bodies
    <2> QED
      BY <1>0, <1>1, <2>2, <2>4, <2>5 DEF WriteCache, ChartsIInv, ChartTypes
  <1>2. ASSUME NEW w \in Writers, TakeTime(w) PROVE ChartsIInv'
    <2> DEFINE q == [step |-> "stamped", id |-> writer[w].id, lo |-> writer[w].lo, hi |-> writer[w].hi, at |-> stamps + 1]
    <2>1. writer[w].step = "wrote" /\ WriterTo(w, q) /\ writes' = writes /\ stamps' = stamps + 1
      BY <1>2 DEF TakeTime
    <2>2. writer[w].id \in 1..LastWrite /\ writer[w].lo \in Window /\ writer[w].hi \in 1..Instants
          /\ writer[w].id <= writes /\ writer[w].lo < writer[w].hi
      BY <1>0, <2>1, WriterFacts DEF ChartsIInv, WritersFit
    <2>3. stamps + 1 \in 1..LastWrite
      <3>1. w \in Wrote
        BY <2>1 DEF Wrote
      <3>2. IsFiniteSet(Wrote) /\ Cardinality(Wrote) \in Nat /\ Cardinality(Wrote) # 0
        BY <3>1, FS_CardinalityType, FS_EmptySet DEF ChartsIInv, TimesAreLeft
      <3>3. Cardinality(Wrote) + stamps <= writes
        BY DEF ChartsIInv, TimesAreLeft
      <3> QED
        BY <1>0, <3>2, <3>3, ChartNumbers
    <2>4. q \in WriterStates
      BY <2>2, <2>3 DEF WriterStates, StampedWriters
    <2>5. q.step = "stamped" /\ q.id <= writes' /\ q.lo < q.hi
      BY <2>1, <2>2
    <2>6. TimesAreLeft' /\ WritersFit' /\ writer' \in [Writers -> WriterStates] /\ stamps' \in 0..writes'
      <3>1. stamps' <= stamps + 1 + (writes' - writes) /\ writes <= writes' /\ stamps' \in Nat /\ writes' \in 0..LastWrite
        BY <1>0, <2>1
      <3> HIDE DEF q
      <3> QED
        BY <2>1, <2>4, <2>5, <3>1, WriterMoves
    <2> QED
      BY <1>0, <1>2, <2>1, <2>6 DEF TakeTime, ChartsIInv, ChartTypes
  <1>3. ASSUME NEW w \in Writers, Record(w) PROVE ChartsIInv'
    <2>1. writer[w].step = "stamped" /\ WriterTo(w, [step |-> "idle"]) /\ writes' = writes /\ stamps' = stamps
      BY <1>3 DEF Record
    <2>2. TimesAreLeft' /\ WritersFit' /\ writer' \in [Writers -> WriterStates] /\ stamps' \in 0..writes'
      <3>1. stamps' <= stamps + writes' - writes - 0 /\ writes <= writes' /\ stamps' \in Nat /\ writes' \in 0..LastWrite
        BY <1>0, <2>1
      <3> QED
        BY <2>1, <3>1, <1>idle, WriterMoves
    <2> DEFINE lo == writer[w].lo  row == Widened(ranges[lo], writer[w])
    <2>3. lo \in Window /\ row \in Ranges /\ row.end > lo
      BY <2>1, WidenedFacts
    <2>4. ranges' = [ranges EXCEPT ![lo] = row]
      BY <1>3 DEF Record
    <2>5. writer[w].id \in 1..writes
      BY <1>0, <2>1, WriterFacts DEF ChartsIInv, WritersFit
    <2>6. /\ ranges' \in [Window -> Ranges \union {NoRange}]
          /\ \A s \in Window : ranges'[s] # NoRange => ranges'[s].end > s
      <3> HIDE DEF lo, row
      <3> QED
        BY <1>0, <2>3, <2>4
    <2>7. recorded' \subseteq 1..writes'
      BY <1>0, <1>3, <2>1, <2>5 DEF Record
    <2> QED
      BY <1>0, <1>3, <2>1, <2>2, <2>6, <2>7 DEF Record, ChartsIInv, ChartTypes
  <1>4. ASSUME NEW w \in Writers, GiveUp(w) PROVE ChartsIInv'
    <2>1. WriterTo(w, [step |-> "idle"]) /\ writes' = writes /\ stamps' = stamps
      BY <1>4 DEF GiveUp
    <2>2. TimesAreLeft' /\ WritersFit' /\ writer' \in [Writers -> WriterStates] /\ stamps' \in 0..writes'
      <3>1. stamps' <= stamps + writes' - writes - 0 /\ writes <= writes' /\ stamps' \in Nat /\ writes' \in 0..LastWrite
            /\ stamps' <= stamps + 1 + (writes' - writes)
        BY <1>0, <2>1
      <3> QED
        BY <2>1, <3>1, <1>idle, WriterMoves
    <2> QED
      BY <1>0, <1>4, <2>1, <2>2 DEF GiveUp, ChartsIInv, ChartTypes
  <1>5. ASSUME NEW v \in Viewers, NEW r \in ViewerStates, ViewerTo(v, r) \/ UNCHANGED viewer,
               UNCHANGED <<cachedRows, ranges, writes, stamps, recorded, writer>>
        PROVE  ChartsIInv'
    <2> viewer' \in [Viewers -> ViewerStates]
      BY <1>0, <1>5 DEF ViewerTo
    <2> QED
      BY <1>0, <1>5 DEF ChartsIInv, ChartTypes, TimesAreLeft, Wrote, WritersFit
  <1>6. ASSUME NEW v \in Viewers, ReadExtent(v) PROVE ChartsIInv'
    <2> DEFINE r == [step |-> "tagged", tag |-> viewer[v].tag, body |-> viewer[v].body, asked |-> Version]
    <2>1. viewer[v].tag \in Tags /\ viewer[v].body \in Bodies
      BY <1>0 DEF ViewerStates
    <2>2. Version \in Tags
      BY <1>0, VersionFacts
    <2>3. r \in ViewerStates
      BY <2>1, <2>2 DEF ViewerStates
    <2>4. ViewerTo(v, r) \/ UNCHANGED viewer
      BY <1>6 DEF ReadExtent
    <2> HIDE DEF r
    <2> QED
      BY <1>5, <1>6, <2>3, <2>4 DEF ReadExtent
  <1>7. ASSUME NEW v \in Viewers, ReadCache(v) PROVE ChartsIInv'
    <2> DEFINE r == [step |-> "idle", tag |-> viewer[v].asked, body |-> cachedRows, asked |-> viewer[v].asked]
    <2>1. viewer[v].asked \in Tags
      BY <1>0 DEF ViewerStates
    <2>2. r \in ViewerStates
      BY <1>0, <2>1 DEF ViewerStates
    <2>3. ViewerTo(v, r)
      BY <1>7 DEF ReadCache
    <2> HIDE DEF r
    <2> QED
      BY <1>5, <1>7, <2>2, <2>3 DEF ReadCache
  <1>8. CASE UNCHANGED chartVars
    BY <1>0, <1>8 DEF chartVars, ChartsIInv, ChartTypes, TimesAreLeft, Wrote, WritersFit
  <1> QED
    BY <1>1, <1>2, <1>3, <1>4, <1>6, <1>7, <1>8 DEF ChartsNext

LEMMA ChartsIInvHolds == ChartsSpec => []ChartsIInv
  BY ChartsInitHolds, ChartsStep, PTL DEF ChartsSpec

\* The type invariant of writers, browsers and tags: no time is taken twice and every tag is
\* one a series can have (series_chart.py:51-63, coverage.py:44-77).
THEOREM ChartsTypeCorrect == ChartsSpec => []ChartsTypeOK
  BY ChartsIInvHolds, ChartTypesAre, PTL DEF ChartsIInv

\* One run at a time writes the series.
OneWriter == \A w, x \in Writers : w = x

\* A writer that has taken the time is later than everything that is recorded or known to a browser.
LatestWriter ==
    /\ \A w \in Writers : writer[w].step = "stamped" =>
          /\ \A s \in Starts : ranges[s].at < writer[w].at
          /\ \A v \in Viewers : viewer[v].tag.at < writer[w].at /\ viewer[v].asked.at < writer[w].at
          /\ writer[w].at <= stamps
    /\ \A s \in Starts : ranges[s].at <= stamps
    /\ \A v \in Viewers : viewer[v].tag.at <= stamps /\ viewer[v].asked.at <= stamps

\* The inductive invariant. Two writers break LatestWriter: the one with the earlier time may
\* record last, and the latest time of the ranges then stays what it was.
FreshIInv == ChartsIInv /\ LatestWriter /\ NotModifiedIsFresh

\* The tags of a browser.
LEMMA ViewerFacts ==
    ASSUME ChartTypes, NEW v \in Viewers
    PROVE  /\ viewer[v].tag \in Tags /\ viewer[v].asked \in Tags
           /\ viewer[v].tag.at \in Nat /\ viewer[v].asked.at \in Nat
  BY ChartNumbers DEF ChartTypes, ViewerStates, Tags

LEMMA FreshInitHolds == ChartsInit => FreshIInv
  <1> SUFFICES ASSUME ChartsInit PROVE FreshIInv
    OBVIOUS
  <1>1. ChartsIInv
    BY ChartsInitHolds
  <1>2. Starts = {}
    BY DEF ChartsInit, Starts
  <1>3. LatestWriter
    BY <1>2 DEF LatestWriter, ChartsInit, NoTag
  <1>4. NotModifiedIsFresh
    BY DEF NotModifiedIsFresh, ChartsInit
  <1> QED
    BY <1>1, <1>3, <1>4 DEF FreshIInv

\* Steps that record nothing leave the tag.
LEMMA VersionStays ==
    ASSUME UNCHANGED ranges
    PROVE  Starts' = Starts /\ Version' = Version
  BY DEF Starts, Version, Total, MapThenSumSet, MapThenFoldSet

\* Every step keeps it: what a writer records gives the chart a tag no browser has.
LEMMA FreshStep ==
    ASSUME OneWriter, FreshIInv, [ChartsNext]_chartVars
    PROVE  FreshIInv'
  <1>0. /\ writer \in [Writers -> WriterStates] /\ writes \in Nat /\ stamps \in Nat
        /\ viewer \in [Viewers -> ViewerStates] /\ recorded \subseteq 1..writes
        /\ ranges \in [Window -> Ranges \union {NoRange}]
        /\ \A v \in Viewers : viewer[v].tag.at \in Nat /\ viewer[v].asked.at \in Nat
        /\ \A s \in Starts : ranges[s].at \in Nat
    <2>1. ChartTypes
      BY DEF FreshIInv, ChartsIInv
    <2>2. \A s \in Starts : ranges[s].at \in 1..LastWrite
      BY <2>1, RangeFacts DEF ChartTypes, Starts
    <2> QED
      BY <2>1, <2>2, ViewerFacts, ChartNumbers DEF ChartTypes
  <1>t. ChartsIInv'
    BY ChartsStep DEF FreshIInv
  <1> SUFFICES LatestWriter' /\ NotModifiedIsFresh'
    BY <1>t DEF FreshIInv
  <1>1. ASSUME NEW w \in Writers, WriteCache(w) PROVE LatestWriter' /\ NotModifiedIsFresh'
    <2>1. PICK lo \in Window, hi \in 1..Instants :
             /\ WriterTo(w, [step |-> "wrote", id |-> writes + 1, lo |-> lo, hi |-> hi])
             /\ cachedRows' = [t \in Window |-> IF t \in lo..(hi - 1) THEN writes + 1 ELSE cachedRows[t]]
      BY <1>1 DEF WriteCache
    <2>2. UNCHANGED <<ranges, stamps, recorded, viewer>> /\ Starts' = Starts /\ Version' = Version
      BY <1>1, VersionStays DEF WriteCache
    <2>3. \A x \in Writers : writer'[x].step = "stamped" => writer'[x] = writer[x]
      BY <1>0, <2>1 DEF WriterTo
    <2>4. LatestWriter'
      BY <2>2, <2>3 DEF FreshIInv, LatestWriter
    <2>5. writes + 1 \notin recorded
      BY <1>0
    <2>6. NotModifiedIsFresh'
      <3> SUFFICES ASSUME NEW v \in Viewers, viewer[v].tag = Version, NEW t \in Window, cachedRows'[t] \in recorded
                   PROVE  viewer[v].body[t] = cachedRows'[t]
        BY <2>2 DEF NotModifiedIsFresh
      <3> cachedRows'[t] = cachedRows[t]
        BY <2>1, <2>5
      <3> QED
        BY DEF FreshIInv, NotModifiedIsFresh
    <2> QED
      BY <2>4, <2>6
  <1>2. ASSUME NEW w \in Writers, TakeTime(w) PROVE LatestWriter' /\ NotModifiedIsFresh'
    <2>1. /\ UNCHANGED <<cachedRows, ranges, recorded, viewer>> /\ stamps' = stamps + 1
          /\ Starts' = Starts /\ Version' = Version
      BY <1>2, VersionStays DEF TakeTime
    <2>2. writer'[w].at = stamps + 1
      BY <1>0, <1>2 DEF TakeTime, WriterTo
    <2>3. \A x \in Writers : writer'[x].at = stamps + 1
      BY <2>2 DEF OneWriter
    <2>4. LatestWriter'
      BY <1>0, <2>1, <2>3 DEF FreshIInv, LatestWriter
    <2>5. NotModifiedIsFresh'
      BY <2>1 DEF FreshIInv, NotModifiedIsFresh
    <2> QED
      BY <2>4, <2>5
  <1>3. ASSUME NEW w \in Writers, Record(w) PROVE LatestWriter' /\ NotModifiedIsFresh'
    <2> DEFINE lo == writer[w].lo  row == Widened(ranges[lo], writer[w])
    <2>1. /\ writer[w].step = "stamped" /\ UNCHANGED <<cachedRows, writes, stamps, viewer>>
          /\ ranges' = [ranges EXCEPT ![lo] = row] /\ writer' = [writer EXCEPT ![w] = [step |-> "idle"]]
      BY <1>3 DEF Record, WriterTo
    <2>2. lo \in Window /\ row \in Ranges /\ row.at = writer[w].at /\ row # NoRange
      BY <2>1, WidenedFacts, RangeIsThere DEF FreshIInv
    <2>3. writer[w].at \in Nat /\ writer[w].at <= stamps
      BY <1>0, <2>1, WriterFacts, ChartNumbers DEF FreshIInv, LatestWriter
    <2>4. Starts' = Starts \union {lo} /\ ranges'[lo].at = writer[w].at /\ \A s \in Starts' : s # lo => ranges'[s] = ranges[s]
      <3> HIDE DEF lo, row
      <3> QED
        BY <1>0, <2>1, <2>2 DEF Starts
    <2>5. \A s \in Starts' : ranges'[s].at <= writer[w].at
      <3> SUFFICES ASSUME NEW s \in Starts', s # lo PROVE ranges'[s].at <= writer[w].at
        BY <2>3, <2>4
      <3>1. s \in Starts /\ ranges'[s] = ranges[s]
        BY <2>4
      <3>2. ranges[s].at < writer[w].at
        BY <2>1, <3>1 DEF FreshIInv, LatestWriter
      <3> QED
        BY <1>0, <2>3, <3>1, <3>2
    <2>6. Version'.at = writer[w].at
      <3>1. ranges' \in [Window -> Ranges \union {NoRange}]
        BY <1>t DEF ChartsIInv, ChartTypes
      <3>2. /\ \E s \in Starts' : Version'.at = ranges'[s].at
            /\ \A s \in Starts' : ranges'[s].at \in 1..LastWrite /\ ranges'[s].at <= Version'.at
        <4>1. (ranges \in [Window -> Ranges \union {NoRange}] =>
                 (Starts # {} => /\ \E s \in Starts : Version.at = ranges[s].at
                                 /\ \A s \in Starts : ranges[s].at \in 1..LastWrite /\ ranges[s].at <= Version.at))'
          BY VersionFacts, PTL
        <4> QED
          BY <2>4, <3>1, <4>1
      <3>3. PICK s \in Starts' : Version'.at = ranges'[s].at
        BY <3>2
      <3>4. ranges'[lo].at <= Version'.at /\ Version'.at <= writer[w].at /\ Version'.at \in Nat
        BY <2>4, <2>5, <3>2, <3>3, ChartNumbers
      <3> QED
        BY <2>3, <2>4, <3>4
    <2>7. NotModifiedIsFresh'
      <3> SUFFICES ASSUME NEW v \in Viewers, viewer[v].tag = Version' PROVE FALSE
        BY <2>1 DEF NotModifiedIsFresh
      <3> viewer[v].tag.at < writer[w].at
        BY <2>1 DEF FreshIInv, LatestWriter
      <3> QED
        BY <1>0, <2>3, <2>6
    <2>8. \A x \in Writers : writer'[x].step = "idle"
      BY <1>0, <2>1 DEF OneWriter
    <2>9. \A s \in Starts' : ranges'[s].at <= stamps
      <3> SUFFICES ASSUME NEW s \in Starts' PROVE ranges'[s].at <= stamps
        OBVIOUS
      <3> ranges'[s].at <= writer[w].at /\ ranges'[s].at \in Nat
        BY <1>0, <2>3, <2>4, <2>5
      <3> QED
        BY <1>0, <2>3
    <2>10. LatestWriter'
      BY <2>1, <2>8, <2>9 DEF FreshIInv, LatestWriter
    <2> QED
      BY <2>7, <2>10
  <1>4. ASSUME NEW w \in Writers, GiveUp(w) PROVE LatestWriter' /\ NotModifiedIsFresh'
    <2>1. UNCHANGED <<cachedRows, ranges, writes, stamps, recorded, viewer>> /\ Starts' = Starts /\ Version' = Version
      BY <1>4, VersionStays DEF GiveUp
    <2>2. \A x \in Writers : writer'[x].step = "stamped" => writer'[x] = writer[x]
      BY <1>0, <1>4 DEF GiveUp, WriterTo
    <2> QED
      BY <2>1, <2>2 DEF FreshIInv, LatestWriter, NotModifiedIsFresh
  <1>v. ASSUME NEW v \in Viewers, NEW r, viewer' = [viewer EXCEPT ![v] = r],
               UNCHANGED <<cachedRows, ranges, writes, stamps, recorded, writer>>,
               r.tag \in {viewer[v].tag, viewer[v].asked}, r.asked \in {viewer[v].asked, Version},
               r.tag = Version => \A t \in Window : cachedRows[t] \in recorded => r.body[t] = cachedRows[t]
        PROVE  LatestWriter' /\ NotModifiedIsFresh'
    <2>1. Starts' = Starts /\ Version' = Version
      BY <1>v, VersionStays
    <2>2. viewer'[v] = r /\ \A x \in Viewers \ {v} : viewer'[x] = viewer[x]
      BY <1>0, <1>v
    <2>3. NotModifiedIsFresh'
      <3> SUFFICES ASSUME NEW x \in Viewers, viewer'[x].tag = Version, NEW t \in Window, cachedRows[t] \in recorded
                   PROVE  viewer'[x].body[t] = cachedRows[t]
        BY <1>v, <2>1 DEF NotModifiedIsFresh
      <3>1. CASE x = v
        BY <1>v, <2>2, <3>1
      <3>2. CASE x # v
        BY <2>2, <3>2 DEF FreshIInv, NotModifiedIsFresh
      <3> QED
        BY <3>1, <3>2
    <2>4. Version.at <= stamps /\ \A w \in Writers : writer[w].step = "stamped" => Version.at < writer[w].at
      <3>1. CASE Starts = {}
        <4>1. Version = NoTag /\ NoTag.at = 0
          BY <1>0, <3>1, VersionFacts DEF NoTag
        <4>2. \A w \in Writers : writer[w].step = "stamped" => writer[w].at \in 1..LastWrite
          BY <1>0, WriterFacts
        <4> QED
          BY <1>0, <4>1, <4>2, ChartNumbers
      <3>2. CASE Starts # {}
        <4> PICK s \in Starts : Version.at = ranges[s].at
          BY <1>0, <3>2, VersionFacts
        <4> QED
          BY DEF FreshIInv, LatestWriter
      <3> QED
        BY <3>1, <3>2
    <2>5. LatestWriter'
      <3>1. \A x \in Viewers : /\ viewer'[x].tag \in {viewer[x].tag, viewer[x].asked}
                               /\ viewer'[x].asked \in {viewer[x].asked, Version}
        BY <1>v, <2>2
      <3>2. UNCHANGED <<ranges, stamps, writer>>
        BY <1>v
      <3> QED
        BY <2>1, <2>4, <3>1, <3>2 DEF FreshIInv, LatestWriter
    <2> QED
      BY <2>3, <2>5
  <1>5. ASSUME NEW v \in Viewers, ReadExtent(v) PROVE LatestWriter' /\ NotModifiedIsFresh'
    <2> DEFINE r == [step |-> "tagged", tag |-> viewer[v].tag, body |-> viewer[v].body, asked |-> Version]
    <2>1. CASE UNCHANGED viewer
      <3> Starts' = Starts /\ Version' = Version
        BY <1>5, VersionStays DEF ReadExtent
      <3> QED
        BY <1>5, <2>1 DEF ReadExtent, FreshIInv, LatestWriter, NotModifiedIsFresh
    <2>2. CASE ViewerTo(v, r)
      <3>1. r.tag = Version => \A t \in Window : cachedRows[t] \in recorded => r.body[t] = cachedRows[t]
        BY DEF FreshIInv, NotModifiedIsFresh
      <3>2. r.tag = viewer[v].tag /\ r.asked = Version
        OBVIOUS
      <3> HIDE DEF r
      <3> QED
        BY <1>5, <2>2, <3>1, <3>2, <1>v DEF ReadExtent, ViewerTo
    <2> QED
      BY <1>5, <2>1, <2>2 DEF ReadExtent
  <1>6. ASSUME NEW v \in Viewers, ReadCache(v) PROVE LatestWriter' /\ NotModifiedIsFresh'
    <2> DEFINE r == [step |-> "idle", tag |-> viewer[v].asked, body |-> cachedRows, asked |-> viewer[v].asked]
    <2>1. ViewerTo(v, r) /\ r.tag = viewer[v].asked /\ r.asked = viewer[v].asked /\ r.body = cachedRows
      BY <1>6 DEF ReadCache
    <2> HIDE DEF r
    <2> QED
      BY <1>6, <2>1, <1>v DEF ReadCache, ViewerTo
  <1>7. CASE UNCHANGED chartVars
    <2> Starts' = Starts /\ Version' = Version
      BY <1>7, VersionStays DEF chartVars
    <2> QED
      BY <1>7 DEF chartVars, FreshIInv, LatestWriter, NotModifiedIsFresh
  <1> QED
    BY <1>1, <1>2, <1>3, <1>4, <1>5, <1>6, <1>7 DEF ChartsNext

\* A browser that is told that its chart has not changed shows what is recorded, as long as the
\* runs of a series write it one after the other (series.py:450-496, coverage.py:44-77).
THEOREM NotModifiedTheorem ==
    ASSUME OneWriter
    PROVE  ChartsSpec => []NotModifiedIsFresh
  <1>1. FreshIInv /\ [ChartsNext]_chartVars => FreshIInv'
    BY FreshStep
  <1>2. FreshIInv => NotModifiedIsFresh
    BY DEF FreshIInv
  <1> QED
    BY <1>1, <1>2, FreshInitHolds, PTL DEF ChartsSpec

-----------------------------------------------------------------------------
(* Invitations: days and attempts *)

\* What is dated is within the clock's bound, and the attempts of a mail are within theirs.
DatesOK ==
    /\ day \in 0..LastDay /\ joined \in BOOLEAN
    /\ \A i \in InvitationIds : invitation[i].expires \in Days
    /\ \A j \in Joiners : joiner[j].step \in {"begun", "locking"} => joiner[j].at \in 0..LastDay
    /\ \A m \in MailJobs : mailJob[m].step \in {"queued", "sending", "sent", "failed"} =>
          mailJob[m].attempts \in 0..(MailAttempts - 1)

\* It holds at the start.
LEMMA DatesInit == InvitationsInit => DatesOK
  <1>1. InvitationsInit => joined \in BOOLEAN
    BY DEF InvitationsInit
  <1>2. InvitationsInit => day \in 0..LastDay /\ \A i \in InvitationIds : invitation[i].expires \in Days
    BY InvitationsAssumption DEF InvitationsInit, NoInvitation, Days
  <1>3. InvitationsInit => /\ \A j \in Joiners : joiner[j].step = "idle"
                           /\ \A m \in MailJobs : mailJob[m].step = "none"
    BY DEF InvitationsInit
  <1> QED
    BY <1>1, <1>2, <1>3 DEF DatesOK

\* An invitation that is made or renewed now ends in time.
LEMMA DayFacts ==
    ASSUME DatesOK
    PROVE  day + InvitationTtl \in Days
  BY InvitationsAssumption DEF DatesOK, Days

\* A job that comes has all of its attempts, or one.
LEMMA QueueDates ==
    ASSUME InvitationsIInv, DatesOK, NEW i \in InvitationIds, Queue(i)
    PROVE  \A n \in MailJobs : mailJob'[n].step \in {"queued", "sending", "sent", "failed"} =>
              mailJob'[n].attempts \in 0..(MailAttempts - 1)
  <1>1. CASE mailJob' = mailJob
    BY <1>1 DEF DatesOK
  <1>2. ASSUME NEW m \in MailJobs,
               mailJob' = [mailJob EXCEPT ![m] = [step |-> "queued", about |-> i,
                                                  attempts |-> IF InlineJobs THEN MailAttempts - 1 ELSE 0]]
        PROVE  \A n \in MailJobs : mailJob'[n].step \in {"queued", "sending", "sent", "failed"} =>
                  mailJob'[n].attempts \in 0..(MailAttempts - 1)
    <2> DEFINE c == [step |-> "queued", about |-> i, attempts |-> IF InlineJobs THEN MailAttempts - 1 ELSE 0]
    <2>1. (IF InlineJobs THEN MailAttempts - 1 ELSE 0) \in 0..(MailAttempts - 1)
      BY InvitationsAssumption
    <2>2. c.attempts \in 0..(MailAttempts - 1)
      BY <2>1
    <2> HIDE DEF c
    <2> QED
      BY <1>2, <2>2 DEF InvitationsIInv, Types, DatesOK, c
  <1> QED
    BY <1>1, <1>2 DEF Queue

\* Requests of admins keep it.
LEMMA PanelDates ==
    ASSUME InvitationsIInv, DatesOK, NEW p \in Panels,
           ReadMembership(p) \/ ReadOpen(p) \/ Insert(p) \/ ReadInvitation(p) \/ Resend(p) \/ RevokeInvitation(p)
    PROVE  DatesOK'
  <1>0. UNCHANGED <<day, joiner, joined>>
    BY DEF ReadMembership, ReadOpen, Insert, ReadInvitation, Resend, RevokeInvitation
  <1>t. \A i \in InvitationIds : invitation[i] \in InvitationRows
    BY DEF InvitationsIInv, Types
  <1>1. CASE UNCHANGED <<invitation, mailJob>>
    BY <1>0, <1>1 DEF DatesOK
  <1>2. CASE Insert(p) /\ ~UNCHANGED <<invitation, mailJob>>
    <2>1. PICK i \in InvitationIds :
            /\ invitation' = [j \in InvitationIds |->
                  IF j = i THEN [made |-> TRUE, expires |-> day + InvitationTtl, accepted |-> FALSE, revoked |-> FALSE,
                                 email |-> EmailAfter]
                  ELSE IF j \in panel[p].found THEN [invitation[j] EXCEPT !.revoked = TRUE] ELSE invitation[j]]
            /\ Queue(i)
      BY <1>2 DEF Insert
    <2>2. ASSUME NEW j \in InvitationIds PROVE invitation'[j].expires \in Days
      <3> DEFINE o == invitation[j]
      <3>1. o \in InvitationRows /\ o.expires \in Days
        BY <1>t DEF DatesOK
      <3>2. [o EXCEPT !.revoked = TRUE].expires \in Days
        <4> HIDE DEF o
        <4> QED
          BY <3>1 DEF InvitationRows, Made, NoInvitation
      <3> QED
        BY <2>1, <3>1, <3>2, DayFacts
    <2> QED
      BY <1>0, <2>1, <2>2, QueueDates DEF DatesOK
  <1>3. CASE Resend(p)
    <2>1. PICK i \in panel[p].found :
            /\ invitation' = [invitation EXCEPT ![i].expires = day + InvitationTtl,
                                                ![i].email = IF EmailAfter = panel[p].email THEN @ ELSE EmailAfter]
            /\ Queue(i)
      BY <1>3 DEF Resend
    <2>2. i \in InvitationIds
      BY <1>3 DEF Resend, InvitationsIInv, Types, Panel
    <2> DEFINE later == [invitation[i] EXCEPT !.expires = day + InvitationTtl]
               row == [later EXCEPT !.email = IF EmailAfter = panel[p].email THEN later.email ELSE EmailAfter]
    <2>3. invitation' = [invitation EXCEPT ![i] = row]
      BY <2>1, <2>2 DEF InvitationsIInv, Types
    <2>4. row.expires \in Days
      <3> DEFINE o == invitation[i]
      <3>1. o \in InvitationRows
        BY <1>t, <2>2
      <3>2. row = [[o EXCEPT !.expires = day + InvitationTtl] EXCEPT
                      !.email = IF EmailAfter = panel[p].email THEN later.email ELSE EmailAfter]
        OBVIOUS
      <3> HIDE DEF o, row, later
      <3>3. row.expires = day + InvitationTtl
        BY <3>1, <3>2 DEF InvitationRows, Made, NoInvitation
      <3> QED
        BY <3>3, DayFacts
    <2> HIDE DEF row
    <2>5. \A j \in InvitationIds : invitation'[j].expires \in Days
      BY <2>2, <2>3, <2>4 DEF InvitationsIInv, Types, DatesOK
    <2> QED
      BY <1>0, <2>1, <2>2, <2>5, QueueDates DEF DatesOK
  <1>4. CASE RevokeInvitation(p)
    <2>1. PICK i \in panel[p].found : invitation' = [invitation EXCEPT ![i].revoked = TRUE] /\ UNCHANGED mailJob
      BY <1>4 DEF RevokeInvitation
    <2>2. ASSUME NEW j \in InvitationIds PROVE invitation'[j].expires \in Days
      <3> DEFINE o == invitation[j]
      <3>1. o \in InvitationRows /\ o.expires \in Days
        BY <1>t DEF DatesOK
      <3>2. invitation'[j] = o \/ invitation'[j] = [o EXCEPT !.revoked = TRUE]
        BY <2>1 DEF InvitationsIInv, Types
      <3> HIDE DEF o
      <3> QED
        BY <3>1, <3>2 DEF InvitationRows, Made, NoInvitation
    <2> QED
      BY <1>0, <2>1, <2>2 DEF DatesOK
  <1> QED
    BY <1>1, <1>2, <1>3, <1>4 DEF ReadMembership, ReadOpen, ReadInvitation

\* Sign-ins keep it.
LEMMA JoinDates ==
    ASSUME InvitationsIInv, DatesOK, NEW j \in Joiners, BeginJoin(j) \/ SelectInvitations(j) \/ AcceptInvitations(j)
    PROVE  DatesOK'
  <1>0. UNCHANGED <<day, mailJob>> /\ joined' \in BOOLEAN
    BY DEF DatesOK,  BeginJoin, SelectInvitations, AcceptInvitations
  <1>1. \E r : /\ joiner' = [joiner EXCEPT ![j] = r]
               /\ r.step \in {"begun", "locking"} => r.at \in 0..LastDay
    <2>1. CASE BeginJoin(j)
      <3>1. [step |-> "begun", at |-> day].at = day
        OBVIOUS
      <3> QED
        BY <2>1, <3>1 DEF BeginJoin, DatesOK
    <2>2. CASE SelectInvitations(j)
      <3> DEFINE r == [step |-> "locking", at |-> joiner[j].at, found |-> {i \in InvitationIds : Acceptable(i, joiner[j].at)}]
      <3>1. joiner' = [joiner EXCEPT ![j] = r] /\ r.at = joiner[j].at /\ joiner[j].at \in 0..LastDay
        BY <2>2 DEF SelectInvitations, DatesOK
      <3> HIDE DEF r
      <3> QED
        BY <3>1
    <2>3. CASE AcceptInvitations(j)
      <3>1. joiner' = [joiner EXCEPT ![j] = [step |-> "done"]] /\ [step |-> "done"].step \notin {"begun", "locking"}
        BY <2>3 DEF AcceptInvitations
      <3> QED
        BY <3>1
    <2> QED
      BY <2>1, <2>2, <2>3
  <1>2. \A k \in Joiners : joiner'[k].step \in {"begun", "locking"} => joiner'[k].at \in 0..LastDay
    <2> PICK r : /\ joiner' = [joiner EXCEPT ![j] = r]
                 /\ r.step \in {"begun", "locking"} => r.at \in 0..LastDay
      BY <1>1
    <2> joiner'[j] = r /\ \A k \in Joiners \ {j} : joiner'[k] = joiner[k]
      BY DEF InvitationsIInv, Types
    <2> QED
      BY DEF DatesOK
  <1>3. ASSUME NEW i \in InvitationIds PROVE invitation'[i].expires \in Days
    <2> DEFINE o == invitation[i]
    <2>1. o \in InvitationRows /\ o.expires \in Days
      BY DEF DatesOK, InvitationsIInv, Types
    <2>2. invitation'[i] = o \/ invitation'[i] = [o EXCEPT !.accepted = TRUE]
      BY DEF BeginJoin, SelectInvitations, AcceptInvitations
    <2> HIDE DEF o
    <2> QED
      BY <2>1, <2>2 DEF InvitationRows, Made, NoInvitation
  <1> QED
    BY <1>0, <1>2, <1>3 DEF DatesOK

\* Mail jobs keep it.
LEMMA MailDates ==
    ASSUME InvitationsIInv, DatesOK, NEW m \in MailJobs, MailStep(m)
    PROVE  DatesOK'
  <1> DEFINE b == mailJob[m]
  <1>0. UNCHANGED <<day, joiner, joined>>
    BY DEF MailStep, ReadMail, NotConfigured, Send, RecordMail
  <1>1. b \in [step : {"queued", "sending", "sent", "failed"}, about : InvitationIds, attempts : Nat]
        /\ b.attempts \in 0..(MailAttempts - 1)
    BY DEF MailStep, ReadMail, NotConfigured, Send, RecordMail, InvitationsIInv, Types, Job, DatesOK
  <1>2. \E c : /\ mailJob' = [mailJob EXCEPT ![m] = c]
               /\ c.step \in {"queued", "sending", "sent", "failed"} => c.attempts \in 0..(MailAttempts - 1)
    <2>1. CASE mailJob' = [mailJob EXCEPT ![m] = [step |-> "gone"]]
      <3> [step |-> "gone"].step \notin {"queued", "sending", "sent", "failed"}
        OBVIOUS
      <3> QED
        BY <2>1
    <2>2. ASSUME NEW s \in {"sending", "sent", "failed"}, mailJob' = [mailJob EXCEPT ![m].step = s]
          PROVE  \E c : /\ mailJob' = [mailJob EXCEPT ![m] = c]
                        /\ c.step \in {"queued", "sending", "sent", "failed"} => c.attempts \in 0..(MailAttempts - 1)
      <3> DEFINE c == [b EXCEPT !.step = s]
      <3>1. mailJob' = [mailJob EXCEPT ![m] = c]
        BY <2>2
      <3> HIDE DEF b
      <3>2. c.attempts = b.attempts
        BY <1>1
      <3> HIDE DEF c
      <3> QED
        BY <1>1, <3>1, <3>2
    <2>3. CASE /\ mailJob' = [mailJob EXCEPT ![m].step = "queued", ![m].attempts = @ + 1]
               /\ b.attempts + 1 < MailAttempts
      <3> DEFINE again == [b EXCEPT !.step = "queued"]
                 c == [again EXCEPT !.attempts = again.attempts + 1]
      <3>1. mailJob' = [mailJob EXCEPT ![m] = c]
        BY <1>1, <2>3 DEF InvitationsIInv, Types
      <3> HIDE DEF b
      <3>2. again \in [step : {"queued"}, about : InvitationIds, attempts : Nat] /\ again.attempts = b.attempts
        BY <1>1
      <3> HIDE DEF again
      <3>3. c.attempts = b.attempts + 1
        BY <3>2
      <3> HIDE DEF c
      <3>4. c.attempts \in 0..(MailAttempts - 1)
        BY <1>1, <2>3, <3>3, InvitationsAssumption
      <3> QED
        BY <3>1, <3>4
    <2> QED
      BY <2>1, <2>2, <2>3 DEF MailStep, ReadMail, NotConfigured, Send, RecordMail, JobTo, JobGone
  <1>3. \A n \in MailJobs : mailJob'[n].step \in {"queued", "sending", "sent", "failed"} =>
            mailJob'[n].attempts \in 0..(MailAttempts - 1)
    <2> PICK c : /\ mailJob' = [mailJob EXCEPT ![m] = c]
                 /\ c.step \in {"queued", "sending", "sent", "failed"} => c.attempts \in 0..(MailAttempts - 1)
      BY <1>2
    <2> mailJob'[m] = c /\ \A n \in MailJobs \ {m} : mailJob'[n] = mailJob[n]
      BY DEF InvitationsIInv, Types
    <2> QED
      BY DEF DatesOK
  <1>4. invitation' = invitation \/ \E e \in EmailStatuses : invitation' = [invitation EXCEPT ![b.about].email = e]
    BY <1>1 DEF MailStep, ReadMail, NotConfigured, Send, RecordMail, SetStatus, EmailStatuses
  <1>5. ASSUME NEW i \in InvitationIds PROVE invitation'[i].expires \in Days
    <2> DEFINE o == invitation[i]
    <2>1. o \in InvitationRows /\ o.expires \in Days
      BY DEF DatesOK, InvitationsIInv, Types
    <2>2. invitation'[i] = o \/ \E e \in EmailStatuses : invitation'[i] = [o EXCEPT !.email = e]
      BY <1>4 DEF InvitationsIInv, Types
    <2> HIDE DEF o
    <2> QED
      BY <2>1, <2>2 DEF InvitationRows, Made, NoInvitation
  <1> QED
    BY <1>0, <1>3, <1>5 DEF DatesOK

\* The type invariant, whether or not mail is ever sent.
LEMMA InvitationsTypesHold == InvitationsInit /\ [][InvitationsNext]_invitationVars => []InvitationsTypeOK
  <1>1. InvitationsIInv /\ DatesOK /\ [InvitationsNext]_invitationVars => DatesOK'
    <2> SUFFICES ASSUME InvitationsIInv, DatesOK, [InvitationsNext]_invitationVars PROVE DatesOK'
      OBVIOUS
    <2>1. CASE UNCHANGED invitationVars
      BY <2>1 DEF invitationVars, DatesOK
    <2>2. CASE PassDay
      BY <2>2, InvitationsAssumption DEF PassDay, DatesOK
    <2> QED
      BY <2>1, <2>2, PanelDates, JoinDates, MailDates DEF InvitationsNext
  <1>2. InvitationsIInv /\ DatesOK => InvitationsTypeOK
    <2> SUFFICES ASSUME InvitationsIInv, DatesOK PROVE InvitationsTypeOK
      OBVIOUS
    <2>0. Types
      BY DEF InvitationsIInv
    <2>1. ASSUME NEW i \in InvitationIds
          PROVE  invitation[i] \in {NoInvitation} \union
             [made : {TRUE}, expires : Days, accepted : BOOLEAN, revoked : BOOLEAN, email : EmailStatuses]
      <3> DEFINE o == invitation[i]
      <3>1. o \in InvitationRows /\ o.expires \in Days
        BY <2>0 DEF Types, DatesOK
      <3> HIDE DEF o
      <3>2. o \in {NoInvitation} \union
             [made : {TRUE}, expires : Days, accepted : BOOLEAN, revoked : BOOLEAN, email : EmailStatuses]
        BY <3>1 DEF InvitationRows, Made
      <3> QED
        BY <3>2 DEF o
    <2>2. ASSUME NEW j \in Joiners
          PROVE  joiner[j] \in [step : {"idle", "done"}] \union [step : {"begun"}, at : 0..LastDay] \union
                   [step : {"locking"}, at : 0..LastDay, found : SUBSET InvitationIds]
      <3> DEFINE o == joiner[j]
      <3>1. o \in Joiner /\ (o.step \in {"begun", "locking"} => o.at \in 0..LastDay)
        BY <2>0 DEF Types, DatesOK
      <3> HIDE DEF o
      <3>2. o \in [step : {"idle", "done"}] \union [step : {"begun"}, at : 0..LastDay] \union
                   [step : {"locking"}, at : 0..LastDay, found : SUBSET InvitationIds]
        BY <3>1 DEF Joiner
      <3> QED
        BY <3>2 DEF o
    <2>3. ASSUME NEW m \in MailJobs
          PROVE  mailJob[m] \in [step : {"none", "gone"}] \union
                   [step : {"queued", "sending", "sent", "failed"}, about : InvitationIds, attempts : 0..(MailAttempts - 1)]
      <3> DEFINE o == mailJob[m]
      <3>1. o \in Job /\ (o.step \in {"queued", "sending", "sent", "failed"} => o.attempts \in 0..(MailAttempts - 1))
        BY <2>0 DEF Types, DatesOK
      <3> HIDE DEF o
      <3>2. o \in [step : {"none", "gone"}] \union
                   [step : {"queued", "sending", "sent", "failed"}, about : InvitationIds, attempts : 0..(MailAttempts - 1)]
        BY <3>1 DEF Job
      <3> QED
        BY <3>2 DEF o
    <2> QED
      BY <2>0, <2>1, <2>2, <2>3 DEF InvitationsTypeOK, Types, Panel, DatesOK
  <1> QED
    BY <1>1, <1>2, DatesInit, IInvHolds, PTL

\* Invitations, requests, sign-ins and jobs are what the type says; no job has more attempts than are
\* allowed, and an invitation ends within its time to live.
THEOREM InvitationsTypeCorrect == InvitationsSpec => []InvitationsTypeOK
  BY InvitationsTypesHold, PTL DEF InvitationsSpec

-----------------------------------------------------------------------------
(* The components side by side: what each is shown to keep, all of them keep. *)

\* A behaviour of all is one of each component.
LEMMA EachIsThere ==
    ApiSpec => /\ SeriesMetaSpec /\ SourcesSpec /\ CollectionsSpec /\ CredentialsSpec /\ SessionsSpec
               /\ RateLimitsSpec /\ IdpKeysSpec /\ ChartsSpec /\ PagesSpec /\ AuthzSpec
               /\ InvitationsInit /\ [][InvitationsNext]_invitationVars
  <1>0. ApiInit => /\ SeriesMetaInit /\ SourcesInit /\ CollectionsInit /\ CredentialsInit /\ SessionsInit
                   /\ RateLimitsInit /\ IdpKeysInit /\ ChartsInit /\ PagesInit /\ AuthzInit /\ InvitationsInit
    BY DEF ApiInit
  <1>1. [ApiNext]_apiVars => [SeriesMetaNext]_metaVars
    BY DEF ApiNext, apiVars, metaVars
  <1>2. [ApiNext]_apiVars => [SourcesNext]_sourceVars
    BY DEF ApiNext, apiVars, sourceVars
  <1>3. [ApiNext]_apiVars => [CollectionsNext]_setVars
    BY DEF ApiNext, apiVars, setVars
  <1>4. [ApiNext]_apiVars => [CredentialsNext]_secretVars
    BY DEF ApiNext, apiVars, secretVars
  <1>5. [ApiNext]_apiVars => [SessionsNext]_sessionVars
    BY DEF ApiNext, apiVars, sessionVars
  <1>6. [ApiNext]_apiVars => [RateLimitsNext]_limitVars
    BY DEF ApiNext, apiVars, limitVars
  <1>7. [ApiNext]_apiVars => [IdpKeysNext]_keyVars
    BY DEF ApiNext, apiVars, keyVars
  <1>8. [ApiNext]_apiVars => [ChartsNext]_chartVars
    BY DEF ApiNext, apiVars, chartVars
  <1>9. [ApiNext]_apiVars => [PagesNext]_pageVars
    BY DEF ApiNext, apiVars, pageVars
  <1>10. [ApiNext]_apiVars => [AuthzNext]_authzVars
    BY DEF ApiNext, apiVars, authzVars
  <1>11. [ApiNext]_apiVars => [InvitationsNext]_invitationVars
    BY DEF ApiNext, apiVars, invitationVars
  <1> QED
    BY <1>0, <1>1, <1>2, <1>3, <1>4, <1>5, <1>6, <1>7, <1>8, <1>9, <1>10, <1>11, PTL
       DEF ApiSpec, SeriesMetaSpec, SourcesSpec, CollectionsSpec, CredentialsSpec, SessionsSpec, RateLimitsSpec, IdpKeysSpec,
           ChartsSpec, PagesSpec, AuthzSpec

\* The type invariants of all components hold together.
THEOREM ApiTypeCorrect == ApiSpec => []ApiTypeOK
  <1>1. MetaIInv => SeriesMetaTypeOK
    BY DEF MetaIInv
  <1>2. SessionsTypeOK /\ RateLimitsTypeOK /\ IdpKeysTypeOK /\ CollectionsTypeOK /\ CredentialsTypeOK
        /\ SourcesTypeOK /\ SeriesMetaTypeOK /\ ChartsTypeOK /\ PagesTypeOK /\ AuthzTypeOK
        /\ InvitationsTypeOK => ApiTypeOK
    BY DEF ApiTypeOK
  <1> QED
    BY <1>1, <1>2, EachIsThere, SessionsTypeCorrect, LimitsTypeCorrect, KeysTypeCorrect, SetsTypeCorrect,
       CredentialsTypeCorrect, SourcesTypeCorrect, MetaIInvHolds, ChartsTypeCorrect, PagesTypeCorrect, AuthzTypeCorrect,
       InvitationsTypesHold, PTL

\* The tables stay valid, whatever requests, runs and imports overlap (groups.py:69-142,
\* sources.py:309-345, migration 0006, series.py:77-106).
THEOREM TablesTheorem == ApiSpec => []TablesStayValid
  <1>1. MembersFitKind /\ GroupNamesDiffer /\ CreatedOnce /\ JoinedOnce /\ LimitsLeaveRoom => TablesStayValid
    BY DEF TablesStayValid
  <1>2. InvitationsIInv => JoinedOnce
    BY DEF InvitationsIInv
  <1> QED
    BY <1>1, <1>2, EachIsThere, SetsTheorem, CreatedTheorem, IInvHolds, LimitsRoomTheorem, PTL

\* Writers that overlap change what they are about and nothing another has set meanwhile
\* (sources.py:151-197, 309-345, series.py:174-225, source_metadata.py:84-120,
\* secrets/__init__.py:175-189).
THEOREM WritersTheorem == ApiSpec => WritersKeepApart
  BY EachIsThere, SourcesTheorem, ImportsTheorem, RotateTheorem, PTL DEF WritersKeepApart
=============================================================================
