---------------------------- MODULE ReadsProofs ----------------------------
(***************************************************************************)
(* Proofs about reading: that one fetch call of a connector gives out each *)
(* value of its window once, for any page size, tick, archive and number   *)
(* of points; that a read of the cache shows nothing older than what was   *)
(* there when it was called, for any lengths, writers and readers; that a  *)
(* scan of a folder that leaves nothing for later has all it listed in the *)
(* cache, for any folder, cap and number of deaths; and that a search of   *)
(* an address space which no bound cuts finds all that matches within its  *)
(* depth, for any graph, batch and bounds.                                 *)
(***************************************************************************)
EXTENDS HistoryReads, Cache, Ingest, Browse, FiniteSetTheorems, SequenceTheorems, WellFoundedInduction, TLAPS

-----------------------------------------------------------------------------
(* Numbers *)

\* A set of natural numbers that is not empty has a least one.
LEMMA LeastNat ==
    ASSUME NEW S \in SUBSET Nat, S # {}
    PROVE  \E x \in S : \A y \in S : x <= y
<1>1. PICK x \in S : \A y \in S : ~(<<y, x>> \in OpToRel(<, Nat))
  BY NatLessThanWellFounded, WFMin
<1>2. \A y \in S : y < x => <<y, x>> \in OpToRel(<, Nat)
  BY DEF OpToRel
<1>3. \A y \in S : ~(y < x)
  BY <1>1, <1>2
<1> QED
  BY <1>3

\* The first n values of h are in order.
IsOrdered(h, n) == \A i, j \in 1..n : i <= j => h[i] <= h[j]

\* Ordered values are below a bound up to some place, and not after it.
LEMMA Threshold ==
    ASSUME NEW n \in Nat, NEW h, \A i \in 1..n : h[i] \in Int, IsOrdered(h, n), NEW v \in Int
    PROVE  \E b \in 0..n : \A i \in 1..n : i <= b <=> h[i] < v
<1> DEFINE late == {i \in 1..n : v <= h[i]}
<1>1. CASE late = {}
  <2> n \in 0..n /\ \A i \in 1..n : i <= n <=> h[i] < v
    BY <1>1
  <2> QED
    OBVIOUS
<1>2. CASE late # {}
  <2>1. PICK x \in late : \A y \in late : x <= y
    <3> late \in SUBSET Nat
      OBVIOUS
    <3> HIDE DEF late
    <3> QED
      BY <1>2, LeastNat
  <2>2. x - 1 \in 0..n /\ \A i \in 1..n : i <= x - 1 <=> h[i] < v
    BY <2>1 DEF IsOrdered
  <2> QED
    BY <2>2
<1> QED
  BY <1>1, <1>2

\* How many numbers there are after a, up to e.
LEMMA IntervalSize ==
    ASSUME NEW a \in Int, NEW e \in Int, a <= e
    PROVE  IsFiniteSet((a + 1)..e) /\ Cardinality((a + 1)..e) = e - a
<1>1. \A l \in Int : l <= e + 1 => IsFiniteSet(l..e) /\ Cardinality(l..e) = e - l + 1
  BY FS_Interval
<1>2. a + 1 \in Int /\ a + 1 <= e + 1 /\ e - (a + 1) + 1 = e - a
  OBVIOUS
<1> QED
  BY <1>1, <1>2

\* The first k numbers of an interval are an interval.
LEMMA FirstOf ==
    ASSUME NEW a \in Int, NEW m \in Int, NEW k \in Nat
    PROVE  {i \in (a + 1)..m : Cardinality({j \in (a + 1)..m : j < i}) < k}
             = (a + 1)..(IF m <= a + k THEN m ELSE a + k)
<1>1. ASSUME NEW i \in (a + 1)..m
      PROVE  Cardinality({j \in (a + 1)..m : j < i}) = i - a - 1
  <2>1. {j \in (a + 1)..m : j < i} = (a + 1)..(i - 1)
    OBVIOUS
  <2>2. i - 1 \in Int /\ a <= i - 1
    OBVIOUS
  <2>3. Cardinality((a + 1)..(i - 1)) = (i - 1) - a
    BY <2>2, IntervalSize
  <2>4. (i - 1) - a = i - a - 1
    OBVIOUS
  <2> QED
    BY <2>1, <2>3, <2>4
<1>2. {i \in (a + 1)..m : Cardinality({j \in (a + 1)..m : j < i}) < k} = {i \in (a + 1)..m : i - a - 1 < k}
  BY <1>1
<1>3. {i \in (a + 1)..m : i - a - 1 < k} = (a + 1)..(IF m <= a + k THEN m ELSE a + k)
  OBVIOUS
<1> QED
  BY <1>2, <1>3, Zenon

-----------------------------------------------------------------------------
(* The history of several points, page by page *)

\* Rounding down, and up, to a tick (format_time, from_ns): up is a whole tick.
LEMMA DownFacts ==
    ASSUME NEW t \in Int
    PROVE  /\ Down(t) \in Int /\ Down(t) <= t
           /\ Up(t) \in Int /\ t <= Up(t) /\ Down(Up(t)) = Up(t)
<1>1. Down(t) \in Int /\ Down(t) <= t
  BY HistoryAssumption, SMTT(30) DEF Down
<1>2. Up(t) \in Int /\ t <= Up(t)
  BY HistoryAssumption, SMTT(30) DEF Down, Up
<1>3. Down(Up(t)) = Up(t)
  <2> DEFINE k == - ((- t) \div SourceTick)
  <2>1. k \in Int /\ Up(t) = SourceTick * k
    BY HistoryAssumption, SMTT(30) DEF Down, Up
  <2> HIDE DEF k
  <2>2. (SourceTick * k) \div SourceTick = k
    BY <2>1, HistoryAssumption, SMTT(30)
  <2> QED
    BY <2>1, <2>2 DEF Down
<1> QED
  BY <1>1, <1>2, <1>3

\* Rounding keeps the order.
LEMMA DownMonotone ==
    ASSUME NEW s \in Int, NEW t \in Int, s <= t
    PROVE  Down(s) <= Down(t)
  BY HistoryAssumption, SMTT(30) DEF Down

\* A whole tick stays what it is.
LEMMA DownWhole ==
    ASSUME NEW t \in Int, t % SourceTick = 0
    PROVE  Down(t) = t
  BY HistoryAssumption, SMTT(30) DEF Down

\* A page of recorded values is an interval of the archive, from the first value at the cursor or
\* after it, and if it is not full nothing of the window is left behind it.
LEMMA PageShape ==
    ASSUME HistoryTypeOK, NEW p \in HistoryPoints
    PROVE  \E a, e \in 0..Len(archive[p]) :
             /\ a <= e /\ e - a <= PageSize /\ RecordedPage(p) = (a + 1)..e
             /\ \A i \in Held(p) : i <= a <=> archive[p][i] < Down(cursor[p].at)
             /\ e - a < PageSize => \A i \in Held(p) : e < i => Up(asked.end) < archive[p][i]
<1> DEFINE h == archive[p]
           n == Len(archive[p])
           from == Down(cursor[p].at)
           upto == Up(asked.end)
           matching == {i \in 1..n : h[i] \in from..upto}
<1>1. n \in Nat /\ (\A i \in 1..n : h[i] \in Int) /\ IsOrdered(h, n)
  BY DEF HistoryTypeOK, IsOrdered, Held
<1>2. asked.end \in Int /\ cursor[p].at \in Int
  BY HistoryAssumption DEF HistoryTypeOK
<1>3. from \in Int /\ upto \in Int
  BY <1>2, DownFacts
<1>4. RecordedPage(p) = {i \in matching : Cardinality({j \in matching : j < i}) < PageSize}
  BY DEF RecordedPage, Held
<1> PageSize \in Nat \ {0}
  BY HistoryAssumption
<1> HIDE DEF from, upto, h, n
<1>5. PICK a \in 0..n : \A i \in 1..n : i <= a <=> h[i] < from
  BY <1>1, <1>3, Threshold
<1>6. PICK m \in 0..n : \A i \in 1..n : i <= m <=> h[i] < upto + 1
  <2> upto + 1 \in Int
    BY <1>3
  <2> QED
    BY <1>1, Threshold
<1>7. matching = (a + 1)..m
  BY <1>1, <1>3, <1>5, <1>6
<1> DEFINE e == IF m < a THEN a ELSE IF m <= a + PageSize THEN m ELSE a + PageSize
<1>8. RecordedPage(p) = (a + 1)..e
  <2>1. RecordedPage(p) = (a + 1)..(IF m <= a + PageSize THEN m ELSE a + PageSize)
    <3> HIDE DEF matching
    <3> RecordedPage(p) = {i \in (a + 1)..m : Cardinality({j \in (a + 1)..m : j < i}) < PageSize}
      BY <1>4, <1>7
    <3> a \in Int /\ m \in Int
      BY <1>1
    <3> QED
      BY FirstOf
  <2> QED
    BY <2>1
<1>9. e - a < PageSize => \A i \in 1..n : e < i => upto < h[i]
  BY <1>1, <1>3, <1>6
<1>10. a <= e /\ e - a <= PageSize /\ e \in 0..n
  BY <1>1
<1> HIDE DEF e
<1> QED
  BY <1>5, <1>8, <1>9, <1>10 DEF h, n, from, upto, Held

\* The cursor of a PI point whose first b values are done stands at the b-th, and counts how many
\* of the b have its stamp (values.py:118-138).
Paging(p, b) ==
    /\ cursor[p].seen \in 1..b /\ cursor[p].seen < PageSize
    /\ cursor[p].at % SourceTick = 0 /\ cursor[p].at < asked.end
    /\ \A i \in Held(p) : /\ i <= b - cursor[p].seen <=> archive[p][i] < cursor[p].at
                          /\ i <= b => archive[p][i] <= cursor[p].at

\* A point for which no page was read.
Fresh(p, b) == b = 0 /\ cursor[p].at = asked.start /\ cursor[p].seen = 0

\* What has been given out when the first b values of the archive are done.
UpTo(p, b) == [i \in 1..MostHeld |-> IF i <= b /\ InAsked(p, i) THEN 1 ELSE 0]

\* What the type invariant says of one point.
LEMMA PointFacts ==
    ASSUME HistoryTypeOK, NEW p \in HistoryPoints
    PROVE  /\ Len(archive[p]) \in Nat /\ Len(archive[p]) <= MostHeld /\ MostHeld \in Nat
           /\ \A i \in Held(p) : archive[p][i] \in Int
           /\ IsOrdered(archive[p], Len(archive[p]))
           /\ asked.start \in Int /\ asked.end \in Int /\ asked.start < asked.end
           /\ cursor[p].at \in Int /\ cursor[p].seen \in Nat
           /\ given[p] \in [1..MostHeld -> Nat] /\ PageSize \in Nat \ {0}
  BY HistoryAssumption DEF HistoryTypeOK, IsOrdered, Held

\* PI's stamps are whole ticks.
LEMMA PiStamps ==
    ASSUME HistoryTypeOK, NEW p \in HistoryPoints, protocol = "pi"
    PROVE  \A i \in Held(p) : StampOf(p, i) = archive[p][i]
  BY PointFacts, DownWhole DEF StampOf, HistoryTypeOK

\* The end of a page is the stamp of its last value.
LEMMA PageEndIs ==
    ASSUME HistoryTypeOK, NEW p \in HistoryPoints, protocol = "pi",
           NEW a \in 0..Len(archive[p]), NEW e \in 0..Len(archive[p]), a < e, RecordedPage(p) = (a + 1)..e
    PROVE  PageEnd(p) = archive[p][e] /\ AtPageEnd(p) = {i \in (a + 1)..e : archive[p][i] = archive[p][e]}
<1> DEFINE S == {StampOf(p, i) : i \in RecordedPage(p)}
<1>1. Len(archive[p]) \in Nat /\ (a + 1)..e \subseteq Held(p) /\ e \in (a + 1)..e
  BY PointFacts DEF Held
<1>2. \A i \in (a + 1)..e : StampOf(p, i) = archive[p][i] /\ archive[p][i] \in Int /\ archive[p][i] <= archive[p][e]
  BY <1>1, PiStamps, PointFacts DEF IsOrdered, Held
<1>3. archive[p][e] \in S /\ \A y \in S : y \in Int /\ archive[p][e] >= y
  BY <1>1, <1>2
<1>4. PageEnd(p) \in S /\ \A y \in S : PageEnd(p) >= y
  <2> HIDE DEF S
  <2>1. PageEnd(p) = CHOOSE x \in S : \A y \in S : x >= y
    BY DEF PageEnd, Max, S
  <2> QED
    BY <1>3, <2>1
<1>5. PageEnd(p) = archive[p][e]
  <2> HIDE DEF S
  <2> QED
    BY <1>2, <1>3, <1>4
<1> QED
  BY <1>2, <1>5 DEF AtPageEnd

\* What a page repeats, and all of it, is what is skipped by count.
LEMMA SkippedIs ==
    ASSUME HistoryTypeOK, NEW p \in HistoryPoints, protocol = "pi", NEW b \in 0..Len(archive[p]), Paging(p, b),
           NEW a \in 0..Len(archive[p]), NEW e \in 0..Len(archive[p]),
           a <= e, e - a <= PageSize, RecordedPage(p) = (a + 1)..e,
           \A i \in Held(p) : i <= a <=> archive[p][i] < Down(cursor[p].at),
           e - a < PageSize => \A i \in Held(p) : e < i => Up(asked.end) < archive[p][i]
    PROVE  b <= e /\ a = b - cursor[p].seen /\ Skipped(p) = (a + 1)..b
<1> DEFINE at == cursor[p].at
           atEnd == cursor[p].seen
           h == archive[p]
           n == Len(archive[p])
<1>1. /\ n \in Nat /\ (\A i \in 1..n : h[i] \in Int) /\ IsOrdered(h, n)
      /\ at \in Int /\ atEnd \in Nat /\ PageSize \in Nat /\ asked.end \in Int
  BY PointFacts DEF Held
<1>2. /\ atEnd \in 1..b /\ atEnd < PageSize /\ at < asked.end /\ Down(at) = at
      /\ \A i \in 1..n : (i <= b - atEnd <=> h[i] < at) /\ (i <= b => h[i] <= at)
  <2> Down(at) = at
    BY <1>1, DownWhole DEF Paging
  <2> QED
    BY DEF Paging, Held
<1>3. at < Up(asked.end) /\ Up(asked.end) \in Int
  <2>1. asked.end <= Up(asked.end) /\ Up(asked.end) \in Int
    BY <1>1, DownFacts
  <2> QED
    BY <2>1, <1>1, <1>2
<1>4. /\ \A i \in 1..n : i <= a <=> h[i] < at
      /\ e - a < PageSize => \A i \in 1..n : e < i => Up(asked.end) < h[i]
  BY <1>2 DEF Held
<1>5. {i \in RecordedPage(p) : StampOf(p, i) = at} = {i \in (a + 1)..e : h[i] = at}
  <2>1. \A i \in (a + 1)..e : StampOf(p, i) = h[i]
    BY <1>1, PiStamps DEF Held
  <2> QED
    BY <2>1
<1> HIDE DEF at, atEnd, h, n
<1>6. a = b - atEnd
  <2>1. b - atEnd \in 0..n
    BY <1>1, <1>2 DEF n
  <2>2. \A i \in 1..n : i <= a <=> i <= b - atEnd
    BY <1>2, <1>4
  <2>3. a \in 0..n /\ n \in Nat
    BY <1>1 DEF n
  <2>4. ~(a < b - atEnd)
    <3> SUFFICES ASSUME a < b - atEnd PROVE FALSE
      OBVIOUS
    <3> b - atEnd \in 1..n
      BY <2>1, <2>3
    <3> QED
      BY <2>1, <2>2, <2>3
  <2>5. ~(b - atEnd < a)
    <3> SUFFICES ASSUME b - atEnd < a PROVE FALSE
      OBVIOUS
    <3> a \in 1..n
      BY <2>1, <2>3
    <3> QED
      BY <2>1, <2>2, <2>3
  <2> QED
    BY <2>1, <2>3, <2>4, <2>5
<1>7. b <= e
  <2>1. CASE e - a = PageSize
    BY <2>1, <1>1, <1>2, <1>6 DEF n
  <2>2. CASE e - a < PageSize
    <3> SUFFICES ASSUME e < b PROVE FALSE
      BY DEF n
    <3>1. b \in 1..n /\ e < b
      BY <1>1 DEF n
    <3>2. Up(asked.end) < h[b] /\ h[b] <= at
      BY <3>1, <2>2, <1>2, <1>4
    <3> QED
      BY <3>1, <3>2, <1>1, <1>3
  <2> QED
    BY <2>1, <2>2, <1>1 DEF n
<1>8. PICK f \in 0..n : \A i \in 1..n : i <= f <=> h[i] < at + 1
  <2> at + 1 \in Int
    BY <1>1
  <2> QED
    BY <1>1, Threshold
<1>9. b <= f
  <2> SUFFICES ASSUME f < b PROVE FALSE
    BY <1>1 DEF n
  <2> b \in 1..n
    BY <1>1 DEF n
  <2> QED
    BY <1>1, <1>2, <1>8
<1> DEFINE m == IF f <= e THEN f ELSE e
<1>10. {i \in (a + 1)..e : h[i] = at} = (a + 1)..m
  <2>1. \A i \in (a + 1)..e : i \in 1..n /\ (h[i] = at <=> i <= f)
    BY <1>1, <1>4, <1>8 DEF n
  <2> QED
    BY <2>1, <1>1 DEF n
<1>11. m \in Int /\ b <= m
  BY <1>1, <1>7, <1>9 DEF n
<1>12. Skipped(p) = {i \in (a + 1)..m : Cardinality({j \in (a + 1)..m : j < i}) < atEnd}
  <2> HIDE DEF m
  <2> QED
    BY <1>5, <1>10 DEF Skipped, at, atEnd
<1> HIDE DEF m
<1>13. Skipped(p) = (a + 1)..(IF m <= a + atEnd THEN m ELSE a + atEnd)
  <2>1. a \in Int /\ m \in Int /\ atEnd \in Nat
    BY <1>1, <1>11 DEF n
  <2>2. {i \in (a + 1)..m : Cardinality({j \in (a + 1)..m : j < i}) < atEnd}
          = (a + 1)..(IF m <= a + atEnd THEN m ELSE a + atEnd)
    BY ONLY <2>1, FirstOf
  <2> QED
    BY <1>12, <2>2, Zenon
<1>14. (IF m <= a + atEnd THEN m ELSE a + atEnd) = b
  BY <1>6, <1>11, <1>1 DEF n
<1> QED
  BY <1>6, <1>7, <1>13, <1>14 DEF atEnd

\* A page gives out what is new in it and belongs to the window.
LEMMA PageRowsAre ==
    ASSUME HistoryTypeOK, NEW p \in HistoryPoints, protocol = "pi", NEW b \in 0..Len(archive[p]),
           Fresh(p, b) \/ Paging(p, b), given[p] = UpTo(p, b),
           NEW a \in 0..Len(archive[p]), NEW e \in 0..Len(archive[p]),
           a <= e, e - a <= PageSize, RecordedPage(p) = (a + 1)..e,
           \A i \in Held(p) : i <= a <=> archive[p][i] < Down(cursor[p].at),
           e - a < PageSize => \A i \in Held(p) : e < i => Up(asked.end) < archive[p][i]
    PROVE  Give(p, PageRows(p)) = UpTo(p, e)
<1>1. Len(archive[p]) \in Nat /\ Len(archive[p]) <= MostHeld /\ MostHeld \in Nat
  BY PointFacts
<1>2. \A i \in 1..MostHeld : given[p][i] = IF i <= b /\ InAsked(p, i) THEN 1 ELSE 0
  BY DEF UpTo
<1>3. CASE Fresh(p, b)
  <2>1. Skipped(p) = {}
    <3>1. \A j \in Held(p) : Cardinality({k \in {i \in RecordedPage(p) : StampOf(p, i) = cursor[p].at} : k < j}) \in Nat
      <4> SUFFICES ASSUME NEW j \in Held(p)
                   PROVE  Cardinality({k \in {i \in RecordedPage(p) : StampOf(p, i) = cursor[p].at} : k < j}) \in Nat
        OBVIOUS
      <4>1. IsFiniteSet((a + 1)..e)
        <5> a \in Int /\ e \in Int
          BY <1>1
        <5> QED
          BY IntervalSize
      <4>2. {k \in {i \in RecordedPage(p) : StampOf(p, i) = cursor[p].at} : k < j} \in SUBSET ((a + 1)..e)
        OBVIOUS
      <4> QED
        BY <4>1, <4>2, FS_Subset, FS_CardinalityType
    <3>2. RecordedPage(p) \subseteq Held(p)
      BY DEF RecordedPage
    <3>3. cursor[p].seen = 0
      BY <1>3 DEF Fresh
    <3> QED
      BY <3>1, <3>2, <3>3 DEF Skipped
  <2>2. \A i \in 1..a : ~InAsked(p, i)
    <3> SUFFICES ASSUME NEW i \in 1..a, InAsked(p, i) PROVE FALSE
      OBVIOUS
    <3>1. i \in Held(p) /\ archive[p][i] \in Int /\ asked.start \in Int
      BY <1>1, PointFacts DEF Held
    <3>2. archive[p][i] < Down(asked.start)
      BY <1>1, <1>3, <3>1 DEF Fresh
    <3>3. Down(archive[p][i]) \in Int /\ Down(archive[p][i]) <= archive[p][i] /\ Down(asked.start) \in Int /\ Down(asked.start) <= asked.start
      BY <3>1, DownFacts
    <3> QED
      BY <3>1, <3>2, <3>3 DEF InAsked, StampOf
  <2>3. \A i \in 1..MostHeld : i \in PageRows(p) <=> (a < i /\ i <= e /\ InAsked(p, i))
    BY <1>1, <2>1 DEF PageRows
  <2>4. \A i \in 1..MostHeld : given[p][i] = 0
    BY <1>2, <1>3 DEF Fresh
  <2>5. \A i \in 1..MostHeld : i \in PageRows(p) <=> (i <= e /\ InAsked(p, i))
    BY <1>1, <2>2, <2>3
  <2> QED
    BY <2>4, <2>5 DEF Give, UpTo
<1>4. CASE Paging(p, b)
  <2>1. b <= e /\ a <= b /\ Skipped(p) = (a + 1)..b
    <3>1. b <= e /\ a = b - cursor[p].seen /\ Skipped(p) = (a + 1)..b
      BY <1>4, SkippedIs
    <3>2. cursor[p].seen \in Nat
      BY PointFacts
    <3> QED
      BY <3>1, <3>2, <1>1
  <2>2. \A i \in 1..MostHeld : i \in PageRows(p) <=> (b < i /\ i <= e /\ InAsked(p, i))
    BY <1>1, <2>1 DEF PageRows
  <2>3. \A i \in 1..MostHeld : (given[p][i] + IF i \in PageRows(p) THEN 1 ELSE 0)
                                 = IF i <= e /\ InAsked(p, i) THEN 1 ELSE 0
    BY <1>1, <1>2, <2>1, <2>2
  <2> QED
    BY <2>3 DEF Give, UpTo
<1> QED
  BY <1>3, <1>4

\* After a page that is taken for the last one nothing of the window is left.
LEMMA LastPageIsLast ==
    ASSUME HistoryTypeOK, NEW p \in HistoryPoints, protocol = "pi", IsLastPage(p),
           NEW a \in 0..Len(archive[p]), NEW e \in 0..Len(archive[p]),
           a <= e, e - a <= PageSize, RecordedPage(p) = (a + 1)..e,
           e - a < PageSize => \A i \in Held(p) : e < i => Up(asked.end) < archive[p][i]
    PROVE  \A i \in Held(p) : InAsked(p, i) => i <= e
<1> SUFFICES ASSUME NEW i \in Held(p), InAsked(p, i), e < i PROVE FALSE
  BY PointFacts DEF Held
<1>1. /\ Len(archive[p]) \in Nat /\ asked.end \in Int /\ archive[p][i] \in Int /\ PageSize \in Nat \ {0}
      /\ IsOrdered(archive[p], Len(archive[p]))
  BY PointFacts
<1>2. archive[p][i] < asked.end
  BY PiStamps DEF InAsked
<1>3. asked.end <= Up(asked.end) /\ Up(asked.end) \in Int
  BY <1>1, DownFacts
<1>4. e - a = PageSize
  BY <1>1, <1>2, <1>3
<1>5. Cardinality(RecordedPage(p)) = e - a
  <2> a \in Int /\ e \in Int
    BY <1>1
  <2> QED
    BY IntervalSize
<1>6. PageEnd(p) = archive[p][e]
  <2> a < e
    BY <1>1, <1>4
  <2> QED
    BY PageEndIs
<1>7. PageEnd(p) >= asked.end
  BY <1>1, <1>4, <1>5 DEF IsLastPage
<1>8. e \in Held(p) /\ archive[p][e] <= archive[p][i] /\ archive[p][e] \in Int
  <2>1. e \in Held(p)
    BY <1>1, <1>4 DEF Held
  <2>2. archive[p][e] \in Int
    BY <2>1, PointFacts
  <2>3. archive[p][e] <= archive[p][i]
    BY <1>1, <2>1 DEF IsOrdered, Held
  <2> QED
    BY <2>1, <2>2, <2>3
<1> QED
  BY <1>1, <1>2, <1>6, <1>7, <1>8

\* Where the next page begins, when this one is full and has more than one stamp.
LEMMA NextPageGoesOn ==
    ASSUME HistoryTypeOK, NEW p \in HistoryPoints, protocol = "pi", ~IsLastPage(p), ~IsStuck(p),
           NEW a \in 0..Len(archive[p]), NEW e \in 0..Len(archive[p]),
           a <= e, e - a <= PageSize, RecordedPage(p) = (a + 1)..e
    PROVE  /\ NextPage(p).at = archive[p][e] /\ NextPage(p).at < asked.end /\ NextPage(p).at % SourceTick = 0
           /\ NextPage(p).seen \in 1..e /\ NextPage(p).seen < PageSize
           /\ \A i \in Held(p) : /\ i <= e - NextPage(p).seen <=> archive[p][i] < NextPage(p).at
                                 /\ i <= e => archive[p][i] <= NextPage(p).at
<1> DEFINE h == archive[p]
           n == Len(archive[p])
<1>1. /\ n \in Nat /\ (\A i \in 1..n : h[i] \in Int) /\ IsOrdered(h, n)
      /\ PageSize \in Nat \ {0} /\ asked.end \in Int
  BY PointFacts DEF Held
<1>2. Cardinality(RecordedPage(p)) = e - a
  <2> a \in Int /\ e \in Int
    BY <1>1
  <2> QED
    BY IntervalSize
<1>3. e - a = PageSize /\ a < e /\ e \in 1..n
  BY <1>1, <1>2 DEF IsLastPage
<1>4. PageEnd(p) = h[e] /\ AtPageEnd(p) = {i \in (a + 1)..e : h[i] = h[e]}
  BY <1>3, PageEndIs
<1>5. h[e] < asked.end /\ h[e] \in Int
  BY <1>1, <1>3, <1>4 DEF IsLastPage
<1>6. AtPageEnd(p) # (a + 1)..e
  BY <1>2, <1>3 DEF IsStuck
<1>7. h[e] % SourceTick = 0
  BY <1>3 DEF HistoryTypeOK, Held
<1>8. NextPage(p).at = h[e] /\ NextPage(p).seen = Cardinality(AtPageEnd(p))
  BY <1>4 DEF NextPage
<1> HIDE DEF h
<1>9. PICK d \in 0..n : \A i \in 1..n : i <= d <=> h[i] < h[e]
  BY <1>1, <1>5, Threshold
<1>10. d < e
  BY <1>3, <1>5, <1>9
<1>11. \A i \in (a + 1)..e : i \in 1..n /\ (h[i] = h[e] <=> d < i)
  BY <1>1, <1>3, <1>9 DEF IsOrdered
<1>12. a < d
  BY <1>1, <1>4, <1>6, <1>11
<1>13. AtPageEnd(p) = (d + 1)..e
  BY <1>1, <1>4, <1>11, <1>12
<1>14. Cardinality(AtPageEnd(p)) = e - d
  <2> d \in Int /\ e \in Int /\ d <= e
    BY <1>1, <1>10
  <2> QED
    BY <1>13, IntervalSize
<1>15. e - d \in 1..e /\ e - d < PageSize /\ e - (e - d) = d
  BY <1>1, <1>3, <1>10, <1>12
<1>16. \A i \in 1..n : i <= e => h[i] <= h[e]
  BY <1>1, <1>3 DEF IsOrdered
<1> QED
  BY <1>5, <1>7, <1>8, <1>9, <1>14, <1>15, <1>16 DEF h, Held

\* What the server has left of the window, an interval.
LEMMA LeftIs ==
    ASSUME HistoryTypeOK, NEW p \in HistoryPoints
    PROVE  \E m \in 0..Len(archive[p]) :
             /\ \A i \in Held(p) : i <= m <=> archive[p][i] < Up(asked.end)
             /\ Left(p) = IF place[p] < m THEN m - place[p] ELSE 0
<1>1. /\ Len(archive[p]) \in Nat /\ (\A i \in Held(p) : archive[p][i] \in Int)
      /\ IsOrdered(archive[p], Len(archive[p])) /\ asked.end \in Int
      /\ place[p] \in Nat /\ place[p] <= Len(archive[p])
  BY PointFacts DEF HistoryTypeOK
<1>2. Up(asked.end) \in Int
  BY <1>1, DownFacts
<1>3. PICK m \in 0..Len(archive[p]) : \A i \in 1..Len(archive[p]) : i <= m <=> archive[p][i] < Up(asked.end)
  BY <1>1, <1>2, Threshold DEF Held
<1>4. {i \in Held(p) : i > place[p] /\ archive[p][i] < Up(asked.end)} = (place[p] + 1)..m
  BY <1>1, <1>3 DEF Held
<1>5. CASE place[p] < m
  <2> place[p] \in Int /\ m \in Int /\ place[p] <= m
    BY <1>1, <1>3, <1>5
  <2> Cardinality((place[p] + 1)..m) = m - place[p]
    BY IntervalSize
  <2> QED
    BY <1>3, <1>4, <1>5 DEF Left, Held
<1>6. CASE ~(place[p] < m)
  <2> (place[p] + 1)..m = {}
    BY <1>1, <1>6
  <2> QED
    BY <1>3, <1>4, <1>6, FS_EmptySet DEF Left, Held
<1> QED
  BY <1>5, <1>6

\* Giving out values counts them.
LEMMA GiveType ==
    ASSUME HistoryTypeOK, NEW p \in HistoryPoints, NEW values
    PROVE  Give(p, values) \in [1..MostHeld -> Nat]
  BY PointFacts DEF Give

\* A value that arrives keeps the archives in their order.
LEMMA ArriveType ==
    ASSUME HistoryTypeOK, NEW p \in HistoryPoints, Arrive(p)
    PROVE  HistoryTypeOK'
<1>1. PICK t \in Down(asked.start)..LastHeld :
        /\ \A i \in Held(p) : archive[p][i] <= t
        /\ protocol = "pi" => t % SourceTick = 0
        /\ archive' = [archive EXCEPT ![p] = Append(@, t)]
  BY DEF Arrive
<1>2. t \in Int
  <2> asked.start \in Int /\ LastHeld \in Int
    BY PointFacts, HistoryAssumption
  <2> Down(asked.start) \in Int
    BY DownFacts
  <2> QED
    OBVIOUS
<1>3. archive \in [HistoryPoints -> Seq(Int)] /\ MostHeld \in Nat
  BY HistoryAssumption DEF HistoryTypeOK
<1>4. archive' \in [HistoryPoints -> Seq(Int)]
  BY <1>1, <1>2, <1>3
<1>5. ASSUME NEW q \in HistoryPoints
      PROVE  /\ Len(archive'[q]) <= MostHeld /\ before'[q] <= Len(archive'[q]) /\ place'[q] <= Len(archive'[q])
             /\ \A i, j \in 1..Len(archive'[q]) : i <= j => archive'[q][i] <= archive'[q][j]
             /\ protocol' = "pi" => \A i \in 1..Len(archive'[q]) : archive'[q][i] % SourceTick = 0
  <2>1. CASE q = p
    <3>1. archive[p] \in Seq(Int) /\ archive'[p] = Append(archive[p], t) /\ Len(archive[p]) < MostHeld
      BY <1>1, <1>3 DEF Arrive
    <3>2. /\ Len(archive'[p]) = Len(archive[p]) + 1 /\ archive'[p][Len(archive[p]) + 1] = t
          /\ \A i \in 1..Len(archive[p]) : archive'[p][i] = archive[p][i]
          /\ Len(archive[p]) \in Nat
      BY <3>1, <1>2
    <3>3. \A i, j \in 1..Len(archive[p]) : i <= j => archive[p][i] <= archive[p][j]
      BY DEF HistoryTypeOK, Held
    <3>4. \A i \in 1..Len(archive'[p]) : i \in 1..Len(archive[p]) \/ i = Len(archive[p]) + 1
      BY <3>2
    <3>5. \A i, j \in 1..Len(archive'[p]) : i <= j => archive'[p][i] <= archive'[p][j]
      BY <3>2, <3>3, <3>4, <1>1, <1>2 DEF Held
    <3>6. protocol' = "pi" => \A i \in 1..Len(archive'[p]) : archive'[p][i] % SourceTick = 0
      <4> protocol' = protocol
        BY DEF Arrive
      <4> protocol = "pi" => \A i \in 1..Len(archive[p]) : archive[p][i] % SourceTick = 0
        BY DEF HistoryTypeOK, Held
      <4> QED
        BY <3>2, <3>4, <1>1
    <3>7. before'[p] = before[p] /\ place'[p] = place[p] /\ before[p] \in Nat /\ place[p] \in Nat
          /\ before[p] <= Len(archive[p]) /\ place[p] <= Len(archive[p])
      BY DEF HistoryTypeOK, Arrive
    <3> QED
      BY <2>1, <3>1, <3>2, <3>5, <3>6, <3>7, <1>3
  <2>2. CASE q # p
    <3> archive'[q] = archive[q]
      BY <2>2, <1>1, <1>3
    <3> QED
      BY DEF HistoryTypeOK, Arrive, Held
  <2> QED
    BY <2>1, <2>2
<1>6. UNCHANGED <<protocol, asked, webIds, call, outcome, cursor, place, before, given>>
  BY DEF Arrive
<1> QED
  BY <1>4, <1>5, <1>6 DEF HistoryTypeOK, Held

\* A page keeps the type invariant.
LEMMA ReadRecordedType ==
    ASSUME HistoryTypeOK, NEW p \in HistoryPoints, ReadRecorded(p)
    PROVE  HistoryTypeOK'
<1>1. UNCHANGED <<protocol, archive, asked, webIds, call, place, before>>
  BY DEF ReadRecorded
<1>2. given' \in [HistoryPoints -> [1..MostHeld -> Nat]]
  <2> Give(p, PageRows(p)) \in [1..MostHeld -> Nat]
    BY GiveType
  <2> QED
    BY DEF ReadRecorded, HistoryTypeOK
<1>3. outcome' \in [HistoryPoints -> {"asked", "reading", "read", "failed"}]
  BY DEF ReadRecorded, HistoryTypeOK
<1>4. cursor' \in [HistoryPoints -> [at : Int, seen : Nat]]
  <2>1. CASE IsLastPage(p)
    BY <2>1 DEF ReadRecorded, HistoryTypeOK
  <2>2. CASE ~IsLastPage(p)
    <3>1. PICK a, e \in 0..Len(archive[p]) : a <= e /\ e - a <= PageSize /\ RecordedPage(p) = (a + 1)..e
      BY PageShape
    <3>2. protocol = "pi" /\ ~IsStuck(p)
      BY DEF ReadRecorded, Current
    <3>3. NextPage(p).at = archive[p][e] /\ NextPage(p).seen \in 1..e
      BY <2>2, <3>1, <3>2, NextPageGoesOn
    <3>4. e \in Held(p) /\ NextPage(p).seen \in Nat
      BY <3>3, PointFacts DEF Held
    <3>5. NextPage(p) \in [at : Int, seen : Nat]
      BY <3>3, <3>4, PointFacts DEF NextPage
    <3>6. cursor' = [cursor EXCEPT ![p] = NextPage(p)]
      BY <2>2 DEF ReadRecorded
    <3> QED
      BY <3>5, <3>6 DEF HistoryTypeOK
  <2> QED
    BY <2>1, <2>2
<1> QED
  BY <1>1, <1>2, <1>3, <1>4 DEF HistoryTypeOK, Held

\* A round of continuation points keeps the type invariant.
LEMMA HistoryReadType ==
    ASSUME HistoryTypeOK, HistoryRead
    PROVE  HistoryTypeOK'
<1>1. PICK bad \in SUBSET Pending, more \in SUBSET Pending, count \in [Pending -> 0..PageSize] :
         /\ \A p \in bad : p \notin more /\ count[p] = 0
         /\ \A p \in Pending \ bad : count[p] <= Left(p) /\ (count[p] < Left(p) => p \in more)
         /\ outcome' = [p \in HistoryPoints |->
              IF p \notin Pending THEN outcome[p]
              ELSE IF p \in bad THEN "failed"
              ELSE IF p \in more THEN "reading" ELSE "read"]
         /\ place' = [p \in HistoryPoints |-> IF p \in Pending \ bad THEN place[p] + count[p] ELSE place[p]]
         /\ given' = [p \in HistoryPoints |->
              IF p \in Pending \ bad THEN Give(p, ChunkRows(p, count[p])) ELSE given[p]]
  BY DEF HistoryRead
<1>2. UNCHANGED <<protocol, archive, asked, webIds, call, cursor, before>>
  BY DEF HistoryRead
<1>3. outcome' \in [HistoryPoints -> {"asked", "reading", "read", "failed"}]
  BY <1>1 DEF HistoryTypeOK
<1>4. given' \in [HistoryPoints -> [1..MostHeld -> Nat]]
  <2> \A p \in HistoryPoints : Give(p, ChunkRows(p, count[p])) \in [1..MostHeld -> Nat]
    BY GiveType
  <2> QED
    BY <1>1 DEF HistoryTypeOK
<1>5. ASSUME NEW p \in HistoryPoints
      PROVE  place'[p] \in Nat /\ place'[p] <= Len(archive[p])
  <2>1. place[p] \in Nat /\ place[p] <= Len(archive[p]) /\ Len(archive[p]) \in Nat /\ PageSize \in Nat
    BY PointFacts DEF HistoryTypeOK
  <2>2. CASE p \in Pending \ bad
    <3>1. PICK m \in 0..Len(archive[p]) : Left(p) = IF place[p] < m THEN m - place[p] ELSE 0
      BY LeftIs
    <3>2. count[p] \in 0..PageSize /\ count[p] <= Left(p) /\ place'[p] = place[p] + count[p]
      BY <1>1, <2>2
    <3> QED
      BY <2>1, <3>1, <3>2
  <2>3. CASE p \notin Pending \ bad
    BY <1>1, <2>1, <2>3
  <2> QED
    BY <2>2, <2>3
<1>6. place' \in [HistoryPoints -> Nat]
  BY <1>1, <1>5
<1> QED
  BY <1>2, <1>3, <1>4, <1>5, <1>6 DEF HistoryTypeOK, Held

\* Every step keeps the type invariant.
LEMMA HistoryTypeStep ==
    ASSUME HistoryTypeOK, [HistoryNext]_historyVars
    PROVE  HistoryTypeOK'
<1>1. CASE UNCHANGED historyVars
  BY <1>1 DEF historyVars, HistoryTypeOK, Held
<1>2. ASSUME NEW p \in HistoryPoints, NotFound(p) PROVE HistoryTypeOK'
  BY <1>2 DEF NotFound, HistoryTypeOK, Held
<1>3. ASSUME NEW p \in HistoryPoints, GetStuck(p) PROVE HistoryTypeOK'
  BY <1>3 DEF GetStuck, HistoryTypeOK, Held
<1>4. CASE Raise
  BY <1>4 DEF Raise, HistoryTypeOK, Held
<1>5. CASE Resolve
  BY <1>5 DEF Resolve, HistoryTypeOK, Held
<1>6. CASE CheckAccess
  BY <1>6 DEF CheckAccess, HistoryTypeOK, Held
<1> QED
  BY <1>1, <1>2, <1>3, <1>4, <1>5, <1>6, ArriveType, ReadRecordedType, HistoryReadType DEF HistoryNext

\* The type invariant holds in the beginning, and a continuation point stands for nothing that
\* belongs to the window and lies before it.
LEMMA HistoryTypeInit ==
    ASSUME HistoryInit
    PROVE  HistoryTypeOK /\ \A p \in HistoryPoints : protocol = "opc" =>
             \A i \in Held(p) : i <= place[p] => archive[p][i] < Down(asked.start)
<1>1. archive \in [HistoryPoints -> Seq(Int)] /\ asked.start \in Int
  BY HistoryAssumption DEF HistoryInit
<1>2. ASSUME NEW p \in HistoryPoints
      PROVE  /\ Len(archive[p]) <= MostHeld /\ Len(archive[p]) \in Nat
             /\ (\A i \in 1..Len(archive[p]) : archive[p][i] \in Int) /\ IsOrdered(archive[p], Len(archive[p]))
  <2>1. archive[p] \in Archives /\ archive[p] \in Seq(Int)
    BY <1>1 DEF HistoryInit
  <2>2. Len(archive[p]) <= MostHeld /\ IsOrdered(archive[p], Len(archive[p]))
    BY <2>1, HistoryAssumption DEF IsOrdered
  <2> QED
    BY <2>1, <2>2
<1>3. ASSUME NEW p \in HistoryPoints
      PROVE  /\ place[p] \in 0..Len(archive[p])
             /\ \A i \in Held(p) : i <= place[p] => archive[p][i] < Down(asked.start)
  <2>1. Down(asked.start) \in Int
    BY <1>1, DownFacts
  <2>2. PICK m \in 0..Len(archive[p]) : \A i \in 1..Len(archive[p]) : i <= m <=> archive[p][i] < Down(asked.start)
    BY <1>2, <2>1, Threshold
  <2>3. {i \in Held(p) : archive[p][i] < Down(asked.start)} = (0 + 1)..m
    BY <1>2, <2>2 DEF Held
  <2>4. Cardinality((0 + 1)..m) = m - 0
    <3> 0 \in Int /\ m \in Int /\ 0 <= m
      BY <1>2, <2>2
    <3> QED
      BY ONLY IntervalSize, 0 \in Int, m \in Int, 0 <= m
  <2>5. place[p] = m
    <3>1. place[p] = Cardinality({i \in Held(p) : archive[p][i] < Down(asked.start)})
      BY DEF HistoryInit
    <3>2. place[p] = m - 0
      BY <3>1, <2>3, <2>4, Zenon
    <3> QED
      BY <1>2, <2>2, <3>2
  <2> QED
    BY <2>2, <2>5 DEF Held
<1>4. place \in [HistoryPoints -> Nat] /\ before \in [HistoryPoints -> Nat]
  <2> place = [p \in HistoryPoints |-> place[p]]
    BY DEF HistoryInit
  <2> QED
    BY <1>2, <1>3 DEF HistoryInit
<1>5. \A p \in HistoryPoints : before[p] <= Len(archive[p]) /\ place[p] <= Len(archive[p])
  BY <1>2, <1>3 DEF HistoryInit
<1>6. \A p \in HistoryPoints : \A i, j \in Held(p) : i <= j => archive[p][i] <= archive[p][j]
  BY <1>2 DEF IsOrdered, Held
<1>7. given \in [HistoryPoints -> [1..MostHeld -> Nat]] /\ cursor \in [HistoryPoints -> [at : Int, seen : Nat]]
  BY <1>1 DEF HistoryInit
<1>8. HistoryTypeOK
  BY <1>1, <1>2, <1>4, <1>5, <1>6, <1>7 DEF HistoryTypeOK, HistoryInit
<1> QED
  BY <1>3, <1>8

\* The outcomes of a point that is still to be read.
Unfinished == {"asked", "reading"}

\* Point p is done up to its b-th value: that and nothing else was given out, and it is where the
\* cursor, or the continuation point, goes on.
ReadTo(p, b) ==
    /\ b \in 0..Len(archive[p]) /\ given[p] = UpTo(p, b)
    /\ call = "asked" => outcome[p] = "asked"
    /\ outcome[p] = "read" => \A i \in Held(p) : (i <= before[p] /\ InAsked(p, i)) => i <= b
    /\ (protocol = "pi" /\ outcome[p] \in Unfinished) => (Fresh(p, b) \/ Paging(p, b))
    /\ (protocol = "opc" /\ outcome[p] \in Unfinished) => b = place[p]

\* What ReadsGiveEachOnce says of a call that gets stuck.
StuckWhenFull ==
    call = "stuck" =>
      \E p \in HistoryPoints : \E t \in {StampOf(p, i) : i \in Held(p)} :
        Cardinality({i \in Held(p) : StampOf(p, i) = t}) >= PageSize

\* The inductive invariant: what was given out of each point is the beginning of its archive, as
\* far as it belongs to the window.
HistoryIInv ==
    /\ HistoryTypeOK
    /\ \A p \in HistoryPoints : \E b \in Nat : ReadTo(p, b)
    /\ StuckWhenFull

\* A value from before the tick of the start does not belong to the window.
LEMMA NotYetAsked ==
    ASSUME HistoryTypeOK, NEW p \in HistoryPoints, NEW i \in Held(p), archive[p][i] < Down(asked.start)
    PROVE  ~InAsked(p, i)
<1>1. asked.start \in Int /\ archive[p][i] \in Int
  BY PointFacts
<1>2. Down(asked.start) \in Int /\ Down(asked.start) <= asked.start
  BY <1>1, DownFacts
<1>3. Down(archive[p][i]) \in Int /\ Down(archive[p][i]) <= archive[p][i]
  BY <1>1, DownFacts
<1> QED
  BY <1>1, <1>2, <1>3 DEF InAsked, StampOf

\* Neither does one from the tick after its end on.
LEMMA NoMoreAsked ==
    ASSUME HistoryTypeOK, NEW p \in HistoryPoints, NEW i \in Held(p), Up(asked.end) <= archive[p][i]
    PROVE  ~InAsked(p, i)
<1>1. asked.end \in Int /\ archive[p][i] \in Int
  BY PointFacts
<1>2. Up(asked.end) \in Int /\ asked.end <= Up(asked.end) /\ Down(Up(asked.end)) = Up(asked.end)
  BY <1>1, DownFacts
<1>3. Down(archive[p][i]) \in Int /\ Down(Up(asked.end)) <= Down(archive[p][i])
  BY <1>1, <1>2, DownFacts, DownMonotone
<1> QED
  BY <1>1, <1>2, <1>3 DEF InAsked, StampOf

\* The inductive invariant holds in the beginning.
LEMMA HistoryIInvInit ==
    ASSUME HistoryInit
    PROVE  HistoryIInv
<1>1. /\ HistoryTypeOK
      /\ \A p \in HistoryPoints : protocol = "opc" =>
           \A i \in Held(p) : i <= place[p] => archive[p][i] < Down(asked.start)
  BY HistoryTypeInit
<1>2. ASSUME NEW p \in HistoryPoints
      PROVE  \E b \in Nat : ReadTo(p, b)
  <2>0. Len(archive[p]) \in Nat /\ Len(archive[p]) <= MostHeld /\ MostHeld \in Nat
    BY <1>1, PointFacts
  <2>4. place[p] \in Nat /\ place[p] <= Len(archive[p]) /\ protocol \in {"pi", "opc"}
    BY <1>1 DEF HistoryTypeOK
  <2>5. outcome[p] = "asked" /\ given[p] = [i \in 1..MostHeld |-> 0]
    BY DEF HistoryInit
  <2>6. cursor[p].at = asked.start /\ cursor[p].seen = 0
    BY DEF HistoryInit
  <2>1. /\ Len(archive[p]) \in Nat /\ Len(archive[p]) <= MostHeld /\ MostHeld \in Nat
        /\ place[p] \in 0..Len(archive[p]) /\ outcome[p] = "asked" /\ given[p] = [i \in 1..MostHeld |-> 0]
        /\ cursor[p].at = asked.start /\ cursor[p].seen = 0
        /\ protocol \in {"pi", "opc"}
    BY <2>0, <2>4, <2>5, <2>6
  <2>2. CASE protocol = "pi"
    <3> UpTo(p, 0) = [i \in 1..MostHeld |-> 0]
      BY <2>1 DEF UpTo
    <3> ReadTo(p, 0)
      BY <2>1, <2>2 DEF ReadTo, Fresh, Unfinished
    <3> QED
      OBVIOUS
  <2>3. CASE protocol = "opc"
    <3>1. \A i \in 1..MostHeld : ~(i <= place[p] /\ InAsked(p, i))
      <4> SUFFICES ASSUME NEW i \in 1..MostHeld, i <= place[p] PROVE ~InAsked(p, i)
        OBVIOUS
      <4>1. i \in Held(p)
        BY <2>1 DEF Held
      <4>2. archive[p][i] < Down(asked.start)
        BY <4>1, <1>1, <2>3
      <4> QED
        BY <4>1, <4>2, <1>1, NotYetAsked
    <3>2. UpTo(p, place[p]) = [i \in 1..MostHeld |-> 0]
      BY <3>1 DEF UpTo
    <3>3. ReadTo(p, place[p])
      BY <2>1, <2>3, <3>2 DEF ReadTo, Unfinished
    <3> QED
      BY <2>1, <3>3
  <2> QED
    BY <2>1, <2>2, <2>3
<1> QED
  BY <1>1, <1>2 DEF HistoryIInv, StuckWhenFull, HistoryInit

\* It is kept by a value that arrives: that is behind everything that was given out.
LEMMA ArriveKeeps ==
    ASSUME HistoryIInv, NEW p \in HistoryPoints, Arrive(p)
    PROVE  HistoryIInv'
<1>1. HistoryTypeOK /\ HistoryTypeOK'
  BY ArriveType DEF HistoryIInv
<1>2. UNCHANGED <<protocol, asked, webIds, call, outcome, cursor, place, before, given>> /\ call = "reading"
  BY DEF Arrive
<1>3. PICK t \in Down(asked.start)..LastHeld :
        /\ \A i \in Held(p) : archive[p][i] <= t
        /\ archive' = [archive EXCEPT ![p] = Append(@, t)]
  BY DEF Arrive
<1>4. asked.start \in Int /\ t \in Int
  <2> asked.start \in Int /\ LastHeld \in Int
    BY <1>1, PointFacts, HistoryAssumption
  <2> Down(asked.start) \in Int
    BY DownFacts
  <2> QED
    OBVIOUS
<1>5. ASSUME NEW q \in HistoryPoints
      PROVE  \E b \in Nat : ReadTo(q, b)'
  <2>1. PICK b \in Nat : ReadTo(q, b)
    BY DEF HistoryIInv
  <2>0. Len(archive[q]) \in Nat /\ Len(archive[q]) <= MostHeld /\ MostHeld \in Nat
    BY <1>1, PointFacts
  <2>10. before[q] <= Len(archive[q]) /\ before[q] \in Nat
    BY <1>1 DEF HistoryTypeOK
  <2>11. b \in 0..Len(archive[q])
    BY <2>1 DEF ReadTo
  <2>2. /\ Len(archive[q]) \in Nat /\ Len(archive[q]) <= MostHeld /\ MostHeld \in Nat /\ b <= Len(archive[q])
        /\ before[q] <= Len(archive[q]) /\ before[q] \in Nat
    BY <2>0, <2>10, <2>11
  <2>3. /\ Len(archive'[q]) \in {Len(archive[q]), Len(archive[q]) + 1}
        /\ \A i \in 1..Len(archive[q]) : archive'[q][i] = archive[q][i]
        /\ \A i \in 1..Len(archive'[q]) : i \in 1..Len(archive[q]) \/ (q = p /\ i = Len(archive[q]) + 1 /\ archive'[q][i] = t)
    <3>1. archive \in [HistoryPoints -> Seq(Int)]
      BY <1>1 DEF HistoryTypeOK
    <3>2. CASE q = p
      <4> archive[p] \in Seq(Int) /\ archive'[p] = Append(archive[p], t)
        BY <1>3, <3>1
      <4> QED
        BY <3>2, <1>4
    <3>3. CASE q # p
      <4> archive'[q] = archive[q]
        BY <3>1, <3>3, <1>3
      <4> QED
        BY <2>2
    <3> QED
      BY <3>2, <3>3
  <2>4. \A i \in 1..Len(archive[q]) : (InAsked(q, i)' <=> InAsked(q, i)) /\ i \in Held(q) /\ i \in Held(q)'
    BY <1>2, <2>2, <2>3 DEF InAsked, StampOf, Held
  <2>5. UpTo(q, b)' = UpTo(q, b)
    <3> \A i \in 1..MostHeld : i <= b => (InAsked(q, i)' <=> InAsked(q, i))
      BY <2>2, <2>4
    <3> QED
      BY DEF UpTo
  <2>6. Fresh(q, b) => Fresh(q, b)'
    BY <1>2 DEF Fresh
  <2>7. ASSUME Paging(q, b) PROVE Paging(q, b)'
    <3>1. /\ cursor[q].seen \in 1..b /\ cursor[q].at \in Int
          /\ \A i \in Held(q) : (i <= b - cursor[q].seen <=> archive[q][i] < cursor[q].at)
                                /\ (i <= b => archive[q][i] <= cursor[q].at)
      BY <1>1, <2>7, PointFacts DEF Paging
    <3>2. b \in Held(q) /\ ~(b <= b - cursor[q].seen)
      BY <2>2, <3>1 DEF Held
    <3>3. q = p => cursor[q].at <= t
      <4> archive[q][b] \in Int
        BY <3>2, <1>1, PointFacts
      <4> QED
        BY <3>1, <3>2, <1>3, <1>4
    <3>4. ASSUME NEW i \in Held(q)'
          PROVE  (i <= b - cursor[q].seen <=> archive'[q][i] < cursor[q].at)
                 /\ (i <= b => archive'[q][i] <= cursor[q].at)
      <4>1. CASE i \in 1..Len(archive[q])
        BY <4>1, <2>3, <3>1 DEF Held
      <4>2. CASE q = p /\ i = Len(archive[q]) + 1 /\ archive'[q][i] = t
        BY <4>2, <2>2, <3>1, <3>3, <1>4
      <4> QED
        BY <4>1, <4>2, <2>3 DEF Held
    <3> QED
      BY <1>2, <2>7, <3>4 DEF Paging
  <2>8. outcome[q] = "read" => \A i \in Held(q)' : (i <= before[q] /\ InAsked(q, i)') => i <= b
    <3> SUFFICES ASSUME outcome[q] = "read", NEW i \in Held(q)', i <= before[q], InAsked(q, i)' PROVE i <= b
      OBVIOUS
    <3> i \in 1..Len(archive[q])
      BY <2>2, <2>3 DEF Held
    <3> QED
      BY <2>1, <2>4 DEF ReadTo
  <2>9. b \in 0..Len(archive'[q])
    BY <2>2, <2>3
  <2> QED
    BY <1>2, <2>1, <2>5, <2>6, <2>7, <2>8, <2>9 DEF ReadTo
<1>6. StuckWhenFull'
  BY <1>2 DEF StuckWhenFull
<1> QED
  BY <1>1, <1>5, <1>6 DEF HistoryIInv

\* It is kept by a page of recorded values, which goes on where the page before has ended.
LEMMA ReadOn ==
    ASSUME HistoryIInv, NEW p \in HistoryPoints, ReadRecorded(p)
    PROVE  \E b \in Nat : ReadTo(p, b)'
<1>1. HistoryTypeOK /\ PageSize \in Nat
  BY PointFacts DEF HistoryIInv
<1>2. PICK b \in Nat : ReadTo(p, b)
  BY DEF HistoryIInv
<1>3. /\ UNCHANGED <<protocol, archive, asked, call, place, before>>
      /\ protocol = "pi" /\ call = "reading" /\ outcome[p] = "reading" /\ ~IsStuck(p)
      /\ given'[p] = Give(p, PageRows(p))
  BY <1>1 DEF ReadRecorded, Current, HistoryTypeOK
<1>4. b \in 0..Len(archive[p]) /\ given[p] = UpTo(p, b) /\ (Fresh(p, b) \/ Paging(p, b))
  BY <1>2, <1>3 DEF ReadTo, Unfinished
<1>5. PICK a, e \in 0..Len(archive[p]) :
        /\ a <= e /\ e - a <= PageSize /\ RecordedPage(p) = (a + 1)..e
        /\ \A i \in Held(p) : i <= a <=> archive[p][i] < Down(cursor[p].at)
        /\ e - a < PageSize => \A i \in Held(p) : e < i => Up(asked.end) < archive[p][i]
  BY <1>1, PageShape
<1>6. given'[p] = UpTo(p, e)
  BY <1>1, <1>3, <1>4, <1>5, PageRowsAre
<1>7. UpTo(p, e)' = UpTo(p, e) /\ Len(archive[p]) \in Nat
  BY <1>1, <1>3, PointFacts DEF UpTo, InAsked, StampOf
<1>8. CASE IsLastPage(p)
  <2>1. \A i \in Held(p) : InAsked(p, i) => i <= e
    BY <1>1, <1>3, <1>5, <1>8, LastPageIsLast
  <2>2. outcome'[p] = "read"
    BY <1>1, <1>8 DEF ReadRecorded, HistoryTypeOK
  <2>3. \A i \in Held(p)' : InAsked(p, i)' => i <= e
    BY <2>1, <1>3 DEF Held, InAsked, StampOf
  <2>4. ReadTo(p, e)'
    BY <1>3, <1>5, <1>6, <1>7, <2>2, <2>3 DEF ReadTo, Unfinished
  <2> QED
    BY <1>5, <1>7, <2>4
<1>9. CASE ~IsLastPage(p)
  <2>1. /\ NextPage(p).at < asked.end /\ NextPage(p).at % SourceTick = 0
        /\ NextPage(p).seen \in 1..e /\ NextPage(p).seen < PageSize
        /\ \A i \in Held(p) : /\ i <= e - NextPage(p).seen <=> archive[p][i] < NextPage(p).at
                              /\ i <= e => archive[p][i] <= NextPage(p).at
    BY <1>1, <1>3, <1>5, <1>9, NextPageGoesOn
  <2>2. cursor'[p] = NextPage(p) /\ outcome' = outcome
    BY <1>1, <1>9 DEF ReadRecorded, HistoryTypeOK
  <2>3. Paging(p, e)'
    BY <1>3, <2>1, <2>2 DEF Paging, Held
  <2>4. ReadTo(p, e)'
    BY <1>3, <1>5, <1>6, <1>7, <2>2, <2>3 DEF ReadTo, Unfinished
  <2> QED
    BY <1>5, <1>7, <2>4
<1> QED
  BY <1>8, <1>9

\* It is kept for a point that nothing was read of.
LEMMA StaysRead ==
    ASSUME HistoryIInv, NEW q \in HistoryPoints,
           UNCHANGED <<protocol, archive, asked, before>>,
           given'[q] = given[q], cursor'[q] = cursor[q], place'[q] = place[q],
           \/ outcome'[q] = outcome[q]
           \/ outcome'[q] = "failed"
           \/ outcome[q] \in Unfinished /\ outcome'[q] \in Unfinished,
           call' = "asked" => call = "asked" /\ outcome'[q] = outcome[q]
    PROVE  \E b \in Nat : ReadTo(q, b)'
<1>1. PICK b \in Nat : ReadTo(q, b)
  BY DEF HistoryIInv
<1>2. UpTo(q, b)' = UpTo(q, b)
  BY DEF UpTo, InAsked, StampOf
<1>3. (Fresh(q, b) => Fresh(q, b)') /\ (Paging(q, b) => Paging(q, b)')
  BY DEF Fresh, Paging, Held
<1>4. b \in 0..Len(archive'[q]) /\ given'[q] = UpTo(q, b)' /\ (call' = "asked" => outcome'[q] = "asked")
  BY <1>1, <1>2 DEF ReadTo
<1>5. outcome'[q] = "read" => \A i \in Held(q)' : (i <= before'[q] /\ InAsked(q, i)') => i <= b
  <2> SUFFICES ASSUME outcome'[q] = "read"
               PROVE  \A i \in Held(q)' : (i <= before'[q] /\ InAsked(q, i)') => i <= b
    OBVIOUS
  <2> outcome[q] = "read"
    BY DEF Unfinished
  <2> QED
    BY <1>1 DEF ReadTo, Held, InAsked, StampOf
<1>6. outcome'[q] \in Unfinished => outcome[q] \in Unfinished
  BY DEF Unfinished
<1>7. (protocol' = "pi" /\ outcome'[q] \in Unfinished) => (Fresh(q, b)' \/ Paging(q, b)')
  BY <1>1, <1>3, <1>6 DEF ReadTo
<1>8. (protocol' = "opc" /\ outcome'[q] \in Unfinished) => b = place'[q]
  BY <1>1, <1>6 DEF ReadTo
<1>9. ReadTo(q, b)'
  BY <1>4, <1>5, <1>7, <1>8 DEF ReadTo
<1> QED
  BY <1>9

\* It is kept by a round of continuation points.
LEMMA ChunkKeeps ==
    ASSUME HistoryIInv, HistoryRead, NEW p \in HistoryPoints
    PROVE  \E b \in Nat : ReadTo(p, b)'
<1>1. PICK bad \in SUBSET Pending, more \in SUBSET Pending, count \in [Pending -> 0..PageSize] :
         /\ \A q \in bad : q \notin more /\ count[q] = 0
         /\ \A q \in Pending \ bad : count[q] <= Left(q) /\ (count[q] < Left(q) => q \in more)
         /\ outcome' = [q \in HistoryPoints |->
              IF q \notin Pending THEN outcome[q]
              ELSE IF q \in bad THEN "failed"
              ELSE IF q \in more THEN "reading" ELSE "read"]
         /\ place' = [q \in HistoryPoints |-> IF q \in Pending \ bad THEN place[q] + count[q] ELSE place[q]]
         /\ given' = [q \in HistoryPoints |->
              IF q \in Pending \ bad THEN Give(q, ChunkRows(q, count[q])) ELSE given[q]]
  BY DEF HistoryRead
<1>2. UNCHANGED <<protocol, archive, asked, call, cursor, before>> /\ protocol = "opc" /\ call = "reading"
  BY DEF HistoryRead
<1>3. HistoryTypeOK
  BY DEF HistoryIInv
<1>4. CASE p \notin Pending \ bad
  <2>1. given'[p] = given[p] /\ place'[p] = place[p] /\ cursor'[p] = cursor[p]
    BY <1>1, <1>2, <1>4
  <2>2. outcome'[p] = outcome[p] \/ outcome'[p] = "failed"
    BY <1>1, <1>4
  <2> QED
    BY <1>2, <2>1, <2>2, StaysRead
<1>5. CASE p \in Pending \ bad
  <2>1. /\ count[p] \in 0..PageSize /\ count[p] <= Left(p) /\ (count[p] < Left(p) => p \in more)
        /\ outcome'[p] = IF p \in more THEN "reading" ELSE "read"
        /\ place'[p] = place[p] + count[p] /\ given'[p] = Give(p, ChunkRows(p, count[p]))
        /\ outcome[p] = "reading"
    BY <1>1, <1>5 DEF Pending
  <2>2. PICK b \in Nat : ReadTo(p, b)
    BY DEF HistoryIInv
  <2>3. b = place[p] /\ given[p] = UpTo(p, b)
    BY <1>2, <2>1, <2>2 DEF ReadTo, Unfinished
  <2>4. /\ Len(archive[p]) \in Nat /\ Len(archive[p]) <= MostHeld /\ MostHeld \in Nat /\ PageSize \in Nat
    BY <1>3, PointFacts
  <2>5. place[p] \in Nat /\ place[p] <= Len(archive[p])
    BY <1>3 DEF HistoryTypeOK
  <2>6. PICK m \in 0..Len(archive[p]) :
          /\ \A i \in Held(p) : i <= m <=> archive[p][i] < Up(asked.end)
          /\ Left(p) = IF place[p] < m THEN m - place[p] ELSE 0
    BY <1>3, LeftIs
  <2>c. PICK c \in Nat : c = place[p] + count[p]
    BY <2>1, <2>4, <2>5
  <2>7. c \in 0..Len(archive[p]) /\ place[p] <= c
    BY <2>c, <2>1, <2>4, <2>5, <2>6
  <2>8. Give(p, ChunkRows(p, count[p])) = UpTo(p, c)
    <3>1. \A i \in 1..MostHeld : i \in ChunkRows(p, count[p]) <=> (place[p] < i /\ i <= c /\ InAsked(p, i))
      BY <2>c, <2>1, <2>4, <2>5 DEF ChunkRows
    <3>2. \A i \in 1..MostHeld : given[p][i] = IF i <= place[p] /\ InAsked(p, i) THEN 1 ELSE 0
      BY <2>3 DEF UpTo
    <3>3. \A i \in 1..MostHeld : (given[p][i] + IF i \in ChunkRows(p, count[p]) THEN 1 ELSE 0)
                                   = IF i <= c /\ InAsked(p, i) THEN 1 ELSE 0
      BY <3>1, <3>2, <2>4, <2>5, <2>7
    <3> QED
      BY <3>3 DEF Give, UpTo
  <2>9. outcome'[p] = "read" => \A i \in Held(p) : InAsked(p, i) => i <= c
    <3> SUFFICES ASSUME outcome'[p] = "read", NEW i \in Held(p), InAsked(p, i), c < i PROVE FALSE
      BY <2>4, <2>7 DEF Held
    <3>1. count[p] = Left(p)
      BY <2>1, <2>4, <2>5, <2>6
    <3>2. m < i
      <4> i \in Nat
        BY <2>4 DEF Held
      <4> QED
        BY <3>1, <2>c, <2>4, <2>5, <2>6, <2>7
    <3>3. Up(asked.end) <= archive[p][i]
      <4>1. archive[p][i] \in Int /\ asked.end \in Int
        BY <1>3, PointFacts
      <4>2. Up(asked.end) \in Int
        BY <4>1, DownFacts
      <4>3. ~(archive[p][i] < Up(asked.end))
        BY <3>2, <2>4, <2>6 DEF Held
      <4> QED
        BY <4>1, <4>2, <4>3
    <3> QED
      BY <3>3, <1>3, NoMoreAsked
  <2>10. UpTo(p, c)' = UpTo(p, c)
    BY <1>2 DEF UpTo, InAsked, StampOf
  <2>11. \A i \in Held(p)' : (i <= before'[p] /\ InAsked(p, i)') => (outcome'[p] = "read" => i <= c)
    BY <1>2, <2>9 DEF Held, InAsked, StampOf
  <2>12. ReadTo(p, c)'
    BY <1>2, <2>c, <2>1, <2>7, <2>8, <2>10, <2>11 DEF ReadTo
  <2> QED
    BY <2>12
<1> QED
  BY <1>4, <1>5

\* Some stamp has as many values as fill a page.
FullStamp(held) ==
    \E p \in HistoryPoints : \E t \in {Down(held[p][i]) : i \in 1..Len(held[p])} :
      Cardinality({i \in 1..Len(held[p]) : Down(held[p][i]) = t}) >= PageSize

\* A call gets stuck only at such a stamp.
LEMMA StuckIsFull ==
    ASSUME HistoryTypeOK, NEW p \in HistoryPoints, GetStuck(p)
    PROVE  StuckWhenFull'
<1>1. UNCHANGED <<protocol, archive>> /\ protocol = "pi" /\ IsStuck(p)
  BY DEF GetStuck, Current
<1>2. PICK a, e \in 0..Len(archive[p]) : a <= e /\ RecordedPage(p) = (a + 1)..e
  BY PageShape
<1>3. /\ Len(archive[p]) \in Nat /\ PageSize \in Nat \ {0}
      /\ Cardinality((a + 1)..e) = PageSize /\ AtPageEnd(p) = (a + 1)..e
  BY <1>1, <1>2, PointFacts DEF IsStuck
<1>4. a < e
  <2> SUFFICES ASSUME a = e PROVE FALSE
    BY <1>2, <1>3
  <2> (a + 1)..e = {}
    BY <1>3
  <2> QED
    BY <1>3, FS_EmptySet
<1>5. e \in Held(p) /\ (a + 1)..e \subseteq Held(p)
  BY <1>3, <1>4 DEF Held
<1>6. AtPageEnd(p) = {i \in (a + 1)..e : archive[p][i] = archive[p][e]}
  BY <1>1, <1>2, <1>4, PageEndIs
<1> DEFINE same == {i \in Held(p) : StampOf(p, i) = StampOf(p, e)}
<1>7. (a + 1)..e \subseteq same
  BY <1>1, <1>3, <1>5, <1>6, PiStamps
<1>8. IsFiniteSet(same) /\ PageSize <= Cardinality(same)
  <2>1. IsFiniteSet(1..Len(archive[p]))
    BY <1>3, FS_Interval
  <2>2. IsFiniteSet(same)
    BY <2>1, FS_Subset DEF Held
  <2> HIDE DEF same
  <2>3. Cardinality((a + 1)..e) <= Cardinality(same)
    BY <1>7, <2>2, FS_Subset
  <2> QED
    BY <1>3, <2>2, <2>3
<1>9. Cardinality(same) >= PageSize
  <2> Cardinality(same) \in Nat
    BY <1>8, FS_CardinalityType
  <2> QED
    BY <1>3, <1>8
<1>10. StampOf(p, e) \in {StampOf(p, i) : i \in Held(p)}
  BY <1>5
<1>11. \E q \in HistoryPoints : \E t \in {StampOf(q, i) : i \in Held(q)} :
         Cardinality({i \in Held(q) : StampOf(q, i) = t}) >= PageSize
  BY <1>9, <1>10
<1>12. FullStamp(archive)
  BY <1>11 DEF FullStamp, StampOf, Held
<1>13. FullStamp(archive')
  BY <1>1, <1>12
<1> QED
  BY <1>13 DEF StuckWhenFull, FullStamp, StampOf, Held

\* Every step keeps the inductive invariant.
LEMMA HistoryIInvStep ==
    ASSUME HistoryIInv, [HistoryNext]_historyVars
    PROVE  HistoryIInv'
<1>1. HistoryTypeOK /\ HistoryTypeOK'
  BY HistoryTypeStep DEF HistoryIInv
<1>2. CASE UNCHANGED historyVars
  <2>1. StuckWhenFull'
    <3>1. call' = call /\ archive' = archive
      BY <1>2 DEF historyVars
    <3>2. call = "stuck" => FullStamp(archive)
      BY DEF HistoryIInv, StuckWhenFull, FullStamp, StampOf, Held
    <3>3. call' = "stuck" => FullStamp(archive')
      BY <3>1, <3>2
    <3> QED
      BY <3>3 DEF StuckWhenFull, FullStamp, StampOf, Held
  <2>2. \A q \in HistoryPoints : \E b \in Nat : ReadTo(q, b)'
    BY <1>2, StaysRead DEF historyVars
  <2> QED
    BY <1>1, <2>1, <2>2 DEF HistoryIInv
<1>3. ASSUME NEW p \in HistoryPoints, NotFound(p) PROVE HistoryIInv'
  <2>1. \A q \in HistoryPoints : outcome'[q] = outcome[q] \/ outcome'[q] = "failed"
    BY <1>1, <1>3 DEF NotFound, HistoryTypeOK
  <2>2. UNCHANGED <<protocol, archive, asked, before, call, given, cursor, place>> /\ call = "reading"
    BY <1>3 DEF NotFound, Current
  <2>3. \A q \in HistoryPoints : \E b \in Nat : ReadTo(q, b)'
    BY <2>1, <2>2, StaysRead
  <2> QED
    BY <1>1, <2>2, <2>3 DEF HistoryIInv, StuckWhenFull
<1>4. ASSUME NEW p \in HistoryPoints, ReadRecorded(p) PROVE HistoryIInv'
  <2>1. UNCHANGED <<protocol, archive, asked, before, call, place>> /\ call = "reading"
    BY <1>4 DEF ReadRecorded, Current
  <2>2. ASSUME NEW q \in HistoryPoints, q # p PROVE \E b \in Nat : ReadTo(q, b)'
    <3> given'[q] = given[q] /\ cursor'[q] = cursor[q] /\ outcome'[q] = outcome[q]
      BY <1>1, <1>4, <2>2 DEF ReadRecorded, HistoryTypeOK
    <3> QED
      BY <2>1, StaysRead
  <2>3. \A q \in HistoryPoints : \E b \in Nat : ReadTo(q, b)'
    BY <2>2, <1>4, ReadOn
  <2> QED
    BY <1>1, <2>1, <2>3 DEF HistoryIInv, StuckWhenFull
<1>5. ASSUME NEW p \in HistoryPoints, GetStuck(p) PROVE HistoryIInv'
  <2>1. UNCHANGED <<protocol, archive, asked, before, outcome, given, cursor, place>> /\ call' = "stuck"
    BY <1>5 DEF GetStuck
  <2>2. \A q \in HistoryPoints : \E b \in Nat : ReadTo(q, b)'
    BY <2>1, StaysRead
  <2>3. StuckWhenFull'
    BY <1>1, <1>5, StuckIsFull
  <2> QED
    BY <1>1, <2>2, <2>3 DEF HistoryIInv
<1>6. CASE Raise
  <2>1. UNCHANGED <<protocol, archive, asked, before, outcome, given, cursor, place>> /\ call' = "raised"
    BY <1>6 DEF Raise
  <2>2. \A q \in HistoryPoints : \E b \in Nat : ReadTo(q, b)'
    BY <2>1, StaysRead
  <2> QED
    BY <1>1, <2>1, <2>2 DEF HistoryIInv, StuckWhenFull
<1>7. CASE Resolve \/ CheckAccess
  <2>1. UNCHANGED <<protocol, archive, asked, before, given, cursor, place>> /\ call = "asked" /\ call' = "reading"
    BY <1>7 DEF Resolve, CheckAccess
  <2>2. ASSUME NEW q \in HistoryPoints PROVE \E b \in Nat : ReadTo(q, b)'
    <3>1. outcome[q] = "asked"
      BY <2>1 DEF HistoryIInv, ReadTo
    <3>2. outcome'[q] = "reading" \/ outcome'[q] = "failed"
      BY <1>7 DEF Resolve, CheckAccess
    <3> QED
      BY <2>1, <3>1, <3>2, StaysRead DEF Unfinished
  <2> QED
    BY <1>1, <2>1, <2>2 DEF HistoryIInv, StuckWhenFull
<1>8. CASE HistoryRead
  <2>1. call' = "reading"
    BY <1>8 DEF HistoryRead
  <2> QED
    BY <1>1, <1>8, <2>1, ChunkKeeps DEF HistoryIInv, StuckWhenFull
<1> QED
  BY <1>2, <1>3, <1>4, <1>5, <1>6, <1>7, <1>8, ArriveKeeps DEF HistoryNext

\* The inductive invariant says what the property does.
LEMMA HistoryIInvSays ==
    ASSUME HistoryIInv
    PROVE  ReadsGiveEachOnce
<1>1. ASSUME NEW p \in HistoryPoints, NEW i \in Held(p)
      PROVE  /\ given[p][i] \in {0, IF InAsked(p, i) THEN 1 ELSE 0}
             /\ given[p][i] = 1 => \A j \in Held(p) : (j < i /\ InAsked(p, j)) => given[p][j] = 1
             /\ (outcome[p] = "read" /\ i <= before[p] /\ InAsked(p, i)) => given[p][i] = 1
  <2>1. PICK b \in Nat : ReadTo(p, b)
    BY DEF HistoryIInv
  <2>2. Len(archive[p]) \in Nat /\ Len(archive[p]) <= MostHeld /\ MostHeld \in Nat
    BY PointFacts DEF HistoryIInv
  <2>3. \A j \in Held(p) : j \in 1..MostHeld /\ given[p][j] = IF j <= b /\ InAsked(p, j) THEN 1 ELSE 0
    BY <2>1, <2>2 DEF ReadTo, UpTo, Held
  <2>4. outcome[p] = "read" => \A j \in Held(p) : (j <= before[p] /\ InAsked(p, j)) => j <= b
    BY <2>1 DEF ReadTo
  <2> QED
    BY <2>3, <2>4
<1> QED
  BY <1>1 DEF ReadsGiveEachOnce, HistoryIInv, StuckWhenFull

\* The state of a fetch call is what its type says, and the archives stay in order.
THEOREM HistoryTypeCorrect == HistorySpec => []HistoryTypeOK
<1>1. HistoryInit => HistoryTypeOK
  BY HistoryTypeInit
<1>2. HistoryTypeOK /\ [HistoryNext]_historyVars => HistoryTypeOK'
  BY HistoryTypeStep
<1> QED
  BY <1>1, <1>2, PTL DEF HistorySpec

\* Whatever is held, arrives and fails, and however the source cuts its answers into pages, a value
\* of the window is given out once at most, without a hole, and all of it when a point is read to
\* its end (connectors/pi_web_api/values.py:95-138, opc_ua/connector.py:291-318).
THEOREM ReadsTheorem == HistorySpec => []ReadsGiveEachOnce
<1>1. HistoryInit => HistoryIInv
  BY HistoryIInvInit
<1>2. HistoryIInv /\ [HistoryNext]_historyVars => HistoryIInv'
  BY HistoryIInvStep
<1>3. HistoryIInv => ReadsGiveEachOnce
  BY HistoryIInvSays
<1> QED
  BY <1>1, <1>2, <1>3, PTL DEF HistorySpec

-----------------------------------------------------------------------------
(* The cache: the months of a write *)

\* Induction over the naturals, for a set instead of a predicate: the library states it for an
\* operator, which no backend instantiates.
LEMMA NatSetInduction ==
    ASSUME NEW S, 0 \in S, \A n \in Nat : n \in S => n + 1 \in S
    PROVE  Nat \subseteq S
<1> SUFFICES ASSUME Nat \ S # {} PROVE FALSE
  OBVIOUS
<1>1. PICK x \in Nat \ S : \A y \in Nat \ S : x <= y
  BY LeastNat
<1>2. x # 0 /\ x - 1 \in Nat /\ x - 1 < x
  OBVIOUS
<1>3. x - 1 \in S
  BY <1>1, <1>2
<1> QED
  BY <1>2, <1>3

\* A bounded set of natural numbers that is not empty has a greatest one.
LEMMA GreatestNat ==
    ASSUME NEW S \in SUBSET Nat, S # {}, NEW n \in Nat, \A x \in S : x <= n
    PROVE  \E x \in S : \A y \in S : y <= x
<1> DEFINE up == {b \in Nat : \A x \in S : x <= b}
<1>1. PICK b \in up : \A c \in up : b <= c
  <2> n \in up /\ up \in SUBSET Nat
    OBVIOUS
  <2> HIDE DEF up
  <2> QED
    BY LeastNat
<1>2. b \in S
  <2> SUFFICES ASSUME b \notin S PROVE FALSE
    OBVIOUS
  <2>0. b \in Nat /\ \A x \in S : x <= b
    BY <1>1
  <2>1. \A x \in S : x \in Nat /\ x <= b /\ x # b
    BY <2>0
  <2>2. b # 0 /\ b - 1 \in Nat
    <3> PICK x \in S : TRUE
      OBVIOUS
    <3> x \in Nat /\ x <= b /\ x # b
      BY <2>1
    <3> QED
      BY <2>0
  <2>3. \A x \in S : x <= b - 1
    BY <2>0, <2>1, <2>2
  <2>4. b - 1 \in up
    BY <2>2, <2>3
  <2> QED
    BY <1>1, <2>2, <2>4
<1> QED
  BY <1>1, <1>2

\* Instants are numbers, and there are finitely many.
LEMMA InstantFacts ==
    /\ IsFiniteSet(CachedInstants) /\ CachedInstants \subseteq Nat
    /\ \A rows \in SUBSET CachedInstants :
         IsFiniteSet(rows) /\ Cardinality(rows) \in Nat /\ Cardinality(rows) <= Cardinality(CachedInstants)
<1>1. IsFiniteSet(CachedInstants) /\ CachedInstants \subseteq Nat
  BY CacheAssumption, FS_Interval DEF CachedInstants
<1> QED
  BY <1>1, FS_Subset, FS_CardinalityType

\* The first instant of some rows.
LEMMA MinIs ==
    ASSUME NEW rows \in SUBSET CachedInstants, rows # {}
    PROVE  Min(rows) \in rows /\ \A t \in rows : Min(rows) <= t
<1>1. \E x \in rows : \A y \in rows : x <= y
  BY InstantFacts, LeastNat
<1> QED
  BY <1>1 DEF Min

\* The last instant of some rows.
LEMMA MaxIs ==
    ASSUME NEW rows \in SUBSET CachedInstants, rows # {}
    PROVE  Max(rows) \in rows /\ \A t \in rows : t <= Max(rows)
<1>1. \E x \in rows : \A y \in rows : y <= x
  <2> LastInstant \in Nat /\ rows \in SUBSET Nat /\ \A t \in rows : t <= LastInstant
    BY CacheAssumption DEF CachedInstants
  <2> QED
    BY GreatestNat
<1>2. \E x \in rows : \A y \in rows : x >= y
  <2> \A x, y \in rows : y <= x => x >= y
    BY InstantFacts
  <2> QED
    BY <1>1
<1>3. Max(rows) \in rows /\ \A t \in rows : Max(rows) >= t
  BY <1>2 DEF Max
<1>4. \A t \in rows : Max(rows) >= t => t <= Max(rows)
  BY <1>3, InstantFacts
<1> QED
  BY <1>3, <1>4

\* A later instant is in no earlier month.
LEMMA MonthMonotone ==
    ASSUME NEW s \in CachedInstants, NEW t \in CachedInstants, s <= t
    PROVE  YearMonth(s) \in Nat /\ YearMonth(t) \in Nat /\ YearMonth(s) <= YearMonth(t)
  BY CacheAssumption, SMTT(30) DEF YearMonth, CachedInstants

\* An instant lies within its month.
LEMMA MonthBounds ==
    ASSUME NEW t \in CachedInstants
    PROVE  /\ YearMonth(t) \in Nat /\ YearMonth(t) * MonthLength \in Nat
           /\ YearMonth(t) * MonthLength <= t /\ t < (YearMonth(t) + 1) * MonthLength
<1> t \in Nat /\ MonthLength \in Nat \ {0}
  BY CacheAssumption DEF CachedInstants
<1> QED
  BY SMTT(30) DEF YearMonth

\* A part is of one month (cache.rs, the loop of write); what is left of that month is the last
\* instant at most, where the start of the next month saturates.
LEMMA PartIs ==
    ASSUME NEW rows \in SUBSET CachedInstants, rows # {}
    PROVE  /\ PartRows(rows) \in SUBSET rows /\ Min(rows) \in PartRows(rows)
           /\ \A t \in PartRows(rows) : YearMonth(t) = YearMonth(Min(rows))
           /\ \A t \in rows \ PartRows(rows) : YearMonth(t) = YearMonth(Min(rows)) => t = LastInstant
<1> DEFINE first == Min(rows)
           m == YearMonth(first)
<1>1. first \in rows /\ \A t \in rows : first <= t /\ t \in CachedInstants /\ t \in Nat /\ t <= LastInstant
  BY MinIs, CacheAssumption DEF CachedInstants
<1>2. PartRows(rows) = {t \in rows : t < MonthStart(m + 1)} \union {first}
  BY DEF PartRows
<1>3. m \in Nat /\ MonthStart(m + 1) = IF (m + 1) * MonthLength < LastInstant THEN (m + 1) * MonthLength ELSE LastInstant
  BY <1>1, MonthBounds DEF MonthStart, Lower
<1>4. (m + 1) * MonthLength \in Nat /\ LastInstant \in Nat
  BY <1>3, CacheAssumption
<1> HIDE DEF m, first
<1>5. ASSUME NEW t \in rows, t < MonthStart(m + 1) PROVE YearMonth(t) = m
  <2>1. t < (m + 1) * MonthLength
    BY <1>1, <1>3, <1>4, <1>5
  <2>2. YearMonth(t) < m + 1
    <3>1. YearMonth(t) \in Nat /\ YearMonth(t) * MonthLength <= t
      BY <1>1, MonthBounds
    <3> t \in Nat /\ MonthLength \in Nat \ {0}
      BY <1>1, CacheAssumption
    <3> SUFFICES ASSUME m + 1 <= YearMonth(t) PROVE FALSE
      BY <3>1, <1>3
    <3>2. (m + 1) * MonthLength <= YearMonth(t) * MonthLength
      BY <3>1, <1>3, SMTT(30)
    <3> QED
      BY <2>1, <3>1, <3>2, <1>4
  <2>3. m <= YearMonth(t) /\ YearMonth(t) \in Nat
    BY <1>1, MonthMonotone DEF m
  <2> QED
    BY <1>3, <2>2, <2>3
<1>6. ASSUME NEW t \in rows, ~(t < MonthStart(m + 1)), YearMonth(t) = m PROVE t = LastInstant
  BY <1>1, <1>3, <1>4, <1>6, MonthBounds
<1> QED
  BY <1>1, <1>2, <1>5, <1>6 DEF m, first

\* What a part leaves is less.
LEMMA RestIsLess ==
    ASSUME NEW rows \in SUBSET CachedInstants, rows # {}
    PROVE  Cardinality(rows \ PartRows(rows)) < Cardinality(rows)
<1>1. rows \ PartRows(rows) \in SUBSET rows /\ rows \ PartRows(rows) # rows
  BY PartIs
<1>2. IsFiniteSet(rows) /\ Cardinality(rows) \in Nat /\ Cardinality(rows \ PartRows(rows)) \in Nat
  BY InstantFacts
<1> QED
  BY <1>1, <1>2, FS_Subset

\* The sets of at most n instants.
Few(n) == {rows \in SUBSET CachedInstants : Cardinality(rows) <= n}

\* A function that splits them as PartsOf does.
SplitsFew(parts, n) ==
    /\ parts = [rows \in Few(n) |-> parts[rows]]
    /\ \A rows \in Few(n) :
         parts[rows] = IF rows = {} THEN <<>> ELSE <<PartRows(rows)>> \o parts[rows \ PartRows(rows)]

\* The sets that splitting goes down to.
LEMMA FewFacts ==
    /\ \A n \in Nat : Few(n) \subseteq Few(n + 1)
    /\ \A n \in Nat : \A rows \in Few(n + 1) \ {{}} : rows \ PartRows(rows) \in Few(n)
    /\ \A rows \in Few(0) : rows = {}
    /\ \A n \in Nat : \A rows \in Few(n) \ {{}} : rows \ PartRows(rows) \in Few(n)
    /\ Few(Cardinality(CachedInstants)) = SUBSET CachedInstants
<1>1. \A n \in Nat : Few(n) \subseteq Few(n + 1)
  BY InstantFacts DEF Few
<1>2. \A n \in Nat : \A rows \in Few(n + 1) \ {{}} : rows \ PartRows(rows) \in Few(n)
  <2> SUFFICES ASSUME NEW n \in Nat, NEW rows \in Few(n + 1) \ {{}} PROVE rows \ PartRows(rows) \in Few(n)
    OBVIOUS
  <2> rows \in SUBSET CachedInstants /\ Cardinality(rows) <= n + 1 /\ rows \ PartRows(rows) \in SUBSET CachedInstants
    BY DEF Few
  <2> Cardinality(rows) \in Nat /\ Cardinality(rows \ PartRows(rows)) \in Nat
    BY InstantFacts
  <2> Cardinality(rows \ PartRows(rows)) < Cardinality(rows)
    BY RestIsLess
  <2> QED
    BY DEF Few
<1>3. \A rows \in Few(0) : rows = {}
  <2> SUFFICES ASSUME NEW rows \in Few(0), rows # {} PROVE FALSE
    OBVIOUS
  <2> rows \in SUBSET CachedInstants /\ Cardinality(rows) <= 0
    BY DEF Few
  <2> IsFiniteSet(rows) /\ Cardinality(rows) \in Nat
    BY InstantFacts
  <2> QED
    BY FS_EmptySet
<1>4. \A n \in Nat : \A rows \in Few(n) \ {{}} : rows \ PartRows(rows) \in Few(n)
  BY <1>1, <1>2
<1>5. Few(Cardinality(CachedInstants)) = SUBSET CachedInstants
  BY InstantFacts DEF Few
<1> QED
  BY <1>1, <1>2, <1>3, <1>4, <1>5

\* There is such a function for every n.
LEMMA SplitExists ==
    ASSUME NEW n \in Nat
    PROVE  \E parts : SplitsFew(parts, n)
<1> DEFINE S == {k \in Nat : \E parts : SplitsFew(parts, k)}
<1>1. 0 \in S
  <2> SplitsFew([rows \in Few(0) |-> <<>>], 0)
    BY FewFacts DEF SplitsFew
  <2> QED
    OBVIOUS
<1>2. ASSUME NEW k \in Nat, k \in S PROVE k + 1 \in S
  <2>1. PICK parts : SplitsFew(parts, k)
    BY <1>2
  <2> DEFINE more == [rows \in Few(k + 1) |->
                        IF rows = {} THEN <<>> ELSE <<PartRows(rows)>> \o parts[rows \ PartRows(rows)]]
  <2>2. \A rows \in Few(k) : more[rows] = parts[rows]
    BY <2>1, FewFacts DEF SplitsFew
  <2>3. \A rows \in Few(k + 1) :
          more[rows] = IF rows = {} THEN <<>> ELSE <<PartRows(rows)>> \o more[rows \ PartRows(rows)]
    <3> SUFFICES ASSUME NEW rows \in Few(k + 1), rows # {}
                 PROVE  more[rows] = <<PartRows(rows)>> \o more[rows \ PartRows(rows)]
      OBVIOUS
    <3> rows \ PartRows(rows) \in Few(k)
      BY FewFacts
    <3> QED
      BY <2>2
  <2>4. more = [rows \in Few(k + 1) |-> more[rows]]
    OBVIOUS
  <2>5. SplitsFew(more, k + 1)
    <3> HIDE DEF more
    <3> QED
      BY <2>3, <2>4 DEF SplitsFew
  <2> QED
    BY <2>5
<1> HIDE DEF S
<1>3. n \in S
  BY <1>1, <1>2, NatSetInduction
<1> QED
  BY <1>3 DEF S

\* PartsOf has the value its definition says: its recursion ends.
LEMMA PartsAre ==
    \A rows \in SUBSET CachedInstants :
      PartsOf[rows] = IF rows = {} THEN <<>> ELSE <<PartRows(rows)>> \o PartsOf[rows \ PartRows(rows)]
<1> DEFINE P(f) == f = [rows \in SUBSET CachedInstants |->
                          IF rows = {} THEN <<>> ELSE <<PartRows(rows)>> \o f[rows \ PartRows(rows)]]
<1>1. PICK parts : SplitsFew(parts, Cardinality(CachedInstants))
  BY SplitExists, InstantFacts
<1>2. P(parts)
  BY <1>1, FewFacts DEF SplitsFew
<1>3. P(PartsOf)
  BY <1>2 DEF PartsOf
<1> QED
  BY <1>3

\* Parts of some rows, each within a month, and no two of one month, but for the last instant.
SplitsWell(rows, parts) ==
    /\ parts \in Seq(SUBSET rows)
    /\ \A i \in DOMAIN parts : parts[i] # {} /\ \A t, u \in parts[i] : YearMonth(t) = YearMonth(u)
    /\ \A i, j \in DOMAIN parts : i < j =>
         \A t \in parts[i], u \in parts[j] : YearMonth(t) = YearMonth(u) => u = LastInstant

\* A part in front of what it leaves.
LEMMA SplitsOn ==
    ASSUME NEW rows \in SUBSET CachedInstants, rows # {}, NEW rest, SplitsWell(rows \ PartRows(rows), rest)
    PROVE  SplitsWell(rows, <<PartRows(rows)>> \o rest)
<1> DEFINE P == PartRows(rows)
           all == <<P>> \o rest
<1>1. P \in SUBSET rows /\ P # {} /\ (\A t, u \in P : YearMonth(t) = YearMonth(u))
      /\ \A t \in P, u \in rows \ P : YearMonth(t) = YearMonth(u) => u = LastInstant
  BY PartIs
<1>2. rest \in Seq(SUBSET (rows \ P)) /\ rest \in Seq(SUBSET rows)
  <2>1. rest \in Seq(SUBSET (rows \ P))
    BY DEF SplitsWell
  <2>2. \A i \in 1..Len(rest) : rest[i] \in SUBSET rows
    BY <2>1
  <2> QED
    BY <2>1, <2>2
<1> HIDE DEF P
<1>3. all \in Seq(SUBSET rows) /\ Len(all) = Len(rest) + 1 /\ all[1] = P
      /\ \A i \in 1..Len(rest) : all[i + 1] = rest[i]
  BY <1>1, <1>2
<1>4. \A i \in 1..Len(all) : i = 1 \/ (i - 1 \in 1..Len(rest) /\ all[i] = rest[i - 1])
  BY <1>2, <1>3
<1>5. DOMAIN all = 1..Len(all) /\ DOMAIN rest = 1..Len(rest)
  BY <1>2, <1>3
<1> HIDE DEF all
<1>6. \A i \in 1..Len(all) : all[i] # {} /\ \A t, u \in all[i] : YearMonth(t) = YearMonth(u)
  BY <1>1, <1>3, <1>4, <1>5 DEF SplitsWell, P
<1>7. ASSUME NEW i \in 1..Len(all), NEW j \in 1..Len(all), i < j, NEW t \in all[i], NEW u \in all[j],
             YearMonth(t) = YearMonth(u)
      PROVE  u = LastInstant
  <2>1. j # 1 /\ j - 1 \in 1..Len(rest) /\ all[j] = rest[j - 1] /\ u \in rows \ P
    BY <1>2, <1>3, <1>4, <1>7
  <2>2. CASE i = 1
    BY <2>1, <2>2, <1>1, <1>3, <1>7
  <2>3. CASE i # 1
    <3> i - 1 \in 1..Len(rest) /\ all[i] = rest[i - 1] /\ i - 1 < j - 1
      BY <2>3, <1>4, <1>7, <2>1
    <3> QED
      BY <2>1, <1>5, <1>7 DEF SplitsWell
  <2> QED
    BY <2>2, <2>3
<1>8. \A i, j \in DOMAIN all : i < j =>
        \A t \in all[i], u \in all[j] : YearMonth(t) = YearMonth(u) => u = LastInstant
  BY <1>5, <1>7
<1>9. SplitsWell(rows, all)
  BY <1>3, <1>5, <1>6, <1>8, Zenon DEF SplitsWell
<1> QED
  BY <1>9 DEF all, P

\* So does PartsOf split every set of instants.
LEMMA PartsSplitWell ==
    ASSUME NEW rows \in SUBSET CachedInstants
    PROVE  SplitsWell(rows, PartsOf[rows])
<1> DEFINE S == {n \in Nat : \A some \in Few(n) : SplitsWell(some, PartsOf[some])}
<1>0. SplitsWell({}, PartsOf[{}])
  <2> PartsOf[{}] = <<>>
    BY PartsAre
  <2> QED
    BY DEF SplitsWell
<1>1. 0 \in S
  BY <1>0, FewFacts
<1>2. ASSUME NEW n \in Nat, n \in S PROVE n + 1 \in S
  <2> SUFFICES ASSUME NEW some \in Few(n + 1) PROVE SplitsWell(some, PartsOf[some])
    OBVIOUS
  <2> SUFFICES ASSUME some # {} PROVE SplitsWell(some, PartsOf[some])
    BY <1>0
  <2>1. some \in SUBSET CachedInstants
    BY DEF Few
  <2>2. SplitsWell(some \ PartRows(some), PartsOf[some \ PartRows(some)])
    BY <1>2, FewFacts
  <2>3. PartsOf[some] = <<PartRows(some)>> \o PartsOf[some \ PartRows(some)]
    BY <2>1, PartsAre
  <2> QED
    BY <2>1, <2>2, <2>3, SplitsOn
<1> HIDE DEF S
<1>3. Cardinality(CachedInstants) \in S
  BY <1>1, <1>2, NatSetInduction, InstantFacts
<1> QED
  BY <1>3, FewFacts DEF S

\* The greatest of some numbers.
LEMMA MaxOf ==
    ASSUME NEW S \in SUBSET Nat, S # {}, NEW n \in Nat, \A x \in S : x <= n
    PROVE  Max(S) \in S /\ \A x \in S : x <= Max(S)
<1>1. PICK m \in S : \A x \in S : x <= m
  BY GreatestNat
<1>2. \A x \in S : m >= x
  BY <1>1
<1>3. Max(S) \in S /\ \A x \in S : Max(S) >= x
  BY <1>2 DEF Max
<1> QED
  BY <1>3

\* A read lists the month of every instant of its range (months_between).
LEMMA RangeMonths ==
    ASSUME NEW start \in CachedInstants, NEW end \in CachedInstants
    PROVE  /\ MonthsBetween(start, end) \in SUBSET Months
           /\ \A t \in CachedInstants : start <= t /\ BeforeEnd(t, end) => YearMonth(t) \in MonthsBetween(start, end)
<1> DEFINE last == IF end = LastInstant \/ end = 0 THEN end ELSE end - 1
<1>1. LastInstant \in CachedInstants /\ LastInstant \in Nat /\ start \in Nat /\ end \in Nat
  BY CacheAssumption DEF CachedInstants
<1>2. last \in CachedInstants /\ \A t \in CachedInstants : BeforeEnd(t, end) => t <= last
  BY <1>1 DEF CachedInstants, BeforeEnd
<1>3. MonthsBetween(start, end) = YearMonth(start)..YearMonth(last)
  BY DEF MonthsBetween
<1> HIDE DEF last
<1>4. YearMonth(last) <= YearMonth(LastInstant) /\ YearMonth(last) \in Nat /\ YearMonth(LastInstant) \in Nat /\ YearMonth(start) \in Nat
  <2> \A t \in CachedInstants : t <= LastInstant
    BY CacheAssumption DEF CachedInstants
  <2> QED
    BY <1>1, <1>2, MonthMonotone
<1>5. MonthsBetween(start, end) \in SUBSET Months
  BY <1>3, <1>4 DEF Months, YearMonth
<1>6. \A t \in CachedInstants : start <= t /\ t <= last =>
        YearMonth(start) <= YearMonth(t) /\ YearMonth(t) <= YearMonth(last) /\ YearMonth(t) \in Nat
  BY <1>2, MonthMonotone
<1> QED
  BY <1>2, <1>3, <1>4, <1>5, <1>6

-----------------------------------------------------------------------------
(* The cache: the inductive invariant *)

\* What a read under way can be.
ReadStates == [from : CachedInstants, to : CachedInstants, months : SUBSET Months, listed : SUBSET Objects,
               least : Shown, open : BOOLEAN]
\* What an answer can be.
Answers == [from : CachedInstants, to : CachedInstants, shown : Shown, least : Shown]

\* The objects of the store and those that are still to be put.
PartsHeld == objects \union UNION {{putting[w][i] : i \in DOMAIN putting[w]} : w \in CacheWriters}

\* The types of the variables; the stamps are not far ahead of the clock.
CacheTypes ==
    /\ objects \in SUBSET Objects
    /\ putting \in [CacheWriters -> Seq(Objects)]
    /\ reading \in [CacheReaders -> ReadStates] /\ answered \in [CacheReaders -> Answers]
    /\ wallClock \in Nat /\ startedAt \in Nat /\ startedAt <= wallClock /\ wallClock <= LastCacheTime
    /\ calls \in Nat /\ calls <= LastCacheWrite
    /\ lastStamp \in Nat /\ lastStamp <= LastCacheTime + calls

\* Of the parts: their calls and stamps are from the past, their rows from their month, later calls
\* have later stamps, and a call has one part with an instant of a month, but for the last instant.
PartsFit ==
    /\ \A o \in PartsHeld : /\ o.call <= calls /\ (o.stamp <= lastStamp \/ o.stamp < startedAt)
                            /\ \A t \in o.rows : YearMonth(t) = o.month
    /\ \A o, p \in PartsHeld : (o.call < p.call => o.stamp < p.stamp) /\ (o.call = p.call => o.stamp = p.stamp)
    /\ \A o, p \in PartsHeld : \A t \in o.rows, u \in p.rows :
         (o.call = p.call /\ o.month = p.month /\ t # LastInstant /\ u # LastInstant) => o = p

\* A read under way: an object as new as what it is to show was listed, or is in a month that is
\* still to be listed.
ReadFits(r) ==
    /\ reading[r].listed \subseteq objects
    /\ \A t \in CachedInstants :
         (reading[r].from <= t /\ BeforeEnd(t, reading[r].to) /\ reading[r].least[t] # 0) =>
           \E o \in objects : /\ t \in o.rows /\ reading[r].least[t] <= o.call
                              /\ o.month \in reading[r].months \/ o \in reading[r].listed

\* An answer: it shows nothing older than it has to, of its range alone and from an object whose
\* other instants it shows from no earlier write.
AnswerFits(r) ==
    \A t \in CachedInstants :
      LET shown == answered[r].shown
      IN  /\ t \in InRangeOf(answered[r]) => answered[r].least[t] <= shown[t]
          /\ t \notin InRangeOf(answered[r]) => shown[t] = 0
          /\ shown[t] # 0 =>
               \E o \in objects : /\ o.call = shown[t] /\ t \in o.rows
                                  /\ t # LastInstant => \A u \in o.rows \intersect InRangeOf(answered[r]) : shown[t] <= shown[u]

\* The inductive invariant.
CacheIInv ==
    /\ CacheTypes /\ PartsFit
    /\ \A r \in CacheReaders : ReadFits(r) /\ AnswerFits(r)

\* Nothing read and nothing shown.
LEMMA NoShows ==
    /\ NoRead \in ReadStates /\ NoShow \in Answers /\ NoCalls \in Shown
    /\ NoRead.listed = {} /\ NoRead.least = NoCalls /\ NoShow.shown = NoCalls /\ NoShow.least = NoCalls
    /\ \A t \in CachedInstants : NoCalls[t] = 0
<1>1. 0 \in CachedInstants /\ 0 \in 0..LastCacheWrite
  BY CacheAssumption DEF CachedInstants
<1>2. NoCalls \in Shown
  BY <1>1 DEF NoCalls, Shown
<1> QED
  BY <1>1, <1>2 DEF NoRead, NoShow, ReadStates, Answers, NoCalls

\* Where nothing is read and shown, nothing can be wrong.
LEMMA AtRest ==
    ASSUME NEW r \in CacheReaders
    PROVE  /\ reading'[r] = NoRead => ReadFits(r)'
           /\ answered'[r] = NoShow => AnswerFits(r)'
<1>1. ASSUME reading'[r] = NoRead PROVE ReadFits(r)'
  BY <1>1, NoShows DEF ReadFits
<1>2. ASSUME answered'[r] = NoShow PROVE AnswerFits(r)'
  BY <1>2, NoShows DEF AnswerFits
<1> QED
  BY <1>1, <1>2

\* The inductive invariant holds in the beginning.
LEMMA CacheIInvInit ==
    ASSUME CacheInit
    PROVE  CacheIInv
<1>1. CacheTypes
  <2> 1 <= LastCacheTime /\ LastCacheTime \in Nat /\ LastCacheWrite \in Nat
    BY CacheAssumption
  <2> QED
    BY NoShows DEF CacheInit, CacheTypes
<1>2. PartsHeld = {}
  <2>1. \A w \in CacheWriters : DOMAIN putting[w] = {}
    BY DEF CacheInit
  <2> QED
    BY <2>1 DEF CacheInit, PartsHeld
<1>3. PartsFit
  BY <1>2 DEF PartsFit
<1>4. ASSUME NEW r \in CacheReaders PROVE ReadFits(r) /\ AnswerFits(r)
  <2> reading[r] = NoRead /\ answered[r] = NoShow
    BY DEF CacheInit
  <2> QED
    BY NoShows DEF ReadFits, AnswerFits
<1> QED
  BY <1>1, <1>3, <1>4 DEF CacheIInv

\* The fields of the parts.
LEMMA PartsTyped ==
    ASSUME CacheTypes
    PROVE  /\ PartsHeld \in SUBSET Objects /\ objects \subseteq PartsHeld
           /\ \A o \in Objects : /\ o.stamp \in Nat /\ o.call \in Nat \ {0} /\ o.call <= LastCacheWrite
                                 /\ o.stamp <= LastCacheTime + LastCacheWrite
                                 /\ o.rows \in SUBSET CachedInstants /\ o.month \in Nat
<1>1. \A w \in CacheWriters : \A i \in DOMAIN putting[w] : putting[w][i] \in Objects
  <2> SUFFICES ASSUME NEW w \in CacheWriters, NEW i \in DOMAIN putting[w] PROVE putting[w][i] \in Objects
    OBVIOUS
  <2> putting[w] \in Seq(Objects)
    BY DEF CacheTypes
  <2> QED
    OBVIOUS
<1>2. objects \in SUBSET Objects
  BY DEF CacheTypes
<1>3. PartsHeld \in SUBSET Objects /\ objects \subseteq PartsHeld
  BY <1>1, <1>2 DEF PartsHeld
<1>4. ASSUME NEW o \in Objects
      PROVE  /\ o.stamp \in Nat /\ o.call \in Nat \ {0} /\ o.call <= LastCacheWrite
             /\ o.stamp <= LastCacheTime + LastCacheWrite
             /\ o.rows \in SUBSET CachedInstants /\ o.month \in Nat
  <2> o.month \in Months /\ o.rows \in SUBSET CachedInstants /\ o.stamp \in Stamps /\ o.call \in Writes
    BY DEF Objects
  <2> QED
    BY CacheAssumption DEF Months, Stamps, Writes
<1> QED
  BY <1>3, <1>4

\* Fewer parts fit as well.
LEMMA FewerParts ==
    ASSUME PartsFit, PartsHeld' \subseteq PartsHeld, calls' = calls, lastStamp' = lastStamp, startedAt' = startedAt
    PROVE  PartsFit'
  BY DEF PartsFit

\* Objects that are added keep what was read and answered right.
LEMMA ObjectsGrow ==
    ASSUME objects \subseteq objects', NEW r \in CacheReaders
    PROVE  /\ ReadFits(r) /\ reading'[r] = reading[r] => ReadFits(r)'
           /\ AnswerFits(r) /\ answered'[r] = answered[r] => AnswerFits(r)'
<1>1. ASSUME ReadFits(r), reading'[r] = reading[r] PROVE ReadFits(r)'
  BY <1>1 DEF ReadFits
<1>2. ASSUME AnswerFits(r), answered'[r] = answered[r] PROVE AnswerFits(r)'
  BY <1>2 DEF AnswerFits
<1> QED
  BY <1>1, <1>2

\* The parts of a new write.
LEMMA BeginWriteParts ==
    ASSUME CacheTypes, NEW rows \in CacheFrames, NEW stamp \in Nat, stamp <= LastCacheTime + (calls + 1), calls < LastCacheWrite,
           NEW new, new = [i \in DOMAIN PartsOf[rows] |->
                             [month |-> YearMonth(Min(PartsOf[rows][i])), rows |-> PartsOf[rows][i],
                              stamp |-> stamp, call |-> calls + 1]]
    PROVE  /\ new \in Seq(Objects)
           /\ \A i \in DOMAIN new : /\ new[i].stamp = stamp /\ new[i].call = calls + 1
                                    /\ \A t \in new[i].rows : YearMonth(t) = new[i].month
           /\ \A i, j \in DOMAIN new : \A t \in new[i].rows, u \in new[j].rows :
                (new[i].month = new[j].month /\ t # LastInstant /\ u # LastInstant) => i = j
<1> DEFINE parts == PartsOf[rows]
<1>1. rows \in SUBSET CachedInstants
  BY CacheAssumption DEF CachedInstants
<1>2. SplitsWell(rows, parts)
  BY <1>1, PartsSplitWell
<1> HIDE DEF parts
<1>3. parts \in Seq(SUBSET rows) /\ DOMAIN parts = 1..Len(parts) /\ Len(parts) \in Nat
  BY <1>2 DEF SplitsWell
<1>4. ASSUME NEW i \in DOMAIN parts
      PROVE  /\ parts[i] \in SUBSET CachedInstants /\ Min(parts[i]) \in parts[i]
             /\ YearMonth(Min(parts[i])) \in Months
             /\ \A t \in parts[i] : YearMonth(t) = YearMonth(Min(parts[i]))
  <2>1. parts[i] \in SUBSET CachedInstants /\ parts[i] # {}
    BY <1>1, <1>2, <1>3 DEF SplitsWell
  <2>2. Min(parts[i]) \in parts[i]
    BY <2>1, MinIs
  <2>3. YearMonth(Min(parts[i])) \in Months
    <3>1. LastInstant \in CachedInstants /\ LastInstant \in Nat /\ \A t \in CachedInstants : t <= LastInstant
      BY CacheAssumption DEF CachedInstants
    <3>2. /\ YearMonth(Min(parts[i])) \in Nat /\ YearMonth(LastInstant) \in Nat
          /\ YearMonth(Min(parts[i])) <= YearMonth(LastInstant)
      BY <2>1, <2>2, <3>1, MonthMonotone
    <3> QED
      BY <3>2 DEF Months, YearMonth
  <2> QED
    BY <1>2, <2>1, <2>2, <2>3 DEF SplitsWell
<1>5. /\ DOMAIN new = 1..Len(parts)
      /\ \A i \in 1..Len(parts) : new[i] = [month |-> YearMonth(Min(parts[i])), rows |-> parts[i], stamp |-> stamp, call |-> calls + 1]
      /\ new = [i \in 1..Len(parts) |-> new[i]]
  BY <1>3 DEF parts
<1>6. stamp \in Stamps /\ calls + 1 \in Writes
  BY CacheAssumption DEF Stamps, Writes, CacheTypes
<1>7. \A i \in 1..Len(parts) : new[i] \in Objects
  BY <1>3, <1>4, <1>5, <1>6 DEF Objects
<1>8. new \in Seq(Objects)
  <2>1. new \in [1..Len(parts) -> Objects]
    BY <1>5, <1>7
  <2>2. \E n \in Nat : new \in [1..n -> Objects]
    BY <1>3, <2>1
  <2> QED
    BY <2>2, SeqDef
<1>9. \A i \in DOMAIN new : /\ new[i].stamp = stamp /\ new[i].call = calls + 1
                            /\ \A t \in new[i].rows : YearMonth(t) = new[i].month
  BY <1>3, <1>4, <1>5
<1>10. ASSUME NEW i \in DOMAIN new, NEW j \in DOMAIN new, NEW t \in new[i].rows, NEW u \in new[j].rows,
              new[i].month = new[j].month, t # LastInstant, u # LastInstant
       PROVE  i = j
  <2>1. i \in DOMAIN parts /\ j \in DOMAIN parts /\ i \in Nat /\ j \in Nat /\ t \in parts[i] /\ u \in parts[j]
    <3>1. i \in 1..Len(parts) /\ j \in 1..Len(parts)
      BY <1>5, <1>10
    <3>2. new[i].rows = parts[i] /\ new[j].rows = parts[j]
      BY <1>5, <3>1
    <3>3. i \in DOMAIN parts /\ j \in DOMAIN parts /\ i \in Nat /\ j \in Nat
      BY <1>3, <3>1
    <3> QED
      BY <1>10, <3>2, <3>3
  <2>2. YearMonth(t) = YearMonth(u)
    BY <1>9, <1>10
  <2>3. \A a, b \in DOMAIN parts : a < b =>
          \A x \in parts[a], y \in parts[b] : YearMonth(x) = YearMonth(y) => y = LastInstant
    BY <1>2 DEF SplitsWell
  <2>4. ~(i < j) /\ ~(j < i)
    BY <1>10, <2>1, <2>2, <2>3
  <2> QED
    BY <2>1, <2>4
<1>11. \A i, j \in DOMAIN new : \A t \in new[i].rows, u \in new[j].rows :
         (new[i].month = new[j].month /\ t # LastInstant /\ u # LastInstant) => i = j
  BY <1>10
<1> HIDE DEF parts
<1> QED
  BY <1>8, <1>9, <1>11, Zenon

\* The invariant is kept by a call of write: its stamp is later than every one before, of this
\* process and of the earlier ones.
LEMMA BeginWriteKeeps ==
    ASSUME CacheIInv, NEW w \in CacheWriters, BeginWrite(w)
    PROVE  CacheIInv'
<1>1. CacheTypes /\ PartsFit
  BY DEF CacheIInv
<1>2. PICK rows \in CacheFrames :
        /\ lastStamp' = NextWriteNs(wallClock, lastStamp) /\ calls' = calls + 1
        /\ putting' = [putting EXCEPT ![w] =
             [i \in DOMAIN PartsOf[rows] |->
                [month |-> YearMonth(Min(PartsOf[rows][i])), rows |-> PartsOf[rows][i],
                 stamp |-> NextWriteNs(wallClock, lastStamp), call |-> calls + 1]]]
  BY DEF BeginWrite
<1>3. UNCHANGED <<objects, wallClock, startedAt, reading, answered>> /\ calls < LastCacheWrite
  BY DEF BeginWrite
<1>4. /\ lastStamp' \in Nat /\ lastStamp < lastStamp' /\ wallClock <= lastStamp'
      /\ lastStamp' <= LastCacheTime + (calls + 1)
  BY <1>1, <1>2, CacheAssumption DEF CacheTypes, NextWriteNs, Newer
<1> DEFINE new == [i \in DOMAIN PartsOf[rows] |->
                     [month |-> YearMonth(Min(PartsOf[rows][i])), rows |-> PartsOf[rows][i],
                      stamp |-> NextWriteNs(wallClock, lastStamp), call |-> calls + 1]]
<1>5. /\ new \in Seq(Objects)
      /\ \A i \in DOMAIN new : /\ new[i].stamp = lastStamp' /\ new[i].call = calls + 1
                               /\ \A t \in new[i].rows : YearMonth(t) = new[i].month
      /\ \A i, j \in DOMAIN new : \A t \in new[i].rows, u \in new[j].rows :
           (new[i].month = new[j].month /\ t # LastInstant /\ u # LastInstant) => i = j
  <2> NextWriteNs(wallClock, lastStamp) = lastStamp'
    BY <1>2
  <2> QED
    BY <1>1, <1>3, <1>4, BeginWriteParts
<1>6. putting' = [putting EXCEPT ![w] = new]
  BY <1>2
<1> HIDE DEF new
<1>7. CacheTypes'
  <2>1. putting' \in [CacheWriters -> Seq(Objects)]
    BY <1>1, <1>5, <1>6 DEF CacheTypes
  <2>2. calls' \in Nat /\ calls' <= LastCacheWrite
    BY <1>1, <1>2, <1>3, CacheAssumption DEF CacheTypes
  <2>3. lastStamp' \in Nat /\ lastStamp' <= LastCacheTime + calls'
    BY <1>2, <1>4
  <2> QED
    BY <1>1, <1>3, <2>1, <2>2, <2>3 DEF CacheTypes
<1>8. ASSUME NEW o \in PartsHeld'
      PROVE  o \in PartsHeld \/ \E i \in DOMAIN new : o = new[i]
  <2>1. CASE o \in objects
    BY <2>1 DEF PartsHeld
  <2>2. CASE o \notin objects
    <3>0. PICK v \in CacheWriters : \E i \in DOMAIN putting'[v] : o = putting'[v][i]
      BY <1>3, <1>8, <2>2 DEF PartsHeld
    <3>1. PICK i \in DOMAIN putting'[v] : o = putting'[v][i]
      BY <3>0
    <3>2. CASE v = w
      BY <3>1, <3>2, <1>1, <1>6 DEF CacheTypes
    <3>3. CASE v # w
      <4> putting'[v] = putting[v]
        BY <3>3, <1>1, <1>6 DEF CacheTypes
      <4> QED
        BY <3>1 DEF PartsHeld
    <3> QED
      BY <3>2, <3>3
  <2> QED
    BY <2>1, <2>2
<1>9. \A o \in PartsHeld : /\ o.call \in Nat /\ o.stamp \in Nat /\ o.call <= calls
                           /\ o.stamp < lastStamp'
                           /\ \A t \in o.rows : YearMonth(t) = o.month
  BY <1>1, <1>4, PartsTyped DEF PartsFit, CacheTypes
<1>10. calls \in Nat
  BY <1>1 DEF CacheTypes
<1>11. PartsFit'
  <2>1. \A o \in PartsHeld' : /\ o.call <= calls' /\ (o.stamp <= lastStamp' \/ o.stamp < startedAt')
                              /\ \A t \in o.rows : YearMonth(t) = o.month
    BY <1>2, <1>4, <1>5, <1>8, <1>9, <1>10
  <2>2. ASSUME NEW o \in PartsHeld', NEW p \in PartsHeld'
        PROVE  (o.call < p.call => o.stamp < p.stamp) /\ (o.call = p.call => o.stamp = p.stamp)
    <3>1. CASE o \in PartsHeld /\ p \in PartsHeld
      BY <3>1, <1>1 DEF PartsFit
    <3>2. CASE o \in PartsHeld /\ \E i \in DOMAIN new : p = new[i]
      BY <3>2, <1>4, <1>5, <1>9, <1>10
    <3>3. CASE p \in PartsHeld /\ \E i \in DOMAIN new : o = new[i]
      BY <3>3, <1>4, <1>5, <1>9, <1>10
    <3>4. CASE (\E i \in DOMAIN new : o = new[i]) /\ \E i \in DOMAIN new : p = new[i]
      BY <3>4, <1>4, <1>5, <1>10
    <3> QED
      BY <1>8, <3>1, <3>2, <3>3, <3>4
  <2>3. ASSUME NEW o \in PartsHeld', NEW p \in PartsHeld', NEW t \in o.rows, NEW u \in p.rows,
               o.call = p.call, o.month = p.month, t # LastInstant, u # LastInstant
        PROVE  o = p
    <3>1. CASE o \in PartsHeld /\ p \in PartsHeld
      BY <3>1, <2>3, <1>1 DEF PartsFit
    <3>2. CASE o \in PartsHeld /\ \E i \in DOMAIN new : p = new[i]
      BY <3>2, <2>3, <1>5, <1>9, <1>10
    <3>3. CASE p \in PartsHeld /\ \E i \in DOMAIN new : o = new[i]
      BY <3>3, <2>3, <1>5, <1>9, <1>10
    <3>4. CASE (\E i \in DOMAIN new : o = new[i]) /\ \E i \in DOMAIN new : p = new[i]
      BY <3>4, <2>3, <1>5
    <3> QED
      BY <1>8, <3>1, <3>2, <3>3, <3>4
  <2> QED
    BY <2>1, <2>2, <2>3 DEF PartsFit
<1>12. \A r \in CacheReaders : ReadFits(r)' /\ AnswerFits(r)'
  BY <1>3, ObjectsGrow DEF CacheIInv
<1> QED
  BY <1>7, <1>11, <1>12 DEF CacheIInv

\* It is kept by a PUT, and by one that fails.
LEMMA PutKeeps ==
    ASSUME CacheIInv, NEW w \in CacheWriters, PutPart(w) \/ PutFails(w)
    PROVE  CacheIInv'
<1>1. CacheTypes /\ PartsFit
  BY DEF CacheIInv
<1>2. UNCHANGED <<wallClock, startedAt, lastStamp, calls, reading, answered>> /\ putting[w] # <<>>
  BY DEF PutPart, PutFails
<1>3. putting[w] \in Seq(Objects) /\ putting \in [CacheWriters -> Seq(Objects)]
  BY <1>1 DEF CacheTypes
<1>4. /\ Head(putting[w]) = putting[w][1] /\ 1 \in DOMAIN putting[w] /\ Head(putting[w]) \in Objects
      /\ Tail(putting[w]) \in Seq(Objects)
      /\ \A i \in DOMAIN Tail(putting[w]) : i + 1 \in DOMAIN putting[w] /\ Tail(putting[w])[i] = putting[w][i + 1]
  BY <1>2, <1>3
<1>5. /\ objects \subseteq objects' /\ \A o \in objects' : o \in objects \/ o = putting[w][1]
      /\ putting' = [putting EXCEPT ![w] = Tail(putting[w])] \/ putting' = [putting EXCEPT ![w] = <<>>]
  BY <1>4 DEF PutPart, PutFails
<1>6. \A i \in DOMAIN putting'[w] : \E j \in DOMAIN putting[w] : putting'[w][i] = putting[w][j]
  BY <1>3, <1>4, <1>5
<1>7. \A v \in CacheWriters : v # w => putting'[v] = putting[v]
  BY <1>3, <1>5
<1>8. CacheTypes'
  <2>1. putting' \in [CacheWriters -> Seq(Objects)]
    <3> <<>> \in Seq(Objects)
      OBVIOUS
    <3> DEFINE rest == Tail(putting[w])
    <3> rest \in Seq(Objects)
      BY <1>4
    <3> putting' = [putting EXCEPT ![w] = rest] \/ putting' = [putting EXCEPT ![w] = <<>>]
      BY <1>5
    <3> HIDE DEF rest
    <3> QED
      BY <1>3
  <2>2. objects' \in SUBSET Objects
    BY <1>1, <1>4, <1>5 DEF CacheTypes
  <2> QED
    BY <1>1, <1>2, <2>1, <2>2 DEF CacheTypes
<1>9. PartsHeld' \subseteq PartsHeld
  <2> SUFFICES ASSUME NEW o \in PartsHeld' PROVE o \in PartsHeld
    OBVIOUS
  <2>1. CASE o \in objects'
    BY <2>1, <1>4, <1>5 DEF PartsHeld
  <2>2. CASE \E v \in CacheWriters : \E i \in DOMAIN putting'[v] : o = putting'[v][i]
    <3>1. PICK v \in CacheWriters : \E i \in DOMAIN putting'[v] : o = putting'[v][i]
      BY <2>2
    <3>2. \E j \in DOMAIN putting[v] : o = putting[v][j]
      BY <3>1, <1>6, <1>7
    <3> QED
      BY <3>2 DEF PartsHeld
  <2> QED
    BY <2>1, <2>2 DEF PartsHeld
<1>10. PartsFit'
  BY <1>1, <1>2, <1>9, FewerParts
<1>11. \A r \in CacheReaders : ReadFits(r)' /\ AnswerFits(r)'
  BY <1>2, <1>5, ObjectsGrow DEF CacheIInv
<1> QED
  BY <1>8, <1>10, <1>11 DEF CacheIInv

\* It is kept by the clock.
LEMMA ClockKeeps ==
    ASSUME CacheIInv, SetClock \/ UNCHANGED cacheVars
    PROVE  CacheIInv'
<1>1. UNCHANGED <<objects, startedAt, lastStamp, calls, putting, reading, answered>>
  BY DEF SetClock, cacheVars
<1>2. wallClock' \in Nat /\ startedAt <= wallClock' /\ wallClock' <= LastCacheTime
  <2>1. startedAt \in Nat /\ LastCacheTime \in Nat /\ wallClock \in Nat /\ startedAt <= wallClock /\ wallClock <= LastCacheTime
    BY CacheAssumption DEF CacheIInv, CacheTypes
  <2> QED
    BY <2>1 DEF SetClock, cacheVars
<1>3. CacheTypes'
  BY <1>1, <1>2 DEF CacheIInv, CacheTypes
<1>4. PartsFit'
  <2> PartsHeld' = PartsHeld
    BY <1>1 DEF PartsHeld
  <2> QED
    BY <1>1, FewerParts DEF CacheIInv
<1>5. \A r \in CacheReaders : ReadFits(r)' /\ AnswerFits(r)'
  BY <1>1, ObjectsGrow DEF CacheIInv
<1> QED
  BY <1>3, <1>4, <1>5 DEF CacheIInv

\* It is kept by a restart.
LEMMA RestartKeeps ==
    ASSUME CacheIInv, RestartProcess
    PROVE  CacheIInv'
<1>1. CacheTypes /\ PartsFit
  BY DEF CacheIInv
<1>2. /\ wallClock > lastStamp /\ lastStamp' = 0 /\ startedAt' = wallClock
      /\ putting' = [w \in CacheWriters |-> <<>>]
      /\ reading' = [r \in CacheReaders |-> NoRead]
      /\ answered' = [r \in CacheReaders |-> NoShow]
      /\ UNCHANGED <<objects, wallClock, calls>>
  BY DEF RestartProcess
<1>3. CacheTypes'
  BY <1>1, <1>2, NoShows, CacheAssumption DEF CacheTypes
<1>4. PartsHeld' \subseteq PartsHeld
  <2> \A w \in CacheWriters : DOMAIN putting'[w] = {}
    BY <1>2
  <2> QED
    BY <1>2 DEF PartsHeld
<1>5. PartsFit'
  <2>1. \A o \in PartsHeld : o.stamp \in Nat /\ o.stamp < startedAt'
    BY <1>1, <1>2, PartsTyped DEF PartsFit, CacheTypes
  <2> QED
    BY <1>1, <1>2, <1>4, <2>1 DEF PartsFit
<1>6. \A r \in CacheReaders : ReadFits(r)' /\ AnswerFits(r)'
  BY <1>2, AtRest
<1> QED
  BY <1>3, <1>5, <1>6 DEF CacheIInv

\* The newest write of an instant in the store.
LEMMA CalledIs ==
    ASSUME CacheTypes, NEW t \in CachedInstants
    PROVE  /\ Called(t) \in 0..LastCacheWrite
           /\ Called(t) # 0 => \E o \in objects : t \in o.rows /\ o.call = Called(t)
<1> DEFINE S == {0} \union {o.call : o \in {p \in objects : t \in p.rows}}
<1>1. S \in SUBSET Nat /\ S # {} /\ LastCacheWrite \in Nat /\ \A x \in S : x <= LastCacheWrite
  <2> \A o \in objects : o.call \in Nat /\ o.call <= LastCacheWrite
    BY PartsTyped DEF CacheTypes
  <2> QED
    BY CacheAssumption
<1>2. Called(t) = Max(S)
  BY DEF Called
<1> HIDE DEF S
<1>3. Max(S) \in S
  BY <1>1, MaxOf
<1> QED
  BY <1>1, <1>2, <1>3 DEF S

\* A step of one reader.
LEMMA OnlyOneReads ==
    ASSUME CacheIInv, UNCHANGED <<objects, wallClock, startedAt, lastStamp, calls, putting>>,
           NEW r \in CacheReaders,
           \A q \in CacheReaders : q # r => reading'[q] = reading[q] /\ answered'[q] = answered[q],
           reading' \in [CacheReaders -> ReadStates], answered' \in [CacheReaders -> Answers],
           ReadFits(r)', AnswerFits(r)'
    PROVE  CacheIInv'
<1>1. CacheTypes'
  BY DEF CacheIInv, CacheTypes
<1>2. PartsFit'
  <2> PartsHeld' = PartsHeld
    BY DEF PartsHeld
  <2> QED
    BY FewerParts DEF CacheIInv
<1>3. \A q \in CacheReaders : ReadFits(q)' /\ AnswerFits(q)'
  <2> SUFFICES ASSUME NEW q \in CacheReaders PROVE ReadFits(q)' /\ AnswerFits(q)'
    OBVIOUS
  <2>1. CASE q = r
    BY <2>1
  <2>2. CASE q # r
    BY <2>2, ObjectsGrow DEF CacheIInv
  <2> QED
    BY <2>1, <2>2
<1> QED
  BY <1>1, <1>2, <1>3 DEF CacheIInv

\* The invariant is kept by a call of read.
LEMMA BeginReadKeeps ==
    ASSUME CacheIInv, NEW r \in CacheReaders, BeginRead(r)
    PROVE  CacheIInv'
<1>1. CacheTypes /\ PartsFit
  BY DEF CacheIInv
<1>2. PICK range \in CacheRanges :
        reading' = [reading EXCEPT ![r] =
          [from |-> range[1], to |-> range[2],
           months |-> IF BeforeEnd(range[1], range[2]) THEN MonthsBetween(range[1], range[2]) ELSE {},
           listed |-> {}, least |-> [t \in CachedInstants |-> Called(t)], open |-> TRUE]]
  BY DEF BeginRead
<1>3. /\ UNCHANGED <<objects, wallClock, startedAt, lastStamp, calls, putting>>
      /\ answered' = [answered EXCEPT ![r] = NoShow]
  BY DEF BeginRead
<1>4. range[1] \in CachedInstants /\ range[2] \in CachedInstants
  BY CacheAssumption DEF CachedInstants
<1> DEFINE months == IF BeforeEnd(range[1], range[2]) THEN MonthsBetween(range[1], range[2]) ELSE {}
           least == [t \in CachedInstants |-> Called(t)]
           begun == [from |-> range[1], to |-> range[2], months |-> months, listed |-> {}, least |-> least, open |-> TRUE]
<1>5. months \in SUBSET Months
  BY <1>4, RangeMonths
<1>6. least \in Shown
  BY <1>1, CalledIs DEF Shown
<1>7. begun \in ReadStates
  <2> HIDE DEF months, least
  <2> QED
    BY <1>4, <1>5, <1>6 DEF ReadStates
<1>8. reading'[r] = begun /\ (\A q \in CacheReaders : q # r => reading'[q] = reading[q])
      /\ reading' \in [CacheReaders -> ReadStates]
  BY <1>1, <1>2, <1>7 DEF CacheTypes
<1>9. answered'[r] = NoShow /\ (\A q \in CacheReaders : q # r => answered'[q] = answered[q])
      /\ answered' \in [CacheReaders -> Answers]
  BY <1>1, <1>3, NoShows DEF CacheTypes
<1>10. ASSUME NEW t \in CachedInstants, range[1] <= t, BeforeEnd(t, range[2]), Called(t) # 0
       PROVE  \E o \in objects : t \in o.rows /\ Called(t) <= o.call /\ o.month \in months
  <2>1. PICK o \in objects : t \in o.rows /\ o.call = Called(t)
    BY <1>1, <1>10, CalledIs
  <2>2. o.month = YearMonth(t) /\ o.call \in Nat
    BY <1>1, <2>1, PartsTyped DEF PartsFit
  <2>3. BeforeEnd(range[1], range[2])
    <3> range[1] \in Nat /\ range[2] \in Nat /\ t \in Nat
      BY <1>4, InstantFacts
    <3> QED
      BY <1>10 DEF BeforeEnd
  <2>4. YearMonth(t) \in MonthsBetween(range[1], range[2])
    BY <1>4, <1>10, RangeMonths
  <2> QED
    BY <2>1, <2>2, <2>3, <2>4
<1>11. ReadFits(r)'
  <2>1. /\ reading'[r].listed = {} /\ reading'[r].from = range[1] /\ reading'[r].to = range[2]
        /\ reading'[r].months = months /\ \A t \in CachedInstants : reading'[r].least[t] = Called(t)
    BY <1>8
  <2> HIDE DEF months, begun
  <2> QED
    BY <1>3, <1>10, <2>1 DEF ReadFits
<1>12. AnswerFits(r)'
  BY <1>9, AtRest
<1> QED
  BY <1>3, <1>8, <1>9, <1>11, <1>12, OnlyOneReads

\* It is kept by the listing of a month.
LEMMA ListMonthKeeps ==
    ASSUME CacheIInv, NEW r \in CacheReaders, ListMonth(r)
    PROVE  CacheIInv'
<1>1. CacheTypes
  BY DEF CacheIInv
<1>2. PICK month : month = Min(reading[r].months)
  OBVIOUS
<1>3. /\ reading' = [reading EXCEPT ![r].months = @ \ {month},
                                    ![r].listed = @ \union {o \in objects : o.month = month}]
      /\ UNCHANGED <<objects, wallClock, startedAt, lastStamp, calls, putting, answered>>
  BY <1>2 DEF ListMonth
<1>4. reading[r] \in ReadStates /\ reading \in [CacheReaders -> ReadStates] /\ objects \in SUBSET Objects
  BY <1>1 DEF CacheTypes
<1>5. /\ reading'[r].months = reading[r].months \ {month}
      /\ reading'[r].listed = reading[r].listed \union {o \in objects : o.month = month}
      /\ reading'[r].from = reading[r].from /\ reading'[r].to = reading[r].to
      /\ reading'[r].least = reading[r].least
      /\ reading'[r] \in ReadStates /\ reading' \in [CacheReaders -> ReadStates]
      /\ \A q \in CacheReaders : q # r => reading'[q] = reading[q]
  BY <1>3, <1>4 DEF ReadStates
<1>6. ReadFits(r)'
  <2>1. ReadFits(r)
    BY DEF CacheIInv
  <2>2. \A o \in objects : (o.month \in reading[r].months \/ o \in reading[r].listed)
                             => (o.month \in reading'[r].months \/ o \in reading'[r].listed)
    BY <1>5
  <2>3. reading'[r].listed \subseteq objects
    BY <1>5, <2>1 DEF ReadFits
  <2> QED
    BY <1>3, <1>5, <2>1, <2>2, <2>3 DEF ReadFits
<1>7. AnswerFits(r)' /\ answered' \in [CacheReaders -> Answers]
  BY <1>1, <1>3, ObjectsGrow DEF CacheIInv, CacheTypes
<1> QED
  BY <1>3, <1>5, <1>6, <1>7, OnlyOneReads

\* The object that wins has the latest stamp.
LEMMA WinnerIs ==
    ASSUME NEW those \in SUBSET Objects, those # {}, CacheTypes
    PROVE  Winner(those) \in those /\ \A p \in those : p.stamp <= Winner(those).stamp
<1> DEFINE S == {o.stamp : o \in those}
<1>1. \A o \in those : o.stamp \in Nat /\ o.stamp <= LastCacheTime + LastCacheWrite
  BY PartsTyped
<1>2. S \in SUBSET Nat /\ S # {} /\ LastCacheTime + LastCacheWrite \in Nat /\ \A x \in S : x <= LastCacheTime + LastCacheWrite
  BY <1>1, CacheAssumption
<1>3. PICK x \in S : \A y \in S : y <= x
  <2> HIDE DEF S
  <2> QED
    BY <1>2, GreatestNat
<1>4. \E o \in those : \A p \in those : p.stamp <= o.stamp
  BY <1>3
<1> QED
  BY <1>4 DEF Winner

\* The objects a read has listed and decodes for an instant.
Listed(r, t) ==
    {o \in reading[r].listed : t \in o.rows /\ MayMatch(o.rows, reading[r].from, reading[r].to)}

\* Whether an instant belongs to a range.
InsideOf(t, from, to) == t >= from /\ BeforeEnd(t, to)

\* No object with a row of the range is passed over (row_group_may_match).
LEMMA ListedIs ==
    ASSUME CacheTypes, NEW r \in CacheReaders, NEW t \in CachedInstants,
           InsideOf(t, reading[r].from, reading[r].to)
    PROVE  Listed(r, t) = {o \in reading[r].listed : t \in o.rows}
<1>1. reading[r].listed \in SUBSET Objects /\ reading[r].from \in CachedInstants /\ reading[r].to \in CachedInstants
  BY DEF CacheTypes, ReadStates
<1> SUFFICES ASSUME NEW o \in reading[r].listed, t \in o.rows
             PROVE  MayMatch(o.rows, reading[r].from, reading[r].to)
  BY DEF Listed
<1>2. o.rows \in SUBSET CachedInstants /\ o.rows # {}
  BY <1>1, PartsTyped
<1>3. /\ Max(o.rows) \in CachedInstants /\ t <= Max(o.rows)
      /\ Min(o.rows) \in CachedInstants /\ Min(o.rows) <= t
  BY <1>2, MinIs, MaxIs
<1>4. t \in Nat /\ Max(o.rows) \in Nat /\ Min(o.rows) \in Nat /\ reading[r].from \in Nat /\ reading[r].to \in Nat
  BY <1>1, <1>3, InstantFacts
<1> QED
  BY <1>3, <1>4 DEF MayMatch, BeforeEnd, InsideOf

\* The invariant is kept by an answer.
LEMMA AnswerKeeps ==
    ASSUME CacheIInv, NEW r \in CacheReaders, AnswerRead(r)
    PROVE  CacheIInv'
<1> DEFINE from == reading[r].from
           to == reading[r].to
           listed == reading[r].listed
           least == reading[r].least
           shown == [t \in CachedInstants |->
                       IF InsideOf(t, from, to) /\ Listed(r, t) # {} THEN Winner(Listed(r, t)).call ELSE 0]
           answer == [from |-> from, to |-> to, least |-> least, shown |-> shown]
<1>1. CacheTypes /\ PartsFit /\ ReadFits(r)
  BY DEF CacheIInv
<1>2. /\ UNCHANGED <<objects, wallClock, startedAt, lastStamp, calls, putting>>
      /\ reading' = [reading EXCEPT ![r] = NoRead] /\ reading[r].months = {}
  BY DEF AnswerRead
<1>3. answered' = [answered EXCEPT ![r] = answer]
  BY DEF AnswerRead, InsideOf, Listed
<1>4. /\ reading[r] \in ReadStates /\ from \in CachedInstants /\ to \in CachedInstants /\ listed \in SUBSET Objects
      /\ least \in Shown /\ listed \subseteq objects
  BY <1>1 DEF CacheTypes, ReadStates, ReadFits
<1>5. \A o, p \in listed : o.call \in Nat /\ p.call \in Nat /\ (p.stamp <= o.stamp => p.call <= o.call)
  <2> SUFFICES ASSUME NEW o \in listed, NEW p \in listed, p.stamp <= o.stamp PROVE p.call <= o.call
    BY <1>1, <1>4, PartsTyped
  <2>1. o \in PartsHeld /\ p \in PartsHeld
    BY <1>1, <1>4, PartsTyped
  <2>2. o.call < p.call => o.stamp < p.stamp
    BY <1>1, <2>1 DEF PartsFit
  <2>3. o.call \in Nat /\ p.call \in Nat /\ o.stamp \in Nat /\ p.stamp \in Nat
    BY <1>1, <1>4, PartsTyped
  <2> QED
    BY <2>2, <2>3
<1>6. ASSUME NEW t \in CachedInstants, InsideOf(t, from, to)
      PROVE  /\ shown[t] \in 0..LastCacheWrite
             /\ \A o \in listed : t \in o.rows => o.call <= shown[t]
             /\ shown[t] # 0 => \E o \in listed : t \in o.rows /\ o.call = shown[t]
  <2>1. Listed(r, t) = {o \in listed : t \in o.rows}
    BY <1>1, <1>6, ListedIs
  <2>2. CASE Listed(r, t) = {}
    <3> shown[t] = 0
      BY <2>2
    <3> QED
      BY <2>1, <2>2, CacheAssumption
  <2>3. CASE Listed(r, t) # {}
    <3>1. shown[t] = Winner(Listed(r, t)).call
      BY <1>6, <2>3
    <3>2. Winner(Listed(r, t)) \in Listed(r, t) /\ \A p \in Listed(r, t) : p.stamp <= Winner(Listed(r, t)).stamp
      <4> Listed(r, t) \in SUBSET Objects
        BY <1>4, <2>1
      <4> QED
        BY <1>1, <2>3, WinnerIs
    <3> PICK best : best = Winner(Listed(r, t))
      OBVIOUS
    <3>3. best \in listed /\ t \in best.rows /\ best.call = shown[t]
      BY <2>1, <3>1, <3>2
    <3>4. \A o \in listed : t \in o.rows => o.call <= best.call
      BY <1>5, <2>1, <3>2, <3>3
    <3>5. best.call \in 0..LastCacheWrite
      BY <1>1, <1>4, <3>3, PartsTyped, CacheAssumption
    <3> HIDE DEF shown, listed
    <3> QED
      BY <3>3, <3>4, <3>5
  <2> QED
    BY <2>2, <2>3
<1>7. \A t \in CachedInstants : ~InsideOf(t, from, to) => shown[t] = 0
  OBVIOUS
<1>8. shown = [t \in CachedInstants |-> shown[t]] /\ 0 \in 0..LastCacheWrite
  BY CacheAssumption
<1> HIDE DEF shown
<1>9. shown \in Shown
  BY <1>6, <1>7, <1>8 DEF Shown
<1>10. answer \in Answers
  <2> HIDE DEF from, to, least
  <2> QED
    BY <1>4, <1>9 DEF Answers
<1>11. /\ answered'[r] = answer /\ (\A q \in CacheReaders : q # r => answered'[q] = answered[q])
       /\ answered' \in [CacheReaders -> Answers]
  BY <1>1, <1>3, <1>10 DEF CacheTypes
<1>12. /\ reading'[r] = NoRead /\ (\A q \in CacheReaders : q # r => reading'[q] = reading[q])
       /\ reading' \in [CacheReaders -> ReadStates]
  BY <1>1, <1>2, NoShows DEF CacheTypes
<1>13. \A t \in CachedInstants : t \in InRangeOf(answer) <=> InsideOf(t, from, to)
  BY DEF InRangeOf, InsideOf, BeforeEnd
<1>14. ASSUME NEW t \in CachedInstants, InsideOf(t, from, to) PROVE least[t] <= shown[t]
  <2>1. shown[t] \in 0..LastCacheWrite /\ least[t] \in 0..LastCacheWrite
    BY <1>4, <1>6, <1>14 DEF Shown
  <2>2. CASE least[t] # 0
    <3>1. from <= t
      BY <1>4, <1>14, InstantFacts DEF InsideOf
    <3>2. PICK o \in objects : t \in o.rows /\ least[t] <= o.call /\ o \in listed
      BY <1>1, <1>2, <1>14, <2>2, <3>1 DEF ReadFits, InsideOf
    <3>3. o.call <= shown[t] /\ o.call \in Nat
      BY <1>5, <1>6, <1>14, <3>2
    <3> HIDE DEF least
    <3> QED
      BY <2>1, <3>2, <3>3, CacheAssumption
  <2>3. CASE least[t] = 0
    BY <2>1, <2>3, CacheAssumption
  <2> QED
    BY <2>2, <2>3
<1>15. ASSUME NEW t \in CachedInstants, shown[t] # 0
       PROVE  \E o \in objects : /\ o.call = shown[t] /\ t \in o.rows
                                 /\ \A u \in o.rows \intersect InRangeOf(answer) : shown[t] <= shown[u]
  <2>1. InsideOf(t, from, to)
    BY <1>7, <1>15
  <2>2. PICK o \in listed : t \in o.rows /\ o.call = shown[t]
    BY <1>6, <1>15, <2>1
  <2>3. ASSUME NEW u \in o.rows \intersect InRangeOf(answer) PROVE shown[t] <= shown[u]
    <3>1. u \in CachedInstants /\ InsideOf(u, from, to)
      BY <1>13 DEF InRangeOf
    <3>2. o.call <= shown[u]
      BY <1>6, <2>3, <3>1
    <3> QED
      BY <2>2, <3>2
  <2> QED
    BY <1>4, <2>2, <2>3
<1>16. answer.shown = shown /\ answer.least = least
  OBVIOUS
<1> HIDE DEF answer, least
<1>17. AnswerFits(r)'
  BY <1>2, <1>7, <1>11, <1>13, <1>14, <1>15, <1>16 DEF AnswerFits
<1>18. ReadFits(r)'
  BY <1>12, AtRest
<1> QED
  BY <1>2, <1>11, <1>12, <1>17, <1>18, OnlyOneReads

\* It is kept by a read that fails.
LEMMA ReadFailsKeeps ==
    ASSUME CacheIInv, NEW r \in CacheReaders, ReadFails(r)
    PROVE  CacheIInv'
<1>1. CacheTypes
  BY DEF CacheIInv
<1>2. /\ UNCHANGED <<objects, wallClock, startedAt, lastStamp, calls, putting, answered>>
      /\ reading' = [reading EXCEPT ![r] = NoRead]
  BY DEF ReadFails
<1>3. /\ reading'[r] = NoRead /\ (\A q \in CacheReaders : q # r => reading'[q] = reading[q])
      /\ reading' \in [CacheReaders -> ReadStates] /\ answered' \in [CacheReaders -> Answers]
  BY <1>1, <1>2, NoShows DEF CacheTypes
<1>4. ReadFits(r)' /\ AnswerFits(r)'
  BY <1>2, <1>3, AtRest, ObjectsGrow DEF CacheIInv
<1> QED
  BY <1>2, <1>3, <1>4, OnlyOneReads

\* Every step keeps the inductive invariant.
LEMMA CacheIInvStep ==
    ASSUME CacheIInv, [CacheNext]_cacheVars
    PROVE  CacheIInv'
  BY BeginWriteKeeps, PutKeeps, BeginReadKeeps, ListMonthKeeps, AnswerKeeps, ReadFailsKeeps, ClockKeeps, RestartKeeps
     DEF CacheNext

\* The inductive invariant says what the properties do.
LEMMA CacheIInvSays ==
    ASSUME CacheIInv
    PROVE  CacheTypeOK /\ ReadsAreFresh
<1>1. CacheTypes /\ PartsFit /\ PartsHeld \in SUBSET Objects /\ objects \subseteq PartsHeld
  BY PartsTyped DEF CacheIInv
<1>2. CacheTypeOK
  <2>1. \A o, p \in objects : o.stamp = p.stamp <=> o.call = p.call
    <3> SUFFICES ASSUME NEW o \in objects, NEW p \in objects PROVE o.stamp = p.stamp <=> o.call = p.call
      OBVIOUS
    <3>1. o \in PartsHeld /\ p \in PartsHeld
      BY <1>1
    <3>2. o.stamp \in Nat /\ p.stamp \in Nat /\ o.call \in Nat /\ p.call \in Nat
      BY <1>1, <3>1, PartsTyped
    <3>3. /\ o.call < p.call => o.stamp < p.stamp
          /\ p.call < o.call => p.stamp < o.stamp
          /\ o.call = p.call => o.stamp = p.stamp
      BY <1>1, <3>1 DEF PartsFit
    <3> QED
      BY <3>2, <3>3
  <2>2. wallClock \in startedAt..LastCacheTime /\ lastStamp \in Stamps /\ calls \in 0..LastCacheWrite
    BY <1>1, CacheAssumption DEF CacheTypes, Stamps
  <2>3. \A w \in CacheWriters : \A i \in DOMAIN putting[w] : putting[w][i] \in Objects
    BY <1>1 DEF CacheTypes
  <2>4. \A r \in CacheReaders : reading[r].listed \subseteq objects /\ reading[r].least \in Shown /\ answered[r].shown \in Shown
    BY <1>1 DEF CacheIInv, ReadFits, CacheTypes, ReadStates, Answers
  <2> QED
    BY <1>1, <2>1, <2>2, <2>3, <2>4 DEF CacheTypeOK, CacheTypes
<1>3. \A r \in CacheReaders : answered[r] \in Answers /\ AnswerFits(r)
  BY <1>1 DEF CacheIInv, CacheTypes
<1>4. NewestWins
  <2> SUFFICES ASSUME NEW r \in CacheReaders, NEW t \in CachedInstants
               PROVE  /\ t \in InRangeOf(answered[r]) => answered[r].shown[t] >= answered[r].least[t]
                      /\ t \notin InRangeOf(answered[r]) => answered[r].shown[t] = 0
                      /\ answered[r].shown[t] # 0 => \E o \in objects : o.call = answered[r].shown[t] /\ t \in o.rows
    BY DEF NewestWins
  <2>1. answered[r].shown[t] \in 0..LastCacheWrite /\ answered[r].least[t] \in 0..LastCacheWrite
    BY <1>3 DEF Answers, Shown
  <2> QED
    BY <1>3, <2>1, CacheAssumption DEF AnswerFits
<1>5. MonthsAreWhole
  <2> SUFFICES ASSUME NEW r \in CacheReaders, NEW t \in InRangeOf(answered[r]), NEW o \in objects,
                      answered[r].shown[t] = o.call, t \in o.rows,
                      NEW u \in InRangeOf(answered[r]) \ {LastInstant},
                      NEW p \in objects, p.call = o.call, p.month = o.month, u \in p.rows,
                      t # LastInstant
               PROVE  answered[r].shown[u] >= o.call
    BY DEF MonthsAreWhole
  <2>1. t \in CachedInstants /\ u \in CachedInstants /\ o \in PartsHeld /\ p \in PartsHeld
    BY <1>1 DEF InRangeOf
  <2>2. o.call \in Nat \ {0} /\ answered[r].shown[u] \in 0..LastCacheWrite
    BY <1>1, <1>3, <2>1, PartsTyped DEF Answers, Shown
  <2>3. PICK q \in objects : /\ q.call = o.call /\ t \in q.rows
                             /\ \A v \in q.rows \intersect InRangeOf(answered[r]) : o.call <= answered[r].shown[v]
    BY <1>3, <2>1, <2>2 DEF AnswerFits
  <2>4. q \in PartsHeld /\ q.month = YearMonth(t) /\ o.month = YearMonth(t)
    BY <1>1, <2>1, <2>3 DEF PartsFit
  <2>5. q = p
    BY <1>1, <2>1, <2>3, <2>4 DEF PartsFit
  <2>6. o.call <= answered[r].shown[u]
    BY <2>3, <2>5
  <2> QED
    BY <2>2, <2>6, CacheAssumption
<1> QED
  BY <1>2, <1>4, <1>5 DEF ReadsAreFresh

\* The state of the cache is what its type says, and no two writes have one stamp.
THEOREM CacheTypeCorrect == CacheSpec => []CacheTypeOK
<1>1. CacheInit => CacheIInv
  BY CacheIInvInit
<1>2. CacheIInv /\ [CacheNext]_cacheVars => CacheIInv'
  BY CacheIInvStep
<1>3. CacheIInv => CacheTypeOK
  BY CacheIInvSays
<1> QED
  BY <1>1, <1>2, <1>3, PTL DEF CacheSpec

\* Whatever writes are under way, however the clock is set and wherever a write has ended half way,
\* a read shows nothing older than what was in the store when it was called, nothing from outside
\* its range, and no month half from a write (core cache.rs:6, 246).
THEOREM FreshTheorem == CacheSpec => []ReadsAreFresh
<1>1. CacheInit => CacheIInv
  BY CacheIInvInit
<1>2. CacheIInv /\ [CacheNext]_cacheVars => CacheIInv'
  BY CacheIInvStep
<1>3. CacheIInv => ReadsAreFresh
  BY CacheIInvSays
<1> QED
  BY <1>1, <1>2, <1>3, PTL DEF CacheSpec

-----------------------------------------------------------------------------
(* Scans of a folder *)

\* What a file of the folder, a row, a file taken up, a scan and the cached parts can be.
FolderFiles == [there : BOOLEAN, content : 0..LastContent, changed : 0..LastTime]
SourceFiles == {NoFile} \union [status : {"ingested", "failed"}, changed : 0..LastTime, digest : 1..LastContent]
TakenUp     == [path : Paths, changed : 0..LastTime, digest : 1..LastContent]
Scans       == [step : {"idle", "sorting", "reading", "writing"}, more : BOOLEAN, todo : Seq(TakenUp),
                content : 0..LastContent, next : 1..(Parts + 1), left : SUBSET Paths,
                listing : [Paths -> 0..NotListed]]
Stores      == [Paths -> [1..Parts -> 0..LastContent]]

\* The state of the scans is of these types.
IngestTypes ==
    /\ folder \in [Paths -> FolderFiles] /\ folderTime \in 0..LastTime
    /\ file \in [Paths -> SourceFiles] /\ store \in Stores
    /\ deaths \in 0..ScanDeaths
    /\ scan \in Scans /\ Len(scan.todo) <= FilesPerScan

\* A path is in the listing of this scan; those it has yet to read.
IsListed(p) == scan.listing[p] # NotListed
ToRead == {scan.todo[i].path : i \in 1..Len(scan.todo)}

\* What a listing says is of the past.
ListingOK(p) ==
    /\ IsListed(p) => scan.listing[p] < folderTime
    /\ p \in scan.left => IsListed(p)
    /\ folder[p].there => folder[p].content # Absent

\* What a row says: what was there when it was listed, and that it was read as far as it could be.
FileOK(p) ==
    file[p] # NoFile =>
        /\ file[p].changed < folderTime /\ file[p].digest <= folder[p].content
        /\ folder[p].changed = file[p].changed => file[p].digest = folder[p].content
        /\ file[p].digest = folder[p].content /\ Readable(p) => AllHeld(p)

\* A file that is taken up is news to its row.
TodoOK(t) ==
    /\ IsListed(t.path) /\ t.changed = scan.listing[t.path] /\ t.path \notin scan.left
    /\ t.digest <= folder[t.path].content
    /\ folder[t.path].changed = t.changed => t.digest = folder[t.path].content
    /\ file[t.path] # NoFile => file[t.path].digest < folder[t.path].content

\* All that are taken up are, and each once.
TodosOK ==
    /\ \A i \in 1..Len(scan.todo) : TodoOK(scan.todo[i])
    /\ \A i, j \in 1..Len(scan.todo) : scan.todo[i].path = scan.todo[j].path => i = j

\* What is being written is no older than the digest.
WritingOK ==
    IF scan.step = "writing"
    THEN /\ scan.todo # <<>>
         /\ Head(scan.todo).digest <= scan.content /\ scan.content <= folder[Head(scan.todo).path].content
         /\ \A k \in 1..Parts : k < scan.next => store[Head(scan.todo).path][k] = scan.content
    ELSE scan.next = 1

\* What the scan has come past is in the cache.
PastOK ==
    /\ scan.step \in {"reading", "writing"} => scan.left = {}
    /\ ~scan.more => \A p \in Paths :
         IsListed(p) /\ p \notin scan.left /\ p \notin ToRead /\ folder[p].changed = scan.listing[p] /\ Readable(p)
           => AllHeld(p)

\* All of it together.
IngestIInv ==
    /\ IngestTypes /\ \A p \in Paths : ListingOK(p) /\ FileOK(p)
    /\ TodosOK /\ WritingOK /\ PastOK

\* The constants are numbers.
LEMMA IngestNumbers ==
    /\ Parts \in Nat \ {0} /\ FilesPerScan \in Nat \ {0} /\ Settle \in Nat \ {0}
    /\ LastContent \in Nat /\ LastTime \in Nat /\ ScanDeaths \in Nat
    /\ NotListed = LastTime + 1 /\ Absent = 0 /\ Paths \subseteq Nat
  BY IngestAssumption DEF NotListed, Absent

\* A scan that rests.
LEMMA RestedFacts ==
    /\ Rested \in Scans /\ Rested.todo = <<>> /\ Rested.left = {} /\ Rested.step = "idle" /\ Rested.more = FALSE
    /\ Rested.next = 1
    /\ \A p \in Paths : Rested.listing[p] = NotListed
  BY IngestNumbers DEF Rested, Scans

\* What a row says are numbers.
LEMMA FileRowFacts ==
    ASSUME NEW r \in SourceFiles, r # NoFile
    PROVE  r.changed \in 0..LastTime /\ r.digest \in 1..LastContent
  BY DEF SourceFiles

\* The type invariant follows.
LEMMA IngestTypeFact == ASSUME IngestIInv PROVE IngestTypeOK
<1>0. IngestTypes /\ \A p \in Paths : p \in scan.left => IsListed(p)
  BY DEF IngestIInv, ListingOK
<1>1. /\ scan.step \in {"idle", "sorting", "reading", "writing"} /\ scan.listing \in [Paths -> 0..NotListed]
      /\ scan.left \in SUBSET Paths /\ scan.more \in BOOLEAN /\ scan.todo \in Seq(TakenUp)
      /\ scan.content \in 0..LastContent /\ scan.next \in 1..(Parts + 1)
  BY <1>0 DEF IngestTypes, Scans
<1> QED
  BY <1>0, <1>1 DEF IngestTypeOK, IngestTypes, FolderFiles, SourceFiles, TakenUp, Stores, IsListed

\* A scan that rests has nothing to keep.
LEMMA RestKeeps ==
    ASSUME IngestIInv, scan' = Rested, UNCHANGED <<folder, folderTime, file, store>>, deaths' \in 0..ScanDeaths
    PROVE  IngestIInv'
<1>1. IngestTypes'
  BY RestedFacts, IngestNumbers DEF IngestIInv, IngestTypes
<1>2. \A p \in Paths : ListingOK(p)' /\ FileOK(p)'
  BY RestedFacts DEF IngestIInv, ListingOK, FileOK, IsListed, Readable, AllHeld
<1>3. TodosOK' /\ WritingOK' /\ PastOK'
  <2> Len(Rested.todo) = 0 /\ Len(Rested.todo)' = 0
    BY RestedFacts
  <2> QED
    BY RestedFacts DEF TodosOK, WritingOK, PastOK, IsListed
<1> QED
  BY <1>1, <1>2, <1>3 DEF IngestIInv

\* It holds at the start.
LEMMA IngestInitHolds == IngestInit => IngestIInv
<1> SUFFICES ASSUME IngestInit PROVE IngestIInv
  OBVIOUS
<1>1. IngestTypes
  BY RestedFacts, IngestNumbers DEF IngestInit, IngestTypes, FolderFiles, SourceFiles, Stores
<1>2. \A p \in Paths : ListingOK(p) /\ FileOK(p)
  BY RestedFacts DEF IngestInit, ListingOK, FileOK, IsListed
<1>3. TodosOK /\ WritingOK /\ PastOK
  <2> Len(Rested.todo) = 0 /\ scan = Rested
    BY RestedFacts DEF IngestInit
  <2> QED
    BY RestedFacts DEF TodosOK, WritingOK, PastOK, IsListed
<1> QED
  BY <1>1, <1>2, <1>3 DEF IngestIInv

\* What people do to a file: they change it now, or take it away.
FileMoves(p) ==
    \/ folder'[p] = folder[p]
    \/ /\ folder'[p].changed = folderTime /\ folder'[p].content # Absent
       /\ \/ folder'[p].content > folder[p].content
          \/ folder'[p].content = folder[p].content /\ folder[p].there
    \/ folder'[p].changed = folder[p].changed /\ folder'[p].content = folder[p].content /\ ~folder'[p].there

\* What people do to the folder leaves it so.
LEMMA FolderKeeps ==
    ASSUME IngestIInv, UNCHANGED <<file, store, scan, deaths>>, folder' \in [Paths -> FolderFiles],
           folderTime' \in 0..LastTime, folderTime' >= folderTime, \A p \in Paths : FileMoves(p)
    PROVE  IngestIInv'
<1>0. /\ folder \in [Paths -> FolderFiles] /\ folderTime \in Nat /\ folderTime' \in Nat /\ scan \in Scans
      /\ \A p \in Paths : /\ folder[p].changed \in Nat /\ folder[p].content \in Nat
                          /\ folder'[p].changed \in Nat /\ folder'[p].content \in Nat
                          /\ scan.listing[p] \in Nat
  <2>1. folder \in [Paths -> FolderFiles] /\ folderTime \in 0..LastTime /\ scan \in Scans
    BY DEF IngestIInv, IngestTypes
  <2>2. folderTime \in Nat /\ folderTime' \in Nat
    BY <2>1, IngestNumbers
  <2>3. ASSUME NEW q \in FolderFiles PROVE q.changed \in Nat /\ q.content \in Nat
    BY IngestNumbers DEF FolderFiles
  <2>4. scan.listing \in [Paths -> 0..NotListed]
    BY <2>1 DEF Scans
  <2>5. ASSUME NEW p \in Paths PROVE scan.listing[p] \in Nat
    BY <2>4, IngestNumbers
  <2>6. ASSUME NEW p \in Paths PROVE folder[p] \in FolderFiles /\ folder'[p] \in FolderFiles
    BY <2>1
  <2> QED
    BY <2>1, <2>2, <2>3, <2>5, <2>6
<1>1. IngestTypes'
  BY DEF IngestIInv, IngestTypes
<1>2. ASSUME NEW p \in Paths PROVE ListingOK(p)' /\ FileOK(p)'
  <2>1. ListingOK(p) /\ FileOK(p) /\ FileMoves(p)
    BY DEF IngestIInv
  <2>2. ListingOK(p)'
    BY <1>0, <2>1 DEF ListingOK, FileMoves, IsListed
  <2>3. file[p] # NoFile => file[p].changed \in Nat /\ file[p].digest \in Nat
    <3> file[p] \in SourceFiles
      BY DEF IngestIInv, IngestTypes
    <3> QED
      BY FileRowFacts, IngestNumbers
  <2>4. FileOK(p)'
    BY <1>0, <2>1, <2>3 DEF FileOK, FileMoves, Readable, AllHeld
  <2> QED
    BY <2>2, <2>4
<1>3. TodosOK'
  <2> SUFFICES ASSUME NEW i \in 1..Len(scan.todo) PROVE TodoOK(scan.todo[i])'
    BY DEF TodosOK, IngestIInv
  <2> DEFINE t == scan.todo[i]
  <2>1. TodoOK(t) /\ t \in TakenUp
    BY <1>0, ElementOfSeq DEF IngestIInv, TodosOK, Scans
  <2>2. t.path \in Paths /\ t.changed \in Nat /\ t.digest \in Nat
    BY <2>1, IngestNumbers DEF TakenUp
  <2>3. FileMoves(t.path) /\ ListingOK(t.path) /\ FileOK(t.path)
    BY <2>2 DEF IngestIInv
  <2>4. file[t.path] # NoFile => file[t.path].digest \in Nat
    <3> file[t.path] \in SourceFiles
      BY <2>2 DEF IngestIInv, IngestTypes
    <3> QED
      BY FileRowFacts, IngestNumbers
  <2>6. t' = t
    OBVIOUS
  <2> HIDE DEF t
  <2>5. TodoOK(t)'
    BY <1>0, <2>1, <2>2, <2>3, <2>4, <2>6 DEF TodoOK, FileMoves, ListingOK, IsListed
  <2> QED
    BY <2>5 DEF t
<1>4. WritingOK'
  <2> SUFFICES ASSUME scan.step = "writing"
               PROVE  folder[Head(scan.todo).path].content <= folder'[Head(scan.todo).path].content
                      /\ scan.content \in Nat /\ Head(scan.todo).path \in Paths
    BY <1>0 DEF WritingOK, IngestIInv
  <2>1. Head(scan.todo) \in TakenUp /\ scan.content \in Nat
    BY <1>0, IngestNumbers DEF IngestIInv, WritingOK, Scans
  <2>2. Head(scan.todo).path \in Paths
    BY <2>1 DEF TakenUp
  <2> QED
    BY <1>0, <2>1, <2>2 DEF FileMoves
<1>5. PastOK'
  <2> SUFFICES ASSUME ~scan.more, NEW p \in Paths, IsListed(p), p \notin scan.left, p \notin ToRead,
                      folder'[p].changed = scan.listing[p], Readable(p)'
               PROVE  AllHeld(p)'
    BY DEF PastOK, IngestIInv, IsListed, ToRead
  <2>1. ListingOK(p) /\ FileMoves(p)
    BY DEF IngestIInv
  <2>2. folder'[p].changed # folderTime
    BY <1>0, <2>1 DEF ListingOK
  <2>3. folder'[p] = folder[p]
    BY <2>1, <2>2 DEF FileMoves, Readable
  <2> QED
    BY <2>3 DEF IngestIInv, PastOK, Readable, AllHeld
<1> QED
  BY <1>1, <1>2, <1>3, <1>4, <1>5 DEF IngestIInv

\* A file dropped, touched or removed.
LEMMA FolderSteps ==
    ASSUME IngestIInv, NEW p \in Paths, DropFile(p) \/ TouchFile(p) \/ RemoveFile(p)
    PROVE  IngestIInv'
<1>0. /\ folder \in [Paths -> FolderFiles] /\ folderTime \in 0..LastTime /\ folder[p] \in FolderFiles
      /\ folder[p].content \in 0..LastContent /\ ListingOK(p)
  BY DEF IngestIInv, IngestTypes, FolderFiles
<1>1. CASE DropFile(p)
  <2> DEFINE r == [there |-> TRUE, content |-> folder[p].content + 1, changed |-> folderTime]
  <2>1. folder' = [folder EXCEPT ![p] = r] /\ folder[p].content < LastContent
        /\ UNCHANGED <<folderTime, file, store, scan, deaths>>
    BY <1>1 DEF DropFile
  <2>2. r \in FolderFiles /\ r.changed = folderTime /\ r.content > folder[p].content /\ r.content # Absent
    BY <1>0, <2>1, IngestNumbers DEF FolderFiles
  <2> HIDE DEF r
  <2>3. \A q \in Paths : FileMoves(q)
    BY <1>0, <2>1, <2>2 DEF FileMoves
  <2> QED
    BY <1>0, <2>1, <2>2, <2>3, FolderKeeps, IngestNumbers
<1>2. CASE TouchFile(p)
  <2>1. folder' = [folder EXCEPT ![p].changed = folderTime] /\ folder[p].there
        /\ UNCHANGED <<folderTime, file, store, scan, deaths>>
    BY <1>2 DEF TouchFile
  <2>2. folder' \in [Paths -> FolderFiles]
    BY <1>0, <2>1 DEF FolderFiles
  <2>3. \A q \in Paths : FileMoves(q)
    BY <1>0, <2>1 DEF FileMoves, ListingOK, FolderFiles
  <2> QED
    BY <1>0, <2>1, <2>2, <2>3, FolderKeeps, IngestNumbers
<1>3. CASE RemoveFile(p)
  <2>1. folder' = [folder EXCEPT ![p].there = FALSE] /\ UNCHANGED <<folderTime, file, store, scan, deaths>>
    BY <1>3 DEF RemoveFile
  <2>2. folder' \in [Paths -> FolderFiles]
    BY <1>0, <2>1 DEF FolderFiles
  <2>3. \A q \in Paths : FileMoves(q)
    BY <1>0, <2>1 DEF FileMoves, FolderFiles
  <2> QED
    BY <1>0, <2>1, <2>2, <2>3, FolderKeeps, IngestNumbers
<1> QED
  BY <1>1, <1>2, <1>3

\* There is an oldest one among some files.
LEMMA OldestIsThere ==
    ASSUME NEW S, S \subseteq Paths, S # {}, \A p \in S : scan.listing[p] \in Nat
    PROVE  Oldest(S) \in S
<1> DEFINE times == {scan.listing[p] : p \in S}
<1>1. PICK t \in times : \A u \in times : t <= u
  <2> times \in SUBSET Nat /\ times # {}
    OBVIOUS
  <2> HIDE DEF times
  <2> QED
    BY LeastNat
<1> DEFINE first == {p \in S : scan.listing[p] = t}
<1>2. PICK p \in first : \A q \in first : p <= q
  <2> first \in SUBSET Nat /\ first # {}
    BY IngestNumbers
  <2> HIDE DEF first
  <2> QED
    BY LeastNat
<1>3. \A q \in S : \/ scan.listing[p] < scan.listing[q]
                   \/ scan.listing[p] = scan.listing[q] /\ p <= q
  <2> SUFFICES ASSUME NEW q \in S PROVE scan.listing[p] < scan.listing[q] \/ (scan.listing[p] = scan.listing[q] /\ p <= q)
    OBVIOUS
  <2>1. scan.listing[p] = t /\ t <= scan.listing[q] /\ t \in Nat /\ scan.listing[q] \in Nat
    BY <1>1, <1>2
  <2>2. scan.listing[q] = t => p <= q
    BY <1>2
  <2> QED
    BY <2>1, <2>2
<1>4. p \in S
  BY <1>2
<1> HIDE DEF times, first
<1> QED
  BY <1>3, <1>4 DEF Oldest

\* The next file of a listing.
LEMMA NextFacts ==
    ASSUME IngestIInv, NEW p \in Paths, NextToSort(p)
    PROVE  /\ scan.step = "sorting" /\ p \in scan.left /\ IsListed(p) /\ scan.listing[p] \in 0..LastTime
           /\ scan.listing[p] < folderTime /\ p \notin ToRead
<1>0. scan \in Scans /\ ListingOK(p)
  BY DEF IngestIInv, IngestTypes
<1>1. scan.step = "sorting" /\ scan.left # {} /\ p = Oldest(scan.left)
  BY DEF NextToSort
<1>2. p \in scan.left
  <2> scan.left \subseteq Paths /\ \A q \in scan.left : scan.listing[q] \in Nat
    BY <1>0, IngestNumbers DEF Scans
  <2> QED
    BY <1>1, OldestIsThere
<1>3. IsListed(p) /\ scan.listing[p] < folderTime /\ scan.listing[p] \in 0..LastTime
  <2> scan.listing[p] \in 0..NotListed
    BY <1>0 DEF Scans
  <2> QED
    BY <1>0, <1>2, IngestNumbers DEF ListingOK, IsListed
<1>4. p \notin ToRead
  BY <1>2 DEF IngestIInv, TodosOK, TodoOK, ToRead
<1> QED
  BY <1>1, <1>2, <1>3, <1>4

\* A listed file is come past: its row may take the time it was listed with, or it waits for another scan.
LEMMA PastKeeps ==
    ASSUME IngestIInv, NEW p \in Paths, NextToSort(p), NEW more \in BOOLEAN,
           scan' = [scan EXCEPT !.left = scan.left \ {p}, !.more = more],
           UNCHANGED <<folder, folderTime, store, deaths>>,
           file' \in [Paths -> SourceFiles], \A q \in Paths \ {p} : file'[q] = file[q],
           FileOK(p)', scan.more => more,
           ~more => (folder[p].changed = scan.listing[p] /\ Readable(p) => AllHeld(p))
    PROVE  IngestIInv'
<1>0. scan \in Scans /\ scan' \in Scans /\ scan'.left = scan.left \ {p} /\ scan'.more = more /\ scan'.listing = scan.listing
      /\ scan'.todo = scan.todo /\ scan'.step = scan.step /\ scan.step = "sorting" /\ scan'.next = scan.next
  <2>1. scan \in Scans /\ scan.step = "sorting"
    BY NextFacts DEF IngestIInv, IngestTypes
  <2> QED
    BY <2>1 DEF Scans
<1>1. IngestTypes'
  BY <1>0 DEF IngestIInv, IngestTypes
<1>2. ASSUME NEW q \in Paths PROVE ListingOK(q)' /\ FileOK(q)'
  <2>1. ListingOK(q) /\ FileOK(q)
    BY DEF IngestIInv
  <2>2. ListingOK(q)'
    BY <1>0, <2>1 DEF ListingOK, IsListed
  <2>3. q # p => FileOK(q)'
    BY <2>1 DEF FileOK, Readable, AllHeld
  <2> QED
    BY <2>2, <2>3
<1>3. TodosOK'
  <2> SUFFICES ASSUME NEW i \in 1..Len(scan.todo) PROVE TodoOK(scan.todo[i])'
    BY <1>0 DEF TodosOK, IngestIInv
  <2>1. TodoOK(scan.todo[i]) /\ scan.todo[i].path # p
    BY NextFacts DEF IngestIInv, TodosOK, ToRead
  <2> PICK t : t = scan.todo[i]
    OBVIOUS
  <2>4. t \in TakenUp
    BY <1>0, ElementOfSeq DEF Scans
  <2>5. t.path \in Paths
    BY <2>4 DEF TakenUp
  <2>2. file'[t.path] = file[t.path]
    BY <2>1, <2>5
  <2>3. TodoOK(t)'
    BY <1>0, <2>1, <2>2 DEF TodoOK, IsListed
  <2> QED
    BY <1>0, <2>3
<1>4. WritingOK'
  BY <1>0 DEF WritingOK, IngestIInv
<1>5. PastOK'
  BY <1>0 DEF PastOK, IngestIInv, IsListed, ToRead, Readable, AllHeld
<1> QED
  BY <1>1, <1>2, <1>3, <1>4, <1>5 DEF IngestIInv

\* A file that has not settled, or is over the cap, waits for another scan.
LEMMA PassOverStep ==
    ASSUME IngestIInv, NEW p \in Paths, PassOver(p)
    PROVE  IngestIInv'
<1>0. scan \in Scans /\ file \in [Paths -> SourceFiles] /\ FileOK(p) /\ NextToSort(p)
      /\ UNCHANGED <<folder, folderTime, file, store, deaths>>
  BY DEF IngestIInv, IngestTypes, PassOver
<1>1. FileOK(p)'
  BY <1>0 DEF FileOK, Readable, AllHeld
<1>2. CASE (SameStat(p) \/ ~folder[p].there) /\ scan' = Taken(scan, p)
  <2>1. scan' = [scan EXCEPT !.left = scan.left \ {p}, !.more = scan.more] /\ scan.more \in BOOLEAN
    BY <1>0, <1>2 DEF Taken, Scans
  <2>2. folder[p].changed = scan.listing[p] /\ Readable(p) => AllHeld(p)
    BY <1>0, <1>2 DEF FileOK, SameStat, Readable
  <2> QED
    BY <1>0, <1>1, <2>1, <2>2, PastKeeps
<1>3. CASE scan' = [Taken(scan, p) EXCEPT !.more = TRUE]
  <2>1. scan' = [scan EXCEPT !.left = scan.left \ {p}, !.more = TRUE]
    BY <1>0, <1>3 DEF Taken, Scans
  <2> QED
    BY <1>0, <1>1, <2>1, PastKeeps
<1> QED
  BY <1>2, <1>3 DEF PassOver

\* A file whose bytes are those of its row takes the new time only.
LEMMA TouchRowStep ==
    ASSUME IngestIInv, NEW p \in Paths, TouchRow(p)
    PROVE  IngestIInv'
<1>0. /\ scan \in Scans /\ file \in [Paths -> SourceFiles] /\ FileOK(p) /\ NextToSort(p)
      /\ UNCHANGED <<folder, folderTime, store, deaths>> /\ file[p] # NoFile
      /\ file[p].digest = folder[p].content /\ scan' = Taken(scan, p)
      /\ file' = [file EXCEPT ![p].changed = scan.listing[p]]
  BY DEF IngestIInv, IngestTypes, TouchRow, SameDigest
<1>1. file[p] \in [status : {"ingested", "failed"}, changed : 0..LastTime, digest : 1..LastContent]
  BY <1>0 DEF SourceFiles
<1>2. scan.listing[p] \in 0..LastTime /\ scan.listing[p] < folderTime
  BY <1>0, NextFacts
<1>3. /\ file' \in [Paths -> SourceFiles] /\ \A q \in Paths \ {p} : file'[q] = file[q]
      /\ file'[p].digest = file[p].digest /\ file'[p].changed = scan.listing[p]
  BY <1>0, <1>1, <1>2 DEF SourceFiles
<1>4. folder[p].content \in Nat
  BY IngestNumbers DEF IngestIInv, IngestTypes, FolderFiles
<1>5. FileOK(p)'
  BY <1>0, <1>2, <1>3, <1>4 DEF FileOK, Readable, AllHeld
<1>6. scan' = [scan EXCEPT !.left = scan.left \ {p}, !.more = scan.more] /\ scan.more \in BOOLEAN
  BY <1>0 DEF Taken, Scans
<1>7. folder[p].changed = scan.listing[p] /\ Readable(p) => AllHeld(p)
  BY <1>0 DEF FileOK
<1> QED
  BY <1>0, <1>3, <1>5, <1>6, <1>7, PastKeeps

\* A file that is new, or was changed, is taken up with its digest.
LEMMA TakeUpStep ==
    ASSUME IngestIInv, NEW p \in Paths, TakeUp(p)
    PROVE  IngestIInv'
<1> DEFINE t == [path |-> p, changed |-> scan.listing[p], digest |-> folder[p].content]
<1>0. /\ scan \in Scans /\ file \in [Paths -> SourceFiles] /\ NextToSort(p) /\ ListingOK(p) /\ FileOK(p)
      /\ UNCHANGED <<folder, folderTime, file, store, deaths>>
      /\ Len(scan.todo) < FilesPerScan /\ folder[p].there /\ ~SameDigest(p)
      /\ scan' = [Taken(scan, p) EXCEPT !.todo = Append(@, t)]
  <2> Len(scan.todo) \in Nat
    BY LenProperties DEF IngestIInv, IngestTypes, Scans
  <2> QED
    BY IngestNumbers DEF IngestIInv, IngestTypes, TakeUp, CapReached
<1>1. scan.step = "sorting" /\ p \in scan.left /\ IsListed(p) /\ scan.listing[p] \in 0..LastTime /\ p \notin ToRead
      /\ folder[p].content \in 1..LastContent
  <2> folder[p].content \in 0..LastContent
    BY DEF IngestIInv, IngestTypes, FolderFiles
  <2> QED
    BY <1>0, NextFacts, IngestNumbers DEF ListingOK
<1>2. t \in TakenUp /\ t.path = p /\ t.changed = scan.listing[p] /\ t.digest = folder[p].content
  BY <1>1 DEF TakenUp
<1> HIDE DEF t
<1>3. /\ scan'.todo = Append(scan.todo, t) /\ scan'.left = scan.left \ {p} /\ scan'.more = scan.more
      /\ scan'.listing = scan.listing /\ scan'.step = scan.step /\ scan'.next = scan.next
      /\ scan' = [scan EXCEPT !.left = scan.left \ {p}, !.todo = Append(scan.todo, t)]
  BY <1>0 DEF Taken, Scans
<1>4. /\ scan.todo \in Seq(TakenUp) /\ Append(scan.todo, t) \in Seq(TakenUp) /\ Len(scan.todo) \in Nat
      /\ Len(Append(scan.todo, t)) = Len(scan.todo) + 1
      /\ \A i \in 1..Len(scan.todo) : Append(scan.todo, t)[i] = scan.todo[i]
      /\ Append(scan.todo, t)[Len(scan.todo) + 1] = t
  <2>1. scan.todo \in Seq(TakenUp)
    BY <1>0 DEF Scans
  <2> QED
    BY <1>2, <2>1, AppendProperties, LenProperties
<1>5. IngestTypes'
  <2>1. scan' \in Scans
    BY <1>0, <1>3, <1>4 DEF Scans
  <2>2. Len(scan'.todo) <= FilesPerScan
    BY <1>0, <1>3, <1>4, IngestNumbers
  <2> QED
    BY <1>0, <2>1, <2>2 DEF IngestIInv, IngestTypes
<1>6. ASSUME NEW q \in Paths PROVE ListingOK(q)' /\ FileOK(q)'
  BY <1>0, <1>3 DEF IngestIInv, ListingOK, FileOK, IsListed, Readable, AllHeld
<1>7. TodosOK'
  <2> DEFINE n == Len(scan.todo)
  <2>1. ASSUME NEW i \in 1..(n + 1), NEW u, u = Append(scan.todo, t)[i] PROVE TodoOK(u)'
    <3>1. CASE i \in 1..n
      <4>1. TodoOK(u)
        BY <1>4, <2>1, <3>1 DEF IngestIInv, TodosOK
      <4>2. TodoOK(u)'
        BY <1>0, <1>3, <4>1 DEF TodoOK, IsListed
      <4> QED
        BY <4>2
    <3>2. CASE i = n + 1
      <4>1. file[p] # NoFile => file[p].digest < folder[p].content
        <5> SUFFICES ASSUME file[p] # NoFile PROVE file[p].digest < folder[p].content
          OBVIOUS
        <5> file[p].digest \in Nat /\ folder[p].content \in Nat
          BY <1>0, <1>1, FileRowFacts, IngestNumbers
        <5> QED
          BY <1>0 DEF SameDigest, FileOK
      <4>2. u = t
        BY <1>4, <2>1, <3>2
      <4>3. TodoOK(u)'
        BY <1>0, <1>1, <1>2, <1>3, <4>1, <4>2 DEF TodoOK, IsListed
      <4> QED
        BY <4>3
    <3> QED
      BY <1>4, <3>1, <3>2
  <2>2. \A i \in 1..(n + 1), j \in 1..(n + 1) : Append(scan.todo, t)[i].path = Append(scan.todo, t)[j].path => i = j
    <3>1. \A i \in 1..n, j \in 1..n : scan.todo[i].path = scan.todo[j].path => i = j
      BY DEF IngestIInv, TodosOK
    <3>2. \A i \in 1..n : scan.todo[i].path # p
      BY <1>1 DEF ToRead
    <3> QED
      BY <1>2, <1>4, <3>1, <3>2
  <2> PICK todo : todo = Append(scan.todo, t)
    OBVIOUS
  <2>3. Len(scan'.todo) = n + 1 /\ scan'.todo = todo
    BY <1>3, <1>4
  <2>4. \A i \in 1..(n + 1) : TodoOK(todo[i])'
    BY <2>1
  <2> HIDE DEF n
  <2> QED
    BY <2>2, <2>3, <2>4 DEF TodosOK
<1>8. WritingOK'
  BY <1>1, <1>3 DEF WritingOK, IngestIInv
<1>9. PastOK'
  <2>1. ToRead' = ToRead \union {p}
    BY <1>2, <1>3, <1>4 DEF ToRead
  <2> QED
    BY <1>0, <1>1, <1>3, <2>1 DEF PastOK, IngestIInv, IsListed, Readable, AllHeld
<1> QED
  BY <1>5, <1>6, <1>7, <1>8, <1>9 DEF IngestIInv

\* The scan has come past every listed file and turns to reading.
LEMMA BeginReadingStep == ASSUME IngestIInv, BeginReading PROVE IngestIInv'
<1>0. scan \in Scans /\ scan.step = "sorting" /\ scan.left = {} /\ scan' = [scan EXCEPT !.step = "reading"]
      /\ UNCHANGED <<folder, folderTime, file, store, deaths>>
  BY DEF IngestIInv, IngestTypes, BeginReading
<1>1. /\ scan' \in Scans /\ scan'.todo = scan.todo /\ scan'.left = scan.left /\ scan'.more = scan.more
      /\ scan'.listing = scan.listing /\ scan'.step = "reading" /\ scan'.next = scan.next
  BY <1>0 DEF Scans
<1>2. IngestTypes'
  BY <1>0, <1>1 DEF IngestIInv, IngestTypes
<1>3. \A p \in Paths : ListingOK(p)' /\ FileOK(p)'
  BY <1>0, <1>1 DEF IngestIInv, ListingOK, FileOK, IsListed, Readable, AllHeld
<1>4. TodosOK'
  BY <1>0, <1>1 DEF IngestIInv, TodosOK, TodoOK, IsListed
<1>5. WritingOK' /\ PastOK'
  BY <1>0, <1>1 DEF IngestIInv, WritingOK, PastOK, IsListed, ToRead, Readable, AllHeld
<1> QED
  BY <1>2, <1>3, <1>4, <1>5 DEF IngestIInv

\* The file that is read or written.
LEMMA HeadFacts ==
    ASSUME IngestIInv, scan.todo # <<>>
    PROVE  LET f == Head(scan.todo) IN
           /\ f \in TakenUp /\ f.path \in Paths /\ f.changed \in 0..LastTime /\ f.digest \in 1..LastContent
           /\ TodoOK(f) /\ f.path \in ToRead /\ f.changed < folderTime
           /\ Len(scan.todo) \in Nat \ {0} /\ f = scan.todo[1]
           /\ Tail(scan.todo) \in Seq(TakenUp) /\ Len(Tail(scan.todo)) = Len(scan.todo) - 1
           /\ \A i \in 1..Len(Tail(scan.todo)) : Tail(scan.todo)[i] = scan.todo[i + 1] /\ i + 1 \in 1..Len(scan.todo)
                                                 /\ scan.todo[i + 1].path # f.path
<1>1. scan.todo \in Seq(TakenUp)
  BY DEF IngestIInv, IngestTypes, Scans
<1>2. Len(scan.todo) \in Nat \ {0} /\ Head(scan.todo) = scan.todo[1]
  BY <1>1, LenProperties, EmptySeq, HeadTailProperties
<1>3. 1 \in 1..Len(scan.todo)
  BY <1>2
<1>4. scan.todo[1] \in TakenUp /\ TodoOK(scan.todo[1]) /\ scan.todo[1].path \in ToRead
  BY <1>1, <1>3, ElementOfSeq DEF IngestIInv, TodosOK, ToRead
<1>5. /\ scan.todo[1].path \in Paths /\ scan.todo[1].changed \in 0..LastTime /\ scan.todo[1].digest \in 1..LastContent
  BY <1>4 DEF TakenUp
<1>6. scan.todo[1].changed < folderTime
  BY <1>4, <1>5 DEF IngestIInv, ListingOK, TodoOK
<1>7. /\ Tail(scan.todo) \in Seq(TakenUp) /\ Len(Tail(scan.todo)) = Len(scan.todo) - 1
      /\ \A i \in 1..Len(Tail(scan.todo)) : Tail(scan.todo)[i] = scan.todo[i + 1]
  BY <1>1, HeadTailProperties
<1>8. \A i \in 1..Len(Tail(scan.todo)) : i + 1 \in 1..Len(scan.todo) /\ i + 1 # 1
  BY <1>2, <1>7
<1>9. \A i \in 1..Len(Tail(scan.todo)) : scan.todo[i + 1].path # scan.todo[1].path
  BY <1>3, <1>8 DEF IngestIInv, TodosOK
<1> QED
  BY <1>2, <1>4, <1>5, <1>6, <1>7, <1>8, <1>9

\* What is taken up stays so while neither the folder nor a row changes.
LEMMA TodosKeep ==
    ASSUME IngestIInv, UNCHANGED <<folder, folderTime, file>>, scan'.todo = scan.todo, scan'.left = scan.left,
           scan'.listing = scan.listing
    PROVE  TodosOK'
<1>1. \A i \in 1..Len(scan.todo) : TodoOK(scan.todo[i])
  BY DEF IngestIInv, TodosOK
<1>2. ASSUME NEW i \in 1..Len(scan'.todo) PROVE TodoOK(scan.todo[i])'
  <2>1. i \in 1..Len(scan.todo)
    OBVIOUS
  <2>2. TodoOK(scan.todo[i])
    BY <1>1, <2>1
  <2> QED
    BY <2>2 DEF TodoOK, IsListed
<1> QED
  BY <1>2 DEF IngestIInv, TodosOK

\* A file that has been read, as far as it could be, has its row.
LEMMA FileEnds ==
    ASSUME IngestIInv, scan.todo # <<>>, scan.step \in {"reading", "writing"}, NEW status \in {"ingested", "failed"},
           file' = Upserted(Head(scan.todo), status), scan' = NextFile(scan),
           UNCHANGED <<folder, folderTime, store, deaths>>,
           Head(scan.todo).digest = folder[Head(scan.todo).path].content /\ Readable(Head(scan.todo).path)
             => AllHeld(Head(scan.todo).path)
    PROVE  IngestIInv'
<1> DEFINE f == Head(scan.todo)  p == f.path
<1>0. scan \in Scans /\ file \in [Paths -> SourceFiles] /\ folder \in [Paths -> FolderFiles]
  BY DEF IngestIInv, IngestTypes
<1>1. /\ f \in TakenUp /\ p \in Paths /\ f.changed \in 0..LastTime /\ f.digest \in 1..LastContent
      /\ TodoOK(f) /\ p \in ToRead /\ f.changed < folderTime /\ IsListed(p)
  BY HeadFacts DEF TodoOK
<1>2. /\ scan'.todo = Tail(scan.todo) /\ scan'.left = scan.left /\ scan'.more = scan.more
      /\ scan'.listing = scan.listing /\ scan'.step = "reading" /\ scan'.next = 1
      /\ scan' = [scan EXCEPT !.step = "reading", !.todo = Tail(scan.todo), !.content = Absent, !.next = 1]
  BY <1>0 DEF NextFile, Scans
<1> DEFINE row == [status |-> status, changed |-> f.changed, digest |-> f.digest]
<1>3. row \in SourceFiles /\ row.changed = f.changed /\ row.digest = f.digest
  BY <1>1 DEF SourceFiles
<1>4. file' = [file EXCEPT ![p] = row]
  BY DEF Upserted
<1>5. file' \in [Paths -> SourceFiles] /\ file'[p] = row /\ \A q \in Paths \ {p} : file'[q] = file[q]
  <2> HIDE DEF row, p, f
  <2> QED
    BY <1>0, <1>1, <1>3, <1>4
<1>6. IngestTypes'
  <2>1. Tail(scan.todo) \in Seq(TakenUp) /\ Len(Tail(scan.todo)) <= FilesPerScan
    <3> Len(scan.todo) \in Nat /\ Len(scan.todo) <= FilesPerScan /\ Tail(scan.todo) \in Seq(TakenUp)
        /\ Len(Tail(scan.todo)) = Len(scan.todo) - 1
      BY HeadFacts DEF IngestIInv, IngestTypes
    <3> QED
      BY IngestNumbers
  <2>2. scan' \in Scans
    <3>1. Absent \in 0..LastContent /\ 1 \in 1..(Parts + 1) /\ "reading" \in {"idle", "sorting", "reading", "writing"}
      BY IngestNumbers
    <3> HIDE DEF row, p, f
    <3> QED
      BY <1>0, <1>2, <2>1, <3>1 DEF Scans
  <2>3. UNCHANGED <<folder, folderTime, store, deaths>> /\ Len(scan'.todo) <= FilesPerScan
    BY <1>2, <2>1
  <2> HIDE DEF row, p, f
  <2> QED
    BY <1>5, <2>2, <2>3 DEF IngestIInv, IngestTypes
<1>7. ASSUME NEW q \in Paths PROVE ListingOK(q)' /\ FileOK(q)'
  <2>1. ListingOK(q)'
    BY <1>2 DEF IngestIInv, ListingOK, IsListed
  <2>2. CASE q = p
    <3>1. f.digest <= folder[p].content /\ (folder[p].changed = f.changed => f.digest = folder[p].content)
      BY <1>1 DEF TodoOK
    <3>2. f.digest = folder[p].content /\ Readable(p) => AllHeld(p)
      OBVIOUS
    <3> HIDE DEF row, p, f
    <3> QED
      BY <1>1, <1>3, <1>5, <2>1, <2>2, <3>1, <3>2 DEF FileOK, Readable, AllHeld
  <2>3. CASE q # p
    <3> HIDE DEF row, p, f
    <3> QED
      BY <1>5, <2>1, <2>3 DEF IngestIInv, FileOK, Readable, AllHeld
  <2> QED
    BY <2>2, <2>3
<1>8. TodosOK'
  <2> PICK todo, fp : todo = Tail(scan.todo) /\ fp = p
    OBVIOUS
  <2>1. ASSUME NEW i \in 1..Len(todo), NEW u, u = todo[i] PROVE TodoOK(u)'
    <3>1. TodoOK(u) /\ u.path # fp
      BY <2>1, HeadFacts DEF IngestIInv, TodosOK
    <3>2. u.path \in Paths
      <4> u \in TakenUp
        BY <2>1, HeadFacts, ElementOfSeq
      <4> QED
        BY DEF TakenUp
    <3>3. file'[u.path] = file[u.path]
      BY <1>5, <3>1, <3>2
    <3> QED
      BY <1>2, <3>1, <3>3 DEF TodoOK, IsListed
  <2>2. \A i, j \in 1..Len(todo) : todo[i].path = todo[j].path => i = j
    <3> SUFFICES ASSUME NEW i \in 1..Len(todo), NEW j \in 1..Len(todo), todo[i].path = todo[j].path PROVE i = j
      OBVIOUS
    <3>1. /\ i + 1 \in 1..Len(scan.todo) /\ j + 1 \in 1..Len(scan.todo)
          /\ todo[i] = scan.todo[i + 1] /\ todo[j] = scan.todo[j + 1]
      BY HeadFacts
    <3>2. i + 1 = j + 1
      BY <3>1 DEF IngestIInv, TodosOK
    <3> QED
      BY <3>2
  <2>3. scan'.todo = todo /\ Len(scan'.todo) = Len(todo)
    BY <1>2
  <2>4. \A i \in 1..Len(todo) : TodoOK(todo[i])'
    BY <2>1
  <2> HIDE DEF row, p, f
  <2>5. \A i \in 1..Len(scan'.todo) : TodoOK(scan.todo[i])'
    <3> SUFFICES ASSUME NEW i \in 1..Len(scan'.todo), NEW u, u = scan'.todo[i] PROVE TodoOK(u)'
      OBVIOUS
    <3> QED
      BY <2>1, <2>3
  <2>6. \A i, j \in 1..Len(scan'.todo) : scan'.todo[i].path = scan'.todo[j].path => i = j
    BY <2>2, <2>3
  <2> QED
    BY <2>5, <2>6 DEF TodosOK
<1>9. WritingOK'
  BY <1>2 DEF WritingOK
<1>10. PastOK'
  <2>1. ToRead \subseteq ToRead' \union {p}
    <3> SUFFICES ASSUME NEW i \in 1..Len(scan.todo), scan.todo[i].path # p PROVE scan.todo[i].path \in ToRead'
      BY DEF ToRead
    <3>1. i # 1 /\ i \in Nat
      BY HeadFacts
    <3>2. i - 1 \in 1..Len(Tail(scan.todo))
      BY <3>1, HeadFacts
    <3>3. Tail(scan.todo)[i - 1] = scan.todo[i]
      BY <3>1, <3>2, HeadFacts
    <3> QED
      BY <1>2, <3>2, <3>3 DEF ToRead
  <2>2. scan.left = {}
    BY DEF IngestIInv, PastOK
  <2>3. f.changed = scan.listing[p] /\ (folder[p].changed = f.changed => f.digest = folder[p].content)
    BY <1>1 DEF TodoOK
  <2>4. ASSUME ~scan.more, NEW q \in Paths, IsListed(q), q \notin ToRead', folder[q].changed = scan.listing[q], Readable(q)
        PROVE  AllHeld(q)
    <3>1. CASE q = p
      BY <2>3, <2>4, <3>1
    <3>2. CASE q # p
      BY <2>1, <2>4, <3>2 DEF IngestIInv, PastOK
    <3> QED
      BY <3>1, <3>2
  <2> HIDE DEF p, f
  <2> QED
    BY <1>2, <2>2, <2>4 DEF PastOK, IsListed, Readable, AllHeld
<1> QED
  BY <1>6, <1>7, <1>8, <1>9, <1>10 DEF IngestIInv

\* A file that cannot be read gets its row; one that can is written.
LEMMA ReadFileStep == ASSUME IngestIInv, ReadFile PROVE IngestIInv'
<1> DEFINE f == Head(scan.todo)  c == folder[f.path].content
<1>0. /\ scan.step = "reading" /\ scan.todo # <<>> /\ UNCHANGED <<folder, folderTime, store, deaths>>
      /\ scan \in Scans /\ f.path \in Paths /\ TodoOK(f) /\ scan.next = 1
  BY HeadFacts DEF ReadFile, IngestIInv, IngestTypes, WritingOK
<1>1. CASE folder[f.path].there /\ CanRead(f.path, c)
  <2>1. scan' = [scan EXCEPT !.step = "writing", !.content = c] /\ file' = file
    BY <1>1 DEF ReadFile
  <2>2. c \in 0..LastContent /\ c \in Nat /\ f.digest <= c
    <3>1. f.digest <= c
      BY <1>0 DEF TodoOK
    <3>2. folder \in [Paths -> FolderFiles]
      BY DEF IngestIInv, IngestTypes
    <3>3. c \in 0..LastContent
      BY <1>0, <3>2 DEF FolderFiles
    <3> QED
      BY <3>1, <3>3, IngestNumbers
  <2>3. /\ scan' \in Scans /\ scan'.todo = scan.todo /\ scan'.left = scan.left /\ scan'.more = scan.more
        /\ scan'.listing = scan.listing /\ scan'.step = "writing" /\ scan'.next = 1 /\ scan'.content = c
    <3> HIDE DEF f, c
    <3> QED
      BY <1>0, <2>1, <2>2 DEF Scans
  <2>4. IngestTypes'
    BY <1>0, <2>1, <2>3 DEF IngestIInv, IngestTypes
  <2>5. \A p \in Paths : ListingOK(p)' /\ FileOK(p)'
    BY <1>0, <2>1, <2>3 DEF IngestIInv, ListingOK, FileOK, IsListed, Readable, AllHeld
  <2>6. TodosOK'
    BY <1>0, <2>1, <2>3, TodosKeep
  <2>7. WritingOK'
    <3>1. \A k \in 1..Parts : ~(k < 1)
      BY IngestNumbers
    <3> QED
      BY <1>0, <2>2, <2>3, <3>1 DEF WritingOK
  <2>8. PastOK'
    BY <1>0, <2>1, <2>3 DEF IngestIInv, PastOK, IsListed, ToRead, Readable, AllHeld
  <2> QED
    BY <2>4, <2>5, <2>6, <2>7, <2>8 DEF IngestIInv
<1>2. CASE ~(folder[f.path].there /\ CanRead(f.path, c))
  <2>1. scan' = NextFile(scan) /\ file' = Upserted(f, "failed")
    BY <1>2 DEF ReadFile, Failed
  <2>2. ~Readable(f.path)
    BY <1>2 DEF Readable
  <2> QED
    BY <1>0, <2>1, <2>2, FileEnds
<1> QED
  BY <1>1, <1>2

\* A part of the file is in the cache.
LEMMA WritePartStep == ASSUME IngestIInv, WritePart PROVE IngestIInv'
<1> DEFINE f == Head(scan.todo)  p == f.path
<1>0. /\ scan.step = "writing" /\ scan.todo # <<>> /\ scan.next <= Parts /\ scan \in Scans /\ store \in Stores
      /\ UNCHANGED <<folder, folderTime, file, deaths>>
      /\ store' = [store EXCEPT ![p][scan.next] = scan.content] /\ scan' = [scan EXCEPT !.next = scan.next + 1]
      /\ f.path \in Paths /\ TodoOK(f) /\ p \in ToRead
  BY HeadFacts DEF WritePart, WritingPart, IngestIInv, IngestTypes, WritingOK
<1>1. scan.next \in 1..Parts /\ scan.content \in 0..LastContent /\ scan.next + 1 \in 1..(Parts + 1)
  <2>1. scan.next \in 1..(Parts + 1) /\ scan.content \in 0..LastContent
    BY <1>0 DEF Scans
  <2> QED
    BY <1>0, <2>1, IngestNumbers
<1>2. /\ scan' \in Scans /\ scan'.todo = scan.todo /\ scan'.left = scan.left /\ scan'.more = scan.more
      /\ scan'.listing = scan.listing /\ scan'.step = "writing" /\ scan'.next = scan.next + 1
      /\ scan'.content = scan.content
  <2> HIDE DEF p, f
  <2> QED
    BY <1>0, <1>1 DEF Scans
<1>3. /\ store' \in Stores /\ store'[p][scan.next] = scan.content
      /\ \A k \in 1..Parts : k # scan.next => store'[p][k] = store[p][k]
      /\ \A q \in Paths : q # p => store'[q] = store[q]
  <2> PICK q : q = p
    OBVIOUS
  <2>1. store[q] \in [1..Parts -> 0..LastContent] /\ q \in Paths
    BY <1>0 DEF Stores
  <2> DEFINE row == [store[q] EXCEPT ![scan.next] = scan.content]
  <2>2. row \in [1..Parts -> 0..LastContent] /\ row[scan.next] = scan.content
        /\ \A k \in 1..Parts : k # scan.next => row[k] = store[q][k]
    BY <1>1, <2>1
  <2>3. store' = [store EXCEPT ![q] = row]
    BY <1>0
  <2> HIDE DEF row, p, f
  <2> QED
    BY <1>0, <2>1, <2>2, <2>3 DEF Stores
<1>4. IngestTypes'
  BY <1>0, <1>2, <1>3 DEF IngestIInv, IngestTypes
<1>5. ASSUME NEW q \in Paths PROVE ListingOK(q)' /\ FileOK(q)'
  <2>1. ListingOK(q)'
    BY <1>0, <1>2 DEF IngestIInv, ListingOK, IsListed
  <2>2. CASE q = p
    <3>1. file[q] # NoFile => file[q].digest < folder[q].content /\ file[q].digest \in Nat /\ folder[q].content \in Nat
      <4>1. file[q] # NoFile => file[q].digest < folder[q].content
        BY <1>0, <2>2 DEF TodoOK
      <4>2. file[q] # NoFile => file[q].digest \in Nat
        BY FileRowFacts, IngestNumbers DEF IngestIInv, IngestTypes
      <4>3. folder[q].content \in Nat
        BY IngestNumbers DEF IngestIInv, IngestTypes, FolderFiles
      <4> QED
        BY <4>1, <4>2, <4>3
    <3> HIDE DEF p, f
    <3>2. FileOK(q)'
      BY <1>0, <3>1 DEF IngestIInv, FileOK
    <3> QED
      BY <2>1, <3>2
  <2>3. CASE q # p
    <3> store'[q] = store[q]
      BY <1>3, <2>3
    <3> HIDE DEF p, f
    <3> QED
      BY <1>0, <2>1 DEF IngestIInv, FileOK, Readable, AllHeld
  <2> QED
    BY <2>2, <2>3
<1>6. TodosOK'
  BY <1>0, <1>2, TodosKeep
<1>7. WritingOK'
  <2>1. f.digest <= scan.content /\ scan.content <= folder[p].content
        /\ \A k \in 1..Parts : k < scan.next => store[p][k] = scan.content
    BY <1>0 DEF IngestIInv, WritingOK
  <2>2. \A k \in 1..Parts : k < scan.next + 1 => store'[p][k] = scan.content
    BY <1>1, <1>3, <2>1
  <2>3. Head(scan'.todo) = f /\ folder'[f.path].content = folder[p].content /\ scan'.todo # <<>>
    BY <1>0, <1>2
  <2> QED
    BY <1>2, <2>1, <2>2, <2>3 DEF WritingOK
<1>8. PastOK'
  <2> SUFFICES ASSUME ~scan.more, NEW q \in Paths, IsListed(q), q \notin scan.left, q \notin ToRead,
                      folder[q].changed = scan.listing[q], Readable(q)
               PROVE  AllHeld(q)'
    BY <1>0, <1>2 DEF PastOK, IngestIInv, IsListed, ToRead, Readable
  <2>1. q # p /\ AllHeld(q)
    BY <1>0 DEF PastOK, IngestIInv
  <2>2. store'[q] = store[q]
    BY <1>3, <2>1
  <2> QED
    BY <1>0, <2>1, <2>2 DEF AllHeld
<1> QED
  BY <1>4, <1>5, <1>6, <1>7, <1>8 DEF IngestIInv

\* All parts are in the cache: the file gets its row.
LEMMA RecordFileStep == ASSUME IngestIInv, RecordFile PROVE IngestIInv'
<1> DEFINE f == Head(scan.todo)
<1>0. /\ scan.step = "writing" /\ scan.todo # <<>> /\ scan.next > Parts /\ scan \in Scans
      /\ UNCHANGED <<folder, folderTime, store, deaths>>
      /\ file' = Upserted(f, "ingested") /\ scan' = NextFile(scan)
      /\ f.path \in Paths /\ f.digest \in 1..LastContent
  BY HeadFacts DEF RecordFile, IngestIInv, IngestTypes, WritingOK
<1>1. /\ f.digest <= scan.content /\ scan.content <= folder[f.path].content
      /\ \A k \in 1..Parts : k < scan.next => store[f.path][k] = scan.content
  BY <1>0 DEF IngestIInv, WritingOK
<1>2. scan.content \in Nat /\ scan.next \in Nat /\ f.digest \in Nat /\ folder[f.path].content \in Nat
  <2>1. folder \in [Paths -> FolderFiles]
    BY DEF IngestIInv, IngestTypes
  <2>2. scan.content \in 0..LastContent /\ scan.next \in 1..(Parts + 1) /\ folder[f.path].content \in 0..LastContent
    BY <1>0, <2>1 DEF Scans, FolderFiles
  <2> QED
    BY <1>0, <2>2, IngestNumbers
<1>3. f.digest = folder[f.path].content => AllHeld(f.path)
  <2> SUFFICES ASSUME f.digest = folder[f.path].content PROVE AllHeld(f.path)
    OBVIOUS
  <2>1. scan.content = folder[f.path].content
    BY <1>1, <1>2
  <2>2. \A k \in 1..Parts : k < scan.next
    BY <1>0, <1>2, IngestNumbers
  <2> QED
    BY <1>1, <2>1, <2>2 DEF AllHeld
<1> QED
  BY <1>0, <1>3, FileEnds

\* A scan begins with a listing.
LEMMA ListStep == ASSUME IngestIInv, List PROVE IngestIInv'
<1> DEFINE listing == [p \in Paths |-> IF Settled(p) THEN folder[p].changed ELSE NotListed]
           left == {p \in Paths : Settled(p)}
<1>0. /\ scan' = [Rested EXCEPT !.step = "sorting", !.left = left, !.listing = listing]
      /\ UNCHANGED <<folder, folderTime, file, store, deaths>>
      /\ folder \in [Paths -> FolderFiles] /\ folderTime \in 0..LastTime
  BY DEF List, IngestIInv, IngestTypes
<1>1. \A p \in Paths : folder[p].changed \in 0..LastTime
  BY <1>0 DEF FolderFiles
<1>2. listing \in [Paths -> 0..NotListed] /\ left \in SUBSET Paths
  BY <1>1, IngestNumbers
<1>3. \A p \in Paths : (listing[p] # NotListed => p \in left /\ listing[p] < folderTime) /\ (p \in left => listing[p] # NotListed)
  <2> SUFFICES ASSUME NEW p \in Paths
               PROVE  (listing[p] # NotListed => p \in left /\ listing[p] < folderTime) /\ (p \in left => listing[p] # NotListed)
    OBVIOUS
  <2>1. Settled(p) => folder[p].changed + Settle <= folderTime
    BY DEF Settled
  <2> QED
    BY <1>0, <1>1, <2>1, IngestNumbers
<1> HIDE DEF listing, left
<1>4. /\ scan' \in Scans /\ scan'.step = "sorting" /\ scan'.left = left /\ scan'.listing = listing
      /\ scan'.todo = <<>> /\ scan'.next = 1
  BY <1>0, <1>2, RestedFacts DEF Scans
<1>5. Len(scan'.todo) = 0
  BY <1>4
<1>6. IngestTypes'
  BY <1>0, <1>4, <1>5, IngestNumbers DEF IngestIInv, IngestTypes
<1>7. \A p \in Paths : ListingOK(p)' /\ FileOK(p)'
  BY <1>0, <1>3, <1>4 DEF IngestIInv, ListingOK, FileOK, IsListed, Readable, AllHeld
<1>8. TodosOK' /\ WritingOK' /\ PastOK'
  BY <1>3, <1>4, <1>5 DEF TodosOK, WritingOK, PastOK, IsListed
<1> QED
  BY <1>6, <1>7, <1>8 DEF IngestIInv

\* Every step keeps it.
LEMMA IngestStep == ASSUME IngestIInv, [IngestNext]_ingestVars PROVE IngestIInv'
<1>1. CASE ScanStep
  <2>1. ASSUME NEW p \in Paths, PassOver(p) \/ TouchRow(p) \/ TakeUp(p) PROVE IngestIInv'
    BY <2>1, PassOverStep, TouchRowStep, TakeUpStep
  <2>2. CASE EndScan
    <3> deaths \in 0..ScanDeaths
      BY DEF IngestIInv, IngestTypes
    <3> QED
      BY <2>2, RestKeeps DEF EndScan
  <2> QED
    BY <1>1, <2>1, <2>2, ListStep, BeginReadingStep, ReadFileStep, WritePartStep, RecordFileStep DEF ScanStep
<1>2. CASE StopScan
  <2> deaths \in 0..ScanDeaths /\ deaths < ScanDeaths
    BY <1>2 DEF IngestIInv, IngestTypes, StopScan
  <2> deaths' \in 0..ScanDeaths
    BY <1>2, IngestNumbers DEF StopScan
  <2> QED
    BY <1>2, RestKeeps DEF StopScan
<1>3. CASE PassFolderTime
  <2>1. folderTime \in 0..LastTime /\ folder' = folder /\ folder \in [Paths -> FolderFiles]
        /\ UNCHANGED <<file, store, scan, deaths>>
    BY <1>3 DEF IngestIInv, IngestTypes, PassFolderTime
  <2>2. folderTime' \in 0..LastTime /\ folderTime' >= folderTime
    BY <1>3, <2>1, IngestNumbers DEF PassFolderTime
  <2>3. \A p \in Paths : FileMoves(p)
    BY <2>1 DEF FileMoves
  <2> QED
    BY <2>1, <2>2, <2>3, FolderKeeps
<1>4. ASSUME NEW p \in Paths, DropFile(p) \/ TouchFile(p) \/ RemoveFile(p) PROVE IngestIInv'
  BY <1>4, FolderSteps
<1>5. CASE UNCHANGED ingestVars
  <2>1. folderTime \in 0..LastTime /\ folder \in [Paths -> FolderFiles]
        /\ UNCHANGED <<folder, folderTime, file, store, scan, deaths>>
    BY <1>5 DEF IngestIInv, IngestTypes, ingestVars
  <2>2. folderTime' \in 0..LastTime /\ folderTime' >= folderTime
    BY <2>1, IngestNumbers
  <2>3. \A p \in Paths : FileMoves(p)
    BY <2>1 DEF FileMoves
  <2> QED
    BY <2>1, <2>2, <2>3, FolderKeeps
<1> QED
  BY <1>1, <1>2, <1>3, <1>4, <1>5 DEF IngestNext

\* It always holds.
LEMMA IngestIInvHolds == IngestSpec => []IngestIInv
  BY IngestInitHolds, IngestStep, PTL DEF IngestSpec

\* A scan that ends with nothing left for later.
LEMMA EndScanStep ==
    ASSUME IngestIInv, [IngestNext]_ingestVars, scan.step = "reading", scan'.step = "idle", deaths' = deaths, ~scan.more,
           NEW p \in Paths, folder[p].changed = scan.listing[p], Readable(p)
    PROVE  AllHeld(p)
<1>0. scan \in Scans /\ folder \in [Paths -> FolderFiles] /\ deaths \in Nat
  BY IngestNumbers DEF IngestIInv, IngestTypes
<1>1. scan.todo = <<>>
  <2> SUFFICES EndScan
    BY DEF EndScan
  <2>1. ~StopScan
    BY <1>0 DEF StopScan
  <2>2. ~WritePart /\ ~RecordFile /\ ~List /\ ~BeginReading /\ \A q \in Paths : ~PassOver(q) /\ ~TouchRow(q) /\ ~TakeUp(q)
    BY DEF WritePart, WritingPart, RecordFile, List, BeginReading, PassOver, TouchRow, TakeUp, NextToSort
  <2>3. ~ReadFile
    <3>1. [scan EXCEPT !.step = "writing", !.content = folder[Head(scan.todo).path].content].step = "writing"
          /\ NextFile(scan).step = "reading"
      BY <1>0 DEF NextFile, Scans
    <3> QED
      BY <3>1 DEF ReadFile
  <2>4. ~PassFolderTime /\ ~(UNCHANGED ingestVars) /\ \A q \in Paths : ~DropFile(q) /\ ~TouchFile(q) /\ ~RemoveFile(q)
    BY DEF PassFolderTime, ingestVars, DropFile, TouchFile, RemoveFile
  <2> QED
    BY <2>1, <2>2, <2>3, <2>4 DEF IngestNext, ScanStep
<1>2. Len(scan.todo) = 0
  BY <1>1
<1>3. p \notin ToRead
  BY <1>2 DEF ToRead
<1>4. folder[p].changed # NotListed
  BY <1>0, IngestNumbers DEF FolderFiles
<1> QED
  BY <1>3, <1>4 DEF IngestIInv, PastOK, IsListed

\* The state of the scans and of the folder is what its type says, a scan takes up at most its cap of files.
THEOREM IngestTypeCorrect == IngestSpec => []IngestTypeOK
  BY IngestIInvHolds, IngestTypeFact, PTL

\* Whatever happens to the folder and wherever earlier scans have died, a scan that ends with nothing
\* left for later has every listed file that is still what was listed in the cache, whole
\* (ingest.py: the loop over the listing, the digest, the parts written before the row).
THEOREM CatchesUpTheorem == IngestSpec => ScanCatchesUp
<1>1. IngestIInv /\ [IngestNext]_ingestVars =>
        [scan.step = "reading" /\ scan'.step = "idle" /\ deaths' = deaths /\ ~scan.more =>
            \A p \in Paths : folder[p].changed = scan.listing[p] /\ Readable(p) => AllHeld(p)]_ingestVars
  BY EndScanStep
<1> QED
  BY <1>1, IngestIInvHolds, PTL DEF IngestSpec, ScanCatchesUp

-----------------------------------------------------------------------------
(* A search of an address space: sequences of sequences *)

\* The bounds of a search, and an address space that is closed: every reference leads to a node.
LEMMA BrowseNumbers ==
    /\ BrowseBatch \in Nat \ {0} /\ BrowseDepth \in Nat \ {0} /\ BrowseLimit \in Nat \ {0} /\ SearchLimit \in Nat \ {0}
    /\ \A s \in AddressSpaces : Root \in DOMAIN s /\ \A n \in DOMAIN s : s[n] \in Seq(DOMAIN s)
  BY BrowseAssumption

\* What a sequence of sequences is put together from, step by step.
Flattens(f, ss) == f = [i \in 1..Len(ss) |-> IF i = 1 THEN ss[i] ELSE f[i - 1] \o ss[i]]
\* The same for the first of the parts.
FlattensUpTo(f, ss, n) == f = [i \in 1..n |-> IF i = 1 THEN ss[i] ELSE f[i - 1] \o ss[i]]

\* Such a function exists, however many parts there are.
LEMMA FlattenExists ==
    ASSUME NEW ss, NEW n \in Nat
    PROVE  \E f : FlattensUpTo(f, ss, n)
<1> DEFINE S == {k \in Nat : \E f : FlattensUpTo(f, ss, k)}
<1>1. 0 \in S
  <2>1. FlattensUpTo([i \in 1..0 |-> <<>>], ss, 0)
    BY DEF FlattensUpTo
  <2> QED
    BY <2>1
<1>2. ASSUME NEW k \in Nat, k \in S PROVE k + 1 \in S
  <2>1. PICK f : FlattensUpTo(f, ss, k)
    BY <1>2
  <2> DEFINE g == [i \in 1..(k + 1) |-> IF i = k + 1 THEN (IF k = 0 THEN ss[1] ELSE f[k] \o ss[k + 1]) ELSE f[i]]
  <2>2. \A i \in 1..k : g[i] = f[i]
    OBVIOUS
  <2>3. \A i \in 1..k : f[i] = IF i = 1 THEN ss[i] ELSE f[i - 1] \o ss[i]
    BY <2>1 DEF FlattensUpTo
  <2>4. \A i \in 1..(k + 1) : g[i] = IF i = 1 THEN ss[i] ELSE g[i - 1] \o ss[i]
    <3> SUFFICES ASSUME NEW i \in 1..(k + 1) PROVE g[i] = IF i = 1 THEN ss[i] ELSE g[i - 1] \o ss[i]
      OBVIOUS
    <3>1. CASE i = k + 1
      <4>1. CASE k = 0
        BY <3>1, <4>1
      <4>2. CASE k # 0
        <5>1. g[k] = f[k] /\ i - 1 = k /\ i # 1
          BY <3>1, <4>2
        <5> QED
          BY <3>1, <4>2, <5>1
      <4> QED
        BY <4>1, <4>2
    <3>2. CASE i # k + 1
      <4>1. i \in 1..k /\ (i # 1 => i - 1 \in 1..k)
        BY <3>2
      <4> QED
        BY <2>2, <2>3, <4>1
    <3> QED
      BY <3>1, <3>2
  <2>5. g = [i \in 1..(k + 1) |-> g[i]]
    OBVIOUS
  <2>6. FlattensUpTo(g, ss, k + 1)
    <3> HIDE DEF g
    <3> QED
      BY <2>4, <2>5 DEF FlattensUpTo
  <2> QED
    BY <2>6
<1> HIDE DEF S
<1>3. n \in S
  BY <1>1, <1>2, NatSetInduction
<1> QED
  BY <1>3 DEF S

\* What is put together has the elements of all parts, in their order.
InOrderOf(seq, ss, n) ==
    /\ \A i \in 1..n : \A j \in 1..Len(ss[i]) : \E k \in 1..Len(seq) : seq[k] = ss[i][j]
    /\ \A k, l \in 1..Len(seq) : k <= l =>
          \E i, j \in 1..n : i <= j /\ (\E a \in 1..Len(ss[i]) : seq[k] = ss[i][a])
                                    /\ (\E a \in 1..Len(ss[j]) : seq[l] = ss[j][a])

\* One more part keeps that.
LEMMA AddInOrder ==
    ASSUME NEW T, NEW ss \in Seq(Seq(T)), NEW n \in Nat, n + 1 \in 1..Len(ss), NEW seq \in Seq(T), InOrderOf(seq, ss, n)
    PROVE  seq \o ss[n + 1] \in Seq(T) /\ InOrderOf(seq \o ss[n + 1], ss, n + 1)
<1> DEFINE s == ss[n + 1]  all == seq \o s
<1>1. s \in Seq(T)
  OBVIOUS
<1>2. all \in Seq(T) /\ Len(all) = Len(seq) + Len(s) /\ Len(seq) \in Nat /\ Len(s) \in Nat
      /\ (\A k \in 1..Len(seq) : all[k] = seq[k])
      /\ (\A k \in 1..Len(all) : k > Len(seq) => k - Len(seq) \in 1..Len(s) /\ all[k] = s[k - Len(seq)])
      /\ (\A j \in 1..Len(s) : Len(seq) + j \in 1..Len(all) /\ all[Len(seq) + j] = s[j])
  <2> HIDE DEF s
  <2> QED
    BY <1>1
<1>s. s = ss[n + 1]
  OBVIOUS
<1> HIDE DEF all, s
<1>3. ASSUME NEW i \in 1..(n + 1), NEW j \in 1..Len(ss[i]) PROVE \E k \in 1..Len(all) : all[k] = ss[i][j]
  <2>1. CASE i = n + 1
    BY <1>2, <1>3, <1>s, <2>1
  <2>2. CASE i # n + 1
    <3>1. i \in 1..n
      BY <2>2
    <3>2. PICK k \in 1..Len(seq) : seq[k] = ss[i][j]
      BY <3>1 DEF InOrderOf
    <3>3. k \in 1..Len(all) /\ all[k] = seq[k]
      BY <1>2
    <3> QED
      BY <3>2, <3>3
  <2> QED
    BY <2>1, <2>2
<1>4. ASSUME NEW k \in 1..Len(all), NEW l \in 1..Len(all), k <= l
      PROVE  \E i, j \in 1..(n + 1) : i <= j /\ (\E a \in 1..Len(ss[i]) : all[k] = ss[i][a])
                                             /\ (\E a \in 1..Len(ss[j]) : all[l] = ss[j][a])
  <2>0. k \in Int /\ l \in Int /\ k <= l /\ 1 <= k
    BY <1>4
  <2>1. CASE l <= Len(seq)
    <3>0. k \in 1..Len(seq) /\ l \in 1..Len(seq)
      BY <1>2, <2>0, <2>1
    <3>1. k \in 1..Len(seq) /\ l \in 1..Len(seq) /\ all[k] = seq[k] /\ all[l] = seq[l]
      BY <1>2, <3>0
    <3>2. PICK i \in 1..n, j \in 1..n : i <= j /\ (\E a \in 1..Len(ss[i]) : seq[k] = ss[i][a])
                                    /\ (\E a \in 1..Len(ss[j]) : seq[l] = ss[j][a])
      BY <1>4, <3>1 DEF InOrderOf
    <3>3. i \in 1..(n + 1) /\ j \in 1..(n + 1)
      OBVIOUS
    <3>4. \E a \in 1..Len(ss[i]) : all[k] = ss[i][a]
      BY <3>1, <3>2, Zenon
    <3>5. \E a \in 1..Len(ss[j]) : all[l] = ss[j][a]
      BY <3>1, <3>2, Zenon
    <3> QED
      BY <3>2, <3>3, <3>4, <3>5, Zenon
  <2>2. CASE l > Len(seq)
    <3>1. \E a \in 1..Len(ss[n + 1]) : all[l] = ss[n + 1][a]
      BY <1>2, <1>s, <2>2
    <3>2. CASE k > Len(seq)
      <4>1. \E a \in 1..Len(ss[n + 1]) : all[k] = ss[n + 1][a]
        BY <1>2, <1>s, <3>2
      <4>2. n + 1 \in 1..(n + 1) /\ n + 1 <= n + 1
        OBVIOUS
      <4> QED
        BY <3>1, <4>1, <4>2, Zenon
    <3>3. CASE k <= Len(seq)
      <4>1. k \in 1..Len(seq) /\ all[k] = seq[k] /\ k <= k
        BY <1>2, <3>3
      <4>2. PICK i \in 1..n : \E a \in 1..Len(ss[i]) : seq[k] = ss[i][a]
        BY <4>1 DEF InOrderOf
      <4>3. i \in 1..(n + 1) /\ n + 1 \in 1..(n + 1) /\ i <= n + 1
        OBVIOUS
      <4>4. \E a \in 1..Len(ss[i]) : all[k] = ss[i][a]
        BY <4>1, <4>2, Zenon
      <4> QED
        BY <3>1, <4>3, <4>4, Zenon
    <3>4. k > Len(seq) \/ k <= Len(seq)
      BY <1>2, <2>0
    <3> QED
      BY <3>2, <3>3, <3>4
  <2>3. l <= Len(seq) \/ l > Len(seq)
    BY <1>2, <2>0
  <2> QED
    BY <2>1, <2>2, <2>3
<1>5. InOrderOf(all, ss, n + 1)
  BY <1>3, <1>4 DEF InOrderOf
<1> QED
  BY <1>2, <1>5 DEF all, s

\* FlattenSeq keeps the elements of all parts, in their order.
LEMMA FlattenIs ==
    ASSUME NEW T, NEW ss \in Seq(Seq(T))
    PROVE  FlattenSeq(ss) \in Seq(T) /\ InOrderOf(FlattenSeq(ss), ss, Len(ss))
<1>1. CASE Len(ss) = 0
  <2>1. FlattenSeq(ss) = ss /\ ss = <<>>
    BY <1>1 DEF FlattenSeq
  <2>2. <<>> \in Seq(T) /\ InOrderOf(<<>>, ss, 0)
    BY DEF InOrderOf
  <2> QED
    BY <1>1, <2>1, <2>2
<1>2. CASE Len(ss) # 0
  <2> DEFINE f == CHOOSE f : Flattens(f, ss)
  <2>1. FlattenSeq(ss) = f[Len(ss)]
    BY <1>2 DEF FlattenSeq, Flattens
  <2>2. Flattens(f, ss)
    <3>1. Len(ss) \in Nat
      OBVIOUS
    <3>2. PICK g : FlattensUpTo(g, ss, Len(ss))
      BY <3>1, FlattenExists
    <3>3. Flattens(g, ss)
      BY <3>2 DEF FlattensUpTo, Flattens
    <3> QED
      BY <3>3
  <2> HIDE DEF f
  <2>3. \A i \in 1..Len(ss) : f[i] = IF i = 1 THEN ss[i] ELSE f[i - 1] \o ss[i]
    BY <2>2 DEF Flattens
  <2> DEFINE S == {k \in Nat : k + 1 \in 1..Len(ss) => f[k + 1] \in Seq(T) /\ InOrderOf(f[k + 1], ss, k + 1)}
  <2>4. 0 \in S
    <3>1. ASSUME 1 \in 1..Len(ss) PROVE f[1] \in Seq(T) /\ InOrderOf(f[1], ss, 1)
      <4>1. <<>> \in Seq(T) /\ InOrderOf(<<>>, ss, 0)
        BY DEF InOrderOf
      <4>2. ss[1] \in Seq(T)
        BY <3>1
      <4>3. <<>> \o ss[1] = ss[1] /\ f[1] = ss[1]
        BY <2>3, <3>1, <4>2
      <4>4. 0 + 1 = 1 /\ 0 \in Nat
        OBVIOUS
      <4>5. <<>> \o ss[0 + 1] \in Seq(T) /\ InOrderOf(<<>> \o ss[0 + 1], ss, 0 + 1)
        BY <3>1, <4>1, <4>4, AddInOrder
      <4> QED
        BY <4>3, <4>4, <4>5
    <3> QED
      BY <3>1
  <2>5. ASSUME NEW k \in Nat, k \in S PROVE k + 1 \in S
    <3> SUFFICES ASSUME (k + 1) + 1 \in 1..Len(ss)
                 PROVE  f[(k + 1) + 1] \in Seq(T) /\ InOrderOf(f[(k + 1) + 1], ss, (k + 1) + 1)
      OBVIOUS
    <3>1. k + 1 \in 1..Len(ss) /\ k + 1 \in Nat
      OBVIOUS
    <3>2. f[k + 1] \in Seq(T) /\ InOrderOf(f[k + 1], ss, k + 1)
      BY <2>5, <3>1
    <3>3. f[(k + 1) + 1] = f[k + 1] \o ss[(k + 1) + 1]
      <4>1. (k + 1) + 1 # 1 /\ ((k + 1) + 1) - 1 = k + 1
        OBVIOUS
      <4> QED
        BY <2>3, <4>1
    <3> QED
      BY <3>1, <3>2, <3>3, AddInOrder
  <2> HIDE DEF S
  <2>6. Nat \subseteq S
    BY <2>4, <2>5, NatSetInduction
  <2>7. Len(ss) - 1 \in Nat /\ (Len(ss) - 1) + 1 = Len(ss) /\ Len(ss) \in 1..Len(ss)
    BY <1>2
  <2>8. f[Len(ss)] \in Seq(T) /\ InOrderOf(f[Len(ss)], ss, Len(ss))
    BY <2>6, <2>7 DEF S
  <2> QED
    BY <2>1, <2>8
<1> QED
  BY <1>1, <1>2

-----------------------------------------------------------------------------
(* A search: how far references lead *)

\* The nodes that one more reference leads to.
OneFurther(N) == N \union UNION {{space[n][i] : i \in DOMAIN space[n]} : n \in N}

\* The nodes so many references lead to, up to a number of them.
Walks(g, n) == g = [k \in 0..n |-> IF k = 0 THEN {Root} ELSE OneFurther(g[k - 1])]

\* Such a function exists for every number.
LEMMA WalkExists ==
    ASSUME NEW n \in Nat
    PROVE  \E g : Walks(g, n)
<1> DEFINE S == {k \in Nat : \E g : Walks(g, k)}
<1>1. 0 \in S
  <2>1. Walks([k \in 0..0 |-> {Root}], 0)
    BY DEF Walks
  <2> QED
    BY <2>1
<1>2. ASSUME NEW k \in Nat, k \in S PROVE k + 1 \in S
  <2>1. PICK f : Walks(f, k)
    BY <1>2
  <2> DEFINE g == [i \in 0..(k + 1) |-> IF i = k + 1 THEN OneFurther(f[k]) ELSE f[i]]
  <2>2. \A i \in 0..k : g[i] = f[i]
    OBVIOUS
  <2>3. \A i \in 0..k : f[i] = IF i = 0 THEN {Root} ELSE OneFurther(f[i - 1])
    BY <2>1 DEF Walks
  <2>4. \A i \in 0..(k + 1) : g[i] = IF i = 0 THEN {Root} ELSE OneFurther(g[i - 1])
    <3> SUFFICES ASSUME NEW i \in 0..(k + 1) PROVE g[i] = IF i = 0 THEN {Root} ELSE OneFurther(g[i - 1])
      OBVIOUS
    <3>1. CASE i = k + 1
      <4> i # 0 /\ i - 1 = k /\ g[k] = f[k] /\ g[i] = OneFurther(f[k])
        BY <3>1
      <4> HIDE DEF g
      <4> QED
        OBVIOUS
    <3>2. CASE i # k + 1
      <4>1. i \in 0..k /\ (i # 0 => i - 1 \in 0..k)
        BY <3>2
      <4> HIDE DEF g
      <4> QED
        BY <2>2, <2>3, <4>1
    <3> QED
      BY <3>1, <3>2
  <2>5. g = [i \in 0..(k + 1) |-> g[i]]
    OBVIOUS
  <2>6. Walks(g, k + 1)
    <3> HIDE DEF g
    <3> QED
      BY <2>4, <2>5 DEF Walks
  <2> QED
    BY <2>6
<1> HIDE DEF S
<1>3. n \in S
  BY <1>1, <1>2, NatSetInduction
<1> QED
  BY <1>3 DEF S

\* Two of them are the same as far as both go.
LEMMA WalksAgree ==
    ASSUME NEW n \in Nat, NEW m \in Nat, NEW g, NEW h, Walks(g, n), Walks(h, m)
    PROVE  \A k \in Nat : k <= n /\ k <= m => g[k] = h[k]
<1> DEFINE S == {k \in Nat : k <= n /\ k <= m => g[k] = h[k]}
<1>0. /\ \A i \in 0..n : g[i] = IF i = 0 THEN {Root} ELSE OneFurther(g[i - 1])
      /\ \A i \in 0..m : h[i] = IF i = 0 THEN {Root} ELSE OneFurther(h[i - 1])
  BY DEF Walks
<1>1. 0 \in S
  BY <1>0
<1>2. ASSUME NEW k \in Nat, k \in S PROVE k + 1 \in S
  <2> SUFFICES ASSUME k + 1 <= n, k + 1 <= m PROVE g[k + 1] = h[k + 1]
    OBVIOUS
  <2>1. g[k] = h[k]
    BY <1>2
  <2>2. k + 1 \in 0..n /\ k + 1 \in 0..m /\ k + 1 # 0 /\ (k + 1) - 1 = k
    OBVIOUS
  <2>3. g[k + 1] = OneFurther(g[k]) /\ h[k + 1] = OneFurther(h[k])
    BY <1>0, <2>2
  <2> QED
    BY <2>1, <2>3
<1> HIDE DEF S
<1>3. Nat \subseteq S
  BY <1>1, <1>2, NatSetInduction
<1> QED
  BY <1>3 DEF S

\* What the recursive function of the model is.
LEMMA WithinIs ==
    /\ Within[0] = {Root}
    /\ \A k \in Nat : Within[k + 1] = OneFurther(Within[k])
<1> DEFINE P(f) == f = [steps \in Nat |-> IF steps = 0 THEN {Root} ELSE OneFurther(f[steps - 1])]
           G(k) == CHOOSE g : Walks(g, k)
           W == [k \in Nat |-> G(k)[k]]
<1>1. \A k \in Nat : Walks(G(k), k)
  BY WalkExists
<1>2. \A k \in Nat : W[k] = IF k = 0 THEN {Root} ELSE OneFurther(W[k - 1])
  <2> SUFFICES ASSUME NEW k \in Nat PROVE W[k] = IF k = 0 THEN {Root} ELSE OneFurther(W[k - 1])
    OBVIOUS
  <2>1. Walks(G(k), k) /\ W[k] = G(k)[k] /\ (k # 0 => Walks(G(k - 1), k - 1) /\ W[k - 1] = G(k - 1)[k - 1])
    BY <1>1
  <2> HIDE DEF W, G
  <2>2. k \in 0..k
    OBVIOUS
  <2>3. G(k)[k] = IF k = 0 THEN {Root} ELSE OneFurther(G(k)[k - 1])
    BY <2>1, <2>2 DEF Walks
  <2>4. k # 0 => G(k)[k - 1] = G(k - 1)[k - 1]
    <3> SUFFICES ASSUME k # 0 PROVE G(k)[k - 1] = G(k - 1)[k - 1]
      OBVIOUS
    <3>1. k - 1 \in Nat /\ k - 1 <= k /\ k - 1 <= k - 1
      OBVIOUS
    <3> QED
      BY <2>1, <3>1, WalksAgree
  <2> QED
    BY <2>1, <2>3, <2>4
<1>3. W = [k \in Nat |-> W[k]]
  OBVIOUS
<1>4. P(W)
  <2> HIDE DEF W
  <2> QED
    BY <1>2, <1>3
<1>5. P(Within)
  <2>1. Within = CHOOSE f : P(f)
    BY DEF Within, OneFurther
  <2> HIDE DEF W, G
  <2> QED
    BY <1>4, <2>1
<1>6. \A k \in Nat : Within[k] = IF k = 0 THEN {Root} ELSE OneFurther(Within[k - 1])
  BY <1>5
<1>7. \A k \in Nat : k + 1 \in Nat /\ k + 1 # 0 /\ (k + 1) - 1 = k
  OBVIOUS
<1> HIDE DEF P, W, G
<1>8. \A k \in Nat : Within[k + 1] = OneFurther(Within[k])
  BY <1>6, <1>7
<1> QED
  BY <1>6, <1>8

\* With more references one gets as far, or farther.
LEMMA WithinGrows ==
    ASSUME NEW a \in Nat, NEW b \in Nat, a <= b
    PROVE  Within[a] \subseteq Within[b]
<1> DEFINE S == {k \in Nat : Within[a] \subseteq Within[a + k]}
<1>1. 0 \in S
  OBVIOUS
<1>2. ASSUME NEW k \in Nat, k \in S PROVE k + 1 \in S
  <2>1. a + (k + 1) = (a + k) + 1 /\ a + k \in Nat
    OBVIOUS
  <2>2. Within[a + k] \subseteq Within[(a + k) + 1]
    BY <2>1, WithinIs DEF OneFurther
  <2> QED
    BY <1>2, <2>1, <2>2
<1> HIDE DEF S
<1>3. b - a \in S
  BY <1>1, <1>2, NatSetInduction
<1>4. a + (b - a) = b
  OBVIOUS
<1> QED
  BY <1>3, <1>4 DEF S

\* A reference leads one step further.
LEMMA WithinGoesOn ==
    ASSUME NEW k \in Nat, NEW n \in Within[k], NEW i \in DOMAIN space[n]
    PROVE  space[n][i] \in Within[k + 1]
  BY WithinIs DEF OneFurther

\* What is reached depends on the address space only.
LEMMA WithinStays == UNCHANGED space => Within' = Within
  BY DEF Within

-----------------------------------------------------------------------------
(* A search: its invariant *)

\* One reference, or one node to browse, is not behind another, and no further than a step ahead.
NearDepth(a, b) == a.depth <= b.depth /\ b.depth <= a.depth + 1

\* No way to the node is shorter than so many references.
Farther(n, d) == \A j \in Nat : j < d => n \notin Within[j]

\* The types; the root counts as seen from the beginning.
BrowseTypes ==
    /\ space \in AddressSpaces
    /\ frontier \in Seq(AtDepths) /\ answers \in Seq(AtDepths)
    /\ seen \subseteq Nodes /\ IsFiniteSet(seen) /\ Root \in seen

\* What was found: each once, no more than asked for, none too deep, and all that was seen and matches.
FoundOK ==
    /\ found \in Seq(Matching \intersect seen)
    /\ \A i, j \in 1..Len(found) : found[i] = found[j] => i = j
    /\ Len(found) <= SearchLimit
    /\ answers # <<>> => Len(found) < SearchLimit
    /\ \A i \in 1..Len(found) : found[i] \in Within[BrowseDepth]
    /\ \A n \in seen \ {Root} : n \in Matching => \E i \in 1..Len(found) : found[i] = n

\* What is pending is in the order of its depth: first the references, then the nodes.
QueueOK ==
    /\ \A i, j \in 1..Len(frontier) : i <= j => NearDepth(frontier[i], frontier[j])
    /\ \A i, j \in 1..Len(answers) : i <= j => NearDepth(answers[i], answers[j])
    /\ \A i \in 1..Len(answers), j \in 1..Len(frontier) : NearDepth(answers[i], frontier[j])

\* What is pending is reached with as many references as its depth says.
LevelsOK ==
    /\ \A i \in 1..Len(frontier) : frontier[i].node \in Within[frontier[i].depth]
    /\ \A i \in 1..Len(answers) : answers[i].node \in Within[answers[i].depth + 1]

\* No node waits that a shorter way leads to: what is seen first is seen at its least depth.
NearestOK == \A i \in 1..Len(frontier) : Farther(frontier[i].node, frontier[i].depth)

\* A node that was seen waits, is too deep, or has its references seen, or pending and no deeper
\* than the node's own least depth.
ExploredOK ==
    \A n \in seen :
        \/ \E i \in 1..Len(frontier) : frontier[i].node = n
        \/ Farther(n, BrowseDepth)
        \/ \A i \in 1..Len(space[n]) :
              \/ space[n][i] \in seen
              \/ \E k \in 1..Len(answers) : answers[k].node = space[n][i] /\ Farther(n, answers[k].depth)

\* Neither of the two bounds has cut the search.
Uncut == Len(found) < SearchLimit /\ Cardinality(seen) < BrowseLimit

\* The inductive invariant of a search.
BrowseIInv == BrowseTypes /\ FoundOK /\ QueueOK /\ LevelsOK /\ (Uncut => NearestOK /\ ExploredOK)

-----------------------------------------------------------------------------
(* A search: its steps *)

\* The references of a node lead to nodes.
LEMMA SpaceFacts ==
    ASSUME space \in AddressSpaces
    PROVE  /\ Root \in Nodes
           /\ \A n \in Nodes : space[n] \in Seq(Nodes) /\ DOMAIN space[n] = 1..Len(space[n]) /\ Len(space[n]) \in Nat
           /\ \A n \in Nodes : \A i \in 1..Len(space[n]) : space[n][i] \in Nodes
<1>1. Root \in Nodes /\ \A n \in Nodes : space[n] \in Seq(Nodes)
  BY BrowseNumbers DEF Nodes
<1> QED
  BY <1>1

\* The parts of a node or a reference with its depth.
LEMMA AtDepthsFacts ==
    ASSUME NEW e \in AtDepths
    PROVE  e.node \in Nodes /\ e.depth \in Nat /\ e.depth < BrowseDepth /\ e.depth + 1 <= BrowseDepth
  BY BrowseNumbers DEF AtDepths

\* As many as a Browse call takes, or all.
LEMMA BatchOf ==
    ASSUME NEW n \in Nat, n # 0
    PROVE  Min({BrowseBatch, n}) \in 1..n
<1> DEFINE S == {BrowseBatch, n}
<1>1. \E x \in S : \A y \in S : x <= y
  BY BrowseNumbers
<1>2. Min(S) \in S /\ \A y \in S : Min(S) <= y
  <2> HIDE DEF S
  <2> QED
    BY <1>1 DEF Min
<1> QED
  BY <1>2, BrowseNumbers

\* What a batch leaves waiting, and what it answers: the references of its nodes, in their order.
LEMMA WhatIsBrowsed ==
    ASSUME BrowseTypes, BrowseNodes
    PROVE  \E m \in 1..Len(frontier) :
             /\ frontier' \in Seq(AtDepths) /\ Len(frontier') = Len(frontier) - m
             /\ \A i \in 1..Len(frontier') : frontier'[i] = frontier[m + i]
             /\ answers' \in Seq(AtDepths)
             /\ \A i \in 1..m : \A a \in 1..Len(space[frontier[i].node]) :
                  \E k \in 1..Len(answers') :
                    answers'[k].node = space[frontier[i].node][a] /\ answers'[k].depth = frontier[i].depth
             /\ \A k, l \in 1..Len(answers') : k <= l =>
                  \E i, j \in 1..m : /\ i <= j
                                     /\ answers'[k].depth = frontier[i].depth
                                     /\ answers'[l].depth = frontier[j].depth
             /\ \A k \in 1..Len(answers') : \E i \in 1..m : \E a \in 1..Len(space[frontier[i].node]) :
                    answers'[k].node = space[frontier[i].node][a] /\ answers'[k].depth = frontier[i].depth
<1> DEFINE m     == Min({BrowseBatch, Len(frontier)})
           batch == SubSeq(frontier, 1, m)
           ss    == [i \in DOMAIN batch |-> References(batch[i])]
<1>0. frontier \in Seq(AtDepths) /\ frontier # <<>> /\ Len(frontier) \in Nat /\ Len(frontier) # 0
  BY DEF BrowseTypes, BrowseNodes
<1>1. m \in 1..Len(frontier)
  BY <1>0, BatchOf
<1>2. answers' = FlattenSeq(ss) /\ frontier' = SubSeq(frontier, Len(batch) + 1, Len(frontier))
  BY DEF BrowseNodes
<1> HIDE DEF m
<1>3. batch \in Seq(AtDepths) /\ Len(batch) = m /\ DOMAIN batch = 1..m /\ \A i \in 1..m : batch[i] = frontier[i]
  BY <1>0, <1>1
<1> HIDE DEF batch
<1>4. frontier' \in Seq(AtDepths) /\ Len(frontier') = Len(frontier) - m
      /\ \A i \in 1..Len(frontier') : frontier'[i] = frontier[m + i]
  BY <1>0, <1>1, <1>2, <1>3
<1>5. ASSUME NEW i \in 1..m
      PROVE  /\ ss[i] \in Seq(AtDepths) /\ Len(ss[i]) = Len(space[frontier[i].node])
             /\ \A a \in 1..Len(ss[i]) : /\ ss[i][a].node = space[frontier[i].node][a]
                                         /\ ss[i][a].depth = frontier[i].depth
  <2> DEFINE e == frontier[i]
  <2>1. e \in AtDepths /\ i \in DOMAIN batch /\ batch[i] = e
    BY <1>0, <1>1, <1>3
  <2>2. ss[i] = References(e)
    BY <2>1
  <2> HIDE DEF ss
  <2>3. e.node \in Nodes /\ e.depth \in 0..(BrowseDepth - 1)
    BY <2>1 DEF AtDepths
  <2> HIDE DEF e
  <2>4. space[e.node] \in Seq(Nodes) /\ DOMAIN space[e.node] = 1..Len(space[e.node]) /\ Len(space[e.node]) \in Nat
        /\ \A a \in 1..Len(space[e.node]) : space[e.node][a] \in Nodes
    BY <2>3, SpaceFacts DEF BrowseTypes
  <2>5. \A a \in 1..Len(space[e.node]) : [node |-> space[e.node][a], depth |-> e.depth] \in AtDepths
    BY <2>3, <2>4 DEF AtDepths
  <2>6. ss[i] = [a \in 1..Len(space[e.node]) |-> [node |-> space[e.node][a], depth |-> e.depth]]
    BY <2>2, <2>4 DEF References
  <2>7. ss[i] \in Seq(AtDepths) /\ Len(ss[i]) = Len(space[e.node])
    BY <2>4, <2>5, <2>6
  <2>8. \A a \in 1..Len(ss[i]) : ss[i][a].node = space[e.node][a] /\ ss[i][a].depth = e.depth
    BY <2>6, <2>7
  <2> QED
    BY <2>7, <2>8 DEF e
<1>6. ss \in Seq(Seq(AtDepths)) /\ Len(ss) = m
  <2>1. ss = [i \in 1..m |-> ss[i]] /\ m \in Nat
    BY <1>1, <1>3
  <2> HIDE DEF ss
  <2>2. \A i \in 1..m : ss[i] \in Seq(AtDepths)
    BY <1>5
  <2> QED
    BY <2>1, <2>2
<1> HIDE DEF ss
<1>7. answers' \in Seq(AtDepths) /\ InOrderOf(answers', ss, m)
  BY <1>2, <1>6, FlattenIs
<1>8. \A i \in 1..m : \A a \in 1..Len(space[frontier[i].node]) :
        \E k \in 1..Len(answers') :
          answers'[k].node = space[frontier[i].node][a] /\ answers'[k].depth = frontier[i].depth
  <2> SUFFICES ASSUME NEW i \in 1..m, NEW a \in 1..Len(space[frontier[i].node])
               PROVE  \E k \in 1..Len(answers') :
                        answers'[k].node = space[frontier[i].node][a] /\ answers'[k].depth = frontier[i].depth
    OBVIOUS
  <2>1. a \in 1..Len(ss[i]) /\ ss[i][a].node = space[frontier[i].node][a] /\ ss[i][a].depth = frontier[i].depth
    BY <1>5
  <2>2. PICK k \in 1..Len(answers') : answers'[k] = ss[i][a]
    BY <1>7, <2>1, Zenon DEF InOrderOf
  <2> QED
    BY <2>1, <2>2
<1>9. ASSUME NEW k \in 1..Len(answers'), NEW l \in 1..Len(answers'), k <= l
      PROVE  \E i, j \in 1..m : i <= j /\ (\E a \in 1..Len(ss[i]) : answers'[k] = ss[i][a])
                                       /\ (\E a \in 1..Len(ss[j]) : answers'[l] = ss[j][a])
  BY <1>7, <1>9 DEF InOrderOf
<1>10. \A k, l \in 1..Len(answers') : k <= l =>
         \E i, j \in 1..m : /\ i <= j
                            /\ answers'[k].depth = frontier[i].depth
                            /\ answers'[l].depth = frontier[j].depth
  <2> SUFFICES ASSUME NEW k \in 1..Len(answers'), NEW l \in 1..Len(answers'), k <= l
               PROVE  \E i, j \in 1..m : /\ i <= j
                                         /\ answers'[k].depth = frontier[i].depth
                                         /\ answers'[l].depth = frontier[j].depth
    OBVIOUS
  <2>1. PICK i \in 1..m, j \in 1..m : i <= j /\ (\E a \in 1..Len(ss[i]) : answers'[k] = ss[i][a])
                                             /\ (\E a \in 1..Len(ss[j]) : answers'[l] = ss[j][a])
    BY <1>9
  <2>2. answers'[k].depth = frontier[i].depth
    BY <1>5, <2>1
  <2>3. answers'[l].depth = frontier[j].depth
    BY <1>5, <2>1
  <2> QED
    BY <2>1, <2>2, <2>3, Zenon
<1>11. \A k \in 1..Len(answers') : \E i \in 1..m : \E a \in 1..Len(space[frontier[i].node]) :
         answers'[k].node = space[frontier[i].node][a] /\ answers'[k].depth = frontier[i].depth
  <2> SUFFICES ASSUME NEW k \in 1..Len(answers')
               PROVE  \E i \in 1..m : \E a \in 1..Len(space[frontier[i].node]) :
                        answers'[k].node = space[frontier[i].node][a] /\ answers'[k].depth = frontier[i].depth
    OBVIOUS
  <2>1. k <= k
    OBVIOUS
  <2>2. PICK i \in 1..m : \E a \in 1..Len(ss[i]) : answers'[k] = ss[i][a]
    BY <1>9, <2>1
  <2>3. PICK a \in 1..Len(ss[i]) : answers'[k] = ss[i][a]
    BY <2>2
  <2>4. a \in 1..Len(space[frontier[i].node])
        /\ answers'[k].node = space[frontier[i].node][a] /\ answers'[k].depth = frontier[i].depth
    BY <1>5, <2>3
  <2> QED
    BY <2>4
<1> QED
  BY <1>1, <1>4, <1>7, <1>8, <1>10, <1>11

\* Where nothing is pending that is nearer, everything so near has been seen.
LEMMA LevelsSeen ==
    ASSUME BrowseIInv, Uncut, NEW d \in Nat, d <= BrowseDepth,
           \A i \in 1..Len(frontier) : d <= frontier[i].depth,
           \A i \in 1..Len(answers) : d <= answers[i].depth
    PROVE  Within[d] \subseteq seen
<1> DEFINE S == {k \in Nat : k <= d => Within[k] \subseteq seen}
<1>1. 0 \in S
  BY WithinIs DEF BrowseIInv, BrowseTypes
<1>2. ASSUME NEW k \in Nat, k \in S PROVE k + 1 \in S
  <2> SUFFICES ASSUME k + 1 <= d PROVE Within[k + 1] \subseteq seen
    OBVIOUS
  <2>0. BrowseDepth \in Nat /\ k < BrowseDepth /\ k < d
    BY BrowseNumbers
  <2>1. Within[k] \subseteq seen
    BY <1>2, <2>0
  <2>2. Within[k + 1] = Within[k] \union UNION {{space[n][i] : i \in DOMAIN space[n]} : n \in Within[k]}
    BY WithinIs DEF OneFurther
  <2>3. ASSUME NEW n \in Within[k], NEW i \in DOMAIN space[n] PROVE space[n][i] \in seen
    <3>1. n \in seen /\ n \in Nodes /\ frontier \in Seq(AtDepths) /\ answers \in Seq(AtDepths)
      BY <2>1 DEF BrowseIInv, BrowseTypes
    <3>2. i \in 1..Len(space[n])
      BY <3>1, SpaceFacts DEF BrowseIInv, BrowseTypes
    <3>3. ASSUME NEW e \in Nat, Farther(n, e) PROVE e <= k
      BY <3>3 DEF Farther
    <3>4. CASE \E j \in 1..Len(frontier) : frontier[j].node = n
      <4>1. PICK j \in 1..Len(frontier) : frontier[j].node = n
        BY <3>4
      <4>2. frontier[j].depth \in Nat
        BY <3>1, AtDepthsFacts
      <4>3. Farther(n, frontier[j].depth)
        BY <4>1 DEF BrowseIInv, NearestOK
      <4>4. frontier[j].depth <= k /\ d <= frontier[j].depth
        BY <3>3, <4>2, <4>3
      <4> QED
        BY <2>0, <4>2, <4>4
    <3>5. CASE Farther(n, BrowseDepth)
      <4>1. BrowseDepth <= k
        BY <2>0, <3>3, <3>5
      <4> QED
        BY <2>0, <4>1
    <3>6. CASE \E j \in 1..Len(answers) : answers[j].node = space[n][i] /\ Farther(n, answers[j].depth)
      <4>1. PICK j \in 1..Len(answers) : Farther(n, answers[j].depth)
        BY <3>6
      <4>2. answers[j].depth \in Nat
        BY <3>1, AtDepthsFacts
      <4>3. answers[j].depth <= k /\ d <= answers[j].depth
        BY <3>3, <4>1, <4>2
      <4> QED
        BY <2>0, <4>2, <4>3
    <3> QED
      BY <3>1, <3>2, <3>4, <3>5, <3>6 DEF BrowseIInv, ExploredOK
  <2> QED
    BY <2>1, <2>2, <2>3
<1> HIDE DEF S
<1>3. d \in S
  BY <1>1, <1>2, NatSetInduction
<1> QED
  BY <1>3 DEF S

\* The invariant is kept when a batch is browsed.
LEMMA BrowseNodesSteps ==
    ASSUME BrowseIInv, BrowseNodes
    PROVE  BrowseIInv'
<1>0. /\ answers = <<>> /\ UNCHANGED <<space, seen, found>>
      /\ Len(found) < SearchLimit
  BY DEF BrowseNodes
<1>t. /\ BrowseTypes /\ FoundOK /\ QueueOK /\ LevelsOK
      /\ frontier \in Seq(AtDepths) /\ Len(frontier) \in Nat
      /\ Uncut => NearestOK /\ ExploredOK
  BY DEF BrowseIInv, BrowseTypes
<1>w. Within' = Within /\ Nodes' = Nodes /\ AtDepths' = AtDepths
  BY <1>0, WithinStays DEF Nodes, AtDepths
<1>1. PICK m \in 1..Len(frontier) :
             /\ frontier' \in Seq(AtDepths) /\ Len(frontier') = Len(frontier) - m
             /\ \A i \in 1..Len(frontier') : frontier'[i] = frontier[m + i]
             /\ answers' \in Seq(AtDepths)
             /\ \A i \in 1..m : \A a \in 1..Len(space[frontier[i].node]) :
                  \E k \in 1..Len(answers') :
                    answers'[k].node = space[frontier[i].node][a] /\ answers'[k].depth = frontier[i].depth
             /\ \A k, l \in 1..Len(answers') : k <= l =>
                  \E i, j \in 1..m : /\ i <= j
                                     /\ answers'[k].depth = frontier[i].depth
                                     /\ answers'[l].depth = frontier[j].depth
             /\ \A k \in 1..Len(answers') : \E i \in 1..m : \E a \in 1..Len(space[frontier[i].node]) :
                    answers'[k].node = space[frontier[i].node][a] /\ answers'[k].depth = frontier[i].depth
  BY <1>t, WhatIsBrowsed
<1>2. BrowseTypes'
  BY <1>0, <1>1, <1>t, <1>w DEF BrowseTypes
<1>3. FoundOK'
  BY <1>0, <1>t, <1>w DEF FoundOK
<1>f. \A i \in 1..Len(frontier') : m + i \in 1..Len(frontier) /\ frontier'[i] = frontier[m + i]
  BY <1>1, <1>t
<1>d. \A i, j \in 1..Len(frontier) : i <= j => NearDepth(frontier[i], frontier[j])
  BY <1>t DEF QueueOK
<1>m. \A i \in 1..m : i \in 1..Len(frontier)
  BY <1>t
<1>4. QueueOK'
  <2>1. \A i, j \in 1..Len(frontier') : i <= j => NearDepth(frontier'[i], frontier'[j])
    BY <1>d, <1>f
  <2>2. ASSUME NEW k \in 1..Len(answers'), NEW l \in 1..Len(answers'), k <= l
        PROVE  NearDepth(answers'[k], answers'[l])
    <3>1. PICK i \in 1..m, j \in 1..m : /\ i <= j
                                        /\ answers'[k].depth = frontier[i].depth
                                        /\ answers'[l].depth = frontier[j].depth
      BY <1>1, <2>2
    <3>2. NearDepth(frontier[i], frontier[j])
      BY <1>d, <1>m, <3>1
    <3> QED
      BY <3>1, <3>2 DEF NearDepth
  <2>3. ASSUME NEW k \in 1..Len(answers'), NEW j \in 1..Len(frontier') PROVE NearDepth(answers'[k], frontier'[j])
    <3>1. PICK i \in 1..m : answers'[k].depth = frontier[i].depth
      BY <1>1
    <3>2. m + j \in 1..Len(frontier) /\ i <= m + j /\ i \in 1..Len(frontier) /\ frontier'[j] = frontier[m + j]
      BY <1>f, <1>m
    <3>3. NearDepth(frontier[i], frontier[m + j])
      BY <1>d, <3>2
    <3> QED
      BY <3>1, <3>2, <3>3 DEF NearDepth
  <2> QED
    BY <2>1, <2>2, <2>3 DEF QueueOK
<1>5. LevelsOK'
  <2>1. \A i \in 1..Len(frontier') : frontier'[i].node \in Within[frontier'[i].depth]
    BY <1>f, <1>t DEF LevelsOK
  <2>2. ASSUME NEW k \in 1..Len(answers') PROVE answers'[k].node \in Within[answers'[k].depth + 1]
    <3>0. PICK i \in 1..m : \E a \in 1..Len(space[frontier[i].node]) :
             answers'[k].node = space[frontier[i].node][a] /\ answers'[k].depth = frontier[i].depth
      BY <1>1
    <3>1. PICK a \in 1..Len(space[frontier[i].node]) :
             answers'[k].node = space[frontier[i].node][a] /\ answers'[k].depth = frontier[i].depth
      BY <3>0
    <3>2. frontier[i] \in AtDepths /\ frontier[i].node \in Within[frontier[i].depth]
      BY <1>m, <1>t DEF LevelsOK
    <3>3. frontier[i].depth \in Nat /\ a \in DOMAIN space[frontier[i].node]
      BY <1>t, <3>1, <3>2, AtDepthsFacts, SpaceFacts DEF BrowseTypes
    <3> QED
      BY <3>1, <3>2, <3>3, WithinGoesOn
  <2> QED
    BY <1>w, <2>1, <2>2 DEF LevelsOK
<1>6. ASSUME Uncut' PROVE NearestOK' /\ ExploredOK'
  <2>1. Uncut /\ NearestOK /\ ExploredOK
    BY <1>0, <1>t, <1>6 DEF Uncut
  <2>2. NearestOK'
    <3>1. \A i \in 1..Len(frontier') : Farther(frontier'[i].node, frontier'[i].depth)
      BY <1>f, <2>1 DEF NearestOK
    <3> QED
      BY <1>w, <3>1 DEF NearestOK, Farther
  <2>3. ASSUME NEW n \in seen
        PROVE \/ \E i \in 1..Len(frontier') : frontier'[i].node = n
              \/ Farther(n, BrowseDepth)
              \/ \A i \in 1..Len(space[n]) :
                    \/ space[n][i] \in seen
                    \/ \E k \in 1..Len(answers') : answers'[k].node = space[n][i] /\ Farther(n, answers'[k].depth)
    <3>1. CASE \E j \in 1..Len(frontier) : frontier[j].node = n
      <4>1. PICK j \in 1..Len(frontier) : frontier[j].node = n
        BY <3>1
      <4>2. CASE j \in 1..m
        <5>1. Farther(n, frontier[j].depth)
          BY <2>1, <4>1 DEF NearestOK
        <5>2. ASSUME NEW i \in 1..Len(space[n])
              PROVE  \E k \in 1..Len(answers') : answers'[k].node = space[n][i] /\ Farther(n, answers'[k].depth)
          <6>1. PICK k \in 1..Len(answers') : answers'[k].node = space[n][i] /\ answers'[k].depth = frontier[j].depth
            BY <1>1, <4>1, <4>2
          <6> QED
            BY <5>1, <6>1
        <5> QED
          BY <5>2
      <4>3. CASE j \notin 1..m
        <5>1. j - m \in 1..Len(frontier') /\ m + (j - m) = j
          BY <1>1, <1>t, <4>3
        <5>2. frontier'[j - m].node = n
          BY <1>f, <4>1, <5>1
        <5> QED
          BY <5>1, <5>2
      <4> QED
        BY <4>2, <4>3
    <3>2. CASE Farther(n, BrowseDepth)
      BY <3>2
    <3>3. CASE \A i \in 1..Len(space[n]) : space[n][i] \in seen
      BY <3>3
    <3>4. Len(answers) = 0
      BY <1>0
    <3> QED
      BY <2>1, <3>1, <3>2, <3>3, <3>4 DEF ExploredOK
  <2>4. ExploredOK'
    BY <1>0, <1>w, <2>3 DEF ExploredOK, Farther
  <2> QED
    BY <2>2, <2>4
<1> QED
  BY <1>2, <1>3, <1>4, <1>5, <1>6 DEF BrowseIInv

\* The invariant is kept when a reference is looked at.
LEMMA LookAtSteps ==
    ASSUME BrowseIInv, LookAt
    PROVE  BrowseIInv'
<1>t. /\ BrowseTypes /\ FoundOK /\ QueueOK /\ LevelsOK
      /\ frontier \in Seq(AtDepths) /\ Len(frontier) \in Nat
      /\ answers \in Seq(AtDepths) /\ Len(answers) \in Nat /\ Len(answers) # 0
      /\ UNCHANGED space
      /\ seen \subseteq Nodes /\ IsFiniteSet(seen)
      /\ Uncut => NearestOK /\ ExploredOK
  BY DEF BrowseIInv, BrowseTypes, LookAt
<1>w. Within' = Within /\ Nodes' = Nodes /\ AtDepths' = AtDepths
  BY <1>t, WithinStays DEF Nodes, AtDepths
<1>b. BrowseDepth \in Nat /\ SearchLimit \in Nat /\ BrowseLimit \in Nat
  BY BrowseNumbers
<1>1. PICK e \in AtDepths : e = answers[1]
  BY <1>t
<1>e. e.node \in Nodes /\ e.depth \in Nat /\ e.depth < BrowseDepth /\ e.depth + 1 <= BrowseDepth /\ 1 \in 1..Len(answers)
  BY <1>1, <1>t, AtDepthsFacts
<1>2. Head(answers) = e /\ Tail(answers) \in Seq(AtDepths) /\ Len(Tail(answers)) = Len(answers) - 1
      /\ \A i \in 1..Len(Tail(answers)) : i + 1 \in 1..Len(answers) /\ Tail(answers)[i] = answers[i + 1]
  BY <1>1, <1>t
\* The three ways the step goes.
<1> DEFINE News  == seen' = seen \union {e.node} /\ e.node \notin seen
                    /\ found' = IF e.node \in Matching THEN Append(found, e.node) ELSE found
           More  == News /\ Len(found') # SearchLimit /\ answers' = Tail(answers) /\ frontier' = Expanded(e)
           Enough  == News /\ Len(found') = SearchLimit /\ answers' = <<>> /\ frontier' = frontier
           Known == ~IsNews(e) /\ answers' = Tail(answers) /\ frontier' = frontier /\ seen' = seen /\ found' = found
<1>3. More \/ Enough \/ Known
  BY <1>2, Zenon DEF LookAt, IsNews
<1>4. /\ answers' \in Seq(AtDepths)
      /\ \A i \in 1..Len(answers') : i + 1 \in 1..Len(answers) /\ answers'[i] = answers[i + 1]
  <2>1. CASE answers' = Tail(answers)
    BY <1>2, <2>1
  <2>2. CASE answers' = <<>>
    BY <2>2
  <2> QED
    BY <1>3, <2>1, <2>2
<1>5. More /\ e.depth + 1 < BrowseDepth =>
         /\ frontier' \in Seq(AtDepths) /\ Len(frontier') = Len(frontier) + 1
         /\ \A i \in 1..Len(frontier) : frontier'[i] = frontier[i]
         /\ frontier'[Len(frontier) + 1] = [node |-> e.node, depth |-> e.depth + 1]
  <2> SUFFICES ASSUME More, e.depth + 1 < BrowseDepth
               PROVE  /\ frontier' \in Seq(AtDepths) /\ Len(frontier') = Len(frontier) + 1
                      /\ \A i \in 1..Len(frontier) : frontier'[i] = frontier[i]
                      /\ frontier'[Len(frontier) + 1] = [node |-> e.node, depth |-> e.depth + 1]
    OBVIOUS
  <2> DEFINE x == [node |-> e.node, depth |-> e.depth + 1]
  <2>1. x \in AtDepths
    BY <1>e, <1>b DEF AtDepths
  <2>2. frontier' = Append(frontier, x)
    BY DEF Expanded
  <2> HIDE DEF x
  <2>3. /\ frontier' \in Seq(AtDepths) /\ Len(frontier') = Len(frontier) + 1
        /\ \A i \in 1..Len(frontier) : frontier'[i] = frontier[i]
        /\ frontier'[Len(frontier) + 1] = x
    BY <1>t, <2>1, <2>2
  <2> QED
    BY <2>3 DEF x
<1>6. ~(More /\ e.depth + 1 < BrowseDepth) => frontier' = frontier
  BY <1>3 DEF Expanded
<1>7. /\ frontier' \in Seq(AtDepths)
      /\ \A i \in 1..Len(frontier) : i \in 1..Len(frontier') /\ frontier'[i] = frontier[i]
      /\ \A i \in 1..Len(frontier') : i \notin 1..Len(frontier) =>
            /\ i = Len(frontier) + 1 /\ More
            /\ frontier'[i].node = e.node /\ frontier'[i].depth = e.depth + 1
  <2>1. CASE More /\ e.depth + 1 < BrowseDepth
    <3> HIDE DEF More
    <3>1. /\ frontier' \in Seq(AtDepths) /\ Len(frontier') = Len(frontier) + 1
          /\ \A i \in 1..Len(frontier) : frontier'[i] = frontier[i]
          /\ frontier'[Len(frontier) + 1].node = e.node /\ frontier'[Len(frontier) + 1].depth = e.depth + 1
      BY <1>5, <2>1
    <3> QED
      BY <1>t, <2>1, <3>1
  <2>2. CASE ~(More /\ e.depth + 1 < BrowseDepth)
    <3> HIDE DEF More
    <3>1. frontier' = frontier
      BY <1>6, <2>2
    <3> QED
      BY <1>t, <3>1
  <2> QED
    BY <2>1, <2>2
<1>s. /\ seen \subseteq seen' /\ seen' \subseteq seen \union {e.node} /\ IsFiniteSet(seen')
      /\ Cardinality(seen) <= Cardinality(seen') /\ Cardinality(seen) \in Nat /\ Cardinality(seen') \in Nat
  <2>1. seen' = seen \/ seen' = seen \union {e.node}
    BY <1>3
  <2>2. IsFiniteSet(seen')
    BY <1>t, <2>1, FS_AddElement
  <2>3. seen \subseteq seen' /\ seen' \subseteq seen \union {e.node}
    BY <2>1
  <2> QED
    BY <1>t, <2>2, <2>3, FS_Subset, FS_CardinalityType
<1>8. BrowseTypes'
  BY <1>4, <1>7, <1>s, <1>t, <1>e, <1>w DEF BrowseTypes
<1>9. FoundOK' /\ Len(found) <= Len(found')
  <2>0. /\ found \in Seq(Matching \intersect seen) /\ Len(found) \in Nat /\ Len(found) < SearchLimit
        /\ \A i, j \in 1..Len(found) : found[i] = found[j] => i = j
        /\ \A i \in 1..Len(found) : found[i] \in Within[BrowseDepth] /\ found[i] \in seen /\ found[i] \in Matching
        /\ \A n \in seen \ {Root} : n \in Matching => \E i \in 1..Len(found) : found[i] = n
    BY <1>t DEF FoundOK
  <2>1. CASE News /\ e.node \in Matching
    <3>1. found' = Append(found, e.node) /\ seen' = seen \union {e.node} /\ e.node \notin seen
      BY <2>1
    <3>2. /\ found' \in Seq(Matching \intersect seen') /\ Len(found') = Len(found) + 1
          /\ \A i \in 1..Len(found) : found'[i] = found[i]
          /\ found'[Len(found) + 1] = e.node
      <4>1. found \in Seq(Matching \intersect seen') /\ e.node \in Matching \intersect seen'
        BY <2>0, <2>1, <3>1
      <4> HIDE DEF News
      <4> QED
        BY <2>0, <3>1, <4>1
    <3>3. \A i \in 1..Len(found') : i = Len(found) + 1 \/ i \in 1..Len(found)
      BY <2>0, <3>2
    <3>4. \A i, j \in 1..Len(found') : found'[i] = found'[j] => i = j
      BY <2>0, <3>1, <3>2, <3>3
    <3>5. Len(found') <= SearchLimit /\ (answers' # <<>> => Len(found') < SearchLimit)
      <4>1. More \/ Enough
        BY <1>3, <2>1, <3>1
      <4>2. Len(found') # SearchLimit \/ answers' = <<>>
        BY <4>1
      <4> QED
        BY <1>b, <2>0, <3>2, <4>2
    <3>6. e.node \in Within[BrowseDepth]
      <4>1. e.node \in Within[e.depth + 1]
        BY <1>1, <1>e, <1>t DEF LevelsOK
      <4> QED
        BY <1>b, <1>e, <4>1, WithinGrows
    <3>7. \A i \in 1..Len(found') : found'[i] \in Within[BrowseDepth]
      BY <2>0, <3>2, <3>3, <3>6
    <3>8. ASSUME NEW n \in seen' \ {Root}, n \in Matching PROVE \E i \in 1..Len(found') : found'[i] = n
      <4>1. CASE n = e.node
        <5>1. Len(found) + 1 \in 1..Len(found')
          BY <2>0, <3>2
        <5> QED
          BY <3>2, <4>1, <5>1
      <4>2. CASE n # e.node
        <5>1. PICK i \in 1..Len(found) : found[i] = n
          BY <2>0, <3>1, <3>8, <4>2
        <5>2. i \in 1..Len(found')
          BY <2>0, <3>2
        <5> QED
          BY <3>2, <5>1, <5>2
      <4> QED
        BY <4>1, <4>2
    <3> HIDE DEF News
    <3>9. Len(found) <= Len(found')
      BY <2>0, <3>2
    <3> QED
      BY <1>w, <3>2, <3>4, <3>5, <3>7, <3>8, <3>9 DEF FoundOK
  <2>2. CASE ~(News /\ e.node \in Matching)
    <3>1. found' = found /\ (\A n \in seen' : n \in Matching => n \in seen) /\ seen \subseteq seen'
      BY <1>3, <2>2
    <3> HIDE DEF News, More, Enough, Known
    <3>2. found' \in Seq(Matching \intersect seen')
      <4>1. \A i \in 1..Len(found) : found[i] \in Matching \intersect seen'
        BY <2>0, <3>1
      <4> QED
        BY <2>0, <3>1, <4>1
    <3> QED
      BY <1>b, <1>w, <2>0, <3>1, <3>2 DEF FoundOK
  <2> QED
    BY <2>1, <2>2
<1>10. QueueOK'
  <2>1. ASSUME NEW i \in 1..Len(frontier), NEW j \in 1..Len(frontier), i <= j PROVE NearDepth(frontier[i], frontier[j])
    BY <1>t, <2>1 DEF QueueOK
  <2>2. ASSUME NEW i \in 1..Len(frontier') PROVE e.depth <= frontier'[i].depth /\ frontier'[i].depth <= e.depth + 1
    <3>1. CASE i \in 1..Len(frontier)
      BY <1>1, <1>7, <1>e, <1>t, <3>1 DEF QueueOK, NearDepth
    <3>2. CASE i \notin 1..Len(frontier)
      BY <1>7, <1>e, <3>2
    <3> QED
      BY <3>1, <3>2
  <2>3. \A i \in 1..Len(frontier') : frontier'[i].depth \in Nat
    BY <1>7, AtDepthsFacts
  <2>4. ASSUME NEW i \in 1..Len(frontier'), NEW j \in 1..Len(frontier'), i <= j PROVE NearDepth(frontier'[i], frontier'[j])
    <3>0. i \in Int /\ j \in Int /\ 1 <= i
      OBVIOUS
    <3>1. CASE j \in 1..Len(frontier)
      <4>1. i \in 1..Len(frontier)
        BY <1>t, <2>4, <3>0, <3>1
      <4> QED
        BY <1>7, <2>1, <2>4, <3>1, <4>1
    <3>2. CASE j \notin 1..Len(frontier)
      <4>1. frontier'[j].depth = e.depth + 1
        BY <1>7, <3>2
      <4> QED
        BY <1>e, <2>2, <2>3, <4>1 DEF NearDepth
    <3> QED
      BY <3>1, <3>2
  <2>5. ASSUME NEW i \in 1..Len(answers'), NEW j \in 1..Len(answers'), i <= j PROVE NearDepth(answers'[i], answers'[j])
    <3>1. i + 1 \in 1..Len(answers) /\ j + 1 \in 1..Len(answers) /\ i + 1 <= j + 1
          /\ answers'[i] = answers[i + 1] /\ answers'[j] = answers[j + 1]
      BY <1>4, <2>5
    <3>2. NearDepth(answers[i + 1], answers[j + 1])
      BY <1>t, <3>1 DEF QueueOK
    <3> QED
      BY <3>1, <3>2
  <2>6. ASSUME NEW i \in 1..Len(answers'), NEW j \in 1..Len(frontier') PROVE NearDepth(answers'[i], frontier'[j])
    <3>1. i + 1 \in 1..Len(answers) /\ answers'[i] = answers[i + 1] /\ answers[i + 1] \in AtDepths
      BY <1>4, <1>t
    <3>2. answers[i + 1].depth \in Nat
      BY <3>1, AtDepthsFacts
    <3>3. CASE j \in 1..Len(frontier)
      BY <1>7, <1>t, <3>1, <3>3 DEF QueueOK
    <3>4. CASE j \notin 1..Len(frontier)
      <4>1. frontier'[j].depth = e.depth + 1
        BY <1>7, <3>4
      <4>2. 1 <= i + 1
        OBVIOUS
      <4>3. NearDepth(e, answers[i + 1])
        BY <1>1, <1>e, <1>t, <3>1, <4>2 DEF QueueOK
      <4> QED
        BY <1>e, <3>1, <3>2, <4>1, <4>3 DEF NearDepth
    <3> QED
      BY <3>3, <3>4
  <2> QED
    BY <2>4, <2>5, <2>6 DEF QueueOK
<1>11. LevelsOK'
  <2>1. e.node \in Within[e.depth + 1]
    BY <1>1, <1>e, <1>t DEF LevelsOK
  <2>2. ASSUME NEW i \in 1..Len(frontier') PROVE frontier'[i].node \in Within[frontier'[i].depth]
    <3>1. CASE i \in 1..Len(frontier)
      BY <1>7, <1>t, <3>1 DEF LevelsOK
    <3>2. CASE i \notin 1..Len(frontier)
      BY <1>7, <2>1, <3>2
    <3> QED
      BY <3>1, <3>2
  <2>3. \A i \in 1..Len(answers') : answers'[i].node \in Within[answers'[i].depth + 1]
    BY <1>4, <1>t DEF LevelsOK
  <2> QED
    BY <1>w, <2>2, <2>3 DEF LevelsOK
<1>12. ASSUME Uncut' PROVE NearestOK' /\ ExploredOK'
  <2>1. (Uncut /\ More) \/ (Uncut /\ Known /\ e.node \in seen)
    <3>1. Len(found') < SearchLimit /\ Cardinality(seen') < BrowseLimit
      BY <1>12 DEF Uncut
    <3>2. Len(found) \in Nat /\ Len(found') \in Nat
      BY <1>9, <1>t DEF FoundOK
    <3>3. Uncut
      BY <1>9, <1>b, <1>s, <3>1, <3>2 DEF Uncut
    <3>4. ~Enough
      BY <1>b, <3>1, <3>2
    <3>5. Known => e.node \in seen
      BY <3>3 DEF IsNews, Uncut
    <3> QED
      BY <1>3, <3>3, <3>4, <3>5
  <2>2. Uncut /\ NearestOK /\ ExploredOK /\ answers' = Tail(answers) /\ e.node \in seen'
    BY <1>t, <2>1
  <2>3. e.node \notin seen => Farther(e.node, e.depth + 1)
    <3>1. \A i \in 1..Len(frontier) : e.depth <= frontier[i].depth
      BY <1>1, <1>e, <1>t DEF QueueOK, NearDepth
    <3>2. \A i \in 1..Len(answers) : e.depth <= answers[i].depth
      BY <1>1, <1>e, <1>t DEF QueueOK, NearDepth
    <3>3. Within[e.depth] \subseteq seen
      <4>1. e.depth \in Nat /\ e.depth <= BrowseDepth
        BY <1>b, <1>e
      <4> QED
        BY <2>2, <3>1, <3>2, <4>1, LevelsSeen
    <3>4. ASSUME NEW j \in Nat, j < e.depth + 1 PROVE Within[j] \subseteq seen
      <4>1. j <= e.depth
        BY <1>e, <3>4
      <4> QED
        BY <1>e, <3>3, <4>1, WithinGrows
    <3> QED
      BY <3>4 DEF Farther
  <2>4. NearestOK'
    <3>1. ASSUME NEW i \in 1..Len(frontier') PROVE Farther(frontier'[i].node, frontier'[i].depth)
      <4>1. CASE i \in 1..Len(frontier)
        BY <1>7, <2>2, <4>1 DEF NearestOK
      <4>2. CASE i \notin 1..Len(frontier)
        <5>1. frontier'[i].node = e.node /\ frontier'[i].depth = e.depth + 1 /\ e.node \notin seen
          BY <1>7, <4>2
        <5> QED
          BY <2>3, <5>1
      <4> QED
        BY <4>1, <4>2
    <3> QED
      BY <1>w, <3>1 DEF NearestOK, Farther
  <2>5. ASSUME NEW n \in seen'
        PROVE \/ \E i \in 1..Len(frontier') : frontier'[i].node = n
              \/ Farther(n, BrowseDepth)
              \/ \A i \in 1..Len(space[n]) :
                    \/ space[n][i] \in seen'
                    \/ \E k \in 1..Len(answers') : answers'[k].node = space[n][i] /\ Farther(n, answers'[k].depth)
    <3>1. CASE n \in seen
      <4>1. CASE \E i \in 1..Len(frontier) : frontier[i].node = n
        BY <1>7, <4>1
      <4>2. CASE Farther(n, BrowseDepth)
        BY <4>2
      <4>3. ASSUME NEW i \in 1..Len(space[n]), NEW k \in 1..Len(answers),
                   answers[k].node = space[n][i], Farther(n, answers[k].depth)
            PROVE  \/ space[n][i] \in seen'
                   \/ \E l \in 1..Len(answers') : answers'[l].node = space[n][i] /\ Farther(n, answers'[l].depth)
        <5>1. CASE k = 1
          BY <1>1, <2>2, <4>3, <5>1
        <5>2. CASE k # 1
          <6>1. k - 1 \in 1..Len(answers') /\ (k - 1) + 1 = k
            BY <1>2, <1>t, <2>2, <5>2
          <6>2. answers'[k - 1] = answers[k]
            BY <1>4, <6>1
          <6> QED
            BY <4>3, <6>1, <6>2
        <5> QED
          BY <5>1, <5>2
      <4>4. CASE \A i \in 1..Len(space[n]) :
                    \/ space[n][i] \in seen
                    \/ \E k \in 1..Len(answers) : answers[k].node = space[n][i] /\ Farther(n, answers[k].depth)
        BY <1>s, <4>3, <4>4
      <4> QED
        BY <2>2, <3>1, <4>1, <4>2, <4>4 DEF ExploredOK
    <3>2. CASE n \notin seen
      <4>1. n = e.node /\ e.node \notin seen /\ More
        BY <1>s, <2>1, <3>2
      <4>2. CASE e.depth + 1 < BrowseDepth
        <5> HIDE DEF More
        <5>1. Len(frontier') = Len(frontier) + 1 /\ frontier'[Len(frontier) + 1].node = n
          BY <1>5, <4>1, <4>2
        <5>2. Len(frontier) + 1 \in 1..Len(frontier')
          BY <1>t, <5>1
        <5> QED
          BY <5>1, <5>2
      <4>3. CASE ~(e.depth + 1 < BrowseDepth)
        <5>1. e.depth + 1 = BrowseDepth
          BY <1>b, <1>e, <4>3
        <5> QED
          BY <2>3, <4>1, <5>1
      <4> QED
        BY <4>2, <4>3
    <3> QED
      BY <3>1, <3>2
  <2>6. ExploredOK'
    BY <1>t, <1>w, <2>5 DEF ExploredOK, Farther
  <2> QED
    BY <2>4, <2>6
<1> QED
  BY <1>8, <1>9, <1>10, <1>11, <1>12 DEF BrowseIInv

\* The invariant holds when a search begins.
LEMMA BrowseInitHolds ==
    ASSUME BrowseInit
    PROVE  BrowseIInv
<1> DEFINE first == [node |-> Root, depth |-> 0]
<1>1. /\ space \in AddressSpaces /\ answers = <<>> /\ seen = {Root} /\ found = <<>> /\ frontier = <<first>>
      /\ first.node = Root /\ first.depth = 0
  BY DEF BrowseInit
<1>2. first \in AtDepths
  BY <1>1, BrowseNumbers, SpaceFacts DEF AtDepths
<1> HIDE DEF first
<1>3. frontier \in Seq(AtDepths) /\ Len(frontier) = 1 /\ \A i \in 1..Len(frontier) : i = 1 /\ frontier[i] = first
  BY <1>1, <1>2
<1>4. answers \in Seq(AtDepths) /\ Len(answers) = 0 /\ Len(found) = 0 /\ found \in Seq(Matching \intersect seen)
  BY <1>1
<1>5. BrowseTypes
  BY <1>1, <1>3, <1>4, SpaceFacts, FS_Singleton DEF BrowseTypes
<1>6. FoundOK
  BY <1>1, <1>4, BrowseNumbers DEF FoundOK
<1>7. QueueOK
  BY <1>1, <1>3, <1>4 DEF QueueOK, NearDepth
<1>8. LevelsOK
  BY <1>1, <1>3, <1>4, WithinIs DEF LevelsOK
<1>9. NearestOK
  BY <1>1, <1>3 DEF NearestOK, Farther
<1>10. ExploredOK
  <2>1. 1 \in 1..Len(frontier) /\ frontier[1].node = Root
    BY <1>1, <1>3
  <2> QED
    BY <1>1, <2>1 DEF ExploredOK
<1> QED
  BY <1>5, <1>6, <1>7, <1>8, <1>9, <1>10 DEF BrowseIInv

\* Every step keeps the invariant.
LEMMA BrowseStepHolds ==
    ASSUME BrowseIInv, [BrowseNext]_browseVars
    PROVE  BrowseIInv'
<1>1. CASE BrowseNodes
  BY <1>1, BrowseNodesSteps
<1>2. CASE LookAt
  BY <1>2, LookAtSteps
<1>3. CASE UNCHANGED browseVars
  <2>1. UNCHANGED <<space, frontier, answers, seen, found>>
    BY <1>3 DEF browseVars
  <2>2. Within' = Within
    BY <2>1, WithinStays
  <2>3. BrowseTypes' /\ FoundOK' /\ QueueOK' /\ LevelsOK'
    BY <2>1, <2>2 DEF BrowseIInv, BrowseTypes, FoundOK, QueueOK, LevelsOK, Nodes, AtDepths
  <2>4. (Uncut' <=> Uncut) /\ (NearestOK' <=> NearestOK)
    BY <2>1, <2>2 DEF Uncut, NearestOK, Farther
  <2>5. ExploredOK => ExploredOK'
    BY <2>1, <2>2, SMTT(40) DEF ExploredOK, Farther
  <2> QED
    BY <2>3, <2>4, <2>5 DEF BrowseIInv
<1> QED
  BY <1>1, <1>2, <1>3 DEF BrowseNext

\* The invariant of a search holds.
LEMMA BrowseIInvHolds == BrowseSpec => []BrowseIInv
<1>1. BrowseInit => BrowseIInv
  BY BrowseInitHolds
<1>2. BrowseIInv /\ [BrowseNext]_browseVars => BrowseIInv'
  BY BrowseStepHolds
<1> QED
  BY <1>1, <1>2, PTL DEF BrowseSpec

\* The state of a search has its type (opc_ua/connector.py:196-229).
THEOREM BrowseTypeCorrect == BrowseSpec => []BrowseTypeOK
<1>1. BrowseIInv => BrowseTypeOK
  <2> SUFFICES ASSUME BrowseIInv PROVE BrowseTypeOK
    OBVIOUS
  <2>1. BrowseTypes /\ found \in Seq(Matching \intersect seen)
    BY DEF BrowseIInv, FoundOK
  <2>2. \A i \in DOMAIN found : found[i] \in Matching
    BY <2>1
  <2> QED
    BY <2>1, <2>2 DEF BrowseTypes, BrowseTypeOK
<1> QED
  BY <1>1, BrowseIInvHolds, PTL

\* Whatever graph the address space is, with cycles and several ways to a node, and whatever the
\* bounds and the batch are, a search finds nothing twice, no more than asked for and none too
\* deep, and one that no bound cut has found all that matches within its depth
\* (opc_ua/connector.py:196-229).
THEOREM SearchTheorem == BrowseSpec => []SearchFindsAll
<1>1. BrowseIInv => SearchFindsAll
  <2> SUFFICES ASSUME BrowseIInv PROVE SearchFindsAll
    OBVIOUS
  <2>1. /\ found \in Seq(Matching \intersect seen) /\ DOMAIN found = 1..Len(found) /\ Len(found) \in Nat
        /\ FoundOK /\ frontier \in Seq(AtDepths) /\ answers \in Seq(AtDepths)
    BY DEF BrowseIInv, FoundOK, BrowseTypes
  <2>2. ASSUME SearchEnds, Len(found) < SearchLimit, Cardinality(seen) < BrowseLimit
        PROVE  Within[BrowseDepth] \subseteq seen
    <3>1. answers = <<>> /\ (frontier = <<>> \/ Len(found) >= SearchLimit \/ Cardinality(seen) >= BrowseLimit)
      BY <2>2 DEF SearchEnds
    <3>2. Cardinality(seen) \in Nat /\ BrowseLimit \in Nat /\ SearchLimit \in Nat /\ BrowseDepth \in Nat
      BY BrowseNumbers, FS_CardinalityType DEF BrowseIInv, BrowseTypes
    <3>3. frontier = <<>>
      BY <2>1, <2>2, <3>1, <3>2
    <3>4. Len(frontier) = 0 /\ Len(answers) = 0 /\ BrowseDepth <= BrowseDepth
      BY <3>1, <3>2, <3>3
    <3>5. Uncut
      BY <2>2 DEF Uncut
    <3>6. (\A i \in 1..Len(frontier) : BrowseDepth <= frontier[i].depth)
          /\ (\A i \in 1..Len(answers) : BrowseDepth <= answers[i].depth)
      BY <3>4
    <3> QED
      BY <3>2, <3>4, <3>5, <3>6, LevelsSeen
  <2>3. \A n \in seen \ {Root} : n \in Matching => n \in {found[i] : i \in DOMAIN found}
    BY <2>1 DEF FoundOK
  <2>4. (SearchEnds /\ Len(found) < SearchLimit /\ Cardinality(seen) < BrowseLimit) =>
           (Within[BrowseDepth] \ {Root}) \intersect Matching \subseteq {found[i] : i \in DOMAIN found}
    BY <2>2, <2>3
  <2> QED
    BY <2>1, <2>4 DEF FoundOK, SearchFindsAll
<1> QED
  BY <1>1, BrowseIInvHolds, PTL

=============================================================================
