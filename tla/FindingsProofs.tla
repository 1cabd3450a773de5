---------------------------- MODULE FindingsProofs ----------------------------
(***************************************************************************)
(* Proofs about the completion of runs and status changes (Findings), for  *)
(* any runs, series, reports, lock keys and users.                         *)
(*                                                                         *)
(* Up to its commit a run's rows are its own: what it has folded into a    *)
(* committed row (Grown) and what it has created (Created).  The advisory  *)
(* locks keep the rows of two runs apart, and the row locks keep status    *)
(* changes off the rows a run has grown, so that at the commit every one   *)
(* of its rows takes the place of the row it was read as.                  *)
(*                                                                         *)
(* And proofs about what findings are made of (Spans), for any bins: the   *)
(* runs of flagged bins (AreFlaggedRuns), the windows of those that last   *)
(* (AreWindowsOf) and what merging makes of them (AreMerged) give the      *)
(* episodes, runs of hits (AreHitRuns) the spikes, and stretches without a *)
(* wide gap (AreStretches) the clusters.                                   *)
(***************************************************************************)
EXTENDS Findings, Spans, FramesProofs

-----------------------------------------------------------------------------
(* The inductive invariant *)

\* The runs whose findings were folded into f.
ReportedBy(f) == {t[1] : t \in f.tags}

\* What every row promises, committed or not: it holds what was folded into it, one incoming finding
\* of the run that created it and its last run among them, and counts the runs.
IsSoundRow(f) ==
    /\ IsFinding(f)
    /\ \A t \in f.tags : t \in TagsOf(t[1]) /\ Holds(f, t)
    /\ {t \in f.tags : t[1] = f.first} = {f.id}
    /\ IsFiniteSet(ReportedBy(f)) /\ f.occurrences = Cardinality(ReportedBy(f))
    /\ f.last \in ReportedBy(f)
    /\ ~f.touched => f.status = "open"

\* What run r has worked through.
Done(r, t) ==
    \E j \in DOMAIN SeriesOf[r] :
        /\ t[2] = SeriesOf[r][j]
        /\ j < pos[r].s \/ (j = pos[r].s /\ t[3] < pos[r].i)

\* Row f of run r is the committed row g with more of r folded into it; r has locked it.
Grown(r, g, f) ==
    /\ g.id = f.id /\ g.series = f.series /\ g.check = f.check /\ g.subject = f.subject
    /\ g.first = f.first /\ g.status = f.status /\ g.touched = f.touched
    /\ f.start <= g.start /\ g.end <= f.end
    /\ f.occurrences = g.occurrences + 1
    /\ \A t \in f.tags : t \in g.tags \/ t[1] = r
    /\ g.tags \subseteq f.tags
    /\ f.status \in Absorbing
    /\ <<g.id, r>> \in locks

\* Row f of run r is its own, where nothing absorbs it.
Absorbs(g, f) ==
    /\ ~g.touched /\ g.first # f.first
    /\ g.series = f.series /\ g.check = f.check /\ g.subject = f.subject
    /\ Overlap(f, g)
Created(r, f) ==
    /\ f.first = r
    /\ f.tags = {f.id}
    /\ \A g \in findings : ~Absorbs(g, f)

\* What r has written lies under its advisory locks.
IsOwnRow(r, f) ==
    /\ LockKey[f.series] \in held[r]
    /\ f.last = r
    /\ \A t \in f.tags : t[1] = r => Done(r, t)
    /\ Created(r, f) \/ \E g \in findings : Grown(r, g, f)

\* Strict types of the variables.
FindingTypes ==
    /\ TypeOK
    /\ pos \in [Runs -> [s : Nat \ {0}, i : Nat \ {0}]]
    /\ own = [r \in Runs |-> own[r]]
    /\ request \in [Users -> [step : {"idle", "not found", "conflict", "done"}] \union
                            [step : {"select", "update"}, id : Tags, start : Int, status : Statuses]]

\* Where the completion of run r stands.
IsPlaced(r) ==
    /\ pc[r] = "idle" => pos[r] = [s |-> 1, i |-> 1]
    /\ pc[r] \in {"lock", "persist"} => pos[r].s \in DOMAIN SeriesOf[r]
    /\ pc[r] = "lock" => pos[r].i = 1
    /\ pc[r] = "persist" => LockKey[SeriesAt(r)] \in held[r]
    /\ pc[r] \in {"commit", "succeeded"} => \A t \in TagsOf(r) : Done(r, t)
    /\ pc[r] \notin {"lock", "persist", "commit"} => own[r] = {}

\* No key and no row is locked twice, and a status change has locked its row.
LocksOK ==
    /\ \A q, r \in Runs : q # r => held[q] \intersect held[r] = {}
    /\ \A k, l \in locks : k[1] = l[1] => k = l
    /\ \A u \in Users : request[u].step = "update" => <<request[u].id, u>> \in locks

\* What is committed: what succeeded runs found, each finding in one row.
CommittedOK ==
    /\ \A f \in findings : IsSoundRow(f) /\ \A t \in f.tags : pc[t[1]] = "succeeded"
    /\ \A f, g \in findings : (\E t \in f.tags : t \in g.tags) => f = g
    /\ \A r \in Runs : pc[r] = "succeeded" => \A t \in TagsOf(r) : \E f \in findings : t \in f.tags

\* What run r has written but not committed: all that it has worked through, each finding in one row.
OwnRowsOK(r) ==
    /\ \A f \in own[r] : IsSoundRow(f) /\ IsOwnRow(r, f)
    /\ \A f, g \in own[r] : (f.id = g.id \/ \E t \in f.tags : t \in g.tags) => f = g
    /\ pc[r] \in {"lock", "persist", "commit"} =>
          \A t \in TagsOf(r) : Done(r, t) => \E f \in own[r] : t \in f.tags

\* The inductive invariant.
FindingsIInv ==
    /\ FindingTypes /\ LocksOK /\ CommittedOK
    /\ \A r \in Runs : IsPlaced(r) /\ OwnRowsOK(r)

-----------------------------------------------------------------------------
(* Windows and rows *)

\* Products keep the order.
LEMMA ProductOrder == ASSUME NEW a \in Int, NEW b \in Int, NEW n \in Nat, a <= b PROVE a * n <= b * n
  BY Z3

\* A wider window contains what a window contains.
LEMMA WiderStart ==
    ASSUME NEW a \in Int, NEW b \in Int, NEW n \in Nat, NEW x \in Int, a <= b, b * n <= x
    PROVE  a * n <= x
  <1>1. a * n <= b * n /\ a * n \in Int /\ b * n \in Int
    BY ProductOrder
  <1> QED BY <1>1

\* ... at its end as at its start.
LEMMA WiderEnd ==
    ASSUME NEW a \in Int, NEW b \in Int, NEW n \in Nat, NEW x \in Int, a <= b, a * n >= x
    PROVE  b * n >= x
  <1>1. a * n <= b * n /\ a * n \in Int /\ b * n \in Int
    BY ProductOrder
  <1> QED BY <1>1

\* The stored window of a finding contains it and is never empty.
LEMMA StoredWindowFacts ==
    ASSUME NEW c, IsCoreFinding(c)
    PROVE  /\ StoredWindow(c).start \in Int /\ StoredWindow(c).end \in Int
           /\ StoredWindow(c).start < StoredWindow(c).end
           /\ StoredWindow(c).start * NsPerUs <= c.start
           /\ StoredWindow(c).end * NsPerUs >= c.end
  <1> DEFINE a == c.start \div NsPerUs
             b == (-c.end) \div NsPerUs
  <1>1. c.start \in Int /\ c.end \in Int /\ c.start <= c.end /\ NsPerUs \in Nat /\ NsPerUs > 0
    BY FindingsAssumption DEF IsCoreFinding
  <1>2. a \in Int /\ a * NsPerUs <= c.start /\ c.start < a * NsPerUs + NsPerUs
    BY <1>1, Z3
  <1>3. b \in Int /\ b * NsPerUs <= -c.end /\ -c.end < b * NsPerUs + NsPerUs
    BY <1>1, Z3
  <1>4. StoredWindow(c).start = a /\ StoredWindow(c).end = IF -b > a THEN -b ELSE a + 1
    BY DEF StoredWindow
  <1> HIDE DEF a, b
  <1>5. (-b) * NsPerUs = -(b * NsPerUs)
    BY <1>1, <1>3, Z3
  <1>6. (a + 1) * NsPerUs = a * NsPerUs + NsPerUs
    BY <1>1, <1>2, Z3
  <1>7. CASE -b > a
    BY <1>1, <1>2, <1>3, <1>4, <1>5, <1>7
  <1>8. CASE ~(-b > a)
    <2>1. (-b) * NsPerUs <= (a + 1) * NsPerUs
      BY <1>1, <1>2, <1>3, <1>8, ProductOrder
    <2> QED BY <1>1, <1>2, <1>3, <1>4, <1>5, <1>6, <1>8, <2>1
  <1> QED BY <1>7, <1>8

\* The smaller and the larger of two numbers.
LEMMA EndsFacts ==
    ASSUME NEW a \in Int, NEW b \in Int
    PROVE  /\ Smaller(a, b) \in Int /\ Smaller(a, b) <= a /\ Smaller(a, b) <= b
           /\ Larger(a, b) \in Int /\ a <= Larger(a, b) /\ b <= Larger(a, b)
  BY DEF Smaller, Larger

\* What rows promise depends on no variable but the reports, which do not change.
LEMMA SoundRowKept == ASSUME UNCHANGED report, NEW f PROVE IsSoundRow(f)' <=> IsSoundRow(f)
  <1>1. \A t : Holds(f, t)' <=> Holds(f, t)
    BY DEF Holds
  <1>2. \A r : TagsOf(r)' = TagsOf(r)
    BY DEF TagsOf
  <1> QED BY <1>1, <1>2 DEF IsSoundRow, IsFinding, ReportedBy

\* The incoming finding a run is at.
LEMMA IncomingFacts ==
    ASSUME FindingTypes, NEW r \in Runs, IsPlaced(r), pc[r] = "persist",
           pos[r].i <= Len(report[r][SeriesAt(r)])
    PROVE  /\ SeriesAt(r) \in Series
           /\ IsCoreFinding(Incoming(r))
           /\ <<r, SeriesAt(r), pos[r].i>> \in Tags
           /\ <<r, SeriesAt(r), pos[r].i>> \in TagsOf(r)
           /\ ~Done(r, <<r, SeriesAt(r), pos[r].i>>)
  <1>1. /\ pos[r].s \in DOMAIN SeriesOf[r] /\ pos[r].s \in Nat /\ pos[r].i \in Nat \ {0}
        /\ SeriesOf[r] \in Seq(Series) /\ report[r] \in [Series -> Reports]
    BY FindingsAssumption DEF FindingTypes, TypeOK, IsPlaced
  <1>2. SeriesAt(r) \in Series /\ SeriesAt(r) = SeriesOf[r][pos[r].s]
    BY <1>1 DEF SeriesAt
  <1>3. report[r][SeriesAt(r)] \in Reports
    BY <1>1, <1>2
  <1>4. pos[r].i \in DOMAIN report[r][SeriesAt(r)]
    <2>1. /\ Len(report[r][SeriesAt(r)]) \in Nat
          /\ DOMAIN report[r][SeriesAt(r)] = 1..Len(report[r][SeriesAt(r)])
      BY <1>3, FindingsAssumption
    <2> QED BY <1>1, <2>1
  <1>5. IsCoreFinding(Incoming(r))
    BY <1>3, <1>4, FindingsAssumption DEF Incoming
  <1>6. <<r, SeriesAt(r), pos[r].i>> \in Tags
    BY <1>1, <1>2 DEF Tags
  <1>7. <<r, SeriesAt(r), pos[r].i>> \in TagsOf(r)
    BY <1>1, <1>2, <1>4 DEF TagsOf
  <1>8. ~Done(r, <<r, SeriesAt(r), pos[r].i>>)
    <2> SUFFICES ASSUME NEW j \in DOMAIN SeriesOf[r], SeriesOf[r][pos[r].s] = SeriesOf[r][j],
                        j < pos[r].s \/ (j = pos[r].s /\ pos[r].i < pos[r].i)
                 PROVE  FALSE
      BY <1>2 DEF Done
    <2>1. j = pos[r].s
      BY <1>1, FindingsAssumption
    <2> QED BY <1>1, <2>1
  <1> QED BY <1>2, <1>5, <1>6, <1>7, <1>8

\* What a run has reported.
LEMMA TagsOfFacts ==
    ASSUME FindingTypes, NEW r \in Runs, NEW t \in TagsOf(r)
    PROVE  /\ t = <<r, t[2], t[3]>> /\ t[3] \in Nat \ {0}
           /\ \E j \in DOMAIN SeriesOf[r] : t[2] = SeriesOf[r][j]
           /\ Len(report[r][t[2]]) \in Nat /\ t[3] <= Len(report[r][t[2]])
           /\ IsCoreFinding(report[r][t[2]][t[3]])
  <1>1. PICK j \in DOMAIN SeriesOf[r] : t \in {<<r, SeriesOf[r][j], i>> : i \in DOMAIN report[r][SeriesOf[r][j]]}
    BY DEF TagsOf
  <1>2. PICK i \in DOMAIN report[r][SeriesOf[r][j]] : t = <<r, SeriesOf[r][j], i>>
    BY <1>1
  <1>3. report[r][SeriesOf[r][j]] \in Reports
    <2>1. SeriesOf[r] \in Seq(Series) /\ report[r] \in [Series -> Reports]
      BY FindingsAssumption DEF FindingTypes, TypeOK
    <2>2. SeriesOf[r][j] \in Series
      BY <2>1
    <2> QED BY <2>1, <2>2
  <1>4. /\ Len(report[r][SeriesOf[r][j]]) \in Nat
        /\ DOMAIN report[r][SeriesOf[r][j]] = 1..Len(report[r][SeriesOf[r][j]])
        /\ IsCoreFinding(report[r][SeriesOf[r][j]][i])
    BY <1>3, FindingsAssumption
  <1> QED BY <1>2, <1>4

-----------------------------------------------------------------------------
(* A run's rows and the committed ones *)

\* A row holds its own tag, of the run that created it.
LEMMA RowTag ==
    ASSUME NEW f, IsSoundRow(f)
    PROVE  f.id \in f.tags /\ f.id[1] = f.first
  BY DEF IsSoundRow

\* A run's row that shares something with a committed one has grown from it.
LEMMA OwnRowFacts ==
    ASSUME FindingsIInv, NEW r \in Runs, NEW f \in own[r], NEW g \in findings, NEW t, t \in f.tags, t \in g.tags
    PROVE  Grown(r, g, f)
  <1>1. pc[r] # "succeeded"
    BY DEF FindingsIInv, IsPlaced
  <1>2. pc[t[1]] = "succeeded" /\ t[1] # r
    BY <1>1 DEF FindingsIInv, CommittedOK
  <1>3. IsSoundRow(f) /\ IsOwnRow(r, f)
    BY DEF FindingsIInv, OwnRowsOK
  <1>4. ~Created(r, f)
    BY <1>2, <1>3, RowTag DEF Created
  <1>5. PICK h \in findings : Grown(r, h, f)
    BY <1>3, <1>4 DEF IsOwnRow
  <1>6. t \in h.tags
    BY <1>2, <1>5 DEF Grown
  <1>7. g = h
    BY <1>6 DEF FindingsIInv, CommittedOK
  <1> QED BY <1>5, <1>7

\* A run's row with the id of a committed one has grown from it.
LEMMA OwnReplaces ==
    ASSUME FindingsIInv, NEW r \in Runs, NEW f \in own[r], NEW g \in findings, f.id = g.id
    PROVE  Grown(r, g, f)
  <1>1. IsSoundRow(f) /\ IsSoundRow(g)
    BY DEF FindingsIInv, OwnRowsOK, CommittedOK
  <1>2. f.id \in f.tags /\ f.id \in g.tags
    BY <1>1, RowTag
  <1> QED BY <1>2, OwnRowFacts

\* Rows two runs have written are about different series.
LEMMA RunsApart ==
    ASSUME FindingsIInv, NEW q \in Runs, NEW r \in Runs, q # r, NEW f \in own[q], NEW g \in own[r]
    PROVE  f.series # g.series
  <1>1. IsOwnRow(q, f) /\ IsOwnRow(r, g)
    BY DEF FindingsIInv, OwnRowsOK
  <1> QED BY <1>1 DEF FindingsIInv, LocksOK, IsOwnRow

\* A run that does not move keeps its place and its rows when nothing is committed.
LEMMA RunKept ==
    ASSUME FindingsIInv, NEW r \in Runs, UNCHANGED <<findings, report>>,
           pc'[r] = pc[r], pos'[r] = pos[r], own'[r] = own[r], held'[r] = held[r],
           \A id : <<id, r>> \in locks => <<id, r>> \in locks'
    PROVE  IsPlaced(r)' /\ OwnRowsOK(r)'
  <1>1. \A f : (IsSoundRow(f)' <=> IsSoundRow(f))
    BY SoundRowKept
  <1>2. \A t : Done(r, t)' <=> Done(r, t)
    BY DEF Done
  <1>3. TagsOf(r)' = TagsOf(r)
    BY DEF TagsOf
  <1>4. \A g, f : Grown(r, g, f) => Grown(r, g, f)'
    BY DEF Grown
  <1>5. \A f : Created(r, f)' <=> Created(r, f)
    BY DEF Created
  <1>6. \A f : IsOwnRow(r, f) => IsOwnRow(r, f)'
    BY <1>2, <1>4, <1>5 DEF IsOwnRow
  <1>7. IsPlaced(r) /\ OwnRowsOK(r)
    BY DEF FindingsIInv
  <1>8. IsPlaced(r)'
    BY <1>2, <1>3, <1>7 DEF IsPlaced, SeriesAt
  <1>9. OwnRowsOK(r)'
    BY <1>1, <1>2, <1>3, <1>6, <1>7 DEF OwnRowsOK
  <1> QED BY <1>8, <1>9

\* What is committed keeps what it promises while no run succeeds.
LEMMA CommittedKept ==
    ASSUME FindingsIInv, UNCHANGED <<findings, report>>,
           \A r \in Runs : pc'[r] = "succeeded" <=> pc[r] = "succeeded"
    PROVE  CommittedOK'
  <1>1. \A f : (IsSoundRow(f)' <=> IsSoundRow(f))
    BY SoundRowKept
  <1>2. \A r : TagsOf(r)' = TagsOf(r)
    BY DEF TagsOf
  <1>3. \A f \in findings : \A t \in f.tags : t[1] \in Runs
    BY DEF FindingsIInv, CommittedOK, IsSoundRow, IsFinding, Tags
  <1> QED BY <1>1, <1>2, <1>3 DEF FindingsIInv, CommittedOK

-----------------------------------------------------------------------------
(* The steps of a completion *)

\* A run that begins has worked through nothing.
LEMMA BeginKeeps ==
    ASSUME FindingsIInv, NEW r \in Runs, Begin(r)
    PROVE  FindingsIInv'
  <1>1. /\ pc[r] = "idle" /\ UNCHANGED <<findings, report, pos, own, held, locks, request>>
        /\ pc' = [pc EXCEPT ![r] = IF SeriesOf[r] = <<>> THEN "commit" ELSE "lock"]
    BY DEF Begin
  <1>2. FindingTypes /\ LocksOK /\ IsPlaced(r) /\ OwnRowsOK(r)
    BY DEF FindingsIInv
  <1>3. pc \in [Runs -> {"idle", "lock", "persist", "commit", "succeeded", "failed"}]
    BY <1>2 DEF FindingTypes, TypeOK
  <1>4. FindingTypes'
    BY <1>1, <1>2 DEF FindingTypes, TypeOK, IsFinding
  <1>5. LocksOK'
    BY <1>1, <1>2 DEF LocksOK
  <1>6. CommittedOK'
    BY <1>1, <1>3, CommittedKept
  <1>7. ASSUME NEW q \in Runs, q # r PROVE IsPlaced(q)' /\ OwnRowsOK(q)'
    BY <1>1, <1>3, <1>7, RunKept
  <1>8. IsPlaced(r)' /\ OwnRowsOK(r)'
    <2>1. pos[r].s = 1 /\ pos[r].i = 1 /\ own[r] = {}
      BY <1>1, <1>2 DEF IsPlaced
    <2>2. \A t \in TagsOf(r) : ~Done(r, t)
      <3> SUFFICES ASSUME NEW t \in TagsOf(r), NEW j \in DOMAIN SeriesOf[r],
                          j < 1 \/ (j = 1 /\ t[3] < 1)
                   PROVE  FALSE
        BY <2>1 DEF Done
      <3>1. t[3] \in Nat \ {0}
        BY <1>2, TagsOfFacts
      <3>2. SeriesOf[r] \in Seq(Series)
        BY FindingsAssumption
      <3> QED BY <3>1, <3>2
    <2>3. TagsOf(r)' = TagsOf(r) /\ \A t : Done(r, t)' <=> Done(r, t)
      BY <1>1 DEF TagsOf, Done
    <2>4. CASE SeriesOf[r] = <<>>
      <3>1. TagsOf(r) = {}
        BY <2>4 DEF TagsOf
      <3> QED BY <1>1, <1>3, <2>1, <2>3, <2>4, <3>1 DEF IsPlaced, OwnRowsOK
    <2>5. CASE SeriesOf[r] # <<>>
      <3>1. SeriesOf[r] \in Seq(Series)
        BY FindingsAssumption
      <3>2. 1 \in DOMAIN SeriesOf[r]
        BY <2>5, <3>1
      <3> QED BY <1>1, <1>3, <2>1, <2>2, <2>3, <2>5, <3>2 DEF IsPlaced, OwnRowsOK
    <2> QED BY <2>4, <2>5
  <1> QED BY <1>4, <1>5, <1>6, <1>7, <1>8 DEF FindingsIInv

\* A run takes a key no other run holds.
LEMMA LockKeeps ==
    ASSUME FindingsIInv, NEW r \in Runs, Lock(r)
    PROVE  FindingsIInv'
  <1>1. /\ pc[r] = "lock" /\ UNCHANGED <<findings, report, pos, own, locks, request>>
        /\ \A q \in Runs \ {r} : LockKey[SeriesAt(r)] \notin held[q]
        /\ held' = [held EXCEPT ![r] = @ \union {LockKey[SeriesAt(r)]}]
        /\ pc' = [pc EXCEPT ![r] = "persist"]
    BY DEF Lock
  <1>2. FindingTypes /\ LocksOK /\ IsPlaced(r) /\ OwnRowsOK(r)
    BY DEF FindingsIInv
  <1>3. /\ pc \in [Runs -> {"idle", "lock", "persist", "commit", "succeeded", "failed"}]
        /\ held \in [Runs -> SUBSET LockKeys]
    BY <1>2 DEF FindingTypes, TypeOK
  <1>4. LockKey[SeriesAt(r)] \in LockKeys
    <2>1. SeriesOf[r] \in Seq(Series) /\ pos[r].s \in DOMAIN SeriesOf[r]
      BY <1>1, <1>2, FindingsAssumption DEF IsPlaced
    <2>2. SeriesAt(r) \in Series
      BY <2>1 DEF SeriesAt
    <2> QED BY <2>2, FindingsAssumption
  <1>5. FindingTypes'
    BY <1>1, <1>2, <1>3, <1>4 DEF FindingTypes, TypeOK, IsFinding
  <1>6. LocksOK'
    BY <1>1, <1>2, <1>3 DEF LocksOK
  <1>7. CommittedOK'
    BY <1>1, <1>3, CommittedKept
  <1>8. ASSUME NEW q \in Runs, q # r PROVE IsPlaced(q)' /\ OwnRowsOK(q)'
    BY <1>1, <1>3, <1>8, RunKept
  <1>9. IsPlaced(r)' /\ OwnRowsOK(r)'
    <2>1. TagsOf(r)' = TagsOf(r) /\ \A t : Done(r, t)' <=> Done(r, t)
      BY <1>1 DEF TagsOf, Done
    <2>2. \A f : (IsSoundRow(f)' <=> IsSoundRow(f))
      BY <1>1, SoundRowKept
    <2>3. \A f : IsOwnRow(r, f) => IsOwnRow(r, f)'
      BY <1>1, <1>3, <2>1 DEF IsOwnRow, Grown, Created
    <2>4. IsPlaced(r)'
      BY <1>1, <1>2, <1>3 DEF IsPlaced, SeriesAt
    <2>5. OwnRowsOK(r)'
      BY <1>1, <1>2, <1>3, <2>1, <2>2, <2>3 DEF OwnRowsOK
    <2> QED BY <2>4, <2>5
  <1> QED BY <1>5, <1>6, <1>7, <1>8, <1>9 DEF FindingsIInv

\* A run that goes on, or is about to commit, has worked through its series.
LEMMA NextSeriesKeeps ==
    ASSUME FindingsIInv, NEW r \in Runs, NextSeries(r)
    PROVE  FindingsIInv'
  <1> DEFINE last == pos[r].s
  <1>1. /\ pc[r] = "persist" /\ pos[r].i > Len(report[r][SeriesAt(r)])
        /\ UNCHANGED <<findings, report, own, held, locks, request>>
        /\ \/ /\ last < Len(SeriesOf[r]) /\ pos' = [pos EXCEPT ![r] = [s |-> last + 1, i |-> 1]]
              /\ pc' = [pc EXCEPT ![r] = "lock"]
           \/ /\ ~(last < Len(SeriesOf[r])) /\ pos' = pos
              /\ pc' = [pc EXCEPT ![r] = "commit"]
    BY DEF NextSeries
  <1>2. FindingTypes /\ LocksOK /\ IsPlaced(r) /\ OwnRowsOK(r)
    BY DEF FindingsIInv
  <1>3. /\ pc \in [Runs -> {"idle", "lock", "persist", "commit", "succeeded", "failed"}]
        /\ pos \in [Runs -> [s : Nat \ {0}, i : Nat \ {0}]]
        /\ SeriesOf[r] \in Seq(Series) /\ last \in DOMAIN SeriesOf[r] /\ last \in Nat \ {0}
    BY <1>1, <1>2, FindingsAssumption DEF FindingTypes, TypeOK, IsPlaced
  <1>4. FindingTypes'
    <2>1. pc' \in [Runs -> {"idle", "lock", "persist", "commit", "succeeded", "failed"}]
      BY <1>1, <1>3
    <2>2. pos' \in [Runs -> [s : Nat \ {0}, i : Nat \ {0}]]
      <3>1. last + 1 \in Nat \ {0}
        BY <1>3
      <3> QED BY <1>1, <1>3, <3>1
    <2>3. \A q \in Runs : pos'[q].s \in Nat \ {0} /\ pos'[q].i \in Nat \ {0}
      BY <2>2
    <2> QED BY <1>1, <1>2, <2>1, <2>2, <2>3 DEF FindingTypes, TypeOK, IsFinding
  <1>5. LocksOK'
    BY <1>1, <1>2 DEF LocksOK
  <1>6. CommittedOK'
    BY <1>1, <1>3, CommittedKept
  <1>7. ASSUME NEW q \in Runs, q # r PROVE IsPlaced(q)' /\ OwnRowsOK(q)'
    BY <1>1, <1>3, <1>7, RunKept
  <1>8. \A t \in TagsOf(r) : Done(r, t) <=> \E j \in DOMAIN SeriesOf[r] : t[2] = SeriesOf[r][j] /\ j <= last
    <2> SUFFICES ASSUME NEW t \in TagsOf(r)
                 PROVE  Done(r, t) <=> \E j \in DOMAIN SeriesOf[r] : t[2] = SeriesOf[r][j] /\ j <= last
      OBVIOUS
    <2>1. ASSUME NEW j \in DOMAIN SeriesOf[r], t[2] = SeriesOf[r][j]
          PROVE  (j < last \/ (j = last /\ t[3] < pos[r].i)) <=> j <= last
      <3>1. j \in Nat /\ last \in Nat
        BY <1>3
      <3>2. CASE j = last
        <4>1. t[3] \in Nat /\ Len(report[r][t[2]]) \in Nat /\ t[3] <= Len(report[r][t[2]])
          BY <1>2, TagsOfFacts
        <4>2. t[2] = SeriesAt(r)
          BY <2>1, <3>2 DEF SeriesAt
        <4>3. t[3] < pos[r].i
          BY <1>1, <1>3, <4>1, <4>2
        <4> QED BY <3>1, <3>2, <4>3
      <3>3. CASE j # last
        BY <3>1, <3>3
      <3> QED BY <3>2, <3>3
    <2> QED BY <2>1 DEF Done
  <1>9. \A t \in TagsOf(r) : Done(r, t)' <=> Done(r, t)
    <2>1. CASE pos' = pos
      BY <2>1 DEF Done
    <2>2. CASE pos' = [pos EXCEPT ![r] = [s |-> last + 1, i |-> 1]]
      <3> SUFFICES ASSUME NEW t \in TagsOf(r)
                   PROVE  Done(r, t)' <=> \E j \in DOMAIN SeriesOf[r] : t[2] = SeriesOf[r][j] /\ j <= last
        BY <1>8
      <3>1. t[3] \in Nat \ {0}
        BY <1>2, TagsOfFacts
      <3>2. pos'[r].s = last + 1 /\ pos'[r].i = 1
        BY <1>3, <2>2
      <3>3. \A j \in DOMAIN SeriesOf[r] : (j < last + 1 \/ (j = last + 1 /\ t[3] < 1)) <=> j <= last
        BY <1>3, <3>1
      <3> QED BY <3>2, <3>3 DEF Done
    <2> QED BY <1>1, <2>1, <2>2
  <1>10. IsPlaced(r)' /\ OwnRowsOK(r)'
    <2>1. TagsOf(r)' = TagsOf(r)
      BY <1>1 DEF TagsOf
    <2>2. \A f : (IsSoundRow(f)' <=> IsSoundRow(f))
      BY <1>1, SoundRowKept
    <2>3. \A f \in own[r] : IsOwnRow(r, f) => IsOwnRow(r, f)'
      <3> SUFFICES ASSUME NEW f \in own[r], IsOwnRow(r, f) PROVE IsOwnRow(r, f)'
        OBVIOUS
      <3>1. \A t \in f.tags : t[1] = r => t \in TagsOf(r)
        BY <1>2 DEF OwnRowsOK, IsSoundRow
      <3> QED BY <1>1, <1>9, <3>1 DEF IsOwnRow, Grown, Created
    <2>4. OwnRowsOK(r)'
      BY <1>1, <1>2, <1>9, <2>1, <2>2, <2>3 DEF OwnRowsOK
    <2>5. IsPlaced(r)'
      <3>1. CASE last < Len(SeriesOf[r])
        <4>1. pc'[r] = "lock" /\ pos'[r].s = last + 1 /\ pos'[r].i = 1
          BY <1>1, <1>3, <3>1
        <4>2. last + 1 \in DOMAIN SeriesOf[r]
          BY <1>3, <3>1
        <4> QED BY <4>1, <4>2 DEF IsPlaced
      <3>2. CASE ~(last < Len(SeriesOf[r]))
        <4>1. pc'[r] = "commit"
          BY <1>1, <1>3, <3>2
        <4>2. \A t \in TagsOf(r) : Done(r, t)
          BY <1>2, <1>3, <1>8, <3>2, TagsOfFacts
        <4> QED BY <1>9, <2>1, <4>1, <4>2 DEF IsPlaced
      <3> QED BY <3>1, <3>2
    <2> QED BY <2>4, <2>5
  <1> QED BY <1>4, <1>5, <1>6, <1>7, <1>10 DEF FindingsIInv

-----------------------------------------------------------------------------
(* One incoming finding *)

\* The incoming finding run r is at.
Tag(r) == <<r, SeriesAt(r), pos[r].i>>

\* What run r sees of a committed row that it has not changed, or has.
LEMMA ViewFacts ==
    ASSUME FindingsIInv, NEW r \in Runs
    PROVE  /\ \A f \in View(r) : IsSoundRow(f)
           /\ \A g \in findings : \E f \in View(r) :
                 f = g \/ (f \in own[r] /\ Grown(r, g, f))
           /\ pc[r] \in {"lock", "persist", "commit"} =>
                 \A f \in View(r) : f.last = r <=> r \in ReportedBy(f)
  <1>1. \A f \in View(r) : IsSoundRow(f)
    BY DEF View, FindingsIInv, OwnRowsOK, CommittedOK
  <1>2. ASSUME NEW g \in findings PROVE \E f \in View(r) : f = g \/ (f \in own[r] /\ Grown(r, g, f))
    <2>1. CASE \E f \in own[r] : f.id = g.id
      <3>1. PICK f \in own[r] : f.id = g.id
        BY <2>1
      <3>2. Grown(r, g, f)
        BY <3>1, OwnReplaces
      <3> QED BY <3>2 DEF View
    <2>2. CASE \A f \in own[r] : f.id # g.id
      BY <2>2 DEF View
    <2> QED BY <2>1, <2>2
  <1>3. ASSUME pc[r] \in {"lock", "persist", "commit"}, NEW f \in View(r)
        PROVE  f.last = r <=> r \in ReportedBy(f)
    <2>1. f.last \in ReportedBy(f)
      BY <1>1, <1>3 DEF IsSoundRow
    <2>2. CASE f \in own[r]
      BY <2>1, <2>2 DEF FindingsIInv, OwnRowsOK, IsOwnRow
    <2>3. CASE f \in findings
      BY <1>3, <2>1, <2>3 DEF FindingsIInv, CommittedOK, ReportedBy
    <2> QED BY <2>2, <2>3 DEF View
  <1> QED BY <1>1, <1>2, <1>3

\* The fields of a merged row.
LEMMA MergedFields ==
    ASSUME NEW f, IsFinding(f), NEW r
    PROVE  LET n == Merged(f, r)
               w == StoredWindow(Incoming(r))
           IN  /\ n.id = f.id /\ n.series = f.series /\ n.check = f.check /\ n.subject = f.subject
               /\ n.status = f.status /\ n.touched = f.touched /\ n.first = f.first
               /\ n.start = Smaller(f.start, w.start) /\ n.end = Larger(f.end, w.end)
               /\ n.occurrences = IF f.last = r THEN f.occurrences ELSE f.occurrences + 1
               /\ n.last = r /\ n.tags = f.tags \union {Tag(r)}
               /\ DOMAIN n = DOMAIN f
  BY DEF Merged, IsFinding, Tag

\* A merge keeps what a row promises.
LEMMA MergedIsSound ==
    ASSUME FindingsIInv, NEW r \in Runs, pc[r] = "persist", pos[r].i <= Len(report[r][SeriesAt(r)]),
           NEW f \in Candidates(r)
    PROVE  IsSoundRow(Merged(f, r))
  <1> DEFINE n == Merged(f, r)
             c == Incoming(r)
             w == StoredWindow(c)
  <1>1. /\ f \in View(r) /\ f.series = SeriesAt(r) /\ f.check = c.check /\ f.subject = c.subject
        /\ f.first # r
    BY DEF Candidates, Matches
  <1>2. IsSoundRow(f) /\ IsFinding(f) /\ (f.last = r <=> r \in ReportedBy(f))
    BY <1>1, ViewFacts DEF IsSoundRow
  <1>3. /\ SeriesAt(r) \in Series /\ IsCoreFinding(c)
        /\ Tag(r) \in Tags /\ Tag(r) \in TagsOf(r)
    BY IncomingFacts DEF FindingsIInv, Tag
  <1>4. /\ w.start \in Int /\ w.end \in Int /\ w.start < w.end
        /\ w.start * NsPerUs <= c.start /\ w.end * NsPerUs >= c.end
    BY <1>3, StoredWindowFacts
  <1>5. /\ n.id = f.id /\ n.series = f.series /\ n.check = f.check /\ n.subject = f.subject
        /\ n.status = f.status /\ n.touched = f.touched /\ n.first = f.first
        /\ n.start = Smaller(f.start, w.start) /\ n.end = Larger(f.end, w.end)
        /\ n.occurrences = IF f.last = r THEN f.occurrences ELSE f.occurrences + 1
        /\ n.last = r /\ n.tags = f.tags \union {Tag(r)}
        /\ DOMAIN n = DOMAIN f
    BY <1>2, MergedFields
  <1> HIDE DEF n, w, c
  <1>6. f.start \in Int /\ f.end \in Int /\ f.start < f.end /\ f.occurrences \in Nat \ {0}
    BY <1>2 DEF IsFinding
  <1>7. /\ n.start \in Int /\ n.end \in Int /\ n.start < n.end
        /\ n.start <= f.start /\ f.end <= n.end /\ n.start <= w.start /\ w.end <= n.end
    <2>1. /\ Smaller(f.start, w.start) \in Int /\ Smaller(f.start, w.start) <= f.start
          /\ Smaller(f.start, w.start) <= w.start
      BY <1>4, <1>6, EndsFacts
    <2>2. /\ Larger(f.end, w.end) \in Int /\ f.end <= Larger(f.end, w.end)
          /\ w.end <= Larger(f.end, w.end)
      BY <1>4, <1>6, EndsFacts
    <2> QED BY <1>4, <1>5, <1>6, <2>1, <2>2
  <1>8. IsFinding(n)
    BY <1>2, <1>3, <1>5, <1>6, <1>7 DEF IsFinding
  <1>9. ASSUME NEW t \in n.tags PROVE t \in TagsOf(t[1]) /\ Holds(n, t)
    <2> DEFINE d == report[t[1]][t[2]][t[3]]
    <2>1. t[1] \in Runs /\ t \in TagsOf(t[1])
      BY <1>2, <1>3, <1>5, <1>9 DEF IsSoundRow, IsFinding, Tags, Tag
    <2>2. d.start \in Int /\ d.end \in Int
      BY <2>1, TagsOfFacts DEF FindingsIInv, IsCoreFinding
    <2>3. /\ n.series = t[2] /\ n.check = d.check /\ n.subject = d.subject
          /\ n.start * NsPerUs <= d.start /\ n.end * NsPerUs >= d.end
      <3>1. CASE t = Tag(r)
        <4>1. d = c /\ t[2] = SeriesAt(r)
          BY <3>1 DEF Tag, c, Incoming
        <4> HIDE DEF d
        <4>2. n.start * NsPerUs <= d.start
          BY <1>4, <1>7, <2>2, <4>1, WiderStart, FindingsAssumption
        <4>3. n.end * NsPerUs >= d.end
          BY <1>4, <1>7, <2>2, <4>1, WiderEnd, FindingsAssumption
        <4> QED BY <1>1, <1>5, <4>1, <4>2, <4>3
      <3>2. CASE t \in f.tags
        <4>1. /\ f.series = t[2] /\ f.check = d.check /\ f.subject = d.subject
              /\ f.start * NsPerUs <= d.start /\ f.end * NsPerUs >= d.end
          BY <1>2, <3>2 DEF Holds, IsSoundRow
        <4> HIDE DEF d
        <4>2. n.start * NsPerUs <= d.start
          BY <1>6, <1>7, <2>2, <4>1, WiderStart, FindingsAssumption
        <4>3. n.end * NsPerUs >= d.end
          BY <1>6, <1>7, <2>2, <4>1, WiderEnd, FindingsAssumption
        <4> QED BY <1>5, <4>1, <4>2, <4>3
      <3> QED BY <1>5, <1>9, <3>1, <3>2
    <2> QED BY <2>1, <2>3 DEF Holds
  <1>10. {t \in n.tags : t[1] = n.first} = {n.id}
    BY <1>1, <1>2, <1>5 DEF IsSoundRow, Tag
  <1>11. ReportedBy(n) = ReportedBy(f) \union {r}
    <2>1. Tag(r)[1] = r
      BY DEF Tag
    <2>2. n.tags = f.tags \union {Tag(r)}
      BY <1>5
    <2> QED BY <2>1, <2>2, Zenon DEF ReportedBy
  <1>12. IsFiniteSet(ReportedBy(n)) /\ n.occurrences = Cardinality(ReportedBy(n)) /\ n.last \in ReportedBy(n)
    <2>1. IsFiniteSet(ReportedBy(f)) /\ f.occurrences = Cardinality(ReportedBy(f))
      BY <1>2 DEF IsSoundRow
    <2> HIDE DEF ReportedBy
    <2> QED BY <1>2, <1>5, <1>11, <2>1, FS_AddElement
  <1>13. ~n.touched => n.status = "open"
    BY <1>2, <1>5 DEF IsSoundRow
  <1> QED BY <1>8, <1>9, <1>10, <1>12, <1>13 DEF IsSoundRow, n

\* A new row keeps what a row promises.
LEMMA InsertedIsSound ==
    ASSUME FindingsIInv, NEW r \in Runs, pc[r] = "persist", pos[r].i <= Len(report[r][SeriesAt(r)])
    PROVE  IsSoundRow(Inserted(r))
  <1> DEFINE n == Inserted(r)
             c == Incoming(r)
             w == StoredWindow(c)
  <1>1. /\ SeriesAt(r) \in Series /\ IsCoreFinding(c)
        /\ Tag(r) \in Tags /\ Tag(r) \in TagsOf(r)
    BY IncomingFacts DEF FindingsIInv, Tag
  <1>2. /\ w.start \in Int /\ w.end \in Int /\ w.start < w.end
        /\ w.start * NsPerUs <= c.start /\ w.end * NsPerUs >= c.end
    BY <1>1, StoredWindowFacts
  <1>3. /\ n.id = Tag(r) /\ n.series = SeriesAt(r) /\ n.check = c.check /\ n.subject = c.subject
        /\ n.start = w.start /\ n.end = w.end /\ n.status = "open" /\ n.touched = FALSE
        /\ n.first = r /\ n.last = r /\ n.occurrences = 1 /\ n.tags = {Tag(r)}
        /\ DOMAIN n = {"id", "series", "check", "subject", "start", "end", "status", "touched",
                       "first", "last", "occurrences", "tags"}
    BY DEF Inserted, Tag
  <1>4. Tag(r)[1] = r /\ Tag(r)[2] = SeriesAt(r) /\ report[r][Tag(r)[2]][Tag(r)[3]] = c
    BY DEF Tag, Incoming
  <1> HIDE DEF n, w, c
  <1>5. IsFinding(n)
    <2>1. n.status \in Statuses /\ n.occurrences \in Nat \ {0}
      BY <1>3 DEF Statuses
    <2>3. n.touched \in BOOLEAN
      BY <1>3, Zenon
    <2>2. n.start \in Int /\ n.end \in Int /\ n.start < n.end
      BY <1>2, <1>3
    <2> QED BY <1>1, <1>3, <2>1, <2>2, <2>3, Zenon DEF IsFinding
  <1>6. Holds(n, Tag(r))
    BY <1>2, <1>3, <1>4 DEF Holds
  <1>7. ReportedBy(n) = {r}
    <2>1. n.tags = {Tag(r)} /\ Tag(r)[1] = r
      BY <1>3, <1>4
    <2> QED BY <2>1, Zenon DEF ReportedBy
  <1>8. {t \in n.tags : t[1] = n.first} = {n.id}
    BY <1>3, <1>4
  <1>9. IsFiniteSet(ReportedBy(n)) /\ n.occurrences = Cardinality(ReportedBy(n)) /\ n.last \in ReportedBy(n)
    <2>1. IsFiniteSet({r}) /\ Cardinality({r}) = 1
      BY FS_Singleton
    <2> QED BY <1>3, <1>7, <2>1
  <1> QED BY <1>1, <1>3, <1>4, <1>5, <1>6, <1>8, <1>9 DEF IsSoundRow, n

\* A run writes row n for its incoming finding: a new one, or that of what it has seen.
RowWrites(r, n) ==
    /\ own' = [own EXCEPT ![r] = {g \in own[r] : g.id # n.id} \union {n}]
    /\ IsSoundRow(n)
    /\ n.series = SeriesAt(r) /\ n.last = r /\ Tag(r) \in n.tags
    /\ \A t \in n.tags : t = Tag(r) \/ \E f \in View(r) : f.id = n.id /\ t \in f.tags
    /\ \A f \in own[r] : f.id = n.id => f.tags \subseteq n.tags
    /\ Created(r, n) \/ \E g \in findings : Grown(r, g, n)'

\* Absorb writes such a row: where there is no candidate nothing committed absorbs it, and the best
\* candidate is a committed row or one that has grown from a committed row.
LEMMA AbsorbWrites ==
    ASSUME FindingsIInv, NEW r \in Runs, Absorb(r)
    PROVE  \E n : RowWrites(r, n)
  <1>1. /\ pc[r] = "persist" /\ pos[r].i <= Len(report[r][SeriesAt(r)])
        /\ locks' = locks \union {<<f.id, r>> : f \in Matches(r)}
        /\ UNCHANGED <<findings, report, pc, held, request>>
    BY DEF Absorb
  <1>2. FindingTypes /\ IsPlaced(r) /\ OwnRowsOK(r) /\ CommittedOK
    BY DEF FindingsIInv
  <1>3. ~Done(r, Tag(r)) /\ Tag(r)[1] = r
    BY <1>1, <1>2, IncomingFacts DEF Tag
  <1>4. \A f \in own[r] : Tag(r) \notin f.tags
    BY <1>2, <1>3 DEF OwnRowsOK, IsOwnRow
  <1>5. /\ \A f \in View(r) : IsSoundRow(f) /\ (f.last = r <=> r \in ReportedBy(f))
        /\ \A g \in findings : \E f \in View(r) : f = g \/ (f \in own[r] /\ Grown(r, g, f))
    BY <1>1, ViewFacts
  <1>6. CASE Candidates(r) = {}
    <2>0. PICK n : n = Inserted(r)
      OBVIOUS
    <2>1. own' = [own EXCEPT ![r] = own[r] \union {n}]
      BY <1>6, <2>0 DEF Absorb
    <2>2. IsSoundRow(n)
      BY <1>1, <2>0, InsertedIsSound
    <2>3. /\ n.id = Tag(r) /\ n.series = SeriesAt(r) /\ n.last = r /\ n.first = r /\ n.tags = {Tag(r)}
          /\ n.check = Incoming(r).check /\ n.subject = Incoming(r).subject
          /\ n.start = StoredWindow(Incoming(r)).start /\ n.end = StoredWindow(Incoming(r)).end
      BY <2>0 DEF Inserted, Tag
    <2>4. \A f \in own[r] : f.id # n.id
      BY <1>2, <1>4, <2>3, RowTag DEF OwnRowsOK
    <2>5. {g \in own[r] : g.id # n.id} = own[r]
      BY <2>4
    <2>6. ASSUME NEW g \in findings, Absorbs(g, n) PROVE FALSE
      <3>1. IsSoundRow(g) /\ g.status = "open" /\ g.first # r
        BY <1>2, <2>3, <2>6 DEF CommittedOK, Absorbs, IsSoundRow
      <3>2. PICK f \in View(r) : f = g \/ (f \in own[r] /\ Grown(r, g, f))
        BY <1>5
      <3>3. f.series = g.series /\ f.check = g.check /\ f.subject = g.subject /\ f.first = g.first /\ f.status = g.status
        BY <3>2 DEF Grown
      <3>4. Overlap(f, StoredWindow(Incoming(r)))
        <4>1. /\ g.start \in Int /\ g.end \in Int /\ f.start \in Int /\ f.end \in Int
              /\ n.start \in Int /\ n.end \in Int
          BY <1>5, <2>2, <3>1 DEF IsSoundRow, IsFinding
        <4>2. f.start <= g.start /\ g.end <= f.end
          BY <3>2, <4>1 DEF Grown
        <4>3. n.start < g.end /\ g.start < n.end
          BY <2>6 DEF Absorbs, Overlap
        <4>4. n.start < f.end /\ f.start < n.end
          BY <4>1, <4>2, <4>3
        <4> QED BY <2>3, <4>4 DEF Overlap
      <3>5. f \in Candidates(r)
        BY <2>3, <2>6, <3>1, <3>3, <3>4 DEF Candidates, Matches, Absorbs, Absorbing
      <3> QED BY <1>6, <3>5
    <2>7. Created(r, n)
      BY <2>3, <2>6 DEF Created
    <2>8. RowWrites(r, n)
      BY <2>1, <2>2, <2>3, <2>4, <2>5, <2>7 DEF RowWrites
    <2> QED BY <2>8
  <1>7. CASE Candidates(r) # {}
    <2>1. PICK f \in Best(r) : own' = [own EXCEPT ![r] = {g \in @ : g.id # f.id} \union {Merged(f, r)}]
      BY <1>7 DEF Absorb
    <2>0. PICK n : n = Merged(f, r)
      OBVIOUS
    <2>2. f \in Candidates(r)
      BY DEF Best
    <2>3. f \in View(r) /\ f \in Matches(r) /\ f.series = SeriesAt(r) /\ f.status \in Absorbing /\ f.first # r
      BY <2>2 DEF Candidates, Matches
    <2>4. IsSoundRow(f) /\ (f.last = r <=> r \in ReportedBy(f)) /\ IsFinding(f)
      BY <1>5, <2>3 DEF IsSoundRow
    <2>5. IsSoundRow(n)
      BY <1>1, <2>0, <2>2, MergedIsSound
    <2>6. /\ n.id = f.id /\ n.series = f.series /\ n.check = f.check /\ n.subject = f.subject
          /\ n.status = f.status /\ n.touched = f.touched /\ n.first = f.first
          /\ n.occurrences = IF f.last = r THEN f.occurrences ELSE f.occurrences + 1
          /\ n.last = r /\ n.tags = f.tags \union {Tag(r)}
          /\ n.start = Smaller(f.start, StoredWindow(Incoming(r)).start)
          /\ n.end = Larger(f.end, StoredWindow(Incoming(r)).end)
      BY <2>0, <2>4, MergedFields
    <2>7. n.start <= f.start /\ f.end <= n.end
      <3>1. f.start \in Int /\ f.end \in Int
        BY <2>4 DEF IsFinding
      <3>2. StoredWindow(Incoming(r)).start \in Int /\ StoredWindow(Incoming(r)).end \in Int
        BY <1>1, <1>2, IncomingFacts, StoredWindowFacts
      <3> QED BY <2>6, <3>1, <3>2, EndsFacts
    <2>8. own' = [own EXCEPT ![r] = {g \in own[r] : g.id # n.id} \union {n}]
      BY <2>0, <2>1, <2>6
    <2>9. \A g \in own[r] : g.id = n.id => g = f
      BY <1>2, <2>3, <2>6 DEF OwnRowsOK, View
    <2>10. \E g \in findings : Grown(r, g, n)'
      <3>1. CASE f \in own[r]
        <4>1. PICK g \in findings : Grown(r, g, f)
          BY <1>2, <2>3, <3>1 DEF OwnRowsOK, IsOwnRow, Created
        <4>2. f.last = r /\ IsSoundRow(g)
          BY <1>2, <3>1 DEF OwnRowsOK, IsOwnRow, CommittedOK
        <4>3. n.start <= g.start /\ g.end <= n.end
          <5>1. /\ n.start \in Int /\ n.end \in Int /\ f.start \in Int /\ f.end \in Int
                /\ g.start \in Int /\ g.end \in Int
            BY <2>4, <2>5, <4>2 DEF IsSoundRow, IsFinding
          <5>2. f.start <= g.start /\ g.end <= f.end
            BY <4>1 DEF Grown
          <5> QED BY <2>7, <5>1, <5>2
        <4>4. \A t \in n.tags : t \in g.tags \/ t[1] = r
          BY <1>3, <2>6, <4>1 DEF Grown
        <4>5. g.tags \subseteq n.tags
          BY <2>6, <4>1 DEF Grown
        <4>6. <<g.id, r>> \in locks'
          BY <1>1, <4>1 DEF Grown
        <4>7. /\ g.id = n.id /\ g.series = n.series /\ g.check = n.check /\ g.subject = n.subject
              /\ g.first = n.first /\ g.status = n.status /\ g.touched = n.touched
              /\ n.occurrences = g.occurrences + 1 /\ n.status \in Absorbing
          BY <2>6, <4>1, <4>2 DEF Grown
        <4>8. Grown(r, g, n)'
          BY <4>3, <4>4, <4>5, <4>6, <4>7, Zenon DEF Grown
        <4> QED BY <1>1, <4>8
      <3>2. CASE f \in findings
        <4>1. r \notin ReportedBy(f)
          BY <1>1, <1>2, <3>2 DEF CommittedOK, ReportedBy
        <4>2. <<f.id, r>> \in locks'
          BY <1>1, <2>3
        <4>3. \A t \in n.tags : t \in f.tags \/ t[1] = r
          BY <1>3, <2>6
        <4>4. n.occurrences = f.occurrences + 1 /\ n.status \in Absorbing /\ f.tags \subseteq n.tags
          BY <2>3, <2>4, <2>6, <4>1
        <4>5. Grown(r, f, n)'
          <5>1. /\ f.id = n.id /\ f.series = n.series /\ f.check = n.check /\ f.subject = n.subject
                /\ f.first = n.first /\ f.status = n.status /\ f.touched = n.touched
            BY <2>6
          <5> QED BY <2>7, <4>2, <4>3, <4>4, <5>1, Zenon DEF Grown
        <4> QED BY <1>1, <3>2, <4>5
      <3> QED BY <2>3, <3>1, <3>2 DEF View
    <2>11. \A t \in n.tags : t = Tag(r) \/ \E h \in View(r) : h.id = n.id /\ t \in h.tags
      BY <2>3, <2>6
    <2>12. \A g \in own[r] : g.id = n.id => g.tags \subseteq n.tags
      BY <2>6, <2>9
    <2>13. n.series = SeriesAt(r) /\ n.last = r /\ Tag(r) \in n.tags
      BY <2>3, <2>6
    <2>14. RowWrites(r, n)
      BY <2>5, <2>8, <2>10, <2>11, <2>12, <2>13 DEF RowWrites
    <2> QED BY <2>14
  <1> QED BY <1>6, <1>7

\* The incoming finding is in that row and in no other.
LEMMA AbsorbKeeps ==
    ASSUME FindingsIInv, NEW r \in Runs, Absorb(r)
    PROVE  FindingsIInv'
  <1>1. /\ pc[r] = "persist" /\ pos[r].i <= Len(report[r][SeriesAt(r)])
        /\ \A f \in Matches(r) : ~LockedByOther(f, r)
        /\ locks' = locks \union {<<f.id, r>> : f \in Matches(r)}
        /\ pos' = [pos EXCEPT ![r].i = @ + 1]
        /\ UNCHANGED <<findings, report, pc, held, request>>
    BY DEF Absorb
  <1>2. FindingTypes /\ LocksOK /\ IsPlaced(r) /\ OwnRowsOK(r) /\ CommittedOK
    BY DEF FindingsIInv
  <1>3. PICK n : RowWrites(r, n)
    BY AbsorbWrites
  <1>0. IsSoundRow(n) /\ n.series = SeriesAt(r) /\ n.last = r /\ Tag(r) \in n.tags
    BY <1>3 DEF RowWrites
  <1>4. /\ ~Done(r, Tag(r)) /\ Tag(r) \in TagsOf(r) /\ Tag(r)[1] = r
    BY <1>1, <1>2, IncomingFacts DEF Tag
  <1>5. /\ pos \in [Runs -> [s : Nat \ {0}, i : Nat \ {0}]] /\ own = [q \in Runs |-> own[q]]
        /\ locks \subseteq Tags \X (Runs \union Users)
    BY <1>2 DEF FindingTypes, TypeOK
  <1>6. /\ pos'[r].s = pos[r].s /\ pos'[r].i = pos[r].i + 1
        /\ pos' \in [Runs -> [s : Nat \ {0}, i : Nat \ {0}]]
        /\ \A q \in Runs : q # r => pos'[q] = pos[q]
    <2>1. pos[r] \in [s : Nat \ {0}, i : Nat \ {0}] /\ pos[r].i + 1 \in Nat \ {0}
      BY <1>5
    <2>2. pos' = [pos EXCEPT ![r] = [pos[r] EXCEPT !.i = pos[r].i + 1]]
      BY <1>1
    <2>3. [pos[r] EXCEPT !.i = pos[r].i + 1] \in [s : Nat \ {0}, i : Nat \ {0}]
      BY <2>1
    <2> QED BY <1>5, <2>1, <2>2, <2>3
  <1>7. /\ own' = [q \in Runs |-> own'[q]]
        /\ own'[r] = {g \in own[r] : g.id # n.id} \union {n}
        /\ \A q \in Runs : q # r => own'[q] = own[q]
    BY <1>3, <1>5 DEF RowWrites
  <1>8. \A f \in Matches(r) : f.id \in Tags
    BY ViewFacts DEF Matches, IsSoundRow, IsFinding
  <1>9. FindingTypes'
    <2>1. \A q \in Runs : \A f \in own'[q] : IsFinding(f)
      BY <1>0, <1>2, <1>7 DEF FindingTypes, TypeOK, IsSoundRow
    <2>2. locks' \subseteq Tags \X (Runs \union Users)
      BY <1>1, <1>5, <1>8
    <2>3. \A q \in Runs : pos'[q].s \in Nat \ {0} /\ pos'[q].i \in Nat \ {0}
      BY <1>6
    <2>4. TypeOK'
      BY <1>1, <1>2, <2>1, <2>2, <2>3 DEF FindingTypes, TypeOK, IsFinding
    <2> QED BY <1>1, <1>2, <1>6, <1>7, <2>4 DEF FindingTypes
  <1>10. LocksOK'
    <2>1. ASSUME NEW k \in locks', NEW l \in locks', k[1] = l[1] PROVE k = l
      <3>1. \A m \in locks' : m \in locks \/ (m[2] = r /\ m = <<m[1], m[2]>> /\ \E f \in Matches(r) : m[1] = f.id)
        BY <1>1
      <3>2. \A m \in locks : m = <<m[1], m[2]>>
        BY <1>5
      <3>3. \A f \in Matches(r) : \A m \in locks : m[1] = f.id => m[2] = r
        BY <1>1 DEF LockedByOther
      <3>4. k \in locks /\ l \in locks => k = l
        BY <1>2, <2>1 DEF LocksOK
      <3> QED BY <2>1, <3>1, <3>2, <3>3, <3>4
    <2> QED BY <1>1, <1>2, <2>1 DEF LocksOK
  <1>11. CommittedOK'
    BY <1>1, CommittedKept
  <1>12. ASSUME NEW q \in Runs, q # r PROVE IsPlaced(q)' /\ OwnRowsOK(q)'
    <2>1. pos'[q] = pos[q] /\ own'[q] = own[q] /\ held'[q] = held[q] /\ pc'[q] = pc[q]
      BY <1>1, <1>6, <1>7, <1>12
    <2>2. \A id : <<id, q>> \in locks => <<id, q>> \in locks'
      BY <1>1
    <2> QED BY <1>1, <2>1, <2>2, RunKept
  <1>13. IsPlaced(r)'
    BY <1>1, <1>2, <1>6 DEF IsPlaced, SeriesAt
  <1>14. \A t \in TagsOf(r) : Done(r, t)' <=> Done(r, t) \/ t = Tag(r)
    <2> SUFFICES ASSUME NEW t \in TagsOf(r)
                 PROVE  Done(r, t)' <=> Done(r, t) \/ t = Tag(r)
      OBVIOUS
    <2>1. t = <<r, t[2], t[3]>> /\ t[3] \in Nat
      BY <1>2, TagsOfFacts
    <2>2. t = Tag(r) <=> t[2] = SeriesOf[r][pos[r].s] /\ t[3] = pos[r].i
      BY <2>1 DEF Tag, SeriesAt
    <2>3. pos[r].s \in DOMAIN SeriesOf[r] /\ pos[r].i \in Nat
      BY <1>1, <1>2, <1>5 DEF IsPlaced
    <2>4. t[3] < pos[r].i + 1 <=> (t[3] < pos[r].i \/ t[3] = pos[r].i)
      BY <2>1, <2>3
    <2> QED BY <1>6, <2>2, <2>3, <2>4 DEF Done
  <1>15. \A f \in own[r] : Tag(r) \notin f.tags
    BY <1>2, <1>4 DEF OwnRowsOK, IsOwnRow
  <1>16. TagsOf(r)' = TagsOf(r)
    BY <1>1 DEF TagsOf
  <1>17. ASSUME NEW f \in own'[r] PROVE IsSoundRow(f)' /\ IsOwnRow(r, f)'
    <2>1. IsSoundRow(f) /\ IsSoundRow(f)'
      BY <1>0, <1>1, <1>2, <1>7, SoundRowKept DEF OwnRowsOK
    <2>2. \A t \in f.tags : t[1] = r => t \in TagsOf(r)
      BY <2>1 DEF IsSoundRow
    <2>3. CASE f \in own[r]
      <3>1. IsOwnRow(r, f)
        BY <1>2, <2>3 DEF OwnRowsOK
      <3>2. \A g : Grown(r, g, f) => Grown(r, g, f)'
        BY <1>1 DEF Grown
      <3>3. Created(r, f)' <=> Created(r, f)
        BY <1>1 DEF Created
      <3> QED BY <1>1, <1>14, <2>1, <2>2, <3>1, <3>2, <3>3 DEF IsOwnRow
    <2>4. CASE f = n
      <3>1. LockKey[f.series] \in held[r]
        BY <1>0, <1>1, <1>2, <2>4 DEF IsPlaced
      <3>2. ASSUME NEW t \in f.tags, t[1] = r PROVE Done(r, t)'
        <4>1. CASE t = Tag(r)
          BY <1>14, <2>2, <3>2, <4>1
        <4>2. CASE t # Tag(r)
          <5>1. PICK h \in View(r) : t \in h.tags
            BY <1>3, <2>4, <3>2, <4>2 DEF RowWrites
          <5>2. h \in own[r]
            BY <1>1, <1>2, <3>2, <5>1 DEF View, CommittedOK
          <5>3. Done(r, t)
            BY <1>2, <3>2, <5>1, <5>2 DEF OwnRowsOK, IsOwnRow
          <5> QED BY <1>14, <2>2, <3>2, <5>3
        <4> QED BY <4>1, <4>2
      <3>3. Created(r, f)' \/ \E g \in findings' : Grown(r, g, f)'
        BY <1>1, <1>3, <2>4 DEF RowWrites, Created
      <3> QED BY <1>0, <1>1, <2>1, <2>4, <3>1, <3>2, <3>3 DEF IsOwnRow
    <2> QED BY <1>7, <2>3, <2>4
  <1>18. ASSUME NEW f \in own[r], f.id # n.id, NEW t \in f.tags, t \in n.tags PROVE FALSE
    <2>1. t # Tag(r)
      BY <1>15
    <2>2. PICK h \in View(r) : h.id = n.id /\ t \in h.tags
      BY <1>3, <1>18, <2>1 DEF RowWrites
    <2>3. CASE h \in own[r]
      BY <1>2, <1>18, <2>2, <2>3 DEF OwnRowsOK
    <2>4. CASE h \in findings
      BY <1>18, <2>2, <2>4, OwnRowFacts DEF Grown
    <2> QED BY <2>2, <2>3, <2>4 DEF View
  <1>19. OwnRowsOK(r)'
    <2>1. ASSUME NEW f \in own'[r], NEW g \in own'[r], f.id = g.id \/ \E t \in f.tags : t \in g.tags
          PROVE  f = g
      BY <1>2, <1>7, <1>18, <2>1 DEF OwnRowsOK
    <2>2. ASSUME NEW t \in TagsOf(r), Done(r, t)' PROVE \E f \in own'[r] : t \in f.tags
      <3>1. CASE t = Tag(r)
        BY <1>0, <1>7, <3>1
      <3>2. CASE t # Tag(r)
        <4>1. PICK f \in own[r] : t \in f.tags
          BY <1>1, <1>2, <1>14, <2>2, <3>2 DEF OwnRowsOK
        <4>2. f.id = n.id => t \in n.tags
          BY <1>3, <4>1 DEF RowWrites
        <4> QED BY <1>7, <4>1, <4>2
      <3> QED BY <3>1, <3>2
    <2> QED BY <1>16, <1>17, <2>1, <2>2 DEF OwnRowsOK
  <1> QED BY <1>9, <1>10, <1>11, <1>12, <1>13, <1>19 DEF FindingsIInv

-----------------------------------------------------------------------------
(* The end of a completion *)

\* The end of a completion frees its locks and leaves the types as they were.
LEMMA ReleaseTypes ==
    ASSUME FindingsIInv, NEW r \in Runs, NEW ended \in {"succeeded", "failed"}, Release(r, ended),
           findings' = findings \/ findings' = View(r)
    PROVE  FindingTypes' /\ LocksOK' /\ own'[r] = {} /\ pc'[r] = ended
  <1>1. /\ pc' = [pc EXCEPT ![r] = ended] /\ own' = [own EXCEPT ![r] = {}]
        /\ held' = [held EXCEPT ![r] = {}] /\ locks' = {l \in locks : l[2] # r}
        /\ UNCHANGED <<report, pos, request>>
    BY DEF Release
  <1>2. FindingTypes /\ LocksOK
    BY DEF FindingsIInv
  <1>3. /\ pc \in [Runs -> {"idle", "lock", "persist", "commit", "succeeded", "failed"}]
        /\ held \in [Runs -> SUBSET LockKeys] /\ own = [q \in Runs |-> own[q]]
        /\ locks \subseteq Tags \X (Runs \union Users)
    BY <1>2 DEF FindingTypes, TypeOK
  <1>4. /\ pc' \in [Runs -> {"idle", "lock", "persist", "commit", "succeeded", "failed"}]
        /\ held' \in [Runs -> SUBSET LockKeys] /\ own' = [q \in Runs |-> own'[q]]
        /\ locks' \subseteq Tags \X (Runs \union Users) /\ own'[r] = {} /\ pc'[r] = ended
        /\ \A q \in Runs : own'[q] \subseteq own[q] /\ held'[q] \subseteq held[q]
    BY <1>1, <1>3
  <1>5. \A f \in findings' : IsFinding(f)
    <2>1. \A f \in findings : IsFinding(f)
      BY <1>2 DEF FindingTypes, TypeOK
    <2>2. \A f \in View(r) : IsFinding(f)
      BY ViewFacts DEF IsSoundRow
    <2>3. CASE findings' = findings
      BY <2>1, <2>3
    <2>4. CASE findings' = View(r)
      BY <2>2, <2>4
    <2> QED BY <2>3, <2>4
  <1>6. \A f, g \in findings' : f.id = g.id => f = g
    <2>1. \A f, g \in findings : f.id = g.id => f = g
      BY <1>2 DEF FindingTypes, TypeOK
    <2>2. \A f, g \in own[r] : f.id = g.id => f = g
      BY DEF FindingsIInv, OwnRowsOK
    <2> QED BY <2>1, <2>2 DEF View
  <1>7. TypeOK'
    BY <1>1, <1>2, <1>4, <1>5, <1>6 DEF FindingTypes, TypeOK, IsFinding
  <1>8. FindingTypes'
    BY <1>1, <1>2, <1>4, <1>7 DEF FindingTypes
  <1>9. LocksOK'
    <2>1. \A p, q \in Runs : p # q => held'[p] \intersect held'[q] = {}
      BY <1>2, <1>4 DEF LocksOK
    <2>2. \A u \in Users : u # r
      BY FindingsAssumption
    <2>3. \A u \in Users : request'[u].step = "update" => <<request'[u].id, u>> \in locks'
      BY <1>1, <1>2, <2>2 DEF LocksOK
    <2>4. \A k, l \in locks' : k[1] = l[1] => k = l
      BY <1>1, <1>2 DEF LocksOK
    <2> QED BY <2>1, <2>3, <2>4 DEF LocksOK
  <1> QED BY <1>4, <1>8, <1>9

\* A run that fails leaves nothing.
LEMMA AbortKeeps ==
    ASSUME FindingsIInv, NEW r \in Runs, Abort(r)
    PROVE  FindingsIInv'
  <1>1. /\ pc[r] \in {"lock", "persist", "commit"} /\ Release(r, "failed") /\ UNCHANGED findings
        /\ pc' = [pc EXCEPT ![r] = "failed"] /\ own' = [own EXCEPT ![r] = {}]
        /\ held' = [held EXCEPT ![r] = {}] /\ locks' = {l \in locks : l[2] # r}
        /\ UNCHANGED <<report, pos, request>>
    BY DEF Abort, Release
  <1>2. FindingTypes
    BY DEF FindingsIInv
  <1>3. /\ pc \in [Runs -> {"idle", "lock", "persist", "commit", "succeeded", "failed"}]
        /\ held \in [Runs -> SUBSET LockKeys] /\ own = [q \in Runs |-> own[q]]
    BY <1>2 DEF FindingTypes, TypeOK
  <1>4. FindingTypes' /\ LocksOK' /\ own'[r] = {} /\ pc'[r] = "failed"
    BY <1>1, ReleaseTypes
  <1>5. CommittedOK'
    BY <1>1, <1>3, CommittedKept
  <1>6. ASSUME NEW q \in Runs, q # r PROVE IsPlaced(q)' /\ OwnRowsOK(q)'
    <2>1. pos'[q] = pos[q] /\ own'[q] = own[q] /\ held'[q] = held[q] /\ pc'[q] = pc[q]
      BY <1>1, <1>3, <1>6
    <2>2. \A id : <<id, q>> \in locks => <<id, q>> \in locks'
      BY <1>1, <1>6
    <2> QED BY <1>1, <2>1, <2>2, RunKept
  <1>7. IsPlaced(r)' /\ OwnRowsOK(r)'
    BY <1>4 DEF IsPlaced, OwnRowsOK
  <1> QED BY <1>4, <1>5, <1>6, <1>7 DEF FindingsIInv

\* When run r commits, its rows take the places of those they have grown from; the others stay.
LEMMA CommitKeeps ==
    ASSUME FindingsIInv, NEW r \in Runs, Commit(r)
    PROVE  FindingsIInv'
  <1>1. /\ pc[r] = "commit" /\ Release(r, "succeeded") /\ findings' = View(r)
        /\ pc' = [pc EXCEPT ![r] = "succeeded"] /\ own' = [own EXCEPT ![r] = {}]
        /\ held' = [held EXCEPT ![r] = {}] /\ locks' = {l \in locks : l[2] # r}
        /\ UNCHANGED <<report, pos, request>>
    BY DEF Commit, Release
  <1>2. FindingTypes /\ CommittedOK /\ LocksOK /\ IsPlaced(r) /\ OwnRowsOK(r)
    BY DEF FindingsIInv
  <1>3. /\ pc \in [Runs -> {"idle", "lock", "persist", "commit", "succeeded", "failed"}]
        /\ held \in [Runs -> SUBSET LockKeys] /\ own = [q \in Runs |-> own[q]]
        /\ \A f, g \in findings : f.id = g.id => f = g
    BY <1>2 DEF FindingTypes, TypeOK
  <1>4. FindingTypes' /\ LocksOK' /\ own'[r] = {} /\ pc'[r] = "succeeded"
    BY <1>1, ReleaseTypes
  <1>5. /\ \A q \in Runs : q # r => pc'[q] = pc[q] /\ own'[q] = own[q] /\ held'[q] = held[q]
        /\ \A q \in Runs : TagsOf(q)' = TagsOf(q)
        /\ \A q \in Runs : \A t : Done(q, t)' <=> Done(q, t)
    BY <1>1, <1>3 DEF TagsOf, Done
  <1>6. \A f : (IsSoundRow(f)' <=> IsSoundRow(f))
    BY <1>1, SoundRowKept
  <1>7. CommittedOK'
    <2>1. ASSUME NEW f \in View(r), NEW t \in f.tags PROVE pc'[t[1]] = "succeeded"
      <3>1. t[1] \in Runs
        BY <2>1, ViewFacts DEF IsSoundRow, IsFinding, Tags
      <3>2. CASE f \in findings
        BY <1>2, <1>3, <1>4, <1>5, <2>1, <3>1, <3>2 DEF CommittedOK
      <3>3. CASE f \in own[r] /\ Created(r, f)
        <4>1. t[1] = r
          BY <1>2, <2>1, <3>3, RowTag DEF OwnRowsOK, Created
        <4> QED BY <1>4, <4>1
      <3>4. CASE f \in own[r] /\ ~Created(r, f)
        <4>1. PICK g \in findings : Grown(r, g, f)
          BY <1>2, <3>4 DEF OwnRowsOK, IsOwnRow
        <4>2. t \in g.tags \/ t[1] = r
          BY <2>1, <4>1 DEF Grown
        <4> QED BY <1>2, <1>4, <1>5, <3>1, <4>2 DEF CommittedOK
      <3> QED BY <3>2, <3>3, <3>4 DEF View
    <2>2. ASSUME NEW f \in View(r), NEW g \in View(r), NEW t, t \in f.tags, t \in g.tags PROVE f = g
      <3>1. CASE f \in findings /\ g \in findings
        BY <1>2, <2>2, <3>1 DEF CommittedOK
      <3>2. CASE f \in own[r] /\ g \in own[r]
        BY <1>2, <2>2, <3>2 DEF OwnRowsOK
      <3>3. ASSUME NEW h \in own[r], NEW k \in findings, t \in h.tags, t \in k.tags PROVE k.id = h.id
        BY <3>3, OwnRowFacts DEF Grown
      <3>4. CASE f \in own[r] /\ g \notin own[r]
        BY <2>2, <3>3, <3>4 DEF View
      <3>5. CASE f \notin own[r] /\ g \in own[r]
        BY <2>2, <3>3, <3>5 DEF View
      <3> QED BY <3>1, <3>2, <3>4, <3>5 DEF View
    <2>3. ASSUME NEW q \in Runs, pc'[q] = "succeeded", NEW t \in TagsOf(q)
          PROVE  \E f \in View(r) : t \in f.tags
      <3>1. CASE q = r
        <4>1. PICK f \in own[r] : t \in f.tags
          BY <1>1, <1>2, <2>3, <3>1 DEF IsPlaced, OwnRowsOK
        <4> QED BY <4>1 DEF View
      <3>2. CASE q # r
        <4>1. PICK f \in findings : t \in f.tags
          BY <1>2, <1>5, <2>3, <3>2 DEF CommittedOK
        <4>2. PICK g \in View(r) : g = f \/ (g \in own[r] /\ Grown(r, f, g))
          BY ViewFacts
        <4> QED BY <4>1, <4>2 DEF Grown
      <3> QED BY <3>1, <3>2
    <2>4. \A f \in findings' : IsSoundRow(f)'
      BY <1>1, <1>6, ViewFacts
    <2> QED BY <1>1, <1>5, <2>1, <2>2, <2>3, <2>4 DEF CommittedOK
  <1>8. ASSUME NEW q \in Runs, q # r PROVE IsPlaced(q)' /\ OwnRowsOK(q)'
    <2>1. IsPlaced(q) /\ OwnRowsOK(q)
      BY DEF FindingsIInv
    <2>2. IsPlaced(q)'
      BY <1>1, <1>5, <1>8, <2>1 DEF IsPlaced, SeriesAt
    <2>3. ASSUME NEW f \in own[q] PROVE IsOwnRow(q, f)'
      <3>1. IsOwnRow(q, f)
        BY <2>1 DEF OwnRowsOK
      <3>2. ASSUME Created(q, f) PROVE Created(q, f)'
        <4>1. \A g \in View(r) : ~Absorbs(g, f)
          <5>1. \A g \in own[r] : g.series # f.series
            BY <1>8, RunsApart
          <5> QED BY <3>2, <5>1 DEF View, Created, Absorbs
        <4> QED BY <1>1, <3>2, <4>1 DEF Created
      <3>3. ASSUME NEW g \in findings, Grown(q, g, f) PROVE \E h \in findings' : Grown(q, h, f)'
        <4>1. \A h \in own[r] : h.id # g.id
          <5> SUFFICES ASSUME NEW h \in own[r], h.id = g.id PROVE FALSE
            OBVIOUS
          <5>1. h.series = g.series /\ g.series = f.series
            BY <3>3, OwnReplaces DEF Grown
          <5> QED BY <1>8, <5>1, RunsApart
        <4>2. g \in findings'
          BY <1>1, <4>1 DEF View
        <4>3. <<g.id, q>> \in locks'
          BY <1>1, <1>8, <3>3 DEF Grown
        <4>4. Grown(q, g, f)'
          BY <3>3, <4>3 DEF Grown
        <4> QED BY <4>2, <4>4
      <3> QED BY <1>5, <1>8, <3>1, <3>2, <3>3 DEF IsOwnRow
    <2>4. OwnRowsOK(q)'
      BY <1>1, <1>5, <1>6, <1>8, <2>1, <2>3 DEF OwnRowsOK
    <2> QED BY <2>2, <2>4
  <1>9. IsPlaced(r)' /\ OwnRowsOK(r)'
    BY <1>1, <1>2, <1>4, <1>5 DEF IsPlaced, OwnRowsOK
  <1> QED BY <1>4, <1>7, <1>8, <1>9 DEF FindingsIInv

-----------------------------------------------------------------------------
(* Status changes *)

\* A request that only reads or locks leaves the rows as they are.
LEMMA RowsKept ==
    ASSUME FindingsIInv, UNCHANGED <<findings, report, pc, pos, own, held>>, locks \subseteq locks'
    PROVE  CommittedOK' /\ \A r \in Runs : IsPlaced(r)' /\ OwnRowsOK(r)'
  <1>1. CommittedOK'
    BY CommittedKept
  <1>2. \A r \in Runs : IsPlaced(r)' /\ OwnRowsOK(r)'
    BY RunKept
  <1> QED BY <1>1, <1>2

\* Strict type of a status change.
Requests == [step : {"idle", "not found", "conflict", "done"}] \union
            [step : {"select", "update"}, id : Tags, start : Int, status : Statuses]

\* A request has seen a committed row.
LEMMA AskKeeps ==
    ASSUME FindingsIInv, NEW u \in Users, Ask(u)
    PROVE  FindingsIInv'
  <1>1. PICK f \in findings, status \in Statuses :
            request' = [request EXCEPT ![u] = [step |-> "select", id |-> f.id, start |-> f.start, status |-> status]]
    BY DEF Ask
  <1>2. UNCHANGED <<findings, report, pc, pos, own, held, locks>>
    BY DEF Ask
  <1>3. FindingTypes /\ LocksOK
    BY DEF FindingsIInv
  <1>4. f.id \in Tags /\ f.start \in Int
    BY <1>3 DEF FindingTypes, TypeOK, IsFinding
  <1>5. request \in [Users -> Requests]
    BY <1>3 DEF FindingTypes, Requests
  <1>6. request' \in [Users -> Requests]
    BY <1>1, <1>4, <1>5 DEF Requests
  <1>7. FindingTypes'
    BY <1>2, <1>3, <1>6 DEF FindingTypes, TypeOK, IsFinding, Requests
  <1>8. LocksOK'
    BY <1>1, <1>2, <1>3, <1>5 DEF LocksOK
  <1> QED BY <1>2, <1>7, <1>8, RowsKept DEF FindingsIInv

\* A request locks a row no one else has locked.
LEMMA SelectKeeps ==
    ASSUME FindingsIInv, NEW u \in Users, Select(u)
    PROVE  FindingsIInv'
  <1>1. PICK f \in findings :
          /\ f.id = request[u].id
          /\ ~LockedByOther(f, u)
          /\ \/ (\E what \in {"not found", "conflict"} : Answer(u, what)) /\ UNCHANGED locks
             \/ /\ request' = [request EXCEPT ![u].step = "update"]
                /\ locks' = locks \union {<<f.id, u>>}
    BY DEF Select
  <1>2. UNCHANGED <<findings, report, pc, pos, own, held>> /\ request[u].step = "select"
    BY DEF Select
  <1>3. FindingTypes /\ LocksOK
    BY DEF FindingsIInv
  <1>4. request \in [Users -> Requests] /\ f.id \in Tags /\ locks \subseteq Tags \X (Runs \union Users)
    BY <1>3 DEF FindingTypes, TypeOK, IsFinding, Requests
  <1>5. locks \subseteq locks' /\ locks' \subseteq Tags \X (Runs \union Users)
    <2>1. <<f.id, u>> \in Tags \X (Runs \union Users)
      BY <1>4
    <2>2. locks' = locks \/ locks' = locks \union {<<f.id, u>>}
      BY <1>1
    <2> QED BY <1>4, <2>1, <2>2
  <1>6. request' \in [Users -> Requests]
    <2>1. request[u] \in [step : {"select", "update"}, id : Tags, start : Int, status : Statuses]
      BY <1>2, <1>4 DEF Requests
    <2>2. [request[u] EXCEPT !.step = "update"] \in [step : {"select", "update"}, id : Tags, start : Int, status : Statuses]
      BY <2>1
    <2>3. [request[u] EXCEPT !.step = "update"] \in Requests /\ [step |-> "not found"] \in Requests /\ [step |-> "conflict"] \in Requests
      BY <2>2 DEF Requests
    <2> QED BY <1>1, <1>4, <2>3 DEF Answer
  <1>7. FindingTypes'
    BY <1>2, <1>3, <1>5, <1>6 DEF FindingTypes, TypeOK, IsFinding, Requests
  <1>8. LocksOK'
    <2>1. CASE (\E what \in {"not found", "conflict"} : Answer(u, what)) /\ UNCHANGED locks
      <3>1. PICK what \in {"not found", "conflict"} : request' = [request EXCEPT ![u] = [step |-> what]]
        BY <2>1 DEF Answer
      <3>2. \A v \in Users : request'[v].step = "update" => v # u /\ request'[v] = request[v]
        BY <1>4, <3>1
      <3>3. \A v \in Users : request'[v].step = "update" => <<request'[v].id, v>> \in locks'
        BY <1>3, <2>1, <3>2 DEF LocksOK
      <3> QED BY <1>2, <1>3, <2>1, <3>3 DEF LocksOK
    <2>2. CASE request' = [request EXCEPT ![u].step = "update"] /\ locks' = locks \union {<<f.id, u>>}
      <3>1. \A k, l \in locks' : k[1] = l[1] => k = l
        <4>1. \A m \in locks : m = <<m[1], m[2]>>
          BY <1>4
        <4>2. \A m \in locks : m[1] = f.id => m[2] = u
          BY <1>1 DEF LockedByOther
        <4>3. \A k, l \in locks : k[1] = l[1] => k = l
          BY <1>3 DEF LocksOK
        <4> QED BY <2>2, <4>1, <4>2, <4>3
      <3>2. ASSUME NEW v \in Users, request'[v].step = "update" PROVE <<request'[v].id, v>> \in locks'
        <4>1. CASE v = u
          <5>1. request'[u].id = request[u].id
            <6>1. request[u] \in [step : {"select", "update"}, id : Tags, start : Int, status : Statuses]
              BY <1>2, <1>4 DEF Requests
            <6> QED BY <1>4, <2>2, <6>1
          <5> QED BY <1>1, <2>2, <4>1, <5>1
        <4>2. CASE v # u
          BY <1>3, <1>4, <2>2, <3>2, <4>2 DEF LocksOK
        <4> QED BY <4>1, <4>2
      <3> QED BY <1>2, <1>3, <3>1, <3>2 DEF LocksOK
    <2> QED BY <1>1, <2>1, <2>2
  <1> QED BY <1>2, <1>5, <1>7, <1>8, RowsKept DEF FindingsIInv

\* A row as a status change leaves it.
Changed(u, f) ==
    IF f.id = request[u].id THEN [f EXCEPT !.status = request[u].status, !.touched = TRUE] ELSE f

\* ... is touched and otherwise as it was.
LEMMA ChangedFacts ==
    ASSUME FindingsIInv, NEW u \in Users, request[u].step = "update", NEW f \in findings
    PROVE  LET g == Changed(u, f)
           IN  /\ g.id = f.id /\ g.series = f.series /\ g.check = f.check /\ g.subject = f.subject
               /\ g.start = f.start /\ g.end = f.end /\ g.first = f.first /\ g.last = f.last
               /\ g.occurrences = f.occurrences /\ g.tags = f.tags
               /\ IsSoundRow(g)
               /\ f.touched => g.touched
               /\ f.id # request[u].id => g = f
               /\ f.id = request[u].id => g.touched
  <1> DEFINE g == Changed(u, f)
  <1>1. IsSoundRow(f) /\ IsFinding(f)
    BY DEF FindingsIInv, CommittedOK, IsSoundRow
  <1>2. CASE f.id # request[u].id
    <2>1. g = f
      BY <1>2 DEF Changed
    <2> QED BY <1>1, <1>2, <2>1
  <1>3. CASE f.id = request[u].id
    <2>1. g = [f EXCEPT !.status = request[u].status, !.touched = TRUE]
      BY <1>3 DEF Changed
    <2> HIDE DEF g
    <2>2. /\ g.id = f.id /\ g.series = f.series /\ g.check = f.check /\ g.subject = f.subject
          /\ g.start = f.start /\ g.end = f.end /\ g.first = f.first /\ g.last = f.last
          /\ g.occurrences = f.occurrences /\ g.tags = f.tags
          /\ g.status = request[u].status /\ DOMAIN g = DOMAIN f
      BY <1>1, <2>1 DEF IsFinding
    <2>3. g.touched = TRUE
      BY <1>1, <2>1, Zenon DEF IsFinding
    <2>4. g.touched \in BOOLEAN /\ g.touched
      BY <2>3, Zenon
    <2>5. request[u].status \in Statuses
      BY DEF FindingsIInv, FindingTypes
    <2>6. IsFinding(g)
      BY <1>1, <2>2, <2>4, <2>5, Zenon DEF IsFinding
    <2>7. ReportedBy(g) = ReportedBy(f) /\ \A t : Holds(g, t) <=> Holds(f, t)
      BY <2>2 DEF ReportedBy, Holds
    <2>8. IsSoundRow(g)
      BY <1>1, <2>2, <2>4, <2>6, <2>7 DEF IsSoundRow
    <2> QED BY <1>3, <2>2, <2>4, <2>8 DEF g
  <1> QED BY <1>2, <1>3

\* A status change touches one committed row, one that no run has grown.
LEMMA UpdateKeeps ==
    ASSUME FindingsIInv, NEW u \in Users, Update(u)
    PROVE  FindingsIInv'
  <1>1. /\ request[u].step = "update" /\ locks' = {l \in locks : l[2] # u}
        /\ request' = [request EXCEPT ![u] = [step |-> "done"]]
        /\ UNCHANGED <<report, pc, pos, own, held>>
        /\ findings' = {Changed(u, f) : f \in findings}
    BY DEF Update, Answer, Changed
  <1>2. FindingTypes /\ LocksOK /\ CommittedOK
    BY DEF FindingsIInv
  <1>3. request \in [Users -> Requests] /\ locks \subseteq Tags \X (Runs \union Users)
    BY <1>2 DEF FindingTypes, TypeOK, Requests
  <1>4. \A f \in findings : LET g == Changed(u, f) IN
               /\ g.id = f.id /\ g.series = f.series /\ g.check = f.check /\ g.subject = f.subject
               /\ g.start = f.start /\ g.end = f.end /\ g.first = f.first /\ g.last = f.last
               /\ g.occurrences = f.occurrences /\ g.tags = f.tags
               /\ IsSoundRow(g)
               /\ f.touched => g.touched
               /\ f.id # request[u].id => g = f
               /\ f.id = request[u].id => g.touched
    BY <1>1, ChangedFacts
  <1>5. \A f : (IsSoundRow(f)' <=> IsSoundRow(f))
    BY <1>1, SoundRowKept
  <1>6. FindingTypes'
    <2>1. request' \in [Users -> Requests]
      BY <1>1, <1>3 DEF Requests
    <2>2. locks' \subseteq Tags \X (Runs \union Users)
      BY <1>1, <1>3
    <2>3. \A f \in findings' : IsFinding(f)
      BY <1>1, <1>4 DEF IsSoundRow
    <2>4. \A f, g \in findings' : f.id = g.id => f = g
      <3>1. ASSUME NEW f \in findings, NEW g \in findings, Changed(u, f).id = Changed(u, g).id
            PROVE  f = g
        <4>1. f.id = g.id
          BY <1>4, <3>1
        <4> QED BY <1>2, <4>1 DEF FindingTypes, TypeOK
      <3> QED BY <1>1, <3>1
    <2>5. TypeOK'
      BY <1>1, <1>2, <2>2, <2>3, <2>4 DEF FindingTypes, TypeOK, IsFinding
    <2> QED BY <1>1, <1>2, <2>1, <2>5 DEF FindingTypes, Requests
  <1>7. LocksOK'
    <2>1. ASSUME NEW v \in Users, request'[v].step = "update" PROVE <<request'[v].id, v>> \in locks'
      <3>1. v # u /\ request'[v] = request[v]
        BY <1>1, <1>3, <2>1
      <3> QED BY <1>1, <1>2, <2>1, <3>1 DEF LocksOK
    <2> QED BY <1>1, <1>2, <2>1 DEF LocksOK
  <1>8. CommittedOK'
    <2>1. \A r \in Runs : TagsOf(r)' = TagsOf(r)
      BY <1>1 DEF TagsOf
    <2>2. \A f \in findings' : IsSoundRow(f)' /\ \A t \in f.tags : pc'[t[1]] = "succeeded"
      BY <1>1, <1>2, <1>4, <1>5 DEF CommittedOK
    <2>3. \A f, g \in findings' : (\E t \in f.tags : t \in g.tags) => f = g
      <3>1. ASSUME NEW f \in findings, NEW g \in findings, NEW t, t \in Changed(u, f).tags, t \in Changed(u, g).tags
            PROVE  f = g
        BY <1>2, <1>4, <3>1 DEF CommittedOK
      <3> QED BY <1>1, <3>1
    <2>4. ASSUME NEW r \in Runs, pc'[r] = "succeeded", NEW t \in TagsOf(r) PROVE \E f \in findings' : t \in f.tags
      <3>1. PICK f \in findings : t \in f.tags
        BY <1>1, <1>2, <2>4 DEF CommittedOK
      <3> QED BY <1>1, <1>4, <3>1
    <2> QED BY <2>1, <2>2, <2>3, <2>4 DEF CommittedOK
  <1>9. ASSUME NEW r \in Runs PROVE IsPlaced(r)' /\ OwnRowsOK(r)'
    <2>1. IsPlaced(r) /\ OwnRowsOK(r)
      BY DEF FindingsIInv
    <2>2. TagsOf(r)' = TagsOf(r) /\ \A t : Done(r, t)' <=> Done(r, t)
      BY <1>1 DEF TagsOf, Done
    <2>3. IsPlaced(r)'
      BY <1>1, <2>1, <2>2 DEF IsPlaced, SeriesAt
    <2>4. ASSUME NEW f \in own[r] PROVE IsOwnRow(r, f)'
      <3>1. IsOwnRow(r, f)
        BY <2>1 DEF OwnRowsOK
      <3>2. ASSUME Created(r, f) PROVE Created(r, f)'
        <4>1. ASSUME NEW g \in findings, Absorbs(Changed(u, g), f) PROVE FALSE
          <5>1. g.id # request[u].id
            BY <1>4, <4>1 DEF Absorbs
          <5>2. Changed(u, g) = g
            BY <1>4, <5>1
          <5> QED BY <3>2, <4>1, <5>2 DEF Created
        <4> QED BY <1>1, <3>2, <4>1 DEF Created
      <3>3. ASSUME NEW g \in findings, Grown(r, g, f) PROVE \E h \in findings' : Grown(r, h, f)'
        <4>0. r # u
          BY FindingsAssumption
        <4>1. <<g.id, r>> \in locks /\ <<request[u].id, u>> \in locks
          BY <1>1, <1>2, <3>3 DEF Grown, LocksOK
        <4>2. g.id # request[u].id
          BY <1>2, <4>0, <4>1 DEF LocksOK
        <4>3. Changed(u, g) = g
          BY <1>4, <4>2
        <4>4. g \in findings' /\ <<g.id, r>> \in locks'
          BY <1>1, <4>0, <4>1, <4>3
        <4>5. Grown(r, g, f)'
          BY <3>3, <4>4 DEF Grown
        <4> QED BY <4>4, <4>5
      <3> QED BY <1>1, <2>2, <3>1, <3>2, <3>3 DEF IsOwnRow
    <2>5. OwnRowsOK(r)'
      BY <1>1, <1>5, <2>1, <2>2, <2>4 DEF OwnRowsOK
    <2> QED BY <2>3, <2>5
  <1> QED BY <1>6, <1>7, <1>8, <1>9 DEF FindingsIInv

-----------------------------------------------------------------------------
(* Results *)

\* Nothing is stored at the start.
LEMMA InitHolds == Init => FindingsIInv
  <1> SUFFICES ASSUME Init PROVE FindingsIInv
    OBVIOUS
  <1>1. FindingTypes
    BY DEF Init, FindingTypes, TypeOK, NoRequest
  <1>2. LocksOK
    BY DEF Init, LocksOK, NoRequest
  <1>3. CommittedOK
    BY DEF Init, CommittedOK
  <1>4. ASSUME NEW r \in Runs PROVE IsPlaced(r) /\ OwnRowsOK(r)
    BY DEF Init, IsPlaced, OwnRowsOK
  <1> QED BY <1>1, <1>2, <1>3, <1>4 DEF FindingsIInv

\* Every step keeps the invariant.
LEMMA NextHolds == FindingsIInv /\ [Next]_vars => FindingsIInv'
  <1> SUFFICES ASSUME FindingsIInv, [Next]_vars PROVE FindingsIInv'
    OBVIOUS
  <1>1. ASSUME NEW r \in Runs, Persist(r) \/ Abort(r) PROVE FindingsIInv'
    BY <1>1, BeginKeeps, LockKeeps, AbsorbKeeps, NextSeriesKeeps, CommitKeeps, AbortKeeps DEF Persist
  <1>2. ASSUME NEW u \in Users, Ask(u) \/ Change(u) PROVE FindingsIInv'
    BY <1>2, AskKeeps, SelectKeeps, UpdateKeeps DEF Change
  <1>3. CASE UNCHANGED vars
    <2>1. FindingTypes' /\ LocksOK'
      BY <1>3 DEF vars, FindingsIInv, FindingTypes, TypeOK, IsFinding, LocksOK
    <2>2. CommittedOK' /\ \A r \in Runs : IsPlaced(r)' /\ OwnRowsOK(r)'
      BY <1>3, RowsKept DEF vars
    <2> QED BY <2>1, <2>2 DEF FindingsIInv
  <1> QED BY <1>1, <1>2, <1>3 DEF Next

\* The inductive invariant holds, for any runs, series, reports, hashes and users.
THEOREM FindingsInvariant == Spec => []FindingsIInv
  BY InitHolds, NextHolds, PTL DEF Spec

\* The type invariant of completions and status changes (findings.py:90-226, schema of findings).
THEOREM FindingsTypeCorrect == Spec => []TypeOK
  <1>1. FindingsIInv => TypeOK
    BY DEF FindingsIInv, FindingTypes
  <1> QED BY <1>1, FindingsInvariant, PTL

\* However the completions of any number of runs interleave with each other and with status changes,
\* what each succeeded run found is in exactly one stored finding, of the same series, check and
\* subject, whose window contains it; findings of one run stay apart and occurrences count runs
\* (findings.py:169-217).
THEOREM FindingsKeptTheorem == Spec => []FindingsKept
  <1>1. FindingsIInv => FindingsKept
    <2> SUFFICES ASSUME FindingsIInv PROVE FindingsKept
      OBVIOUS
    <2>1. CommittedOK /\ FindingTypes
      BY DEF FindingsIInv
    <2>2. EveryFindingKeptOnce
      <3>1. ASSUME NEW r \in Runs, pc[r] = "succeeded", NEW t \in TagsOf(r)
            PROVE  /\ \E f \in findings : t \in f.tags
                   /\ \A f \in findings : t \in f.tags => Holds(f, t)
                   /\ \A f, g \in findings : t \in f.tags \intersect g.tags => f = g
        BY <2>1, <3>1 DEF CommittedOK, IsSoundRow
      <3> QED BY <2>1, <3>1 DEF CommittedOK, EveryFindingKeptOnce
    <2>3. OccurrencesCountRuns
      BY <2>1 DEF CommittedOK, IsSoundRow, OccurrencesCountRuns, ReportedBy
    <2>4. OwnFindingsStayApart
      BY <2>1 DEF CommittedOK, IsSoundRow, OwnFindingsStayApart
    <2> QED BY <2>2, <2>3, <2>4 DEF FindingsKept
  <1> QED BY <1>1, FindingsInvariant, PTL

\* A commit and a status change are the only steps that write findings.
LEMMA WhoWrites ==
    ASSUME FindingsIInv, [Next]_vars
    PROVE  \/ findings' = findings
           \/ \E r \in Runs : pc[r] = "commit" /\ findings' = View(r)
           \/ \E u \in Users : request[u].step = "update" /\ findings' = {Changed(u, f) : f \in findings}
  <1>1. ASSUME NEW r \in Runs, Persist(r) \/ Abort(r) PROVE findings' = findings \/ (pc[r] = "commit" /\ findings' = View(r))
    BY <1>1 DEF Persist, Abort, Begin, Lock, Absorb, NextSeries, Commit
  <1>2. ASSUME NEW u \in Users, Ask(u) \/ Change(u)
        PROVE  findings' = findings \/ (request[u].step = "update" /\ findings' = {Changed(u, f) : f \in findings})
    BY <1>2 DEF Ask, Change, Select, Update, Changed
  <1>3. CASE UNCHANGED vars
    BY <1>3 DEF vars
  <1> QED BY <1>1, <1>2, <1>3 DEF Next

\* What a step makes of a committed row: the row itself, that row with more of a run folded into it, or
\* with another status, which only absorbing rows have been locked for by runs.
LEMMA WhatBecomes ==
    ASSUME FindingsIInv, [Next]_vars, NEW f \in findings
    PROVE  \E g \in findings' :
              /\ g.id = f.id /\ g.series = f.series /\ g.check = f.check /\ g.subject = f.subject
              /\ g.first = f.first /\ g.start <= f.start /\ g.end >= f.end
              /\ g.occurrences >= f.occurrences
              /\ f.status \notin Absorbing => g.tags = f.tags
  <1>1. f.start \in Int /\ f.end \in Int /\ f.occurrences \in Nat
    BY DEF FindingsIInv, CommittedOK, IsSoundRow, IsFinding
  <1>2. CASE findings' = findings
    BY <1>1, <1>2
  <1>3. ASSUME NEW r \in Runs, pc[r] = "commit", findings' = View(r)
        PROVE  \E g \in findings' :
                  /\ g.id = f.id /\ g.series = f.series /\ g.check = f.check /\ g.subject = f.subject
                  /\ g.first = f.first /\ g.start <= f.start /\ g.end >= f.end
                  /\ g.occurrences >= f.occurrences
                  /\ f.status \notin Absorbing => g.tags = f.tags
    <2>1. PICK g \in View(r) : g = f \/ (g \in own[r] /\ Grown(r, f, g))
      BY ViewFacts
    <2>2. CASE g = f
      BY <1>1, <1>3, <2>2
    <2>3. CASE Grown(r, f, g)
      <3>1. g.occurrences >= f.occurrences /\ g.start <= f.start /\ g.end >= f.end
        <4>1. g.start \in Int /\ g.end \in Int /\ g.occurrences \in Nat
          BY ViewFacts DEF IsSoundRow, IsFinding
        <4>2. g.start <= f.start /\ f.end <= g.end /\ g.occurrences = f.occurrences + 1
          BY <2>3 DEF Grown
        <4> QED BY <1>1, <4>1, <4>2
      <3>2. f.status \in Absorbing
        BY <2>3 DEF Grown
      <3> QED BY <1>3, <2>1, <2>3, <3>1, <3>2 DEF Grown
    <2> QED BY <2>1, <2>2, <2>3
  <1>4. ASSUME NEW u \in Users, request[u].step = "update", findings' = {Changed(u, h) : h \in findings}
        PROVE  \E g \in findings' :
                  /\ g.id = f.id /\ g.series = f.series /\ g.check = f.check /\ g.subject = f.subject
                  /\ g.first = f.first /\ g.start <= f.start /\ g.end >= f.end
                  /\ g.occurrences >= f.occurrences
                  /\ f.status \notin Absorbing => g.tags = f.tags
    <2> DEFINE g == Changed(u, f)
    <2>1. /\ g.id = f.id /\ g.series = f.series /\ g.check = f.check /\ g.subject = f.subject
          /\ g.start = f.start /\ g.end = f.end /\ g.first = f.first
          /\ g.occurrences = f.occurrences /\ g.tags = f.tags
      BY <1>4, ChangedFacts
    <2>2. g \in findings'
      BY <1>4
    <2> HIDE DEF g
    <2> QED BY <1>1, <2>1, <2>2
  <1> QED BY <1>2, <1>3, <1>4, WhoWrites

\* A row that was not there is one a run has created, where nothing absorbs it.
LEMMA WhatIsNew ==
    ASSUME FindingsIInv, [Next]_vars, NEW f \in findings', \A g \in findings : g.id # f.id
    PROVE  \A g \in findings : ~Absorbs(g, f)
  <1>1. CASE findings' = findings
    BY <1>1
  <1>2. ASSUME NEW r \in Runs, pc[r] = "commit", findings' = View(r)
        PROVE  \A g \in findings : ~Absorbs(g, f)
    <2>1. f \in own[r]
      BY <1>2 DEF View
    <2>2. Created(r, f)
      <3>1. IsOwnRow(r, f)
        BY <2>1 DEF FindingsIInv, OwnRowsOK
      <3>2. \A g \in findings : ~Grown(r, g, f)
        BY DEF Grown
      <3> QED BY <3>1, <3>2 DEF IsOwnRow
    <2> QED BY <2>2 DEF Created
  <1>3. ASSUME NEW u \in Users, request[u].step = "update", findings' = {Changed(u, h) : h \in findings}
        PROVE  FALSE
    <2>1. PICK h \in findings : f = Changed(u, h)
      BY <1>3
    <2>2. f.id = h.id
      BY <1>3, <2>1, ChangedFacts
    <2> QED BY <2>2
  <1> QED BY <1>1, <1>2, <1>3, WhoWrites

\* No step loses a finding or shrinks its window, folds anything into one that is muted or resolved, or
\* creates one where an untouched finding of another run absorbs it, even when completions and
\* status changes overlap (findings.py:140-166, 214).
THEOREM FindingsStayTheorem == Spec => FindingsStay
  <1>1. FindingsIInv /\ [Next]_vars =>
           [\A f \in findings' : (\A g \in findings : g.id # f.id) =>
              ~\E g \in findings :
                  /\ ~g.touched /\ g.first # f.first
                  /\ g.series = f.series /\ g.check = f.check /\ g.subject = f.subject
                  /\ Overlap(f, g)]_vars
    BY WhatIsNew DEF Absorbs
  <1>2. FindingsIInv /\ [Next]_vars =>
           [\A f \in findings : f.status \notin Absorbing =>
              \E g \in findings' : g.id = f.id /\ g.tags = f.tags]_vars
    BY WhatBecomes
  <1>3. FindingsIInv /\ [Next]_vars =>
           [\A f \in findings : \E g \in findings' :
              /\ g.id = f.id /\ g.series = f.series /\ g.check = f.check /\ g.subject = f.subject
              /\ g.first = f.first /\ g.start <= f.start /\ g.end >= f.end
              /\ g.occurrences >= f.occurrences]_vars
    BY WhatBecomes
  <1>4. Spec => InsertOnlyWhatNothingAbsorbs
    BY <1>1, FindingsInvariant, PTL DEF Spec, InsertOnlyWhatNothingAbsorbs
  <1>5. Spec => SettledNeverAbsorb
    BY <1>2, FindingsInvariant, PTL DEF Spec, SettledNeverAbsorb
  <1>6. Spec => FindingsOnlyGrow
    BY <1>3, FindingsInvariant, PTL DEF Spec, FindingsOnlyGrow
  <1> QED BY <1>4, <1>5, <1>6 DEF FindingsStay


-----------------------------------------------------------------------------
(* Bins *)

\* The bins that count, in order.
AreCounted(cb, ts) ==
    /\ Len(bins) \in Nat /\ Len(cb) \in Nat /\ Len(ts) = Len(cb) /\ DOMAIN ts = 1..Len(cb)
    /\ \A i \in 1..Len(cb) : /\ cb[i] \in 1..Len(bins) /\ bins[cb[i]] # "absent"
                             /\ ts[i] = cb[i] * GridNs /\ ts[i] \div GridNs = cb[i]
    /\ \A i, j \in 1..Len(cb) : i < j <=> cb[i] < cb[j]
    /\ \A x \in 1..Len(bins) : bins[x] # "absent" => \E i \in 1..Len(cb) : cb[i] = x
LEMMA CountedAre ==
    ASSUME SpansTypeOK
    PROVE  AreCounted(CountedBins, Counted)
<1> DEFINE n == Len(bins)
           set == {i \in DOMAIN bins : bins[i] # "absent"}
           cb == CountedBins
           ts == [k \in DOMAIN cb |-> cb[k] * GridNs]
<1>1. n \in Nat /\ DOMAIN bins = 1..n
  BY DEF SpansTypeOK
<1>2. set \in SUBSET (1..n) /\ \A x \in 1..n : x \in set <=> bins[x] # "absent"
  BY <1>1
<1>3. cb = InOrder(n, set) /\ Counted = ts
  BY DEF CountedBins, Counted
<1> HIDE DEF set, cb, n
<1>4. IsCollected(cb, set, n, n)
  BY <1>1, <1>2, <1>3, InOrderIs
<1>5. /\ cb \in Seq(1..n) /\ Len(cb) \in Nat /\ DOMAIN cb = 1..Len(cb)
      /\ \A i \in 1..Len(cb) : cb[i] \in 1..n /\ cb[i] \in set
      /\ \A i, j \in 1..Len(cb) : i < j => cb[i] < cb[j]
      /\ \A x \in set : x <= n => \E i \in 1..Len(cb) : cb[i] = x
  <2>1. cb \in Seq(1..n)
    BY <1>4 DEF IsCollected
  <2>2. Len(cb) \in Nat /\ DOMAIN cb = 1..Len(cb) /\ \A i \in 1..Len(cb) : cb[i] \in 1..n
    BY <1>1, <2>1
  <2> QED
    BY <1>4, <2>1, <2>2 DEF IsCollected
<1>6. GridNs \in Nat \ {0}
  BY SpansAssumption
<1>7. ASSUME NEW i \in 1..Len(cb)
      PROVE  ts[i] = cb[i] * GridNs /\ ts[i] \div GridNs = cb[i] /\ ts[i] \in Nat
  <2>1. cb[i] \in Nat /\ ts[i] = cb[i] * GridNs
    BY <1>5
  <2> QED
    BY <1>6, <2>1, BinProducts
<1>8. Len(ts) = Len(cb) /\ DOMAIN ts = 1..Len(cb)
  <2>1. ts \in Seq(Nat) /\ DOMAIN ts = 1..Len(cb)
    BY <1>5, <1>7
  <2> QED
    BY <1>5, <2>1
<1>9. \A i, j \in 1..Len(cb) : i < j <=> cb[i] < cb[j]
  <2> SUFFICES ASSUME NEW i \in 1..Len(cb), NEW j \in 1..Len(cb) PROVE i < j <=> cb[i] < cb[j]
    OBVIOUS
  <2>1. cb[i] \in 1..n /\ cb[j] \in 1..n /\ (i < j => cb[i] < cb[j]) /\ (j < i => cb[j] < cb[i])
    BY <1>5
  <2>2. i < j \/ i = j \/ j < i
    BY <1>5
  <2> QED
    BY <2>1, <2>2
<1>10. ASSUME NEW x \in 1..n, bins[x] # "absent" PROVE \E i \in 1..Len(cb) : cb[i] = x
  BY <1>2, <1>5, <1>10
<1>11. \A i \in 1..Len(cb) : bins[cb[i]] # "absent"
  BY <1>2, <1>5
<1> HIDE DEF ts
<1>12. AreCounted(cb, ts)
  BY <1>1, <1>5, <1>7, <1>8, <1>9, <1>10, <1>11 DEF AreCounted, n
<1> QED
  BY <1>3, <1>12 DEF cb

\* The runs of flagged bins, as positions among the bins that count.
FlagsAt(cb) == {i \in 1..Len(cb) : bins[cb[i]] = "flagged"}
AreFlaggedRuns(runs, cb) ==
    /\ runs \in RunLists(Len(cb))
    /\ \A j \in 1..Len(runs) : runs[j][1] \in FlagsAt(cb) /\ runs[j][2] \in FlagsAt(cb) /\ runs[j][1] <= runs[j][2]
    /\ \A i, j \in 1..Len(runs) : i < j => runs[i][2] < runs[j][1]
    /\ \A x \in FlagsAt(cb) : \E j \in 1..Len(runs) : runs[j][1] <= x /\ x <= runs[j][2]
    /\ \A j \in 1..Len(runs), x, y \in FlagsAt(cb) :
          NextTo(FlagsAt(cb), x, y) /\ runs[j][1] <= x /\ y <= runs[j][2] => y = x + 1 /\ cb[y] = cb[x] + 1
    /\ \A j \in 1..Len(runs), y \in FlagsAt(cb) :
          NextTo(FlagsAt(cb), runs[j][2], y) => ~(y = runs[j][2] + 1 /\ cb[y] = cb[runs[j][2]] + 1)
LEMMA FlaggedRunsOfBins ==
    ASSUME NEW cb, NEW ts, AreCounted(cb, ts)
    PROVE  AreFlaggedRuns(FlaggedRuns(ts), cb)
<1> DEFINE n == Len(cb)
           holds == FlagsAt(cb)
           near == {x \in RunsAndNext(n) : Continues(ts, x[1], x[2])}
           runs == FlaggedRuns(ts)
<1>1. /\ Len(bins) \in Nat /\ n \in Nat /\ Len(ts) = n /\ DOMAIN ts = 1..n
      /\ \A i \in 1..n : /\ cb[i] \in 1..Len(bins) /\ bins[cb[i]] # "absent"
                         /\ ts[i] = cb[i] * GridNs /\ ts[i] \div GridNs = cb[i]
  BY DEF AreCounted
<1>2. holds \in SUBSET (1..n) /\ FlaggedAmong(ts) = holds
  BY <1>1 DEF FlagsAt, FlaggedAmong, IsFlagged
<1>3. runs = RunsAmong(n, holds, near)
  BY <1>1, <1>2 DEF FlaggedRuns
<1>4. ASSUME NEW run \in (1..n) \X (1..n), NEW y \in 1..n
      PROVE  <<run, y>> \in near <=> (y = run[2] + 1 /\ cb[y] = cb[run[2]] + 1)
  <2>1. <<run, y>> \in RunsAndNext(n) /\ run[2] \in 1..n
    BY DEF RunsAndNext
  <2>2. <<run, y>> \in near <=> (run[2] = y - 1 /\ ts[y] - ts[y - 1] = GridNs)
    BY <2>1 DEF Continues
  <2>3. CASE run[2] = y - 1
    <3> DEFINE a == cb[y - 1]
               b == cb[y]
    <3>1. y - 1 \in 1..n
      BY <2>1, <2>3
    <3>2. a \in Nat /\ b \in Nat /\ ts[y] = b * GridNs /\ ts[y - 1] = a * GridNs
      <4>1. a \in 1..Len(bins) /\ ts[y - 1] = a * GridNs
        BY <1>1, <3>1
      <4>2. b \in 1..Len(bins) /\ ts[y] = b * GridNs
        BY <1>1
      <4> HIDE DEF a, b
      <4> QED
        BY <1>1, <4>1, <4>2
    <3> HIDE DEF a, b
    <3>3. GridNs \in Nat \ {0}
      BY SpansAssumption
    <3>4. (a + 1) * GridNs = a * GridNs + GridNs /\ a * GridNs \in Nat /\ b * GridNs \in Nat
      BY <3>2, <3>3, BinProducts
    <3>5. b * GridNs - a * GridNs = GridNs <=> b = a + 1
      <4>1. a + 1 \in Nat
        BY <3>2
      <4>2. /\ (b <= a + 1 <=> b * GridNs <= (a + 1) * GridNs)
            /\ (a + 1 <= b <=> (a + 1) * GridNs <= b * GridNs)
        BY <3>2, <3>3, <4>1, BinProducts
      <4> QED
        BY <3>2, <3>3, <3>4, <4>2
    <3>6. ts[y] - ts[y - 1] = GridNs <=> cb[y] = cb[y - 1] + 1
      BY <3>2, <3>5 DEF a, b
    <3> QED
      BY <2>1, <2>2, <2>3, <3>6
  <2>4. CASE run[2] # y - 1
    BY <2>1, <2>2, <2>4
  <2> QED
    BY <2>3, <2>4
<1> HIDE DEF holds, near, n
<1>5. runs \in RunLists(n) /\ AreRunsOf(runs, holds, near, n)
  BY <1>1, <1>2, <1>3, RunsAmongAre
<1>6. \A j \in 1..Len(runs) : runs[j] \in (1..n) \X (1..n) /\ runs[j][1] \in 1..n /\ runs[j][2] \in 1..n
  BY <1>5 DEF RunLists
<1>7. ASSUME NEW j \in 1..Len(runs), NEW x \in holds, NEW y \in holds,
             NextTo(holds, x, y), runs[j][1] <= x, y <= runs[j][2]
      PROVE  y = x + 1 /\ cb[y] = cb[x] + 1
  <2>1. <<<<runs[j][1], x>>, y>> \in near
    BY <1>5, <1>7 DEF AreRunsOf
  <2>2. <<runs[j][1], x>> \in (1..n) \X (1..n) /\ y \in 1..n
    BY <1>2, <1>6
  <2> QED
    BY <1>4, <2>1, <2>2
<1>8. ASSUME NEW j \in 1..Len(runs), NEW y \in holds, NextTo(holds, runs[j][2], y)
      PROVE  ~(y = runs[j][2] + 1 /\ cb[y] = cb[runs[j][2]] + 1)
  <2>1. y \in 1..n /\ y <= n
    BY <1>1, <1>2
  <2>2. <<runs[j], y>> \notin near
    BY <1>5, <1>8, <2>1 DEF AreRunsOf
  <2> QED
    BY <1>4, <1>6, <2>1, <2>2
<1>9. /\ \A j \in 1..Len(runs) : runs[j][1] \in holds /\ runs[j][2] \in holds /\ runs[j][1] <= runs[j][2]
      /\ \A i, j \in 1..Len(runs) : i < j => runs[i][2] < runs[j][1]
      /\ \A x \in holds : \E j \in 1..Len(runs) : runs[j][1] <= x /\ x <= runs[j][2]
  <2>1. \A x \in holds : x <= n
    BY <1>1, <1>2
  <2> QED
    BY <1>5, <2>1 DEF AreRunsOf
<1> HIDE DEF runs
<1>10. AreFlaggedRuns(runs, cb)
  BY <1>5, <1>7, <1>8, <1>9 DEF AreFlaggedRuns, holds, n
<1> QED
  BY <1>10 DEF runs

\* Such a run is a run of flagged bins with no more of them around.
LEMMA FlaggedRunIs ==
    ASSUME NEW cb, NEW ts, AreCounted(cb, ts), NEW runs, AreFlaggedRuns(runs, cb), NEW j \in 1..Len(runs)
    PROVE  /\ cb[runs[j][1]] \in 1..Len(bins) /\ cb[runs[j][2]] \in 1..Len(bins) /\ cb[runs[j][1]] <= cb[runs[j][2]]
           /\ RunBetween(cb[runs[j][1]], cb[runs[j][2]])
<1> DEFINE n == Len(cb)
           holds == FlagsAt(cb)
           p == runs[j][1]
           q == runs[j][2]
<1>1. /\ n \in Nat /\ Len(bins) \in Nat
      /\ \A i \in 1..n : cb[i] \in 1..Len(bins)
      /\ \A x, y \in 1..n : x < y <=> cb[x] < cb[y]
      /\ \A x \in 1..Len(bins) : bins[x] # "absent" => \E i \in 1..n : cb[i] = x
  BY DEF AreCounted
<1>2. holds \in SUBSET (1..n) /\ \A x \in 1..n : x \in holds <=> bins[cb[x]] = "flagged"
  BY DEF FlagsAt
<1>3. /\ p \in holds /\ q \in holds /\ p <= q /\ p \in 1..n /\ q \in 1..n
      /\ \A i \in 1..Len(runs) : runs[i][1] \in holds /\ runs[i][2] \in holds
      /\ \A x, y \in holds : NextTo(holds, x, y) /\ p <= x /\ y <= q => y = x + 1 /\ cb[y] = cb[x] + 1
  <2>1. p \in holds /\ q \in holds
    BY DEF AreFlaggedRuns
  <2> QED
    BY <1>2, <2>1 DEF AreFlaggedRuns
<1> HIDE DEF n, holds, p, q
<1>4. p..q \subseteq holds
  <2>1. \A x, y \in holds : NextTo(holds, x, y) /\ p <= x /\ y <= q => y = x + 1
    BY <1>3
  <2> QED
    BY <1>1, <1>2, <1>3, <2>1, NeighboursHold
<1>5. \A x \in p..(q - 1) : cb[x + 1] = cb[x] + 1
  <2> SUFFICES ASSUME NEW x \in p..(q - 1) PROVE cb[x + 1] = cb[x] + 1
    OBVIOUS
  <2>1. x \in holds /\ x + 1 \in holds /\ p <= x /\ x + 1 <= q
    <3>1. x \in p..q /\ x + 1 \in p..q /\ p <= x /\ x + 1 <= q
      BY <1>1, <1>3
    <3> QED
      BY <1>4, <3>1
  <2>2. NextTo(holds, x, x + 1)
    BY <1>1, <1>2, <2>1 DEF NextTo
  <2> QED
    BY <1>3, <2>1, <2>2
<1> DEFINE a == cb[p]
           b == cb[q]
           m == q - p
           S == {d \in Nat : cb[p + d] = a + d}
<1>6. a \in 1..Len(bins) /\ b \in 1..Len(bins) /\ a <= b /\ m \in Nat
  <2>1. a \in 1..Len(bins) /\ b \in 1..Len(bins) /\ m \in Nat
    BY <1>1, <1>3
  <2>2. p = q \/ p < q
    BY <1>3
  <2>3. p < q => a < b
    BY <1>1, <1>3
  <2> QED
    BY <2>1, <2>2, <2>3
<1>7. \A d \in 0..m : cb[p + d] = a + d
  <2>1. 0 \in S
    BY <1>3, <1>6
  <2>2. \A d \in 0..(m - 1) : d \in S => d + 1 \in S
    <3> SUFFICES ASSUME NEW d \in 0..(m - 1), cb[p + d] = a + d PROVE cb[p + (d + 1)] = a + (d + 1)
      OBVIOUS
    <3>1. p + d \in p..(q - 1) /\ p + (d + 1) = (p + d) + 1
      BY <1>3
    <3>2. cb[(p + d) + 1] = cb[p + d] + 1
      BY <1>5, <3>1
    <3> QED
      <4>1. cb[(p + d) + 1] = (a + d) + 1
        BY <3>2
      <4> HIDE DEF a
      <4> QED
        BY <1>6, <3>1, <4>1
  <2>3. 0..m \subseteq S
    <3> HIDE DEF S, m
    <3> QED
      BY <1>6, <2>1, <2>2, UpToInduction
  <2> QED
    BY <2>3
<1>8. b = a + m
  <2>1. m \in 0..m /\ p + m = q
    BY <1>3, <1>6
  <2> QED
    BY <1>7, <2>1
<1>9. ASSUME NEW i \in a..b PROVE bins[i] = "flagged"
  <2>1. i - a \in 0..m /\ a + (i - a) = i
    BY <1>6, <1>8
  <2>2. cb[p + (i - a)] = i
    BY <1>7, <2>1
  <2>3. p + (i - a) \in p..q
    BY <1>3, <2>1
  <2> QED
    BY <1>2, <1>4, <2>2, <2>3
<1>15. a = cb[p] /\ b = cb[q]
  OBVIOUS
<1> HIDE DEF a, b, m, S
<1>10. ASSUME NEW r \in 1..n, cb[r] = a - 1, r \in holds PROVE FALSE
  <2>1. r < p /\ r = p - 1
    <3>1. r < p
      BY <1>1, <1>3, <1>6, <1>10, <1>15
    <3>2. p - 1 \in 1..n
      BY <1>1, <1>3, <3>1
    <3>3. cb[p - 1] < a /\ cb[p - 1] \in 1..Len(bins)
      BY <1>1, <1>3, <1>15, <3>2
    <3>4. ~(r < p - 1)
      BY <1>1, <1>6, <1>10, <3>2, <3>3
    <3> QED
      BY <1>3, <3>1, <3>4
  <2>2. PICK i \in 1..Len(runs) : runs[i][1] <= r /\ r <= runs[i][2]
    BY <1>10 DEF AreFlaggedRuns, holds
  <2>3. runs[i][2] \in 1..n /\ runs[i][1] \in 1..n /\ runs[i][2] \in holds
    BY <1>2, <1>3
  <2>4. runs[i][2] = r
    <3>1. i # j
      <4> SUFFICES ASSUME i = j PROVE FALSE
        OBVIOUS
      <4>1. p <= r
        BY <2>2 DEF p
      <4> QED
        BY <1>3, <2>1, <4>1
    <3>2. i < j
      <4> SUFFICES ASSUME j < i PROVE FALSE
        BY <3>1
      <4>1. q < runs[i][1]
        BY DEF AreFlaggedRuns, q
      <4> QED
        BY <1>3, <2>1, <2>2, <2>3, <4>1
    <3>3. runs[i][2] < p
      BY <3>2 DEF AreFlaggedRuns, p
    <3> QED
      BY <1>3, <2>1, <2>2, <2>3, <3>3
  <2>5. NextTo(holds, runs[i][2], p)
    BY <1>1, <1>2, <1>3, <2>1, <2>3, <2>4 DEF NextTo
  <2>6. p = runs[i][2] + 1 /\ cb[p] = cb[runs[i][2]] + 1
    BY <1>3, <1>6, <1>10, <1>15, <2>1, <2>4
  <2>7. ~(p = runs[i][2] + 1 /\ cb[p] = cb[runs[i][2]] + 1)
    BY <1>3, <2>5 DEF AreFlaggedRuns, holds
  <2> QED
    BY <2>6, <2>7
<1>11. ASSUME NEW r \in 1..n, cb[r] = b + 1, r \in holds PROVE FALSE
  <2>1. r = q + 1
    <3>1. q < r
      BY <1>1, <1>3, <1>6, <1>11, <1>15
    <3>2. q + 1 \in 1..n
      BY <1>1, <1>3, <3>1
    <3>3. b < cb[q + 1] /\ cb[q + 1] \in 1..Len(bins)
      <4>1. q < q + 1
        BY <1>3
      <4> QED
        BY <1>1, <1>3, <1>15, <3>2, <4>1
    <3>4. ~(q + 1 < r)
      BY <1>1, <1>6, <1>11, <3>2, <3>3
    <3> QED
      BY <1>3, <3>1, <3>4
  <2>2. NextTo(holds, q, r)
    BY <1>1, <1>2, <1>3, <1>11, <2>1 DEF NextTo
  <2>3. ~(r = q + 1 /\ cb[r] = cb[q] + 1)
    BY <1>11, <2>2 DEF AreFlaggedRuns, holds, q
  <2> QED
    BY <1>11, <1>15, <2>1, <2>3
<1>12. a = 1 \/ bins[a - 1] # "flagged"
  <2> SUFFICES ASSUME a # 1, bins[a - 1] = "flagged" PROVE FALSE
    OBVIOUS
  <2>1. a - 1 \in 1..Len(bins) /\ bins[a - 1] # "absent"
    BY <1>6
  <2>2. PICK r \in 1..n : cb[r] = a - 1
    BY <1>1, <2>1
  <2> QED
    BY <1>2, <1>10, <2>2
<1>13. b = Len(bins) \/ bins[b + 1] # "flagged"
  <2> SUFFICES ASSUME b # Len(bins), bins[b + 1] = "flagged" PROVE FALSE
    OBVIOUS
  <2>1. b + 1 \in 1..Len(bins) /\ bins[b + 1] # "absent"
    BY <1>6
  <2>2. PICK r \in 1..n : cb[r] = b + 1
    BY <1>1, <2>1
  <2> QED
    BY <1>2, <1>11, <2>2
<1>14. RunBetween(a, b)
  BY <1>9, <1>12, <1>13 DEF RunBetween
<1> QED
  BY <1>6, <1>14, <1>15 DEF p, q

-----------------------------------------------------------------------------
(* Episodes of bins *)

\* Windows that are those runs of bins, in order.
BinRuns == {r \in (DOMAIN bins) \X (DOMAIN bins) : r[1] <= r[2] /\ RunBetween(r[1], r[2])}
AreWindowsOf(windows, rs, runs) ==
    /\ Len(windows) \in Nat /\ DOMAIN windows = 1..Len(windows)
    /\ \A j \in 1..Len(windows) : rs[j] \in runs /\ windows[j].start = rs[j][1] * GridNs
                                  /\ windows[j].end = (rs[j][2] + 1) * GridNs
    /\ \A i, j \in 1..Len(windows) : i < j => rs[i][2] + 1 < rs[j][1]
    /\ \A r \in runs : \E j \in 1..Len(windows) : rs[j] = r

\* Two runs of flagged bins with one bin in common are the same.
LEMMA RunsMeet ==
    ASSUME Len(bins) \in Nat, NEW a \in 1..Len(bins), NEW b \in 1..Len(bins), NEW c \in 1..Len(bins), NEW d \in 1..Len(bins),
           RunBetween(a, b), RunBetween(c, d), a <= c, c <= b, c <= d
    PROVE  a = c /\ b = d
<1>1. a = c
  <2> SUFFICES ASSUME a < c PROVE FALSE
    OBVIOUS
  <2>1. c - 1 \in a..b /\ c # 1
    OBVIOUS
  <2> QED
    BY <2>1 DEF RunBetween
<1>2. ~(b < d)
  <2> SUFFICES ASSUME b < d PROVE FALSE
    OBVIOUS
  <2>1. b + 1 \in c..d /\ b # Len(bins)
    OBVIOUS
  <2> QED
    BY <2>1 DEF RunBetween
<1>3. ~(d < b)
  <2> SUFFICES ASSUME d < b PROVE FALSE
    OBVIOUS
  <2>1. d + 1 \in a..b /\ d # Len(bins)
    OBVIOUS
  <2> QED
    BY <2>1 DEF RunBetween
<1> QED
  BY <1>1, <1>2, <1>3

\* The windows of the runs of flagged bins are those of all such runs.
LEMMA RunWindowsAre ==
    ASSUME SpansTypeOK
    PROVE  \E rs : AreWindowsOf(RunWindows(Counted), rs, BinRuns)
<1> DEFINE cb == CountedBins
           ts == Counted
           runs == FlaggedRuns(ts)
           w == [k \in DOMAIN runs |-> [start |-> ts[runs[k][1]], end |-> ts[runs[k][2]] + GridNs]]
           rs == [j \in 1..Len(runs) |-> <<cb[runs[j][1]], cb[runs[j][2]]>>]
<1>1. AreCounted(cb, ts)
  BY CountedAre
<1> HIDE DEF cb, ts
<1>2. AreFlaggedRuns(runs, cb)
  BY <1>1, FlaggedRunsOfBins
<1>3. RunWindows(ts) = w
  BY DEF RunWindows
<1> HIDE DEF runs
<1>4. DOMAIN bins = 1..Len(bins) /\ Len(bins) \in Nat
  BY DEF SpansTypeOK
<1>5. ASSUME NEW j \in 1..Len(runs)
      PROVE  /\ cb[runs[j][1]] \in 1..Len(bins) /\ cb[runs[j][2]] \in 1..Len(bins) /\ cb[runs[j][1]] <= cb[runs[j][2]]
             /\ RunBetween(cb[runs[j][1]], cb[runs[j][2]])
  BY <1>1, <1>2, FlaggedRunIs
<1>6. /\ Len(runs) \in Nat /\ DOMAIN runs = 1..Len(runs) /\ Len(cb) \in Nat
      /\ \A j \in 1..Len(runs) : runs[j][1] \in 1..Len(cb) /\ runs[j][2] \in 1..Len(cb)
  <2>1. Len(cb) \in Nat
    BY <1>1 DEF AreCounted
  <2>2. runs \in Seq((1..Len(cb)) \X (1..Len(cb)))
    BY <1>2 DEF AreFlaggedRuns, RunLists
  <2>3. Len(runs) \in Nat /\ DOMAIN runs = 1..Len(runs) /\ \A j \in 1..Len(runs) : runs[j] \in (1..Len(cb)) \X (1..Len(cb))
    BY <2>2
  <2> QED
    BY <2>1, <2>3
<1>7. \A j \in 1..Len(runs) : rs[j][1] = cb[runs[j][1]] /\ rs[j][2] = cb[runs[j][2]] /\ rs[j] \in BinRuns
  BY <1>4, <1>5 DEF BinRuns
<1>8. Len(w) = Len(runs) /\ DOMAIN w = 1..Len(runs)
  <2>1. w \in Seq({w[k] : k \in 1..Len(runs)}) /\ DOMAIN w = 1..Len(runs)
    BY <1>6
  <2> HIDE DEF w
  <2> QED
    BY <1>6, <2>1
<1>9. ASSUME NEW j \in 1..Len(runs)
      PROVE  w[j].start = rs[j][1] * GridNs /\ w[j].end = (rs[j][2] + 1) * GridNs
  <2>1. w[j].start = ts[runs[j][1]] /\ w[j].end = ts[runs[j][2]] + GridNs
    BY <1>6
  <2>2. ts[runs[j][1]] = cb[runs[j][1]] * GridNs /\ ts[runs[j][2]] = cb[runs[j][2]] * GridNs
    BY <1>1, <1>6 DEF AreCounted
  <2> DEFINE b == cb[runs[j][2]]
  <2>3. b \in 1..Len(bins)
    BY <1>5
  <2> HIDE DEF b
  <2>4. b \in Nat /\ GridNs \in Nat \ {0}
    BY <1>4, <2>3, SpansAssumption
  <2>5. (b + 1) * GridNs = b * GridNs + GridNs
    BY <2>4, BinProducts
  <2> QED
    BY <1>7, <2>1, <2>2, <2>5 DEF b
<1>10. ASSUME NEW i \in 1..Len(runs), NEW j \in 1..Len(runs), i < j PROVE rs[i][2] + 1 < rs[j][1]
  <2> DEFINE b == cb[runs[i][2]]
             a == cb[runs[j][1]]
  <2>1. b < a
    BY <1>1, <1>2, <1>6, <1>10 DEF AreCounted, AreFlaggedRuns
  <2>2. a \in 1..Len(bins) /\ b \in 1..Len(bins) /\ rs[i][2] = b /\ rs[j][1] = a
    BY <1>5, <1>7
  <2>3. bins[b] = "flagged"
    BY <1>2 DEF AreFlaggedRuns, FlagsAt
  <2>4. a = 1 \/ bins[a - 1] # "flagged"
    BY <1>5 DEF RunBetween
  <2> HIDE DEF a, b, rs
  <2>5. a # 1 /\ b # a - 1
    BY <1>4, <2>1, <2>2, <2>3, <2>4
  <2> QED
    BY <1>4, <2>1, <2>2, <2>5
<1>11. ASSUME NEW r \in BinRuns PROVE \E j \in 1..Len(runs) : rs[j] = r
  <2>1. /\ r = <<r[1], r[2]>> /\ r[1] \in 1..Len(bins) /\ r[2] \in 1..Len(bins) /\ r[1] <= r[2] /\ RunBetween(r[1], r[2])
    BY <1>4 DEF BinRuns
  <2>2. bins[r[1]] = "flagged"
    BY <1>4, <2>1 DEF RunBetween
  <2>3. PICK x \in 1..Len(cb) : cb[x] = r[1]
    BY <1>1, <2>1, <2>2 DEF AreCounted
  <2>4. x \in FlagsAt(cb)
    BY <2>2, <2>3 DEF FlagsAt
  <2>5. PICK j \in 1..Len(runs) : runs[j][1] <= x /\ x <= runs[j][2]
    BY <1>2, <2>4 DEF AreFlaggedRuns
  <2> DEFINE a == cb[runs[j][1]]
             b == cb[runs[j][2]]
  <2>6. a \in 1..Len(bins) /\ b \in 1..Len(bins) /\ RunBetween(a, b)
    BY <1>5
  <2>7. a <= r[1] /\ r[1] <= b
    <3>1. runs[j][1] = x \/ runs[j][1] < x
      BY <1>6, <2>5
    <3>2. x = runs[j][2] \/ x < runs[j][2]
      BY <1>6, <2>5
    <3>3. runs[j][1] < x => cb[runs[j][1]] < cb[x]
      BY <1>1, <1>6 DEF AreCounted
    <3>4. x < runs[j][2] => cb[x] < cb[runs[j][2]]
      BY <1>1, <1>6 DEF AreCounted
    <3> QED
      BY <1>4, <2>1, <2>3, <2>6, <3>1, <3>2, <3>3, <3>4
  <2> HIDE DEF a, b
  <2>8. a = r[1] /\ b = r[2]
    BY <1>4, <2>1, <2>6, <2>7, RunsMeet
  <2>9. rs[j] = <<a, b>>
    BY DEF a, b
  <2> HIDE DEF rs
  <2> QED
    BY <2>1, <2>8, <2>9
<1> HIDE DEF w, rs
<1>12. AreWindowsOf(w, rs, BinRuns)
  BY <1>6, <1>7, <1>8, <1>9, <1>10, <1>11 DEF AreWindowsOf
<1> QED
  BY <1>3, <1>12 DEF ts

\* Those that last are the windows of the long runs.
LEMMA LastingAre ==
    ASSUME SpansTypeOK, NEW windows, NEW rs, AreWindowsOf(windows, rs, BinRuns)
    PROVE  \E ls : AreWindowsOf(Lasting(windows), ls, LongRuns)
<1> DEFINE n == Len(windows)
           set == {k \in DOMAIN windows : Lasts(windows[k])}
           at == InOrder(n, set)
           long == [k \in DOMAIN at |-> windows[at[k]]]
           ls == [k \in 1..Len(at) |-> rs[at[k]]]
<1>1. n \in Nat /\ DOMAIN windows = 1..n
  BY DEF AreWindowsOf
<1>2. set \in SUBSET (1..n)
  BY <1>1
<1>3. IsCollected(at, set, n, n)
  BY <1>1, <1>2, InOrderIs
<1>4. Lasting(windows) = long
  BY DEF Lasting
<1>5. ASSUME NEW k \in 1..n
      PROVE  /\ rs[k] \in BinRuns /\ windows[k].start = rs[k][1] * GridNs /\ windows[k].end = (rs[k][2] + 1) * GridNs
             /\ rs[k] \in LongRuns <=> Lasts(windows[k])
  <2>1. /\ rs[k] \in BinRuns /\ windows[k].start = rs[k][1] * GridNs /\ windows[k].end = (rs[k][2] + 1) * GridNs
    BY DEF AreWindowsOf
  <2>2. /\ rs[k] \in (DOMAIN bins) \X (DOMAIN bins) /\ rs[k][1] <= rs[k][2] /\ RunBetween(rs[k][1], rs[k][2])
        /\ rs[k][1] \in DOMAIN bins /\ rs[k][2] \in DOMAIN bins
    BY <2>1 DEF BinRuns
  <2>3. rs[k] \in LongRuns <=> (rs[k][2] - rs[k][1] + 1) * GridNs >= shortest
    BY <2>2 DEF LongRuns
  <2> DEFINE a == rs[k][1]
             b == rs[k][2]
  <2>4. a \in Nat /\ b \in Nat /\ b + 1 \in Nat /\ GridNs \in Nat \ {0}
    BY <2>2, SpansAssumption DEF SpansTypeOK
  <2> HIDE DEF a, b
  <2>5. (b + 1) * GridNs - a * GridNs = ((b + 1) - a) * GridNs /\ (b + 1) - a = b - a + 1
    BY <2>4, BinProducts
  <2>6. Lasts(windows[k]) <=> (b - a + 1) * GridNs >= shortest
    BY <2>1, <2>5 DEF Lasts, a, b
  <2> QED
    BY <2>1, <2>3, <2>6 DEF a, b
<1> HIDE DEF n, set, at
<1>6. /\ at \in Seq(1..n) /\ Len(at) \in Nat /\ DOMAIN at = 1..Len(at)
      /\ \A k \in 1..Len(at) : at[k] \in 1..n /\ at[k] \in set
      /\ \A i, j \in 1..Len(at) : i < j => at[i] < at[j]
      /\ \A x \in set : \E k \in 1..Len(at) : at[k] = x
  <2>1. at \in Seq(1..n)
    BY <1>3 DEF IsCollected
  <2>2. Len(at) \in Nat /\ DOMAIN at = 1..Len(at) /\ \A k \in 1..Len(at) : at[k] \in 1..n
    BY <1>1, <2>1
  <2>3. \A x \in set : x <= n
    BY <1>1, <1>2
  <2> QED
    BY <1>3, <2>1, <2>2, <2>3 DEF IsCollected
<1>7. Len(long) = Len(at) /\ DOMAIN long = 1..Len(at)
  <2>1. long \in Seq({windows[k] : k \in 1..n}) /\ DOMAIN long = 1..Len(at)
    BY <1>6
  <2> HIDE DEF long
  <2> QED
    BY <1>6, <2>1
<1>8. ASSUME NEW j \in 1..Len(at)
      PROVE  /\ ls[j] \in LongRuns /\ long[j].start = ls[j][1] * GridNs /\ long[j].end = (ls[j][2] + 1) * GridNs
  <2>1. ls[j] = rs[at[j]] /\ long[j] = windows[at[j]] /\ at[j] \in 1..n /\ at[j] \in set
    BY <1>6
  <2>2. Lasts(windows[at[j]])
    BY <2>1 DEF set
  <2> QED
    BY <1>5, <2>1, <2>2
<1>9. ASSUME NEW i \in 1..Len(at), NEW j \in 1..Len(at), i < j PROVE ls[i][2] + 1 < ls[j][1]
  <2>1. ls[i] = rs[at[i]] /\ ls[j] = rs[at[j]] /\ at[i] \in 1..n /\ at[j] \in 1..n /\ at[i] < at[j]
    BY <1>6, <1>9
  <2> QED
    BY <2>1 DEF AreWindowsOf, n
<1>10. ASSUME NEW r \in LongRuns PROVE \E j \in 1..Len(at) : ls[j] = r
  <2>1. r \in BinRuns
    BY DEF LongRuns, BinRuns
  <2>2. PICK k \in 1..n : rs[k] = r
    BY <2>1 DEF AreWindowsOf, n
  <2>3. k \in set
    BY <1>1, <1>5, <2>2 DEF set
  <2>4. PICK j \in 1..Len(at) : at[j] = k
    BY <1>6, <2>3
  <2> QED
    BY <2>2, <2>4
<1> HIDE DEF long, ls
<1>11. AreWindowsOf(long, ls, LongRuns)
  BY <1>6, <1>7, <1>8, <1>9, <1>10 DEF AreWindowsOf
<1> QED
  BY <1>4, <1>11

\* Where an episode begins and ends.
RunBegins(r)   == \A q \in LongRuns : q[2] < r[1] => (r[1] - q[2] - 1) * GridNs >= shortest
RunFinishes(r) == \A q \in LongRuns : q[1] > r[2] => (q[1] - r[2] - 1) * GridNs >= shortest

\* The limits are numbers.
LEMMA LimitsAre == SpansTypeOK => GridNs \in Nat \ {0} /\ shortest \in Nat
  BY SpansAssumption DEF SpansTypeOK

\* A long run goes from a bin to one not before it.
LEMMA LongRunsAre ==
    SpansTypeOK => \A r \in LongRuns : r[1] \in Nat /\ r[2] \in Nat /\ r[1] <= r[2]
<1> SUFFICES ASSUME SpansTypeOK, NEW r \in LongRuns PROVE r[1] \in Nat /\ r[2] \in Nat /\ r[1] <= r[2]
  OBVIOUS
<1>1. Len(bins) \in Nat /\ DOMAIN bins = 1..Len(bins)
  BY DEF SpansTypeOK
<1>2. r[1] \in DOMAIN bins /\ r[2] \in DOMAIN bins /\ r[1] <= r[2]
  BY DEF LongRuns
<1> QED
  BY <1>1, <1>2

\* The gap between two long runs.
LEMMA GapOfRuns ==
    ASSUME SpansTypeOK, NEW windows, NEW ls, AreWindowsOf(windows, ls, LongRuns),
           NEW i \in 1..Len(windows), NEW j \in 1..Len(windows), i < j
    PROVE  /\ ls[i][1] \in Nat /\ ls[i][2] \in Nat /\ ls[j][1] \in Nat /\ ls[j][2] \in Nat
           /\ ls[i][1] <= ls[i][2] /\ ls[j][1] <= ls[j][2] /\ ls[i][2] + 1 < ls[j][1]
           /\ windows[j].start - windows[i].end = (ls[j][1] - ls[i][2] - 1) * GridNs
           /\ windows[i].end < windows[j].start
<1>1. /\ ls[i] \in LongRuns /\ ls[j] \in LongRuns /\ ls[i][2] + 1 < ls[j][1]
      /\ windows[i].end = (ls[i][2] + 1) * GridNs /\ windows[j].start = ls[j][1] * GridNs
  BY DEF AreWindowsOf
<1>2. \A r \in LongRuns : r[1] \in Nat /\ r[2] \in Nat /\ r[1] <= r[2]
  BY LongRunsAre
<1> DEFINE b == ls[i][2]
           a == ls[j][1]
<1>3. a \in Nat /\ b + 1 \in Nat /\ b \in Nat /\ b + 1 < a /\ GridNs \in Nat \ {0}
  BY <1>1, <1>2, SpansAssumption
<1> HIDE DEF a, b
<1>4. a * GridNs - (b + 1) * GridNs = (a - (b + 1)) * GridNs /\ a - (b + 1) = a - b - 1
  BY <1>3, BinProducts
<1>5. ~(a * GridNs <= (b + 1) * GridNs)
  BY <1>3, BinProducts
<1>6. a * GridNs \in Nat /\ (b + 1) * GridNs \in Nat
  BY <1>3, BinProducts
<1>7. (b + 1) * GridNs < a * GridNs
  BY <1>5, <1>6
<1> QED
  BY <1>1, <1>2, <1>4, <1>7 DEF a, b

\* A gap is short or long.
LEMMA LongGap ==
    ASSUME SpansTypeOK, NEW a \in Nat, NEW b \in Nat, a + 1 < b
    PROVE  ~((b - a - 1) * GridNs < shortest) <=> (b - a - 1) * GridNs >= shortest
<1> DEFINE g == b - a - 1
<1>1. g \in Nat
  OBVIOUS
<1> HIDE DEF g
<1>2. g * GridNs \in Nat /\ shortest \in Nat
  BY <1>1, LimitsAre, BinProducts
<1>3. ~(g * GridNs < shortest) <=> g * GridNs >= shortest
  BY <1>2
<1> QED
  BY <1>3 DEF g

\* A gap between runs further apart is no shorter.
LEMMA WiderGaps ==
    ASSUME SpansTypeOK, NEW a \in Nat, NEW b \in Nat, NEW c \in Nat, NEW d \in Nat, a <= b, b < c, c <= d,
           (c - b - 1) * GridNs >= shortest
    PROVE  (d - a - 1) * GridNs >= shortest
<1> DEFINE x == c - b - 1
           y == d - a - 1
<1>1. x \in Nat /\ y \in Nat /\ x <= y /\ GridNs \in Nat \ {0} /\ shortest \in Nat
  BY SpansAssumption DEF SpansTypeOK
<1>2. x * GridNs >= shortest
  OBVIOUS
<1> HIDE DEF x, y
<1>3. x * GridNs <= y * GridNs /\ x * GridNs \in Nat /\ y * GridNs \in Nat
  BY <1>1, BinProducts
<1>4. y * GridNs >= shortest
  BY <1>1, <1>2, <1>3
<1> QED
  BY <1>4 DEF y

\* What merging makes: the positions of each episode's first and last window.
AreMerged(runs, windows) ==
    /\ runs \in RunLists(Len(windows)) /\ Len(runs) \in Nat
    /\ \A k \in 1..Len(runs) : /\ runs[k][1] \in 1..Len(windows) /\ runs[k][2] \in 1..Len(windows)
                               /\ runs[k][1] <= runs[k][2]
    /\ \A i, k \in 1..Len(runs) : i < k => runs[i][2] < runs[k][1]
    /\ \A x \in 1..Len(windows) : \E k \in 1..Len(runs) : runs[k][1] <= x /\ x <= runs[k][2]
    /\ \A k \in 1..Len(runs), x \in 1..Len(windows) :
          runs[k][1] <= x /\ x < runs[k][2] => windows[x + 1].start - windows[x].end < shortest
    /\ \A k \in 1..Len(runs) :
          runs[k][2] < Len(windows) => ~(windows[runs[k][2] + 1].start - windows[runs[k][2]].end < shortest)
LEMMA MergingIs ==
    ASSUME NEW windows, Len(windows) \in Nat
    PROVE  \E runs : /\ AreMerged(runs, windows)
                     /\ Merging(windows) = [k \in 1..Len(runs) |-> [start |-> windows[runs[k][1]].start,
                                                                    end |-> windows[runs[k][2]].end]]
<1> DEFINE n == Len(windows)
           near == {x \in RunsAndNext(n) : Joins(windows, x[1], x[2])}
           seams == {x \in 1..n : windows[x + 1].start - windows[x].end < shortest}
           runs == RunsAmong(n, 1..n, near)
<1>1. \A p, x, y \in 1..n : y = x + 1 => (<<<<p, x>>, y>> \in near <=> x \in seams)
  BY DEF RunsAndNext, Joins
<1> HIDE DEF near
<1>2. Merging(windows) = [k \in DOMAIN runs |-> [start |-> windows[runs[k][1]].start, end |-> windows[runs[k][2]].end]]
  BY DEF Merging, near
<1>3. AreStretches(runs, seams, n)
  <2> HIDE DEF seams, n
  <2> QED
    BY <1>1, StretchesAre DEF n
<1> HIDE DEF runs
<1>4. AreMerged(runs, windows) /\ DOMAIN runs = 1..Len(runs)
  BY <1>3 DEF AreStretches, AreMerged
<1> QED
  BY <1>2, <1>4

\* An episode begins with a long run that none ends shortly before, and with each.
LEMMA EpisodesBegin ==
    ASSUME SpansTypeOK, NEW windows, NEW ls, AreWindowsOf(windows, ls, LongRuns), NEW runs, AreMerged(runs, windows)
    PROVE  /\ \A k \in 1..Len(runs) : ls[runs[k][1]] \in LongRuns /\ RunBegins(ls[runs[k][1]])
           /\ \A r \in LongRuns : RunBegins(r) => \E k \in 1..Len(runs) : ls[runs[k][1]] = r
<1>0. /\ Len(windows) \in Nat /\ Len(runs) \in Nat
      /\ \A k \in 1..Len(runs) : runs[k][1] \in 1..Len(windows) /\ runs[k][2] \in 1..Len(windows) /\ runs[k][1] <= runs[k][2]
  BY DEF AreWindowsOf, AreMerged
<1>1. /\ \A m \in 1..Len(windows) : ls[m] \in LongRuns
      /\ \A r \in LongRuns : \E m \in 1..Len(windows) : ls[m] = r
      /\ \A r \in LongRuns : r[1] \in Nat /\ r[2] \in Nat /\ r[1] <= r[2]
  BY LongRunsAre DEF AreWindowsOf
<1>2. ASSUME NEW k \in 1..Len(runs), NEW q \in LongRuns, q[2] < ls[runs[k][1]][1]
      PROVE  (ls[runs[k][1]][1] - q[2] - 1) * GridNs >= shortest
  <2> DEFINE p == runs[k][1]
             s == p - 1
  <2>1. PICK m \in 1..Len(windows) : ls[m] = q
    BY <1>1
  <2>2. m < p
    <3> SUFFICES ASSUME p <= m PROVE FALSE
      BY <1>0
    <3>1. ls[p][1] \in Nat /\ ls[m][2] \in Nat /\ ls[m][1] \in Nat /\ ls[m][1] <= ls[m][2] /\ ls[p][1] <= ls[p][2] /\ ls[p][2] \in Nat
      BY <1>0, <1>1
    <3>2. p = m \/ ls[p][2] + 1 < ls[m][1]
      BY <1>0 DEF AreWindowsOf
    <3> QED
      BY <1>2, <2>1, <3>1, <3>2
  <2>3. s \in 1..Len(windows) /\ s < p /\ (m = s \/ m < s) /\ p \in 1..Len(windows)
    BY <1>0, <2>2
  <2>4. PICK i \in 1..Len(runs) : runs[i][1] <= s /\ s <= runs[i][2]
    BY <2>3 DEF AreMerged
  <2>5. runs[i][2] = s
    <3>1. i # k
      <4> SUFFICES ASSUME i = k PROVE FALSE
        OBVIOUS
      <4> QED
        BY <1>0, <2>3, <2>4
    <3>2. ~(k < i)
      <4> SUFFICES ASSUME k < i PROVE FALSE
        OBVIOUS
      <4>1. runs[k][2] < runs[i][1]
        BY DEF AreMerged
      <4> QED
        BY <1>0, <2>3, <2>4, <4>1
    <3>3. runs[i][2] < p
      BY <3>1, <3>2 DEF AreMerged
    <3> QED
      BY <1>0, <2>3, <2>4, <3>3
  <2>6. runs[i][2] < Len(windows) /\ runs[i][2] + 1 = p
    <3>1. p \in 1..Len(windows) /\ p \in Int /\ s = p - 1 /\ s < Len(windows)
      BY <1>0, <2>3
    <3> HIDE DEF p, s
    <3> QED
      BY <2>5, <3>1
  <2>7. ~(windows[p].start - windows[s].end < shortest)
    BY <2>5, <2>6 DEF AreMerged
  <2> HIDE DEF p, s
  <2>8. /\ ls[s][2] \in Nat /\ ls[p][1] \in Nat /\ ls[s][2] + 1 < ls[p][1]
        /\ windows[p].start - windows[s].end = (ls[p][1] - ls[s][2] - 1) * GridNs
    BY <2>3, GapOfRuns
  <2>9. (ls[p][1] - ls[s][2] - 1) * GridNs >= shortest
    BY <2>7, <2>8, LongGap
  <2>10. ls[m][2] \in Nat /\ ls[m][2] <= ls[s][2] /\ ls[s][2] < ls[p][1]
    <3>1. ls[m][2] \in Nat /\ ls[s][1] \in Nat /\ ls[s][1] <= ls[s][2] /\ ls[s][2] \in Nat
      BY <1>1, <2>3
    <3>2. m < s => ls[m][2] + 1 < ls[s][1]
      BY <2>3 DEF AreWindowsOf
    <3>3. m < s => ls[m][2] <= ls[s][2]
      <4> SUFFICES ASSUME m < s PROVE ls[m][2] <= ls[s][2]
        OBVIOUS
      <4>1. ls[m][2] + 1 < ls[s][1]
        BY <3>2
      <4> QED
        BY <3>1, <4>1
    <3>4. ls[s][2] < ls[p][1]
      BY <2>8
    <3> QED
      BY <2>3, <2>8, <3>1, <3>3, <3>4
  <2>11. (ls[p][1] - ls[m][2] - 1) * GridNs >= shortest
    <3>1. ls[p][1] <= ls[p][1]
      BY <2>8
    <3> QED
      BY <2>8, <2>9, <2>10, <3>1, WiderGaps
  <2> QED
    BY <2>1, <2>11 DEF p
<1>3. ASSUME NEW r \in LongRuns, RunBegins(r) PROVE \E k \in 1..Len(runs) : ls[runs[k][1]] = r
  <2>1. PICK m \in 1..Len(windows) : ls[m] = r
    BY <1>1
  <2>2. PICK k \in 1..Len(runs) : runs[k][1] <= m /\ m <= runs[k][2]
    BY DEF AreMerged
  <2> DEFINE s == m - 1
  <2>3. runs[k][1] = m
    <3> SUFFICES ASSUME runs[k][1] # m PROVE FALSE
      OBVIOUS
    <3>1. s \in 1..Len(windows) /\ runs[k][1] <= s /\ s < runs[k][2] /\ s < m /\ s + 1 = m
      BY <1>0, <2>2
    <3>2. windows[m].start - windows[s].end < shortest
      BY <3>1 DEF AreMerged
    <3> HIDE DEF s
    <3>3. /\ ls[s][2] \in Nat /\ ls[m][1] \in Nat /\ ls[s][2] + 1 < ls[m][1]
          /\ windows[m].start - windows[s].end = (ls[m][1] - ls[s][2] - 1) * GridNs
      BY <3>1, GapOfRuns
    <3>4. ls[s] \in LongRuns /\ ls[s][2] < r[1]
      BY <1>1, <2>1, <3>1, <3>3
    <3>5. (ls[m][1] - ls[s][2] - 1) * GridNs >= shortest
      BY <1>3, <2>1, <3>4 DEF RunBegins
    <3>6. (ls[m][1] - ls[s][2] - 1) * GridNs < shortest
      BY <3>2, <3>3
    <3> QED
      BY <3>3, <3>5, <3>6, LongGap
  <2> QED
    BY <2>1, <2>3
<1> QED
  BY <1>0, <1>1, <1>2, <1>3 DEF RunBegins

\* It ends with a long run that none begins shortly after, and with each.
LEMMA EpisodesFinish ==
    ASSUME SpansTypeOK, NEW windows, NEW ls, AreWindowsOf(windows, ls, LongRuns), NEW runs, AreMerged(runs, windows)
    PROVE  /\ \A k \in 1..Len(runs) : ls[runs[k][2]] \in LongRuns /\ RunFinishes(ls[runs[k][2]])
           /\ \A r \in LongRuns : RunFinishes(r) => \E k \in 1..Len(runs) : ls[runs[k][2]] = r
<1>0. /\ Len(windows) \in Nat /\ Len(runs) \in Nat
      /\ \A k \in 1..Len(runs) : runs[k][1] \in 1..Len(windows) /\ runs[k][2] \in 1..Len(windows) /\ runs[k][1] <= runs[k][2]
  BY DEF AreWindowsOf, AreMerged
<1>1. /\ \A m \in 1..Len(windows) : ls[m] \in LongRuns
      /\ \A r \in LongRuns : \E m \in 1..Len(windows) : ls[m] = r
      /\ \A r \in LongRuns : r[1] \in Nat /\ r[2] \in Nat /\ r[1] <= r[2]
  BY LongRunsAre DEF AreWindowsOf
<1>2. ASSUME NEW k \in 1..Len(runs), NEW q \in LongRuns, q[1] > ls[runs[k][2]][2]
      PROVE  (q[1] - ls[runs[k][2]][2] - 1) * GridNs >= shortest
  <2> DEFINE p == runs[k][2]
             s == p + 1
  <2>1. PICK m \in 1..Len(windows) : ls[m] = q
    BY <1>1
  <2>2. p < m
    <3> SUFFICES ASSUME m <= p PROVE FALSE
      BY <1>0
    <3>1. ls[p][1] \in Nat /\ ls[m][2] \in Nat /\ ls[m][1] \in Nat /\ ls[m][1] <= ls[m][2] /\ ls[p][1] <= ls[p][2] /\ ls[p][2] \in Nat
      BY <1>0, <1>1
    <3>2. p = m \/ ls[m][2] + 1 < ls[p][1]
      BY <1>0 DEF AreWindowsOf
    <3> QED
      BY <1>2, <2>1, <3>1, <3>2
  <2>3. s \in 1..Len(windows) /\ p < s /\ (m = s \/ s < m) /\ p \in 1..Len(windows) /\ p < Len(windows)
    <3>1. p \in 1..Len(windows)
      BY <1>0
    <3> HIDE DEF p
    <3> QED
      BY <1>0, <2>2, <3>1
  <2>7. ~(windows[s].start - windows[p].end < shortest)
    BY <2>3 DEF AreMerged
  <2> HIDE DEF p, s
  <2>8. /\ ls[p][2] \in Nat /\ ls[s][1] \in Nat /\ ls[p][2] + 1 < ls[s][1]
        /\ windows[s].start - windows[p].end = (ls[s][1] - ls[p][2] - 1) * GridNs
    BY <2>3, GapOfRuns
  <2>9. (ls[s][1] - ls[p][2] - 1) * GridNs >= shortest
    BY <2>7, <2>8, LongGap
  <2>10. ls[m][1] \in Nat /\ ls[s][1] <= ls[m][1] /\ ls[p][2] < ls[s][1]
    <3>1. ls[m][1] \in Nat /\ ls[s][2] \in Nat /\ ls[s][1] <= ls[s][2] /\ ls[s][1] \in Nat
      BY <1>1, <2>3
    <3>2. s < m => ls[s][2] + 1 < ls[m][1]
      BY <2>3 DEF AreWindowsOf
    <3>3. s < m => ls[s][1] <= ls[m][1]
      <4> SUFFICES ASSUME s < m PROVE ls[s][1] <= ls[m][1]
        OBVIOUS
      <4>1. ls[s][2] + 1 < ls[m][1]
        BY <3>2
      <4> QED
        BY <3>1, <4>1
    <3>4. ls[p][2] < ls[s][1]
      BY <2>8
    <3> QED
      BY <2>3, <2>8, <3>1, <3>3, <3>4
  <2>11. (ls[m][1] - ls[p][2] - 1) * GridNs >= shortest
    <3>1. ls[p][2] <= ls[p][2]
      BY <2>8
    <3> QED
      BY <2>8, <2>9, <2>10, <3>1, WiderGaps
  <2> QED
    BY <2>1, <2>11 DEF p
<1>3. ASSUME NEW r \in LongRuns, RunFinishes(r) PROVE \E k \in 1..Len(runs) : ls[runs[k][2]] = r
  <2>1. PICK m \in 1..Len(windows) : ls[m] = r
    BY <1>1
  <2>2. PICK k \in 1..Len(runs) : runs[k][1] <= m /\ m <= runs[k][2]
    BY DEF AreMerged
  <2> DEFINE s == m + 1
  <2>3. runs[k][2] = m
    <3> SUFFICES ASSUME runs[k][2] # m PROVE FALSE
      OBVIOUS
    <3>1. s \in 1..Len(windows) /\ runs[k][1] <= m /\ m < runs[k][2] /\ m < s
      BY <1>0, <2>2
    <3>2. windows[s].start - windows[m].end < shortest
      BY <3>1 DEF AreMerged
    <3> HIDE DEF s
    <3>3. /\ ls[m][2] \in Nat /\ ls[s][1] \in Nat /\ ls[m][2] + 1 < ls[s][1]
          /\ windows[s].start - windows[m].end = (ls[s][1] - ls[m][2] - 1) * GridNs
      BY <3>1, GapOfRuns
    <3>4. ls[s] \in LongRuns /\ ls[s][1] > r[2]
      BY <1>1, <2>1, <3>1, <3>3
    <3>5. (ls[s][1] - ls[m][2] - 1) * GridNs >= shortest
      BY <1>3, <2>1, <3>4 DEF RunFinishes
    <3>6. (ls[s][1] - ls[m][2] - 1) * GridNs < shortest
      BY <3>2, <3>3
    <3> QED
      BY <3>3, <3>5, <3>6, LongGap
  <2> QED
    BY <2>1, <2>3
<1> QED
  BY <1>0, <1>1, <1>2, <1>3 DEF RunFinishes

\* Runs too short are dropped before the others merge.
LEMMA EpisodesHold ==
    ASSUME SpansTypeOK
    PROVE  EpisodesAreRuns
<1> DEFINE windows == Lasting(RunWindows(Counted))
           episodes == EpisodesOf(Counted)
<1>1. PICK rs : AreWindowsOf(RunWindows(Counted), rs, BinRuns)
  BY RunWindowsAre
<1>2. PICK ls : AreWindowsOf(windows, ls, LongRuns)
  BY <1>1, LastingAre
<1>3. episodes = Merging(windows)
  BY DEF EpisodesOf
<1> HIDE DEF windows, episodes
<1>4. Len(windows) \in Nat
  BY <1>2 DEF AreWindowsOf
<1>5. PICK runs : /\ AreMerged(runs, windows)
                  /\ episodes = [k \in 1..Len(runs) |-> [start |-> windows[runs[k][1]].start, end |-> windows[runs[k][2]].end]]
  <2>1. \E runs : /\ AreMerged(runs, windows)
                  /\ Merging(windows) = [k \in 1..Len(runs) |-> [start |-> windows[runs[k][1]].start,
                                                                 end |-> windows[runs[k][2]].end]]
    BY <1>4, MergingIs, Zenon
  <2> QED
    BY <1>3, <2>1, Zenon
<1>6. /\ Len(runs) \in Nat
      /\ \A k \in 1..Len(runs) : runs[k][1] \in 1..Len(windows) /\ runs[k][2] \in 1..Len(windows)
      /\ \A i, k \in 1..Len(runs) : i < k => runs[i][2] < runs[k][1]
  BY <1>5 DEF AreMerged
<1>7. /\ \A k \in 1..Len(runs) : ls[runs[k][1]] \in LongRuns /\ RunBegins(ls[runs[k][1]])
      /\ \A r \in LongRuns : RunBegins(r) => \E k \in 1..Len(runs) : ls[runs[k][1]] = r
  BY <1>2, <1>5, EpisodesBegin
<1>8. /\ \A k \in 1..Len(runs) : ls[runs[k][2]] \in LongRuns /\ RunFinishes(ls[runs[k][2]])
      /\ \A r \in LongRuns : RunFinishes(r) => \E k \in 1..Len(runs) : ls[runs[k][2]] = r
  BY <1>2, <1>5, EpisodesFinish
<1>9. \A m \in 1..Len(windows) : windows[m].start = ls[m][1] * GridNs /\ windows[m].end = (ls[m][2] + 1) * GridNs
  BY <1>2 DEF AreWindowsOf
<1>10. /\ DOMAIN episodes = 1..Len(runs) /\ Len(episodes) = Len(runs)
       /\ \A k \in 1..Len(runs) : /\ episodes[k].start = ls[runs[k][1]][1] * GridNs
                                  /\ episodes[k].end = (ls[runs[k][2]][2] + 1) * GridNs
                                  /\ episodes[k].start = windows[runs[k][1]].start
                                  /\ episodes[k].end = windows[runs[k][2]].end
  <2>1. episodes \in Seq({episodes[k] : k \in 1..Len(runs)}) /\ DOMAIN episodes = 1..Len(runs)
    <3> DEFINE e == [k \in 1..Len(runs) |-> [start |-> windows[runs[k][1]].start, end |-> windows[runs[k][2]].end]]
    <3>1. episodes = e /\ DOMAIN e = 1..Len(runs)
      BY <1>5
    <3> HIDE DEF e
    <3>2. \A k \in 1..Len(runs) : e[k] \in {e[j] : j \in 1..Len(runs)}
      OBVIOUS
    <3>3. e = [k \in 1..Len(runs) |-> e[k]]
      BY <3>1 DEF e
    <3>4. e \in Seq({e[k] : k \in 1..Len(runs)})
      BY <1>6, <3>2, <3>3
    <3> QED
      BY <3>1, <3>4
  <2>2. Len(episodes) = Len(runs)
    BY <1>6, <2>1
  <2> QED
    BY <1>5, <1>6, <1>9, <2>1, <2>2
<1>11. {e.start : e \in Range(episodes)} = {r[1] * GridNs : r \in {q \in LongRuns : RunBegins(q)}}
  <2>1. ASSUME NEW k \in 1..Len(runs) PROVE episodes[k].start \in {r[1] * GridNs : r \in {q \in LongRuns : RunBegins(q)}}
    BY <1>7, <1>10
  <2>2. ASSUME NEW r \in LongRuns, RunBegins(r) PROVE \E k \in 1..Len(runs) : episodes[k].start = r[1] * GridNs
    BY <1>7, <1>10, <2>2
  <2>3. Range(episodes) = {episodes[k] : k \in 1..Len(runs)}
    BY <1>10 DEF Range
  <2> QED
    BY <2>1, <2>2, <2>3
<1>12. {e.end : e \in Range(episodes)} = {(r[2] + 1) * GridNs : r \in {q \in LongRuns : RunFinishes(q)}}
  <2>1. ASSUME NEW k \in 1..Len(runs) PROVE episodes[k].end \in {(r[2] + 1) * GridNs : r \in {q \in LongRuns : RunFinishes(q)}}
    BY <1>8, <1>10
  <2>2. ASSUME NEW r \in LongRuns, RunFinishes(r) PROVE \E k \in 1..Len(runs) : episodes[k].end = (r[2] + 1) * GridNs
    BY <1>8, <1>10, <2>2
  <2>3. Range(episodes) = {episodes[k] : k \in 1..Len(runs)}
    BY <1>10 DEF Range
  <2> QED
    BY <2>1, <2>2, <2>3
<1>13. ASSUME NEW i \in 1..(Len(episodes) - 1) PROVE episodes[i].end < episodes[i + 1].start
  <2>1. i \in 1..Len(runs) /\ i + 1 \in 1..Len(runs) /\ i < i + 1
    BY <1>6, <1>10
  <2>2. runs[i][2] < runs[i + 1][1] /\ runs[i][2] \in 1..Len(windows) /\ runs[i + 1][1] \in 1..Len(windows)
    BY <1>6, <2>1
  <2>3. windows[runs[i][2]].end < windows[runs[i + 1][1]].start
    BY <1>2, <2>2, GapOfRuns
  <2> QED
    BY <1>10, <2>1, <2>3
<1> QED
  BY <1>11, <1>12, <1>13 DEF EpisodesAreRuns, RunBegins, RunFinishes, episodes

-----------------------------------------------------------------------------
(* Clusters of spikes *)

\* Runs of hits with no hit around.
AreHitRuns(runs, hits, n) ==
    /\ Len(runs) \in Nat /\ DOMAIN runs = 1..Len(runs)
    /\ \A j \in 1..Len(runs) : /\ runs[j][1] \in 1..n /\ runs[j][2] \in 1..n /\ runs[j][1] <= runs[j][2]
                               /\ runs[j][1]..runs[j][2] \subseteq hits
                               /\ runs[j][1] - 1 \notin hits /\ runs[j][2] + 1 \notin hits
    /\ \A x \in hits : \E j \in 1..Len(runs) : runs[j][1] <= x /\ x <= runs[j][2]
LEMMA HitRunsAre ==
    ASSUME NEW ts, Len(ts) \in Nat, DOMAIN ts = 1..Len(ts)
    PROVE  AreHitRuns(HitRuns(ts), FlaggedAmong(ts), Len(ts))
<1> DEFINE n == Len(ts)
           hits == FlaggedAmong(ts)
           near == {x \in RunsAndNext(n) : FollowsHit(x[1], x[2])}
           runs == HitRuns(ts)
<1>1. hits \in SUBSET (1..n)
  BY DEF FlaggedAmong
<1>2. ASSUME NEW p \in 1..n, NEW x \in 1..n, NEW y \in 1..n
      PROVE  <<<<p, x>>, y>> \in near <=> y = x + 1
  BY DEF RunsAndNext, FollowsHit
<1>3. runs = RunsAmong(n, hits, near)
  BY DEF HitRuns
<1> HIDE DEF hits, near
<1>4. runs \in RunLists(n) /\ AreRunsOf(runs, hits, near, n)
  BY <1>1, <1>3, RunsAmongAre
<1> HIDE DEF runs
<1>5. Len(runs) \in Nat /\ DOMAIN runs = 1..Len(runs) /\ \A j \in 1..Len(runs) : runs[j] = <<runs[j][1], runs[j][2]>>
  <2>1. runs \in Seq((1..n) \X (1..n))
    BY <1>4 DEF RunLists
  <2>2. Len(runs) \in Nat /\ DOMAIN runs = 1..Len(runs) /\ \A j \in 1..Len(runs) : runs[j] \in (1..n) \X (1..n)
    BY <2>1
  <2> QED
    BY <2>2
<1>6. /\ \A j \in 1..Len(runs) : runs[j][1] \in hits /\ runs[j][2] \in hits /\ runs[j][1] <= runs[j][2]
      /\ \A i, j \in 1..Len(runs) : i < j => runs[i][2] < runs[j][1]
      /\ \A x \in hits : \E j \in 1..Len(runs) : runs[j][1] <= x /\ x <= runs[j][2]
  <2>1. \A x \in hits : x <= n
    BY <1>1
  <2> QED
    BY <1>4, <2>1 DEF AreRunsOf
<1>7. \A x \in hits : x \in 1..n
  BY <1>1
<1>8. ASSUME NEW j \in 1..Len(runs) PROVE runs[j][1]..runs[j][2] \subseteq hits
  <2>1. ASSUME NEW x \in hits, NEW y \in hits, NextTo(hits, x, y), runs[j][1] <= x, y <= runs[j][2]
        PROVE  y = x + 1
    <3>1. <<<<runs[j][1], x>>, y>> \in near
      BY <1>4, <2>1 DEF AreRunsOf
    <3>2. runs[j][1] \in 1..n /\ x \in 1..n /\ y \in 1..n
      BY <1>6, <1>7
    <3> QED
      BY <1>2, <3>1, <3>2
  <2> QED
    BY <1>1, <1>6, <2>1, NeighboursHold
<1>9. ASSUME NEW j \in 1..Len(runs), runs[j][2] + 1 \in hits PROVE FALSE
  <2> DEFINE q == runs[j][2]
  <2>1. q \in hits /\ q \in 1..n /\ q + 1 \in 1..n /\ runs[j][1] \in 1..n
    BY <1>6, <1>7, <1>9
  <2>2. NextTo(hits, q, q + 1) /\ q + 1 <= n
    BY <1>7, <1>9, <2>1 DEF NextTo
  <2>3. <<runs[j], q + 1>> \notin near
    BY <1>4, <1>9, <2>2 DEF AreRunsOf
  <2>4. <<<<runs[j][1], q>>, q + 1>> \notin near
    BY <1>5, <2>3
  <2> QED
    BY <1>2, <2>1, <2>4
<1>10. ASSUME NEW j \in 1..Len(runs), runs[j][1] - 1 \in hits PROVE FALSE
  <2> DEFINE p == runs[j][1]
  <2>1. p \in 1..n /\ p - 1 \in 1..n /\ runs[j][2] \in 1..n /\ p <= runs[j][2] /\ p \in hits
    BY <1>6, <1>7, <1>10
  <2>2. PICK i \in 1..Len(runs) : runs[i][1] <= p - 1 /\ p - 1 <= runs[i][2]
    BY <1>6, <1>10
  <2>3. runs[i][1] \in 1..n /\ runs[i][2] \in 1..n
    BY <1>6, <1>7
  <2>4. i # j
    BY <2>1, <2>2, <2>3
  <2>5. ~(j < i)
    <3> SUFFICES ASSUME j < i PROVE FALSE
      OBVIOUS
    <3>1. runs[j][2] < runs[i][1]
      BY <1>6
    <3> QED
      BY <2>1, <2>2, <2>3, <3>1
  <2>6. runs[i][2] < p
    BY <1>6, <2>4, <2>5
  <2>7. runs[i][2] + 1 = p
    BY <2>1, <2>2, <2>3, <2>6
  <2> QED
    BY <1>9, <2>1, <2>7
<1>11. AreHitRuns(runs, hits, n)
  BY <1>5, <1>6, <1>7, <1>8, <1>9, <1>10 DEF AreHitRuns
<1> QED
  BY <1>11 DEF runs, hits

\* A hit is a spike exactly if it and the hits around it are no more than the width.
InWideRun(hits, n, i) == \E a \in 1..n : a <= i /\ i <= a + Widest /\ a..(a + Widest) \subseteq hits
LEMMA SpikesAre ==
    ASSUME NEW ts, Len(ts) \in Nat, DOMAIN ts = 1..Len(ts)
    PROVE  /\ Spikes(ts) \in Seq(1..Len(ts))
           /\ \A i, j \in 1..Len(Spikes(ts)) : i < j => Spikes(ts)[i] < Spikes(ts)[j]
           /\ Range(Spikes(ts)) = {i \in FlaggedAmong(ts) : ~InWideRun(FlaggedAmong(ts), Len(ts), i)}
<1> DEFINE n == Len(ts)
           hits == FlaggedAmong(ts)
           runs == HitRuns(ts)
           set == UNION {run[1]..run[2] : run \in {r \in Range(runs) : IsSpikes(r)}}
           spikes == InOrder(n, set)
<1>1. AreHitRuns(runs, hits, n)
  BY HitRunsAre
<1>2. Spikes(ts) = spikes
  BY DEF Spikes
<1>3. hits \in SUBSET (1..n) /\ Widest \in Nat \ {0}
  BY SpansAssumption DEF FlaggedAmong, Widest
<1> HIDE DEF hits, runs, n
<1>4. \A x : x \in set <=> \E j \in 1..Len(runs) : IsSpikes(runs[j]) /\ x \in runs[j][1]..runs[j][2]
  BY <1>1 DEF AreHitRuns, Range
<1>5. ASSUME NEW j \in 1..Len(runs)
      PROVE  /\ runs[j][1] \in 1..n /\ runs[j][2] \in 1..n /\ runs[j][1] <= runs[j][2] /\ runs[j][1]..runs[j][2] \subseteq hits
             /\ runs[j][1] - 1 \notin hits /\ runs[j][2] + 1 \notin hits
             /\ IsSpikes(runs[j]) <=> runs[j][2] - runs[j][1] + 1 <= Widest
  BY <1>1 DEF AreHitRuns, IsSpikes
<1> HIDE DEF set
<1>6. set \in SUBSET (1..n) /\ set \subseteq hits
  BY <1>3, <1>4, <1>5
<1>7. ASSUME NEW i \in set PROVE ~InWideRun(hits, n, i)
  <2> SUFFICES ASSUME NEW a \in 1..n, a <= i, i <= a + Widest, a..(a + Widest) \subseteq hits PROVE FALSE
    BY DEF InWideRun
  <2>1. PICK j \in 1..Len(runs) : IsSpikes(runs[j]) /\ i \in runs[j][1]..runs[j][2]
    BY <1>4
  <2> DEFINE p == runs[j][1]
             q == runs[j][2]
  <2>2. /\ p \in 1..n /\ q \in 1..n /\ p <= q /\ p - 1 \notin hits /\ q + 1 \notin hits /\ q - p + 1 <= Widest
        /\ p <= i /\ i <= q /\ i \in 1..n
    BY <1>5, <1>6, <2>1
  <2> HIDE DEF p, q
  <2>3. p <= a
    <3> SUFFICES ASSUME a < p PROVE FALSE
      BY <2>2
    <3>1. p - 1 \in a..(a + Widest)
      BY <1>3, <2>2
    <3> QED
      BY <2>2, <3>1
  <2>4. a + Widest <= q
    <3> SUFFICES ASSUME q < a + Widest PROVE FALSE
      BY <1>3, <2>2
    <3>1. q + 1 \in a..(a + Widest)
      BY <1>3, <2>2
    <3> QED
      BY <2>2, <3>1
  <2> QED
    BY <1>3, <2>2, <2>3, <2>4
<1>8. ASSUME NEW i \in hits, ~InWideRun(hits, n, i) PROVE i \in set
  <2>1. PICK j \in 1..Len(runs) : runs[j][1] <= i /\ i <= runs[j][2]
    BY <1>1 DEF AreHitRuns
  <2> DEFINE p == runs[j][1]
             q == runs[j][2]
             a == IF i <= q - Widest THEN i ELSE q - Widest
  <2>2. p \in 1..n /\ q \in 1..n /\ p <= q /\ p <= i /\ i <= q /\ i \in 1..n /\ p..q \subseteq hits
    BY <1>3, <1>5, <2>1
  <2> HIDE DEF p, q
  <2>3. q - p + 1 <= Widest
    <3> SUFFICES ASSUME Widest < q - p + 1 PROVE FALSE
      BY <1>3, <2>2
    <3>1. a \in 1..n /\ p <= a /\ a <= i /\ i <= a + Widest /\ a + Widest <= q
      BY <1>3, <2>2
    <3> HIDE DEF a
    <3>2. a..(a + Widest) \subseteq p..q
      BY <1>3, <2>2, <3>1
    <3>3. a..(a + Widest) \subseteq hits
      BY <2>2, <3>2
    <3> QED
      BY <1>8, <3>1, <3>3 DEF InWideRun
  <2>4. IsSpikes(runs[j]) /\ i \in runs[j][1]..runs[j][2]
    BY <1>5, <2>2, <2>3 DEF p, q
  <2> QED
    BY <1>4, <2>4
<1>9. n \in Nat
  BY DEF n
<1>10. IsCollected(spikes, set, n, n)
  BY <1>6, <1>9, InOrderIs
<1> HIDE DEF spikes
<1>11. /\ spikes \in Seq(1..n)
       /\ \A i, j \in 1..Len(spikes) : i < j => spikes[i] < spikes[j]
       /\ \A i \in 1..Len(spikes) : spikes[i] \in set
       /\ \A x \in set : x <= n => \E i \in 1..Len(spikes) : spikes[i] = x
  BY <1>10 DEF IsCollected
<1>12. DOMAIN spikes = 1..Len(spikes)
  BY <1>11
<1>13. \A x \in set : x <= n
  BY <1>6, <1>9
<1>14. Range(spikes) = set
  BY <1>11, <1>12, <1>13 DEF Range
<1>15. set = {i \in hits : ~InWideRun(hits, n, i)}
  BY <1>6, <1>7, <1>8
<1> QED
  BY <1>2, <1>11, <1>14, <1>15 DEF hits, n

\* The clusters, by the positions of their spikes among all.
SpikeSeams(ts, spikes) == {x \in 1..Len(spikes) : ts[spikes[x + 1]] - ts[spikes[x]] <= shortest}
LEMMA ClustersAre ==
    ASSUME NEW ts, Len(Spikes(ts)) \in Nat
    PROVE  \E runs : /\ AreStretches(runs, SpikeSeams(ts, Spikes(ts)), Len(Spikes(ts)))
                     /\ Clusters(ts) = [c \in 1..Len(runs) |-> {Spikes(ts)[k] : k \in runs[c][1]..runs[c][2]}]
<1> DEFINE spikes == Spikes(ts)
           n == Len(spikes)
           near == {x \in RunsAndNext(n) : Close(ts, spikes, x[1], x[2])}
           seams == SpikeSeams(ts, spikes)
           runs == RunsAmong(n, 1..n, near)
<1>1. \A p, x, y \in 1..n : y = x + 1 => (<<<<p, x>>, y>> \in near <=> x \in seams)
  BY DEF RunsAndNext, Close, SpikeSeams
<1> HIDE DEF near
<1>2. Clusters(ts) = [c \in DOMAIN runs |-> {spikes[k] : k \in runs[c][1]..runs[c][2]}]
  BY DEF Clusters, near
<1>3. AreStretches(runs, seams, n)
  <2> HIDE DEF seams, n
  <2> QED
    BY <1>1, StretchesAre DEF n
<1> HIDE DEF runs
<1>4. DOMAIN runs = 1..Len(runs)
  BY <1>3 DEF AreStretches
<1> QED
  BY <1>2, <1>3, <1>4

\* After a spike comes the next of the list.
LEMMA NextSpike ==
    ASSUME NEW n \in Nat, NEW spikes \in Seq(1..n), \A i, j \in 1..Len(spikes) : i < j => spikes[i] < spikes[j],
           NEW x \in 1..(Len(spikes) - 1)
    PROVE  Min({j \in Range(spikes) : j > spikes[x]}) = spikes[x + 1]
<1> DEFINE S == {j \in Range(spikes) : j > spikes[x]}
           m == spikes[x + 1]
<1>1. /\ Len(spikes) \in Nat /\ DOMAIN spikes = 1..Len(spikes) /\ \A i \in 1..Len(spikes) : spikes[i] \in 1..n
      /\ x \in 1..Len(spikes) /\ x + 1 \in 1..Len(spikes) /\ x < x + 1
  OBVIOUS
<1>2. m \in S
  <2>1. m \in Range(spikes)
    BY <1>1 DEF Range
  <2>2. m > spikes[x]
    BY <1>1
  <2> QED
    BY <2>1, <2>2
<1>3. \A j \in S : m <= j /\ j \in 1..n
  <2> SUFFICES ASSUME NEW j \in S PROVE m <= j /\ j \in 1..n
    OBVIOUS
  <2>1. PICK y \in 1..Len(spikes) : j = spikes[y]
    BY <1>1 DEF Range
  <2>2. spikes[x] < spikes[y]
    BY <1>1, <2>1
  <2>3. x < y
    <3> SUFFICES ASSUME y <= x PROVE FALSE
      BY <1>1
    <3>1. y = x \/ spikes[y] < spikes[x]
      BY <1>1
    <3> QED
      BY <1>1, <2>2, <3>1
  <2>4. y = x + 1 \/ x + 1 < y
    BY <1>1, <2>3
  <2>5. x + 1 < y => m < spikes[y]
    BY <1>1
  <2> QED
    BY <1>1, <2>1, <2>4, <2>5
<1> HIDE DEF S, m
<1>4. m \in 1..n
  BY <1>2, <1>3
<1>5. \A z \in S : (\A y \in S : z <= y) => z = m
  BY <1>2, <1>3, <1>4
<1>6. Min(S) \in S /\ \A y \in S : Min(S) <= y
  <2>1. \E z \in S : \A y \in S : z <= y
    BY <1>2, <1>3
  <2> QED
    BY <2>1 DEF Min
<1> QED
  BY <1>5, <1>6 DEF S, m

\* Two spikes are in one cluster exactly if all gaps between them are short.
LEMMA ClusterHolds ==
    ASSUME NEW n \in Nat, NEW runs, NEW seams, AreStretches(runs, seams, n), NEW x \in 1..n, NEW y \in 1..n, x < y
    PROVE  (\E c \in 1..Len(runs) : x \in runs[c][1]..runs[c][2] /\ y \in runs[c][1]..runs[c][2])
             <=> \A m \in x..(y - 1) : m \in seams
<1>1. /\ Len(runs) \in Nat
      /\ \A c \in 1..Len(runs) : runs[c][1] \in 1..n /\ runs[c][2] \in 1..n /\ runs[c][1] <= runs[c][2]
  BY DEF AreStretches
<1>2. ASSUME NEW c \in 1..Len(runs), x \in runs[c][1]..runs[c][2], y \in runs[c][1]..runs[c][2], NEW m \in x..(y - 1)
      PROVE  m \in seams
  <2>1. m \in 1..n /\ runs[c][1] <= m /\ m < runs[c][2]
    BY <1>1, <1>2
  <2> QED
    BY <2>1 DEF AreStretches
<1>3. ASSUME \A m \in x..(y - 1) : m \in seams
      PROVE  \E c \in 1..Len(runs) : x \in runs[c][1]..runs[c][2] /\ y \in runs[c][1]..runs[c][2]
  <2>1. PICK c \in 1..Len(runs) : runs[c][1] <= x /\ x <= runs[c][2]
    BY DEF AreStretches
  <2>2. y <= runs[c][2]
    <3> SUFFICES ASSUME runs[c][2] < y PROVE FALSE
      BY <1>1
    <3>1. runs[c][2] < n /\ runs[c][2] \in x..(y - 1)
      BY <1>1, <2>1
    <3>2. runs[c][2] \notin seams
      BY <3>1 DEF AreStretches
    <3> QED
      BY <1>3, <3>1, <3>2
  <2>3. x \in runs[c][1]..runs[c][2] /\ y \in runs[c][1]..runs[c][2]
    BY <1>1, <2>1, <2>2
  <2> QED
    BY <2>3
<1> QED
  BY <1>2, <1>3

\* A position is in one stretch only.
LEMMA OneStretch ==
    ASSUME NEW n \in Nat, NEW runs, NEW seams, AreStretches(runs, seams, n), NEW x \in 1..n
    PROVE  \E c \in 1..Len(runs) : \A d \in 1..Len(runs) : x \in runs[d][1]..runs[d][2] <=> d = c
<1>1. /\ Len(runs) \in Nat
      /\ \A c \in 1..Len(runs) : runs[c][1] \in 1..n /\ runs[c][2] \in 1..n /\ runs[c][1] <= runs[c][2]
      /\ \A i, k \in 1..Len(runs) : i < k => runs[i][2] < runs[k][1]
  BY DEF AreStretches
<1>2. PICK c \in 1..Len(runs) : runs[c][1] <= x /\ x <= runs[c][2]
  BY DEF AreStretches
<1>3. x \in runs[c][1]..runs[c][2]
  BY <1>1, <1>2
<1>4. ASSUME NEW d \in 1..Len(runs), x \in runs[d][1]..runs[d][2] PROVE d = c
  <2>1. runs[d][1] <= x /\ x <= runs[d][2]
    BY <1>1, <1>4
  <2>2. ~(d < c)
    <3> SUFFICES ASSUME d < c PROVE FALSE
      OBVIOUS
    <3>1. runs[d][2] < runs[c][1]
      BY <1>1
    <3> QED
      BY <1>1, <1>2, <2>1, <3>1
  <2>3. ~(c < d)
    <3> SUFFICES ASSUME c < d PROVE FALSE
      OBVIOUS
    <3>1. runs[c][2] < runs[d][1]
      BY <1>1
    <3> QED
      BY <1>1, <1>2, <2>1, <3>1
  <2> QED
    BY <1>1, <2>2, <2>3
<1> QED
  BY <1>3, <1>4

\* Spikes, and clusters of them, are what the header of spikes.rs says.
LEMMA ClustersHold ==
    ASSUME SpansTypeOK
    PROVE  ClustersAreClose
<1> DEFINE ts == Counted
           clusters == Clusters(ts)
           sp == Spikes(ts)
           spikes == Range(sp)
           n == Len(ts)
           NextOf(i) == Min({j \in spikes : j > i})
           hits == FlaggedAmong(ts)
           IsHit(i) == i \in DOMAIN ts /\ IsFlagged(ts[i])
<1>1. n \in Nat /\ DOMAIN ts = 1..n
  BY CountedAre DEF AreCounted
<1> HIDE DEF ts
<1>2. /\ sp \in Seq(1..n) /\ \A i, j \in 1..Len(sp) : i < j => sp[i] < sp[j]
      /\ spikes = {i \in hits : ~InWideRun(hits, n, i)}
  BY <1>1, SpikesAre
<1> HIDE DEF sp
<1>3. /\ Len(sp) \in Nat /\ DOMAIN sp = 1..Len(sp) /\ \A i \in 1..Len(sp) : sp[i] \in 1..n
      /\ \A i, j \in 1..Len(sp) : sp[i] = sp[j] => i = j
      /\ \A i, j \in 1..Len(sp) : sp[i] < sp[j] => i < j
  <2>1. Len(sp) \in Nat /\ DOMAIN sp = 1..Len(sp) /\ \A i \in 1..Len(sp) : sp[i] \in 1..n
    BY <1>1, <1>2
  <2>2. ASSUME NEW i \in 1..Len(sp), NEW j \in 1..Len(sp) PROVE (sp[i] = sp[j] => i = j) /\ (sp[i] < sp[j] => i < j)
    <3>1. (i < j => sp[i] < sp[j]) /\ (j < i => sp[j] < sp[i]) /\ sp[i] \in 1..n /\ sp[j] \in 1..n
      BY <1>2, <2>1
    <3>2. i < j \/ i = j \/ j < i
      BY <2>1
    <3> QED
      BY <1>1, <3>1, <3>2
  <2> QED
    BY <2>1, <2>2
<1>4. \A i : i \in spikes <=> \E x \in 1..Len(sp) : sp[x] = i
  BY <1>3 DEF Range
<1>5. PICK runs : /\ AreStretches(runs, SpikeSeams(ts, sp), Len(sp))
                  /\ clusters = [c \in 1..Len(runs) |-> {sp[k] : k \in runs[c][1]..runs[c][2]}]
  <2>1. Len(Spikes(ts)) \in Nat
    BY <1>3 DEF sp
  <2>2. \E runs : /\ AreStretches(runs, SpikeSeams(ts, Spikes(ts)), Len(Spikes(ts)))
                  /\ Clusters(ts) = [c \in 1..Len(runs) |-> {Spikes(ts)[k] : k \in runs[c][1]..runs[c][2]}]
    BY <2>1, ClustersAre, Zenon
  <2> QED
    BY <2>2 DEF sp
<1> HIDE DEF clusters
<1>6. /\ DOMAIN clusters = 1..Len(runs)
      /\ \A c \in 1..Len(runs) : runs[c][1] \in 1..Len(sp) /\ runs[c][2] \in 1..Len(sp)
  BY <1>5 DEF AreStretches
<1>7. ASSUME NEW c \in 1..Len(runs), NEW x \in 1..Len(sp) PROVE sp[x] \in clusters[c] <=> x \in runs[c][1]..runs[c][2]
  <2>1. \A k \in runs[c][1]..runs[c][2] : k \in 1..Len(sp)
    BY <1>3, <1>6
  <2>2. clusters[c] = {sp[k] : k \in runs[c][1]..runs[c][2]}
    BY <1>5
  <2> QED
    BY <1>3, <2>1, <2>2
<1>8. ASSUME NEW i \in spikes, NEW j \in spikes, i < j
      PROVE  (\E c \in DOMAIN clusters : {i, j} \subseteq clusters[c])
                <=> \A k \in spikes : i <= k /\ k < j => ts[NextOf(k)] - ts[k] <= shortest
  <2>1. PICK x \in 1..Len(sp), y \in 1..Len(sp) : sp[x] = i /\ sp[y] = j
    BY <1>4
  <2>2. x < y
    BY <1>3, <1>8, <2>1
  <2>3. (\E c \in 1..Len(runs) : x \in runs[c][1]..runs[c][2] /\ y \in runs[c][1]..runs[c][2])
             <=> \A m \in x..(y - 1) : m \in SpikeSeams(ts, sp)
    BY <1>3, <1>5, <2>2, ClusterHolds
  <2>4. \A c \in 1..Len(runs) : {i, j} \subseteq clusters[c]
                                   <=> (x \in runs[c][1]..runs[c][2] /\ y \in runs[c][1]..runs[c][2])
    BY <1>7, <2>1
  <2>5. ASSUME NEW m \in 1..(Len(sp) - 1) PROVE NextOf(sp[m]) = sp[m + 1]
    BY <1>1, <1>2, NextSpike
  <2>6. ASSUME NEW m \in x..(y - 1)
        PROVE  m \in SpikeSeams(ts, sp) <=> ts[NextOf(sp[m])] - ts[sp[m]] <= shortest
    <3>1. m \in 1..Len(sp) /\ m \in 1..(Len(sp) - 1)
      BY <1>3
    <3>2. NextOf(sp[m]) = sp[m + 1]
      BY <2>5, <3>1
    <3> QED
      BY <3>1, <3>2 DEF SpikeSeams
  <2>7. ASSUME NEW m \in 1..Len(sp) PROVE m \in x..(y - 1) <=> (i <= sp[m] /\ sp[m] < j)
    <3>1. (m < y => sp[m] < sp[y]) /\ (x < m => sp[x] < sp[m]) /\ (y < m => sp[y] < sp[m]) /\ (m < x => sp[m] < sp[x])
      BY <1>2
    <3>2. sp[m] \in 1..n /\ sp[x] \in 1..n /\ sp[y] \in 1..n
      BY <1>3
    <3>3. m \in Int /\ x \in Int /\ y \in Int
      BY <1>3
    <3> QED
      BY <1>1, <2>1, <3>1, <3>2, <3>3
  <2> HIDE DEF NextOf
  <2>8. (\A m \in x..(y - 1) : m \in SpikeSeams(ts, sp))
           <=> \A k \in spikes : i <= k /\ k < j => ts[NextOf(k)] - ts[k] <= shortest
    <3>1. ASSUME \A m \in x..(y - 1) : m \in SpikeSeams(ts, sp), NEW k \in spikes, i <= k, k < j
          PROVE  ts[NextOf(k)] - ts[k] <= shortest
      <4>1. PICK m \in 1..Len(sp) : sp[m] = k
        BY <1>4
      <4>2. m \in x..(y - 1)
        BY <2>7, <3>1, <4>1
      <4> QED
        BY <2>6, <3>1, <4>1, <4>2
    <3>2. ASSUME \A k \in spikes : i <= k /\ k < j => ts[NextOf(k)] - ts[k] <= shortest, NEW m \in x..(y - 1)
          PROVE  m \in SpikeSeams(ts, sp)
      <4>1. m \in 1..Len(sp)
        BY <1>3
      <4>2. sp[m] \in spikes /\ i <= sp[m] /\ sp[m] < j
        BY <1>4, <2>7, <4>1
      <4> QED
        BY <2>6, <3>2, <4>2
    <3> QED
      BY <3>1, <3>2
  <2> QED
    BY <1>6, <2>3, <2>4, <2>8
<1>9. ASSUME NEW i \in spikes PROVE Cardinality({c \in DOMAIN clusters : i \in clusters[c]}) = 1
  <2>1. PICK x \in 1..Len(sp) : sp[x] = i
    BY <1>4
  <2>2. PICK c \in 1..Len(runs) : \A d \in 1..Len(runs) : x \in runs[d][1]..runs[d][2] <=> d = c
    BY <1>3, <1>5, OneStretch
  <2>3. {d \in DOMAIN clusters : i \in clusters[d]} = {c}
    BY <1>6, <1>7, <2>1, <2>2
  <2> QED
    BY <2>3, FS_Singleton
<1>10. spikes = {i \in DOMAIN ts : IsHit(i) /\ ~\E a \in 1..n : a <= i /\ i <= a + Widest
                                                               /\ \A k \in a..(a + Widest) : IsHit(k)}
  <2>1. hits \subseteq DOMAIN ts /\ \A i : i \in hits <=> IsHit(i)
    BY DEF FlaggedAmong
  <2>2. \A i : InWideRun(hits, n, i) <=> \E a \in 1..n : a <= i /\ i <= a + Widest /\ \A k \in a..(a + Widest) : IsHit(k)
    BY <2>1 DEF InWideRun
  <2> HIDE DEF hits, IsHit
  <2> QED
    BY <1>2, <2>1, <2>2
<1> QED
  BY <1>8, <1>9, <1>10 DEF ClustersAreClose, ts, clusters, sp

\* The bins a check is given and its limit have their types.
LEMMA SpansTypesHold == SpansSpec => []SpansTypeOK
<1>1. SpansInit => SpansTypeOK
  BY SpansAssumption DEF SpansInit, SpansTypeOK
<1>2. SpansTypeOK /\ [SpansNext]_spanVars => SpansTypeOK'
  <2> SUFFICES ASSUME SpansTypeOK, [SpansNext]_spanVars PROVE SpansTypeOK'
    OBVIOUS
  <2>1. CASE NextBin
    BY <2>1, SpansAssumption DEF NextBin, SpansTypeOK
  <2>2. CASE UNCHANGED spanVars
    BY <2>2 DEF spanVars, SpansTypeOK
  <2> QED
    BY <2>1, <2>2 DEF SpansNext
<1> QED
  BY <1>1, <1>2, PTL DEF SpansSpec

\* The episodes of a check and the clusters of spikes are exact, whatever bins are flagged.
THEOREM SpansTheorem == SpansSpec => []SpansAreExact
<1>1. SpansTypeOK => SpansAreExact
  BY EpisodesHold, ClustersHold DEF SpansAreExact
<1> QED
  BY <1>1, SpansTypesHold, PTL
=============================================================================
