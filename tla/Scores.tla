-------------------------------- MODULE Scores --------------------------------
(***************************************************************************)
(* How the findings of one dimension of a series become its score (core    *)
(* score.rs): a finding spreads its impact over its window, overlapping    *)
(* ones count once, at the higher density; a finding too narrow to carry   *)
(* its impact is added as it is.  The walk over the ends of the windows is *)
(* compared with the sum over the instants.                                *)
(*                                                                         *)
(* Arithmetic is exact here and floating point in the code: densities are  *)
(* in units of 1 / Scale of a weight, and Scale is a common multiple of    *)
(* the lengths of windows.                                                 *)
(***************************************************************************)
EXTENDS Naturals, Sequences, FiniteSets, FiniteSetsExt, SequencesExt

CONSTANTS
    ScoredFrom, ScoredTo,  \* the window of the evaluation
    Weights,               \* the weights of the severities
    Ends,                  \* the ends <<start, end>> of windows of findings
    Affected,              \* how many instants of the window a finding says are affected
    Scale,                 \* units to a weight
    MaxReported            \* bound of the findings

Greater(a, b) == IF a < b THEN b ELSE a
Least(a, b)   == IF a < b THEN a ELSE b
Span == ScoredTo - ScoredFrom

ASSUME ScoresAssumption ==
    /\ ScoredFrom \in Nat /\ ScoredTo \in Nat /\ ScoredFrom < ScoredTo
    /\ \A n \in 1..Span : Scale % n = 0
    /\ Ends \subseteq Nat \X Nat /\ MaxReported \in Nat

VARIABLE reports  \* the findings of the dimension, in the order in which the checks returned them

ScoredFindings == [start : Nat, end : Nat, weight : Weights, affected : Affected]

\* The type invariant.
ScoresTypeOK == reports \in Seq(ScoredFindings) /\ Len(reports) <= MaxReported

ScoresInit == reports = <<>>

-----------------------------------------------------------------------------
(* Densities *)

\* The instants of the evaluation a finding is about; empty when it is beside the window.
Clipped(f) ==
    LET from == Greater(f.start, ScoredFrom)
    IN  [from |-> from, to |-> Greater(Least(f.end, ScoredTo), from + 1)]
Beside(f) == f.end <= ScoredFrom \/ f.start >= ScoredTo
Length(f) == Clipped(f).to - Clipped(f).from

\* score_impact times the duration of the evaluation, in units.
Impact(f)  == f.weight * f.affected * Scale
Density(f) == Impact(f) \div Length(f)

\* Mutant of IsPoint: a finding that fills its window is added as well.
IsPointFull(f) == Density(f) >= f.weight * Scale

\* Its window is too narrow to carry its impact at the weight of its severity.
IsPoint(f) == Density(f) > f.weight * Scale

Spread(fs) == {i \in DOMAIN fs : ~Beside(fs[i]) /\ ~IsPoint(fs[i])}
Points(fs) == {i \in DOMAIN fs : ~Beside(fs[i]) /\ IsPoint(fs[i])}

-----------------------------------------------------------------------------
(* The walk *)

\* The order of the events: by time, those that end before those that begin.
Earlier(a, b) ==
    \/ a.at < b.at
    \/ a.at = b.at /\ ~a.opens /\ b.opens
    \/ a.at = b.at /\ a.opens = b.opens /\ a.of < b.of

\* The windows' ends, sorted.
Events(fs) ==
    LET some == {i \in Spread(fs) : Density(fs[i]) > 0}
        Insert(event, sorted) == SelectSeq(sorted, LAMBDA e : Earlier(e, event)) \o <<event>> \o
                                 SelectSeq(sorted, LAMBDA e : Earlier(event, e))
    IN  FoldSet(Insert, <<>>, {[at |-> Clipped(fs[i]).from, opens |-> TRUE, of |-> i] : i \in some} \union
                              {[at |-> Clipped(fs[i]).to, opens |-> FALSE, of |-> i] : i \in some})

\* Mutant of Active: a window that ends takes all windows of its density with it.
ActiveOnce(active, density, opens) ==
    [active EXCEPT ![density] = IF opens THEN @ + 1 ELSE 0]

\* The multiset of the densities of the windows that are open.
Active(active, density, opens) ==
    [active EXCEPT ![density] = IF opens THEN @ + 1 ELSE @ - 1]

\* One event: the highest open density counts for the time since the event before.
AtEvent(fs, event, walk) ==
    LET open    == {d \in DOMAIN walk.active : walk.active[d] > 0}
        density == Density(fs[event.of])
    IN  [sum    |-> walk.sum + (IF open = {} THEN 0 ELSE (event.at - walk.since) * Max(open)),
         since  |-> event.at,
         active |-> Active(walk.active, density, event.opens)]

\* merged_coverage, times the duration of the evaluation.
MergedCoverage(fs) ==
    LET densities == {Density(fs[i]) : i \in Spread(fs)}
        start     == [sum |-> 0, since |-> 0, active |-> [d \in densities |-> 0]]
    IN  FoldLeft(LAMBDA walk, event : AtEvent(fs, event, walk), start, Events(fs)).sum

\* Mutant of Additive: point findings of one window are all added.
AdditiveAll(fs) == FoldSet(LAMBDA i, sum : sum + Impact(fs[i]), 0, Points(fs))

\* Point findings: of those with the same window the one with the greatest impact.
Additive(fs) ==
    LET windows == {Clipped(fs[i]) : i \in Points(fs)}
        Most(w) == Max({Impact(fs[i]) : i \in {j \in Points(fs) : Clipped(fs[j]) = w}})
    IN  FoldSet(LAMBDA w, sum : sum + Most(w), 0, windows)

\* score_window: the impact on the dimension, at most all of it.
DimensionImpact(fs) == Least(MergedCoverage(fs) + Additive(fs), Span * Scale * Max(Weights))

-----------------------------------------------------------------------------

\* A check returns one more finding.
ReportFinding ==
    /\ Len(reports) < MaxReported
    /\ \E ends \in Ends, weight \in Weights, n \in Affected :
         reports' = Append(reports, [start |-> ends[1], end |-> ends[2], weight |-> weight, affected |-> n])

ScoresNext == ReportFinding
ScoresSpec == ScoresInit /\ [][ScoresNext]_reports

-----------------------------------------------------------------------------
(* Properties *)

\* The densest finding at an instant.
Densest(fs, t) ==
    Max({0} \union {Density(fs[i]) : i \in {j \in Spread(fs) : Clipped(fs[j]).from <= t /\ t < Clipped(fs[j]).to}})

\* "two checks flagging the same minute count once (at the higher density)" (score.rs:8): the
\* walk over the ends, however they coincide and nest, gives the integral of the highest density.
CoverageIsIntegral ==
    MergedCoverage(reports) =
        FoldSet(LAMBDA t, sum : sum + Densest(reports, t), 0, ScoredFrom..(ScoredTo - 1))

\* Findings that fill their windows count no instant above the weight of the worst of them, and
\* a finding twice counts as once (score.rs:9-13).
CountsOnce ==
    /\ (\A i \in DOMAIN reports : ~Beside(reports[i]) => reports[i].affected <= Length(reports[i])) =>
          \A w \in Weights : (\A i \in DOMAIN reports : reports[i].weight <= w) =>
              DimensionImpact(reports) <= w * Scale * Span
    /\ \A i \in DOMAIN reports : DimensionImpact(Append(reports, reports[i])) = DimensionImpact(reports)

\* One more finding never makes the score better, wherever its window lies.
NeverBetter == reports # <<>> => DimensionImpact(Front(reports)) <= DimensionImpact(reports)

ScoresAreFair == CoverageIsIntegral /\ CountsOnce /\ NeverBetter
=============================================================================
