----------------------------- MODULE FetchPlan -----------------------------
(***************************************************************************)
(* What a fetch still has to ask for (services/coverage.py) and with which *)
(* calls (connectors/plan.py).  Pure.                                      *)
(*                                                                         *)
(* Ranges are half-open pairs <<lo, hi>> of naturals; points are naturals, *)
(* in the order of their external ids.                                     *)
(***************************************************************************)
EXTENDS Integers, FiniteSets, Sequences

Larger(a, b)  == IF a < b THEN b ELSE a
Smaller(a, b) == IF a < b THEN a ELSE b

\* The instants of a set of ranges.
Instants(ranges) == UNION {r[1]..(r[2] - 1) : r \in ranges}

\* Mutant of Walk: a range inside an earlier one moves the cursor back.
WalkBack(end, at, lo, hi) ==
    IF hi <= lo THEN at
    ELSE [gaps   |-> IF lo > at.cursor THEN at.gaps \union {<<at.cursor, lo>>} ELSE at.gaps,
          cursor |-> hi]

\* One covered range: the gap before it, if any, and the cursor behind it.
Walk(end, at, lo, hi) ==
    IF hi <= lo \/ hi <= at.cursor \/ at.cursor >= end THEN at
    ELSE [gaps   |-> IF lo > at.cursor THEN at.gaps \union {<<at.cursor, lo>>} ELSE at.gaps,
          cursor |-> Larger(at.cursor, hi)]

\* The covered ranges one after the other, by their starts: the gaps and the cursor once those
\* that start before t are walked.
Walked(ends, start, end) ==
    LET walked[t \in 0..end] == IF t = 0 THEN [gaps |-> {}, cursor |-> start]
                                ELSE Walk(end, walked[t - 1], t - 1, ends[t - 1])
    IN  walked

\* missing_ranges: the gaps of [start, end) that no covered range fills.  `ends` gives the end of
\* the range that starts at an instant; ranges that start at the end or later are not looked at.
MissingRanges(ends, start, end) ==
    LET walked == Walked(ends, start, end)[end]
    IN  IF end <= start THEN {}
        ELSE IF walked.cursor < end THEN walked.gaps \union {<<walked.cursor, end>>}
        ELSE walked.gaps

\* Mutant of Spans: the last span is as long as the others.
SpansUnclamped(lo, hi, maxSpan) ==
    {<<lo + k * maxSpan, lo + (k + 1) * maxSpan>> : k \in {i \in 0..(hi - lo) : lo + i * maxSpan < hi}}

\* spans: consecutive spans of at most maxSpan.
Spans(lo, hi, maxSpan) ==
    {<<lo + k * maxSpan, Smaller(hi, lo + (k + 1) * maxSpan)>> : k \in {i \in 0..(hi - lo) : lo + i * maxSpan < hi}}

\* plan_calls: points whose gaps have the same span share calls of at most maxPoints.
PlanCalls(gaps, maxSpan, maxPoints) ==
    LET bySpan == UNION {{<<s, p>> : s \in UNION {Spans(g[1], g[2], maxSpan) : g \in gaps[p]}} : p \in DOMAIN gaps}
        Sharing(s) == {p \in DOMAIN gaps : <<s, p>> \in bySpan}
        Chunk(p, s) == Cardinality({q \in Sharing(s) : q < p}) \div maxPoints
        Chunked(p, s) == {q \in Sharing(s) : Chunk(q, s) = Chunk(p, s)}
    IN  {[lo |-> sp[1][1], hi |-> sp[1][2], points |-> Chunked(sp[2], sp[1])] : sp \in bySpan}

\* "Calls run in time order": by bounds, then by points.
NotAfter(c, d) ==
    \/ c.lo < d.lo
    \/ c.lo = d.lo /\ c.hi < d.hi
    \/ c.lo = d.lo /\ c.hi = d.hi /\ \E p \in c.points : \A q \in d.points : p <= q
FirstCall(calls) == CHOOSE c \in calls : \A d \in calls : NotAfter(c, d)

\* settled_end: a span counts as covered up to its end, but never past now - settle.
SettledEnd(end, now, settle) == Smaller(end, now - settle)
=============================================================================
