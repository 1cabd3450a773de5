----------------------------- MODULE MCFindings -----------------------------
EXTENDS Findings, TLC

CONSTANTS r1, r2, s1, u1

\* Two findings about one subject, in core nanoseconds; the second overlaps the first.
Finding(start, end) == [check |-> "gap", subject |-> "x", start |-> start, end |-> end]
FewReports == {<<Finding(2, 4)>>, <<Finding(1, 6)>>, <<Finding(1, 6), Finding(2, 4)>>}

\* Every run uploads the same series.
OneSeries == [r \in Runs |-> <<s1>>]
OwnKey    == [s \in Series |-> s]
=============================================================================
