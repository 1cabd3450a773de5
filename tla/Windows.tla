------------------------------- MODULE Windows -------------------------------
(***************************************************************************)
(* Time windows (services/timeconv.py, services/datasets.py,               *)
(* services/series_chart.py, routers/series.py).  People give instants in  *)
(* nanoseconds, unbounded; the database keeps microseconds; the core has a *)
(* signed 64-bit count of nanoseconds, whose last value means the end of   *)
(* time.                                                                   *)
(***************************************************************************)
EXTENDS Integers

CONSTANTS
    CoreNsMin, CoreNsMax,  \* the core's range
    PerUs,                 \* nanoseconds in a microsecond
    WholeRows,             \* DEFAULT_WHOLE_ROWS
    RecentNs               \* DEFAULT_RECENT_NS

\* The last value of 64 bits is not a whole number of microseconds.
ASSUME WindowsAssumption ==
    /\ CoreNsMin \in Int /\ CoreNsMax \in Int /\ CoreNsMin < CoreNsMax
    /\ PerUs \in Nat \ {0} /\ CoreNsMax % PerUs # 0
    /\ WholeRows \in Nat /\ RecentNs \in Nat \ {0}

Lesser(a, b)  == IF a <= b THEN a ELSE b
Greatest(a, b) == IF a <= b THEN b ELSE a

\* ns_to_datetime, parse_time and back: rounded down to the microsecond.
ToUs(ns) == (ns \div PerUs) * PerUs

\* ns_to_datetime_ceil
ToUsCeil(ns) == -((-ns) \div PerUs) * PerUs

\* to_core_ns
ToCore(ns) == Lesser(Greatest(ns, CoreNsMin), CoreNsMax)

\* check_core_range
InCoreRange(start, end) == start <= CoreNsMax /\ end > CoreNsMin

\* window_policy: what is asked for, to the nanosecond, and what is stored must both hold an instant.
Accepted(start, end) ==
    /\ ToUs(start) < ToUs(end)
    /\ InCoreRange(start, end)
    /\ InCoreRange(ToUs(start), ToUs(end))

\* create_dataset_run: the stored window, clamped to the core's range.
RunWindowOf(start, end) == <<ToCore(ToUs(start)), ToCore(ToUs(end))>>

\* _window_or_422: a chart's window is clamped first.
ChartAccepted(from, to) == ToCore(from) < ToCore(to)

\* default_chart_window
DefaultWindow(start, end, rows) ==
    IF rows <= WholeRows THEN <<start, end>> ELSE <<Greatest(start, end - RecentNs), end>>
=============================================================================
