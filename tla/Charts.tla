-------------------------------- MODULE Charts --------------------------------
(***************************************************************************)
(* The chart of a series (services/series_chart.py, routers/series.py):    *)
(* what the cache holds of a window, served under an ETag made of the      *)
(* series' coverage rows, while runs, fetches and scans write the cache    *)
(* and record the coverage afterwards (services/coverage.py, record).      *)
(*                                                                         *)
(* A writer writes the cache, takes the time and records, in this order;   *)
(* the write of a tail that is not settled, and one whose process dies,    *)
(* is never recorded.  Times are distinct.  A sample is modelled by the    *)
(* write it comes from.                                                    *)
(***************************************************************************)
EXTENDS Naturals, FiniteSets, FiniteSetsExt

CONSTANTS
    Instants,     \* the window 0..Instants-1 that is asked for; every instant has a sample in every write
    Writers,      \* slots for runs, fetches and scans that write the series
    Viewers,      \* browsers that look at the chart
    LastWrite     \* bound of the writes

ASSUME ChartsAssumption == Instants \in Nat \ {0} /\ LastWrite \in Nat

Window == 0..(Instants - 1)

VARIABLES
    cachedRows, \* the write each instant's sample in the cache comes from, 0 for none
    ranges,     \* the coverage rows, by start
    writes, stamps, \* how many writes there were, how often the time was taken
    recorded,   \* the writes whose coverage was recorded
    writer,     \* what each writer is doing
    viewer      \* the answer each browser keeps, and the request it waits for

chartVars == <<cachedRows, ranges, writes, stamps, recorded, writer, viewer>>

NoRange == [rows |-> 0]
Ranges  == [end : 1..Instants, rows : 1..Instants, at : 1..LastWrite]
NoTag   == [at |-> 0, rows |-> 0, n |-> 0]
Tags    == [at : 0..LastWrite, rows : Nat, n : 0..Instants]
NoWrites == [t \in Window |-> 0]

\* The type invariant.
ChartsTypeOK ==
    /\ cachedRows \in [Window -> 0..LastWrite]
    /\ ranges \in [Window -> Ranges \union {NoRange}]
    /\ \A s \in Window : ranges[s] # NoRange => ranges[s].end > s
    /\ writes \in 0..LastWrite /\ stamps \in 0..writes
    /\ recorded \subseteq 1..writes
    /\ writer \in [Writers -> [step : {"idle"}] \union
          [step : {"wrote"}, id : 1..LastWrite, lo : Window, hi : 1..Instants] \union
          [step : {"stamped"}, id : 1..LastWrite, lo : Window, hi : 1..Instants, at : 1..LastWrite]]
    /\ viewer \in [Viewers -> [step : {"idle", "tagged"}, tag : Tags, body : [Window -> 0..LastWrite], asked : Tags]]

ChartsInit ==
    /\ cachedRows = NoWrites
    /\ ranges = [s \in Window |-> NoRange]
    /\ writes = 0 /\ stamps = 0
    /\ recorded = {}
    /\ writer = [w \in Writers |-> [step |-> "idle"]]
    /\ viewer = [v \in Viewers |-> [step |-> "idle", tag |-> NoTag, body |-> NoWrites, asked |-> NoTag]]

-----------------------------------------------------------------------------
(* Writing *)

WriterTo(w, r) == writer' = [writer EXCEPT ![w] = r]

\* write_series: the newest write's samples are the ones that are read.
WriteCache(w) ==
    /\ writer[w].step = "idle" /\ writes < LastWrite
    /\ \E lo \in Window, hi \in 1..Instants :
          /\ lo < hi
          /\ WriterTo(w, [step |-> "wrote", id |-> writes + 1, lo |-> lo, hi |-> hi])
          /\ cachedRows' = [t \in Window |-> IF t \in lo..(hi - 1) THEN writes + 1 ELSE cachedRows[t]]
    /\ writes' = writes + 1
    /\ UNCHANGED <<ranges, stamps, recorded, viewer>>

TakeTime(w) ==
    /\ writer[w].step = "wrote"
    /\ stamps' = stamps + 1
    /\ WriterTo(w, [step |-> "stamped", id |-> writer[w].id, lo |-> writer[w].lo, hi |-> writer[w].hi, at |-> stamps + 1])
    /\ UNCHANGED <<cachedRows, ranges, writes, recorded, viewer>>

Higher(a, b) == IF a > b THEN a ELSE b

\* Mutant of Widened: the rows of the writes of one start add up.
WidenedAdding(old, q) ==
    [end |-> IF old = NoRange THEN q.hi ELSE Higher(old.end, q.hi), rows |-> old.rows + q.hi - q.lo, at |-> q.at]

\* The row of that start takes the later end, and the rows and the time of this write.
Widened(old, q) ==
    [end |-> IF old = NoRange THEN q.hi ELSE Higher(old.end, q.hi), rows |-> q.hi - q.lo, at |-> q.at]

\* record.
Record(w) ==
    LET q == writer[w] IN
    /\ q.step = "stamped"
    /\ ranges' = [ranges EXCEPT ![q.lo] = Widened(@, q)]
    /\ recorded' = recorded \union {q.id}
    /\ WriterTo(w, [step |-> "idle"])
    /\ UNCHANGED <<cachedRows, writes, stamps, viewer>>

\* The tail is not settled, the record fails or the process dies.
GiveUp(w) ==
    /\ writer[w].step # "idle"
    /\ WriterTo(w, [step |-> "idle"])
    /\ UNCHANGED <<cachedRows, ranges, writes, stamps, recorded, viewer>>

-----------------------------------------------------------------------------
(* Reading *)

Starts     == {s \in Window : ranges[s] # NoRange}
Total(S)   == MapThenSumSet(LAMBDA s : ranges[s].rows, S)

\* Mutant of Version: the rows and the ranges say it all.
VersionByRows == [at |-> 0, rows |-> Total(Starts), n |-> Cardinality(Starts)]

\* Extent.version: the latest write, the rows and the number of ranges.
Version ==
    IF Starts = {} THEN NoTag
    ELSE [at |-> Max({ranges[s].at : s \in Starts}), rows |-> Total(Starts), n |-> Cardinality(Starts)]

ViewerTo(v, r) == viewer' = [viewer EXCEPT ![v] = r]

\* Mutant of ReadExtent: the rows are read first, and tagged with the extent that is read then.
ReadExtentLate(v) ==
    /\ \/ /\ viewer[v].step = "idle" /\ viewer[v].tag # Version
          /\ viewer' = [viewer EXCEPT ![v].step = "tagged", ![v].body = cachedRows]
       \/ /\ viewer[v].step = "tagged"
          /\ viewer' = [viewer EXCEPT ![v].step = "idle", ![v].tag = Version]
    /\ UNCHANGED <<cachedRows, ranges, writes, stamps, recorded, writer>>

\* GET reads the extent first; a browser that has the answer of this version is told so (304).
ReadExtent(v) ==
    /\ viewer[v].step = "idle"
    /\ IF viewer[v].tag = Version THEN UNCHANGED viewer
       ELSE ViewerTo(v, [step |-> "tagged", tag |-> viewer[v].tag, body |-> viewer[v].body, asked |-> Version])
    /\ UNCHANGED <<cachedRows, ranges, writes, stamps, recorded, writer>>

\* Then it reads the cache.
ReadCache(v) ==
    /\ viewer[v].step = "tagged"
    /\ ViewerTo(v, [step |-> "idle", tag |-> viewer[v].asked, body |-> cachedRows, asked |-> viewer[v].asked])
    /\ UNCHANGED <<cachedRows, ranges, writes, stamps, recorded, writer>>

ChartsNext ==
    \/ \E w \in Writers : WriteCache(w) \/ TakeTime(w) \/ Record(w) \/ GiveUp(w)
    \/ \E v \in Viewers : ReadExtent(v) \/ ReadCache(v)

ChartsSpec == ChartsInit /\ [][ChartsNext]_chartVars

-----------------------------------------------------------------------------
(* Properties *)

\* "Changes whenever a write lands, for ETags" (services/series_chart.py, Extent.version): a browser
\* that is answered 304 keeps a chart that shows every write that was recorded, whatever order the
\* writers record in.
NotModifiedIsFresh ==
    \A v \in Viewers : viewer[v].tag = Version =>
        \A t \in Window : cachedRows[t] \in recorded => viewer[v].body[t] = cachedRows[t]
=============================================================================
