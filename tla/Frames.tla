------------------------------- MODULE Frames -------------------------------
(***************************************************************************)
(* What the checks make of one series (tabayyun-core: frame.rs,            *)
(* checks/mod.rs, completeness.rs, timestamp_integrity.rs,                 *)
(* quality_flags.rs, downsample.rs).                                       *)
(*                                                                         *)
(* The only state is the series as its source delivered it, sample by      *)
(* sample, in any order and with repeated instants.  Everything else is    *)
(* computed from it in one evaluation over the window [0, Width).          *)
(*                                                                         *)
(* Values are compared, never computed with: a value is a name, among them *)
(* "nan" and "inf".  Positions in a frame count from 1; runs of positions  *)
(* and windows of instants are half-open pairs.                            *)
(***************************************************************************)
EXTENDS Integers, FiniteSets, SequencesExt, Walks

CONSTANTS
    Width,          \* the evaluation window is [0, Width)
    Samples,        \* what may be delivered: an instant of the window, a value, a quality
    MaxSamples,     \* bound on the samples delivered
    Interval,       \* the expected interval
    GapThreshold,   \* the longest time between samples that is no gap
    FlagLimit,      \* the share of one quality, in percent, that is tolerated
    SegmentLength,  \* segment_ns
    Buckets         \* bins of a chart

Flags     == {"uncertain", "bad", "estimated"}
Qualities == {"good"} \union Flags

ASSUME FramesAssumption ==
    /\ Width \in Nat \ {0} /\ MaxSamples \in Nat /\ Interval \in Nat /\ GapThreshold \in Nat
    /\ FlagLimit \in 0..100 /\ SegmentLength \in Nat \ {0} /\ Buckets \in Nat \ {0}
    /\ \A x \in Samples : /\ DOMAIN x = {"ts", "value", "quality"}
                          /\ x.ts \in 0..(Width - 1) /\ x.quality \in Qualities

VARIABLE delivered

frameVars == <<delivered>>

FramesInit == delivered = <<>>

\* A sample is pushed to the end of the frame, whatever its instant.
Deliver ==
    /\ Len(delivered) < MaxSamples
    /\ \E x \in Samples : delivered' = Append(delivered, x)

FramesNext == Deliver

FramesSpec == FramesInit /\ [][FramesNext]_frameVars

-----------------------------------------------------------------------------
(* The normalized frame *)

\* Mutant of ComesBefore: samples of one instant change places.
ComesBeforeUnstable(s, i, j) == s[i].ts < s[j].ts \/ (s[i].ts = s[j].ts /\ i > j)

\* The order of the stable sort by instant.
ComesBefore(s, i, j) == s[i].ts < s[j].ts \/ (s[i].ts = s[j].ts /\ i < j)

\* The samples in that order, as positions.
Order(s) ==
    [k \in DOMAIN s |-> CHOOSE i \in DOMAIN s : Cardinality({j \in DOMAIN s : ComesBefore(s, j, i)}) = k - 1]

\* The first sample of an instant is kept; every other one is an exact duplicate of it or conflicts.
Keep(at, x) ==
    CASE at.frame = <<>> \/ Last(at.frame).ts # x.ts -> [at EXCEPT !.frame = Append(@, x)]
      [] OTHER -> LET kept == Last(at.frame)
                  IN  IF kept.value = x.value /\ kept.quality = x.quality
                      THEN [at EXCEPT !.exact = @ + 1]
                      ELSE [at EXCEPT !.conflicting = @ + 1]

Normalized(s) ==
    FoldLeft(LAMBDA at, i : Keep(at, s[i]), [frame |-> <<>>, exact |-> 0, conflicting |-> 0], Order(s))

Frame == Normalized(delivered).frame

Finite(x)  == x.value \notin {"nan", "inf"}
Usable(x)  == x.quality \in {"good", "estimated"}

\* The instants of the samples that count as present.
Present(f) ==
    LET present == InOrder(Len(f), {i \in DOMAIN f : Usable(f[i]) /\ Finite(f[i])})
    IN  [k \in DOMAIN present |-> f[present[k]].ts]

-----------------------------------------------------------------------------
(* Timestamp integrity: duplicates counted in the order of delivery *)

\* The sample that first had the instant of the i-th.
FirstSeen(s, i) == CHOOSE j \in 1..i : s[j].ts = s[i].ts /\ \A k \in 1..(j - 1) : s[k].ts # s[i].ts
Repeated(s) == {i \in DOMAIN s : FirstSeen(s, i) < i}

\* The difference of two values is within a tolerance of zero; the difference of two infinite
\* values is no number.
SameValue(v, w) == v = w /\ v # "inf"

\* Mutant of ExactRepeats: the quality is not compared.
ExactRepeatsOfValue(s) == {i \in Repeated(s) : SameValue(s[FirstSeen(s, i)].value, s[i].value)}

ExactRepeats(s) == {i \in Repeated(s) : /\ SameValue(s[FirstSeen(s, i)].value, s[i].value)
                                        /\ s[FirstSeen(s, i)].quality = s[i].quality}

-----------------------------------------------------------------------------
(* Completeness: gaps between present samples and the ends of the window *)

Latest(a, b) == IF a < b THEN b ELSE a

\* The next present sample, or the end of the window.
GapBefore(at, t) ==
    [gaps |-> IF t - at.prev > GapThreshold THEN Append(at.gaps, <<at.prev, t>>) ELSE at.gaps,
     prev |-> Latest(at.prev, t)]

\* Mutant of Gaps: what comes before the first sample is no gap.
GapsBetween(f) ==
    LET start == IF Present(f) = <<>> THEN 0 ELSE Present(f)[1]
    IN  FoldLeft(GapBefore, [gaps |-> <<>>, prev |-> start], Append(Present(f), Width)).gaps

Gaps(f) == FoldLeft(GapBefore, [gaps |-> <<>>, prev |-> 0], Append(Present(f), Width)).gaps

-----------------------------------------------------------------------------
(* Runs and their windows: quality flags *)

\* A run that is open begins at `start`; none is when that is zero.
NextPosition(holds, at, i) ==
    CASE i \in holds /\ at.start = 0    -> [at EXCEPT !.start = i]
      [] i \notin holds /\ at.start # 0 -> [runs |-> Append(at.runs, <<at.start, i>>), start |-> 0]
      [] OTHER                          -> at
RunsUpTo(n, holds) ==
    FoldLeft(LAMBDA at, i : NextPosition(holds, at, i), [runs |-> <<>>, start |-> 0], [i \in 1..n |-> i])

\* Mutant of RunsWhere: a run that is still open at the end is forgotten.
RunsWhereClosed(n, holds) == RunsUpTo(n, holds).runs

\* runs_where: the maximal runs of positions in `holds`.
RunsWhere(n, holds) ==
    LET walked == RunsUpTo(n, holds)
    IN  IF walked.start = 0 THEN walked.runs ELSE Append(walked.runs, <<walked.start, n + 1>>)

\* Mutant of RunWindow: the last sample of the frame ends the window.
RunWindowBare(f, run) == <<f[run[1]].ts, IF run[2] <= Len(f) THEN f[run[2]].ts ELSE f[run[2] - 1].ts>>

\* run_window: up to the next sample, or one interval past the last.
RunWindow(f, run) ==
    LET end == IF run[2] <= Len(f) THEN f[run[2]].ts ELSE f[run[2] - 1].ts + Latest(Interval, 1)
    IN  <<f[run[1]].ts, Latest(end, f[run[1]].ts + 1)>>

\* The runs of a quality whose share is above the limit, and their windows.
Flagged(f, q) == {i \in DOMAIN f : f[i].quality = q}
TooMany(f, q) == Cardinality(Flagged(f, q)) * 100 > FlagLimit * Len(f)
FlagWindows(f, q) ==
    IF TooMany(f, q) THEN {RunWindow(f, r) : r \in Range(RunsWhere(Len(f), Flagged(f, q)))} ELSE {}

-----------------------------------------------------------------------------
(* Segments and the episodes flagged segments merge into *)

SegmentIndex(f, i) == (f[i].ts - f[1].ts) \div SegmentLength

\* segments: the frame split into its segments that have samples, with their windows.
Segments(f) ==
    LET starts == InOrder(Len(f), {i \in DOMAIN f : i = 1 \/ SegmentIndex(f, i) # SegmentIndex(f, i - 1)})
        End(k) == IF k < Len(starts) THEN starts[k + 1] ELSE Len(f) + 1
    IN  [k \in DOMAIN starts |-> [index  |-> SegmentIndex(f, starts[k]),
                                  window |-> <<f[starts[k]].ts, f[End(k) - 1].ts + 1>>]]

\* Mutant of Follows: one segment in between does not separate.
FollowsLoosely(last, k) == k <= last + 2

\* Whether the k-th segment goes on with an episode that has come to the segment `last`.
Follows(last, k) == k = last + 1

\* The k-th segment goes on with the last episode or begins one.
JoinSegment(segments, out, k) ==
    IF out # <<>> /\ Follows(Last(Last(out).items), k)
    THEN [out EXCEPT ![Len(out)] = [items  |-> Append(@.items, k),
                                    window |-> <<@.window[1], Latest(@.window[2], segments[k].window[2])>>]]
    ELSE Append(out, [items |-> <<k>>, window |-> segments[k].window])

\* episodes: the flagged segments, numbered by their place in the list, merged.
Episodes(segments, flagged) ==
    FoldLeft(LAMBDA out, k : JoinSegment(segments, out, k), <<>>, InOrder(Len(segments), flagged))

-----------------------------------------------------------------------------
(* The rug of a chart: non-good quality at the resolution of bins *)

BinOf(t)    == (t * Buckets) \div Width
BinStart(b) == (Width * b) \div Buckets

RugRank == [good |-> 0, uncertain |-> 1, estimated |-> 2, bad |-> 3]

\* Mutant of Worse: the last class seen in a bin stays.
Latter(q, r) == r
Worse(q, r)  == IF RugRank[r] > RugRank[q] THEN r ELSE q

\* One sample: a bin that holds non-good samples has its worst class, and says whether a good
\* sample lies between it and the bin before.
MarkSample(at, x) ==
    IF x.quality = "good" THEN [at EXCEPT !.good = TRUE]
    ELSE [good |-> FALSE,
          bins |-> IF at.bins # <<>> /\ Last(at.bins).bin = BinOf(x.ts)
                   THEN [at.bins EXCEPT ![Len(at.bins)].quality = Worse(@, x.quality)]
                   ELSE Append(at.bins, [bin |-> BinOf(x.ts), quality |-> x.quality, broken |-> at.good])]
RugBins(f) == FoldLeft(MarkSample, [bins |-> <<>>, good |-> FALSE], f).bins

\* One bin goes on with the last run or begins one.
JoinBin(runs, b) ==
    IF runs # <<>> /\ Last(runs).quality = b.quality /\ ~b.broken
    THEN [runs EXCEPT ![Len(runs)].end = BinStart(b.bin + 1)]
    ELSE Append(runs, [start |-> BinStart(b.bin), end |-> BinStart(b.bin + 1), quality |-> b.quality])

\* quality_runs
QualityRuns(f) == FoldLeft(JoinBin, <<>>, RugBins(f))

-----------------------------------------------------------------------------
(* Properties *)

\* The type invariant: samples are delivered, and every window the checks report is a range of
\* at least one instant that starts in the evaluation window and ends at most one interval
\* behind it.
ReportedWindows(f) ==
    Range(Gaps(f)) \union {s.window : s \in Range(Segments(f))} \union (UNION {FlagWindows(f, q) : q \in Flags})
FramesTypeOK ==
    /\ delivered \in Seq(Samples) /\ Len(delivered) <= MaxSamples
    /\ \A w \in ReportedWindows(Frame) : w[1] \in 0..(Width - 1) /\ w[2] \in (w[1] + 1)..(Width + Interval)

\* "Conflicting duplicates (same ts, different value) are kept (first wins for value checks)"
\* (frame.rs): the normalized frame has every delivered instant once, in order, with the sample
\* that came first, and every other sample is counted once.
NormalizedKeepsFirst ==
    LET n == Normalized(delivered) IN
    /\ {x.ts : x \in Range(n.frame)} = {x.ts : x \in Range(delivered)}
    /\ \A k \in 2..Len(n.frame) : n.frame[k - 1].ts < n.frame[k].ts
    /\ \A x \in Range(n.frame) : \E i \in DOMAIN delivered :
          delivered[i] = x /\ \A j \in 1..(i - 1) : delivered[j].ts # x.ts
    /\ Len(n.frame) + n.exact + n.conflicting = Len(delivered)

\* The duplicates are "counted so `timestamp_integrity` can report them" (frame.rs): what the
\* normalization counts after sorting is what the check counts in the order of delivery, as long
\* as no infinite value is delivered twice.
DuplicatesAgree ==
    LET n == Normalized(delivered) IN
    (\A x \in Range(delivered) : x.value # "inf") =>
        /\ n.exact = Cardinality(ExactRepeats(delivered))
        /\ n.conflicting = Cardinality(Repeated(delivered) \ ExactRepeats(delivered))

\* "Leading / trailing gaps relative to the evaluation window count too" (completeness.rs): the
\* gaps are the stretches between neighbouring present samples or ends of the window that are
\* longer than the threshold, all of them, each once; whatever was out of order, repeated, bad
\* or null.
GapsAreExact ==
    LET f == Frame
        present == {x.ts : x \in {y \in Range(f) : Usable(y) /\ Finite(y)}}
        ends == {0, Width} \union present
        gaps == Gaps(f)
    IN  /\ Range(gaps) = {e \in ends \X ends :
              e[2] - e[1] > GapThreshold /\ \A t \in present : ~(e[1] < t /\ t < e[2])}
        /\ \A k \in 2..Len(gaps) : gaps[k - 1][2] <= gaps[k][1]

\* The windows of flagged samples tell flagged from unflagged: a sample is inside a window of
\* its own quality if that is reported at all, and never inside one of another quality; no two
\* windows overlap, so that no time is held against a series twice.
FlagWindowsExact ==
    LET f == Frame
        Inside(t, w) == w[1] <= t /\ t < w[2]
        all == UNION {{<<q, w>> : w \in FlagWindows(f, q)} : q \in Flags}
    IN  /\ \A x \in Range(f), q \in {p \in Flags : TooMany(f, p)} :
              (\E v \in all : v[1] = q /\ Inside(x.ts, v[2])) <=> x.quality = q
        /\ \A v, w \in all : v # w => v[2][2] <= w[2][1] \/ w[2][2] <= v[2][1]

\* "A shift that lasts a month is one finding" (checks/mod.rs): whichever segments are flagged,
\* every flagged one is in one episode, no episode spans one that is not flagged, and episodes do
\* not overlap.
EpisodesFollowFlags ==
    LET segments == Segments(Frame)
        Within(v, w) == w[1] <= v[1] /\ v[2] <= w[2]
    IN  \A flagged \in SUBSET DOMAIN segments :
            LET out == Episodes(segments, flagged) IN
            /\ \A k \in DOMAIN segments :
                  Cardinality({e \in DOMAIN out : Within(segments[k].window, out[e].window)}) =
                      (IF k \in flagged THEN 1 ELSE 0)
            /\ \A e \in 2..Len(out) : out[e - 1].window[2] <= out[e].window[1]

\* "Each bin holding a non-good sample takes its worst class" and bins merge "unless a good sample
\* lies between them" (downsample.rs): every non-good sample is under a run of its class or a worse
\* one, a good sample is under a run only together with a non-good one of its bin, and runs follow
\* each other.  Bins that do not divide the window round down, so a run may end at the last
\* instant of its last bin and begin at the last one before its first bin.
RugMarksFlags ==
    LET f == Frame
        runs == QualityRuns(f)
    IN
    /\ \A x \in Range(f) : x.quality # "good" =>
          \E r \in Range(runs) : r.start <= x.ts /\ x.ts <= r.end /\ RugRank[r.quality] >= RugRank[x.quality]
    /\ \A x \in Range(f), r \in Range(runs) :
          x.quality = "good" /\ r.start < x.ts /\ x.ts < r.end =>
              \E y \in Range(f) : y.quality # "good" /\ BinOf(y.ts) = BinOf(x.ts)
    /\ \A k \in 2..Len(runs) : runs[k - 1].end <= runs[k].start

-----------------------------------------------------------------------------
(* A claim of the repository that the code does not keep *)

\* "Segment checks merge consecutive flagged segments into one finding whose window spans them"
\* (ADR-0011): no time without samples, a whole segment long, lies inside an episode.
EpisodesAreConsecutive ==
    LET segments == Segments(Frame) IN
    \A flagged \in SUBSET DOMAIN segments : \A e \in Range(Episodes(segments, flagged)) :
        \A k \in 2..Len(e.items) : segments[e.items[k]].index = segments[e.items[k - 1]].index + 1

\* What value checks see and what is counted as a duplicate do not depend on the order of
\* delivery (frame.rs:179-214, timestamp_integrity.rs:62-86).
FramesNormalize == NormalizedKeepsFirst /\ DuplicatesAgree

\* The windows of gaps, of flagged samples and of episodes, and the marks of the rug, are exact
\* (completeness.rs:68-78, checks/mod.rs:93-174, downsample.rs:159-207).
WindowsAreExact == GapsAreExact /\ FlagWindowsExact /\ EpisodesFollowFlags /\ RugMarksFlags
=============================================================================
