-------------------------------- MODULE Spans --------------------------------
(***************************************************************************)
(* How the core makes findings of flagged bins and flagged samples: the    *)
(* episodes of a cross-series check (core cross.rs, episodes) and the      *)
(* clusters of spikes (core checks/spikes.rs).  The bins of a series come  *)
(* one after the other, each flagged, plain or without a value; the        *)
(* algorithms walk over the bins there are, and the properties say of each *)
(* pair of bins whether one finding has both.                              *)
(***************************************************************************)
EXTENDS Integers, FiniteSets, FiniteSetsExt, SequencesExt, Walks

CONSTANTS
    MaxBins,    \* bound of the bins
    GridNs,     \* the length of a bin
    Durations,  \* values of min_duration and of cluster_gap
    MaxWidth    \* the longest run of hits that are spikes

ASSUME SpansAssumption ==
    MaxBins \in Nat /\ GridNs \in Nat \ {0} /\ MaxWidth \in Nat /\ Durations \subseteq Nat \ {0}

VARIABLES
    bins,        \* what is known of each bin so far
    shortest     \* the min_duration of the check, or its cluster_gap

spanVars == <<bins, shortest>>

\* The type invariant.
SpansTypeOK ==
    /\ bins \in Seq({"flagged", "plain", "absent"}) /\ Len(bins) <= MaxBins
    /\ shortest \in Durations

SpansInit == bins = <<>> /\ shortest \in Durations

\* The next bin.
NextBin ==
    /\ Len(bins) < MaxBins
    /\ \E b \in {"flagged", "plain", "absent"} : bins' = Append(bins, b)
    /\ UNCHANGED shortest

SpansNext == NextBin
SpansSpec == SpansInit /\ [][SpansNext]_spanVars

-----------------------------------------------------------------------------
(* Episodes of bins *)

\* The starts of the bins that count, in order.
CountedBins == InOrder(Len(bins), {i \in DOMAIN bins : bins[i] # "absent"})
Counted     == LET counted == CountedBins IN [k \in DOMAIN counted |-> counted[k] * GridNs]

IsFlagged(t) == bins[t \div GridNs] = "flagged"
FlaggedAmong(ts) == {i \in DOMAIN ts : IsFlagged(ts[i])}

\* Mutant of Continues: bins without a value between two flagged ones are passed over.
ContinuesAnyway(ts, run, i) == run[2] = i - 1

\* Bin i goes on with the run of the bin before it.
Continues(ts, run, i) == run[2] = i - 1 /\ ts[i] - ts[i - 1] = GridNs

\* The windows of the runs of flagged bins, in order.
FlaggedRuns(ts) == RunsAmong(Len(ts), FlaggedAmong(ts), {x \in RunsAndNext(Len(ts)) : Continues(ts, x[1], x[2])})
RunWindows(ts) ==
    LET runs == FlaggedRuns(ts)
    IN  [k \in DOMAIN runs |-> [start |-> ts[runs[k][1]], end |-> ts[runs[k][2]] + GridNs]]

\* Those that are long enough.
Lasts(w) == w.end - w.start >= shortest
Lasting(windows) ==
    LET at == InOrder(Len(windows), {k \in DOMAIN windows : Lasts(windows[k])})
    IN  [k \in DOMAIN at |-> windows[at[k]]]

\* Mutant of Joins: a gap as long as the shortest episode is closed as well.
JoinsAt(windows, episode, k) == windows[k].start - windows[episode[2]].end <= shortest

\* The window is so close to the episode before it that they are one.
Joins(windows, episode, k) == windows[k].start - windows[episode[2]].end < shortest

\* The windows, merged.
Merging(windows) ==
    LET n == Len(windows)
        episodes == RunsAmong(n, 1..n, {x \in RunsAndNext(n) : Joins(windows, x[1], x[2])})
    IN  [k \in DOMAIN episodes |-> [start |-> windows[episodes[k][1]].start, end |-> windows[episodes[k][2]].end]]

\* Mutant of EpisodesOf: merges first, and drops what is too short then.
EpisodesOfMergedFirst(ts) == Lasting(Merging(RunWindows(ts)))

\* episodes: runs that are too short are dropped, then those that are left merge.
EpisodesOf(ts) == Merging(Lasting(RunWindows(ts)))

-----------------------------------------------------------------------------
(* Clusters of spikes: here a bin is a sample, one without a value is no sample *)

\* Runs of hits of samples that follow each other.
FollowsHit(run, i) == run[2] + 1 = i
HitRuns(ts) == RunsAmong(Len(ts), FlaggedAmong(ts), {x \in RunsAndNext(Len(ts)) : FollowsHit(x[1], x[2])})

\* Mutant of IsSpikes: a run one longer than allowed.
IsSpikesLonger(run) == run[2] - run[1] + 1 <= MaxWidth + 1

\* A run of hits is spikes, or else an excursion.
Widest == IF MaxWidth > 1 THEN MaxWidth ELSE 1
IsSpikes(run) == run[2] - run[1] + 1 <= Widest

Spikes(ts) == InOrder(Len(ts), UNION {run[1]..run[2] : run \in {r \in Range(HitRuns(ts)) : IsSpikes(r)}})

\* Mutant of Close: measured from the first spike of the cluster.
CloseToFirst(ts, spikes, cluster, k) == ts[spikes[k]] - ts[spikes[cluster[1]]] <= shortest

\* The spike belongs to the cluster before it.
Close(ts, spikes, cluster, k) == ts[spikes[k]] - ts[spikes[cluster[2]]] <= shortest

\* The clusters, as sets of samples.
Clusters(ts) ==
    LET spikes   == Spikes(ts)
        n        == Len(spikes)
        clusters == RunsAmong(n, 1..n, {x \in RunsAndNext(n) : Close(ts, spikes, x[1], x[2])})
    IN  [c \in DOMAIN clusters |-> {spikes[k] : k \in clusters[c][1]..clusters[c][2]}]

-----------------------------------------------------------------------------
(* Properties *)

\* Of bins a to b, each is flagged; and no more of them around.
RunBetween(a, b) ==
    /\ \A i \in a..b : bins[i] = "flagged"
    /\ a = 1 \/ bins[a - 1] # "flagged"
    /\ b = Len(bins) \/ bins[b + 1] # "flagged"
LongRuns == {r \in (DOMAIN bins) \X (DOMAIN bins) :
               r[1] <= r[2] /\ RunBetween(r[1], r[2]) /\ (r[2] - r[1] + 1) * GridNs >= shortest}

\* "Runs of consecutive flagged bins shorter than `min_duration` are dropped first, then the
\* remaining runs merge when the gap between them is shorter than `min_duration`"
\* (cross.rs:184-186): an episode begins where a long run begins and none ends shortly before
\* it, it ends where a long run ends and none begins shortly after it, and between two
\* episodes no long run is left out.
EpisodesAreRuns ==
    LET episodes == EpisodesOf(Counted)
        Begins(r) == \A q \in LongRuns : q[2] < r[1] => (r[1] - q[2] - 1) * GridNs >= shortest
        Finishes(r) == \A q \in LongRuns : q[1] > r[2] => (q[1] - r[2] - 1) * GridNs >= shortest
    IN  /\ {e.start : e \in Range(episodes)} = {r[1] * GridNs : r \in {q \in LongRuns : Begins(q)}}
        /\ {e.end : e \in Range(episodes)} = {(r[2] + 1) * GridNs : r \in {q \in LongRuns : Finishes(q)}}
        /\ \A i \in 1..(Len(episodes) - 1) : episodes[i].end < episodes[i + 1].start

\* Two spikes are in one cluster exactly if no two spikes next to each other between them are
\* further apart than the gap (spikes.rs:6-7), a spike is in one cluster only, and a hit is a
\* spike exactly if it and the hits around it are no more than the width ("Longer runs are
\* excursions", spikes.rs:4).
ClustersAreClose ==
    LET ts       == Counted
        clusters == Clusters(ts)
        spikes   == Range(Spikes(ts))
        Next(i)  == Min({j \in spikes : j > i})
        IsHit(i) == i \in DOMAIN ts /\ IsFlagged(ts[i])
    IN  /\ \A i, j \in spikes : i < j =>
             ((\E c \in DOMAIN clusters : {i, j} \subseteq clusters[c])
                <=> \A k \in spikes : i <= k /\ k < j => ts[Next(k)] - ts[k] <= shortest)
        /\ \A i \in spikes : Cardinality({c \in DOMAIN clusters : i \in clusters[c]}) = 1
        /\ spikes = {i \in DOMAIN ts : IsHit(i) /\
                       ~\E a \in 1..Len(ts) : a <= i /\ i <= a + Widest
                                              /\ \A k \in a..(a + Widest) : IsHit(k)}

SpansAreExact == EpisodesAreRuns /\ ClustersAreClose
=============================================================================
