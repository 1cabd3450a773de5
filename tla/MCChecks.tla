------------------------------ MODULE MCChecks ------------------------------
(***************************************************************************)
(* What connectors find and read, what becomes of files, of a series'      *)
(* samples in the cache and in the core, and of the findings on it,        *)
(* checked side by side: the eight share no state, and every behaviour is  *)
(* about the one it has drawn at its beginning.                            *)
(***************************************************************************)
EXTENDS Findings, Frames, Ingest, Cache, Spans, Scores, HistoryReads, Browse, TLC

CONSTANTS r1, r2, r3, s1, u1, t1, t2

VARIABLE part  \* the one this behaviour is about

Drawn == {"findings", "frames", "ingest", "cache", "spans", "scores", "history", "browse"}

checksVars == <<part, vars, frameVars, ingestVars, cacheVars, spanVars, reports, historyVars, browseVars>>

\* What the history and the address space are while another part is drawn.
FirstWindow == [start |-> 0, end |-> 6]
SomeArchive == <<0, 0, 2, 2>>
SomeSpace   == <<<<2, 3, 7>>, <<5>>, <<4>>, <<5>>, <<6>>, <<3>>, <<>>, <<>>>>

ChecksInit ==
    /\ part \in Drawn
    /\ Init /\ (part # "findings" => \A r \in Runs, s \in Series : report[r][s] = <<>>)
    /\ FramesInit /\ IngestInit /\ CacheInit /\ ScoresInit
    /\ SpansInit /\ (part # "spans" => shortest = GridNs)
    /\ BrowseInit /\ (part # "browse" => space = SomeSpace)
    /\ part # "history" =>
         /\ protocol = "pi" /\ webIds = {} /\ asked = FirstWindow
         /\ archive = [p \in HistoryPoints |-> SomeArchive]
    /\ HistoryInit

ChecksNext ==
    \/ /\ part = "findings" /\ Next
       /\ UNCHANGED <<part, frameVars, ingestVars, cacheVars, spanVars, reports, historyVars, browseVars>>
    \/ /\ part = "frames" /\ FramesNext
       /\ UNCHANGED <<part, vars, ingestVars, cacheVars, spanVars, reports, historyVars, browseVars>>
    \/ /\ part = "ingest" /\ IngestNext
       /\ UNCHANGED <<part, vars, frameVars, cacheVars, spanVars, reports, historyVars, browseVars>>
    \/ /\ part = "cache" /\ CacheNext
       /\ UNCHANGED <<part, vars, frameVars, ingestVars, spanVars, reports, historyVars, browseVars>>
    \/ /\ part = "spans" /\ SpansNext
       /\ UNCHANGED <<part, vars, frameVars, ingestVars, cacheVars, reports, historyVars, browseVars>>
    \/ /\ part = "scores" /\ ScoresNext
       /\ UNCHANGED <<part, vars, frameVars, ingestVars, cacheVars, spanVars, historyVars, browseVars>>
    \/ /\ part = "history" /\ HistoryNext
       /\ UNCHANGED <<part, vars, frameVars, ingestVars, cacheVars, spanVars, reports, browseVars>>
    \/ /\ part = "browse" /\ BrowseNext
       /\ UNCHANGED <<part, vars, frameVars, ingestVars, cacheVars, spanVars, reports, historyVars>>

ChecksSpec == ChecksInit /\ [][ChecksNext]_checksVars

\* The runs all upload the same series and may report the same.
ChecksSymmetry == Permutations(Runs)

-----------------------------------------------------------------------------
(* Values *)

\* Core windows in nanoseconds, two of them to a microsecond: the second and third need
\* rounding, the third overlaps both others, the last two are about something else and one of
\* them is a single instant.
Finding(subject, start, end) == [check |-> "gap", subject |-> subject, start |-> start, end |-> end]
Even      == Finding("x", 2, 4)
Rounded   == Finding("x", 5, 7)
Across    == Finding("x", 1, 6)
Other     == Finding("y", 2, 4)
Instant   == Finding("y", 2, 2)

ThreeReports == {<<>>, <<Even>>, <<Across>>, <<Even, Rounded>>, <<Instant, Across, Other>>}
OneSeries    == [r \in Runs |-> <<s1>>]
OwnKey       == [s \in Series |-> s]

\* What is delivered: a number at any instant, and at some a null, an infinity, and two other qualities;
\* `uncertain` is used like `bad` but for its rank in the rug.
Numbers     == {<<t, "a", "good">> : t \in 0..(Width - 1)}
OtherKinds  == {<<1, "nan", "good">>, <<4, "nan", "good">>, <<1, "inf", "good">>,
                <<0, "b", "bad">>, <<1, "b", "bad">>, <<3, "b", "bad">>,
                <<1, "a", "estimated">>, <<2, "a", "estimated">>}
FiveKinds   == {[ts |-> x[1], value |-> x[2], quality |-> x[3]] : x \in Numbers \union OtherKinds}

\* The first content of the first file cannot be read.
FirstOfOne == {<<1, 1>>}

\* What is written within a month, over two of them and at the last instant there is; what is
\* read without an end, within a month, up to its end, and of nothing.
WrittenFrames == {{0, 1}, {1, 2, 3}, {3}}
ReadRanges    == {<<0, 3>>, <<1, 2>>, <<0, 2>>, <<1, 1>>}

\* Windows of findings: across either end of the evaluation, inside it, all of it, an instant.
WindowsOfFindings == {<<0, 2>>, <<1, 3>>, <<2, 4>>, <<1, 4>>, <<3, 5>>, <<2, 2>>}

\* Values that share a stamp across the end of a page of three, or fill one; stamps that are
\* not whole ticks, at an OPC UA server.  Windows that begin or end within a tick.
HeldValues   == {SomeArchive, <<2, 2, 2, 4>>, <<1, 3, 4, 5>>}
TwoWindows == {FirstWindow, [start |-> 1, end |-> 5]}

\* Nodes 2 to 5 are reached on several ways, of different lengths, and some are on a cycle.
MixedSpaces == {<<a, b, c, d, e, <<3>>, g, <<>>>> :
    a \in {<<2, 3, 7>>, <<2>>}, b \in {<<5>>, <<4, 2>>, <<3, 7, 4>>}, c \in {<<4>>, <<7, 5>>},
    d \in {<<5>>, <<1, 6>>}, e \in {<<6>>, <<4, 7>>}, g \in {<<>>, <<8>>}}

-----------------------------------------------------------------------------
(* The properties that are stated of several of them *)

\* The state of the part a behaviour is about has its type.
ChecksTypeOK ==
    /\ part = "findings" => TypeOK
    /\ part = "frames"   => FramesTypeOK
    /\ part = "ingest"   => IngestTypeOK
    /\ part = "cache"    => CacheTypeOK
    /\ part = "spans"    => SpansTypeOK
    /\ part = "scores"   => ScoresTypeOK
    /\ part = "history"  => HistoryTypeOK
    /\ part = "browse"   => BrowseTypeOK

\* What is computed is exactly what its definition says: the frame of a delivery
\* (frame.rs:131-242), the windows the checks report, on samples (completeness.rs:59-78,
\* quality_flags.rs:58-90, checks/mod.rs:93-174) as on bins (cross.rs:187-215,
\* spikes.rs:145-168), what scores make of windows that overlap (score.rs:50-129), and what a
\* search finds (opc_ua/connector.py:196-229).
AnswersAreExact ==
    /\ part = "frames" => FramesNormalize /\ WindowsAreExact
    /\ part = "spans" => SpansAreExact
    /\ part = "scores" => ScoresAreFair
    /\ part = "browse" => SearchFindsAll
=============================================================================
