----------------------------- MODULE HistoryReads -----------------------------
(***************************************************************************)
(* One fetch call of a connector: the history of several points within a   *)
(* window, page by page.  PI Web API is asked for one point after the      *)
(* other, by time: it answers the earliest values and does not say that it *)
(* has cut the answer short, so that the next page starts at the last time *)
(* stamp and skips by count what it repeats.  An OPC UA server is asked    *)
(* for all points at once and hands out continuation points.  Points fail  *)
(* one by one; what concerns the whole server fails the call.              *)
(*                                                                         *)
(* A value is its position in the archive of its point, which is in the    *)
(* order of time; new values arrive at its end while the call is under     *)
(* way.  PI's stamps are whole ticks; those of an OPC UA server may be     *)
(* finer than what the client library keeps.                               *)
(***************************************************************************)
EXTENDS Integers, Sequences, FiniteSets, FiniteSetsExt

CONSTANTS
    HistoryPoints,  \* the points of the call: numbers, in the order in which they are asked for
    SourceTick,     \* nanoseconds in a tick: 100 for PI, 1000 for the OPC UA client
    PageSize,       \* max_count, max_values
    Archives,       \* what a point may hold when the call begins: stamps in their order
    ReadWindows,    \* the windows [start, end) that are fetched
    MostHeld, LastHeld  \* bounds: values of a point, and their stamps

ASSUME HistoryAssumption ==
    /\ IsFiniteSet(HistoryPoints) /\ HistoryPoints \subseteq Nat
    /\ SourceTick \in Nat \ {0} /\ PageSize \in Nat \ {0}
    /\ MostHeld \in Nat /\ LastHeld \in Int
    /\ Archives \subseteq Seq(Int)
    /\ \A held \in Archives :
         Len(held) <= MostHeld /\ \A i, j \in 1..Len(held) : i <= j => held[i] <= held[j]
    /\ \A w \in ReadWindows : w.start \in Int /\ w.end \in Int /\ w.start < w.end

VARIABLES
    protocol,  \* of the source
    archive,   \* what each point holds
    asked,     \* the window
    webIds,    \* the points whose WebId the PI connector knows
    call,      \* how far the call is
    outcome,   \* how far each point is
    cursor,    \* PI: where the next page of a point starts and how many values there were read
    place,     \* OPC UA: what the continuation point stands for
    before,    \* history: how many values each point held when the call began
    given      \* history: how often each value was given out

historyVars == <<protocol, archive, asked, webIds, call, outcome, cursor, place, before, given>>

Held(p) == 1..Len(archive[p])

\* The type invariant; archives are in the order of time.
HistoryTypeOK ==
    /\ protocol \in {"pi", "opc"} /\ asked \in ReadWindows /\ webIds \subseteq HistoryPoints
    /\ call \in {"asked", "reading", "raised", "stuck"}
    /\ outcome \in [HistoryPoints -> {"asked", "reading", "read", "failed"}]
    /\ cursor \in [HistoryPoints -> [at : Int, seen : Nat]]
    /\ archive \in [HistoryPoints -> Seq(Int)]
    /\ place \in [HistoryPoints -> Nat] /\ before \in [HistoryPoints -> Nat]
    /\ given \in [HistoryPoints -> [1..MostHeld -> Nat]]
    /\ \A p \in HistoryPoints :
         /\ Len(archive[p]) <= MostHeld /\ before[p] <= Len(archive[p]) /\ place[p] <= Len(archive[p])
         /\ \A i, j \in Held(p) : i <= j => archive[p][i] <= archive[p][j]
         /\ protocol = "pi" => \A i \in Held(p) : archive[p][i] % SourceTick = 0

-----------------------------------------------------------------------------
(* Time *)

\* format_time, from_ns: rounded down, or up, to a tick.
Down(t) == SourceTick * (t \div SourceTick)
Up(t)   == - Down(- t)

\* parse_time, to_ns: the stamp a value has for the connector.
StampOf(p, i) == Down(archive[p][i])

\* Whether the value belongs to the window.
InAsked(p, i) == asked.start <= StampOf(p, i) /\ StampOf(p, i) < asked.end

Give(p, values) == [i \in 1..MostHeld |-> given[p][i] + IF i \in values THEN 1 ELSE 0]

-----------------------------------------------------------------------------
(* The beginning, and what the server does on its own *)

HistoryInit ==
    /\ protocol \in {"pi", "opc"} /\ archive \in [HistoryPoints -> Archives]
    /\ protocol = "pi" => \A p \in HistoryPoints : \A i \in Held(p) : archive[p][i] % SourceTick = 0
    /\ asked \in ReadWindows
    /\ webIds \in SUBSET HistoryPoints /\ (protocol = "opc" => webIds = {})
    /\ call = "asked" /\ outcome = [p \in HistoryPoints |-> "asked"]
    /\ cursor = [p \in HistoryPoints |-> [at |-> asked.start, seen |-> 0]]
    \* An OPC UA server begins with the first value of the window it is asked for.
    /\ place = [p \in HistoryPoints |-> Cardinality({i \in Held(p) : archive[p][i] < Down(asked.start)})]
    /\ before = [p \in HistoryPoints |-> Len(archive[p])]
    /\ given = [p \in HistoryPoints |-> [i \in 1..MostHeld |-> 0]]

\* A value arrives, not before those that are there.
Arrive(p) ==
    /\ call = "reading" /\ Len(archive[p]) < MostHeld
    /\ \E t \in Down(asked.start)..LastHeld :
         /\ \A i \in Held(p) : archive[p][i] <= t
         /\ protocol = "pi" => t % SourceTick = 0
         /\ archive' = [archive EXCEPT ![p] = Append(@, t)]
    /\ UNCHANGED <<protocol, asked, webIds, call, outcome, cursor, place, before, given>>

\* The server cannot be reached, refuses, times out or answers what cannot be understood; a
\* lookup keeps the WebIds it came to see before that.
Raise ==
    /\ call = "asked" \/ (call = "reading" /\ \E p \in HistoryPoints : outcome[p] = "reading")
    /\ call' = "raised"
    /\ \E found \in SUBSET (HistoryPoints \ webIds) :
         /\ webIds' = webIds \union found
         /\ found # {} => protocol = "pi" /\ call = "asked"
    /\ UNCHANGED <<protocol, archive, asked, outcome, cursor, place, before, given>>

-----------------------------------------------------------------------------
(* PI Web API *)

\* One batch looks up the WebIds that are not known; what is not found fails.
Resolve ==
    /\ protocol = "pi" /\ call = "asked"
    /\ \E found \in SUBSET (HistoryPoints \ webIds) : webIds' = webIds \union found
    /\ outcome' = [p \in HistoryPoints |-> IF p \in webIds' THEN "reading" ELSE "failed"]
    /\ call' = "reading"
    /\ UNCHANGED <<protocol, archive, asked, cursor, place, before, given>>

\* The point that is asked for: the first that is not done.
Current(p) ==
    /\ protocol = "pi" /\ call = "reading" /\ outcome[p] = "reading"
    /\ \A q \in HistoryPoints : q < p => outcome[q] # "reading"

\* A WebId that PI no longer knows is forgotten, and the point fails.
NotFound(p) ==
    /\ Current(p)
    /\ webIds' = webIds \ {p} /\ outcome' = [outcome EXCEPT ![p] = "failed"]
    /\ UNCHANGED <<protocol, archive, asked, call, cursor, place, before, given>>

\* The earliest values from a cursor's tick to the end of the window, which is rounded up and
\* included, as many as a page holds.
RecordedPage(p) ==
    LET matching == {i \in Held(p) : archive[p][i] \in Down(cursor[p].at)..Up(asked.end)}
    IN {i \in matching : Cardinality({j \in matching : j < i}) < PageSize}

\* Mutant of Skipped: the values at the cursor are all taken for read.
SkippedAll(p) == {i \in RecordedPage(p) : cursor[p].seen > 0 /\ StampOf(p, i) = cursor[p].at}

\* The first values at the cursor, as many as were read there.
Skipped(p) ==
    LET there == {i \in RecordedPage(p) : StampOf(p, i) = cursor[p].at}
    IN {i \in there : Cardinality({j \in there : j < i}) < cursor[p].seen}

PageRows(p) == {i \in RecordedPage(p) \ Skipped(p) : InAsked(p, i)}

PageEnd(p) == Max({StampOf(p, i) : i \in RecordedPage(p)})
AtPageEnd(p) == {i \in RecordedPage(p) : StampOf(p, i) = PageEnd(p)}

\* Mutant of IsLastPage: a page that is just full is taken for the last one.
IsLastPageWhenFull(p) == Cardinality(RecordedPage(p)) <= PageSize

\* A page that is not full is the last one, and so is one that reaches the end of the window.
IsLastPage(p) == Cardinality(RecordedPage(p)) < PageSize \/ PageEnd(p) >= asked.end

\* A full page of one stamp, after which the next would be the same.
IsStuck(p) == Cardinality(RecordedPage(p)) = PageSize /\ AtPageEnd(p) = RecordedPage(p)

\* Mutant of NextPage: the next page is taken to begin after the last stamp.
NextPageUnseen(p) == [at |-> PageEnd(p), seen |-> 0]

\* From the last stamp on, with the values there that the page has shown.
NextPage(p) == [at |-> PageEnd(p), seen |-> Cardinality(AtPageEnd(p))]

\* One page of recorded values.
ReadRecorded(p) ==
    /\ Current(p) /\ ~IsStuck(p)
    /\ given' = [given EXCEPT ![p] = Give(p, PageRows(p))]
    /\ IF IsLastPage(p)
       THEN outcome' = [outcome EXCEPT ![p] = "read"] /\ UNCHANGED cursor
       ELSE cursor' = [cursor EXCEPT ![p] = NextPage(p)] /\ UNCHANGED outcome
    /\ UNCHANGED <<protocol, archive, asked, webIds, call, place, before>>

\* The page cannot be passed: the call raises.
GetStuck(p) ==
    /\ Current(p) /\ IsStuck(p)
    /\ call' = "stuck"
    /\ UNCHANGED <<protocol, archive, asked, webIds, outcome, cursor, place, before, given>>

-----------------------------------------------------------------------------
(* OPC UA *)

\* One Read looks at every node's class and access; those that have no history fail.
CheckAccess ==
    /\ protocol = "opc" /\ call = "asked"
    /\ \E readable \in SUBSET HistoryPoints :
         outcome' = [p \in HistoryPoints |-> IF p \in readable THEN "reading" ELSE "failed"]
    /\ call' = "reading"
    /\ UNCHANGED <<protocol, archive, asked, webIds, cursor, place, before, given>>

Pending == {p \in HistoryPoints : outcome[p] = "reading"}

\* What is left of the window at the server.
Left(p) == Cardinality({i \in Held(p) : i > place[p] /\ archive[p][i] < Up(asked.end)})

\* Mutant of ChunkRows: what the page holds is not cut to the window.
ChunkRowsUncut(p, count) == (place[p] + 1)..(place[p] + count)

ChunkRows(p, count) == {i \in (place[p] + 1)..(place[p] + count) : InAsked(p, i)}

\* One HistoryRead for all the points that are left: each is answered with values and, as long
\* as there are more, a continuation point, or it fails.
HistoryRead ==
    /\ protocol = "opc" /\ call = "reading" /\ Pending # {}
    /\ \E bad \in SUBSET Pending, more \in SUBSET Pending, count \in [Pending -> 0..PageSize] :
         /\ \A p \in bad : p \notin more /\ count[p] = 0
         /\ \A p \in Pending \ bad : count[p] <= Left(p) /\ (count[p] < Left(p) => p \in more)
         /\ outcome' = [p \in HistoryPoints |->
              IF p \notin Pending THEN outcome[p]
              ELSE IF p \in bad THEN "failed"
              ELSE IF p \in more THEN "reading" ELSE "read"]
         /\ place' = [p \in HistoryPoints |-> IF p \in Pending \ bad THEN place[p] + count[p] ELSE place[p]]
         /\ given' = [p \in HistoryPoints |->
              IF p \in Pending \ bad THEN Give(p, ChunkRows(p, count[p])) ELSE given[p]]
    /\ UNCHANGED <<protocol, archive, asked, webIds, call, cursor, before>>

HistoryNext ==
    \/ \E p \in HistoryPoints : Arrive(p) \/ NotFound(p) \/ ReadRecorded(p) \/ GetStuck(p)
    \/ Raise \/ Resolve \/ CheckAccess \/ HistoryRead

HistorySpec == HistoryInit /\ [][HistoryNext]_historyVars

-----------------------------------------------------------------------------
(* Properties *)

\* Whatever the pages are (values.py:95-138, opc_ua/connector.py:291-318), a value of the window
\* is given out once at most and none from outside it, without a hole; a point that is read to
\* its end has given every value that was there when the call began.  A call gets stuck only at
\* a stamp with as many values as fill a page.
ReadsGiveEachOnce ==
    /\ \A p \in HistoryPoints : \A i \in Held(p) :
         /\ given[p][i] \in {0, IF InAsked(p, i) THEN 1 ELSE 0}
         /\ given[p][i] = 1 => \A j \in Held(p) : (j < i /\ InAsked(p, j)) => given[p][j] = 1
         /\ (outcome[p] = "read" /\ i <= before[p] /\ InAsked(p, i)) => given[p][i] = 1
    /\ call = "stuck" =>
         \E p \in HistoryPoints : \E t \in {StampOf(p, i) : i \in Held(p)} :
           Cardinality({i \in Held(p) : StampOf(p, i) = t}) >= PageSize
=============================================================================
