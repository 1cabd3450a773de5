------------------------------- MODULE Fetch -------------------------------
(***************************************************************************)
(* The fetch engine (services/fetches.py, jobs/tasks.py): fetches of one   *)
(* connector source fill the coverage gaps of its points.                  *)
(*                                                                         *)
(* A manual or poll fetch, or a source task, is a job that holds the lock  *)
(* of its source while it runs; the fetch of a dataset run is executed by  *)
(* the run's worker and takes no lock.  Every call to the external system  *)
(* is asked, answered, written to the cache and recorded as covered in     *)
(* separate steps; clocks go on, other fetches write, errors and the death *)
(* of a worker come in between.                                            *)
(*                                                                         *)
(* Time is counted in ticks.  The sample of instant t exists from t on and *)
(* is final once it is older than Settle (settle_s): that is what the      *)
(* operator promises by configuring it.                                    *)
(***************************************************************************)
EXTENDS FetchPlan

CONSTANTS
    Points,      \* the source's points, as naturals in the order of their external ids
    Horizon,     \* bound of the clock; samples have instants 0 .. Horizon - 1
    Settle,      \* settle_s
    Backfill,    \* backfill_s: how far back a poll looks
    InFlightFor, \* how long a queued or running fetch keeps polls away (one hour)
    MaxSpan, MaxPoints,  \* the connector's limits of one call
    Attempts,    \* FETCH_ATTEMPTS
    MaxFetches,  \* bound on the fetches created
    MaxCrashes,  \* bound on the deaths of workers
    Requests,    \* what people ask for: records of a window lo, hi, the points and force
    RunWindows,  \* the windows <<lo, hi>> of dataset runs
    Start,       \* the clock at the beginning
    History      \* the coverage rows earlier fetches may have left then

ASSUME FetchAssumption ==
    /\ Points \subseteq Nat /\ Points # {} /\ IsFiniteSet(Points)
    /\ Horizon \in Nat /\ Settle \in Nat /\ Backfill \in Nat \ {0} /\ InFlightFor \in Nat
    /\ MaxSpan \in Nat \ {0} /\ MaxPoints \in Nat \ {0} /\ Attempts \in Nat \ {0}
    /\ MaxFetches \in Nat /\ MaxCrashes \in Nat
    /\ Requests \subseteq [lo : 0..Horizon, hi : 0..Horizon, points : SUBSET Points, force : BOOLEAN]
    /\ \A r \in Requests : r.lo < r.hi
    /\ RunWindows \subseteq (0..Horizon) \X (0..Horizon) /\ \A w \in RunWindows : w[1] < w[2]
    /\ Start \in 0..Horizon
    /\ History \subseteq [Points -> [0..(Horizon - 1) -> 0..Horizon]]
    /\ \A h \in History, p \in Points, t \in 0..(Horizon - 1) : h[p][t] > t => h[p][t] <= Start - Settle

VARIABLES
    now,       \* the clock
    fetches,   \* source_fetches, oldest first
    jobs,      \* the job of each fetch: its status and its attempts so far
    work,      \* what the execution of each fetch is doing
    cache,     \* what the cache holds of each instant of each point
    coverage,  \* range_end of each point's coverage row by its range_start, which is no later
    crashes    \* workers that have died

vars == <<now, fetches, jobs, work, cache, coverage, crashes>>

Ids == 1..MaxFetches
Seen == {"nothing", "early", "final"}
Ended == {"succeeded", "partial", "failed"}
Samples == 0..(Horizon - 1)

Calls == [lo : 0..Horizon, hi : 0..Horizon, points : (SUBSET Points) \ {{}}]
Idle == [step |-> "idle", calls |-> {}, asked |-> 0, failed |-> {}, errors |-> FALSE]

FetchRows ==
    [status : {"queued", "running"} \union Ended, trigger : {"manual", "poll", "run", "task"},
     lo : 0..Horizon, hi : 0..Horizon, points : SUBSET Points, force : BOOLEAN,
     created : 0..Horizon, started : 0..Horizon]
Executions ==
    [step : {"idle", "prepare", "call", "asked", "record", "dead"}, calls : SUBSET Calls,
     asked : 0..Horizon, failed : SUBSET Points, errors : BOOLEAN]

\* The type invariant.
TypeOK ==
    /\ now \in 0..Horizon
    /\ fetches \in Seq(FetchRows) /\ Len(fetches) <= MaxFetches
    /\ jobs \in [Ids -> [status : {"none", "todo", "doing", "done"}, attempts : 0..(Attempts - 1)]]
    /\ work \in [Ids -> Executions]
    /\ cache \in [Points -> [Samples -> Seen]]
    /\ coverage \in [Points -> [Samples -> 0..Horizon]]
    /\ crashes \in 0..MaxCrashes

\* covered_ranges
Rows(p) == {<<t, coverage[p][t]>> : t \in {i \in Samples : coverage[p][i] > i}}
Covered(p) == Instants(Rows(p))

\* Mutant of Recorded: the row takes the new end although the old one was later.
RecordedReplacing(ends, lo, end) == [ends EXCEPT ![lo] = end]

\* record: a second row from the same start is the longer of the two.
Recorded(ends, lo, end) == [ends EXCEPT ![lo] = Larger(@, end)]

Init ==
    /\ now = Start
    /\ fetches = <<>>
    /\ jobs = [f \in Ids |-> [status |-> "none", attempts |-> 0]]
    /\ work = [f \in Ids |-> Idle]
    /\ coverage \in History
    /\ cache = [p \in Points |-> [t \in Samples |-> IF t \in Covered(p) THEN "final" ELSE "nothing"]]
    /\ crashes = 0

Step(f, step) == work[f].step = step

-----------------------------------------------------------------------------
(* Creating fetches *)

\* create_fetch: the row, with the time it was created.
NewFetch(trigger, lo, hi, points, force) ==
    /\ Len(fetches) < MaxFetches
    /\ fetches' = Append(fetches, [status |-> "queued", trigger |-> trigger, lo |-> lo, hi |-> hi,
                                   points |-> points, force |-> force, created |-> now, started |-> 0])

NewId == Len(fetches) + 1

\* enqueue: the job comes in the same transaction, with the lock of the source.
Enqueue == jobs' = [jobs EXCEPT ![NewId].status = "todo"]

\* POST .../fetches: a window of all or some points; .../check and the like: a source task.
Request ==
    /\ \/ \E r \in Requests : NewFetch("manual", r.lo, r.hi, r.points, r.force)
       \/ NewFetch("task", now, now, Points, FALSE)
    /\ Enqueue
    /\ UNCHANGED <<now, work, cache, coverage, crashes>>

InFlight(f) == fetches[f].status \in {"queued", "running"} /\ fetches[f].created > now - InFlightFor

\* poll_sources finds the source due: it has no fetch in flight.  The poll reads the window that
\* ends now.
Poll ==
    /\ now > 0
    /\ ~\E f \in DOMAIN fetches : InFlight(f)
    /\ NewFetch("poll", Larger(0, now - Backfill), now, Points, FALSE)
    /\ Enqueue
    /\ UNCHANGED <<now, work, cache, coverage, crashes>>

\* _fill_gaps: a dataset run whose window is not covered creates a fetch for the points that miss
\* some of it and executes it itself.
RunFetch ==
    /\ \E w \in RunWindows :
          LET wanted == {p \in Points : MissingRanges(coverage[p], w[1], w[2]) # {}}
          IN  wanted # {} /\ NewFetch("run", w[1], w[2], wanted, FALSE)
    /\ work' = [work EXCEPT ![NewId].step = "prepare"]
    /\ UNCHANGED <<now, jobs, cache, coverage, crashes>>

-----------------------------------------------------------------------------
(* The queue *)

\* procrastinate_fetch_job: a job whose lock is held, or awaited by an older job, stays.
Pick(f) ==
    /\ jobs[f].status = "todo"
    /\ \A g \in Ids : jobs[g].status # "doing" /\ (g < f => jobs[g].status # "todo")
    /\ jobs' = [jobs EXCEPT ![f].status = "doing"]
    /\ work' = [work EXCEPT ![f].step = "prepare"]
    /\ UNCHANGED <<now, fetches, cache, coverage, crashes>>

\* Mutant of GiveBack: the last attempt is raised like the others.
GiveBackAlways(f, retry) ==
    jobs' = IF jobs[f].status # "doing" THEN jobs
            ELSE IF retry
            THEN [jobs EXCEPT ![f] = [status |-> "todo", attempts |-> Smaller(@.attempts + 1, Attempts - 1)]]
            ELSE [jobs EXCEPT ![f].status = "done"]

\* fetch_window: a retryable outcome is raised, except by the last attempt, and the queue puts
\* the job back.
GiveBack(f, retry) ==
    jobs' = IF jobs[f].status # "doing" THEN jobs
            ELSE IF retry /\ jobs[f].attempts + 1 < Attempts
            THEN [jobs EXCEPT ![f] = [status |-> "todo", attempts |-> @.attempts + 1]]
            ELSE [jobs EXCEPT ![f].status = "done"]

\* finish: the outcome is stored, whatever the status has become, and the job function returns.
Finish(f, outcome, retry) ==
    /\ fetches' = [fetches EXCEPT ![f].status = outcome]
    /\ work' = [work EXCEPT ![f] = Idle]
    /\ GiveBack(f, retry)

\* A transaction raises, of prepare, of a call's record or of finish: it is rolled back and the
\* exception, which is not a RetryableFetchError, ends the job, or the computing of the run.
Raises(f) ==
    /\ work[f].step \in {"prepare", "call", "asked", "record"}
    /\ work' = [work EXCEPT ![f] = Idle]
    /\ jobs' = [jobs EXCEPT ![f].status = IF @ = "doing" THEN "done" ELSE @]
    /\ UNCHANGED <<now, fetches, cache, coverage, crashes>>

\* The worker dies.  Its job stays `doing` and keeps the lock: nothing looks for such jobs.
Crash(f) ==
    /\ work[f].step \notin {"idle", "dead"}
    /\ crashes < MaxCrashes
    /\ crashes' = crashes + 1
    /\ work' = [work EXCEPT ![f] = [Idle EXCEPT !.step = "dead"]]
    /\ UNCHANGED <<now, fetches, jobs, cache, coverage>>

-----------------------------------------------------------------------------
(* Executing a fetch *)

\* _gaps: per point what the cache lacks of the window; all of it with `force`.
Gaps(f) ==
    LET lo == fetches[f].lo
        hi == fetches[f].hi
    IN [p \in fetches[f].points |->
            IF fetches[f].force THEN {<<lo, hi>>} ELSE MissingRanges(coverage[p], lo, hi)]

Claimable(f) == fetches[f].status \in {"queued", "partial"}

\* prepare: the fetch is claimed, its first start noted and its calls planned, in one transaction;
\* a fetch that is neither queued nor partial is skipped.
Prepare(f) ==
    /\ Step(f, "prepare")
    /\ IF Claimable(f)
       THEN /\ fetches' = [fetches EXCEPT ![f].status = "running",
                                         ![f].started = IF @ = 0 THEN now ELSE @]
            /\ work' = [work EXCEPT ![f].step = "call",
                             ![f].calls = IF fetches[f].trigger = "task" THEN {}
                                          ELSE PlanCalls(Gaps(f), MaxSpan, MaxPoints)]
            /\ UNCHANGED jobs
       ELSE /\ work' = [work EXCEPT ![f] = Idle]
            /\ GiveBack(f, FALSE)
            /\ UNCHANGED fetches
    /\ UNCHANGED <<now, cache, coverage, crashes>>

\* The source is gone or disabled, its credentials cannot be read, its configuration is refused:
\* the claim is rolled back and the fetch fails.
PrepareStops(f) ==
    /\ Step(f, "prepare") /\ Claimable(f)
    /\ Finish(f, "failed", FALSE)
    /\ UNCHANGED <<now, cache, coverage, crashes>>

\* The next call goes out; the system answers with what it holds now.
Ask(f) ==
    /\ Step(f, "call") /\ work[f].calls # {}
    /\ work' = [work EXCEPT ![f].step = "asked", ![f].asked = now]
    /\ UNCHANGED <<now, fetches, jobs, cache, coverage, crashes>>

\* The fetch of a dataset run stops before a call that would start after its deadline.
SpendBudget(f) ==
    /\ Step(f, "call") /\ work[f].calls # {} /\ fetches[f].trigger = "run"
    /\ Finish(f, "partial", FALSE)
    /\ UNCHANGED <<now, cache, coverage, crashes>>

Call(f) == FirstCall(work[f].calls)
Final(t, asked) == t < asked - Settle

\* The rows of some points of the call are written; a later write of an instant wins.  An
\* instant that did not exist when the system was asked has no row.
Written(f, points) ==
    [p \in Points |-> [t \in Samples |->
        CASE p \notin points \/ t \notin Call(f).lo..(Call(f).hi - 1) -> cache[p][t]
          [] Final(t, work[f].asked)       -> "final"
          [] t >= work[f].asked            -> IF cache[p][t] = "nothing" THEN "early" ELSE cache[p][t]
          [] OTHER                         -> "early"]]

\* The call is answered, except for points the system cannot read, and written.
Answer(f) ==
    /\ Step(f, "asked")
    /\ \E failed \in SUBSET Call(f).points :
          /\ cache' = Written(f, Call(f).points \ failed)
          /\ work' = [work EXCEPT ![f].step = "record", ![f].failed = failed,
                                  ![f].errors = @ \/ failed # {}]
    /\ UNCHANGED <<now, fetches, jobs, coverage, crashes>>

\* The connector raises, or a batch is refused: retryable or not.  Or the cache cannot be written
\* after some of the points: retryable.
CallFails(f) ==
    /\ Step(f, "asked")
    /\ \/ \E retry \in BOOLEAN : Finish(f, IF retry THEN "partial" ELSE "failed", retry) /\ UNCHANGED cache
       \/ \E written \in SUBSET Call(f).points : Finish(f, "partial", TRUE) /\ cache' = Written(f, written)
    /\ UNCHANGED <<now, coverage, crashes>>

\* Mutants of Record: points the system could not read are covered; the cut-off is forgotten.
RecordFailed(f) ==
    LET end == SettledEnd(Call(f).hi, now, Settle) IN
    /\ Step(f, "record")
    /\ coverage' = [p \in Points |-> IF p \in Call(f).points /\ end > Call(f).lo
                                     THEN Recorded(coverage[p], Call(f).lo, end) ELSE coverage[p]]
    /\ work' = [work EXCEPT ![f].step = "call", ![f].asked = 0, ![f].failed = {}, ![f].calls = @ \ {Call(f)}]
    /\ UNCHANGED <<now, fetches, jobs, cache, crashes>>
RecordUnsettled(f) ==
    /\ Step(f, "record")
    /\ coverage' = [p \in Points |-> IF p \in Call(f).points \ work[f].failed
                                     THEN Recorded(coverage[p], Call(f).lo, Call(f).hi) ELSE coverage[p]]
    /\ work' = [work EXCEPT ![f].step = "call", ![f].asked = 0, ![f].failed = {}, ![f].calls = @ \ {Call(f)}]
    /\ UNCHANGED <<now, fetches, jobs, cache, crashes>>

\* The clock is read, after the call, and the call's span recorded as covered up to then less
\* settle_s, for the points that were read.
Record(f) ==
    LET end == SettledEnd(Call(f).hi, now, Settle) IN
    /\ Step(f, "record")
    /\ coverage' = [p \in Points |-> IF p \in Call(f).points \ work[f].failed /\ end > Call(f).lo
                                     THEN Recorded(coverage[p], Call(f).lo, end) ELSE coverage[p]]
    /\ work' = [work EXCEPT ![f].step = "call", ![f].asked = 0, ![f].failed = {}, ![f].calls = @ \ {Call(f)}]
    /\ UNCHANGED <<now, fetches, jobs, cache, crashes>>

\* Mutant of Complete: point errors do not show in the status.
CompleteAnyway(f) ==
    /\ Step(f, "call") /\ work[f].calls = {} /\ fetches[f].trigger # "task"
    /\ Finish(f, "succeeded", FALSE)
    /\ UNCHANGED <<now, cache, coverage, crashes>>

\* Every call ran.
Complete(f) ==
    /\ Step(f, "call") /\ work[f].calls = {} /\ fetches[f].trigger # "task"
    /\ Finish(f, IF work[f].errors THEN "partial" ELSE "succeeded", FALSE)
    /\ UNCHANGED <<now, cache, coverage, crashes>>

\* execute_task: a check, search or metadata import ends one way or another and is not retried.
Task(f) ==
    /\ Step(f, "call") /\ fetches[f].trigger = "task"
    /\ \E outcome \in Ended : Finish(f, outcome, FALSE)
    /\ UNCHANGED <<now, cache, coverage, crashes>>

Tick ==
    /\ now < Horizon
    /\ now' = now + 1
    /\ UNCHANGED <<fetches, jobs, work, cache, coverage, crashes>>

-----------------------------------------------------------------------------
Work(f) ==
    \/ Pick(f) \/ Raises(f)
    \/ Ask(f) \/ SpendBudget(f) \/ Answer(f) \/ CallFails(f) \/ Record(f)
    \/ Complete(f) \/ Task(f)
    \/ PrepareStops(f) \/ Prepare(f)

Next ==
    \/ Request \/ Poll \/ RunFetch
    \/ \E f \in Ids : Work(f) \/ Crash(f)
    \/ Tick

\* Workers take the jobs they may take and every step of an execution ends, some way or other:
\* connectors, the cache and the database have timeouts.
Fairness == \A f \in Ids : WF_vars(Work(f))

Spec == Init /\ [][Next]_vars /\ Fairness

-----------------------------------------------------------------------------
(* Properties *)

\* Coverage never promises an instant nobody asked the system for: not for a point it could not
\* read, not after an error or a crash between the cache and the record, whoever else fetches; and
\* "data newer than now minus [settle_s] is fetched but not counted as covered" (spec 021).
CoverageIsAnswered ==
    \A p \in Points : \A t \in Covered(p) : cache[p][t] # "nothing" /\ t < now - Settle

\* A fetch that has succeeded left no gap: every instant of its window that was settled when it
\* first started is covered for all its points, over errors, retries and other fetches.
SucceededIsCovered ==
    \A f \in DOMAIN fetches : fetches[f].status = "succeeded" /\ fetches[f].trigger # "task" =>
        \A p \in fetches[f].points : \A t \in fetches[f].lo..(fetches[f].hi - 1) :
            Final(t, fetches[f].started) => t \in Covered(p)

\* Progress survives: no fetch, however short its calls, takes coverage away.
CoverageOnlyGrows == [][\A p \in Points : Covered(p) \subseteq Covered(p)']_vars

\* The planned calls ask for exactly what the cache lacks (everything with `force`), once, within
\* the connector's limits, and none of them reads around a hole: "the retry fetches only what is
\* still missing".
Cells(c) == c.points \X (c.lo..(c.hi - 1))
PlanIsExact ==
    [][\A f \in DOMAIN fetches : Step(f, "prepare") /\ work'[f].step = "call" /\ fetches[f].trigger # "task" =>
        LET calls == work'[f].calls
            wanted == {pt \in fetches[f].points \X (fetches[f].lo..(fetches[f].hi - 1)) :
                          fetches[f].force \/ pt[2] \notin Covered(pt[1])}
        IN  /\ UNION {Cells(c) : c \in calls} = wanted
            /\ \A c, d \in calls : c # d => Cells(c) \intersect Cells(d) = {}
            /\ \A c \in calls : c.hi - c.lo \in 1..MaxSpan /\ Cardinality(c.points) \in 1..MaxPoints]_vars

\* Every deferred fetch ends, behind whatever waits for the same source, after a bounded number
\* of attempts: only a worker that dies can hold it up.
OnlyDeathsHoldUp == \A f \in Ids : jobs[f].status = "todo" ~> (jobs[f].status = "done" \/ crashes > 0)

-----------------------------------------------------------------------------
(* Claims of the repository that the code does not keep *)

\* "data newer than now minus this is fetched but not counted as covered", so that it "is fetched
\* again next time" (spec 021): what is covered was final when it was read.
CoveredIsFinal == \A p \in Points : \A t \in Covered(p) : cache[p][t] = "final"

\* "Its series then fill themselves and stay current" (spec 021): every deferred fetch ends.
DeferredFetchesEnd == \A f \in Ids : jobs[f].status = "todo" ~> jobs[f].status = "done"
=============================================================================
