---------------------------- MODULE RunLifecycle ----------------------------
(***************************************************************************)
(* The life of a run (services/runs.py, services/dataset_runs.py,          *)
(* services/execution.py, jobs/tasks.py, migration 0004).                  *)
(*                                                                         *)
(* A request stores a `queued` run, for an upload also the uploaded bytes, *)
(* and defers one job in the same transaction.  A worker takes the job,    *)
(* claims the run, computes the report outside any transaction, and        *)
(* completes the run in one transaction that changes something only while  *)
(* the run is still `running`.  A periodic reaper fails runs that have     *)
(* been `running` too long: their worker is presumed lost, although it may *)
(* merely be slow.  Each action is one database transaction, or one step   *)
(* between two of them; a worker may crash between any two.                *)
(***************************************************************************)
EXTENDS Naturals

CONSTANTS
    Runs,        \* identifiers of the runs that may be created
    Uploads,     \* those among them created from an upload; the others check a dataset
    Workers,     \* concurrent executors: job slots of the worker processes
    StaleAfter   \* ticks after which a `running` run counts as lost (STALE_AFTER)

ASSUME RunAssumption ==
    /\ Uploads \subseteq Runs
    /\ StaleAfter \in Nat

VARIABLES
    status,    \* runs.status, "none" before the row exists
    error,     \* runs.error, reduced to what the reaper tells apart
    age,       \* ticks since runs.started_at, saturating past StaleAfter
    upload,    \* the runs that have an uploads row
    results,   \* the runs whose score, metrics, findings and statistics are stored
    job,       \* the Procrastinate job of the run
    pc,        \* where each worker stands
    at,        \* the run each worker executes (meaningless while "idle")
    cached,    \* the runs whose rows are in the Parquet cache
    covered    \* the runs whose rows a coverage record promises

vars == <<status, error, age, upload, results, job, pc, at, cached, covered>>

Statuses == {"none", "queued", "running", "succeeded", "failed"}
Terminal == {"succeeded", "failed"}
Errors   == {"none", "worker lost", "message"}
Ages     == 0..(StaleAfter + 1)
Jobs     == {"none", "todo", "doing", "done"}
Steps    == {"idle", "claim", "compute", "complete", "fail", "cache", "record"}

\* The type invariant: the rows, the job and the worker slots of the run queue.
TypeOK ==
    /\ status  \in [Runs -> Statuses]
    /\ error   \in [Runs -> Errors]
    /\ age     \in [Runs -> Ages]
    /\ upload  \in SUBSET Runs
    /\ results \in SUBSET Runs
    /\ job     \in [Runs -> Jobs]
    /\ pc      \in [Workers -> Steps]
    /\ at      \in [Workers -> Runs]
    /\ cached  \in SUBSET Runs
    /\ covered \in SUBSET Runs

Init ==
    /\ status  = [r \in Runs |-> "none"]
    /\ error   = [r \in Runs |-> "none"]
    /\ age     = [r \in Runs |-> 0]
    /\ upload  = {}
    /\ results = {}
    /\ job     = [r \in Runs |-> "none"]
    /\ pc      = [w \in Workers |-> "idle"]
    /\ at      \in [Workers -> Runs]
    /\ cached  = {}
    /\ covered = {}

-----------------------------------------------------------------------------
(* Requests *)

\* create_run: the queued run and the uploaded bytes.
CreateUpload(r) ==
    /\ r \in Uploads
    /\ upload' = upload \union {r}

\* create_dataset_run: the queued run alone; its window is resolved now.
CreateDataset(r) ==
    /\ r \notin Uploads
    /\ UNCHANGED upload

\* POST /api/runs: the run and its job appear in one transaction.
Create(r) ==
    /\ status[r] = "none"
    /\ CreateUpload(r) \/ CreateDataset(r)
    /\ status' = [status EXCEPT ![r] = "queued"]
    /\ job'    = [job EXCEPT ![r] = "todo"]
    /\ UNCHANGED <<error, age, results, pc, at, cached, covered>>

-----------------------------------------------------------------------------
(* Workers *)

\* Mutant of Pick: the job stays available, so it may be delivered twice.
PickTwice(w, r) ==
    /\ pc[w] = "idle"
    /\ job[r] = "todo"
    /\ pc' = [pc EXCEPT ![w] = "claim"]
    /\ at' = [at EXCEPT ![w] = r]
    /\ UNCHANGED <<status, error, age, upload, results, job, cached, covered>>

\* The queue hands a job to one worker slot, once: the task is declared with retry=False.
Pick(w, r) ==
    /\ pc[w] = "idle"
    /\ job[r] = "todo"
    /\ job' = [job EXCEPT ![r] = "doing"]
    /\ pc'  = [pc EXCEPT ![w] = "claim"]
    /\ at'  = [at EXCEPT ![w] = r]
    /\ UNCHANGED <<status, error, age, upload, results, cached, covered>>

\* The job function returns or raises: either way the queue is done with the job.
Return(w) ==
    /\ pc'  = [pc EXCEPT ![w] = "idle"]
    /\ job' = [job EXCEPT ![at[w]] = "done"]

\* The claim transaction: a queued run becomes running, any other run is skipped.
Claim(w) ==
    /\ pc[w] = "claim"
    /\ IF status[at[w]] = "queued"
       THEN /\ status' = [status EXCEPT ![at[w]] = "running"]
            /\ age'    = [age EXCEPT ![at[w]] = 0]
            /\ pc'     = [pc EXCEPT ![w] = "compute"]
            /\ UNCHANGED job
       ELSE /\ Return(w)
            /\ UNCHANGED <<status, age>>
    /\ UNCHANGED <<error, upload, results, at, cached, covered>>

\* The claim transaction of an upload run raises and is rolled back: nothing catches the
\* exception, it escapes execute_run and ends the job.
ClaimUploadRaises(w) ==
    /\ pc[w] = "claim"
    /\ at[w] \in Uploads
    /\ Return(w)
    /\ UNCHANGED <<status, error, age, upload, results, at, cached, covered>>

\* The claim transaction of a dataset run raises, mostly while planning, and is rolled back:
\* the run is then failed from `queued`.
ClaimDatasetRaises(w) ==
    /\ pc[w] = "claim"
    /\ at[w] \notin Uploads
    /\ pc' = [pc EXCEPT ![w] = "fail"]
    /\ UNCHANGED <<status, error, age, upload, results, job, at, cached, covered>>

\* Parsing, fetching gaps, reading the cache and the core's checks: no transaction is open,
\* and any failure goes to mark_failed.
Compute(w) ==
    /\ pc[w] = "compute"
    /\ \E next \in {"complete", "fail"} : pc' = [pc EXCEPT ![w] = next]
    /\ UNCHANGED <<status, error, age, upload, results, job, at, cached, covered>>

\* Mutant of Persist: the row count of the guarded update is not looked at, so the report of a
\* run the reaper has failed is stored all the same.
PersistUnchecked(w) ==
    /\ status'  = [status EXCEPT ![at[w]] = IF @ = "running" THEN "succeeded" ELSE @]
    /\ results' = results \union {at[w]}
    /\ upload'  = upload \ {at[w]}
    /\ UNCHANGED error

\* The completion transaction changes nothing unless its guarded update finds the run still
\* running; then results and status are stored, and an upload's bytes dropped, together.
Persist(w) ==
    IF status[at[w]] = "running"
    THEN /\ status'  = [status EXCEPT ![at[w]] = "succeeded"]
         /\ error'   = [error EXCEPT ![at[w]] = "none"]
         /\ results' = results \union {at[w]}
         /\ upload'  = upload \ {at[w]}
    ELSE UNCHANGED <<status, error, results, upload>>

\* Completion of an upload run: if it succeeded, the cache comes next.
CompleteUpload(w) ==
    /\ pc[w] = "complete"
    /\ at[w] \in Uploads
    /\ Persist(w)
    /\ IF status[at[w]] = "running"
       THEN pc' = [pc EXCEPT ![w] = "cache"] /\ UNCHANGED job
       ELSE Return(w)
    /\ UNCHANGED <<age, at, cached, covered>>

\* Completion of a dataset run, whose data came from the cache.
CompleteDataset(w) ==
    /\ pc[w] = "complete"
    /\ at[w] \notin Uploads
    /\ Persist(w)
    /\ Return(w)
    /\ UNCHANGED <<age, at, cached, covered>>

\* The completion transaction raises (database, or series metadata changed meanwhile): it is
\* rolled back as a whole and the run is failed in a transaction of its own.
CompleteRaises(w) ==
    /\ pc[w] = "complete"
    /\ status[at[w]] = "running"
    /\ pc' = [pc EXCEPT ![w] = "fail"]
    /\ UNCHANGED <<status, error, age, upload, results, job, at, cached, covered>>

\* Mutants of MarkFailed: the status is one the schema does not know; the update is not
\* restricted to queued and running runs.
MarkErrored(w) ==
    /\ pc[w] = "fail"
    /\ status' = [status EXCEPT ![at[w]] = "error"]
    /\ upload' = upload \ {at[w]}
    /\ Return(w)
    /\ UNCHANGED <<error, age, results, at, cached, covered>>
MarkFailedAlways(w) ==
    /\ pc[w] = "fail"
    /\ status' = [status EXCEPT ![at[w]] = "failed"]
    /\ error'  = [error EXCEPT ![at[w]] = "message"]
    /\ upload' = upload \ {at[w]}
    /\ Return(w)
    /\ UNCHANGED <<age, results, at, cached, covered>>

\* mark_failed: fails a queued or running run and drops its upload; a run that is already
\* terminal keeps its status.
MarkFailed(w) ==
    /\ pc[w] = "fail"
    /\ IF status[at[w]] \in {"queued", "running"}
       THEN /\ status' = [status EXCEPT ![at[w]] = "failed"]
            /\ error'  = [error EXCEPT ![at[w]] = "message"]
       ELSE UNCHANGED <<status, error>>
    /\ upload' = upload \ {at[w]}
    /\ Return(w)
    /\ UNCHANGED <<age, results, at, cached, covered>>

\* mark_failed itself raises: nothing was written and the exception ends the job.
MarkFailedRaises(w) ==
    /\ pc[w] = "fail"
    /\ Return(w)
    /\ UNCHANGED <<status, error, age, upload, results, at, cached, covered>>

\* _cache_upload, first half: the Parquet files are written, or the write fails and is noted.
WriteCache(w) ==
    /\ pc[w] = "cache"
    /\ \E written \in SUBSET {at[w]} : cached' = cached \union written
    /\ pc' = [pc EXCEPT ![w] = "record"]
    /\ UNCHANGED <<status, error, age, upload, results, job, at, covered>>

\* Mutant of RecordCoverage: coverage is recorded whether or not the write succeeded.
RecordAlways(w) ==
    /\ pc[w] = "record"
    /\ \E committed \in SUBSET {at[w]} : covered' = covered \union committed
    /\ Return(w)
    /\ UNCHANGED <<status, error, age, upload, results, at, cached>>

\* _cache_upload, second half: coverage is recorded for what was written; a database error
\* here is swallowed and leaves no coverage.
RecordCoverage(w) ==
    /\ pc[w] = "record"
    /\ \E committed \in SUBSET ({at[w]} \intersect cached) : covered' = covered \union committed
    /\ Return(w)
    /\ UNCHANGED <<status, error, age, upload, results, at, cached>>

\* The worker dies at any point of a job: the job stays `doing`, nobody runs it again.
Crash(w) ==
    /\ pc[w] # "idle"
    /\ pc' = [pc EXCEPT ![w] = "idle"]
    /\ UNCHANGED <<status, error, age, upload, results, job, at, cached, covered>>

-----------------------------------------------------------------------------
(* The clock and the reaper *)

\* Time passes for the running runs; ages are counted up to the first stale value.
Tick ==
    /\ \E r \in Runs : status[r] = "running" /\ age[r] <= StaleAfter
    /\ age' = [r \in Runs |-> IF status[r] = "running" /\ age[r] <= StaleAfter
                              THEN age[r] + 1 ELSE age[r]]
    /\ UNCHANGED <<status, error, upload, results, job, pc, at, cached, covered>>

\* Mutant of Stale: only runs with an upload are looked at, as before dataset runs existed.
StaleUpload(r) == r \in upload /\ status[r] = "running" /\ age[r] > StaleAfter

\* What the reaper's WHERE clause selects.
Stale(r) == status[r] = "running" /\ age[r] > StaleAfter

\* Mutants of Reap: the uploads are forgotten; the lost runs are queued again.
ReapKeepsUploads ==
    /\ \E r \in Runs : Stale(r)
    /\ status' = [r \in Runs |-> IF Stale(r) THEN "failed" ELSE status[r]]
    /\ error'  = [r \in Runs |-> IF Stale(r) THEN "worker lost" ELSE error[r]]
    /\ UNCHANGED <<upload, age, results, job, pc, at, cached, covered>>
ReapRequeues ==
    /\ \E r \in Runs : Stale(r)
    /\ status' = [r \in Runs |-> IF Stale(r) THEN "queued" ELSE status[r]]
    /\ job'    = [r \in Runs |-> IF Stale(r) THEN "todo" ELSE job[r]]
    /\ UNCHANGED <<error, upload, age, results, pc, at, cached, covered>>

\* tabayyun_reap_stale_runs: every stale run fails, and the uploads of all runs ever reaped go.
Reap ==
    /\ \E r \in Runs : Stale(r)
    /\ status' = [r \in Runs |-> IF Stale(r) THEN "failed" ELSE status[r]]
    /\ error'  = [r \in Runs |-> IF Stale(r) THEN "worker lost" ELSE error[r]]
    /\ upload' = {r \in upload : ~(status'[r] = "failed" /\ error'[r] = "worker lost")}
    /\ UNCHANGED <<age, results, job, pc, at, cached, covered>>

-----------------------------------------------------------------------------
Execute(w) ==
    \/ Claim(w) \/ ClaimUploadRaises(w) \/ ClaimDatasetRaises(w) \/ Compute(w)
    \/ CompleteUpload(w) \/ CompleteDataset(w) \/ CompleteRaises(w)
    \/ MarkFailed(w) \/ MarkFailedRaises(w)
    \/ WriteCache(w) \/ RecordCoverage(w)

Next ==
    \/ \E r \in Runs : Create(r)
    \/ \E w \in Workers : \/ \E r \in Runs : Pick(w, r)
                          \/ Execute(w)
                          \/ Crash(w)
    \/ Tick
    \/ Reap

\* The periodic tasks keep running: time passes and the reaper's cron fires.  Nothing is
\* assumed of the workers: a job may hang for ever.
Fairness == WF_vars(Tick) /\ WF_vars(Reap)

Spec == Init /\ [][Next]_vars /\ Fairness

-----------------------------------------------------------------------------
(* Properties *)

\* "A run that fails persists nothing but its error" (ADR-0013, decision 1) and a succeeded
\* run has everything: score, metrics, findings and statistics exist exactly for the
\* succeeded runs, whatever the reaper, a late completion and errors do to each other.
ResultsIffSucceeded == \A r \in Runs : r \in results <=> status[r] = "succeeded"

\* "The uploaded bytes are deleted once the run is terminal" (ADR-0013, decision 1), and not
\* before: an upload run that still may execute has them.
UploadWhileLive ==
    \A r \in Uploads : r \in upload <=> status[r] \in {"queued", "running"}

\* A coverage row never promises cached rows that are not there, and both are only left by
\* runs that succeeded: a crash between the cache write and the record loses the coverage.
CoverageIsBacked ==
    /\ covered \subseteq cached
    /\ \A r \in cached : status[r] = "succeeded"

\* Two workers never execute the same run.
OneExecutor ==
    \A v, w \in Workers :
        (pc[v] # "idle" /\ pc[w] # "idle" /\ at[v] = at[w]) => v = w

\* A terminal status is final: a late completion or mark_failed after the reaper, or the
\* reaper after either, changes neither the status nor the error a user has seen.
TerminalIsFinal ==
    [][\A r \in Runs : status[r] \in Terminal =>
          status'[r] = status[r] /\ error'[r] = error[r]]_vars

\* A run that was claimed reaches a terminal status even if its worker dies, hangs, or cannot
\* reach the database to fail it: the reaper settles it.
RunningSettles == \A r \in Runs : status[r] = "running" ~> status[r] \in Terminal

\* The detailed life of a run implements what a run promises: whatever workers, jobs, crashes
\* and the reaper do, its status, results and error move as one and end once (runs.py:257-352).
Promise == INSTANCE RunAbstract
ImplementsRun == Promise!ASpec

-----------------------------------------------------------------------------
(* Claims of the repository that the code does not keep *)

\* "Execute one queued run to a terminal state. Never raises; failures land on the run."
\* (docstring of execute_run): a job that has returned leaves no run in the queue.
ReturnedLeavesNoQueuedRun == \A r \in Runs : job[r] = "done" => status[r] # "queued"
=============================================================================
