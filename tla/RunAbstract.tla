---------------------------- MODULE RunAbstract -----------------------------
(***************************************************************************)
(* What a run promises the person who started it: it moves forward through *)
(* queued, running and one terminal status, its results appear in one      *)
(* piece at the moment it succeeds, its error in the step that fails it,   *)
(* and neither changes any more.  No workers, jobs, clock or crashes.      *)
(***************************************************************************)
CONSTANT Runs
VARIABLES status, results, error

avars == <<status, results, error>>

AInit ==
    /\ status  = [r \in Runs |-> "none"]
    /\ results = {}
    /\ error   = [r \in Runs |-> "none"]

Move(r, from, to) ==
    /\ status[r] \in from
    /\ status' = [status EXCEPT ![r] = to]

Tell(r, what) == error' = [error EXCEPT ![r] = what]

Accept(r)  == Move(r, {"none"}, "queued") /\ UNCHANGED <<results, error>>
Start(r)   == Move(r, {"queued"}, "running") /\ UNCHANGED <<results, error>>
Succeed(r) == Move(r, {"running"}, "succeeded") /\ results' = results \union {r} /\ Tell(r, "none")
Fail(r)    == Move(r, {"queued", "running"}, "failed") /\ UNCHANGED results /\ Tell(r, "message")

\* The reaper may fail several running runs at once.
FailSome ==
    /\ \E lost \in SUBSET {r \in Runs : status[r] = "running"} :
          /\ status' = [r \in Runs |-> IF r \in lost THEN "failed" ELSE status[r]]
          /\ error'  = [r \in Runs |-> IF r \in lost THEN "worker lost" ELSE error[r]]
    /\ UNCHANGED results

ANext == FailSome \/ \E r \in Runs : Accept(r) \/ Start(r) \/ Succeed(r) \/ Fail(r)

ASpec == AInit /\ [][ANext]_avars
=============================================================================
