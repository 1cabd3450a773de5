--------------------------- MODULE ProgressProofs ---------------------------
(***************************************************************************)
(* Proofs about the two components MCProgress is mostly about.             *)
(*                                                                         *)
(* RunLifecycle, for any number of runs and workers and any staleness      *)
(* limit: type correctness, the safety invariants, the finality of a       *)
(* terminal status, and the refinement of RunAbstract.                     *)
(*                                                                         *)
(* Members, for any people and beginnings.  The types hold however many    *)
(* admin requests overlap; that an org keeps an owner and that only        *)
(* members have grants hold as long as requests come one at a time, with   *)
(* sign-ins and withdrawals between their statements, and only then: the   *)
(* run Members_lastowner shows two of them.                                *)
(***************************************************************************)
EXTENDS RunLifecycle, Members, FiniteSetTheorems, TLAPS

-----------------------------------------------------------------------------
(* Runs, from the request to the end of the job *)

\* Ages are counted up to the first stale value and no further.
LEMMA AgeFacts ==
    /\ 0 \in Ages
    /\ \A a \in Ages : a <= StaleAfter => a + 1 \in Ages
BY RunAssumption DEF Ages

\* The constants an action assigns belong to their types.
LEMMA ValueFacts ==
    /\ "none" \in Statuses /\ "queued" \in Statuses /\ "running" \in Statuses
    /\ "succeeded" \in Statuses /\ "failed" \in Statuses
    /\ "none" \in Errors /\ "worker lost" \in Errors /\ "message" \in Errors
    /\ "none" \in Jobs /\ "todo" \in Jobs /\ "doing" \in Jobs /\ "done" \in Jobs
    /\ "idle" \in Steps /\ "claim" \in Steps /\ "compute" \in Steps /\ "complete" \in Steps
    /\ "fail" \in Steps /\ "cache" \in Steps /\ "record" \in Steps
BY DEF Statuses, Errors, Jobs, Steps

\* Every state has the declared types.
THEOREM TypeCorrect == Spec => []TypeOK
<1> USE RunAssumption, ValueFacts DEF TypeOK
<1>1. Init => TypeOK
  <2> SUFFICES ASSUME Init PROVE TypeOK
    OBVIOUS
  <2>1. age \in [Runs -> Ages]
    BY AgeFacts DEF Init
  <2>2. /\ status \in [Runs -> Statuses] /\ error \in [Runs -> Errors]
        /\ job \in [Runs -> Jobs] /\ pc \in [Workers -> Steps]
    BY DEF Init
  <2>3. upload = {} /\ results = {} /\ cached = {} /\ covered = {} /\ at \in [Workers -> Runs]
    BY DEF Init
  <2> QED
    BY <2>1, <2>2, <2>3
<1>2. TypeOK /\ [Next]_vars => TypeOK'
  <2> SUFFICES ASSUME TypeOK, [Next]_vars PROVE TypeOK'
    OBVIOUS
  <2>1. ASSUME NEW r \in Runs, Create(r) PROVE TypeOK'
    BY <2>1 DEF Create, CreateUpload, CreateDataset
  <2>2. ASSUME NEW w \in Workers, NEW r \in Runs, Pick(w, r) PROVE TypeOK'
    BY <2>2 DEF Pick
  <2>3. ASSUME NEW w \in Workers, Execute(w) PROVE TypeOK'
    <3>1. CASE Claim(w)
      <4>1. CASE status[at[w]] = "queued"
        <5>1. /\ status' = [status EXCEPT ![at[w]] = "running"]
              /\ age'    = [age EXCEPT ![at[w]] = 0]
              /\ pc'     = [pc EXCEPT ![w] = "compute"]
              /\ UNCHANGED <<error, upload, results, job, at, cached, covered>>
          BY <3>1, <4>1 DEF Claim
        <5>2. status' \in [Runs -> Statuses]
          BY <5>1
        <5>3. age' \in [Runs -> Ages]
          BY <5>1, AgeFacts
        <5>4. pc' \in [Workers -> Steps]
          BY <5>1
        <5> QED
          BY <5>1, <5>2, <5>3, <5>4
      <4>2. CASE status[at[w]] # "queued"
        <5>1. Return(w) /\ UNCHANGED <<status, age, error, upload, results, at, cached, covered>>
          BY <3>1, <4>2 DEF Claim
        <5>2. pc' \in [Workers -> Steps] /\ job' \in [Runs -> Jobs]
          BY <5>1 DEF Return
        <5> QED
          BY <5>1, <5>2
      <4> QED
        BY <4>1, <4>2
    <3>2. CASE ClaimUploadRaises(w) \/ ClaimDatasetRaises(w)
      <4>1. CASE ClaimUploadRaises(w)
        BY <4>1 DEF ClaimUploadRaises, Return
      <4>2. CASE ClaimDatasetRaises(w)
        BY <4>2 DEF ClaimDatasetRaises
      <4> QED
        BY <3>2, <4>1, <4>2
    <3>3. CASE Compute(w)
      BY <3>3 DEF Compute
    <3>4. CASE CompleteUpload(w) \/ CompleteDataset(w)
      <4>1. at[w] \in Runs
        OBVIOUS
      <4>0. Persist(w)
        BY <3>4 DEF CompleteUpload, CompleteDataset
      <4>2. status' \in [Runs -> Statuses] /\ error' \in [Runs -> Errors]
        <5>1. CASE status[at[w]] = "running"
          <6>1. /\ status' = [status EXCEPT ![at[w]] = "succeeded"]
                /\ error'  = [error EXCEPT ![at[w]] = "none"]
            BY <4>0, <5>1 DEF Persist
          <6>2. status' \in [Runs -> Statuses]
            BY <6>1
          <6>3. error' \in [Runs -> Errors]
            BY <6>1
          <6> QED
            BY <6>2, <6>3
        <5>2. CASE status[at[w]] # "running"
          BY <4>0, <5>2 DEF Persist
        <5> QED
          BY <5>1, <5>2
      <4>3. results' \in SUBSET Runs /\ upload' \in SUBSET Runs
        BY <4>0, <4>1 DEF Persist
      <4>4. pc' \in [Workers -> Steps] /\ job' \in [Runs -> Jobs]
        <5>1. CASE Return(w)
          BY <5>1, <4>1 DEF Return
        <5>2. CASE pc' = [pc EXCEPT ![w] = "cache"] /\ UNCHANGED job
          BY <5>2
        <5> QED
          BY <3>4, <5>1, <5>2 DEF CompleteUpload, CompleteDataset
      <4> QED
        BY <3>4, <4>2, <4>3, <4>4 DEF CompleteUpload, CompleteDataset, Persist
    <3>5. CASE CompleteRaises(w)
      BY <3>5 DEF CompleteRaises
    <3>6. CASE MarkFailed(w)
      <4>1. at[w] \in Runs
        OBVIOUS
      <4>2. status' \in [Runs -> Statuses] /\ error' \in [Runs -> Errors]
        <5>1. CASE status[at[w]] \in {"queued", "running"}
          <6>1. /\ status' = [status EXCEPT ![at[w]] = "failed"]
                /\ error'  = [error EXCEPT ![at[w]] = "message"]
            BY <3>6, <5>1 DEF MarkFailed
          <6>2. status' \in [Runs -> Statuses]
            BY <6>1
          <6>3. error' \in [Runs -> Errors]
            BY <6>1
          <6> QED
            BY <6>2, <6>3
        <5>2. CASE status[at[w]] \notin {"queued", "running"}
          BY <3>6, <5>2 DEF MarkFailed
        <5> QED
          BY <5>1, <5>2
      <4>3. pc' \in [Workers -> Steps] /\ job' \in [Runs -> Jobs] /\ upload' \in SUBSET Runs
        BY <3>6, <4>1 DEF MarkFailed, Return
      <4> QED
        BY <3>6, <4>2, <4>3 DEF MarkFailed
    <3>7. CASE MarkFailedRaises(w)
      BY <3>7 DEF MarkFailedRaises, Return
    <3>8. CASE WriteCache(w)
      <4>1. PICK written \in SUBSET {at[w]} : cached' = cached \union written
        BY <3>8 DEF WriteCache
      <4>2. cached' \in SUBSET Runs
        BY <4>1
      <4> QED
        BY <3>8, <4>2 DEF WriteCache
    <3>9. CASE RecordCoverage(w)
      <4>1. at[w] \in Runs
        OBVIOUS
      <4>2. covered' \in SUBSET Runs
        BY <3>9, <4>1 DEF RecordCoverage
      <4>3. pc' \in [Workers -> Steps] /\ job' \in [Runs -> Jobs]
        BY <3>9, <4>1 DEF RecordCoverage, Return
      <4> QED
        BY <3>9, <4>2, <4>3 DEF RecordCoverage
    <3> QED
      BY <2>3, <3>1, <3>2, <3>3, <3>4, <3>5, <3>6, <3>7, <3>8, <3>9 DEF Execute
  <2>4. ASSUME NEW w \in Workers, Crash(w) PROVE TypeOK'
    BY <2>4 DEF Crash
  <2>5. CASE Tick
    BY <2>5, AgeFacts DEF Tick
  <2>6. CASE Reap
    <3>1. status' \in [Runs -> Statuses] /\ error' \in [Runs -> Errors]
      BY <2>6 DEF Reap
    <3>2. upload' \in SUBSET Runs
      BY <2>6 DEF Reap
    <3> QED
      BY <2>6, <3>1, <3>2 DEF Reap
  <2>7. CASE UNCHANGED vars
    BY <2>7 DEF vars
  <2> QED
    BY <2>1, <2>2, <2>3, <2>4, <2>5, <2>6, <2>7 DEF Next
<1> QED
  BY <1>1, <1>2, PTL DEF Spec

-----------------------------------------------------------------------------
(***************************************************************************)
(* The inductive invariant.  The safety invariants need what the job queue *)
(* guarantees (a run is executed by the worker that took its one job) and  *)
(* where a worker stands when it touches the cache.                        *)
(***************************************************************************)

\* A run without a row has no job; a job somebody works on is `doing`.
JobsFollowRuns ==
    /\ \A r \in Runs : status[r] = "none" => job[r] = "none"
    /\ \A w \in Workers : pc[w] # "idle" => job[at[w]] = "doing"

\* Only a worker that has just completed its run is about to cache it.
CacheFollowsSuccess ==
    \A w \in Workers : pc[w] \in {"cache", "record"} => status[at[w]] = "succeeded"

Safety == ResultsIffSucceeded /\ UploadWhileLive /\ CoverageIsBacked /\ OneExecutor
IInv == Safety /\ JobsFollowRuns /\ CacheFollowsSuccess

LEMMA InitIInv == Init => IInv
BY RunAssumption DEF Init, IInv, Safety, ResultsIffSucceeded, UploadWhileLive, CoverageIsBacked,
       OneExecutor, JobsFollowRuns, CacheFollowsSuccess

LEMMA NextIInv == TypeOK /\ IInv /\ [Next]_vars => IInv'
<1> SUFFICES ASSUME TypeOK, IInv, [Next]_vars PROVE IInv'
  OBVIOUS
<1> USE RunAssumption DEF TypeOK, IInv, Safety, ResultsIffSucceeded, UploadWhileLive,
        CoverageIsBacked, OneExecutor, JobsFollowRuns, CacheFollowsSuccess
<1>1. ASSUME NEW r \in Runs, Create(r) PROVE IInv'
  BY <1>1 DEF Create, CreateUpload, CreateDataset
<1>2. ASSUME NEW w \in Workers, NEW r \in Runs, Pick(w, r) PROVE IInv'
  BY <1>2 DEF Pick
<1>3. ASSUME NEW w \in Workers, Execute(w) PROVE IInv'
  <2>1. CASE Claim(w)
    BY <2>1 DEF Claim, Return
  <2>2. CASE ClaimUploadRaises(w) \/ ClaimDatasetRaises(w)
    BY <2>2 DEF ClaimUploadRaises, ClaimDatasetRaises, Return
  <2>3. CASE Compute(w)
    BY <2>3 DEF Compute
  <2>4. CASE CompleteUpload(w) \/ CompleteDataset(w)
    BY <2>4 DEF CompleteUpload, CompleteDataset, Persist, Return
  <2>5. CASE CompleteRaises(w)
    BY <2>5 DEF CompleteRaises
  <2>6. CASE MarkFailed(w)
    BY <2>6 DEF MarkFailed, Return
  <2>7. CASE MarkFailedRaises(w)
    BY <2>7 DEF MarkFailedRaises, Return
  <2>8. CASE WriteCache(w)
    BY <2>8 DEF WriteCache
  <2>9. CASE RecordCoverage(w)
    BY <2>9 DEF RecordCoverage, Return
  <2> QED
    BY <1>3, <2>1, <2>2, <2>3, <2>4, <2>5, <2>6, <2>7, <2>8, <2>9 DEF Execute
<1>4. ASSUME NEW w \in Workers, Crash(w) PROVE IInv'
  BY <1>4 DEF Crash
<1>5. CASE Tick
  BY <1>5 DEF Tick
<1>6. CASE Reap
  BY <1>6 DEF Reap, Stale
<1>7. CASE UNCHANGED vars
  BY <1>7 DEF vars
<1> QED
  BY <1>1, <1>2, <1>3, <1>4, <1>5, <1>6, <1>7 DEF Next

LEMMA IInvInvariant == Spec => []IInv
<1> QED
  BY InitIInv, NextIInv, TypeCorrect, PTL DEF Spec

\* A failed run has persisted nothing, a succeeded one everything.
THEOREM ResultsTheorem == Spec => []ResultsIffSucceeded
<1>1. IInv => ResultsIffSucceeded
  BY DEF IInv, Safety
<1> QED
  BY <1>1, IInvInvariant, PTL

\* The uploaded bytes exist exactly while the run is queued or running.
THEOREM UploadTheorem == Spec => []UploadWhileLive
<1>1. IInv => UploadWhileLive
  BY DEF IInv, Safety
<1> QED
  BY <1>1, IInvInvariant, PTL

\* Coverage left by upload runs is always backed by cached rows.
THEOREM CoverageTheorem == Spec => []CoverageIsBacked
<1>1. IInv => CoverageIsBacked
  BY DEF IInv, Safety
<1> QED
  BY <1>1, IInvInvariant, PTL

\* No run is executed twice at a time.
THEOREM OneExecutorTheorem == Spec => []OneExecutor
<1>1. IInv => OneExecutor
  BY DEF IInv, Safety
<1> QED
  BY <1>1, IInvInvariant, PTL

-----------------------------------------------------------------------------
(***************************************************************************)
(* Steps.  What one step may do to status, error and results is the same   *)
(* for every action; finality and the refinement both follow from it.      *)
(***************************************************************************)

\* Nothing a user can read of a run changes.
Quiet == UNCHANGED <<status, error, results>>

LEMMA StepShape ==
    ASSUME TypeOK, [Next]_vars
    PROVE  \/ Quiet
           \/ \E r \in Runs : Promise!Accept(r) \/ Promise!Start(r) \/ Promise!Succeed(r) \/ Promise!Fail(r)
           \/ Reap
<1> USE DEF TypeOK, Quiet, Promise!Accept, Promise!Start, Promise!Succeed, Promise!Fail, Promise!Move, Promise!Tell
<1>1. ASSUME NEW r \in Runs, Create(r) PROVE Promise!Accept(r)
  BY <1>1 DEF Create, CreateUpload, CreateDataset
<1>2. ASSUME NEW w \in Workers, NEW r \in Runs, Pick(w, r) PROVE Quiet
  BY <1>2 DEF Pick
<1>3. ASSUME NEW w \in Workers, Claim(w)
      PROVE  Quiet \/ Promise!Start(at[w])
  BY <1>3 DEF Claim
<1>4. ASSUME NEW w \in Workers, CompleteUpload(w) \/ CompleteDataset(w)
      PROVE  Quiet \/ Promise!Succeed(at[w])
  BY <1>4 DEF CompleteUpload, CompleteDataset, Persist
<1>5. ASSUME NEW w \in Workers, MarkFailed(w)
      PROVE  Quiet \/ Promise!Fail(at[w])
  BY <1>5 DEF MarkFailed
<1>6. ASSUME NEW w \in Workers,
             \/ ClaimUploadRaises(w) \/ ClaimDatasetRaises(w) \/ Compute(w)
             \/ CompleteRaises(w) \/ MarkFailedRaises(w)
             \/ WriteCache(w) \/ RecordCoverage(w) \/ Crash(w)
      PROVE  Quiet
  BY <1>6 DEF ClaimUploadRaises, ClaimDatasetRaises, Compute, CompleteRaises, MarkFailedRaises, WriteCache,
              RecordCoverage, Crash
<1>7. ASSUME Tick \/ UNCHANGED vars PROVE Quiet
  BY <1>7 DEF Tick, vars
<1>8. \A w \in Workers : at[w] \in Runs
  OBVIOUS
<1> HIDE DEF TypeOK, Quiet, Promise!Accept, Promise!Start, Promise!Succeed, Promise!Fail, Promise!Move, Promise!Tell
<1> QED
  BY <1>1, <1>2, <1>3, <1>4, <1>5, <1>6, <1>7, <1>8, Zenon DEF Next, Execute

\* A terminal status, and the error shown with it, never change again.
THEOREM TerminalTheorem == Spec => TerminalIsFinal
<1>1. ASSUME TypeOK, [Next]_vars
      PROVE  \A r \in Runs : status[r] \in Terminal =>
                 status'[r] = status[r] /\ error'[r] = error[r]
  <2> SUFFICES ASSUME NEW r \in Runs, status[r] \in Terminal
               PROVE  status'[r] = status[r] /\ error'[r] = error[r]
    OBVIOUS
  <2>1. CASE Quiet
    BY <2>1 DEF Quiet
  <2>2. CASE Reap
    BY <1>1, <2>2 DEF Reap, Stale, Terminal, TypeOK
  <2>3. ASSUME NEW s \in Runs, NEW from \in SUBSET {"none", "queued", "running"}, NEW to, NEW e,
               Promise!Move(s, from, to), error' = [error EXCEPT ![s] = e] \/ UNCHANGED error
        PROVE  status'[r] = status[r] /\ error'[r] = error[r]
    <3>1. r # s
      BY <2>3 DEF Promise!Move, Terminal
    <3> QED
      BY <1>1, <2>3, <3>1 DEF Promise!Move, TypeOK
  <2> QED
    BY <1>1, <2>1, <2>2, <2>3, StepShape
       DEF Promise!Accept, Promise!Start, Promise!Succeed, Promise!Fail, Promise!Tell
<1> QED
  BY <1>1, TypeCorrect, PTL DEF Spec, TerminalIsFinal

\* Workers, jobs, errors, crashes and the reaper implement the promise of RunAbstract.
THEOREM Refinement == Spec => ImplementsRun
<1>1. Init => Promise!AInit
  BY DEF Init, Promise!AInit
<1>2. ASSUME TypeOK, [Next]_vars PROVE [Promise!ANext]_(Promise!avars)
  <2>1. CASE Quiet
    BY <2>1 DEF Quiet, Promise!avars
  <2>2. CASE Reap
    <3> DEFINE lost == {r \in Runs : Stale(r)}
    <3>1. lost \in SUBSET {r \in Runs : status[r] = "running"}
      BY DEF Stale
    <3>2. status' = [r \in Runs |-> IF r \in lost THEN "failed" ELSE status[r]]
      BY <2>2 DEF Reap
    <3>3. error' = [r \in Runs |-> IF r \in lost THEN "worker lost" ELSE error[r]]
      BY <2>2 DEF Reap
    <3>4. UNCHANGED results
      BY <2>2 DEF Reap
    <3> QED
      BY <3>1, <3>2, <3>3, <3>4 DEF Promise!FailSome, Promise!ANext
  <2> QED
    BY <1>2, <2>1, <2>2, StepShape DEF Promise!ANext
<1> QED
  BY <1>1, <1>2, TypeCorrect, PTL DEF Spec, ImplementsRun, Promise!ASpec

-----------------------------------------------------------------------------
(* Members: the words of the proofs *)

Roles == OrgRoles \union {"none"}
Asking == AskingRole \union AskingGrant \union AskingInvite
Waits == {"member", "rules", "write"}

-----------------------------------------------------------------------------
(* Types *)

\* What a request is doing, told by its step.
LEMMA RequestFacts ==
    ASSUME MembersTypeOK, NEW q \in Requests
    PROVE  /\ request[q].step = "member" => request[q] \in Asking
           /\ request[q].step = "rules" => request[q] \in ChangingRole
           /\ request[q].step = "write" => request[q] \in ChangingRole \union ChangingGrant \union Inviting
           /\ request[q].step \in Waits \/ request[q] \in Idle
  BY DEF MembersTypeOK, Idle, Asking, AskingRole, AskingGrant, AskingInvite, Reading, ChangingRole, ChangingGrant, Inviting, Waits

\* The role of a sign-in is at least each of the two; an owner comes of an owner.
LEMMA HigherFacts ==
    ASSUME NEW a \in Roles, NEW b \in Roles
    PROVE  /\ Higher(a, b) \in Roles /\ Rank[a] \in Nat /\ Rank[Higher(a, b)] \in Nat
           /\ Rank[a] <= Rank[Higher(a, b)]
           /\ a # "none" => Higher(a, b) # "none"
           /\ b # "none" => Higher(a, b) # "none"
           /\ a = "owner" => Higher(a, b) = "owner"
           /\ Higher(a, b) = "owner" => a = "owner" \/ b = "owner"
  BY DEF Higher, Rank, Roles, OrgRoles

\* What a sign-in does to the roles.
LEMMA SignInFacts ==
    ASSUME MembersTypeOK, NEW p \in People, SignIn(p)
    PROVE  /\ role' \in [People -> Roles] /\ grants \subseteq grants' /\ grants' \subseteq grants \union {p}
           /\ p \in grants' \ grants => role'[p] # "none"
           /\ invited' = [invited EXCEPT ![p] = "none"] /\ UNCHANGED request
           /\ \A t \in People : /\ role[t] # "none" => role'[t] # "none"
                                /\ role[t] = "owner" => role'[t] = "owner"
                                /\ Rank[role[t]] <= Rank[role'[t]]
                                /\ role'[t] = "owner" /\ role[t] # "owner" => t = AdminPerson /\ Owners = {}
  <1> DEFINE first == IF p = AdminPerson /\ Owners = {} THEN "owner" ELSE role[p]
  <1>1. /\ role' = [role EXCEPT ![p] = Higher(first, invited[p])]
        /\ invited' = [invited EXCEPT ![p] = "none"] /\ UNCHANGED request
    BY DEF SignIn
  <1>2. PICK granted \in IF invited[p] = "none" THEN {{}} ELSE {{}, {p}} : grants' = grants \union granted
    BY DEF SignIn
  <1>3. role \in [People -> Roles] /\ invited[p] \in {"none", "member", "admin"}
    BY DEF MembersTypeOK, Roles, Invitable
  <1>4. first \in Roles /\ (first = role[p] \/ (first = "owner" /\ p = AdminPerson /\ Owners = {}))
    BY <1>3 DEF Roles, OrgRoles
  <1>5. role[p] = "owner" => first = "owner"
    BY <1>4
  <1>6. invited[p] \in Roles
    BY <1>3 DEF Roles, OrgRoles
  <1> HIDE DEF first
  <1>7. \A t \in People : role'[t] = IF t = p THEN Higher(first, invited[p]) ELSE role[t]
    BY <1>1, <1>3
  <1>8. role' \in [People -> Roles]
    BY <1>1, <1>3, <1>4, <1>6, HigherFacts
  <1>9. Rank[role[p]] <= Rank[role'[p]]
    <2>1. CASE first = role[p]
      BY <1>4, <1>6, <1>7, <2>1, HigherFacts
    <2>2. CASE first = "owner"
      <3>1. role'[p] = "owner"
        BY <1>4, <1>6, <1>7, <2>2, HigherFacts
      <3> QED BY <1>3, <3>1 DEF Rank, Roles, OrgRoles
    <2> QED BY <1>4, <2>1, <2>2
  <1>10. \A t \in People : Rank[role[t]] <= Rank[role[t]]
    BY <1>3, HigherFacts
  <1>11. \A t \in People : /\ role[t] # "none" => role'[t] # "none"
                           /\ role[t] = "owner" => role'[t] = "owner"
                           /\ Rank[role[t]] <= Rank[role'[t]]
                           /\ role'[t] = "owner" /\ role[t] # "owner" => t = AdminPerson /\ Owners = {}
    <2> SUFFICES ASSUME NEW t \in People
                 PROVE  /\ role[t] # "none" => role'[t] # "none"
                        /\ role[t] = "owner" => role'[t] = "owner"
                        /\ Rank[role[t]] <= Rank[role'[t]]
                        /\ role'[t] = "owner" /\ role[t] # "owner" => t = AdminPerson /\ Owners = {}
      OBVIOUS
    <2>1. CASE t # p
      BY <1>7, <1>10, <2>1
    <2>2. CASE t = p
      <3>1. role'[p] = Higher(first, invited[p])
        BY <1>7
      <3>2. role[p] # "none" => first # "none"
        BY <1>4
      <3> QED BY <1>3, <1>4, <1>5, <1>6, <1>9, <2>2, <3>1, <3>2, HigherFacts
    <2> QED BY <2>1, <2>2
  <1>12. p \in grants' \ grants => invited[p] # "none"
    BY <1>2
  <1>13. p \in grants' \ grants => role'[p] # "none"
    BY <1>4, <1>6, <1>7, <1>12, HigherFacts
  <1> QED BY <1>1, <1>2, <1>8, <1>11, <1>13

LEMMA TypesKept == MembersTypeOK /\ [MembersNext]_memberVars => MembersTypeOK'
  <1> SUFFICES ASSUME MembersTypeOK, [MembersNext]_memberVars PROVE MembersTypeOK'
    OBVIOUS
  <1> DEFINE Doing == Idle \union Asking \union ChangingRole \union ChangingGrant \union Inviting
  <1>0. /\ role \in [People -> Roles] /\ grants \subseteq People
        /\ invited \in [People -> Invitable \union {"none"}] /\ request \in [Requests -> Doing]
    BY DEF MembersTypeOK, Roles, Asking
  <1>1. ASSUME NEW q \in Requests, NEW x \in Doing, request' = [request EXCEPT ![q] = x]
        PROVE  request' \in [Requests -> Doing]
    BY <1>0, <1>1
  <1>2. ASSUME NEW q \in Requests, NEW step \in {"idle", "done", "refused"}, Answer(q, step)
        PROVE  request' \in [Requests -> Doing]
    <2>1. [step |-> step] \in Doing /\ request' = [request EXCEPT ![q] = [step |-> step]]
      BY <1>2 DEF Answer, Idle
    <2> QED BY <1>1, <2>1
  <1>3. ASSUME NEW q \in Requests, Begin(q) PROVE MembersTypeOK'
    <2>1. PICK actor \in People, target \in People, what \in DOMAIN Asked : \E new \in Asked[what] :
            /\ role[actor] \in OrgAdmins
            /\ what = "invite" => target \in Guests
            /\ request' = [request EXCEPT ![q] =
                [step |-> "member", actor |-> actor, actorRole |-> role[actor],
                 target |-> target, what |-> what, before |-> "none", new |-> new]]
      BY <1>3 DEF Begin
    <2>2. PICK new \in Asked[what] :
            /\ role[actor] \in OrgAdmins
            /\ what = "invite" => target \in Guests
            /\ request' = [request EXCEPT ![q] =
                [step |-> "member", actor |-> actor, actorRole |-> role[actor],
                 target |-> target, what |-> what, before |-> "none", new |-> new]]
      BY <2>1
    <2>3. what \in {"role", "grant", "invite"}
      BY DEF Asked
    <2>4. [step |-> "member", actor |-> actor, actorRole |-> role[actor],
           target |-> target, what |-> what, before |-> "none", new |-> new] \in Doing
      <3>1. what = "invite" => target \in Guests
        BY <2>2
      <3> QED BY <2>2, <2>3, <3>1 DEF Asking, AskingRole, AskingGrant, AskingInvite, Reading
    <2>5. request' \in [Requests -> Doing]
      BY <1>1, <2>2, <2>4
    <2> QED BY <1>0, <1>3, <2>5 DEF Begin, MembersTypeOK, Roles, Asking
  <1>4. ASSUME NEW q \in Requests, ReadMember(q) PROVE MembersTypeOK'
    <2>1. request[q] \in AskingRole /\ UNCHANGED <<role, grants, invited>>
      BY <1>4, RequestFacts DEF ReadMember, Asking, AskingRole, AskingGrant, AskingInvite, Reading
    <2>2. CASE Answer(q, "refused") \/ Answer(q, "idle")
      BY <1>0, <1>2, <2>1, <2>2 DEF MembersTypeOK, Roles, Asking
    <2>3. CASE /\ request' = [request EXCEPT ![q].step = "rules", ![q].before = role[request[q].target]]
               /\ role[request[q].target] # "none"
      <3>1. role[request[q].target] \in OrgRoles
        BY <1>0, <2>1, <2>3 DEF AskingRole, Reading, Roles
      <3>2. request' \in [Requests -> Doing]
        BY <1>0, <2>1, <2>3, <3>1 DEF AskingRole, Reading, Asked, ChangingRole
      <3> QED BY <1>0, <2>1, <3>2 DEF MembersTypeOK, Roles, Asking
    <2> QED BY <1>4, <2>2, <2>3 DEF ReadMember
  <1>5. ASSUME NEW q \in Requests, ReadGrant(q) PROVE MembersTypeOK'
    <2> DEFINE before == IF request[q].target \in grants THEN "yes" ELSE "none"
    <2>1. request[q] \in AskingGrant /\ UNCHANGED <<role, grants, invited>>
      BY <1>5, RequestFacts DEF ReadGrant, Asking, AskingRole, AskingGrant, AskingInvite, Reading
    <2>2. CASE Answer(q, "refused") \/ Answer(q, "idle")
      BY <1>0, <1>2, <2>1, <2>2 DEF MembersTypeOK, Roles, Asking
    <2>3. CASE request' = [request EXCEPT ![q].step = "write", ![q].before = before]
      <3>1. request' \in [Requests -> Doing]
        BY <1>0, <2>1, <2>3 DEF AskingGrant, Reading, Asked, ChangingGrant
      <3> QED BY <1>0, <2>1, <3>1 DEF MembersTypeOK, Roles, Asking
    <2> QED BY <1>5, <2>2, <2>3 DEF ReadGrant
  <1>6. ASSUME NEW q \in Requests, CheckRules(q) PROVE MembersTypeOK'
    <2>1. request[q] \in ChangingRole /\ UNCHANGED <<role, grants, invited>>
      BY <1>6, RequestFacts DEF CheckRules
    <2>2. CASE Answer(q, "refused")
      BY <1>0, <1>2, <2>1, <2>2 DEF MembersTypeOK, Roles, Asking
    <2>3. CASE request' = [request EXCEPT ![q].step = "write"]
      BY <1>0, <2>1, <2>3 DEF MembersTypeOK, Roles, Asking, ChangingRole
    <2> QED BY <1>6, <2>2, <2>3 DEF CheckRules
  <1>7. ASSUME NEW q \in Requests, WriteRole(q) \/ RemoveMember(q) \/ WriteGrant(q) PROVE MembersTypeOK'
    <2>1. request[q] \in ChangingRole \union ChangingGrant \union Inviting /\ request[q].target \in People
      BY <1>7, RequestFacts, MembersAssumption DEF WriteRole, RemoveMember, WriteGrant, ChangingRole, ChangingGrant, Inviting
    <2>2. request' \in [Requests -> Doing] /\ UNCHANGED invited
      BY <1>2, <1>7 DEF WriteRole, RemoveMember, WriteGrant
    <2>3. CASE WriteRole(q)
      <3>1. request[q].new \in Roles
        BY <2>1, <2>3 DEF WriteRole, ChangingRole, ChangingGrant, Inviting, Roles
      <3> QED BY <1>0, <2>2, <2>3, <3>1 DEF WriteRole, MembersTypeOK, Roles, Asking
    <2>4. CASE RemoveMember(q)
      BY <1>0, <2>2, <2>4 DEF RemoveMember, MembersTypeOK, Roles, Asking
    <2>5. CASE WriteGrant(q)
      BY <1>0, <2>1, <2>2, <2>5 DEF WriteGrant, MembersTypeOK, Roles, Asking
    <2> QED BY <1>7, <2>3, <2>4, <2>5
  <1>8. ASSUME NEW q \in Requests, ReadInvitee(q) PROVE MembersTypeOK'
    <2>1. request[q] \in AskingInvite /\ UNCHANGED <<role, grants, invited>>
      BY <1>8, RequestFacts DEF ReadInvitee, Asking, AskingRole, AskingGrant, AskingInvite, Reading
    <2>2. CASE Answer(q, "refused")
      BY <1>0, <1>2, <2>1, <2>2 DEF MembersTypeOK, Roles, Asking
    <2>3. CASE request' = [request EXCEPT ![q].step = "write"]
      <3>1. request' \in [Requests -> Doing]
        BY <1>0, <2>1, <2>3 DEF AskingInvite, Reading, Asked, Inviting
      <3> QED BY <1>0, <2>1, <3>1 DEF MembersTypeOK, Roles, Asking
    <2> QED BY <1>8, <2>2, <2>3 DEF ReadInvitee
  <1>9. ASSUME NEW q \in Requests, WriteInvitation(q) PROVE MembersTypeOK'
    <2>1. request[q] \in Inviting /\ UNCHANGED <<role, grants>>
      BY <1>9, RequestFacts DEF WriteInvitation, ChangingRole, ChangingGrant
    <2>2. request' \in [Requests -> Doing]
      BY <1>2, <1>9 DEF WriteInvitation
    <2>3. invited' = invited \/ invited' = [invited EXCEPT ![request[q].target] = request[q].new]
      BY <1>9 DEF WriteInvitation
    <2> QED BY <1>0, <2>1, <2>2, <2>3, MembersAssumption DEF MembersTypeOK, Roles, Asking, Inviting
  <1>10. ASSUME NEW p \in People, Withdraw(p) PROVE MembersTypeOK'
    BY <1>0, <1>10 DEF Withdraw, MembersTypeOK, Roles, Asking
  <1>11. ASSUME NEW p \in People, SignIn(p) PROVE MembersTypeOK'
    BY <1>0, <1>11, SignInFacts DEF MembersTypeOK, Roles, Asking
  <1>12. CASE UNCHANGED memberVars
    BY <1>12 DEF memberVars, MembersTypeOK
  <1> QED BY <1>3, <1>4, <1>5, <1>6, <1>7, <1>8, <1>9, <1>10, <1>11, <1>12 DEF MembersNext, Handle

\* Every state has the declared types, however many requests overlap.
THEOREM MembersTypeCorrect == MembersSpec => []MembersTypeOK
<1>1. MembersInit => MembersTypeOK
  BY MembersAssumption DEF MembersInit, MembersTypeOK, OrgRoles, Idle
<1> QED BY <1>1, TypesKept, PTL DEF MembersSpec

-----------------------------------------------------------------------------
(***************************************************************************)
(* One request at a time: what a request has read is still so when it      *)
(* writes, but for what sign-ins have done meanwhile.                      *)
(***************************************************************************)

OneAtATime == \A q, s \in UnderWay : q = s

\* What a role change has read of its target.
RoleRead(r) ==
    r.step \in {"rules", "write"} /\ r.what = "role" =>
        /\ role[r.target] # "none" /\ r.before # r.new
        /\ r.before = "owner" => role[r.target] = "owner"
        /\ role[r.target] = "owner" => r.before = "owner" \/ r.target = AdminPerson

\* What the rules have found of a role change.
Ruled(r) ==
    r.step = "write" /\ r.what = "role" =>
        /\ "owner" \in {r.before, r.new} => r.actorRole = "owner"
        /\ r.before = "owner" /\ r.new # "owner" => \E p \in Owners : p # r.target

\* What a grant has read.
GrantRead(r) ==
    r.step = "write" /\ r.what = "grant" =>
        r.before # r.new /\ (r.new = "yes" => role[r.target] # "none")

\* Who asks is as much as they were.
ActorHolds(r) == r.step \in Waits /\ r.actorRole = "owner" => role[r.actor] = "owner"

Reads(r) == RoleRead(r) /\ Ruled(r) /\ GrantRead(r) /\ ActorHolds(r)

MembersIInv ==
    /\ MembersTypeOK /\ OneAtATime /\ GrantsOnlyForMembers
    /\ \A q \in Requests : Reads(request[q])

\* A request that has ended has read nothing.
LEMMA EndedReads ==
    ASSUME NEW step \in {"idle", "done", "refused"}
    PROVE  Reads([step |-> step])
  BY DEF Reads, RoleRead, Ruled, GrantRead, ActorHolds, Waits

\* One request goes on, and nothing it or another has read changes.
LEMMA GoesOn ==
    ASSUME MembersIInv, MembersTypeOK', NEW q \in Requests, NEW x, Reads(x),
           q \in UnderWay \/ UnderWay = {},
           request' = [request EXCEPT ![q] = x], UNCHANGED <<role, grants>>
    PROVE  MembersIInv'
  <1>1. /\ request'[q] = x
        /\ \A s \in Requests : s # q => request'[s] = request[s]
    BY DEF MembersIInv, MembersTypeOK
  <1>2. OneAtATime'
    BY <1>1 DEF MembersIInv, OneAtATime, UnderWay
  <1>3. \A s \in Requests : Reads(request'[s])
    BY <1>1 DEF MembersIInv
  <1>4. \A s \in Requests : Reads(request[s])'
    BY <1>3 DEF Reads, RoleRead, Ruled, GrantRead, ActorHolds, Owners
  <1>5. GrantsOnlyForMembers'
    BY DEF MembersIInv, GrantsOnlyForMembers
  <1> QED BY <1>2, <1>4, <1>5 DEF MembersIInv

\* The only request under way ends: nobody is under way any more.
LEMMA Ends ==
    ASSUME MembersIInv, MembersTypeOK', NEW q \in UnderWay, NEW step \in {"idle", "done", "refused"},
           Answer(q, step), GrantsOnlyForMembers'
    PROVE  MembersIInv'
  <1>1. q \in Requests /\ request' = [request EXCEPT ![q] = [step |-> step]]
    BY DEF Answer, UnderWay
  <1>2. /\ request'[q].step = step
        /\ \A s \in Requests : s # q => request'[s] = request[s]
    BY <1>1 DEF MembersIInv, MembersTypeOK
  <1>3. \A s \in Requests : request'[s].step \notin Waits
    BY <1>2 DEF MembersIInv, OneAtATime, UnderWay, Waits
  <1>4. OneAtATime'
    BY <1>3 DEF OneAtATime, UnderWay, Waits
  <1>5. \A s \in Requests : Reads(request[s])'
    BY <1>3 DEF Reads, RoleRead, Ruled, GrantRead, ActorHolds, Waits
  <1> QED BY <1>4, <1>5 DEF MembersIInv

\* A request begins when no other is under way.
LEMMA Alone ==
    ASSUME InFlight = 1, Cardinality(UnderWay) < InFlight
    PROVE  UnderWay = {}
  <1>1. IsFiniteSet(UnderWay)
    BY MembersAssumption, FS_Subset DEF UnderWay
  <1>2. Cardinality(UnderWay) \in Nat
    BY <1>1, FS_CardinalityType
  <1>3. Cardinality(UnderWay) = 0
    BY <1>2
  <1> QED BY <1>1, <1>3, FS_EmptySet

\* Of two or more owners, one is another.
LEMMA AnotherOwner ==
    ASSUME NEW p \in People, ~(Cardinality(Owners) <= 1)
    PROVE  \E o \in Owners : o # p
  <1> SUFFICES ASSUME \A o \in Owners : o = p PROVE FALSE
    OBVIOUS
  <1>1. Owners \subseteq {p} /\ IsFiniteSet({p}) /\ Cardinality({p}) = 1
    BY FS_Singleton
  <1>2. Cardinality(Owners) <= 1
    BY <1>1, FS_Subset
  <1> QED BY <1>2

LEMMA BeginKeeps ==
    ASSUME InFlight = 1, MembersIInv, MembersTypeOK', NEW q \in Requests, Begin(q)
    PROVE  MembersIInv'
  <1>1. PICK actor \in People, target \in People, what \in DOMAIN Asked : \E new \in Asked[what] :
          /\ role[actor] \in OrgAdmins
          /\ request' = [request EXCEPT ![q] =
              [step |-> "member", actor |-> actor, actorRole |-> role[actor],
               target |-> target, what |-> what, before |-> "none", new |-> new]]
    BY DEF Begin
  <1>2. PICK new \in Asked[what] :
          request' = [request EXCEPT ![q] =
              [step |-> "member", actor |-> actor, actorRole |-> role[actor],
               target |-> target, what |-> what, before |-> "none", new |-> new]]
    BY <1>1
  <1> DEFINE x == [step |-> "member", actor |-> actor, actorRole |-> role[actor],
                   target |-> target, what |-> what, before |-> "none", new |-> new]
  <1>3. Reads(x)
    BY DEF Reads, RoleRead, Ruled, GrantRead, ActorHolds
  <1>4. UnderWay = {} /\ UNCHANGED <<role, grants>>
    BY Alone DEF Begin
  <1> QED BY <1>2, <1>3, <1>4, GoesOn

\* The statements that read.
LEMMA ReadKeeps ==
    ASSUME MembersIInv, MembersTypeOK', NEW q \in Requests,
           ReadMember(q) \/ ReadGrant(q) \/ CheckRules(q) \/ ReadInvitee(q)
    PROVE  MembersIInv'
  <1>1. q \in UnderWay /\ UNCHANGED <<role, grants>>
    BY DEF UnderWay, ReadMember, ReadGrant, CheckRules, ReadInvitee
  <1>2. MembersTypeOK /\ Reads(request[q]) /\ role \in [People -> Roles] /\ GrantsOnlyForMembers
    BY DEF MembersIInv, MembersTypeOK, Roles
  <1>3. ASSUME NEW step \in {"idle", "done", "refused"}, Answer(q, step) PROVE MembersIInv'
    BY <1>1, <1>2, <1>3, Ends DEF GrantsOnlyForMembers
  <1>4. CASE ReadMember(q)
    <2>1. request[q] \in AskingRole
      BY <1>2, <1>4, RequestFacts DEF ReadMember, Asking, AskingRole, AskingGrant, AskingInvite, Reading
    <2>2. CASE Answer(q, "refused") \/ Answer(q, "idle")
      BY <1>3, <2>2
    <2>3. CASE /\ request' = [request EXCEPT ![q].step = "rules", ![q].before = role[request[q].target]]
               /\ role[request[q].target] # "none"
               /\ ~(role[request[q].target] = request[q].new /\ request[q].new # "none")
      <3> DEFINE x == [request[q] EXCEPT !.step = "rules", !.before = role[request[q].target]]
      <3>1. request' = [request EXCEPT ![q] = x]
        BY <2>3
      <3>2. /\ x.step = "rules" /\ x.what = "role" /\ x.before = role[x.target] /\ x.target = request[q].target
            /\ x.new = request[q].new /\ x.actor = request[q].actor /\ x.actorRole = request[q].actorRole
        BY <2>1 DEF AskingRole, Reading
      <3>3. request[q].step = "member"
        BY <2>1 DEF AskingRole, Reading
      <3> HIDE DEF x
      <3>4. Reads(x)
        BY <1>2, <2>3, <3>2, <3>3 DEF Reads, RoleRead, Ruled, GrantRead, ActorHolds, Waits
      <3> QED BY <1>1, <3>1, <3>4, GoesOn
    <2> QED BY <1>4, <2>2, <2>3 DEF ReadMember
  <1>5. CASE ReadGrant(q)
    <2> DEFINE before == IF request[q].target \in grants THEN "yes" ELSE "none"
    <2>1. request[q] \in AskingGrant
      BY <1>2, <1>5, RequestFacts DEF ReadGrant, Asking, AskingRole, AskingGrant, AskingInvite, Reading
    <2>2. CASE Answer(q, "refused") \/ Answer(q, "idle")
      BY <1>3, <2>2
    <2>3. CASE /\ request' = [request EXCEPT ![q].step = "write", ![q].before = before]
               /\ request[q].new = "yes" => role[request[q].target] # "none" /\ before # "yes"
               /\ request[q].new = "none" => before # "none"
      <3> DEFINE x == [request[q] EXCEPT !.step = "write", !.before = before]
      <3>1. request' = [request EXCEPT ![q] = x]
        BY <2>3
      <3>2. /\ x.step = "write" /\ x.what = "grant" /\ x.before = before /\ x.target = request[q].target
            /\ x.new = request[q].new /\ x.actor = request[q].actor /\ x.actorRole = request[q].actorRole
        BY <2>1 DEF AskingGrant, Reading
      <3>3. request[q].step = "member" /\ request[q].new \in {"yes", "none"}
        BY <2>1 DEF AskingGrant, Reading, Asked
      <3> HIDE DEF x
      <3>4. Reads(x)
        BY <1>2, <2>3, <3>2, <3>3 DEF Reads, RoleRead, Ruled, GrantRead, ActorHolds, Waits
      <3> QED BY <1>1, <3>1, <3>4, GoesOn
    <2> QED BY <1>5, <2>2, <2>3 DEF ReadGrant
  <1>6. CASE CheckRules(q)
    <2>1. request[q] \in ChangingRole /\ request[q].step = "rules"
      BY <1>2, <1>6, RequestFacts DEF CheckRules
    <2>2. CASE Answer(q, "refused")
      BY <1>3, <2>2
    <2>3. CASE /\ request' = [request EXCEPT ![q].step = "write"]
               /\ Allowed(request[q].actorRole, request[q].before, request[q].new, Cardinality(Owners))
      <3> DEFINE x == [request[q] EXCEPT !.step = "write"]
      <3>1. request' = [request EXCEPT ![q] = x]
        BY <2>3
      <3>2. /\ x.step = "write" /\ x.what = "role" /\ x.before = request[q].before /\ x.target = request[q].target
            /\ x.new = request[q].new /\ x.actor = request[q].actor /\ x.actorRole = request[q].actorRole
            /\ request[q].what = "role" /\ request[q].target \in People
        BY <2>1 DEF ChangingRole
      <3> HIDE DEF x
      <3>3. x.before = "owner" /\ x.new # "owner" => \E p \in Owners : p # x.target
        BY <2>3, <3>2, AnotherOwner DEF Allowed
      <3>4. "owner" \in {x.before, x.new} => x.actorRole = "owner"
        BY <2>3, <3>2 DEF Allowed
      <3>5. RoleRead(x) /\ ActorHolds(x) /\ GrantRead(x)
        BY <1>2, <2>1, <3>2 DEF Reads, RoleRead, ActorHolds, GrantRead, Waits
      <3> QED BY <1>1, <3>1, <3>3, <3>4, <3>5, GoesOn DEF Reads, Ruled
    <2> QED BY <1>6, <2>2, <2>3 DEF CheckRules
  <1>7. CASE ReadInvitee(q)
    <2>1. request[q] \in AskingInvite
      BY <1>2, <1>7, RequestFacts DEF ReadInvitee, Asking, AskingRole, AskingGrant, AskingInvite, Reading
    <2>2. CASE Answer(q, "refused")
      BY <1>3, <2>2
    <2>3. CASE request' = [request EXCEPT ![q].step = "write"]
      <3> DEFINE x == [request[q] EXCEPT !.step = "write"]
      <3>1. request' = [request EXCEPT ![q] = x]
        BY <2>3
      <3>2. /\ x.step = "write" /\ x.what = "invite" /\ request[q].step = "member"
            /\ x.actor = request[q].actor /\ x.actorRole = request[q].actorRole
        BY <2>1 DEF AskingInvite, Reading
      <3> HIDE DEF x
      <3>3. Reads(x)
        BY <1>2, <3>2 DEF Reads, RoleRead, Ruled, GrantRead, ActorHolds, Waits
      <3> QED BY <1>1, <3>1, <3>3, GoesOn
    <2> QED BY <1>7, <2>2, <2>3 DEF ReadInvitee
  <1> QED BY <1>4, <1>5, <1>6, <1>7

\* The statements that write.
LEMMA WriteKeeps ==
    ASSUME MembersIInv, MembersTypeOK', NEW q \in Requests,
           WriteRole(q) \/ RemoveMember(q) \/ WriteGrant(q) \/ WriteInvitation(q)
    PROVE  MembersIInv'
  <1>1. q \in UnderWay /\ \E step \in {"idle", "done", "refused"} : Answer(q, step)
    BY DEF UnderWay, WriteRole, RemoveMember, WriteGrant, WriteInvitation
  <1>2. /\ role \in [People -> Roles] /\ grants \subseteq People /\ Reads(request[q])
        /\ \A p \in grants : role[p] # "none"
    BY DEF MembersIInv, MembersTypeOK, Roles, GrantsOnlyForMembers
  <1>3. GrantsOnlyForMembers'
    <2>1. CASE WriteRole(q)
      BY <1>2, <2>1 DEF WriteRole, GrantsOnlyForMembers
    <2>2. CASE RemoveMember(q)
      BY <1>2, <2>2 DEF RemoveMember, GrantsOnlyForMembers
    <2>3. CASE WriteGrant(q)
      BY <1>2, <2>3 DEF WriteGrant, GrantsOnlyForMembers, Reads, GrantRead
    <2>4. CASE WriteInvitation(q)
      BY <1>2, <2>4 DEF WriteInvitation, GrantsOnlyForMembers
    <2> QED BY <2>1, <2>2, <2>3, <2>4
  <1> QED BY <1>1, <1>3, Ends

LEMMA SignInKeeps ==
    ASSUME MembersIInv, MembersTypeOK', NEW p \in People, SignIn(p)
    PROVE  MembersIInv'
  <1>1. MembersTypeOK
    BY DEF MembersIInv
  <1>2. /\ UNCHANGED request /\ grants' \subseteq grants \union {p}
        /\ p \in grants' \ grants => role'[p] # "none"
        /\ \A t \in People : /\ role[t] # "none" => role'[t] # "none"
                             /\ role[t] = "owner" => role'[t] = "owner"
                             /\ role'[t] = "owner" /\ role[t] # "owner" => t = AdminPerson /\ Owners = {}
    BY <1>1, SignInFacts
  <1>3. GrantsOnlyForMembers'
    BY <1>1, <1>2 DEF MembersIInv, GrantsOnlyForMembers, MembersTypeOK
  <1>4. OneAtATime'
    BY <1>2 DEF MembersIInv, OneAtATime, UnderWay
  <1>5. ASSUME NEW q \in Requests PROVE Reads(request[q])'
    <2>1. Reads(request[q])
      BY DEF MembersIInv
    <2>2. request[q].step \in Waits => request[q].target \in People /\ request[q].actor \in People
      BY <1>1, RequestFacts, MembersAssumption
         DEF Asking, AskingRole, AskingGrant, AskingInvite, Reading, ChangingRole, ChangingGrant, Inviting, Idle, Waits
    <2>3. RoleRead(request[q])' /\ GrantRead(request[q])' /\ ActorHolds(request[q])'
      BY <1>2, <2>1, <2>2 DEF Reads, RoleRead, GrantRead, ActorHolds, Waits
    <2>4. Ruled(request[q])'
      BY <1>2, <2>1 DEF Reads, Ruled, Owners
    <2> QED BY <2>3, <2>4 DEF Reads
  <1> QED BY <1>3, <1>4, <1>5 DEF MembersIInv

LEMMA MembersInitHolds == MembersInit => MembersIInv
  <1> SUFFICES ASSUME MembersInit PROVE MembersIInv
    OBVIOUS
  <1>1. MembersTypeOK
    BY MembersAssumption DEF MembersInit, MembersTypeOK, OrgRoles, Idle
  <1>2. UnderWay = {} /\ GrantsOnlyForMembers
    BY DEF MembersInit, UnderWay, GrantsOnlyForMembers
  <1>3. \A q \in Requests : Reads(request[q])
    BY EndedReads DEF MembersInit
  <1> QED BY <1>1, <1>2, <1>3 DEF MembersIInv, OneAtATime

LEMMA MembersNextHolds ==
    ASSUME InFlight = 1
    PROVE  MembersIInv /\ [MembersNext]_memberVars => MembersIInv'
  <1> SUFFICES ASSUME MembersIInv, [MembersNext]_memberVars PROVE MembersIInv'
    OBVIOUS
  <1>1. MembersTypeOK'
    BY TypesKept DEF MembersIInv
  <1>2. ASSUME NEW p \in People, Withdraw(p) \/ SignIn(p) PROVE MembersIInv'
    <2>1. CASE Withdraw(p)
      BY <1>1, <2>1 DEF Withdraw, MembersIInv, OneAtATime, UnderWay, GrantsOnlyForMembers,
                        Reads, RoleRead, Ruled, GrantRead, ActorHolds, Owners
    <2> QED BY <1>1, <1>2, <2>1, SignInKeeps
  <1>3. ASSUME NEW q \in Requests, Begin(q) \/ Handle(q) PROVE MembersIInv'
    BY <1>1, <1>3, BeginKeeps, ReadKeeps, WriteKeeps DEF Handle
  <1>4. CASE UNCHANGED memberVars
    BY <1>4 DEF memberVars, MembersIInv, MembersTypeOK, OneAtATime, UnderWay, GrantsOnlyForMembers,
                Reads, RoleRead, Ruled, GrantRead, ActorHolds, Owners
  <1> QED BY <1>2, <1>3, <1>4 DEF MembersNext

\* Nobody outside the org has access to a workspace (services/admin/members.py:175-189).
THEOREM GrantsTheorem ==
    ASSUME InFlight = 1
    PROVE  MembersSpec => []GrantsOnlyForMembers
<1>1. MembersIInv => GrantsOnlyForMembers
  BY DEF MembersIInv
<1> QED BY <1>1, MembersInitHolds, MembersNextHolds, PTL DEF MembersSpec

\* One request at a time, an org that has an owner keeps one, but for an owner who became one by
\* signing in after the request had read their role (services/admin/rules.py:13-23).
THEOREM OwnersTheorem ==
    ASSUME InFlight = 1
    PROVE  MembersSpec => OwnersRemain
<1>1. ASSUME MembersIInv, [MembersNext]_memberVars
      PROVE  Owners # {} => Owners' # {} \/ \E q \in Requests : Overtaken(q)
  <2> SUFFICES ASSUME NEW o \in Owners PROVE Owners' # {} \/ \E q \in Requests : Overtaken(q)
    OBVIOUS
  <2>1. o \in People /\ role[o] = "owner" /\ role \in [People -> Roles]
    BY <1>1 DEF Owners, MembersIInv, MembersTypeOK, Roles
  <2>2. CASE role' = role
    BY <2>1, <2>2 DEF Owners
  <2>3. ASSUME NEW p \in People, SignIn(p) PROVE Owners' # {}
    BY <1>1, <2>1, <2>3, SignInFacts DEF MembersIInv, Owners
  <2>4. ASSUME NEW q \in Requests, WriteRole(q) \/ RemoveMember(q)
        PROVE  Owners' # {} \/ Overtaken(q)
    <3>1. request[q] \in ChangingRole /\ request[q].step = "write" /\ Reads(request[q])
      BY <1>1, <2>4, RequestFacts DEF MembersIInv, WriteRole, RemoveMember, ChangingGrant, Inviting
    <3>2. request[q].what = "role" /\ request[q].target \in People
      BY <3>1 DEF ChangingRole
    <3>3. /\ \A p \in People : p # request[q].target => role'[p] = role[p]
          /\ role'[request[q].target] = IF role[request[q].target] = "none" THEN "none" ELSE request[q].new
          /\ request'[q].step = "done"
      <4>1. request' = [request EXCEPT ![q] = [step |-> "done"]] /\ request \in [Requests -> {request[s] : s \in Requests}]
        BY <1>1, <2>4 DEF MembersIInv, MembersTypeOK, WriteRole, RemoveMember, Answer
      <4>2. request'[q].step = "done"
        BY <4>1
      <4> QED BY <2>1, <2>4, <3>2, <4>2 DEF WriteRole, RemoveMember
    <3>4. CASE o # request[q].target
      BY <2>1, <3>3, <3>4 DEF Owners
    <3>5. CASE o = request[q].target /\ request[q].new = "owner"
      BY <2>1, <3>3, <3>5 DEF Owners
    <3>6. CASE request[q].before = "owner" /\ request[q].new # "owner"
      <4>1. PICK p \in Owners : p # request[q].target
        BY <3>1, <3>2, <3>6 DEF Reads, Ruled
      <4> QED BY <3>3, <4>1 DEF Owners
    <3>7. CASE o = request[q].target /\ request[q].before # "owner"
      BY <2>1, <3>1, <3>2, <3>3, <3>7 DEF Reads, RoleRead, Overtaken
    <3> QED BY <3>4, <3>5, <3>6, <3>7
  <2>5. ASSUME NEW q \in Requests,
               Begin(q) \/ ReadMember(q) \/ ReadGrant(q) \/ CheckRules(q) \/ WriteGrant(q) \/ ReadInvitee(q)
               \/ WriteInvitation(q)
        PROVE  role' = role
    BY <2>5 DEF Begin, ReadMember, ReadGrant, CheckRules, WriteGrant, ReadInvitee, WriteInvitation
  <2>6. ASSUME (\E p \in People : Withdraw(p)) \/ UNCHANGED memberVars PROVE role' = role
    BY <2>6 DEF Withdraw, memberVars
  <2> QED BY <1>1, <2>2, <2>3, <2>4, <2>5, <2>6 DEF MembersNext, Handle
<1>2. MembersIInv /\ [MembersNext]_memberVars =>
        (Owners # {} => Owners' # {} \/ \E q \in Requests : Overtaken(q))
  BY <1>1
<1> QED BY <1>2, MembersInitHolds, MembersNextHolds, PTL DEF MembersSpec, OwnersRemain

\* What a step does to roles, grants and requests: a sign-in, one of the writes, or neither.
LEMMA StepFacts ==
    ASSUME MembersIInv, [MembersNext]_memberVars
    PROVE  \/ \E p \in People : SignIn(p)
           \/ \E q \in Requests : WriteRole(q) \/ RemoveMember(q) \/ WriteGrant(q)
           \/ /\ UNCHANGED <<role, grants>>
              /\ \A q \in Requests : request[q].step = "write" => request'[q].step # "done"
  <1> DEFINE Stays == /\ UNCHANGED <<role, grants>>
                      /\ \A q \in Requests : request[q].step = "write" => request'[q].step # "done"
  <1>1. request \in [Requests -> {request[s] : s \in Requests}]
    BY DEF MembersIInv, MembersTypeOK
  <1>2. ASSUME NEW q \in Requests, NEW x, request' = [request EXCEPT ![q] = x], UNCHANGED <<role, grants>>,
               request[q].step = "write" => x.step # "done"
        PROVE  Stays
    <2>1. \A s \in Requests : request'[s] = IF s = q THEN x ELSE request[s]
      BY <1>1, <1>2
    <2> QED BY <1>2, <2>1
  <1>3. ASSUME NEW q \in Requests, Begin(q) PROVE Stays
    <2>1. UNCHANGED <<role, grants>> /\ request[q].step # "write"
      BY <1>3 DEF Begin, UnderWay
    <2>2. \E x : request' = [request EXCEPT ![q] = x]
      BY <1>3 DEF Begin
    <2> QED BY <1>2, <2>1, <2>2
  <1>4. ASSUME NEW q \in Requests, ReadMember(q) \/ ReadGrant(q) \/ CheckRules(q) \/ ReadInvitee(q) PROVE Stays
    <2>1. UNCHANGED <<role, grants>> /\ request[q].step # "write"
      BY <1>4 DEF ReadMember, ReadGrant, CheckRules, ReadInvitee
    <2>2. \E x : request' = [request EXCEPT ![q] = x]
      BY <1>4 DEF ReadMember, ReadGrant, CheckRules, ReadInvitee, Answer
    <2> QED BY <1>2, <2>1, <2>2
  <1>5. ASSUME NEW q \in Requests, WriteInvitation(q) PROVE Stays
    <2>1. \E step \in {"refused", "idle"} : request' = [request EXCEPT ![q] = [step |-> step]]
      BY <1>5 DEF WriteInvitation, Answer
    <2>2. UNCHANGED <<role, grants>>
      BY <1>5 DEF WriteInvitation
    <2> QED BY <1>2, <2>1, <2>2
  <1>6. ASSUME (\E p \in People : Withdraw(p)) \/ UNCHANGED memberVars PROVE Stays
    BY <1>6 DEF Withdraw, memberVars
  <1> HIDE DEF Stays
  <1>7. (\E p \in People : SignIn(p)) \/ (\E q \in Requests : WriteRole(q) \/ RemoveMember(q) \/ WriteGrant(q))
        \/ Stays
    BY <1>3, <1>4, <1>5, <1>6 DEF MembersNext, Handle
  <1> QED BY <1>7 DEF Stays

\* What a write does.
LEMMA WriteFacts ==
    ASSUME MembersIInv, NEW q \in Requests, WriteRole(q) \/ RemoveMember(q) \/ WriteGrant(q)
    PROVE  /\ request[q].step = "write" /\ Reads(request[q]) /\ request[q].target \in People
           /\ \A s \in Requests : s # q => request'[s] = request[s]
           /\ WriteRole(q) \/ RemoveMember(q) =>
                 /\ request[q].what = "role" /\ request'[q].step = "done" /\ request[q].new \in Roles
                 /\ role[request[q].target] # "none" /\ role'[request[q].target] = request[q].new
                 /\ \A p \in People : p # request[q].target => role'[p] = role[p]
           /\ WriteGrant(q) =>
                 /\ request[q].what = "grant" /\ role' = role
                 /\ request'[q].step = "done" => (request[q].target \in grants' <=> request[q].new = "yes")
  <1>1. /\ request[q].step = "write" /\ Reads(request[q]) /\ MembersTypeOK
        /\ request \in [Requests -> {request[s] : s \in Requests}] /\ role \in [People -> Roles]
    BY DEF MembersIInv, MembersTypeOK, Roles, WriteRole, RemoveMember, WriteGrant
  <1>2. request[q].target \in People
    BY <1>1, RequestFacts, MembersAssumption DEF ChangingRole, ChangingGrant, Inviting
  <1>3. \A s \in Requests : s # q => request'[s] = request[s]
    BY <1>1 DEF WriteRole, RemoveMember, WriteGrant, Answer
  <1>4. ASSUME WriteRole(q) \/ RemoveMember(q)
        PROVE  /\ request[q].what = "role" /\ request'[q].step = "done" /\ request[q].new \in Roles
               /\ role[request[q].target] # "none" /\ role'[request[q].target] = request[q].new
               /\ \A p \in People : p # request[q].target => role'[p] = role[p]
    <2>1. request[q] \in ChangingRole
      BY <1>1, <1>4, RequestFacts DEF WriteRole, RemoveMember, ChangingGrant, Inviting
    <2>2. role[request[q].target] # "none" /\ request[q].new \in Roles /\ request[q].what = "role"
      BY <1>1, <2>1 DEF Reads, RoleRead, ChangingRole, Roles
    <2>3. request'[q].step = "done"
      BY <1>1, <1>4 DEF WriteRole, RemoveMember, Answer
    <2> QED BY <1>1, <1>2, <1>4, <2>2, <2>3 DEF WriteRole, RemoveMember
  <1>5. ASSUME WriteGrant(q)
        PROVE  /\ request[q].what = "grant" /\ role' = role
               /\ request'[q].step = "done" => (request[q].target \in grants' <=> request[q].new = "yes")
    <2>1. CASE request[q].new = "yes" /\ request[q].target \in grants
      <3>1. request'[q].step = "refused"
        BY <1>1, <1>5, <2>1 DEF WriteGrant, Answer
      <3> QED BY <1>5, <3>1 DEF WriteGrant
    <2>2. CASE ~(request[q].new = "yes" /\ request[q].target \in grants)
      BY <1>5, <2>2 DEF WriteGrant
    <2> QED BY <2>1, <2>2
  <1> QED BY <1>1, <1>2, <1>3, <1>4, <1>5

\* One request at a time: only owners make and unmake owners, sign-ins take no role away, and what
\* the audit log says has happened (services/admin/rules.py:13-23, members.py:150-189).
THEOREM RolesTheorem ==
    ASSUME InFlight = 1
    PROVE  MembersSpec => RolesAreGuarded
<1>1. ASSUME MembersIInv, [MembersNext]_memberVars, NEW p \in People,
             role'[p] # role[p], "owner" \in {role[p], role'[p]}
      PROVE  \/ \E q \in Requests : /\ request[q].step = "write" /\ request'[q].step = "done"
                                    /\ role[request[q].actor] = "owner"
             \/ p = AdminPerson /\ (Owners = {} \/ \E q \in Requests : Overtaken(q))
  <2>1. ASSUME NEW s \in People, SignIn(s) PROVE p = AdminPerson /\ Owners = {}
    BY <1>1, <2>1, SignInFacts DEF MembersIInv
  <2>2. ASSUME NEW q \in Requests, WriteRole(q) \/ RemoveMember(q)
        PROVE  /\ request[q].step = "write" /\ request'[q].step = "done"
               /\ role[request[q].actor] = "owner" \/ (p = AdminPerson /\ Overtaken(q))
    <3>1. /\ request[q].step = "write" /\ request'[q].step = "done" /\ request[q].what = "role"
          /\ Reads(request[q]) /\ p = request[q].target /\ role'[p] = request[q].new
      BY <1>1, <2>2, WriteFacts
    <3>2. CASE "owner" \in {request[q].before, request[q].new}
      BY <3>1, <3>2 DEF Reads, Ruled, ActorHolds, Waits
    <3>3. CASE "owner" \notin {request[q].before, request[q].new}
      BY <1>1, <3>1, <3>3 DEF Reads, RoleRead, Overtaken
    <3> QED BY <3>1, <3>2, <3>3
  <2>3. ASSUME NEW q \in Requests, WriteGrant(q) PROVE FALSE
    BY <1>1, <2>3, WriteFacts
  <2> QED BY <1>1, <2>1, <2>2, <2>3, StepFacts
<1>2. ASSUME MembersIInv, [MembersNext]_memberVars, NEW p \in People, Rank[role'[p]] < Rank[role[p]]
      PROVE  \E q \in Requests : request[q].step = "write" /\ request'[q].step = "done"
  <2>1. role \in [People -> Roles] /\ Rank[role[p]] \in Nat
    BY <1>2, HigherFacts DEF MembersIInv, MembersTypeOK, Roles
  <2>2. ASSUME NEW s \in People, SignIn(s) PROVE FALSE
    <3>1. Rank[role[p]] <= Rank[role'[p]] /\ role'[p] \in Roles
      BY <1>2, <2>2, SignInFacts DEF MembersIInv
    <3>2. Rank[role'[p]] \in Nat
      BY <3>1, HigherFacts
    <3> QED BY <1>2, <2>1, <3>1, <3>2
  <2>3. CASE role' = role
    BY <1>2, <2>1, <2>3
  <2> QED BY <1>2, <2>2, <2>3, StepFacts, WriteFacts
<1>3. ASSUME MembersIInv, [MembersNext]_memberVars, NEW q \in Requests,
             request[q].step = "write", request'[q].step = "done"
      PROVE  /\ request[q].before # request[q].new
             /\ request[q].what = "role"  => role'[request[q].target] = request[q].new
             /\ request[q].what = "grant" => (request[q].target \in grants' <=> request[q].new = "yes")
  <2>1. ASSUME NEW p \in People, SignIn(p) PROVE FALSE
    BY <1>3, <2>1 DEF SignIn
  <2>2. ASSUME NEW s \in Requests, WriteRole(s) \/ RemoveMember(s) \/ WriteGrant(s) PROVE s = q
    BY <1>3, <2>2, WriteFacts
  <2>3. WriteRole(q) \/ RemoveMember(q) \/ WriteGrant(q)
    BY <1>3, <2>1, <2>2, StepFacts
  <2> QED BY <1>3, <2>3, WriteFacts DEF Reads, RoleRead, GrantRead
<1>4. MembersIInv /\ [MembersNext]_memberVars =>
        \A p \in People : (role'[p] # role[p] /\ "owner" \in {role[p], role'[p]}) =>
          \/ \E q \in Requests : /\ request[q].step = "write" /\ request'[q].step = "done"
                                 /\ role[request[q].actor] = "owner"
          \/ p = AdminPerson /\ (Owners = {} \/ \E q \in Requests : Overtaken(q))
  BY <1>1
<1>5. MembersIInv /\ [MembersNext]_memberVars =>
        \A p \in People : Rank[role'[p]] < Rank[role[p]] =>
          \E q \in Requests : request[q].step = "write" /\ request'[q].step = "done"
  BY <1>2
<1>6. MembersIInv /\ [MembersNext]_memberVars =>
        \A q \in Requests : (request[q].step = "write" /\ request'[q].step = "done") =>
          LET r == request[q]
          IN  /\ r.before # r.new
              /\ r.what = "role"  => role'[r.target] = r.new
              /\ r.what = "grant" => (r.target \in grants' <=> r.new = "yes")
  BY <1>3
<1> QED BY <1>4, <1>5, <1>6, MembersInitHolds, MembersNextHolds, PTL
        DEF MembersSpec, RolesAreGuarded, OnlyOwnersTouchOwners, SignInOnlyRaises, EventsHaveTheirChange
=============================================================================
