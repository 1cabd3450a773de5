------------------------------ MODULE Findings ------------------------------
(***************************************************************************)
(* Findings of several runs of the same series: deduplication when a run   *)
(* completes (persist_report in services/findings.py) against status       *)
(* changes by users (change_status), under PostgreSQL's READ COMMITTED.    *)
(*                                                                         *)
(* A completing run works through its series in id order.  Per series it   *)
(* takes an advisory lock keyed by a hash of the series id and then, one   *)
(* incoming finding after the other, either merges it into the best        *)
(* absorbing finding or inserts it.  Its writes become visible, and its    *)
(* locks free, when it commits.  A status change locks one row, checks the *)
(* transition and commits.                                                 *)
(*                                                                         *)
(* An incoming finding is identified by its tag <<run, series, position>>. *)
(* The field `tags` of a stored finding, the incoming findings folded into *)
(* it, is not in the database: the properties are about it.                *)
(***************************************************************************)
EXTENDS Integers, Sequences, FiniteSets

CONSTANTS
    Runs,        \* runs about to complete
    Series,      \* series, each known by its id
    SeriesOf,    \* the series each run checked, in id order
    LockKeys,    \* second keys of the advisory lock: hashes of series ids
    LockKey,     \* the hash of each series id
    Reports,     \* what the checks may report on a series: sequences of core findings
    Users,       \* concurrent status change requests
    NsPerUs      \* nanoseconds per microsecond

\* A core finding: the check, what it is about (evidence shape, group and partner) and its
\* window in nanoseconds.
IsCoreFinding(c) ==
    /\ DOMAIN c = {"check", "subject", "start", "end"}
    /\ c.start \in Int /\ c.end \in Int /\ c.start <= c.end

ASSUME FindingsAssumption ==
    /\ NsPerUs \in Nat \ {0}
    /\ SeriesOf \in [Runs -> Seq(Series)]
    /\ \A r \in Runs : \A i, j \in DOMAIN SeriesOf[r] : i # j => SeriesOf[r][i] # SeriesOf[r][j]
    /\ LockKey \in [Series -> LockKeys]
    /\ \A reported \in Reports :
          /\ Len(reported) \in Nat /\ DOMAIN reported = 1..Len(reported)
          /\ \A i \in DOMAIN reported : IsCoreFinding(reported[i])
    /\ Runs \intersect Users = {}

VARIABLES
    findings,   \* committed findings
    report,     \* report[r][s]: the core findings of run r on series s
    pc,         \* where the completion transaction of each run stands
    pos,        \* the series it is at and the next incoming finding of that series
    own,        \* findings it wrote, not committed yet
    held,       \* advisory lock keys it holds
    locks,      \* row locks: pairs <<finding id, holder>>
    request     \* the status change each user is making

vars == <<findings, report, pc, pos, own, held, locks, request>>

Statuses  == {"open", "acked", "muted", "resolved"}
Absorbing == {"open", "acked"}

\* TRANSITIONS: the status changes the lifecycle allows.
Transitions ==
    [ open     |-> {"acked", "muted", "resolved"},
      acked    |-> {"resolved", "open"},
      muted    |-> {"open"},
      resolved |-> {"open"} ]

Tags == Runs \X Series \X (Nat \ {0})

NoRequest == [step |-> "idle"]

Init ==
    /\ findings = {}
    /\ report \in [Runs -> [Series -> Reports]]
    /\ pc = [r \in Runs |-> "idle"]
    /\ pos = [r \in Runs |-> [s |-> 1, i |-> 1]]
    /\ own = [r \in Runs |-> {}]
    /\ held = [r \in Runs |-> {}]
    /\ locks = {}
    /\ request = [u \in Users |-> NoRequest]

-----------------------------------------------------------------------------
(* Windows *)

\* Mutant of StoredWindow: a window that rounds to nothing stays empty.
MaybeEmptyWindow(c) == [start |-> c.start \div NsPerUs, end |-> -((-c.end) \div NsPerUs)]

\* _window: the stored window in microseconds; it contains the core's and is never empty.
StoredWindow(c) ==
    LET start == c.start \div NsPerUs
        end   == -((-c.end) \div NsPerUs)
    IN  [start |-> start, end |-> IF end > start THEN end ELSE start + 1]

Smaller(a, b) == IF a < b THEN a ELSE b
Larger(a, b)  == IF a > b THEN a ELSE b

Overlap(v, w) == v.start < w.end /\ w.start < v.end

\* _overlap_ratio of overlapping windows, as a fraction.
Shared(v, w) == Smaller(v.end, w.end) - Larger(v.start, w.start)
Joined(v, w) == Larger(v.end, w.end) - Smaller(v.start, w.start)
RatioAtLeast(v1, v2, w) == Shared(v1, w) * Joined(v2, w) >= Shared(v2, w) * Joined(v1, w)

-----------------------------------------------------------------------------
(* The completion transaction of a run *)

SeriesAt(r) == SeriesOf[r][pos[r].s]
Incoming(r) == report[r][SeriesAt(r)][pos[r].i]

\* What the transaction sees: committed findings, and its own writes in their place.
View(r) == own[r] \union {f \in findings : \A g \in own[r] : g.id # f.id}

\* Mutant of Matches: findings of the same run are not excluded.
MatchesOwn(r) ==
    {f \in View(r) : /\ f.series = SeriesAt(r)
                     /\ f.check = Incoming(r).check
                     /\ f.status \in Absorbing
                     /\ Overlap(f, StoredWindow(Incoming(r)))}

\* The rows _best_candidate selects and locks, and those of them that are candidates.
Matches(r) ==
    {f \in View(r) : /\ f.series = SeriesAt(r)
                     /\ f.check = Incoming(r).check
                     /\ f.status \in Absorbing
                     /\ Overlap(f, StoredWindow(Incoming(r)))
                     /\ f.first # r}
Candidates(r) == {f \in Matches(r) : f.subject = Incoming(r).subject}

\* max() over the candidates in the order of their windows' starts.  Equal ratios and equal
\* starts are told apart by created_at, which rows of one run share: any of them may win.
Best(r) ==
    LET w == StoredWindow(Incoming(r))
        top == {f \in Candidates(r) : \A g \in Candidates(r) : RatioAtLeast(f, g, w)}
    IN  {f \in top : \A g \in top : f.start <= g.start}

\* Mutants of Merged: the window's end is overwritten; every merge counts; the rewritten
\* row does not keep its first run.
MergedShrinking(f, r) ==
    LET w == StoredWindow(Incoming(r))
    IN  [f EXCEPT !.start = Smaller(f.start, w.start), !.end = w.end,
                  !.occurrences = IF f.last = r THEN @ ELSE @ + 1, !.last = r,
                  !.tags = @ \union {<<r, SeriesAt(r), pos[r].i>>}]
MergedCountingAll(f, r) ==
    LET w == StoredWindow(Incoming(r))
    IN  [f EXCEPT !.start = Smaller(f.start, w.start), !.end = Larger(f.end, w.end),
                  !.occurrences = @ + 1, !.last = r,
                  !.tags = @ \union {<<r, SeriesAt(r), pos[r].i>>}]
MergedForgettingOrigin(f, r) ==
    LET w == StoredWindow(Incoming(r))
    IN  [f EXCEPT !.start = Smaller(f.start, w.start), !.end = Larger(f.end, w.end),
                  !.first = IF w.start < f.start THEN r ELSE @,
                  !.occurrences = IF f.last = r THEN @ ELSE @ + 1, !.last = r,
                  !.tags = @ \union {<<r, SeriesAt(r), pos[r].i>>}]

\* _merge: union window, newest facts, one occurrence per run.
Merged(f, r) ==
    LET w == StoredWindow(Incoming(r))
    IN  [f EXCEPT !.start = Smaller(f.start, w.start),
                  !.end   = Larger(f.end, w.end),
                  !.occurrences = IF f.last = r THEN f.occurrences ELSE f.occurrences + 1,
                  !.last  = r,
                  !.tags  = f.tags \union {<<r, SeriesAt(r), pos[r].i>>}]

Inserted(r) ==
    LET w == StoredWindow(Incoming(r))
        tag == <<r, SeriesAt(r), pos[r].i>>
    IN  [id |-> tag, series |-> SeriesAt(r), check |-> Incoming(r).check,
         subject |-> Incoming(r).subject, start |-> w.start, end |-> w.end,
         status |-> "open", touched |-> FALSE, first |-> r, last |-> r, occurrences |-> 1,
         tags |-> {tag}]

LockedByOther(f, holder) == \E l \in locks : l[1] = f.id /\ l[2] # holder

\* The transaction starts: its guarded update has found the run still running.
Begin(r) ==
    /\ pc[r] = "idle"
    /\ pc' = [pc EXCEPT ![r] = IF SeriesOf[r] = <<>> THEN "commit" ELSE "lock"]
    /\ UNCHANGED <<findings, report, pos, own, held, locks, request>>

\* Mutant of Lock: nobody waits.
LockFree(r) ==
    /\ pc[r] = "lock"
    /\ held' = [held EXCEPT ![r] = @ \union {LockKey[SeriesAt(r)]}]
    /\ pc' = [pc EXCEPT ![r] = "persist"]
    /\ UNCHANGED <<findings, report, pos, own, locks, request>>

\* pg_advisory_xact_lock: waits while another transaction holds the key; re-entrant.
Lock(r) ==
    /\ pc[r] = "lock"
    /\ \A q \in Runs \ {r} : LockKey[SeriesAt(r)] \notin held[q]
    /\ held' = [held EXCEPT ![r] = @ \union {LockKey[SeriesAt(r)]}]
    /\ pc' = [pc EXCEPT ![r] = "persist"]
    /\ UNCHANGED <<findings, report, pos, own, locks, request>>

\* One incoming finding: lock every matching row, waiting for its holder, then merge into the
\* best candidate or insert.
Absorb(r) ==
    /\ pc[r] = "persist"
    /\ pos[r].i <= Len(report[r][SeriesAt(r)])
    /\ \A f \in Matches(r) : ~LockedByOther(f, r)
    /\ locks' = locks \union {<<f.id, r>> : f \in Matches(r)}
    /\ IF Candidates(r) = {}
       THEN own' = [own EXCEPT ![r] = @ \union {Inserted(r)}]
       ELSE \E f \in Best(r) :
               own' = [own EXCEPT ![r] = {g \in @ : g.id # f.id} \union {Merged(f, r)}]
    /\ pos' = [pos EXCEPT ![r].i = @ + 1]
    /\ UNCHANGED <<findings, report, pc, held, request>>

\* The report of this series is stored: go on with the next series, or commit.
NextSeries(r) ==
    /\ pc[r] = "persist"
    /\ pos[r].i > Len(report[r][SeriesAt(r)])
    /\ IF pos[r].s < Len(SeriesOf[r])
       THEN /\ pos' = [pos EXCEPT ![r] = [s |-> pos[r].s + 1, i |-> 1]]
            /\ pc'  = [pc EXCEPT ![r] = "lock"]
       ELSE /\ pc'  = [pc EXCEPT ![r] = "commit"]
            /\ UNCHANGED pos
    /\ UNCHANGED <<findings, report, own, held, locks, request>>

\* Mutant of Release: the advisory locks are session locks and outlive the transaction.
ReleaseRows(r, outcome) ==
    /\ pc'    = [pc EXCEPT ![r] = outcome]
    /\ own'   = [own EXCEPT ![r] = {}]
    /\ locks' = {l \in locks : l[2] # r}
    /\ UNCHANGED <<held, report, pos, request>>

\* The transaction ends and frees its locks.
Release(r, outcome) ==
    /\ pc'    = [pc EXCEPT ![r] = outcome]
    /\ own'   = [own EXCEPT ![r] = {}]
    /\ held'  = [held EXCEPT ![r] = {}]
    /\ locks' = {l \in locks : l[2] # r}
    /\ UNCHANGED <<report, pos, request>>

Commit(r) ==
    /\ pc[r] = "commit"
    /\ findings' = View(r)
    /\ Release(r, "succeeded")

\* Any statement fails, or the server picks the transaction as a deadlock's victim.
Abort(r) ==
    /\ pc[r] \in {"lock", "persist", "commit"}
    /\ Release(r, "failed")
    /\ UNCHANGED findings

-----------------------------------------------------------------------------
(* Status changes *)

\* The statement SELECT ... FOR UPDATE starts: it sees one committed version of the row.
Ask(u) ==
    /\ request[u].step = "idle"
    /\ \E f \in findings, status \in Statuses :
          request' = [request EXCEPT ![u] = [step |-> "select", id |-> f.id, start |-> f.start,
                                             status |-> status]]
    /\ UNCHANGED <<findings, report, pc, pos, own, held, locks>>

Answer(u, what) == request' = [request EXCEPT ![u] = [step |-> what]]

\* Mutant of Select: the row is read without FOR UPDATE.
SelectUnlocked(u) ==
    /\ request[u].step = "select"
    /\ \E f \in findings :
          /\ f.id = request[u].id
          /\ request[u].status \in Transitions[f.status]
          /\ request' = [request EXCEPT ![u].step = "update"]
    /\ UNCHANGED <<findings, report, pc, pos, own, held, locks>>

\* The row is free: its newest version is read and locked.  A version that was deleted and
\* inserted again under the same id is another row to the statement: not found.
Select(u) ==
    /\ request[u].step = "select"
    /\ \E f \in findings :
          /\ f.id = request[u].id
          /\ ~LockedByOther(f, u)
          /\ CASE f.start # request[u].start -> Answer(u, "not found") /\ UNCHANGED locks
               [] f.start = request[u].start /\ request[u].status \notin Transitions[f.status] ->
                    Answer(u, "conflict") /\ UNCHANGED locks
               [] OTHER ->
                    /\ request' = [request EXCEPT ![u].step = "update"]
                    /\ locks' = locks \union {<<f.id, u>>}
    /\ UNCHANGED <<findings, report, pc, pos, own, held>>

\* The status is written and the request commits.
Update(u) ==
    /\ request[u].step = "update"
    /\ findings' = {IF f.id = request[u].id
                    THEN [f EXCEPT !.status = request[u].status, !.touched = TRUE]
                    ELSE f : f \in findings}
    /\ locks' = {l \in locks : l[2] # u}
    /\ Answer(u, "done")
    /\ UNCHANGED <<report, pc, pos, own, held>>

-----------------------------------------------------------------------------
Persist(r) == Begin(r) \/ Lock(r) \/ Absorb(r) \/ NextSeries(r) \/ Commit(r)
Change(u)  == Select(u) \/ Update(u)

Next ==
    \/ \E r \in Runs : Persist(r) \/ Abort(r)
    \/ \E u \in Users : Ask(u) \/ Change(u)

\* Statements that are not blocked are executed.
Fairness == /\ \A r \in Runs : WF_vars(Persist(r))
            /\ \A u \in Users : WF_vars(Change(u))

Spec == Init /\ [][Next]_vars /\ Fairness

-----------------------------------------------------------------------------
(* Properties *)

\* The type invariant; what a finding is about is left to the reports.
IsFinding(f) ==
    /\ DOMAIN f = {"id", "series", "check", "subject", "start", "end", "status", "touched",
                   "first", "last", "occurrences", "tags"}
    /\ f.id \in Tags /\ f.series \in Series /\ f.status \in Statuses /\ f.touched \in BOOLEAN
    /\ f.start \in Int /\ f.end \in Int /\ f.start < f.end
    /\ f.first \in Runs /\ f.last \in Runs
    /\ f.occurrences \in Nat \ {0}
    /\ f.tags \subseteq Tags

TypeOK ==
    /\ \A f \in findings : IsFinding(f)
    /\ report \in [Runs -> [Series -> Reports]]
    /\ pc \in [Runs -> {"idle", "lock", "persist", "commit", "succeeded", "failed"}]
    /\ \A r \in Runs : pos[r].s \in Nat \ {0} /\ pos[r].i \in Nat \ {0}
    /\ \A r \in Runs : \A f \in own[r] : IsFinding(f)
    /\ held \in [Runs -> SUBSET LockKeys]
    /\ locks \subseteq Tags \X (Runs \union Users)
    /\ \A f, g \in findings : f.id = g.id => f = g

\* What run r reported on the series it checked.
TagsOf(r) ==
    UNION {{<<r, s, i>> : i \in DOMAIN report[r][s]} :
              s \in {SeriesOf[r][j] : j \in DOMAIN SeriesOf[r]}}

Holds(f, t) ==
    LET c == report[t[1]][t[2]][t[3]]
    IN  /\ f.series = t[2] /\ f.check = c.check /\ f.subject = c.subject
        /\ f.start * NsPerUs <= c.start
        /\ f.end * NsPerUs >= c.end

\* Nothing a succeeded run found is lost or counted twice: each of its incoming findings is in
\* exactly one stored finding, of the same series, check and subject, whose window contains
\* the core's to the nanosecond.  Failed and unfinished runs have left nothing.
EveryFindingKeptOnce ==
    /\ \A f \in findings : \A t \in f.tags : pc[t[1]] = "succeeded"
    /\ \A r \in Runs : pc[r] = "succeeded" =>
          \A t \in TagsOf(r) :
             /\ \E f \in findings : t \in f.tags
             /\ \A f \in findings : t \in f.tags => Holds(f, t)
             /\ \A f, g \in findings : t \in f.tags \intersect g.tags => f = g

\* "seen in n runs": `occurrences` is the number of distinct runs that reported the finding,
\* however their completions interleave and however often one of them reported it.
OccurrencesCountRuns ==
    \A f \in findings : f.occurrences = Cardinality({t[1] : t \in f.tags})

\* Findings of one run are distinct statements and never merge with each other: a finding
\* contains exactly one incoming finding of the run that created it.
OwnFindingsStayApart ==
    \A f \in findings : {t \in f.tags : t[1] = f.first} = {f.id}

\* One finding per problem: a run creates a finding only where no finding of an earlier run
\* that nobody has changed covers part of the same window for the same check and subject,
\* even when the two runs complete at the same time.
InsertOnlyWhatNothingAbsorbs ==
    [][\A f \in findings' : (\A g \in findings : g.id # f.id) =>
          ~\E g \in findings :
              /\ ~g.touched /\ g.first # f.first
              /\ g.series = f.series /\ g.check = f.check /\ g.subject = f.subject
              /\ Overlap(f, g)]_vars

\* Muted and resolved findings never absorb, not even when the status changes while a run is
\* completing.
SettledNeverAbsorb ==
    [][\A f \in findings : f.status \notin Absorbing =>
          \E g \in findings' : g.id = f.id /\ g.tags = f.tags]_vars

\* Findings are never deleted, not even by the delete + insert of a window that grows
\* backwards; windows only grow, and what a finding is about and its origin never change.
FindingsOnlyGrow ==
    [][\A f \in findings : \E g \in findings' :
          /\ g.id = f.id /\ g.series = f.series /\ g.check = f.check /\ g.subject = f.subject
          /\ g.first = f.first /\ g.start <= f.start /\ g.end >= f.end
          /\ g.occurrences >= f.occurrences]_vars

\* Two completion transactions never wait for each other: each that has begun comes to an end.
CompletionEnds ==
    \A r \in Runs : pc[r] \in {"lock", "persist", "commit"} ~> pc[r] \in {"succeeded", "failed"}

-----------------------------------------------------------------------------
(* Claims of the repository that the code does not keep *)

\* A finding that exists is never reported as missing: FindingNotFoundError means "No finding
\* with that id in the caller's workspace".
ExistingIsFound == \A u \in Users : request[u].step # "not found"

\* What succeeded runs found is kept, once, apart from what else the same run found, and counted
\* by runs (findings.py:169-217).
FindingsKept == EveryFindingKeptOnce /\ OccurrencesCountRuns /\ OwnFindingsStayApart

\* A finding is created only where nothing absorbs it, never absorbed by one that is muted or
\* resolved, and never lost or shrunk (findings.py:140-166, 214).
FindingsStay == InsertOnlyWhatNothingAbsorbs /\ SettledNeverAbsorb /\ FindingsOnlyGrow
=============================================================================
