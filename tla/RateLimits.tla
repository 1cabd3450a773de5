----------------------------- MODULE RateLimits -----------------------------
(***************************************************************************)
(* Fixed windows counted in the database (services/rate_limits.py,         *)
(* limits.py): each limited request reads its replica's clock, adds one to *)
(* the counter of its bucket, key and window, and is refused above the     *)
(* limit.  A counter that cannot be reached lets the request through; old  *)
(* windows are pruned by a task.                                           *)
(*                                                                         *)
(* The clock counts fractions of a second, TicksPerSecond of them.         *)
(***************************************************************************)
EXTENDS Integers, FiniteSets

CONSTANTS
    LimitKeys,       \* clients, users or orgs
    Limited,         \* slots for requests under way
    RuleLimit,       \* requests per window
    RuleWindow,      \* length of the window in ticks
    KeepFor,         \* age at which a window is pruned, in ticks
    TicksPerSecond,
    LimitTicks, HitBound   \* bounds of the clock and of a counter

ASSUME RateLimitsAssumption ==
    /\ RuleLimit \in Nat \ {0} /\ RuleWindow \in Nat \ {0} /\ TicksPerSecond \in Nat \ {0}
    /\ KeepFor \in Nat /\ KeepFor >= RuleWindow
    /\ LimitTicks \in Nat /\ HitBound \in Nat

VARIABLES
    tick,       \* the clock
    counters,   \* rate_limits: hits of each key and window, no row where 0
    limited,    \* what each request is doing
    admitted    \* history: counted requests let through, of each key and window

limitVars == <<tick, counters, limited, admitted>>

Ticks == 0..LimitTicks

\* window_start: windows align to the epoch.
WindowStart(now) == (now \div RuleWindow) * RuleWindow
WindowStarts == {WindowStart(t) : t \in Ticks}

\* Mutant of SecondsLeft: rounded down.
SecondsLeftFloor(now) ==
    LET left == (WindowStart(now) + RuleWindow - now) \div TicksPerSecond IN IF left < 1 THEN 1 ELSE left

\* Whole seconds until the window ends, rounded up and at least one.
SecondsLeft(now) ==
    LET left == (WindowStart(now) + RuleWindow - now + TicksPerSecond - 1) \div TicksPerSecond
    IN  IF left < 1 THEN 1 ELSE left

\* The type invariant.
RateLimitsTypeOK ==
    /\ tick \in Ticks
    /\ counters \in [LimitKeys \X WindowStarts -> 0..HitBound]
    /\ admitted \in [LimitKeys \X WindowStarts -> 0..HitBound]
    /\ limited \in [Limited -> [step : {"idle"}] \union [step : {"counting"}, key : LimitKeys, now : Ticks]
                               \union [step : {"refused"}, key : LimitKeys, now : Ticks, retry : Nat]]

RateLimitsInit ==
    /\ tick = 0
    /\ counters = [w \in LimitKeys \X WindowStarts |-> 0]
    /\ admitted = [w \in LimitKeys \X WindowStarts |-> 0]
    /\ limited = [r \in Limited |-> [step |-> "idle"]]

\* The dependency of the route runs: the key is known and the clock is read.
Limit(r) ==
    /\ limited[r].step = "idle"
    /\ \E k \in LimitKeys :
          limited' = [limited EXCEPT ![r] = [step |-> "counting", key |-> k, now |-> tick]]
    /\ UNCHANGED <<tick, counters, admitted>>

\* Mutant of AllowedBy: one too many.
AllowedOneMore(hits) == hits <= RuleLimit + 1

AllowedBy(hits) == hits <= RuleLimit

\* Mutant of Hit: a refused request leaves the counter as it was, and the window starts over.
HitForgiving(r) ==
    LET q == limited[r]  w == <<q.key, WindowStart(q.now)>>  hits == counters[w] + 1 IN
    /\ q.step = "counting" /\ hits <= HitBound
    /\ counters' = [counters EXCEPT ![w] = IF AllowedBy(hits) THEN hits ELSE 0]
    /\ admitted' = IF AllowedBy(hits) THEN [admitted EXCEPT ![w] = @ + 1] ELSE admitted
    /\ limited' = [limited EXCEPT ![r] = IF AllowedBy(hits) THEN [step |-> "idle"]
                     ELSE [step |-> "refused", key |-> q.key, now |-> q.now, retry |-> SecondsLeft(q.now)]]
    /\ UNCHANGED tick

\* One statement inserts the row or adds to it and returns the count, in a transaction of its own.
Hit(r) ==
    LET q == limited[r]  w == <<q.key, WindowStart(q.now)>>  hits == counters[w] + 1 IN
    /\ q.step = "counting" /\ hits <= HitBound
    /\ counters' = [counters EXCEPT ![w] = hits]
    /\ admitted' = IF AllowedBy(hits) THEN [admitted EXCEPT ![w] = @ + 1] ELSE admitted
    /\ limited' = [limited EXCEPT ![r] = IF AllowedBy(hits) THEN [step |-> "idle"]
                     ELSE [step |-> "refused", key |-> q.key, now |-> q.now, retry |-> SecondsLeft(q.now)]]
    /\ UNCHANGED tick

\* The database does not answer: the request is allowed and not counted.
Uncounted(r) ==
    /\ limited[r].step = "counting"
    /\ limited' = [limited EXCEPT ![r] = [step |-> "idle"]]
    /\ UNCHANGED <<tick, counters, admitted>>

\* The client has its 429 with Retry-After.
Refused(r) ==
    /\ limited[r].step = "refused"
    /\ limited' = [limited EXCEPT ![r] = [step |-> "idle"]]
    /\ UNCHANGED <<tick, counters, admitted>>

\* Mutant of Outdated: windows that are over.
OutdatedOver(start) == start < tick - RuleWindow + TicksPerSecond

\* What prune deletes.
Outdated(start) == start < tick - KeepFor

Prune ==
    /\ counters' = [w \in LimitKeys \X WindowStarts |-> IF Outdated(w[2]) THEN 0 ELSE counters[w]]
    /\ UNCHANGED <<tick, limited, admitted>>

\* A request waits for its count, but not for as long as windows are kept (a day).
Waiting(r) == limited[r].step = "counting" /\ tick - WindowStart(limited[r].now) >= KeepFor

PassTick ==
    /\ tick < LimitTicks /\ \A r \in Limited : ~Waiting(r)
    /\ tick' = tick + 1
    /\ UNCHANGED <<counters, limited, admitted>>

RateLimitsNext ==
    \/ \E r \in Limited : Limit(r) \/ Hit(r) \/ Uncounted(r) \/ Refused(r)
    \/ Prune
    \/ PassTick

RateLimitsSpec == RateLimitsInit /\ [][RateLimitsNext]_limitVars

-----------------------------------------------------------------------------
(* Properties *)

\* However requests of several replicas overlap, cross the end of their window and meet the
\* pruning, the counter lets no more through than the limit of a window and key (rate_limits.py:35,
\* "at most `limit` requests per `window` and key").
NoMoreThanTheLimit == \A w \in LimitKeys \X WindowStarts : admitted[w] <= RuleLimit

\* A client that waits as long as it was told is counted in a later window, and was not made to
\* wait for a second more than needed (Retry-After).
RetryAfterLands ==
    \A r \in Limited : limited[r].step = "refused" =>
        LET q == limited[r]  back == q.now + q.retry * TicksPerSecond
            end == WindowStart(q.now) + RuleWindow
        IN  back >= end /\ back < end + TicksPerSecond

\* Nobody is served more than the limit of a window, and who waits as told is counted in the next
\* (rate_limits.py:68-105, limits.py:27-92).
LimitsHold == NoMoreThanTheLimit /\ RetryAfterLands
=============================================================================
