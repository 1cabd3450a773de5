-------------------------------- MODULE Cache --------------------------------
(***************************************************************************)
(* The Parquet cache of one series (core cache.rs): a write becomes one    *)
(* immutable object per month, put one after the other, and a read lists   *)
(* the months of its range, gets what it has listed and lets the newest    *)
(* write of every instant win, by the time stamp in the object's name.     *)
(* Threads of one process write and read at the same time; the clock can   *)
(* stand still or be set back, a put can fail, and the process can die     *)
(* between two months of a write.                                          *)
(*                                                                         *)
(* A sample is modelled by the number of the write it comes from, in the   *)
(* order in which the writes were called.  LastInstant stands for          *)
(* i64::MAX.  Objects are never replaced or removed, so that what a read   *)
(* gets is what it has listed.                                             *)
(***************************************************************************)
EXTENDS Naturals, Sequences, FiniteSets, FiniteSetsExt

CONSTANTS
    MonthLength,   \* instants in a month
    LastInstant,   \* the last instant there is, which as the end of a range means no end
    CacheFrames,   \* the sets of instants of the series that are written
    CacheRanges,   \* the ranges <<start, end>> that are read
    CacheWriters, CacheReaders,  \* threads of the process
    LastCacheWrite, LastCacheTime  \* bounds of the writes and of the clock

ASSUME CacheAssumption ==
    /\ MonthLength \in Nat \ {0} /\ LastInstant \in Nat
    /\ LastCacheWrite \in Nat /\ LastCacheTime \in Nat \ {0}
    /\ CacheFrames \subseteq SUBSET (0..LastInstant)
    /\ CacheRanges \subseteq (0..LastInstant) \X (0..LastInstant)

CachedInstants == 0..LastInstant
Lower(a, b) == IF a < b THEN a ELSE b
Newer(a, b) == IF a < b THEN b ELSE a

VARIABLES
    objects,     \* the objects of the store
    wallClock,   \* the clock of the host
    startedAt,   \* the time at which the process was started
    lastStamp,   \* LAST_WRITE_NS of the process
    calls,       \* how many writes were called
    putting,     \* what each thread has still to put
    reading,     \* the read each thread is doing
    answered     \* the last answer each reading thread has given, and what it was to show at least

cacheVars == <<objects, wallClock, startedAt, lastStamp, calls, putting, reading, answered>>

Months  == 0..(LastInstant \div MonthLength)
Writes  == 1..LastCacheWrite
Stamps  == 0..(LastCacheTime + LastCacheWrite)
Objects == [month : Months, rows : SUBSET CachedInstants, stamp : Stamps, call : Writes]
Shown   == [CachedInstants -> 0..LastCacheWrite]
NoCalls == [t \in CachedInstants |-> 0]
NoRead  == [from |-> 0, to |-> 0, months |-> {}, listed |-> {}, least |-> NoCalls, open |-> FALSE]
NoShow  == [from |-> 0, to |-> 0, shown |-> NoCalls, least |-> NoCalls]

\* The type invariant; in it, no two writes have the same stamp.
CacheTypeOK ==
    /\ objects \subseteq Objects
    /\ \A o, p \in objects : o.stamp = p.stamp <=> o.call = p.call
    /\ wallClock \in startedAt..LastCacheTime /\ lastStamp \in Stamps /\ calls \in 0..LastCacheWrite
    /\ \A w \in CacheWriters : \A i \in DOMAIN putting[w] : putting[w][i] \in Objects
    /\ \A r \in CacheReaders :
         /\ reading[r].listed \subseteq objects
         /\ reading[r].least \in Shown
         /\ answered[r].shown \in Shown

CacheInit ==
    /\ objects = {}
    /\ wallClock = 1 /\ startedAt = 0 /\ lastStamp = 0 /\ calls = 0
    /\ putting = [w \in CacheWriters |-> <<>>]
    /\ reading = [r \in CacheReaders |-> NoRead]
    /\ answered = [r \in CacheReaders |-> NoShow]

-----------------------------------------------------------------------------
(* Ranges and months *)

\* Mutant of BeforeEnd: the last instant there is ends a range like any other.
BeforeEndStrictly(t, end) == t < end

\* before_end: an end at the last instant is none.
BeforeEnd(t, end) == t < end \/ end = LastInstant

YearMonth(t) == t \div MonthLength

\* month_start_ns: the start of the month after the last one saturates.
MonthStart(m) == Lower(m * MonthLength, LastInstant)

\* Mutant of MonthsBetween: up to the last month, without it.
MonthsBetweenOpen(start, end) ==
    {m \in Months : YearMonth(start) <= m /\ m < YearMonth(IF end = LastInstant \/ end = 0 THEN end ELSE end - 1)}

\* months_between: from the month of the start to that of the last instant before the end.
MonthsBetween(start, end) ==
    YearMonth(start)..YearMonth(IF end = LastInstant \/ end = 0 THEN end ELSE end - 1)

\* Mutant of PartRows: every sample is an object.
PartRowsSingle(rows) == {Min(rows)}

\* The rows of the first part of what is left to write: up to the end of their month, and the
\* first sample in any case.
PartRows(rows) ==
    LET first == Min(rows)
    IN  {t \in rows : t < MonthStart(YearMonth(first) + 1)} \union {first}

\* The parts of a write, in the order of their months.
PartsOf[rows \in SUBSET CachedInstants] ==
    IF rows = {} THEN <<>>
    ELSE <<PartRows(rows)>> \o PartsOf[rows \ PartRows(rows)]

-----------------------------------------------------------------------------
(* Writing *)

\* Mutant of NextWriteNs: the clock alone.
NextWriteNsOfClock(now, previous) == now

\* next_write_ns: the clock, but later than the stamp before.
NextWriteNs(now, previous) == Newer(now, previous + 1)

\* Cache::write: takes its stamp and encodes its parts.
BeginWrite(w) ==
    /\ putting[w] = <<>>
    /\ calls < LastCacheWrite
    /\ \E rows \in CacheFrames :
         LET stamp == NextWriteNs(wallClock, lastStamp)
         IN  /\ lastStamp' = stamp
             /\ calls' = calls + 1
             /\ putting' = [putting EXCEPT ![w] =
                  [i \in DOMAIN PartsOf[rows] |->
                     [month |-> YearMonth(Min(PartsOf[rows][i])), rows |-> PartsOf[rows][i],
                      stamp |-> stamp, call |-> calls + 1]]]
    /\ UNCHANGED <<objects, wallClock, startedAt, reading, answered>>

\* One PUT.
PutPart(w) ==
    /\ putting[w] # <<>>
    /\ objects' = objects \union {Head(putting[w])}
    /\ putting' = [putting EXCEPT ![w] = Tail(@)]
    /\ UNCHANGED <<wallClock, startedAt, lastStamp, calls, reading, answered>>

\* A PUT fails for good: the write raises, and the parts it has put stay.
PutFails(w) ==
    /\ putting[w] # <<>>
    /\ putting' = [putting EXCEPT ![w] = <<>>]
    /\ UNCHANGED <<objects, wallClock, startedAt, lastStamp, calls, reading, answered>>

-----------------------------------------------------------------------------
(* Reading *)

\* The newest write of an instant among some objects, in the order of the calls: for each
\* instant, what a read that begins now is to show at least.
Called(t) == Max({0} \union {o.call : o \in {p \in objects : t \in p.rows}})

\* Cache::read: the months it will list, none when the range is empty.
BeginRead(r) ==
    /\ ~reading[r].open
    /\ \E range \in CacheRanges :
         LET months == IF BeforeEnd(range[1], range[2]) THEN MonthsBetween(range[1], range[2]) ELSE {}
         IN  reading' = [reading EXCEPT ![r] =
               [from |-> range[1], to |-> range[2], months |-> months, listed |-> {},
                least |-> [t \in CachedInstants |-> Called(t)], open |-> TRUE]]
    /\ answered' = [answered EXCEPT ![r] = NoShow]
    /\ UNCHANGED <<objects, wallClock, startedAt, lastStamp, calls, putting>>

\* Lists the next month, in order.
ListMonth(r) ==
    /\ reading[r].open /\ reading[r].months # {}
    /\ LET month == Min(reading[r].months)
       IN  reading' = [reading EXCEPT ![r].months = @ \ {month},
                                      ![r].listed = @ \union {o \in objects : o.month = month}]
    /\ UNCHANGED <<objects, wallClock, startedAt, lastStamp, calls, putting, answered>>

\* Mutant of MayMatch: a part that ends where the range begins is passed over.
MayMatchBeyond(rows, from, to) == ~(Max(rows) <= from) /\ BeforeEnd(Min(rows), to)

\* row_group_may_match: judged by the least and the greatest instant.
MayMatch(rows, from, to) == ~(Max(rows) < from) /\ BeforeEnd(Min(rows), to)

\* Mutant of Winner: the rows of an instant in the order of the stamps, the first of them.
WinnerFirst(rows) == CHOOSE o \in rows : \A p \in rows : o.stamp <= p.stamp

\* Of the objects with a row of an instant, the one whose row is kept: sorted by the stamp, the last.
Winner(rows) == CHOOSE o \in rows : \A p \in rows : p.stamp <= o.stamp

\* decode_part and the merge of the rows.
AnswerRead(r) ==
    /\ reading[r].open /\ reading[r].months = {}
    /\ LET from == reading[r].from
           to   == reading[r].to
           With(t) == {o \in reading[r].listed : t \in o.rows /\ MayMatch(o.rows, from, to)}
           InRange(t) == t >= from /\ BeforeEnd(t, to)
       IN  answered' = [answered EXCEPT ![r] =
             [from |-> from, to |-> to, least |-> reading[r].least,
              shown |-> [t \in CachedInstants |->
                           IF InRange(t) /\ With(t) # {} THEN Winner(With(t)).call ELSE 0]]]
    /\ reading' = [reading EXCEPT ![r] = NoRead]
    /\ UNCHANGED <<objects, wallClock, startedAt, lastStamp, calls, putting>>

\* A listing or a GET fails: the read raises.
ReadFails(r) ==
    /\ reading[r].open
    /\ reading' = [reading EXCEPT ![r] = NoRead]
    /\ UNCHANGED <<objects, wallClock, startedAt, lastStamp, calls, putting, answered>>

-----------------------------------------------------------------------------
(* The clock and the process *)

\* The clock goes on, or is set back, but not to before the process was started.
SetClock ==
    /\ wallClock' \in {t \in startedAt..LastCacheTime : t = wallClock + 1 \/ t + 1 = wallClock}
    /\ UNCHANGED <<objects, startedAt, lastStamp, calls, putting, reading, answered>>

\* The process dies with everything under way and is started again, LAST_WRITE_NS at zero.
\* The clock is past the stamps of the earlier process by then.
RestartProcess ==
    /\ wallClock > lastStamp /\ lastStamp > 0
    /\ lastStamp' = 0 /\ startedAt' = wallClock
    /\ putting' = [w \in CacheWriters |-> <<>>]
    /\ reading' = [r \in CacheReaders |-> NoRead]
    /\ answered' = [r \in CacheReaders |-> NoShow]
    /\ UNCHANGED <<objects, wallClock, calls>>

CacheNext ==
    \/ \E w \in CacheWriters : BeginWrite(w) \/ PutPart(w) \/ PutFails(w)
    \/ \E r \in CacheReaders : BeginRead(r) \/ ListMonth(r) \/ AnswerRead(r) \/ ReadFails(r)
    \/ SetClock
    \/ RestartProcess

CacheSpec == CacheInit /\ [][CacheNext]_cacheVars

-----------------------------------------------------------------------------
(* Properties *)

\* The instants an answer is about.
InRangeOf(answer) == {t \in CachedInstants : t >= answer.from /\ (t < answer.to \/ answer.to = LastInstant)}

\* A read shows of every instant of its range nothing older than what was in the store when it
\* was called, whatever writes are under way, whatever the clock does and wherever a write has
\* ended half way ("a later write of the same ts wins", cache.rs:6); of the instants outside
\* its range it shows nothing, and what it shows was written there.
NewestWins ==
    \A r \in CacheReaders : \A t \in CachedInstants :
        LET shown == answered[r].shown[t]
        IN  /\ t \in InRangeOf(answered[r]) => shown >= answered[r].least[t]
            /\ t \notin InRangeOf(answered[r]) => shown = 0
            /\ shown # 0 => \E o \in objects : o.call = shown /\ t \in o.rows

\* A read never shows one instant of a month from a write and another of the same month from
\* before it although the write has both: a month is one object (cache.rs:246).  The last
\* instant there is gets an object of its own.
MonthsAreWhole ==
    \A r \in CacheReaders : \A t \in InRangeOf(answered[r]), o \in objects :
        /\ answered[r].shown[t] = o.call /\ t \in o.rows
        => \A u \in InRangeOf(answered[r]) \ {LastInstant} :
             (\E p \in objects : p.call = o.call /\ p.month = o.month /\ u \in p.rows)
                 => t = LastInstant \/ answered[r].shown[u] >= o.call

\* What the cache answers.
ReadsAreFresh == NewestWins /\ MonthsAreWhole
=============================================================================
