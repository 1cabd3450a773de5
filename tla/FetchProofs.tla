---------------------------- MODULE FetchProofs ----------------------------
(***************************************************************************)
(* Proofs about Fetch and FetchPlan, for any points, horizon, limits,      *)
(* requests and history: the calls a fetch plans ask for exactly what the  *)
(* cache lacks, coverage promises only what was answered and settled, and  *)
(* a fetch that succeeded left no gap.                                     *)
(*                                                                         *)
(* The walk over the covered ranges is a recursive function: that it has   *)
(* the value its definition says, and what it has found after n ranges,    *)
(* are inductions over the naturals, which NatSetInduction provides for    *)
(* sets.                                                                   *)
(***************************************************************************)
EXTENDS Fetch, FiniteSetTheorems, SequenceTheorems, WellFoundedInduction, TLAPS

-----------------------------------------------------------------------------
(* Induction and least elements *)

\* Induction over the naturals, for a set instead of a predicate: the library states it for an
\* operator, which no backend instantiates.
LEMMA NatSetInduction ==
    ASSUME NEW S, 0 \in S, \A n \in Nat : n \in S => n + 1 \in S
    PROVE  Nat \subseteq S
<1> SUFFICES ASSUME Nat \ S # {} PROVE FALSE
  OBVIOUS
<1>1. PICK x \in Nat \ S : \A y \in Nat \ S : ~(<<y, x>> \in OpToRel(<, Nat))
  BY NatLessThanWellFounded, WFMin
<1>2. x # 0 /\ x - 1 \in Nat /\ x - 1 < x
  OBVIOUS
<1>3. <<x - 1, x>> \in OpToRel(<, Nat)
  BY <1>2 DEF OpToRel
<1>4. x - 1 \in S
  BY <1>1, <1>2, <1>3
<1> QED
  BY <1>2, <1>4

\* A set of naturals that is not empty has a least member.
LEMMA LeastNat ==
    ASSUME NEW S \in SUBSET Nat, S # {}
    PROVE  \E x \in S : \A y \in S : x <= y
<1>1. PICK x \in S : \A y \in S : ~(<<y, x>> \in OpToRel(<, Nat))
  BY NatLessThanWellFounded, WFMin
<1>2. \A y \in S : y < x => <<y, x>> \in OpToRel(<, Nat)
  BY DEF OpToRel
<1>3. \A y \in S : ~(y < x)
  BY <1>1, <1>2
<1> QED
  BY <1>3

-----------------------------------------------------------------------------
(* What is missing of a window *)

\* What its definition says of the walk, from its beginning and from one instant to the next.
WalksOn(w, ends, start, end) ==
    /\ w[0] = [gaps |-> {}, cursor |-> start]
    /\ \A t \in 0..(end - 1) : w[t + 1] = Walk(end, w[t], t, ends[t])

\* The recursive function Walked exists, so it obeys its definition.
LEMMA WalkedStep ==
    ASSUME NEW ends, NEW start, NEW end \in Nat
    PROVE  WalksOn(Walked(ends, start, end), ends, start, end)
<1> DEFINE W(n, g) == g = [t \in 0..n |-> IF t = 0 THEN [gaps |-> {}, cursor |-> start]
                                          ELSE Walk(end, g[t - 1], t - 1, ends[t - 1])]
           S == {n \in Nat : \E g : W(n, g)}
<1>1. 0 \in S
  <2> DEFINE g == [t \in 0..0 |-> [gaps |-> {}, cursor |-> start]]
  <2> W(0, g)
    OBVIOUS
  <2> QED
    OBVIOUS
<1>2. ASSUME NEW n \in Nat, n \in S PROVE n + 1 \in S
  <2>1. PICK g : W(n, g)
    BY <1>2
  <2> DEFINE h == [t \in 0..(n + 1) |-> IF t = 0 THEN [gaps |-> {}, cursor |-> start]
                                        ELSE Walk(end, g[t - 1], t - 1, ends[t - 1])]
  <2>2. \A t \in 0..n : h[t] = g[t]
    <3> SUFFICES ASSUME NEW t \in 0..n PROVE h[t] = g[t]
      OBVIOUS
    <3>1. h[t] = IF t = 0 THEN [gaps |-> {}, cursor |-> start] ELSE Walk(end, g[t - 1], t - 1, ends[t - 1])
      OBVIOUS
    <3>2. g[t] = IF t = 0 THEN [gaps |-> {}, cursor |-> start] ELSE Walk(end, g[t - 1], t - 1, ends[t - 1])
      BY <2>1
    <3> QED
      BY <3>1, <3>2
  <2>3. \A t \in 0..(n + 1) : t # 0 => t - 1 \in 0..n
    OBVIOUS
  <2>4. W(n + 1, h)
    BY <2>2, <2>3
  <2> HIDE DEF h, W
  <2> QED
    BY <2>4
<1>3. end \in S
  <2> HIDE DEF S
  <2> QED
    BY <1>1, <1>2, NatSetInduction
<1>4. PICK g : W(end, g)
  BY <1>3
<1>5. W(end, Walked(ends, start, end))
  BY <1>4 DEF Walked
<1> DEFINE w == Walked(ends, start, end)
<1>6. \A t \in 0..end : w[t] = IF t = 0 THEN [gaps |-> {}, cursor |-> start] ELSE Walk(end, w[t - 1], t - 1, ends[t - 1])
  <2> HIDE DEF w
  <2>1. W(end, w)
    BY <1>5 DEF w
  <2> SUFFICES ASSUME NEW t \in 0..end
               PROVE  w[t] = IF t = 0 THEN [gaps |-> {}, cursor |-> start] ELSE Walk(end, w[t - 1], t - 1, ends[t - 1])
    OBVIOUS
  <2> QED
    BY <2>1
<1> HIDE DEF S, w
<1>7. \A t \in 0..(end - 1) : t + 1 \in 0..end /\ t + 1 # 0 /\ (t + 1) - 1 = t
  OBVIOUS
<1>8. \A t \in 0..(end - 1) : w[t + 1] = Walk(end, w[t], t, ends[t])
  BY <1>6, <1>7
<1> QED
  BY <1>6, <1>8 DEF w, WalksOn

\* The ranges `ends` stands for cover x.
CoversAt(ends, x, end) == \E t \in 0..(end - 1) : t <= x /\ x < ends[t]
Within(x, g) == g[1] <= x /\ x < g[2]

\* What the walk has found once the ranges that start before n are walked.
WalkOK(at, ends, start, end, n) ==
    /\ at.cursor \in Nat /\ at.cursor >= start
    /\ at.gaps \subseteq Nat \X Nat
    /\ \A g \in at.gaps : start <= g[1] /\ g[1] < g[2] /\ g[2] <= at.cursor /\ g[2] <= n /\ g[2] < end
    /\ \A x \in Nat : start <= x /\ x < at.cursor /\ x < end =>
          ((\E g \in at.gaps : Within(x, g)) <=> ~\E t \in 0..(n - 1) : t <= x /\ x < ends[t])
    /\ at.cursor < end => \A t \in 0..(n - 1) : ends[t] <= at.cursor \/ ends[t] <= t
    /\ \A g, h \in at.gaps : g # h => g[2] <= h[1] \/ h[2] <= g[1]

\* One covered range, wherever it lies, keeps what the walk has found exact.
LEMMA WalkKeeps ==
    ASSUME NEW end \in Nat, NEW start \in Nat, NEW ends, NEW n \in 0..(end - 1),
           \A t \in 0..(end - 1) : ends[t] \in Nat,
           NEW at, WalkOK(at, ends, start, end, n)
    PROVE  WalkOK(Walk(end, at, n, ends[n]), ends, start, end, n + 1)
<1> DEFINE hi == ends[n]
           new == Walk(end, at, n, hi)
<1>1. hi \in Nat /\ n \in Nat /\ n + 1 \in Nat /\ n < end
  OBVIOUS
<1>2. \A t \in 0..n : t \in 0..(n - 1) \/ t = n
  BY <1>1
<1>2a. \A t \in 0..((n + 1) - 1) : t \in 0..(n - 1) \/ t = n
  BY <1>1
<1>2b. \A t \in 0..(n - 1) : t \in 0..((n + 1) - 1) /\ ends[t] \in Nat /\ t \in Nat
  BY <1>1
<1>2c. n \in 0..((n + 1) - 1)
  BY <1>1
<1>3. CASE hi <= n \/ hi <= at.cursor \/ at.cursor >= end
  <2>1. new = at
    BY <1>3 DEF Walk
  <2>2. \A g \in at.gaps : g[2] <= n + 1 /\ g[1] \in Nat /\ g[2] \in Nat
    BY <1>1 DEF WalkOK
  <2>3. ASSUME NEW x \in Nat, start <= x, x < at.cursor, x < end
        PROVE  (\E g \in at.gaps : Within(x, g)) <=> ~\E t \in 0..((n + 1) - 1) : t <= x /\ x < ends[t]
    <3>1. (\E g \in at.gaps : Within(x, g)) <=> ~\E t \in 0..(n - 1) : t <= x /\ x < ends[t]
      BY <2>3 DEF WalkOK
    <3>2. CASE \E g \in at.gaps : Within(x, g)
      <4>1. x < n
        BY <3>2, <2>2, <1>1 DEF Within, WalkOK
      <4> QED
        BY <3>1, <3>2, <4>1, <1>2a, <1>1
    <3>3. CASE ~\E g \in at.gaps : Within(x, g)
      BY <3>1, <3>3, <1>2b
    <3> QED
      BY <3>2, <3>3
  <2>4. at.cursor < end => \A t \in 0..((n + 1) - 1) : ends[t] <= at.cursor \/ ends[t] <= t
    BY <1>2a, <1>3, <1>1 DEF WalkOK
  <2> QED
    BY <2>1, <2>2, <2>3, <2>4 DEF WalkOK
<1>4. CASE ~(hi <= n \/ hi <= at.cursor \/ at.cursor >= end)
  <2> DEFINE gap == <<at.cursor, n>>
  <2>0. at.cursor \in Nat /\ start <= at.cursor /\ at.cursor < end /\ at.cursor < hi /\ n < hi
    BY <1>4, <1>1 DEF WalkOK
  <2>1. /\ new.cursor = hi
        /\ new.gaps = IF n > at.cursor THEN at.gaps \union {gap} ELSE at.gaps
    BY <1>4, <1>1, <2>0 DEF Walk, Larger
  <2>2. \A g \in at.gaps : /\ g[1] \in Nat /\ g[2] \in Nat /\ start <= g[1] /\ g[1] < g[2]
                           /\ g[2] <= at.cursor /\ g[2] <= n /\ g[2] < end
    BY DEF WalkOK
  <2>3. n > at.cursor => /\ gap \in Nat \X Nat /\ gap[1] = at.cursor /\ gap[2] = n
    BY <2>0, <1>1
  <2>4. new.gaps \subseteq Nat \X Nat
    BY <2>1, <2>3 DEF WalkOK
  <2>5. \A g \in new.gaps : start <= g[1] /\ g[1] < g[2] /\ g[2] <= hi /\ g[2] <= n + 1 /\ g[2] < end
    BY <2>0, <2>1, <2>2, <2>3, <1>1
  <2>6. \A g, h \in new.gaps : g # h => g[2] <= h[1] \/ h[2] <= g[1]
    <3> SUFFICES ASSUME NEW g \in new.gaps, NEW h \in new.gaps, g # h
                 PROVE  g[2] <= h[1] \/ h[2] <= g[1]
      OBVIOUS
    <3>1. CASE g \in at.gaps /\ h \in at.gaps
      BY <3>1 DEF WalkOK
    <3>2. CASE g \notin at.gaps \/ h \notin at.gaps
      BY <3>2, <2>1, <2>2, <2>3
    <3> QED
      BY <3>1, <3>2
  <2>7. ASSUME NEW x \in Nat, start <= x, x < hi, x < end
        PROVE  (\E g \in new.gaps : Within(x, g)) <=> ~\E t \in 0..((n + 1) - 1) : t <= x /\ x < ends[t]
    <3>1. CASE x < at.cursor
      <4>1. (\E g \in at.gaps : Within(x, g)) <=> ~\E t \in 0..(n - 1) : t <= x /\ x < ends[t]
        BY <2>7, <3>1 DEF WalkOK
      <4>2. (\E g \in new.gaps : Within(x, g)) <=> (\E g \in at.gaps : Within(x, g))
        BY <2>0, <2>1, <2>3, <3>1 DEF Within
      <4>3. CASE \E g \in at.gaps : Within(x, g)
        <5>1. x < n
          BY <4>3, <2>2, <1>1 DEF Within
        <5> QED
          BY <4>1, <4>2, <4>3, <5>1, <1>2a, <1>1
      <4>4. CASE ~\E g \in at.gaps : Within(x, g)
        BY <4>1, <4>2, <4>4, <1>2b
      <4> QED
        BY <4>3, <4>4
    <3>2. CASE x >= at.cursor
      <4>1. \A g \in at.gaps : ~Within(x, g)
        BY <2>0, <2>2, <3>2 DEF Within
      <4>2. \A t \in 0..(n - 1) : ~(t <= x /\ x < ends[t])
        <5>1. \A t \in 0..(n - 1) : ends[t] <= at.cursor \/ ends[t] <= t
          BY <2>0 DEF WalkOK
        <5> QED
          BY <5>1, <2>0, <3>2, <1>2b
      <4>3. CASE x < n
        <5>1. gap \in new.gaps /\ Within(x, gap)
          BY <4>3, <3>2, <2>0, <2>1, <1>1 DEF Within
        <5> QED
          BY <5>1, <4>2, <4>3, <1>2a, <1>1
      <4>4. CASE x >= n
        <5>1. \A g \in new.gaps : ~Within(x, g)
          BY <4>1, <4>4, <2>1, <2>3, <1>1 DEF Within
        <5>2. n <= x /\ x < ends[n]
          BY <4>4, <2>7
        <5> QED
          BY <5>1, <5>2, <1>2c
      <4> QED
        BY <4>3, <4>4, <1>1
    <3> QED
      BY <3>1, <3>2, <2>0
  <2>8. \A t \in 0..((n + 1) - 1) : ends[t] <= hi \/ ends[t] <= t
    <3>1. \A t \in 0..(n - 1) : ends[t] <= at.cursor \/ ends[t] <= t
      BY <2>0 DEF WalkOK
    <3> QED
      BY <3>1, <2>0, <1>2a, <1>2b, <1>1
  <2> HIDE DEF new, gap, hi
  <2> QED
    BY <1>1, <2>0, <2>1, <2>4, <2>5, <2>6, <2>7, <2>8 DEF WalkOK, hi, new
<1> QED
  BY <1>3, <1>4

\* So the walk over all of them is exact.
LEMMA WalkedOK ==
    ASSUME NEW end \in Nat, NEW start \in Nat, NEW ends,
           \A t \in 0..(end - 1) : ends[t] \in Nat
    PROVE  WalkOK(Walked(ends, start, end)[end], ends, start, end, end)
<1> DEFINE w == Walked(ends, start, end)
           S == {n \in Nat : n <= end => WalkOK(w[n], ends, start, end, n)}
<1>0. /\ w[0] = [gaps |-> {}, cursor |-> start]
      /\ \A t \in 0..(end - 1) : w[t + 1] = Walk(end, w[t], t, ends[t])
  <2>1. WalksOn(w, ends, start, end)
    BY WalkedStep
  <2> HIDE DEF S, w
  <2> QED
    BY <2>1 DEF WalksOn
<1>1. 0 \in S
  <2> HIDE DEF w
  <2>1. w[0].gaps = {} /\ w[0].cursor = start
    BY <1>0
  <2>2. 0..(0 - 1) = {}
    OBVIOUS
  <2>3. WalkOK(w[0], ends, start, end, 0)
    BY <2>1, <2>2 DEF WalkOK
  <2> QED
    BY <2>3
<1>2. ASSUME NEW n \in Nat, n \in S PROVE n + 1 \in S
  <2> SUFFICES ASSUME n + 1 <= end PROVE WalkOK(w[n + 1], ends, start, end, n + 1)
    OBVIOUS
  <2>1. n \in 0..(end - 1) /\ n <= end
    OBVIOUS
  <2>2. WalkOK(w[n], ends, start, end, n)
    BY <1>2, <2>1
  <2>3. w[n + 1] = Walk(end, w[n], n, ends[n])
    BY <2>1, <1>0
  <2> HIDE DEF w
  <2> QED
    BY <2>1, <2>2, <2>3, WalkKeeps
<1>3. end \in S
  <2> HIDE DEF S
  <2> QED
    BY <1>1, <1>2, NatSetInduction
<1> QED
  BY <1>3

\* missing_ranges (coverage.py): whatever rows there are, nested, overlapping or empty, the gaps lie in
\* the window, do not meet, and hold exactly the instants that no row covers.
THEOREM MissingExact ==
    ASSUME NEW end \in Nat, NEW start \in Nat, start < end, NEW ends,
           \A t \in 0..(end - 1) : ends[t] \in Nat
    PROVE  LET missing == MissingRanges(ends, start, end)
           IN  /\ missing \subseteq Nat \X Nat
               /\ \A g \in missing : start <= g[1] /\ g[1] < g[2] /\ g[2] <= end
               /\ \A x \in start..(end - 1) :
                     (\E g \in missing : Within(x, g)) <=> ~CoversAt(ends, x, end)
               /\ \A g, h \in missing : g # h => g[2] <= h[1] \/ h[2] <= g[1]
<1> DEFINE at == Walked(ends, start, end)[end]
           missing == MissingRanges(ends, start, end)
           last == <<at.cursor, end>>
<1>1. WalkOK(at, ends, start, end, end)
  BY WalkedOK
<1>2. missing = IF at.cursor < end THEN at.gaps \union {last} ELSE at.gaps
  BY DEF MissingRanges
<1> HIDE DEF at, missing
<1>3. at.cursor \in Nat /\ start <= at.cursor
  BY <1>1 DEF WalkOK
<1>4. \A g \in at.gaps : /\ g \in Nat \X Nat /\ g[1] \in Nat /\ g[2] \in Nat /\ start <= g[1] /\ g[1] < g[2]
                         /\ g[2] <= at.cursor /\ g[2] < end
  BY <1>1 DEF WalkOK
<1>5. missing \subseteq Nat \X Nat
  BY <1>2, <1>3, <1>4
<1>6. \A g \in missing : start <= g[1] /\ g[1] < g[2] /\ g[2] <= end
  BY <1>2, <1>3, <1>4
<1>7. \A g, h \in missing : g # h => g[2] <= h[1] \/ h[2] <= g[1]
  <2>1. \A g, h \in at.gaps : g # h => g[2] <= h[1] \/ h[2] <= g[1]
    BY <1>1 DEF WalkOK
  <2> QED
    BY <1>2, <1>3, <1>4, <2>1
<1>8. ASSUME NEW x \in start..(end - 1)
      PROVE  (\E g \in missing : Within(x, g)) <=> ~CoversAt(ends, x, end)
  <2>1. x \in Nat /\ start <= x /\ x < end
    OBVIOUS
  <2>2. CASE x < at.cursor
    <3>1. (\E g \in at.gaps : Within(x, g)) <=> ~CoversAt(ends, x, end)
      BY <1>1, <2>1, <2>2 DEF WalkOK, CoversAt
    <3>2. (\E g \in missing : Within(x, g)) <=> \E g \in at.gaps : Within(x, g)
      BY <1>2, <1>3, <2>1, <2>2 DEF Within
    <3> QED
      BY <3>1, <3>2
  <2>3. CASE x >= at.cursor
    <3>1. last \in missing /\ Within(x, last)
      BY <1>2, <1>3, <2>1, <2>3 DEF Within
    <3>2. \A t \in 0..(end - 1) : ends[t] <= at.cursor \/ ends[t] <= t
      BY <1>1, <1>3, <2>1, <2>3 DEF WalkOK
    <3>3. ~CoversAt(ends, x, end)
      BY <3>2, <1>3, <2>1, <2>3 DEF CoversAt
    <3> QED
      BY <3>1, <3>3
  <2> QED
    BY <2>1, <2>2, <2>3, <1>3
<1> QED
  BY <1>5, <1>6, <1>7, <1>8 DEF missing

-----------------------------------------------------------------------------
(* Spans and calls *)

\* The spans of a window come one after the other.
LEMMA TimesGrows ==
    ASSUME NEW m \in Nat \ {0}, NEW j \in Nat, NEW k \in Nat, j < k
    PROVE  (j + 1) * m <= k * m
<1>1. k - (j + 1) \in Nat
  OBVIOUS
<1>2. (k - (j + 1)) * m >= 0
  BY <1>1
<1> QED
  BY <1>2

\* Whole quotients.
LEMMA Divided ==
    ASSUME NEW m \in Nat \ {0}, NEW d \in Nat
    PROVE  /\ d \div m \in Nat
           /\ (d \div m) * m <= d
           /\ d < ((d \div m) + 1) * m
           /\ d \div m <= d
OBVIOUS

\* spans (plan.py): a gap is cut into spans within the limit, that do not meet and leave nothing out.
LEMMA SpansExact ==
    ASSUME NEW lo \in Nat, NEW hi \in Nat, NEW m \in Nat \ {0}
    PROVE  /\ \A s \in Spans(lo, hi, m) :
                 /\ s \in Nat \X Nat /\ lo <= s[1] /\ s[1] < s[2] /\ s[2] <= hi
                 /\ s[2] - s[1] <= m
           /\ \A x \in lo..(hi - 1) : \E s \in Spans(lo, hi, m) : Within(x, s)
           /\ \A s, r \in Spans(lo, hi, m) : s # r => s[2] <= r[1] \/ r[2] <= s[1]
<1> DEFINE Span(k) == <<lo + k * m, Smaller(hi, lo + (k + 1) * m)>>
           K == {k \in 0..(hi - lo) : lo + k * m < hi}
<1>1. \A k \in K : k \in Nat /\ k * m \in Nat /\ (k + 1) * m \in Nat /\ (k + 1) * m = k * m + m
  OBVIOUS
<1>2. \A s : s \in Spans(lo, hi, m) <=> \E k \in K : s = Span(k)
  BY DEF Spans
<1>3. ASSUME NEW k \in K
      PROVE  LET s == Span(k) IN
             /\ s \in Nat \X Nat /\ lo <= s[1] /\ s[1] < s[2] /\ s[2] <= hi
             /\ s[2] - s[1] <= m
  BY <1>1 DEF Smaller
<1>4. ASSUME NEW x \in lo..(hi - 1)
      PROVE  \E k \in K : Within(x, Span(k))
  <2>1. x - lo \in Nat /\ x \in Nat /\ x < hi
    OBVIOUS
  <2> DEFINE k == (x - lo) \div m
  <2>2. k \in Nat /\ k * m <= x - lo /\ x - lo < (k + 1) * m /\ k <= x - lo
    BY <2>1, Divided
  <2> HIDE DEF k
  <2>2a. k * m \in Nat /\ (k + 1) * m \in Nat
    BY <2>2
  <2>3. k \in K
    BY <2>1, <2>2, <2>2a
  <2>4. Within(x, Span(k))
    BY <2>1, <2>2, <2>2a DEF Within, Smaller
  <2> QED
    BY <2>3, <2>4
<1>5. ASSUME NEW j \in K, NEW k \in K, j < k
      PROVE  Span(j)[2] <= Span(k)[1]
  <2>1. (j + 1) * m <= k * m
    BY <1>5, TimesGrows, <1>1
  <2> QED
    BY <2>1, <1>1 DEF Smaller
<1> HIDE DEF Span, K
<1>6. ASSUME NEW s \in Spans(lo, hi, m), NEW r \in Spans(lo, hi, m), s # r
      PROVE  s[2] <= r[1] \/ r[2] <= s[1]
  <2>1. PICK j \in K, k \in K : s = Span(j) /\ r = Span(k)
    BY <1>2
  <2>2. j # k /\ j \in Nat /\ k \in Nat
    BY <1>1, <1>6, <2>1
  <2> QED
    BY <1>5, <2>1, <2>2
<1> QED
  BY <1>2, <1>3, <1>4, <1>6

\* The number of members of a finite set of naturals below one of them grows with it.
LEMMA RankGrows ==
    ASSUME NEW S \in SUBSET Nat, IsFiniteSet(S), NEW p \in S, NEW q \in S, p < q
    PROVE  /\ Cardinality({r \in S : r < p}) \in Nat
           /\ Cardinality({r \in S : r < p}) < Cardinality({r \in S : r < q})
<1> DEFINE A == {r \in S : r < p}
           B == {r \in S : r < q}
<1>1. IsFiniteSet(A) /\ IsFiniteSet(B)
  BY FS_Subset
<1>2. A \in SUBSET B /\ p \in B /\ p \notin A
  <2>1. p \in Nat /\ q \in Nat /\ \A r \in S : r \in Nat
    OBVIOUS
  <2>2. \A r \in S : r < p => r < q
    BY <2>1
  <2>3. ~(p < p)
    BY <2>1
  <2>4. A \subseteq B
    BY <2>2
  <2> QED
    BY <2>3, <2>4
<1> HIDE DEF A, B
<1>3. Cardinality(A) \in Nat /\ Cardinality(B) \in Nat
  BY <1>1, FS_CardinalityType
<1>4. Cardinality(A) <= Cardinality(B) /\ Cardinality(A) # Cardinality(B)
  BY <1>1, <1>2, FS_Subset
<1> QED
  BY <1>3, <1>4 DEF A, B

\* The members whose rank falls into one chunk of m ranks are at most m.
InChunk(S, m, k) == {p \in S : Cardinality({r \in S : r < p}) \div m = k}

\* So a chunk holds no more points than a call may ask for.
LEMMA ChunkBounded ==
    ASSUME NEW S \in SUBSET Nat, IsFiniteSet(S), NEW m \in Nat \ {0}, NEW k \in Nat
    PROVE  IsFiniteSet(InChunk(S, m, k)) /\ Cardinality(InChunk(S, m, k)) \in 0..m
<1> DEFINE rank(p) == Cardinality({r \in S : r < p})
           T == {p \in S : rank(p) \div m = k}
           f == [p \in T |-> rank(p)]
           I == (k * m)..(k * m + (m - 1))
<1>1. \A p \in S : rank(p) \in Nat
  BY FS_Subset, FS_CardinalityType
<1>2. \A p, q \in S : p < q => rank(p) < rank(q)
  BY RankGrows
<1> HIDE DEF rank
<1>3. k * m \in Nat
  OBVIOUS
<1>4. \A p \in T : rank(p) \in I
  <2> SUFFICES ASSUME NEW p \in T PROVE rank(p) \in I
    OBVIOUS
  <2>1. rank(p) \in Nat /\ rank(p) \div m = k
    BY <1>1
  <2>2. k * m <= rank(p) /\ rank(p) < (k + 1) * m
    BY <2>1, Divided
  <2>3. (k + 1) * m = k * m + m
    OBVIOUS
  <2> QED
    BY <2>1, <2>2, <2>3, <1>3
<1>5. \A p, q \in T : rank(p) = rank(q) => p = q
  BY <1>1, <1>2
<1>6. f \in Injection(T, I)
  BY <1>4, <1>5 DEF Injection, IsInjective
<1>7. IsFiniteSet(I) /\ Cardinality(I) = m
  <2>1. k * m + (m - 1) \in Int /\ ~(k * m > k * m + (m - 1))
    BY <1>3
  <2> QED
    BY <2>1, <1>3, FS_Interval
<1> HIDE DEF I, T, f
<1>8. IsFiniteSet(T) /\ Cardinality(T) <= m
  BY <1>6, <1>7, FS_Injection
<1> QED
  BY <1>8, FS_CardinalityType DEF T, rank, InChunk

\* What a plan is made of: points, and for each of them gaps that do not meet.
GapsOK(gaps) ==
    /\ DOMAIN gaps \in SUBSET Nat /\ IsFiniteSet(DOMAIN gaps)
    /\ \A p \in DOMAIN gaps :
          /\ gaps[p] \subseteq Nat \X Nat
          /\ \A g \in gaps[p] : g[1] < g[2]
          /\ \A g, h \in gaps[p] : g # h => g[2] <= h[1] \/ h[2] <= g[1]

\* The instants x of point p are asked for by c.
Asks(c, p, x) == p \in c.points /\ c.lo <= x /\ x < c.hi

\* plan_calls (plan.py): the calls for any gaps stay within both limits, ask for every instant of every
\* gap of every point, for nothing else, and for nothing twice.
THEOREM PlanExact ==
    ASSUME NEW gaps, GapsOK(gaps), NEW maxSpan \in Nat \ {0}, NEW maxPoints \in Nat \ {0}
    PROVE  LET calls == PlanCalls(gaps, maxSpan, maxPoints)
           IN  /\ \A c \in calls :
                     /\ c = [lo |-> c.lo, hi |-> c.hi, points |-> c.points]
                     /\ c.lo \in Nat /\ c.hi \in Nat /\ c.lo < c.hi /\ c.hi - c.lo <= maxSpan
                     /\ c.points \subseteq DOMAIN gaps /\ c.points # {}
                     /\ Cardinality(c.points) \in 1..maxPoints
                     /\ \A p \in c.points : \E g \in gaps[p] : g[1] <= c.lo /\ c.hi <= g[2]
               /\ \A p \in DOMAIN gaps, x \in Nat :
                     (\E c \in calls : Asks(c, p, x)) <=> \E g \in gaps[p] : Within(x, g)
               /\ \A c, d \in calls, p \in DOMAIN gaps, x \in Nat : Asks(c, p, x) /\ Asks(d, p, x) => c = d
<1> DEFINE D == DOMAIN gaps
           SpansAt(p) == UNION {Spans(g[1], g[2], maxSpan) : g \in gaps[p]}
           bySpan == UNION {{<<s, p>> : s \in SpansAt(p)} : p \in D}
           Sharing(s) == {p \in D : <<s, p>> \in bySpan}
           Rank(p, s) == Cardinality({q \in Sharing(s) : q < p})
           Chunk(p, s) == Rank(p, s) \div maxPoints
           Chunked(p, s) == {q \in Sharing(s) : Chunk(q, s) = Chunk(p, s)}
           TheCall(s, p) == [lo |-> s[1], hi |-> s[2], points |-> Chunked(p, s)]
           calls == PlanCalls(gaps, maxSpan, maxPoints)
<1>1. /\ D \in SUBSET Nat /\ IsFiniteSet(D)
      /\ \A p \in D : /\ \A g \in gaps[p] : g[1] \in Nat /\ g[2] \in Nat /\ g[1] < g[2]
                      /\ \A g, h \in gaps[p] : g # h => g[2] <= h[1] \/ h[2] <= g[1]
  BY DEF GapsOK
<1>2. \A c : c \in calls <=> \E sp \in bySpan : c = TheCall(sp[1], sp[2])
  BY DEF PlanCalls
<1>3. \A sp : sp \in bySpan <=> \E p \in D : \E s \in SpansAt(p) : sp = <<s, p>>
  OBVIOUS
<1>4. \A s, p : <<s, p>> \in bySpan <=> p \in D /\ s \in SpansAt(p)
  BY <1>3
<1>5. \A p, s : s \in SpansAt(p) <=> \E g \in gaps[p] : s \in Spans(g[1], g[2], maxSpan)
  OBVIOUS
<1>6. \A s, p : p \in Sharing(s) <=> p \in D /\ s \in SpansAt(p)
  BY <1>4
<1>7. \A c : c \in calls <=> \E p \in D : \E s \in SpansAt(p) : c = TheCall(s, p)
  <2> HIDE DEF bySpan, SpansAt, TheCall, calls
  <2> SUFFICES ASSUME NEW c PROVE c \in calls <=> \E p \in D : \E s \in SpansAt(p) : c = TheCall(s, p)
    OBVIOUS
  <2>1. ASSUME c \in calls PROVE \E p \in D : \E s \in SpansAt(p) : c = TheCall(s, p)
    <3>1. PICK sp \in bySpan : c = TheCall(sp[1], sp[2])
      BY <2>1, <1>2
    <3>2. PICK p \in D : \E s \in SpansAt(p) : sp = <<s, p>>
      BY <1>3
    <3>3. PICK s \in SpansAt(p) : sp = <<s, p>>
      BY <3>2
    <3>4. sp[1] = s /\ sp[2] = p
      BY <3>3
    <3> QED
      BY <3>1, <3>4
  <2>2. ASSUME NEW p \in D, NEW s \in SpansAt(p), c = TheCall(s, p) PROVE c \in calls
    <3> DEFINE sp == <<s, p>>
    <3>1. sp \in bySpan /\ sp[1] = s /\ sp[2] = p
      BY <1>3
    <3> HIDE DEF sp
    <3>2. c = TheCall(sp[1], sp[2])
      BY <2>2, <3>1
    <3> QED
      BY <3>1, <3>2, <1>2
  <2> QED
    BY <2>1, <2>2
<1>8. \A p, q, s : q \in Chunked(p, s) <=> q \in Sharing(s) /\ Chunk(q, s) = Chunk(p, s)
  OBVIOUS
<1>8a. calls = PlanCalls(gaps, maxSpan, maxPoints)
  OBVIOUS
<1> HIDE DEF SpansAt, bySpan, calls
<1>9. ASSUME NEW p \in D, NEW s \in SpansAt(p)
      PROVE  \E g \in gaps[p] : /\ s \in Spans(g[1], g[2], maxSpan) /\ g[1] \in Nat /\ g[2] \in Nat
                                /\ s \in Nat \X Nat
                                /\ g[1] <= s[1] /\ s[1] < s[2] /\ s[2] <= g[2] /\ s[2] - s[1] <= maxSpan
  <2>1. PICK g \in gaps[p] : s \in Spans(g[1], g[2], maxSpan)
    BY <1>5
  <2> QED
    BY <2>1, <1>1, SpansExact
\* One span of a point holds an instant of its gaps.
<1>10. ASSUME NEW p \in D, NEW s \in SpansAt(p), NEW r \in SpansAt(p), NEW x \in Nat,
              Within(x, s), Within(x, r)
       PROVE  s = r
  <2>1. PICK g \in gaps[p] : s \in Spans(g[1], g[2], maxSpan) /\ g[1] \in Nat /\ g[2] \in Nat
                             /\ s \in Nat \X Nat /\ g[1] <= s[1] /\ s[2] <= g[2]
    BY <1>9
  <2>2. PICK h \in gaps[p] : r \in Spans(h[1], h[2], maxSpan) /\ h[1] \in Nat /\ h[2] \in Nat
                             /\ r \in Nat \X Nat /\ h[1] <= r[1] /\ r[2] <= h[2]
    BY <1>9
  <2>3. g = h
    BY <1>1, <1>10, <2>1, <2>2 DEF Within
  <2>4. s # r => s[2] <= r[1] \/ r[2] <= s[1]
    BY <2>1, <2>2, <2>3, SpansExact
  <2> QED
    BY <1>10, <2>1, <2>2, <2>4 DEF Within
<1>11. ASSUME NEW s
       PROVE  Sharing(s) \in SUBSET Nat /\ IsFiniteSet(Sharing(s))
  <2>1. Sharing(s) \in SUBSET D
    BY <1>6
  <2> HIDE DEF D, Sharing
  <2> QED
    BY <2>1, <1>1, FS_Subset
<1>12. ASSUME NEW s, NEW p \in Sharing(s)
       PROVE  Cardinality(Chunked(p, s)) \in 1..maxPoints
  <2>1. Rank(p, s) \in Nat
    <3>1. {q \in Sharing(s) : q < p} \in SUBSET Sharing(s)
      OBVIOUS
    <3> HIDE DEF Sharing
    <3>2. IsFiniteSet({q \in Sharing(s) : q < p})
      BY <3>1, <1>11, FS_Subset
    <3> QED
      BY <3>2, FS_CardinalityType
  <2>2. Chunk(p, s) \in Nat
    <3> HIDE DEF Rank
    <3> QED
      BY <2>1, Divided
  <2>3. p \in Chunked(p, s)
    BY <1>8
  <2>4. Chunked(p, s) = InChunk(Sharing(s), maxPoints, Chunk(p, s))
    BY DEF InChunk
  <2> HIDE DEF Sharing, Chunk, Chunked
  <2>5. IsFiniteSet(Chunked(p, s)) /\ Cardinality(Chunked(p, s)) \in 0..maxPoints
    BY <2>2, <2>4, <1>11, ChunkBounded
  <2>6. Cardinality(Chunked(p, s)) # 0
    BY <2>3, <2>5, FS_EmptySet
  <2> QED
    BY <2>5, <2>6
<1> HIDE DEF Chunk, Chunked, Sharing, D
<1>13. ASSUME NEW c \in calls
       PROVE  /\ c = [lo |-> c.lo, hi |-> c.hi, points |-> c.points]
              /\ c.lo \in Nat /\ c.hi \in Nat /\ c.lo < c.hi /\ c.hi - c.lo <= maxSpan
              /\ c.points \subseteq D /\ c.points # {}
              /\ Cardinality(c.points) \in 1..maxPoints
              /\ \A p \in c.points : \E g \in gaps[p] : g[1] <= c.lo /\ c.hi <= g[2]
  <2>0. PICK p \in D : \E s \in SpansAt(p) : c = TheCall(s, p)
    BY <1>7
  <2>1. PICK s \in SpansAt(p) : c = TheCall(s, p)
    BY <2>0
  <2>2. c.lo = s[1] /\ c.hi = s[2] /\ c.points = Chunked(p, s)
    BY <2>1
  <2>3. c = [lo |-> c.lo, hi |-> c.hi, points |-> c.points]
    BY <2>1
  <2>4. p \in Sharing(s) /\ p \in Chunked(p, s)
    BY <1>6, <1>8
  <2>5. \A q \in c.points : q \in D /\ s \in SpansAt(q)
    BY <2>2, <1>6, <1>8
  <2>6. \A q \in c.points : \E g \in gaps[q] : g[1] <= c.lo /\ c.hi <= g[2]
    BY <2>2, <2>5, <1>9
  <2>7. Cardinality(c.points) \in 1..maxPoints
    BY <2>2, <2>4, <1>12
  <2>8. c.lo \in Nat /\ c.hi \in Nat /\ c.lo < c.hi /\ c.hi - c.lo <= maxSpan
    BY <2>2, <1>9
  <2> QED
    BY <2>2, <2>3, <2>4, <2>5, <2>6, <2>7, <2>8
<1>14. ASSUME NEW p \in D, NEW x \in Nat
       PROVE  (\E c \in calls : Asks(c, p, x)) <=> \E g \in gaps[p] : Within(x, g)
  <2>1. ASSUME NEW c \in calls, Asks(c, p, x)
        PROVE  \E g \in gaps[p] : Within(x, g)
    <3>1. PICK g \in gaps[p] : g[1] <= c.lo /\ c.hi <= g[2]
      BY <2>1, <1>13 DEF Asks
    <3>2. Within(x, g)
      BY <2>1, <3>1, <1>13, <1>1 DEF Asks, Within
    <3> QED
      BY <3>2
  <2>2. ASSUME NEW g \in gaps[p], Within(x, g)
        PROVE  \E c \in calls : Asks(c, p, x)
    <3>1. x \in g[1]..(g[2] - 1) /\ g[1] \in Nat /\ g[2] \in Nat
      BY <2>2, <1>1 DEF Within
    <3>2. PICK s \in Spans(g[1], g[2], maxSpan) : Within(x, s)
      BY <3>1, SpansExact
    <3>3. s \in SpansAt(p)
      BY <1>5
    <3>4. p \in Chunked(p, s)
      BY <3>3, <1>6, <1>8
    <3>5. TheCall(s, p) \in calls
      BY <3>3, <1>7
    <3>6. Asks(TheCall(s, p), p, x)
      BY <3>2, <3>4 DEF Asks, Within
    <3> QED
      BY <3>5, <3>6
  <2> QED
    BY <2>1, <2>2
<1>15. ASSUME NEW c \in calls, NEW d \in calls, NEW p \in D, NEW x \in Nat, Asks(c, p, x), Asks(d, p, x)
       PROVE  c = d
  <2>0. PICK p1 \in D : \E s \in SpansAt(p1) : c = TheCall(s, p1)
    BY <1>7
  <2>1. PICK s \in SpansAt(p1) : c = TheCall(s, p1)
    BY <2>0
  <2>9. PICK p2 \in D : \E r \in SpansAt(p2) : d = TheCall(r, p2)
    BY <1>7
  <2>2. PICK r \in SpansAt(p2) : d = TheCall(r, p2)
    BY <2>9
  <2>3. /\ c.lo = s[1] /\ c.hi = s[2] /\ c.points = Chunked(p1, s)
        /\ d.lo = r[1] /\ d.hi = r[2] /\ d.points = Chunked(p2, r)
    BY <2>1, <2>2
  <2>4. p \in Chunked(p1, s) /\ p \in Chunked(p2, r) /\ Within(x, s) /\ Within(x, r)
    BY <1>15, <2>3 DEF Asks, Within
  <2>5. s \in SpansAt(p) /\ r \in SpansAt(p) /\ Chunk(p, s) = Chunk(p1, s) /\ Chunk(p, r) = Chunk(p2, r)
    BY <2>4, <1>6, <1>8
  <2>6. s = r
    BY <2>4, <2>5, <1>10
  <2>7. \A q : q \in Chunked(p1, s) <=> q \in Chunked(p2, r)
    <3> SUFFICES ASSUME NEW q PROVE q \in Chunked(p1, s) <=> q \in Chunked(p2, r)
      OBVIOUS
    <3>1. q \in Chunked(p1, s) <=> q \in Sharing(s) /\ Chunk(q, s) = Chunk(p1, s)
      BY <1>8
    <3>2. q \in Chunked(p2, r) <=> q \in Sharing(r) /\ Chunk(q, r) = Chunk(p2, r)
      BY <1>8
    <3>3. Chunk(p1, s) = Chunk(p2, r)
      BY <2>5, <2>6
    <3> QED
      BY <3>1, <3>2, <3>3, <2>6
  <2>8. Chunked(p1, s) = Chunked(p2, r)
    <3>1. Chunked(p1, s) \subseteq Chunked(p2, r) /\ Chunked(p2, r) \subseteq Chunked(p1, s)
      BY <2>7
    <3> QED
      BY <3>1
  <2> QED
    BY <2>1, <2>2, <2>6, <2>8
<1> QED
  BY <1>13, <1>14, <1>15, <1>8a DEF D

-----------------------------------------------------------------------------
(* What a fetch plans *)

\* There is a first call: the order of the calls has a least member.
LEMMA FirstIsCall ==
    ASSUME NEW calls, calls # {},
           \A c \in calls : c.lo \in Nat /\ c.hi \in Nat /\ c.points \subseteq Nat /\ c.points # {}
    PROVE  FirstCall(calls) \in calls
<1> DEFINE Los == {c.lo : c \in calls}
<1>1. Los \in SUBSET Nat /\ Los # {}
  OBVIOUS
<1>2. PICK lo \in Los : \A y \in Los : lo <= y
  BY <1>1, LeastNat
<1> DEFINE First == {c \in calls : c.lo = lo}
           His == {c.hi : c \in First}
<1>3. His \in SUBSET Nat /\ His # {}
  BY <1>2
<1>4. PICK hi \in His : \A y \in His : hi <= y
  BY <1>3, LeastNat
<1> DEFINE Shortest == {c \in First : c.hi = hi}
           Least == UNION {c.points : c \in Shortest}
<1>5. Least \in SUBSET Nat /\ Least # {}
  <2>1. PICK c \in First : c.hi = hi
    BY <1>4
  <2>2. c \in Shortest /\ c.points # {}
    BY <2>1
  <2> QED
    BY <2>2
<1>6. PICK p \in Least : \A q \in Least : p <= q
  BY <1>5, LeastNat
<1>7. PICK c \in Shortest : p \in c.points
  BY <1>6
<1>8. ASSUME NEW d \in calls PROVE NotAfter(c, d)
  <2>1. c.lo = lo /\ c.hi = hi /\ lo \in Nat /\ hi \in Nat /\ d.lo \in Nat /\ d.hi \in Nat
    BY <1>1, <1>2, <1>3, <1>4, <1>7
  <2>2. lo <= d.lo
    BY <1>2
  <2>3. d.lo = lo => hi <= d.hi
    BY <1>4
  <2>4. d.lo = lo /\ d.hi = hi => \A q \in d.points : p <= q
    BY <1>6
  <2> QED
    BY <2>1, <2>2, <2>3, <2>4, <1>7 DEF NotAfter
<1>9. c \in calls
  BY <1>7
<1> QED
  BY <1>8, <1>9 DEF FirstCall

-----------------------------------------------------------------------------
(* The parts of the inductive invariant *)

\* The fetch has been claimed and is at its calls.
Executing(f) == work[f].step \in {"call", "asked", "record"}

\* A job, or an execution, is of a fetch that has its row.
Placed == \A f \in Ids : work[f].step # "idle" \/ jobs[f].status # "none" => f \in DOMAIN fetches

\* Windows are not empty, and no fetch has started in the future.
RowsInOrder == \A f \in DOMAIN fetches :
    /\ fetches[f].trigger # "task" => fetches[f].lo < fetches[f].hi
    /\ fetches[f].started <= now

\* What is asked or to be recorded is a call that is left.
CallsLeft == \A f \in Ids : work[f].step \in {"asked", "record"} => work[f].calls # {}

\* What is to be recorded was answered, for the points that did not fail, and failures are noted.
WasAnswered == \A f \in Ids : work[f].step = "record" =>
    /\ work[f].failed # {} => work[f].errors
    /\ \A p \in Call(f).points \ work[f].failed : \A t \in Samples :
         t \in Call(f).lo..(Call(f).hi - 1) => cache[p][t] # "nothing"

\* Of a fetch at its calls, every instant of its window that had settled when it first started is
\* covered, or among its errors, or still to be asked for.
StillAsked == \A f \in Ids : Executing(f) /\ fetches[f].trigger # "task" =>
    \A p \in fetches[f].points : \A t \in fetches[f].lo..(fetches[f].hi - 1) :
        Final(t, fetches[f].started) =>
            t \in Covered(p) \/ work[f].errors \/ \E c \in work[f].calls : Asks(c, p, t)

-----------------------------------------------------------------------------
\* What the assumptions on the constants say, for the provers.
LEMMA Bounds ==
    /\ Points \subseteq Nat /\ IsFiniteSet(Points)
    /\ Horizon \in Nat /\ Settle \in Nat /\ Backfill \in Nat \ {0}
    /\ MaxSpan \in Nat \ {0} /\ MaxPoints \in Nat \ {0} /\ Attempts \in Nat \ {0}
    /\ MaxFetches \in Nat /\ MaxCrashes \in Nat /\ Start \in 0..Horizon
    /\ \A i \in 0..Horizon : i \in Nat /\ i <= Horizon
    /\ \A i \in Samples : i \in Nat /\ i < Horizon
BY FetchAssumption DEF Samples

\* What a set of rows covers.
LEMMA CoveredIs ==
    ASSUME NEW ends \in [Samples -> 0..Horizon], NEW t
    PROVE  t \in Instants({<<i, ends[i]>> : i \in {j \in Samples : ends[j] > j}})
             <=> t \in Nat /\ \E i \in Samples : i <= t /\ t < ends[i]
<1>1. \A i \in Samples : i \in Nat /\ ends[i] \in Nat
  BY Bounds
<1> DEFINE R == {<<i, ends[i]>> : i \in {j \in Samples : ends[j] > j}}
<1>2. t \in Instants(R) <=> \E r \in R : t \in r[1]..(r[2] - 1)
  BY DEF Instants
<1>3. ASSUME NEW r \in R, t \in r[1]..(r[2] - 1) PROVE t \in Nat /\ \E i \in Samples : i <= t /\ t < ends[i]
  <2>1. PICK i \in Samples : r = <<i, ends[i]>>
    OBVIOUS
  <2> QED
    BY <1>1, <1>3, <2>1
<1>4. ASSUME t \in Nat, NEW i \in Samples, i <= t, t < ends[i] PROVE \E r \in R : t \in r[1]..(r[2] - 1)
  <2>1. <<i, ends[i]>> \in R /\ t \in i..(ends[i] - 1)
    BY <1>1, <1>4
  <2> QED
    BY <2>1
<1> QED
  BY <1>2, <1>3, <1>4

\* So of a point.
LEMMA CoveredNow ==
    ASSUME TypeOK, NEW p \in Points, NEW t
    PROVE  t \in Covered(p) <=> t \in Nat /\ \E i \in Samples : i <= t /\ t < coverage[p][i]
<1>1. coverage[p] \in [Samples -> 0..Horizon]
  BY DEF TypeOK
<1> QED
  BY <1>1, CoveredIs DEF Covered, Rows

\* And after a step.
LEMMA CoveredThen ==
    ASSUME coverage' \in [Points -> [Samples -> 0..Horizon]], NEW p \in Points, NEW t
    PROVE  t \in Covered(p)' <=> t \in Nat /\ \E i \in Samples : i <= t /\ t < coverage'[p][i]
<1>1. coverage'[p] \in [Samples -> 0..Horizon]
  OBVIOUS
<1> QED
  BY <1>1, CoveredIs DEF Covered, Rows

\* The gaps of a fetch are what the plan needs, and hold exactly what is missing.
LEMMA GapsExact ==
    ASSUME TypeOK, NEW f \in DOMAIN fetches, fetches[f].lo < fetches[f].hi
    PROVE  /\ GapsOK(Gaps(f)) /\ DOMAIN Gaps(f) = fetches[f].points
           /\ \A p \in fetches[f].points : \A g \in Gaps(f)[p] : fetches[f].lo <= g[1] /\ g[2] <= fetches[f].hi
           /\ \A p \in fetches[f].points, x \in Nat :
                 (\E g \in Gaps(f)[p] : Within(x, g)) <=>
                 /\ fetches[f].lo <= x /\ x < fetches[f].hi
                 /\ fetches[f].force \/ x \notin Covered(p)
<1> DEFINE lo == fetches[f].lo
           hi == fetches[f].hi
           force == fetches[f].force
           P == fetches[f].points
<1>1. /\ fetches[f] \in FetchRows
      /\ lo \in Nat /\ hi \in Nat /\ hi <= Horizon /\ force \in BOOLEAN /\ P \subseteq Points
  <2>1. fetches[f] \in FetchRows
    BY DEF TypeOK
  <2> QED
    BY <2>1, Bounds DEF FetchRows
<1>2. Gaps(f) = [p \in P |-> IF force THEN {<<lo, hi>>} ELSE MissingRanges(coverage[p], lo, hi)]
  BY DEF Gaps
<1>3. lo < hi
  OBVIOUS
<1> HIDE DEF lo, hi, force, P
<1>4. P \in SUBSET Nat /\ IsFiniteSet(P)
  BY <1>1, Bounds, FS_Subset
<1>5. ASSUME NEW p \in P
      PROVE  /\ Gaps(f)[p] \subseteq Nat \X Nat
             /\ \A g \in Gaps(f)[p] : lo <= g[1] /\ g[1] < g[2] /\ g[2] <= hi
             /\ \A g, h \in Gaps(f)[p] : g # h => g[2] <= h[1] \/ h[2] <= g[1]
             /\ \A x \in Nat : (\E g \in Gaps(f)[p] : Within(x, g)) <=>
                    lo <= x /\ x < hi /\ (force \/ x \notin Covered(p))
  <2>1. CASE force
    <3>1. Gaps(f)[p] = {<<lo, hi>>}
      BY <1>2, <2>1
    <3>2. \A x \in Nat : Within(x, <<lo, hi>>) <=> lo <= x /\ x < hi
      BY DEF Within
    <3> QED
      BY <1>1, <1>3, <2>1, <3>1, <3>2
  <2>2. CASE ~force
    <3> DEFINE M == MissingRanges(coverage[p], lo, hi)
    <3>1. Gaps(f)[p] = M
      BY <1>2, <2>2
    <3>2. p \in Points /\ coverage[p] \in [Samples -> 0..Horizon]
      BY <1>1 DEF TypeOK
    <3>3. \A t \in 0..(hi - 1) : t \in Samples /\ coverage[p][t] \in Nat
      BY <1>1, <3>2, Bounds DEF Samples
    <3>4. /\ M \subseteq Nat \X Nat
          /\ \A g \in M : lo <= g[1] /\ g[1] < g[2] /\ g[2] <= hi
          /\ \A x \in lo..(hi - 1) : (\E g \in M : Within(x, g)) <=> ~CoversAt(coverage[p], x, hi)
          /\ \A g, h \in M : g # h => g[2] <= h[1] \/ h[2] <= g[1]
      BY <1>1, <1>3, <3>3, MissingExact
    <3> HIDE DEF M
    <3>5. \A x \in Nat : x < hi => (CoversAt(coverage[p], x, hi) <=> x \in Covered(p))
      <4> SUFFICES ASSUME NEW x \in Nat, x < hi
                   PROVE  CoversAt(coverage[p], x, hi) <=> x \in Covered(p)
        OBVIOUS
      <4>1. x \in Covered(p) <=> \E i \in Samples : i <= x /\ x < coverage[p][i]
        BY <3>2, CoveredNow
      <4>2. \A i \in Samples : i <= x => i \in 0..(hi - 1)
        BY <1>1, Bounds
      <4> QED
        BY <3>3, <4>1, <4>2 DEF CoversAt
    <3>6. \A x \in Nat : (\E g \in M : Within(x, g)) => lo <= x /\ x < hi
      <4> SUFFICES ASSUME NEW x \in Nat, NEW g \in M, Within(x, g) PROVE lo <= x /\ x < hi
        OBVIOUS
      <4>1. g[1] \in Nat /\ g[2] \in Nat /\ lo <= g[1] /\ g[2] <= hi
        BY <3>4
      <4> QED
        BY <4>1, <1>1 DEF Within
    <3>7. ASSUME NEW x \in Nat
          PROVE  (\E g \in M : Within(x, g)) <=> lo <= x /\ x < hi /\ x \notin Covered(p)
      <4>1. lo <= x /\ x < hi => x \in lo..(hi - 1)
        BY <1>1
      <4> QED
        BY <3>4, <3>5, <3>6, <4>1
    <3> QED
      BY <2>2, <3>1, <3>4, <3>7
  <2> QED
    BY <2>1, <2>2, <1>1
<1>6. DOMAIN Gaps(f) = P
  BY <1>2
<1>7. GapsOK(Gaps(f))
  BY <1>4, <1>5, <1>6 DEF GapsOK
<1> QED
  BY <1>5, <1>6, <1>7 DEF lo, hi, force, P

\* What a fetch plans: calls of the right type that ask for exactly what its gaps hold.
LEMMA PlanOfFetch ==
    ASSUME TypeOK, NEW f \in DOMAIN fetches, fetches[f].lo < fetches[f].hi
    PROVE  LET calls == PlanCalls(Gaps(f), MaxSpan, MaxPoints)
           IN  /\ calls \subseteq Calls
               /\ \A c \in calls : /\ c.lo < c.hi /\ c.hi - c.lo \in 1..MaxSpan
                                   /\ c.points \subseteq fetches[f].points
                                   /\ Cardinality(c.points) \in 1..MaxPoints
                                   /\ fetches[f].lo <= c.lo /\ c.hi <= fetches[f].hi
               /\ \A p \in fetches[f].points, x \in Nat :
                     (\E c \in calls : Asks(c, p, x)) <=>
                     /\ fetches[f].lo <= x /\ x < fetches[f].hi
                     /\ fetches[f].force \/ x \notin Covered(p)
               /\ \A c, d \in calls, p \in fetches[f].points, x \in Nat : Asks(c, p, x) /\ Asks(d, p, x) => c = d
<1> DEFINE calls == PlanCalls(Gaps(f), MaxSpan, MaxPoints)
<1>1. /\ GapsOK(Gaps(f)) /\ DOMAIN Gaps(f) = fetches[f].points
      /\ \A p \in fetches[f].points : \A g \in Gaps(f)[p] : fetches[f].lo <= g[1] /\ g[2] <= fetches[f].hi
      /\ \A p \in fetches[f].points, x \in Nat :
            (\E g \in Gaps(f)[p] : Within(x, g)) <=>
            /\ fetches[f].lo <= x /\ x < fetches[f].hi
            /\ fetches[f].force \/ x \notin Covered(p)
  BY GapsExact
<1>2. /\ \A c \in calls :
            /\ c = [lo |-> c.lo, hi |-> c.hi, points |-> c.points]
            /\ c.lo \in Nat /\ c.hi \in Nat /\ c.lo < c.hi /\ c.hi - c.lo <= MaxSpan
            /\ c.points \subseteq DOMAIN Gaps(f) /\ c.points # {}
            /\ Cardinality(c.points) \in 1..MaxPoints
            /\ \A p \in c.points : \E g \in Gaps(f)[p] : g[1] <= c.lo /\ c.hi <= g[2]
      /\ \A p \in DOMAIN Gaps(f), x \in Nat :
            (\E c \in calls : Asks(c, p, x)) <=> \E g \in Gaps(f)[p] : Within(x, g)
      /\ \A c, d \in calls, p \in DOMAIN Gaps(f), x \in Nat : Asks(c, p, x) /\ Asks(d, p, x) => c = d
  BY <1>1, Bounds, PlanExact
<1> HIDE DEF calls
<1>3. /\ fetches[f].lo \in Nat /\ fetches[f].hi \in Nat /\ fetches[f].hi <= Horizon
      /\ fetches[f].points \subseteq Points
  <2>1. fetches[f] \in FetchRows
    BY DEF TypeOK
  <2> QED
    BY <2>1, Bounds DEF FetchRows
<1>4. ASSUME NEW c \in calls
      PROVE  /\ c \in Calls /\ c.lo < c.hi /\ c.hi - c.lo \in 1..MaxSpan
             /\ c.points \subseteq fetches[f].points /\ Cardinality(c.points) \in 1..MaxPoints
             /\ fetches[f].lo <= c.lo /\ c.hi <= fetches[f].hi
  <2>1. PICK p \in c.points : TRUE
    BY <1>2
  <2>2. p \in fetches[f].points
    BY <1>1, <1>2
  <2>3. PICK g \in Gaps(f)[p] : g[1] <= c.lo /\ c.hi <= g[2]
    BY <1>2
  <2>4. g[1] \in Nat /\ g[2] \in Nat /\ fetches[f].lo <= g[1] /\ g[2] <= fetches[f].hi
    BY <1>1, <2>2 DEF GapsOK
  <2>5. c.lo \in Nat /\ c.hi \in Nat /\ c.lo < c.hi /\ c.hi - c.lo <= MaxSpan
    BY <1>2
  <2>6. fetches[f].lo <= c.lo /\ c.hi <= fetches[f].hi
    BY <2>3, <2>4, <2>5, <1>3
  <2>7. c.lo \in 0..Horizon /\ c.hi \in 0..Horizon /\ c.hi - c.lo \in 1..MaxSpan
    BY <2>5, <2>6, <1>3, Bounds
  <2>8. c.points \subseteq fetches[f].points /\ c.points # {} /\ Cardinality(c.points) \in 1..MaxPoints
    BY <1>1, <1>2
  <2>9. c = [lo |-> c.lo, hi |-> c.hi, points |-> c.points]
    BY <1>2
  <2>10. c \in Calls
    BY <2>7, <2>8, <2>9, <1>3 DEF Calls
  <2> QED
    BY <2>5, <2>6, <2>7, <2>8, <2>10
<1>5. calls \subseteq Calls
  BY <1>4
<1> QED
  BY <1>1, <1>2, <1>4, <1>5 DEF calls

-----------------------------------------------------------------------------
(* What the cache and the coverage keep *)

\* What an answered call leaves in the cache.
LEMMA WrittenKeeps ==
    ASSUME TypeOK, NEW f \in Ids, NEW points, cache' = Written(f, points)
    PROVE  /\ cache' \in [Points -> [Samples -> Seen]]
           /\ \A p \in Points, t \in Samples : cache'[p][t] = "nothing" => cache[p][t] = "nothing"
           /\ \A p \in points \intersect Points, t \in Samples :
                t \in Call(f).lo..(Call(f).hi - 1) => cache'[p][t] # "nothing"
<1>1. \A p \in Points, t \in Samples : cache[p][t] \in Seen
  BY DEF TypeOK
<1>2. \A p \in Points : cache'[p] = [t \in Samples |-> Written(f, points)[p][t]]
  BY DEF Written
<1>3. ASSUME NEW p \in Points, NEW t \in Samples
      PROVE  /\ cache'[p][t] \in Seen
             /\ cache'[p][t] = "nothing" => cache[p][t] = "nothing"
             /\ p \in points /\ t \in Call(f).lo..(Call(f).hi - 1) => cache'[p][t] # "nothing"
  BY <1>1 DEF Written, Seen
<1>4. DOMAIN cache' = Points /\ \A p \in Points : DOMAIN cache'[p] = Samples
  BY DEF Written
<1>5. cache' \in [Points -> [Samples -> Seen]]
  <2>1. \A p \in Points : cache'[p] \in [Samples -> Seen]
    BY <1>2, <1>3, <1>4
  <2> QED
    BY <2>1 DEF Written
<1> QED
  BY <1>3, <1>5

\* The call an execution is at is one of its calls.
LEMMA CallTyped ==
    ASSUME TypeOK, NEW f \in Ids, work[f].calls # {}
    PROVE  /\ Call(f) \in work[f].calls /\ Call(f) \in Calls
           /\ Call(f).lo \in 0..Horizon /\ Call(f).hi \in 0..Horizon /\ Call(f).points \subseteq Points
<1>1. work[f].calls \subseteq Calls
  BY DEF TypeOK, Executions
<1>2. \A c \in Calls : /\ c.lo \in 0..Horizon /\ c.hi \in 0..Horizon /\ c.points \subseteq Points /\ c.points # {}
                       /\ c.lo \in Nat /\ c.hi \in Nat /\ c.points \subseteq Nat
  BY Bounds DEF Calls
<1>3. FirstCall(work[f].calls) \in work[f].calls
  BY <1>1, <1>2, FirstIsCall
<1> QED
  BY <1>1, <1>2, <1>3 DEF Call

\* The rows after a record: longer from where the call starts, and the same otherwise.
LEMMA RecordKeeps ==
    ASSUME TypeOK, CallsLeft, NEW f \in Ids, Record(f)
    PROVE  /\ coverage' \in [Points -> [Samples -> 0..Horizon]]
           /\ \A p \in Points, i \in Samples : coverage[p][i] <= coverage'[p][i]
           /\ \A p \in Points, i \in Samples : coverage'[p][i] = coverage[p][i] \/
                /\ p \in Call(f).points \ work[f].failed
                /\ i = Call(f).lo /\ coverage'[p][i] <= Call(f).hi /\ coverage'[p][i] <= now - Settle
           /\ \A p \in Call(f).points \ work[f].failed, t \in Samples :
                Call(f).lo <= t /\ t < Call(f).hi /\ t < now - Settle => t < coverage'[p][Call(f).lo]
<1> DEFINE c == Call(f)
           end == SettledEnd(c.hi, now, Settle)
<1>1. /\ work[f].calls # {} /\ c.lo \in 0..Horizon /\ c.hi \in 0..Horizon /\ c.points \subseteq Points
      /\ now \in 0..Horizon
  <2>1. work[f].calls # {}
    BY DEF CallsLeft, Record, Step
  <2> QED
    BY <2>1, CallTyped DEF TypeOK
<1>2. coverage' = [p \in Points |-> IF p \in c.points \ work[f].failed /\ end > c.lo
                                    THEN Recorded(coverage[p], c.lo, end) ELSE coverage[p]]
  BY DEF Record
<1>3. \A p \in Points, i \in Samples : coverage[p][i] \in 0..Horizon
  BY DEF TypeOK
<1> HIDE DEF c
<1>4. end \in Int /\ end <= c.hi /\ end <= now - Settle /\ (end = c.hi \/ end = now - Settle)
  BY <1>1, Bounds DEF SettledEnd, Smaller
<1> HIDE DEF end
<1>5. ASSUME NEW p \in Points
      PROVE  /\ coverage'[p] \in [Samples -> 0..Horizon]
             /\ \A i \in Samples : coverage[p][i] <= coverage'[p][i]
             /\ \A i \in Samples : coverage'[p][i] = coverage[p][i] \/
                  /\ p \in c.points \ work[f].failed
                  /\ i = c.lo /\ coverage'[p][i] <= c.hi /\ coverage'[p][i] <= now - Settle
             /\ p \in c.points \ work[f].failed => \A t \in Samples :
                  c.lo <= t /\ t < c.hi /\ t < now - Settle => t < coverage'[p][c.lo]
  <2>0. coverage[p] \in [Samples -> 0..Horizon]
    BY DEF TypeOK
  <2>1. CASE p \in c.points \ work[f].failed /\ end > c.lo
    <3>1. coverage'[p] = [coverage[p] EXCEPT ![c.lo] = Larger(coverage[p][c.lo], end)]
      BY <1>2, <2>1 DEF Recorded
    <3>2. c.lo \in Samples /\ end \in 0..Horizon /\ c.lo \in Nat /\ c.hi \in Nat /\ c.hi <= Horizon
      BY <1>1, <1>4, <2>1, Bounds DEF Samples
    <3>3. coverage[p][c.lo] \in 0..Horizon /\ coverage[p][c.lo] \in Nat
      BY <3>2, <2>0, Bounds
    <3>4. /\ Larger(coverage[p][c.lo], end) \in 0..Horizon
          /\ Larger(coverage[p][c.lo], end) >= coverage[p][c.lo] /\ Larger(coverage[p][c.lo], end) >= end
          /\ Larger(coverage[p][c.lo], end) = coverage[p][c.lo] \/ Larger(coverage[p][c.lo], end) = end
      BY <3>2, <3>3, Bounds DEF Larger
    <3>5. coverage'[p] \in [Samples -> 0..Horizon]
      BY <2>0, <3>1, <3>4
    <3>6. coverage'[p][c.lo] = Larger(coverage[p][c.lo], end)
          /\ \A i \in Samples \ {c.lo} : coverage'[p][i] = coverage[p][i]
      BY <2>0, <3>1, <3>2
    <3>7. \A t \in Samples : t \in Nat
      BY Bounds
    <3>8. \A i \in Samples : coverage[p][i] \in Nat
      BY <2>0, Bounds
    <3>9. \A i \in Samples : coverage[p][i] <= coverage'[p][i]
      BY <3>4, <3>6, <3>8
    <3>10. \A t \in Samples : c.lo <= t /\ t < c.hi /\ t < now - Settle => t < coverage'[p][c.lo]
      BY <1>1, <1>4, <3>2, <3>4, <3>6, <3>7, Bounds
    <3>11. \A i \in Samples : coverage'[p][i] = coverage[p][i] \/
                  /\ p \in c.points \ work[f].failed
                  /\ i = c.lo /\ coverage'[p][i] <= c.hi /\ coverage'[p][i] <= now - Settle
      BY <1>4, <2>1, <3>4, <3>6
    <3> QED
      BY <3>5, <3>9, <3>10, <3>11
  <2>2. CASE ~(p \in c.points \ work[f].failed /\ end > c.lo)
    <3>1. coverage'[p] = coverage[p]
      BY <1>2, <2>2
    <3>2. \A i \in Samples : coverage[p][i] <= coverage'[p][i]
      BY <3>1, <1>3, Bounds
    <3>3. p \in c.points \ work[f].failed => \A t \in Samples :
                  ~(c.lo <= t /\ t < c.hi /\ t < now - Settle)
      BY <1>1, <1>4, <2>2, Bounds
    <3> QED
      BY <2>0, <3>1, <3>2, <3>3
  <2> QED
    BY <2>1, <2>2
<1>6. coverage' \in [Points -> [Samples -> 0..Horizon]]
  BY <1>2, <1>5
<1>7. \A p \in c.points : p \in Points
  BY <1>1
<1> QED
  BY <1>5, <1>6, <1>7 DEF c

-----------------------------------------------------------------------------
(* Types *)

\* The rows of the queue.
Jobs == [status : {"none", "todo", "doing", "done"}, attempts : 0..(Attempts - 1)]

\* What the type invariant says of the rows, jobs and executions of the fetches.
LEMMA Typed ==
    ASSUME TypeOK
    PROVE  /\ now \in Nat /\ now <= Horizon
           /\ DOMAIN fetches = 1..Len(fetches) /\ DOMAIN fetches \subseteq Ids /\ Len(fetches) \in Nat
           /\ \A g \in DOMAIN fetches : fetches[g] \in FetchRows
           /\ \A g \in DOMAIN fetches : fetches[g].lo \in 0..Horizon /\ fetches[g].hi \in 0..Horizon
                /\ fetches[g].started \in 0..Horizon /\ fetches[g].points \subseteq Points
           /\ \A g \in Ids : work[g] \in Executions /\ jobs[g] \in Jobs /\ g \in Nat
<1>1. /\ now \in 0..Horizon /\ fetches \in Seq(FetchRows) /\ Len(fetches) <= MaxFetches
      /\ work \in [Ids -> Executions] /\ jobs \in [Ids -> Jobs]
  BY DEF TypeOK, Jobs
<1>2. DOMAIN fetches = 1..Len(fetches) /\ Len(fetches) \in Nat /\ \A g \in DOMAIN fetches : fetches[g] \in FetchRows
  BY <1>1
<1>3. DOMAIN fetches \subseteq Ids /\ \A g \in Ids : g \in Nat
  BY <1>1, <1>2, Bounds DEF Ids
<1>4. \A g \in DOMAIN fetches : fetches[g].lo \in 0..Horizon /\ fetches[g].hi \in 0..Horizon
                /\ fetches[g].started \in 0..Horizon /\ fetches[g].points \subseteq Points
  BY <1>2 DEF FetchRows
<1> QED
  BY <1>1, <1>2, <1>3, <1>4, Bounds

\* The rows have grown by a queued one.
Grown(trigger, lo, hi) ==
    /\ fetches' \in Seq(FetchRows) /\ Len(fetches') <= MaxFetches
    /\ NewId \in Ids \ DOMAIN fetches /\ DOMAIN fetches' = DOMAIN fetches \union {NewId}
    /\ \A g \in DOMAIN fetches : fetches'[g] = fetches[g]
    /\ fetches'[NewId].trigger = trigger /\ fetches'[NewId].lo = lo /\ fetches'[NewId].hi = hi
    /\ fetches'[NewId].started = 0 /\ fetches'[NewId].status = "queued"

\* create_fetch: one row more, at the end.
LEMMA Appended ==
    ASSUME TypeOK,
           NEW trigger \in {"manual", "poll", "run", "task"}, NEW lo \in 0..Horizon, NEW hi \in 0..Horizon,
           NEW points \in SUBSET Points, NEW force \in BOOLEAN,
           NewFetch(trigger, lo, hi, points, force)
    PROVE  Grown(trigger, lo, hi)
<1> DEFINE row == [status |-> "queued", trigger |-> trigger, lo |-> lo, hi |-> hi,
                   points |-> points, force |-> force, created |-> now, started |-> 0]
<1>1. fetches \in Seq(FetchRows) /\ now \in 0..Horizon
  BY DEF TypeOK
<1>2. row \in FetchRows
  BY <1>1, Bounds DEF FetchRows
<1>3. fetches' = Append(fetches, row) /\ Len(fetches) < MaxFetches
  BY DEF NewFetch
<1> HIDE DEF row
<1>4. /\ fetches' \in Seq(FetchRows) /\ Len(fetches') = Len(fetches) + 1
      /\ \A i \in 1..Len(fetches) : fetches'[i] = fetches[i]
      /\ fetches'[Len(fetches) + 1] = row
  BY <1>1, <1>2, <1>3, AppendProperties
<1>5. DOMAIN fetches = 1..Len(fetches) /\ DOMAIN fetches' = 1..Len(fetches')
  BY <1>1, <1>4
<1>6. Len(fetches) \in Nat /\ MaxFetches \in Nat
  BY <1>1, Bounds
<1> QED
  BY <1>3, <1>4, <1>5, <1>6 DEF row, NewId, Ids, Grown

\* One row replaced.
LEMMA RowSet ==
    ASSUME TypeOK, NEW f \in DOMAIN fetches, NEW row \in FetchRows, fetches' = [fetches EXCEPT ![f] = row]
    PROVE  /\ fetches' \in Seq(FetchRows) /\ Len(fetches') <= MaxFetches /\ DOMAIN fetches' = DOMAIN fetches
           /\ fetches'[f] = row /\ \A g \in DOMAIN fetches \ {f} : fetches'[g] = fetches[g]
<1>1. fetches \in Seq(FetchRows) /\ Len(fetches) <= MaxFetches
  BY DEF TypeOK
<1>2. f \in 1..Len(fetches)
  BY <1>1
<1>3. fetches' \in Seq(FetchRows) /\ Len(fetches') = Len(fetches)
  BY <1>1, <1>2, ExceptSeq
<1> QED
  BY <1>1, <1>3

\* The queue gets the job back, or is done with it; nothing becomes a job that was none.
LEMMA GivenBack ==
    ASSUME TypeOK, NEW f \in Ids, NEW retry \in BOOLEAN, GiveBack(f, retry)
    PROVE  /\ jobs' \in [Ids -> Jobs]
           /\ \A g \in Ids : jobs'[g].status # "none" => jobs[g].status # "none"
<1>1. jobs \in [Ids -> Jobs] /\ jobs[f] \in Jobs
  BY DEF TypeOK, Jobs
<1>2. CASE jobs[f].status # "doing"
  BY <1>1, <1>2 DEF GiveBack
<1>3. CASE jobs[f].status = "doing" /\ retry /\ jobs[f].attempts + 1 < Attempts
  <2>1. jobs' = [jobs EXCEPT ![f] = [status |-> "todo", attempts |-> jobs[f].attempts + 1]]
    BY <1>3 DEF GiveBack
  <2>2. jobs[f].attempts \in 0..(Attempts - 1)
    BY <1>1 DEF Jobs
  <2>3. [status |-> "todo", attempts |-> jobs[f].attempts + 1] \in Jobs
    BY <1>3, <2>2, Bounds DEF Jobs
  <2> QED
    BY <1>1, <1>3, <2>1, <2>3
<1>4. CASE jobs[f].status = "doing" /\ ~(retry /\ jobs[f].attempts + 1 < Attempts)
  <2>1. jobs' = [jobs EXCEPT ![f].status = "done"]
    BY <1>4 DEF GiveBack
  <2> QED
    BY <1>1, <1>4, <2>1 DEF Jobs
<1> QED
  BY <1>2, <1>3, <1>4

\* finish: the row of the fetch takes the outcome, and its execution ends.
LEMMA Finished ==
    ASSUME TypeOK, Placed, NEW f \in Ids, work[f].step # "idle", NEW outcome \in Ended, NEW retry \in BOOLEAN,
           Finish(f, outcome, retry)
    PROVE  /\ f \in DOMAIN fetches
           /\ fetches' \in Seq(FetchRows) /\ Len(fetches') <= MaxFetches /\ DOMAIN fetches' = DOMAIN fetches
           /\ \A g \in DOMAIN fetches : fetches'[g] = [fetches[g] EXCEPT !.status = IF g = f THEN outcome ELSE @]
           /\ jobs' \in [Ids -> Jobs] /\ \A g \in Ids : jobs'[g].status # "none" => jobs[g].status # "none"
           /\ work' \in [Ids -> Executions] /\ work' = [work EXCEPT ![f] = Idle]
<1>1. f \in DOMAIN fetches
  BY DEF Placed
<1> DEFINE row == [fetches[f] EXCEPT !.status = outcome]
<1>2. fetches' = [fetches EXCEPT ![f] = row]
  BY DEF Finish
<1>3. fetches[f] \in FetchRows
  BY <1>1, Typed
<1>4. row \in FetchRows
  BY <1>3 DEF FetchRows, Ended
<1> HIDE DEF row
<1>5. /\ fetches' \in Seq(FetchRows) /\ Len(fetches') <= MaxFetches /\ DOMAIN fetches' = DOMAIN fetches
      /\ fetches'[f] = row /\ \A g \in DOMAIN fetches \ {f} : fetches'[g] = fetches[g]
  BY <1>1, <1>2, <1>4, RowSet
<1>6. \A g \in DOMAIN fetches : fetches[g] \in FetchRows
  BY Typed
<1>7. \A g \in DOMAIN fetches : fetches'[g] = [fetches[g] EXCEPT !.status = IF g = f THEN outcome ELSE @]
  <2> SUFFICES ASSUME NEW g \in DOMAIN fetches
               PROVE  fetches'[g] = [fetches[g] EXCEPT !.status = IF g = f THEN outcome ELSE @]
    OBVIOUS
  <2>1. CASE g = f
    BY <1>5, <2>1 DEF row
  <2>2. CASE g # f
    <3>1. fetches[g] = [fetches[g] EXCEPT !.status = fetches[g].status]
      BY <1>6 DEF FetchRows
    <3> QED
      BY <1>5, <2>2, <3>1
  <2> QED
    BY <2>1, <2>2
<1>8. Idle \in Executions
  BY Bounds DEF Idle, Executions
<1>9. work' = [work EXCEPT ![f] = Idle] /\ work \in [Ids -> Executions]
  BY DEF Finish, TypeOK
<1>10. jobs' \in [Ids -> Jobs] /\ \A g \in Ids : jobs'[g].status # "none" => jobs[g].status # "none"
  BY GivenBack DEF Finish
<1> QED
  BY <1>1, <1>5, <1>7, <1>8, <1>9, <1>10

\* The types, and what keeps them.
Kept == TypeOK /\ Placed /\ RowsInOrder /\ CallsLeft

\* An execution that ends, whatever it has written to the cache, keeps the types.
LEMMA FinishKeeps ==
    ASSUME Kept, NEW f \in Ids, work[f].step # "idle", NEW outcome \in Ended, NEW retry \in BOOLEAN,
           Finish(f, outcome, retry), cache' \in [Points -> [Samples -> Seen]], UNCHANGED <<now, coverage, crashes>>
    PROVE  Kept'
<1>1. /\ f \in DOMAIN fetches
      /\ fetches' \in Seq(FetchRows) /\ Len(fetches') <= MaxFetches /\ DOMAIN fetches' = DOMAIN fetches
      /\ \A g \in DOMAIN fetches : fetches'[g] = [fetches[g] EXCEPT !.status = IF g = f THEN outcome ELSE @]
      /\ jobs' \in [Ids -> Jobs] /\ \A g \in Ids : jobs'[g].status # "none" => jobs[g].status # "none"
      /\ work' \in [Ids -> Executions] /\ work' = [work EXCEPT ![f] = Idle]
  BY Finished DEF Kept
<1>2. TypeOK'
  BY <1>1 DEF Kept, TypeOK, Jobs
<1>3. \A g \in Ids : work'[g] = work[g] \/ work'[g] = Idle
  BY <1>1 DEF Kept, TypeOK
<1>4. Placed'
  BY <1>1, <1>3 DEF Kept, Placed, Idle
<1>5. \A g \in DOMAIN fetches : fetches[g] \in FetchRows
  BY Typed DEF Kept
<1>6. RowsInOrder'
  BY ZenonT(40), <1>1, <1>5 DEF Kept, RowsInOrder, FetchRows
<1>7. CallsLeft'
  BY <1>3 DEF Kept, CallsLeft, Idle
<1> QED
  BY <1>2, <1>4, <1>6, <1>7 DEF Kept

\* A step that leaves the rows alone and moves the executions on.
LEMMA WorkKeeps ==
    ASSUME Kept, UNCHANGED <<fetches, crashes>>, now' \in 0..Horizon, now <= now',
           cache' \in [Points -> [Samples -> Seen]], coverage' \in [Points -> [Samples -> 0..Horizon]],
           jobs' \in [Ids -> Jobs], work' \in [Ids -> Executions],
           \A g \in Ids : work'[g].step # "idle" \/ jobs'[g].status # "none"
                            => work[g].step # "idle" \/ jobs[g].status # "none",
           \A g \in Ids : work'[g].step \in {"asked", "record"} => work'[g].calls # {}
    PROVE  Kept'
<1>1. TypeOK'
  BY DEF Kept, TypeOK, Jobs
<1>2. Placed'
  BY DEF Kept, Placed
<1>3. \A g \in DOMAIN fetches : fetches[g].started \in Nat
  BY Typed, Bounds DEF Kept
<1>4. now \in Nat /\ now' \in Nat
  BY Typed, Bounds DEF Kept
<1>5. RowsInOrder'
  BY <1>3, <1>4 DEF Kept, RowsInOrder
<1>6. CallsLeft'
  BY DEF CallsLeft
<1> QED
  BY <1>1, <1>2, <1>5, <1>6 DEF Kept

\* The types hold at the beginning.
LEMMA KeptFirst == Init => Kept
<1> SUFFICES ASSUME Init PROVE Kept
  OBVIOUS
<1>1. fetches = <<>> /\ fetches \in Seq(FetchRows) /\ Len(fetches) = 0 /\ DOMAIN fetches = {}
  BY DEF Init
<1>2. Idle \in Executions
  BY Bounds DEF Idle, Executions
<1>3. coverage \in [Points -> [Samples -> 0..Horizon]]
  BY FetchAssumption DEF Init, Samples
<1>4. TypeOK
  BY <1>1, <1>2, <1>3, Bounds DEF Init, TypeOK, Seen
<1>5. \A f \in Ids : work[f].step = "idle" /\ jobs[f].status = "none"
  BY DEF Init, Idle
<1> QED
  BY <1>1, <1>4, <1>5 DEF Kept, Placed, RowsInOrder, CallsLeft

\* A new row, with its job or its execution.
LEMMA AppendKeeps ==
    ASSUME Kept, NEW trigger \in {"manual", "poll", "run", "task"}, NEW lo \in 0..Horizon, NEW hi \in 0..Horizon,
           NEW points \in SUBSET Points, NEW force \in BOOLEAN,
           NewFetch(trigger, lo, hi, points, force), trigger # "task" => lo < hi,
           UNCHANGED <<now, cache, coverage, crashes>>,
           \/ jobs' = [jobs EXCEPT ![NewId].status = "todo"] /\ UNCHANGED work
           \/ work' = [work EXCEPT ![NewId].step = "prepare"] /\ UNCHANGED jobs
    PROVE  Kept'
<1>1. Grown(trigger, lo, hi)
  <2>1. TypeOK
    BY DEF Kept
  <2> QED
    BY <2>1, Appended
<1>2. work \in [Ids -> Executions] /\ jobs \in [Ids -> Jobs]
  BY DEF Kept, TypeOK, Jobs
<1>3. /\ jobs' \in [Ids -> Jobs] /\ work' \in [Ids -> Executions]
      /\ \A g \in Ids : g # NewId => jobs'[g] = jobs[g] /\ work'[g] = work[g]
      /\ work'[NewId].step \in {work[NewId].step, "prepare"}
      /\ work'[NewId].calls = work[NewId].calls
  <2>1. CASE jobs' = [jobs EXCEPT ![NewId].status = "todo"] /\ UNCHANGED work
    BY <1>1, <1>2, <2>1 DEF Jobs, Grown
  <2>2. CASE work' = [work EXCEPT ![NewId].step = "prepare"] /\ UNCHANGED jobs
    <3>1. work[NewId] \in Executions /\ NewId \in Ids
      BY <1>1, <1>2 DEF Grown
    <3>2. [work[NewId] EXCEPT !.step = "prepare"] \in Executions
      BY <3>1 DEF Executions
    <3>3. work' = [work EXCEPT ![NewId] = [work[NewId] EXCEPT !.step = "prepare"]]
      BY <2>2
    <3>4. work'[NewId].step = "prepare" /\ work'[NewId].calls = work[NewId].calls
      BY <1>2, <3>1, <3>3 DEF Executions
    <3> QED
      BY <1>2, <2>2, <3>1, <3>2, <3>3, <3>4
  <2> QED
    BY <2>1, <2>2
<1>4. TypeOK'
  BY <1>1, <1>3 DEF Kept, TypeOK, Jobs, Grown
<1>5. Placed'
  BY <1>1, <1>3 DEF Kept, Placed, Grown
<1>6. now \in Nat
  BY Typed DEF Kept
<1>7. RowsInOrder'
  BY <1>1, <1>6 DEF Kept, RowsInOrder, Grown
<1>8. CallsLeft'
  <2>1. CallsLeft
    BY DEF Kept
  <2>2. \A g \in Ids : work'[g].step \in {"asked", "record"} => work[g].step \in {"asked", "record"}
    BY <1>1, <1>3 DEF Grown
  <2>3. \A g \in Ids : work'[g].calls = work[g].calls
    BY <1>1, <1>3 DEF Grown
  <2> QED
    BY <2>1, <2>2, <2>3 DEF CallsLeft
<1> QED
  BY <1>4, <1>5, <1>7, <1>8 DEF Kept

\* prepare keeps the types: what it plans are calls.
LEMMA PrepareKeeps ==
    ASSUME Kept, NEW f \in Ids, Prepare(f)
    PROVE  Kept'
<1>1. f \in DOMAIN fetches /\ work[f].step = "prepare"
  BY DEF Kept, Placed, Prepare, Step
<1>2. /\ work \in [Ids -> Executions] /\ work[f] \in Executions /\ jobs \in [Ids -> Jobs]
      /\ cache \in [Points -> [Samples -> Seen]] /\ coverage \in [Points -> [Samples -> 0..Horizon]]
      /\ now \in 0..Horizon
  BY DEF Kept, TypeOK, Jobs
<1>3. UNCHANGED <<now, cache, coverage, crashes>>
  BY DEF Prepare
<1>4. CASE Claimable(f)
  <2> DEFINE row == [fetches[f] EXCEPT !.status = "running", !.started = IF @ = 0 THEN now ELSE @]
             calls == IF fetches[f].trigger = "task" THEN {} ELSE PlanCalls(Gaps(f), MaxSpan, MaxPoints)
  <2>1. fetches' = [fetches EXCEPT ![f] = row] /\ UNCHANGED jobs
    BY <1>1, <1>4 DEF Prepare
  <2>2. work' = [work EXCEPT ![f].step = "call", ![f].calls = calls]
    BY <1>4 DEF Prepare
  <2>3. fetches[f] \in FetchRows
    BY <1>1, Typed DEF Kept
  <2>4. row \in FetchRows
    BY <2>3, <1>2 DEF FetchRows
  <2>5. /\ row.lo = fetches[f].lo /\ row.hi = fetches[f].hi /\ row.trigger = fetches[f].trigger
        /\ row.started \in {fetches[f].started, now}
    BY <2>3 DEF FetchRows
  <2> HIDE DEF row
  <2>6. /\ fetches' \in Seq(FetchRows) /\ Len(fetches') <= MaxFetches /\ DOMAIN fetches' = DOMAIN fetches
        /\ fetches'[f] = row /\ \A g \in DOMAIN fetches \ {f} : fetches'[g] = fetches[g]
    BY <1>1, <2>1, <2>4, RowSet DEF Kept
  <2>7. calls \subseteq Calls
    <3>1. fetches[f].trigger # "task" => fetches[f].lo < fetches[f].hi
      BY <1>1 DEF Kept, RowsInOrder
    <3> QED
      BY <1>1, <3>1, PlanOfFetch DEF Kept
  <2> HIDE DEF calls
  <2>8. work' \in [Ids -> Executions] /\ work'[f].step = "call" /\ \A g \in Ids : g # f => work'[g] = work[g]
    BY <1>2, <2>2, <2>7 DEF Executions
  <2>9. TypeOK'
    BY <1>3, <2>1, <2>6, <2>8 DEF Kept, TypeOK
  <2>10. Placed'
    BY <1>1, <2>1, <2>6, <2>8 DEF Kept, Placed
  <2>11. now \in Nat
    BY Typed DEF Kept
  <2>12. RowsInOrder'
    BY <1>1, <1>3, <2>5, <2>6, <2>11 DEF Kept, RowsInOrder
  <2>13. CallsLeft'
    BY <2>8 DEF Kept, CallsLeft
  <2> QED
    BY <2>9, <2>10, <2>12, <2>13 DEF Kept
<1>5. CASE ~Claimable(f)
  <2>1. work' = [work EXCEPT ![f] = Idle] /\ GiveBack(f, FALSE) /\ UNCHANGED fetches
    BY <1>5 DEF Prepare
  <2>2. jobs' \in [Ids -> Jobs] /\ \A g \in Ids : jobs'[g].status # "none" => jobs[g].status # "none"
    BY <2>1, GivenBack DEF Kept
  <2>3. Idle \in Executions
    BY Bounds DEF Idle, Executions
  <2>4. work' \in [Ids -> Executions] /\ \A g \in Ids : work'[g] = work[g] \/ work'[g] = Idle
    BY <1>2, <2>1, <2>3
  <2>5. now \in Nat
    BY Typed DEF Kept
  <2>6. \A g \in Ids : work'[g].step # "idle" \/ jobs'[g].status # "none"
                            => work[g].step # "idle" \/ jobs[g].status # "none"
    BY <2>2, <2>4 DEF Idle
  <2>7. \A g \in Ids : work'[g].step \in {"asked", "record"} => work'[g].calls # {}
    BY <2>4 DEF Idle, Kept, CallsLeft
  <2> QED
    BY <1>2, <1>3, <2>1, <2>2, <2>4, <2>5, <2>6, <2>7, WorkKeeps
<1> QED
  BY <1>4, <1>5

\* Every step keeps the types and the order of the rows.
LEMMA KeptNext == Kept /\ [Next]_vars => Kept'
<1> SUFFICES ASSUME Kept, [Next]_vars PROVE Kept'
  OBVIOUS
<1>t. /\ now \in 0..Horizon /\ now \in Nat
      /\ work \in [Ids -> Executions] /\ jobs \in [Ids -> Jobs]
      /\ cache \in [Points -> [Samples -> Seen]] /\ coverage \in [Points -> [Samples -> 0..Horizon]]
  BY Typed DEF Kept, TypeOK, Jobs
<1>i. Idle \in Executions /\ [Idle EXCEPT !.step = "dead"] \in Executions
  <2>1. Idle \in Executions
    BY Bounds DEF Idle, Executions
  <2> QED
    BY <2>1 DEF Executions
<1>c. \A g \in Ids : work[g].step \in {"asked", "record"} => work[g].calls # {}
  BY DEF Kept, CallsLeft
<1>1. CASE Request
  <2>1. CASE \E r \in Requests : NewFetch("manual", r.lo, r.hi, r.points, r.force)
    <3>1. PICK r \in Requests : NewFetch("manual", r.lo, r.hi, r.points, r.force)
      BY <2>1
    <3>2. r.lo \in 0..Horizon /\ r.hi \in 0..Horizon /\ r.points \in SUBSET Points /\ r.force \in BOOLEAN /\ r.lo < r.hi
      BY FetchAssumption
    <3> QED
      BY <1>1, <3>1, <3>2, AppendKeeps DEF Request, Enqueue
  <2>2. CASE NewFetch("task", now, now, Points, FALSE)
    BY <1>t, <1>1, <2>2, AppendKeeps DEF Request, Enqueue
  <2> QED
    BY <1>1, <2>1, <2>2 DEF Request
<1>2. CASE Poll
  <2>1. Larger(0, now - Backfill) \in 0..Horizon /\ Larger(0, now - Backfill) < now
    BY <1>t, <1>2, Bounds DEF Poll, Larger
  <2>2. Points \in SUBSET Points /\ FALSE \in BOOLEAN
    OBVIOUS
  <2> QED
    BY <1>t, <1>2, <2>1, <2>2, AppendKeeps DEF Poll, Enqueue
<1>3. CASE RunFetch
  <2>1. PICK w \in RunWindows :
          LET wanted == {p \in Points : MissingRanges(coverage[p], w[1], w[2]) # {}}
          IN  wanted # {} /\ NewFetch("run", w[1], w[2], wanted, FALSE)
    BY <1>3 DEF RunFetch
  <2>2. w[1] \in 0..Horizon /\ w[2] \in 0..Horizon /\ w[1] < w[2]
    BY FetchAssumption
  <2> DEFINE wanted == {p \in Points : MissingRanges(coverage[p], w[1], w[2]) # {}}
  <2>3. NewFetch("run", w[1], w[2], wanted, FALSE) /\ wanted \in SUBSET Points
    BY <2>1
  <2> HIDE DEF wanted
  <2> QED
    BY <1>3, <2>2, <2>3, AppendKeeps DEF RunFetch
<1>4. ASSUME NEW f \in Ids, Pick(f) PROVE Kept'
  <2>1. /\ jobs' \in [Ids -> Jobs] /\ work' \in [Ids -> Executions]
        /\ \A g \in Ids : g # f => jobs'[g] = jobs[g] /\ work'[g] = work[g]
        /\ jobs[f].status = "todo" /\ work'[f].step = "prepare"
    BY ZenonT(40), <1>t, <1>4 DEF Pick, Jobs, Executions
  <2>2. UNCHANGED <<now, fetches, cache, coverage, crashes>>
    BY <1>4 DEF Pick
  <2>3. \A g \in Ids : work'[g].step \in {"asked", "record"} => work'[g].calls # {}
    BY <1>c, <2>1
  <2>4. \A g \in Ids : work'[g].step # "idle" \/ jobs'[g].status # "none"
                            => work[g].step # "idle" \/ jobs[g].status # "none"
    BY <2>1
  <2> QED
    BY <1>t, <2>1, <2>2, <2>3, <2>4, WorkKeeps
<1>5. ASSUME NEW f \in Ids, Raises(f) PROVE Kept'
  <2>1. /\ jobs' \in [Ids -> Jobs] /\ work' \in [Ids -> Executions]
        /\ \A g \in Ids : g # f => jobs'[g] = jobs[g] /\ work'[g] = work[g]
        /\ work[f].step # "idle" /\ work'[f].step = "idle"
    BY <1>t, <1>i, <1>5 DEF Raises, Jobs, Idle
  <2>2. UNCHANGED <<now, fetches, cache, coverage, crashes>>
    BY <1>5 DEF Raises
  <2>3. \A g \in Ids : work'[g].step \in {"asked", "record"} => work'[g].calls # {}
    BY <1>c, <2>1
  <2>4. \A g \in Ids : work'[g].step # "idle" \/ jobs'[g].status # "none"
                            => work[g].step # "idle" \/ jobs[g].status # "none"
    BY <2>1
  <2> QED
    BY <1>t, <2>1, <2>2, <2>3, <2>4, WorkKeeps
<1>6. ASSUME NEW f \in Ids, Ask(f) PROVE Kept'
  <2>1. /\ work' \in [Ids -> Executions] /\ work[f].step = "call" /\ work'[f].calls # {}
        /\ \A g \in Ids : g # f => work'[g] = work[g]
    BY ZenonT(40), <1>t, <1>6 DEF Ask, Step, Executions
  <2>2. UNCHANGED <<now, fetches, jobs, cache, coverage, crashes>>
    BY <1>6 DEF Ask
  <2> QED
    BY SMTT(40), <1>t, <1>c, <2>1, <2>2, WorkKeeps
<1>7. ASSUME NEW f \in Ids, SpendBudget(f) PROVE Kept'
  BY <1>t, <1>7, FinishKeeps DEF SpendBudget, Step, Ended
<1>8. ASSUME NEW f \in Ids, Answer(f) PROVE Kept'
  <2>1. PICK failed \in SUBSET Call(f).points :
          /\ cache' = Written(f, Call(f).points \ failed)
          /\ work' = [work EXCEPT ![f].step = "record", ![f].failed = failed,
                                  ![f].errors = @ \/ failed # {}]
    BY <1>8 DEF Answer
  <2>2. work[f].step = "asked" /\ work[f].calls # {}
    BY <1>8, <1>c DEF Answer, Step
  <2>3. failed \subseteq Points
    BY <2>2, CallTyped DEF Kept
  <2>4. cache' \in [Points -> [Samples -> Seen]]
    BY <2>1, WrittenKeeps DEF Kept
  <2>5. (work[f].errors \/ failed # {}) \in BOOLEAN
    OBVIOUS
  <2>6. /\ work' \in [Ids -> Executions] /\ work'[f].calls = work[f].calls
        /\ \A g \in Ids : g # f => work'[g] = work[g]
    <3>1. [work[f] EXCEPT !.step = "record", !.failed = failed, !.errors = @ \/ failed # {}] \in Executions
      BY <1>t, <2>3, <2>5 DEF Executions
    <3>2. work' = [work EXCEPT ![f] = [work[f] EXCEPT !.step = "record", !.failed = failed, !.errors = @ \/ failed # {}]]
      BY <1>t, <2>1
    <3>3. work'[f].calls = work[f].calls
      BY <1>t, <2>1 DEF Executions
    <3> QED
      BY <1>t, <3>1, <3>2, <3>3
  <2>7. UNCHANGED <<now, fetches, jobs, coverage, crashes>>
    BY <1>8 DEF Answer
  <2> QED
    BY <1>t, <1>c, <2>2, <2>4, <2>6, <2>7, WorkKeeps
<1>9. ASSUME NEW f \in Ids, CallFails(f) PROVE Kept'
  <2>1. PICK outcome \in Ended, retry \in BOOLEAN :
            Finish(f, outcome, retry) /\ cache' \in [Points -> [Samples -> Seen]]
    <3>1. CASE \E retry \in BOOLEAN : Finish(f, IF retry THEN "partial" ELSE "failed", retry) /\ UNCHANGED cache
      BY <1>t, <3>1 DEF Ended
    <3>2. CASE \E written \in SUBSET Call(f).points : Finish(f, "partial", TRUE) /\ cache' = Written(f, written)
      BY <3>2, WrittenKeeps DEF Ended, Kept
    <3> QED
      BY <1>9, <3>1, <3>2 DEF CallFails
  <2> QED
    BY <1>9, <2>1, FinishKeeps DEF CallFails, Step
<1>10. ASSUME NEW f \in Ids, Record(f) PROVE Kept'
  <2>1. coverage' \in [Points -> [Samples -> 0..Horizon]]
    BY <1>10, RecordKeeps DEF Kept
  <2>2. /\ work' \in [Ids -> Executions] /\ work[f].step = "record" /\ work'[f].step = "call"
        /\ \A g \in Ids : g # f => work'[g] = work[g]
    <3>1. work[f] \in Executions /\ 0 \in 0..Horizon /\ work[f].step = "record"
      BY <1>t, <1>10, Bounds DEF Record, Step
    <3> DEFINE done == [work[f] EXCEPT !.step = "call", !.asked = 0, !.failed = {}, !.calls = @ \ {Call(f)}]
    <3>2. done \in Executions /\ done.step = "call"
      BY <3>1 DEF Executions
    <3>3. work' = [work EXCEPT ![f] = done]
      BY <1>10 DEF Record
    <3> QED
      BY <1>t, <3>1, <3>2, <3>3
  <2>3. UNCHANGED <<now, fetches, jobs, cache, crashes>>
    BY <1>10 DEF Record
  <2> QED
    BY <1>t, <1>c, <2>1, <2>2, <2>3, WorkKeeps
<1>11. ASSUME NEW f \in Ids, Complete(f) PROVE Kept'
  BY <1>t, <1>11, FinishKeeps DEF Complete, Step, Ended
<1>12. ASSUME NEW f \in Ids, Task(f) PROVE Kept'
  BY <1>t, <1>12, FinishKeeps DEF Task, Step
<1>13. ASSUME NEW f \in Ids, PrepareStops(f) PROVE Kept'
  BY <1>t, <1>13, FinishKeeps DEF PrepareStops, Step, Ended
<1>14. ASSUME NEW f \in Ids, Prepare(f) PROVE Kept'
  BY <1>14, PrepareKeeps
<1>15. ASSUME NEW f \in Ids, Crash(f) PROVE Kept'
  <2>1. work' = [work EXCEPT ![f] = [Idle EXCEPT !.step = "dead"]] /\ work[f].step # "idle" /\ crashes' \in 0..MaxCrashes
    BY <1>15, Bounds DEF Crash, Kept, TypeOK
  <2>2. work' \in [Ids -> Executions] /\ work'[f].step = "dead" /\ \A g \in Ids : g # f => work'[g] = work[g]
    BY <1>t, <1>i, <2>1 DEF Idle
  <2>3. UNCHANGED <<now, fetches, jobs, cache, coverage>>
    BY <1>15 DEF Crash
  <2>4. TypeOK'
    BY <2>1, <2>2, <2>3 DEF Kept, TypeOK
  <2>5. Placed' /\ RowsInOrder' /\ CallsLeft'
    BY <2>1, <2>2, <2>3 DEF Kept, Placed, RowsInOrder, CallsLeft
  <2> QED
    BY <2>4, <2>5 DEF Kept
<1>16. CASE Tick
  <2>1. now' \in 0..Horizon /\ now <= now'
    BY <1>t, <1>16, Bounds DEF Tick
  <2>2. \A g \in Ids : work[g].step # "idle" \/ jobs[g].status # "none" => work[g].step # "idle" \/ jobs[g].status # "none"
    OBVIOUS
  <2> QED
    BY <1>t, <1>c, <1>16, <2>1, <2>2, WorkKeeps DEF Tick
<1>17. CASE UNCHANGED vars
  BY <1>17 DEF vars, Kept, TypeOK, Placed, RowsInOrder, CallsLeft
<1> QED
  BY <1>1, <1>2, <1>3, <1>4, <1>5, <1>6, <1>7, <1>8, <1>9, <1>10, <1>11, <1>12, <1>13, <1>14, <1>15, <1>16, <1>17
     DEF Next, Work

-----------------------------------------------------------------------------
(* What a step moves *)

\* What a step may do to the row of a fetch, and to its execution.
RowMoves(g) ==
    /\ fetches'[g].lo = fetches[g].lo /\ fetches'[g].hi = fetches[g].hi
    /\ fetches'[g].points = fetches[g].points /\ fetches'[g].trigger = fetches[g].trigger
    /\ \/ fetches'[g].started = fetches[g].started
       \/ Prepare(g) /\ Claimable(g) /\ fetches'[g].status = "running"
    /\ fetches'[g].status = "succeeded" =>
         fetches[g].status = "succeeded" \/ fetches[g].trigger = "task" \/ (Complete(g) /\ ~work[g].errors)
WorkMoves(g) ==
    \/ work'[g] = work[g]
    \/ work'[g].step \notin {"call", "asked", "record"}
    \/ Prepare(g) /\ Claimable(g)
    \/ Ask(g) \/ Answer(g) \/ Record(g)
Moves ==
    /\ DOMAIN fetches \subseteq DOMAIN fetches'
    /\ \A g \in DOMAIN fetches' \ DOMAIN fetches :
          fetches'[g].status = "queued" /\ work'[g].step \notin {"call", "asked", "record"}
    /\ \A g \in DOMAIN fetches : RowMoves(g)
    /\ \A g \in Ids : WorkMoves(g)
    /\ \A p \in Points, t \in Samples : cache'[p][t] = "nothing" => cache[p][t] = "nothing"
    /\ UNCHANGED coverage \/ \E f \in Ids : Record(f)
    /\ now <= now'

\* finish moves as Moves says.
LEMMA FinishMoves ==
    ASSUME Kept, NEW f \in Ids, work[f].step # "idle", NEW outcome \in Ended, NEW retry \in BOOLEAN,
           Finish(f, outcome, retry), UNCHANGED <<now, coverage, crashes>>,
           \A p \in Points, t \in Samples : cache'[p][t] = "nothing" => cache[p][t] = "nothing",
           outcome = "succeeded" => fetches[f].trigger = "task" \/ (Complete(f) /\ ~work[f].errors)
    PROVE  Moves
<1>1. /\ f \in DOMAIN fetches
      /\ fetches' \in Seq(FetchRows) /\ Len(fetches') <= MaxFetches /\ DOMAIN fetches' = DOMAIN fetches
      /\ \A g \in DOMAIN fetches : fetches'[g] = [fetches[g] EXCEPT !.status = IF g = f THEN outcome ELSE @]
      /\ jobs' \in [Ids -> Jobs] /\ \A g \in Ids : jobs'[g].status # "none" => jobs[g].status # "none"
      /\ work' \in [Ids -> Executions] /\ work' = [work EXCEPT ![f] = Idle]
  BY Finished DEF Kept
<1>2. work \in [Ids -> Executions] /\ \A g \in DOMAIN fetches : fetches[g] \in FetchRows
  BY Typed DEF Kept, TypeOK
<1>3. \A g \in Ids : WorkMoves(g)
  BY <1>1, <1>2 DEF WorkMoves, Idle
<1>4. ASSUME NEW g \in DOMAIN fetches PROVE RowMoves(g)
  <2>1. fetches'[g] = [fetches[g] EXCEPT !.status = IF g = f THEN outcome ELSE @]
    BY <1>1
  <2>2. /\ fetches'[g].lo = fetches[g].lo /\ fetches'[g].hi = fetches[g].hi
        /\ fetches'[g].points = fetches[g].points /\ fetches'[g].trigger = fetches[g].trigger
        /\ fetches'[g].started = fetches[g].started
        /\ fetches'[g].status = IF g = f THEN outcome ELSE fetches[g].status
    BY <1>2, <2>1 DEF FetchRows
  <2> QED
    BY <2>2 DEF RowMoves
<1>5. now \in Nat
  BY Typed DEF Kept
<1> QED
  BY <1>1, <1>3, <1>4, <1>5 DEF Moves

\* A step that leaves the rows alone.
LEMMA WorkMovesOn ==
    ASSUME Kept, UNCHANGED fetches, UNCHANGED coverage \/ \E f \in Ids : Record(f), now <= now',
           \A p \in Points, t \in Samples : cache'[p][t] = "nothing" => cache[p][t] = "nothing",
           \A g \in Ids : WorkMoves(g)
    PROVE  Moves
<1>1. \A g \in DOMAIN fetches : RowMoves(g)
  BY DEF RowMoves
<1> QED
  BY <1>1 DEF Moves

\* create_fetch moves as Moves says.
LEMMA AppendMoves ==
    ASSUME Kept, NEW trigger, NEW lo, NEW hi, Grown(trigger, lo, hi),
           UNCHANGED <<now, cache, coverage, crashes>>,
           work' = work \/ work' = [work EXCEPT ![NewId].step = "prepare"]
    PROVE  Moves
<1>1. work \in [Ids -> Executions]
  BY DEF Kept, TypeOK
<1>2. \A g \in DOMAIN fetches : RowMoves(g)
  BY DEF RowMoves, Grown
<1>3. work[NewId].step = "idle"
  BY DEF Grown, Kept, Placed
<1>4. \A g \in Ids : WorkMoves(g)
  BY <1>1 DEF WorkMoves, Executions
<1>5. work'[NewId].step \notin {"call", "asked", "record"}
  BY <1>1, <1>3 DEF Executions, Grown
<1>6. now \in Nat
  BY Typed DEF Kept
<1> QED
  BY <1>2, <1>4, <1>5, <1>6 DEF Moves, Grown

\* prepare moves as Moves says.
LEMMA PrepareMoves ==
    ASSUME Kept, NEW f \in Ids, Prepare(f)
    PROVE  Moves
<1>1. f \in DOMAIN fetches /\ work[f].step = "prepare"
  BY DEF Kept, Placed, Prepare, Step
<1>2. work \in [Ids -> Executions] /\ \A g \in DOMAIN fetches : fetches[g] \in FetchRows
  BY Typed DEF Kept, TypeOK
<1>3. now \in Nat /\ UNCHANGED <<now, cache, coverage, crashes>>
  BY Typed DEF Kept, Prepare
<1>4. CASE Claimable(f)
  <2> DEFINE row == [fetches[f] EXCEPT !.status = "running", !.started = IF @ = 0 THEN now ELSE @]
  <2>1. fetches' = [fetches EXCEPT ![f] = row]
    BY <1>1, <1>4 DEF Prepare
  <2>2. row \in FetchRows
    <3>1. now \in 0..Horizon
      BY DEF Kept, TypeOK
    <3> QED
      BY <1>1, <1>2, <3>1 DEF FetchRows
  <2>3. /\ row.lo = fetches[f].lo /\ row.hi = fetches[f].hi /\ row.trigger = fetches[f].trigger
        /\ row.points = fetches[f].points /\ row.status = "running"
    BY <1>1, <1>2 DEF FetchRows
  <2> HIDE DEF row
  <2>4. /\ fetches' \in Seq(FetchRows) /\ Len(fetches') <= MaxFetches /\ DOMAIN fetches' = DOMAIN fetches
        /\ fetches'[f] = row /\ \A g \in DOMAIN fetches \ {f} : fetches'[g] = fetches[g]
    BY <1>1, <2>1, <2>2, RowSet DEF Kept
  <2>5. \A g \in Ids : g # f => work'[g] = work[g]
    BY <1>2, <1>4 DEF Prepare
  <2>6. \A g \in Ids : WorkMoves(g)
    BY <1>4, <2>5 DEF WorkMoves
  <2>7. \A g \in DOMAIN fetches : RowMoves(g)
    BY <1>4, <2>3, <2>4 DEF RowMoves
  <2> QED
    BY <1>3, <2>4, <2>6, <2>7 DEF Moves
<1>5. CASE ~Claimable(f)
  <2>1. work' = [work EXCEPT ![f] = Idle] /\ UNCHANGED fetches
    BY <1>5 DEF Prepare
  <2>2. \A g \in Ids : WorkMoves(g)
    BY <1>2, <2>1 DEF WorkMoves, Idle
  <2> QED
    BY <1>3, <2>1, <2>2, WorkMovesOn
<1> QED
  BY <1>4, <1>5

\* Every step moves as Moves says.
LEMMA NextMoves == Kept /\ [Next]_vars => Moves
<1> SUFFICES ASSUME Kept, [Next]_vars PROVE Moves
  OBVIOUS
<1>t. now \in 0..Horizon /\ now \in Nat /\ TypeOK
  BY Typed DEF Kept, TypeOK
<1>w. work \in [Ids -> Executions]
  BY DEF Kept, TypeOK
<1>c. \A g \in Ids : work[g].step \in {"asked", "record"} => work[g].calls # {}
  BY DEF Kept, CallsLeft
<1>1. CASE Request
  <2>1. CASE \E r \in Requests : NewFetch("manual", r.lo, r.hi, r.points, r.force)
    <3>1. PICK r \in Requests : NewFetch("manual", r.lo, r.hi, r.points, r.force)
      BY <2>1
    <3>2. r.lo \in 0..Horizon /\ r.hi \in 0..Horizon /\ r.points \in SUBSET Points /\ r.force \in BOOLEAN
      BY FetchAssumption
    <3>3. Grown("manual", r.lo, r.hi)
      BY <1>t, <3>1, <3>2, Appended
    <3> QED
      BY <1>1, <3>3, AppendMoves DEF Request
  <2>2. CASE NewFetch("task", now, now, Points, FALSE)
    <3>1. Grown("task", now, now)
      BY <1>t, <2>2, Appended
    <3> QED
      BY <1>1, <3>1, AppendMoves DEF Request
  <2> QED
    BY <1>1, <2>1, <2>2 DEF Request
<1>2. CASE Poll
  <2>1. Larger(0, now - Backfill) \in 0..Horizon
    BY <1>t, <1>2, Bounds DEF Poll, Larger
  <2>2. Points \in SUBSET Points /\ FALSE \in BOOLEAN
    OBVIOUS
  <2>3. Grown("poll", Larger(0, now - Backfill), now)
    BY <1>t, <1>2, <2>1, <2>2, Appended DEF Poll
  <2> QED
    BY <1>2, <2>3, AppendMoves DEF Poll
<1>3. CASE RunFetch
  <2>1. PICK w \in RunWindows :
          LET wanted == {p \in Points : MissingRanges(coverage[p], w[1], w[2]) # {}}
          IN  wanted # {} /\ NewFetch("run", w[1], w[2], wanted, FALSE)
    BY <1>3 DEF RunFetch
  <2>2. w[1] \in 0..Horizon /\ w[2] \in 0..Horizon
    BY FetchAssumption
  <2> DEFINE wanted == {p \in Points : MissingRanges(coverage[p], w[1], w[2]) # {}}
  <2>3. NewFetch("run", w[1], w[2], wanted, FALSE) /\ wanted \in SUBSET Points
    BY <2>1
  <2> HIDE DEF wanted
  <2>4. Grown("run", w[1], w[2])
    BY <1>t, <2>2, <2>3, Appended
  <2> QED
    BY <1>3, <2>4, AppendMoves DEF RunFetch
<1>4. ASSUME NEW f \in Ids, Pick(f) PROVE Moves
  <2>1. \A g \in Ids : WorkMoves(g)
    BY <1>w, <1>4 DEF Pick, WorkMoves, Executions
  <2> QED
    BY <1>t, <1>4, <2>1, WorkMovesOn DEF Pick
<1>5. ASSUME NEW f \in Ids, Raises(f) PROVE Moves
  <2>1. \A g \in Ids : WorkMoves(g)
    BY <1>w, <1>5 DEF Raises, WorkMoves, Idle
  <2> QED
    BY <1>t, <1>5, <2>1, WorkMovesOn DEF Raises
<1>6. ASSUME NEW f \in Ids, Ask(f) PROVE Moves
  <2>1. \A g \in Ids : WorkMoves(g)
    <3>1. \A g \in Ids : g # f => work'[g] = work[g]
      BY <1>w, <1>6 DEF Ask
    <3> QED
      BY <1>6, <3>1 DEF WorkMoves
  <2> QED
    BY <1>t, <1>6, <2>1, WorkMovesOn DEF Ask
<1>7. ASSUME NEW f \in Ids, SpendBudget(f) PROVE Moves
  BY <1>t, <1>7, FinishMoves DEF SpendBudget, Step, Ended
<1>8. ASSUME NEW f \in Ids, Answer(f) PROVE Moves
  <2>1. PICK failed \in SUBSET Call(f).points :
          /\ cache' = Written(f, Call(f).points \ failed)
          /\ work' = [work EXCEPT ![f].step = "record", ![f].failed = failed,
                                  ![f].errors = @ \/ failed # {}]
    BY <1>8 DEF Answer
  <2>2. \A g \in Ids : g # f => work'[g] = work[g]
    BY <1>w, <2>1
  <2>3. \A g \in Ids : WorkMoves(g)
    BY <1>8, <2>2 DEF WorkMoves
  <2>4. \A p \in Points, t \in Samples : cache'[p][t] = "nothing" => cache[p][t] = "nothing"
    BY <1>t, <2>1, WrittenKeeps
  <2> QED
    BY SMTT(40), <1>t, <1>8, <2>3, <2>4, WorkMovesOn DEF Answer
<1>9. ASSUME NEW f \in Ids, CallFails(f) PROVE Moves
  <2>1. PICK outcome \in Ended \ {"succeeded"}, retry \in BOOLEAN :
            /\ Finish(f, outcome, retry)
            /\ \A p \in Points, t \in Samples : cache'[p][t] = "nothing" => cache[p][t] = "nothing"
    <3>1. CASE \E retry \in BOOLEAN : Finish(f, IF retry THEN "partial" ELSE "failed", retry) /\ UNCHANGED cache
      BY <3>1 DEF Ended
    <3>2. CASE \E written \in SUBSET Call(f).points : Finish(f, "partial", TRUE) /\ cache' = Written(f, written)
      BY <1>t, <3>2, WrittenKeeps DEF Ended
    <3> QED
      BY <1>9, <3>1, <3>2 DEF CallFails
  <2>2. outcome \in Ended /\ outcome # "succeeded"
    OBVIOUS
  <2> QED
    BY <1>9, <2>1, <2>2, FinishMoves DEF CallFails, Step
<1>10. ASSUME NEW f \in Ids, Record(f) PROVE Moves
  <2>1. \A g \in Ids : g # f => work'[g] = work[g]
    BY <1>w, <1>10 DEF Record
  <2>2. \A g \in Ids : WorkMoves(g)
    BY <1>10, <2>1 DEF WorkMoves
  <2> QED
    <3>1. UNCHANGED <<fetches, now, cache>>
      BY <1>10 DEF Record
    <3> QED
      BY <1>t, <1>10, <2>2, <3>1, WorkMovesOn
<1>11. ASSUME NEW f \in Ids, Complete(f) PROVE Moves
  <2>1. work[f] \in Executions /\ work[f].errors \in BOOLEAN
    BY <1>w DEF Executions
  <2>2. CASE work[f].errors
    BY <1>t, <1>11, <2>2, FinishMoves DEF Complete, Step, Ended
  <2>3. CASE ~work[f].errors
    BY <1>t, <1>11, <2>3, FinishMoves DEF Complete, Step, Ended
  <2> QED
    BY <2>1, <2>2, <2>3
<1>12. ASSUME NEW f \in Ids, Task(f) PROVE Moves
  BY <1>t, <1>12, FinishMoves DEF Task, Step
<1>13. ASSUME NEW f \in Ids, PrepareStops(f) PROVE Moves
  BY <1>t, <1>13, FinishMoves DEF PrepareStops, Step, Ended
<1>14. ASSUME NEW f \in Ids, Prepare(f) PROVE Moves
  BY <1>14, PrepareMoves
<1>15. ASSUME NEW f \in Ids, Crash(f) PROVE Moves
  <2>1. \A g \in Ids : WorkMoves(g)
    BY <1>w, <1>15 DEF Crash, WorkMoves, Idle
  <2> QED
    BY <1>t, <1>15, <2>1, WorkMovesOn DEF Crash
<1>16. CASE Tick
  BY <1>t, <1>16, WorkMovesOn DEF Tick, WorkMoves
<1>17. CASE UNCHANGED vars
  BY <1>t, <1>17, WorkMovesOn DEF vars, WorkMoves
<1> QED
  BY <1>1, <1>2, <1>3, <1>4, <1>5, <1>6, <1>7, <1>8, <1>9, <1>10, <1>11, <1>12, <1>13, <1>14, <1>15, <1>16, <1>17
     DEF Next, Work

-----------------------------------------------------------------------------
(* The invariants *)

\* A step only adds coverage.
LEMMA CoverageKeeps ==
    ASSUME Kept, [Next]_vars
    PROVE  /\ coverage' \in [Points -> [Samples -> 0..Horizon]]
           /\ \A p \in Points, i \in Samples : coverage[p][i] <= coverage'[p][i]
           /\ \A p \in Points : Covered(p) \subseteq Covered(p)'
<1>1. Kept' /\ Moves
  BY KeptNext, NextMoves
<1>2. TypeOK /\ CallsLeft /\ coverage \in [Points -> [Samples -> 0..Horizon]]
  BY DEF Kept, TypeOK
<1>3. coverage' \in [Points -> [Samples -> 0..Horizon]]
  BY <1>1 DEF Kept, TypeOK
<1>4. \A p \in Points, i \in Samples : coverage[p][i] <= coverage'[p][i]
  <2>1. CASE UNCHANGED coverage
    BY <1>2, <2>1, Bounds
  <2>2. CASE \E f \in Ids : Record(f)
    BY <1>2, <2>2, RecordKeeps
  <2> QED
    BY <1>1, <2>1, <2>2 DEF Moves
<1>5. ASSUME NEW p \in Points, NEW t \in Covered(p) PROVE t \in Covered(p)'
  <2>1. t \in Nat /\ \E i \in Samples : i <= t /\ t < coverage[p][i]
    BY <1>2, <1>5, CoveredNow
  <2>2. PICK i \in Samples : i <= t /\ t < coverage[p][i]
    BY <2>1
  <2>3. coverage[p][i] \in Nat /\ coverage'[p][i] \in Nat /\ coverage[p][i] <= coverage'[p][i]
    BY <1>2, <1>3, <1>4, Bounds
  <2>4. t < coverage'[p][i]
    BY <2>1, <2>2, <2>3
  <2> QED
    BY <1>3, <2>1, <2>2, <2>4, CoveredThen
<1> QED
  BY <1>3, <1>4, <1>5

\* What is about to be recorded was answered: other fetches that write in between do not take it away.
LEMMA AnsweredNext ==
    ASSUME Kept, WasAnswered, [Next]_vars
    PROVE  WasAnswered'
<1>1. Moves /\ TypeOK /\ TypeOK' /\ CallsLeft
  BY KeptNext, NextMoves DEF Kept
<1> SUFFICES ASSUME NEW f \in Ids, work'[f].step = "record"
             PROVE  /\ work'[f].failed # {} => work'[f].errors
                    /\ \A p \in Call(f)'.points \ work'[f].failed : \A t \in Samples :
                         t \in Call(f)'.lo..(Call(f)'.hi - 1) => cache'[p][t] # "nothing"
  BY DEF WasAnswered
<1>w. work[f] \in Executions /\ work \in [Ids -> Executions]
  BY <1>1 DEF TypeOK
<1>2. CASE work'[f] = work[f]
  <2>1. Call(f)' = Call(f) /\ work[f].step = "record" /\ work[f].calls # {}
    BY <1>1, <1>2 DEF Call, CallsLeft
  <2>2. Call(f).points \subseteq Points
    BY <1>1, <2>1, CallTyped
  <2>3. \A p \in Points, t \in Samples : cache'[p][t] = "nothing" => cache[p][t] = "nothing"
    BY <1>1 DEF Moves
  <2> QED
    BY <1>2, <2>1, <2>2, <2>3 DEF WasAnswered
<1>3. CASE Answer(f)
  <2>1. PICK failed \in SUBSET Call(f).points :
          /\ cache' = Written(f, Call(f).points \ failed)
          /\ work' = [work EXCEPT ![f].step = "record", ![f].failed = failed,
                                  ![f].errors = @ \/ failed # {}]
    BY <1>3 DEF Answer
  <2>2. work[f].calls # {}
    BY <1>1, <1>3 DEF Answer, Step, CallsLeft
  <2>3. work'[f].failed = failed /\ work'[f].calls = work[f].calls /\ (failed # {} => work'[f].errors)
    BY <1>w, <2>1 DEF Executions
  <2>4. Call(f)' = Call(f)
    BY <2>3 DEF Call
  <2>5. Call(f).points \subseteq Points
    BY <1>1, <2>2, CallTyped
  <2>6. \A p \in (Call(f).points \ failed) \intersect Points, t \in Samples :
             t \in Call(f).lo..(Call(f).hi - 1) => cache'[p][t] # "nothing"
    BY <1>1, <2>1, WrittenKeeps
  <2> QED
    BY <2>3, <2>4, <2>5, <2>6
<1>4. CASE Prepare(f) /\ Claimable(f)
  <2>1. work'[f].step = "call"
    BY <1>w, <1>4 DEF Prepare, Executions
  <2> QED
    BY <2>1
<1>5. CASE Ask(f)
  BY <1>w, <1>5 DEF Ask, Executions
<1>6. CASE Record(f)
  BY <1>w, <1>6 DEF Record, Executions
<1> QED
  BY <1>1, <1>2, <1>3, <1>4, <1>5, <1>6 DEF Moves, WorkMoves

\* So a record promises only what was answered and has settled.
LEMMA PromiseNext ==
    ASSUME Kept, WasAnswered, CoverageIsAnswered, [Next]_vars
    PROVE  CoverageIsAnswered'
<1>1. Moves /\ TypeOK /\ CallsLeft
  BY NextMoves DEF Kept
<1>2. now \in Nat /\ now' \in Nat /\ now <= now'
  BY KeptNext, Typed, <1>1 DEF Moves, Kept, TypeOK
<1>a. \A t \in Nat : t < now - Settle => t < now' - Settle
  <2>1. ASSUME NEW x \in Nat, NEW y \in Nat, x <= y PROVE \A t \in Nat : t < x - Settle => t < y - Settle
    BY <2>1, Bounds
  <2> QED
    BY <1>2, <2>1
<1>3. \A p \in Points, t \in Samples : cache'[p][t] = "nothing" => cache[p][t] = "nothing"
  BY <1>1 DEF Moves
<1>4. coverage' \in [Points -> [Samples -> 0..Horizon]] /\ coverage \in [Points -> [Samples -> 0..Horizon]]
  BY <1>1, CoverageKeeps DEF TypeOK
<1> SUFFICES ASSUME NEW p \in Points, NEW t \in Covered(p)'
             PROVE  cache'[p][t] # "nothing" /\ t < now' - Settle
  BY DEF CoverageIsAnswered
<1>5. t \in Nat /\ \E i \in Samples : i <= t /\ t < coverage'[p][i]
  BY <1>4, CoveredThen
<1>6. PICK i \in Samples : i <= t /\ t < coverage'[p][i]
  BY <1>5
<1>7. t \in Samples
  BY <1>4, <1>5, <1>6, Bounds DEF Samples
<1>8. CASE coverage'[p][i] = coverage[p][i]
  <2>1. t \in Covered(p)
    BY <1>1, <1>5, <1>6, <1>8, CoveredNow
  <2>2. cache[p][t] # "nothing" /\ t < now - Settle
    BY <2>1 DEF CoverageIsAnswered
  <2> QED
    BY <1>a, <1>3, <1>5, <1>7, <2>2
<1>9. CASE coverage'[p][i] # coverage[p][i]
  <2>1. PICK f \in Ids : Record(f)
    BY <1>1, <1>9 DEF Moves
  <2>2. /\ p \in Call(f).points \ work[f].failed
        /\ i = Call(f).lo /\ coverage'[p][i] <= Call(f).hi /\ coverage'[p][i] <= now - Settle
    BY <1>1, <1>9, <2>1, RecordKeeps
  <2>3. coverage'[p][i] \in Nat /\ work[f].step = "record"
    BY <1>4, <2>1, Bounds DEF Record, Step
  <2>4. Call(f).lo \in Nat /\ Call(f).hi \in Nat
    <3>1. work[f].calls # {}
      BY <1>1, <2>3 DEF CallsLeft
    <3> QED
      BY <1>1, <3>1, CallTyped, Bounds
  <2>5. t \in Call(f).lo..(Call(f).hi - 1) /\ t < now - Settle
    BY <1>2, <1>5, <1>6, <2>2, <2>3, <2>4, Bounds
  <2>6. cache[p][t] # "nothing"
    BY <1>7, <2>2, <2>3, <2>5 DEF WasAnswered
  <2> QED
    <3>1. cache'[p][t] # "nothing"
      BY <1>3, <1>7, <2>6
    <3>2. t < now' - Settle
      BY <1>a, <1>5, <2>5
    <3> QED
      BY <3>1, <3>2
<1> QED
  BY <1>8, <1>9

\* Every settled instant of the window stays covered, failed or still to be asked for: what a record
\* takes off the calls it has covered up to the clock, which is no earlier than the start.
LEMMA AskedNext ==
    ASSUME Kept, WasAnswered, StillAsked, [Next]_vars
    PROVE  StillAsked'
<1>1. Moves /\ TypeOK /\ CallsLeft /\ RowsInOrder /\ Placed /\ Kept'
  BY NextMoves, KeptNext DEF Kept
<1>2. \A p \in Points : Covered(p) \subseteq Covered(p)'
  BY CoverageKeeps
<1> SUFFICES ASSUME NEW f \in Ids, work'[f].step \in {"call", "asked", "record"}, fetches'[f].trigger # "task",
                    NEW p \in fetches'[f].points, NEW t \in fetches'[f].lo..(fetches'[f].hi - 1),
                    Final(t, fetches'[f].started)
             PROVE  t \in Covered(p)' \/ work'[f].errors \/ \E c \in work'[f].calls : Asks(c, p, t)
  BY DEF StillAsked, Executing, Final
<1>w. work[f] \in Executions /\ work \in [Ids -> Executions]
  BY <1>1 DEF TypeOK
<1>3. f \in DOMAIN fetches' /\ f \in DOMAIN fetches
  BY <1>1 DEF Kept, Placed, Moves
<1>4. /\ fetches'[f].lo = fetches[f].lo /\ fetches'[f].hi = fetches[f].hi
      /\ fetches'[f].points = fetches[f].points /\ fetches'[f].trigger = fetches[f].trigger
      /\ fetches'[f].started = fetches[f].started \/ (Prepare(f) /\ Claimable(f))
  BY <1>1, <1>3 DEF Moves, RowMoves
<1>5. /\ p \in Points /\ fetches[f].lo \in 0..Horizon /\ fetches[f].hi \in 0..Horizon
      /\ fetches[f].started \in 0..Horizon /\ fetches[f].lo < fetches[f].hi
      /\ fetches[f].started <= now /\ now \in Nat
  BY <1>1, <1>3, <1>4, Typed DEF RowsInOrder
<1>6. t \in Nat /\ fetches[f].lo <= t /\ t < fetches[f].hi /\ t \in Samples
  BY <1>4, <1>5, Bounds DEF Samples
<1>7. CASE Prepare(f) /\ Claimable(f)
  <2>1. work'[f].calls = PlanCalls(Gaps(f), MaxSpan, MaxPoints)
    BY <1>w, <1>4, <1>7 DEF Prepare, Executions
  <2>2. (\E c \in PlanCalls(Gaps(f), MaxSpan, MaxPoints) : Asks(c, p, t)) <=>
             /\ fetches[f].lo <= t /\ t < fetches[f].hi
             /\ fetches[f].force \/ t \notin Covered(p)
    BY <1>1, <1>3, <1>4, <1>5, <1>6, PlanOfFetch
  <2> QED
    BY <1>2, <1>5, <1>6, <2>1, <2>2
<1> DEFINE Was == t \in Covered(p) \/ work[f].errors \/ \E c \in work[f].calls : Asks(c, p, t)
<1>8. ASSUME ~(Prepare(f) /\ Claimable(f)), work[f].step \in {"call", "asked", "record"} PROVE Was
  BY <1>3, <1>4, <1>8 DEF StillAsked, Executing
<1> HIDE DEF Was
<1>9. ASSUME ~(Prepare(f) /\ Claimable(f)), work'[f] = work[f] \/ Ask(f) \/ Answer(f)
      PROVE  /\ work[f].step \in {"call", "asked", "record"} /\ work'[f].calls = work[f].calls
             /\ work[f].errors => work'[f].errors
  <2>1. CASE work'[f] = work[f]
    BY <2>1
  <2>2. CASE Ask(f)
    BY <1>w, <2>2 DEF Ask, Step, Executions
  <2>3. CASE Answer(f)
    <3>1. PICK failed \in SUBSET Call(f).points :
              work' = [work EXCEPT ![f].step = "record", ![f].failed = failed, ![f].errors = @ \/ failed # {}]
      BY <2>3 DEF Answer
    <3> QED
      BY <1>w, <2>3, <3>1 DEF Answer, Step, Executions
  <2> QED
    BY <1>9, <2>1, <2>2, <2>3
<1>10. CASE ~(Prepare(f) /\ Claimable(f)) /\ (work'[f] = work[f] \/ Ask(f) \/ Answer(f))
  BY <1>2, <1>5, <1>8, <1>9, <1>10 DEF Was
<1>11. CASE ~(Prepare(f) /\ Claimable(f)) /\ Record(f)
  <2>1. work[f].step = "record" /\ work'[f].calls = work[f].calls \ {Call(f)} /\ work'[f].errors = work[f].errors
    BY <1>w, <1>11 DEF Record, Step, Executions
  <2>2. Was
    BY <1>8, <1>11, <2>1
  <2>3. CASE Asks(Call(f), p, t) /\ p \in work[f].failed
    BY <2>1, <2>3 DEF WasAnswered
  <2>4. CASE Asks(Call(f), p, t) /\ p \notin work[f].failed
    <3>1. p \in Call(f).points \ work[f].failed /\ Call(f).lo <= t /\ t < Call(f).hi
      BY <2>4 DEF Asks
    <3>2. t < now - Settle
      BY <1>4, <1>5, <1>6, <1>11, Bounds DEF Final
    <3>3. t < coverage'[p][Call(f).lo]
      BY <1>1, <1>6, <1>11, <3>1, <3>2, RecordKeeps
    <3>4. work[f].calls # {}
      BY <1>1, <2>1 DEF CallsLeft
    <3>5. Call(f).lo \in 0..Horizon
      BY <1>1, <3>4, CallTyped
    <3>6. Call(f).lo \in Samples
      BY <1>6, <3>1, <3>5, Bounds DEF Samples
    <3>7. coverage' \in [Points -> [Samples -> 0..Horizon]]
      BY CoverageKeeps
    <3> QED
      BY <1>5, <1>6, <3>1, <3>3, <3>6, <3>7, CoveredThen
  <2>5. CASE ~Asks(Call(f), p, t)
    BY <1>2, <1>5, <2>1, <2>2, <2>5 DEF Was
  <2> QED
    BY <2>3, <2>4, <2>5
<1> QED
  BY <1>1, <1>7, <1>10, <1>11 DEF Moves, WorkMoves

\* So a fetch that succeeds, without errors and with no call left, left no gap.
LEMMA SucceededNext ==
    ASSUME Kept, StillAsked, SucceededIsCovered, [Next]_vars
    PROVE  SucceededIsCovered'
<1>1. Moves /\ TypeOK /\ Kept'
  BY NextMoves, KeptNext DEF Kept
<1>2. \A p \in Points : Covered(p) \subseteq Covered(p)'
  BY CoverageKeeps
<1> SUFFICES ASSUME NEW f \in DOMAIN fetches', fetches'[f].status = "succeeded", fetches'[f].trigger # "task",
                    NEW p \in fetches'[f].points, NEW t \in fetches'[f].lo..(fetches'[f].hi - 1),
                    Final(t, fetches'[f].started)
             PROVE  t \in Covered(p)'
  BY DEF SucceededIsCovered, Final
<1>3. f \in DOMAIN fetches /\ f \in Ids
  BY <1>1, Typed DEF Moves
<1>4. /\ fetches'[f].lo = fetches[f].lo /\ fetches'[f].hi = fetches[f].hi
      /\ fetches'[f].points = fetches[f].points /\ fetches'[f].trigger = fetches[f].trigger
      /\ fetches'[f].started = fetches[f].started
      /\ fetches[f].status = "succeeded" \/ (Complete(f) /\ ~work[f].errors)
  BY <1>1, <1>3 DEF Moves, RowMoves
<1>5. p \in Points
  BY <1>1, <1>3, <1>4, Typed
<1>6. CASE fetches[f].status = "succeeded"
  BY <1>2, <1>3, <1>4, <1>5, <1>6 DEF SucceededIsCovered
<1>7. CASE Complete(f) /\ ~work[f].errors
  <2>1. work[f].step = "call" /\ work[f].calls = {}
    BY <1>7 DEF Complete, Step
  <2>2. t \in Covered(p) \/ work[f].errors \/ \E c \in work[f].calls : Asks(c, p, t)
    BY <1>3, <1>4, <2>1 DEF StillAsked, Executing
  <2> QED
    BY <1>2, <1>5, <1>7, <2>1, <2>2
<1> QED
  BY <1>4, <1>6, <1>7

\* What prepare plans is exactly what the cache lacks.
LEMMA PlanNext ==
    ASSUME Kept, [Next]_vars, NEW f \in DOMAIN fetches,
           Step(f, "prepare"), work'[f].step = "call", fetches[f].trigger # "task"
    PROVE  LET calls == work'[f].calls
               wanted == {pt \in fetches[f].points \X (fetches[f].lo..(fetches[f].hi - 1)) :
                             fetches[f].force \/ pt[2] \notin Covered(pt[1])}
           IN  /\ UNION {Cells(c) : c \in calls} = wanted
               /\ \A c, d \in calls : c # d => Cells(c) \intersect Cells(d) = {}
               /\ \A c \in calls : c.hi - c.lo \in 1..MaxSpan /\ Cardinality(c.points) \in 1..MaxPoints
<1>1. Moves /\ TypeOK /\ RowsInOrder /\ f \in Ids
  BY NextMoves, Typed DEF Kept
<1>w. work[f] \in Executions /\ work \in [Ids -> Executions] /\ work[f].step = "prepare"
  BY <1>1 DEF TypeOK, Step
<1>2. Prepare(f) /\ Claimable(f)
  BY <1>1, <1>w DEF Moves, WorkMoves, Ask, Answer, Record, Step
<1> DEFINE calls == PlanCalls(Gaps(f), MaxSpan, MaxPoints)
<1>3. work'[f].calls = calls
  BY <1>w, <1>2 DEF Prepare, Executions
<1>4. /\ fetches[f].lo \in Nat /\ fetches[f].hi \in Nat /\ fetches[f].lo < fetches[f].hi
      /\ fetches[f].points \subseteq Points
  BY <1>1, Typed, Bounds DEF RowsInOrder
<1>5. /\ calls \subseteq Calls
      /\ \A c \in calls : /\ c.lo < c.hi /\ c.hi - c.lo \in 1..MaxSpan
                          /\ c.points \subseteq fetches[f].points
                          /\ Cardinality(c.points) \in 1..MaxPoints
                          /\ fetches[f].lo <= c.lo /\ c.hi <= fetches[f].hi
      /\ \A p \in fetches[f].points, x \in Nat :
            (\E c \in calls : Asks(c, p, x)) <=>
            /\ fetches[f].lo <= x /\ x < fetches[f].hi
            /\ fetches[f].force \/ x \notin Covered(p)
      /\ \A c, d \in calls, p \in fetches[f].points, x \in Nat : Asks(c, p, x) /\ Asks(d, p, x) => c = d
  BY <1>1, <1>4, PlanOfFetch
<1> HIDE DEF calls
<1> DEFINE P == fetches[f].points
           W == fetches[f].lo..(fetches[f].hi - 1)
<1>6. \A c \in calls : c.lo \in Nat /\ c.hi \in Nat
  BY <1>5, Bounds DEF Calls
<1>7. ASSUME NEW c \in calls, NEW x
      PROVE  x \in Cells(c) <=> x \in P \X W /\ Asks(c, x[1], x[2])
  <2>1. x \in Cells(c) <=> x \in c.points \X (c.lo..(c.hi - 1))
    BY DEF Cells
  <2>2. c.points \subseteq P /\ c.lo..(c.hi - 1) \subseteq W
    BY <1>4, <1>5, <1>6
  <2>3. ASSUME x \in c.points \X (c.lo..(c.hi - 1)) PROVE x \in P \X W /\ Asks(c, x[1], x[2])
    <3>1. x = <<x[1], x[2]>> /\ x[1] \in c.points /\ x[2] \in c.lo..(c.hi - 1)
      BY <2>3
    <3>2. c.lo <= x[2] /\ x[2] < c.hi /\ x[2] \in W
      BY <1>6, <2>2, <3>1
    <3> QED
      BY <2>2, <3>1, <3>2 DEF Asks
  <2>4. ASSUME x \in P \X W, Asks(c, x[1], x[2]) PROVE x \in c.points \X (c.lo..(c.hi - 1))
    <3>1. x = <<x[1], x[2]>> /\ x[2] \in W
      BY <2>4
    <3>2. x[2] \in Int /\ x[1] \in c.points /\ c.lo <= x[2] /\ x[2] < c.hi
      BY <1>4, <2>4, <3>1 DEF Asks
    <3>3. x[2] \in c.lo..(c.hi - 1)
      BY <1>6, <3>2
    <3> QED
      BY <3>1, <3>2, <3>3
  <2> QED
    BY <2>1, <2>3, <2>4
<1>8. \A x \in P \X W : x[1] \in P /\ x[2] \in Nat /\ fetches[f].lo <= x[2] /\ x[2] < fetches[f].hi
  BY <1>4
<1> DEFINE wanted == {pt \in P \X W : fetches[f].force \/ pt[2] \notin Covered(pt[1])}
<1>9. UNION {Cells(c) : c \in calls} = wanted
  <2>1. ASSUME NEW x PROVE (\E c \in calls : x \in Cells(c)) <=> x \in wanted
    <3>1. (\E c \in calls : x \in Cells(c)) <=> x \in P \X W /\ \E c \in calls : Asks(c, x[1], x[2])
      BY <1>7
    <3>2. x \in P \X W =>
            ((\E c \in calls : Asks(c, x[1], x[2])) <=> fetches[f].force \/ x[2] \notin Covered(x[1]))
      BY <1>5, <1>8
    <3>3. x \in wanted <=> x \in P \X W /\ (fetches[f].force \/ x[2] \notin Covered(x[1]))
      OBVIOUS
    <3> HIDE DEF P, W, wanted
    <3> QED
      BY <3>1, <3>2, <3>3
  <2> HIDE DEF wanted
  <2> QED
    BY <2>1
<1>10. ASSUME NEW c \in calls, NEW d \in calls, c # d PROVE Cells(c) \intersect Cells(d) = {}
  <2>1. ASSUME NEW x, x \in Cells(c), x \in Cells(d) PROVE FALSE
    <3>1. x \in P \X W /\ Asks(c, x[1], x[2]) /\ Asks(d, x[1], x[2])
      BY <1>7, <2>1
    <3> QED
      BY <1>5, <1>8, <1>10, <3>1
  <2> QED
    BY <2>1
<1>11. \A c \in calls : c.hi - c.lo \in 1..MaxSpan /\ Cardinality(c.points) \in 1..MaxPoints
  BY <1>5
<1> QED
  BY <1>3, <1>9, <1>10, <1>11

-----------------------------------------------------------------------------
\* The inductive invariant.
FetchInv == Kept /\ WasAnswered /\ CoverageIsAnswered /\ StillAsked /\ SucceededIsCovered

\* The inductive invariant holds at the beginning, whatever coverage earlier fetches left.
LEMMA FetchInvFirst == Init => FetchInv
<1> SUFFICES ASSUME Init PROVE FetchInv
  OBVIOUS
<1>1. Kept /\ TypeOK
  BY KeptFirst DEF Kept
<1>2. DOMAIN fetches = {} /\ \A f \in Ids : work[f].step = "idle"
  BY DEF Init, Idle
<1>3. WasAnswered /\ StillAsked /\ SucceededIsCovered
  BY <1>2 DEF WasAnswered, StillAsked, SucceededIsCovered, Executing
<1>4. CoverageIsAnswered
  <2> SUFFICES ASSUME NEW p \in Points, NEW t \in Covered(p) PROVE cache[p][t] # "nothing" /\ t < now - Settle
    BY DEF CoverageIsAnswered
  <2>1. t \in Nat /\ \E i \in Samples : i <= t /\ t < coverage[p][i]
    BY <1>1, CoveredNow
  <2>2. PICK i \in Samples : i <= t /\ t < coverage[p][i]
    BY <2>1
  <2>3. coverage[p][i] \in 0..Horizon
    BY <1>1 DEF TypeOK
  <2>4. t \in Samples
    BY <2>1, <2>2, <2>3, Bounds DEF Samples
  <2>5. coverage[p][i] <= Start - Settle
    <3>1. i \in Nat /\ coverage[p][i] > i
      BY <2>1, <2>2, <2>3, Bounds
    <3>2. coverage \in History
      BY DEF Init
    <3> QED
      BY <3>1, <3>2, FetchAssumption DEF Samples
  <2>6. now = Start /\ t < now - Settle
    BY <2>1, <2>2, <2>3, <2>5, Bounds DEF Init
  <2>7. cache[p][t] = "final"
    BY <2>4 DEF Init
  <2> QED
    BY <2>6, <2>7
<1> QED
  BY <1>1, <1>3, <1>4 DEF FetchInv

\* Every step keeps it.
LEMMA FetchInvNext == FetchInv /\ [Next]_vars => FetchInv'
BY KeptNext, AnsweredNext, PromiseNext, AskedNext, SucceededNext DEF FetchInv

\* The inductive invariant holds.
THEOREM FetchInvariant == Spec => []FetchInv
<1>1. Init => FetchInv
  BY FetchInvFirst
<1>2. FetchInv /\ [Next]_vars => FetchInv'
  BY FetchInvNext
<1> QED
  BY <1>1, <1>2, PTL DEF Spec

\* The engine (services/fetches.py) stays within its types.
THEOREM FetchTypeCorrect == Spec => []TypeOK
<1>1. FetchInv => TypeOK
  BY DEF FetchInv, Kept
<1> QED
  BY <1>1, FetchInvariant, PTL

\* Coverage never promises an instant nobody asked the system for, nor one newer than now - settle_s
\* (_run_call, record): not for points that failed, nor after errors and crashes, whoever else fetches.
THEOREM CoverageAnswered == Spec => []CoverageIsAnswered
<1>1. FetchInv => CoverageIsAnswered
  BY DEF FetchInv
<1> QED
  BY <1>1, FetchInvariant, PTL

\* A fetch that has succeeded (fetches.py) left no gap: what was settled of its window when it first
\* started is covered, over errors, retries and other fetches.
THEOREM SucceededCovered == Spec => []SucceededIsCovered
<1>1. FetchInv => SucceededIsCovered
  BY DEF FetchInv
<1> QED
  BY <1>1, FetchInvariant, PTL

\* No step takes coverage away (record, coverage.py).
THEOREM CoverageGrows == Spec => CoverageOnlyGrows
<1>1. FetchInv /\ [Next]_vars => [\A p \in Points : Covered(p) \subseteq Covered(p)']_vars
  BY CoverageKeeps DEF FetchInv
<1> QED
  BY <1>1, FetchInvariant, PTL DEF Spec, CoverageOnlyGrows

\* The calls prepare plans ask for exactly what the cache lacks, or for everything with `force`, once
\* and within the limits of the connector.
THEOREM PlansExact == Spec => PlanIsExact
<1> DEFINE Exact == \A f \in DOMAIN fetches : Step(f, "prepare") /\ work'[f].step = "call" /\ fetches[f].trigger # "task" =>
        LET calls == work'[f].calls
            wanted == {pt \in fetches[f].points \X (fetches[f].lo..(fetches[f].hi - 1)) :
                          fetches[f].force \/ pt[2] \notin Covered(pt[1])}
        IN  /\ UNION {Cells(c) : c \in calls} = wanted
            /\ \A c, d \in calls : c # d => Cells(c) \intersect Cells(d) = {}
            /\ \A c \in calls : c.hi - c.lo \in 1..MaxSpan /\ Cardinality(c.points) \in 1..MaxPoints
<1>1. FetchInv /\ [Next]_vars => [Exact]_vars
  BY PlanNext DEF FetchInv
<1> QED
  BY <1>1, FetchInvariant, PTL DEF Spec, PlanIsExact
=============================================================================
