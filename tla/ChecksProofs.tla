---------------------------- MODULE ChecksProofs ----------------------------
(***************************************************************************)
(* Proofs about the rug of a chart (Frames), for any samples and lengths,  *)
(* along the plan of FramesProofs: what the walks over samples and bins    *)
(* have made so far (IsMarked, IsRug) is kept with every step.  At the end *)
(* the components that MCChecks checks, side by side.                      *)
(***************************************************************************)
EXTENDS MCChecks, FindingsProofs, FramesProofs, ReadsProofs

-----------------------------------------------------------------------------
(* Bins *)

\* An instant lies between the beginning of its bin and that of the next; what lies strictly between
\* the beginnings of two bins is in a bin from the first to before the second.
LEMMA BinsAre ==
    ASSUME NEW t \in Nat, NEW u \in Nat, NEW b \in Nat, NEW c \in Nat
    PROVE  /\ BinOf(t) \in Nat /\ BinStart(b) \in Nat
           /\ BinStart(BinOf(t)) <= t /\ t <= BinStart(BinOf(t) + 1)
           /\ t <= u => BinOf(t) <= BinOf(u)
           /\ b <= c => BinStart(b) <= BinStart(c)
           /\ BinStart(b) < t => b <= BinOf(t)
           /\ t < BinStart(b + 1) => BinOf(t) <= b
<1>0. Width \in Nat \ {0} /\ Buckets \in Nat \ {0}
  BY FramesAssumption
<1> DEFINE W == Width
           N == Buckets
<1>1. W \in Nat \ {0} /\ N \in Nat \ {0}
  BY <1>0
<1> HIDE DEF W, N
<1>2. \A s \in Nat : BinOf(s) = (N * s) \div W
  <2>1. \A s \in Nat : s * N = N * s
    BY <1>1, SMTT(30)
  <2> QED
    BY <2>1 DEF BinOf, W, N
<1>3. \A s \in Nat : BinStart(s) = (W * s) \div N
  BY DEF BinStart, W, N
<1>4. \A s \in Nat : W * s \in Nat /\ N * s \in Nat
  BY <1>1, Products
<1>5. ASSUME NEW s \in Nat
      PROVE  /\ BinOf(s) \in Nat /\ W * BinOf(s) <= N * s /\ N * s < W * (BinOf(s) + 1)
             /\ \A q \in Nat : (W * q <= N * s => q <= BinOf(s)) /\ (N * s < W * (q + 1) => BinOf(s) <= q)
  <2> DEFINE x == N * s
             z == x \div W
  <2>1. x \in Nat /\ z = BinOf(s)
    BY <1>2, <1>4, Zenon
  <2> HIDE DEF x
  <2>2. /\ z \in Nat /\ W * z <= x /\ x < W * (z + 1)
        /\ \A q \in Nat : (W * q <= x => q <= z) /\ (x < W * (q + 1) => z <= q)
    BY <1>1, <2>1, Quotients
  <2> HIDE DEF z
  <2> QED
    BY <2>1, <2>2, Zenon DEF x
<1>6. ASSUME NEW s \in Nat
      PROVE  /\ BinStart(s) \in Nat /\ N * BinStart(s) <= W * s /\ W * s < N * (BinStart(s) + 1)
             /\ \A q \in Nat : (N * q <= W * s => q <= BinStart(s)) /\ (W * s < N * (q + 1) => BinStart(s) <= q)
  <2> DEFINE x == W * s
             z == x \div N
  <2>1. x \in Nat /\ z = BinStart(s)
    BY <1>3, <1>4, Zenon
  <2> HIDE DEF x
  <2>2. /\ z \in Nat /\ N * z <= x /\ x < N * (z + 1)
        /\ \A q \in Nat : (N * q <= x => q <= z) /\ (x < N * (q + 1) => z <= q)
    BY <1>1, <2>1, Quotients
  <2> HIDE DEF z
  <2> QED
    BY <2>1, <2>2, Zenon DEF x
<1>7. ASSUME NEW s \in Nat PROVE BinStart(BinOf(s)) <= s /\ s <= BinStart(BinOf(s) + 1)
  <2> DEFINE x == BinOf(s)
  <2>1. x \in Nat /\ x + 1 \in Nat /\ W * x <= N * s /\ N * s < W * (x + 1)
    BY <1>5
  <2> HIDE DEF x
  <2>2. N * (s + 1) = N * s + N /\ W * x \in Nat /\ N * s \in Nat /\ W * (x + 1) \in Nat
    BY <1>1, <1>4, <2>1, Products
  <2>3. W * x < N * (s + 1) /\ N * s <= W * (x + 1)
    BY <1>1, <2>1, <2>2
  <2>4. BinStart(x) <= s /\ s <= BinStart(x + 1)
    BY <1>6, <2>1, <2>3
  <2> QED
    BY <2>4 DEF x
<1>8. t <= u => BinOf(t) <= BinOf(u)
  <2> SUFFICES ASSUME t <= u PROVE BinOf(t) <= BinOf(u)
    OBVIOUS
  <2>1. W * BinOf(t) <= N * t /\ BinOf(t) \in Nat
    BY <1>5
  <2>2. N * t <= N * u
    BY <1>1, Products
  <2>3. W * BinOf(t) <= N * u
    BY <1>4, <2>1, <2>2
  <2> QED
    BY <1>5, <2>1, <2>3
<1>9. b <= c => BinStart(b) <= BinStart(c)
  <2> SUFFICES ASSUME b <= c PROVE BinStart(b) <= BinStart(c)
    OBVIOUS
  <2>1. N * BinStart(b) <= W * b /\ BinStart(b) \in Nat
    BY <1>6
  <2>2. W * b <= W * c
    BY <1>1, Products
  <2>3. N * BinStart(b) <= W * c
    BY <1>4, <2>1, <2>2
  <2> QED
    BY <1>6, <2>1, <2>3
<1>10. BinStart(b) < t => b <= BinOf(t)
  <2> SUFFICES ASSUME BinStart(b) < t PROVE b <= BinOf(t)
    OBVIOUS
  <2>1. W * b < N * (BinStart(b) + 1) /\ BinStart(b) \in Nat /\ BinStart(b) + 1 \in Nat /\ BinStart(b) + 1 <= t
    BY <1>6
  <2>2. N * (BinStart(b) + 1) <= N * t
    BY <1>1, <2>1, Products
  <2>3. W * b <= N * t
    BY <1>4, <2>1, <2>2
  <2> QED
    BY <1>5, <2>3
<1>11. t < BinStart(b + 1) => BinOf(t) <= b
  <2> SUFFICES ASSUME t < BinStart(b + 1) PROVE BinOf(t) <= b
    OBVIOUS
  <2>1. b + 1 \in Nat /\ t + 1 \in Nat
    OBVIOUS
  <2>2. N * BinStart(b + 1) <= W * (b + 1) /\ BinStart(b + 1) \in Nat
    BY <1>6, <2>1
  <2>3. t + 1 <= BinStart(b + 1)
    BY <2>2
  <2>4. N * (t + 1) <= N * BinStart(b + 1)
    BY <1>1, <2>1, <2>2, <2>3, Products
  <2>5. N * (t + 1) = N * t + N
    BY <1>1, Products
  <2>6. N * t < W * (b + 1)
    BY <1>1, <1>4, <2>1, <2>2, <2>4, <2>5
  <2> QED
    BY <1>5, <2>6
<1> QED
  BY <1>5, <1>6, <1>7, <1>8, <1>9, <1>10, <1>11

-----------------------------------------------------------------------------
(* The rug of a chart *)

\* Marked bins, what the marking of samples has reached, and how bad a quality is.
Bins == [bin : Nat, quality : Flags, broken : BOOLEAN]
RugWalks == [bins : Seq(Bins), good : BOOLEAN]
NoMarks == [bins |-> <<>>, good |-> FALSE]

\* The instant, the bin and the quality of a sample.
LEMMA SampleBin ==
    ASSUME NEW x \in Samples
    PROVE  x.ts \in Nat /\ BinOf(x.ts) \in Nat /\ x.quality \in Qualities /\ (x.quality # "good" => x.quality \in Flags)
<1>1. x.ts \in 0..(Width - 1) /\ x.quality \in Qualities /\ Width \in Nat
  BY FramesAssumption
<1>2. x.ts \in Nat
  BY <1>1
<1>3. BinOf(x.ts) \in Nat
  BY <1>2, BinsAre
<1> QED
  BY <1>1, <1>2, <1>3 DEF Qualities

\* The worse of two qualities is no better than either.
LEMMA WorseIs ==
    ASSUME NEW q \in Flags, NEW r \in Flags
    PROVE  Worse(q, r) \in Flags /\ RugRank[Worse(q, r)] >= RugRank[q] /\ RugRank[Worse(q, r)] >= RugRank[r]
           /\ RugRank[q] \in Nat /\ RugRank[r] \in Nat /\ RugRank[Worse(q, r)] \in Nat
<1>1. \A p \in Flags : RugRank[p] \in Nat
  BY DEF Flags, RugRank
<1> QED
  BY <1>1 DEF Worse

\* The sample is in the bin that was marked last.
SameBin(at, x) == at.bins # <<>> /\ Last(at.bins).bin = BinOf(x.ts)

\* What marking a sample makes of the marks.
HasMarked(to, at, x) ==
    /\ to \in RugWalks
    /\ x.quality = "good" => to.bins = at.bins /\ to.good = TRUE
    /\ x.quality # "good" => to.good = FALSE
    /\ x.quality # "good" /\ SameBin(at, x) =>
         /\ Len(to.bins) = Len(at.bins) /\ \A i \in 1..Len(at.bins) : i # Len(at.bins) => to.bins[i] = at.bins[i]
         /\ to.bins[Len(at.bins)].bin = at.bins[Len(at.bins)].bin
         /\ to.bins[Len(at.bins)].broken = at.bins[Len(at.bins)].broken
         /\ to.bins[Len(at.bins)].quality = Worse(at.bins[Len(at.bins)].quality, x.quality)
    /\ x.quality # "good" /\ ~SameBin(at, x) =>
         /\ Len(to.bins) = Len(at.bins) + 1 /\ \A i \in 1..Len(at.bins) : to.bins[i] = at.bins[i]
         /\ to.bins[Len(at.bins) + 1] = [bin |-> BinOf(x.ts), quality |-> x.quality, broken |-> at.good]

\* Marking a sample does what is said of it.
LEMMA MarkSampleIs ==
    ASSUME NEW at, at \in RugWalks, NEW x, x \in Samples
    PROVE  HasMarked(MarkSample(at, x), at, x)
<1> DEFINE old == at.bins
           n == Len(old)
           to == MarkSample(at, x)
<1>1. at = [bins |-> at.bins, good |-> at.good] /\ old \in Seq(Bins) /\ at.good \in BOOLEAN
  BY DEF RugWalks
<1>2. x.quality # "good" => x.quality \in Flags
  BY SampleBin
<1>3. BinOf(x.ts) \in Nat
  BY SampleBin
<1>4. CASE x.quality = "good"
  <2>1. to = [bins |-> at.bins, good |-> TRUE]
    BY <1>1, <1>4 DEF MarkSample
  <2>2. to \in RugWalks /\ to.bins = at.bins /\ to.good = TRUE
    BY <1>1, <2>1 DEF RugWalks
  <2> HIDE DEF to
  <2> SUFFICES HasMarked(to, at, x)
    BY DEF to
  <2> QED
    BY <1>4, <2>2 DEF HasMarked
<1>5. CASE x.quality # "good" /\ SameBin(at, x)
  <2>0. old # <<>>
    BY <1>5 DEF SameBin
  <2>1. n \in Nat /\ n \in 1..n /\ DOMAIN old = 1..n /\ old[n] \in Bins
    <3> HIDE DEF old
    <3> QED
      BY <1>1, <2>0
  <2> DEFINE b == [old[n] EXCEPT !.quality = Worse(old[n].quality, x.quality)]
             new == [old EXCEPT ![n] = b]
  <2>2. to = [good |-> FALSE, bins |-> new]
    BY <1>5 DEF MarkSample, SameBin
  <2>3. old[n].quality \in Flags
    BY <2>1 DEF Bins
  <2>4. Worse(old[n].quality, x.quality) \in Flags
    BY <1>2, <1>5, <2>3, WorseIs
  <2>5. b \in Bins /\ b.bin = old[n].bin /\ b.broken = old[n].broken /\ b.quality = Worse(old[n].quality, x.quality)
    BY <2>1, <2>4 DEF Bins
  <2> HIDE DEF b, old
  <2>6. new \in Seq(Bins) /\ Len(new) = n /\ new[n] = b /\ \A i \in 1..n : i # n => new[i] = old[i]
    BY <1>1, <2>1, <2>5
  <2> HIDE DEF new
  <2>7. to \in RugWalks /\ to.bins = new /\ to.good = FALSE
    BY <2>2, <2>6 DEF RugWalks
  <2> HIDE DEF to, n
  <2>8. HasMarked(to, at, x)
    BY <1>5, <2>5, <2>6, <2>7 DEF HasMarked, old, n
  <2> QED
    BY <2>8 DEF to
<1>6. CASE x.quality # "good" /\ ~SameBin(at, x)
  <2> DEFINE b == [bin |-> BinOf(x.ts), quality |-> x.quality, broken |-> at.good]
             new == Append(old, b)
  <2>2. to = [good |-> FALSE, bins |-> new]
    BY <1>6 DEF MarkSample, SameBin
  <2>3. b \in Bins
    BY <1>1, <1>2, <1>3, <1>6 DEF Bins
  <2>4. b = [bin |-> BinOf(x.ts), quality |-> x.quality, broken |-> at.good]
    OBVIOUS
  <2> HIDE DEF b, old
  <2>5. new \in Seq(Bins) /\ Len(new) = n + 1 /\ new[n + 1] = b /\ \A i \in 1..n : new[i] = old[i]
    BY <1>1, <2>3
  <2> HIDE DEF new
  <2>6. to \in RugWalks /\ to.bins = new /\ to.good = FALSE
    BY <2>2, <2>5 DEF RugWalks
  <2> HIDE DEF to, n
  <2>7. HasMarked(to, at, x)
    BY <1>6, <2>4, <2>5, <2>6 DEF HasMarked, old, n
  <2> QED
    BY <2>7 DEF to
<1> QED
  BY <1>4, <1>5, <1>6

\* The function the marking of some samples is the value of.
MarkFold(g, f) ==
    g = [S \in SUBSET (DOMAIN f) |->
           IF S = {} THEN NoMarks ELSE MarkSample(g[S \ {Max(S)}], f[Max(S)])]

\* The marking takes one sample after the other.
LEMMA MarkSteps ==
    ASSUME NEW f \in Seq(Samples)
    PROVE  \E h \in [0..Len(f) -> RugWalks] :
              /\ h[0] = NoMarks /\ FoldLeft(MarkSample, NoMarks, f) = h[Len(f)]
              /\ \A k \in 0..(Len(f) - 1) : h[k + 1] = MarkSample(h[k], f[k + 1])
<1> DEFINE n == Len(f)
           A == RugWalks
           F == [p \in A \X (1..n) |-> MarkSample(p[1], f[p[2]])]
           b == NoMarks
           c == CHOOSE g : MarkFold(g, f)
<1>1. n \in Nat /\ DOMAIN f = 1..n
  OBVIOUS
<1>2. F \in [A \X (1..n) -> A] /\ b \in A
  <2>1. \A a \in RugWalks, i \in 1..n : MarkSample(a, f[i]) \in RugWalks
    <3> SUFFICES ASSUME NEW a \in RugWalks, NEW i \in 1..n PROVE MarkSample(a, f[i]) \in RugWalks
      OBVIOUS
    <3>1. f[i] \in Samples
      OBVIOUS
    <3>2. HasMarked(MarkSample(a, f[i]), a, f[i])
      BY <3>1, MarkSampleIs
    <3> QED
      BY <3>2 DEF HasMarked
  <2>2. b \in RugWalks
    BY DEF RugWalks, NoMarks
  <2> HIDE DEF A, b
  <2>3. F \in [A \X (1..n) -> A]
    BY <2>1 DEF A
  <2> QED
    BY <2>2, <2>3 DEF A
<1>3. \A a \in A, i \in 1..n : F[<<a, i>>] = MarkSample(a, f[i])
  OBVIOUS
<1>4. b = NoMarks
  OBVIOUS
<1> HIDE DEF F, A, b, n
<1>5. PICK g \in [SUBSET (1..n) -> A] : IsFold(g, n, b, F)
  BY <1>1, <1>2, FoldExists
<1>6. MarkFold(g, f)
  <2>1. ASSUME NEW S \in SUBSET (1..n)
        PROVE  g[S] = IF S = {} THEN b ELSE MarkSample(g[S \ {Max(S)}], f[Max(S)])
    <3>1. S # {} => Max(S) \in 1..n /\ g[S \ {Max(S)}] \in A
      BY <1>1, GreatestIn
    <3> QED
      BY <1>3, <1>5, <3>1 DEF IsFold
  <2>2. g = [S \in SUBSET (1..n) |-> g[S]]
    OBVIOUS
  <2> QED
    BY <1>1, <1>4, <2>1, <2>2 DEF MarkFold
<1>7. MarkFold(c, f)
  BY <1>6
<1>8. FoldLeft(MarkSample, NoMarks, f) = c[1..n]
  BY <1>1 DEF FoldLeft, MapThenFoldSet, MarkFold
<1> HIDE DEF c
<1>9. \A S \in SUBSET (1..n) : c[S] = IF S = {} THEN b ELSE MarkSample(c[S \ {Max(S)}], f[Max(S)])
  BY <1>1, <1>4, <1>7 DEF MarkFold
<1>10. Unfolds(c, A, n, b, F)
  BY <1>1, <1>3, <1>9, GreatestIn DEF Unfolds
<1>11. PICK h \in [0..n -> A] : Reaches(h, n, b, F, c[1..n])
  BY <1>1, <1>2, <1>10, FoldWalks
<1>12. ASSUME NEW k \in 0..(n - 1) PROVE h[k + 1] = MarkSample(h[k], f[k + 1])
  <2>1. k \in 0..n /\ k + 1 \in 1..n
    BY <1>1
  <2>2. h[k] \in A
    BY <1>11, <2>1
  <2> QED
    BY <1>3, <1>11, <2>1, <2>2 DEF Reaches
<1>13. h[0] = NoMarks /\ FoldLeft(MarkSample, NoMarks, f) = h[n]
  BY <1>4, <1>8, <1>11 DEF Reaches
<1> QED
  BY <1>12, <1>13 DEF n, A

\* The bin of the p-th sample.
BinAt(f, p) == BinOf(f[p].ts)
IsGood(f, p) == f[p].quality = "good"

\* What marking the first m samples of a frame has made: every bin has a sample that is not good, every such
\* sample is in a bin at least as bad, bins rise, and no good sample is between two that are not told apart.
IsMarked(at, f, m) ==
    /\ at \in RugWalks
    /\ \A i \in 1..Len(at.bins) : \E p \in 1..m : ~IsGood(f, p) /\ at.bins[i].bin = BinAt(f, p)
    /\ \A p \in 1..m : ~IsGood(f, p) =>
          \E i \in 1..Len(at.bins) : at.bins[i].bin = BinAt(f, p) /\ RugRank[at.bins[i].quality] >= RugRank[f[p].quality]
    /\ \A i, j \in 1..Len(at.bins) : i < j => at.bins[i].bin < at.bins[j].bin
    /\ ~at.good => \A p \in 1..m : IsGood(f, p) => at.bins # <<>> /\ BinAt(f, p) <= at.bins[Len(at.bins)].bin
    /\ \A i \in 2..Len(at.bins) : ~at.bins[i].broken =>
          \A p \in 1..m : IsGood(f, p) => ~(at.bins[i - 1].bin < BinAt(f, p) /\ BinAt(f, p) < at.bins[i].bin)

\* What is known of marks.
LEMMA MarkFacts ==
    ASSUME NEW at, at \in RugWalks
    PROVE  /\ Len(at.bins) \in Nat /\ (at.bins # <<>> => Len(at.bins) \in 1..Len(at.bins)) /\ (at.bins = <<>> => Len(at.bins) = 0)
           /\ \A i \in 1..Len(at.bins) : at.bins[i].bin \in Nat /\ at.bins[i].quality \in Flags
           /\ at.bins \in Seq(Bins)
<1> DEFINE B == at.bins
<1>1. B \in Seq(Bins)
  BY DEF RugWalks
<1> HIDE DEF B
<1>2. Len(B) \in Nat /\ (B # <<>> => Len(B) \in 1..Len(B)) /\ (B = <<>> => Len(B) = 0) /\ \A i \in 1..Len(B) : B[i] \in Bins
  BY <1>1
<1>3. \A i \in 1..Len(B) : B[i].bin \in Nat /\ B[i].quality \in Flags
  BY <1>2 DEF Bins
<1> QED
  BY <1>1, <1>2, <1>3 DEF B

\* Marking one more sample keeps what the marks so far are.
LEMMA MarkSampleKeeps ==
    ASSUME NEW f, IsFrame(f), NEW m, m \in 0..(Len(f) - 1), NEW at, IsMarked(at, f, m)
    PROVE  IsMarked(MarkSample(at, f[m + 1]), f, m + 1)
<1> DEFINE x == f[m + 1]
           to == MarkSample(at, x)
           B == at.bins
           T == to.bins
           n == Len(B)
           c == BinAt(f, m + 1)
<1>1. /\ Len(f) \in Nat /\ \A i \in 1..Len(f) : f[i] \in Samples /\ f[i].ts \in 0..(Width - 1)
      /\ \A i, j \in 1..Len(f) : f[i].ts < f[j].ts <=> i < j
  BY FrameInstants
<1>2. m \in Nat /\ m + 1 \in 1..Len(f) /\ x \in Samples /\ \A p \in 1..(m + 1) : p \in 1..Len(f) /\ (p \in 1..m \/ p = m + 1)
  BY <1>1
<1>3. \A p \in 1..Len(f) : f[p].ts \in Nat /\ BinAt(f, p) \in Nat
  BY <1>1, SampleBin DEF BinAt
<1>4. \A p \in 1..m : BinAt(f, p) <= c
  <2> SUFFICES ASSUME NEW p \in 1..m PROVE BinAt(f, p) <= c
    OBVIOUS
  <2>1. p \in 1..Len(f) /\ p < m + 1
    BY <1>1, <1>2
  <2>2. f[p].ts < f[m + 1].ts
    BY <1>1, <1>2, <2>1
  <2>3. f[p].ts <= f[m + 1].ts /\ f[p].ts \in Nat /\ f[m + 1].ts \in Nat
    BY <1>2, <1>3, <2>1, <2>2
  <2> QED
    BY <2>3, BinsAre DEF BinAt
<1>5. at \in RugWalks
  BY DEF IsMarked
<1>6. HasMarked(to, at, x)
  BY <1>2, <1>5, MarkSampleIs
<1>7. /\ n \in Nat /\ (B # <<>> => n \in 1..n) /\ (B = <<>> => n = 0)
      /\ \A i \in 1..n : B[i].bin \in Nat /\ B[i].quality \in Flags
  BY <1>5, MarkFacts
<1>8. /\ \A i \in 1..n : \E p \in 1..m : ~IsGood(f, p) /\ B[i].bin = BinAt(f, p)
      /\ \A p \in 1..m : ~IsGood(f, p) => \E i \in 1..n : B[i].bin = BinAt(f, p) /\ RugRank[B[i].quality] >= RugRank[f[p].quality]
      /\ \A i, j \in 1..n : i < j => B[i].bin < B[j].bin
      /\ ~at.good => \A p \in 1..m : IsGood(f, p) => B # <<>> /\ BinAt(f, p) <= B[n].bin
      /\ \A i \in 2..n : ~B[i].broken => \A p \in 1..m : IsGood(f, p) => ~(B[i - 1].bin < BinAt(f, p) /\ BinAt(f, p) < B[i].bin)
  BY DEF IsMarked
<1>9. \A i \in 1..n : B[i].bin <= c
  BY <1>4, <1>8
<1>10. c = BinOf(x.ts) /\ c = BinAt(f, m + 1) /\ c \in Nat /\ (IsGood(f, m + 1) <=> x.quality = "good")
       /\ to \in RugWalks /\ x = f[m + 1]
  BY <1>2, <1>3, <1>6 DEF BinAt, IsGood, HasMarked
<1>11. /\ Len(T) \in Nat /\ \A i \in 1..Len(T) : T[i].bin \in Nat /\ T[i].quality \in Flags
  BY <1>10, MarkFacts
<1> SUFFICES IsMarked(to, f, m + 1)
  OBVIOUS
<1> HIDE DEF x, to, c
<1>12. CASE x.quality = "good"
  <2>1. T = B /\ to.good = TRUE
    BY <1>6, <1>12 DEF HasMarked
  <2> HIDE DEF T, B, n
  <2>2. \A i \in 1..n : \E p \in 1..(m + 1) : ~IsGood(f, p) /\ B[i].bin = BinAt(f, p)
    BY <1>2, <1>8
  <2>3. ASSUME NEW p \in 1..(m + 1), ~IsGood(f, p)
        PROVE  \E i \in 1..n : B[i].bin = BinAt(f, p) /\ RugRank[B[i].quality] >= RugRank[f[p].quality]
    <3>1. p \in 1..m
      BY <1>2, <1>10, <1>12, <2>3
    <3> QED
      BY <1>8, <2>3, <3>1
  <2>4. ASSUME NEW i \in 2..n, ~B[i].broken, NEW p \in 1..(m + 1), IsGood(f, p)
        PROVE  ~(B[i - 1].bin < BinAt(f, p) /\ BinAt(f, p) < B[i].bin)
    <3>1. CASE p \in 1..m
      BY <1>8, <2>4, <3>1
    <3>2. CASE p = m + 1
      <4>1. BinAt(f, p) = c /\ B[i].bin <= c /\ B[i].bin \in Nat
        BY <1>7, <1>9, <1>10, <3>2
      <4> QED
        BY <1>10, <4>1
    <3> QED
      BY <1>2, <3>1, <3>2
  <2>5. \A i, j \in 1..n : i < j => B[i].bin < B[j].bin
    BY <1>8
  <2> QED
    <3>1. /\ \A i \in 1..Len(T) : \E p \in 1..(m + 1) : ~IsGood(f, p) /\ T[i].bin = BinAt(f, p)
          /\ \A i, j \in 1..Len(T) : i < j => T[i].bin < T[j].bin
      BY <2>1, <2>2, <2>5, Zenon DEF n
    <3>2. \A p \in 1..(m + 1) : ~IsGood(f, p) =>
            \E i \in 1..Len(T) : T[i].bin = BinAt(f, p) /\ RugRank[T[i].quality] >= RugRank[f[p].quality]
      BY <2>1, <2>3, Zenon DEF n
    <3>3. \A i \in 2..Len(T) : ~T[i].broken =>
            \A p \in 1..(m + 1) : IsGood(f, p) => ~(T[i - 1].bin < BinAt(f, p) /\ BinAt(f, p) < T[i].bin)
      BY <2>1, <2>4, Zenon DEF n
    <3> QED
      BY <1>10, <2>1, <3>1, <3>2, <3>3, Zenon DEF IsMarked, T
<1>13. CASE x.quality # "good" /\ SameBin(at, x)
  <2>0. n \in 1..n /\ B[n].bin = c
    BY <1>7, <1>10, <1>13 DEF SameBin, Last
  <2>1. /\ Len(T) = n /\ \A i \in 1..n : i # n => T[i] = B[i]
        /\ T[n].bin = B[n].bin /\ T[n].broken = B[n].broken /\ T[n].quality = Worse(B[n].quality, x.quality)
        /\ to.good = FALSE
    BY <1>6, <1>13 DEF HasMarked
  <2>e. T = to.bins /\ B = at.bins
    OBVIOUS
  <2> HIDE DEF T, B, n
  <2>t. \A i \in 1..n : T[i].bin = B[i].bin /\ T[i].broken = B[i].broken /\ RugRank[T[i].quality] >= RugRank[B[i].quality]
    <3>1. x.quality \in Flags
      BY <1>2, <1>13, SampleBin
    <3>2. RugRank[T[n].quality] >= RugRank[B[n].quality]
      BY <1>7, <2>0, <2>1, <3>1, WorseIs
    <3>3. \A i \in 1..n : RugRank[B[i].quality] \in Nat
      BY <1>7, WorseIs
    <3>4. \A i \in 1..n : i # n => T[i] = B[i]
      BY <2>1
    <3> SUFFICES ASSUME NEW i \in 1..n PROVE T[i].bin = B[i].bin /\ T[i].broken = B[i].broken /\ RugRank[T[i].quality] >= RugRank[B[i].quality]
      OBVIOUS
    <3>5. CASE i = n
      BY <2>1, <3>2, <3>5
    <3>6. CASE i # n
      <4>1. T[i] = B[i] /\ RugRank[B[i].quality] \in Nat
        BY <3>3, <3>4, <3>6
      <4> QED
        BY <4>1
    <3> QED
      BY <3>5, <3>6
  <2>2. ASSUME NEW i \in 1..n PROVE \E p \in 1..(m + 1) : ~IsGood(f, p) /\ T[i].bin = BinAt(f, p)
    <3>1. PICK p \in 1..m : ~IsGood(f, p) /\ B[i].bin = BinAt(f, p)
      BY <1>8
    <3>2. p \in 1..(m + 1)
      BY <1>2
    <3> QED
      BY <2>t, <3>1, <3>2
  <2>3. ASSUME NEW p \in 1..(m + 1), ~IsGood(f, p)
        PROVE  \E i \in 1..n : T[i].bin = BinAt(f, p) /\ RugRank[T[i].quality] >= RugRank[f[p].quality]
    <3>r. \A y \in Samples : y.quality # "good" => RugRank[y.quality] \in Nat
      BY SampleBin, WorseIs
    <3>1. CASE p \in 1..m
      <4>1. PICK i \in 1..n : B[i].bin = BinAt(f, p) /\ RugRank[B[i].quality] >= RugRank[f[p].quality]
        BY <1>8, <2>3, <3>1
      <4>2. RugRank[T[i].quality] \in Nat /\ RugRank[B[i].quality] \in Nat
        BY <1>7, <1>11, <2>1, WorseIs
      <4>3. RugRank[f[p].quality] \in Nat
        BY <1>1, <1>2, <2>3, <3>r DEF IsGood
      <4>4. T[i].bin = BinAt(f, p) /\ RugRank[T[i].quality] >= RugRank[f[p].quality]
        BY <2>t, <4>1, <4>2, <4>3
      <4> QED
        BY <4>4
    <3>2. CASE p = m + 1
      <4>1. T[n].bin = BinAt(f, p) /\ f[p] = x
        BY <1>10, <2>0, <2>1, <3>2
      <4>2. RugRank[T[n].quality] >= RugRank[x.quality]
        <5>1. x.quality \in Flags
          BY <1>2, <1>13, SampleBin
        <5> QED
          BY <1>7, <2>0, <2>1, <5>1, WorseIs
      <4> QED
        BY <2>0, <4>1, <4>2
    <3> QED
      BY <1>2, <3>1, <3>2
  <2>4. ASSUME NEW i \in 2..n, ~T[i].broken, NEW p \in 1..(m + 1), IsGood(f, p)
        PROVE  ~(T[i - 1].bin < BinAt(f, p) /\ BinAt(f, p) < T[i].bin)
    <3>1. p \in 1..m
      BY <1>2, <1>10, <1>13, <2>4
    <3>2. i \in 1..n /\ i - 1 \in 1..n
      BY <1>7
    <3> QED
      BY <1>8, <2>4, <2>t, <3>1, <3>2
  <2>5. \A i, j \in 1..n : i < j => T[i].bin < T[j].bin
    BY <1>8, <2>t
  <2>6. ASSUME NEW p \in 1..(m + 1), IsGood(f, p) PROVE T # <<>> /\ BinAt(f, p) <= T[n].bin
    <3>1. p \in 1..m
      BY <1>2, <1>10, <1>13, <2>6
    <3>2. T # <<>>
      BY <1>7, <2>0, <2>1
    <3> QED
      BY <1>4, <2>0, <2>1, <3>1, <3>2
  <2> QED
    BY <1>10, <2>1, <2>2, <2>3, <2>4, <2>5, <2>6, Zenon DEF IsMarked, T
<1>14. CASE x.quality # "good" /\ ~SameBin(at, x)
  <2>1. /\ Len(T) = n + 1 /\ \A i \in 1..n : T[i] = B[i]
        /\ T[n + 1] = [bin |-> BinOf(x.ts), quality |-> x.quality, broken |-> at.good]
        /\ to.good = FALSE
    BY <1>6, <1>14 DEF HasMarked
  <2>2. T[n + 1].bin = c /\ T[n + 1].quality = x.quality /\ T[n + 1].broken = at.good
    <3> DEFINE b == T[n + 1]
    <3>1. b = [bin |-> BinOf(x.ts), quality |-> x.quality, broken |-> at.good]
      BY <2>1, Zenon
    <3> HIDE DEF b
    <3>2. b.bin = BinOf(x.ts) /\ b.quality = x.quality /\ b.broken = at.good
      BY <3>1
    <3> QED
      BY <1>10, <3>2, Zenon DEF b
  <2>3. \A i \in 1..n : B[i].bin < c
    <3> SUFFICES ASSUME NEW i \in 1..n PROVE B[i].bin < c
      OBVIOUS
    <3>1. B # <<>> /\ n \in 1..n
      BY <1>7
    <3>2. B[n].bin # c
      BY <1>10, <1>14, <3>1 DEF SameBin, Last
    <3>3. B[n].bin < c
      BY <1>7, <1>9, <1>10, <3>1, <3>2
    <3>4. i = n \/ i < n
      BY <1>7
    <3>5. i < n => B[i].bin < B[n].bin
      BY <1>8, <3>1
    <3> QED
      BY <1>7, <1>10, <3>1, <3>3, <3>4, <3>5
  <2> HIDE DEF T, B, n
  <2>4. \A i \in 1..(n + 1) : i \in 1..n \/ i = n + 1
    BY <1>7
  <2>l. n + 1 \in 1..(n + 1) /\ \A i \in 1..n : i \in 1..(n + 1)
    BY <1>7
  <2>5. ASSUME NEW i \in 1..(n + 1) PROVE \E p \in 1..(m + 1) : ~IsGood(f, p) /\ T[i].bin = BinAt(f, p)
    <3>1. CASE i \in 1..n
      <4>1. PICK p \in 1..m : ~IsGood(f, p) /\ B[i].bin = BinAt(f, p)
        BY <1>8, <3>1
      <4>2. p \in 1..(m + 1)
        BY <1>2
      <4> QED
        BY <2>1, <3>1, <4>1, <4>2
    <3>2. CASE i = n + 1
      <4>1. m + 1 \in 1..(m + 1)
        BY <1>2
      <4> QED
        BY <1>10, <1>14, <2>2, <3>2, <4>1
    <3> QED
      BY <2>4, <3>1, <3>2
  <2>6. ASSUME NEW p \in 1..(m + 1), ~IsGood(f, p)
        PROVE  \E i \in 1..(n + 1) : T[i].bin = BinAt(f, p) /\ RugRank[T[i].quality] >= RugRank[f[p].quality]
    <3>1. CASE p \in 1..m
      <4>1. PICK i \in 1..n : B[i].bin = BinAt(f, p) /\ RugRank[B[i].quality] >= RugRank[f[p].quality]
        BY <1>8, <2>6, <3>1
      <4> QED
        BY <2>1, <2>l, <4>1
    <3>2. CASE p = m + 1
      <4>1. x.quality \in Flags
        BY <1>2, <1>14, SampleBin
      <4>2. RugRank[x.quality] \in Nat
        BY <4>1, WorseIs
      <4>3. RugRank[x.quality] >= RugRank[x.quality]
        BY <4>2
      <4>4. T[n + 1].bin = BinAt(f, p) /\ f[p] = x
        BY <1>10, <2>2, <3>2
      <4> QED
        BY <2>2, <2>l, <4>3, <4>4
    <3> QED
      BY <1>2, <3>1, <3>2
  <2>7. ASSUME NEW i \in 1..(n + 1), NEW j \in 1..(n + 1), i < j PROVE T[i].bin < T[j].bin
    <3>1. i \in 1..n
      BY <1>7, <2>7
    <3>2. CASE j \in 1..n
      BY <1>8, <2>1, <2>7, <3>1, <3>2
    <3>3. CASE j = n + 1
      BY <2>1, <2>2, <2>3, <3>1, <3>3
    <3> QED
      BY <2>4, <3>2, <3>3
  <2>8. ASSUME NEW i \in 2..(n + 1), ~T[i].broken, NEW p \in 1..(m + 1), IsGood(f, p)
        PROVE  ~(T[i - 1].bin < BinAt(f, p) /\ BinAt(f, p) < T[i].bin)
    <3>1. p \in 1..m
      BY <1>2, <1>10, <1>14, <2>8
    <3>2. CASE i \in 2..n
      <4>1. i \in 1..n /\ i - 1 \in 1..n
        BY <1>7, <3>2
      <4> QED
        BY <1>8, <2>1, <2>8, <3>1, <3>2, <4>1
    <3>3. CASE i = n + 1
      <4>1. ~at.good /\ n \in 1..n /\ i - 1 = n
        BY <1>7, <2>2, <2>8, <3>3
      <4>2. BinAt(f, p) <= B[n].bin /\ T[n] = B[n]
        BY <1>8, <2>1, <2>8, <3>1, <4>1
      <4>3. BinAt(f, p) \in Nat /\ B[n].bin \in Nat
        BY <1>2, <1>3, <1>7, <4>1
      <4> QED
        BY <4>1, <4>2, <4>3
    <3> QED
      BY <1>7, <3>2, <3>3
  <2>9. ASSUME NEW p \in 1..(m + 1), IsGood(f, p) PROVE T # <<>> /\ BinAt(f, p) <= T[n + 1].bin
    <3>1. p \in 1..m
      BY <1>2, <1>10, <1>14, <2>9
    <3>2. T # <<>>
      BY <1>7, <2>1
    <3> QED
      BY <1>4, <2>2, <3>1, <3>2
  <2> QED
    BY <1>10, <2>1, <2>5, <2>6, <2>7, <2>8, <2>9, Zenon DEF IsMarked, T
<1> QED
  BY <1>12, <1>13, <1>14

\* The marks of a frame.
LEMMA RugBinsAre ==
    ASSUME NEW f, IsFrame(f)
    PROVE  \E at : RugBins(f) = at.bins /\ IsMarked(at, f, Len(f))
<1>0. f \in Seq(Samples) /\ Len(f) \in Nat
  BY DEF IsFrame
<1>1. PICK h \in [0..Len(f) -> RugWalks] :
          /\ h[0] = NoMarks /\ FoldLeft(MarkSample, NoMarks, f) = h[Len(f)]
          /\ \A k \in 0..(Len(f) - 1) : h[k + 1] = MarkSample(h[k], f[k + 1])
  BY <1>0, MarkSteps
<1> DEFINE Q == {k \in 0..Len(f) : IsMarked(h[k], f, k)}
<1>2. IsMarked(h[0], f, 0)
  <2>1. NoMarks.bins = <<>> /\ Len(NoMarks.bins) = 0 /\ 1..Len(NoMarks.bins) = {} /\ 2..Len(NoMarks.bins) = {} /\ 1..0 = {}
    BY DEF NoMarks
  <2>2. NoMarks \in RugWalks /\ h[0] = NoMarks
    BY <1>0, <1>1
  <2>3. IsMarked(NoMarks, f, 0)
    BY <2>1, <2>2 DEF IsMarked
  <2> QED
    BY <2>2, <2>3
<1>3. 0 \in Q
  BY <1>0, <1>2
<1>4. \A k \in 0..(Len(f) - 1) : k \in Q => k + 1 \in Q
  <2> SUFFICES ASSUME NEW k \in 0..(Len(f) - 1), k \in Q PROVE k + 1 \in Q
    OBVIOUS
  <2>1. k + 1 \in 0..Len(f) /\ k \in 0..(Len(f) - 1)
    BY <1>0
  <2>2. IsMarked(h[k], f, k) /\ h[k + 1] = MarkSample(h[k], f[k + 1])
    BY <1>1
  <2>3. IsMarked(MarkSample(h[k], f[k + 1]), f, k + 1)
    BY <2>1, <2>2, MarkSampleKeeps
  <2> QED
    BY <2>1, <2>2, <2>3
<1>5. Len(f) \in Q
  <2>1. Len(f) \in 0..Len(f)
    BY <1>0
  <2> HIDE DEF Q
  <2> QED
    BY <1>0, <1>3, <1>4, <2>1, UpToInduction
<1>6. RugBins(f) = h[Len(f)].bins
  BY <1>1 DEF RugBins, NoMarks
<1> QED
  BY <1>5, <1>6

\* The runs of a rug.
RugRuns == Seq([start : Nat, end : Nat, quality : Flags])

\* The bin goes on with the last run.
BinGoesOn(runs, b) == runs # <<>> /\ Last(runs).quality = b.quality /\ ~b.broken

\* What joining a bin makes of the runs.
HasJoinedBin(to, runs, b) ==
    /\ to \in RugRuns /\ to # <<>>
    /\ BinGoesOn(runs, b) =>
         /\ Len(to) = Len(runs) /\ \A i \in 1..Len(runs) : i # Len(runs) => to[i] = runs[i]
         /\ to[Len(runs)].start = runs[Len(runs)].start /\ to[Len(runs)].end = BinStart(b.bin + 1)
         /\ to[Len(runs)].quality = runs[Len(runs)].quality
    /\ ~BinGoesOn(runs, b) =>
         /\ Len(to) = Len(runs) + 1 /\ \A i \in 1..Len(runs) : to[i] = runs[i]
         /\ to[Len(runs) + 1].start = BinStart(b.bin) /\ to[Len(runs) + 1].end = BinStart(b.bin + 1)
         /\ to[Len(runs) + 1].quality = b.quality

\* What is known of runs.
LEMMA RugRunFacts ==
    ASSUME NEW runs, runs \in RugRuns
    PROVE  /\ Len(runs) \in Nat /\ DOMAIN runs = 1..Len(runs) /\ (runs # <<>> => Len(runs) \in 1..Len(runs))
           /\ \A i \in 1..Len(runs) : /\ runs[i] \in [start : Nat, end : Nat, quality : Flags]
                                      /\ runs[i].start \in Nat /\ runs[i].end \in Nat /\ runs[i].quality \in Flags
<1> DEFINE R == [start : Nat, end : Nat, quality : Flags]
<1>1. runs \in Seq(R)
  BY DEF RugRuns
<1>2. \A r \in R : r.start \in Nat /\ r.end \in Nat /\ r.quality \in Flags
  OBVIOUS
<1> HIDE DEF R
<1>3. /\ Len(runs) \in Nat /\ DOMAIN runs = 1..Len(runs) /\ (runs # <<>> => Len(runs) \in 1..Len(runs))
      /\ \A i \in 1..Len(runs) : runs[i] \in R
  BY <1>1
<1> QED
  BY <1>2, <1>3 DEF R

\* Joining a bin does what is said of it.
LEMMA JoinBinIs ==
    ASSUME NEW runs, runs \in RugRuns, NEW b, b \in Bins
    PROVE  HasJoinedBin(JoinBin(runs, b), runs, b)
<1> DEFINE R == [start : Nat, end : Nat, quality : Flags]
           to == JoinBin(runs, b)
           n == Len(runs)
           s == BinStart(b.bin)
           e == BinStart(b.bin + 1)
<1>1. b.bin \in Nat /\ b.quality \in Flags /\ b.bin + 1 \in Nat
  BY DEF Bins
<1>2. s \in Nat /\ e \in Nat
  BY <1>1, BinsAre
<1>3. runs \in Seq(R)
  BY DEF RugRuns
<1>4. n \in Nat /\ DOMAIN runs = 1..n /\ (runs # <<>> => n \in 1..n /\ runs[n] \in R)
  BY RugRunFacts
<1>5. CASE BinGoesOn(runs, b)
  <2>0. n \in 1..n /\ runs[n] \in R
    BY <1>4, <1>5 DEF BinGoesOn
  <2> DEFINE r == [runs[n] EXCEPT !.end = e]
             new == [runs EXCEPT ![n] = r]
  <2>1. to = new
    BY <1>5 DEF JoinBin, BinGoesOn
  <2>2. r \in R /\ r.start = runs[n].start /\ r.end = e /\ r.quality = runs[n].quality
    <3> HIDE DEF e
    <3> QED
      BY <1>2, <2>0
  <2> HIDE DEF r, R
  <2>3. new \in Seq(R) /\ Len(new) = n /\ new[n] = r /\ \A i \in 1..n : i # n => new[i] = runs[i]
    <3>1. r \in R /\ n \in Nat /\ n \in 1..n /\ DOMAIN runs = 1..n
      BY <1>4, <2>0, <2>2
    <3>2. new \in Seq(R)
      BY <1>3, <3>1
    <3>3. DOMAIN new = 1..n /\ new[n] = r /\ \A i \in 1..n : i # n => new[i] = runs[i]
      BY <3>1
    <3> HIDE DEF new
    <3>5. Len(new) \in Nat /\ DOMAIN new = 1..Len(new)
      BY <3>2
    <3> HIDE DEF n
    <3>6. n \in 1..Len(new)
      BY <3>1, <3>3, <3>5
    <3>7. Len(new) \in 1..n
      <4>1. Len(new) \in 1..Len(new)
        BY <3>1, <3>5, <3>6
      <4> QED
        BY <3>3, <3>5, <4>1
    <3>8. n \in Nat /\ Len(new) \in Nat
      BY <3>1, <3>5
    <3>4. Len(new) = n
      BY <3>6, <3>7, <3>8
    <3> QED
      BY <3>2, <3>3, <3>4
  <2> HIDE DEF new, n
  <2>4. new \in RugRuns /\ new # <<>>
    <3>1. new \in RugRuns
      BY <2>3 DEF RugRuns, R
    <3> QED
      BY <2>0, <2>3, <3>1 DEF n
  <2>5. HasJoinedBin(new, runs, b)
    BY <1>5, <2>2, <2>3, <2>4 DEF HasJoinedBin, n
  <2> QED
    BY <2>1, <2>5
<1>6. CASE ~BinGoesOn(runs, b)
  <2> DEFINE r == [start |-> s, end |-> e, quality |-> b.quality]
             new == Append(runs, r)
  <2>1. to = new
    BY <1>6 DEF JoinBin, BinGoesOn
  <2>2. r \in R /\ r.start = s /\ r.end = e /\ r.quality = b.quality
    <3> HIDE DEF e, s
    <3> QED
      BY <1>1, <1>2
  <2> HIDE DEF r, R, n
  <2>3. new \in Seq(R) /\ Len(new) = Len(runs) + 1 /\ new[n + 1] = r /\ \A i \in 1..n : new[i] = runs[i]
    BY <1>3, <1>4, <2>2 DEF n
  <2> HIDE DEF new
  <2>4. new \in RugRuns /\ new # <<>>
    <3>1. new \in RugRuns
      BY <2>3 DEF RugRuns, R
    <3> QED
      BY <1>4, <2>3, <3>1 DEF n
  <2>5. HasJoinedBin(new, runs, b)
    BY <1>6, <2>2, <2>3, <2>4 DEF HasJoinedBin, n
  <2> QED
    BY <2>1, <2>5
<1> QED
  BY <1>5, <1>6

\* The function the joining of some bins is the value of.
JoinBinFold(g, B) ==
    g = [S \in SUBSET (DOMAIN B) |->
           IF S = {} THEN <<>> ELSE JoinBin(g[S \ {Max(S)}], B[Max(S)])]

\* The joining takes one bin after the other.
LEMMA JoinBinSteps ==
    ASSUME NEW B \in Seq(Bins)
    PROVE  \E h \in [0..Len(B) -> RugRuns] :
              /\ h[0] = <<>> /\ FoldLeft(JoinBin, <<>>, B) = h[Len(B)]
              /\ \A k \in 0..(Len(B) - 1) : h[k + 1] = JoinBin(h[k], B[k + 1])
<1> DEFINE n == Len(B)
           A == RugRuns
           F == [p \in A \X (1..n) |-> JoinBin(p[1], B[p[2]])]
           b == <<>>
           c == CHOOSE g : JoinBinFold(g, B)
<1>1. n \in Nat /\ DOMAIN B = 1..n
  OBVIOUS
<1>2. F \in [A \X (1..n) -> A] /\ b \in A
  <2>1. \A a \in RugRuns, i \in 1..n : JoinBin(a, B[i]) \in RugRuns
    <3> SUFFICES ASSUME NEW a \in RugRuns, NEW i \in 1..n PROVE JoinBin(a, B[i]) \in RugRuns
      OBVIOUS
    <3>1. B[i] \in Bins
      OBVIOUS
    <3>2. HasJoinedBin(JoinBin(a, B[i]), a, B[i])
      BY <3>1, JoinBinIs
    <3> QED
      BY <3>2 DEF HasJoinedBin
  <2>2. b \in RugRuns
    BY DEF RugRuns
  <2> HIDE DEF A, b
  <2>3. F \in [A \X (1..n) -> A]
    BY <2>1 DEF A
  <2> QED
    BY <2>2, <2>3 DEF A
<1>3. \A a \in A, i \in 1..n : F[<<a, i>>] = JoinBin(a, B[i])
  OBVIOUS
<1>4. b = <<>>
  OBVIOUS
<1> HIDE DEF F, A, b, n
<1>5. PICK g \in [SUBSET (1..n) -> A] : IsFold(g, n, b, F)
  BY <1>1, <1>2, FoldExists
<1>6. JoinBinFold(g, B)
  <2>1. ASSUME NEW S \in SUBSET (1..n)
        PROVE  g[S] = IF S = {} THEN b ELSE JoinBin(g[S \ {Max(S)}], B[Max(S)])
    <3>1. S # {} => Max(S) \in 1..n /\ g[S \ {Max(S)}] \in A
      BY <1>1, GreatestIn
    <3> QED
      BY <1>3, <1>5, <3>1 DEF IsFold
  <2>2. g = [S \in SUBSET (1..n) |-> g[S]]
    OBVIOUS
  <2> QED
    BY <1>1, <1>4, <2>1, <2>2 DEF JoinBinFold
<1>7. JoinBinFold(c, B)
  BY <1>6
<1>8. FoldLeft(JoinBin, <<>>, B) = c[1..n]
  BY <1>1 DEF FoldLeft, MapThenFoldSet, JoinBinFold
<1> HIDE DEF c
<1>9. \A S \in SUBSET (1..n) : c[S] = IF S = {} THEN b ELSE JoinBin(c[S \ {Max(S)}], B[Max(S)])
  BY <1>1, <1>4, <1>7 DEF JoinBinFold
<1>10. Unfolds(c, A, n, b, F)
  BY <1>1, <1>3, <1>9, GreatestIn DEF Unfolds
<1>11. PICK h \in [0..n -> A] : Reaches(h, n, b, F, c[1..n])
  BY <1>1, <1>2, <1>10, FoldWalks
<1>12. ASSUME NEW k \in 0..(n - 1) PROVE h[k + 1] = JoinBin(h[k], B[k + 1])
  <2>1. k \in 0..n /\ k + 1 \in 1..n
    BY <1>1
  <2>2. h[k] \in A
    BY <1>11, <2>1
  <2> QED
    BY <1>3, <1>11, <2>1, <2>2 DEF Reaches
<1>13. h[0] = <<>> /\ FoldLeft(JoinBin, <<>>, B) = h[n]
  BY <1>4, <1>8, <1>11 DEF Reaches
<1> QED
  BY <1>12, <1>13 DEF n, A

\* A run from the a-th bin to the z-th, between which nothing is told apart.
SpansBins(r, B, a, z) ==
    /\ r.start = BinStart(B[a].bin) /\ r.end = BinStart(B[z].bin + 1)
    /\ \A j \in (a + 1)..z : ~B[j].broken

\* Bins that rise.
BinsRise(B) == B \in Seq(Bins) /\ \A i, j \in 1..Len(B) : i < j => B[i].bin < B[j].bin

\* What joining the first m bins has made: runs that follow each other, and every bin under one of its quality.
IsRug(runs, B, m) ==
    /\ runs \in RugRuns
    /\ \A i \in 1..Len(runs) : \E a, z \in 1..m : a <= z /\ SpansBins(runs[i], B, a, z)
    /\ runs # <<>> => \E a \in 1..m : SpansBins(runs[Len(runs)], B, a, m)
    /\ \A i \in 2..Len(runs) : runs[i - 1].end <= runs[i].start
    /\ \A j \in 1..m : \E i \in 1..Len(runs) :
          runs[i].start <= BinStart(B[j].bin) /\ BinStart(B[j].bin + 1) <= runs[i].end /\ runs[i].quality = B[j].quality

\* Joining one more bin keeps what the runs so far are.
LEMMA JoinBinKeeps ==
    ASSUME NEW B, BinsRise(B), NEW m, m \in 0..(Len(B) - 1), NEW runs, IsRug(runs, B, m)
    PROVE  IsRug(JoinBin(runs, B[m + 1]), B, m + 1)
<1> DEFINE b == B[m + 1]
           to == JoinBin(runs, b)
           n == Len(runs)
           S(j) == BinStart(B[j].bin)
           E(j) == BinStart(B[j].bin + 1)
<1>1. /\ Len(B) \in Nat /\ m \in Nat /\ m + 1 \in 1..Len(B) /\ \A j \in 1..(m + 1) : j \in 1..Len(B) /\ (j \in 1..m \/ j = m + 1)
      /\ \A j \in 1..Len(B) : B[j] \in Bins
  <2>1. B \in Seq(Bins)
    BY DEF BinsRise
  <2>2. Len(B) \in Nat /\ \A j \in 1..Len(B) : B[j] \in Bins
    BY <2>1
  <2> QED
    BY <2>2
<1>2. \A j \in 1..Len(B) : B[j].bin \in Nat /\ B[j].bin + 1 \in Nat /\ B[j].quality \in Flags
  BY <1>1 DEF Bins
<1>3. \A j \in 1..Len(B) : S(j) \in Nat /\ E(j) \in Nat
  BY <1>2, BinsAre
<1>4. ASSUME NEW i \in 1..Len(B), NEW j \in 1..Len(B), i < j PROVE S(i) <= S(j) /\ E(i) <= E(j) /\ E(i) <= S(j)
  <2>1. B[i].bin < B[j].bin /\ B[i].bin \in Nat /\ B[j].bin \in Nat
    BY <1>2, <1>4 DEF BinsRise
  <2>2. B[i].bin <= B[j].bin /\ B[i].bin + 1 <= B[j].bin + 1 /\ B[i].bin + 1 <= B[j].bin /\ B[i].bin + 1 \in Nat /\ B[j].bin + 1 \in Nat
    BY <2>1
  <2> QED
    BY <2>1, <2>2, BinsAre
<1>5. runs \in RugRuns
  BY DEF IsRug
<1>6. HasJoinedBin(to, runs, b)
  BY <1>1, <1>5, JoinBinIs
<1>7. /\ n \in Nat /\ (runs # <<>> => n \in 1..n)
      /\ \A i \in 1..n : runs[i].start \in Nat /\ runs[i].end \in Nat
  BY <1>5, RugRunFacts
<1>8. /\ \A i \in 1..n : \E a, z \in 1..m : a <= z /\ SpansBins(runs[i], B, a, z)
      /\ runs # <<>> => \E a \in 1..m : SpansBins(runs[n], B, a, m)
      /\ \A i \in 2..n : runs[i - 1].end <= runs[i].start
      /\ \A j \in 1..m : \E i \in 1..n : runs[i].start <= S(j) /\ E(j) <= runs[i].end /\ runs[i].quality = B[j].quality
  BY DEF IsRug
<1>9. to \in RugRuns /\ to # <<>>
  BY <1>6 DEF HasJoinedBin
<1>b. b = B[m + 1] /\ S(m + 1) = BinStart(b.bin) /\ E(m + 1) = BinStart(b.bin + 1)
  OBVIOUS
<1>s. \A r, a, z : SpansBins(r, B, a, z) <=> r.start = S(a) /\ r.end = E(z) /\ \A j \in (a + 1)..z : ~B[j].broken
  BY DEF SpansBins
<1> SUFFICES IsRug(to, B, m + 1)
  OBVIOUS
<1>10. CASE BinGoesOn(runs, b)
  <2>1. /\ Len(to) = n /\ \A i \in 1..n : i # n => to[i] = runs[i]
        /\ to[n].start = runs[n].start /\ to[n].end = E(m + 1) /\ to[n].quality = runs[n].quality
    BY <1>6, <1>10 DEF HasJoinedBin
  <2>2. n \in 1..n /\ runs # <<>> /\ runs[n].quality = b.quality /\ ~b.broken
    BY <1>7, <1>10 DEF BinGoesOn, Last
  <2>3. PICK a \in 1..m : SpansBins(runs[n], B, a, m)
    BY <1>8, <2>2
  <2> HIDE DEF b, to, n, S, E
  <2>4. m \in 1..m /\ a \in 1..Len(B) /\ m \in 1..Len(B) /\ m < m + 1 /\ a <= m /\ a < m + 1 /\ a \in 1..(m + 1) /\ m + 1 \in 1..(m + 1)
    BY <1>1
  <2>5. runs[n].start = S(a) /\ runs[n].end = E(m) /\ \A j \in (a + 1)..m : ~B[j].broken
    BY <1>s, <2>3
  <2>6. SpansBins(to[n], B, a, m + 1)
    <3>1. \A j \in (a + 1)..(m + 1) : j \in (a + 1)..m \/ j = m + 1
      BY <1>1, <2>4
    <3>2. \A j \in (a + 1)..(m + 1) : ~B[j].broken
      BY <1>b, <2>2, <2>5, <3>1
    <3> QED
      BY <1>s, <2>1, <2>5, <3>2
  <2>7. ASSUME NEW i \in 1..n PROVE \E c, z \in 1..(m + 1) : c <= z /\ SpansBins(to[i], B, c, z)
    <3>1. CASE i = n
      <4>1. a <= m + 1
        BY <2>4
      <4> QED
        BY <2>4, <2>6, <3>1, <4>1
    <3>2. CASE i # n
      <4>1. PICK c \in 1..m, z \in 1..m : c <= z /\ SpansBins(runs[i], B, c, z)
        BY <1>8
      <4>2. c \in 1..(m + 1) /\ z \in 1..(m + 1)
        BY <1>1
      <4>3. to[i] = runs[i]
        BY <2>1, <3>2
      <4> QED
        BY <4>1, <4>2, <4>3
    <3> QED
      BY <3>1, <3>2
  <2>8. \E c \in 1..(m + 1) : SpansBins(to[n], B, c, m + 1)
    BY <2>4, <2>6
  <2>9. ASSUME NEW i \in 2..n PROVE to[i - 1].end <= to[i].start
    <3>1. i \in 1..n /\ i - 1 \in 1..n /\ i - 1 # n
      BY <1>7
    <3>2. to[i - 1] = runs[i - 1] /\ to[i].start = runs[i].start
      BY <2>1, <3>1
    <3> QED
      BY <1>8, <3>2
  <2>10. ASSUME NEW j \in 1..(m + 1)
         PROVE  \E i \in 1..n : to[i].start <= S(j) /\ E(j) <= to[i].end /\ to[i].quality = B[j].quality
    <3>1. CASE j \in 1..m
      <4>1. PICK i \in 1..n : runs[i].start <= S(j) /\ E(j) <= runs[i].end /\ runs[i].quality = B[j].quality
        BY <1>8, <3>1
      <4>2. CASE i = n
        <5>1. E(j) <= E(m + 1)
          <6>1. j \in 1..Len(B) /\ j < m + 1
            BY <1>1, <3>1
          <6> QED
            BY <1>1, <1>4, <6>1
        <5> QED
          BY <2>1, <2>2, <4>1, <4>2, <5>1
      <4>3. CASE i # n
        <5>1. to[i] = runs[i]
          BY <2>1, <4>3
        <5> QED
          BY <4>1, <5>1
      <4> QED
        BY <4>2, <4>3
    <3>2. CASE j = m + 1
      <4>1. S(a) <= S(m + 1)
        BY <1>1, <1>4, <2>4
      <4>2. E(m + 1) <= E(m + 1)
        BY <1>1, <1>3
      <4>3. to[n].start <= S(j) /\ E(j) <= to[n].end /\ to[n].quality = B[j].quality
        BY <1>b, <2>1, <2>2, <2>5, <3>2, <4>1, <4>2
      <4> QED
        BY <2>2, <4>3
    <3> QED
      BY <1>1, <3>1, <3>2
  <2> QED
    BY <1>9, <2>1, <2>7, <2>8, <2>9, <2>10, Zenon DEF IsRug, S, E
<1>11. CASE ~BinGoesOn(runs, b)
  <2>1. /\ Len(to) = n + 1 /\ \A i \in 1..n : to[i] = runs[i]
        /\ to[n + 1].start = S(m + 1) /\ to[n + 1].end = E(m + 1) /\ to[n + 1].quality = b.quality
    BY <1>6, <1>11 DEF HasJoinedBin
  <2> HIDE DEF b, to, S, E
  <2>e. runs = <<>> => n = 0
    OBVIOUS
  <2> HIDE DEF n
  <2>2. (\A i \in 1..(n + 1) : i \in 1..n \/ i = n + 1) /\ n + 1 \in 1..(n + 1) /\ \A i \in 1..n : i \in 1..(n + 1)
    BY <1>7
  <2>3. m + 1 \in 1..(m + 1) /\ m + 1 <= m + 1
    BY <1>1
  <2>6. SpansBins(to[n + 1], B, m + 1, m + 1)
    <3>1. (m + 1) + 1..(m + 1) = {}
      BY <1>1
    <3> QED
      BY <1>1, <1>s, <2>1, <3>1
  <2>7. ASSUME NEW i \in 1..(n + 1) PROVE \E c, z \in 1..(m + 1) : c <= z /\ SpansBins(to[i], B, c, z)
    <3>1. CASE i = n + 1
      BY <2>3, <2>6, <3>1
    <3>2. CASE i \in 1..n
      <4>1. PICK c \in 1..m, z \in 1..m : c <= z /\ SpansBins(runs[i], B, c, z)
        BY <1>8, <3>2
      <4>2. c \in 1..(m + 1) /\ z \in 1..(m + 1)
        BY <1>1
      <4>3. to[i] = runs[i]
        BY <2>1, <3>2
      <4> QED
        BY <4>1, <4>2, <4>3
    <3> QED
      BY <2>2, <3>1, <3>2
  <2>8. \E c \in 1..(m + 1) : SpansBins(to[n + 1], B, c, m + 1)
    BY <2>3, <2>6
  <2>9. ASSUME NEW i \in 2..(n + 1) PROVE to[i - 1].end <= to[i].start
    <3>1. CASE i \in 2..n
      <4>1. i \in 1..n /\ i - 1 \in 1..n
        BY <1>7, <3>1
      <4> QED
        BY <1>8, <2>1, <3>1, <4>1
    <3>2. CASE i = n + 1
      <4>1. n \in 1..n /\ i - 1 = n /\ runs # <<>>
        BY <1>7, <2>e, <3>2
      <4>2. PICK a \in 1..m : SpansBins(runs[n], B, a, m)
        BY <1>8, <4>1
      <4>3. runs[n].end = E(m)
        BY <1>s, <4>2
      <4>4. m \in 1..Len(B) /\ m < m + 1
        BY <1>1
      <4>5. E(m) <= S(m + 1)
        BY <1>1, <1>4, <4>4
      <4> QED
        BY <2>1, <3>2, <4>1, <4>3, <4>5
    <3> QED
      BY <1>7, <3>1, <3>2
  <2>10. ASSUME NEW j \in 1..(m + 1)
         PROVE  \E i \in 1..(n + 1) : to[i].start <= S(j) /\ E(j) <= to[i].end /\ to[i].quality = B[j].quality
    <3>1. CASE j \in 1..m
      <4>1. PICK i \in 1..n : runs[i].start <= S(j) /\ E(j) <= runs[i].end /\ runs[i].quality = B[j].quality
        BY <1>8, <3>1
      <4> QED
        BY <2>1, <2>2, <4>1
    <3>2. CASE j = m + 1
      <4>1. S(m + 1) <= S(m + 1) /\ E(m + 1) <= E(m + 1)
        BY <1>1, <1>3
      <4>2. to[n + 1].start <= S(j) /\ E(j) <= to[n + 1].end /\ to[n + 1].quality = B[j].quality
        BY <1>b, <2>1, <3>2, <4>1
      <4> QED
        BY <2>2, <4>2
    <3> QED
      BY <1>1, <3>1, <3>2
  <2> QED
    BY <1>9, <2>1, <2>7, <2>8, <2>9, <2>10, Zenon DEF IsRug, S, E
<1> QED
  BY <1>10, <1>11

\* The rug joins all the marks of a frame.
LEMMA QualityRunsAre ==
    ASSUME NEW f, NEW B, B = RugBins(f), BinsRise(B)
    PROVE  IsRug(QualityRuns(f), B, Len(B))
<1>0. B \in Seq(Bins) /\ Len(B) \in Nat
  BY DEF BinsRise
<1>1. PICK h \in [0..Len(B) -> RugRuns] :
          /\ h[0] = <<>> /\ FoldLeft(JoinBin, <<>>, B) = h[Len(B)]
          /\ \A k \in 0..(Len(B) - 1) : h[k + 1] = JoinBin(h[k], B[k + 1])
  BY <1>0, JoinBinSteps
<1> DEFINE Q == {k \in 0..Len(B) : IsRug(h[k], B, k)}
<1>2. IsRug(h[0], B, 0)
  <2>1. h[0] \in RugRuns
    BY <1>0, <1>1
  <2>2. h[0] = <<>> /\ Len(h[0]) = 0 /\ 1..Len(h[0]) = {} /\ 2..Len(h[0]) = {} /\ 1..0 = {}
    BY <1>1
  <2> QED
    BY <2>1, <2>2, Zenon DEF IsRug
<1>3. 0 \in Q
  BY <1>0, <1>2
<1>4. \A k \in 0..(Len(B) - 1) : k \in Q => k + 1 \in Q
  <2> SUFFICES ASSUME NEW k \in 0..(Len(B) - 1), k \in Q PROVE k + 1 \in Q
    OBVIOUS
  <2>1. k + 1 \in 0..Len(B) /\ k \in 0..(Len(B) - 1)
    BY <1>0
  <2>2. IsRug(h[k], B, k) /\ h[k + 1] = JoinBin(h[k], B[k + 1])
    BY <1>1
  <2>3. IsRug(JoinBin(h[k], B[k + 1]), B, k + 1)
    BY <2>1, <2>2, JoinBinKeeps
  <2> QED
    BY <2>1, <2>2, <2>3
<1>5. Len(B) \in Q
  <2>1. Len(B) \in 0..Len(B)
    BY <1>0
  <2> HIDE DEF Q
  <2> QED
    BY <1>0, <1>3, <1>4, <2>1, UpToInduction
<1>6. QualityRuns(f) = h[Len(B)]
  BY <1>1 DEF QualityRuns
<1> QED
  BY <1>5, <1>6

\* A sample that a run covers, strictly inside, shares its bin with a marked one: bins of one run are told
\* apart by no good sample.
LEMMA RunHidesNothing ==
    ASSUME NEW f, IsFrame(f), NEW at, IsMarked(at, f, Len(f)), NEW r, r.start \in Nat, r.end \in Nat,
           NEW a, NEW z, a \in 1..Len(at.bins), z \in 1..Len(at.bins), a <= z, SpansBins(r, at.bins, a, z),
           NEW p, p \in 1..Len(f), IsGood(f, p), r.start < f[p].ts, f[p].ts < r.end
    PROVE  \E j \in 1..Len(at.bins) : at.bins[j].bin = BinAt(f, p)
<1> DEFINE B == at.bins
           c == BinAt(f, p)
           n == Len(B)
<1>1. /\ n \in Nat /\ \A j \in 1..n : B[j].bin \in Nat
      /\ \A i \in 2..n : ~B[i].broken => ~(B[i - 1].bin < c /\ c < B[i].bin)
  <2>1. at \in RugWalks
    BY DEF IsMarked
  <2>2. n \in Nat /\ \A j \in 1..n : B[j].bin \in Nat
    BY <2>1, MarkFacts
  <2>3. \A i \in 2..n : ~B[i].broken => ~(B[i - 1].bin < c /\ c < B[i].bin)
    BY Zenon DEF IsMarked
  <2> QED
    BY <2>2, <2>3
<1>2. r.start = BinStart(B[a].bin) /\ r.end = BinStart(B[z].bin + 1) /\ \A j \in (a + 1)..z : ~B[j].broken
  BY DEF SpansBins
<1>3. f[p].ts \in Nat /\ c \in Nat /\ B[a].bin <= c /\ c <= B[z].bin
  <2>1. f[p].ts \in 0..(Width - 1)
    BY FrameInstants
  <2>2. f[p].ts \in Nat
    BY <2>1, FramesAssumption
  <2>3. c \in Nat /\ c = BinOf(f[p].ts)
    BY <2>2, BinsAre DEF BinAt
  <2> DEFINE t == f[p].ts
             b == B[a].bin
             d == B[z].bin
  <2>4. t \in Nat /\ b \in Nat /\ d \in Nat /\ BinStart(b) < t /\ t < BinStart(d + 1) /\ c = BinOf(t)
    BY <1>1, <1>2, <2>2, <2>3
  <2> HIDE DEF t, b, d, c
  <2>5. b <= c /\ c <= d
    BY <2>4, BinsAre
  <2> QED
    BY <2>2, <2>3, <2>5 DEF b, d
<1> SUFFICES ASSUME \A j \in 1..n : B[j].bin # c PROVE FALSE
  OBVIOUS
<1> HIDE DEF B, c, n
<1>4. a \in 1..n /\ z \in 1..n /\ a <= z /\ z - a \in Nat
  BY <1>1 DEF B, n
<1> DEFINE Q == {k \in 0..(z - a) : B[a + k].bin < c}
<1>5. 0 \in Q
  <2>1. a + 0 = a /\ 0 \in 0..(z - a)
    BY <1>1, <1>4
  <2>2. B[a].bin < c
    BY <1>1, <1>3, <1>4
  <2> QED
    BY <2>1, <2>2
<1>6. \A k \in 0..((z - a) - 1) : k \in Q => k + 1 \in Q
  <2> SUFFICES ASSUME NEW k \in 0..((z - a) - 1), k \in Q PROVE k + 1 \in Q
    OBVIOUS
  <2>1. a \in Int /\ z \in Int /\ n \in Int /\ k \in Int
    BY <1>1, <1>4
  <2>2. k + 1 \in 0..(z - a) /\ a + k \in 1..n /\ a + (k + 1) \in 1..n /\ a + (k + 1) \in 2..n
        /\ a + (k + 1) \in (a + 1)..z /\ (a + (k + 1)) - 1 = a + k
    BY <1>1, <1>4, <2>1
  <2>3. ~B[a + (k + 1)].broken
    BY <1>2, <2>2
  <2>4. ~(B[a + k].bin < c /\ c < B[a + (k + 1)].bin)
    <3> DEFINE i == a + (k + 1)
    <3>1. i \in 2..n /\ ~B[i].broken /\ i - 1 = a + k
      BY <2>2, <2>3
    <3> HIDE DEF i
    <3>2. ~(B[i - 1].bin < c /\ c < B[i].bin)
      BY <1>1, <3>1
    <3> QED
      BY <3>1, <3>2 DEF i
  <2>5. B[a + k].bin < c
    OBVIOUS
  <2>6. B[a + (k + 1)].bin \in Nat /\ B[a + (k + 1)].bin # c
    BY <1>1, <2>2
  <2>7. B[a + (k + 1)].bin < c
    <3> DEFINE x == B[a + k].bin
               y == B[a + (k + 1)].bin
    <3>1. ~(x < c /\ c < y) /\ x < c /\ y \in Nat /\ y # c /\ c \in Nat
      BY <1>3, <2>4, <2>5, <2>6
    <3> HIDE DEF x, y
    <3>2. y < c
      BY <3>1
    <3> QED
      BY <3>2 DEF y
  <2> QED
    BY <2>2, <2>7
<1>7. z - a \in Q
  <2>1. z - a \in 0..(z - a)
    BY <1>4
  <2> HIDE DEF Q
  <2> QED
    BY <1>4, <1>5, <1>6, <2>1, UpToInduction
<1>8. a + (z - a) = z
  BY <1>4
<1>9. B[z].bin < c
  BY <1>7, <1>8
<1> QED
  BY <1>1, <1>3, <1>4, <1>9

\* The rug shows the samples that are not good, and no others.
LEMMA RugExact ==
    ASSUME delivered \in Seq(Samples)
    PROVE  RugMarksFlags
<1> DEFINE f == Frame
           runs == QualityRuns(f)
<1>1. IsFrame(f)
  BY DeliveredIsFrame
<1>f. f = Frame
  OBVIOUS
<1> HIDE DEF f
<1>2. PICK at : RugBins(f) = at.bins /\ IsMarked(at, f, Len(f))
  BY <1>1, RugBinsAre
<1> DEFINE B == at.bins
           n == Len(B)
<1>3. at \in RugWalks
  BY <1>2 DEF IsMarked
<1>4. BinsRise(B)
  <2>1. B \in Seq(Bins)
    BY <1>3, MarkFacts
  <2>2. \A i, j \in 1..Len(B) : i < j => B[i].bin < B[j].bin
    BY <1>2, Zenon DEF IsMarked
  <2> QED
    BY <2>1, <2>2 DEF BinsRise
<1>5. IsRug(runs, B, n)
  BY <1>2, <1>4, QualityRunsAre
<1>6. runs \in RugRuns
  BY <1>5 DEF IsRug
<1>7. /\ Len(runs) \in Nat /\ DOMAIN runs = 1..Len(runs)
      /\ \A i \in 1..Len(runs) : runs[i].start \in Nat /\ runs[i].end \in Nat
  BY <1>6, RugRunFacts
<1>8. Range(runs) = {runs[i] : i \in 1..Len(runs)}
  BY <1>7 DEF Range
<1>9. /\ f \in Seq(Samples) /\ Len(f) \in Nat /\ DOMAIN f = 1..Len(f)
      /\ \A i \in 1..Len(f) : f[i].ts \in 0..(Width - 1)
  <2>1. f \in Seq(Samples)
    BY <1>1 DEF IsFrame
  <2>2. Len(f) \in Nat /\ DOMAIN f = 1..Len(f)
    BY <2>1
  <2> QED
    BY <1>1, <2>1, <2>2, FrameInstants
<1>10. Range(f) = {f[i] : i \in 1..Len(f)}
  BY <1>9 DEF Range
<1>11. \A p \in 1..Len(f) : f[p].ts \in Nat
  BY <1>9, FramesAssumption
<1>12. /\ \A i \in 1..n : \E p \in 1..Len(f) : ~IsGood(f, p) /\ B[i].bin = BinAt(f, p)
       /\ \A p \in 1..Len(f) : ~IsGood(f, p) =>
             \E i \in 1..n : B[i].bin = BinAt(f, p) /\ RugRank[B[i].quality] >= RugRank[f[p].quality]
  BY <1>2, Zenon DEF IsMarked
<1>13. /\ \A i \in 1..Len(runs) : \E a, z \in 1..n : a <= z /\ SpansBins(runs[i], B, a, z)
       /\ \A i \in 2..Len(runs) : runs[i - 1].end <= runs[i].start
       /\ \A j \in 1..n : \E i \in 1..Len(runs) :
             runs[i].start <= BinStart(B[j].bin) /\ BinStart(B[j].bin + 1) <= runs[i].end /\ runs[i].quality = B[j].quality
  BY <1>5, Zenon DEF IsRug
<1>14. ASSUME NEW x \in Range(f), x.quality # "good"
       PROVE  \E r \in Range(runs) : r.start <= x.ts /\ x.ts <= r.end /\ RugRank[r.quality] >= RugRank[x.quality]
  <2>1. PICK p \in 1..Len(f) : x = f[p]
    BY <1>10
  <2>2. ~IsGood(f, p)
    BY <1>14, <2>1 DEF IsGood
  <2>3. PICK j \in 1..n : B[j].bin = BinAt(f, p) /\ RugRank[B[j].quality] >= RugRank[f[p].quality]
    BY <1>12, <2>2
  <2>4. PICK i \in 1..Len(runs) :
            runs[i].start <= BinStart(B[j].bin) /\ BinStart(B[j].bin + 1) <= runs[i].end /\ runs[i].quality = B[j].quality
    BY <1>13
  <2>5. x.ts \in Nat /\ runs[i].start \in Nat /\ runs[i].end \in Nat
    BY <1>7, <1>11, <2>1
  <2>6. B[j].bin = BinOf(x.ts)
    BY <2>1, <2>3 DEF BinAt
  <2>7. BinOf(x.ts) \in Nat /\ BinStart(BinOf(x.ts)) <= x.ts /\ x.ts <= BinStart(BinOf(x.ts) + 1)
    BY <2>5, BinsAre
  <2>8. BinStart(BinOf(x.ts)) \in Nat /\ BinStart(BinOf(x.ts) + 1) \in Nat
    BY <2>5, <2>7, BinsAre
  <2>9. runs[i].start <= x.ts /\ x.ts <= runs[i].end
    <3> DEFINE s == BinStart(BinOf(x.ts))
               e == BinStart(BinOf(x.ts) + 1)
    <3>1. s \in Nat /\ e \in Nat /\ s <= x.ts /\ x.ts <= e /\ runs[i].start <= s /\ e <= runs[i].end
      BY <2>4, <2>6, <2>7, <2>8
    <3> HIDE DEF s, e
    <3> QED
      BY <2>5, <3>1
  <2>10. runs[i] \in Range(runs)
    BY <1>8
  <2>11. RugRank[runs[i].quality] >= RugRank[x.quality]
    BY <2>1, <2>3, <2>4
  <2> QED
    BY <2>9, <2>10, <2>11
<1>15. ASSUME NEW x \in Range(f), NEW r \in Range(runs), x.quality = "good", r.start < x.ts, x.ts < r.end
       PROVE  \E y \in Range(f) : y.quality # "good" /\ BinOf(y.ts) = BinOf(x.ts)
  <2>1. PICK p \in 1..Len(f) : x = f[p]
    BY <1>10
  <2>2. PICK i \in 1..Len(runs) : r = runs[i]
    BY <1>8
  <2>3. PICK a \in 1..n, z \in 1..n : a <= z /\ SpansBins(runs[i], B, a, z)
    BY <1>13
  <2>4. IsGood(f, p) /\ r.start \in Nat /\ r.end \in Nat /\ r.start < f[p].ts /\ f[p].ts < r.end
    BY <1>7, <1>15, <2>1, <2>2 DEF IsGood
  <2>5. PICK j \in 1..n : B[j].bin = BinAt(f, p)
    BY <1>1, <1>2, <2>2, <2>3, <2>4, RunHidesNothing
  <2>6. PICK q \in 1..Len(f) : ~IsGood(f, q) /\ B[j].bin = BinAt(f, q)
    BY <1>12
  <2>7. f[q] \in Range(f) /\ f[q].quality # "good" /\ BinOf(f[q].ts) = BinOf(x.ts)
    BY <1>10, <2>1, <2>5, <2>6 DEF IsGood, BinAt
  <2> QED
    BY <2>7
<1>16. \A k \in 2..Len(runs) : runs[k - 1].end <= runs[k].start
  BY <1>13
<1> QED
  BY <1>14, <1>15, <1>16, <1>f, Zenon DEF RugMarksFlags

\* What the checks report of a series is exact, whatever its source delivered.
THEOREM WindowsTheorem == FramesSpec => []WindowsAreExact
<1> DEFINE Inv == delivered \in Seq(Samples)
<1>1. FramesInit => Inv
  BY DEF FramesInit
<1>2. Inv /\ [FramesNext]_frameVars => Inv'
  BY DEF FramesNext, Deliver, frameVars
<1>3. Inv => WindowsAreExact
  BY GapsExact, FlagsExact, EpisodesExact, RugExact DEF WindowsAreExact
<1> QED
  BY <1>1, <1>2, <1>3, PTL DEF FramesSpec

-----------------------------------------------------------------------------
(* The parts side by side: what each is shown to keep, all of them keep. *)

\* A behaviour of all is one of each part.
LEMMA PartsAreThere ==
    ChecksSpec => /\ Init /\ [][Next]_vars
                  /\ FramesSpec /\ CacheSpec /\ SpansSpec /\ ScoresSpec /\ HistorySpec /\ BrowseSpec
                  /\ IngestInit /\ [][IngestNext]_ingestVars
<1>0. ChecksInit => /\ Init /\ FramesInit /\ CacheInit /\ SpansInit /\ ScoresInit /\ HistoryInit /\ BrowseInit /\ IngestInit
  BY DEF ChecksInit
<1>1. [ChecksNext]_checksVars => [Next]_vars
  BY DEF ChecksNext, checksVars, vars
<1>2. [ChecksNext]_checksVars => [FramesNext]_frameVars
  BY DEF ChecksNext, checksVars, frameVars
<1>3. [ChecksNext]_checksVars => [CacheNext]_cacheVars
  BY DEF ChecksNext, checksVars, cacheVars
<1>4. [ChecksNext]_checksVars => [SpansNext]_spanVars
  BY DEF ChecksNext, checksVars, spanVars
<1>5. [ChecksNext]_checksVars => [ScoresNext]_reports
  BY DEF ChecksNext, checksVars
<1>6. [ChecksNext]_checksVars => [HistoryNext]_historyVars
  BY DEF ChecksNext, checksVars, historyVars
<1>7. [ChecksNext]_checksVars => [BrowseNext]_browseVars
  BY DEF ChecksNext, checksVars, browseVars
<1>8. [ChecksNext]_checksVars => [IngestNext]_ingestVars
  BY DEF ChecksNext, checksVars, ingestVars
<1> QED
  BY <1>0, <1>1, <1>2, <1>3, <1>4, <1>5, <1>6, <1>7, <1>8, PTL
     DEF ChecksSpec, FramesSpec, CacheSpec, SpansSpec, ScoresSpec, HistorySpec, BrowseSpec

\* The samples of a series and what the checks report of them have their types.
THEOREM FramesTypeCorrect == FramesSpec => []FramesTypeOK
<1> DEFINE Inv == delivered \in Seq(Samples) /\ Len(delivered) <= MaxSamples
<1>1. FramesInit => Inv
  BY FramesAssumption DEF FramesInit
<1>2. Inv /\ [FramesNext]_frameVars => Inv'
  <2> SUFFICES ASSUME Inv, [FramesNext]_frameVars PROVE Inv'
    OBVIOUS
  <2>1. ASSUME NEW x \in Samples, Len(delivered) < MaxSamples, delivered' = Append(delivered, x) PROVE Inv'
    BY <2>1, FramesAssumption
  <2>2. CASE UNCHANGED frameVars
    BY <2>2 DEF frameVars
  <2> QED
    BY <2>1, <2>2 DEF FramesNext, Deliver
<1>3. Inv => FramesTypeOK
  BY FramesTyped
<1> QED
  BY <1>1, <1>2, <1>3, PTL DEF FramesSpec

\* The findings a score is made of have their types.
LEMMA ScoresTypesHold == ScoresSpec => []ScoresTypeOK
<1>1. ScoresInit => ScoresTypeOK
  BY ScoresAssumption DEF ScoresInit, ScoresTypeOK
<1>2. ScoresTypeOK /\ [ScoresNext]_reports => ScoresTypeOK'
  <2> SUFFICES ASSUME ScoresTypeOK, [ScoresNext]_reports PROVE ScoresTypeOK'
    OBVIOUS
  <2>1. CASE ReportFinding
    <3>1. PICK ends \in Ends, weight \in Weights, n \in Affected :
              reports' = Append(reports, [start |-> ends[1], end |-> ends[2], weight |-> weight, affected |-> n])
      BY <2>1 DEF ReportFinding
    <3> DEFINE f == [start |-> ends[1], end |-> ends[2], weight |-> weight, affected |-> n]
    <3>2. ends[1] \in Nat /\ ends[2] \in Nat
      BY ScoresAssumption
    <3>3. f \in ScoredFindings
      BY <3>2 DEF ScoredFindings
    <3>4. reports' = Append(reports, f) /\ Len(reports) < MaxReported /\ reports \in Seq(ScoredFindings)
      BY <2>1, <3>1 DEF ReportFinding, ScoresTypeOK
    <3> HIDE DEF f
    <3> QED
      BY <3>3, <3>4, ScoresAssumption DEF ScoresTypeOK
  <2>2. CASE UNCHANGED reports
    BY <2>2 DEF ScoresTypeOK
  <2> QED
    BY <2>1, <2>2 DEF ScoresNext
<1> QED
  BY <1>1, <1>2, PTL DEF ScoresSpec

\* The type invariants of all parts hold together.
THEOREM ChecksTypeCorrect == ChecksSpec => []ChecksTypeOK
<1>1. FindingsIInv => TypeOK
  BY DEF FindingsIInv, FindingTypes
<1>2. IngestIInv => IngestTypeOK
  BY IngestTypeFact
<1>3. IngestIInv /\ [IngestNext]_ingestVars => IngestIInv'
  BY IngestStep
<1>4. TypeOK /\ FramesTypeOK /\ IngestTypeOK /\ CacheTypeOK /\ SpansTypeOK /\ ScoresTypeOK /\ HistoryTypeOK /\ BrowseTypeOK
        => ChecksTypeOK
  BY DEF ChecksTypeOK
<1> QED
  BY <1>1, <1>2, <1>3, <1>4, PartsAreThere, InitHolds, NextHolds, IngestInitHolds, FramesTypeCorrect, CacheTypeCorrect,
     SpansTypesHold, ScoresTypesHold, HistoryTypeCorrect, BrowseTypeCorrect, PTL

\* What the core computes of a delivery and of flagged bins, and what a search finds, is exact in a behaviour
\* of all parts; it is what AnswersAreExact says but of scores.
THEOREM ExactTheorem == ChecksSpec => [](FramesNormalize /\ WindowsAreExact /\ SpansAreExact /\ SearchFindsAll)
  BY PartsAreThere, NormalizeTheorem, WindowsTheorem, SpansTheorem, SearchTheorem, PTL
=============================================================================
