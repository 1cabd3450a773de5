---------------------------- MODULE FramesProofs ----------------------------
(***************************************************************************)
(* Proofs about what the core makes of a delivery of samples (Frames), for *)
(* any samples, thresholds and lengths: the normalization of a series, its *)
(* gaps, the windows of its flags, and the episodes of its segments.       *)
(* ChecksProofs goes on with the rug of a chart.                           *)
(*                                                                         *)
(* The core computes by walks over samples and positions, which are folds  *)
(* here, and a fold CHOOSEs a function: one exists (FoldExists), so that   *)
(* the walk goes step by step (...Steps).  What a walk has made so far     *)
(* (IsKept, IsGapped, IsRunning, IsMerged) is kept with every step         *)
(* (...Keeps), and what it has made at its end is what the properties say  *)
(* (...Exact).  The walk over runs (Walks) and products are here too, for  *)
(* the modules that extend this one.                                       *)
(* Inductions are over sets of numbers, with UpwardInduction.              *)
(***************************************************************************)
EXTENDS Frames, FiniteSetTheorems, FunctionTheorems, SequenceTheorems, WellFoundedInduction, TLAPS

-----------------------------------------------------------------------------
(* Induction over the naturals, for a set instead of a predicate *)

\* What holds of 0 and goes on holds of every number.
LEMMA UpwardInduction ==
    ASSUME NEW S, 0 \in S, \A n \in Nat : n \in S => n + 1 \in S
    PROVE  Nat \subseteq S
<1> DEFINE rest == Nat \ S
<1> SUFFICES ASSUME rest # {} PROVE FALSE
  OBVIOUS
<1>1. PICK x \in rest : \A y \in rest : <<y, x>> \notin OpToRel(<, Nat)
  BY NatLessThanWellFounded, WFMin
<1>2. x # 0 /\ x - 1 \in Nat /\ x - 1 < x /\ x - 1 \in S
  <2>1. x \in Nat /\ x \notin S /\ x # 0 /\ x - 1 \in Nat /\ x - 1 < x
    OBVIOUS
  <2> QED
    BY <1>1, <2>1 DEF OpToRel
<1> QED
  BY <1>2

-----------------------------------------------------------------------------
(* Folds over positions: there is a function that folds, so that CHOOSE finds one *)

\* The greatest of positions up to n + 1 that has n + 1.
LEMMA GreatestOf ==
    ASSUME NEW n \in Nat, NEW S \in SUBSET (1..(n + 1)), n + 1 \in S
    PROVE  Max(S) = n + 1
<1>1. \A y \in S : n + 1 >= y /\ y \in Int
  OBVIOUS
<1>2. \A x \in S : (\A y \in S : x >= y) => x = n + 1
  BY <1>1
<1>3. Max(S) \in S /\ \A y \in S : Max(S) >= y
  BY <1>1 DEF Max
<1> QED
  BY <1>2, <1>3

\* Some positions have a greatest one.
LEMMA GreatestIn ==
    ASSUME NEW n \in Nat, NEW S \in SUBSET (1..n), S # {}
    PROVE  Max(S) \in S
<1> DEFINE Q == {k \in Nat : \A T \in SUBSET (1..k) : T # {} => Max(T) \in T}
<1>1. 0 \in Q
  <2>1. \A T \in SUBSET (1..0) : T = {}
    OBVIOUS
  <2> QED
    BY <2>1
<1>2. ASSUME NEW k \in Nat, k \in Q PROVE k + 1 \in Q
  <2> SUFFICES ASSUME NEW T \in SUBSET (1..(k + 1)), T # {} PROVE Max(T) \in T
    OBVIOUS
  <2>1. CASE k + 1 \in T
    BY <2>1, GreatestOf
  <2>2. CASE k + 1 \notin T
    <3>1. T \in SUBSET (1..k)
      BY <2>2
    <3> QED
      BY <1>2, <3>1
  <2> QED
    BY <2>1, <2>2
<1> HIDE DEF Q
<1>3. n \in Q
  BY <1>1, <1>2, UpwardInduction
<1> QED
  BY <1>3 DEF Q

\* What a fold over positions has reached with each set of them, the greatest of a set last.
IsFold(g, k, base, F) ==
    \A S \in SUBSET (1..k) : g[S] = IF S = {} THEN base ELSE F[<<g[S \ {Max(S)}], Max(S)>>]

\* There is a fold over the first k of n positions.
FoldsTo(A, base, F, n, k) == k <= n => \E g \in [SUBSET (1..k) -> A] : IsFold(g, k, base, F)

\* There is a fold over all of them: one more position adds the sets that end with it.
LEMMA FoldExists ==
    ASSUME NEW A, NEW base \in A, NEW n \in Nat, NEW F \in [A \X (1..n) -> A]
    PROVE  \E g \in [SUBSET (1..n) -> A] : IsFold(g, n, base, F)
<1> DEFINE Q == {k \in Nat : FoldsTo(A, base, F, n, k)}
<1>1. 0 \in Q
  <2> DEFINE g == [S \in SUBSET (1..0) |-> base]
  <2>1. \A S \in SUBSET (1..0) : S = {}
    OBVIOUS
  <2>2. g \in [SUBSET (1..0) -> A] /\ IsFold(g, 0, base, F)
    BY <2>1 DEF IsFold
  <2> HIDE DEF g
  <2> QED
    BY <2>2 DEF FoldsTo
<1>2. ASSUME NEW k \in Nat, FoldsTo(A, base, F, n, k) PROVE FoldsTo(A, base, F, n, k + 1)
  <2> SUFFICES ASSUME k + 1 <= n PROVE \E g \in [SUBSET (1..(k + 1)) -> A] : IsFold(g, k + 1, base, F)
    BY DEF FoldsTo
  <2>0. k <= n /\ k + 1 \in 1..n
    OBVIOUS
  <2>1. PICK f \in [SUBSET (1..k) -> A] : IsFold(f, k, base, F)
    BY <1>2, <2>0 DEF FoldsTo
  <2> DEFINE g == [S \in SUBSET (1..(k + 1)) |-> IF k + 1 \in S THEN F[<<f[S \ {k + 1}], k + 1>>] ELSE f[S]]
  <2>2. ASSUME NEW S \in SUBSET (1..(k + 1)), k + 1 \in S
        PROVE  g[S] \in A /\ g[S] = IF S = {} THEN base ELSE F[<<g[S \ {Max(S)}], Max(S)>>]
    <3>1. Max(S) = k + 1
      BY <2>2, GreatestOf
    <3>2. S \ {k + 1} \in SUBSET (1..k) /\ S \ {k + 1} \in SUBSET (1..(k + 1)) /\ k + 1 \notin S \ {k + 1}
      OBVIOUS
    <3>3. g[S \ {k + 1}] = f[S \ {k + 1}] /\ f[S \ {k + 1}] \in A
      BY <3>2
    <3>4. g[S] = F[<<f[S \ {k + 1}], k + 1>>] /\ S # {}
      BY <2>2
    <3> HIDE DEF g
    <3>5. F[<<f[S \ {k + 1}], k + 1>>] \in A
      BY <2>0, <3>3
    <3> QED
      BY <3>1, <3>3, <3>4, <3>5
  <2>3. ASSUME NEW S \in SUBSET (1..(k + 1)), k + 1 \notin S
        PROVE  g[S] \in A /\ g[S] = IF S = {} THEN base ELSE F[<<g[S \ {Max(S)}], Max(S)>>]
    <3>1. S \in SUBSET (1..k)
      BY <2>3
    <3>2. g[S] = f[S] /\ f[S] \in A
      BY <2>3, <3>1
    <3>3. f[S] = IF S = {} THEN base ELSE F[<<f[S \ {Max(S)}], Max(S)>>]
      BY <2>1, <3>1 DEF IsFold
    <3>4. S \ {Max(S)} \in SUBSET (1..(k + 1)) /\ k + 1 \notin S \ {Max(S)}
      BY <2>3
    <3>5. g[S \ {Max(S)}] = f[S \ {Max(S)}]
      BY <3>4
    <3> HIDE DEF g
    <3> QED
      BY <3>2, <3>3, <3>5
  <2>4. g = [S \in SUBSET (1..(k + 1)) |-> g[S]]
    OBVIOUS
  <2>5. \A S \in SUBSET (1..(k + 1)) : g[S] \in A
    <3> HIDE DEF g
    <3> QED
      BY <2>2, <2>3
  <2>6. IsFold(g, k + 1, base, F)
    <3> HIDE DEF g
    <3> QED
      BY <2>2, <2>3 DEF IsFold
  <2>7. g \in [SUBSET (1..(k + 1)) -> A]
    <3> HIDE DEF g
    <3> QED
      BY <2>4, <2>5
  <2> HIDE DEF g
  <2> QED
    BY <2>6, <2>7
<1>3. \A k \in Nat : k \in Q => k + 1 \in Q
  BY <1>2
<1> HIDE DEF Q
<1>4. n \in Q
  BY <1>1, <1>3, UpwardInduction
<1>5. FoldsTo(A, base, F, n, n) /\ n <= n
  BY <1>4 DEF Q
<1> QED
  BY <1>5, Zenon DEF FoldsTo

\* The steps of a fold: what was reached with the first k.
LEMMA FoldSteps ==
    ASSUME NEW n \in Nat, NEW k \in Nat, k + 1 \in 1..n
    PROVE  /\ Max(1..(k + 1)) = k + 1 /\ (1..(k + 1)) \ {k + 1} = 1..k
           /\ 1..(k + 1) \in SUBSET (1..n) /\ 1..(k + 1) # {}
<1>1. k + 1 \in 1..(k + 1)
  OBVIOUS
<1>2. 1..(k + 1) \in SUBSET (1..(k + 1)) /\ 1..(k + 1) \in SUBSET (1..n) /\ 1..(k + 1) # {}
  BY <1>1
<1>3. Max(1..(k + 1)) = k + 1
  BY <1>1, <1>2, GreatestOf
<1>4. (1..(k + 1)) \ {k + 1} = 1..k
  OBVIOUS
<1> QED
  BY <1>2, <1>3, <1>4

-----------------------------------------------------------------------------
(* The order of the samples (Frames) *)

\* A delivery has samples at its positions, with an instant each.
LEMMA SampleFacts ==
    ASSUME NEW s \in Seq(Samples)
    PROVE  /\ DOMAIN s = 1..Len(s) /\ Len(s) \in Nat
           /\ \A i \in 1..Len(s) : s[i] \in Samples /\ s[i].ts \in Int
<1>1. DOMAIN s = 1..Len(s) /\ Len(s) \in Nat /\ \A i \in 1..Len(s) : s[i] \in Samples
  OBVIOUS
<1>2. \A x \in Samples : x.ts \in Int
  BY FramesAssumption
<1> QED
  BY <1>1, <1>2

\* How many samples come before one.
Rank(s, i) == Cardinality({j \in DOMAIN s : ComesBefore(s, j, i)})

\* Ranks are positions but one, and grow with the order.
LEMMA RankIs ==
    ASSUME NEW s \in Seq(Samples)
    PROVE  /\ \A i \in 1..Len(s) : Rank(s, i) \in 0..(Len(s) - 1)
           /\ \A i, j \in 1..Len(s) : ComesBefore(s, i, j) => Rank(s, i) < Rank(s, j)
           /\ \A i, j \in 1..Len(s) : i # j => ComesBefore(s, i, j) \/ ComesBefore(s, j, i)
<1> DEFINE n == Len(s)
           Ahead(i) == {j \in DOMAIN s : ComesBefore(s, j, i)}
<1>1. DOMAIN s = 1..n /\ n \in Nat /\ \A i \in 1..n : s[i].ts \in Int
  BY SampleFacts
<1>2. IsFiniteSet(1..n) /\ Cardinality(1..n) = n
  <2>1. IsFiniteSet(1..n) /\ Cardinality(1..n) = IF 1 > n THEN 0 ELSE n - 1 + 1
    BY <1>1, FS_Interval
  <2> QED
    BY <1>1, <2>1
<1>3. ASSUME NEW i \in 1..n
      PROVE  /\ Ahead(i) \subseteq 1..n /\ i \notin Ahead(i)
             /\ IsFiniteSet(Ahead(i)) /\ Cardinality(Ahead(i)) \in 0..(n - 1)
  <2>1. Ahead(i) \subseteq 1..n /\ i \notin Ahead(i)
    BY <1>1 DEF ComesBefore
  <2> HIDE DEF Ahead
  <2>2. IsFiniteSet(Ahead(i)) /\ Cardinality(Ahead(i)) <= n /\ Cardinality(Ahead(i)) # n
    <3>1. Ahead(i) \in SUBSET (1..n) /\ Ahead(i) # 1..n
      BY <2>1
    <3> QED
      BY <1>2, <3>1, FS_Subset
  <2>3. Cardinality(Ahead(i)) \in Nat
    BY <2>2, FS_CardinalityType
  <2> QED
    BY <1>1, <2>1, <2>2, <2>3
<1>4. ASSUME NEW i \in 1..n, NEW j \in 1..n, ComesBefore(s, i, j) PROVE Cardinality(Ahead(i)) < Cardinality(Ahead(j))
  <2>1. Ahead(i) \subseteq Ahead(j)
    BY <1>1, <1>4 DEF ComesBefore
  <2>2. i \in Ahead(j) /\ i \notin Ahead(i)
    BY <1>1, <1>3, <1>4
  <2> HIDE DEF Ahead
  <2>3. Cardinality(Ahead(i)) <= Cardinality(Ahead(j)) /\ Cardinality(Ahead(i)) # Cardinality(Ahead(j))
    <3>1. Ahead(i) \in SUBSET Ahead(j) /\ Ahead(i) # Ahead(j)
      BY <2>1, <2>2
    <3> QED
      BY <1>3, <3>1, FS_Subset
  <2> QED
    BY <1>1, <1>3, <2>3
<1>5. \A i, j \in 1..n : i # j => ComesBefore(s, i, j) \/ ComesBefore(s, j, i)
  BY <1>1 DEF ComesBefore
<1> QED
  BY <1>3, <1>4, <1>5 DEF Rank

\* The order is one of the positions, each once, and it is that of ComesBefore.
LEMMA OrderIs ==
    ASSUME NEW s \in Seq(Samples)
    PROVE  /\ Order(s) \in [1..Len(s) -> 1..Len(s)]
           /\ \A i \in 1..Len(s) : \E k \in 1..Len(s) : Order(s)[k] = i
           /\ \A k, l \in 1..Len(s) : k < l => Order(s)[k] # Order(s)[l] /\ ComesBefore(s, Order(s)[k], Order(s)[l])
<1> DEFINE n == Len(s)
           R == [i \in 1..n |-> Rank(s, i)]
<1>1. DOMAIN s = 1..n /\ n \in Nat
  BY SampleFacts
<1>2. \A i \in 1..n : Rank(s, i) \in 0..(n - 1)
  BY RankIs
<1>3. \A i, j \in 1..n : i # j => Rank(s, i) # Rank(s, j)
  <2> SUFFICES ASSUME NEW i \in 1..n, NEW j \in 1..n, i # j PROVE Rank(s, i) # Rank(s, j)
    OBVIOUS
  <2>1. Rank(s, i) < Rank(s, j) \/ Rank(s, j) < Rank(s, i)
    BY RankIs
  <2>2. Rank(s, i) \in Int /\ Rank(s, j) \in Int
    BY <1>2
  <2> QED
    BY <2>1, <2>2
<1>4. R \in Injection(1..n, 0..(n - 1))
  <2>1. R \in [1..n -> 0..(n - 1)]
    BY <1>2
  <2>2. \A i, j \in 1..n : R[i] = R[j] => i = j
    BY <1>3
  <2> HIDE DEF R
  <2> QED
    BY <2>1, <2>2 DEF Injection, IsInjective
<1>5. IsFiniteSet(1..n) /\ IsFiniteSet(0..(n - 1)) /\ Cardinality(1..n) = Cardinality(0..(n - 1))
  BY <1>1, FS_Interval
<1>6. R \in Surjection(1..n, 0..(n - 1))
  <2> HIDE DEF R
  <2> QED
    BY <1>4, <1>5, FS_Injection
<1>7. \A k \in 1..n : \E i \in 1..n : Rank(s, i) = k - 1
  <2> SUFFICES ASSUME NEW k \in 1..n PROVE \E i \in 1..n : Rank(s, i) = k - 1
    OBVIOUS
  <2>1. k - 1 \in 0..(n - 1)
    OBVIOUS
  <2>2. \E i \in 1..n : R[i] = k - 1
    <3> HIDE DEF R
    <3> QED
      BY <1>6, <2>1 DEF Surjection
  <2> QED
    BY <2>2
<1> HIDE DEF R
<1>8. ASSUME NEW k \in 1..n PROVE Order(s)[k] \in 1..n /\ Rank(s, Order(s)[k]) = k - 1
  <2>1. Order(s)[k] = CHOOSE i \in 1..n : Rank(s, i) = k - 1
    BY <1>1 DEF Order, Rank
  <2> QED
    BY <1>7, <2>1
<1>9. Order(s) \in [1..n -> 1..n]
  <2> DEFINE At(k) == CHOOSE i \in DOMAIN s : Cardinality({j \in DOMAIN s : ComesBefore(s, j, i)}) = k - 1
  <2>1. Order(s) = [k \in 1..n |-> At(k)]
    BY <1>1 DEF Order
  <2> HIDE DEF At
  <2>2. \A k \in 1..n : At(k) \in 1..n
    BY <1>8, <2>1
  <2> QED
    BY <2>1, <2>2
<1>10. ASSUME NEW i \in 1..n PROVE \E k \in 1..n : Order(s)[k] = i
  <2> DEFINE k == Rank(s, i) + 1
  <2>1. k \in 1..n /\ k - 1 = Rank(s, i)
    BY <1>1, <1>2
  <2>2. Order(s)[k] \in 1..n /\ Rank(s, Order(s)[k]) = Rank(s, i)
    BY <1>8, <2>1
  <2> QED
    BY <1>3, <2>1, <2>2
<1>11. ASSUME NEW k \in 1..n, NEW l \in 1..n, k < l
       PROVE  Order(s)[k] # Order(s)[l] /\ ComesBefore(s, Order(s)[k], Order(s)[l])
  <2> DEFINE i == Order(s)[k]  j == Order(s)[l]
  <2>1. i \in 1..n /\ j \in 1..n /\ Rank(s, i) = k - 1 /\ Rank(s, j) = l - 1
    BY <1>8
  <2> HIDE DEF i, j
  <2>2. i # j /\ ~(Rank(s, j) < Rank(s, i))
    BY <1>11, <2>1
  <2>3. ComesBefore(s, i, j)
    BY <2>1, <2>2, RankIs
  <2> QED
    BY <2>2, <2>3 DEF i, j
<1> QED
  BY <1>9, <1>10, <1>11

-----------------------------------------------------------------------------
(* The normalization, sample by sample *)

\* What the normalization has kept and counted.
Totals == [frame : Seq(Samples), exact : Nat, conflicting : Nat]
Nothing == [frame |-> <<>>, exact |-> 0, conflicting |-> 0]

\* The sample has a new instant, or one that it shares with the last one that was kept.
IsNewInstant(at, x) == at.frame = <<>> \/ Last(at.frame).ts # x.ts

\* What Keep does with a sample of a new instant, and with one that repeats the last instant
\* (frame.rs:191-209).
LEMMA KeepIs ==
    ASSUME NEW at \in Totals, NEW x \in Samples
    PROVE  /\ Keep(at, x) \in Totals
           /\ IsNewInstant(at, x) =>
                /\ Keep(at, x).frame = Append(at.frame, x)
                /\ Keep(at, x).exact = at.exact /\ Keep(at, x).conflicting = at.conflicting
           /\ ~IsNewInstant(at, x) =>
                /\ Keep(at, x).frame = at.frame /\ at.frame # <<>> /\ Last(at.frame).ts = x.ts
                /\ (Last(at.frame).value = x.value /\ Last(at.frame).quality = x.quality) =>
                      Keep(at, x).exact = at.exact + 1 /\ Keep(at, x).conflicting = at.conflicting
                /\ ~(Last(at.frame).value = x.value /\ Last(at.frame).quality = x.quality) =>
                      Keep(at, x).exact = at.exact /\ Keep(at, x).conflicting = at.conflicting + 1
<1>1. CASE IsNewInstant(at, x)
  <2>1. Keep(at, x) = [at EXCEPT !.frame = Append(@, x)]
    BY <1>1 DEF Keep, IsNewInstant
  <2>2. Append(at.frame, x) \in Seq(Samples)
    BY DEF Totals
  <2> QED
    BY <1>1, <2>1, <2>2 DEF Totals
<1>2. CASE ~IsNewInstant(at, x)
  <2>0. at.frame # <<>> /\ Last(at.frame).ts = x.ts
    BY <1>2 DEF IsNewInstant
  <2>1. CASE Last(at.frame).value = x.value /\ Last(at.frame).quality = x.quality
    <3>1. Keep(at, x) = [at EXCEPT !.exact = @ + 1]
      BY <1>2, <2>1 DEF Keep, IsNewInstant
    <3> QED
      BY <1>2, <2>0, <2>1, <3>1 DEF Totals
  <2>2. CASE ~(Last(at.frame).value = x.value /\ Last(at.frame).quality = x.quality)
    <3>1. Keep(at, x) = [at EXCEPT !.conflicting = @ + 1]
      BY <1>2, <2>2 DEF Keep, IsNewInstant
    <3> QED
      BY <1>2, <2>0, <2>2, <3>1 DEF Totals
  <2> QED
    BY <2>1, <2>2
<1> QED
  BY <1>1, <1>2

\* The function the fold of Normalized is the value of.
Normalizes(g, s) ==
    g = [S \in SUBSET (DOMAIN Order(s)) |->
           IF S = {} THEN Nothing ELSE Keep(g[S \ {Max(S)}], s[Order(s)[Max(S)]])]

\* The normalization takes one sample after the other, in the order of Order.
LEMMA NormalizedSteps ==
    ASSUME NEW s \in Seq(Samples)
    PROVE  \E h : /\ h[0] = Nothing
                  /\ \A k \in 0..(Len(s) - 1) : h[k + 1] = Keep(h[k], s[Order(s)[k + 1]])
                  /\ Normalized(s) = h[Len(s)]
<1> DEFINE n == Len(s)
           F == [p \in Totals \X (1..n) |-> Keep(p[1], s[Order(s)[p[2]]])]
           c == CHOOSE g : Normalizes(g, s)
           h == [k \in 0..n |-> c[1..k]]
<1>1. /\ n \in Nat /\ Order(s) \in [1..n -> 1..n] /\ DOMAIN Order(s) = 1..n
      /\ \A i \in 1..n : s[Order(s)[i]] \in Samples
  BY OrderIs, SampleFacts
<1>2. Nothing \in Totals
  BY DEF Nothing, Totals
<1>3. F \in [Totals \X (1..n) -> Totals]
  BY <1>1, KeepIs
<1>4. \A a \in Totals, i \in 1..n : F[<<a, i>>] = Keep(a, s[Order(s)[i]])
  OBVIOUS
<1> HIDE DEF F
<1>5. PICK g \in [SUBSET (1..n) -> Totals] : IsFold(g, n, Nothing, F)
  BY <1>1, <1>2, <1>3, FoldExists
<1>6. Normalizes(g, s)
  <2>1. ASSUME NEW S \in SUBSET (1..n)
        PROVE  g[S] = IF S = {} THEN Nothing ELSE Keep(g[S \ {Max(S)}], s[Order(s)[Max(S)]])
    <3>1. CASE S = {}
      BY <1>5, <3>1 DEF IsFold
    <3>2. CASE S # {}
      <4>1. Max(S) \in 1..n /\ g[S \ {Max(S)}] \in Totals
        BY <1>1, <3>2, GreatestIn
      <4> QED
        BY <1>4, <1>5, <3>2, <4>1 DEF IsFold
    <3> QED
      BY <3>1, <3>2
  <2>2. g = [S \in SUBSET (1..n) |-> g[S]]
    OBVIOUS
  <2> QED
    BY <1>1, <2>1, <2>2 DEF Normalizes
<1>7. Normalizes(c, s)
  BY <1>6
<1>8. Normalized(s) = c[1..n]
  BY <1>1 DEF Normalized, FoldLeft, MapThenFoldSet, Normalizes, Nothing
<1> HIDE DEF c
<1>9. \A S \in SUBSET (1..n) : c[S] = IF S = {} THEN Nothing ELSE Keep(c[S \ {Max(S)}], s[Order(s)[Max(S)]])
  BY <1>1, <1>7 DEF Normalizes
<1>10. h[0] = Nothing
  <2>1. 1..0 = {} /\ {} \in SUBSET (1..n) /\ 0 \in 0..n
    BY <1>1
  <2> QED
    BY <1>9, <2>1
<1>11. ASSUME NEW k \in 0..(n - 1) PROVE h[k + 1] = Keep(h[k], s[Order(s)[k + 1]])
  <2>1. k \in Nat /\ k + 1 \in 1..n /\ k \in 0..n /\ k + 1 \in 0..n
    BY <1>1
  <2>2. /\ Max(1..(k + 1)) = k + 1 /\ (1..(k + 1)) \ {k + 1} = 1..k
        /\ 1..(k + 1) \in SUBSET (1..n) /\ 1..(k + 1) # {}
    BY <1>1, <2>1, FoldSteps
  <2>3. c[1..(k + 1)] = Keep(c[1..k], s[Order(s)[k + 1]])
    BY <1>9, <2>2
  <2> QED
    BY <2>1, <2>3
<1>12. Normalized(s) = h[n]
  BY <1>1, <1>8
<1> HIDE DEF h
<1> QED
  BY <1>10, <1>11, <1>12

-----------------------------------------------------------------------------
(* What the normalization keeps *)

\* The sample is the first one of its instant.
IsFirst(s, j) == \A m \in 1..(j - 1) : s[m].ts # s[j].ts

\* Those of some samples that are among the first k in order.
AmongFirst(s, k, S) == {i \in S : \E j \in 1..k : Order(s)[j] = i}

\* The first k in order were normalized to `at`.
IsKept(s, k, at) ==
    /\ at \in Totals
    /\ Len(at.frame) + at.exact + at.conflicting = k
    /\ k # 0 => at.frame # <<>> /\ at.frame[Len(at.frame)].ts = s[Order(s)[k]].ts
    /\ k = 0 => at.frame = <<>>
    /\ \A i, j \in 1..Len(at.frame) : i < j => at.frame[i].ts < at.frame[j].ts
    /\ \A i \in 1..Len(at.frame) : \E j \in 1..Len(s) : at.frame[i] = s[j] /\ IsFirst(s, j)
    /\ \A j \in 1..k : \E i \in 1..Len(at.frame) : at.frame[i].ts = s[Order(s)[j]].ts

\* The first k in order were counted, if no infinite value is among them.
IsCounted(s, k, at) ==
    (\A i \in 1..Len(s) : s[i].value # "inf") =>
        /\ at.exact = Cardinality(AmongFirst(s, k, ExactRepeats(s)))
        /\ at.conflicting = Cardinality(AmongFirst(s, k, Repeated(s) \ ExactRepeats(s)))

\* Who was first, and who repeats.
LEMMA FirstSeenIs ==
    ASSUME NEW s \in Seq(Samples), NEW i \in 1..Len(s), NEW j \in 1..Len(s), IsFirst(s, j), s[j].ts = s[i].ts
    PROVE  FirstSeen(s, i) = j /\ j <= i
<1>1. j <= i
  <2> SUFFICES ASSUME i < j PROVE FALSE
    OBVIOUS
  <2>1. i \in 1..(j - 1)
    OBVIOUS
  <2> QED
    BY <2>1 DEF IsFirst
<1>2. j \in 1..i /\ s[j].ts = s[i].ts /\ \A k \in 1..(j - 1) : s[k].ts # s[i].ts
  BY <1>1 DEF IsFirst
<1>3. ASSUME NEW m \in 1..i, s[m].ts = s[i].ts, \A k \in 1..(m - 1) : s[k].ts # s[i].ts PROVE m = j
  <2>1. ~(m < j)
    <3> SUFFICES ASSUME m < j PROVE FALSE
      OBVIOUS
    <3>1. m \in 1..(j - 1)
      OBVIOUS
    <3> QED
      BY <1>2, <1>3, <3>1
  <2>2. ~(j < m)
    <3> SUFFICES ASSUME j < m PROVE FALSE
      OBVIOUS
    <3>1. j \in 1..(m - 1)
      OBVIOUS
    <3> QED
      BY <1>2, <1>3, <3>1
  <2> QED
    BY <2>1, <2>2
<1>4. FirstSeen(s, i) = j
  BY <1>2, <1>3 DEF FirstSeen
<1> QED
  BY <1>1, <1>4

\* What comes with the next sample in order.
LEMMA NextInOrder ==
    ASSUME NEW s \in Seq(Samples), NEW k \in 0..(Len(s) - 1), NEW at, IsKept(s, k, at)
    PROVE  LET i == Order(s)[k + 1] IN
           /\ i \in 1..Len(s) /\ at \in Totals /\ s[i] \in Samples
           /\ \A j \in 1..Len(at.frame) : at.frame[j].ts <= s[i].ts
           /\ IsNewInstant(at, s[i]) => /\ IsFirst(s, i)
                                        /\ \A j \in 1..Len(at.frame) : at.frame[j].ts < s[i].ts
           /\ ~IsNewInstant(at, s[i]) =>
                \E j \in 1..Len(s) : at.frame[Len(at.frame)] = s[j] /\ IsFirst(s, j) /\ s[j].ts = s[i].ts /\ j < i
<1> DEFINE n == Len(s)
           o == Order(s)
<1>1. n \in Nat /\ \A j \in 1..n : s[j] \in Samples /\ s[j].ts \in Int
  BY SampleFacts
<1>2. /\ o \in [1..n -> 1..n]
      /\ \A j \in 1..n : \E l \in 1..n : o[l] = j
      /\ \A l, m \in 1..n : l < m => o[l] # o[m] /\ ComesBefore(s, o[l], o[m])
  BY OrderIs
<1> HIDE DEF o
<1>3. k \in Nat /\ k + 1 \in 1..n /\ (k # 0 => k \in 1..n)
  BY <1>1
<1>4. PICK i \in 1..n : i = o[k + 1]
  BY <1>2, <1>3
<1>5. /\ at \in Totals /\ at.frame \in Seq(Samples) /\ Len(at.frame) \in Nat
      /\ \A j \in 1..Len(at.frame) : at.frame[j] \in Samples /\ at.frame[j].ts \in Int
      /\ (at.frame # <<>> => Len(at.frame) \in 1..Len(at.frame))
  <2>1. at \in Totals /\ at.frame \in Seq(Samples)
    BY DEF IsKept, Totals
  <2> QED
    BY <2>1, SampleFacts
\* What has come in order is not later than the last of it.
<1>6. \A j \in 1..k : s[o[j]].ts <= s[o[k]].ts
  <2> SUFFICES ASSUME NEW j \in 1..k PROVE s[o[j]].ts <= s[o[k]].ts
    OBVIOUS
  <2>1. j \in 1..n /\ k \in 1..n /\ (j < k \/ j = k)
    BY <1>1, <1>3
  <2>2. o[j] \in 1..n /\ o[k] \in 1..n
    BY <1>2, <2>1
  <2>3. j < k => ComesBefore(s, o[j], o[k])
    BY <1>2, <2>1
  <2> QED
    BY <1>1, <2>1, <2>2, <2>3 DEF ComesBefore
<1>7. k # 0 => ComesBefore(s, o[k], i) /\ o[k] # i /\ o[k] \in 1..n /\ s[o[k]].ts <= s[i].ts
  <2> SUFFICES ASSUME k # 0 PROVE ComesBefore(s, o[k], i) /\ o[k] # i /\ o[k] \in 1..n /\ s[o[k]].ts <= s[i].ts
    OBVIOUS
  <2>1. k \in 1..n /\ k < k + 1
    BY <1>3
  <2>2. ComesBefore(s, o[k], i) /\ o[k] # i /\ o[k] \in 1..n
    BY <1>2, <1>3, <1>4, <2>1
  <2> QED
    BY <1>1, <2>2 DEF ComesBefore
<1>8. at.frame # <<>> => k # 0 /\ at.frame[Len(at.frame)].ts = s[o[k]].ts
  BY DEF IsKept, o
<1>9. \A j \in 1..Len(at.frame) : at.frame[j].ts <= at.frame[Len(at.frame)].ts
  <2> SUFFICES ASSUME NEW j \in 1..Len(at.frame) PROVE at.frame[j].ts <= at.frame[Len(at.frame)].ts
    OBVIOUS
  <2>1. j < Len(at.frame) \/ j = Len(at.frame)
    BY <1>5
  <2>2. Len(at.frame) \in 1..Len(at.frame)
    BY <1>5
  <2> QED
    <3>1. \A l, m \in 1..Len(at.frame) : l < m => at.frame[l].ts < at.frame[m].ts
      BY DEF IsKept
    <3>2. at.frame[j].ts \in Int /\ at.frame[Len(at.frame)].ts \in Int
      BY <1>5, <2>2
    <3> QED
      BY <2>1, <2>2, <3>1, <3>2
<1>10. ASSUME NEW j \in 1..Len(at.frame) PROVE at.frame # <<>> /\ at.frame[j].ts <= s[i].ts
  <2>1. at.frame # <<>>
    BY <1>5
  <2>2. at.frame[j].ts <= s[o[k]].ts /\ s[o[k]].ts <= s[i].ts /\ s[o[k]].ts \in Int
    BY <1>1, <1>7, <1>8, <1>9, <2>1
  <2> QED
    BY <1>1, <1>5, <2>1, <2>2
<1>11. Last(at.frame) = at.frame[Len(at.frame)]
  BY DEF Last
<1>12. ASSUME IsNewInstant(at, s[i])
       PROVE  IsFirst(s, i) /\ \A j \in 1..Len(at.frame) : at.frame[j].ts < s[i].ts
  <2>1. k # 0 => at.frame # <<>> /\ s[o[k]].ts < s[i].ts
    <3> SUFFICES ASSUME k # 0 PROVE at.frame # <<>> /\ s[o[k]].ts < s[i].ts
      OBVIOUS
    <3>1. at.frame # <<>> /\ at.frame[Len(at.frame)].ts = s[o[k]].ts
      BY DEF IsKept, o
    <3>2. s[o[k]].ts # s[i].ts /\ s[o[k]].ts \in Int /\ s[o[k]].ts <= s[i].ts /\ s[i].ts \in Int
      BY <1>1, <1>7, <1>11, <1>12, <3>1 DEF IsNewInstant
    <3> QED
      BY <3>1, <3>2
  <2>2. \A j \in 1..Len(at.frame) : at.frame[j].ts < s[i].ts
    <3> SUFFICES ASSUME NEW j \in 1..Len(at.frame) PROVE at.frame[j].ts < s[i].ts
      OBVIOUS
    <3>1. at.frame[j].ts <= s[o[k]].ts /\ s[o[k]].ts < s[i].ts /\ s[o[k]].ts \in Int
      BY <1>1, <1>7, <1>8, <1>9, <1>10, <2>1
    <3> QED
      BY <1>1, <1>5, <3>1
  <2>3. ASSUME NEW m \in 1..(i - 1), s[m].ts = s[i].ts PROVE FALSE
    <3>1. m \in 1..n /\ m < i
      BY <1>1
    <3>2. PICK l \in 1..n : o[l] = m
      BY <1>2, <3>1
    <3>3. l # k + 1
      BY <1>4, <3>1, <3>2
    <3>4. ~(k + 1 < l)
      <4> SUFFICES ASSUME k + 1 < l PROVE FALSE
        OBVIOUS
      <4>1. ComesBefore(s, i, m)
        BY <1>2, <1>3, <1>4, <3>2
      <4> QED
        BY <1>1, <2>3, <3>1, <4>1 DEF ComesBefore
    <3>5. l \in 1..k
      BY <1>3, <3>3, <3>4
    <3>6. s[m].ts <= s[o[k]].ts /\ k # 0 /\ o[k] \in 1..n
      BY <1>6, <1>7, <3>2, <3>5
    <3> QED
      BY <1>1, <2>1, <2>3, <3>1, <3>6
  <2> QED
    BY <2>2, <2>3 DEF IsFirst
<1>13. ASSUME ~IsNewInstant(at, s[i])
       PROVE  \E j \in 1..n : at.frame[Len(at.frame)] = s[j] /\ IsFirst(s, j) /\ s[j].ts = s[i].ts /\ j < i
  <2>1. at.frame # <<>> /\ at.frame[Len(at.frame)].ts = s[i].ts
    BY <1>11, <1>13 DEF IsNewInstant
  <2>2. Len(at.frame) \in 1..Len(at.frame)
    BY <1>5, <2>1
  <2>3. PICK j \in 1..n : at.frame[Len(at.frame)] = s[j] /\ IsFirst(s, j)
    BY <2>2 DEF IsKept
  <2>4. s[j].ts = s[i].ts
    BY <2>1, <2>3
  <2>5. j <= i
    BY <2>3, <2>4, FirstSeenIs
  <2>6. o[k] \in 1..n /\ s[o[k]].ts = s[i].ts /\ o[k] < i
    BY <1>1, <1>7, <1>8, <2>1 DEF ComesBefore
  <2>7. j # i
    <3> SUFFICES ASSUME j = i PROVE FALSE
      OBVIOUS
    <3>1. o[k] \in 1..(i - 1)
      BY <2>6
    <3> QED
      BY <2>3, <2>6, <3>1 DEF IsFirst
  <2> QED
    BY <2>3, <2>4, <2>5, <2>7
<1> QED
  BY <1>1, <1>4, <1>5, <1>10, <1>12, <1>13 DEF o

\* Normalizing one more keeps that.
LEMMA KeepsKept ==
    ASSUME NEW s \in Seq(Samples), NEW k \in 0..(Len(s) - 1), NEW at, IsKept(s, k, at)
    PROVE  IsKept(s, k + 1, Keep(at, s[Order(s)[k + 1]]))
<1> DEFINE n == Len(s)
           x == s[Order(s)[k + 1]]
           to == Keep(at, x)
<1>1. /\ n \in Nat /\ Order(s)[k + 1] \in 1..n /\ at \in Totals /\ x \in Samples
      /\ \A j \in 1..Len(at.frame) : at.frame[j].ts <= x.ts
      /\ IsNewInstant(at, x) => IsFirst(s, Order(s)[k + 1]) /\ \A j \in 1..Len(at.frame) : at.frame[j].ts < x.ts
  BY NextInOrder, SampleFacts
<1>2. /\ to \in Totals
      /\ IsNewInstant(at, x) =>
           /\ to.frame = Append(at.frame, x) /\ to.exact = at.exact /\ to.conflicting = at.conflicting
      /\ ~IsNewInstant(at, x) =>
           /\ to.frame = at.frame /\ at.frame # <<>> /\ Last(at.frame).ts = x.ts
           /\ to.exact + to.conflicting = at.exact + at.conflicting + 1
  <2>0. x \in Samples /\ at \in Totals
    BY <1>1
  <2> HIDE DEF x
  <2>1. at.exact \in Nat /\ at.conflicting \in Nat
    BY <1>1 DEF Totals
  <2>2. /\ to \in Totals
        /\ IsNewInstant(at, x) =>
             /\ to.frame = Append(at.frame, x) /\ to.exact = at.exact /\ to.conflicting = at.conflicting
        /\ ~IsNewInstant(at, x) => to.frame = at.frame /\ at.frame # <<>> /\ Last(at.frame).ts = x.ts
    BY <2>0, KeepIs
  <2>3. ~IsNewInstant(at, x) => \/ to.exact = at.exact + 1 /\ to.conflicting = at.conflicting
                                \/ to.exact = at.exact /\ to.conflicting = at.conflicting + 1
    BY <2>0, KeepIs, Zenon
  <2> HIDE DEF to
  <2>4. (\/ to.exact = at.exact + 1 /\ to.conflicting = at.conflicting
         \/ to.exact = at.exact /\ to.conflicting = at.conflicting + 1)
            => to.exact + to.conflicting = at.exact + at.conflicting + 1
    BY <2>1
  <2> QED
    BY <2>2, <2>3, <2>4
<1>3. /\ at.frame \in Seq(Samples) /\ Len(at.frame) \in Nat /\ at.exact \in Nat /\ at.conflicting \in Nat
      /\ to.exact \in Nat /\ to.conflicting \in Nat
  BY <1>1, <1>2 DEF Totals
<1>4. /\ Len(at.frame) + at.exact + at.conflicting = k
      /\ \A i, j \in 1..Len(at.frame) : i < j => at.frame[i].ts < at.frame[j].ts
      /\ \A i \in 1..Len(at.frame) : \E j \in 1..Len(s) : at.frame[i] = s[j] /\ IsFirst(s, j)
      /\ \A j \in 1..k : \E i \in 1..Len(at.frame) : at.frame[i].ts = s[Order(s)[j]].ts
  BY DEF IsKept
<1>5. k \in Nat /\ k + 1 # 0 /\ \A j \in 1..(k + 1) : j \in 1..k \/ j = k + 1
  BY <1>1
<1>x. x = s[Order(s)[k + 1]]
  OBVIOUS
<1> HIDE DEF x, to
<1>6. CASE IsNewInstant(at, x)
  <2>1. /\ to.frame \in Seq(Samples) /\ Len(to.frame) = Len(at.frame) + 1 /\ to.frame[Len(to.frame)] = x /\ to.frame # <<>>
        /\ \A i \in 1..Len(at.frame) : to.frame[i] = at.frame[i]
        /\ \A i \in 1..Len(to.frame) : i \in 1..Len(at.frame) \/ i = Len(to.frame)
    <3> DEFINE f == at.frame  g == to.frame
    <3>1. f \in Seq(Samples) /\ x \in Samples /\ g = Append(f, x)
      BY <1>1, <1>2, <1>3, <1>6
    <3> HIDE DEF f, g
    <3>2. /\ g \in Seq(Samples) /\ Len(g) = Len(f) + 1 /\ g[Len(g)] = x /\ g # <<>>
          /\ \A i \in 1..Len(f) : g[i] = f[i]
          /\ \A i \in 1..Len(g) : i \in 1..Len(f) \/ i = Len(g)
      BY <3>1
    <3> QED
      BY <3>2 DEF f, g
  <2>2. Len(to.frame) + to.exact + to.conflicting = k + 1
    <3>1. to.exact = at.exact /\ to.conflicting = at.conflicting /\ Len(to.frame) = Len(at.frame) + 1
      BY <1>2, <1>6, <2>1
    <3>2. PICK a \in Nat, b \in Nat, l \in Nat : a = at.exact /\ b = at.conflicting /\ l = Len(at.frame)
      BY <1>3
    <3>3. l + a + b = k
      BY <1>4, <3>2
    <3>4. l + 1 + a + b = k + 1
      BY <1>5, <3>3
    <3> QED
      BY <3>1, <3>2, <3>4
  <2>3. ASSUME NEW i \in 1..Len(to.frame), NEW j \in 1..Len(to.frame), i < j PROVE to.frame[i].ts < to.frame[j].ts
    <3>1. i \in 1..Len(at.frame)
      BY <1>3, <2>1, <2>3
    <3> QED
      BY <1>1, <1>4, <1>6, <2>1, <2>3, <3>1
  <2>4. ASSUME NEW i \in 1..Len(to.frame) PROVE \E j \in 1..Len(s) : to.frame[i] = s[j] /\ IsFirst(s, j)
    <3>1. CASE i \in 1..Len(at.frame)
      BY <1>4, <2>1, <3>1
    <3>2. CASE i = Len(to.frame)
      BY <1>1, <1>6, <1>x, <2>1, <3>2
    <3> QED
      BY <2>1, <3>1, <3>2
  <2>5. ASSUME NEW j \in 1..(k + 1) PROVE \E i \in 1..Len(to.frame) : to.frame[i].ts = s[Order(s)[j]].ts
    <3>1. CASE j \in 1..k
      <4>1. PICK i \in 1..Len(at.frame) : at.frame[i].ts = s[Order(s)[j]].ts
        BY <1>4, <3>1
      <4>2. i \in 1..Len(to.frame) /\ to.frame[i] = at.frame[i]
        BY <1>3, <2>1
      <4> QED
        BY <4>1, <4>2
    <3>2. CASE j = k + 1
      <4>1. Len(to.frame) \in 1..Len(to.frame)
        BY <1>3, <2>1
      <4> QED
        BY <1>x, <2>1, <3>2, <4>1
    <3> QED
      BY <1>5, <3>1, <3>2
  <2>6. to.frame[Len(to.frame)].ts = s[Order(s)[k + 1]].ts
    BY <1>x, <2>1
  <2>7. IsKept(s, k + 1, to)
    BY <1>2, <1>5, <2>1, <2>2, <2>3, <2>4, <2>5, <2>6 DEF IsKept
  <2> QED
    BY <2>7 DEF to, x
<1>7. CASE ~IsNewInstant(at, x)
  <2>1. to.frame = at.frame /\ at.frame # <<>> /\ at.frame[Len(at.frame)].ts = x.ts
    BY <1>2, <1>7 DEF Last
  <2>2. Len(to.frame) + to.exact + to.conflicting = k + 1
    <3>1. to.exact + to.conflicting = at.exact + at.conflicting + 1 /\ Len(to.frame) = Len(at.frame)
      BY <1>2, <1>7, <2>1
    <3>2. Len(at.frame) + at.exact + at.conflicting = k
      BY <1>4
    <3>3. Len(to.frame) + to.exact + to.conflicting = Len(to.frame) + at.exact + at.conflicting + 1
      <4>1. PICK c \in Nat, d \in Nat : c = to.exact /\ d = to.conflicting
        BY <1>3
      <4>2. PICK a \in Nat, b \in Nat, l \in Nat : a = at.exact /\ b = at.conflicting /\ l = Len(at.frame)
        BY <1>3
      <4>3. c + d = a + b + 1
        BY <3>1, <4>1, <4>2
      <4>4. l + c + d = l + a + b + 1
        BY <4>3
      <4> QED
        BY <3>1, <4>1, <4>2, <4>4
    <3> QED
      BY <3>1, <3>2, <3>3
  <2>3. ASSUME NEW j \in 1..(k + 1) PROVE \E i \in 1..Len(to.frame) : to.frame[i].ts = s[Order(s)[j]].ts
    <3>1. CASE j \in 1..k
      BY <1>4, <2>1, <3>1
    <3>2. CASE j = k + 1
      <4>1. Len(to.frame) \in 1..Len(to.frame)
        BY <1>3, <2>1
      <4> QED
        BY <1>x, <2>1, <3>2, <4>1
    <3> QED
      BY <1>5, <3>1, <3>2
  <2>4. IsKept(s, k + 1, to)
    BY <1>2, <1>4, <1>5, <1>x, <2>1, <2>2, <2>3 DEF IsKept
  <2> QED
    BY <2>4 DEF to, x
<1> QED
  BY <1>6, <1>7

-----------------------------------------------------------------------------
(* What the normalization counts, and the frame it ends with *)

\* One more in order is taken.
LEMMA TakenGrows ==
    ASSUME NEW s \in Seq(Samples), NEW k \in 0..(Len(s) - 1), NEW S \in SUBSET (1..Len(s))
    PROVE  Cardinality(AmongFirst(s, k + 1, S)) = Cardinality(AmongFirst(s, k, S)) + (IF Order(s)[k + 1] \in S THEN 1 ELSE 0)
<1> DEFINE n == Len(s)
           o == Order(s)
<1>1. /\ n \in Nat /\ k \in Nat /\ k + 1 \in 1..n /\ o \in [1..n -> 1..n]
      /\ \A l, m \in 1..n : l < m => o[l] # o[m]
  BY OrderIs, SampleFacts
<1> HIDE DEF o
<1>2. PICK i \in 1..n : i = o[k + 1]
  BY <1>1
<1>3. \A j \in 1..k : o[j] # i
  BY <1>1, <1>2
<1>4. \A j \in 1..(k + 1) : j \in 1..k \/ j = k + 1
  OBVIOUS
<1>5. 1..k \subseteq 1..(k + 1) /\ k + 1 \in 1..(k + 1)
  OBVIOUS
<1>6. AmongFirst(s, k, S) = {m \in S : \E j \in 1..k : o[j] = m} /\ AmongFirst(s, k + 1, S) = {m \in S : \E j \in 1..(k + 1) : o[j] = m}
  BY DEF AmongFirst, o
<1>7. IsFiniteSet(AmongFirst(s, k, S))
  <2>1. IsFiniteSet(1..n)
    BY <1>1, FS_Interval
  <2>2. AmongFirst(s, k, S) \in SUBSET (1..n)
    BY <1>6
  <2> QED
    BY <2>1, <2>2, FS_Subset
<1>8. Cardinality(AmongFirst(s, k, S)) \in Nat
  BY <1>7, FS_CardinalityType
<1>9. CASE i \in S
  <2>1. AmongFirst(s, k + 1, S) = AmongFirst(s, k, S) \union {i} /\ i \notin AmongFirst(s, k, S)
    BY <1>2, <1>3, <1>4, <1>5, <1>6, <1>9
  <2>2. Cardinality(AmongFirst(s, k + 1, S)) = Cardinality(AmongFirst(s, k, S)) + 1
    BY <1>7, <2>1, FS_AddElement
  <2> QED
    BY <1>2, <1>9, <2>2 DEF o
<1>10. CASE i \notin S
  <2>1. AmongFirst(s, k + 1, S) = AmongFirst(s, k, S)
    BY <1>2, <1>4, <1>5, <1>6, <1>10
  <2> QED
    BY <1>2, <1>8, <1>10, <2>1 DEF o
<1> QED
  BY <1>9, <1>10

\* What is taken in the end is all, at the beginning nothing.
LEMMA TakenEnds ==
    ASSUME NEW s \in Seq(Samples), NEW S \in SUBSET (1..Len(s))
    PROVE  AmongFirst(s, Len(s), S) = S /\ AmongFirst(s, 0, S) = {}
<1>1. \A i \in S : \E j \in 1..Len(s) : Order(s)[j] = i
  BY OrderIs
<1>2. 1..0 = {}
  OBVIOUS
<1> QED
  BY <1>1, <1>2 DEF AmongFirst

\* Counting one more keeps that.
LEMMA KeepsCounted ==
    ASSUME NEW s \in Seq(Samples), NEW k \in 0..(Len(s) - 1), NEW at, IsKept(s, k, at), IsCounted(s, k, at)
    PROVE  IsCounted(s, k + 1, Keep(at, s[Order(s)[k + 1]]))
<1> SUFFICES ASSUME \A m \in 1..Len(s) : s[m].value # "inf"
             PROVE  LET to == Keep(at, s[Order(s)[k + 1]]) IN
                    /\ to.exact = Cardinality(AmongFirst(s, k + 1, ExactRepeats(s)))
                    /\ to.conflicting = Cardinality(AmongFirst(s, k + 1, Repeated(s) \ ExactRepeats(s)))
  BY DEF IsCounted
<1> DEFINE n == Len(s)
<1>1. n \in Nat /\ DOMAIN s = 1..n
  BY SampleFacts
<1>2. PICK i \in 1..n : i = Order(s)[k + 1]
  BY NextInOrder
<1>3. PICK x : x = s[i]
  OBVIOUS
<1>4. /\ at \in Totals /\ x \in Samples
      /\ IsNewInstant(at, x) => IsFirst(s, i)
      /\ ~IsNewInstant(at, x) =>
           \E j \in 1..n : at.frame[Len(at.frame)] = s[j] /\ IsFirst(s, j) /\ s[j].ts = s[i].ts /\ j < i
  BY <1>2, <1>3, NextInOrder
<1>5. PICK to : to = Keep(at, x)
  OBVIOUS
<1>6. at.exact \in Nat /\ at.conflicting \in Nat
  BY <1>4 DEF Totals
<1> DEFINE E == ExactRepeats(s)
           C == Repeated(s) \ ExactRepeats(s)
<1>7. /\ at.exact = Cardinality(AmongFirst(s, k, E))
      /\ at.conflicting = Cardinality(AmongFirst(s, k, C))
  BY DEF IsCounted
<1>8. Repeated(s) \in SUBSET (1..n) /\ E \in SUBSET (1..n) /\ C \in SUBSET (1..n)
  BY <1>1 DEF Repeated, ExactRepeats
<1>9. i \in Repeated(s) <=> FirstSeen(s, i) < i
  BY <1>1 DEF Repeated
<1>10. i \in E <=> /\ i \in Repeated(s) /\ s[FirstSeen(s, i)].value = x.value /\ x.value # "inf"
                   /\ s[FirstSeen(s, i)].quality = x.quality
  BY <1>3 DEF ExactRepeats, SameValue
<1> HIDE DEF E
<1>11. i \in C <=> i \in Repeated(s) /\ i \notin E
  BY DEF E
<1> HIDE DEF C
<1>12. /\ Cardinality(AmongFirst(s, k + 1, E)) = Cardinality(AmongFirst(s, k, E)) + (IF i \in E THEN 1 ELSE 0)
       /\ Cardinality(AmongFirst(s, k + 1, C)) = Cardinality(AmongFirst(s, k, C)) + (IF i \in C THEN 1 ELSE 0)
  BY <1>2, <1>8, TakenGrows
<1>13. CASE IsNewInstant(at, x)
  <2>1. FirstSeen(s, i) = i
    BY <1>4, <1>13, FirstSeenIs
  <2>2. i \notin E /\ i \notin C
    BY <1>9, <1>10, <1>11, <2>1
  <2>3. to.exact = at.exact /\ to.conflicting = at.conflicting
    BY <1>4, <1>5, <1>13, KeepIs
  <2>4. to.exact = Cardinality(AmongFirst(s, k + 1, E)) /\ to.conflicting = Cardinality(AmongFirst(s, k + 1, C))
    BY <1>6, <1>7, <1>12, <2>2, <2>3
  <2> QED
    BY <1>2, <1>3, <1>5, <2>4 DEF E, C
<1>14. CASE ~IsNewInstant(at, x)
  <2>1. PICK j \in 1..n : at.frame[Len(at.frame)] = s[j] /\ IsFirst(s, j) /\ s[j].ts = s[i].ts /\ j < i
    BY <1>4, <1>14
  <2>2. FirstSeen(s, i) = j /\ i \in Repeated(s)
    BY <1>9, <2>1, FirstSeenIs
  <2>3. Last(at.frame) = s[j]
    BY <2>1 DEF Last
  <2>4. x.value # "inf"
    BY <1>3
  <2>5. CASE s[j].value = x.value /\ s[j].quality = x.quality
    <3>1. i \in E /\ i \notin C
      BY <1>10, <1>11, <2>2, <2>4, <2>5
    <3>2. to.exact = at.exact + 1 /\ to.conflicting = at.conflicting
      <4>1. Last(at.frame).value = x.value /\ Last(at.frame).quality = x.quality
        BY <2>3, <2>5
      <4> QED
        BY <1>4, <1>5, <1>14, <4>1, KeepIs, Zenon
    <3>3. to.exact = Cardinality(AmongFirst(s, k + 1, E)) /\ to.conflicting = Cardinality(AmongFirst(s, k + 1, C))
      BY <1>6, <1>7, <1>12, <3>1, <3>2
    <3> QED
      BY <1>2, <1>3, <1>5, <3>3 DEF E, C
  <2>6. CASE ~(s[j].value = x.value /\ s[j].quality = x.quality)
    <3>1. i \notin E /\ i \in C
      BY <1>10, <1>11, <2>2, <2>6
    <3>2. to.exact = at.exact /\ to.conflicting = at.conflicting + 1
      <4>1. ~(Last(at.frame).value = x.value /\ Last(at.frame).quality = x.quality)
        BY <2>3, <2>6
      <4> QED
        BY <1>4, <1>5, <1>14, <4>1, KeepIs, Zenon
    <3>3. to.exact = Cardinality(AmongFirst(s, k + 1, E)) /\ to.conflicting = Cardinality(AmongFirst(s, k + 1, C))
      BY <1>6, <1>7, <1>12, <3>1, <3>2
    <3> QED
      BY <1>2, <1>3, <1>5, <3>3 DEF E, C
  <2> QED
    BY <2>5, <2>6
<1> QED
  BY <1>13, <1>14

\* What the normalization of a delivery has kept and counted.
LEMMA NormalizedIs ==
    ASSUME NEW s \in Seq(Samples)
    PROVE  IsKept(s, Len(s), Normalized(s)) /\ IsCounted(s, Len(s), Normalized(s))
<1>1. PICK h : /\ h[0] = Nothing
               /\ \A k \in 0..(Len(s) - 1) : h[k + 1] = Keep(h[k], s[Order(s)[k + 1]])
               /\ Normalized(s) = h[Len(s)]
  BY NormalizedSteps
<1>2. Len(s) \in Nat
  BY SampleFacts
<1> DEFINE Q == {k \in Nat : k <= Len(s) => IsKept(s, k, h[k]) /\ IsCounted(s, k, h[k])}
<1>3. 0 \in Q
  <2>1. Nothing \in Totals /\ Nothing.frame = <<>> /\ Nothing.exact = 0 /\ Nothing.conflicting = 0 /\ Len(Nothing.frame) = 0
    BY DEF Nothing, Totals
  <2>2. IsKept(s, 0, Nothing)
    BY <2>1 DEF IsKept
  <2>3. IsCounted(s, 0, Nothing)
    <3>1. ExactRepeats(s) \in SUBSET (1..Len(s)) /\ Repeated(s) \ ExactRepeats(s) \in SUBSET (1..Len(s))
      BY SampleFacts DEF ExactRepeats, Repeated
    <3>2. AmongFirst(s, 0, ExactRepeats(s)) = {} /\ AmongFirst(s, 0, Repeated(s) \ ExactRepeats(s)) = {}
      BY <3>1, TakenEnds
    <3> QED
      BY <2>1, <3>2, FS_EmptySet DEF IsCounted
  <2> QED
    BY <1>1, <2>2, <2>3
<1>4. ASSUME NEW k \in Nat, k \in Q PROVE k + 1 \in Q
  <2> SUFFICES ASSUME k + 1 <= Len(s) PROVE IsKept(s, k + 1, h[k + 1]) /\ IsCounted(s, k + 1, h[k + 1])
    OBVIOUS
  <2>1. k \in 0..(Len(s) - 1) /\ k <= Len(s)
    BY <1>2
  <2>2. IsKept(s, k, h[k]) /\ IsCounted(s, k, h[k])
    BY <1>4, <2>1
  <2>3. h[k + 1] = Keep(h[k], s[Order(s)[k + 1]])
    BY <1>1, <2>1
  <2> QED
    BY <2>1, <2>2, <2>3, KeepsKept, KeepsCounted
<1> HIDE DEF Q
<1>5. Len(s) \in Q
  BY <1>2, <1>3, <1>4, UpwardInduction
<1> QED
  BY <1>1, <1>2, <1>5 DEF Q

\* Whatever was delivered, its normalization keeps the first sample of every instant and counts the others.
LEMMA NormalizesWell ==
    ASSUME delivered \in Seq(Samples)
    PROVE  FramesNormalize
<1> DEFINE s == delivered
           at == Normalized(delivered)
           f == at.frame
<1>1. DOMAIN s = 1..Len(s) /\ Len(s) \in Nat
  BY SampleFacts
<1>2. IsKept(s, Len(s), at) /\ IsCounted(s, Len(s), at)
  BY NormalizedIs
<1>3. at \in Totals /\ f \in Seq(Samples)
  BY <1>2 DEF IsKept, Totals
<1> HIDE DEF s, at
<1>4. DOMAIN f = 1..Len(f) /\ Len(f) \in Nat /\ \A i \in 1..Len(f) : f[i].ts \in Int
  BY <1>3, SampleFacts
<1>5. NormalizedKeepsFirst
  <2>1. {x.ts : x \in Range(f)} = {x.ts : x \in Range(s)}
    <3>1. ASSUME NEW i \in 1..Len(f) PROVE \E j \in 1..Len(s) : f[i].ts = s[j].ts
      BY <1>2 DEF IsKept
    <3>2. ASSUME NEW j \in 1..Len(s) PROVE \E i \in 1..Len(f) : f[i].ts = s[j].ts
      <4>1. PICK k \in 1..Len(s) : Order(s)[k] = j
        BY OrderIs DEF s
      <4> QED
        BY <1>2, <4>1 DEF IsKept
    <3> HIDE DEF f
    <3>3. {x.ts : x \in Range(f)} = {f[i].ts : i \in 1..Len(f)}
      BY <1>4 DEF Range
    <3>4. {x.ts : x \in Range(s)} = {s[j].ts : j \in 1..Len(s)}
      BY <1>1 DEF Range
    <3>5. {f[i].ts : i \in 1..Len(f)} \subseteq {s[j].ts : j \in 1..Len(s)}
      BY <3>1
    <3>6. {s[j].ts : j \in 1..Len(s)} \subseteq {f[i].ts : i \in 1..Len(f)}
      BY <3>2
    <3> QED
      BY <3>3, <3>4, <3>5, <3>6
  <2>2. ASSUME NEW k \in 2..Len(f) PROVE f[k - 1].ts < f[k].ts
    <3>1. k - 1 \in 1..Len(f) /\ k \in 1..Len(f) /\ k - 1 < k
      BY <1>4
    <3> QED
      BY <1>2, <3>1 DEF IsKept
  <2>3. ASSUME NEW x \in Range(f)
        PROVE  \E i \in DOMAIN s : s[i] = x /\ \A j \in 1..(i - 1) : s[j].ts # x.ts
    <3>1. PICK i \in 1..Len(f) : f[i] = x
      BY <1>4 DEF Range
    <3>2. PICK j \in 1..Len(s) : f[i] = s[j] /\ IsFirst(s, j)
      BY <1>2, <3>1 DEF IsKept
    <3> QED
      BY <1>1, <3>1, <3>2 DEF IsFirst
  <2>4. Len(f) + at.exact + at.conflicting = Len(s)
    BY <1>2 DEF IsKept
  <2> QED
    BY <2>1, <2>2, <2>3, <2>4 DEF NormalizedKeepsFirst, s, at
<1>6. DuplicatesAgree
  <2> SUFFICES ASSUME \A x \in Range(s) : x.value # "inf"
               PROVE  at.exact = Cardinality(ExactRepeats(s)) /\ at.conflicting = Cardinality(Repeated(s) \ ExactRepeats(s))
    BY DEF DuplicatesAgree, s, at
  <2>1. \A i \in 1..Len(s) : s[i].value # "inf"
    BY <1>1 DEF Range
  <2>2. ExactRepeats(s) \in SUBSET (1..Len(s)) /\ Repeated(s) \ ExactRepeats(s) \in SUBSET (1..Len(s))
    BY <1>1 DEF ExactRepeats, Repeated
  <2>3. /\ AmongFirst(s, Len(s), ExactRepeats(s)) = ExactRepeats(s)
        /\ AmongFirst(s, Len(s), Repeated(s) \ ExactRepeats(s)) = Repeated(s) \ ExactRepeats(s)
    BY <2>2, TakenEnds DEF s
  <2> QED
    BY <1>2, <2>1, <2>3 DEF IsCounted
<1> QED
  BY <1>5, <1>6 DEF FramesNormalize

\* The normalized frame has every delivered instant once, in order, with the sample that came first,
\* and what it counts as duplicates is what timestamp_integrity counts in the order of delivery
\* (frame.rs:179-214, timestamp_integrity.rs:62-86).
THEOREM NormalizeTheorem == FramesSpec => []FramesNormalize
<1>1. FramesInit => delivered \in Seq(Samples)
  BY DEF FramesInit
<1>2. delivered \in Seq(Samples) /\ [FramesNext]_frameVars => (delivered \in Seq(Samples))'
  BY DEF FramesNext, Deliver, frameVars
<1>3. delivered \in Seq(Samples) => FramesNormalize
  BY NormalizesWell
<1> QED
  BY <1>1, <1>2, <1>3, PTL DEF FramesSpec

\* Induction up to a number.
LEMMA UpToInduction ==
    ASSUME NEW n \in Nat, NEW S, 0 \in S, \A k \in 0..(n - 1) : k \in S => k + 1 \in S
    PROVE  0..n \subseteq S
<1> DEFINE Q == {k \in Nat : k <= n => k \in S}
<1>1. 0 \in Q
  OBVIOUS
<1>2. ASSUME NEW k \in Nat, k \in Q PROVE k + 1 \in Q
  <2>1. k <= n => k \in S
    BY <1>2
  <2>2. k + 1 <= n => k \in 0..(n - 1) /\ k <= n
    OBVIOUS
  <2>3. k + 1 <= n => k + 1 \in S
    BY <2>1, <2>2
  <2> QED
    BY <2>3
<1>3. Nat \subseteq Q
  <2> HIDE DEF Q
  <2> QED
    BY <1>1, <1>2, UpwardInduction
<1> QED
  BY <1>3

\* A function that satisfies the equation of a fold, where its values are of a set.
Unfolds(c, A, n, base, F) ==
    /\ c[{}] = base
    /\ \A S \in SUBSET (1..n) : S # {} /\ c[S \ {Max(S)}] \in A => c[S] = F[<<c[S \ {Max(S)}], Max(S)>>]

\* What a fold reaches after each position.
Reaches(h, n, base, F, last) == h[0] = base /\ h[n] = last /\ \A k \in 0..(n - 1) : h[k + 1] = F[<<h[k], k + 1>>]

\* A function that satisfies the equation of a fold takes one position after the other.
LEMMA FoldWalks ==
    ASSUME NEW A, NEW base \in A, NEW n \in Nat, NEW F \in [A \X (1..n) -> A], NEW c, Unfolds(c, A, n, base, F)
    PROVE  \E h \in [0..n -> A] : Reaches(h, n, base, F, c[1..n])
<1> DEFINE h == [k \in 0..n |-> c[1..k]]
           Q == {k \in Nat : k <= n => c[1..k] \in A}
<1>1. c[1..0] = base
  <2>1. 1..0 = {}
    OBVIOUS
  <2> QED
    BY <2>1 DEF Unfolds
<1>2. ASSUME NEW k \in Nat, k + 1 <= n, c[1..k] \in A
      PROVE  c[1..(k + 1)] = F[<<c[1..k], k + 1>>] /\ c[1..(k + 1)] \in A
  <2>1. k + 1 \in 1..n
    BY <1>2
  <2>2. /\ Max(1..(k + 1)) = k + 1 /\ (1..(k + 1)) \ {k + 1} = 1..k
        /\ 1..(k + 1) \in SUBSET (1..n) /\ 1..(k + 1) # {}
    BY <2>1, FoldSteps
  <2>3. c[1..(k + 1)] = F[<<c[1..k], k + 1>>]
    BY <1>2, <2>2 DEF Unfolds
  <2> QED
    BY <1>2, <2>1, <2>3
<1>3. 0 \in Q
  BY <1>1
<1>4. ASSUME NEW k \in Nat, k \in Q PROVE k + 1 \in Q
  <2>1. k <= n => c[1..k] \in A
    BY <1>4
  <2>2. k + 1 <= n => k <= n
    OBVIOUS
  <2>3. k + 1 <= n => c[1..(k + 1)] \in A
    BY <1>2, <2>1, <2>2
  <2> QED
    BY <2>3
<1>5. \A k \in Nat : k \in Q
  <2> HIDE DEF Q
  <2> QED
    BY <1>3, <1>4, UpwardInduction
<1>6. \A k \in 0..n : c[1..k] \in A
  BY <1>5
<1>7. h \in [0..n -> A] /\ h[0] = base /\ h[n] = c[1..n]
  BY <1>1, <1>6
<1>8. ASSUME NEW k \in 0..(n - 1) PROVE h[k + 1] = F[<<h[k], k + 1>>]
  <2>1. k \in Nat /\ k + 1 <= n /\ k \in 0..n /\ k + 1 \in 0..n
    OBVIOUS
  <2> QED
    BY <1>2, <1>6, <2>1
<1> HIDE DEF h
<1> QED
  BY <1>7, <1>8 DEF Reaches

-----------------------------------------------------------------------------
(* The positions of a set, in order *)

\* What a walk over positions has collected, and the step of the walk.
Collect(set, out, i) == IF i \in set THEN Append(out, i) ELSE out
CollectsAll(g, n, set) ==
    g = [S \in SUBSET (DOMAIN [i \in 1..n |-> i]) |->
           IF S = {} THEN <<>> ELSE Collect(set, g[S \ {Max(S)}], [i \in 1..n |-> i][Max(S)])]

\* InOrder takes one position after the other.
LEMMA InOrderSteps ==
    ASSUME NEW n \in Nat, NEW set \in SUBSET (1..n)
    PROVE  \E h \in [0..n -> Seq(1..n)] :
              /\ h[0] = <<>> /\ InOrder(n, set) = h[n]
              /\ \A k \in 0..(n - 1) : h[k + 1] = Collect(set, h[k], k + 1)
<1> DEFINE A == Seq(1..n)
           F == [p \in A \X (1..n) |-> Collect(set, p[1], p[2])]
           c == CHOOSE g : CollectsAll(g, n, set)
<1>1. F \in [A \X (1..n) -> A] /\ <<>> \in A
  <2>1. ASSUME NEW a \in A, NEW i \in 1..n PROVE Collect(set, a, i) \in A
    <3>1. Append(a, i) \in A
      OBVIOUS
    <3> QED
      BY <3>1 DEF Collect
  <2> HIDE DEF A
  <2>2. <<>> \in A
    BY DEF A
  <2> QED
    BY <2>1, <2>2
<1>2. \A a \in A, i \in 1..n : F[<<a, i>>] = Collect(set, a, i)
  OBVIOUS
<1> HIDE DEF F, A
<1>3. PICK g \in [SUBSET (1..n) -> A] : IsFold(g, n, <<>>, F)
  BY <1>1, FoldExists
<1>4. CollectsAll(g, n, set)
  <2>1. ASSUME NEW S \in SUBSET (1..n)
        PROVE  g[S] = IF S = {} THEN <<>> ELSE Collect(set, g[S \ {Max(S)}], Max(S))
    <3>1. S # {} => Max(S) \in 1..n /\ g[S \ {Max(S)}] \in A
      BY GreatestIn
    <3> QED
      BY <1>2, <1>3, <3>1 DEF IsFold
  <2>3. \A S \in SUBSET (1..n) : S # {} => [i \in 1..n |-> i][Max(S)] = Max(S)
    BY GreatestIn
  <2>2. g = [S \in SUBSET (1..n) |-> g[S]]
    OBVIOUS
  <2> QED
    BY <2>1, <2>2, <2>3 DEF CollectsAll
<1>5. CollectsAll(c, n, set)
  BY <1>4
<1>6. InOrder(n, set) = c[1..n]
  BY DEF InOrder, FoldLeft, MapThenFoldSet, CollectsAll, Collect
<1> HIDE DEF c
<1>7. \A S \in SUBSET (1..n) : c[S] = IF S = {} THEN <<>> ELSE Collect(set, c[S \ {Max(S)}], Max(S))
  <2>1. \A S \in SUBSET (1..n) : S # {} => [i \in 1..n |-> i][Max(S)] = Max(S)
    BY GreatestIn
  <2> QED
    BY <1>5, <2>1 DEF CollectsAll
<1>8. Unfolds(c, A, n, <<>>, F)
  BY <1>2, <1>7, GreatestIn DEF Unfolds
<1>0. n \in Nat
  OBVIOUS
<1>10. PICK h \in [0..n -> A] : Reaches(h, n, <<>>, F, c[1..n])
  BY <1>0, <1>1, <1>8, FoldWalks
<1>11. ASSUME NEW k \in 0..(n - 1) PROVE h[k + 1] = Collect(set, h[k], k + 1)
  <2>1. k \in 0..n /\ k + 1 \in 1..n
    OBVIOUS
  <2>2. h[k] \in A
    BY <1>10, <2>1
  <2> QED
    BY <1>2, <1>10, <2>1, <2>2 DEF Reaches
<1> QED
  BY <1>6, <1>10, <1>11 DEF A, Reaches

-----------------------------------------------------------------------------
(* Gaps *)

\* What the walk over the present samples has reached.
GapWalks == [gaps : Seq(Nat \X Nat), prev : Nat]
NoGaps == [gaps |-> <<>>, prev |-> 0]

\* What the walk is after one more instant.
LEMMA GapBeforeType ==
    ASSUME NEW at \in GapWalks, NEW t \in Nat
    PROVE  GapBefore(at, t) \in GapWalks
<1>1. at.gaps \in Seq(Nat \X Nat) /\ at.prev \in Nat
  BY DEF GapWalks
<1>2. <<at.prev, t>> \in Nat \X Nat
  BY <1>1
<1>3. Append(at.gaps, <<at.prev, t>>) \in Seq(Nat \X Nat)
  BY <1>1, <1>2
<1>4. Latest(at.prev, t) \in Nat
  BY <1>1 DEF Latest
<1> QED
  BY <1>1, <1>3, <1>4 DEF GapBefore, GapWalks

\* The function the walk over some instants is the value of.
GapsFold(g, q) ==
    g = [S \in SUBSET (DOMAIN q) |->
           IF S = {} THEN NoGaps ELSE GapBefore(g[S \ {Max(S)}], q[Max(S)])]

\* The walk takes one instant after the other.
LEMMA GapSteps ==
    ASSUME NEW q \in Seq(Nat)
    PROVE  \E h \in [0..Len(q) -> GapWalks] :
              /\ h[0] = NoGaps /\ FoldLeft(GapBefore, NoGaps, q) = h[Len(q)]
              /\ \A k \in 0..(Len(q) - 1) : h[k + 1] = GapBefore(h[k], q[k + 1])
<1> DEFINE n == Len(q)
           A == GapWalks
           F == [p \in A \X (1..n) |-> GapBefore(p[1], q[p[2]])]
           b == NoGaps
           c == CHOOSE g : GapsFold(g, q)
<1>1. n \in Nat /\ DOMAIN q = 1..n
  OBVIOUS
<1>2. F \in [A \X (1..n) -> A] /\ b \in A
  <2>1. \A a \in GapWalks, i \in 1..n : GapBefore(a, q[i]) \in GapWalks
    BY GapBeforeType
  <2>2. <<>> \in Seq(Nat \X Nat) /\ NoGaps \in GapWalks
    BY DEF NoGaps, GapWalks
  <2> QED
    BY <2>1, <2>2
<1>3. \A a \in A, i \in 1..n : F[<<a, i>>] = GapBefore(a, q[i])
  OBVIOUS
<1>4. b = NoGaps
  OBVIOUS
<1> HIDE DEF F, A, b, n
<1>5. PICK g \in [SUBSET (1..n) -> A] : IsFold(g, n, b, F)
  BY <1>1, <1>2, FoldExists
<1>6. GapsFold(g, q)
  <2>1. ASSUME NEW S \in SUBSET (1..n)
        PROVE  g[S] = IF S = {} THEN b ELSE GapBefore(g[S \ {Max(S)}], q[Max(S)])
    <3>1. S # {} => Max(S) \in 1..n /\ g[S \ {Max(S)}] \in A
      BY <1>1, GreatestIn
    <3> QED
      BY <1>3, <1>5, <3>1 DEF IsFold
  <2>2. g = [S \in SUBSET (1..n) |-> g[S]]
    OBVIOUS
  <2> QED
    BY <1>1, <1>4, <2>1, <2>2 DEF GapsFold
<1>7. GapsFold(c, q)
  BY <1>6
<1>8. FoldLeft(GapBefore, NoGaps, q) = c[1..n]
  BY <1>1 DEF FoldLeft, MapThenFoldSet, GapsFold
<1> HIDE DEF c
<1>9. \A S \in SUBSET (1..n) : c[S] = IF S = {} THEN b ELSE GapBefore(c[S \ {Max(S)}], q[Max(S)])
  BY <1>1, <1>4, <1>7 DEF GapsFold
<1>10. Unfolds(c, A, n, b, F)
  BY <1>1, <1>3, <1>9, GreatestIn DEF Unfolds
<1>11. PICK h \in [0..n -> A] : Reaches(h, n, b, F, c[1..n])
  BY <1>1, <1>2, <1>10, FoldWalks
<1>12. ASSUME NEW k \in 0..(n - 1) PROVE h[k + 1] = GapBefore(h[k], q[k + 1])
  <2>1. k \in 0..n /\ k + 1 \in 1..n
    BY <1>1
  <2>2. h[k] \in A
    BY <1>11, <2>1
  <2> QED
    BY <1>3, <1>11, <2>1, <2>2 DEF Reaches
<1>13. h[0] = NoGaps /\ FoldLeft(GapBefore, NoGaps, q) = h[n]
  BY <1>4, <1>8, <1>11 DEF Reaches
<1> QED
  BY <1>12, <1>13 DEF n, A

\* What a walk over the first k positions has collected.
IsCollected(out, set, n, k) ==
    /\ out \in Seq(1..n)
    /\ \A i \in 1..Len(out) : out[i] \in set /\ out[i] <= k
    /\ \A i, j \in 1..Len(out) : i < j => out[i] < out[j]
    /\ \A x \in set : x <= k => \E i \in 1..Len(out) : out[i] = x

\* One more position is collected when it is in the set.
LEMMA CollectKeeps ==
    ASSUME NEW n \in Nat, NEW set \in SUBSET (1..n), NEW k \in 0..(n - 1), NEW out, IsCollected(out, set, n, k)
    PROVE  IsCollected(Collect(set, out, k + 1), set, n, k + 1)
<1>0. /\ out \in Seq(1..n) /\ Len(out) \in Nat /\ k \in Int /\ k + 1 \in 1..n
      /\ \A i \in 1..Len(out) : out[i] \in Int /\ out[i] <= k
  BY DEF IsCollected
<1>1. CASE k + 1 \in set
  <2> DEFINE new == Append(out, k + 1)
  <2>1. /\ new \in Seq(1..n) /\ Len(new) = Len(out) + 1 /\ new[Len(out) + 1] = k + 1
        /\ \A i \in 1..Len(out) : new[i] = out[i]
    BY <1>0
  <2> HIDE DEF new
  <2>2. \A i \in 1..Len(new) : i \in 1..Len(out) \/ i = Len(out) + 1
    BY <1>0, <2>1
  <2>3. ASSUME NEW i \in 1..Len(new) PROVE new[i] \in set /\ new[i] <= k + 1
    <3>1. CASE i \in 1..Len(out)
      <4>1. new[i] = out[i] /\ out[i] \in set /\ out[i] <= k /\ out[i] \in Int
        BY <1>0, <2>1, <3>1 DEF IsCollected
      <4> QED
        BY <1>0, <4>1
    <3>2. CASE i = Len(out) + 1
      BY <1>0, <1>1, <2>1, <3>2
    <3> QED
      BY <2>2, <3>1, <3>2
  <2>4. ASSUME NEW i \in 1..Len(new), NEW j \in 1..Len(new), i < j PROVE new[i] < new[j]
    <3>1. i \in 1..Len(out)
      BY <1>0, <2>1, <2>4
    <3>2. CASE j \in 1..Len(out)
      BY <2>1, <2>4, <3>1, <3>2 DEF IsCollected
    <3>3. CASE j = Len(out) + 1
      <4>1. new[i] = out[i] /\ new[j] = k + 1
        BY <2>1, <3>1, <3>3, Zenon
      <4>2. out[i] \in Int /\ out[i] <= k
        BY <1>0, <3>1, Zenon
      <4>3. out[i] < k + 1
        BY <1>0, <4>2
      <4> QED
        BY <4>1, <4>3, Zenon
    <3> QED
      BY <2>2, <3>2, <3>3
  <2>5. ASSUME NEW x \in set, x <= k + 1 PROVE \E i \in 1..Len(new) : new[i] = x
    <3>1. CASE x <= k
      <4>1. PICK i \in 1..Len(out) : out[i] = x
        BY <3>1 DEF IsCollected
      <4>2. i \in 1..Len(new) /\ new[i] = x
        BY <1>0, <2>1, <4>1
      <4> QED
        BY <4>2
    <3>2. CASE x = k + 1
      <4>1. Len(out) + 1 \in 1..Len(new)
        BY <1>0, <2>1
      <4> QED
        BY <2>1, <3>2, <4>1
    <3> QED
      BY <1>0, <2>5, <3>1, <3>2
  <2>6. Collect(set, out, k + 1) = new
    BY <1>1 DEF Collect, new
  <2> QED
    BY <2>1, <2>3, <2>4, <2>5, <2>6 DEF IsCollected
<1>2. CASE k + 1 \notin set
  <2>1. Collect(set, out, k + 1) = out
    BY <1>2 DEF Collect
  <2>2. \A x \in set : x <= k + 1 => x <= k
    BY <1>0, <1>2
  <2>3. \A i \in 1..Len(out) : out[i] <= k + 1
    BY <1>0
  <2> QED
    BY <1>0, <2>1, <2>2, <2>3 DEF IsCollected
<1> QED
  BY <1>1, <1>2

\* InOrder is the positions of the set, in order, each once.
LEMMA InOrderIs ==
    ASSUME NEW n \in Nat, NEW set \in SUBSET (1..n)
    PROVE  IsCollected(InOrder(n, set), set, n, n)
<1>1. PICK h \in [0..n -> Seq(1..n)] :
          /\ h[0] = <<>> /\ InOrder(n, set) = h[n]
          /\ \A k \in 0..(n - 1) : h[k + 1] = Collect(set, h[k], k + 1)
  BY InOrderSteps
<1> DEFINE Q == {k \in 0..n : IsCollected(h[k], set, n, k)}
<1>2. IsCollected(h[0], set, n, 0)
  <2>1. h[0] \in Seq(1..n) /\ Len(h[0]) = 0
    BY <1>1
  <2>2. \A x \in set : ~(x <= 0)
    OBVIOUS
  <2> QED
    BY <2>1, <2>2 DEF IsCollected
<1>3. 0 \in Q
  BY <1>2
<1>4. \A k \in 0..(n - 1) : k \in Q => k + 1 \in Q
  BY <1>1, CollectKeeps
<1>5. n \in Q
  <2>1. n \in 0..n
    OBVIOUS
  <2> HIDE DEF Q
  <2> QED
    BY <1>3, <1>4, <2>1, UpToInduction
<1> QED
  BY <1>1, <1>5

-----------------------------------------------------------------------------
(* Frames: samples in order, one of an instant *)

\* What normalization makes of a delivery.
IsFrame(f) ==
    /\ f \in Seq(Samples)
    /\ \A i, j \in 1..Len(f) : i < j => f[i].ts < f[j].ts

\* Numbers that rise.
Rises(q) == q \in Seq(Nat) /\ \A i, j \in 1..Len(q) : i < j => q[i] < q[j]

\* Instants of samples.
LEMMA FrameInstants ==
    ASSUME NEW f, IsFrame(f)
    PROVE  /\ DOMAIN f = 1..Len(f) /\ Len(f) \in Nat
           /\ \A i \in 1..Len(f) : f[i] \in Samples /\ f[i].ts \in 0..(Width - 1)
           /\ \A i, j \in 1..Len(f) : (f[i].ts < f[j].ts <=> i < j) /\ (f[i].ts = f[j].ts <=> i = j)
<1>1. DOMAIN f = 1..Len(f) /\ Len(f) \in Nat /\ \A i \in 1..Len(f) : f[i] \in Samples
  BY DEF IsFrame
<1>2. \A i \in 1..Len(f) : f[i].ts \in 0..(Width - 1)
  BY <1>1, FramesAssumption
<1>3. ASSUME NEW i \in 1..Len(f), NEW j \in 1..Len(f)
      PROVE  (f[i].ts < f[j].ts <=> i < j) /\ (f[i].ts = f[j].ts <=> i = j)
  <2>1. i < j \/ i = j \/ j < i
    OBVIOUS
  <2>2. i < j => f[i].ts < f[j].ts
    BY DEF IsFrame
  <2>3. j < i => f[j].ts < f[i].ts
    BY DEF IsFrame
  <2>4. f[i].ts \in Int /\ f[j].ts \in Int
    BY <1>2
  <2> QED
    BY <2>1, <2>2, <2>3, <2>4
<1> QED
  BY <1>1, <1>2, <1>3

\* The instants of the present samples rise, and are all of theirs.
PresentSamples(f) == {x \in Range(f) : Usable(x) /\ Finite(x)}
LEMMA PresentIs ==
    ASSUME NEW f, IsFrame(f)
    PROVE  /\ Rises(Present(f)) /\ \A i \in 1..Len(Present(f)) : Present(f)[i] \in 0..(Width - 1)
           /\ \A i \in 1..Len(Present(f)) : \E x \in PresentSamples(f) : x.ts = Present(f)[i]
           /\ \A x \in PresentSamples(f) : \E i \in 1..Len(Present(f)) : x.ts = Present(f)[i]
<1> DEFINE set == {i \in DOMAIN f : Usable(f[i]) /\ Finite(f[i])}
           at  == InOrder(Len(f), set)
           p   == [k \in DOMAIN at |-> f[at[k]].ts]
<1>1. Present(f) = p
  BY DEF Present
<1>2. /\ DOMAIN f = 1..Len(f) /\ Len(f) \in Nat
      /\ \A i \in 1..Len(f) : f[i].ts \in 0..(Width - 1)
      /\ \A i, j \in 1..Len(f) : f[i].ts < f[j].ts <=> i < j
  BY FrameInstants
<1>3. set \in SUBSET (1..Len(f))
  BY <1>2
<1>s. \A i \in set : Usable(f[i]) /\ Finite(f[i])
  OBVIOUS
<1>t. \A i \in 1..Len(f) : Usable(f[i]) /\ Finite(f[i]) => i \in set
  BY <1>2
<1> HIDE DEF set
<1>4. IsCollected(at, set, Len(f), Len(f))
  BY <1>2, <1>3, InOrderIs
<1> HIDE DEF at
<1>5. /\ at \in Seq(1..Len(f)) /\ Len(at) \in Nat /\ DOMAIN at = 1..Len(at)
      /\ \A i \in 1..Len(at) : at[i] \in set /\ at[i] \in 1..Len(f)
      /\ \A i, j \in 1..Len(at) : i < j => at[i] < at[j]
      /\ \A x \in set : \E i \in 1..Len(at) : at[i] = x
  BY <1>2, <1>3, <1>4 DEF IsCollected
<1>6. /\ Len(p) = Len(at) /\ \A i \in 1..Len(at) : p[i] = f[at[i]].ts
      /\ p \in Seq(0..(Width - 1))
  BY <1>2, <1>5
<1> HIDE DEF p
<1>7. Rises(p)
  <2>1. p \in Seq(Nat)
    BY <1>6, <1>5, FramesAssumption
  <2>2. \A i, j \in 1..Len(p) : i < j => p[i] < p[j]
    <3> SUFFICES ASSUME NEW i \in 1..Len(p), NEW j \in 1..Len(p), i < j PROVE p[i] < p[j]
      OBVIOUS
    <3>1. i \in 1..Len(at) /\ j \in 1..Len(at)
      BY <1>6
    <3>2. at[i] < at[j] /\ at[i] \in 1..Len(f) /\ at[j] \in 1..Len(f)
      BY <1>5, <3>1, Zenon
    <3>3. f[at[i]].ts < f[at[j]].ts
      BY <1>2, <3>2, Zenon
    <3>4. p[i] = f[at[i]].ts /\ p[j] = f[at[j]].ts
      BY <1>6, <3>1, Zenon
    <3> QED
      BY <3>3, <3>4, Zenon
  <2> QED
    BY <2>1, <2>2 DEF Rises
<1>8. ASSUME NEW i \in 1..Len(p) PROVE p[i] \in 0..(Width - 1) /\ \E x \in PresentSamples(f) : x.ts = p[i]
  <2>1. at[i] \in set /\ at[i] \in DOMAIN f /\ p[i] = f[at[i]].ts
    BY <1>2, <1>5, <1>6
  <2>2. f[at[i]] \in PresentSamples(f)
    BY <1>s, <2>1 DEF PresentSamples, Range
  <2> QED
    BY <1>2, <2>1, <2>2
<1>9. ASSUME NEW x \in PresentSamples(f) PROVE \E i \in 1..Len(p) : x.ts = p[i]
  <2>1. PICK k \in DOMAIN f : f[k] = x /\ Usable(f[k]) /\ Finite(f[k])
    BY DEF PresentSamples, Range
  <2>2. k \in set
    BY <1>2, <1>t, <2>1
  <2>3. PICK i \in 1..Len(at) : at[i] = k
    BY <1>5, <2>2
  <2> QED
    BY <1>6, <2>1, <2>3
<1> QED
  BY <1>1, <1>7, <1>8, <1>9

\* Where the stretch before an instant begins: at the instant before it, or at the window's start.
Since(q, j) == IF j = 1 THEN 0 ELSE q[j - 1]

\* What the walk over the first k instants has found.
IsGapped(at, q, k) ==
    /\ at \in GapWalks
    /\ at.prev = IF k = 0 THEN 0 ELSE q[k]
    /\ \A i \in 1..Len(at.gaps) : \E j \in 1..k :
          at.gaps[i] = <<Since(q, j), q[j]>> /\ q[j] - Since(q, j) > GapThreshold
    /\ \A j \in 1..k : q[j] - Since(q, j) > GapThreshold =>
          \E i \in 1..Len(at.gaps) : at.gaps[i] = <<Since(q, j), q[j]>>
    /\ \A i \in 1..Len(at.gaps) : at.gaps[i][2] <= at.prev
    /\ \A i, j \in 1..Len(at.gaps) : i < j => at.gaps[i][2] <= at.gaps[j][1]

\* One more instant keeps the gaps the long stretches so far.
LEMMA GapBeforeKeeps ==
    ASSUME NEW q, Rises(q), NEW k \in 0..(Len(q) - 1), NEW at, IsGapped(at, q, k)
    PROVE  IsGapped(GapBefore(at, q[k + 1]), q, k + 1)
<1> DEFINE t == q[k + 1]
           new == GapBefore(at, t)
           old == at.gaps
<1>0. /\ q \in Seq(Nat) /\ Len(q) \in Nat /\ k \in Nat /\ k + 1 \in 1..Len(q) /\ \A i \in 1..Len(q) : q[i] \in Nat
      /\ at \in GapWalks /\ old \in Seq(Nat \X Nat) /\ Len(old) \in Nat /\ at.prev \in Nat /\ t \in Nat
      /\ \A i \in 1..Len(old) : old[i][1] \in Nat /\ old[i][2] \in Nat
  <2>1. q \in Seq(Nat) /\ Len(q) \in Nat /\ k \in Nat
    BY DEF Rises
  <2>2. k + 1 \in 1..Len(q) /\ \A i \in 1..Len(q) : q[i] \in Nat
    BY <2>1
  <2>3. at \in GapWalks /\ old \in Seq(Nat \X Nat) /\ at.prev \in Nat
    BY DEF IsGapped, GapWalks
  <2> HIDE DEF old
  <2>4. Len(old) \in Nat /\ \A i \in 1..Len(old) : old[i] \in Nat \X Nat
    BY <2>3
  <2> QED
    BY <2>1, <2>2, <2>3, <2>4
<1>1. at.prev = Since(q, k + 1)
  BY <1>0 DEF IsGapped, Since
<1>2. at.prev <= t
  <2>1. CASE k = 0
    BY <1>0, <2>1 DEF IsGapped
  <2>2. CASE k # 0
    <3>1. k \in 1..Len(q) /\ k < k + 1
      BY <1>0, <2>2
    <3>2. q[k] < q[k + 1]
      BY <1>0, <3>1 DEF Rises
    <3> QED
      BY <1>0, <2>2, <3>1, <3>2 DEF IsGapped
  <2> QED
    BY <2>1, <2>2
<1>p. at.prev \in Nat /\ t \in Nat /\ at.prev <= t
  BY <1>0, <1>2, Zenon
<1>3. new \in GapWalks
  BY <1>0, GapBeforeType
<1>4. new.prev = q[k + 1]
  BY <1>0, <1>2 DEF GapBefore, Latest
<1>5. new.gaps = IF t - at.prev > GapThreshold THEN Append(old, <<at.prev, t>>) ELSE old
  BY DEF GapBefore
<1>6. \A j \in 1..(k + 1) : j \in 1..k \/ j = k + 1
  BY <1>0
<1>t. t = q[k + 1] /\ GapBefore(at, q[k + 1]) = new
  OBVIOUS
<1>g. /\ \A i \in 1..Len(old) : \E j \in 1..k :
           old[i] = <<Since(q, j), q[j]>> /\ q[j] - Since(q, j) > GapThreshold
      /\ \A j \in 1..k : q[j] - Since(q, j) > GapThreshold =>
            \E i \in 1..Len(old) : old[i] = <<Since(q, j), q[j]>>
      /\ \A i \in 1..Len(old) : old[i][2] <= at.prev
      /\ \A i, j \in 1..Len(old) : i < j => old[i][2] <= old[j][1]
  BY DEF IsGapped
<1> HIDE DEF t, new, old
<1>7. CASE ~(t - at.prev > GapThreshold)
  <2>1. new.gaps = old
    BY <1>5, <1>7
  <2>2. ASSUME NEW i \in 1..Len(old)
        PROVE  \E j \in 1..(k + 1) : old[i] = <<Since(q, j), q[j]>> /\ q[j] - Since(q, j) > GapThreshold
    <3>1. PICK j \in 1..k : old[i] = <<Since(q, j), q[j]>> /\ q[j] - Since(q, j) > GapThreshold
      BY <1>g
    <3>2. j \in 1..(k + 1)
      BY <1>0
    <3> QED
      BY <3>1, <3>2
  <2>3. ASSUME NEW j \in 1..(k + 1), q[j] - Since(q, j) > GapThreshold
        PROVE  \E i \in 1..Len(old) : old[i] = <<Since(q, j), q[j]>>
    <3>1. j \in 1..k
      BY <1>1, <1>6, <1>7, <1>t, <2>3
    <3> QED
      BY <1>g, <2>3, <3>1
  <2>4. ASSUME NEW i \in 1..Len(old) PROVE old[i][2] <= t
    <3>1. old[i][2] <= at.prev /\ old[i][2] \in Nat
      BY <1>0, <1>g
    <3> QED
      BY <1>p, <3>1
  <2>5. \A i, j \in 1..Len(old) : i < j => old[i][2] <= old[j][1]
    BY <1>g
  <2>6. new.prev = IF k + 1 = 0 THEN 0 ELSE q[k + 1]
    BY <1>0, <1>4, <1>t
  <2> QED
    BY <1>3, <1>4, <1>t, <2>1, <2>2, <2>3, <2>4, <2>5, <2>6, Zenon DEF IsGapped
<1>8. CASE t - at.prev > GapThreshold
  <2> DEFINE more == Append(old, <<at.prev, t>>)
  <2>1. new.gaps = more
    BY <1>5, <1>8
  <2>2. /\ Len(more) = Len(old) + 1 /\ more[Len(old) + 1] = <<at.prev, t>>
        /\ \A i \in 1..Len(old) : more[i] = old[i]
    BY <1>0
  <2> HIDE DEF more
  <2>3. \A i \in 1..Len(more) : i \in 1..Len(old) \/ i = Len(old) + 1
    BY <1>0, <2>2
  <2>4. ASSUME NEW i \in 1..Len(more)
        PROVE  \E j \in 1..(k + 1) : more[i] = <<Since(q, j), q[j]>> /\ q[j] - Since(q, j) > GapThreshold
    <3>1. CASE i \in 1..Len(old)
      <4>1. PICK j \in 1..k : old[i] = <<Since(q, j), q[j]>> /\ q[j] - Since(q, j) > GapThreshold
        BY <1>g, <3>1
      <4>2. j \in 1..(k + 1)
        BY <1>0
      <4> QED
        BY <2>2, <3>1, <4>1, <4>2
    <3>2. CASE i = Len(old) + 1
      <4>1. k + 1 \in 1..(k + 1)
        BY <1>0
      <4> QED
        BY <1>1, <1>8, <1>t, <2>2, <3>2, <4>1
    <3> QED
      BY <2>3, <3>1, <3>2
  <2>5. ASSUME NEW j \in 1..(k + 1), q[j] - Since(q, j) > GapThreshold
        PROVE  \E i \in 1..Len(more) : more[i] = <<Since(q, j), q[j]>>
    <3>1. CASE j \in 1..k
      <4>1. PICK i \in 1..Len(old) : old[i] = <<Since(q, j), q[j]>>
        BY <1>g, <2>5, <3>1
      <4>2. i \in 1..Len(more)
        BY <1>0, <2>2
      <4> QED
        BY <2>2, <4>1, <4>2
    <3>2. CASE j = k + 1
      <4>1. Len(old) + 1 \in 1..Len(more)
        BY <1>0, <2>2
      <4> QED
        BY <1>1, <1>t, <2>2, <3>2, <4>1
    <3> QED
      BY <1>6, <3>1, <3>2
  <2>6. ASSUME NEW i \in 1..Len(more) PROVE more[i][2] <= t
    <3>1. CASE i \in 1..Len(old)
      <4>1. old[i][2] <= at.prev /\ more[i] = old[i] /\ old[i][2] \in Nat
        BY <1>0, <1>g, <2>2, <3>1
      <4> QED
        BY <1>p, <4>1
    <3>2. CASE i = Len(old) + 1
      BY <1>0, <2>2, <3>2
    <3> QED
      BY <2>3, <3>1, <3>2
  <2>7. ASSUME NEW i \in 1..Len(more), NEW j \in 1..Len(more), i < j PROVE more[i][2] <= more[j][1]
    <3>1. i \in 1..Len(old) /\ more[i] = old[i]
      <4>1. i \in 1..Len(old)
        <5>1. Len(more) = Len(old) + 1 /\ Len(old) \in Nat
          BY <1>0, <2>2, Zenon
        <5> QED
          BY <2>7, <5>1
      <4> QED
        BY <2>2, <4>1, Zenon
    <3>2. CASE j \in 1..Len(old)
      BY <1>g, <2>2, <2>7, <3>1, <3>2
    <3>3. CASE j = Len(old) + 1
      BY <1>g, <2>2, <3>1, <3>3
    <3> QED
      BY <2>3, <3>2, <3>3
  <2>8. new.prev = IF k + 1 = 0 THEN 0 ELSE q[k + 1]
    BY <1>0, <1>4, <1>t
  <2> QED
    BY <1>3, <1>4, <1>t, <2>1, <2>4, <2>5, <2>6, <2>7, <2>8, Zenon DEF IsGapped
<1> QED
  BY <1>7, <1>8

\* The walk over instants that rise finds the long stretches between neighbours.
LEMMA GappedIs ==
    ASSUME NEW q, Rises(q)
    PROVE  IsGapped(FoldLeft(GapBefore, NoGaps, q), q, Len(q))
<1>0. q \in Seq(Nat) /\ Len(q) \in Nat
  BY DEF Rises
<1>1. PICK h \in [0..Len(q) -> GapWalks] :
          /\ h[0] = NoGaps /\ FoldLeft(GapBefore, NoGaps, q) = h[Len(q)]
          /\ \A k \in 0..(Len(q) - 1) : h[k + 1] = GapBefore(h[k], q[k + 1])
  BY <1>0, GapSteps
<1> DEFINE Q == {k \in 0..Len(q) : IsGapped(h[k], q, k)}
<1>2. IsGapped(h[0], q, 0)
  <2>1. h[0] \in GapWalks /\ h[0].prev = 0 /\ h[0].gaps = <<>> /\ 1..Len(h[0].gaps) = {} /\ 1..0 = {}
    BY <1>0, <1>1 DEF NoGaps
  <2> QED
    BY <2>1 DEF IsGapped
<1>3. 0 \in Q
  BY <1>0, <1>2
<1>4. \A k \in 0..(Len(q) - 1) : k \in Q => k + 1 \in Q
  BY <1>0, <1>1, GapBeforeKeeps
<1>5. Len(q) \in Q
  <2>1. Len(q) \in 0..Len(q)
    BY <1>0
  <2> HIDE DEF Q
  <2> QED
    BY <1>0, <1>3, <1>4, <2>1, UpToInduction
<1> QED
  BY <1>1, <1>5

\* The instants of numbers that rise, compared by their places.
LEMMA RisesOrder ==
    ASSUME NEW q, Rises(q)
    PROVE  /\ Len(q) \in Nat /\ \A i \in 1..Len(q) : q[i] \in Nat
           /\ \A i, j \in 1..Len(q) : (q[i] < q[j] <=> i < j) /\ (q[i] = q[j] <=> i = j)
<1>1. Len(q) \in Nat /\ \A i \in 1..Len(q) : q[i] \in Nat
  BY DEF Rises
<1>2. ASSUME NEW i \in 1..Len(q), NEW j \in 1..Len(q)
      PROVE  (q[i] < q[j] <=> i < j) /\ (q[i] = q[j] <=> i = j)
  <2>1. i < j => q[i] < q[j]
    BY DEF Rises
  <2>2. j < i => q[j] < q[i]
    BY DEF Rises
  <2>3. i \in Int /\ j \in Int /\ q[i] \in Int /\ q[j] \in Int
    BY <1>1
  <2> QED
    BY <2>1, <2>2, <2>3
<1> QED
  BY <1>1, <1>2

\* Between the end of a stretch and its beginning lies nothing, and the beginning is that of the only
\* stretch that ends there.
StretchesOf(q, G) ==
    /\ \A i \in 1..Len(G) : \E j \in 1..Len(q) :
          G[i] = <<Since(q, j), q[j]>> /\ q[j] - Since(q, j) > GapThreshold
    /\ \A j \in 1..Len(q) : q[j] - Since(q, j) > GapThreshold => \E i \in 1..Len(G) : G[i] = <<Since(q, j), q[j]>>

InstantsOf(P, q, m) == (\A i \in 1..m : q[i] \in P) /\ \A t \in P : \E i \in 1..m : t = q[i]
GapsAmong(P, W) == {e \in ({0, W} \union P) \X ({0, W} \union P) :
                       e[2] - e[1] > GapThreshold /\ \A t \in P : ~(e[1] < t /\ t < e[2])}

\* Long stretches between neighbours are those with no present sample inside.
LEMMA StretchesAreGaps ==
    ASSUME NEW q, Rises(q), NEW G, G \in Seq(Nat \X Nat), StretchesOf(q, G), NEW P, NEW m, m \in Nat,
           Len(q) = m + 1, InstantsOf(P, q, m), NEW W, W = q[m + 1]
    PROVE  Range(G) = GapsAmong(P, W)
<1> DEFINE ends == {0, W} \union P
           gaps == {e \in ends \X ends : e[2] - e[1] > GapThreshold /\ \A t \in P : ~(e[1] < t /\ t < e[2])}
<1>0. (\A i \in 1..m : q[i] \in P) /\ \A t \in P : \E i \in 1..m : t = q[i]
  BY DEF InstantsOf
<1>1. /\ \A i \in 1..(m + 1) : q[i] \in Nat
      /\ \A i, j \in 1..(m + 1) : (q[i] < q[j] <=> i < j) /\ (q[i] = q[j] <=> i = j)
  BY RisesOrder
<1>2. W = q[m + 1] /\ m + 1 \in 1..(m + 1) /\ W \in Nat /\ GapThreshold \in Nat
  BY <1>1, FramesAssumption
<1>3. \A i \in 1..(m + 1) : i \in 1..m \/ i = m + 1
  OBVIOUS
<1>4. \A i \in 1..m : i \in 1..(m + 1)
  OBVIOUS
<1>5. ASSUME NEW j \in 1..(m + 1)
      PROVE  /\ q[j] \in ends /\ Since(q, j) \in ends /\ Since(q, j) \in Nat /\ q[j] \in Nat
             /\ \A t \in P : ~(Since(q, j) < t /\ t < q[j])
  <2>1. q[j] \in ends /\ q[j] \in Nat
    BY <1>0, <1>1, <1>2, <1>3
  <2>2. CASE j = 1
    <3>1. Since(q, j) = 0
      BY <2>2 DEF Since
    <3>2. ASSUME NEW t \in P, t < q[j] PROVE FALSE
      <4>1. PICK i \in 1..m : t = q[i]
        BY <1>0
      <4>2. i < j
        BY <1>1, <1>4, <3>2, <4>1
      <4> QED
        BY <2>2, <4>2
    <3> QED
      BY <2>1, <3>1, <3>2
  <2>3. CASE j # 1
    <3>1. Since(q, j) = q[j - 1] /\ j - 1 \in 1..m /\ j - 1 \in 1..(m + 1)
      BY <2>3 DEF Since
    <3>2. ASSUME NEW t \in P, q[j - 1] < t, t < q[j] PROVE FALSE
      <4>1. PICK i \in 1..m : t = q[i]
        BY <1>0
      <4>2. j - 1 < i /\ i < j
        BY <1>1, <1>4, <3>1, <3>2, <4>1
      <4> QED
        BY <4>2
    <3>3. q[j - 1] \in ends /\ q[j - 1] \in Nat
      BY <1>0, <1>1, <3>1
    <3> QED
      BY <2>1, <3>1, <3>2, <3>3
  <2> QED
    BY <2>2, <2>3
<1>6. ASSUME NEW g \in Range(G) PROVE g \in gaps
  <2>1. PICK i \in 1..Len(G) : G[i] = g
    <3>1. DOMAIN G = 1..Len(G)
      OBVIOUS
    <3> QED
      BY <3>1 DEF Range
  <2>2. PICK j \in 1..(m + 1) : G[i] = <<Since(q, j), q[j]>> /\ q[j] - Since(q, j) > GapThreshold
    BY DEF StretchesOf
  <2>3. g = <<Since(q, j), q[j]>> /\ g[1] = Since(q, j) /\ g[2] = q[j]
    BY <2>1, <2>2
  <2> QED
    BY <1>5, <2>2, <2>3
<1>7. ASSUME NEW e \in gaps PROVE e \in Range(G)
  <2>0. /\ e = <<e[1], e[2]>> /\ e[1] \in ends /\ e[2] \in ends /\ e[2] - e[1] > GapThreshold
        /\ \A t \in P : ~(e[1] < t /\ t < e[2])
    BY <1>7
  <2> HIDE DEF gaps
  <2>1. \A x \in ends : x \in Nat /\ (x = 0 \/ \E i \in 1..(m + 1) : x = q[i])
    BY <1>0, <1>1, <1>2, <1>4
  <2>2. e[1] \in Nat /\ e[2] \in Nat /\ e[1] < e[2]
    BY <1>2, <2>0, <2>1
  <2>3. PICK j \in 1..(m + 1) : e[2] = q[j]
    BY <2>0, <2>1, <2>2
  <2>4. e[1] = 0 \/ \E i \in 1..(m + 1) : e[1] = q[i]
    BY <2>0, <2>1
  <2>5. e[1] = Since(q, j)
    <3>1. CASE j = 1
      <4>1. ~\E i \in 1..(m + 1) : e[1] = q[i]
        <5> SUFFICES ASSUME NEW i \in 1..(m + 1), e[1] = q[i] PROVE FALSE
          OBVIOUS
        <5>1. i < j
          BY <1>1, <2>2, <2>3
        <5> QED
          BY <3>1, <5>1
      <4> QED
        BY <2>4, <3>1, <4>1 DEF Since
    <3>2. CASE j # 1
      <4>1. Since(q, j) = q[j - 1] /\ j - 1 \in 1..m /\ j - 1 \in 1..(m + 1) /\ j - 1 < j
        BY <3>2 DEF Since
      <4>2. q[j - 1] < q[j] /\ q[j - 1] \in Nat /\ q[j - 1] \in P
        BY <1>0, <1>1, <4>1
      <4>3. ~(e[1] < q[j - 1])
        BY <2>0, <2>3, <4>2
      <4>4. CASE e[1] = 0
        BY <4>1, <4>2, <4>3, <4>4
      <4>5. ASSUME NEW i \in 1..(m + 1), e[1] = q[i] PROVE e[1] = Since(q, j)
        <5>1. i < j /\ ~(i < j - 1)
          BY <1>1, <2>2, <2>3, <4>1, <4>3, <4>5
        <5>2. i = j - 1
          BY <5>1
        <5> QED
          BY <4>1, <4>5, <5>2
      <4> QED
        BY <2>4, <4>4, <4>5
    <3> QED
      BY <3>1, <3>2
  <2>6. q[j] - Since(q, j) > GapThreshold
    BY <2>0, <2>3, <2>5
  <2>7. PICK i \in 1..Len(G) : G[i] = <<Since(q, j), q[j]>>
    BY <2>6 DEF StretchesOf
  <2>8. e = G[i] /\ i \in DOMAIN G
    BY <2>0, <2>3, <2>5, <2>7
  <2> QED
    BY <2>8 DEF Range
<1>8. GapsAmong(P, W) = gaps
  BY DEF GapsAmong
<1> HIDE DEF gaps
<1> QED
  BY <1>6, <1>7, <1>8

\* The gaps of a frame are the long stretches without a present sample, each once and in order.
LEMMA GapsOfFrame ==
    ASSUME NEW f, IsFrame(f)
    PROVE  LET present == {x.ts : x \in {y \in Range(f) : Usable(y) /\ Finite(y)}}
           IN  /\ Gaps(f) \in Seq(Nat \X Nat)
               /\ Range(Gaps(f)) = GapsAmong(present, Width)
               /\ \A k \in 2..Len(Gaps(f)) : Gaps(f)[k - 1][2] <= Gaps(f)[k][1]
               /\ \A g \in Range(Gaps(f)) : g[1] \in 0..(Width - 1) /\ g[2] \in (g[1] + 1)..Width
<1> DEFINE P == {x.ts : x \in {y \in Range(f) : Usable(y) /\ Finite(y)}}
           p == Present(f)
           q == Append(p, Width)
           at == FoldLeft(GapBefore, NoGaps, q)
<1>1. /\ Rises(p) /\ \A i \in 1..Len(p) : p[i] \in 0..(Width - 1)
      /\ \A i \in 1..Len(p) : p[i] \in P
      /\ \A t \in P : \E i \in 1..Len(p) : t = p[i]
  <2>1. PresentSamples(f) = {y \in Range(f) : Usable(y) /\ Finite(y)}
    BY DEF PresentSamples
  <2> QED
    BY <2>1, PresentIs
<1>w. Width \in Nat \ {0} /\ GapThreshold \in Nat
  BY FramesAssumption
<1> HIDE DEF P, p
<1>2. p \in Seq(Nat) /\ Len(p) \in Nat
  BY <1>1 DEF Rises
<1>3. q \in Seq(Nat) /\ Len(q) = Len(p) + 1 /\ q[Len(p) + 1] = Width /\ \A i \in 1..Len(p) : q[i] = p[i]
  BY <1>2, <1>w
<1>4. Gaps(f) = at.gaps
  BY DEF Gaps, NoGaps, p
<1> HIDE DEF q
<1>5. Rises(q)
  <2> SUFFICES ASSUME NEW i \in 1..Len(q), NEW j \in 1..Len(q), i < j PROVE q[i] < q[j]
    BY <1>3 DEF Rises
  <2>1. i \in 1..Len(p) /\ (j \in 1..Len(p) \/ j = Len(p) + 1)
    BY <1>2, <1>3
  <2>2. j \in 1..Len(p) => p[i] < p[j]
    BY <1>1, <2>1 DEF Rises
  <2>3. p[i] < Width
    BY <1>1, <1>w, <2>1
  <2> QED
    BY <1>3, <2>1, <2>2, <2>3
<1>6. IsGapped(at, q, Len(q))
  BY <1>5, GappedIs
<1> HIDE DEF at
<1> DEFINE G == at.gaps
<1>7. /\ G \in Seq(Nat \X Nat) /\ Len(G) \in Nat /\ StretchesOf(q, G)
      /\ \A i, j \in 1..Len(G) : i < j => G[i][2] <= G[j][1]
  <2>1. G \in Seq(Nat \X Nat)
    BY <1>6 DEF IsGapped, GapWalks
  <2>2. StretchesOf(q, G)
    BY <1>6 DEF IsGapped, StretchesOf
  <2>3. \A i, j \in 1..Len(G) : i < j => G[i][2] <= G[j][1]
    BY <1>6 DEF IsGapped
  <2> HIDE DEF G
  <2>4. Len(G) \in Nat
    BY <2>1
  <2> QED
    BY <2>1, <2>2, <2>3, <2>4
<1>11. Gaps(f) = G
  BY <1>4 DEF G
<1> HIDE DEF G
<1>8. Range(G) = GapsAmong(P, Width)
  <2>1. InstantsOf(P, q, Len(p))
    BY <1>1, <1>3 DEF InstantsOf
  <2>2. Width = q[Len(p) + 1] /\ Len(q) = Len(p) + 1
    BY <1>3
  <2> QED
    BY <1>2, <1>5, <1>7, <2>1, <2>2, StretchesAreGaps, SMTT(30)
<1>9. \A k \in 2..Len(G) : G[k - 1][2] <= G[k][1]
  <2> SUFFICES ASSUME NEW k \in 2..Len(G) PROVE G[k - 1][2] <= G[k][1]
    OBVIOUS
  <2>1. k - 1 \in 1..Len(G) /\ k \in 1..Len(G) /\ k - 1 < k
    BY <1>7
  <2> QED
    BY <1>7, <2>1
<1>10. ASSUME NEW g \in Range(G) PROVE g[1] \in 0..(Width - 1) /\ g[2] \in (g[1] + 1)..Width
  <2>1. g[1] \in {0, Width} \union P /\ g[2] \in {0, Width} \union P /\ g[2] - g[1] > GapThreshold
    BY <1>8 DEF GapsAmong
  <2>2. \A x \in {0, Width} \union P : x \in 0..Width
    BY <1>1, <1>w
  <2> DEFINE a == g[1]
             b == g[2]
  <2>3. a \in 0..Width /\ b \in 0..Width /\ b - a > GapThreshold
    <3> HIDE DEF P
    <3> QED
      BY <2>1, <2>2
  <2> HIDE DEF a, b
  <2>4. a \in 0..(Width - 1) /\ b \in (a + 1)..Width
    BY <1>w, <2>3
  <2> QED
    BY <2>4 DEF a, b
<1> QED
  BY <1>7, <1>8, <1>9, <1>10, <1>11 DEF P

\* What is left of a delivery is a frame.
LEMMA DeliveredIsFrame ==
    ASSUME delivered \in Seq(Samples)
    PROVE  IsFrame(Frame)
<1>1. IsKept(delivered, Len(delivered), Normalized(delivered))
  BY NormalizedIs
<1>2. Normalized(delivered) \in Totals
  BY <1>1 DEF IsKept
<1>3. Frame \in Seq(Samples)
  BY <1>2 DEF Frame, Totals
<1>4. \A i, j \in 1..Len(Frame) : i < j => Frame[i].ts < Frame[j].ts
  BY <1>1 DEF IsKept, Frame
<1> QED
  BY <1>3, <1>4 DEF IsFrame

\* The gaps are exact.
LEMMA GapsExact ==
    ASSUME delivered \in Seq(Samples)
    PROVE  GapsAreExact
<1> DEFINE f == Frame
           present == {x.ts : x \in {y \in Range(f) : Usable(y) /\ Finite(y)}}
<1>1. IsFrame(f)
  BY DeliveredIsFrame
<1> HIDE DEF f
<1>2. /\ Range(Gaps(f)) = GapsAmong(present, Width)
      /\ \A k \in 2..Len(Gaps(f)) : Gaps(f)[k - 1][2] <= Gaps(f)[k][1]
  BY <1>1, GapsOfFrame
<1> QED
  BY <1>2 DEF GapsAreExact, GapsAmong, f

-----------------------------------------------------------------------------
(* Runs of positions *)

\* What the walk over the positions has reached.
RunWalks == [runs : Seq(Nat \X Nat), start : Nat]
NoRuns == [runs |-> <<>>, start |-> 0]

\* What the walk over positions is after one more.
LEMMA NextPositionType ==
    ASSUME NEW holds, NEW at \in RunWalks, NEW i \in Nat
    PROVE  /\ NextPosition(holds, at, i) \in RunWalks
           /\ NextPosition(holds, at, i).runs = IF i \notin holds /\ at.start # 0 THEN Append(at.runs, <<at.start, i>>)
                                               ELSE at.runs
           /\ NextPosition(holds, at, i).start = IF i \notin holds THEN 0
                                                ELSE IF at.start = 0 THEN i ELSE at.start
<1>1. at.runs \in Seq(Nat \X Nat) /\ at.start \in Nat
  BY DEF RunWalks
<1>2. <<at.start, i>> \in Nat \X Nat
  BY <1>1
<1>3. Append(at.runs, <<at.start, i>>) \in Seq(Nat \X Nat)
  BY <1>1, <1>2
<1>4. CASE i \in holds /\ at.start = 0
  <2>1. NextPosition(holds, at, i) = [at EXCEPT !.start = i]
    BY <1>4 DEF NextPosition
  <2> QED
    BY <1>4, <2>1 DEF RunWalks
<1>5. CASE i \notin holds /\ at.start # 0
  <2>1. NextPosition(holds, at, i) = [runs |-> Append(at.runs, <<at.start, i>>), start |-> 0]
    BY <1>5 DEF NextPosition
  <2> QED
    BY <1>3, <1>5, <2>1 DEF RunWalks
<1>6. CASE (i \in holds /\ at.start # 0) \/ (i \notin holds /\ at.start = 0)
  <2>1. NextPosition(holds, at, i) = at
    BY <1>6 DEF NextPosition
  <2> QED
    BY <1>6, <2>1
<1> QED
  BY <1>4, <1>5, <1>6

\* The function the walk over some positions is the value of.
RunsFold(g, n, holds) ==
    g = [S \in SUBSET (DOMAIN [i \in 1..n |-> i]) |->
           IF S = {} THEN NoRuns ELSE NextPosition(holds, g[S \ {Max(S)}], [i \in 1..n |-> i][Max(S)])]

\* RunsUpTo takes one position after the other.
LEMMA RunSteps ==
    ASSUME NEW n \in Nat, NEW holds \in SUBSET (1..n)
    PROVE  \E h \in [0..n -> RunWalks] :
              /\ h[0] = NoRuns /\ RunsUpTo(n, holds) = h[n]
              /\ \A k \in 0..(n - 1) : h[k + 1] = NextPosition(holds, h[k], k + 1)
<1> DEFINE A == RunWalks
           F == [p \in A \X (1..n) |-> NextPosition(holds, p[1], p[2])]
           c == CHOOSE g : RunsFold(g, n, holds)
<1>1. F \in [A \X (1..n) -> A] /\ NoRuns \in A
  <2>1. ASSUME NEW a \in A, NEW i \in 1..n PROVE NextPosition(holds, a, i) \in A
    <3>1. a \in RunWalks /\ i \in Nat
      OBVIOUS
    <3> QED
      BY <3>1, NextPositionType, Zenon DEF A
  <2> HIDE DEF A
  <2>2. NoRuns \in A
    <3>1. <<>> \in Seq(Nat \X Nat)
      OBVIOUS
    <3> QED
      BY <3>1 DEF A, RunWalks, NoRuns
  <2> QED
    BY <2>1, <2>2
<1>2. \A a \in A, i \in 1..n : F[<<a, i>>] = NextPosition(holds, a, i)
  OBVIOUS
<1> HIDE DEF F, A
<1>3. PICK g \in [SUBSET (1..n) -> A] : IsFold(g, n, NoRuns, F)
  BY <1>1, FoldExists
<1>4. RunsFold(g, n, holds)
  <2>1. ASSUME NEW S \in SUBSET (1..n)
        PROVE  g[S] = IF S = {} THEN NoRuns ELSE NextPosition(holds, g[S \ {Max(S)}], Max(S))
    <3>1. S # {} => Max(S) \in 1..n /\ g[S \ {Max(S)}] \in A
      BY GreatestIn
    <3> QED
      BY <1>2, <1>3, <3>1 DEF IsFold
  <2>3. \A S \in SUBSET (1..n) : S # {} => [i \in 1..n |-> i][Max(S)] = Max(S)
    BY GreatestIn
  <2>2. g = [S \in SUBSET (1..n) |-> g[S]]
    OBVIOUS
  <2> QED
    BY <2>1, <2>2, <2>3 DEF RunsFold
<1>5. RunsFold(c, n, holds)
  BY <1>4
<1>6. RunsUpTo(n, holds) = c[1..n]
  BY DEF RunsUpTo, FoldLeft, MapThenFoldSet, RunsFold, NoRuns
<1> HIDE DEF c
<1>7. \A S \in SUBSET (1..n) : c[S] = IF S = {} THEN NoRuns ELSE NextPosition(holds, c[S \ {Max(S)}], Max(S))
  <2>1. \A S \in SUBSET (1..n) : S # {} => [i \in 1..n |-> i][Max(S)] = Max(S)
    BY GreatestIn
  <2> QED
    BY <1>5, <2>1 DEF RunsFold
<1>8. Unfolds(c, A, n, NoRuns, F)
  BY <1>2, <1>7, GreatestIn DEF Unfolds
<1>0. n \in Nat
  OBVIOUS
<1>10. PICK h \in [0..n -> A] : Reaches(h, n, NoRuns, F, c[1..n])
  BY <1>0, <1>1, <1>8, FoldWalks
<1>11. ASSUME NEW k \in 0..(n - 1) PROVE h[k + 1] = NextPosition(holds, h[k], k + 1)
  <2>1. k \in 0..n /\ k + 1 \in 1..n
    OBVIOUS
  <2>2. h[k] \in A
    BY <1>10, <2>1
  <2> QED
    BY <1>2, <1>10, <2>1, <2>2 DEF Reaches
<1> QED
  BY <1>6, <1>10, <1>11 DEF A, Reaches

\* What the walk over the first k positions has found: the run that is open, and those that have ended,
\* in order and apart from each other.
IsRunning(runs, start, holds, k) ==
    /\ start \in 0..k
    /\ start # 0 => \A p \in start..k : p \in holds
    /\ start = 0 => k \notin holds
    /\ \A j \in 1..Len(runs) : /\ runs[j][1] \in 1..k /\ runs[j][2] \in (runs[j][1] + 1)..k /\ runs[j][2] \notin holds
                               /\ \A p \in runs[j][1]..(runs[j][2] - 1) : p \in holds
                               /\ start # 0 => runs[j][2] < start
    /\ \A i, j \in 1..Len(runs) : i < j => runs[i][2] < runs[j][1]
    /\ \A p \in holds : p <= k => \/ start # 0 /\ start <= p
                                 \/ \E j \in 1..Len(runs) : runs[j][1] <= p /\ p < runs[j][2]

\* The same once no run is open: the last may end behind the last position.
AreRuns(runs, holds, k) ==
    /\ runs \in Seq(Nat \X Nat)
    /\ \A j \in 1..Len(runs) : /\ runs[j][1] \in 1..k /\ runs[j][2] \in (runs[j][1] + 1)..(k + 1)
                               /\ \A p \in runs[j][1]..(runs[j][2] - 1) : p \in holds
    /\ \A j \in 1..Len(runs) : runs[j][2] \notin holds \/ runs[j][2] = k + 1
    /\ \A i, j \in 1..Len(runs) : i < j => runs[i][2] < runs[j][1]
    /\ \A p \in holds : p \in Nat /\ p <= k => \E j \in 1..Len(runs) : runs[j][1] <= p /\ p < runs[j][2]

\* An ended run is added to those before it.
LEMMA RunEnds ==
    ASSUME NEW runs, runs \in Seq(Nat \X Nat), NEW start, NEW holds, NEW k, k \in Nat, IsRunning(runs, start, holds, k), start # 0
    PROVE  AreRuns(Append(runs, <<start, k + 1>>), holds, k)
<1> DEFINE more == Append(runs, <<start, k + 1>>)
<1>1. Len(runs) \in Nat /\ start \in 1..k /\ \A p \in start..k : p \in holds
  BY DEF IsRunning
<1>2. \A j \in 1..Len(runs) : /\ runs[j][1] \in 1..k /\ runs[j][2] \in (runs[j][1] + 1)..k /\ runs[j][2] \notin holds
                              /\ \A p \in runs[j][1]..(runs[j][2] - 1) : p \in holds
                              /\ runs[j][2] < start
  BY DEF IsRunning
<1>3. /\ \A i, j \in 1..Len(runs) : i < j => runs[i][2] < runs[j][1]
      /\ \A p \in holds : p <= k => \/ start <= p
                                   \/ \E j \in 1..Len(runs) : runs[j][1] <= p /\ p < runs[j][2]
  BY DEF IsRunning
<1>4. /\ more \in Seq(Nat \X Nat) /\ Len(more) = Len(runs) + 1 /\ more[Len(runs) + 1] = <<start, k + 1>>
      /\ \A j \in 1..Len(runs) : more[j] = runs[j]
  <2>1. <<start, k + 1>> \in Nat \X Nat
    BY <1>1
  <2> QED
    BY <2>1
<1> HIDE DEF more
<1>5. \A j \in 1..Len(more) : j \in 1..Len(runs) \/ j = Len(runs) + 1
  BY <1>1, <1>4
<1>6. ASSUME NEW j \in 1..Len(more)
      PROVE  /\ more[j][1] \in 1..k /\ more[j][2] \in (more[j][1] + 1)..(k + 1)
             /\ \A p \in more[j][1]..(more[j][2] - 1) : p \in holds
             /\ more[j][2] \notin holds \/ more[j][2] = k + 1
  <2>1. CASE j \in 1..Len(runs)
    <3>1. more[j] = runs[j]
      BY <1>4, <2>1
    <3>2. /\ runs[j][1] \in 1..k /\ runs[j][2] \in (runs[j][1] + 1)..k /\ runs[j][2] \notin holds
          /\ \A p \in runs[j][1]..(runs[j][2] - 1) : p \in holds
      BY <1>2, <2>1
    <3>3. runs[j][2] \in (runs[j][1] + 1)..(k + 1)
      BY <3>2
    <3> QED
      BY <3>1, <3>2, <3>3
  <2>2. CASE j = Len(runs) + 1
    <3>1. more[j][1] = start /\ more[j][2] = k + 1
      BY <1>4, <2>2
    <3>2. k + 1 \in (start + 1)..(k + 1) /\ (k + 1) - 1 = k
      BY <1>1
    <3> QED
      BY <1>1, <3>1, <3>2
  <2> QED
    BY <1>5, <2>1, <2>2
<1>7. ASSUME NEW i \in 1..Len(more), NEW j \in 1..Len(more), i < j PROVE more[i][2] < more[j][1]
  <2>1. i \in 1..Len(runs)
    BY <1>1, <1>4, <1>7
  <2>2. CASE j \in 1..Len(runs)
    BY <1>3, <1>4, <1>7, <2>1, <2>2
  <2>3. CASE j = Len(runs) + 1
    <3>1. more[j][1] = start /\ more[i] = runs[i]
      <4>1. more[j] = <<start, k + 1>>
        BY <1>4, <2>3, Zenon
      <4>2. <<start, k + 1>>[1] = start
        OBVIOUS
      <4>3. more[i] = runs[i]
        BY <1>4, <2>1, Zenon
      <4> QED
        BY <4>1, <4>2, <4>3, Zenon
    <3> QED
      BY <1>2, <2>1, <3>1
  <2> QED
    BY <1>5, <2>2, <2>3
<1>8. ASSUME NEW p \in holds, p \in Nat, p <= k PROVE \E j \in 1..Len(more) : more[j][1] <= p /\ p < more[j][2]
  <2>1. CASE start <= p
    <3>1. Len(runs) + 1 \in 1..Len(more) /\ more[Len(runs) + 1][1] = start /\ more[Len(runs) + 1][2] = k + 1 /\ p < k + 1
      BY <1>1, <1>4, <1>8
    <3> QED
      BY <2>1, <3>1
  <2>2. ASSUME NEW j \in 1..Len(runs), runs[j][1] <= p, p < runs[j][2]
        PROVE  \E l \in 1..Len(more) : more[l][1] <= p /\ p < more[l][2]
    <3>1. j \in 1..Len(more) /\ more[j] = runs[j]
      BY <1>1, <1>4
    <3> QED
      BY <2>2, <3>1
  <2> QED
    BY <1>3, <1>8, <2>1, <2>2
<1> QED
  BY <1>4, <1>6, <1>7, <1>8, Zenon DEF more, AreRuns

\* One position more keeps what the walk has found.
LEMMA NextPositionKeeps ==
    ASSUME NEW n \in Nat, NEW holds \in SUBSET (1..n), NEW k \in 0..(n - 1),
           NEW at, at \in RunWalks, IsRunning(at.runs, at.start, holds, k)
    PROVE  LET to == NextPosition(holds, at, k + 1) IN IsRunning(to.runs, to.start, holds, k + 1)
<1> DEFINE to == NextPosition(holds, at, k + 1)
           runs == at.runs
           start == at.start
<1>1. /\ runs \in Seq(Nat \X Nat) /\ Len(runs) \in Nat /\ start \in 0..k /\ k \in Nat /\ start \in Int
      /\ \A p \in holds : p \in Nat
  <2>1. runs \in Seq(Nat \X Nat)
    BY DEF RunWalks
  <2>2. start \in 0..k
    BY DEF IsRunning
  <2> HIDE DEF runs, start
  <2> QED
    BY <2>1, <2>2
<1>2. /\ to.runs = IF k + 1 \notin holds /\ start # 0 THEN Append(runs, <<start, k + 1>>) ELSE runs
      /\ to.start = IF k + 1 \notin holds THEN 0 ELSE IF start = 0 THEN k + 1 ELSE start
  <2>1. k + 1 \in Nat
    BY <1>1
  <2> QED
    BY <2>1, NextPositionType, Zenon
<1>3. IsRunning(runs, start, holds, k)
  OBVIOUS
<1> SUFFICES IsRunning(to.runs, to.start, holds, k + 1)
  OBVIOUS
<1> HIDE DEF to, runs, start
<1>4. CASE k + 1 \notin holds /\ start # 0
  <2> DEFINE more == Append(runs, <<start, k + 1>>)
  <2>1. AreRuns(more, holds, k)
    BY <1>1, <1>3, <1>4, RunEnds
  <2> HIDE DEF more
  <2>2. to.runs = more /\ to.start = 0
    BY <1>2, <1>4 DEF more
  <2>3. ASSUME NEW j \in 1..Len(more)
        PROVE  /\ more[j][1] \in 1..(k + 1) /\ more[j][2] \in (more[j][1] + 1)..(k + 1) /\ more[j][2] \notin holds
               /\ \A p \in more[j][1]..(more[j][2] - 1) : p \in holds
    <3>1. /\ more[j][1] \in 1..k /\ more[j][2] \in (more[j][1] + 1)..(k + 1)
          /\ \A p \in more[j][1]..(more[j][2] - 1) : p \in holds
      BY <2>1 DEF AreRuns
    <3>2. more[j][2] \notin holds \/ more[j][2] = k + 1
      BY <2>1 DEF AreRuns
    <3>3. more[j][1] \in 1..(k + 1)
      BY <1>1, <3>1
    <3> QED
      BY <1>4, <3>1, <3>2, <3>3
  <2>4. ASSUME NEW p \in holds, p <= k + 1 PROVE \E j \in 1..Len(more) : more[j][1] <= p /\ p < more[j][2]
    <3>1. p \in Nat /\ p # k + 1
      BY <1>1, <1>4
    <3>2. p <= k
      BY <1>1, <2>4, <3>1
    <3> QED
      BY <2>1, <3>1, <3>2 DEF AreRuns
  <2>5. 0 \in 0..(k + 1)
    BY <1>1
  <2>6. \A i, j \in 1..Len(more) : i < j => more[i][2] < more[j][1]
    BY <2>1 DEF AreRuns
  <2> QED
    BY <1>4, <2>2, <2>3, <2>4, <2>5, <2>6, Zenon DEF IsRunning
<1>5. CASE k + 1 \in holds \/ start = 0
  <2>1. to.runs = runs
    BY <1>2, <1>5
  <2>2. /\ \A j \in 1..Len(runs) : /\ runs[j][1] \in 1..k /\ runs[j][2] \in (runs[j][1] + 1)..k /\ runs[j][2] \notin holds
                                  /\ \A p \in runs[j][1]..(runs[j][2] - 1) : p \in holds
                                  /\ start # 0 => runs[j][2] < start
        /\ \A i, j \in 1..Len(runs) : i < j => runs[i][2] < runs[j][1]
        /\ \A p \in holds : p <= k => \/ start # 0 /\ start <= p
                                     \/ \E j \in 1..Len(runs) : runs[j][1] <= p /\ p < runs[j][2]
        /\ start # 0 => \A p \in start..k : p \in holds
    BY <1>3 DEF IsRunning
  <2>3. to.start \in 0..(k + 1)
    BY <1>1, <1>2
  <2>4. to.start # 0 => \A p \in (to.start)..(k + 1) : p \in holds
    <3> SUFFICES ASSUME to.start # 0, NEW p \in (to.start)..(k + 1) PROVE p \in holds
      OBVIOUS
    <3>1. k + 1 \in holds /\ (start = 0 => to.start = k + 1) /\ (start # 0 => to.start = start)
      BY <1>2
    <3>2. CASE start = 0
      BY <1>1, <3>1, <3>2
    <3>3. CASE start # 0
      <4>1. p \in start..k \/ p = k + 1
        BY <1>1, <3>1, <3>3
      <4> QED
        BY <2>2, <3>1, <3>3, <4>1
    <3> QED
      BY <3>2, <3>3
  <2>5. to.start = 0 => k + 1 \notin holds
    BY <1>1, <1>2
  <2>6. ASSUME NEW j \in 1..Len(runs)
        PROVE  /\ runs[j][1] \in 1..(k + 1) /\ runs[j][2] \in (runs[j][1] + 1)..(k + 1) /\ runs[j][2] \notin holds
               /\ to.start # 0 => runs[j][2] < to.start
    <3> DEFINE a == runs[j][1]
               b == runs[j][2]
    <3>1. a \in 1..k /\ b \in (a + 1)..k /\ b \notin holds /\ (start # 0 => b < start)
      BY <1>3, Zenon DEF IsRunning
    <3> HIDE DEF a, b
    <3>2. a \in 1..(k + 1) /\ b \in (a + 1)..(k + 1)
      BY <1>1, <3>1
    <3>3. to.start # 0 => b < to.start
      BY <1>1, <1>2, <3>1
    <3> QED
      BY <3>1, <3>2, <3>3 DEF a, b
  <2>7. ASSUME NEW p \in holds, p <= k + 1
        PROVE  \/ to.start # 0 /\ to.start <= p
               \/ \E j \in 1..Len(runs) : runs[j][1] <= p /\ p < runs[j][2]
    <3>1. CASE p = k + 1
      <4>1. to.start # 0 /\ to.start <= k + 1
        BY <1>1, <1>2, <3>1
      <4> QED
        BY <3>1, <4>1
    <3>2. CASE p # k + 1
      <4>1. p <= k
        BY <1>1, <2>7, <3>2
      <4>2. start # 0 => to.start = start
        BY <1>2, <1>5
      <4> QED
        BY <2>2, <4>1, <4>2
    <3> QED
      BY <3>1, <3>2
  <2>8. \A j \in 1..Len(runs) : \A p \in runs[j][1]..(runs[j][2] - 1) : p \in holds
    BY <1>3, Zenon DEF IsRunning
  <2>9. \A i, j \in 1..Len(runs) : i < j => runs[i][2] < runs[j][1]
    BY <2>2
  <2> QED
    BY <2>1, <2>3, <2>4, <2>5, <2>6, <2>7, <2>8, <2>9, Zenon DEF IsRunning
<1> QED
  BY <1>4, <1>5

\* RunsWhere is the runs of the positions that hold: in order, apart, and all of them.
LEMMA RunsWhereIs ==
    ASSUME NEW n \in Nat, NEW holds \in SUBSET (1..n)
    PROVE  AreRuns(RunsWhere(n, holds), holds, n)
<1>1. PICK h \in [0..n -> RunWalks] :
          /\ h[0] = NoRuns /\ RunsUpTo(n, holds) = h[n]
          /\ \A k \in 0..(n - 1) : h[k + 1] = NextPosition(holds, h[k], k + 1)
  BY RunSteps
<1> DEFINE Q == {k \in 0..n : IsRunning(h[k].runs, h[k].start, holds, k)}
<1>2. IsRunning(h[0].runs, h[0].start, holds, 0)
  <2>1. h[0].runs = <<>> /\ h[0].start = 0 /\ 1..Len(h[0].runs) = {} /\ 0 \notin holds /\ 0 \in 0..0
        /\ \A p \in holds : ~(p <= 0)
    BY <1>1 DEF NoRuns
  <2> QED
    BY <2>1 DEF IsRunning
<1>3. 0 \in Q
  BY <1>2
<1>4. \A k \in 0..(n - 1) : k \in Q => k + 1 \in Q
  <2> SUFFICES ASSUME NEW k \in 0..(n - 1), k \in Q PROVE k + 1 \in Q
    OBVIOUS
  <2>1. k \in 0..n /\ k + 1 \in 0..n
    OBVIOUS
  <2>2. h[k] \in RunWalks /\ IsRunning(h[k].runs, h[k].start, holds, k)
    BY <1>1, <2>1
  <2>3. h[k + 1] = NextPosition(holds, h[k], k + 1)
    BY <1>1
  <2>4. IsRunning(h[k + 1].runs, h[k + 1].start, holds, k + 1)
    BY <2>2, <2>3, NextPositionKeeps
  <2> QED
    BY <2>1, <2>4
<1>5. n \in Q
  <2>1. n \in 0..n
    OBVIOUS
  <2> HIDE DEF Q
  <2> QED
    BY <1>3, <1>4, <2>1, UpToInduction
<1> DEFINE at == RunsUpTo(n, holds)
           runs == at.runs
           start == at.start
<1>6. IsRunning(runs, start, holds, n) /\ runs \in Seq(Nat \X Nat)
  <2>1. at = h[n] /\ n \in 0..n
    BY <1>1
  <2>2. at \in RunWalks
    BY <1>1, <2>1
  <2> QED
    BY <1>5, <2>1, <2>2 DEF RunWalks
<1>7. RunsWhere(n, holds) = IF start = 0 THEN runs ELSE Append(runs, <<start, n + 1>>)
  BY DEF RunsWhere
<1> HIDE DEF at, runs, start
<1>8. CASE start = 0
  <2>1. ASSUME NEW j \in 1..Len(runs)
        PROVE  /\ runs[j][1] \in 1..n /\ runs[j][2] \in (runs[j][1] + 1)..(n + 1) /\ runs[j][2] \notin holds
               /\ \A p \in runs[j][1]..(runs[j][2] - 1) : p \in holds
    <3>1. /\ runs[j][1] \in 1..n /\ runs[j][2] \in (runs[j][1] + 1)..n /\ runs[j][2] \notin holds
          /\ \A p \in runs[j][1]..(runs[j][2] - 1) : p \in holds
      BY <1>6, Zenon DEF IsRunning
    <3> DEFINE a == runs[j][1]
               b == runs[j][2]
    <3>2. a \in 1..n /\ b \in (a + 1)..n
      BY <3>1
    <3> HIDE DEF a, b
    <3>3. b \in (a + 1)..(n + 1)
      BY <3>2
    <3> QED
      BY <3>1, <3>3 DEF a, b
  <2>2. \A p \in holds : p \in Nat /\ p <= n => \E j \in 1..Len(runs) : runs[j][1] <= p /\ p < runs[j][2]
    BY <1>6, <1>8 DEF IsRunning
  <2>3. \A i, j \in 1..Len(runs) : i < j => runs[i][2] < runs[j][1]
    BY <1>6 DEF IsRunning
  <2>4. RunsWhere(n, holds) = runs
    BY <1>7, <1>8
  <2> QED
    BY <1>6, <2>1, <2>2, <2>3, <2>4, Zenon DEF AreRuns
<1>9. CASE start # 0
  <2>1. RunsWhere(n, holds) = Append(runs, <<start, n + 1>>)
    BY <1>7, <1>9
  <2>2. AreRuns(Append(runs, <<start, n + 1>>), holds, n)
    BY <1>6, <1>9, RunEnds
  <2> QED
    BY <2>1, <2>2, Zenon
<1> QED
  BY <1>8, <1>9

\* Where a run of positions that ends before `b` ends in time.
EndOfRun(f, b) == IF b <= Len(f) THEN f[b].ts ELSE f[b - 1].ts + Latest(Interval, 1)

\* The window of a run has the samples of the run and no other, and starts before what follows it.
LEMMA WindowOfRun ==
    ASSUME NEW f, IsFrame(f), NEW r, NEW a, NEW b, a = r[1], b = r[2], a \in 1..Len(f), b \in (a + 1)..(Len(f) + 1)
    PROVE  /\ RunWindow(f, r) = <<f[a].ts, EndOfRun(f, b)>>
           /\ f[a].ts \in 0..(Width - 1) /\ EndOfRun(f, b) \in (f[a].ts + 1)..(Width + Interval)
           /\ \A i \in 1..Len(f) : f[i].ts < EndOfRun(f, b) <=> i < b
           /\ \A i \in 1..Len(f) : b <= i => EndOfRun(f, b) <= f[i].ts
<1>1. /\ Len(f) \in Nat
      /\ \A i \in 1..Len(f) : f[i].ts \in 0..(Width - 1)
      /\ \A i, j \in 1..Len(f) : (f[i].ts < f[j].ts <=> i < j) /\ (f[i].ts = f[j].ts <=> i = j)
  BY FrameInstants
<1>2. Width \in Nat \ {0} /\ Interval \in Nat
  BY FramesAssumption
<1>3. Latest(Interval, 1) \in Nat /\ Latest(Interval, 1) >= 1 /\ Latest(Interval, 1) <= Interval + 1
  BY <1>2 DEF Latest
<1>t. \A i \in 1..Len(f) : f[i].ts \in Int /\ 0 <= f[i].ts /\ f[i].ts <= Width - 1
  BY <1>1, <1>2
<1>4. CASE b \in 1..Len(f)
  <2>1. EndOfRun(f, b) = f[b].ts /\ a < b
    BY <1>1, <1>4 DEF EndOfRun
  <2>2. f[a].ts < f[b].ts
    BY <1>1, <1>4, <2>1
  <2>3. RunWindow(f, r) = <<f[a].ts, f[b].ts>>
    <3>1. Latest(f[b].ts, f[a].ts + 1) = f[b].ts
      BY <1>t, <1>4, <2>2 DEF Latest
    <3>2. b <= Len(f)
      BY <1>4
    <3> QED
      BY <3>1, <3>2 DEF RunWindow
  <2>4. f[b].ts \in (f[a].ts + 1)..(Width + Interval)
    <3> DEFINE x == f[a].ts
               y == f[b].ts
    <3>1. x \in Int /\ y \in Int /\ x < y /\ y <= Width - 1
      BY <1>t, <1>4, <2>2
    <3> HIDE DEF x, y
    <3>2. y \in (x + 1)..(Width + Interval)
      BY <1>2, <3>1
    <3> QED
      BY <3>2 DEF x, y
  <2>5. \A i \in 1..Len(f) : b <= i => f[b].ts <= f[i].ts
    <3> SUFFICES ASSUME NEW i \in 1..Len(f), b <= i PROVE f[b].ts <= f[i].ts
      OBVIOUS
    <3>1. ~(f[i].ts < f[b].ts)
      BY <1>1, <1>4
    <3> QED
      BY <1>t, <1>4, <3>1
  <2> QED
    BY <1>1, <1>4, <2>1, <2>3, <2>4, <2>5
<1>5. CASE b = Len(f) + 1
  <2>1. b - 1 \in 1..Len(f) /\ ~(b <= Len(f)) /\ a <= b - 1
    BY <1>1, <1>5
  <2> DEFINE last == f[b - 1].ts
             e == last + Latest(Interval, 1)
  <2>2. last \in Int /\ 0 <= last /\ last <= Width - 1 /\ f[a].ts <= last
    <3>1. ~(f[b - 1].ts < f[a].ts)
      BY <1>1, <2>1
    <3> QED
      BY <1>t, <2>1, <3>1
  <2>3. EndOfRun(f, b) = e
    BY <2>1 DEF EndOfRun
  <2>4. ASSUME NEW i \in 1..Len(f) PROVE f[i].ts <= last /\ i < b /\ ~(b <= i)
    <3>1. ~(b - 1 < i)
      BY <1>1, <1>5
    <3>2. ~(f[b - 1].ts < f[i].ts)
      BY <1>1, <2>1, <3>1
    <3> QED
      BY <1>1, <1>t, <1>5, <2>1, <3>2
  <2>7. RunWindow(f, r) = <<f[a].ts, Latest(e, f[a].ts + 1)>>
    BY <2>1 DEF RunWindow
  <2> HIDE DEF last
  <2>5. e \in Int /\ f[a].ts + 1 <= e /\ e <= Width + Interval /\ \A i \in 1..Len(f) : f[i].ts < e
    <3>1. e \in Int /\ f[a].ts + 1 <= e
      BY <1>3, <1>t, <2>2
    <3>2. e <= Width + Interval
      <4>1. Latest(Interval, 1) = Interval \/ (Interval = 0 /\ Latest(Interval, 1) = 1)
        BY <1>2 DEF Latest
      <4> QED
        BY <1>2, <2>2, <4>1
    <3>3. \A i \in 1..Len(f) : f[i].ts < e
      BY <1>3, <1>t, <2>2, <2>4
    <3> QED
      BY <3>1, <3>2, <3>3
  <2> HIDE DEF e
  <2>6. Latest(e, f[a].ts + 1) = e
    BY <1>t, <2>5 DEF Latest
  <2>8. e \in (f[a].ts + 1)..(Width + Interval)
    BY <1>2, <1>t, <2>5
  <2> QED
    BY <1>1, <2>3, <2>4, <2>5, <2>6, <2>7, <2>8
<1>6. b \in 1..Len(f) \/ b = Len(f) + 1
  BY <1>1
<1> QED
  BY <1>4, <1>5, <1>6

\* A window that the checks report for the samples of a quality, and the run it is the window of.
IsFlagWindow(f, q, w, r) ==
    /\ r[1] \in 1..Len(f) /\ r[2] \in (r[1] + 1)..(Len(f) + 1)
    /\ \A p \in r[1]..(r[2] - 1) : p \in Flagged(f, q)
    /\ w = RunWindow(f, r)

\* The runs of a quality.
LEMMA FlaggedRunsAre ==
    ASSUME NEW f, IsFrame(f), NEW q
    PROVE  /\ Flagged(f, q) \in SUBSET (1..Len(f))
           /\ AreRuns(RunsWhere(Len(f), Flagged(f, q)), Flagged(f, q), Len(f))
           /\ \A w \in FlagWindows(f, q) : \E j \in 1..Len(RunsWhere(Len(f), Flagged(f, q))) :
                IsFlagWindow(f, q, w, RunsWhere(Len(f), Flagged(f, q))[j])
           /\ TooMany(f, q) => \A j \in 1..Len(RunsWhere(Len(f), Flagged(f, q))) :
                RunWindow(f, RunsWhere(Len(f), Flagged(f, q))[j]) \in FlagWindows(f, q)
<1> DEFINE runs == RunsWhere(Len(f), Flagged(f, q))
<1>1. DOMAIN f = 1..Len(f) /\ Len(f) \in Nat
  BY FrameInstants
<1>2. Flagged(f, q) \in SUBSET (1..Len(f))
  BY <1>1 DEF Flagged
<1>3. AreRuns(runs, Flagged(f, q), Len(f))
  BY <1>1, <1>2, RunsWhereIs
<1>4. FlagWindows(f, q) = IF TooMany(f, q) THEN {RunWindow(f, r) : r \in Range(runs)} ELSE {}
  BY DEF FlagWindows
<1> HIDE DEF runs
<1>5. DOMAIN runs = 1..Len(runs)
  BY <1>3 DEF AreRuns
<1>6. ASSUME NEW w \in FlagWindows(f, q) PROVE \E j \in 1..Len(runs) : IsFlagWindow(f, q, w, runs[j])
  <2>1. PICK r \in Range(runs) : w = RunWindow(f, r)
    BY <1>4
  <2>2. PICK j \in 1..Len(runs) : runs[j] = r
    BY <1>5 DEF Range
  <2>3. /\ runs[j][1] \in 1..Len(f) /\ runs[j][2] \in (runs[j][1] + 1)..(Len(f) + 1)
        /\ \A p \in runs[j][1]..(runs[j][2] - 1) : p \in Flagged(f, q)
    BY <1>3, Zenon DEF AreRuns
  <2> QED
    BY <2>1, <2>2, <2>3, Zenon DEF IsFlagWindow
<1>7. TooMany(f, q) => \A j \in 1..Len(runs) : RunWindow(f, runs[j]) \in FlagWindows(f, q)
  BY <1>4, <1>5 DEF Range
<1> QED
  BY <1>2, <1>3, <1>6, <1>7 DEF runs

\* Windows of runs that have no position in common do not overlap.
LEMMA WindowsApart ==
    ASSUME NEW f, IsFrame(f), NEW q, NEW v, NEW r, IsFlagWindow(f, q, v, r), NEW p, NEW w, NEW s, IsFlagWindow(f, p, w, s),
           \A i \in 1..Len(f) : ~(r[1] <= i /\ i < r[2] /\ s[1] <= i /\ i < s[2])
    PROVE  v[2] <= w[1] \/ w[2] <= v[1]
<1> DEFINE a == r[1]  b == r[2]  c == s[1]  d == s[2]
<1>1. a \in 1..Len(f) /\ b \in (a + 1)..(Len(f) + 1) /\ c \in 1..Len(f) /\ d \in (c + 1)..(Len(f) + 1) /\ Len(f) \in Nat
  BY FrameInstants DEF IsFlagWindow
<1>2. v = RunWindow(f, r) /\ w = RunWindow(f, s)
  BY DEF IsFlagWindow
<1>3. /\ v = <<f[a].ts, EndOfRun(f, b)>> /\ \A i \in 1..Len(f) : b <= i => EndOfRun(f, b) <= f[i].ts
  BY <1>1, <1>2, WindowOfRun
<1>4. /\ w = <<f[c].ts, EndOfRun(f, d)>> /\ \A i \in 1..Len(f) : d <= i => EndOfRun(f, d) <= f[i].ts
  BY <1>1, <1>2, WindowOfRun
<1>5. \A i \in 1..Len(f) : ~(a <= i /\ i < b /\ c <= i /\ i < d)
  OBVIOUS
<1> HIDE DEF a, b, c, d
<1>6. b <= c \/ d <= a
  <2>1. ~(a <= c /\ c < b /\ c <= c /\ c < d) /\ ~(a <= a /\ a < b /\ c <= a /\ a < d)
    BY <1>1, <1>5
  <2> QED
    BY <1>1, <2>1
<1> QED
  BY <1>1, <1>3, <1>4, <1>6

\* The windows of flagged samples are exact.
LEMMA FlagsExact ==
    ASSUME delivered \in Seq(Samples)
    PROVE  FlagWindowsExact
<1> DEFINE f == Frame
           Inside(t, w) == w[1] <= t /\ t < w[2]
           all == UNION {{<<q, w>> : w \in FlagWindows(f, q)} : q \in Flags}
           RunsOf(q) == RunsWhere(Len(f), Flagged(f, q))
<1>1. IsFrame(f)
  BY DeliveredIsFrame
<1> HIDE DEF f
<1>2. /\ DOMAIN f = 1..Len(f) /\ Len(f) \in Nat
      /\ \A i \in 1..Len(f) : f[i].ts \in 0..(Width - 1)
      /\ \A i, j \in 1..Len(f) : (f[i].ts < f[j].ts <=> i < j) /\ (f[i].ts = f[j].ts <=> i = j)
  BY <1>1, FrameInstants
<1>r. ASSUME NEW q
      PROVE  /\ Flagged(f, q) \in SUBSET (1..Len(f)) /\ AreRuns(RunsOf(q), Flagged(f, q), Len(f))
             /\ \A w \in FlagWindows(f, q) : \E j \in 1..Len(RunsOf(q)) : IsFlagWindow(f, q, w, RunsOf(q)[j])
             /\ TooMany(f, q) => \A j \in 1..Len(RunsOf(q)) : RunWindow(f, RunsOf(q)[j]) \in FlagWindows(f, q)
  BY <1>1, FlaggedRunsAre
<1>s. \A q, i : i \in Flagged(f, q) => i \in 1..Len(f) /\ f[i].quality = q
  BY <1>2 DEF Flagged
<1>u. \A q : \A i \in 1..Len(f) : f[i].quality = q => i \in Flagged(f, q)
  BY <1>2 DEF Flagged
<1>a. ASSUME NEW v \in all PROVE v[1] \in Flags /\ v[2] \in FlagWindows(f, v[1]) /\ v = <<v[1], v[2]>>
  OBVIOUS
<1>b. \A q \in Flags : \A w \in FlagWindows(f, q) : <<q, w>> \in all
  OBVIOUS
<1> HIDE DEF all, RunsOf
<1>3. ASSUME NEW x \in Range(f), NEW q \in Flags, TooMany(f, q)
      PROVE  (\E v \in all : v[1] = q /\ Inside(x.ts, v[2])) <=> x.quality = q
  <2>1. PICK i \in 1..Len(f) : f[i] = x
    BY <1>2 DEF Range
  <2>2. ASSUME NEW v \in all, v[1] = q, Inside(x.ts, v[2]) PROVE x.quality = q
    <3>1. v[2] \in FlagWindows(f, q)
      BY <1>a, <2>2
    <3>2. PICK j \in 1..Len(RunsOf(q)) : IsFlagWindow(f, q, v[2], RunsOf(q)[j])
      BY <1>r, <3>1
    <3> DEFINE r == RunsOf(q)[j]
               a == r[1]
               b == r[2]
               w == v[2]
    <3>3. a \in 1..Len(f) /\ b \in (a + 1)..(Len(f) + 1) /\ w = RunWindow(f, r) /\ \A p \in a..(b - 1) : p \in Flagged(f, q)
      BY <3>2 DEF IsFlagWindow
    <3>w. w[1] <= f[i].ts /\ f[i].ts < w[2]
      BY <2>1, <2>2
    <3> HIDE DEF a, b, r, w
    <3>5. f[a].ts <= f[i].ts /\ i < b
      <4>1. w = <<f[a].ts, EndOfRun(f, b)>> /\ \A k \in 1..Len(f) : f[k].ts < EndOfRun(f, b) <=> k < b
        <5>1. a = r[1] /\ b = r[2]
          BY DEF a, b
        <5> QED
          BY <1>1, <3>3, <5>1, WindowOfRun
      <4> QED
        BY <3>w, <4>1
    <3>6. ~(i < a)
      <4> SUFFICES ASSUME i < a PROVE FALSE
        OBVIOUS
      <4>1. f[i].ts < f[a].ts
        BY <1>2, <3>3
      <4>2. f[i].ts \in Int /\ f[a].ts \in Int
        BY <1>2, <3>3
      <4> QED
        BY <3>5, <4>1, <4>2
    <3>7. i \in a..(b - 1)
      BY <1>2, <3>3, <3>5, <3>6
    <3> QED
      BY <1>s, <2>1, <3>3, <3>7
  <2>3. ASSUME x.quality = q PROVE \E v \in all : v[1] = q /\ Inside(x.ts, v[2])
    <3>1. i \in Flagged(f, q) /\ i \in Nat /\ i <= Len(f)
      BY <1>2, <1>u, <2>1, <2>3
    <3>2. PICK j \in 1..Len(RunsOf(q)) : RunsOf(q)[j][1] <= i /\ i < RunsOf(q)[j][2]
      BY <1>r, <3>1 DEF AreRuns
    <3> DEFINE r == RunsOf(q)[j]
               a == r[1]
               b == r[2]
               w == RunWindow(f, r)
    <3>3. w \in FlagWindows(f, q) /\ a \in 1..Len(f) /\ b \in (a + 1)..(Len(f) + 1)
      BY <1>3, <1>r DEF AreRuns
    <3>4. <<q, w>> \in all /\ <<q, w>>[1] = q /\ <<q, w>>[2] = w
      BY <1>b, <3>3
    <3>5. a <= i /\ i < b
      BY <3>2
    <3>6. a = r[1] /\ b = r[2] /\ w = RunWindow(f, r)
      OBVIOUS
    <3> HIDE DEF a, b, r, w
    <3>7. w = <<f[a].ts, EndOfRun(f, b)>> /\ \A k \in 1..Len(f) : f[k].ts < EndOfRun(f, b) <=> k < b
      BY <1>1, <3>3, <3>6, WindowOfRun
    <3>8. f[a].ts <= f[i].ts
      <4>1. ~(f[i].ts < f[a].ts)
        BY <1>2, <3>3, <3>5
      <4>2. f[i].ts \in Int /\ f[a].ts \in Int
        BY <1>2, <3>3
      <4> QED
        BY <4>1, <4>2
    <3>9. Inside(x.ts, w)
      BY <2>1, <3>5, <3>7, <3>8
    <3> QED
      BY <3>4, <3>9
  <2> QED
    BY <2>2, <2>3
<1>4. ASSUME NEW v \in all, NEW w \in all, v # w
      PROVE  v[2][2] <= w[2][1] \/ w[2][2] <= v[2][1]
  <2> DEFINE q == v[1]
             p == w[1]
  <2>1. q \in Flags /\ v[2] \in FlagWindows(f, q) /\ p \in Flags /\ w[2] \in FlagWindows(f, p) /\ v = <<q, v[2]>> /\ w = <<p, w[2]>>
    BY <1>a
  <2> HIDE DEF q, p
  <2>2. PICK i \in 1..Len(RunsOf(q)) : IsFlagWindow(f, q, v[2], RunsOf(q)[i])
    BY <1>r, <2>1
  <2>3. PICK j \in 1..Len(RunsOf(p)) : IsFlagWindow(f, p, w[2], RunsOf(p)[j])
    BY <1>r, <2>1
  <2> DEFINE r == RunsOf(q)[i]
             s == RunsOf(p)[j]
  <2>4. ASSUME NEW k \in 1..Len(f), r[1] <= k, k < r[2], s[1] <= k, k < s[2] PROVE FALSE
    <3>1. /\ r[1] \in 1..Len(f) /\ r[2] \in (r[1] + 1)..(Len(f) + 1) /\ \A m \in r[1]..(r[2] - 1) : m \in Flagged(f, q)
          /\ s[1] \in 1..Len(f) /\ s[2] \in (s[1] + 1)..(Len(f) + 1) /\ \A m \in s[1]..(s[2] - 1) : m \in Flagged(f, p)
      BY <2>2, <2>3 DEF IsFlagWindow
    <3> DEFINE a == r[1]  b == r[2]  c == s[1]  d == s[2]
    <3>2. k \in a..(b - 1) /\ k \in c..(d - 1)
      <4>1. a \in Int /\ b \in Int /\ c \in Int /\ d \in Int /\ a <= k /\ k < b /\ c <= k /\ k < d /\ k \in Int
        BY <1>2, <2>4, <3>1
      <4> HIDE DEF a, b, c, d
      <4> QED
        BY <4>1
    <3>3. k \in Flagged(f, q) /\ k \in Flagged(f, p)
      BY <3>1, <3>2
    <3>4. q = p
      BY <1>s, <3>3
    <3>5. CASE i = j
      <4>1. v[2] = w[2]
        BY <2>2, <2>3, <3>4, <3>5 DEF IsFlagWindow
      <4> QED
        BY <1>4, <2>1, <3>4, <4>1
    <3>6. CASE i < j
      <4>1. r[2] < s[1]
        BY <1>r, <3>4, <3>6 DEF AreRuns
      <4> QED
        BY <2>4, <3>1, <4>1
    <3>7. CASE j < i
      <4>1. s[2] < r[1]
        BY <1>r, <3>4, <3>7 DEF AreRuns
      <4> QED
        BY <2>4, <3>1, <4>1
    <3>8. i \in Int /\ j \in Int
      <4>1. Len(RunsOf(q)) \in Nat /\ Len(RunsOf(p)) \in Nat
        BY <1>r DEF AreRuns
      <4> QED
        BY <4>1
    <3> QED
      BY <3>5, <3>6, <3>7, <3>8
  <2>5. IsFlagWindow(f, q, v[2], r) /\ IsFlagWindow(f, p, w[2], s)
    BY <2>2, <2>3
  <2> HIDE DEF r, s
  <2> QED
    BY <1>1, <2>4, <2>5, WindowsApart
<1> QED
  BY <1>3, <1>4 DEF FlagWindowsExact, f, all

\* The windows of flagged samples start in the evaluation and end at most one interval behind it.
LEMMA FlagWindowsInside ==
    ASSUME NEW f, IsFrame(f), NEW q, NEW w \in FlagWindows(f, q)
    PROVE  w[1] \in 0..(Width - 1) /\ w[2] \in (w[1] + 1)..(Width + Interval)
<1>1. PICK r : IsFlagWindow(f, q, w, r)
  BY FlaggedRunsAre
<1>2. PICK a, b : a = r[1] /\ b = r[2]
  OBVIOUS
<1>3. a \in 1..Len(f) /\ b \in (a + 1)..(Len(f) + 1) /\ w = RunWindow(f, r)
  BY <1>1, <1>2 DEF IsFlagWindow
<1>4. /\ w = <<f[a].ts, EndOfRun(f, b)>> /\ f[a].ts \in 0..(Width - 1)
      /\ EndOfRun(f, b) \in (f[a].ts + 1)..(Width + Interval)
  BY <1>2, <1>3, WindowOfRun
<1> QED
  BY <1>4

-----------------------------------------------------------------------------
(* Segments *)

\* Segments with their windows, one after the other.
AreSegments(s) ==
    /\ Len(s) \in Nat /\ DOMAIN s = 1..Len(s)
    /\ \A k \in 1..Len(s) : s[k].window \in Nat \X Nat
    /\ \A k \in 1..Len(s) : s[k].window[1] \in 0..(Width - 1) /\ s[k].window[2] \in (s[k].window[1] + 1)..Width
    /\ \A i, j \in 1..Len(s) : i < j => s[i].window[2] <= s[j].window[1]

\* A frame splits into segments.
LEMMA SegmentsAre ==
    ASSUME NEW f, IsFrame(f)
    PROVE  AreSegments(Segments(f))
<1> DEFINE n == Len(f)
           set == {i \in DOMAIN f : i = 1 \/ SegmentIndex(f, i) # SegmentIndex(f, i - 1)}
           starts == InOrder(n, set)
           end(k) == IF k < Len(starts) THEN starts[k + 1] ELSE n + 1
           Segment(k) == [index |-> SegmentIndex(f, starts[k]), window |-> <<f[starts[k]].ts, f[end(k) - 1].ts + 1>>]
           s == [k \in DOMAIN starts |-> Segment(k)]
<1>1. Segments(f) = s
  BY DEF Segments
<1>2. /\ DOMAIN f = 1..n /\ n \in Nat
      /\ \A i \in 1..n : f[i].ts \in 0..(Width - 1)
      /\ \A i, j \in 1..n : f[i].ts < f[j].ts <=> i < j
  BY FrameInstants
<1>3. set \in SUBSET (1..n)
  BY <1>2
<1> HIDE DEF n, set
<1>4. IsCollected(starts, set, n, n)
  BY <1>2, <1>3, InOrderIs
<1> HIDE DEF starts
<1>5. starts \in Seq(1..n) /\ \A i, j \in 1..Len(starts) : i < j => starts[i] < starts[j]
  BY <1>4 DEF IsCollected
<1>6. Len(starts) \in Nat /\ DOMAIN starts = 1..Len(starts) /\ \A i \in 1..Len(starts) : starts[i] \in 1..n
  <2>1. starts \in Seq(1..n)
    BY <1>5
  <2>2. Len(starts) \in Nat /\ DOMAIN starts = 1..Len(starts)
    BY <2>1
  <2> HIDE DEF end, s
  <2>3. \A i \in 1..Len(starts) : starts[i] \in 1..n
    <3> SUFFICES ASSUME NEW i \in 1..Len(starts) PROVE starts[i] \in 1..n
      OBVIOUS
    <3>1. i \in DOMAIN starts
      BY <2>2
    <3> QED
      BY <1>2, <2>1, <3>1
  <2> QED
    BY <2>2, <2>3
<1>7. ASSUME NEW k \in 1..Len(starts)
      PROVE  /\ end(k) \in (starts[k] + 1)..(n + 1) /\ end(k) \in Int
             /\ \A j \in 1..Len(starts) : k < j => end(k) <= starts[j]
  <2>1. CASE k < Len(starts)
    <3>1. k + 1 \in 1..Len(starts) /\ k < k + 1 /\ end(k) = starts[k + 1]
      BY <1>6, <2>1
    <3>2. starts[k] < starts[k + 1] /\ starts[k] \in 1..n /\ starts[k + 1] \in 1..n
      BY <1>5, <1>6, <3>1
    <3>3. \A j \in 1..Len(starts) : k < j => starts[k + 1] <= starts[j]
      <4> SUFFICES ASSUME NEW j \in 1..Len(starts), k < j PROVE starts[k + 1] <= starts[j]
        OBVIOUS
      <4>1. k + 1 = j \/ k + 1 < j
        BY <1>6
      <4>2. k + 1 < j => starts[k + 1] < starts[j]
        BY <1>5, <3>1
      <4>3. starts[j] \in 1..n
        BY <1>6
      <4> QED
        BY <1>2, <3>2, <4>1, <4>2, <4>3
    <3> HIDE DEF end
    <3> QED
      BY <1>2, <3>1, <3>2, <3>3
  <2>2. CASE ~(k < Len(starts))
    <3>1. end(k) = n + 1 /\ starts[k] \in 1..n /\ \A j \in 1..Len(starts) : ~(k < j)
      BY <1>6, <2>2
    <3> HIDE DEF end
    <3> QED
      BY <1>2, <3>1
  <2> QED
    BY <2>1, <2>2
<1> HIDE DEF end
<1>8. /\ DOMAIN s = 1..Len(starts)
      /\ \A k \in 1..Len(starts) : s[k].window = <<f[starts[k]].ts, f[end(k) - 1].ts + 1>>
  BY <1>6
<1>9. Len(s) = Len(starts)
  <2> DEFINE X == {Segment(k) : k \in 1..Len(starts)}
  <2>1. s \in [1..Len(starts) -> X]
    BY <1>6
  <2> HIDE DEF X, s
  <2> QED
    BY <1>6, <2>1
<1>w. Width \in Nat \ {0}
  BY FramesAssumption
<1>t. \A i \in 1..n : f[i].ts \in Int /\ 0 <= f[i].ts /\ f[i].ts <= Width - 1
  BY <1>2, <1>w
<1> HIDE DEF s
<1>10. ASSUME NEW k \in 1..Len(starts)
       PROVE  /\ s[k].window \in Nat \X Nat
              /\ s[k].window[1] \in 0..(Width - 1) /\ s[k].window[2] \in (s[k].window[1] + 1)..Width
              /\ \A j \in 1..Len(starts) : k < j => s[k].window[2] <= s[j].window[1]
  <2>1. starts[k] \in 1..n /\ end(k) - 1 \in 1..n /\ ~(end(k) - 1 < starts[k])
    BY <1>2, <1>6, <1>7
  <2> DEFINE a == f[starts[k]].ts
             b == f[end(k) - 1].ts
  <2>2. a \in Int /\ b \in Int /\ 0 <= a /\ a <= b /\ b <= Width - 1
    <3>1. ~(b < a)
      BY <1>2, <2>1
    <3>2. a \in Int /\ b \in Int /\ 0 <= a /\ b <= Width - 1
      BY <1>t, <2>1
    <3> QED
      BY <3>1, <3>2
  <2>3. s[k].window = <<a, b + 1>>
    BY <1>8
  <2>4. ASSUME NEW j \in 1..Len(starts), k < j PROVE b + 1 <= f[starts[j]].ts
    <3>1. starts[j] \in 1..n /\ end(k) - 1 < starts[j]
      BY <1>2, <1>6, <1>7, <2>4
    <3>2. b < f[starts[j]].ts
      BY <1>2, <2>1, <3>1
    <3> QED
      BY <1>t, <2>2, <3>1, <3>2
  <2>5. \A j \in 1..Len(starts) : k < j => b + 1 <= s[j].window[1]
    BY <1>8, <2>4
  <2>6. s[k].window[1] = a /\ s[k].window[2] = b + 1
    BY <2>3
  <2> HIDE DEF a, b
  <2>7. a \in 0..(Width - 1) /\ b + 1 \in (a + 1)..Width /\ a \in Nat /\ b + 1 \in Nat
    BY <1>w, <2>2
  <2> QED
    BY <2>3, <2>5, <2>6, <2>7
<1> QED
  BY <1>1, <1>6, <1>8, <1>9, <1>10 DEF AreSegments

\* The type invariant of a delivery.
LEMMA FramesTyped ==
    ASSUME delivered \in Seq(Samples), Len(delivered) <= MaxSamples
    PROVE  FramesTypeOK
<1> DEFINE f == Frame
<1>1. IsFrame(f)
  BY DeliveredIsFrame
<1> HIDE DEF f
<1>0. Width \in Nat \ {0} /\ Interval \in Nat
  BY FramesAssumption
<1>2. ASSUME NEW w \in Range(Gaps(f)) PROVE w[1] \in 0..(Width - 1) /\ w[2] \in (w[1] + 1)..(Width + Interval)
  <2> DEFINE a == w[1]  b == w[2]
  <2>1. a \in 0..(Width - 1) /\ b \in (a + 1)..Width
    BY <1>1, GapsOfFrame
  <2> HIDE DEF a, b
  <2>2. b \in (a + 1)..(Width + Interval)
    BY <1>0, <2>1
  <2> QED
    BY <2>1, <2>2 DEF a, b
<1>3. ASSUME NEW q, NEW w \in FlagWindows(f, q)
      PROVE  w[1] \in 0..(Width - 1) /\ w[2] \in (w[1] + 1)..(Width + Interval)
  BY <1>1, FlagWindowsInside
<1>4. ASSUME NEW w \in {s.window : s \in Range(Segments(f))}
      PROVE  w[1] \in 0..(Width - 1) /\ w[2] \in (w[1] + 1)..(Width + Interval)
  <2> DEFINE a == w[1]  b == w[2]  s == Segments(f)
  <2>1. AreSegments(s)
    BY <1>1, SegmentsAre
  <2> HIDE DEF s
  <2>2. PICK k \in DOMAIN s : w = s[k].window
    BY DEF s, Range
  <2>3. a \in 0..(Width - 1) /\ b \in (a + 1)..Width
    BY <2>1, <2>2 DEF AreSegments
  <2> HIDE DEF a, b
  <2>4. b \in (a + 1)..(Width + Interval)
    BY <1>0, <2>3
  <2> QED
    BY <2>3, <2>4 DEF a, b
<1>5. \A w \in ReportedWindows(f) : w[1] \in 0..(Width - 1) /\ w[2] \in (w[1] + 1)..(Width + Interval)
  <2> SUFFICES ASSUME NEW w \in ReportedWindows(f)
               PROVE  w[1] \in 0..(Width - 1) /\ w[2] \in (w[1] + 1)..(Width + Interval)
    OBVIOUS
  <2>1. w \in Range(Gaps(f)) \/ (\E q \in Flags : w \in FlagWindows(f, q)) \/ w \in {s.window : s \in Range(Segments(f))}
    BY DEF ReportedWindows
  <2> QED
    BY <1>2, <1>3, <1>4, <2>1, Zenon
<1> QED
  BY <1>5 DEF FramesTypeOK, f

-----------------------------------------------------------------------------
(* Episodes *)

\* Episodes of segments, and the first and the last segment of one.
EpisodeLists == Seq([items : {s \in Seq(Nat) : s # <<>>}, window : Nat \X Nat])
FirstItem(e) == e.items[1]
LastItem(e)  == e.items[Len(e.items)]

\* The segment goes on with the last of these episodes.
GoesOn(out, k) == out # <<>> /\ Follows(Last(Last(out).items), k)

\* What merging the k-th segment makes of these episodes.
HasJoined(to, segments, out, k) ==
    /\ to \in EpisodeLists /\ to # <<>>
    /\ GoesOn(out, k) =>
         /\ Len(to) = Len(out) /\ \A i \in 1..Len(out) : i # Len(out) => to[i] = out[i]
         /\ FirstItem(to[Len(out)]) = FirstItem(out[Len(out)]) /\ LastItem(to[Len(out)]) = k
         /\ to[Len(out)].window = <<out[Len(out)].window[1], Latest(out[Len(out)].window[2], segments[k].window[2])>>
    /\ ~GoesOn(out, k) =>
         /\ Len(to) = Len(out) + 1 /\ \A i \in 1..Len(out) : to[i] = out[i]
         /\ FirstItem(to[Len(out) + 1]) = k /\ LastItem(to[Len(out) + 1]) = k
         /\ to[Len(out) + 1].window = segments[k].window

\* What is known of a list of episodes.
LEMMA EpisodeFacts ==
    ASSUME NEW out, out \in EpisodeLists
    PROVE  /\ Len(out) \in Nat /\ (out # <<>> => Len(out) \in 1..Len(out))
           /\ \A i \in 1..Len(out) :
                /\ out[i] \in [items : {s \in Seq(Nat) : s # <<>>}, window : Nat \X Nat]
                /\ out[i].items \in Seq(Nat) /\ out[i].items # <<>> /\ Len(out[i].items) \in Nat /\ Len(out[i].items) >= 1
                /\ FirstItem(out[i]) \in Nat /\ LastItem(out[i]) \in Nat
                /\ out[i].window \in Nat \X Nat
<1> DEFINE E == [items : {s \in Seq(Nat) : s # <<>>}, window : Nat \X Nat]
<1>1. out \in Seq(E)
  BY DEF EpisodeLists
<1>2. ASSUME NEW e \in E
      PROVE  /\ e.items \in Seq(Nat) /\ e.items # <<>> /\ Len(e.items) \in Nat /\ Len(e.items) >= 1
             /\ FirstItem(e) \in Nat /\ LastItem(e) \in Nat /\ e.window \in Nat \X Nat
  <2> DEFINE s == e.items
  <2>1. s \in Seq(Nat) /\ s # <<>> /\ e.window \in Nat \X Nat
    OBVIOUS
  <2> HIDE DEF s
  <2>2. Len(s) \in Nat /\ Len(s) >= 1 /\ s[1] \in Nat /\ s[Len(s)] \in Nat
    BY <2>1
  <2> QED
    BY <2>1, <2>2 DEF s, FirstItem, LastItem
<1> HIDE DEF E
<1>3. Len(out) \in Nat /\ (out # <<>> => Len(out) \in 1..Len(out)) /\ \A i \in 1..Len(out) : out[i] \in E
  BY <1>1
<1> QED
  BY <1>2, <1>3 DEF E

\* Joining a segment does what is said of it.
LEMMA JoinSegmentIs ==
    ASSUME NEW segments, AreSegments(segments), NEW out, out \in EpisodeLists, NEW k, k \in 1..Len(segments)
    PROVE  HasJoined(JoinSegment(segments, out, k), segments, out, k)
<1> DEFINE E == [items : {s \in Seq(Nat) : s # <<>>}, window : Nat \X Nat]
           to == JoinSegment(segments, out, k)
           n == Len(out)
           w == segments[k].window
<1>1. k \in Nat /\ w \in Nat \X Nat
  BY DEF AreSegments
<1>2. out \in Seq(E) /\ n \in Nat /\ DOMAIN out = 1..n
  <2>1. out \in Seq(E)
    BY DEF EpisodeLists
  <2> HIDE DEF E
  <2> QED
    BY <2>1
<1>3. CASE GoesOn(out, k)
  <2>0. n \in 1..n /\ out[n] \in E /\ out[n].items \in Seq(Nat) /\ Len(out[n].items) \in Nat /\ Len(out[n].items) >= 1 /\ out[n].window \in Nat \X Nat
    BY <1>3, EpisodeFacts DEF GoesOn
  <2> DEFINE e == [items |-> Append(out[n].items, k), window |-> <<out[n].window[1], Latest(out[n].window[2], w[2])>>]
  <2>1. to = [out EXCEPT ![n] = e]
    BY <1>3 DEF JoinSegment, GoesOn
  <2>2. e \in E /\ FirstItem(e) = FirstItem(out[n]) /\ LastItem(e) = k
    <3> DEFINE s == out[n].items
               more == Append(s, k)
    <3>0. s \in Seq(Nat) /\ Len(s) \in Nat /\ Len(s) >= 1
      BY <2>0
    <3>3. FirstItem(out[n]) = s[1]
      BY DEF FirstItem
    <3>4. e.items = more /\ e.window = <<out[n].window[1], Latest(out[n].window[2], w[2])>>
      OBVIOUS
    <3>5. e = [items |-> e.items, window |-> e.window]
      OBVIOUS
    <3> HIDE DEF s, e, w
    <3>1. more \in Seq(Nat) /\ more # <<>> /\ more[1] = s[1] /\ Len(more) = Len(s) + 1 /\ more[Len(more)] = k
      BY <1>1, <3>0
    <3> HIDE DEF more
    <3>2. e.window \in Nat \X Nat
      <4>1. w[2] \in Nat /\ out[n].window[1] \in Nat /\ out[n].window[2] \in Nat
        BY <1>1, <2>0
      <4>2. Latest(out[n].window[2], w[2]) \in Nat
        BY <4>1 DEF Latest
      <4> QED
        BY <3>4, <4>1, <4>2
    <3>6. e \in E
      BY <3>1, <3>2, <3>4, <3>5
    <3> QED
      BY <3>1, <3>3, <3>4, <3>6 DEF FirstItem, LastItem
  <2>4. e.window = <<out[n].window[1], Latest(out[n].window[2], w[2])>>
    OBVIOUS
  <2> HIDE DEF e, E
  <2>3. to \in Seq(E) /\ Len(to) = n /\ to[n] = e /\ \A i \in 1..n : i # n => to[i] = out[i]
    BY <1>2, <2>0, <2>1, <2>2
  <2>5. to # <<>>
    BY <2>0, <2>3
  <2>6. to \in EpisodeLists
    BY <2>3 DEF EpisodeLists, E
  <2> HIDE DEF to
  <2>7. HasJoined(to, segments, out, k)
    BY <1>3, <2>2, <2>3, <2>4, <2>5, <2>6 DEF HasJoined
  <2> QED
    BY <2>7 DEF to
<1>4. CASE ~GoesOn(out, k)
  <2> DEFINE e == [items |-> <<k>>, window |-> w]
  <2>1. to = Append(out, e)
    BY <1>4 DEF JoinSegment, GoesOn
  <2>2. e \in E /\ FirstItem(e) = k /\ LastItem(e) = k /\ e.window = w
    <3>1. <<k>> \in Seq(Nat) /\ <<k>> # <<>> /\ Len(<<k>>) = 1 /\ <<k>>[1] = k
      BY <1>1
    <3> QED
      BY <1>1, <3>1 DEF FirstItem, LastItem
  <2> HIDE DEF e, E
  <2>3. to \in Seq(E) /\ Len(to) = n + 1 /\ to[n + 1] = e /\ \A i \in 1..n : to[i] = out[i]
    BY <1>2, <2>1, <2>2
  <2>5. to # <<>>
    BY <1>2, <2>3
  <2>6. to \in EpisodeLists
    BY <2>3 DEF EpisodeLists, E
  <2> HIDE DEF to
  <2>7. HasJoined(to, segments, out, k)
    BY <1>4, <2>2, <2>3, <2>5, <2>6 DEF HasJoined
  <2> QED
    BY <2>7 DEF to
<1> QED
  BY <1>3, <1>4

\* The merging of some segments.
MergedFrom(segments, q) == FoldLeft(LAMBDA out, k : JoinSegment(segments, out, k), <<>>, q)

\* The function the merging of some segments is the value of.
JoinFold(g, segments, q) ==
    g = [S \in SUBSET (DOMAIN q) |->
           IF S = {} THEN <<>> ELSE JoinSegment(segments, g[S \ {Max(S)}], q[Max(S)])]

\* The merging takes one segment after the other.
LEMMA JoinSteps ==
    ASSUME NEW segments, AreSegments(segments), NEW q \in Seq(1..Len(segments))
    PROVE  \E h \in [0..Len(q) -> EpisodeLists] :
              /\ h[0] = <<>> /\ MergedFrom(segments, q) = h[Len(q)]
              /\ \A k \in 0..(Len(q) - 1) : h[k + 1] = JoinSegment(segments, h[k], q[k + 1])
<1> DEFINE n == Len(q)
           A == EpisodeLists
           F == [p \in A \X (1..n) |-> JoinSegment(segments, p[1], q[p[2]])]
           b == <<>>
           c == CHOOSE g : JoinFold(g, segments, q)
<1>1. n \in Nat /\ DOMAIN q = 1..n
  OBVIOUS
<1>2. F \in [A \X (1..n) -> A] /\ b \in A
  <2>1. \A a \in EpisodeLists, i \in 1..n : JoinSegment(segments, a, q[i]) \in EpisodeLists
    <3> SUFFICES ASSUME NEW a \in EpisodeLists, NEW i \in 1..n PROVE JoinSegment(segments, a, q[i]) \in EpisodeLists
      OBVIOUS
    <3>1. q[i] \in 1..Len(segments)
      OBVIOUS
    <3>2. HasJoined(JoinSegment(segments, a, q[i]), segments, a, q[i])
      BY <3>1, JoinSegmentIs
    <3> QED
      BY <3>2 DEF HasJoined
  <2>2. <<>> \in EpisodeLists
    BY DEF EpisodeLists
  <2> HIDE DEF A
  <2>3. F \in [A \X (1..n) -> A]
    BY <2>1 DEF A
  <2> QED
    BY <2>2, <2>3 DEF A
<1>3. \A a \in A, i \in 1..n : F[<<a, i>>] = JoinSegment(segments, a, q[i])
  OBVIOUS
<1>4. b = <<>>
  OBVIOUS
<1> HIDE DEF F, A, b, n
<1>5. PICK g \in [SUBSET (1..n) -> A] : IsFold(g, n, b, F)
  BY <1>1, <1>2, FoldExists
<1>6. JoinFold(g, segments, q)
  <2>1. ASSUME NEW S \in SUBSET (1..n)
        PROVE  g[S] = IF S = {} THEN b ELSE JoinSegment(segments, g[S \ {Max(S)}], q[Max(S)])
    <3>1. S # {} => Max(S) \in 1..n /\ g[S \ {Max(S)}] \in A
      BY <1>1, GreatestIn
    <3> QED
      BY <1>3, <1>5, <3>1 DEF IsFold
  <2>2. g = [S \in SUBSET (1..n) |-> g[S]]
    OBVIOUS
  <2> QED
    BY <1>1, <1>4, <2>1, <2>2 DEF JoinFold
<1>7. JoinFold(c, segments, q)
  BY <1>6
<1>8. MergedFrom(segments, q) = c[1..n]
  BY <1>1 DEF MergedFrom, FoldLeft, MapThenFoldSet, JoinFold
<1> HIDE DEF c
<1>9. \A S \in SUBSET (1..n) : c[S] = IF S = {} THEN b ELSE JoinSegment(segments, c[S \ {Max(S)}], q[Max(S)])
  BY <1>1, <1>4, <1>7 DEF JoinFold
<1>10. Unfolds(c, A, n, b, F)
  BY <1>1, <1>3, <1>9, GreatestIn DEF Unfolds
<1>11. PICK h \in [0..n -> A] : Reaches(h, n, b, F, c[1..n])
  BY <1>1, <1>2, <1>10, FoldWalks
<1>12. ASSUME NEW k \in 0..(n - 1) PROVE h[k + 1] = JoinSegment(segments, h[k], q[k + 1])
  <2>1. k \in 0..n /\ k + 1 \in 1..n
    BY <1>1
  <2>2. h[k] \in A
    BY <1>11, <2>1
  <2> QED
    BY <1>3, <1>11, <2>1, <2>2 DEF Reaches
<1>13. h[0] = <<>> /\ MergedFrom(segments, q) = h[n]
  BY <1>4, <1>8, <1>11 DEF Reaches
<1> QED
  BY <1>12, <1>13 DEF n, A

\* An episode of flagged segments that follow each other, with the window from its first to its last.
IsEpisode(e, segments, flagged) ==
    /\ FirstItem(e) \in 1..Len(segments) /\ LastItem(e) \in 1..Len(segments) /\ FirstItem(e) <= LastItem(e)
    /\ \A m \in FirstItem(e)..LastItem(e) : m \in flagged
    /\ e.window = <<segments[FirstItem(e)].window[1], segments[LastItem(e)].window[2]>>

\* What merging the first j flagged segments has made.
IsMerged(out, segments, flagged, q, j) ==
    /\ out \in EpisodeLists
    /\ j = 0 => out = <<>>
    /\ j # 0 => /\ out # <<>> /\ LastItem(out[Len(out)]) = q[j]
                /\ \A i \in 1..Len(out) : LastItem(out[i]) <= q[j]
    /\ \A i \in 1..Len(out) : IsEpisode(out[i], segments, flagged)
    /\ \A i, l \in 1..Len(out) : i < l => LastItem(out[i]) < FirstItem(out[l])
    /\ \A m \in 1..j : \E i \in 1..Len(out) : FirstItem(out[i]) <= q[m] /\ q[m] <= LastItem(out[i])

\* The flagged segments in order.
IsFlaggedOrder(q, segments, flagged) ==
    /\ q \in Seq(1..Len(segments))
    /\ \A i \in 1..Len(q) : q[i] \in flagged
    /\ \A i, j \in 1..Len(q) : i < j => q[i] < q[j]

\* Joining one more flagged segment keeps what the episodes so far are.
LEMMA JoinSegmentKeeps ==
    ASSUME NEW segments, AreSegments(segments), NEW flagged, NEW q, IsFlaggedOrder(q, segments, flagged),
           NEW j, j \in 0..(Len(q) - 1), NEW out, IsMerged(out, segments, flagged, q, j)
    PROVE  IsMerged(JoinSegment(segments, out, q[j + 1]), segments, flagged, q, j + 1)
<1> DEFINE k == q[j + 1]
           to == JoinSegment(segments, out, k)
           n == Len(out)
<1>1. /\ Len(segments) \in Nat /\ Len(q) \in Nat /\ j \in Nat /\ j + 1 \in 1..Len(q) /\ k \in 1..Len(segments) /\ k \in Nat
      /\ k \in flagged /\ \A m \in 1..Len(q) : q[m] \in Nat
  <2>1. q \in Seq(1..Len(segments)) /\ Len(segments) \in Nat
    BY DEF IsFlaggedOrder, AreSegments
  <2>2. Len(q) \in Nat
    BY <2>1
  <2>3. j \in Nat /\ j + 1 \in 1..Len(q)
    BY <2>2
  <2>4. \A m \in 1..Len(q) : q[m] \in 1..Len(segments)
    BY <2>1
  <2> QED
    BY <2>1, <2>2, <2>3, <2>4 DEF IsFlaggedOrder
<1>2. /\ out \in EpisodeLists /\ n \in Nat /\ (out # <<>> => n \in 1..n)
      /\ \A i \in 1..n : FirstItem(out[i]) \in Nat /\ LastItem(out[i]) \in Nat
  BY EpisodeFacts DEF IsMerged
<1>3. HasJoined(to, segments, out, k)
  BY <1>1, <1>2, JoinSegmentIs
<1>4. /\ \A m \in 1..(j + 1) : m \in 1..j \/ m = j + 1
      /\ \A m \in 1..j : m \in 1..Len(q) /\ q[m] < k
  <2>1. \A m \in 1..j : m \in 1..Len(q) /\ m < j + 1
    BY <1>1
  <2> QED
    BY <1>1, <2>1 DEF IsFlaggedOrder
<1>5. \A i \in 1..n : LastItem(out[i]) < k
  <2>1. CASE j = 0
    BY <2>1 DEF IsMerged
  <2>2. CASE j # 0
    <3>1. \A i \in 1..n : LastItem(out[i]) <= q[j]
      BY <2>2 DEF IsMerged
    <3>2. j \in 1..j /\ q[j] \in Nat /\ q[j] < k
      BY <1>1, <1>4, <2>2
    <3> QED
      BY <1>1, <1>2, <3>1, <3>2
  <2> QED
    BY <2>1, <2>2
<1>6. to \in EpisodeLists /\ to # <<>>
  BY <1>3 DEF HasJoined
<1>7. /\ \A i \in 1..n : IsEpisode(out[i], segments, flagged)
      /\ \A i, l \in 1..n : i < l => LastItem(out[i]) < FirstItem(out[l])
      /\ \A m \in 1..j : \E i \in 1..n : FirstItem(out[i]) <= q[m] /\ q[m] <= LastItem(out[i])
  BY DEF IsMerged
<1>k. k = q[j + 1]
  OBVIOUS
<1> SUFFICES IsMerged(to, segments, flagged, q, j + 1)
  OBVIOUS
<1> HIDE DEF to, k, n
<1>8. CASE GoesOn(out, k)
  <2>1. n \in 1..n /\ k = LastItem(out[n]) + 1
    BY <1>2, <1>8 DEF GoesOn, Follows, Last, LastItem, n
  <2>2. /\ Len(to) = n /\ \A i \in 1..n : i # n => to[i] = out[i]
        /\ FirstItem(to[n]) = FirstItem(out[n]) /\ LastItem(to[n]) = k
        /\ to[n].window = <<out[n].window[1], Latest(out[n].window[2], segments[k].window[2])>>
    BY <1>3, <1>8 DEF HasJoined, n
  <2>3. IsEpisode(to[n], segments, flagged)
    <3> DEFINE a == FirstItem(out[n])
               b == LastItem(out[n])
    <3>1. /\ a \in 1..Len(segments) /\ b \in 1..Len(segments) /\ a <= b /\ \A m \in a..b : m \in flagged
          /\ out[n].window = <<segments[a].window[1], segments[b].window[2]>>
      BY <1>7, <2>1, Zenon DEF IsEpisode
    <3>2. b < k /\ k = b + 1
      BY <1>5, <2>1
    <3>e. FirstItem(to[n]) = a /\ LastItem(to[n]) = k
      BY <2>2
    <3> HIDE DEF a, b
    <3>3. \A m \in a..k : m \in flagged
      <4>1. \A m \in a..k : m \in a..b \/ m = k
        BY <1>1, <3>1, <3>2
      <4> QED
        BY <1>1, <3>1, <4>1
    <3>4. Latest(segments[b].window[2], segments[k].window[2]) = segments[k].window[2]
      <4>1. segments[b].window[2] <= segments[k].window[1]
        BY <1>1, <3>1, <3>2 DEF AreSegments
      <4>2. segments[b].window \in Nat \X Nat /\ segments[k].window \in Nat \X Nat /\ segments[k].window[2] \in (segments[k].window[1] + 1)..Width
        BY <1>1, <3>1 DEF AreSegments
      <4>3. segments[k].window[1] < segments[k].window[2] /\ segments[b].window[2] \in Nat
            /\ segments[k].window[1] \in Nat /\ segments[k].window[2] \in Nat
        <5> DEFINE x == segments[k].window[1]  y == segments[k].window[2]
        <5>1. x \in Nat /\ y \in Nat /\ y \in (x + 1)..Width /\ segments[b].window[2] \in Nat
          BY <4>2
        <5> HIDE DEF x, y
        <5>2. x < y
          BY <5>1, FramesAssumption
        <5> QED
          BY <5>1, <5>2 DEF x, y
      <4>4. segments[b].window[2] < segments[k].window[2]
        BY <4>1, <4>3
      <4> QED
        BY <4>3, <4>4 DEF Latest
    <3>5. to[n].window = <<segments[a].window[1], segments[k].window[2]>>
      BY <2>2, <3>1, <3>4
    <3>6. a <= k
      BY <1>1, <3>1, <3>2
    <3> QED
      BY <1>1, <3>1, <3>3, <3>5, <3>6, <3>e DEF IsEpisode
  <2>4. \A i \in 1..n : IsEpisode(to[i], segments, flagged)
    BY <1>7, <2>2, <2>3
  <2>5. \A i \in 1..n : FirstItem(to[i]) = FirstItem(out[i]) /\ LastItem(to[i]) <= k /\ (i # n => LastItem(to[i]) = LastItem(out[i]))
    <3> SUFFICES ASSUME NEW i \in 1..n
                 PROVE FirstItem(to[i]) = FirstItem(out[i]) /\ LastItem(to[i]) <= k /\ (i # n => LastItem(to[i]) = LastItem(out[i]))
      OBVIOUS
    <3>1. CASE i = n
      BY <1>1, <2>2, <3>1
    <3>2. CASE i # n
      <4>1. to[i] = out[i] /\ LastItem(out[i]) < k /\ LastItem(out[i]) \in Nat
        BY <1>2, <1>5, <2>2, <3>2
      <4> QED
        BY <1>1, <3>2, <4>1
    <3> QED
      BY <3>1, <3>2
  <2>6. ASSUME NEW i \in 1..n, NEW l \in 1..n, i < l PROVE LastItem(to[i]) < FirstItem(to[l])
    <3>1. i # n
      BY <1>2, <2>6
    <3> QED
      BY <1>7, <2>5, <2>6, <3>1
  <2>7. ASSUME NEW m \in 1..(j + 1) PROVE \E i \in 1..n : FirstItem(to[i]) <= q[m] /\ q[m] <= LastItem(to[i])
    <3>1. CASE m \in 1..j
      <4>1. PICK i \in 1..n : FirstItem(out[i]) <= q[m] /\ q[m] <= LastItem(out[i])
        BY <1>7, <3>1
      <4>2. CASE i = n
        <5>1. LastItem(to[n]) = k /\ q[m] < k /\ q[m] \in Nat
          BY <1>1, <1>4, <2>2, <3>1
        <5> QED
          BY <1>1, <2>5, <4>1, <4>2, <5>1
      <4>3. CASE i # n
        BY <2>5, <4>1, <4>3
      <4> QED
        BY <4>2, <4>3
    <3>2. CASE m = j + 1
      <4>1. q[m] = k /\ LastItem(to[n]) = k /\ FirstItem(to[n]) = FirstItem(out[n])
        BY <1>k, <2>2, <3>2
      <4>2. FirstItem(out[n]) <= LastItem(out[n]) /\ LastItem(out[n]) < k /\ FirstItem(out[n]) \in Nat /\ LastItem(out[n]) \in Nat
        BY <1>2, <1>5, <1>7, <2>1 DEF IsEpisode
      <4>3. FirstItem(to[n]) <= q[m] /\ q[m] <= LastItem(to[n])
        BY <1>1, <4>1, <4>2
      <4> QED
        BY <2>1, <4>3
    <3> QED
      BY <1>4, <3>1, <3>2
  <2>8. j + 1 # 0 /\ LastItem(to[n]) = q[j + 1] /\ \A i \in 1..n : LastItem(to[i]) <= q[j + 1]
    BY <1>1, <1>k, <2>2, <2>5
  <2> QED
    BY <1>6, <2>2, <2>4, <2>6, <2>7, <2>8, Zenon DEF IsMerged
<1>9. CASE ~GoesOn(out, k)
  <2>2. /\ Len(to) = n + 1 /\ \A i \in 1..n : to[i] = out[i]
        /\ FirstItem(to[n + 1]) = k /\ LastItem(to[n + 1]) = k
        /\ to[n + 1].window = segments[k].window
    BY <1>3, <1>9 DEF HasJoined, n
  <2>1. \A i \in 1..(n + 1) : i \in 1..n \/ i = n + 1
    BY <1>2
  <2>3. IsEpisode(to[n + 1], segments, flagged)
    <3>1. segments[k].window = <<segments[k].window[1], segments[k].window[2]>>
      <4>1. segments[k].window \in Nat \X Nat
        BY <1>1 DEF AreSegments
      <4> QED
        BY <4>1
    <3>2. \A m \in k..k : m \in flagged
      BY <1>1
    <3>3. k <= k
      BY <1>1
    <3> QED
      BY <1>1, <2>2, <3>1, <3>2, <3>3 DEF IsEpisode
  <2>4. \A i \in 1..(n + 1) : IsEpisode(to[i], segments, flagged)
    BY <1>7, <2>1, <2>2, <2>3
  <2>5. \A i \in 1..(n + 1) : LastItem(to[i]) <= k
    <3> SUFFICES ASSUME NEW i \in 1..(n + 1) PROVE LastItem(to[i]) <= k
      OBVIOUS
    <3>1. CASE i \in 1..n
      <4>1. to[i] = out[i] /\ LastItem(out[i]) < k /\ LastItem(out[i]) \in Nat
        BY <1>2, <1>5, <2>2, <3>1
      <4> QED
        BY <1>1, <4>1
    <3>2. CASE i = n + 1
      BY <1>1, <2>2, <3>2
    <3> QED
      BY <2>1, <3>1, <3>2
  <2>6. ASSUME NEW i \in 1..(n + 1), NEW l \in 1..(n + 1), i < l PROVE LastItem(to[i]) < FirstItem(to[l])
    <3>1. i \in 1..n
      BY <1>2, <2>6
    <3>2. to[i] = out[i]
      BY <2>2, <3>1
    <3>3. CASE l \in 1..n
      BY <1>7, <2>2, <2>6, <3>1, <3>2, <3>3
    <3>4. CASE l = n + 1
      BY <1>5, <2>2, <3>1, <3>2, <3>4
    <3> QED
      BY <2>1, <3>3, <3>4
  <2>7. ASSUME NEW m \in 1..(j + 1) PROVE \E i \in 1..(n + 1) : FirstItem(to[i]) <= q[m] /\ q[m] <= LastItem(to[i])
    <3>1. CASE m \in 1..j
      <4>1. PICK i \in 1..n : FirstItem(out[i]) <= q[m] /\ q[m] <= LastItem(out[i])
        BY <1>7, <3>1
      <4>2. i \in 1..(n + 1) /\ to[i] = out[i]
        BY <1>2, <2>2
      <4> QED
        BY <4>1, <4>2
    <3>2. CASE m = j + 1
      <4>1. n + 1 \in 1..(n + 1) /\ q[m] = k /\ k <= k
        BY <1>1, <1>2, <1>k, <3>2
      <4> QED
        BY <2>2, <4>1
    <3> QED
      BY <1>4, <3>1, <3>2
  <2>8. j + 1 # 0 /\ LastItem(to[n + 1]) = q[j + 1] /\ \A i \in 1..(n + 1) : LastItem(to[i]) <= q[j + 1]
    BY <1>1, <1>k, <2>2, <2>5
  <2> QED
    BY <1>6, <2>2, <2>4, <2>6, <2>7, <2>8, Zenon DEF IsMerged
<1> QED
  BY <1>8, <1>9

\* Segments compared by their windows' beginnings, and by their ends.
LEMMA SegmentsOrder ==
    ASSUME NEW s, AreSegments(s), NEW i \in 1..Len(s), NEW j \in 1..Len(s)
    PROVE  /\ s[i].window[1] <= s[j].window[1] <=> i <= j
           /\ s[i].window[2] <= s[j].window[2] <=> i <= j
           /\ i < j => s[i].window[2] <= s[j].window[1]
<1> DEFINE a == s[i].window[1]  b == s[i].window[2]  c == s[j].window[1]  d == s[j].window[2]
<1>1. a \in 0..(Width - 1) /\ b \in (a + 1)..Width /\ c \in 0..(Width - 1) /\ d \in (c + 1)..Width /\ Len(s) \in Nat
  BY DEF AreSegments
<1>2. (i < j => b <= c) /\ (j < i => d <= a)
  BY DEF AreSegments
<1>3. i = j => a = c /\ b = d
  OBVIOUS
<1>4. Width \in Nat
  BY FramesAssumption
<1> HIDE DEF a, b, c, d
<1>5. a \in Int /\ b \in Int /\ c \in Int /\ d \in Int /\ a < b /\ c < d
  BY <1>1, <1>4
<1>6. i < j \/ i = j \/ j < i
  BY <1>1
<1>7. (a <= c <=> i <= j) /\ (b <= d <=> i <= j) /\ (i < j => b <= c)
  BY <1>1, <1>2, <1>3, <1>5, <1>6
<1> QED
  BY <1>7 DEF a, b, c, d

\* The episodes of flagged segments: in order, apart, and with all that are flagged.
AreEpisodes(out, segments, flagged) ==
    /\ out \in EpisodeLists
    /\ \A i \in 1..Len(out) : IsEpisode(out[i], segments, flagged)
    /\ \A i, l \in 1..Len(out) : i < l => LastItem(out[i]) < FirstItem(out[l])
    /\ \A m \in flagged : \E i \in 1..Len(out) : FirstItem(out[i]) <= m /\ m <= LastItem(out[i])

\* The episodes of flagged segments.
LEMMA EpisodesAre ==
    ASSUME NEW segments, AreSegments(segments), NEW flagged \in SUBSET (1..Len(segments))
    PROVE  AreEpisodes(Episodes(segments, flagged), segments, flagged)
<1> DEFINE q == InOrder(Len(segments), flagged)
           out == Episodes(segments, flagged)
<1>0. Len(segments) \in Nat
  BY DEF AreSegments
<1>1. IsCollected(q, flagged, Len(segments), Len(segments))
  BY <1>0, InOrderIs
<1>2. out = MergedFrom(segments, q)
  BY DEF Episodes, MergedFrom
<1> HIDE DEF q, out
<1>3. /\ q \in Seq(1..Len(segments)) /\ Len(q) \in Nat
      /\ IsFlaggedOrder(q, segments, flagged)
      /\ \A m \in flagged : \E i \in 1..Len(q) : q[i] = m
  <2>1. q \in Seq(1..Len(segments)) /\ IsFlaggedOrder(q, segments, flagged)
    BY <1>1 DEF IsCollected, IsFlaggedOrder
  <2>2. \A m \in flagged : m <= Len(segments)
    BY <1>0
  <2>3. \A m \in flagged : \E i \in 1..Len(q) : q[i] = m
    BY <1>1, <2>2 DEF IsCollected
  <2>4. Len(q) \in Nat
    BY <2>1
  <2> QED
    BY <2>1, <2>3, <2>4
<1>4. PICK h \in [0..Len(q) -> EpisodeLists] :
          /\ h[0] = <<>> /\ out = h[Len(q)]
          /\ \A k \in 0..(Len(q) - 1) : h[k + 1] = JoinSegment(segments, h[k], q[k + 1])
  BY <1>2, <1>3, JoinSteps
<1> DEFINE Q == {k \in 0..Len(q) : IsMerged(h[k], segments, flagged, q, k)}
<1>5. IsMerged(h[0], segments, flagged, q, 0)
  <2>1. h[0] \in EpisodeLists /\ h[0] = <<>> /\ Len(h[0]) = 0 /\ 1..0 = {}
    BY <1>3, <1>4 DEF EpisodeLists
  <2> QED
    BY <2>1 DEF IsMerged
<1>6. 0 \in Q
  BY <1>3, <1>5
<1>7. \A k \in 0..(Len(q) - 1) : k \in Q => k + 1 \in Q
  <2> SUFFICES ASSUME NEW k \in 0..(Len(q) - 1), k \in Q PROVE k + 1 \in Q
    OBVIOUS
  <2>1. k + 1 \in 0..Len(q)
    BY <1>3
  <2>2. IsMerged(h[k], segments, flagged, q, k) /\ h[k + 1] = JoinSegment(segments, h[k], q[k + 1])
    BY <1>4
  <2>3. IsMerged(JoinSegment(segments, h[k], q[k + 1]), segments, flagged, q, k + 1)
    <3>1. IsFlaggedOrder(q, segments, flagged)
      BY <1>3
    <3>2. k \in 0..(Len(q) - 1)
      OBVIOUS
    <3> QED
      BY <2>2, <3>1, <3>2, JoinSegmentKeeps
  <2> QED
    BY <2>1, <2>2, <2>3
<1>8. Len(q) \in Q
  <2>1. Len(q) \in 0..Len(q)
    BY <1>3
  <2> HIDE DEF Q
  <2> QED
    BY <1>3, <1>6, <1>7, <2>1, UpToInduction
<1>9. IsMerged(out, segments, flagged, q, Len(q))
  BY <1>4, <1>8
<1>10. ASSUME NEW m \in flagged PROVE \E i \in 1..Len(out) : FirstItem(out[i]) <= m /\ m <= LastItem(out[i])
  <2>1. PICK j \in 1..Len(q) : q[j] = m
    BY <1>3
  <2> QED
    BY <1>9, <2>1 DEF IsMerged
<1>11. AreEpisodes(out, segments, flagged)
  BY <1>9, <1>10 DEF IsMerged, AreEpisodes
<1> QED
  BY <1>11 DEF out

\* The episodes follow the flags.
LEMMA EpisodesExact ==
    ASSUME delivered \in Seq(Samples)
    PROVE  EpisodesFollowFlags
<1> DEFINE segments == Segments(Frame)
           Covers(v, w) == w[1] <= v[1] /\ v[2] <= w[2]
<1>1. AreSegments(segments)
  BY DeliveredIsFrame, SegmentsAre
<1> HIDE DEF segments
<1>2. Len(segments) \in Nat /\ DOMAIN segments = 1..Len(segments)
  BY <1>1 DEF AreSegments
<1>3. ASSUME NEW flagged \in SUBSET DOMAIN segments
      PROVE  LET out == Episodes(segments, flagged)
             IN  /\ \A k \in DOMAIN segments :
                       Cardinality({e \in DOMAIN out : Covers(segments[k].window, out[e].window)}) =
                           (IF k \in flagged THEN 1 ELSE 0)
                 /\ \A e \in 2..Len(out) : out[e - 1].window[2] <= out[e].window[1]
  <2> DEFINE out == Episodes(segments, flagged)
  <2>1. AreEpisodes(out, segments, flagged)
    BY <1>1, <1>2, EpisodesAre
  <2> HIDE DEF out
  <2>2. Len(out) \in Nat /\ DOMAIN out = 1..Len(out)
    BY <2>1 DEF AreEpisodes, EpisodeLists
  <2>3. ASSUME NEW e \in 1..Len(out)
        PROVE  /\ FirstItem(out[e]) \in 1..Len(segments) /\ LastItem(out[e]) \in 1..Len(segments)
               /\ \A m \in FirstItem(out[e])..LastItem(out[e]) : m \in flagged
               /\ out[e].window = <<segments[FirstItem(out[e])].window[1], segments[LastItem(out[e])].window[2]>>
    BY <2>1, Zenon DEF AreEpisodes, IsEpisode
  <2>4. ASSUME NEW k \in 1..Len(segments), NEW e \in 1..Len(out)
        PROVE  Covers(segments[k].window, out[e].window) <=> FirstItem(out[e]) <= k /\ k <= LastItem(out[e])
    <3> DEFINE a == FirstItem(out[e])
               b == LastItem(out[e])
    <3>1. a \in 1..Len(segments) /\ b \in 1..Len(segments) /\ out[e].window = <<segments[a].window[1], segments[b].window[2]>>
      BY <2>3
    <3> HIDE DEF a, b
    <3>2. segments[a].window[1] <= segments[k].window[1] <=> a <= k
      BY <1>1, <3>1, SegmentsOrder
    <3>3. segments[k].window[2] <= segments[b].window[2] <=> k <= b
      BY <1>1, <3>1, SegmentsOrder
    <3>4. Covers(segments[k].window, out[e].window) <=> a <= k /\ k <= b
      BY <3>1, <3>2, <3>3
    <3> QED
      BY <3>4 DEF a, b
  <2>5. ASSUME NEW k \in DOMAIN segments
        PROVE  Cardinality({e \in DOMAIN out : Covers(segments[k].window, out[e].window)}) = (IF k \in flagged THEN 1 ELSE 0)
    <3> DEFINE S == {e \in DOMAIN out : Covers(segments[k].window, out[e].window)}
    <3>0. S = {e \in 1..Len(out) : FirstItem(out[e]) <= k /\ k <= LastItem(out[e])}
      BY <1>2, <2>2, <2>4
    <3> HIDE DEF S
    <3>1. CASE k \in flagged
      <4>1. PICK i \in 1..Len(out) : FirstItem(out[i]) <= k /\ k <= LastItem(out[i])
        BY <2>1, <3>1 DEF AreEpisodes
      <4>2. ASSUME NEW e \in 1..Len(out), FirstItem(out[e]) <= k, k <= LastItem(out[e]) PROVE e = i
        <5>1. e < i \/ e = i \/ i < e
          BY <2>2
        <5>2. /\ FirstItem(out[e]) \in 1..Len(segments) /\ LastItem(out[e]) \in 1..Len(segments)
              /\ FirstItem(out[i]) \in 1..Len(segments) /\ LastItem(out[i]) \in 1..Len(segments)
          BY <2>3
        <5>3. e < i => LastItem(out[e]) < FirstItem(out[i])
          BY <2>1 DEF AreEpisodes
        <5>4. i < e => LastItem(out[i]) < FirstItem(out[e])
          BY <2>1 DEF AreEpisodes
        <5>5. ~(e < i) /\ ~(i < e)
          BY <1>2, <4>1, <4>2, <5>2, <5>3, <5>4
        <5> QED
          BY <5>1, <5>5
      <4>3. S = {i}
        BY <3>0, <4>1, <4>2
      <4>4. Cardinality({i}) = 1
        BY FS_Singleton
      <4> QED
        BY <3>1, <4>3, <4>4 DEF S
    <3>2. CASE k \notin flagged
      <4>1. ASSUME NEW e \in S PROVE FALSE
        <5>1. e \in 1..Len(out) /\ FirstItem(out[e]) <= k /\ k <= LastItem(out[e])
          BY <3>0
        <5>2. k \in FirstItem(out[e])..LastItem(out[e])
          BY <1>2, <2>3, <5>1
        <5> QED
          BY <2>3, <3>2, <5>1, <5>2
      <4>2. S = {}
        BY <4>1
      <4>3. Cardinality({}) = 0
        BY FS_EmptySet
      <4> QED
        BY <3>2, <4>2, <4>3 DEF S
    <3> QED
      BY <3>1, <3>2
  <2>6. ASSUME NEW e \in 2..Len(out) PROVE out[e - 1].window[2] <= out[e].window[1]
    <3>1. e - 1 \in 1..Len(out) /\ e \in 1..Len(out) /\ e - 1 < e
      BY <2>2
    <3>2. LastItem(out[e - 1]) < FirstItem(out[e])
      BY <2>1, <3>1 DEF AreEpisodes
    <3>3. /\ LastItem(out[e - 1]) \in 1..Len(segments) /\ FirstItem(out[e]) \in 1..Len(segments)
          /\ out[e - 1].window[2] = segments[LastItem(out[e - 1])].window[2]
          /\ out[e].window[1] = segments[FirstItem(out[e])].window[1]
      BY <2>3, <3>1
    <3> QED
      BY <1>1, <3>2, <3>3, SegmentsOrder
  <2> QED
    BY <2>5, <2>6 DEF out
<1> QED
  BY <1>3 DEF EpisodesFollowFlags, segments

-----------------------------------------------------------------------------
(* Runs of the positions that hold *)

\* Lists of runs among n positions, and the function RunsAmong folds with.
RunLists(n) == Seq((1..n) \X (1..n))
RunsFoldTo(g, n, holds, near) ==
    g = [S \in SUBSET (DOMAIN [i \in 1..n |-> i]) |->
           IF S = {} THEN <<>> ELSE NextRun(holds, near, g[S \ {Max(S)}], [i \in 1..n |-> i][Max(S)])]

\* What NextRun makes of the runs so far.
HasNextRun(to, runs, i, holds, near) ==
    /\ i \notin holds => to = runs
    /\ i \in holds /\ runs # <<>> /\ <<runs[Len(runs)], i>> \in near =>
         /\ Len(to) = Len(runs) /\ to[Len(runs)] = <<runs[Len(runs)][1], i>>
         /\ \A j \in 1..Len(runs) : j # Len(runs) => to[j] = runs[j]
    /\ i \in holds /\ ~(runs # <<>> /\ <<runs[Len(runs)], i>> \in near) =>
         /\ Len(to) = Len(runs) + 1 /\ to[Len(runs) + 1] = <<i, i>>
         /\ \A j \in 1..Len(runs) : to[j] = runs[j]

\* One more position gives a list of runs again.
LEMMA NextRunIs ==
    ASSUME NEW n \in Nat, NEW runs \in RunLists(n), NEW i \in 1..n, NEW holds, NEW near
    PROVE  /\ NextRun(holds, near, runs, i) \in RunLists(n)
           /\ HasNextRun(NextRun(holds, near, runs, i), runs, i, holds, near)
<1> DEFINE L == Len(runs)
<1>1. /\ L \in Nat /\ runs \in Seq((1..n) \X (1..n)) /\ (runs # <<>> => L \in 1..L /\ Last(runs) = runs[L])
  BY DEF RunLists, Last
<1>2. CASE i \notin holds
  BY <1>2 DEF NextRun, HasNextRun
<1>3. CASE i \in holds /\ runs # <<>> /\ <<runs[L], i>> \in near
  <2> DEFINE to == [runs EXCEPT ![L] = <<runs[L][1], i>>]
  <2>1. NextRun(holds, near, runs, i) = to
    BY <1>1, <1>3 DEF NextRun
  <2>2. L \in 1..L /\ runs[L] \in (1..n) \X (1..n)
    BY <1>1, <1>3
  <2>3. <<runs[L][1], i>> \in (1..n) \X (1..n)
    BY <2>2
  <2>4. to \in Seq((1..n) \X (1..n)) /\ Len(to) = L /\ to[L] = <<runs[L][1], i>> /\ \A j \in 1..L : j # L => to[j] = runs[j]
    BY <1>1, <2>2, <2>3
  <2> HIDE DEF to
  <2> QED
    BY <1>3, <2>1, <2>4 DEF HasNextRun, RunLists
<1>4. CASE i \in holds /\ ~(runs # <<>> /\ <<runs[L], i>> \in near)
  <2> DEFINE to == Append(runs, <<i, i>>)
  <2>1. NextRun(holds, near, runs, i) = to
    BY <1>1, <1>4 DEF NextRun
  <2>2. <<i, i>> \in (1..n) \X (1..n)
    OBVIOUS
  <2>3. to \in Seq((1..n) \X (1..n)) /\ Len(to) = L + 1 /\ to[L + 1] = <<i, i>> /\ \A j \in 1..L : to[j] = runs[j]
    BY <1>1, <2>2
  <2> HIDE DEF to
  <2> QED
    BY <1>4, <2>1, <2>3 DEF HasNextRun, RunLists
<1> QED
  BY <1>2, <1>3, <1>4

\* RunsAmong takes one position after the other.
WalksTo(h, runs, n, holds, near) ==
    /\ h[0] = <<>> /\ runs = h[n]
    /\ \A k \in 0..(n - 1) : h[k + 1] = NextRun(holds, near, h[k], k + 1)
LEMMA RunsAmongSteps ==
    ASSUME NEW n \in Nat, NEW holds \in SUBSET (1..n), NEW near
    PROVE  \E h \in [0..n -> RunLists(n)] : WalksTo(h, RunsAmong(n, holds, near), n, holds, near)
<1> DEFINE A == RunLists(n)
           F == [p \in A \X (1..n) |-> NextRun(holds, near, p[1], p[2])]
           c == CHOOSE g : RunsFoldTo(g, n, holds, near)
<1>1. F \in [A \X (1..n) -> A] /\ <<>> \in A
  <2>1. ASSUME NEW a \in A, NEW i \in 1..n PROVE NextRun(holds, near, a, i) \in A
    BY NextRunIs
  <2>2. <<>> \in A
    BY DEF A, RunLists
  <2> HIDE DEF A
  <2> QED
    BY <2>1, <2>2
<1>2. \A a \in A, i \in 1..n : F[<<a, i>>] = NextRun(holds, near, a, i)
  OBVIOUS
<1> HIDE DEF F, A
<1>3. PICK g \in [SUBSET (1..n) -> A] : IsFold(g, n, <<>>, F)
  BY <1>1, FoldExists
<1>4. RunsFoldTo(g, n, holds, near)
  <2>1. ASSUME NEW S \in SUBSET (1..n)
        PROVE  g[S] = IF S = {} THEN <<>> ELSE NextRun(holds, near, g[S \ {Max(S)}], Max(S))
    <3>1. S # {} => Max(S) \in 1..n /\ g[S \ {Max(S)}] \in A
      BY GreatestIn
    <3> QED
      BY <1>2, <1>3, <3>1 DEF IsFold
  <2>3. \A S \in SUBSET (1..n) : S # {} => [i \in 1..n |-> i][Max(S)] = Max(S)
    BY GreatestIn
  <2>2. g = [S \in SUBSET (1..n) |-> g[S]]
    OBVIOUS
  <2> QED
    BY <2>1, <2>2, <2>3 DEF RunsFoldTo
<1>5. RunsFoldTo(c, n, holds, near)
  BY <1>4
<1>6. RunsAmong(n, holds, near) = c[1..n]
  BY DEF RunsAmong, FoldLeft, MapThenFoldSet, RunsFoldTo
<1> HIDE DEF c
<1>7. \A S \in SUBSET (1..n) : c[S] = IF S = {} THEN <<>> ELSE NextRun(holds, near, c[S \ {Max(S)}], Max(S))
  <2>1. \A S \in SUBSET (1..n) : S # {} => [i \in 1..n |-> i][Max(S)] = Max(S)
    BY GreatestIn
  <2> QED
    BY <1>5, <2>1 DEF RunsFoldTo
<1>8. Unfolds(c, A, n, <<>>, F)
  BY <1>2, <1>7, GreatestIn DEF Unfolds
<1>0. n \in Nat
  OBVIOUS
<1>10. PICK h \in [0..n -> A] : Reaches(h, n, <<>>, F, c[1..n])
  BY <1>0, <1>1, <1>8, FoldWalks
<1>11. ASSUME NEW k \in 0..(n - 1) PROVE h[k + 1] = NextRun(holds, near, h[k], k + 1)
  <2>1. k \in 0..n /\ k + 1 \in 1..n
    OBVIOUS
  <2>2. h[k] \in A
    BY <1>10, <2>1
  <2> QED
    BY <1>2, <1>10, <2>1, <2>2 DEF Reaches
<1> QED
  BY <1>6, <1>10, <1>11 DEF A, Reaches, WalksTo

\* x and y follow each other in what holds, and what a walk up to k has made.
NextTo(holds, x, y) == x \in holds /\ y \in holds /\ x < y /\ \A z \in holds : ~(x < z /\ z < y)
AreRunsOf(runs, holds, near, k) ==
    /\ \A j \in 1..Len(runs) : /\ runs[j][1] \in holds /\ runs[j][2] \in holds
                               /\ runs[j][1] <= runs[j][2] /\ runs[j][2] <= k
    /\ \A i, j \in 1..Len(runs) : i < j => runs[i][2] < runs[j][1]
    /\ \A x \in holds : x <= k => \E j \in 1..Len(runs) : runs[j][1] <= x /\ x <= runs[j][2]
    /\ \A j \in 1..Len(runs), x, y \in holds :
          NextTo(holds, x, y) /\ runs[j][1] <= x /\ y <= runs[j][2] => <<<<runs[j][1], x>>, y>> \in near
    /\ \A j \in 1..Len(runs), y \in holds : NextTo(holds, runs[j][2], y) /\ y <= k => <<runs[j], y>> \notin near

\* The last run ends at the last position that holds.
LEMMA LastRunEnds ==
    ASSUME NEW n \in Nat, NEW holds \in SUBSET (1..n), NEW near, NEW k \in 0..n, NEW runs \in RunLists(n),
           AreRunsOf(runs, holds, near, k)
    PROVE  \A x \in holds : x <= k => Len(runs) \in 1..Len(runs) /\ x <= runs[Len(runs)][2]
<1> SUFFICES ASSUME NEW x \in holds, x <= k
             PROVE  Len(runs) \in 1..Len(runs) /\ x <= runs[Len(runs)][2]
  OBVIOUS
<1> DEFINE L == Len(runs)
<1>1. L \in Nat
  BY DEF RunLists
<1>2. PICK j \in 1..L : runs[j][1] <= x /\ x <= runs[j][2]
  BY DEF AreRunsOf
<1>3. L \in 1..L /\ runs[L][1] \in 1..n /\ runs[L][2] \in 1..n /\ runs[L][1] <= runs[L][2] /\ runs[j][2] \in 1..n
  <2>1. L \in 1..L
    BY <1>1, <1>2
  <2>2. runs[L] \in (1..n) \X (1..n) /\ runs[j] \in (1..n) \X (1..n)
    BY <1>2, <2>1 DEF RunLists
  <2>3. runs[L][1] <= runs[L][2]
    BY <2>1 DEF AreRunsOf
  <2> QED
    BY <2>1, <2>2, <2>3
<1>4. j < L => runs[j][2] < runs[L][1]
  BY <1>3 DEF AreRunsOf
<1>5. j = L \/ j < L
  BY <1>1
<1> HIDE DEF L
<1>6. x <= runs[L][2]
  <2>1. CASE j = L
    BY <1>2, <2>1
  <2>2. CASE j < L
    <3>1. x \in Int /\ x <= runs[j][2] /\ runs[j][2] < runs[L][1] /\ runs[L][1] <= runs[L][2]
      BY <1>2, <1>3, <1>4, <2>2
    <3> QED
      BY <1>3, <3>1
  <2> QED
    BY <1>5, <2>1, <2>2
<1> QED
  BY <1>3, <1>6 DEF L

\* One more position.
LEMMA NextRunKeeps ==
    ASSUME NEW n \in Nat, NEW holds \in SUBSET (1..n), NEW near, NEW k \in 0..(n - 1), NEW runs \in RunLists(n),
           AreRunsOf(runs, holds, near, k)
    PROVE  AreRunsOf(NextRun(holds, near, runs, k + 1), holds, near, k + 1)
<1> DEFINE i == k + 1
           to == NextRun(holds, near, runs, i)
           L == Len(runs)
<1>1. k \in 0..n /\ i \in 1..n
  OBVIOUS
<1>2. to \in RunLists(n) /\ HasNextRun(to, runs, i, holds, near)
  BY <1>1, NextRunIs
<1>11. /\ L \in Nat /\ Len(to) \in Nat /\ DOMAIN runs = 1..L /\ (runs # <<>> <=> L \in 1..L)
       /\ \A j \in 1..L : runs[j] \in (1..n) \X (1..n)
  BY <1>2 DEF RunLists
<1>12. \A j \in 1..L : runs[j] = <<runs[j][1], runs[j][2]>> /\ runs[j][1] \in 1..n /\ runs[j][2] \in 1..n
  BY <1>11
<1>3. /\ L \in Nat /\ Len(to) \in Nat /\ DOMAIN runs = 1..L /\ (runs # <<>> <=> L \in 1..L)
      /\ \A j \in 1..L : runs[j][1] \in 1..n /\ runs[j][2] \in 1..n
  BY <1>11, <1>12
<1>4. \A x \in holds : x <= k => L \in 1..L /\ x <= runs[L][2]
  BY <1>1, LastRunEnds
<1>5. \A x \in holds : x \in 1..n /\ (x <= i <=> (x <= k \/ x = i))
  OBVIOUS
<1>6. /\ \A j \in 1..L : /\ runs[j][1] \in holds /\ runs[j][2] \in holds
                         /\ runs[j][1] <= runs[j][2] /\ runs[j][2] <= k
      /\ \A a, b \in 1..L : a < b => runs[a][2] < runs[b][1]
      /\ \A x \in holds : x <= k => \E j \in 1..L : runs[j][1] <= x /\ x <= runs[j][2]
      /\ \A j \in 1..L, x, y \in holds :
            NextTo(holds, x, y) /\ runs[j][1] <= x /\ y <= runs[j][2] => <<<<runs[j][1], x>>, y>> \in near
      /\ \A j \in 1..L, y \in holds : NextTo(holds, runs[j][2], y) /\ y <= k => <<runs[j], y>> \notin near
  BY DEF AreRunsOf
<1> HIDE DEF to, L
<1>7. ASSUME NEW j \in 1..L, NextTo(holds, runs[j][2], i) PROVE j = L
  <2> SUFFICES ASSUME j # L PROVE FALSE
    OBVIOUS
  <2>1. j < L /\ L \in 1..L
    BY <1>3
  <2>2. runs[j][2] < runs[L][1] /\ runs[L][1] <= runs[L][2] /\ runs[L][2] <= k /\ runs[L][2] \in holds
    BY <1>6, <2>1
  <2>3. runs[j][2] < runs[L][2] /\ runs[L][2] < i
    BY <1>3, <2>1, <2>2
  <2> QED
    BY <1>7, <2>2, <2>3 DEF NextTo
<1>8. CASE i \notin holds
  <2>1. to = runs
    BY <1>2, <1>8 DEF HasNextRun, L
  <2>2. \A x \in holds : x <= i => x <= k
    BY <1>5, <1>8
  <2>3. \A j \in 1..L : runs[j][2] <= i
    BY <1>3, <1>6
  <2>4. \A j \in 1..L, y \in holds : NextTo(holds, runs[j][2], y) /\ y <= i => <<runs[j], y>> \notin near
    BY <1>6, <2>2
  <2>5. AreRunsOf(to, holds, near, i)
    BY <1>6, <2>1, <2>2, <2>3, <2>4 DEF AreRunsOf, L
  <2> QED
    BY <2>5 DEF to
<1>9. CASE i \in holds /\ runs # <<>> /\ <<runs[L], i>> \in near
  <2>1. /\ Len(to) = L /\ to[L] = <<runs[L][1], i>>
        /\ \A j \in 1..L : j # L => to[j] = runs[j]
    BY <1>2, <1>9 DEF HasNextRun, L
  <2>2. L \in 1..L /\ to[L][1] = runs[L][1] /\ to[L][2] = i /\ runs[L] = <<runs[L][1], runs[L][2]>>
    BY <1>3, <1>9, <1>12, <2>1
  <2>3. \A j \in 1..L : to[j][1] = runs[j][1] /\ (j # L => to[j][2] = runs[j][2])
    BY <2>1, <2>2
  <2>4. \A j \in 1..L : to[j][1] \in holds /\ to[j][2] \in holds /\ to[j][1] <= to[j][2] /\ to[j][2] <= i
    <3> SUFFICES ASSUME NEW j \in 1..L
                 PROVE  to[j][1] \in holds /\ to[j][2] \in holds /\ to[j][1] <= to[j][2] /\ to[j][2] <= i
      OBVIOUS
    <3>1. runs[j][1] \in holds /\ runs[j][2] \in holds /\ runs[j][1] <= runs[j][2] /\ runs[j][2] <= k
      BY <1>6
    <3>2. runs[j][1] \in 1..n /\ runs[j][2] \in 1..n
      BY <1>3
    <3>3. CASE j = L
      BY <1>9, <2>2, <3>1, <3>2, <3>3
    <3>4. CASE j # L
      BY <2>3, <3>1, <3>2, <3>4
    <3> QED
      BY <3>3, <3>4
  <2>5. \A a, b \in 1..L : a < b => to[a][2] < to[b][1]
    <3> SUFFICES ASSUME NEW a \in 1..L, NEW b \in 1..L, a < b PROVE to[a][2] < to[b][1]
      OBVIOUS
    <3>1. a # L
      BY <1>3
    <3> QED
      BY <1>6, <2>3, <3>1
  <2>6. ASSUME NEW x \in holds, x <= i PROVE \E j \in 1..L : to[j][1] <= x /\ x <= to[j][2]
    <3>1. CASE x <= k
      <4>1. PICK j \in 1..L : runs[j][1] <= x /\ x <= runs[j][2]
        BY <1>6, <3>1
      <4>2. CASE j = L
        BY <1>5, <2>2, <2>6, <4>1, <4>2
      <4>3. CASE j # L
        BY <2>3, <4>1, <4>3
      <4> QED
        BY <4>2, <4>3
    <3>2. CASE x = i
      <4>1. runs[L][1] <= runs[L][2] /\ runs[L][2] <= k /\ runs[L][1] \in 1..n /\ runs[L][2] \in 1..n
        BY <1>3, <1>6, <2>2
      <4> QED
        BY <2>2, <3>2, <4>1
    <3> QED
      BY <1>5, <2>6, <3>1, <3>2
  <2>7. ASSUME NEW j \in 1..L, NEW x \in holds, NEW y \in holds, NextTo(holds, x, y), to[j][1] <= x, y <= to[j][2]
        PROVE  <<<<to[j][1], x>>, y>> \in near
    <3>1. CASE j # L
      BY <1>6, <2>3, <2>7, <3>1
    <3>2. CASE j = L /\ y <= k
      <4>1. y <= runs[L][2]
        BY <1>4, <3>2
      <4> QED
        BY <1>6, <2>2, <2>7, <3>2, <4>1
    <3>3. CASE j = L /\ y = i
      <4>1. x < i /\ x <= k /\ runs[L][2] <= k /\ runs[L][2] \in holds
        BY <1>5, <1>6, <2>2, <2>7, <3>3 DEF NextTo
      <4>2. x <= runs[L][2]
        BY <1>4, <4>1
      <4>3. ~(x < runs[L][2] /\ runs[L][2] < i)
        BY <2>7, <3>3, <4>1 DEF NextTo
      <4>4. x = runs[L][2]
        <5>1. x \in 1..n /\ runs[L][2] \in 1..n /\ runs[L][2] < i
          BY <1>3, <2>2, <4>1
        <5> QED
          BY <4>2, <4>3, <5>1
      <4>5. to[L][1] = runs[L][1]
        BY <2>2
      <4>6. <<<<to[j][1], x>>, y>> = <<runs[L], i>>
        BY <2>2, <3>3, <4>4, <4>5
      <4> QED
        BY <1>9, <4>6
    <3>4. y <= i
      <4>1. y <= to[j][2] /\ to[j][2] <= i
        BY <2>4, <2>7
      <4>2. j # L => to[j][2] \in 1..n
        BY <1>3, <2>3
      <4>3. j = L => to[j][2] = i
        BY <2>2
      <4> QED
        BY <1>5, <4>1, <4>2, <4>3
    <3> QED
      BY <1>5, <3>1, <3>2, <3>3, <3>4
  <2>8. ASSUME NEW j \in 1..L, NEW y \in holds, NextTo(holds, to[j][2], y), y <= i PROVE <<to[j], y>> \notin near
    <3>1. CASE j = L
      BY <1>5, <2>2, <2>8, <3>1 DEF NextTo
    <3>2. CASE j # L
      <4>1. to[j] = runs[j]
        BY <2>1, <3>2
      <4>2. y # i
        BY <1>7, <2>8, <3>2, <4>1
      <4> QED
        BY <1>5, <1>6, <2>8, <4>1, <4>2
    <3> QED
      BY <3>1, <3>2
  <2>9. AreRunsOf(to, holds, near, i)
    BY <2>1, <2>4, <2>5, <2>6, <2>7, <2>8 DEF AreRunsOf
  <2> QED
    BY <2>9 DEF to
<1>10. CASE i \in holds /\ ~(runs # <<>> /\ <<runs[L], i>> \in near)
  <2>1. /\ Len(to) = L + 1 /\ to[L + 1] = <<i, i>>
        /\ \A j \in 1..L : to[j] = runs[j]
    BY <1>2, <1>10 DEF HasNextRun, L
  <2>2. to[L + 1][1] = i /\ to[L + 1][2] = i /\ \A j \in 1..(L + 1) : j \in 1..L \/ j = L + 1
    BY <1>3, <2>1
  <2>3. \A j \in 1..(L + 1) : to[j][1] \in holds /\ to[j][2] \in holds /\ to[j][1] <= to[j][2] /\ to[j][2] <= i
    <3> SUFFICES ASSUME NEW j \in 1..(L + 1)
                 PROVE  to[j][1] \in holds /\ to[j][2] \in holds /\ to[j][1] <= to[j][2] /\ to[j][2] <= i
      OBVIOUS
    <3>1. CASE j = L + 1
      BY <1>10, <2>2, <3>1
    <3>2. CASE j \in 1..L
      <4>1. runs[j][1] \in holds /\ runs[j][2] \in holds /\ runs[j][1] <= runs[j][2] /\ runs[j][2] <= k
        BY <1>6, <3>2
      <4>2. runs[j][2] \in 1..n
        BY <1>3, <3>2
      <4> QED
        BY <2>1, <3>2, <4>1, <4>2
    <3> QED
      BY <2>2, <3>1, <3>2
  <2>4. ASSUME NEW a \in 1..(L + 1), NEW b \in 1..(L + 1), a < b PROVE to[a][2] < to[b][1]
    <3>1. a \in 1..L
      BY <1>3, <2>4
    <3>2. CASE b \in 1..L
      BY <1>6, <2>1, <2>4, <3>1, <3>2
    <3>3. CASE b = L + 1
      <4>1. runs[a][2] <= k /\ runs[a][2] \in 1..n
        BY <1>3, <1>6, <3>1
      <4> QED
        BY <2>1, <2>2, <3>1, <3>3, <4>1
    <3> QED
      BY <2>2, <3>2, <3>3
  <2>5. ASSUME NEW x \in holds, x <= i PROVE \E j \in 1..(L + 1) : to[j][1] <= x /\ x <= to[j][2]
    <3>1. CASE x <= k
      <4>1. PICK j \in 1..L : runs[j][1] <= x /\ x <= runs[j][2]
        BY <1>6, <3>1
      <4>2. j \in 1..(L + 1) /\ to[j] = runs[j]
        BY <1>3, <2>1
      <4> QED
        BY <4>1, <4>2
    <3>2. CASE x = i
      <4>1. L + 1 \in 1..(L + 1)
        BY <1>3
      <4> QED
        BY <2>2, <3>2, <4>1
    <3> QED
      BY <1>5, <2>5, <3>1, <3>2
  <2>6. ASSUME NEW j \in 1..(L + 1), NEW x \in holds, NEW y \in holds, NextTo(holds, x, y), to[j][1] <= x, y <= to[j][2]
        PROVE  <<<<to[j][1], x>>, y>> \in near
    <3>1. CASE j \in 1..L
      BY <1>6, <2>1, <2>6, <3>1
    <3>2. CASE j = L + 1
      <4>1. i <= x /\ y <= i /\ x < y /\ x \in 1..n /\ y \in 1..n
        BY <2>2, <2>6, <3>2 DEF NextTo
      <4> QED
        BY <4>1
    <3> QED
      BY <2>2, <3>1, <3>2
  <2>7. ASSUME NEW j \in 1..(L + 1), NEW y \in holds, NextTo(holds, to[j][2], y), y <= i PROVE <<to[j], y>> \notin near
    <3>1. CASE j = L + 1
      <4>1. i < y /\ y <= i /\ y \in 1..n
        BY <2>2, <2>7, <3>1 DEF NextTo
      <4> QED
        BY <4>1
    <3>2. CASE j \in 1..L
      <4>1. to[j] = runs[j] /\ NextTo(holds, runs[j][2], y)
        BY <2>1, <2>7, <3>2
      <4>2. CASE y = i
        <5>1. j = L /\ L \in 1..L
          BY <1>7, <3>2, <4>1, <4>2
        <5> QED
          BY <1>3, <1>10, <4>1, <4>2, <5>1
      <4>3. CASE y <= k
        BY <1>6, <3>2, <4>1, <4>3
      <4> QED
        BY <1>5, <2>7, <4>2, <4>3
    <3> QED
      BY <2>2, <3>1, <3>2
  <2>8. AreRunsOf(to, holds, near, i)
    BY <2>1, <2>3, <2>4, <2>5, <2>6, <2>7 DEF AreRunsOf
  <2> QED
    BY <2>8 DEF to
<1> QED
  BY <1>8, <1>9, <1>10

\* The walk makes the runs of what holds.
LEMMA RunsAmongAre ==
    ASSUME NEW n \in Nat, NEW holds \in SUBSET (1..n), NEW near
    PROVE  RunsAmong(n, holds, near) \in RunLists(n) /\ AreRunsOf(RunsAmong(n, holds, near), holds, near, n)
<1>0. PICK h \in [0..n -> RunLists(n)] : WalksTo(h, RunsAmong(n, holds, near), n, holds, near)
  BY RunsAmongSteps
<1>1. /\ h \in [0..n -> RunLists(n)] /\ h[0] = <<>> /\ RunsAmong(n, holds, near) = h[n]
      /\ \A k \in 0..(n - 1) : h[k + 1] = NextRun(holds, near, h[k], k + 1)
  BY <1>0 DEF WalksTo
<1> DEFINE Q == {k \in 0..n : AreRunsOf(h[k], holds, near, k)}
<1>2. 0 \in Q
  <2>1. h[0] = <<>> /\ Len(h[0]) = 0 /\ 1..0 = {} /\ \A x \in holds : ~(x <= 0)
    BY <1>1
  <2> QED
    BY <2>1 DEF AreRunsOf
<1>3. \A k \in 0..(n - 1) : k \in Q => k + 1 \in Q
  <2> SUFFICES ASSUME NEW k \in 0..(n - 1), k \in Q PROVE k + 1 \in Q
    OBVIOUS
  <2>1. k + 1 \in 0..n /\ k \in 0..n
    OBVIOUS
  <2>2. h[k] \in RunLists(n)
    BY <1>1, <2>1
  <2>3. AreRunsOf(NextRun(holds, near, h[k], k + 1), holds, near, k + 1)
    BY <2>2, NextRunKeeps
  <2> QED
    BY <1>1, <2>1, <2>3
<1>4. n \in Q
  <2>1. n \in 0..n
    OBVIOUS
  <2> HIDE DEF Q
  <2> QED
    BY <1>2, <1>3, <2>1, UpToInduction
<1>5. n \in 0..n
  OBVIOUS
<1> QED
  BY <1>1, <1>4, <1>5

\* After a position that holds and before a later one comes the next one.
LEMMA NextExists ==
    ASSUME NEW n \in Nat, NEW holds \in SUBSET (1..n), NEW x \in holds, NEW z \in holds, x < z
    PROVE  \E y \in holds : NextTo(holds, x, y) /\ y <= z
<1> SUFFICES ASSUME \A y \in holds : ~(NextTo(holds, x, y) /\ y <= z)
             PROVE  FALSE
  OBVIOUS
<1> DEFINE Q == {k \in 0..n : \A y \in holds : x < y /\ y <= k => z < y}
<1>1. x \in 1..n /\ z \in 1..n /\ \A y \in holds : y \in 1..n
  OBVIOUS
<1>2. 0 \in Q
  BY <1>1
<1>3. \A k \in 0..(n - 1) : k \in Q => k + 1 \in Q
  <2> SUFFICES ASSUME NEW k \in 0..(n - 1), k \in Q, NEW y \in holds, x < y, y <= k + 1, y <= z PROVE FALSE
    BY <1>1
  <2>1. PICK w \in holds : x < w /\ w < y
    BY DEF NextTo
  <2>2. w <= k /\ w <= z
    BY <1>1, <2>1
  <2>3. z < w
    BY <2>1, <2>2
  <2> QED
    BY <1>1, <2>2, <2>3
<1>4. n \in Q
  <2>1. n \in 0..n
    OBVIOUS
  <2> HIDE DEF Q
  <2> QED
    BY <1>2, <1>3, <2>1, UpToInduction
<1> QED
  BY <1>1, <1>4

\* If in a run what follows each other are neighbours, all of the run holds.
LEMMA NeighboursHold ==
    ASSUME NEW n \in Nat, NEW holds \in SUBSET (1..n), NEW a \in holds, NEW b \in holds, a <= b,
           \A x, y \in holds : NextTo(holds, x, y) /\ a <= x /\ y <= b => y = x + 1
    PROVE  a..b \subseteq holds
<1>1. a \in 1..n /\ b \in 1..n /\ b - a \in Nat /\ \A y \in holds : y \in 1..n
  OBVIOUS
<1> DEFINE S == {d \in Nat : a + d \in holds}
           m == b - a
<1>2. 0 \in S
  BY <1>1
<1>3. \A d \in 0..(m - 1) : d \in S => d + 1 \in S
  <2> SUFFICES ASSUME NEW d \in 0..(m - 1), a + d \in holds PROVE a + (d + 1) \in holds
    BY <1>1
  <2>1. a + d < b /\ a <= a + d
    BY <1>1
  <2>2. PICK y \in holds : NextTo(holds, a + d, y) /\ y <= b
    BY <2>1, NextExists
  <2>3. y = (a + d) + 1
    BY <2>1, <2>2
  <2> QED
    BY <1>1, <2>2, <2>3
<1>4. 0..m \subseteq S
  <2>1. m \in Nat
    BY <1>1
  <2> HIDE DEF S, m
  <2> QED
    BY <1>2, <1>3, <2>1, UpToInduction
<1>5. ASSUME NEW i \in a..b PROVE i \in holds
  <2>1. i - a \in 0..m /\ a + (i - a) = i
    BY <1>1
  <2> QED
    BY <1>4, <2>1
<1> QED
  BY <1>5

\* The stretches a walk over all positions makes, if some of them, the seams, hold on to the next.
AreStretches(runs, seams, n) ==
    /\ runs \in RunLists(n) /\ Len(runs) \in Nat /\ DOMAIN runs = 1..Len(runs)
    /\ \A k \in 1..Len(runs) : runs[k][1] \in 1..n /\ runs[k][2] \in 1..n /\ runs[k][1] <= runs[k][2]
    /\ \A i, k \in 1..Len(runs) : i < k => runs[i][2] < runs[k][1]
    /\ \A x \in 1..n : \E k \in 1..Len(runs) : runs[k][1] <= x /\ x <= runs[k][2]
    /\ \A k \in 1..Len(runs), x \in 1..n : runs[k][1] <= x /\ x < runs[k][2] => x \in seams
    /\ \A k \in 1..Len(runs) : runs[k][2] < n => runs[k][2] \notin seams
LEMMA StretchesAre ==
    ASSUME NEW n \in Nat, NEW near, NEW seams,
           \A p, x, y \in 1..n : y = x + 1 => (<<<<p, x>>, y>> \in near <=> x \in seams)
    PROVE  AreStretches(RunsAmong(n, 1..n, near), seams, n)
<1> DEFINE runs == RunsAmong(n, 1..n, near)
<1>2. runs \in RunLists(n) /\ AreRunsOf(runs, 1..n, near, n)
  <2>1. 1..n \in SUBSET (1..n)
    OBVIOUS
  <2> QED
    BY <2>1, RunsAmongAre
<1> HIDE DEF runs
<1>4. Len(runs) \in Nat /\ DOMAIN runs = 1..Len(runs) /\ \A k \in 1..Len(runs) : runs[k] = <<runs[k][1], runs[k][2]>>
  <2>1. runs \in Seq((1..n) \X (1..n))
    BY <1>2 DEF RunLists
  <2>2. Len(runs) \in Nat /\ DOMAIN runs = 1..Len(runs) /\ \A k \in 1..Len(runs) : runs[k] \in (1..n) \X (1..n)
    BY <2>1
  <2> QED
    BY <2>2
<1>5. \A x \in 1..n : x + 1 \in 1..n => NextTo(1..n, x, x + 1)
  BY DEF NextTo
<1>6. /\ \A k \in 1..Len(runs) : runs[k][1] \in 1..n /\ runs[k][2] \in 1..n /\ runs[k][1] <= runs[k][2]
      /\ \A i, k \in 1..Len(runs) : i < k => runs[i][2] < runs[k][1]
      /\ \A x \in 1..n : \E k \in 1..Len(runs) : runs[k][1] <= x /\ x <= runs[k][2]
  <2>1. \A x \in 1..n : x <= n
    OBVIOUS
  <2> QED
    BY <1>2, <2>1 DEF AreRunsOf
<1>7. ASSUME NEW k \in 1..Len(runs), NEW x \in 1..n, runs[k][1] <= x, x < runs[k][2] PROVE x \in seams
  <2>1. x + 1 \in 1..n /\ x + 1 <= runs[k][2] /\ runs[k][1] \in 1..n
    BY <1>6, <1>7
  <2>2. <<<<runs[k][1], x>>, x + 1>> \in near
    BY <1>2, <1>5, <1>7, <2>1 DEF AreRunsOf
  <2> QED
    BY <2>1, <2>2
<1>8. ASSUME NEW k \in 1..Len(runs), runs[k][2] < n PROVE runs[k][2] \notin seams
  <2>1. runs[k][2] + 1 \in 1..n /\ runs[k][2] \in 1..n /\ runs[k][1] \in 1..n
    BY <1>6, <1>8
  <2>2. <<runs[k], runs[k][2] + 1>> \notin near
    <3>1. NextTo(1..n, runs[k][2], runs[k][2] + 1) /\ runs[k][2] + 1 <= n
      BY <1>5, <2>1
    <3> QED
      BY <1>2, <2>1, <3>1 DEF AreRunsOf
  <2>3. <<<<runs[k][1], runs[k][2]>>, runs[k][2] + 1>> \notin near
    BY <1>4, <2>2
  <2> QED
    BY <2>1, <2>3
<1>9. AreStretches(runs, seams, n)
  BY <1>2, <1>4, <1>6, <1>7, <1>8 DEF AreStretches
<1> QED
  BY <1>9 DEF runs

-----------------------------------------------------------------------------
(* Products and quotients *)

\* Products keep an order, and division by a positive number undoes them.
LEMMA Products ==
    ASSUME NEW d \in Nat \ {0}, NEW a \in Nat, NEW b \in Nat
    PROVE  /\ d * a \in Nat /\ (a <= b => d * a <= d * b) /\ (d * a < d * b => a < b) /\ d * (a + 1) = d * a + d
<1>1. d * a \in Nat /\ d * b \in Nat /\ d * (a + 1) = d * a + d
  BY SMTT(30)
<1>2. ASSUME NEW x \in Nat, NEW y \in Nat, x <= y PROVE d * x <= d * y
  <2>1. PICK z \in Nat : y = x + z
    <3>1. y - x \in Nat /\ y = x + (y - x)
      BY <1>2
    <3> QED
      BY <3>1
  <2>2. d * y = d * x + d * z /\ d * z >= 0 /\ d * x \in Nat /\ d * z \in Nat
    BY <2>1, SMTT(30)
  <2> QED
    BY <2>2
<1>3. d * a < d * b => a < b
  <2> SUFFICES ASSUME d * a < d * b, ~(a < b) PROVE FALSE
    OBVIOUS
  <2>1. b <= a
    OBVIOUS
  <2>2. d * b <= d * a
    BY <1>2, <2>1
  <2> QED
    BY <1>1, <2>2
<1> QED
  BY <1>1, <1>2, <1>3

\* A quotient is the greatest number whose product is not above the dividend.
LEMMA Quotients ==
    ASSUME NEW d \in Nat \ {0}, NEW x \in Nat, NEW q \in Nat
    PROVE  /\ x \div d \in Nat /\ d * (x \div d) <= x /\ x < d * ((x \div d) + 1)
           /\ d * q <= x => q <= x \div d
           /\ x < d * (q + 1) => x \div d <= q
<1> DEFINE z == x \div d
<1>1. z \in Nat /\ d * z <= x /\ x < d * z + d
  BY SMTT(30)
<1> HIDE DEF z
<1>2. d * (z + 1) = d * z + d /\ d * z \in Nat /\ d * q \in Nat /\ d * (q + 1) \in Nat /\ d * (z + 1) \in Nat
  BY <1>1, Products
<1>3. d * q <= x => q <= z
  <2> SUFFICES ASSUME d * q <= x PROVE q <= z
    OBVIOUS
  <2>1. d * q < d * (z + 1)
    BY <1>1, <1>2
  <2>2. z + 1 \in Nat
    BY <1>1
  <2>3. q < z + 1
    BY <2>1, <2>2, Products
  <2> QED
    BY <1>1, <2>3
<1>4. x < d * (q + 1) => z <= q
  <2> SUFFICES ASSUME x < d * (q + 1) PROVE z <= q
    OBVIOUS
  <2>1. d * z < d * (q + 1)
    BY <1>1, <1>2
  <2>2. q + 1 \in Nat
    OBVIOUS
  <2>3. z < q + 1
    BY <1>1, <2>1, <2>2, Products
  <2> QED
    BY <1>1, <2>3
<1>5. x < d * (z + 1)
  BY <1>1, <1>2
<1> QED
  BY <1>1, <1>3, <1>4, <1>5 DEF z

\* Products keep an order and take differences.
LEMMA BinProducts ==
    ASSUME NEW d \in Nat \ {0}, NEW a \in Nat, NEW b \in Nat
    PROVE  /\ a * d \in Nat /\ (a <= b <=> a * d <= b * d) /\ (a * d) \div d = a
           /\ b * d - a * d = (b - a) * d /\ (a + 1) * d = a * d + d
<1>1. a * d \in Nat /\ b * d \in Nat /\ b * d - a * d = (b - a) * d /\ (a + 1) * d = a * d + d
  BY SMTT(30)
<1>2. (a <= b => d * a <= d * b) /\ (d * b < d * a => b < a) /\ d * a = a * d /\ d * b = b * d
  BY Products
<1>3. (a <= b <=> a * d <= b * d)
  <2>1. a <= b => a * d <= b * d
    BY <1>2
  <2>2. ~(a <= b) => ~(a * d <= b * d)
    <3> SUFFICES ASSUME b < a PROVE b * d < a * d
      BY <1>1
    <3>1. b + 1 \in Nat /\ b + 1 <= a
      OBVIOUS
    <3>2. d * (b + 1) <= d * a /\ d * (b + 1) = d * b + d
      BY <3>1, Products
    <3> QED
      BY <1>1, <1>2, <3>2
  <2> QED
    BY <2>1, <2>2
<1>4. (a * d) \div d = a
  <2>1. a * d \in Nat /\ d * a <= a * d /\ a * d < d * (a + 1)
    BY <1>1, <1>2, Products
  <2>2. a <= (a * d) \div d /\ (a * d) \div d <= a /\ (a * d) \div d \in Nat
    BY <2>1, Quotients
  <2> QED
    BY <2>2
<1> QED
  BY <1>1, <1>3, <1>4
=============================================================================
