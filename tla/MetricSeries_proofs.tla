--------------------------- MODULE MetricSeries_proofs ---------------------------
(***************************************************************************)
(* Proofs about MetricSeries for any keys, metrics and growth of the        *)
(* counters. The points (Inv): what the builder keeps of a key and what has *)
(* happened since add up to the counters of the server, unless it has       *)
(* restarted, and then an epoch that is kept is an old one. The report      *)
(* (IInv): until it is assembled there is none, then it has every series    *)
(* and point, then what the budgets leave of them.                          *)
(***************************************************************************)
EXTENDS MetricSeries, FiniteSetTheorems, TLAPS

--------------------------------------------------------------------------------
(* Induction over sets of good numbers and good subsets, sums of a function  *)
(* over a finite set, and the first elements of a total order.               *)

\* Induction along the natural numbers, for a set of good numbers.
LEMMA NatSetInduction ==
  ASSUME NEW G, 0 \in G, \A n \in Nat : n \in G => n + 1 \in G
  PROVE  Nat \subseteq G
<1>. DEFINE B == Nat \ G
<1>. SUFFICES ASSUME B # {} PROVE FALSE
  OBVIOUS
<1>1. PICK n \in B : \A m \in B : ~(<<m, n>> \in OpToRel(<, Nat))
  <2>1. B \subseteq Nat
    OBVIOUS
  <2>. HIDE DEF B
  <2>. QED  BY <2>1, WFMin, NatLessThanWellFounded
<1>2. n \in Nat \ {0} /\ n - 1 \in Nat
  OBVIOUS
<1>3. n - 1 \in B
  BY <1>2, n - 1 + 1 = n
<1>4. <<n - 1, n>> \in OpToRel(<, Nat)
  BY <1>2 DEF OpToRel
<1>. QED  BY <1>1, <1>3, <1>4

\* Induction over the subsets of a finite set, for a set G of good subsets: one is
\* good if it is good without any one of its elements.
LEMMA SubsetInduction ==
  ASSUME NEW S, IsFiniteSet(S), NEW G,
         \A T \in SUBSET S : (\A x \in T : T \ {x} \in G) => T \in G
  PROVE  SUBSET S \subseteq G
<1>. DEFINE B == (SUBSET S) \ G
<1>. SUFFICES ASSUME B # {} PROVE FALSE
  OBVIOUS
<1>1. PICK T \in B : \A U \in B : ~(<<U, T>> \in StrictSubsetOrdering(S))
  <2>1. B \subseteq FiniteSubsetsOf(S)
    BY FS_FiniteSubsetsOfFinite
  <2>. HIDE DEF B
  <2>. QED  BY <2>1, WFMin, FS_StrictSubsetOrderingWellFounded
<1>2. PICK x \in T : T \ {x} \notin G
  OBVIOUS
<1>3. <<T \ {x}, T>> \in StrictSubsetOrdering(S)
  BY <1>2 DEF StrictSubsetOrdering
<1>. QED  BY <1>1, <1>2, <1>3

\* The element a sum over s takes first.
Chosen(s) == CHOOSE x \in s : TRUE

\* One round of a sum over s that has the sums g of its subsets.
Round(g, f, s) == IF s = {} THEN 0 ELSE f[Chosen(s)] + g[s \ {Chosen(s)}]

\* g maps the subsets of S to their sums.
IsSum(g, f, S) == g = [s \in SUBSET S |-> Round(g, f, s)]

\* The library's sum is one.
LEMMA SumUnfolds ==
  ASSUME NEW f, NEW S
  PROVE  SumFunctionOnSet(f, S) = (CHOOSE g : IsSum(g, f, S))[S]
BY DEF SumFunctionOnSet, FoldFunctionOnSet, MapThenFoldSet, IsSum, Chosen, Round

\* The recursion of a sum has a solution.
LEMMA SumExists ==
  ASSUME NEW f, NEW S, IsFiniteSet(S)
  PROVE  \E g : IsSum(g, f, S)
<1>. DEFINE Small(n) == {s \in SUBSET S : Cardinality(s) <= n}
            G == {n \in Nat : \E g : \A s \in Small(n) : g[s] = Round(g, f, s)}
<1>0. \A s \in SUBSET S : IsFiniteSet(s) /\ Cardinality(s) \in Nat
  BY FS_Subset, FS_CardinalityType
<1>1. 0 \in G
  <2>. DEFINE g == [s \in SUBSET S |-> 0]
  <2>1. ASSUME NEW s \in Small(0) PROVE g[s] = Round(g, f, s)
    <3>1. s = {}
      BY <1>0, FS_EmptySet
    <3>. QED  BY <3>1 DEF Round
  <2>. HIDE DEF g
  <2>. QED  BY <2>1
<1>2. ASSUME NEW n \in Nat, n \in G PROVE n + 1 \in G
  <2>1. PICK g : \A s \in Small(n) : g[s] = Round(g, f, s)
    BY <1>2
  <2>. DEFINE h == [s \in SUBSET S |-> Round(g, f, s)]
  <2>2. \A s \in Small(n) : h[s] = g[s]
    BY <2>1
  <2>3. ASSUME NEW s \in Small(n + 1) PROVE h[s] = Round(h, f, s)
    <3>1. CASE s = {}
      BY <3>1 DEF Round
    <3>2. CASE s # {}
      <4>1. Chosen(s) \in s
        BY <3>2 DEF Chosen
      <4>2. s \ {Chosen(s)} \in Small(n)
        <5>1. Cardinality(s \ {Chosen(s)}) = Cardinality(s) - 1
          BY <1>0, <4>1, FS_RemoveElement
        <5>. QED  BY <1>0, <5>1
      <4>. QED  BY <2>2, <3>2, <4>2 DEF Round
    <3>. QED  BY <3>1, <3>2
  <2>. HIDE DEF h
  <2>. QED  BY <2>3
<1>3. Cardinality(S) \in G
  <2>. HIDE DEF G
  <2>. QED  BY <1>0, <1>1, <1>2, NatSetInduction
<1>4. PICK g : \A s \in Small(Cardinality(S)) : g[s] = Round(g, f, s)
  BY <1>3
<1>5. \A s \in SUBSET S : s \in Small(Cardinality(S))
  BY FS_Subset
<1>. DEFINE h == [s \in SUBSET S |-> g[s]]
<1>6. ASSUME NEW s \in SUBSET S PROVE Round(h, f, s) = g[s]
  BY <1>4, <1>5 DEF Round
<1>7. h = [s \in SUBSET S |-> Round(h, f, s)]
  BY <1>6
<1>. QED  BY <1>7 DEF IsSum

\* Its solutions agree where they overlap.
LEMMA SumUnique ==
  ASSUME NEW f, NEW S, IsFiniteSet(S), NEW T \in SUBSET S,
         NEW g, IsSum(g, f, S), NEW h, IsSum(h, f, T)
  PROVE  h[T] = g[T]
<1>. DEFINE G == {s \in SUBSET T : h[s] = g[s]}
<1>0. IsFiniteSet(T)
  BY FS_Subset
<1>1. ASSUME NEW s \in SUBSET T, \A x \in s : s \ {x} \in G PROVE s \in G
  <2>1. h[s] = Round(h, f, s) /\ g[s] = Round(g, f, s)
    BY DEF IsSum
  <2>2. s # {} => Chosen(s) \in s
    BY DEF Chosen
  <2>. QED  BY <1>1, <2>1, <2>2 DEF Round
<1>2. SUBSET T \subseteq G
  <2>. HIDE DEF G
  <2>. QED  BY <1>0, <1>1, SubsetInduction
<1>. QED  BY <1>2

\* A sum is its first element and the sum of the rest.
LEMMA SumRecursion ==
  ASSUME NEW f, NEW S, IsFiniteSet(S)
  PROVE  SumFunctionOnSet(f, S) =
           IF S = {} THEN 0
           ELSE f[Chosen(S)] + SumFunctionOnSet(f, S \ {Chosen(S)})
<1>. DEFINE g == CHOOSE g : IsSum(g, f, S)
            T == S \ {Chosen(S)}
            h == CHOOSE h : IsSum(h, f, T)
<1>1. IsSum(g, f, S)
  BY SumExists
<1>2. IsSum(h, f, T)
  <2>1. IsFiniteSet(T)
    BY FS_Subset
  <2>. QED  BY <2>1, SumExists
<1>3. h[T] = g[T]
  <2>. HIDE DEF g, h
  <2>. QED  BY <1>1, <1>2, SumUnique
<1>4. g[S] = Round(g, f, S)
  <2>. HIDE DEF g
  <2>. QED  BY <1>1 DEF IsSum
<1>. QED  BY <1>3, <1>4, SumUnfolds DEF Round

\* Naturals have a natural sum.
LEMMA SumIsNatural ==
  ASSUME NEW S, IsFiniteSet(S), NEW f, \A x \in S : f[x] \in Nat
  PROVE  \A T \in SUBSET S : SumFunctionOnSet(f, T) \in Nat
<1>. DEFINE G == {T \in SUBSET S : SumFunctionOnSet(f, T) \in Nat}
<1>1. ASSUME NEW T \in SUBSET S, \A x \in T : T \ {x} \in G PROVE T \in G
  <2>1. IsFiniteSet(T)
    BY FS_Subset
  <2>2. T # {} => Chosen(T) \in T
    BY DEF Chosen
  <2>3. T # {} => SumFunctionOnSet(f, T \ {Chosen(T)}) \in Nat
    BY <1>1, <2>2
  <2>. QED  BY <2>1, <2>2, <2>3, SumRecursion
<1>. HIDE DEF G
<1>2. SUBSET S \subseteq G
  BY <1>1, SubsetInduction
<1>. QED  BY <1>2 DEF G

\* Any one element can be taken out of a sum.
LEMMA SumSplits ==
  ASSUME NEW S, IsFiniteSet(S), NEW f, \A x \in S : f[x] \in Nat, NEW y \in S
  PROVE  SumFunctionOnSet(f, S) = f[y] + SumFunctionOnSet(f, S \ {y})
<1>. DEFINE sum(T) == SumFunctionOnSet(f, T)
            G == {T \in SUBSET S : \A x \in T : sum(T) = f[x] + sum(T \ {x})}
<1>0. \A T \in SUBSET S : sum(T) \in Nat
  BY SumIsNatural
<1>1. ASSUME NEW T \in SUBSET S, \A x \in T : T \ {x} \in G PROVE T \in G
  <2>. SUFFICES ASSUME NEW x \in T PROVE sum(T) = f[x] + sum(T \ {x})
    OBVIOUS
  <2>. DEFINE c == Chosen(T)
  <2>1. c \in T
    BY DEF Chosen
  <2>2. sum(T) = f[c] + sum(T \ {c})
    <3>1. IsFiniteSet(T)
      BY FS_Subset
    <3>. QED  BY <3>1, SumRecursion
  <2>3. CASE c # x
    <3>1. sum(T \ {c}) = f[x] + sum((T \ {c}) \ {x})
      <4>. HIDE DEF c, sum
      <4>. QED  BY <1>1, <2>1, <2>3
    <3>2. sum(T \ {x}) = f[c] + sum((T \ {x}) \ {c})
      <4>. HIDE DEF c, sum
      <4>. QED  BY <1>1, <2>1, <2>3
    <3>3. (T \ {c}) \ {x} = (T \ {x}) \ {c}
      OBVIOUS
    <3>4. /\ f[x] \in Nat /\ f[c] \in Nat
          /\ sum((T \ {x}) \ {c}) \in Nat
      <4>. HIDE DEF c, sum
      <4>. QED  BY <1>0, <2>1
    <3>. HIDE DEF c, sum
    <3>. QED  BY <2>2, <3>1, <3>2, <3>3, <3>4
  <2>. QED  BY <2>2, <2>3
<1>. HIDE DEF G
<1>2. SUBSET S \subseteq G
  BY <1>1, SubsetInduction
<1>3. IsFiniteSet(S) /\ S \in G
  BY <1>2
<1>. QED  BY <1>3 DEF G

\* A sum depends on the values at its own elements only.
LEMMA SumOfEqual ==
  ASSUME NEW S, IsFiniteSet(S), NEW f, NEW g, \A x \in S : f[x] = g[x]
  PROVE  SumFunctionOnSet(f, S) = SumFunctionOnSet(g, S)
<1>. DEFINE G == {T \in SUBSET S : SumFunctionOnSet(f, T) = SumFunctionOnSet(g, T)}
<1>1. ASSUME NEW T \in SUBSET S, \A x \in T : T \ {x} \in G PROVE T \in G
  <2>1. IsFiniteSet(T)
    BY FS_Subset
  <2>2. T # {} => Chosen(T) \in T
    BY DEF Chosen
  <2>3. T # {} => SumFunctionOnSet(f, T \ {Chosen(T)}) = SumFunctionOnSet(g, T \ {Chosen(T)})
    BY <1>1, <2>2
  <2>. QED  BY <2>1, <2>2, <2>3, SumRecursion
<1>. HIDE DEF G
<1>2. SUBSET S \subseteq G
  BY <1>1, SubsetInduction
<1>. QED  BY <1>2 DEF G

\* A sum of smaller numbers is smaller unless all of them are equal.
LEMMA SumMonotonic ==
  ASSUME NEW S, IsFiniteSet(S), NEW f, NEW g,
         \A x \in S : f[x] \in Nat /\ g[x] \in Nat /\ f[x] <= g[x]
  PROVE  /\ SumFunctionOnSet(f, S) <= SumFunctionOnSet(g, S)
         /\ SumFunctionOnSet(f, S) = SumFunctionOnSet(g, S) => \A x \in S : f[x] = g[x]
<1>. DEFINE F(T) == SumFunctionOnSet(f, T)
            H(T) == SumFunctionOnSet(g, T)
            G == {T \in SUBSET S : F(T) <= H(T) /\ (F(T) = H(T) => \A x \in T : f[x] = g[x])}
<1>0. \A T \in SUBSET S : F(T) \in Nat /\ H(T) \in Nat
  BY SumIsNatural
<1>1. ASSUME NEW T \in SUBSET S, \A x \in T : T \ {x} \in G PROVE T \in G
  <2>1. IsFiniteSet(T)
    BY FS_Subset
  <2>2. CASE T = {}
    <3>1. F(T) = 0 /\ H(T) = 0
      BY <2>1, <2>2, SumRecursion
    <3>. QED  BY <2>2, <3>1
  <2>3. CASE T # {}
    <3>. DEFINE c == Chosen(T)
    <3>1. c \in T
      BY <2>3 DEF Chosen
    <3>2. F(T) = f[c] + F(T \ {c}) /\ H(T) = g[c] + H(T \ {c})
      BY <2>1, <2>3, SumRecursion
    <3>. HIDE DEF c, F, H
    <3>3. f[c] \in Nat /\ g[c] \in Nat /\ f[c] <= g[c]
      BY <3>1
    <3>4. F(T \ {c}) \in Nat /\ H(T \ {c}) \in Nat
      BY <1>0
    <3>5. /\ F(T \ {c}) <= H(T \ {c})
          /\ F(T \ {c}) = H(T \ {c}) => \A x \in T \ {c} : f[x] = g[x]
      BY <1>1, <3>1
    <3>6. F(T) <= H(T)
      BY <3>2, <3>3, <3>4, <3>5
    <3>7. F(T) = H(T) => F(T \ {c}) = H(T \ {c}) /\ f[c] = g[c]
      BY <3>2, <3>3, <3>4, <3>5
    <3>. QED  BY <3>5, <3>6, <3>7
  <2>. QED  BY <2>2, <2>3
<1>. HIDE DEF G
<1>2. SUBSET S \subseteq G
  BY <1>1, SubsetInduction
<1>. QED  BY <1>2 DEF G

\* Zeros sum to zero.
LEMMA SumOfZeros ==
  ASSUME NEW S, IsFiniteSet(S), NEW f, \A x \in S : f[x] = 0
  PROVE  SumFunctionOnSet(f, S) = 0
<1>. DEFINE G == {T \in SUBSET S : SumFunctionOnSet(f, T) = 0}
<1>1. ASSUME NEW T \in SUBSET S, \A x \in T : T \ {x} \in G PROVE T \in G
  <2>1. IsFiniteSet(T)
    BY FS_Subset
  <2>2. T # {} => Chosen(T) \in T
    BY DEF Chosen
  <2>3. T # {} => SumFunctionOnSet(f, T \ {Chosen(T)}) = 0
    BY <1>1, <2>2
  <2>. QED  BY <2>1, <2>2, <2>3, SumRecursion
<1>. HIDE DEF G
<1>2. SUBSET S \subseteq G
  BY <1>1, SubsetInduction
<1>. QED  BY <1>2 DEF G

\* The elements with fewer than n elements below them in a strict total order are
\* n elements, or all of them.
LEMMA TopOfOrder ==
  ASSUME NEW S, IsFiniteSet(S), NEW n \in Nat, NEW below \in [S -> SUBSET S],
         \A k \in S : k \notin below[k],
         \A j, k \in S : j \in below[k] => below[j] \subseteq below[k],
         \A j, k \in S : j = k \/ j \in below[k] \/ k \in below[j],
         NEW top \in SUBSET S, \A k \in S : k \in top <=> Cardinality(below[k]) < n
  PROVE  IF Cardinality(S) <= n THEN top = S ELSE Cardinality(top) = n
<1>. DEFINE N == Cardinality(S)
            rank == [k \in S |-> Cardinality(below[k])]
            best == [k \in top |-> rank[k]]
<1>1. N \in Nat /\ \A T \in SUBSET S : IsFiniteSet(T) /\ Cardinality(T) \in Nat
  BY FS_Subset, FS_CardinalityType
<1>1a. \A k \in S : k \in top <=> rank[k] < n
  OBVIOUS
<1>. HIDE DEF N
<1>2. \A k \in S : rank[k] \in 0..(N - 1)
  <2>. SUFFICES ASSUME NEW k \in S PROVE rank[k] \in 0..(N - 1)
    OBVIOUS
  <2>1. below[k] \in SUBSET (S \ {k}) /\ below[k] \in SUBSET S
    OBVIOUS
  <2>2. IsFiniteSet(S \ {k}) /\ Cardinality(S \ {k}) = N - 1
    BY FS_RemoveElement DEF N
  <2>3. Cardinality(below[k]) <= N - 1 /\ Cardinality(below[k]) \in Nat
    BY <1>1, <2>1, <2>2, FS_Subset
  <2>4. rank[k] = Cardinality(below[k])
    OBVIOUS
  <2>. HIDE DEF rank
  <2>. QED  BY <1>1, <2>3, <2>4
<1>3. ASSUME NEW j \in S, NEW k \in S, j \in below[k] PROVE rank[j] < rank[k]
  <2>1. below[j] \in SUBSET below[k] /\ j \in below[k] /\ j \notin below[j]
    BY <1>3
  <2>2. below[k] \in SUBSET S /\ below[j] \in SUBSET S
    OBVIOUS
  <2>3. Cardinality(below[j]) <= Cardinality(below[k]) /\ Cardinality(below[j]) # Cardinality(below[k])
    BY <1>1, <2>1, <2>2, FS_Subset
  <2>4. rank[j] = Cardinality(below[j]) /\ rank[k] = Cardinality(below[k])
    OBVIOUS
  <2>. HIDE DEF rank
  <2>. QED  BY <1>1, <2>2, <2>3, <2>4
<1>4. ASSUME NEW j \in S, NEW k \in S, rank[j] = rank[k] PROVE j = k
  <2>1. rank[j] \in Int /\ rank[k] \in Int
    <3>. HIDE DEF rank
    <3>. QED  BY <1>1, <1>2
  <2>2. j \notin below[k]
    <3>. HIDE DEF rank
    <3>. QED  BY <1>3, <1>4, <2>1
  <2>3. k \notin below[j]
    <3>. HIDE DEF rank
    <3>. QED  BY <1>3, <1>4, <2>1
  <2>. QED  BY <2>2, <2>3
<1>5. rank \in Injection(S, 0..(N - 1))
  BY <1>2, <1>4 DEF Injection, IsInjective
<1>6. IsFiniteSet(0..(N - 1)) /\ Cardinality(0..(N - 1)) = N
  <2>1. N - 1 \in Int /\ (0 > N - 1 => N = 0) /\ (N - 1) - 0 + 1 = N
    BY <1>1
  <2>. QED  BY <2>1, FS_Interval
<1>7. \A m \in 0..(N - 1) : \E k \in S : rank[k] = m
  <2>. HIDE DEF rank
  <2>1. rank \in Surjection(S, 0..(N - 1))
    BY <1>5, <1>6, FS_Injection DEF N
  <2>. QED  BY <2>1 DEF Surjection
<1>8. ASSUME N <= n PROVE top = S
  <2>. HIDE DEF rank
  <2>. QED  BY <1>1, <1>1a, <1>2, <1>8
<1>9. ASSUME ~(N <= n) PROVE Cardinality(top) = n
  <2>1. best \in Injection(top, 0..(n - 1))
    <3>1. \A k \in top : best[k] \in 0..(n - 1)
      BY <1>1, <1>1a, <1>2
    <3>. QED  BY <1>4, <3>1 DEF Injection, IsInjective
  <2>2. best \in Surjection(top, 0..(n - 1))
    <3>1. ASSUME NEW m \in 0..(n - 1) PROVE \E k \in top : best[k] = m
      <4>1. m \in 0..(N - 1)
        BY <1>1, <1>9
      <4>2. PICK k \in S : rank[k] = m
        BY <1>7, <4>1
      <4>3. k \in top
        <5>. HIDE DEF rank
        <5>. QED  BY <1>1a, <4>2
      <4>. QED  BY <4>2, <4>3
    <3>2. best \in [top -> 0..(n - 1)]
      BY <2>1 DEF Injection
    <3>. QED  BY <3>1, <3>2 DEF Surjection
  <2>3. IsFiniteSet(0..(n - 1)) /\ Cardinality(0..(n - 1)) = n
    BY FS_Interval
  <2>. HIDE DEF best
  <2>. QED  BY <2>1, <2>2, <2>3, FS_Injection
<1>. QED  BY <1>8, <1>9 DEF N

--------------------------------------------------------------------------------
(* The books of the keys.                                                    *)

\* Types, as far as the argument needs them.
Typed ==
  /\ metric \in Metrics
  /\ counter \in [Keys -> Nat] /\ events \in [Keys -> Nat] /\ generation \in [Keys -> Nat]
  /\ previous \in [Keys -> {NoObservation} \cup [top : Nat, bottom : Nat, epoch : Nat]]
  /\ samples \in Seq([Keys -> {Absent, Gap} \cup Quotient])
  /\ since \in [Keys -> [top : Nat, bottom : Nat, restarted : BOOLEAN]]

\* The epoch the builder reads with a counter.
Epoch(k) == IF metric.epoch THEN generation[k] ELSE 0

\* The books of a key balance.
Balanced(k) ==
  previous[k] # NoObservation =>
    /\ ~since[k].restarted => /\ counter[k] = previous[k].top + since[k].top
                              /\ events[k] = previous[k].bottom + since[k].bottom
                              /\ previous[k].epoch = Epoch(k)
    /\ since[k].restarted /\ metric.epoch => previous[k].epoch < generation[k]

\* A gauge needs no previous observation.
GaugeKeepsNothing ==
  metric.transform = "gauge" => \A k \in Keys : previous[k] = NoObservation

\* The inductive invariant of the points.
Inv == Typed /\ GaugeKeepsNothing /\ \A k \in Keys : Balanced(k)

\* What a metric is made of.
LEMMA MetricFields ==
  ASSUME metric \in Metrics
  PROVE  /\ metric.kind \in {"chart", "table"} /\ metric.epoch \in BOOLEAN
         /\ metric.transform \in {"gauge", "rate", "ratio_of_deltas"}
         /\ metric.kind = "table" => metric.transform = "gauge"
BY SeriesAssumption DEF Metric

\* Nothing has happened at first.
LEMMA InitInv == Init => Inv
<1>. SUFFICES ASSUME Init PROVE Inv
  OBVIOUS
<1>1. Typed
  BY DEF Init, Typed, Fresh
<1>2. ASSUME NEW k \in Keys PROVE Balanced(k)
  BY DEF Init, Balanced
<1>3. GaugeKeepsNothing
  BY DEF Init, GaugeKeepsNothing
<1>. QED  BY <1>1, <1>2, <1>3 DEF Inv

\* What a key contributes to a sample.
LEMMA ValueFacts ==
  ASSUME Inv, NEW k \in Keys
  PROVE  /\ Value(k) \in {Gap} \cup Quotient
         /\ metric.transform # "gauge" =>
              IF \/ previous[k] = NoObservation
                 \/ since[k].restarted /\ (\/ metric.epoch
                                           \/ counter[k] < previous[k].top
                                           \/ events[k] < previous[k].bottom)
                 \/ /\ metric.transform = "ratio_of_deltas"
                    /\ ~since[k].restarted /\ since[k].bottom = 0
              THEN Value(k) = Gap
              ELSE ~since[k].restarted =>
                     /\ Value(k) # Gap
                     /\ Value(k).top = since[k].top
                     /\ metric.transform = "ratio_of_deltas" => Value(k).bottom = since[k].bottom
<1>. DEFINE old == previous[k]
            new == Row(k)
<1>1. /\ new.top = counter[k] /\ new.bottom = events[k] /\ new.epoch = Epoch(k)
      /\ counter[k] \in Nat /\ events[k] \in Nat /\ generation[k] \in Nat
      /\ old # NoObservation => old.top \in Nat /\ old.bottom \in Nat /\ old.epoch \in Nat
      /\ since[k].top \in Nat /\ since[k].bottom \in Nat /\ since[k].restarted \in BOOLEAN
  BY DEF Inv, Typed, Row, Epoch
<1>2. /\ metric.transform \in {"gauge", "rate", "ratio_of_deltas"} /\ Balanced(k)
  BY MetricFields DEF Inv, Typed
<1>3. CASE metric.transform = "gauge"
  <2>1. Value(k) = [top |-> new.top, bottom |-> 1]
    BY <1>3 DEF Value
  <2>. QED  BY <1>1, <1>3, <2>1 DEF Quotient
<1>4. CASE metric.transform # "gauge" /\ ~Continues(old, new)
  <2>1. Value(k) = Gap
    BY <1>2, <1>4 DEF Value
  <2>2. old # NoObservation /\ ~since[k].restarted => FALSE
    BY <1>1, <1>2, <1>4 DEF Continues, Balanced
  <2>. QED  BY <2>1, <2>2
<1>5. CASE metric.transform # "gauge" /\ Continues(old, new)
  <2>1. /\ old # NoObservation /\ new.top >= old.top /\ new.bottom >= old.bottom
        /\ new.epoch = old.epoch
    BY <1>5 DEF Continues
  <2>2. ~(since[k].restarted /\ metric.epoch)
    BY <1>1, <1>2, <2>1 DEF Balanced, Epoch
  <2>3. ~since[k].restarted => /\ new.top - old.top = since[k].top
                               /\ new.bottom - old.bottom = since[k].bottom
    BY <1>1, <1>2, <2>1 DEF Balanced
  <2>4. ~(counter[k] < old.top) /\ ~(events[k] < old.bottom)
    BY <1>1, <2>1
  <2>5. CASE metric.transform = "rate"
    <3>1. Value(k) = [top |-> new.top - old.top, bottom |-> 1]
      BY <1>5, <2>5 DEF Value
    <3>2. Value(k) \in Quotient
      BY <1>1, <2>1, <3>1 DEF Quotient
    <3>. QED  BY <2>1, <2>2, <2>3, <2>4, <2>5, <3>1, <3>2, SeriesAssumption
  <2>6. CASE metric.transform = "ratio_of_deltas"
    <3>1. CASE new.bottom > old.bottom
      <4>1. Value(k) = [top |-> new.top - old.top, bottom |-> new.bottom - old.bottom]
        BY <1>5, <2>6, <3>1 DEF Value
      <4>2. Value(k) \in Quotient
        BY <1>1, <2>1, <3>1, <4>1 DEF Quotient
      <4>3. ~since[k].restarted => since[k].bottom # 0
        BY <1>1, <2>1, <2>3, <3>1
      <4>. QED  BY <2>1, <2>2, <2>3, <2>4, <4>1, <4>2, <4>3, SeriesAssumption
    <3>2. CASE ~(new.bottom > old.bottom)
      <4>1. Value(k) = Gap
        BY <1>5, <2>6, <3>2 DEF Value
      <4>2. ~since[k].restarted => since[k].bottom = 0
        BY <1>1, <2>1, <2>3, <3>2
      <4>. QED  BY <2>6, <4>1, <4>2
    <3>. QED  BY <3>1, <3>2
  <2>. QED  BY <1>2, <1>5, <2>5, <2>6
<1>. QED  BY <1>3, <1>4, <1>5

\* A sample, by its keys.
LEMMA SampleFacts ==
  ASSUME Inv, Sample
  PROVE  \E present, numbers \in SUBSET Keys :
           /\ metric.transform # "gauge" => numbers = present
           /\ samples' = Append(samples,
                [k \in Keys |-> IF k \in numbers THEN Value(k)
                                ELSE IF k \in present THEN Gap ELSE Absent])
           /\ previous' = [k \in Keys |->
                IF k \in numbers /\ metric.transform # "gauge" THEN Row(k) ELSE previous[k]]
           /\ since' = [k \in Keys |-> IF k \in numbers THEN Fresh ELSE since[k]]
           /\ UNCHANGED <<metric, world>>
<1>1. metric.kind \in {"chart", "table"} /\ (metric.kind = "table" => metric.transform = "gauge")
  BY MetricFields DEF Inv, Typed
<1>2. PICK present \in SUBSET Keys : \E numbers \in SUBSET present :
           /\ metric.transform # "gauge" => numbers = present
           /\ samples' = Append(samples,
                [k \in Keys |-> IF k \in numbers THEN Value(k)
                                ELSE IF k \in present THEN Gap ELSE Absent])
           /\ previous' = [k \in Keys |->
                IF k \in numbers /\ metric.transform # "gauge" THEN Row(k) ELSE previous[k]]
           /\ since' = [k \in Keys |-> IF k \in numbers THEN Fresh ELSE since[k]]
           /\ UNCHANGED <<metric, world>>
  BY <1>1 DEF Sample
<1>. QED  BY <1>2

\* A sample takes what has happened since over into the books.
LEMMA SampleKeepsInv ==
  ASSUME Inv, Sample
  PROVE  Inv'
<1>. USE DEF world
<1>1. PICK present, numbers \in SUBSET Keys :
           /\ metric.transform # "gauge" => numbers = present
           /\ samples' = Append(samples,
                [k \in Keys |-> IF k \in numbers THEN Value(k)
                                ELSE IF k \in present THEN Gap ELSE Absent])
           /\ previous' = [k \in Keys |->
                IF k \in numbers /\ metric.transform # "gauge" THEN Row(k) ELSE previous[k]]
           /\ since' = [k \in Keys |-> IF k \in numbers THEN Fresh ELSE since[k]]
           /\ UNCHANGED <<metric, world>>
  BY SampleFacts
<1>2. \A k \in Keys : /\ Row(k) \in [top : Nat, bottom : Nat, epoch : Nat]
                      /\ Row(k).top = counter[k] /\ Row(k).bottom = events[k]
                      /\ Row(k).epoch = Epoch(k)
  BY DEF Inv, Typed, Row, Epoch
<1>3. Fresh \in [top : Nat, bottom : Nat, restarted : BOOLEAN]
      /\ Fresh.top = 0 /\ Fresh.bottom = 0 /\ Fresh.restarted = FALSE
  BY DEF Fresh
<1>4. Typed'
  <2>1. [k \in Keys |-> IF k \in numbers THEN Value(k)
                        ELSE IF k \in present THEN Gap ELSE Absent]
          \in [Keys -> {Absent, Gap} \cup Quotient]
    <3>1. \A k \in Keys : Value(k) \in {Gap} \cup Quotient
      BY ValueFacts
    <3>. QED  BY <3>1
  <2>2. samples' \in Seq([Keys -> {Absent, Gap} \cup Quotient])
    <3>. DEFINE S == [Keys -> {Absent, Gap} \cup Quotient]
    <3>1. samples \in Seq(S)
      BY DEF Inv, Typed
    <3>2. \A s \in Seq(S), e \in S : Append(s, e) \in Seq(S)
      OBVIOUS
    <3>. QED  BY <1>1, <2>1, <3>1, <3>2
  <2>3. previous' \in [Keys -> {NoObservation} \cup [top : Nat, bottom : Nat, epoch : Nat]]
    BY <1>1, <1>2 DEF Inv, Typed
  <2>4. since' \in [Keys -> [top : Nat, bottom : Nat, restarted : BOOLEAN]]
    BY <1>1, <1>3 DEF Inv, Typed
  <2>. QED  BY <1>1, <2>2, <2>3, <2>4 DEF Inv, Typed
<1>5. ASSUME NEW k \in Keys PROVE Balanced(k)'
  <2>1. counter'[k] \in Nat /\ events'[k] \in Nat /\ Epoch(k)' = Epoch(k)
    BY <1>1 DEF Inv, Typed, Epoch
  <2>2. CASE k \in numbers /\ metric.transform # "gauge"
    <3>1. previous'[k] = Row(k) /\ since'[k] = Fresh
      BY <1>1, <2>2
    <3>. QED  BY <1>1, <1>2, <1>3, <2>1, <3>1 DEF Balanced
  <2>3. CASE k \in numbers /\ metric.transform = "gauge"
    <3>1. previous'[k] = previous[k] /\ previous[k] = NoObservation
      BY <1>1, <2>3 DEF Inv, GaugeKeepsNothing
    <3>. QED  BY <3>1 DEF Balanced
  <2>4. CASE k \notin numbers
    <3>1. previous'[k] = previous[k] /\ since'[k] = since[k]
      BY <1>1, <2>4
    <3>. QED  BY <1>1, <2>1, <3>1 DEF Balanced, Inv
  <2>. QED  BY <2>2, <2>3, <2>4
<1>6. GaugeKeepsNothing'
  BY <1>1 DEF Inv, GaugeKeepsNothing
<1>. QED  BY <1>4, <1>5, <1>6 DEF Inv

\* Growth happens after the last reading.
LEMMA GrowKeepsInv ==
  ASSUME Inv, NEW j \in Keys, Grow(j)
  PROVE  Inv'
<1>. USE DEF folded
<1>1. PICK top \in {0, 1}, bottom \in {0, 1} :
        /\ counter' = [counter EXCEPT ![j] = @ + top]
        /\ events' = [events EXCEPT ![j] = @ + bottom]
        /\ since' = [since EXCEPT ![j].top = @ + top, ![j].bottom = @ + bottom]
        /\ UNCHANGED <<metric, generation, previous, samples>>
  BY DEF Grow
<1>2. since'[j] = [top |-> since[j].top + top, bottom |-> since[j].bottom + bottom,
                   restarted |-> since[j].restarted]
      /\ \A k \in Keys \ {j} : since'[k] = since[k]
  BY <1>1 DEF Inv, Typed
<1>3. Typed'
  <2>1. counter' \in [Keys -> Nat] /\ events' \in [Keys -> Nat]
    BY <1>1 DEF Inv, Typed
  <2>2. since' \in [Keys -> [top : Nat, bottom : Nat, restarted : BOOLEAN]]
    <3>1. since'[j] \in [top : Nat, bottom : Nat, restarted : BOOLEAN]
      BY <1>2 DEF Inv, Typed
    <3>2. DOMAIN since' = Keys /\ since' = [k \in Keys |-> since'[k]]
      BY <1>1 DEF Inv, Typed
    <3>. QED  BY <1>2, <3>1, <3>2 DEF Inv, Typed
  <2>. QED  BY <1>1, <2>1, <2>2 DEF Inv, Typed
<1>4. ASSUME NEW k \in Keys PROVE Balanced(k)'
  <2>1. Balanced(k) /\ Epoch(k)' = Epoch(k)
    BY <1>1 DEF Inv, Epoch
  <2>2. /\ counter[k] \in Nat /\ events[k] \in Nat
        /\ since[k].top \in Nat /\ since[k].bottom \in Nat
        /\ previous[k] # NoObservation => previous[k].top \in Nat /\ previous[k].bottom \in Nat
    BY DEF Inv, Typed
  <2>3. CASE k = j
    <3>1. counter'[k] = counter[k] + top /\ events'[k] = events[k] + bottom
      BY <1>1, <2>3 DEF Inv, Typed
    <3>2. /\ since'[k].top = since[k].top + top /\ since'[k].bottom = since[k].bottom + bottom
          /\ since'[k].restarted = since[k].restarted
      BY <1>2, <2>3
    <3>. QED  BY <1>1, <2>1, <2>2, <3>1, <3>2 DEF Balanced
  <2>4. CASE k # j
    <3>1. counter'[k] = counter[k] /\ events'[k] = events[k] /\ since'[k] = since[k]
      BY <1>1, <1>2, <2>4 DEF Inv, Typed
    <3>. QED  BY <1>1, <2>1, <3>1 DEF Balanced
  <2>. QED  BY <2>3, <2>4
<1>5. GaugeKeepsNothing'
  BY <1>1 DEF Inv, GaugeKeepsNothing
<1>. QED  BY <1>3, <1>4, <1>5 DEF Inv

\* A restart makes the epoch that was kept an old one.
LEMMA RestartKeepsInv ==
  ASSUME Inv, NEW j \in Keys, Restart(j)
  PROVE  Inv'
<1>. USE DEF folded
<1>1. /\ generation' = [generation EXCEPT ![j] = @ + 1]
      /\ counter' = [counter EXCEPT ![j] = 0] /\ events' = [events EXCEPT ![j] = 0]
      /\ since' = [since EXCEPT ![j].restarted = TRUE]
      /\ UNCHANGED <<metric, previous, samples>>
  BY DEF Restart
<1>2. /\ since'[j] = [top |-> since[j].top, bottom |-> since[j].bottom, restarted |-> TRUE]
      /\ \A k \in Keys \ {j} : since'[k] = since[k]
  BY <1>1 DEF Inv, Typed
<1>3. Typed'
  <2>1. generation' \in [Keys -> Nat] /\ counter' \in [Keys -> Nat] /\ events' \in [Keys -> Nat]
    BY <1>1 DEF Inv, Typed
  <2>2. since' \in [Keys -> [top : Nat, bottom : Nat, restarted : BOOLEAN]]
    <3>1. since'[j] \in [top : Nat, bottom : Nat, restarted : BOOLEAN]
      BY <1>2 DEF Inv, Typed
    <3>2. since' = [k \in Keys |-> since'[k]]
      BY <1>1 DEF Inv, Typed
    <3>. QED  BY <1>2, <3>1, <3>2 DEF Inv, Typed
  <2>. QED  BY <1>1, <2>1, <2>2 DEF Inv, Typed
<1>4. ASSUME NEW k \in Keys PROVE Balanced(k)'
  <2>1. Balanced(k)
    BY DEF Inv
  <2>2. CASE k = j
    <3>1. since'[k].restarted /\ generation'[k] = generation[k] + 1 /\ generation[k] \in Nat
      BY <1>1, <1>2, <2>2 DEF Inv, Typed
    <3>2. previous[k] # NoObservation => previous[k].epoch \in Nat
      BY DEF Inv, Typed
    <3>3. previous[k] # NoObservation /\ metric.epoch => previous[k].epoch <= generation[k]
      BY <2>1, <3>1, <3>2 DEF Balanced, Epoch, Inv, Typed
    <3>. QED  BY <1>1, <3>1, <3>2, <3>3 DEF Balanced
  <2>3. CASE k # j
    <3>1. /\ counter'[k] = counter[k] /\ events'[k] = events[k] /\ since'[k] = since[k]
          /\ generation'[k] = generation[k]
      BY <1>1, <1>2, <2>3 DEF Inv, Typed
    <3>. QED  BY <1>1, <2>1, <3>1 DEF Balanced, Epoch
  <2>. QED  BY <2>2, <2>3
<1>5. GaugeKeepsNothing'
  BY <1>1 DEF Inv, GaugeKeepsNothing
<1>. QED  BY <1>3, <1>4, <1>5 DEF Inv

\* The steps that add no sample leave the counters and the books alone.
LEMMA Steps ==
  ASSUME [Next]_vars
  PROVE  \/ \E j \in Keys : Grow(j) \/ Restart(j)
         \/ Sample
         \/ UNCHANGED <<metric, world, previous, samples, since>>
BY DEF Next, vars, folded, SampleFails, Assemble, BoundSeries, BoundHead, Finish

\* Every step keeps the books.
LEMMA Inductive == Inv /\ [Next]_vars => Inv'
<1>. SUFFICES ASSUME Inv, [Next]_vars PROVE Inv'
  OBVIOUS
<1>1. ASSUME UNCHANGED <<metric, world, previous, samples, since>> PROVE Inv'
  BY <1>1 DEF Inv, Typed, Balanced, Epoch, GaugeKeepsNothing, world
<1>. QED  BY <1>1, Steps, GrowKeepsInv, RestartKeepsInv, SampleKeepsInv

\* The point a sample adds to a counter series is the growth since the key was last
\* observed, through any number of samples that missed it, or a gap where the
\* growth is not known: after a restart that an epoch or a fallen counter shows.
THEOREM ExactPoints == Spec => PointsAreExact
<1>1. ASSUME Inv, [Next]_vars, samples' # samples, metric.transform # "gauge", NEW k \in Keys,
             samples'[Len(samples')][k] # Absent
      PROVE  IF \/ previous[k] = NoObservation
                \/ since[k].restarted /\ (\/ metric.epoch
                                          \/ counter[k] < previous[k].top
                                          \/ events[k] < previous[k].bottom)
                \/ metric.transform = "ratio_of_deltas" /\ ~since[k].restarted /\ since[k].bottom = 0
             THEN samples'[Len(samples')][k] = Gap
             ELSE ~since[k].restarted =>
                    /\ samples'[Len(samples')][k] # Gap
                    /\ samples'[Len(samples')][k].top = since[k].top
                    /\ metric.transform = "ratio_of_deltas" =>
                         samples'[Len(samples')][k].bottom = since[k].bottom
  <2>1. Sample
    BY <1>1, Steps DEF Grow, Restart, folded
  <2>2. PICK present, numbers \in SUBSET Keys :
          /\ metric.transform # "gauge" => numbers = present
          /\ samples' = Append(samples,
               [j \in Keys |-> IF j \in numbers THEN Value(j)
                               ELSE IF j \in present THEN Gap ELSE Absent])
    BY <1>1, <2>1, SampleFacts
  <2>3. samples'[Len(samples')][k] = IF k \in numbers THEN Value(k)
                                     ELSE IF k \in present THEN Gap ELSE Absent
    <3>. DEFINE S == [Keys -> {Absent, Gap} \cup Quotient]
    <3>1. samples \in Seq(S)
      BY <1>1 DEF Inv, Typed
    <3>2. \A s \in Seq(S) : \A e : Append(s, e)[Len(Append(s, e))] = e
      OBVIOUS
    <3>. QED  BY <2>2, <3>1, <3>2
  <2>4. samples'[Len(samples')][k] = Value(k)
    BY <1>1, <2>2, <2>3
  <2>. QED  BY <1>1, <2>4, ValueFacts
<1>2. Inv /\ [Next]_vars =>
        [samples' # samples /\ metric.transform # "gauge" =>
           LET latest == samples'[Len(samples')]
           IN \A k \in Keys : latest[k] # Absent =>
                IF \/ previous[k] = NoObservation
                   \/ since[k].restarted /\ (\/ metric.epoch
                                             \/ counter[k] < previous[k].top
                                             \/ events[k] < previous[k].bottom)
                   \/ metric.transform = "ratio_of_deltas" /\ ~since[k].restarted /\ since[k].bottom = 0
                THEN latest[k] = Gap
                ELSE ~since[k].restarted =>
                       /\ latest[k] # Gap
                       /\ latest[k].top = since[k].top
                       /\ metric.transform = "ratio_of_deltas" => latest[k].bottom = since[k].bottom]_vars
  BY <1>1
<1>. QED  BY <1>2, InitInv, Inductive, PTL DEF Spec, PointsAreExact

--------------------------------------------------------------------------------
(* The report of the window.                                                 *)

\* The keys with a value, as the loop that draws them builds them.
Draws(g) ==
  \A n \in 0..Len(order) :
    g[n] = IF n = 0 THEN <<>>
           ELSE IF HasValue(order[n]) THEN Append(g[n - 1], order[n]) ELSE g[n - 1]

\* Drawn is the end of a run of that loop.
LEMMA DrawingExists ==
  ASSUME order \in Seq(Keys)
  PROVE  \E g : Draws(g) /\ Drawn = g[Len(order)]
<1>. DEFINE L == Len(order)
            Step(g, n) == IF n = 0 THEN <<>>
                           ELSE IF HasValue(order[n]) THEN Append(g[n - 1], order[n]) ELSE g[n - 1]
            G == {n \in Nat : \E g : \A i \in 0..n : g[i] = Step(g, i)}
<1>1. L \in Nat
  OBVIOUS
<1>. HIDE DEF L
<1>2. 0 \in G
  <2>. DEFINE g == [i \in {0} |-> <<>>]
  <2>1. \A i \in 0..0 : g[i] = Step(g, i)
    OBVIOUS
  <2>. HIDE DEF g, Step
  <2>. QED  BY <2>1
<1>3. ASSUME NEW n \in Nat, n \in G PROVE n + 1 \in G
  <2>1. PICK g : \A i \in 0..n : g[i] = Step(g, i)
    BY <1>3
  <2>. DEFINE h == [i \in 0..(n + 1) |-> Step(g, i)]
  <2>2. \A i \in 0..n : h[i] = g[i]
    <3>. HIDE DEF Step
    <3>. QED  BY <2>1
  <2>3. ASSUME NEW i \in 0..(n + 1) PROVE h[i] = Step(h, i)
    <3>1. h[i] = Step(g, i)
      OBVIOUS
    <3>2. i # 0 => h[i - 1] = g[i - 1]
      <4>1. i # 0 => i - 1 \in 0..n
        OBVIOUS
      <4>. HIDE DEF h
      <4>. QED  BY <2>2, <4>1
    <3>. HIDE DEF h
    <3>. QED  BY <3>1, <3>2
  <2>. HIDE DEF h, Step
  <2>. QED  BY <2>3
<1>4. L \in G
  <2>. HIDE DEF G
  <2>. QED  BY <1>1, <1>2, <1>3, NatSetInduction
<1>5. PICK g : \A i \in 0..L : g[i] = Step(g, i)
  BY <1>4
<1>. DEFINE Solves(f) == f = [n \in 0..L |-> Step(f, n)]
            h == [n \in 0..L |-> g[n]]
<1>6. Solves(h)
  <2>1. ASSUME NEW n \in 0..L PROVE Step(h, n) = g[n]
    <3>1. n # 0 => n - 1 \in 0..L
      BY <1>1
    <3>. QED  BY <1>5, <3>1
  <2>. HIDE DEF Step
  <2>. QED  BY <2>1
<1>. DEFINE c == CHOOSE f : Solves(f)
<1>7. Solves(c)
  <2>. HIDE DEF Solves, h
  <2>. QED  BY <1>6
<1>8. Draws(c)
  <2>. HIDE DEF c
  <2>. QED  BY <1>7 DEF Draws, L
<1>9. Drawn = c[L]
  BY DEF Drawn, L
<1>. QED  BY <1>8, <1>9 DEF L

\* Exactly the keys with a value are drawn.
LEMMA DrawnFacts ==
  ASSUME order \in Seq(Keys)
  PROVE  /\ Drawn \in Seq(Keys)
         /\ \A n \in DOMAIN Drawn : HasValue(Drawn[n])
         /\ \A m \in DOMAIN order : HasValue(order[m]) =>
              \E n \in DOMAIN Drawn : Drawn[n] = order[m]
<1>1. PICK g : Draws(g) /\ Drawn = g[Len(order)]
  BY DrawingExists
<1>. DEFINE Good(n) == /\ g[n] \in Seq(Keys)
                       /\ \A i \in DOMAIN g[n] : HasValue(g[n][i])
                       /\ \A m \in 1..n : HasValue(order[m]) =>
                            \E i \in DOMAIN g[n] : g[n][i] = order[m]
            G == {n \in Nat : n <= Len(order) => Good(n)}
<1>2. 0 \in G
  <2>1. g[0] = <<>>
    BY <1>1 DEF Draws
  <2>2. Good(0)
    BY <2>1
  <2>. QED  BY <2>2
<1>3. ASSUME NEW n \in Nat, n \in G PROVE n + 1 \in G
  <2>. SUFFICES ASSUME n + 1 <= Len(order) PROVE Good(n + 1)
    OBVIOUS
  <2>1. Good(n) /\ order[n + 1] \in Keys /\ n + 1 \in 0..Len(order) /\ n + 1 # 0 /\ n + 1 - 1 = n
    BY <1>3
  <2>2. g[n + 1] = IF HasValue(order[n + 1]) THEN Append(g[n], order[n + 1]) ELSE g[n]
    BY <1>1, <2>1 DEF Draws
  <2>3. CASE HasValue(order[n + 1])
    <3>1. /\ g[n + 1] \in Seq(Keys)
          /\ DOMAIN g[n + 1] = 1..(Len(g[n]) + 1) /\ DOMAIN g[n] = 1..Len(g[n]) /\ Len(g[n]) \in Nat
          /\ \A i \in 1..Len(g[n]) : g[n + 1][i] = g[n][i]
          /\ g[n + 1][Len(g[n]) + 1] = order[n + 1]
      BY <2>1, <2>2, <2>3
    <3>2. ASSUME NEW i \in DOMAIN g[n + 1] PROVE HasValue(g[n + 1][i])
      <4>1. i \in 1..Len(g[n]) \/ i = Len(g[n]) + 1
        BY <3>1
      <4>. QED  BY <2>1, <2>3, <3>1, <4>1
    <3>3. ASSUME NEW m \in 1..(n + 1), HasValue(order[m])
          PROVE  \E i \in DOMAIN g[n + 1] : g[n + 1][i] = order[m]
      <4>1. CASE m = n + 1
        <5>1. Len(g[n]) + 1 \in DOMAIN g[n + 1]
          BY <3>1
        <5>. QED  BY <3>1, <4>1, <5>1
      <4>2. CASE m # n + 1
        <5>1. m \in 1..n
          BY <4>2
        <5>2. PICK i \in DOMAIN g[n] : g[n][i] = order[m]
          BY <2>1, <3>3, <5>1
        <5>3. i \in DOMAIN g[n + 1] /\ g[n + 1][i] = g[n][i]
          BY <3>1
        <5>. QED  BY <5>2, <5>3
      <4>. QED  BY <4>1, <4>2
    <3>. QED  BY <3>1, <3>2, <3>3
  <2>4. CASE ~HasValue(order[n + 1])
    <3>1. \A m \in 1..(n + 1) : HasValue(order[m]) => m \in 1..n
      BY <2>4
    <3>. QED  BY <2>1, <2>2, <2>4, <3>1
  <2>. QED  BY <2>3, <2>4
<1>4. Len(order) \in G
  <2>. HIDE DEF G
  <2>. QED  BY <1>2, <1>3, NatSetInduction
<1>5. Good(Len(order))
  BY <1>4
<1>. QED  BY <1>1, <1>5

\* The values of the samples, in order.
SampleSeq == Seq([Keys -> {Absent, Gap} \cup Quotient])

\* A series has one point per sample.
LEMMA PointsFacts ==
  ASSUME samples \in SampleSeq, NEW k \in Keys
  PROVE  /\ Points(k) \in Seq({Gap} \cup Quotient)
         /\ Len(Points(k)) = Len(samples)
         /\ \A i \in DOMAIN samples :
              Points(k)[i] = IF samples[i][k] = Absent THEN Gap ELSE samples[i][k]
<1>1. /\ DOMAIN samples = 1..Len(samples) /\ Len(samples) \in Nat
      /\ \A i \in DOMAIN samples : samples[i][k] \in {Absent, Gap} \cup Quotient
  BY DEF SampleSeq
<1>2. Points(k) \in [1..Len(samples) -> {Gap} \cup Quotient]
  BY <1>1 DEF Points
<1>. QED  BY <1>1, <1>2 DEF Points

\* Every series has all the points and one of them is a value, and every key with a
\* value has a series.
LEMMA ResultFacts ==
  ASSUME order \in Seq(Keys), samples \in SampleSeq
  PROVE  /\ ResultSeries \in Seq(Series)
         /\ \A n \in DOMAIN ResultSeries :
              /\ ResultSeries[n].key \in Keys
              /\ ResultSeries[n].points = Points(ResultSeries[n].key)
              /\ ResultSeries[n].points \in Seq({Gap} \cup Quotient)
              /\ Len(ResultSeries[n].points) = Len(samples)
              /\ \E i \in DOMAIN samples : ResultSeries[n].points[i] # Gap
         /\ \A k \in ToSet(order) : HasValue(k) =>
              \E n \in DOMAIN ResultSeries : ResultSeries[n].key = k
<1>1. /\ Drawn \in Seq(Keys) /\ Len(Drawn) \in Nat /\ DOMAIN Drawn = 1..Len(Drawn)
      /\ \A n \in DOMAIN Drawn : Drawn[n] \in Keys /\ HasValue(Drawn[n])
      /\ \A m \in DOMAIN order : HasValue(order[m]) =>
           \E n \in DOMAIN Drawn : Drawn[n] = order[m]
  BY DrawnFacts
<1>2. \A n \in DOMAIN Drawn : /\ ResultSeries[n].key = Drawn[n]
                              /\ ResultSeries[n].points = Points(Drawn[n])
  BY DEF ResultSeries
<1>3. DOMAIN ResultSeries = DOMAIN Drawn
  BY DEF ResultSeries
<1>4. ResultSeries \in [1..Len(Drawn) -> Series]
  BY <1>1, PointsFacts DEF ResultSeries, Series
<1>5. ResultSeries \in Seq(Series)
  BY <1>1, <1>4
<1>6. ASSUME NEW n \in DOMAIN ResultSeries
      PROVE  \E i \in DOMAIN samples : ResultSeries[n].points[i] # Gap
  BY <1>1, <1>2, <1>3 DEF HasValue
<1>7. ASSUME NEW k \in ToSet(order), HasValue(k)
      PROVE  \E n \in DOMAIN ResultSeries : ResultSeries[n].key = k
  BY <1>1, <1>2, <1>3, <1>7 DEF ToSet
<1>. QED  BY <1>1, <1>2, <1>3, <1>5, <1>6, <1>7, PointsFacts

\* The first entries of a list.
LEMMA LeadingFacts ==
  ASSUME NEW S, NEW s \in Seq(S), NEW n \in Nat \ {0}
  PROVE  /\ Leading(s, n) \in Seq(S)
         /\ Len(Leading(s, n)) = IF Len(s) <= n THEN Len(s) ELSE n
         /\ \A i \in DOMAIN Leading(s, n) : i \in DOMAIN s /\ Leading(s, n)[i] = s[i]
<1>1. CASE Len(s) <= n
  BY <1>1 DEF Leading
<1>2. CASE ~(Len(s) <= n)
  BY <1>2 DEF Leading
<1>. QED  BY <1>1, <1>2

\* The last entries of a list.
LEMMA NewestFacts ==
  ASSUME NEW S, NEW s \in Seq(S), NEW n \in Nat \ {0}
  PROVE  /\ Newest(s, n) \in Seq(S)
         /\ Len(Newest(s, n)) = IF Len(s) <= n THEN Len(s) ELSE n
         /\ \A i \in 1..Len(Newest(s, n)) :
              Newest(s, n)[i] = s[Len(s) - Len(Newest(s, n)) + i]
<1>1. CASE Len(s) <= n
  BY <1>1 DEF Newest
<1>2. CASE ~(Len(s) <= n)
  <2>1. Newest(s, n) = SubSeq(s, Len(s) - n + 1, Len(s))
    BY <1>2 DEF Newest
  <2>2. Len(s) \in Nat /\ Len(s) - n + 1 \in 1..(Len(s) + 1)
    BY <1>2
  <2>3. Newest(s, n) \in Seq(S) /\ Len(Newest(s, n)) = n
    BY <2>1, <2>2
  <2>4. ASSUME NEW i \in 1..n PROVE Newest(s, n)[i] = s[Len(s) - n + i]
    BY <2>1, <2>2
  <2>. QED  BY <1>2, <2>3, <2>4
<1>. QED  BY <1>1, <1>2

\* s is the end of t, by its indices.
EndsWith(t, s) ==
  Len(s) <= Len(t) /\ \A i \in 1..Len(s) : s[i] = t[Len(t) - Len(s) + i]

\* The end of a list by its indices is a suffix.
LEMMA SuffixFacts ==
  ASSUME NEW S, NEW s \in Seq(S), NEW t \in Seq(S), EndsWith(t, s)
  PROVE  /\ IsSuffix(s, t)
         /\ Len(s) = Len(t) => s = t
<1>1. /\ Len(s) \in Nat /\ Len(t) \in Nat /\ Len(s) <= Len(t)
      /\ \A i \in 1..Len(s) : s[i] = t[Len(t) - Len(s) + i]
  BY DEF EndsWith
<1>2. /\ Reverse(s) \in Seq(S) /\ Len(Reverse(s)) = Len(s)
      /\ Reverse(t) \in Seq(S) /\ Len(Reverse(t)) = Len(t)
      /\ \A i \in 1..Len(s) : Reverse(s)[i] = s[(Len(s) - i) + 1]
      /\ \A i \in 1..Len(t) : Reverse(t)[i] = t[(Len(t) - i) + 1]
  BY DEF Reverse
<1>3. ASSUME NEW i \in 1..Len(s) PROVE Reverse(s)[i] = Reverse(t)[i]
  <2>1. (Len(s) - i) + 1 \in 1..Len(s) /\ i \in 1..Len(t)
        /\ Len(t) - Len(s) + ((Len(s) - i) + 1) = (Len(t) - i) + 1
    BY <1>1
  <2>. QED  BY <1>1, <1>2, <2>1
<1>4. /\ SubSeq(Reverse(s), 1, Len(s)) = [i \in 1..Len(s) |-> Reverse(s)[i]]
      /\ SubSeq(Reverse(t), 1, Len(s)) = [i \in 1..Len(s) |-> Reverse(t)[i]]
  BY <1>1, <1>2
<1>5. IsSuffix(s, t)
  BY <1>1, <1>2, <1>3, <1>4 DEF IsSuffix, IsPrefix
<1>6. ASSUME Len(s) = Len(t) PROVE s = t
  <2>1. \A i \in 1..Len(s) : s[i] = t[i]
    BY <1>1, <1>6
  <2>. QED  BY <1>6, <2>1
<1>. QED  BY <1>5, <1>6

\* The points of a chart, one series after the other.
LEMMA CountFacts ==
  ASSUME NEW s \in Seq(Series)
  PROVE  /\ PointCount(<<>>) = 0
         /\ PointCount(s) \in Nat
         /\ \A e \in Series : PointCount(Append(s, e)) = PointCount(s) + Len(e.points)
<1>. DEFINE lengths(t) == [n \in DOMAIN t |-> Len(t[n].points)]
<1>1. \A t \in Seq(Series) : /\ IsFiniteSet(DOMAIN t) /\ DOMAIN lengths(t) = DOMAIN t
                             /\ \A n \in DOMAIN t : lengths(t)[n] \in Nat
  <2>. SUFFICES ASSUME NEW t \in Seq(Series)
                PROVE  /\ IsFiniteSet(DOMAIN t) /\ DOMAIN lengths(t) = DOMAIN t
                       /\ \A n \in DOMAIN t : lengths(t)[n] \in Nat
    OBVIOUS
  <2>1. DOMAIN t = 1..Len(t) /\ Len(t) \in Int /\ 1 \in Int
    OBVIOUS
  <2>2. IsFiniteSet(DOMAIN t)
    BY <2>1, FS_Interval
  <2>3. \A n \in DOMAIN t : Len(t[n].points) \in Nat
    BY DEF Series
  <2>. QED  BY <2>2, <2>3
<1>2. \A t : PointCount(t) = SumFunctionOnSet(lengths(t), DOMAIN t)
  BY DEF PointCount, SumFunction
<1>3. PointCount(s) \in Nat
  <2>. HIDE DEF lengths
  <2>. QED  BY <1>1, <1>2, SumIsNatural
<1>4. PointCount(<<>>) = 0
  <2>1. <<>> \in Seq(Series) /\ DOMAIN <<>> = {}
    OBVIOUS
  <2>. HIDE DEF lengths
  <2>. QED  BY <1>1, <1>2, <2>1, SumRecursion
<1>5. ASSUME NEW e \in Series PROVE PointCount(Append(s, e)) = PointCount(s) + Len(e.points)
  <2>. DEFINE t == Append(s, e)
              N == Len(s) + 1
  <2>1. /\ t \in Seq(Series) /\ DOMAIN t = 1..N /\ DOMAIN s = 1..Len(s) /\ Len(s) \in Nat
        /\ t[N] = e /\ \A i \in DOMAIN s : t[i] = s[i]
    OBVIOUS
  <2>. HIDE DEF t
  <2>2. N \in DOMAIN t /\ DOMAIN t \ {N} = DOMAIN s
    BY <2>1
  <2>3. \A i \in DOMAIN s : lengths(t)[i] = lengths(s)[i]
    BY <2>1, <2>2
  <2>4. lengths(t)[N] = Len(e.points)
    BY <2>1, <2>2
  <2>. DEFINE f == lengths(t)
              g == lengths(s)
  <2>5. /\ IsFiniteSet(DOMAIN t) /\ IsFiniteSet(DOMAIN s)
        /\ \A i \in DOMAIN t : f[i] \in Nat
    BY <1>1, <2>1
  <2>6. PointCount(t) = SumFunctionOnSet(f, DOMAIN t) /\ PointCount(s) = SumFunctionOnSet(g, DOMAIN s)
    BY <1>2
  <2>. HIDE DEF f, g, N
  <2>7. SumFunctionOnSet(f, DOMAIN t) = f[N] + SumFunctionOnSet(f, DOMAIN t \ {N})
    BY <2>2, <2>5, SumSplits
  <2>8. SumFunctionOnSet(f, DOMAIN s) = SumFunctionOnSet(g, DOMAIN s)
    BY <2>3, <2>5, SumOfEqual DEF f, g
  <2>9. f[N] = Len(e.points) /\ Len(e.points) \in Nat
    BY <2>4 DEF f, Series
  <2>10. PointCount(t) = PointCount(s) + Len(e.points)
    BY <1>3, <2>2, <2>6, <2>7, <2>8, <2>9
  <2>. QED  BY <2>10 DEF t
<1>. QED  BY <1>3, <1>4, <1>5

\* The keys are listed in the order of their first row, each once.
FirstSeen ==
  /\ order \in Seq(Keys)
  /\ \A m, n \in DOMAIN order : order[m] = order[n] => m = n
  /\ ToSet(order) = AllKeys

\* The series that budget.series leaves.
Retained == Leading(ResultSeries, budget.series)

\* A chart fills from the retained series: what is shown, what is left to do and what
\* remains of the budget add up.
ChartFills ==
  stage # "sampling" /\ metric.kind = "chart" =>
    /\ budget \in Budgets
    /\ Len(shown) + Len(todo) = Len(Retained)
    /\ \A n \in DOMAIN todo : todo[n] = Retained[Len(shown) + n]
    /\ PointCount(shown) + remaining = budget.total
    /\ \A n \in DOMAIN shown :
         /\ Len(shown[n].points) \in 1..budget.points
         /\ shown[n].key = Retained[n].key
         /\ EndsWith(Retained[n].points, shown[n].points)

\* The stages of the report.
Staged ==
  /\ metric.kind = "chart" => rows = {}
  /\ metric.kind = "table" => shown = <<>> /\ todo = <<>> /\ budget = NoBudget
  /\ stage = "sampling" => shown = <<>> /\ rows = {} /\ budget = NoBudget
  /\ stage # "sampling" /\ metric.kind = "table" => rows = TableRows
  /\ stage = "assembled" => status = Status /\ (remaining = 0 \/ todo = <<>>)

\* The inductive invariant of the report.
IInv == TypeOK /\ Inv /\ FirstSeen /\ ChartFills /\ Staged

\* There is no report at first.
LEMMA InitIInv == Init => IInv
<1>. SUFFICES ASSUME Init PROVE IInv
  OBVIOUS
<1>1. Inv
  BY InitInv
<1>2. TypeOK
  BY <1>1 DEF Init, TypeOK, Inv, Typed
<1>3. FirstSeen
  BY DEF Init, FirstSeen, ToSet, AllKeys
<1>4. ChartFills /\ Staged
  BY DEF Init, ChartFills, Staged
<1>. QED  BY <1>1, <1>2, <1>3, <1>4 DEF IInv

\* Nothing of the report changes while the samples come in.
LEMMA SamplingKeepsReport ==
  ASSUME IInv, stage = "sampling", UNCHANGED <<metric, budget, report>>
  PROVE  ChartFills' /\ Staged'
BY DEF IInv, ChartFills, Staged, report

\* Work of the servers leaves report and samples alone.
LEMMA GrowKeepsIInv ==
  ASSUME IInv, NEW k \in Keys, Grow(k) \/ Restart(k)
  PROVE  IInv'
<1>1. Inv'
  BY GrowKeepsInv, RestartKeepsInv DEF IInv
<1>2. stage = "sampling" /\ UNCHANGED <<metric, budget, folded, report>>
  BY DEF Grow, Restart
<1>3. TypeOK'
  BY <1>1, <1>2 DEF IInv, Inv, Typed, TypeOK, folded, report
<1>4. FirstSeen'
  BY <1>2 DEF IInv, FirstSeen, ToSet, AllKeys, Active, folded
<1>. QED  BY <1>1, <1>2, <1>3, <1>4, SamplingKeepsReport DEF IInv

\* A source that fails leaves samples and report alone.
LEMMA SampleFailsKeepsIInv ==
  ASSUME IInv, NEW code \in {"failed", "unsupported", "busy"}, SampleFails(code)
  PROVE  IInv'
<1>1. /\ stage = "sampling"
      /\ UNCHANGED <<metric, budget, world, previous, samples, order, report, since>>
      /\ errors' = errors \cup {code} /\ points' = points + 1
  BY DEF SampleFails
<1>2. Inv'
  BY <1>1, Inductive DEF IInv, Next
<1>3. TypeOK'
  BY <1>1, <1>2 DEF IInv, Inv, Typed, TypeOK, report
<1>4. FirstSeen'
  BY <1>1 DEF IInv, FirstSeen, ToSet, AllKeys, Active
<1>. QED  BY <1>1, <1>2, <1>3, <1>4, SamplingKeepsReport DEF IInv

\* Any order of the new keys lists each of them once.
LEMMA ListFacts ==
  ASSUME NEW S, IsFiniteSet(S), NEW s \in SetToSeqs(S)
  PROVE  /\ s \in Seq(S)
         /\ \A i, j \in DOMAIN s : s[i] = s[j] => i = j
         /\ ToSet(s) = S
<1>. DEFINE N == Cardinality(S)
<1>1. N \in Nat /\ IsFiniteSet(1..N) /\ Cardinality(1..N) = N
  BY FS_CardinalityType, FS_Interval
<1>2. s \in [1..N -> S] /\ \A i, j \in 1..N : i # j => s[i] # s[j]
  BY DEF SetToSeqs
<1>. HIDE DEF N
<1>3. s \in Injection(1..N, S)
  BY <1>2 DEF Injection, IsInjective
<1>4. s \in Surjection(1..N, S)
  BY <1>1, <1>3, FS_Injection DEF N
<1>5. ToSet(s) = S
  BY <1>2, <1>4 DEF Surjection, ToSet
<1>. QED  BY <1>1, <1>2, <1>5

\* A key is listed with the first sample that shows it.
LEMMA SampleKeepsFirstSeen ==
  ASSUME IInv, Sample
  PROVE  FirstSeen'
<1>0. /\ \A k \in Keys : Value(k) \in {Gap} \cup Quotient
      /\ samples \in Seq([Keys -> {Absent, Gap} \cup Quotient])
      /\ FirstSeen
  BY ValueFacts DEF IInv, Inv, Typed
<1>1. PICK present \in SUBSET Keys, numbers \in SUBSET Keys :
        /\ numbers \subseteq present
        /\ \E first \in SetToSeqs(present \ ToSet(order)) : order' = order \o first
        /\ samples' = Append(samples,
             [k \in Keys |-> IF k \in numbers THEN Value(k)
                             ELSE IF k \in present THEN Gap ELSE Absent])
  BY DEF Sample
<1>1a. PICK first \in SetToSeqs(present \ ToSet(order)) : order' = order \o first
  BY <1>1
<1>. DEFINE new == present \ ToSet(order)
            N == Len(samples) + 1
<1>2. IsFiniteSet(new)
  BY FS_Subset, SeriesAssumption
<1>3. /\ first \in Seq(new) /\ \A i, j \in DOMAIN first : first[i] = first[j] => i = j
      /\ ToSet(first) = new
  BY <1>2, ListFacts
<1>4. /\ order \in Seq(Keys) /\ first \in Seq(Keys) /\ order' \in Seq(Keys)
      /\ Len(order) \in Nat /\ Len(first) \in Nat
      /\ DOMAIN order = 1..Len(order) /\ DOMAIN first = 1..Len(first)
      /\ DOMAIN order' = 1..(Len(order) + Len(first))
      /\ \A i \in DOMAIN order' :
           order'[i] = IF i <= Len(order) THEN order[i] ELSE first[i - Len(order)]
  <2>1. \A s, t \in Seq(Keys) : s \o t \in Seq(Keys)
    OBVIOUS
  <2>2. first \in Seq(Keys)
    BY <1>3
  <2>3. order \in Seq(Keys) /\ order' = order \o first /\ order' \in Seq(Keys)
    BY <1>0, <1>1a, <2>1, <2>2 DEF FirstSeen
  <2>4. \A s, t \in Seq(Keys) :
          /\ DOMAIN (s \o t) = 1..(Len(s) + Len(t))
          /\ \A i \in 1..(Len(s) + Len(t)) :
               (s \o t)[i] = IF i <= Len(s) THEN s[i] ELSE t[i - Len(s)]
    OBVIOUS
  <2>. QED  BY <2>2, <2>3, <2>4
<1>5. ASSUME NEW m \in DOMAIN order', NEW n \in DOMAIN order', order'[m] = order'[n]
      PROVE  m = n
  <2>1. \A i \in DOMAIN order : order[i] \in ToSet(order)
    BY DEF ToSet
  <2>2. \A i \in DOMAIN first : first[i] \notin ToSet(order)
    BY <1>3
  <2>3. \A i \in DOMAIN order' : /\ i <= Len(order) => i \in DOMAIN order
                                 /\ ~(i <= Len(order)) => i - Len(order) \in DOMAIN first
    BY <1>4
  <2>4. CASE m <= Len(order) /\ n <= Len(order)
    BY <1>0, <1>4, <1>5, <2>3, <2>4 DEF FirstSeen
  <2>5. CASE ~(m <= Len(order)) /\ ~(n <= Len(order))
    <3>1. m - Len(order) = n - Len(order)
      BY <1>3, <1>4, <1>5, <2>3, <2>5
    <3>. QED  BY <1>4, <3>1
  <2>6. CASE m <= Len(order) /\ ~(n <= Len(order))
    BY <1>4, <1>5, <2>1, <2>2, <2>3, <2>6
  <2>7. CASE ~(m <= Len(order)) /\ n <= Len(order)
    BY <1>4, <1>5, <2>1, <2>2, <2>3, <2>7
  <2>. QED  BY <2>4, <2>5, <2>6, <2>7
<1>6. ToSet(order') = ToSet(order) \cup present
  <2>1. ToSet(order') \subseteq ToSet(order) \cup ToSet(first)
    <3>1. \A i \in DOMAIN order' : /\ i <= Len(order) => i \in DOMAIN order
                                   /\ ~(i <= Len(order)) => i - Len(order) \in DOMAIN first
      BY <1>4
    <3>. QED  BY <1>4, <3>1 DEF ToSet
  <2>2. ToSet(order) \subseteq ToSet(order')
    <3>1. \A i \in DOMAIN order : i \in DOMAIN order' /\ order'[i] = order[i]
      BY <1>4
    <3>. QED  BY <3>1 DEF ToSet
  <2>3. ToSet(first) \subseteq ToSet(order')
    <3>1. \A i \in DOMAIN first : /\ Len(order) + i \in DOMAIN order'
                                  /\ order'[Len(order) + i] = first[i]
      BY <1>4
    <3>. QED  BY <3>1 DEF ToSet
  <2>. QED  BY <1>3, <2>1, <2>2, <2>3
<1>7. /\ DOMAIN samples' = (DOMAIN samples) \cup {N} /\ N \notin DOMAIN samples
      /\ \A i \in DOMAIN samples : samples'[i] = samples[i]
      /\ \A k \in Keys : samples'[N][k] # Absent <=> k \in present
  <2>1. \A k \in Keys : Value(k) # Absent /\ Gap # Absent
    BY <1>0, SeriesAssumption
  <2>2. Len(samples) \in Nat /\ DOMAIN samples = 1..Len(samples)
    BY <1>0
  <2>. DEFINE S == [Keys -> {Absent, Gap} \cup Quotient]
              latest == [k \in Keys |-> IF k \in numbers THEN Value(k)
                                       ELSE IF k \in present THEN Gap ELSE Absent]
  <2>3. latest \in S /\ samples \in Seq(S) /\ samples' = Append(samples, latest)
    BY <1>0, <1>1
  <2>4. \A k \in Keys : latest[k] # Absent <=> k \in present
    BY <1>1, <2>1
  <2>. HIDE DEF S, latest
  <2>5. /\ DOMAIN samples' = 1..N /\ \A i \in 1..Len(samples) : samples'[i] = samples[i]
        /\ samples'[N] = latest
    BY <2>3
  <2>. QED  BY <2>2, <2>4, <2>5
<1>8. AllKeys' = AllKeys \cup present
  <2>. HIDE DEF N
  <2>1. \A k \in Keys : k \in AllKeys' <=> \E i \in DOMAIN samples' : samples'[i][k] # Absent
    BY DEF AllKeys, Active
  <2>2. \A k \in Keys : k \in AllKeys <=> \E i \in DOMAIN samples : samples[i][k] # Absent
    BY DEF AllKeys, Active
  <2>3. AllKeys \subseteq Keys /\ AllKeys' \subseteq Keys
    BY DEF AllKeys, Active
  <2>. QED  BY <1>7, <2>1, <2>2, <2>3
<1>. QED  BY <1>0, <1>4, <1>5, <1>6, <1>8 DEF FirstSeen

\* A sample is taken before there is a report.
LEMMA SampleKeepsIInv ==
  ASSUME IInv, Sample
  PROVE  IInv'
<1>1. Inv' /\ FirstSeen'
  BY SampleKeepsInv, SampleKeepsFirstSeen DEF IInv
<1>2. /\ stage = "sampling" /\ points' = points + 1
      /\ UNCHANGED <<metric, budget, world, errors, report>>
  BY DEF Sample
<1>3. TypeOK'
  BY <1>1, <1>2 DEF IInv, Inv, Typed, TypeOK, FirstSeen, report
<1>. QED  BY <1>1, <1>2, <1>3, SamplingKeepsReport DEF IInv

\* The result of the window does not change with the report.
LEMMA ResultStays ==
  ASSUME UNCHANGED <<metric, samples, order>>
  PROVE  /\ ResultSeries' = ResultSeries /\ TableRows' = TableRows
         /\ AllKeys' = AllKeys /\ ToSet(order)' = ToSet(order)
<1>1. Drawn' = Drawn
  BY DEF Drawn, HasValue, Points
<1>2. \A k : Points(k)' = Points(k)
  BY DEF Points
<1>3. ResultSeries' = ResultSeries
  BY <1>1, <1>2 DEF ResultSeries
<1>4. TableRows' = TableRows
  BY DEF TableRows, Groups, NonZero, Before, Sum, Numbers, ToSet
<1>5. AllKeys' = AllKeys
  BY DEF AllKeys, Active
<1>. QED  BY <1>3, <1>4, <1>5

\* The retained series are the first of the result and have all its points.
LEMMA RetainedFacts ==
  ASSUME IInv, budget \in Budgets
  PROVE  /\ Retained \in Seq(Series)
         /\ Len(Retained) = IF Len(ResultSeries) <= budget.series THEN Len(ResultSeries)
                            ELSE budget.series
         /\ \A n \in DOMAIN Retained :
              /\ n \in DOMAIN ResultSeries /\ Retained[n] = ResultSeries[n]
              /\ Retained[n].key \in Keys
              /\ Retained[n].points \in Seq({Gap} \cup Quotient)
              /\ Len(Retained[n].points) \in Nat \ {0}
<1>1. budget.series \in Nat \ {0}
  BY SeriesAssumption DEF Budget
<1>2. /\ ResultSeries \in Seq(Series) /\ samples \in SampleSeq
      /\ \A n \in DOMAIN ResultSeries :
           /\ ResultSeries[n].key \in Keys
           /\ ResultSeries[n].points \in Seq({Gap} \cup Quotient)
           /\ Len(ResultSeries[n].points) = Len(samples)
           /\ \E i \in DOMAIN samples : ResultSeries[n].points[i] # Gap
  <2>1. order \in Seq(Keys) /\ samples \in SampleSeq
    BY DEF IInv, FirstSeen, TypeOK, SampleSeq
  <2>. QED  BY <2>1, ResultFacts
<1>3. /\ Retained \in Seq(Series)
      /\ Len(Retained) = IF Len(ResultSeries) <= budget.series THEN Len(ResultSeries)
                         ELSE budget.series
      /\ \A n \in DOMAIN Retained : n \in DOMAIN ResultSeries /\ Retained[n] = ResultSeries[n]
  BY <1>1, <1>2, LeadingFacts DEF Retained
<1>4. \A n \in DOMAIN ResultSeries : Len(samples) \in Nat \ {0}
  BY <1>2 DEF SampleSeq
<1>. QED  BY <1>2, <1>3, <1>4

\* The report is assembled with every series and point.
LEMMA AssembleKeepsIInv ==
  ASSUME IInv, Assemble
  PROVE  IInv'
<1>0. Inv'
  BY Inductive DEF IInv, Next
<1>1. /\ stage = "sampling" /\ stage' = "bounding"
      /\ UNCHANGED <<metric, world, folded, shown, status, since>>
      /\ shown = <<>> /\ rows = {} /\ budget = NoBudget
      /\ metric.kind \in {"chart", "table"}
  BY MetricFields DEF Assemble, IInv, Staged, Inv, Typed
<1>2. ResultSeries' = ResultSeries /\ TableRows' = TableRows /\ FirstSeen'
  BY <1>1, ResultStays DEF folded, IInv, FirstSeen
<1>3. order \in Seq(Keys) /\ samples \in SampleSeq
  BY DEF IInv, FirstSeen, TypeOK, SampleSeq
<1>4. CASE metric.kind = "chart"
  <2>1. /\ budget' \in Budgets /\ rows' = {}
        /\ todo' = Leading(ResultSeries, budget'.series) /\ remaining' = budget'.total
    BY <1>1, <1>4 DEF Assemble
  <2>2. budget'.series \in Nat \ {0} /\ budget'.total \in Nat
    BY <2>1, SeriesAssumption DEF Budget
  <2>3. todo' \in Seq(Series) /\ todo' = Retained'
    BY <1>2, <1>3, <2>1, <2>2, ResultFacts, LeadingFacts DEF Retained
  <2>4. PointCount(<<>>) = 0
    <3>1. <<>> \in Seq(Series)
      OBVIOUS
    <3>. QED  BY <3>1, CountFacts
  <2>5. TypeOK'
    BY <1>0, <1>1, <2>1, <2>2, <2>3 DEF IInv, Inv, Typed, TypeOK, folded
  <2>6. ChartFills'
    <3>1. shown' = <<>> /\ Len(<<>>) = 0 /\ DOMAIN <<>> = {} /\ Len(todo') \in Nat
      BY <1>1, <2>3
    <3>2. \A n \in DOMAIN todo' : todo'[n] = Retained'[0 + n]
      BY <2>3
    <3>3. PointCount(shown') + remaining' = budget'.total
      BY <1>1, <2>1, <2>2, <2>4
    <3>. QED  BY <2>1, <2>3, <3>1, <3>2, <3>3 DEF ChartFills
  <2>7. Staged'
    BY <1>1, <1>4, <2>1 DEF Staged
  <2>. QED  BY <1>0, <1>2, <2>5, <2>6, <2>7 DEF IInv
<1>5. CASE metric.kind = "table"
  <2>1. rows' = TableRows /\ UNCHANGED <<budget, todo, remaining>>
    BY <1>1, <1>5 DEF Assemble
  <2>2. TableRows \subseteq Keys
    BY <1>3 DEF TableRows, Groups, ToSet
  <2>3. TypeOK'
    BY <1>0, <1>1, <2>1, <2>2 DEF IInv, Inv, Typed, TypeOK, folded
  <2>4. ChartFills' /\ Staged'
    BY <1>1, <1>2, <1>5, <2>1 DEF IInv, Staged, ChartFills
  <2>. QED  BY <1>0, <1>2, <2>3, <2>4 DEF IInv
<1>. QED  BY <1>1, <1>4, <1>5

\* A series takes its newest points, as many as its own bound and the rest allow.
LEMMA BoundSeriesKeepsIInv ==
  ASSUME IInv, BoundSeries
  PROVE  IInv'
<1>. DEFINE kept == Newest(Newest(Head(todo).points, budget.points), remaining)
            N == Len(shown) + 1
            series == [key |-> Head(todo).key, points |-> kept]
<1>0. Inv'
  BY Inductive DEF IInv, Next
<1>1. /\ stage = "bounding" /\ todo # <<>> /\ remaining > 0
      /\ todo' = Tail(todo) /\ remaining' = remaining - Len(kept)
      /\ shown' = Append(shown, series)
      /\ UNCHANGED <<metric, budget, world, folded, stage, rows, status, since>>
  BY DEF BoundSeries, BoundHead
<1>2. /\ metric.kind = "chart" /\ rows = {} /\ TypeOK
  BY <1>1, MetricFields DEF IInv, Staged, Inv, Typed
<1>3. /\ budget \in Budgets
      /\ Len(shown) + Len(todo) = Len(Retained)
      /\ \A n \in DOMAIN todo : todo[n] = Retained[Len(shown) + n]
      /\ PointCount(shown) + remaining = budget.total
      /\ \A n \in DOMAIN shown :
           /\ Len(shown[n].points) \in 1..budget.points
           /\ shown[n].key = Retained[n].key
           /\ EndsWith(Retained[n].points, shown[n].points)
  BY <1>1, <1>2 DEF IInv, ChartFills
<1>4. budget.points \in Nat \ {0} /\ budget.total \in Nat /\ remaining \in Nat \ {0}
  BY <1>1, <1>2, <1>3, SeriesAssumption DEF Budget, TypeOK
<1>5. /\ shown \in Seq(Series) /\ todo \in Seq(Series) /\ Retained \in Seq(Series)
      /\ Len(shown) \in Nat /\ Len(todo) \in Nat \ {0} /\ 1 \in DOMAIN todo
  <2>1. shown \in Seq(Series) /\ todo \in Seq(Series) /\ Retained \in Seq(Series)
    BY <1>2, <1>3, RetainedFacts DEF TypeOK
  <2>. HIDE DEF kept, series
  <2>. QED  BY <1>1, <2>1
<1>6. Head(todo) = Retained[N] /\ N \in DOMAIN Retained
  <2>1. Head(todo) = todo[1]
    BY <1>1, <1>5
  <2>2. N \in 1..Len(Retained)
    BY <1>3, <1>5
  <2>. QED  BY <1>3, <1>5, <2>1, <2>2
<1>. DEFINE whole == Retained[N].points
            some == Newest(whole, budget.points)
<1>7. /\ Retained[N].key \in Keys /\ whole \in Seq({Gap} \cup Quotient)
      /\ Len(whole) \in Nat \ {0}
  BY <1>3, <1>6, RetainedFacts
<1>8. kept = Newest(some, remaining)
  BY <1>6
<1>. HIDE DEF kept, whole
<1>9. /\ some \in Seq({Gap} \cup Quotient)
      /\ Len(some) = IF Len(whole) <= budget.points THEN Len(whole) ELSE budget.points
      /\ \A i \in 1..Len(some) : some[i] = whole[Len(whole) - Len(some) + i]
  BY <1>4, <1>7, NewestFacts
<1>. HIDE DEF some
<1>10. /\ kept \in Seq({Gap} \cup Quotient)
       /\ Len(kept) = IF Len(some) <= remaining THEN Len(some) ELSE remaining
       /\ \A i \in 1..Len(kept) : kept[i] = some[Len(some) - Len(kept) + i]
  <2>. DEFINE newest == Newest(some, remaining)
  <2>1. /\ newest \in Seq({Gap} \cup Quotient)
        /\ Len(newest) = IF Len(some) <= remaining THEN Len(some) ELSE remaining
        /\ \A i \in 1..Len(newest) : newest[i] = some[Len(some) - Len(newest) + i]
    <3>1. some \in Seq({Gap} \cup Quotient) /\ remaining \in Nat \ {0}
      BY <1>4, <1>9
    <3>. QED  BY <3>1, NewestFacts
  <2>2. kept = newest
    BY <1>8
  <2>. HIDE DEF newest
  <2>. QED  BY <2>1, <2>2
<1>11. Len(kept) \in 1..budget.points /\ Len(kept) <= remaining /\ Len(kept) <= Len(whole)
  BY <1>4, <1>7, <1>9, <1>10
<1>12. EndsWith(whole, kept)
  <2>1. ASSUME NEW i \in 1..Len(kept) PROVE kept[i] = whole[Len(whole) - Len(kept) + i]
    <3>1. Len(some) - Len(kept) + i \in 1..Len(some)
      BY <1>4, <1>7, <1>9, <1>10
    <3>2. Len(whole) - Len(some) + (Len(some) - Len(kept) + i) = Len(whole) - Len(kept) + i
      BY <1>7, <1>9, <1>10
    <3>. QED  BY <1>9, <1>10, <3>1, <3>2
  <2>. QED  BY <1>11, <2>1 DEF EndsWith
<1>13. series \in Series /\ series.points = kept /\ series.key = Retained[N].key
  BY <1>6, <1>7, <1>10 DEF Series
<1>. HIDE DEF series
<1>14. /\ shown' \in Seq(Series) /\ Len(shown') = N /\ DOMAIN shown' = (DOMAIN shown) \cup {N}
       /\ shown'[N] = series /\ \A n \in DOMAIN shown : shown'[n] = shown[n]
  BY <1>1, <1>5, <1>13
<1>15. /\ todo' \in Seq(Series) /\ Len(todo') = Len(todo) - 1
       /\ \A n \in DOMAIN todo' : n + 1 \in DOMAIN todo /\ todo'[n] = todo[n + 1]
  BY <1>1, <1>5
<1>16. PointCount(shown') + remaining' = budget.total /\ remaining' \in Nat
  <2>1. PointCount(shown') = PointCount(shown) + Len(kept) /\ PointCount(shown) \in Nat
    BY <1>1, <1>5, <1>13, CountFacts
  <2>. QED  BY <1>1, <1>3, <1>4, <1>11, <2>1
<1>17. ResultSeries' = ResultSeries /\ Retained' = Retained /\ FirstSeen'
  BY <1>1, ResultStays DEF folded, IInv, FirstSeen, Retained
<1>18. TypeOK'
  BY <1>0, <1>1, <1>2, <1>14, <1>15, <1>16 DEF Inv, Typed, TypeOK, folded
<1>19. ChartFills'
  <2>1. Len(shown') + Len(todo') = Len(Retained)
    BY <1>3, <1>5, <1>14, <1>15
  <2>2. ASSUME NEW n \in DOMAIN todo' PROVE todo'[n] = Retained[Len(shown') + n]
    <3>1. n \in Nat /\ Len(shown) + (n + 1) = N + n
      BY <1>5, <1>15
    <3>. QED  BY <1>3, <1>14, <1>15, <3>1
  <2>3. ASSUME NEW n \in DOMAIN shown'
        PROVE  /\ Len(shown'[n].points) \in 1..budget.points
               /\ shown'[n].key = Retained[n].key
               /\ EndsWith(Retained[n].points, shown'[n].points)
    <3>1. CASE n \in DOMAIN shown
      BY <1>3, <1>14, <3>1
    <3>2. CASE n = N
      BY <1>11, <1>12, <1>13, <1>14, <3>2 DEF whole
    <3>. QED  BY <1>14, <3>1, <3>2
  <2>. QED  BY <1>1, <1>3, <1>16, <1>17, <2>1, <2>2, <2>3 DEF ChartFills
<1>20. Staged'
  BY <1>1, <1>2 DEF Staged
<1>. QED  BY <1>0, <1>17, <1>18, <1>19, <1>20 DEF IInv

\* The status is decided last.
LEMMA FinishKeepsIInv ==
  ASSUME IInv, Finish
  PROVE  IInv'
<1>0. Inv'
  BY Inductive DEF IInv, Next
<1>1. /\ stage = "bounding" /\ stage' = "assembled" /\ status' = Status
      /\ remaining = 0 \/ todo = <<>>
      /\ UNCHANGED <<metric, budget, world, folded, todo, remaining, shown, rows, since>>
  BY DEF Finish
<1>2. /\ ResultSeries' = ResultSeries /\ TableRows' = TableRows /\ FirstSeen'
      /\ Retained' = Retained
  BY <1>1, ResultStays DEF folded, IInv, FirstSeen, Retained
<1>3. Status' = Status /\ Status \in {"ok", "empty", "error", "unsupported"}
  BY <1>1 DEF Status, RequiredSeen, folded
<1>4. TypeOK'
  BY <1>0, <1>1, <1>3 DEF IInv, Inv, Typed, TypeOK, folded
<1>5. ChartFills'
  BY <1>1, <1>2 DEF IInv, ChartFills
<1>6. Staged'
  BY <1>1, <1>2, <1>3 DEF IInv, Staged
<1>. QED  BY <1>0, <1>2, <1>4, <1>5, <1>6 DEF IInv

\* Nothing changes in a stuttering step.
LEMMA StutterKeepsIInv ==
  ASSUME IInv, UNCHANGED vars
  PROVE  IInv'
<1>1. UNCHANGED <<metric, budget, world, folded, report, since>>
  BY DEF vars
<1>2. Inv'
  BY Inductive DEF IInv
<1>3. /\ ResultSeries' = ResultSeries /\ TableRows' = TableRows /\ FirstSeen'
      /\ Retained' = Retained
  BY <1>1, ResultStays DEF folded, IInv, FirstSeen, Retained
<1>4. Status' = Status
  BY <1>1 DEF Status, RequiredSeen, folded, report
<1>5. TypeOK'
  BY <1>1, <1>2 DEF IInv, Inv, Typed, TypeOK, folded, report
<1>6. ChartFills' /\ Staged'
  BY <1>1, <1>3, <1>4 DEF IInv, ChartFills, Staged, report
<1>. QED  BY <1>2, <1>3, <1>5, <1>6 DEF IInv

\* Every step keeps the invariant.
LEMMA InductiveIInv == IInv /\ [Next]_vars => IInv'
BY GrowKeepsIInv, SampleKeepsIInv, SampleFailsKeepsIInv, AssembleKeepsIInv,
   BoundSeriesKeepsIInv, FinishKeepsIInv, StutterKeepsIInv DEF Next

\* It holds in every reachable state.
LEMMA Invariance == Spec => []IInv
BY InitIInv, InductiveIInv, PTL DEF Spec

\* Every variable has its type in every reachable state.
THEOREM TypeCorrect == Spec => []TypeOK
<1>1. IInv => TypeOK
  BY DEF IInv
<1>. QED  BY <1>1, Invariance, PTL

\* A chart stays within all three budgets and keeps the newest points of the series
\* that appeared first, for any policy.
THEOREM ChartWithinBudget == Spec => []BudgetHolds
<1>1. ASSUME IInv, budget # NoBudget PROVE BudgetHolds
  <2>1. stage # "sampling" /\ metric.kind = "chart"
    BY <1>1, MetricFields DEF IInv, Staged, Inv, Typed
  <2>2. /\ budget \in Budgets
        /\ Len(shown) + Len(todo) = Len(Retained)
        /\ PointCount(shown) + remaining = budget.total
        /\ \A n \in DOMAIN shown :
             /\ Len(shown[n].points) \in 1..budget.points
             /\ shown[n].key = Retained[n].key
             /\ EndsWith(Retained[n].points, shown[n].points)
    BY <1>1, <2>1 DEF IInv, ChartFills
  <2>3. /\ shown \in Seq(Series) /\ todo \in Seq(Series) /\ remaining \in Nat
        /\ budget.series \in Nat \ {0} /\ budget.total \in Nat
    BY <1>1, <2>2, SeriesAssumption DEF IInv, TypeOK, Budget
  <2>4. /\ Retained \in Seq(Series) /\ Len(Retained) <= budget.series
        /\ \A n \in DOMAIN Retained :
             /\ Retained[n] = ResultSeries[n]
             /\ Retained[n].points \in Seq({Gap} \cup Quotient)
    <3>1. ResultSeries \in Seq(Series)
      BY <1>1, ResultFacts DEF IInv, FirstSeen, TypeOK, SampleSeq
    <3>2. Len(ResultSeries) \in Nat
      BY <3>1
    <3>. QED  BY <1>1, <2>2, <2>3, <3>2, RetainedFacts
  <2>5. Len(shown) <= budget.series /\ DOMAIN shown \subseteq DOMAIN Retained
    <3>1. Len(shown) \in Nat /\ Len(todo) \in Nat /\ Len(Retained) \in Nat
      BY <2>3, <2>4
    <3>2. Len(shown) <= Len(Retained) /\ Len(shown) <= budget.series
      BY <2>2, <2>3, <2>4, <3>1
    <3>3. DOMAIN shown = 1..Len(shown) /\ DOMAIN Retained = 1..Len(Retained)
      BY <2>3, <2>4
    <3>. QED  BY <3>1, <3>2, <3>3
  <2>6. PointCount(shown) <= budget.total
    <3>1. PointCount(shown) \in Nat
      BY <2>3, CountFacts
    <3>. QED  BY <2>2, <2>3, <3>1
  <2>7. ASSUME NEW n \in DOMAIN shown
        PROVE  /\ Len(shown[n].points) \in 1..budget.points
               /\ shown[n].key = ResultSeries[n].key
               /\ IsSuffix(shown[n].points, ResultSeries[n].points)
    <3>1. n \in DOMAIN Retained
      BY <2>5
    <3>2. shown[n].points \in Seq({Gap} \cup Quotient)
      <4>1. shown[n] \in Series
        BY <2>3
      <4>. QED  BY <4>1 DEF Series
    <3>. QED  BY <2>2, <2>4, <3>1, <3>2, SuffixFacts
  <2>. QED  BY <2>5, <2>6, <2>7 DEF BudgetHolds
<1>2. IInv => BudgetHolds
  BY <1>1 DEF BudgetHolds
<1>. QED  BY <1>2, Invariance, PTL

\* Without a truncation the chart is the whole result.
LEMMA WholeChart ==
  ASSUME IInv, stage # "sampling", metric.kind = "chart", ~Truncated
  PROVE  /\ Len(shown) = Len(ResultSeries) /\ DOMAIN shown = DOMAIN ResultSeries
         /\ \A n \in DOMAIN shown : /\ shown[n].key = ResultSeries[n].key
                                    /\ shown[n].points = ResultSeries[n].points
<1>1. /\ budget \in Budgets
      /\ \A n \in DOMAIN shown : /\ shown[n].key = Retained[n].key
                                 /\ EndsWith(Retained[n].points, shown[n].points)
      /\ Len(shown) + Len(todo) = Len(Retained)
  BY DEF IInv, ChartFills
<1>2. Len(shown) = Len(ResultSeries) /\ PointCount(shown) = PointCount(ResultSeries)
  BY DEF Truncated
<1>3. shown \in Seq(Series) /\ ResultSeries \in Seq(Series) /\ todo \in Seq(Series)
  BY ResultFacts DEF IInv, FirstSeen, TypeOK, SampleSeq
<1>4. /\ Retained \in Seq(Series)
      /\ \A n \in DOMAIN Retained :
           Retained[n] = ResultSeries[n] /\ Retained[n].points \in Seq({Gap} \cup Quotient)
  BY <1>1, RetainedFacts
<1>5. DOMAIN shown = DOMAIN ResultSeries /\ DOMAIN shown \subseteq DOMAIN Retained
      /\ DOMAIN shown = 1..Len(shown) /\ Len(shown) \in Nat
  <2>1. /\ DOMAIN shown = 1..Len(shown) /\ DOMAIN ResultSeries = 1..Len(ResultSeries)
        /\ DOMAIN Retained = 1..Len(Retained)
        /\ Len(shown) \in Nat /\ Len(todo) \in Nat /\ Len(Retained) \in Nat
    BY <1>3, <1>4
  <2>2. Len(shown) <= Len(Retained)
    BY <1>1, <2>1
  <2>. QED  BY <1>2, <2>1, <2>2
<1>6. \A n \in DOMAIN shown : /\ shown[n].points \in Seq({Gap} \cup Quotient)
                              /\ ResultSeries[n].points \in Seq({Gap} \cup Quotient)
                              /\ EndsWith(ResultSeries[n].points, shown[n].points)
  <2>1. \A n \in DOMAIN shown : shown[n] \in Series
    BY <1>3
  <2>2. \A n \in DOMAIN shown : shown[n].points \in Seq({Gap} \cup Quotient)
    BY <2>1 DEF Series
  <2>. QED  BY <1>1, <1>4, <1>5, <2>2
<1>. DEFINE f == [n \in DOMAIN shown |-> Len(shown[n].points)]
            g == [n \in DOMAIN ResultSeries |-> Len(ResultSeries[n].points)]
<1>7. \A n \in DOMAIN shown : f[n] \in Nat /\ g[n] \in Nat /\ f[n] <= g[n]
  <2>1. \A n \in DOMAIN shown : f[n] = Len(shown[n].points) /\ g[n] = Len(ResultSeries[n].points)
    BY <1>5
  <2>2. \A n \in DOMAIN shown : /\ Len(shown[n].points) \in Nat
                                /\ Len(ResultSeries[n].points) \in Nat
                                /\ Len(shown[n].points) <= Len(ResultSeries[n].points)
    <3>. SUFFICES ASSUME NEW n \in DOMAIN shown
                  PROVE  /\ Len(shown[n].points) \in Nat
                         /\ Len(ResultSeries[n].points) \in Nat
                         /\ Len(shown[n].points) <= Len(ResultSeries[n].points)
      OBVIOUS
    <3>1. EndsWith(ResultSeries[n].points, shown[n].points)
      BY <1>6
    <3>2. Len(shown[n].points) <= Len(ResultSeries[n].points)
      BY <3>1 DEF EndsWith
    <3>3. \A t \in Seq({Gap} \cup Quotient) : Len(t) \in Nat
      OBVIOUS
    <3>. QED  BY <1>6, <3>2, <3>3
  <2>. HIDE DEF f, g
  <2>. QED  BY <2>1, <2>2
<1>8. SumFunctionOnSet(f, DOMAIN shown) = SumFunctionOnSet(g, DOMAIN shown)
  <2>1. PointCount(shown) = SumFunctionOnSet(f, DOMAIN shown)
    BY DEF PointCount, SumFunction
  <2>2. PointCount(ResultSeries) = SumFunctionOnSet(g, DOMAIN ResultSeries)
    BY DEF PointCount, SumFunction
  <2>. HIDE DEF f, g
  <2>. QED  BY <1>2, <1>5, <2>1, <2>2
<1>9. \A n \in DOMAIN shown : f[n] = g[n]
  <2>. HIDE DEF f, g
  <2>1. IsFiniteSet(DOMAIN shown)
    BY <1>5, FS_Interval
  <2>. QED  BY <1>7, <1>8, <2>1, SumMonotonic
<1>10. \A n \in DOMAIN shown : Len(shown[n].points) = Len(ResultSeries[n].points)
  BY <1>5, <1>9
<1>11. \A n \in DOMAIN shown : shown[n].points = ResultSeries[n].points
  BY <1>6, <1>10, SuffixFacts
<1>. QED  BY <1>1, <1>2, <1>4, <1>5, <1>11

\* A key with a value in a sample has been listed, and has a value in the result.
LEMMA ValuesAreListed ==
  ASSUME IInv, NEW k \in Keys, NEW i \in DOMAIN samples, samples[i][k] \notin {Absent, Gap}
  PROVE  /\ k \in ToSet(order) /\ HasValue(k)
         /\ i \in DOMAIN Points(k) /\ Points(k)[i] = samples[i][k]
<1>1. k \in AllKeys
  BY DEF AllKeys, Active
<1>2. Points(k)[i] = samples[i][k] /\ i \in DOMAIN Points(k)
  BY DEF Points
<1>. QED  BY <1>1, <1>2 DEF IInv, FirstSeen, HasValue

\* Nothing is left out of a chart without a word: no truncation means that every value
\* of every sample is in the report, no coverage warning that no series is missing in a
\* sample after the first one with rows.
THEOREM OmissionsReported == Spec => []OmissionsAreReported
<1>1. ASSUME IInv, Assembled, metric.kind = "chart", ~Truncated,
             NEW k \in Keys, NEW i \in DOMAIN samples, samples[i][k] \notin {Absent, Gap}
      PROVE  \E n \in DOMAIN shown : /\ shown[n].key = k /\ i \in DOMAIN shown[n].points
                                     /\ shown[n].points[i] = samples[i][k]
  <2>1. /\ k \in ToSet(order) /\ HasValue(k)
        /\ i \in DOMAIN Points(k) /\ Points(k)[i] = samples[i][k]
    BY <1>1, ValuesAreListed
  <2>2. PICK n \in DOMAIN ResultSeries : /\ ResultSeries[n].key = k
                                         /\ ResultSeries[n].points = Points(k)
    <3>1. order \in Seq(Keys) /\ samples \in SampleSeq
      BY <1>1 DEF IInv, FirstSeen, TypeOK, SampleSeq
    <3>. QED  BY <2>1, <3>1, ResultFacts
  <2>3. /\ DOMAIN shown = DOMAIN ResultSeries
        /\ \A m \in DOMAIN shown : /\ shown[m].key = ResultSeries[m].key
                                   /\ shown[m].points = ResultSeries[m].points
    BY <1>1, WholeChart DEF Assembled
  <2>. QED  BY <2>1, <2>2, <2>3
<1>2. ASSUME IInv, ~CoverageGap, NEW k \in ToSet(order), NEW i \in DOMAIN samples,
             samples[i][k] = Absent, NEW j \in 1..i
      PROVE  Active(j) = {}
  <2>. SUFFICES ASSUME Active(j) # {} PROVE FALSE
    OBVIOUS
  <2>1. i \in Effective
    BY DEF Effective
  <2>2. k \in AllKeys
    BY <1>2 DEF IInv, FirstSeen
  <2>3. k \notin Active(i)
    BY <1>2 DEF Active
  <2>. QED  BY <1>2, <2>1, <2>2, <2>3 DEF CoverageGap
<1>3. IInv => OmissionsAreReported
  BY <1>1, <1>2 DEF OmissionsAreReported
<1>. QED  BY <1>3, Invariance, PTL

\* The average of i is at least the one of j, and that of j at least the one of k.
LEMMA AveragesCompose ==
  ASSUME NEW si \in Nat, NEW sj \in Nat, NEW sk \in Nat,
         NEW ci \in Nat \ {0}, NEW cj \in Nat \ {0}, NEW ck \in Nat \ {0},
         si * cj >= sj * ci, sj * ck >= sk * cj
  PROVE  /\ si * ck >= sk * ci
         /\ si * ck = sk * ci => si * cj = sj * ci /\ sj * ck = sk * cj
<1>1. (si * cj) * ck >= (sj * ci) * ck /\ (sj * ck) * ci >= (sk * cj) * ci
  OBVIOUS
<1>2. /\ (si * cj) * ck = cj * (si * ck) /\ (sk * cj) * ci = cj * (sk * ci)
      /\ (sj * ci) * ck = (sj * ck) * ci
  OBVIOUS
<1>. DEFINE a == si * ck
            b == sk * ci
<1>3. a \in Nat /\ b \in Nat /\ cj * a >= cj * b
  BY <1>1, <1>2
<1>4. a >= b
  <2>. SUFFICES ASSUME a < b PROVE FALSE
    BY <1>3
  <2>. HIDE DEF a, b
  <2>1. cj * (b - a) > 0 /\ cj * (b - a) = cj * b - cj * a
    BY <1>3
  <2>. QED  BY <1>3, <2>1
<1>5. ASSUME a = b PROVE si * cj = sj * ci /\ sj * ck = sk * cj
  <2>1. (si * cj) * ck = (sj * ci) * ck /\ (sj * ck) * ci = (sk * cj) * ci
    BY <1>1, <1>2, <1>5
  <2>2. \A x, y \in Nat, z \in Nat \ {0} : x * z = y * z => x = y
    OBVIOUS
  <2>. QED  BY <2>1, <2>2
<1>. QED  BY <1>4, <1>5

\* The numbers of a key, their sum and their count.
LEMMA AverageFacts ==
  ASSUME samples \in SampleSeq, NEW k \in Keys
  PROVE  /\ Sum(k) \in Nat /\ Cardinality(Numbers(k)) \in Nat
         /\ Numbers(k) = {} => Sum(k) = 0 /\ Cardinality(Numbers(k)) = 0
         /\ Numbers(k) # {} => Cardinality(Numbers(k)) # 0
         /\ ~NonZero(k) => Sum(k) = 0
         /\ \A i \in Numbers(k) : samples[i][k] \in Quotient /\ samples[i][k].top \in Nat
<1>. DEFINE N == Numbers(k)
            tops == [i \in N |-> samples[i][k].top]
<1>1. IsFiniteSet(N)
  <2>1. /\ DOMAIN samples = 1..Len(samples) /\ Len(samples) \in Int /\ 1 \in Int
        /\ N \subseteq DOMAIN samples
    BY DEF SampleSeq, Numbers
  <2>. HIDE DEF N
  <2>. QED  BY <2>1, FS_Interval, FS_Subset
<1>2. \A i \in N : samples[i][k] \in Quotient
  <2>1. \A i \in DOMAIN samples : samples[i][k] \in {Absent, Gap} \cup Quotient
    BY DEF SampleSeq
  <2>. QED  BY <2>1 DEF Numbers
<1>3. \A i \in N : samples[i][k].top \in Nat
  BY <1>2 DEF Quotient
<1>4. Sum(k) = SumFunctionOnSet(tops, N)
  BY DEF Sum, SumFunction
<1>5. \A i \in N : tops[i] = samples[i][k].top
  OBVIOUS
<1>6. ~NonZero(k) => \A i \in N : samples[i][k].top = 0
  BY DEF NonZero
<1>7. Cardinality(N) \in Nat /\ (N = {} <=> Cardinality(N) = 0)
  BY <1>1, FS_CardinalityType, FS_EmptySet
<1>. HIDE DEF N, tops
<1>8. Sum(k) \in Nat
  BY <1>1, <1>3, <1>4, <1>5, SumIsNatural
<1>9. ~NonZero(k) => Sum(k) = 0
  BY <1>1, <1>4, <1>5, <1>6, SumOfZeros
<1>10. N = {} => Sum(k) = 0
  BY <1>1, <1>4, SumRecursion
<1>. QED  BY <1>2, <1>3, <1>7, <1>8, <1>9, <1>10 DEF N

\* j was listed before k.
Earlier(j, k) == \E n \in DOMAIN order : \E m \in 1..(n - 1) : order[m] = j /\ order[n] = k

\* The order of the list is total and strict.
LEMMA EarlierFacts ==
  ASSUME FirstSeen
  PROVE  /\ \A k \in ToSet(order) : ~Earlier(k, k)
         /\ \A i, j, k \in ToSet(order) : Earlier(i, j) /\ Earlier(j, k) => Earlier(i, k)
         /\ \A j, k \in ToSet(order) : j = k \/ Earlier(j, k) \/ Earlier(k, j)
<1>1. /\ DOMAIN order = 1..Len(order) /\ Len(order) \in Nat
      /\ \A m, n \in DOMAIN order : order[m] = order[n] => m = n
  BY DEF FirstSeen
<1>2. ASSUME NEW k \in ToSet(order), Earlier(k, k) PROVE FALSE
  <2>1. PICK n \in DOMAIN order : \E m \in 1..(n - 1) : order[m] = k /\ order[n] = k
    BY <1>2 DEF Earlier
  <2>2. PICK m \in 1..(n - 1) : order[m] = k /\ order[n] = k
    BY <2>1
  <2>3. m \in DOMAIN order /\ m # n
    BY <1>1
  <2>. QED  BY <1>1, <2>2, <2>3
<1>3. ASSUME NEW i \in ToSet(order), NEW j \in ToSet(order), NEW k \in ToSet(order),
             Earlier(i, j), Earlier(j, k)
      PROVE  Earlier(i, k)
  <2>1. PICK n \in DOMAIN order, m \in Nat : m \in 1..(n - 1) /\ order[m] = i /\ order[n] = j
    BY <1>1, <1>3 DEF Earlier
  <2>2. PICK q \in DOMAIN order, p \in Nat : p \in 1..(q - 1) /\ order[p] = j /\ order[q] = k
    BY <1>1, <1>3 DEF Earlier
  <2>3. p \in DOMAIN order
    BY <1>1, <2>2
  <2>4. n = p
    BY <1>1, <2>1, <2>2, <2>3
  <2>5. m \in 1..(q - 1)
    BY <1>1, <2>1, <2>2, <2>4
  <2>. QED  BY <2>1, <2>2, <2>5 DEF Earlier
<1>4. ASSUME NEW j \in ToSet(order), NEW k \in ToSet(order), j # k
      PROVE  Earlier(j, k) \/ Earlier(k, j)
  <2>1. PICK m \in DOMAIN order, n \in DOMAIN order : order[m] = j /\ order[n] = k
    BY DEF ToSet
  <2>2. m \in 1..(n - 1) \/ n \in 1..(m - 1)
    BY <1>1, <1>4, <2>1
  <2>. QED  BY <2>1, <2>2 DEF Earlier
<1>. QED  BY <1>2, <1>3, <1>4

\* The order of the rows is a strict total order.
LEMMA BeforeIsAnOrder ==
  ASSUME FirstSeen, samples \in SampleSeq
  PROVE  /\ \A k \in ToSet(order) : ~Before(k, k)
         /\ \A i, j, k \in ToSet(order) : Before(i, j) /\ Before(j, k) => Before(i, k)
         /\ \A j, k \in ToSet(order) : j = k \/ Before(j, k) \/ Before(k, j)
<1>. DEFINE s(k) == Sum(k)
            c(k) == Cardinality(Numbers(k))
<1>1. ASSUME NEW j, NEW k
      PROVE  Before(j, k) <=>
               IF Numbers(j) = {} THEN Numbers(k) = {} /\ Earlier(j, k)
               ELSE \/ Numbers(k) = {} \/ s(j) * c(k) > s(k) * c(j)
                    \/ s(j) * c(k) = s(k) * c(j) /\ Earlier(j, k)
  BY DEF Before, Earlier
<1>2. ToSet(order) \subseteq Keys
  BY DEF FirstSeen, ToSet
<1>3. \A k \in ToSet(order) : /\ s(k) \in Nat /\ c(k) \in Nat
                              /\ Numbers(k) = {} => s(k) = 0 /\ c(k) = 0
                              /\ Numbers(k) # {} => c(k) # 0
  BY <1>2, AverageFacts
<1>. HIDE DEF s, c
<1>4. ASSUME NEW k \in ToSet(order), Before(k, k) PROVE FALSE
  <2>1. ~Earlier(k, k)
    BY EarlierFacts
  <2>2. s(k) * c(k) \in Nat
    BY <1>3
  <2>. QED  BY <1>1, <1>4, <2>1, <2>2
<1>5. ASSUME NEW i \in ToSet(order), NEW j \in ToSet(order), NEW k \in ToSet(order),
             Before(i, j), Before(j, k)
      PROVE  Before(i, k)
  <2>1. Earlier(i, j) /\ Earlier(j, k) => Earlier(i, k)
    BY EarlierFacts
  <2>2. CASE Numbers(i) = {}
    BY <1>1, <1>5, <2>1, <2>2
  <2>3. CASE Numbers(i) # {} /\ Numbers(k) = {}
    BY <1>1, <2>3
  <2>4. CASE Numbers(i) # {} /\ Numbers(k) # {}
    <3>1. Numbers(j) # {}
      BY <1>1, <1>5, <2>4
    <3>2. /\ s(i) \in Nat /\ s(j) \in Nat /\ s(k) \in Nat
          /\ c(i) \in Nat \ {0} /\ c(j) \in Nat \ {0} /\ c(k) \in Nat \ {0}
      BY <1>3, <2>4, <3>1
    <3>. DEFINE Better(x, y) == \/ s(x) * c(y) > s(y) * c(x)
                                \/ s(x) * c(y) = s(y) * c(x) /\ Earlier(x, y)
    <3>3. Better(i, j) /\ Better(j, k)
      <4>1. Before(i, j) => Numbers(i) = {} \/ Numbers(j) = {} \/ Better(i, j)
        BY <1>1
      <4>2. Before(j, k) => Numbers(j) = {} \/ Numbers(k) = {} \/ Better(j, k)
        BY <1>1
      <4>. HIDE DEF Better
      <4>. QED  BY <1>5, <2>4, <3>1, <4>1, <4>2
    <3>4. /\ s(i) * c(j) \in Nat /\ s(j) * c(i) \in Nat
          /\ s(j) * c(k) \in Nat /\ s(k) * c(j) \in Nat
          /\ s(i) * c(k) \in Nat /\ s(k) * c(i) \in Nat
      BY <3>2
    <3>5. s(i) * c(j) >= s(j) * c(i) /\ s(j) * c(k) >= s(k) * c(j)
      BY <3>3, <3>4
    <3>6. /\ s(i) * c(k) >= s(k) * c(i)
          /\ s(i) * c(k) = s(k) * c(i) =>
               s(i) * c(j) = s(j) * c(i) /\ s(j) * c(k) = s(k) * c(j)
      BY <3>2, <3>5, AveragesCompose
    <3>7. Better(i, k)
      BY <2>1, <3>3, <3>4, <3>6
    <3>. QED  BY <1>1, <2>4, <3>7
  <2>. QED  BY <2>2, <2>3, <2>4
<1>6. ASSUME NEW j \in ToSet(order), NEW k \in ToSet(order), j # k
      PROVE  Before(j, k) \/ Before(k, j)
  <2>1. Earlier(j, k) \/ Earlier(k, j)
    BY <1>6, EarlierFacts
  <2>2. CASE Numbers(j) = {} \/ Numbers(k) = {}
    BY <1>1, <2>1, <2>2
  <2>3. CASE Numbers(j) # {} /\ Numbers(k) # {}
    <3>1. s(j) * c(k) \in Nat /\ s(k) * c(j) \in Nat
      BY <1>3
    <3>2. \/ s(j) * c(k) > s(k) * c(j) \/ s(k) * c(j) > s(j) * c(k)
          \/ s(j) * c(k) = s(k) * c(j)
      BY <3>1
    <3>. QED  BY <1>1, <2>1, <2>3, <3>2
  <2>. QED  BY <2>2, <2>3
<1>. QED  BY <1>4, <1>5, <1>6

\* The rows of a table are all groups or as many as the limit allows, and no group that
\* is left out comes before one that is a row.
LEMMA TableFacts ==
  ASSUME FirstSeen, samples \in SampleSeq, metric.limit \in Nat
  PROVE  /\ \A k \in Groups \ TableRows : Cardinality(TableRows) = metric.limit
         /\ \A k \in Groups \ TableRows, j \in TableRows : ~Before(k, j)
         /\ TableRows \subseteq Groups
         /\ metric.limit > 0 /\ Groups # {} => TableRows # {}
<1>. DEFINE Rank(k) == {j \in Groups : Before(j, k)}
            rank == [k \in Groups |-> Rank(k)]
            n == metric.limit
<1>1. IsFiniteSet(Groups) /\ Groups \subseteq ToSet(order)
  <2>1. Groups \subseteq Keys /\ Groups \subseteq ToSet(order)
    BY DEF Groups, FirstSeen, ToSet
  <2>. QED  BY <2>1, SeriesAssumption, FS_Subset
<1>3. /\ \A k \in Groups : ~Before(k, k)
      /\ \A i, j, k \in Groups : Before(i, j) /\ Before(j, k) => Before(i, k)
      /\ \A j, k \in Groups : j = k \/ Before(j, k) \/ Before(k, j)
  BY <1>1, BeforeIsAnOrder
<1>4. TableRows = {k \in Groups : Cardinality(Rank(k)) < n}
  BY DEF TableRows
<1>5. /\ rank \in [Groups -> SUBSET Groups]
      /\ \A j, k \in Groups : j \in rank[k] <=> Before(j, k)
  OBVIOUS
<1>6. TableRows \in SUBSET Groups /\ \A k \in Groups : k \in TableRows <=> Cardinality(rank[k]) < n
  BY <1>4
<1>. HIDE DEF Rank, rank
<1>7. IF Cardinality(Groups) <= n THEN TableRows = Groups ELSE Cardinality(TableRows) = n
  <2>1. /\ \A k \in Groups : k \notin rank[k]
        /\ \A j, k \in Groups : j \in rank[k] => rank[j] \subseteq rank[k]
        /\ \A j, k \in Groups : j = k \/ j \in rank[k] \/ k \in rank[j]
    BY <1>3, <1>5
  <2>2. n \in Nat
    OBVIOUS
  <2>. HIDE DEF n
  <2>. QED  BY <1>1, <1>5, <1>6, <2>1, <2>2, TopOfOrder
<1>8. ASSUME NEW k \in Groups \ TableRows, NEW j \in TableRows, Before(k, j) PROVE FALSE
  <2>1. /\ j \in Groups /\ Cardinality(Rank(j)) < n /\ ~(Cardinality(Rank(k)) < n)
    BY <1>4
  <2>2. Rank(k) \subseteq Rank(j) /\ Rank(j) \subseteq Groups
    BY <1>3, <1>8, <2>1 DEF Rank
  <2>3. IsFiniteSet(Rank(j))
    BY <1>1, <2>2, FS_Subset
  <2>4. Cardinality(Rank(k)) <= Cardinality(Rank(j))
    BY <2>2, <2>3, FS_Subset
  <2>5. Cardinality(Rank(k)) \in Nat /\ Cardinality(Rank(j)) \in Nat
    BY <2>2, <2>3, FS_Subset, FS_CardinalityType
  <2>. QED  BY <2>1, <2>4, <2>5
<1>9. TableRows \subseteq Groups
  BY <1>4
<1>10. ASSUME n > 0, Groups # {}, TableRows = {} PROVE FALSE
  <2>1. Cardinality({}) = 0
    BY FS_EmptySet
  <2>. QED  BY <1>7, <1>10, <2>1
<1>. QED  BY <1>7, <1>8, <1>9, <1>10

\* A table shows the groups with the largest averages: a group that is left out never
\* exceeds one that is shown, and is left out for the limit or because it is all zero.
THEOREM TableShowsTheTop == Spec => []TableIsTheTop
<1>1. ASSUME IInv, Assembled, metric.kind = "table", NEW k \in ToSet(order) \ rows
      PROVE  \/ metric.dropZero /\ Sum(k) = 0
             \/ /\ Cardinality(rows) = metric.limit
                /\ \A j \in rows : /\ Numbers(j) = {} => Numbers(k) = {}
                                   /\ Sum(k) * Cardinality(Numbers(j)) <= Sum(j) * Cardinality(Numbers(k))
  <2>1. FirstSeen /\ samples \in SampleSeq /\ rows = TableRows /\ metric \in Metrics
    BY <1>1 DEF IInv, Staged, Assembled, TypeOK, SampleSeq
  <2>2. metric.limit \in Nat
    BY <2>1, SeriesAssumption DEF Metric
  <2>3. ToSet(order) \subseteq Keys
    BY <2>1 DEF FirstSeen, ToSet
  <2>4. CASE k \notin Groups
    <3>1. metric.dropZero /\ ~NonZero(k)
      BY <2>4 DEF Groups
    <3>. QED  BY <2>1, <2>3, <3>1, AverageFacts
  <2>5. CASE k \in Groups
    <3>1. k \in Groups \ TableRows
      BY <2>1, <2>5
    <3>2. Cardinality(rows) = metric.limit
      BY <2>1, <2>2, <3>1, TableFacts
    <3>3. ASSUME NEW j \in rows
          PROVE  /\ Numbers(j) = {} => Numbers(k) = {}
                 /\ Sum(k) * Cardinality(Numbers(j)) <= Sum(j) * Cardinality(Numbers(k))
      <4>1. ~Before(k, j)
        BY <2>1, <2>2, <3>1, TableFacts
      <4>2. j \in Keys /\ k \in Keys
        BY <2>1, <2>2, <2>3, TableFacts DEF Groups
      <4>. DEFINE sj == Sum(j)
                  sk == Sum(k)
                  cj == Cardinality(Numbers(j))
                  ck == Cardinality(Numbers(k))
      <4>3. /\ sj \in Nat /\ sk \in Nat /\ cj \in Nat /\ ck \in Nat
            /\ Numbers(j) = {} => sj = 0 /\ cj = 0
            /\ Numbers(k) = {} => sk = 0 /\ ck = 0
        BY <2>1, <4>2, AverageFacts
      <4>4. Numbers(k) # {} => Numbers(j) # {} /\ ~(sk * cj > sj * ck)
        BY <4>1 DEF Before
      <4>. HIDE DEF sj, sk, cj, ck
      <4>5. sk * cj \in Nat /\ sj * ck \in Nat /\ 0 * cj = 0
        BY <4>3
      <4>6. sk * cj <= sj * ck
        <5>1. CASE Numbers(k) = {}
          BY <4>3, <4>5, <5>1
        <5>2. CASE Numbers(k) # {}
          BY <4>4, <4>5, <5>2
        <5>. QED  BY <5>1, <5>2
      <4>. QED  BY <4>4, <4>6 DEF sj, sk, cj, ck
    <3>. QED  BY <3>2, <3>3
  <2>. QED  BY <2>4, <2>5
<1>2. IInv => TableIsTheTop
  BY <1>1 DEF TableIsTheTop
<1>. QED  BY <1>2, Invariance, PTL

\* The status does not belie the samples: an item that is ok shows a value unless the
\* truncation says what was left out, one that is empty had neither a value to show nor
\* a failure of its source, and a failure hides behind "unsupported" only for an unseen
\* required field.
THEOREM HonestStatus == Spec => []StatusIsHonest
<1>1. ASSUME IInv, Assembled
      PROVE  /\ stage # "sampling" /\ stage = "assembled" /\ metric.kind \in {"chart", "table"}
             /\ FirstSeen /\ samples \in SampleSeq /\ order \in Seq(Keys)
             /\ status = Status /\ (remaining = 0 \/ todo = <<>>)
             /\ metric.limit \in Nat \ {0} /\ metric.dropZero \in BOOLEAN
             /\ ToSet(order) \subseteq Keys
  <2>1. FirstSeen /\ samples \in SampleSeq /\ order \in Seq(Keys) /\ metric \in Metrics
    BY <1>1 DEF IInv, FirstSeen, TypeOK, SampleSeq
  <2>2. /\ metric.limit \in Nat \ {0} /\ metric.dropZero \in BOOLEAN
        /\ metric.kind \in {"chart", "table"}
    BY <2>1, SeriesAssumption DEF Metric
  <2>3. ToSet(order) \subseteq Keys
    BY <2>1 DEF ToSet
  <2>. QED  BY <1>1, <2>1, <2>2, <2>3 DEF IInv, Staged, Assembled
<1>2. ASSUME IInv, Assembled, status = "ok", metric.kind = "chart", ~Truncated
      PROVE  \E n \in DOMAIN shown : \E i \in DOMAIN shown[n].points : shown[n].points[i] # Gap
  <2>1. shown # <<>> /\ shown \in Seq(Series)
    BY <1>1, <1>2 DEF Status, IInv, Staged, TypeOK
  <2>2. 1 \in DOMAIN shown
    BY <2>1
  <2>3. 1 \in DOMAIN ResultSeries /\ shown[1].points = ResultSeries[1].points
    BY <1>1, <1>2, <2>2, WholeChart
  <2>4. /\ ResultSeries[1].points \in Seq({Gap} \cup Quotient)
        /\ Len(ResultSeries[1].points) = Len(samples)
        /\ \E i \in DOMAIN samples : ResultSeries[1].points[i] # Gap
    BY <1>1, <1>2, <2>3, ResultFacts
  <2>5. DOMAIN ResultSeries[1].points = DOMAIN samples
    <3>1. DOMAIN samples = 1..Len(samples)
      BY <1>1, <1>2 DEF SampleSeq
    <3>2. \A t \in Seq({Gap} \cup Quotient) : DOMAIN t = 1..Len(t)
      OBVIOUS
    <3>. QED  BY <2>4, <3>1, <3>2
  <2>. QED  BY <2>2, <2>3, <2>4, <2>5
<1>3. ASSUME IInv, Assembled, status = "empty"
      PROVE  errors = {} /\ shown = <<>> /\ rows = {}
  BY <1>1, <1>3 DEF Status
<1>4. ASSUME IInv, Assembled, status = "empty", metric.kind = "chart",
             NEW i \in DOMAIN samples, NEW k \in Keys, samples[i][k] \notin {Absent, Gap}
      PROVE  FALSE
  <2>1. shown = <<>> /\ budget \in Budgets
        /\ Len(shown) + Len(todo) = Len(Retained) /\ PointCount(shown) + remaining = budget.total
    BY <1>1, <1>3, <1>4 DEF IInv, ChartFills
  <2>2. budget.total \in Nat \ {0} /\ budget.series \in Nat \ {0}
    BY <2>1, SeriesAssumption DEF Budget
  <2>3. todo = <<>>
    <3>1. <<>> \in Seq(Series)
      OBVIOUS
    <3>2. PointCount(shown) = 0
      BY <2>1, <3>1, CountFacts
    <3>. QED  BY <1>1, <1>4, <2>1, <2>2, <3>2
  <2>4. Len(Retained) = 0
    BY <2>1, <2>3
  <2>5. k \in ToSet(order) /\ HasValue(k)
    BY <1>4, ValuesAreListed
  <2>6. ResultSeries \in Seq(Series) /\ \E n \in DOMAIN ResultSeries : TRUE
    BY <1>1, <1>4, <2>5, ResultFacts
  <2>7. Len(ResultSeries) \in Nat \ {0}
    BY <2>6
  <2>8. Len(Retained) = IF Len(ResultSeries) <= budget.series THEN Len(ResultSeries)
                        ELSE budget.series
    BY <1>4, <2>1, RetainedFacts
  <2>. QED  BY <2>2, <2>4, <2>7, <2>8
<1>5. ASSUME IInv, Assembled, status = "empty", metric.kind = "table",
             NEW i \in DOMAIN samples, NEW k \in Keys, samples[i][k] \notin {Absent, Gap}
      PROVE  metric.dropZero /\ samples[i][k].top = 0
  <2>1. rows = TableRows /\ rows = {}
    BY <1>1, <1>3, <1>5 DEF IInv, Staged
  <2>2. Groups = {}
    BY <1>1, <1>5, <2>1, TableFacts
  <2>3. k \in ToSet(order)
    BY <1>5, ValuesAreListed
  <2>4. metric.dropZero /\ ~NonZero(k)
    BY <2>2, <2>3 DEF Groups
  <2>5. i \in Numbers(k)
    BY <1>5 DEF Numbers
  <2>. QED  BY <2>4, <2>5 DEF NonZero
<1>6. ASSUME IInv, Assembled, status = "unsupported", errors # {"unsupported"}
      PROVE  metric.required
  BY <1>1, <1>6 DEF Status
<1>7. IInv => StatusIsHonest
  <2>1. ASSUME IInv, Assembled, status = "empty", NEW i \in DOMAIN samples, NEW k \in Keys
        PROVE  samples[i][k] \in {Absent, Gap} \/ (metric.dropZero /\ samples[i][k].top = 0)
    BY <1>1, <1>4, <1>5, <2>1
  <2>. QED  BY <1>2, <1>3, <1>6, <2>1 DEF StatusIsHonest
<1>. QED  BY <1>7, Invariance, PTL
================================================================================
