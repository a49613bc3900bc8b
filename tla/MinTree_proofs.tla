---------------------------- MODULE MinTree_proofs ----------------------------
(***************************************************************************)
(* Proofs about the methods of Prim and Kruskal, for spanning trees and    *)
(* one cycle trees, on every graph, with any capacities, mandatory arcs    *)
(* and lengths below InfFloat, whatever the order in which the arcs are    *)
(* read: no choice ever has to be taken back.                              *)
(*                                                                         *)
(* The results rest on the exchange of arcs: an arc that crosses a cut can *)
(* be had for one of the tree that crosses the same cut, so that the       *)
(* shortest arc of a cut is part of an optimum that has the arcs chosen    *)
(* before.  The trees of SpanningTree, which a search finds, are first     *)
(* shown to be the sets with an arc fewer than nodes that cross all cuts.  *)
(*                                                                         *)
(* What is returned is then an optimum itself: the tree of Prim's methods  *)
(* grows until a cut has no arc or all nodes are joined, and the sets of   *)
(* Kruskal's method are counted until one is left, which a search directs. *)
(***************************************************************************)
EXTENDS MinTree, FiniteSetTheorems, WellFoundedInduction, TLAPS

\* Induction over the natural numbers, for a set of them.
LEMMA AllNumbers ==
  ASSUME NEW B \in SUBSET Nat, 0 \in B, \A n \in B : n + 1 \in B
  PROVE  B = Nat
<1> SUFFICES ASSUME Nat \ B # {} PROVE FALSE
  OBVIOUS
<1>1. PICK n \in Nat \ B : \A m \in Nat \ B : ~(<<m, n>> \in OpToRel(<, Nat))
  BY NatLessThanWellFounded, WFMin
<1>2. n # 0 /\ n - 1 \in Nat /\ n - 1 < n /\ (n - 1) + 1 = n
  OBVIOUS
<1>3. n - 1 \notin B
  BY <1>1, <1>2
<1> QED
  BY <1>1, <1>2, <1>3 DEF OpToRel

\* Induction on the subsets of a finite set.
LEMMA AllSubsets ==
  ASSUME NEW S, IsFiniteSet(S), NEW C \in SUBSET SUBSET S,
         \A T \in SUBSET S : (\A x \in T : T \ {x} \in C) => T \in C
  PROVE  C = SUBSET S
<1>1. \A T \in SUBSET S : IsFiniteSet(T) /\ Cardinality(T) \in Nat
  BY FS_Subset, FS_CardinalityType
<1> DEFINE B == {n \in Nat : \A T \in SUBSET S : Cardinality(T) = n => T \in C}
<1>2. 0 \in B
  <2>1. \A T \in SUBSET S : Cardinality(T) = 0 => T = {}
    BY <1>1, FS_EmptySet
  <2>2. {} \in C
    OBVIOUS
  <2> QED
    BY <2>1, <2>2
<1>3. ASSUME NEW n \in B PROVE n + 1 \in B
  <2>1. ASSUME NEW T \in SUBSET S, Cardinality(T) = n + 1 PROVE T \in C
    <3>1. ASSUME NEW x \in T PROVE T \ {x} \in C
      <4>1. Cardinality(T \ {x}) = Cardinality(T) - 1
        BY <1>1, FS_RemoveElement
      <4>2. Cardinality(T \ {x}) = n
        BY <2>1, <4>1
      <4> QED
        BY <4>2
    <3> QED
      BY <3>1
  <2> QED
    BY <2>1
<1>4. B = Nat
  <2> HIDE DEF B
  <2>1. B \in SUBSET Nat
    BY DEF B
  <2> QED
    BY <1>2, <1>3, <2>1, AllNumbers
<1>5. ASSUME NEW T \in SUBSET S PROVE T \in C
  <2>1. Cardinality(T) \in B
    BY <1>1, <1>4
  <2> QED
    BY <2>1
<1> QED
  BY <1>5

\* The element that is added next.
AnyOf(X) == CHOOSE x \in X : TRUE

\* One step of the recursion behind TotalLength, and what it defines.
SumStep(f, g, X) == IF X = {} THEN 0 ELSE f[AnyOf(X)] + g[X \ {AnyOf(X)}]

IsSumOf(f, S, g) == g = [X \in SUBSET S |-> SumStep(f, g, X)]

\* The sum of f over S, as TotalLength adds up the lengths of arcs.
Total(f, S) == (CHOOSE g : IsSumOf(f, S, g))[S]

\* A set that is not empty has a member to take out.
LEMMA AnyIsMember ==
  ASSUME NEW X, X # {}
  PROVE  AnyOf(X) \in X
BY DEF AnyOf

\* The sums over all subsets with at most n elements exist, for every n.
LEMMA TotalExists ==
  ASSUME NEW f, NEW S, IsFiniteSet(S)
  PROVE  \E g : IsSumOf(f, S, g)
<1>1. \A T \in SUBSET S : IsFiniteSet(T) /\ Cardinality(T) \in Nat
  BY FS_Subset, FS_CardinalityType
<1> DEFINE Small(n) == {X \in SUBSET S : Cardinality(X) <= n}
           B == {n \in Nat : \E g : g = [X \in Small(n) |-> SumStep(f, g, X)]}
<1>2. 0 \in B
  <2>1. Small(0) = {{}}
    <3>1. \A X \in SUBSET S : Cardinality(X) <= 0 => X = {}
      BY <1>1, FS_EmptySet
    <3> QED
      BY <3>1, FS_EmptySet
  <2> DEFINE g == [X \in Small(0) |-> 0]
  <2>2. g = [X \in Small(0) |-> SumStep(f, g, X)]
    BY <2>1 DEF SumStep
  <2> QED
    BY <2>2
<1>3. ASSUME NEW n \in B PROVE n + 1 \in B
  <2>1. PICK g : g = [X \in Small(n) |-> SumStep(f, g, X)]
    OBVIOUS
  <2> DEFINE h == [X \in Small(n + 1) |-> SumStep(f, g, X)]
  <2>2. ASSUME NEW X \in Small(n + 1) PROVE SumStep(f, g, X) = SumStep(f, h, X)
    <3>1. CASE X = {}
      BY <3>1 DEF SumStep
    <3>2. CASE X # {}
      <4> DEFINE Y == X \ {AnyOf(X)}
      <4>1. AnyOf(X) \in X
        BY <3>2, AnyIsMember
      <4>2. Cardinality(Y) = Cardinality(X) - 1 /\ Y \in SUBSET S
        BY <1>1, <4>1, FS_RemoveElement
      <4>3. Y \in Small(n) /\ Y \in Small(n + 1)
        BY <1>1, <4>2
      <4>4. g[Y] = SumStep(f, g, Y)
        BY <2>1, <4>3
      <4>5. h[Y] = g[Y]
        BY <4>3, <4>4
      <4> QED
        BY <3>2, <4>5 DEF SumStep
    <3> QED
      BY <3>1, <3>2
  <2>3. h = [X \in Small(n + 1) |-> SumStep(f, h, X)]
    <3> HIDE DEF Small
    <3> QED
      BY <2>2, Zenon
  <2>4. n + 1 \in Nat
    OBVIOUS
  <2> HIDE DEF h, Small
  <2> QED
    BY <2>3, <2>4
<1>4. Cardinality(S) \in B
  <2> HIDE DEF B
  <2>1. B \in SUBSET Nat
    BY DEF B
  <2>2. B = Nat
    BY <1>2, <1>3, <2>1, AllNumbers
  <2> QED
    BY <1>1, <2>2
<1>5. Small(Cardinality(S)) = SUBSET S
  BY FS_Subset
<1> HIDE DEF Small
<1> QED
  BY <1>4, <1>5 DEF IsSumOf
\* Whatever set a sum is taken over, its parts are the same.
LEMMA TotalIsUnique ==
  ASSUME NEW f, NEW S, IsFiniteSet(S), NEW T \in SUBSET S,
         NEW g, IsSumOf(f, S, g), NEW h, IsSumOf(f, T, h)
  PROVE  h[T] = g[T]
<1> DEFINE C == {X \in SUBSET T : h[X] = g[X]}
<1>1. ASSUME NEW X \in SUBSET T, \A x \in X : X \ {x} \in C
      PROVE  X \in C
  <2>1. h[X] = SumStep(f, h, X) /\ g[X] = SumStep(f, g, X)
    BY DEF IsSumOf
  <2>2. CASE X = {}
    BY <2>1, <2>2 DEF SumStep
  <2>3. CASE X # {}
    <3>1. X \ {AnyOf(X)} \in C
      BY <1>1, <2>3, AnyIsMember
    <3> QED
      BY <2>1, <2>3, <3>1 DEF SumStep
  <2> QED
    BY <2>2, <2>3
<1>2. IsFiniteSet(T)
  BY FS_Subset
<1> HIDE DEF C
<1>3. C \in SUBSET SUBSET T
  BY DEF C
<1>4. C = SUBSET T
  BY <1>1, <1>2, <1>3, AllSubsets
<1> QED
  BY <1>4 DEF C

\* The recursion: an element is added to the sum over the others.
LEMMA TotalChosen ==
  ASSUME NEW f, NEW S, IsFiniteSet(S)
  PROVE  Total(f, S) = IF S = {} THEN 0 ELSE f[AnyOf(S)] + Total(f, S \ {AnyOf(S)})
<1> DEFINE g == CHOOSE g : IsSumOf(f, S, g)
<1>1. IsSumOf(f, S, g) /\ Total(f, S) = g[S]
  BY TotalExists DEF Total
<1>2. g[S] = SumStep(f, g, S)
  BY <1>1 DEF IsSumOf
<1>3. CASE S = {}
  BY <1>1, <1>2, <1>3 DEF SumStep
<1>4. CASE S # {}
  <2> DEFINE T == S \ {AnyOf(S)}
             h == CHOOSE h : IsSumOf(f, T, h)
  <2>1. IsFiniteSet(T) /\ T \in SUBSET S
    BY FS_RemoveElement
  <2>2. IsSumOf(f, T, h) /\ Total(f, T) = h[T]
    BY <2>1, TotalExists DEF Total
  <2>3. h[T] = g[T]
    <3> HIDE DEF g, h, T
    <3> QED
      BY <1>1, <2>1, <2>2, TotalIsUnique
  <2> HIDE DEF g, h
  <2> QED
    BY <1>1, <1>2, <1>4, <2>2, <2>3 DEF SumStep
<1> QED
  BY <1>3, <1>4

\* The empty sum.
LEMMA TotalOfNothing == \A f : Total(f, {}) = 0
BY TotalChosen, FS_EmptySet

\* A sum of integers is an integer.
LEMMA TotalIsInteger ==
  ASSUME NEW f, NEW S, IsFiniteSet(S), \A a \in S : f[a] \in Int
  PROVE  Total(f, S) \in Int
<1> DEFINE C == {T \in SUBSET S : Total(f, T) \in Int}
<1>1. ASSUME NEW T \in SUBSET S, \A x \in T : T \ {x} \in C
      PROVE  T \in C
  <2>1. IsFiniteSet(T)
    BY FS_Subset
  <2>2. CASE T = {}
    BY <2>2, TotalOfNothing
  <2>3. CASE T # {}
    <3>1. AnyOf(T) \in T /\ T \ {AnyOf(T)} \in C
      BY <1>1, <2>3, AnyIsMember
    <3>2. Total(f, T) = f[AnyOf(T)] + Total(f, T \ {AnyOf(T)})
      BY <2>1, <2>3, TotalChosen
    <3> QED
      BY <3>1, <3>2
  <2> QED
    BY <2>2, <2>3
<1> HIDE DEF C
<1>2. C = SUBSET S
  <2>1. C \in SUBSET SUBSET S
    BY DEF C
  <2> QED
    BY <1>1, <2>1, AllSubsets
<1> QED
  BY <1>2 DEF C

\* The order does not matter: any element may be the last one.
LEMMA TotalWithout ==
  ASSUME NEW f, NEW S, IsFiniteSet(S), \A a \in S : f[a] \in Int, NEW a \in S
  PROVE  Total(f, S) = f[a] + Total(f, S \ {a})
<1> DEFINE C == {T \in SUBSET S : \A x \in T : Total(f, T) = f[x] + Total(f, T \ {x})}
<1>1. ASSUME NEW T \in SUBSET S, \A x \in T : T \ {x} \in C
      PROVE  T \in C
  <2>1. IsFiniteSet(T) /\ \A X \in SUBSET T : Total(f, X) \in Int
    BY FS_Subset, TotalIsInteger
  <2> SUFFICES ASSUME NEW x \in T PROVE Total(f, T) = f[x] + Total(f, T \ {x})
    OBVIOUS
  <2> DEFINE c == AnyOf(T)
  <2>2. c \in T /\ Total(f, T) = f[c] + Total(f, T \ {c})
    BY <2>1, TotalChosen, AnyIsMember
  <2>3. CASE x = c
    BY <2>2, <2>3
  <2>4. CASE x # c
    <3>1. Total(f, T \ {c}) = f[x] + Total(f, (T \ {c}) \ {x})
      BY <1>1, <2>2, <2>4
    <3>2. Total(f, T \ {x}) = f[c] + Total(f, (T \ {x}) \ {c})
      BY <1>1, <2>2, <2>4
    <3>3. (T \ {c}) \ {x} = (T \ {x}) \ {c}
      OBVIOUS
    <3> HIDE DEF c
    <3>4. PICK z \in Int : z = Total(f, (T \ {x}) \ {c})
      BY <2>1, <2>2
    <3>5. Total(f, T \ {c}) = f[x] + z
      BY <3>1, <3>3, <3>4
    <3>6. Total(f, T \ {x}) = f[c] + z
      BY <3>2, <3>4
    <3> QED
      BY <2>2, <3>5, <3>6
  <2> QED
    BY <2>3, <2>4
<1> HIDE DEF C
<1>2. C = SUBSET S
  <2>1. C \in SUBSET SUBSET S
    BY DEF C
  <2> QED
    BY <1>1, <2>1, AllSubsets
<1> QED
  BY <1>2 DEF C

\* A function can be applied again and again, from any value.
LEMMA IterationExists ==
  ASSUME NEW D, NEW F \in [D -> D], NEW a \in D
  PROVE  \E g : /\ g = [k \in Nat |-> IF k = 0 THEN a ELSE F[g[k - 1]]]
                /\ g \in [Nat -> D]
<1> DEFINE Begins(h, n) == /\ h \in [0 .. n -> D] /\ h[0] = a
                           /\ \A k \in 0 .. n - 1 : h[k + 1] = F[h[k]]
           B == {n \in Nat : \E h : Begins(h, n)}
<1>1. B = Nat
  <2>1. 0 \in B
    <3>1. Begins([k \in 0 .. 0 |-> a], 0)
      OBVIOUS
    <3> HIDE DEF Begins
    <3> QED
      BY <3>1
  <2>2. ASSUME NEW n \in B PROVE n + 1 \in B
    <3>1. PICK h : Begins(h, n)
      OBVIOUS
    <3> DEFINE e == [k \in 0 .. n + 1 |-> IF k = n + 1 THEN F[h[n]] ELSE h[k]]
    <3>2. n \in Nat /\ h[n] \in D /\ F[h[n]] \in D
      BY <3>1
    <3>3. e \in [0 .. n + 1 -> D]
      BY <3>1, <3>2
    <3>4. e[0] = a
      BY <3>1, <3>2
    <3>5. ASSUME NEW k \in 0 .. (n + 1) - 1 PROVE e[k + 1] = F[e[k]]
      <4>1. k \in Nat /\ k <= n /\ e[k] = h[k]
        BY <3>2
      <4>2. CASE k = n
        BY <3>2, <4>1, <4>2
      <4>3. CASE k # n
        <5>1. k \in 0 .. n - 1 /\ k + 1 \in 0 .. n + 1 /\ k + 1 # n + 1
          BY <3>2, <4>1, <4>3
        <5> QED
          BY <3>1, <4>1, <5>1
      <4> QED
        BY <4>2, <4>3
    <3>6. Begins(e, n + 1)
      BY <3>3, <3>4, <3>5
    <3> HIDE DEF Begins, e
    <3> QED
      BY <3>2, <3>6
  <2> HIDE DEF B
  <2>3. B \in SUBSET Nat
    BY DEF B
  <2> QED
    BY <2>1, <2>2, <2>3, AllNumbers
<1> DEFINE part(n) == CHOOSE h : Begins(h, n)
           g == [k \in Nat |-> part(k)[k]]
<1>2. \A n \in Nat : Begins(part(n), n)
  <2> HIDE DEF Begins
  <2> QED
    BY <1>1
<1> HIDE DEF part
<1>3. ASSUME NEW n \in Nat, NEW k \in Nat, k < n
      PROVE  part(n)[k + 1] = F[part(n)[k]]
  <2>1. k \in 0 .. n - 1
    BY <1>3
  <2> QED
    BY <1>2, <2>1
<1> DEFINE E == {k \in Nat : \A n, m \in Nat : k <= n /\ k <= m => part(n)[k] = part(m)[k]}
<1>4. E = Nat
  <2>1. 0 \in E
    BY <1>2
  <2>2. ASSUME NEW k \in E PROVE k + 1 \in E
    <3> SUFFICES ASSUME NEW n \in Nat, NEW m \in Nat, k + 1 <= n, k + 1 <= m
                 PROVE  part(n)[k + 1] = part(m)[k + 1]
      OBVIOUS
    <3>1. k \in Nat /\ k < n /\ k < m /\ k <= n /\ k <= m
      OBVIOUS
    <3>2. part(n)[k] = part(m)[k]
      BY <3>1
    <3> QED
      BY <1>3, <3>1, <3>2
  <2> HIDE DEF E
  <2>3. E \in SUBSET Nat
    BY DEF E
  <2> QED
    BY <2>1, <2>2, <2>3, AllNumbers
<1>5. ASSUME NEW k \in Nat
      PROVE  g[k] \in D /\ g[k] = IF k = 0 THEN a ELSE F[g[k - 1]]
  <2>1. part(k)[k] \in D /\ part(0)[0] = a
    BY <1>2
  <2>2. CASE k = 0
    BY <2>1, <2>2
  <2>3. CASE k # 0
    <3>1. k - 1 \in Nat /\ k - 1 < k /\ (k - 1) + 1 = k
      BY <2>3
    <3>2. part(k)[k] = F[part(k)[k - 1]]
      BY <1>3, <3>1
    <3>3. part(k)[k - 1] = part(k - 1)[k - 1]
      BY <1>4, <3>1
    <3> QED
      BY <2>1, <2>3, <3>1, <3>2, <3>3
  <2> QED
    BY <2>2, <2>3
<1> HIDE DEF part
<1>6. g = [k \in Nat |-> IF k = 0 THEN a ELSE F[g[k - 1]]]
  BY <1>5
<1>7. g \in [Nat -> D]
  BY <1>5
<1> HIDE DEF g
<1> QED
  BY <1>6, <1>7

\* An ascending chain.
LEMMA ChainAscends ==
  ASSUME NEW near, \A k \in Nat : near[k] \subseteq near[k + 1],
         NEW i \in Nat, NEW j \in Nat, i <= j
  PROVE  near[i] \subseteq near[j]
<1> DEFINE A == {m \in Nat : i <= m => near[i] \subseteq near[m]}
<1>1. 0 \in A
  OBVIOUS
<1>2. ASSUME NEW m \in A PROVE m + 1 \in A
  <2>1. near[m] \subseteq near[m + 1] /\ m \in Nat
    OBVIOUS
  <2>2. CASE i <= m
    BY <2>1, <2>2
  <2>3. CASE ~(i <= m)
    <3>1. i <= m + 1 => i = m + 1
      BY <2>1, <2>3
    <3> QED
      BY <2>1, <3>1
  <2> QED
    BY <2>2, <2>3
<1>3. A = Nat
  <2> HIDE DEF A
  <2>1. A \in SUBSET Nat
    BY DEF A
  <2> QED
    BY <1>1, <1>2, <2>1, AllNumbers
<1> QED
  BY <1>3


-----------------------------------------------------------------------------
\* Trees as sets of arcs that cross every cut.
Crosses(a, S) == \/ From[a] \in S /\ To[a] \notin S
                 \/ From[a] \notin S /\ To[a] \in S

\* Every cut of V is crossed by an arc of A.
Connects(A, V) == \A S \in SUBSET V : S # {} /\ S # V => \E a \in A : Crosses(a, S)

\* The nodes that an arc joins to S, too.
Wider(A, V, S) == S \cup {v \in V : \E a \in A, y \in S : Joins(a, y, v)}

\* The search from x, as a sequence of sets.
LEMMA SearchSteps ==
  ASSUME NEW V, NEW A, NEW x \in V, IsFiniteSet(V)
  PROVE  \E near : /\ near \in [Nat -> SUBSET V]
                   /\ near[0] = {x}
                   /\ \A k \in Nat : near[k + 1] = Wider(A, V, near[k])
                   /\ Reached(A, V, x, Joins) = near[Cardinality(V)]
<1> DEFINE F == [S \in SUBSET V |-> Wider(A, V, S)]
<1>1. F \in [SUBSET V -> SUBSET V] /\ {x} \in SUBSET V
  BY DEF Wider
<1>2. PICK g : /\ g = [k \in Nat |-> IF k = 0 THEN {x} ELSE F[g[k - 1]]]
               /\ g \in [Nat -> SUBSET V]
  <2> DEFINE W == SUBSET V
  <2>1. F \in [W -> W] /\ {x} \in W
    BY <1>1
  <2> HIDE DEF F, W
  <2>2. \E g : /\ g = [k \in Nat |-> IF k = 0 THEN {x} ELSE F[g[k - 1]]]
               /\ g \in [Nat -> W]
    BY <2>1, IterationExists
  <2> QED
    BY <2>2 DEF W
<1>3. ASSUME NEW k \in Nat, k # 0 PROVE F[g[k - 1]] = Wider(A, V, g[k - 1])
  <2>1. k - 1 \in Nat
    BY <1>3
  <2>2. g[k - 1] \in SUBSET V
    <3> HIDE DEF F
    <3> QED
      BY <1>2, <2>1
  <2> QED
    BY <2>2
<1>4. g = [k \in Nat |-> IF k = 0 THEN {x} ELSE Wider(A, V, g[k - 1])]
  <2> HIDE DEF F
  <2>1. \A k \in Nat : (IF k = 0 THEN {x} ELSE F[g[k - 1]])
                          = IF k = 0 THEN {x} ELSE Wider(A, V, g[k - 1])
    BY <1>3
  <2> QED
    BY <1>2, <2>1, Zenon
<1> DEFINE Search(near) == near = [k \in Nat |-> IF k = 0 THEN {x} ELSE Wider(A, V, near[k - 1])]
<1>5. PICK near : near = CHOOSE h : Search(h)
  OBVIOUS
<1>6. Search(near)
  BY <1>4, <1>5, Zenon
<1>7. Reached(A, V, x, Joins) = near[Cardinality(V)]
  BY <1>5, Zenon DEF Reached, Wider
<1>8. near[0] = {x} /\ \A k \in Nat : near[k + 1] = Wider(A, V, near[k])
  BY <1>6
<1>9. near \in [Nat -> SUBSET V]
  <2> DEFINE B == {k \in Nat : near[k] \in SUBSET V}
  <2>1. 0 \in B /\ \A k \in B : k + 1 \in B
    BY <1>1, <1>8 DEF Wider
  <2>2. B = Nat
    <3> HIDE DEF B
    <3>1. B \in SUBSET Nat
      BY DEF B
    <3> QED
      BY <2>1, <3>1, AllNumbers
  <2>3. DOMAIN near = Nat /\ near = [k \in Nat |-> near[k]]
    BY <1>6, Zenon
  <2>4. \A k \in Nat : near[k] \in SUBSET V
    BY <2>2
  <2> HIDE DEF B, Search
  <2> QED
    BY <2>3, <2>4
<1> QED
  BY <1>7, <1>8, <1>9

\* A search reaches all nodes from each of them if and only if arcs cross every cut.
LEMMA ConnectedIsReached ==
  ASSUME NEW V \in SUBSET Nodes, IsFiniteSet(V), NEW A \in SUBSET Inside(V)
  PROVE  (\A x \in V : Reached(A, V, x, Joins) = V) <=> Connects(A, V)
<1>a. \A a \in A : From[a] \in V /\ To[a] \in V
  BY DEF Inside
<1>1. ASSUME \A x \in V : Reached(A, V, x, Joins) = V,
             NEW S \in SUBSET V, S # {}, S # V, ~\E a \in A : Crosses(a, S)
      PROVE  FALSE
  <2>1. PICK x \in S : TRUE
    BY <1>1
  <2>2. PICK near : /\ near \in [Nat -> SUBSET V]
                    /\ near[0] = {x}
                    /\ \A k \in Nat : near[k + 1] = Wider(A, V, near[k])
                    /\ Reached(A, V, x, Joins) = near[Cardinality(V)]
    <3>1. x \in V
      OBVIOUS
    <3> QED
      BY <3>1, SearchSteps
  <2> DEFINE B == {k \in Nat : near[k] \subseteq S}
  <2>3. 0 \in B
    BY <2>2
  <2>4. ASSUME NEW k \in B PROVE k + 1 \in B
    <3>1. near[k + 1] = Wider(A, V, near[k]) /\ near[k] \subseteq S
      BY <2>2
    <3>2. ASSUME NEW v \in V, NEW a \in A, NEW y \in S, Joins(a, y, v)
          PROVE  v \in S
      <4>1. {From[a], To[a]} = {y, v}
        BY <3>2 DEF Joins
      <4>2. \/ From[a] = y /\ To[a] = v
            \/ From[a] = v /\ To[a] = y
        BY <4>1
      <4> QED
        BY <1>1, <4>2 DEF Crosses
    <3>3. Wider(A, V, near[k]) \subseteq S
      BY <3>1, <3>2 DEF Wider
    <3> QED
      BY <3>1, <3>3
  <2>5. B = Nat
    <3> HIDE DEF B
    <3>1. B \in SUBSET Nat
      BY DEF B
    <3> QED
      BY <2>3, <2>4, <3>1, AllNumbers
  <2>6. Cardinality(V) \in Nat
    BY FS_CardinalityType
  <2>7. Reached(A, V, x, Joins) \subseteq S
    BY <2>2, <2>5, <2>6
  <2> QED
    BY <1>1, <2>7
<1>2. ASSUME Connects(A, V), NEW x \in V
      PROVE  Reached(A, V, x, Joins) = V
  <2>2. PICK near : /\ near \in [Nat -> SUBSET V]
                    /\ near[0] = {x}
                    /\ \A k \in Nat : near[k + 1] = Wider(A, V, near[k])
                    /\ Reached(A, V, x, Joins) = near[Cardinality(V)]
    BY SearchSteps
  <2>3. \A k \in Nat : near[k] \subseteq V /\ IsFiniteSet(near[k])
    BY <2>2, FS_Subset
  <2> DEFINE B == {k \in Nat : near[k] = V \/ (Cardinality(near[k]) > k /\ near[k] # {})}
  <2>4. 0 \in B
    <3>1. Cardinality({x}) = 1
      BY FS_Singleton
    <3> QED
      BY <2>2, <3>1
  <2>5. ASSUME NEW k \in B PROVE k + 1 \in B
    <3>0. k \in Nat /\ k + 1 \in Nat
      OBVIOUS
    <3>1. near[k + 1] = Wider(A, V, near[k]) /\ near[k] \subseteq near[k + 1]
      BY <2>2 DEF Wider
    <3>2. CASE near[k] = V
      <4>1. near[k + 1] = V
        BY <2>3, <3>0, <3>1, <3>2
      <4> QED
        BY <4>1
    <3>3. CASE near[k] # V
      <4>1. Cardinality(near[k]) > k /\ near[k] # {}
        BY <3>3
      <4>2. PICK a \in A : Crosses(a, near[k])
        BY <1>2, <2>3, <3>3, <4>1 DEF Connects
      <4>3. \E v \in V \ near[k], y \in near[k] : Joins(a, y, v)
        BY <1>a, <4>2 DEF Crosses, Joins
      <4>4. PICK v \in V \ near[k] : v \in near[k + 1]
        BY <3>1, <4>3 DEF Wider
      <4>5. near[k] \cup {v} \subseteq near[k + 1]
        BY <3>1, <4>4
      <4>6. Cardinality(near[k] \cup {v}) = Cardinality(near[k]) + 1
        BY <2>3, <4>4, FS_AddElement
      <4>7. Cardinality(near[k] \cup {v}) <= Cardinality(near[k + 1])
        BY <2>3, <3>0, <4>5, FS_Subset
      <4>8. Cardinality(near[k]) \in Nat /\ Cardinality(near[k + 1]) \in Nat
        BY <2>3, <3>0, FS_CardinalityType
      <4>9. Cardinality(near[k + 1]) > k + 1
        BY <3>0, <4>1, <4>6, <4>7, <4>8
      <4> QED
        BY <3>1, <4>1, <4>9
    <3> QED
      BY <3>2, <3>3
  <2>6. B = Nat
    <3> HIDE DEF B
    <3>1. B \in SUBSET Nat
      BY DEF B
    <3> QED
      BY <2>4, <2>5, <3>1, AllNumbers
  <2>7. Cardinality(V) \in Nat
    BY FS_CardinalityType
  <2>8. near[Cardinality(V)] = V \/ Cardinality(near[Cardinality(V)]) > Cardinality(V)
    BY <2>6, <2>7
  <2>9. Cardinality(near[Cardinality(V)]) <= Cardinality(V)
    BY <2>3, <2>7, FS_Subset
  <2> QED
    <3>1. PICK X : X = near[Cardinality(V)] /\ IsFiniteSet(X) /\ X \subseteq V
      BY <2>3, <2>7
    <3>2. Cardinality(X) \in Nat
      BY <3>1, FS_CardinalityType
    <3> QED
      BY <2>2, <2>7, <2>8, <2>9, <3>1, <3>2
<1> QED
  BY <1>1, <1>2 DEF Connects

\* When an arc crosses the cut X, it can replace one of a connected set that does.
LEMMA Exchange ==
  ASSUME NEW V \in SUBSET Nodes, NEW A \in SUBSET Inside(V), Connects(A, V),
         NEW X \in SUBSET V, NEW a \in Inside(V), Crosses(a, X)
  PROVE  \E b \in A : Crosses(b, X) /\ Connects((A \ {b}) \cup {a}, V)
<1> SUFFICES ASSUME \A b \in A : Crosses(b, X) => ~Connects((A \ {b}) \cup {a}, V)
             PROVE  FALSE
  OBVIOUS
<1>a. \A c \in A : From[c] \in V /\ To[c] \in V
  BY DEF Inside
<1>1. PICK u \in X, w \in V \ X : {From[a], To[a]} = {u, w}
  BY DEF Crosses, Inside
<1>2. \A S : ~Crosses(a, S) => (u \in S <=> w \in S)
  <2>1. (From[a] = u /\ To[a] = w) \/ (From[a] = w /\ To[a] = u)
    BY <1>1
  <2> QED
    BY <2>1 DEF Crosses
<1> DEFINE Parts(b, S) == /\ u \in S /\ w \in S /\ S \in SUBSET V
                          /\ Crosses(b, S)
                          /\ \A c \in A : Crosses(c, S) => c = b
<1>3. ASSUME NEW b \in A, Crosses(b, X) PROVE \E S : Parts(b, S)
  <2>1. PICK S \in SUBSET V : /\ S # {} /\ S # V
                              /\ \A c \in (A \ {b}) \cup {a} : ~Crosses(c, S)
    BY <1>3 DEF Connects
  <2>2. u \in S <=> w \in S
    BY <1>2, <2>1
  <2>3. PICK c \in A : Crosses(c, S)
    BY <2>1 DEF Connects
  <2>4. Crosses(b, S) /\ \A d \in A : Crosses(d, S) => d = b
    BY <2>1, <2>3
  <2>5. CASE u \in S
    BY <2>2, <2>4, <2>5
  <2>6. CASE u \notin S
    <3>1. \A d \in A : Crosses(d, V \ S) <=> Crosses(d, S)
      BY <1>a DEF Crosses
    <3>2. Parts(b, V \ S)
      BY <1>1, <2>2, <2>4, <2>6, <3>1
    <3> HIDE DEF Parts
    <3> QED
      BY <3>2
  <2> QED
    BY <2>5, <2>6
<1> DEFINE Part(b) == CHOOSE S : Parts(b, S)
           D == {b \in A : Crosses(b, X)}
           T == {v \in V : \A b \in D : v \in Part(b)}
           Q == {b \in D : \E t \in T \cap X, q \in V \ T : {From[b], To[b]} = {t, q}}
           Z == (T \cap X) \cup {v \in V : \E b \in Q : v \notin Part(b)}
<1>4. \A b \in D : Parts(b, Part(b))
  <2> HIDE DEF Parts
  <2> QED
    BY <1>3
<1> HIDE DEF Part
<1>5. u \in Z /\ w \notin Z /\ Z \subseteq V
  BY <1>1, <1>4
<1>6. ASSUME NEW c \in A, NEW p \in Z, NEW q \in V \ Z, {From[c], To[c]} = {p, q}
      PROVE  FALSE
  <2>0. (From[c] = p /\ To[c] = q) \/ (From[c] = q /\ To[c] = p)
    BY <1>6
  <2>1. CASE p \in T \cap X
    <3>1. CASE q \in T
      <4>1. q \notin X
        BY <3>1
      <4>2. c \in D
        BY <2>0, <2>1, <4>1 DEF Crosses
      <4>3. p \in Part(c) /\ q \in Part(c)
        BY <2>1, <3>1, <4>2
      <4>4. Crosses(c, Part(c))
        BY <1>4, <4>2
      <4> QED
        BY <2>0, <4>3, <4>4 DEF Crosses
    <3>2. CASE q \notin T
      <4>1. PICK b \in D : q \notin Part(b)
        BY <3>2
      <4>2. p \in Part(b)
        BY <2>1
      <4>3. Crosses(c, Part(b))
        BY <2>0, <4>1, <4>2 DEF Crosses
      <4>4. c = b
        BY <1>4, <4>3
      <4>5. c \in Q
        BY <1>6, <2>1, <3>2, <4>4
      <4> QED
        BY <4>1, <4>4, <4>5
    <3> QED
      BY <3>1, <3>2
  <2>2. CASE p \notin T \cap X
    <3>1. PICK b \in Q : p \notin Part(b)
      BY <2>2
    <3>2. q \in Part(b)
      BY <3>1
    <3>3. Crosses(c, Part(b))
      BY <2>0, <3>1, <3>2 DEF Crosses
    <3>4. c = b
      BY <1>4, <3>3
    <3>5. PICK t \in T \cap X, s \in V \ T : {From[b], To[b]} = {t, s}
      OBVIOUS
    <3>6. p \notin T
      BY <3>1
    <3>7. q = t
      BY <2>0, <3>4, <3>5, <3>6
    <3> QED
      BY <3>7
  <2> QED
    BY <2>1, <2>2
<1> HIDE DEF Z
<1>7. PICK c \in A : Crosses(c, Z)
  BY <1>1, <1>5 DEF Connects
<1>8. \E p \in Z, q \in V \ Z : {From[c], To[c]} = {p, q}
  BY <1>a, <1>7 DEF Crosses
<1> QED
  BY <1>6, <1>8

-----------------------------------------------------------------------------
\* Trees, and what the exchange of an arc does to them.
LEMMA NodesAreFinite == IsFiniteSet(Nodes)
BY FS_Interval, GraphType DEF Nodes

\* The trees with the nodes in V are the sets with an arc fewer than nodes that cross every
\* cut: what the search of Reached finds.
LEMMA TreesConnect ==
  ASSUME NEW V \in SUBSET Nodes, NEW A
  PROVE  A \in Trees(V) <=> /\ A \in SUBSET Inside(V)
                            /\ Cardinality(A) = Cardinality(V) - 1
                            /\ Connects(A, V)
<1>1. IsFiniteSet(V)
  BY NodesAreFinite, FS_Subset
<1>2. A \in SUBSET Inside(V) =>
        ((\A x \in V : Reached(A, V, x, Joins) = V) <=> Connects(A, V))
  BY <1>1, ConnectedIsReached
<1> QED
  BY <1>2 DEF Trees

\* Sets of arcs can be counted.
LEMMA ArcSetsAreFinite == \A A \in SUBSET Arcs : IsFiniteSet(A) /\ Cardinality(A) \in Nat
BY GraphType, FS_Subset, FS_CardinalityType

\* An arc for another one.
Swapped(A, b, a) == (A \ {b}) \cup {a}

\* An arc for another one leaves the number as it is.
LEMMA SwapKeepsSize ==
  ASSUME NEW A \in SUBSET Arcs, NEW a \in Arcs \ A, NEW b \in A
  PROVE  Cardinality(Swapped(A, b, a)) = Cardinality(A)
<1>1. IsFiniteSet(A) /\ Cardinality(A) \in Nat /\ IsFiniteSet(A \ {b})
  BY ArcSetsAreFinite
<1>2. Cardinality(A \ {b}) = Cardinality(A) - 1
  BY <1>1, FS_RemoveElement
<1>3. Cardinality((A \ {b}) \cup {a}) = Cardinality(A \ {b}) + 1
  BY <1>1, FS_AddElement
<1> QED
  BY <1>1, <1>2, <1>3 DEF Swapped

\* An arc that is not in a tree can be had for another one that crosses the same cut.
LEMMA TreeExchange ==
  ASSUME NEW V \in SUBSET Nodes, NEW A \in Trees(V),
         NEW X \in SUBSET V, NEW a \in Inside(V) \ A, Crosses(a, X)
  PROVE  \E b \in A : Crosses(b, X) /\ Swapped(A, b, a) \in Trees(V)
<1>1. A \in SUBSET Inside(V) /\ Cardinality(A) = Cardinality(V) - 1 /\ Connects(A, V)
  BY TreesConnect
<1>2. PICK b \in A : Crosses(b, X) /\ Connects(Swapped(A, b, a), V)
  BY <1>1, Exchange DEF Swapped
<1>3. A \in SUBSET Arcs /\ a \in Arcs
  BY <1>1 DEF Inside
<1>4. Cardinality(Swapped(A, b, a)) = Cardinality(A)
  BY <1>3, SwapKeepsSize
<1>5. Swapped(A, b, a) \in SUBSET Inside(V)
  BY <1>1 DEF Swapped
<1>6. Swapped(A, b, a) \in Trees(V)
  BY <1>1, <1>2, <1>4, <1>5, TreesConnect
<1> QED
  BY <1>2, <1>6

-----------------------------------------------------------------------------
\* The length of a set of arcs.
LEMMA LengthIsTotal == \A A : TotalLength(A) = Total(len, A)
BY Zenon DEF TotalLength, Total, IsSumOf, SumStep, AnyOf

\* One summand more.
LEMMA TotalWith ==
  ASSUME NEW f, NEW S, IsFiniteSet(S), \A x \in S : f[x] \in Int,
         NEW a, a \notin S, f[a] \in Int
  PROVE  Total(f, S \cup {a}) = f[a] + Total(f, S)
<1>1. IsFiniteSet(S \cup {a}) /\ \A x \in S \cup {a} : f[x] \in Int
  BY FS_AddElement
<1>2. (S \cup {a}) \ {a} = S /\ a \in S \cup {a}
  OBVIOUS
<1> QED
  BY <1>1, <1>2, TotalWithout

\* What it costs to have an arc for another one.
LEMMA SwapLength ==
  ASSUME len \in [Arcs -> Int], NEW A \in SUBSET Arcs, NEW a \in Arcs \ A, NEW b \in A
  PROVE  TotalLength(A) \in Int /\ TotalLength(Swapped(A, b, a)) = TotalLength(A) - len[b] + len[a]
<1> PICK f : f = len
  OBVIOUS
<1>1. f \in [Arcs -> Int] /\ f[a] \in Int /\ f[b] \in Int
  OBVIOUS
<1>2. IsFiniteSet(A) /\ IsFiniteSet(A \ {b}) /\ \A x \in A : f[x] \in Int
  BY <1>1, ArcSetsAreFinite
<1>3. Total(f, A) \in Int /\ Total(f, A \ {b}) \in Int
  BY <1>2, TotalIsInteger
<1>4. Total(f, A) = f[b] + Total(f, A \ {b})
  BY <1>2, TotalWithout
<1>5. Total(f, Swapped(A, b, a)) = f[a] + Total(f, A \ {b})
  BY <1>1, <1>2, TotalWith DEF Swapped
<1>6. TotalLength(A) = Total(f, A) /\ TotalLength(Swapped(A, b, a)) = Total(f, Swapped(A, b, a))
  BY LengthIsTotal
<1> QED
  BY <1>1, <1>3, <1>4, <1>5, <1>6

\* Every nonempty set of natural numbers has a least member.
LEMMA LeastNumber ==
  ASSUME NEW S \in SUBSET Nat, S # {}
  PROVE  \E x \in S : \A y \in S : x <= y
<1>1. PICK x \in S : \A y \in S : ~(<<y, x>> \in OpToRel(<, Nat))
  BY NatLessThanWellFounded, WFMin
<1>2. ASSUME NEW y \in S PROVE x <= y
  <2>1. x \in Nat /\ y \in Nat
    OBVIOUS
  <2>2. ~(y < x)
    BY <1>1, <2>1 DEF OpToRel
  <2> QED
    BY <2>1, <2>2
<1> QED
  BY <1>2

\* A function on a finite set takes a least value: the one with the fewest below it.
LEMMA LeastValue ==
  ASSUME NEW S, IsFiniteSet(S), S # {}, NEW f \in [S -> Int]
  PROVE  \E x \in S : \A y \in S : f[x] <= f[y]
<1> DEFINE Below(x) == {y \in S : f[y] < f[x]}
           C == {Cardinality(Below(x)) : x \in S}
<1>1. \A x \in S : IsFiniteSet(Below(x)) /\ Cardinality(Below(x)) \in Nat
  BY FS_Subset, FS_CardinalityType
<1>2. PICK n \in C : \A m \in C : n <= m
  <2>1. C \in SUBSET Nat /\ C # {}
    BY <1>1
  <2> HIDE DEF C
  <2> QED
    BY <2>1, LeastNumber
<1>3. PICK x \in S : n = Cardinality(Below(x))
  BY DEF C
<1>4. ASSUME NEW y \in S, f[y] < f[x] PROVE FALSE
  <2>1. Below(y) \in SUBSET Below(x) /\ y \in Below(x) /\ y \notin Below(y)
    <3>1. f[x] \in Int /\ f[y] \in Int /\ ~(f[y] < f[y])
      OBVIOUS
    <3>2. ASSUME NEW z \in S, f[z] < f[y] PROVE f[z] < f[x]
      <4>1. f[z] \in Int
        OBVIOUS
      <4> QED
        BY <1>4, <3>1, <3>2, <4>1
    <3> QED
      BY <1>4, <3>1, <3>2
  <2>2. Cardinality(Below(y)) <= Cardinality(Below(x))
        /\ Cardinality(Below(y)) # Cardinality(Below(x))
    BY <1>1, <2>1, FS_Subset
  <2>3. Cardinality(Below(x)) <= Cardinality(Below(y))
    BY <1>2, <1>3 DEF C
  <2> HIDE DEF Below
  <2> QED
    BY <1>1, <2>2, <2>3
<1>5. \A y \in S : f[x] \in Int /\ f[y] \in Int
  OBVIOUS
<1> HIDE DEF Below, C
<1> QED
  BY <1>4, <1>5

-----------------------------------------------------------------------------
\* What the optima are: the solutions with the best length.
IsBest(A) == \A B \in Solutions : sign * TotalLength(A) <= sign * TotalLength(B)

\* No solution has an arc without capacity.
LEMMA SolutionsAreArcs == Solutions \subseteq SUBSET usable
BY DEF Solutions

\* An optimum is a solution that none is better than, and there is one if there is a
\* solution: the arcs are finite in number.
LEMMA OptimaAreLeast ==
  ASSUME len \in [Arcs -> Int], usable \in SUBSET Arcs, sign \in {1, -1}
  PROVE  /\ \A A : A \in Optima <=> A \in Solutions /\ IsBest(A)
         /\ Solutions # {} => Optima # {}
<1>1. \A A \in Solutions : sign * TotalLength(A) \in Int
  <2> PICK f : f = len
    OBVIOUS
  <2> SUFFICES ASSUME NEW A \in Solutions PROVE sign * TotalLength(A) \in Int
    OBVIOUS
  <2>1. A \in SUBSET Arcs
    BY SolutionsAreArcs
  <2>2. IsFiniteSet(A) /\ \A x \in A : f[x] \in Int
    BY <2>1, ArcSetsAreFinite
  <2>3. Total(f, A) \in Int
    BY <2>2, TotalIsInteger
  <2>4. TotalLength(A) \in Int
    BY <2>3, LengthIsTotal
  <2> QED
    BY <2>4
<1>2. IsFiniteSet(Solutions)
  <2>1. IsFiniteSet(SUBSET Arcs) /\ Solutions \in SUBSET SUBSET Arcs
    BY GraphType, FS_SUBSET, SolutionsAreArcs
  <2> QED
    BY <2>1, FS_Subset
<1> DEFINE length == [A \in Solutions |-> sign * TotalLength(A)]
           values == {length[A] : A \in DOMAIN length}
<1>3. Optima = {A \in DOMAIN length : length[A] = Min(values)}
  BY Zenon DEF Optima
<1>4. CASE Solutions = {}
  BY <1>3, <1>4
<1>5. CASE Solutions # {}
  <2>0. length \in [Solutions -> Int]
    BY <1>1
  <2>1. PICK B \in Solutions : \A A \in Solutions : length[B] <= length[A]
    <3> HIDE DEF length
    <3> QED
      BY <1>2, <1>5, <2>0, LeastValue
  <2>2. length[B] \in values /\ \A x \in values : length[B] <= x
    BY <2>0, <2>1
  <2>3. Min(values) \in values /\ \A x \in values : Min(values) <= x
    <3> HIDE DEF values
    <3> QED
      BY <2>2, Zenon DEF Min
  <2>4. Min(values) = length[B]
    <3>1. values \subseteq Int
      BY <2>0
    <3> HIDE DEF values, length
    <3>2. length[B] \in Int /\ Min(values) \in Int /\ length[B] <= Min(values) /\ Min(values) <= length[B]
      BY <2>2, <2>3, <3>1
    <3> QED
      BY <3>2
  <2>5. \A A : A \in Optima <=> A \in Solutions /\ length[A] = length[B]
    BY <1>3, <2>4
  <2>6. \A A \in Solutions : length[A] = length[B] <=> \A C \in Solutions : length[A] <= length[C]
    <3> SUFFICES ASSUME NEW A \in Solutions
                 PROVE  length[A] = length[B] <=> \A C \in Solutions : length[A] <= length[C]
      OBVIOUS
    <3> HIDE DEF length
    <3>1. length[A] \in Int /\ length[B] \in Int /\ length[B] <= length[A]
      BY <2>0, <2>1
    <3> QED
      BY <2>1, <3>1
  <2>7. \A A \in Solutions : IsBest(A) <=> \A C \in Solutions : length[A] <= length[C]
    BY DEF IsBest
  <2> HIDE DEF length
  <2> QED
    BY <2>5, <2>6, <2>7
<1> QED
  BY <1>4, <1>5

-----------------------------------------------------------------------------
\* The nodes of the tree that the greedy methods build: in a one cycle tree the root is left
\* for later, with two arcs.
Verts == IF cycle THEN Nodes \ {r} ELSE Nodes

\* The arcs of a solution that are not at the root of its cycle.
Tree(A) == IF cycle THEN A \ AtRoot ELSE A

\* The types that are needed of a call.
CallInv == /\ len \in [Arcs -> Int]
           /\ usable \in SUBSET Arcs /\ mandatory \in SUBSET usable
           /\ cycle \in BOOLEAN /\ sign \in {1, -1}

\* What the tree has to reach are nodes of the graph.
LEMMA VertsAreNodes == Verts \in SUBSET Nodes
BY DEF Verts

\* What a set of trees with two more arcs is.
LEMMA TreesWithTwo ==
  ASSUME NEW S, NEW T, NEW B
  PROVE  B \in {A \cup {a, b} : A \in S, a \in T, b \in T}
           <=> \E A \in S, a \in T, b \in T : B = A \cup {a, b}
OBVIOUS

\* A one cycle tree is a tree and two arcs at the root.
LEMMA OneCycleTreeParts ==
  ASSUME NEW B
  PROVE  B \in OneCycleTrees
           <=> \E A \in Trees(Nodes \ {r}), a \in AtRoot, b \in AtRoot : B = A \cup {a, b}
<1> DEFINE S == Trees(Nodes \ {r})
           T == AtRoot
<1>1. OneCycleTrees = {A \cup {a, b} : A \in S, a \in T, b \in T}
  BY DEF OneCycleTrees
<1> HIDE DEF S, T
<1>2. B \in OneCycleTrees <=> \E A \in S, a \in T, b \in T : B = A \cup {a, b}
  BY <1>1, TreesWithTwo
<1> QED
  BY <1>2 DEF S, T

\* A solution that is not of Edmonds' method: a tree and, in a one cycle tree, two more arcs.
LEMMA SolutionParts ==
  ASSUME CallInv, method # "EDMONDS", NEW A \in Solutions
  PROVE  /\ Tree(A) \in Trees(Verts)
         /\ mandatory \subseteq A /\ A \subseteq usable
         /\ A \subseteq Arcs
         /\ cycle => /\ Cardinality(A) = N
                     /\ \E a, b \in AtRoot : A = Tree(A) \cup {a, b}
<1>1. mandatory \subseteq A /\ A \subseteq usable
  BY DEF Solutions
<1>2. CASE ~cycle
  BY <1>1, <1>2 DEF Solutions, SpanningTrees, Tree, Verts, CallInv
<1>3. CASE cycle
  <2>1. A \in OneCycleTrees /\ Cardinality(A) = N
    BY <1>3 DEF Solutions
  <2>2. PICK T \in Trees(Nodes \ {r}), a \in AtRoot, b \in AtRoot : A = T \cup {a, b}
    BY <2>1, OneCycleTreeParts
  <2>3. T \subseteq Inside(Nodes \ {r})
    BY <2>2 DEF Trees
  <2>4. Inside(Nodes \ {r}) \cap AtRoot = {}
    BY DEF Inside, AtRoot
  <2>5. Tree(A) = T
    BY <1>3, <2>2, <2>3, <2>4 DEF Tree
  <2> QED
    BY <1>1, <1>3, <2>1, <2>2, <2>5 DEF CallInv, Verts
<1> QED
  BY <1>2, <1>3

\* A tree of usable arcs with all the mandatory ones, and in a one cycle tree two arcs at the
\* root, is a solution of a call of the methods of Prim and Kruskal.
LEMMA PartsAreSolution ==
  ASSUME CallInv, method # "EDMONDS", NEW A, mandatory \subseteq A, A \subseteq usable,
         Tree(A) \in Trees(Verts),
         cycle => /\ Cardinality(A) = N
                  /\ \E a, b \in AtRoot : A = Tree(A) \cup {a, b}
  PROVE  A \in Solutions
<1>1. CASE ~cycle
  BY <1>1 DEF Solutions, SpanningTrees, Tree, Verts
<1>2. CASE cycle
  <2>1. PICK a \in AtRoot, b \in AtRoot : A = Tree(A) \cup {a, b}
    BY <1>2
  <2>2. A \in OneCycleTrees
    <3>1. Tree(A) \in Trees(Nodes \ {r})
      BY <1>2 DEF Verts
    <3> QED
      BY <2>1, <3>1, OneCycleTreeParts
  <2> QED
    BY <1>2, <2>2 DEF Solutions
<1> QED
  BY <1>1, <1>2 DEF CallInv

\* When an arc crosses a cut and is as good as those arcs of an optimum that cross the cut,
\* then there is an optimum with this arc instead of one of them.
LEMMA CutExchange ==
  ASSUME CallInv, method # "EDMONDS", NEW A \in Optima,
         NEW X \in SUBSET Verts, NEW a \in Inside(Verts) \cap usable, a \notin A, Crosses(a, X),
         \A b \in A : b \in Inside(Verts) /\ Crosses(b, X)
                        => b \notin mandatory /\ sign * len[a] <= sign * len[b]
  PROVE  \E b \in A : b \in Inside(Verts) /\ Crosses(b, X) /\ Swapped(A, b, a) \in Optima
<1>1. A \in Solutions /\ IsBest(A)
  BY OptimaAreLeast DEF CallInv
<1>2. /\ Tree(A) \in Trees(Verts)
      /\ mandatory \subseteq A /\ A \subseteq usable /\ A \subseteq Arcs
      /\ cycle => Cardinality(A) = N /\ \E x, y \in AtRoot : A = Tree(A) \cup {x, y}
  BY <1>1, SolutionParts
<1>3. a \in Inside(Verts) \ Tree(A)
  BY DEF Tree
<1>4. PICK b \in Tree(A) : Crosses(b, X) /\ Swapped(Tree(A), b, a) \in Trees(Verts)
  BY <1>2, <1>3, TreeExchange, VertsAreNodes
<1>5. Tree(A) \subseteq Inside(Verts)
  BY <1>2 DEF Trees
<1>6. b \in A /\ b \in Inside(Verts) /\ b \notin mandatory /\ sign * len[a] <= sign * len[b]
  BY <1>4, <1>5 DEF Tree
<1>7. cycle => a \notin AtRoot /\ b \notin AtRoot
  BY <1>3, <1>6 DEF Inside, AtRoot, Verts
<1>8. Tree(Swapped(A, b, a)) = Swapped(Tree(A), b, a)
  BY <1>7 DEF Tree, Swapped
<1>9. Swapped(A, b, a) \in Solutions
  <2>1. Swapped(A, b, a) \subseteq usable /\ mandatory \subseteq Swapped(A, b, a)
    BY <1>2, <1>6 DEF Swapped
  <2>2. Tree(Swapped(A, b, a)) \in Trees(Verts)
    BY <1>4, <1>8
  <2>3. ASSUME cycle PROVE /\ Cardinality(Swapped(A, b, a)) = N
                           /\ \E x, y \in AtRoot :
                                Swapped(A, b, a) = Tree(Swapped(A, b, a)) \cup {x, y}
    <3>1. PICK x \in AtRoot, y \in AtRoot : A = Tree(A) \cup {x, y}
      BY <1>2, <2>3
    <3>2. Swapped(A, b, a) = Swapped(Tree(A), b, a) \cup {x, y}
      BY <1>7, <2>3, <3>1 DEF Swapped
    <3>3. Cardinality(Swapped(A, b, a)) = N
      <4>1. a \in Arcs \ A
        BY DEF Inside
      <4> QED
        BY <1>2, <1>6, <2>3, <4>1, SwapKeepsSize
    <3> QED
      BY <1>8, <3>2, <3>3
  <2> QED
    BY <2>1, <2>2, <2>3, PartsAreSolution
<1>10. IsBest(Swapped(A, b, a))
  <2>1. /\ TotalLength(A) \in Int
        /\ TotalLength(Swapped(A, b, a)) = TotalLength(A) - len[b] + len[a]
    <3>1. a \in Arcs \ A
      BY DEF Inside
    <3> QED
      BY <1>2, <1>6, <3>1, SwapLength DEF CallInv
  <2>2. len[a] \in Int /\ len[b] \in Int
    <3>1. a \in Arcs /\ b \in Arcs
      BY <1>2, <1>6 DEF Inside
    <3> QED
      BY <3>1 DEF CallInv
  <2>3. sign * TotalLength(Swapped(A, b, a)) <= sign * TotalLength(A)
    BY <1>6, <2>1, <2>2 DEF CallInv
  <2>4. ASSUME NEW B \in Solutions
        PROVE  sign * TotalLength(Swapped(A, b, a)) <= sign * TotalLength(B)
    <3>1. sign * TotalLength(A) <= sign * TotalLength(B)
      BY <1>1 DEF IsBest
    <3>2. TotalLength(B) \in Int
      <4>1. IsFiniteSet(B) /\ \A x \in B : len[x] \in Int
        BY SolutionsAreArcs, ArcSetsAreFinite DEF CallInv
      <4> QED
        BY <4>1, LengthIsTotal, TotalIsInteger
    <3>3. TotalLength(Swapped(A, b, a)) \in Int
      BY <2>1, <2>2
    <3> QED
      BY <2>1, <2>3, <3>1, <3>2, <3>3 DEF CallInv
  <2> QED
    BY <2>4 DEF IsBest
<1>11. Swapped(A, b, a) \in Optima
  BY <1>9, <1>10, OptimaAreLeast DEF CallInv
<1> QED
  BY <1>4, <1>6, <1>11

-----------------------------------------------------------------------------
\* There is an optimum with all of these arcs.
Extends(C) == Solutions # {} => \E A \in Optima : C \subseteq A

\* Where every method can be.
Phases ==
  /\ method \in Methods
  /\ method \in Prims => pc \in {"start", "pick", "expand", "add", "done"}
  /\ method = "KRUSKAL" => pc \in {"start", "mandatory", "greedy", "pick", "fix", "extract",
                                   "search", "done"}
  /\ method = "EDMONDS" => pc \in {"start", "shrink", "split", "sum", "add", "done"}

\* The arguments of least value.
BestOf(length) == {A \in DOMAIN length : length[A] = Min({length[B] : B \in DOMAIN length})}

\* The call does not change, up to the version of the method of Prim.
SameCall == /\ UNCHANGED <<len, usable, mandatory, directed, cycle, sign>>
            /\ method' = "EDMONDS" <=> method = "EDMONDS"

\* What a call asks for does not change while it is served.
LEMMA CallStays ==
  ASSUME UNCHANGED instance \/ SameCall
  PROVE  /\ CallInv' <=> CallInv
         /\ Solutions' = Solutions /\ Optima' = Optima
         /\ \A C : Extends(C)' <=> Extends(C)
<1>0. SameCall
  BY DEF instance, SameCall
<1>1. CallInv' <=> CallInv
  BY <1>0 DEF SameCall, CallInv
<1>2. Solutions' = Solutions
  <2>1. CASE method = "EDMONDS"
    BY <1>0, <2>1, Zenon DEF SameCall, Solutions
  <2>2. CASE method # "EDMONDS"
    <3>1. Solutions = {A \in IF cycle THEN {B \in OneCycleTrees : Cardinality(B) = N} ELSE SpanningTrees :
                         mandatory \subseteq A /\ A \subseteq usable}
      BY <2>2, Zenon DEF Solutions
    <3>2. Solutions' = {A \in IF cycle' THEN {B \in OneCycleTrees : Cardinality(B) = N} ELSE SpanningTrees :
                          mandatory' \subseteq A /\ A \subseteq usable'}
      BY <1>0, <2>2, Zenon DEF Solutions, SameCall
    <3>3. cycle' = cycle /\ mandatory' = mandatory /\ usable' = usable
      BY <1>0 DEF SameCall
    <3> QED
      BY <3>1, <3>2, <3>3, Zenon
  <2> QED
    BY <2>1, <2>2
<1>3. Optima' = Optima
  <2>1. Optima = BestOf([A \in Solutions |-> sign * TotalLength(A)])
    BY Zenon DEF Optima, BestOf
  <2>2. Optima' = BestOf([A \in Solutions' |-> sign' * TotalLength(A)'])
    BY Zenon DEF Optima, BestOf
  <2>3. \A A : TotalLength(A)' = TotalLength(A)
    <3>1. len' = len
      BY <1>0 DEF SameCall
    <3> QED
      BY <3>1, Zenon DEF TotalLength
  <2>4. sign' = sign
    BY <1>0 DEF SameCall
  <2>5. [A \in Solutions |-> sign * TotalLength(A)] = [A \in Solutions' |-> sign' * TotalLength(A)']
    BY <1>2, <2>3, <2>4
  <2> QED
    BY <2>1, <2>2, <2>5, Zenon
<1> QED
  BY <1>1, <1>2, <1>3, Zenon DEF Extends

-----------------------------------------------------------------------------
\* The method of Kruskal.  The sets are a partition; in a one cycle tree, the root remains
\* for itself alone.
Classes == /\ set \in [Nodes -> SUBSET Nodes]
           /\ \A v \in Nodes : v \in set[v] /\ \A u \in set[v] : set[u] = set[v]
           /\ cycle => set[r] = {r}

\* These arcs join no two sets, except for the root that is left aside.
Merged(A) == \A a \in A : \/ cycle /\ r \in {From[a], To[a]}
                          \/ set[From[a]] = set[To[a]]

\* While the mandatory arcs are contracted ...
MandatoryInv ==
  /\ Classes
  /\ sub = mandatory /\ queue = usable
  /\ todo \subseteq mandatory /\ Merged(mandatory \ todo)
  /\ \A a \in todo : cycle => From[a] # r /\ To[a] # r

\* ... and afterwards.
ContractInv ==
  /\ Classes
  /\ mandatory \subseteq sub /\ sub \subseteq usable /\ queue \subseteq usable
  /\ Merged(sub) /\ Merged(usable \ queue)
  /\ Extends(Tree(sub))

\* The invariant of the method of Kruskal.
KruskalInv == /\ pc = "mandatory" => MandatoryInv
              /\ pc = "greedy" => ContractInv

\* The ends of an arc are nodes.
LEMMA ArcEnds == \A a \in Arcs : From[a] \in Nodes /\ To[a] \in Nodes
BY GraphType

\* Merge() joins two sets of the partition and keeps those that are joined already.
LEMMA MergeKeepsClasses ==
  ASSUME Classes, UNCHANGED cycle, NEW u \in Nodes, NEW v \in Nodes,
         cycle => u # r /\ v # r, Merge(u, v)
  PROVE  /\ Classes'
         /\ set'[u] = set'[v]
         /\ \A x, y \in Nodes : set[x] = set[y] => set'[x] = set'[y]
<1> PICK both : both = set[u] \cup set[v]
  OBVIOUS
<1>1. set' = [x \in Nodes |-> IF x \in both THEN both ELSE set[x]]
  BY DEF Merge
<1>2. both \in SUBSET Nodes /\ u \in both /\ v \in both
  BY DEF Classes
<1>3. set' \in [Nodes -> SUBSET Nodes]
  BY <1>1, <1>2 DEF Classes
<1>4. \A x \in both : set[x] \subseteq both
  BY DEF Classes
<1>5. ASSUME NEW x \in Nodes, x \notin both, NEW y \in set[x]
      PROVE  y \notin both
  <2>1. set[y] = set[x] /\ y \in Nodes /\ x \in set[x]
    BY DEF Classes
  <2> QED
    BY <1>4, <1>5, <2>1
<1>6. ASSUME NEW x \in Nodes
      PROVE  x \in set'[x] /\ \A y \in set'[x] : set'[y] = set'[x]
  <2>1. CASE x \in both
    <3>1. set'[x] = both /\ \A y \in both : set'[y] = both
      BY <1>1, <1>2, <2>1
    <3> QED
      BY <2>1, <3>1
  <2>2. CASE x \notin both
    <3>1. set'[x] = set[x] /\ x \in set[x] /\ set[x] \subseteq Nodes
      BY <1>1, <2>2 DEF Classes
    <3>2. ASSUME NEW y \in set[x] PROVE set'[y] = set[x]
      <4>1. y \notin both /\ y \in Nodes /\ set[y] = set[x]
        BY <1>5, <2>2 DEF Classes
      <4> QED
        BY <1>1, <4>1
    <3> QED
      BY <3>1, <3>2
  <2> QED
    BY <2>1, <2>2
<1>7. ASSUME cycle PROVE set'[r] = {r}
  <2>1. set[r] = {r} /\ r \in Nodes
    BY <1>7, RootType DEF Classes
  <2>2. r \notin set[u] /\ r \notin set[v]
    <3>1. ASSUME NEW x \in {u, v}, r \in set[x] PROVE FALSE
      <4>1. set[x] = {r} /\ x \in set[x]
        BY <2>1, <3>1 DEF Classes
      <4> QED
        BY <1>7, <4>1
    <3> QED
      BY <3>1
  <2> QED
    BY <1>1, <2>1, <2>2
<1>8. \A x, y \in Nodes : set[x] = set[y] => set'[x] = set'[y]
  <2> SUFFICES ASSUME NEW x \in Nodes, NEW y \in Nodes, set[x] = set[y]
               PROVE  set'[x] = set'[y]
    OBVIOUS
  <2>1. x \in both <=> y \in both
    <3>1. x \in set[y] /\ y \in set[x]
      BY DEF Classes
    <3> QED
      BY <1>4, <3>1
  <2> QED
    BY <1>1, <2>1
<1>9. set'[u] = set'[v]
  BY <1>1, <1>2
<1> QED
  BY <1>3, <1>6, <1>7, <1>8, <1>9 DEF Classes

\* At first every node is a set of its own.
LEMMA KruskalStarts == ASSUME CallInv, KruskalStart PROVE MandatoryInv'
<1>1. Classes'
  <2>1. set' = [v \in Nodes |-> {v}] /\ cycle' = cycle
    BY DEF KruskalStart, instance
  <2> QED
    BY <2>1, RootType DEF Classes
<1>2. sub' = mandatory' /\ queue' = usable' /\ todo' \subseteq mandatory'
  BY DEF KruskalStart, instance
<1>3. Merged(mandatory \ todo)'
  BY DEF KruskalStart, instance, Merged
<1>4. \A a \in todo' : cycle' => From[a] # r /\ To[a] # r
  BY DEF KruskalStart, instance
<1> QED
  BY <1>1, <1>2, <1>3, <1>4 DEF MandatoryInv

\* The mandatory arcs are merged one by one.
LEMMA MandatoryMerges ==
  ASSUME CallInv, MandatoryInv, MergeMandatory
  PROVE  MandatoryInv'
<1>1. PICK a \in todo : Merge(From[a], To[a]) /\ todo' = todo \ {a}
  BY DEF MergeMandatory
<1>2. a \in Arcs /\ From[a] \in Nodes /\ To[a] \in Nodes
  BY ArcEnds DEF MandatoryInv, CallInv
<1>3. /\ UNCHANGED <<cycle, mandatory, usable, sub, queue>>
  BY DEF MergeMandatory, instance
<1>4. /\ Classes' /\ set'[From[a]] = set'[To[a]]
      /\ \A x, y \in Nodes : set[x] = set[y] => set'[x] = set'[y]
  BY <1>1, <1>2, <1>3, MergeKeepsClasses DEF MandatoryInv
<1>5. Merged(mandatory \ todo)'
  <2> SUFFICES ASSUME NEW b \in mandatory \ todo', ~(cycle /\ r \in {From[b], To[b]})
               PROVE  set'[From[b]] = set'[To[b]]
    BY <1>3 DEF Merged
  <2>1. CASE b = a
    BY <1>4, <2>1
  <2>2. CASE b # a
    <3>1. set[From[b]] = set[To[b]]
      BY <1>1, <2>2 DEF MandatoryInv, Merged
    <3>2. From[b] \in Nodes /\ To[b] \in Nodes
      BY ArcEnds DEF CallInv
    <3> QED
      BY <1>4, <3>1, <3>2
  <2> QED
    BY <2>1, <2>2
<1> QED
  BY <1>1, <1>3, <1>4, <1>5 DEF MandatoryInv

\* When all of them are merged, the subgraph consists of nothing else.
LEMMA ContractionBegins ==
  ASSUME CallInv, method # "EDMONDS", MandatoryInv, MandatoryMerged
  PROVE  ContractInv'
<1>1. UNCHANGED <<instance, outcome, greedy>> /\ todo = {}
  BY DEF MandatoryMerged
<1>2. Classes' /\ sub' = mandatory' /\ queue' = usable' /\ UNCHANGED <<usable, set, cycle>>
  BY <1>1 DEF MandatoryInv, Classes, greedy, outcome, instance
<1>3. Merged(sub)'
  BY <1>1, <1>2 DEF MandatoryInv, Merged, instance
<1>4. Merged(usable \ queue)'
  BY <1>2 DEF Merged
<1>5. Extends(Tree(sub))'
  <2> SUFFICES ASSUME Solutions # {} PROVE \E A \in Optima : Tree(sub)' \subseteq A
    BY <1>1, CallStays DEF Extends
  <2>1. PICK A \in Optima : A \in Solutions
    BY OptimaAreLeast DEF CallInv
  <2>2. mandatory \subseteq A
    BY <2>1, SolutionParts
  <2>3. Tree(sub)' \subseteq mandatory
    BY <1>1, <1>2 DEF Tree, instance
  <2> QED
    BY <2>1, <2>2, <2>3
<1>6. (mandatory \subseteq sub)' /\ (sub \subseteq usable)' /\ (queue \subseteq usable)'
  BY <1>1, <1>2 DEF CallInv, instance
<1> QED
  BY <1>2, <1>3, <1>4, <1>5, <1>6 DEF ContractInv

\* The arc that is contracted crosses the cut round one of its sets, and no arc in the queue
\* is better.
LEMMA ContractionExtends ==
  ASSUME CallInv, method # "EDMONDS", ContractInv, Solutions # {},
         NEW a \in queue, \A b \in queue : sign * len[a] <= sign * len[b], Contractible(a)
  PROVE  \E A \in Optima : Tree(sub) \cup {a} \subseteq A
<1>1. PICK A \in Optima : Tree(sub) \subseteq A
  BY DEF ContractInv, Extends
<1>2. a \in usable /\ a \in Arcs /\ From[a] \in Nodes /\ To[a] \in Nodes
  BY ArcEnds DEF ContractInv, CallInv
<1>3. /\ \A v \in Nodes : v \in set[v] /\ \A u \in set[v] : set[u] = set[v]
      /\ \A v \in Nodes : set[v] \subseteq Nodes
      /\ cycle => set[r] = {r}
  BY DEF ContractInv, Classes
<1>4. set[From[a]] # set[To[a]] /\ (cycle => From[a] # r /\ To[a] # r)
  BY <1>3 DEF Contractible
<1> PICK X : X = set[From[a]]
  OBVIOUS
<1>5. X \in SUBSET Verts /\ Crosses(a, X)
  <2>1. From[a] \in X /\ To[a] \notin X
    BY <1>2, <1>3, <1>4
  <2>2. cycle => r \notin X
    <3>1. r \in X => set[r] = X
      BY <1>2, <1>3
    <3> QED
      BY <1>3, <1>4, <2>1, <3>1
  <2> QED
    BY <1>2, <1>3, <2>1, <2>2 DEF Verts, Crosses
<1>6. a \in Inside(Verts) \cap usable
  BY <1>2, <1>4 DEF Inside, Verts
<1>7. ASSUME NEW b \in A, b \in Inside(Verts), Crosses(b, X)
      PROVE  b \notin sub /\ b \notin mandatory /\ sign * len[a] <= sign * len[b]
  <2>1. b \in usable /\ b \in Arcs /\ From[b] \in Nodes /\ To[b] \in Nodes
    BY <1>7, OptimaAreLeast, SolutionsAreArcs, ArcEnds DEF CallInv
  <2>2. set[From[b]] # set[To[b]]
    <3>1. From[b] \in set[From[b]] /\ To[b] \in set[To[b]]
      BY <1>3, <2>1
    <3>2. \A x \in X : set[x] = X
      BY <1>2, <1>3
    <3> QED
      BY <1>7, <3>1, <3>2 DEF Crosses
  <2>3. ~(cycle /\ r \in {From[b], To[b]})
    BY <1>7 DEF Inside, Verts
  <2>4. b \notin sub /\ b \in queue
    BY <2>1, <2>2, <2>3 DEF ContractInv, Merged
  <2> QED
    BY <2>4 DEF ContractInv
<1>8. CASE a \in A
  BY <1>1, <1>8
<1>9. CASE a \notin A
  <2>1. PICK b \in A : b \in Inside(Verts) /\ Crosses(b, X) /\ Swapped(A, b, a) \in Optima
    BY <1>5, <1>6, <1>7, <1>9, CutExchange
  <2>2. b \notin sub
    BY <1>7, <2>1
  <2>3. Tree(sub) \cup {a} \subseteq Swapped(A, b, a)
    BY <1>1, <2>2 DEF Swapped, Tree
  <2> QED
    BY <2>1, <2>3
<1> QED
  BY <1>8, <1>9

\* The loop of MST_Kruskal keeps its invariant.
LEMMA ContractionStep ==
  ASSUME CallInv, method # "EDMONDS", ContractInv, KruskalStep
  PROVE  ContractInv'
<1>1. UNCHANGED instance
  BY DEF KruskalStep
<1>2. UNCHANGED <<cycle, usable, mandatory>>
  BY <1>1 DEF instance
<1>3. PICK a \in queue :
        /\ \A b \in queue : sign * len[a] <= sign * len[b]
        /\ queue' = queue \ {a}
        /\ Contractible(a) => Contract(a) /\ sub' = sub \cup {a}
        /\ ~Contractible(a) => UNCHANGED <<set, sub>>
  BY DEF KruskalStep, Cheapest
<1>4. a \in usable /\ a \in Arcs /\ From[a] \in Nodes /\ To[a] \in Nodes
  BY ArcEnds DEF ContractInv, CallInv
<1>5. /\ mandatory \subseteq sub /\ sub \subseteq usable /\ queue \subseteq usable
      /\ Merged(sub) /\ Merged(usable \ queue) /\ Classes /\ Extends(Tree(sub))
  BY DEF ContractInv
<1>6. CASE Contractible(a)
  <2>1. Merge(From[a], To[a]) /\ sub' = sub \cup {a}
    BY <1>3, <1>6 DEF Contract
  <2>2. set[r] = {r} => (From[a] # r /\ To[a] # r) \/ ~cycle
    BY <1>6 DEF Contractible
  <2>3. /\ Classes' /\ set'[From[a]] = set'[To[a]]
        /\ \A x, y \in Nodes : set[x] = set[y] => set'[x] = set'[y]
    <3>1. cycle => From[a] # r /\ To[a] # r
      BY <1>5, <2>2 DEF Classes
    <3> QED
      BY <1>2, <1>4, <1>5, <2>1, <3>1, MergeKeepsClasses
  <2>4. ASSUME NEW A \in SUBSET usable, Merged(A)
        PROVE  \A b \in A \cup {a} : \/ cycle' /\ r \in {From[b], To[b]}
                                     \/ set'[From[b]] = set'[To[b]]
    <3> SUFFICES ASSUME NEW b \in A, set[From[b]] = set[To[b]]
                 PROVE  set'[From[b]] = set'[To[b]]
      BY <1>2, <2>3, <2>4 DEF Merged
    <3>1. From[b] \in Nodes /\ To[b] \in Nodes
      BY ArcEnds DEF CallInv
    <3> QED
      BY <2>3, <3>1
  <2>5. Merged(sub)'
    BY <1>5, <2>1, <2>4 DEF Merged
  <2>6. Merged(usable \ queue)'
    <3>1. (usable \ queue)' \subseteq (usable \ queue) \cup {a}
      BY <1>2, <1>3
    <3> QED
      BY <1>5, <2>4, <3>1 DEF Merged
  <2>7. Extends(Tree(sub))'
    <3> SUFFICES ASSUME Solutions # {} PROVE \E A \in Optima : Tree(sub)' \subseteq A
      BY <1>1, CallStays DEF Extends
    <3>1. PICK A \in Optima : Tree(sub) \cup {a} \subseteq A
      BY <1>3, <1>6, ContractionExtends
    <3>2. Tree(sub)' \subseteq Tree(sub) \cup {a}
      BY <1>2, <2>1 DEF Tree
    <3> QED
      BY <3>1, <3>2
  <2> QED
    BY <1>2, <1>3, <1>4, <1>5, <2>1, <2>3, <2>5, <2>6, <2>7 DEF ContractInv
<1>7. CASE ~Contractible(a)
  <2>1. UNCHANGED <<set, sub>>
    BY <1>3, <1>7
  <2>2. Classes' /\ Merged(sub)'
    BY <1>2, <1>5, <2>1 DEF Classes, Merged
  <2>3. (cycle /\ r \in {From[a], To[a]}) \/ set[From[a]] = set[To[a]]
    BY <1>4, <1>5, <1>7 DEF Contractible, Classes
  <2>4. Merged(usable \ queue)'
    BY <1>2, <1>3, <1>5, <2>1, <2>3 DEF Merged
  <2>5. Extends(Tree(sub))'
    <3>1. Tree(sub)' = Tree(sub)
      BY <1>2, <2>1 DEF Tree
    <3>2. PICK C : C = Tree(sub)
      OBVIOUS
    <3> QED
      BY <1>1, <1>5, <3>1, <3>2, CallStays DEF Extends
  <2> QED
    BY <1>2, <1>3, <1>5, <2>1, <2>2, <2>4, <2>5 DEF ContractInv
<1> QED
  BY <1>6, <1>7

-----------------------------------------------------------------------------
\* Both methods read the arcs at the root; that of Prim ends up with a best pair that has all
\* the mandatory arcs: x and y are chosen from D.
Paired(x, y, D) ==
  /\ x = NoArc => y = NoArc
  /\ x # NoArc => x \in D
  /\ y # NoArc => y \in D /\ x # y
  /\ \A d \in D \ {x, y} : y # NoArc /\ ~IsMandatory(d) /\ (~IsMandatory(y) => Cost(y) <= Cost(d))
  /\ y # NoArc => /\ IsMandatory(y) => IsMandatory(x)
                  /\ ~IsMandatory(x) => Cost(x) <= Cost(y)

\* A dart is an arc and a direction.
LEMMA DartsAreArcs == ASSUME NEW d \in Darts PROVE d[1] \in Arcs /\ d[2] \in {0, 1} /\ d = <<d[1], d[2]>> /\ d # NoArc
BY DEF Darts, NoArc

\* A dart and its reverse.
LEMMA DartEnds ==
  ASSUME NEW d \in Darts
  PROVE  /\ Opposite(d) \in Darts /\ Opposite(d)[1] = d[1] /\ Opposite(Opposite(d)) = d
         /\ StartNode(d) \in Nodes /\ EndNode(d) \in Nodes
         /\ EndNode(Opposite(d)) = StartNode(d) /\ StartNode(Opposite(d)) = EndNode(d)
         /\ {From[d[1]], To[d[1]]} = {StartNode(d), EndNode(d)}
         /\ \/ StartNode(d) = From[d[1]] /\ EndNode(d) = To[d[1]]
            \/ StartNode(d) = To[d[1]] /\ EndNode(d) = From[d[1]]
<1>1. d[1] \in Arcs /\ d[2] \in {0, 1} /\ d = <<d[1], d[2]>>
  BY DartsAreArcs
<1>2. Opposite(d) = <<d[1], 1 - d[2]>> /\ 1 - d[2] \in {0, 1}
  BY <1>1 DEF Opposite
<1>3. Opposite(d) \in Darts /\ Opposite(d)[1] = d[1] /\ Opposite(d)[2] = 1 - d[2]
  BY <1>1, <1>2 DEF Darts
<1>4. Opposite(Opposite(d)) = d
  <2>1. Opposite(Opposite(d)) = <<d[1], 1 - (1 - d[2])>>
    BY <1>3 DEF Opposite
  <2> QED
    BY <1>1, <2>1
<1>5. \/ d[2] = 0 /\ StartNode(d) = From[d[1]] /\ EndNode(d) = To[d[1]]
      \/ d[2] = 1 /\ StartNode(d) = To[d[1]] /\ EndNode(d) = From[d[1]]
  BY <1>1, <1>3 DEF StartNode, EndNode
<1>6. EndNode(Opposite(d)) = StartNode(d) /\ StartNode(Opposite(d)) = EndNode(d)
  BY <1>4 DEF EndNode
<1> QED
  BY <1>1, <1>3, <1>4, <1>5, <1>6, ArcEnds

\* An arc at the root is read in one direction only.
LEMMA RootDarts ==
  ASSUME CallInv
  PROVE  /\ \A d \in Leaving(r) : /\ d \in Darts /\ d[1] \in AtRoot /\ d[1] \in usable
                                  /\ EndNode(d) \in Nodes \ {r} /\ StartNode(d) = r
         /\ \A d, e \in Leaving(r) : d[1] = e[1] => d = e
         /\ \A a \in AtRoot \cap usable : \E d \in Leaving(r) : d[1] = a
<1>1. ASSUME NEW d \in Leaving(r)
      PROVE  /\ d \in Darts /\ d[1] \in AtRoot /\ d[1] \in usable
             /\ EndNode(d) \in Nodes \ {r} /\ StartNode(d) = r
  <2>1. d \in Darts /\ d[1] \in usable /\ StartNode(d) = r /\ EndNode(d) # r
    BY DEF Leaving
  <2> QED
    BY <2>1, DartsAreArcs, DartEnds DEF AtRoot
<1>2. ASSUME NEW d \in Leaving(r), NEW e \in Leaving(r), d[1] = e[1]
      PROVE  d = e
  <2>1. d \in Darts /\ e \in Darts
    BY <1>1
  <2>2. /\ d[2] \in {0, 1} /\ e[2] \in {0, 1}
        /\ d = <<d[1], d[2]>> /\ e = <<e[1], e[2]>>
    BY <2>1, DartsAreArcs
  <2>3. d[2] = e[2]
    <3>1. StartNode(d) = r /\ StartNode(e) = r /\ From[d[1]] # To[d[1]]
      BY <1>1 DEF AtRoot
    <3> QED
      BY <1>2, <2>2, <3>1 DEF StartNode
  <2> QED
    BY <1>2, <2>2, <2>3
<1>3. ASSUME NEW a \in AtRoot \cap usable
      PROVE  \E d \in Leaving(r) : d[1] = a
  <2>1. a \in Arcs /\ From[a] # To[a] /\ (From[a] = r \/ To[a] = r)
    BY DEF AtRoot
  <2>2. /\ <<a, 0>> \in Darts /\ <<a, 0>>[1] = a /\ StartNode(<<a, 0>>) = From[a]
        /\ EndNode(<<a, 0>>) = To[a]
    BY <2>1 DEF Darts, StartNode, EndNode, Opposite
  <2>3. /\ <<a, 1>> \in Darts /\ <<a, 1>>[1] = a /\ StartNode(<<a, 1>>) = To[a]
        /\ EndNode(<<a, 1>>) = From[a]
    BY <2>1 DEF Darts, StartNode, EndNode, Opposite
  <2>4. CASE From[a] = r
    BY <2>1, <2>2, <2>4 DEF Leaving
  <2>5. CASE To[a] = r
    BY <2>1, <2>3, <2>5 DEF Leaving
  <2> QED
    BY <2>1, <2>4, <2>5
<1> QED
  BY <1>1, <1>2, <1>3

\* Costs are integers.
LEMMA CostIsInteger == ASSUME CallInv, NEW d \in Darts PROVE Cost(d) \in Int
<1>1. len[d[1]] \in Int
  BY DartsAreArcs DEF CallInv
<1> QED
  BY <1>1 DEF Cost, CallInv

\* Three elements are more than two.
LEMMA ThreeElements ==
  ASSUME NEW S, IsFiniteSet(S), NEW a \in S, NEW b \in S, NEW c \in S, a # b, a # c, b # c
  PROVE  Cardinality(S) > 2
<1> PICK T : T = {a}
  OBVIOUS
<1> PICK U : U = T \cup {b}
  OBVIOUS
<1>1. IsFiniteSet(T) /\ Cardinality(T) = 1 /\ b \notin T
  BY FS_Singleton
<1>2. IsFiniteSet(U) /\ Cardinality(U) = 2 /\ c \notin U
  <2>1. IsFiniteSet(T \cup {b}) /\ Cardinality(T \cup {b}) = 2
    BY <1>1, FS_AddElement
  <2> QED
    BY <2>1
<1>3. Cardinality(U \cup {c}) = 3
  BY <1>2, FS_AddElement
<1>4. Cardinality(U \cup {c}) <= Cardinality(S) /\ Cardinality(S) \in Nat
  <2>1. U \cup {c} \in SUBSET S
    OBVIOUS
  <2> QED
    BY <2>1, FS_Subset, FS_CardinalityType
<1> QED
  BY <1>3, <1>4

\* The next arc at the root: one of the pair has to go only when it is not mandatory.
LEMMA PairIsKept ==
  ASSUME CallInv, Cardinality(mandatory \cap AtRoot) <= 2,
         NEW x, NEW y, picks = <<x, y>>, NEW D \in SUBSET Leaving(r), NEW d \in Leaving(r) \ D,
         Paired(x, y, D)
  PROVE  \E p, q : PrimPicks(d) = <<p, q>> /\ Paired(p, q, D \cup {d})
<1>1. \A e \in D \cup {d} : e \in Darts /\ Cost(e) \in Int /\ e # NoArc
  BY RootDarts, CostIsInteger, DartsAreArcs
<1>2. x # NoArc /\ y # NoArc => ~(IsMandatory(x) /\ IsMandatory(y) /\ IsMandatory(d))
  <2> SUFFICES ASSUME x # NoArc, y # NoArc, IsMandatory(x), IsMandatory(y), IsMandatory(d)
               PROVE  FALSE
    OBVIOUS
  <2>1. x \in D /\ y \in D /\ x # y /\ x # d /\ y # d
    BY DEF Paired
  <2>2. x[1] # y[1] /\ x[1] # d[1] /\ y[1] # d[1]
    BY <2>1, RootDarts
  <2>3. {x[1], y[1], d[1]} \subseteq mandatory \cap AtRoot
    BY <2>1, RootDarts DEF IsMandatory
  <2>4. IsFiniteSet(mandatory \cap AtRoot)
    BY ArcSetsAreFinite DEF CallInv
  <2>5. Cardinality(mandatory \cap AtRoot) > 2
    BY <2>2, <2>3, <2>4, ThreeElements
  <2>6. Cardinality(mandatory \cap AtRoot) \in Nat
    BY <2>4, FS_CardinalityType
  <2> QED
    BY <2>5, <2>6
<1>3. PrimPicks(d) = IF x = NoArc \/ IsMandatory(d) \/ (Better(d, x) /\ ~IsMandatory(x)) THEN <<d, x>>
                     ELSE IF y = NoArc \/ (Better(d, y) /\ ~IsMandatory(y)) THEN <<x, d>>
                     ELSE <<x, y>>
  <2>1. picks[1] = x /\ picks[2] = y
    OBVIOUS
  <2> QED
    BY <2>1, Zenon DEF PrimPicks
<1>4. CASE x = NoArc \/ IsMandatory(d) \/ (Better(d, x) /\ ~IsMandatory(x))
  <2>1. PrimPicks(d) = <<d, x>>
    BY <1>3, <1>4
  <2>2. Paired(d, x, D \cup {d})
    <3>1. CASE x = NoArc
      BY <1>1, <3>1 DEF Paired
    <3>2. CASE x # NoArc /\ y = NoArc
      BY <1>1, <1>4, <3>2 DEF Paired, Better
    <3>3. CASE x # NoArc /\ y # NoArc
      <4>1. x \in D /\ y \in D /\ x # y /\ Cost(x) \in Int /\ Cost(y) \in Int /\ Cost(d) \in Int
        BY <1>1, <3>3 DEF Paired
      <4>2. ~IsMandatory(y)
        BY <1>2, <1>4, <3>3 DEF Paired
      <4>3. \A e \in (D \cup {d}) \ {d, x} : ~IsMandatory(e) /\ (~IsMandatory(x) => Cost(x) <= Cost(e))
        <5> SUFFICES ASSUME NEW e \in D, e # x
                     PROVE  ~IsMandatory(e) /\ (~IsMandatory(x) => Cost(x) <= Cost(e))
          OBVIOUS
        <5>1. CASE e = y
          BY <3>3, <4>2, <5>1 DEF Paired
        <5>2. CASE e # y
          <6>1. ~IsMandatory(e) /\ Cost(y) <= Cost(e) /\ Cost(e) \in Int
            BY <1>1, <4>2, <5>2 DEF Paired
          <6>2. ~IsMandatory(x) => Cost(x) <= Cost(y)
            BY <3>3 DEF Paired
          <6> QED
            BY <4>1, <6>1, <6>2
        <5> QED
          BY <5>1, <5>2
      <4>4. /\ IsMandatory(x) => IsMandatory(d)
            /\ ~IsMandatory(d) => Cost(d) <= Cost(x)
        BY <1>4, <3>3, <4>1 DEF Better
      <4> QED
        BY <1>1, <3>3, <4>1, <4>3, <4>4 DEF Paired
    <3> QED
      BY <3>1, <3>2, <3>3
  <2> QED
    BY <2>1, <2>2
<1>5. CASE ~(x = NoArc \/ IsMandatory(d) \/ (Better(d, x) /\ ~IsMandatory(x)))
  <2>1. x \in D /\ x # d /\ ~IsMandatory(d) /\ (IsMandatory(x) \/ Cost(x) <= Cost(d))
    BY <1>1, <1>5 DEF Paired, Better
  <2>2. CASE y = NoArc
    <3>1. PrimPicks(d) = <<x, d>>
      BY <1>3, <1>5, <2>2
    <3>2. Paired(x, d, D \cup {d})
      BY <1>1, <2>1, <2>2 DEF Paired
    <3> QED
      BY <3>1, <3>2
  <2>3. CASE y # NoArc /\ Better(d, y) /\ ~IsMandatory(y)
    <3>1. PrimPicks(d) = <<x, d>>
      BY <1>3, <1>5, <2>3
    <3>2. \A e \in (D \cup {d}) \ {x, d} : ~IsMandatory(e) /\ Cost(d) <= Cost(e)
      <4> SUFFICES ASSUME NEW e \in D, e # x PROVE ~IsMandatory(e) /\ Cost(d) <= Cost(e)
        OBVIOUS
      <4>1. Cost(d) <= Cost(y) /\ Cost(y) \in Int /\ Cost(d) \in Int /\ Cost(e) \in Int
        BY <1>1, <2>3 DEF Better, Paired
      <4>2. CASE e = y
        BY <2>3, <4>1, <4>2
      <4>3. CASE e # y
        <5>1. ~IsMandatory(e) /\ Cost(y) <= Cost(e)
          BY <2>3, <4>3 DEF Paired
        <5> QED
          BY <4>1, <5>1
      <4> QED
        BY <4>2, <4>3
    <3>3. Paired(x, d, D \cup {d})
      BY <1>1, <2>1, <3>2 DEF Paired
    <3> QED
      BY <3>1, <3>3
  <2>4. CASE y # NoArc /\ ~(Better(d, y) /\ ~IsMandatory(y))
    <3>1. PrimPicks(d) = <<x, y>>
      BY <1>3, <1>5, <2>4
    <3>2. ~IsMandatory(y) => Cost(y) <= Cost(d)
      BY <1>1, <2>4 DEF Better, Paired
    <3>3. Paired(x, y, D \cup {d})
      BY <1>1, <2>1, <2>4, <3>2 DEF Paired
    <3> QED
      BY <3>1, <3>3
  <2> QED
    BY <2>2, <2>3, <2>4
<1> QED
  BY <1>4, <1>5

\* Two other arcs at the root are not better than a pair that has been chosen from all.
LEMMA PairIsBest ==
  ASSUME CallInv, NEW x \in Leaving(r), NEW y \in Leaving(r), Paired(x, y, Leaving(r)),
         NEW p \in Leaving(r), NEW q \in Leaving(r), p # q,
         \A d \in Leaving(r) : IsMandatory(d) => d \in {p, q}
  PROVE  Cost(x) + Cost(y) <= Cost(p) + Cost(q)
<1>1. \A d \in {x, y, p, q} : Cost(d) \in Int /\ d # NoArc
  BY RootDarts, CostIsInteger, DartsAreArcs
<1>2. ASSUME NEW d \in {p, q}, NEW e \in {p, q}, d # e, d \notin {x, y}
      PROVE  Cost(x) + Cost(y) <= Cost(d) + Cost(e)
  <2>0. x # y /\ {p, q} = {d, e}
    BY <1>1, <1>2 DEF Paired
  <2>1. ~IsMandatory(y)
    <3>1. IsMandatory(y) => IsMandatory(x)
      BY <1>1 DEF Paired
    <3> QED
      BY <1>2, <2>0, <3>1
  <2>2. Cost(y) <= Cost(d)
    BY <1>2, <2>1 DEF Paired
  <2>3. CASE e = x
    BY <1>1, <2>2, <2>3
  <2>4. CASE e # x
    <3>1. ~IsMandatory(x)
      BY <1>2, <2>0, <2>4
    <3>2. Cost(x) <= Cost(y)
      BY <1>1, <3>1 DEF Paired
    <3>3. Cost(y) <= Cost(e)
      <4>1. CASE e = y
        BY <1>1, <4>1
      <4>2. CASE e # y
        BY <2>1, <2>4, <4>2 DEF Paired
      <4> QED
        BY <4>1, <4>2
    <3>4. Cost(d) \in Int /\ Cost(e) \in Int /\ Cost(x) \in Int /\ Cost(y) \in Int
      BY <1>1
    <3> QED
      BY <2>2, <3>2, <3>3, <3>4
  <2> QED
    BY <2>3, <2>4
<1>3. CASE p \notin {x, y}
  BY <1>2, <1>3
<1>4. CASE q \notin {x, y}
  <2>1. Cost(x) + Cost(y) <= Cost(q) + Cost(p)
    BY <1>2, <1>4
  <2> QED
    BY <1>1, <2>1
<1>5. CASE p \in {x, y} /\ q \in {x, y}
  <2>1. (p = x /\ q = y) \/ (p = y /\ q = x)
    BY <1>5
  <2> QED
    BY <1>1, <2>1
<1> QED
  BY <1>3, <1>4, <1>5

\* The pair goes with the tree of any optimum.
LEMMA PairExtends ==
  ASSUME CallInv, method # "EDMONDS", cycle,
         NEW x, NEW y, y # NoArc, Paired(x, y, Leaving(r)), NEW A \in Optima
  PROVE  Tree(A) \cup {x[1], y[1]} \in Optima
<1> DEFINE T == Tree(A)
           B == T \cup {x[1], y[1]}
<1>0. x \in Leaving(r) /\ y \in Leaving(r) /\ x # y
  BY DEF Paired
<1>1. A \in Solutions /\ IsBest(A)
  BY OptimaAreLeast DEF CallInv
<1>2. /\ T \in Trees(Verts)
      /\ mandatory \subseteq A /\ A \subseteq usable /\ A \subseteq Arcs
      /\ Cardinality(A) = N
  BY <1>1, SolutionParts
<1>3. PICK a \in AtRoot, b \in AtRoot : A = T \cup {a, b}
  BY <1>1, SolutionParts
<1>4. T \cap AtRoot = {} /\ T \subseteq Arcs
  BY <1>2 DEF Tree
<1>5. /\ IsFiniteSet(T) /\ Cardinality(T) \in Nat /\ N \in Nat
      /\ \A e : IsFiniteSet(T \cup {e})
  BY <1>4, ArcSetsAreFinite, GraphType, FS_AddElement
<1>6. Cardinality(T) = N - 2
  <2>1. IsFiniteSet(Nodes) /\ Cardinality(Nodes) = N
    <3>1. 0 \in Int /\ N - 1 \in Int /\ N > 0
      BY GraphType
    <3>2. IsFiniteSet(0 .. N - 1) /\ Cardinality(0 .. N - 1) = IF 0 > N - 1 THEN 0 ELSE (N - 1) - 0 + 1
      BY <3>1, FS_Interval
    <3> QED
      BY <3>1, <3>2, GraphType DEF Nodes
  <2>2. Cardinality(Verts) = N - 1
    BY <2>1, RootType, FS_RemoveElement DEF Verts
  <2>3. Cardinality(T) = Cardinality(Verts) - 1
    BY <1>2 DEF Trees
  <2> QED
    BY <1>5, <2>2, <2>3
<1>a. ASSUME NEW c \in AtRoot PROVE Cardinality(T \cup {c}) = N - 1
  <2>1. c \notin T
    BY <1>4
  <2> HIDE DEF T
  <2>2. Cardinality(T \cup {c}) = Cardinality(T) + 1
    BY <1>5, <2>1, FS_AddElement
  <2>3. \A n \in Nat : (n - 2) + 1 = n - 1
    OBVIOUS
  <2> QED
    BY <1>5, <1>6, <2>2, <2>3
<1>7. \A c, d \in AtRoot : c # d => Cardinality(T \cup {c, d}) = N
  <2> SUFFICES ASSUME NEW c \in AtRoot, NEW d \in AtRoot, c # d
               PROVE  Cardinality(T \cup {c, d}) = N
    OBVIOUS
  <2>1. Cardinality(T \cup {c}) = N - 1
    BY <1>a
  <2>2. d \notin T \cup {c}
    BY <1>4
  <2>3. Cardinality((T \cup {c}) \cup {d}) = Cardinality(T \cup {c}) + 1
    BY <1>5, <2>2, FS_AddElement
  <2>4. (T \cup {c}) \cup {d} = T \cup {c, d}
    OBVIOUS
  <2> HIDE DEF T
  <2> QED
    BY <1>5, <2>1, <2>3, <2>4
<1>8. a # b
  <2> SUFFICES ASSUME a = b PROVE FALSE
    OBVIOUS
  <2>1. A = T \cup {a}
    BY <1>3
  <2>2. Cardinality(T \cup {a}) = N - 1
    BY <1>a
  <2> QED
    BY <1>2, <1>5, <2>1, <2>2
<1>9. PICK p \in Leaving(r), q \in Leaving(r) : p[1] = a /\ q[1] = b
  <2>1. a \in AtRoot \cap usable /\ b \in AtRoot \cap usable
    BY <1>2, <1>3
  <2>2. PICK p \in Leaving(r) : p[1] = a
    BY <2>1, RootDarts
  <2>3. PICK q \in Leaving(r) : q[1] = b
    BY <2>1, RootDarts
  <2> QED
    BY <2>2, <2>3
<1>10. /\ x[1] \in AtRoot /\ y[1] \in AtRoot /\ x[1] \in usable /\ y[1] \in usable
       /\ x[1] # y[1] /\ p # q
       /\ x \in Darts /\ y \in Darts /\ p \in Darts /\ q \in Darts
  BY <1>0, <1>8, <1>9, RootDarts
<1>11. ASSUME NEW d \in Leaving(r), IsMandatory(d) PROVE d \in {p, q} /\ d \in {x, y}
  <2>1. d[1] \in mandatory /\ d[1] \in AtRoot
    BY <1>11, RootDarts DEF IsMandatory
  <2>2. d[1] \in {a, b}
    BY <1>2, <1>3, <1>4, <2>1
  <2>3. d \in {p, q}
    BY <1>9, <2>2, RootDarts
  <2>4. d \in {x, y}
    BY <1>11 DEF Paired
  <2> QED
    BY <2>3, <2>4
<1>12. Cost(x) + Cost(y) <= Cost(p) + Cost(q)
  BY <1>0, <1>10, <1>11, PairIsBest
<1>13. B \in Solutions
  <2>1. Tree(B) = T
    BY <1>4, <1>10 DEF Tree
  <2>2. mandatory \subseteq B
    <3> SUFFICES ASSUME NEW m \in mandatory, m \notin T PROVE m \in {x[1], y[1]}
      OBVIOUS
    <3>1. m \in AtRoot \cap usable
      BY <1>2, <1>3
    <3>2. PICK d \in Leaving(r) : d[1] = m
      BY <3>1, RootDarts
    <3> QED
      BY <1>11, <3>2 DEF IsMandatory
  <2>3. B \subseteq usable
    BY <1>2, <1>3, <1>10
  <2>4. Cardinality(B) = N /\ \E c, d \in AtRoot : B = Tree(B) \cup {c, d}
    BY <1>7, <1>10, <2>1
  <2> HIDE DEF B
  <2> QED
    BY <1>2, <2>1, <2>2, <2>3, <2>4, PartsAreSolution
<1>14. IsBest(B)
  <2>0. PICK f : f = len
    OBVIOUS
  <2>1. \A e \in Arcs : f[e] \in Int
    BY <2>0 DEF CallInv
  <2>2. ASSUME NEW c \in AtRoot, NEW d \in AtRoot, c # d
        PROVE  Total(f, T \cup {c, d}) = f[c] + f[d] + Total(f, T) /\ Total(f, T) \in Int
    <3>1. c \in Arcs /\ d \in Arcs /\ c \notin T /\ d \notin T \cup {c}
      BY <1>4, <2>2 DEF AtRoot
    <3>2. f[c] \in Int /\ f[d] \in Int
      BY <2>1, <3>1
    <3>3. \A e \in T \cup {c} : f[e] \in Int
      BY <1>4, <2>1, <3>1
    <3> HIDE DEF T
    <3>4. Total(f, T \cup {c}) = f[c] + Total(f, T) /\ Total(f, T) \in Int
      BY <1>5, <3>1, <3>2, <3>3, TotalWith, TotalIsInteger
    <3>5. IsFiniteSet(T \cup {c})
      BY <1>5
    <3>6. Total(f, (T \cup {c}) \cup {d}) = f[d] + Total(f, T \cup {c})
      BY <3>1, <3>2, <3>3, <3>5, TotalWith
    <3>7. (T \cup {c}) \cup {d} = T \cup {c, d}
      OBVIOUS
    <3>8. Total(f, T \cup {c, d}) = f[d] + (f[c] + Total(f, T))
      BY <3>4, <3>6, <3>7
    <3>9. \A i, j, k \in Int : j + (i + k) = i + j + k
      OBVIOUS
    <3> QED
      BY <3>2, <3>4, <3>8, <3>9
  <2>3. TotalLength(A) = Total(f, A) /\ TotalLength(B) = Total(f, B)
    BY <2>0, LengthIsTotal
  <2>4. Total(f, A) = f[a] + f[b] + Total(f, T) /\ Total(f, T) \in Int
    BY <1>3, <1>8, <2>2
  <2>5. Total(f, B) = f[x[1]] + f[y[1]] + Total(f, T)
    BY <1>10, <2>2
  <2>6. f[a] \in Int /\ f[b] \in Int /\ f[x[1]] \in Int /\ f[y[1]] \in Int
    BY <1>3, <1>10, <2>1 DEF AtRoot
  <2>7. sign * f[x[1]] + sign * f[y[1]] <= sign * f[a] + sign * f[b]
    BY <1>9, <1>12, <2>0 DEF Cost
  <2>8. TotalLength(A) \in Int /\ TotalLength(B) \in Int /\ sign * TotalLength(B) <= sign * TotalLength(A)
    <3> HIDE DEF B, T
    <3>1. CASE sign = 1
      BY <2>3, <2>4, <2>5, <2>6, <2>7, <3>1
    <3>2. CASE sign = -1
      BY <2>3, <2>4, <2>5, <2>6, <2>7, <3>2
    <3> QED
      BY <3>1, <3>2 DEF CallInv
  <2>9. ASSUME NEW C \in Solutions
        PROVE  sign * TotalLength(B) <= sign * TotalLength(C)
    <3>1. sign * TotalLength(A) <= sign * TotalLength(C)
      BY <1>1 DEF IsBest
    <3>2. TotalLength(C) \in Int
      <4>1. IsFiniteSet(C) /\ \A e \in C : f[e] \in Int
        BY <2>1, SolutionsAreArcs, ArcSetsAreFinite DEF CallInv
      <4> QED
        BY <2>0, <4>1, LengthIsTotal, TotalIsInteger
    <3> HIDE DEF B
    <3> QED
      BY <2>8, <3>1, <3>2 DEF CallInv
  <2> QED
    BY <2>9 DEF IsBest
<1> HIDE DEF B
<1>15. B \in Optima
  BY <1>13, <1>14, OptimaAreLeast DEF CallInv
<1> QED
  BY <1>15 DEF B

-----------------------------------------------------------------------------
\* The method of Prim grows a tree.  No length reaches the infinite one.
ShortLengths == \A a \in Arcs : -Inf < len[a] /\ len[a] < Inf

\* A key is below the label of a node that has none, and only a mandatory arc has the least.
LEMMA KeyBounds ==
  ASSUME CallInv, ShortLengths, NEW d \in Darts
  PROVE  /\ Key(d) \in Int /\ Cost(d) \in Int /\ -Inf <= Key(d) /\ Key(d) < Inf /\ -Inf < Cost(d)
         /\ Key(d) = IF method = "PRIM2" /\ IsMandatory(d) THEN -Inf ELSE Cost(d)
<1>1. d[1] \in Arcs /\ len[d[1]] \in Int /\ -Inf < len[d[1]] /\ len[d[1]] < Inf
  BY DartsAreArcs DEF CallInv, ShortLengths
<1>2. Cost(d) \in Int /\ -Inf < Cost(d) /\ Cost(d) < Inf
  <2>1. CASE sign = 1
    BY <1>1, <2>1 DEF Cost, Inf
  <2>2. CASE sign = -1
    BY <1>1, <2>2 DEF Cost, Inf
  <2> QED
    BY <2>1, <2>2 DEF CallInv
<1>3. Key(d) = IF method = "PRIM2" /\ IsMandatory(d) THEN -Inf ELSE Cost(d)
  BY DEF Key
<1> QED
  BY <1>2, <1>3 DEF Inf

\* The nodes in the tree: in a one cycle tree the root is among them from the start.
Grown == {v \in Nodes : dist[v] = -Inf /\ v \notin queue}

\* The nodes of the tree that are not the root of a cycle.
Inner == Grown \cap Verts

\* The arcs that have been chosen, and those at the root that will be.
Promised == {pred[v][1] : v \in {w \in Grown : pred[w] # NoArc}}
              \cup IF cycle THEN {pred[first][1], pred[r][1]} ELSE {}

\* A node has the arc that joins it to the tree.
Joined(v) == /\ pred[v] \in Darts /\ pred[v][1] \in usable
             /\ EndNode(pred[v]) = v /\ StartNode(pred[v]) \in Inner

\* No arc that leaves the tree is better than the label of the node it leads to.
Labelled ==
  \A d \in Darts : d[1] \in usable /\ StartNode(d) \in Inner /\ EndNode(d) \in Verts \ Grown
                     => EndNode(d) \in queue /\ dist[EndNode(d)] <= Key(d)

\* The invariant of the loop of MST_Prim.
ExpandInv ==
  /\ dist \in [Nodes -> Int] /\ pred \in [Nodes -> Darts \cup {NoArc}]
  /\ queue \subseteq Verts /\ first \in Verts
  /\ cycle => dist[r] = -Inf
  /\ first \in Grown \/ (queue = {first} /\ Inner = {})
  /\ \A v \in Nodes : v \in queue \/ dist[v] \in {Inf, -Inf}
  /\ \A v \in Inner \cup queue : v # first => Joined(v)
  /\ \A v \in queue : v # first => dist[v] = Key(pred[v])
  /\ IF cycle THEN /\ pred[first] \in Darts /\ pred[first][1] \in AtRoot
                   /\ pred[r] \in Darts /\ pred[r][1] \in AtRoot
              ELSE pred[first] = NoArc
  /\ Labelled
  /\ method = "PRIM" => mandatory = {}
  /\ Extends(Promised)

\* There are finitely many darts.
LEMMA DartsAreFinite == IsFiniteSet(Darts)
<1>1. IsFiniteSet({0, 1})
  <2>1. IsFiniteSet({0}) /\ IsFiniteSet({1})
    BY FS_Singleton
  <2>2. IsFiniteSet({0} \cup {1})
    BY <2>1, FS_Union
  <2>3. {0} \cup {1} = {0, 1}
    OBVIOUS
  <2> QED
    BY <2>2, <2>3
<1> QED
  BY <1>1, GraphType, FS_Product DEF Darts

\* Of arcs that improve a label, there is a cheapest one.
LEMMA SomeImproves ==
  ASSUME CallInv, ShortLengths, NEW u, NEW d \in Leaving(u), Key(d) < dist[EndNode(d)]
  PROVE  Improving(u, EndNode(d)) # {}
<1> DEFINE D == {e \in Leaving(u) : EndNode(e) = EndNode(d) /\ Key(e) < dist[EndNode(d)]}
           f == [e \in D |-> Key(e)]
<1>1. d \in D /\ D \in SUBSET Darts
  BY DEF Leaving
<1>2. IsFiniteSet(D)
  BY <1>1, DartsAreFinite, FS_Subset
<1>3. f \in [D -> Int]
  BY <1>1, KeyBounds
<1>4. PICK e \in D : \A c \in D : f[e] <= f[c]
  <2>1. D # {}
    BY <1>1
  <2> HIDE DEF f, D
  <2> QED
    BY <1>2, <1>3, <2>1, LeastValue
<1>5. \A c \in D : Key(e) <= Key(c)
  BY <1>4
<1> HIDE DEF f
<1> QED
  BY <1>5, Zenon DEF Improving, Cheapest

\* An improving arc has the least key of all that lead from u to v.
LEMMA ImprovingArcs ==
  ASSUME NEW u, NEW v, NEW c \in Improving(u, v)
  PROVE  /\ c \in Leaving(u) /\ EndNode(c) = v /\ Key(c) < dist[v]
         /\ \A d \in Leaving(u) : EndNode(d) = v /\ Key(d) < dist[v] => Key(c) <= Key(d)
BY DEF Improving, Cheapest

\* What happens when the node u is added to the tree.
Expands(u) ==
  /\ \A w \in queue : dist[u] <= dist[w]
  /\ sum' = sum + Gain(u) /\ rank' = rank + 1
  /\ queue' = (queue \ {u}) \cup Improved(u) /\ u \notin Improved(u)
  /\ dist' \in [Nodes -> Int] /\ dist'[u] = -Inf
  /\ pred' \in [Nodes -> Darts \cup {NoArc}]
  /\ \A v \in Nodes \ Improved(u) : /\ pred'[v] = pred[v]
                                    /\ v # u => dist'[v] = dist[v]
  /\ \A v \in Improved(u) :
       /\ pred'[v] \in Darts /\ pred'[v][1] \in usable
       /\ EndNode(pred'[v]) = v /\ StartNode(pred'[v]) = u
       /\ dist'[v] = Key(pred'[v]) /\ Key(pred'[v]) < dist[v]
  /\ \A d \in Leaving(u) : IF EndNode(d) \in Improved(u)
                           THEN dist'[EndNode(d)] <= Key(d)
                           ELSE dist[EndNode(d)] <= Key(d)

\* PrimExpand expands a node of the queue.
LEMMA ExpandEffect ==
  ASSUME CallInv, ShortLengths, ExpandInv, PrimExpand
  PROVE  \E u \in queue : Expands(u)
<1>1. PICK u \in Nearest :
        /\ sum' = sum + Gain(u) /\ rank' = rank + 1
        /\ queue' = (queue \ {u}) \cup Improved(u)
        /\ \E c \in [Improved(u) -> Leaving(u)] :
             /\ \A v \in Improved(u) : c[v] \in Improving(u, v)
             /\ pred' = [v \in Nodes |-> IF v \in Improved(u) THEN c[v] ELSE pred[v]]
             /\ dist' = [v \in Nodes |-> IF v = u THEN -Inf
                                         ELSE IF v \in Improved(u) THEN Key(c[v]) ELSE dist[v]]
  BY Zenon DEF PrimExpand
<1>2. PICK c \in [Improved(u) -> Leaving(u)] :
        /\ \A v \in Improved(u) : c[v] \in Improving(u, v)
        /\ pred' = [v \in Nodes |-> IF v \in Improved(u) THEN c[v] ELSE pred[v]]
        /\ dist' = [v \in Nodes |-> IF v = u THEN -Inf
                                    ELSE IF v \in Improved(u) THEN Key(c[v]) ELSE dist[v]]
  BY <1>1
<1>3. u \in queue /\ \A w \in queue : dist[u] <= dist[w]
  <2>1. u \in {v \in queue : \A w \in queue : dist[v] <= dist[w]}
    <3> PICK near : near = {v \in queue : \A w \in queue : dist[v] <= dist[w]}
      OBVIOUS
    <3>1. Nearest = IF method = "PRIM" THEN {v \in near : \A w \in near : v <= w} ELSE near
      BY Zenon DEF Nearest
    <3>2. u \in near
      BY <1>1, <3>1
    <3> QED
      BY <3>2
  <2> QED
    BY <2>1
<1>4. u \in Nodes /\ dist \in [Nodes -> Int] /\ pred \in [Nodes -> Darts \cup {NoArc}]
  BY <1>3, VertsAreNodes DEF ExpandInv
<1>5. Leaving(u) \subseteq Darts /\ Improved(u) \subseteq Nodes
  BY DEF Leaving, Improved
<1>6. \A d \in Leaving(u) : d[1] \in usable /\ StartNode(d) = u /\ EndNode(d) # u /\ EndNode(d) \in Nodes
  <2>1. \A d \in Darts : EndNode(d) \in Nodes
    BY DartEnds
  <2> QED
    BY <2>1 DEF Leaving
<1>7. ASSUME NEW v \in Improved(u)
      PROVE  /\ c[v] \in Leaving(u) /\ EndNode(c[v]) = v /\ Key(c[v]) < dist[v]
             /\ \A d \in Leaving(u) : EndNode(d) = v /\ Key(d) < dist[v] => Key(c[v]) <= Key(d)
  <2>1. c[v] \in Improving(u, v)
    BY <1>2
  <2> QED
    BY <2>1, ImprovingArcs
<1>8. u \notin Improved(u)
  BY <1>6, <1>7
<1>9. pred' = [v \in Nodes |-> IF v \in Improved(u) THEN c[v] ELSE pred[v]]
  BY <1>2
<1>10. dist' = [v \in Nodes |-> IF v = u THEN -Inf ELSE IF v \in Improved(u) THEN Key(c[v]) ELSE dist[v]]
  BY <1>2
<1>11. dist'[u] = -Inf /\ dist' \in [Nodes -> Int] /\ pred' \in [Nodes -> Darts \cup {NoArc}]
  <2>1. \A v \in Improved(u) : Key(c[v]) \in Int /\ c[v] \in Darts
    BY <1>5, <1>7, KeyBounds
  <2>2. -Inf \in Int
    BY DEF Inf
  <2> QED
    BY <1>4, <1>9, <1>10, <2>1, <2>2
<1>12. \A v \in Nodes \ Improved(u) : pred'[v] = pred[v] /\ (v # u => dist'[v] = dist[v])
  BY <1>9, <1>10
<1>13. ASSUME NEW v \in Improved(u)
       PROVE  /\ pred'[v] \in Darts /\ pred'[v][1] \in usable
              /\ EndNode(pred'[v]) = v /\ StartNode(pred'[v]) = u
              /\ dist'[v] = Key(pred'[v]) /\ Key(pred'[v]) < dist[v]
  <2>1. pred'[v] = c[v] /\ dist'[v] = Key(c[v])
    BY <1>5, <1>8, <1>9, <1>10
  <2>2. c[v] \in Leaving(u) /\ EndNode(c[v]) = v /\ Key(c[v]) < dist[v]
    BY <1>7
  <2> QED
    BY <1>5, <1>6, <2>1, <2>2
<1>14. ASSUME NEW d \in Leaving(u)
       PROVE  IF EndNode(d) \in Improved(u) THEN dist'[EndNode(d)] <= Key(d)
                                            ELSE dist[EndNode(d)] <= Key(d)
  <2> PICK v \in Nodes : v = EndNode(d)
    BY <1>6
  <2>1. Key(d) \in Int /\ dist[v] \in Int
    BY <1>4, <1>5, KeyBounds
  <2>2. CASE v \in Improved(u)
    <3>1. dist'[v] = Key(c[v]) /\ Key(c[v]) \in Int /\ Key(c[v]) < dist[v]
          /\ (Key(d) < dist[v] => Key(c[v]) <= Key(d))
      <4>1. c[v] \in Darts
        BY <1>5, <1>7, <2>2
      <4> QED
        BY <1>7, <1>13, <1>8, <1>10, <2>2, <4>1, KeyBounds
    <3> QED
      BY <2>1, <2>2, <3>1
  <2>3. CASE v \notin Improved(u)
    <3>1. ~(Key(d) < dist[v])
      BY <2>3, SomeImproves DEF Improved
    <3> QED
      BY <2>1, <2>3, <3>1
  <2> QED
    BY <2>2, <2>3
<1> QED
  BY <1>1, <1>3, <1>8, <1>11, <1>12, <1>13, <1>14 DEF Expands

\* An arc that joins two nodes of the tree cannot cross the cut between the tree and the rest;
\* all arcs that are promised are of this kind, or at the root.
LEMMA PromisedStayInside ==
  ASSUME CallInv, ExpandInv, NEW b \in Promised, b \in Inside(Verts)
  PROVE  ~Crosses(b, Inner)
<1>1. ASSUME cycle, b \in {pred[first][1], pred[r][1]} PROVE FALSE
  <2>1. b \in AtRoot
    BY <1>1 DEF ExpandInv
  <2> QED
    BY <1>1, <2>1 DEF AtRoot, Inside, Verts
<1>2. CASE \E v \in Grown : pred[v] # NoArc /\ b = pred[v][1]
  <2>1. PICK v \in Grown : pred[v] # NoArc /\ b = pred[v][1]
    BY <1>2
  <2>2. v # first
    <3>1. CASE cycle
      BY <1>1, <2>1, <3>1
    <3>2. CASE ~cycle
      BY <2>1, <3>2 DEF ExpandInv
    <3> QED
      BY <3>1, <3>2
  <2>3. v \in Inner
    <3>1. v \in Nodes /\ (cycle => v # r)
      BY <1>1, <2>1 DEF Grown
    <3> QED
      BY <2>1, <3>1 DEF Inner, Verts
  <2>4. Joined(v)
    BY <2>2, <2>3 DEF ExpandInv
  <2>5. /\ \/ From[b] = StartNode(pred[v]) /\ To[b] = EndNode(pred[v])
           \/ To[b] = StartNode(pred[v]) /\ From[b] = EndNode(pred[v])
        /\ StartNode(pred[v]) \in Inner /\ EndNode(pred[v]) \in Inner
    BY <2>1, <2>3, <2>4, DartEnds DEF Joined
  <2> QED
    BY <2>5 DEF Crosses
<1>3. b \in {pred[v][1] : v \in {w \in Grown : pred[w] # NoArc}}
        \/ (cycle /\ b \in {pred[first][1], pred[r][1]})
  BY DEF Promised, CallInv
<1> QED
  BY <1>1, <1>2, <1>3

\* The arc of a nearest node crosses that cut, and no arc is better.
LEMMA ExpansionExtends ==
  ASSUME CallInv, ShortLengths, method \in Prims, ExpandInv, Solutions # {},
         NEW u \in queue, \A w \in queue : dist[u] <= dist[w], u # first
  PROVE  \E A \in Optima : Promised \cup {pred[u][1]} \subseteq A
<1>1. PICK A \in Optima : Promised \subseteq A
  BY DEF ExpandInv, Extends
<1>2. A \in Solutions /\ mandatory \subseteq A /\ A \subseteq usable /\ A \subseteq Arcs
  <2>1. A \in Solutions
    BY OptimaAreLeast DEF CallInv
  <2> QED
    BY <2>1, SolutionParts DEF Prims
<1> PICK p : p = pred[u]
  OBVIOUS
<1> PICK a : a = p[1]
  OBVIOUS
<1>3. p \in Darts /\ a \in usable /\ EndNode(p) = u /\ StartNode(p) \in Inner /\ dist[u] = Key(p)
  BY DEF ExpandInv, Joined
<1>4. u \in Verts /\ u \notin Grown /\ Inner \in SUBSET Verts /\ dist \in [Nodes -> Int]
  BY DEF ExpandInv, Grown, Inner
<1>5. a \in Inside(Verts) \cap usable /\ Crosses(a, Inner) /\ a \in Arcs
  <2>1. \/ From[a] = StartNode(p) /\ To[a] = u
        \/ To[a] = StartNode(p) /\ From[a] = u
    BY <1>3, DartEnds
  <2>2. a \in Arcs /\ u \notin Inner /\ StartNode(p) \in Verts
    BY <1>3, <1>4, DartsAreArcs DEF Inner
  <2> QED
    BY <1>3, <1>4, <2>1, <2>2 DEF Crosses, Inside
<1>6. CASE a \in A
  BY <1>1, <1>6
<1>7. CASE a \notin A
  <2>1. a \notin mandatory /\ Key(p) = Cost(p) /\ Cost(p) = sign * len[a]
    <3>1. ~IsMandatory(p)
      BY <1>2, <1>7 DEF IsMandatory
    <3> QED
      BY <1>2, <1>3, <1>7, <3>1, KeyBounds DEF Cost
  <2>2. ASSUME NEW b \in A, b \in Inside(Verts), Crosses(b, Inner)
        PROVE  b \notin mandatory /\ sign * len[a] <= sign * len[b]
    <3>1. PICK d \in Darts : d[1] = b /\ StartNode(d) \in Inner /\ EndNode(d) \in Verts \ Inner
      <4>1. b \in Arcs /\ From[b] \in Verts /\ To[b] \in Verts
        BY <2>2 DEF Inside
      <4>2. /\ <<b, 0>> \in Darts /\ <<b, 0>>[1] = b /\ StartNode(<<b, 0>>) = From[b]
            /\ EndNode(<<b, 0>>) = To[b]
        BY <4>1 DEF Darts, StartNode, EndNode, Opposite
      <4>3. /\ <<b, 1>> \in Darts /\ <<b, 1>>[1] = b /\ StartNode(<<b, 1>>) = To[b]
            /\ EndNode(<<b, 1>>) = From[b]
        BY <4>1 DEF Darts, StartNode, EndNode, Opposite
      <4>4. CASE From[b] \in Inner
        BY <2>2, <4>1, <4>2, <4>4 DEF Crosses
      <4>5. CASE From[b] \notin Inner
        BY <2>2, <4>1, <4>3, <4>5 DEF Crosses
      <4> QED
        BY <4>4, <4>5
    <3>2. EndNode(d) \in Verts \ Grown
      BY <3>1 DEF Inner
    <3>3. EndNode(d) \in queue /\ dist[EndNode(d)] <= Key(d)
      BY <1>2, <3>1, <3>2 DEF ExpandInv, Labelled
    <3>4. dist[u] <= dist[EndNode(d)] /\ dist[u] \in Int /\ dist[EndNode(d)] \in Int
      BY <1>4, <3>2, <3>3, VertsAreNodes
    <3>5. Key(d) \in Int /\ Key(p) \in Int /\ -Inf < Cost(p) /\ Cost(d) = sign * len[b]
          /\ Key(d) = IF method = "PRIM2" /\ IsMandatory(d) THEN -Inf ELSE Cost(d)
      BY <1>3, <3>1, KeyBounds DEF Cost
    <3>6. Key(p) <= Key(d)
      BY <1>3, <3>3, <3>4, <3>5
    <3>7. ~(method = "PRIM2" /\ IsMandatory(d))
      <4> SUFFICES ASSUME Key(d) = -Inf PROVE FALSE
        BY <3>5
      <4> QED
        BY <2>1, <3>5, <3>6 DEF Inf
    <3>8. b \notin mandatory
      BY <3>1, <3>7 DEF IsMandatory, ExpandInv, Prims
    <3> QED
      BY <2>1, <3>5, <3>6, <3>7, <3>8
  <2>3. PICK b \in A : b \in Inside(Verts) /\ Crosses(b, Inner) /\ Swapped(A, b, a) \in Optima
    <3>1. method # "EDMONDS"
      BY DEF Prims
    <3> QED
      BY <1>4, <1>5, <1>7, <2>2, <3>1, CutExchange
  <2>4. b \notin Promised
    BY <2>3, PromisedStayInside
  <2>5. Promised \cup {a} \subseteq Swapped(A, b, a)
    BY <1>1, <2>4 DEF Swapped
  <2> QED
    BY <2>3, <2>5
<1> QED
  BY <1>6, <1>7

\* The tree grows by this node.
LEMMA TreeGrows ==
  ASSUME CallInv, ShortLengths, method \in Prims, ExpandInv, PrimExpand, NEW u \in queue, Expands(u)
  PROVE  /\ u \in Verts /\ u \notin Grown /\ Grown' = Grown \cup {u} /\ Inner' = Inner \cup {u}
         /\ Improved(u) \subseteq Verts /\ first \notin Improved(u)
         /\ first' = first /\ first \in Grown' /\ pred'[first] = pred[first] /\ pred'[u] = pred[u]
         /\ cycle => pred'[r] = pred[r] /\ dist'[r] = -Inf
         /\ \A v \in Grown : pred'[v] = pred[v]
         /\ Promised' = IF u = first THEN Promised ELSE Promised \cup {pred[u][1]}
<1>1. Expands(u)
  OBVIOUS
<1>2. UNCHANGED instance /\ first' = first
  BY DEF PrimExpand
<1>3. /\ UNCHANGED <<len, usable, mandatory, cycle, sign, method>>
      /\ Verts' = Verts /\ \A d : Key(d)' = Key(d)
  <2>1. UNCHANGED <<len, usable, mandatory, cycle, sign, method>>
    BY <1>2 DEF instance
  <2>2. Verts' = Verts
    BY <2>1 DEF Verts
  <2>3. \A d : Key(d)' = Key(d)
    BY <2>1 DEF Key, IsMandatory, Cost
  <2> QED
    BY <2>1, <2>2, <2>3
<1>4. /\ dist \in [Nodes -> Int] /\ queue \subseteq Verts /\ Verts \subseteq Nodes
      /\ u \in Verts /\ u \in Nodes
      /\ Improved(u) \subseteq Nodes
  BY VertsAreNodes DEF ExpandInv, Improved
<1>5. ASSUME NEW v \in Improved(u) PROVE dist[v] # -Inf /\ v # u
  <2>1. pred'[v] \in Darts /\ Key(pred'[v]) < dist[v]
    BY <1>1 DEF Expands
  <2>2. -Inf <= Key(pred'[v]) /\ Key(pred'[v]) \in Int
    BY <2>1, KeyBounds
  <2> QED
    BY <1>1, <2>1, <2>2 DEF Inf, Expands
<1>6. Improved(u) \subseteq Verts
  <2>1. cycle => dist[r] = -Inf
    BY DEF ExpandInv
  <2> QED
    BY <1>4, <1>5, <2>1 DEF Verts
<1>7. Grown' = Grown \cup {u} /\ Inner' = Inner \cup {u} /\ u \notin Grown
  <2>1. ASSUME NEW v \in Nodes PROVE v \in Grown' <=> v \in Grown \cup {u}
    <3>1. CASE v = u
      BY <1>1, <3>1 DEF Grown, Expands
    <3>2. CASE v \in Improved(u)
      BY <1>1, <1>5, <3>2 DEF Grown, Expands
    <3>3. CASE v # u /\ v \notin Improved(u)
      BY <1>1, <3>3 DEF Grown, Expands
    <3> QED
      BY <3>1, <3>2, <3>3
  <2>2. Grown' = Grown \cup {u}
    BY <1>4, <2>1 DEF Grown
  <2> QED
    BY <1>3, <1>4, <2>2 DEF Inner, Grown
<1>8. first \notin Improved(u) /\ (cycle => r \notin Improved(u))
  <2>1. first \in Grown \/ queue = {first}
    BY DEF ExpandInv
  <2>2. first \notin Improved(u)
    BY <1>1, <1>5, <2>1 DEF Grown, Expands
  <2>3. cycle => r \notin Improved(u)
    BY <1>5 DEF ExpandInv
  <2> QED
    BY <2>2, <2>3
<1>9. pred'[first] = pred[first] /\ (cycle => pred'[r] = pred[r]) /\ pred'[u] = pred[u]
      /\ \A v \in Grown : pred'[v] = pred[v]
  <2>1. first \in Nodes /\ r \in Nodes
    BY <1>4, RootType DEF ExpandInv
  <2>2. \A v \in Grown : v \in Nodes \ Improved(u)
    BY <1>5 DEF Grown
  <2> QED
    BY <1>1, <1>4, <1>8, <2>1, <2>2 DEF Expands
<1>10. cycle => dist'[r] = -Inf
  <2>1. cycle => dist[r] = -Inf /\ r \notin Improved(u) /\ r \in Nodes /\ r # u
    BY <1>4, <1>8, RootType DEF ExpandInv, Verts
  <2> QED
    BY <1>1, <2>1 DEF Expands
<1>11. first \in Grown'
  <2>1. first \in Grown \/ queue = {first}
    BY DEF ExpandInv
  <2> QED
    BY <1>1, <1>2, <1>7, <2>1 DEF Expands
<1>12. Promised' \subseteq IF u = first THEN Promised ELSE Promised \cup {pred[u][1]}
  <2>1. ASSUME NEW v \in Grown', pred'[v] # NoArc
        PROVE  pred'[v][1] \in IF u = first THEN Promised ELSE Promised \cup {pred[u][1]}
    <3>1. CASE v = u
      <4>1. CASE u = first
        <5>1. cycle /\ pred'[v] = pred[first]
          BY <1>4, <1>9, <2>1, <3>1, <4>1 DEF ExpandInv, CallInv
        <5> QED
          BY <4>1, <5>1 DEF Promised
      <4>2. CASE u # first
        BY <1>9, <3>1, <4>2
      <4> QED
        BY <4>1, <4>2
    <3>2. CASE v # u
      <4>1. v \in Grown /\ pred'[v] = pred[v]
        BY <1>7, <1>9, <3>2
      <4> QED
        BY <2>1, <4>1 DEF Promised
    <3> QED
      BY <3>1, <3>2
  <2>2. cycle => pred'[first] = pred[first] /\ pred'[r] = pred[r]
    BY <1>9
  <2>3. cycle => {pred[first][1], pred[r][1]} \subseteq Promised
    BY DEF Promised
  <2>4. Promised' \subseteq {pred'[v][1] : v \in {w \in Grown' : pred'[w] # NoArc}}
                              \cup IF cycle THEN {pred[first][1], pred[r][1]} ELSE {}
    BY <1>2, <1>3, <2>2 DEF Promised
  <2> QED
    BY <2>1, <2>3, <2>4
<1>13. IF u = first THEN Promised \subseteq Promised' ELSE Promised \cup {pred[u][1]} \subseteq Promised'
  <2>1. \A v \in Grown : pred[v] # NoArc => pred[v][1] \in Promised'
    BY <1>7, <1>9 DEF Promised
  <2>2. cycle => {pred[first][1], pred[r][1]} \subseteq Promised'
    BY <1>2, <1>3, <1>9 DEF Promised
  <2>3. Promised \subseteq Promised'
    BY <2>1, <2>2 DEF Promised
  <2>4. u # first => pred[u][1] \in Promised'
    <3> SUFFICES ASSUME u # first PROVE pred[u][1] \in Promised'
      OBVIOUS
    <3>1. pred[u] \in Darts
      BY DEF ExpandInv, Joined
    <3>2. u \in Grown' /\ pred'[u] # NoArc
      BY <1>7, <1>9, <3>1, DartsAreArcs
    <3> QED
      BY <1>9, <3>2 DEF Promised
  <2> QED
    BY <2>3, <2>4
<1>14. Promised' = IF u = first THEN Promised ELSE Promised \cup {pred[u][1]}
  BY <1>12, <1>13
<1> QED
  BY <1>1, <1>2, <1>4, <1>6, <1>7, <1>8, <1>9, <1>10, <1>11, <1>14 DEF Expands

\* The loop of MST_Prim keeps its invariant.
LEMMA ExpansionKeeps ==
  ASSUME CallInv, ShortLengths, method \in Prims, ExpandInv, PrimExpand
  PROVE  ExpandInv'
<1>1. PICK u \in queue : Expands(u)
  BY ExpandEffect
<1>2. UNCHANGED instance /\ first' = first
  BY DEF PrimExpand
<1>3. /\ UNCHANGED <<len, usable, mandatory, cycle, sign, method>>
      /\ Verts' = Verts /\ \A d : Key(d)' = Key(d)
  <2>1. UNCHANGED <<len, usable, mandatory, cycle, sign, method>>
    BY <1>2 DEF instance
  <2>2. Verts' = Verts
    BY <2>1 DEF Verts
  <2>3. \A d : Key(d)' = Key(d)
    BY <2>1 DEF Key, IsMandatory, Cost
  <2> QED
    BY <2>1, <2>2, <2>3
<1>4. /\ dist \in [Nodes -> Int] /\ queue \subseteq Verts /\ Verts \subseteq Nodes
      /\ u \in Verts /\ u \in Nodes
      /\ Improved(u) \subseteq Nodes
  BY VertsAreNodes DEF ExpandInv, Improved
<1>5. ASSUME NEW v \in Improved(u) PROVE dist[v] # -Inf /\ v # u
  <2>1. pred'[v] \in Darts /\ Key(pred'[v]) < dist[v]
    BY <1>1 DEF Expands
  <2>2. -Inf <= Key(pred'[v]) /\ Key(pred'[v]) \in Int
    BY <2>1, KeyBounds
  <2> QED
    BY <1>1, <2>1, <2>2 DEF Inf, Expands
<1>6. Improved(u) \subseteq Verts /\ first \notin Improved(u)
  BY <1>1, TreeGrows
<1>7. Grown' = Grown \cup {u} /\ Inner' = Inner \cup {u} /\ u \notin Grown
  BY <1>1, TreeGrows
<1>9. pred'[first] = pred[first] /\ (cycle => pred'[r] = pred[r] /\ dist'[r] = -Inf) /\ pred'[u] = pred[u]
      /\ \A v \in Grown : pred'[v] = pred[v]
  BY <1>1, TreeGrows
<1>10. (queue \subseteq Verts)' /\ (first \in Verts)' /\ (cycle => dist[r] = -Inf)'
  BY <1>1, <1>2, <1>3, <1>4, <1>6, <1>9 DEF ExpandInv, Expands
<1>11. (first \in Grown)'
  BY <1>1, TreeGrows
<1>12. ASSUME NEW v \in Nodes PROVE v \in queue' \/ dist'[v] \in {Inf, -Inf}
  <2>1. v \in queue \/ dist[v] \in {Inf, -Inf}
    BY DEF ExpandInv
  <2>2. CASE v = u
    BY <1>1, <2>2 DEF Expands
  <2>3. CASE v # u
    BY <1>1, <2>1, <2>3 DEF Expands
  <2> QED
    BY <2>2, <2>3
<1>13. ASSUME NEW v \in Inner' \cup queue', v # first'
       PROVE  Joined(v)' /\ (v \in queue' => dist'[v] = Key(pred'[v]))
  <2>1. CASE v \in Improved(u)
    <3>1. u \in Inner'
      BY <1>7
    <3> QED
      BY <1>1, <1>3, <2>1, <3>1 DEF Joined, Expands
  <2>2. CASE v \notin Improved(u)
    <3>1. v \in Inner \cup queue /\ v # first /\ v \in Nodes
      BY <1>1, <1>2, <1>4, <1>7, <1>13, <2>2 DEF Inner, Grown, Expands
    <3>2. Joined(v) /\ (v \in queue => dist[v] = Key(pred[v]))
      BY <3>1 DEF ExpandInv
    <3>3. pred'[v] = pred[v] /\ (v # u => dist'[v] = dist[v])
      BY <1>1, <2>2, <3>1 DEF Expands
    <3>4. Joined(v)'
      BY <1>3, <1>7, <3>2, <3>3 DEF Joined
    <3>5. v \in queue' => v \in queue /\ v # u
      BY <1>1, <2>2 DEF Expands
    <3> QED
      BY <3>2, <3>3, <3>4, <3>5
  <2> QED
    BY <2>1, <2>2
<1>14. \A v \in Inner' \cup queue' : v # first' => Joined(v)'
  BY <1>13
<1>15. \A v \in queue' : v # first' => dist'[v] = Key(pred[v])'
  <2> SUFFICES ASSUME NEW v \in queue', v # first' PROVE dist'[v] = Key(pred[v])'
    OBVIOUS
  <2>1. dist'[v] = Key(pred'[v])
    BY <1>13
  <2>2. Key(pred[v])' = Key(pred'[v])
    BY <1>3 DEF Key, IsMandatory, Cost
  <2> QED
    BY <2>1, <2>2
<1>16. (IF cycle THEN /\ pred[first] \in Darts /\ pred[first][1] \in AtRoot
                      /\ pred[r] \in Darts /\ pred[r][1] \in AtRoot
                 ELSE pred[first] = NoArc)'
  <2>1. IF cycle THEN /\ pred[first] \in Darts /\ pred[first][1] \in AtRoot
                      /\ pred[r] \in Darts /\ pred[r][1] \in AtRoot
                 ELSE pred[first] = NoArc
    BY DEF ExpandInv
  <2> QED
    BY <1>2, <1>3, <1>9, <2>1
<1>17. ASSUME NEW d \in Darts, d[1] \in usable, StartNode(d) \in Inner', EndNode(d) \in Verts \ Grown'
       PROVE  EndNode(d) \in queue' /\ dist'[EndNode(d)] <= Key(d)
  <2> PICK v : v = EndNode(d)
    OBVIOUS
  <2>1. v \in Verts /\ v \in Nodes /\ v \notin Grown /\ v # u
    BY <1>4, <1>7, <1>17
  <2>2. Key(d) \in Int /\ Key(d) < Inf /\ dist[v] \in Int
    BY <1>4, <2>1, KeyBounds
  <2>3. CASE v \in Improved(u)
    <3>1. v \in queue'
      BY <1>1, <2>3 DEF Expands
    <3>2. CASE StartNode(d) = u
      <4>1. d \in Leaving(u)
        BY <1>17, <2>1, <3>2 DEF Leaving
      <4> QED
        BY <1>1, <2>3, <3>1, <4>1 DEF Expands
    <3>3. CASE StartNode(d) # u
      <4>1. dist[v] <= Key(d)
        BY <1>7, <1>17, <2>1, <3>3 DEF ExpandInv, Labelled
      <4>2. dist'[v] < dist[v] /\ dist'[v] \in Int
        BY <1>1, <2>1, <2>3 DEF Expands
      <4> QED
        BY <2>2, <3>1, <4>1, <4>2
    <3> QED
      BY <3>2, <3>3
  <2>4. CASE v \notin Improved(u)
    <3>0. dist'[v] = dist[v]
      BY <1>1, <2>1, <2>4 DEF Expands
    <3>1. CASE StartNode(d) = u
      <4>1. d \in Leaving(u)
        BY <1>17, <2>1, <3>1 DEF Leaving
      <4>2. dist[v] <= Key(d)
        BY <1>1, <2>4, <4>1 DEF Expands
      <4>3. v \in queue
        <5>1. dist[v] # Inf
          BY <2>2, <4>2 DEF Inf
        <5>2. dist[v] = -Inf => v \in queue
          BY <2>1 DEF Grown
        <5> QED
          BY <2>1, <5>1, <5>2 DEF ExpandInv
      <4> QED
        BY <1>1, <2>1, <3>0, <4>2, <4>3 DEF Expands
    <3>2. CASE StartNode(d) # u
      <4>1. v \in queue /\ dist[v] <= Key(d)
        BY <1>7, <1>17, <2>1, <3>2 DEF ExpandInv, Labelled
      <4> QED
        BY <1>1, <2>1, <3>0, <4>1 DEF Expands
    <3> QED
      BY <3>1, <3>2
  <2> QED
    BY <2>3, <2>4
<1>18. Labelled'
  BY <1>3, <1>17 DEF Labelled
<1>19. Promised' = IF u = first THEN Promised ELSE Promised \cup {pred[u][1]}
  BY <1>1, TreeGrows
<1>20. Extends(Promised)'
  <2> SUFFICES ASSUME Solutions # {} PROVE \E A \in Optima : Promised' \subseteq A
    BY <1>2, CallStays DEF Extends
  <2>1. CASE u = first
    <3>1. PICK A \in Optima : Promised \subseteq A
      BY DEF ExpandInv, Extends
    <3> QED
      BY <1>19, <2>1, <3>1
  <2>2. CASE u # first
    <3>1. PICK A \in Optima : Promised \cup {pred[u][1]} \subseteq A
      BY <1>1, <2>2, ExpansionExtends DEF Expands
    <3> QED
      BY <1>19, <2>2, <3>1
  <2> QED
    BY <2>1, <2>2
<1>21. (method = "PRIM" => mandatory = {})'
  BY <1>3 DEF ExpandInv
<1> QED
  BY <1>1, <1>10, <1>11, <1>12, <1>14, <1>15, <1>16, <1>18, <1>20, <1>21 DEF ExpandInv, Expands

-----------------------------------------------------------------------------
\* While the arcs at the root are read, in a one cycle tree.
PairInv ==
  /\ cycle /\ queue = {} /\ todo \subseteq Leaving(r)
  /\ dist = [v \in Nodes |-> Inf] /\ pred = [v \in Nodes |-> NoArc]
  /\ Cardinality(mandatory \cap AtRoot) <= 2
  /\ method = "PRIM" => mandatory = {}
  /\ picks = <<picks[1], picks[2]>>
  /\ Paired(picks[1], picks[2], Leaving(r) \ todo)

\* Before the method of Prim starts.
FewAtRoot == cycle => Cardinality(mandatory \cap AtRoot) <= 2

\* The invariant of the method of Prim.
PrimInv == method \in Prims =>
             /\ pc = "start" => FewAtRoot
             /\ pc = "pick" => PairInv
             /\ pc = "expand" => ExpandInv

\* MST_Prim starts with the root, or with the arcs at the root of a cycle.
LEMMA PrimStarts ==
  ASSUME CallInv, FewAtRoot, PrimStart
  PROVE  (pc = "pick" => PairInv)' /\ (pc = "expand" => ExpandInv)' /\ SameCall
         /\ method' \in Prims /\ pc' \in {"pick", "expand"}
<1>1. /\ method \in Prims /\ method' = IF mandatory # {} THEN "PRIM2" ELSE method
      /\ UNCHANGED <<len, usable, mandatory, directed, cycle, sign>>
      /\ pred' = [v \in Nodes |-> NoArc] /\ first' = r
      /\ dist' = [v \in Nodes |-> IF v = r /\ ~cycle THEN 0 ELSE Inf]
      /\ IF cycle THEN pc' = "pick" /\ todo' = Leaving(r) /\ queue' = {}
                  ELSE pc' = "expand" /\ todo' = {} /\ queue' = {r}
      /\ picks' = <<NoArc, NoArc>>
  BY DEF PrimStart
<1>2. SameCall /\ method' \in Prims /\ (method' = "PRIM" => mandatory' = {})
  BY <1>1 DEF SameCall, Prims
<1>3. CASE cycle
  <2>1. Leaving(r)' = Leaving(r)
    BY <1>1 DEF Leaving
  <2>2. dist' = [v \in Nodes |-> Inf]
    BY <1>1, <1>3
  <2>3. picks'[1] = NoArc /\ picks'[2] = NoArc /\ picks' = <<picks'[1], picks'[2]>>
    BY <1>1
  <2>4. Paired(picks[1], picks[2], Leaving(r) \ todo)'
    <3>1. (Leaving(r) \ todo)' = {}
      BY <1>1, <1>3, <2>1
    <3> QED
      BY <2>3, <3>1 DEF Paired
  <2>5. PairInv'
    BY <1>1, <1>2, <1>3, <2>1, <2>2, <2>3, <2>4 DEF PairInv, FewAtRoot
  <2> QED
    BY <1>1, <1>2, <1>3, <2>5
<1>4. CASE ~cycle
  <2>1. Verts' = Nodes /\ r \in Nodes
    BY <1>1, <1>4, RootType DEF Verts
  <2>2. dist' \in [Nodes -> Int] /\ \A v \in Nodes : dist'[v] = IF v = r THEN 0 ELSE Inf
    BY <1>1, <1>4 DEF Inf
  <2>3. Grown' = {} /\ Inner' = {}
    <3>1. Grown' = {}
      BY <2>2 DEF Grown, Inf
    <3> QED
      BY <3>1 DEF Inner
  <2>4. Promised' = {}
    BY <1>1, <1>4, <2>3 DEF Promised
  <2>5. Extends(Promised)'
    <3> SUFFICES ASSUME Solutions # {} PROVE \E A \in Optima : Promised' \subseteq A
      BY <1>2, CallStays DEF Extends
    <3>1. Optima # {}
      BY OptimaAreLeast DEF CallInv
    <3> QED
      BY <2>4, <3>1
  <2>6. Labelled'
    BY <2>3 DEF Labelled
  <2>7. pred' \in [Nodes -> Darts \cup {NoArc}] /\ pred'[first'] = NoArc
    BY <1>1, <2>1
  <2>8. (\A v \in Inner \cup queue : v # first => Joined(v))'
    BY <1>1, <1>4, <2>3
  <2>9. (\A v \in queue : v # first => dist[v] = Key(pred[v]))'
    BY <1>1, <1>4
  <2>10. ~cycle'
    BY <1>1, <1>4
  <2>11. queue' \subseteq Verts' /\ first' \in Verts' /\ queue' = {first'}
    BY <1>1, <1>4, <2>1
  <2>12. \A v \in Nodes : v \in queue' \/ dist'[v] \in {Inf, -Inf}
    BY <1>1, <1>4, <2>2
  <2>13. ExpandInv'
    BY <1>2, <2>2, <2>3, <2>5, <2>6, <2>7, <2>8, <2>9, <2>10, <2>11, <2>12 DEF ExpandInv
  <2> QED
    BY <1>1, <1>2, <1>4, <2>13
<1> QED
  BY <1>3, <1>4

\* Every arc at the root that is read leaves the two that MST_Prim prefers.
LEMMA PairReads ==
  ASSUME CallInv, method \in Prims, PairInv, PickAtRoot
  PROVE  PairInv'
<1>1. PICK d \in todo : picks' = PrimPicks(d) /\ todo' = todo \ {d}
  BY DEF PickAtRoot
<1>2. UNCHANGED <<instance, pred, dist, queue>>
  BY DEF PickAtRoot, outcome
<1>3. UNCHANGED <<len, usable, mandatory, cycle, sign, method>> /\ Leaving(r)' = Leaving(r)
  BY <1>2 DEF instance, Leaving
<1> PICK x, y : x = picks[1] /\ y = picks[2]
  OBVIOUS
<1> PICK D : D = Leaving(r) \ todo
  OBVIOUS
<1>4. D \in SUBSET Leaving(r) /\ d \in Leaving(r) \ D /\ picks = <<x, y>> /\ Paired(x, y, D)
  BY DEF PairInv
<1>5. PICK p, q : PrimPicks(d) = <<p, q>> /\ Paired(p, q, D \cup {d})
  <2>1. Cardinality(mandatory \cap AtRoot) <= 2
    BY DEF PairInv
  <2> QED
    BY <1>4, <2>1, PairIsKept
<1>6. (Leaving(r) \ todo)' = D \cup {d}
  BY <1>1, <1>3, <1>4
<1>7. picks'[1] = p /\ picks'[2] = q /\ picks' = <<picks'[1], picks'[2]>>
  BY <1>1, <1>5
<1>8. Paired(picks[1], picks[2], Leaving(r) \ todo)'
  BY <1>3, <1>5, <1>6, <1>7 DEF Paired, IsMandatory, Cost
<1> QED
  BY <1>1, <1>2, <1>3, <1>7, <1>8 DEF PairInv

\* What happens when two arcs at the root have been chosen.
Closes(x, y) ==
  /\ cycle /\ y # NoArc /\ Paired(x, y, Leaving(r))
  /\ sum' = len[x[1]] + len[y[1]] /\ rank' = 1
  /\ first' = EndNode(x) /\ first' \in Nodes \ {r} /\ queue' = {first'}
  /\ dist' \in [Nodes -> Int] /\ dist'[r] = -Inf /\ dist'[first'] = 0
  /\ \A v \in Nodes : v # r /\ v # first' => dist'[v] = Inf
  /\ pred' \in [Nodes -> Darts \cup {NoArc}] /\ pred'[r] = Opposite(y) /\ pred'[first'] = x
  /\ \A v \in Nodes : v # r /\ v # first' => pred'[v] = NoArc
  /\ Grown' = {r} /\ Inner' = {} /\ Promised' = {x[1], y[1]}

\* PrimCycle closes the cycle with two different arcs.
LEMMA CycleEffect ==
  ASSUME CallInv, method \in Prims, PairInv, PrimCycle
  PROVE  \E x, y \in Leaving(r) : Closes(x, y)
<1> PICK x, y : x = picks[1] /\ y = picks[2]
  OBVIOUS
<1>1. /\ todo = {} /\ y # NoArc /\ first' = EndNode(x)
      /\ pred' = [pred EXCEPT ![EndNode(x)] = x, ![r] = Opposite(y)]
      /\ dist' = [dist EXCEPT ![r] = -Inf, ![first'] = 0]
      /\ queue' = {first'} /\ UNCHANGED instance
      /\ sum' = len[x[1]] + len[y[1]] /\ rank' = 1
  BY DEF PrimCycle
<1>2. UNCHANGED <<len, usable, mandatory, cycle, sign, method>> /\ cycle
  BY <1>1 DEF instance, PairInv
<1>3. Paired(x, y, Leaving(r)) /\ x \in Leaving(r) /\ y \in Leaving(r)
  <2>1. Leaving(r) \ todo = Leaving(r)
    BY <1>1
  <2>2. Paired(x, y, Leaving(r))
    BY <2>1 DEF PairInv
  <2> QED
    BY <1>1, <2>2 DEF Paired
<1> PICK v1 : v1 = EndNode(x)
  OBVIOUS
<1>4. /\ x \in Darts /\ x[1] \in AtRoot /\ y \in Darts /\ y[1] \in AtRoot
      /\ Opposite(y) \in Darts /\ Opposite(y)[1] = y[1]
      /\ v1 \in Nodes \ {r} /\ r \in Nodes
  BY <1>3, RootDarts, DartEnds, RootType
<1>5. Verts' = Nodes \ {r} /\ first' = v1
  BY <1>1, <1>2 DEF Verts
<1>6. /\ dist' \in [Nodes -> Int] /\ dist'[r] = -Inf /\ dist'[v1] = 0
      /\ \A v \in Nodes : v # r /\ v # v1 => dist'[v] = Inf
  <2>1. dist = [v \in Nodes |-> Inf] /\ Inf \in Int /\ -Inf \in Int
    BY DEF PairInv, Inf
  <2> QED
    BY <1>1, <1>4, <1>5, <2>1
<1>7. /\ pred' \in [Nodes -> Darts \cup {NoArc}] /\ pred'[r] = Opposite(y) /\ pred'[v1] = x
      /\ \A v \in Nodes : v # r /\ v # v1 => pred'[v] = NoArc
  <2>1. pred = [v \in Nodes |-> NoArc]
    BY DEF PairInv
  <2> QED
    BY <1>1, <1>4, <2>1
<1>8. Grown' = {r} /\ Inner' = {}
  <2>1. Grown' = {r}
    BY <1>1, <1>4, <1>5, <1>6 DEF Grown, Inf
  <2> QED
    BY <1>5, <2>1 DEF Inner
<1>9. Promised' = {x[1], y[1]}
  <2>1. {v \in Grown : pred[v] # NoArc}' \subseteq {r}
    BY <1>8
  <2>2. {pred[v][1] : v \in {w \in Grown : pred[w] # NoArc}}' \subseteq {y[1]}
    BY <1>4, <1>7, <2>1
  <2> QED
    BY <1>2, <1>4, <1>5, <1>7, <2>2 DEF Promised
<1>10. Closes(x, y)
  BY <1>1, <1>2, <1>3, <1>4, <1>5, <1>6, <1>7, <1>8, <1>9 DEF Closes
<1> QED
  BY <1>3, <1>10

\* The tree starts at the other end of the first arc.
LEMMA CycleIsClosed ==
  ASSUME CallInv, ShortLengths, method \in Prims, PairInv, PrimCycle
  PROVE  ExpandInv'
<1>1. PICK x, y \in Leaving(r) : Closes(x, y)
  BY CycleEffect
<1>2. UNCHANGED instance /\ UNCHANGED <<len, usable, mandatory, cycle, sign, method>> /\ cycle
  BY DEF PrimCycle, PairInv, instance
<1>4. /\ x \in Darts /\ x[1] \in AtRoot /\ y[1] \in AtRoot
      /\ Opposite(y) \in Darts /\ Opposite(y)[1] = y[1]
  BY RootDarts, DartEnds
<1>5. Verts' = Nodes \ {r} /\ first' \in Nodes \ {r}
  BY <1>1, <1>2 DEF Verts, Closes
<1>8. Grown' = {r} /\ Inner' = {} /\ Promised' = {x[1], y[1]} /\ queue' = {first'}
  BY <1>1 DEF Closes
<1>10. Extends(Promised)'
  <2> SUFFICES ASSUME Solutions # {} PROVE \E A \in Optima : Promised' \subseteq A
    BY <1>2, CallStays DEF Extends
  <2>1. PICK A \in Optima : TRUE
    BY OptimaAreLeast DEF CallInv
  <2>2. Tree(A) \cup {x[1], y[1]} \in Optima
    <3>1. method # "EDMONDS"
      BY DEF Prims
    <3> QED
      BY <1>1, <1>2, <3>1, PairExtends DEF Closes
  <2> QED
    BY <1>8, <2>2
<1>11. Labelled'
  BY <1>8 DEF Labelled
<1>12. (\A v \in Inner \cup queue : v # first => Joined(v))'
  BY <1>8
<1>13. (\A v \in queue : v # first => dist[v] = Key(pred[v]))'
  BY <1>8
<1>14. (method = "PRIM" => mandatory = {})'
  BY <1>2 DEF PairInv
<1>15. \A v \in Nodes : v \in queue' \/ dist'[v] \in {Inf, -Inf}
  BY <1>1 DEF Closes
<1>16. (IF cycle THEN /\ pred[first] \in Darts /\ pred[first][1] \in AtRoot
                      /\ pred[r] \in Darts /\ pred[r][1] \in AtRoot
                 ELSE pred[first] = NoArc)'
  BY <1>1, <1>2, <1>4 DEF Closes
<1>17. (queue \subseteq Verts /\ first \in Verts /\ (first \in Grown \/ (queue = {first} /\ Inner = {})))'
  BY <1>5, <1>8
<1> QED
  BY <1>1, <1>10, <1>11, <1>12, <1>13, <1>14, <1>15, <1>16, <1>17 DEF ExpandInv, Closes

-----------------------------------------------------------------------------
\* Both methods together.
GreedyInv == CallInv /\ ShortLengths /\ Phases /\ KruskalInv /\ PrimInv

\* InfFloat is larger than any length, of either sign: no arc looks like a missing label, and
\* none like a node of the tree.
LengthsAreShort == \A a \in Arcs : \A x \in Lengths[a] : -Inf < x /\ x < Inf

\* The invariant holds when a call begins.
LEMMA GreedyInit == LengthsAreShort /\ Init => GreedyInv
<1> SUFFICES ASSUME LengthsAreShort, Init PROVE GreedyInv
  OBVIOUS
<1>1. PICK c \in Calls :
        /\ cycle = c[2] /\ sign = c[3] /\ directed = c[4]
        /\ method = IF c[1] = "EDMONDS" /\ ~directed /\ (cycle \/ mandatory # {})
                    THEN "KRUSKAL" ELSE c[1]
  BY DEF Init
<1>2. c \in Methods \X BOOLEAN \X {1, -1} \X BOOLEAN
  BY CallsType
<1>3. c[1] \in Methods /\ cycle \in BOOLEAN /\ sign \in {1, -1}
  BY <1>1, <1>2
<1>4. method \in Methods
  BY <1>1, <1>3 DEF Methods
<1>5. \A a \in Arcs : len[a] \in Lengths[a] /\ len[a] \in Int
  <2>1. \A a \in Arcs : len[a] \in Lengths[a]
    BY DEF Init
  <2> QED
    BY <2>1, CallsType
<1>6. len \in [Arcs -> Int] /\ ShortLengths
  <2>1. len \in [Arcs -> UNION {Lengths[a] : a \in Arcs}]
    BY DEF Init
  <2>2. DOMAIN len = Arcs /\ len = [a \in Arcs |-> len[a]]
    BY <2>1
  <2> QED
    BY <1>5, <2>2 DEF ShortLengths, LengthsAreShort
<1>7. usable \in SUBSET Arcs /\ mandatory \in SUBSET usable
  BY DEF Init, Applicable
<1>8. method \in Prims => FewAtRoot
  BY DEF Init, Applicable, FewAtRoot, Prims
<1>9. pc = "start"
  BY DEF Init
<1> QED
  BY <1>3, <1>4, <1>6, <1>7, <1>8, <1>9 DEF GreedyInv, CallInv, Phases, KruskalInv, PrimInv, Methods, Prims

\* The steps that leave the call alone and what else the invariant is about.
LEMMA GreedyStays ==
  ASSUME GreedyInv, UNCHANGED instance
  PROVE  CallInv' /\ ShortLengths' /\ method' = method
<1>1. CallInv'
  BY CallStays DEF GreedyInv
<1>2. ShortLengths' /\ method' = method
  BY DEF instance, ShortLengths, GreedyInv
<1> QED
  BY <1>1, <1>2

\* The method of Prim keeps the invariant.
LEMMA PrimSteps == ASSUME GreedyInv, PrimStep PROVE GreedyInv'
<1>1. CASE PrimStart
  <2>1. CallInv /\ FewAtRoot
    BY <1>1 DEF GreedyInv, PrimInv, PrimStart
  <2>2. /\ (pc = "pick" => PairInv)' /\ (pc = "expand" => ExpandInv)' /\ SameCall
        /\ method' \in Prims /\ pc' \in {"pick", "expand"}
    BY <1>1, <2>1, PrimStarts
  <2>3. CallInv' /\ ShortLengths'
    BY <2>2, CallStays DEF GreedyInv, ShortLengths, SameCall
  <2>4. Phases' /\ KruskalInv' /\ PrimInv'
    BY <2>2 DEF Phases, KruskalInv, PrimInv, Prims, Methods
  <2> QED
    BY <2>3, <2>4 DEF GreedyInv
<1>2. ASSUME PrimNoCycle \/ PrimEnd \/ AddToSubgraph PROVE GreedyInv'
  <2>1. UNCHANGED instance /\ pc' \in {"add", "done"} /\ pc \in {"pick", "expand", "add"}
    BY <1>2 DEF PrimNoCycle, PrimEnd, AddToSubgraph
  <2>2. CallInv' /\ ShortLengths' /\ method' = method
    BY <2>1, GreedyStays
  <2>3. method \in Prims \/ pc = "add"
    BY <1>2 DEF PrimNoCycle, PrimEnd, AddToSubgraph, GreedyInv, Phases, Methods, Prims
  <2>4. Phases'
    <3>1. CASE PrimNoCycle \/ PrimEnd
      BY <2>2, <3>1 DEF PrimNoCycle, PrimEnd, GreedyInv, Phases, Methods, Prims
    <3>2. CASE AddToSubgraph
      BY <2>2, <3>2 DEF AddToSubgraph, GreedyInv, Phases, Methods, Prims
    <3> QED
      BY <1>2, <3>1, <3>2
  <2>5. KruskalInv' /\ PrimInv'
    BY <2>1 DEF KruskalInv, PrimInv
  <2> QED
    BY <2>2, <2>4, <2>5 DEF GreedyInv
<1>3. CASE PrimCycle
  <2>1. UNCHANGED instance /\ pc' = "expand" /\ method \in Prims /\ PairInv
    BY <1>3 DEF PrimCycle, GreedyInv, PrimInv
  <2>2. CallInv' /\ ShortLengths' /\ method' = method
    BY <2>1, GreedyStays
  <2>3. ExpandInv'
    BY <1>3, <2>1, CycleIsClosed DEF GreedyInv
  <2> QED
    BY <2>1, <2>2, <2>3 DEF GreedyInv, Phases, KruskalInv, PrimInv, Prims, Methods
<1>4. CASE PrimExpand
  <2>1. UNCHANGED <<instance, pc>> /\ pc = "expand" /\ method \in Prims /\ ExpandInv
    BY <1>4 DEF PrimExpand, GreedyInv, PrimInv, Phases, Methods, Prims
  <2>2. CallInv' /\ ShortLengths' /\ method' = method
    BY <2>1, GreedyStays
  <2>3. ExpandInv'
    BY <1>4, <2>1, ExpansionKeeps DEF GreedyInv
  <2> QED
    BY <2>1, <2>2, <2>3 DEF GreedyInv, Phases, KruskalInv, PrimInv
<1> QED
  BY <1>1, <1>2, <1>3, <1>4 DEF PrimStep

\* The method of Kruskal keeps the invariant.
LEMMA KruskalSteps == ASSUME GreedyInv, KruskalCall PROVE GreedyInv'
<1>1. CASE KruskalStart
  <2>1. UNCHANGED instance /\ pc' = "mandatory" /\ method = "KRUSKAL"
    BY <1>1 DEF KruskalStart
  <2>2. CallInv' /\ ShortLengths' /\ method' = method
    BY <2>1, GreedyStays
  <2>3. MandatoryInv'
    BY <1>1, KruskalStarts DEF GreedyInv
  <2> QED
    BY <2>1, <2>2, <2>3 DEF GreedyInv, Phases, KruskalInv, PrimInv, Prims, Methods
<1>2. CASE MergeMandatory
  <2>1. UNCHANGED <<instance, pc>> /\ pc = "mandatory" /\ MandatoryInv
    BY <1>2 DEF MergeMandatory, GreedyInv, KruskalInv
  <2>2. CallInv' /\ ShortLengths' /\ method' = method
    BY <2>1, GreedyStays
  <2>3. MandatoryInv'
    BY <1>2, <2>1, MandatoryMerges DEF GreedyInv
  <2> QED
    BY <2>1, <2>2, <2>3 DEF GreedyInv, Phases, KruskalInv, PrimInv
<1>3. CASE MandatoryMerged
  <2>1. UNCHANGED instance /\ pc = "mandatory" /\ pc' = "greedy" /\ MandatoryInv /\ method = "KRUSKAL"
    BY <1>3 DEF MandatoryMerged, GreedyInv, KruskalInv, Phases, Methods, Prims
  <2>2. CallInv' /\ ShortLengths' /\ method' = method
    BY <2>1, GreedyStays
  <2>3. ContractInv'
    BY <1>3, <2>1, ContractionBegins DEF GreedyInv
  <2> QED
    BY <2>1, <2>2, <2>3 DEF GreedyInv, Phases, KruskalInv, PrimInv, Methods, Prims
<1>4. CASE KruskalStep
  <2>1. UNCHANGED <<instance, pc>> /\ pc = "greedy" /\ ContractInv /\ method = "KRUSKAL"
    BY <1>4 DEF KruskalStep, GreedyInv, KruskalInv, Phases, Methods, Prims
  <2>2. CallInv' /\ ShortLengths' /\ method' = method
    BY <2>1, GreedyStays
  <2>3. ContractInv'
    BY <1>4, <2>1, ContractionStep DEF GreedyInv
  <2> QED
    BY <2>1, <2>2, <2>3 DEF GreedyInv, Phases, KruskalInv, PrimInv
<1> DEFINE Later == \/ FixedSubtour \/ KruskalEnd \/ CutNode \/ KruskalPick \/ KruskalPicked \/ FixArc
                    \/ KruskalNoCycle \/ KruskalCycle \/ ExtractStart \/ ExtractRead
                    \/ ExtractBack \/ ExtractEnd
<1>5. ASSUME Later PROVE GreedyInv'
  <2>1. /\ UNCHANGED instance
        /\ pc \in {"mandatory", "greedy", "pick", "fix", "extract", "search"}
        /\ pc' \in {"pick", "fix", "extract", "search", "done"}
        /\ pc = "pick" => method = "KRUSKAL"
    <3>1. CASE FixedSubtour \/ KruskalEnd \/ CutNode \/ KruskalPick
      BY <3>1 DEF FixedSubtour, KruskalEnd, CutNode, KruskalPick, GreedyEnds
    <3>2. CASE KruskalPicked \/ FixArc \/ KruskalNoCycle \/ KruskalCycle
      BY <3>2 DEF KruskalPicked, FixArc, KruskalNoCycle, KruskalCycle
    <3>3. CASE ExtractStart \/ ExtractRead \/ ExtractBack \/ ExtractEnd
      BY <3>3 DEF ExtractStart, ExtractRead, ExtractBack, ExtractEnd
    <3> QED
      BY <1>5, <3>1, <3>2, <3>3
  <2> HIDE DEF Later
  <2>2. CallInv' /\ ShortLengths' /\ method' = method
    BY <2>1, GreedyStays
  <2>3. method = "KRUSKAL"
    BY <2>1 DEF GreedyInv, Phases, Methods, Prims
  <2> QED
    BY <2>1, <2>2, <2>3 DEF GreedyInv, Phases, KruskalInv, PrimInv, Methods, Prims
<1> QED
  BY <1>1, <1>2, <1>3, <1>4, <1>5 DEF KruskalCall

\* The method of Edmonds does not touch what the others use.
LEMMA EdmondsSteps == ASSUME GreedyInv, EdmondsStep PROVE GreedyInv'
<1>1. /\ UNCHANGED instance
      /\ pc = "start" => method = "EDMONDS"
      /\ pc \in {"start", "shrink", "split", "sum"}
      /\ pc' \in {"shrink", "split", "sum", "add"}
  BY DEF EdmondsStep, EdmondsStart, SelectArc, ShrinkEnds, ExpandCycle, CloseCycle, EdmondsEnd
<1>2. CallInv' /\ ShortLengths' /\ method' = method
  BY <1>1, GreedyStays
<1>3. method = "EDMONDS"
  BY <1>1 DEF GreedyInv, Phases, Methods, Prims
<1> QED
  BY <1>1, <1>2, <1>3 DEF GreedyInv, Phases, KruskalInv, PrimInv, Methods, Prims

\* Every step keeps the invariant.
LEMMA GreedySteps == GreedyInv /\ [Next]_vars => GreedyInv'
<1> SUFFICES ASSUME GreedyInv, [Next]_vars PROVE GreedyInv'
  OBVIOUS
<1>1. CASE PrimStep
  BY <1>1, PrimSteps
<1>2. CASE KruskalCall
  BY <1>2, KruskalSteps
<1>3. CASE PickAtRoot
  <2>1. UNCHANGED <<instance, pc>> /\ pc = "pick"
    BY <1>3 DEF PickAtRoot
  <2>2. CallInv' /\ ShortLengths' /\ method' = method
    BY <2>1, GreedyStays
  <2>3. method \in Prims => PairInv'
    BY <1>3, <2>1, PairReads DEF GreedyInv, PrimInv
  <2> QED
    BY <2>1, <2>2, <2>3 DEF GreedyInv, Phases, KruskalInv, PrimInv
<1>4. CASE EdmondsStep
  BY <1>4, EdmondsSteps
<1>5. CASE UNCHANGED vars
  <2>1. UNCHANGED <<instance, pc, outcome, greedy>>
    BY <1>5 DEF vars
  <2>2. CallInv' /\ ShortLengths' /\ method' = method
    BY <2>1, GreedyStays
  <2>3. UNCHANGED <<len, usable, mandatory, cycle, sign, method, pc, pred, sub, dist, queue, first,
                    todo, picks, set>>
    BY <2>1 DEF instance, outcome, greedy
  <2>4. KruskalInv'
    <3>1. (MandatoryInv => MandatoryInv')
      BY <2>3 DEF MandatoryInv, Classes, Merged
    <3>2. ContractInv => ContractInv'
      <4>1. Tree(sub)' = Tree(sub)
        BY <2>3 DEF Tree
      <4>2. PICK C : C = Tree(sub)
        OBVIOUS
      <4>3. Extends(Tree(sub)) => Extends(Tree(sub))'
        BY <2>1, <4>1, <4>2, CallStays DEF Extends
      <4> QED
        BY <2>3, <4>3 DEF ContractInv, Classes, Merged
    <3> QED
      BY <2>3, <3>1, <3>2 DEF GreedyInv, KruskalInv
  <2>5. PrimInv'
    <3>1. PairInv => PairInv'
      BY <2>3 DEF PairInv, Paired, Leaving, IsMandatory, Cost
    <3>2. ExpandInv => ExpandInv'
      <4>1. Verts' = Verts /\ Grown' = Grown /\ Inner' = Inner
        BY <2>3 DEF Verts, Grown, Inner
      <4>2. Promised' = Promised
        BY <2>3, <4>1 DEF Promised
      <4>3. Extends(Promised) => Extends(Promised)'
        BY <2>1, <4>2, CallStays DEF Extends
      <4>4. Labelled => Labelled'
        BY <2>3, <4>1 DEF Labelled, Key, IsMandatory, Cost
      <4> QED
        BY <2>3, <4>1, <4>3, <4>4 DEF ExpandInv, Joined, Key, IsMandatory, Cost
    <3> QED
      BY <2>3, <3>1, <3>2 DEF GreedyInv, PrimInv, FewAtRoot
  <2> QED
    BY <2>2, <2>3, <2>4, <2>5 DEF GreedyInv, Phases
<1> QED
  BY <1>1, <1>2, <1>3, <1>4, <1>5 DEF Next, GreedyStep

\* The invariant says that no choice has to be taken back.
LEMMA InvKeepsOptima == GreedyInv => (method # "EDMONDS" => NoOptimumIsLost)
<1> SUFFICES ASSUME GreedyInv, method # "EDMONDS" PROVE NoOptimumIsLost
  OBVIOUS
<1>1. ShrinkingIsExact
  BY DEF GreedyInv, Phases, Methods, Prims, ShrinkingIsExact
<1>2. CASE pc = "greedy"
  <2>1. method = "KRUSKAL" /\ Extends(Tree(sub))
    BY <1>2 DEF GreedyInv, Phases, Methods, Prims, KruskalInv, ContractInv
  <2>2. Chosen = Tree(sub)
    BY <2>1 DEF Chosen, Tree
  <2> QED
    BY <1>1, <2>1, <2>2 DEF NoOptimumIsLost, ChoicesExtend, Extends
<1>3. CASE pc = "expand"
  <2>1. method \in Prims /\ Extends(Promised)
    BY <1>3 DEF GreedyInv, Phases, Methods, Prims, PrimInv, ExpandInv
  <2>2. Chosen \subseteq Promised
    BY <2>1 DEF Chosen, Promised, Grown, Prims
  <2> QED
    BY <1>1, <2>1, <2>2 DEF NoOptimumIsLost, ChoicesExtend, Extends
<1> QED
  BY <1>1, <1>2, <1>3 DEF NoOptimumIsLost, ChoicesExtend

\* No choice of the methods of Prim and of Kruskal has to be taken back: as long as they
\* choose, there is an optimum with all the arcs that have been chosen, in one cycle trees and
\* with mandatory arcs, too.  InfFloat has to be larger than the length of any arc.
THEOREM GreedyLosesNoOptimum ==
  LengthsAreShort => (Spec => [](method # "EDMONDS" => NoOptimumIsLost))
<1> SUFFICES ASSUME LengthsAreShort PROVE Spec => [](method # "EDMONDS" => NoOptimumIsLost)
  OBVIOUS
<1>1. Init => GreedyInv
  BY GreedyInit
<1>2. GreedyInv /\ [Next]_vars => GreedyInv'
  BY GreedySteps
<1>3. GreedyInv => (method # "EDMONDS" => NoOptimumIsLost)
  BY InvKeepsOptima
<1> QED
  BY <1>1, <1>2, <1>3, PTL DEF Spec

-----------------------------------------------------------------------------
\* More about trees.  Arcs that cross every cut are not fewer than the nodes but one.
LEMMA EnoughArcs ==
  ASSUME NEW V \in SUBSET Nodes, V # {}, NEW A \in SUBSET Inside(V), Connects(A, V)
  PROVE  Cardinality(A) >= Cardinality(V) - 1
<1>1. IsFiniteSet(V) /\ Cardinality(V) \in Nat /\ Cardinality(V) > 0
  <2>1. IsFiniteSet(V) /\ Cardinality(V) \in Nat
    BY NodesAreFinite, FS_Subset, FS_CardinalityType
  <2> QED
    BY <2>1, FS_EmptySet
<1>2. A \in SUBSET Arcs
  BY DEF Inside
<1>3. IsFiniteSet(A) /\ Cardinality(A) \in Nat
  BY <1>2, ArcSetsAreFinite
<1> DEFINE Has(k, S, C) == /\ S \in SUBSET V /\ C \in SUBSET A
                           /\ Cardinality(S) = k + 1 /\ Cardinality(C) = k
                           /\ C \subseteq Inside(S)
           B == {k \in Nat : k < Cardinality(V) => \E S, C : Has(k, S, C)}
<1>4. 0 \in B
  <2>1. PICK x \in V : TRUE
    OBVIOUS
  <2>2. Has(0, {x}, {})
    <3> PICK S : S = {x}
      OBVIOUS
    <3>1. Cardinality(S) = 1 /\ Cardinality({}) = 0 /\ S \in SUBSET V
      BY FS_Singleton, FS_EmptySet
    <3>2. Has(0, S, {})
      BY <3>1
    <3> QED
      BY <3>2
  <2> HIDE DEF Has
  <2> QED
    BY <2>2
<1>5. ASSUME NEW k \in B PROVE k + 1 \in B
  <2> SUFFICES ASSUME k + 1 < Cardinality(V) PROVE \E S, C : Has(k + 1, S, C)
    OBVIOUS
  <2>0. k \in Nat /\ k < Cardinality(V)
    BY <1>1
  <2>1. PICK S, C : Has(k, S, C)
    BY <2>0
  <2>2. IsFiniteSet(S) /\ IsFiniteSet(C)
    BY <1>1, <1>3, <2>1, FS_Subset
  <2>3. S # {} /\ S # V
    <3>1. Cardinality(S) # 0 /\ Cardinality(S) # Cardinality(V)
      BY <2>0, <2>1, <1>1
    <3> QED
      BY <3>1, FS_EmptySet
  <2>4. PICK a \in A : Crosses(a, S)
    BY <2>1, <2>3 DEF Connects
  <2>5. From[a] \in V /\ To[a] \in V /\ a \in Arcs /\ From[a] # To[a]
    BY DEF Inside
  <2>6. PICK v \in V \ S : {From[a], To[a]} \subseteq S \cup {v}
    BY <2>4, <2>5 DEF Crosses
  <2>7. a \notin C
    <3>1. a \notin Inside(S)
      BY <2>4 DEF Crosses, Inside
    <3> QED
      BY <2>1, <3>1
  <2>8. Cardinality(S \cup {v}) = (k + 1) + 1
    <3>1. IsFiniteSet(S) /\ v \notin S /\ Cardinality(S) = k + 1
      BY <2>1, <2>2
    <3>2. Cardinality(S \cup {v}) = Cardinality(S) + 1
      BY <3>1, FS_AddElement
    <3> QED
      BY <3>1, <3>2
  <2>9. Cardinality(C \cup {a}) = k + 1
    BY <2>1, <2>2, <2>7, FS_AddElement
  <2>10. C \cup {a} \subseteq Inside(S \cup {v})
    BY <2>1, <2>5, <2>6 DEF Inside
  <2>11. Has(k + 1, S \cup {v}, C \cup {a})
    BY <2>1, <2>6, <2>8, <2>9, <2>10
  <2> HIDE DEF Has
  <2> QED
    BY <2>11
<1>6. B = Nat
  <2> HIDE DEF B
  <2>1. B \in SUBSET Nat
    BY DEF B
  <2> QED
    BY <1>4, <1>5, <2>1, AllNumbers
<1>7. PICK S, C : Has(Cardinality(V) - 1, S, C)
  <2>1. Cardinality(V) - 1 \in Nat /\ Cardinality(V) - 1 < Cardinality(V)
    BY <1>1
  <2>2. Cardinality(V) - 1 \in B
    BY <1>6, <2>1
  <2> HIDE DEF Has
  <2> QED
    BY <2>1, <2>2
<1>8. Cardinality(C) <= Cardinality(A) /\ Cardinality(C) = Cardinality(V) - 1
  BY <1>3, <1>7, FS_Subset
<1> QED
  BY <1>1, <1>3, <1>8

\* An arc of a tree crosses a cut that no other arc of the tree crosses.
LEMMA OwnCut ==
  ASSUME NEW V \in SUBSET Nodes, NEW A \in Trees(V), NEW a \in A
  PROVE  \E S \in SUBSET V : Crosses(a, S) /\ \A b \in A : Crosses(b, S) => b = a
<1>1. A \in SUBSET Inside(V) /\ Cardinality(A) = Cardinality(V) - 1 /\ Connects(A, V)
  BY TreesConnect
<1>2. V # {} /\ A \in SUBSET Arcs
  BY <1>1 DEF Inside
<1>3. IsFiniteSet(A) /\ Cardinality(A) \in Nat
  BY <1>2, ArcSetsAreFinite
<1>4. Cardinality(A \ {a}) = Cardinality(A) - 1
  BY <1>3, FS_RemoveElement
<1>5. ~Connects(A \ {a}, V)
  <2> SUFFICES ASSUME Connects(A \ {a}, V) PROVE FALSE
    OBVIOUS
  <2>1. A \ {a} \in SUBSET Inside(V)
    BY <1>1
  <2>2. Cardinality(A \ {a}) >= Cardinality(V) - 1
    BY <1>2, <2>1, EnoughArcs
  <2> QED
    BY <1>1, <1>3, <1>4, <2>2
<1>6. PICK S \in SUBSET V : S # {} /\ S # V /\ \A b \in A \ {a} : ~Crosses(b, S)
  BY <1>5 DEF Connects
<1>7. PICK b \in A : Crosses(b, S)
  BY <1>1, <1>6 DEF Connects
<1> QED
  BY <1>6, <1>7

\* No arc of a tree joins nodes that others of its arcs connect.
LEMMA NoChord ==
  ASSUME NEW V \in SUBSET Nodes, NEW A \in Trees(V), NEW B \in SUBSET A, NEW a \in A \ B,
         \A S \in SUBSET V : (\A b \in B : ~Crosses(b, S)) => ~Crosses(a, S)
  PROVE  FALSE
<1>1. PICK S \in SUBSET V : Crosses(a, S) /\ \A b \in A : Crosses(b, S) => b = a
  BY OwnCut
<1> QED
  BY <1>1

\* A set of arcs of a tree with the nodes in W, on the nodes in V, is part of a tree of V,
\* when there is any.
CanHave(V, U, B) ==
  /\ V \subseteq Nodes /\ B \subseteq Inside(V) /\ B \subseteq U
  /\ \E A \in Trees(Nodes) : B \subseteq A
  /\ \E T \in Trees(V) : T \subseteq U

\* There is a tree of V with the arcs in B.
Has(V, U, B) == \E D \in Trees(V) : B \subseteq D /\ D \subseteq U

\* A set of arcs without a cycle is part of a tree when there is any.
LEMMA TreeWith ==
  ASSUME NEW V, NEW U, NEW B, CanHave(V, U, B)
  PROVE  Has(V, U, B)
<1> DEFINE W == Nodes
<1>b. PICK A \in Trees(W) : B \subseteq A
  BY DEF CanHave
<1>c. PICK T \in Trees(V) : T \subseteq U
  BY DEF CanHave
<1>d. V \subseteq W /\ B \subseteq Inside(V) /\ B \subseteq U
  BY DEF CanHave
<1> DEFINE Goal(D) == D \in Trees(V) /\ D \subseteq U
           C == {n \in Nat : (\E D : Goal(D) /\ Cardinality(B \ D) <= n)
                               => \E D : Goal(D) /\ B \subseteq D}
<1>a. V \in SUBSET Nodes /\ W \in SUBSET Nodes
  BY <1>d
<1> HIDE DEF W
<1>0. B \in SUBSET Arcs /\ \A D : IsFiniteSet(B \ D) /\ Cardinality(B \ D) \in Nat
  <2>1. B \in SUBSET Arcs
    BY <1>d DEF Inside
  <2> QED
    BY <2>1, ArcSetsAreFinite
<1>1. 0 \in C
  <2> SUFFICES ASSUME NEW D, Goal(D), Cardinality(B \ D) <= 0 PROVE Goal(D) /\ B \subseteq D
    OBVIOUS
  <2>1. Cardinality(B \ D) = 0
    BY <1>0
  <2>2. B \ D = {}
    BY <1>0, <2>1, FS_EmptySet
  <2> QED
    BY <2>2
<1>2. ASSUME NEW n \in C PROVE n + 1 \in C
  <2>0. n \in Nat /\ n + 1 \in Nat
        /\ ((\E D : Goal(D) /\ Cardinality(B \ D) <= n) => \E D : Goal(D) /\ B \subseteq D)
    <3> HIDE DEF Goal
    <3> QED
      OBVIOUS
  <2> HIDE DEF Goal
  <2> SUFFICES ASSUME \E D : Goal(D) /\ Cardinality(B \ D) <= n + 1
               PROVE  \E E : Goal(E) /\ B \subseteq E
    BY <2>0
  <2> PICK D : Goal(D) /\ Cardinality(B \ D) <= n + 1
    OBVIOUS
  <2> HIDE DEF C
  <2> USE DEF Goal
  <2>1. CASE B \subseteq D
    BY <2>1
  <2>2. CASE ~(B \subseteq D)
    <3>1. PICK a \in B : a \notin D
      BY <2>2
    <3>2. PICK S \in SUBSET W : Crosses(a, S) /\ \A b \in A : Crosses(b, S) => b = a
      BY <1>a, <1>b, <3>1, OwnCut
    <3>3. Crosses(a, S \cap V) /\ S \cap V \in SUBSET V /\ a \in Inside(V) \ D
      BY <1>d, <3>1, <3>2 DEF Inside, Crosses
    <3>4. PICK b \in D : Crosses(b, S \cap V) /\ Swapped(D, b, a) \in Trees(V)
      BY <1>a, <3>3, TreeExchange
    <3>5. b \notin B
      <4>1. b \in B => Crosses(b, S)
        BY <1>d, <3>4 DEF Inside, Crosses
      <4> QED
        BY <1>b, <3>1, <3>2, <4>1
    <3>6. Goal(Swapped(D, b, a))
      BY <1>d, <3>1, <3>4 DEF Swapped
    <3>7. B \ Swapped(D, b, a) = (B \ D) \ {a}
      BY <3>1, <3>4, <3>5 DEF Swapped
    <3>8. Cardinality((B \ D) \ {a}) = Cardinality(B \ D) - 1
      BY <1>0, <3>1, FS_RemoveElement
    <3>9. Cardinality(B \ Swapped(D, b, a)) <= n
      <4>1. Cardinality(B \ D) \in Nat /\ n \in Nat /\ Cardinality(B \ D) <= n + 1
        BY <1>0, <2>0
      <4>2. Cardinality(B \ Swapped(D, b, a)) = Cardinality((B \ D) \ {a})
        BY <3>7, Zenon
      <4> QED
        BY <3>8, <4>1, <4>2
    <3> HIDE DEF Goal
    <3> QED
      BY <2>0, <3>6, <3>9
  <2> QED
    BY <2>1, <2>2
<1>3. C = Nat
  <2> HIDE DEF C
  <2>1. C \in SUBSET Nat
    BY DEF C
  <2> QED
    BY <1>1, <1>2, <2>1, AllNumbers
<1>4. Goal(T)
  BY <1>c
<1>5. Cardinality(B \ T) \in C
  BY <1>0, <1>3
<1> HIDE DEF Goal
<1>6. \E D : Goal(D) /\ B \subseteq D
  <2>1. (\E D : Goal(D) /\ Cardinality(B \ D) <= Cardinality(B \ T)) => \E D : Goal(D) /\ B \subseteq D
    BY <1>5
  <2>2. Cardinality(B \ T) <= Cardinality(B \ T)
    BY <1>0
  <2> QED
    BY <1>4, <2>1, <2>2
<1> QED
  BY <1>6 DEF Goal, Has

-----------------------------------------------------------------------------
\* Labels that lead from node to node, every time nearer to the root, end there.
BackStep(p, S) == {IF v = r THEN r ELSE StartNode(p[v]) : v \in S}

\* When every node has a label that leads to a node nearer to the root, n steps lead there.
LEMMA BackLeadsToRoot ==
  ASSUME NEW p, NEW t \in [Nodes -> Nat],
         \A v \in Nodes \ {r} : StartNode(p[v]) \in Nodes /\ t[StartNode(p[v])] < t[v],
         NEW back, back[0] = Nodes, \A k \in Nat : back[k + 1] = BackStep(p, back[k])
  PROVE  back[N] = {r}
<1> DEFINE B == {k \in Nat : /\ back[k] \subseteq Nodes /\ r \in back[k]
                             /\ back[k] = {r} \/ Cardinality(back[k]) + k <= N
                             /\ BackStep(p, back[k]) \subseteq back[k]}
<1>0. N \in Nat /\ N > 0 /\ Cardinality(Nodes) = N
  <2>1. N \in Nat /\ N > 0 /\ 0 \in Int /\ N - 1 \in Int
    BY GraphType
  <2>2. Cardinality(0 .. N - 1) = IF 0 > N - 1 THEN 0 ELSE (N - 1) - 0 + 1
    BY <2>1, FS_Interval
  <2> QED
    BY <2>1, <2>2 DEF Nodes
<1>1. 0 \in B
  <2>1. BackStep(p, Nodes) \subseteq Nodes
    BY RootType DEF BackStep
  <2> QED
    BY <1>0, <2>1, RootType
<1>2. ASSUME NEW k \in B PROVE k + 1 \in B
  <2> PICK S : S = back[k]
    OBVIOUS
  <2> PICK R : R = BackStep(p, S)
    OBVIOUS
  <2>1. /\ S \subseteq Nodes /\ r \in S /\ R \subseteq S /\ back[k + 1] = R
        /\ S = {r} \/ Cardinality(S) + k <= N
        /\ k \in Nat /\ k + 1 \in Nat
    OBVIOUS
  <2>2. r \in R
    BY <2>1 DEF BackStep
  <2>3. BackStep(p, R) \subseteq R
    <3> SUFFICES ASSUME NEW v \in R PROVE (IF v = r THEN r ELSE StartNode(p[v])) \in R
      BY DEF BackStep
    <3>1. v \in S
      BY <2>1
    <3> QED
      BY <3>1 DEF BackStep
  <2>4. R = {r} \/ Cardinality(R) + (k + 1) <= N
    <3>1. CASE S = {r}
      BY <2>1, <2>2, <3>1
    <3>2. CASE S # {r}
      <4>1. IsFiniteSet(S) /\ Cardinality(S) \in Nat
        BY <2>1, NodesAreFinite, FS_Subset, FS_CardinalityType
      <4> DEFINE f == [v \in S \ {r} |-> -t[v]]
      <4>2. PICK x \in S \ {r} : \A y \in S \ {r} : t[y] <= t[x]
        <5>1. IsFiniteSet(S \ {r}) /\ S \ {r} # {} /\ \A v \in S \ {r} : t[v] \in Nat
          BY <2>1, <3>2, <4>1, FS_RemoveElement
        <5>2. f \in [S \ {r} -> Int] /\ \A v \in S \ {r} : f[v] = -t[v]
          BY <5>1
        <5>3. PICK x \in S \ {r} : \A y \in S \ {r} : f[x] <= f[y]
          <6> HIDE DEF f
          <6> QED
            BY <5>1, <5>2, LeastValue
        <5>4. \A y \in S \ {r} : t[y] <= t[x]
          <6> HIDE DEF f
          <6> QED
            BY <5>1, <5>2, <5>3
        <5> QED
          BY <5>4
      <4>3. x \notin R
        <5> SUFFICES ASSUME NEW w \in S, x = IF w = r THEN r ELSE StartNode(p[w]) PROVE FALSE
          BY DEF BackStep
        <5>1. w \in S \ {r} /\ x = StartNode(p[w])
          BY <4>2
        <5>2. t[x] < t[w] /\ t[w] <= t[x] /\ t[x] \in Nat /\ t[w] \in Nat
          BY <2>1, <4>2, <5>1
        <5> QED
          BY <5>2
      <4>4. R \in SUBSET (S \ {x}) /\ IsFiniteSet(S \ {x}) /\ Cardinality(S \ {x}) = Cardinality(S) - 1
        BY <2>1, <4>1, <4>2, <4>3, FS_RemoveElement
      <4>5. Cardinality(R) <= Cardinality(S \ {x}) /\ Cardinality(R) \in Nat
        BY <4>4, FS_Subset, FS_CardinalityType
      <4> QED
        BY <1>0, <2>1, <3>2, <4>1, <4>4, <4>5
    <3> QED
      BY <3>1, <3>2
  <2> HIDE DEF B
  <2>5. R \subseteq Nodes
    BY <2>1
  <2> QED
    BY <2>1, <2>2, <2>3, <2>4, <2>5 DEF B
<1>3. N \in B
  <2> HIDE DEF B
  <2>1. B \in SUBSET Nat
    BY DEF B
  <2>2. B = Nat
    BY <1>1, <1>2, <2>1, AllNumbers
  <2> QED
    BY <1>0, <2>2
<1>4. CASE Cardinality(back[N]) + N <= N
  <2> PICK S : S = back[N]
    OBVIOUS
  <2>1. S \subseteq Nodes /\ r \in S /\ Cardinality(S) + N <= N
    BY <1>3, <1>4
  <2>2. IsFiniteSet(S) /\ Cardinality(S) \in Nat /\ Cardinality(S) # 0
    BY <2>1, NodesAreFinite, FS_Subset, FS_CardinalityType, FS_EmptySet
  <2> QED
    BY <1>0, <2>1, <2>2
<1> QED
  BY <1>3, <1>4

-----------------------------------------------------------------------------
\* The trees that the methods leave behind.
LEMMA NodeCount ==
  /\ N \in Nat /\ N > 0 /\ Cardinality(Nodes) = N /\ IsFiniteSet(Verts) /\ IsFiniteSet(Nodes)
  /\ cycle \in BOOLEAN => Cardinality(Verts) = IF cycle THEN N - 1 ELSE N
<1>1. N \in Nat /\ N > 0 /\ 0 \in Int /\ N - 1 \in Int
  BY GraphType
<1>2. Cardinality(0 .. N - 1) = IF 0 > N - 1 THEN 0 ELSE (N - 1) - 0 + 1
  BY <1>1, FS_Interval
<1>3. Cardinality(Nodes) = N
  BY <1>1, <1>2 DEF Nodes
<1>4. Cardinality(Nodes \ {r}) = N - 1 /\ IsFiniteSet(Nodes \ {r})
  BY <1>3, NodesAreFinite, RootType, FS_RemoveElement
<1> QED
  BY <1>1, <1>3, <1>4, NodesAreFinite DEF Verts

\* Labels at all nodes but one that lead to nodes with smaller numbers are a tree.
LEMMA LabelledTree ==
  ASSUME NEW V \in SUBSET Nodes, NEW x \in V, NEW p,
         \A v \in V \ {x} : p[v] \in Darts /\ EndNode(p[v]) = v /\ StartNode(p[v]) \in V,
         NEW t \in [Nodes -> Nat], \A v \in V \ {x} : t[StartNode(p[v])] < t[v]
  PROVE  {p[v][1] : v \in V \ {x}} \in Trees(V)
<1> DEFINE A == {p[v][1] : v \in V \ {x}}
<1>1. ASSUME NEW v \in V \ {x}
      PROVE  /\ p[v][1] \in Inside(V)
             /\ \A S : Crosses(p[v][1], S) <=> (v \in S <=> StartNode(p[v]) \notin S)
  <2>1. p[v] \in Darts /\ EndNode(p[v]) = v /\ StartNode(p[v]) \in V /\ p[v][1] \in Arcs
    BY DartsAreArcs
  <2>2. \/ From[p[v][1]] = StartNode(p[v]) /\ To[p[v][1]] = v
        \/ From[p[v][1]] = v /\ To[p[v][1]] = StartNode(p[v])
    BY <2>1, DartEnds
  <2>3. StartNode(p[v]) # v
    <3>1. t[v] \in Nat /\ t[StartNode(p[v])] < t[v]
      OBVIOUS
    <3> QED
      BY <3>1
  <2> QED
    BY <2>1, <2>2, <2>3 DEF Inside, Crosses
<1>2. A \in SUBSET Inside(V)
  BY <1>1
<1>3. Connects(A, V)
  <2> SUFFICES ASSUME NEW S \in SUBSET V, S # {}, S # V PROVE \E a \in A : Crosses(a, S)
    BY DEF Connects
  <2> PICK X : X = IF x \in S THEN V \ S ELSE S
    OBVIOUS
  <2>1. X # {} /\ X \in SUBSET (V \ {x})
    OBVIOUS
  <2> DEFINE T == {t[v] : v \in X}
  <2>2. PICK m \in T : \A n \in T : m <= n
    <3>1. T \in SUBSET Nat /\ T # {}
      BY <2>1
    <3> HIDE DEF T
    <3> QED
      BY <3>1, LeastNumber
  <2>3. PICK v \in X : t[v] = m
    OBVIOUS
  <2>4. v \in V \ {x} /\ StartNode(p[v]) \in V /\ t[StartNode(p[v])] < t[v] /\ t[v] \in Nat
        /\ t[StartNode(p[v])] \in Nat
    BY <2>1
  <2>5. StartNode(p[v]) \notin X
    <3>1. StartNode(p[v]) \in X => m <= t[StartNode(p[v])]
      BY <2>2
    <3> QED
      BY <2>3, <2>4, <3>1
  <2>6. v \in S <=> StartNode(p[v]) \notin S
    BY <2>4, <2>5
  <2>7. Crosses(p[v][1], S)
    BY <1>1, <2>4, <2>6
  <2> QED
    BY <2>4, <2>7
<1>4. IsFiniteSet(V) /\ Cardinality(V) \in Nat /\ IsFiniteSet(V \ {x})
      /\ Cardinality(V \ {x}) = Cardinality(V) - 1
  <2>1. IsFiniteSet(V) /\ Cardinality(V) \in Nat
    BY NodesAreFinite, FS_Subset, FS_CardinalityType
  <2> QED
    BY <2>1, FS_RemoveElement, FS_Subset
<1>5. Cardinality(A) <= Cardinality(V) - 1
  <2> DEFINE f == [v \in V \ {x} |-> p[v][1]]
  <2>1. f \in Surjection(V \ {x}, A)
    BY DEF Surjection
  <2>2. Cardinality(A) <= Cardinality(V \ {x})
    <3> HIDE DEF f, A
    <3> QED
      BY <1>4, <2>1, FS_Surjection
  <2> HIDE DEF A
  <2> QED
    BY <1>4, <2>2
<1>6. Cardinality(A) >= Cardinality(V) - 1
  <2> HIDE DEF A
  <2> QED
    BY <1>2, <1>3, EnoughArcs
<1>7. Cardinality(A) \in Nat
  <2>1. A \in SUBSET Arcs
    BY <1>2 DEF Inside
  <2> HIDE DEF A
  <2> QED
    BY <2>1, ArcSetsAreFinite
<1> HIDE DEF A
<1>8. A \in Trees(V)
  <2>1. Cardinality(A) = Cardinality(V) - 1
    BY <1>4, <1>5, <1>6, <1>7
  <2> QED
    BY <1>2, <1>3, <2>1, TreesConnect
<1> QED
  BY <1>8 DEF A

\* The sets of nodes that 0, 1, 2, ... steps back along the labels lead to.
LEMMA BackExists ==
  ASSUME NEW p, \A v \in Nodes \ {r} : StartNode(p[v]) \in Nodes
  PROVE  \E g : g = [k \in Nat |-> IF k = 0 THEN Nodes ELSE BackStep(p, g[k - 1])]
<1> DEFINE W == SUBSET Nodes
           F == [S \in W |-> BackStep(p, S)]
<1>1. F \in [W -> W] /\ Nodes \in W
  BY RootType DEF BackStep
<1>2. PICK g : /\ g = [k \in Nat |-> IF k = 0 THEN Nodes ELSE F[g[k - 1]]]
               /\ g \in [Nat -> W]
  <2> HIDE DEF F, W
  <2>1. \E g : /\ g = [k \in Nat |-> IF k = 0 THEN Nodes ELSE F[g[k - 1]]]
               /\ g \in [Nat -> W]
    BY <1>1, IterationExists
  <2> QED
    BY <2>1
<1>3. ASSUME NEW k \in Nat, k # 0 PROVE F[g[k - 1]] = BackStep(p, g[k - 1])
  <2>1. k - 1 \in Nat
    BY <1>3
  <2>2. g[k - 1] \in W
    <3> HIDE DEF F, W
    <3> QED
      BY <1>2, <2>1
  <2> QED
    BY <2>2
<1>4. \A k \in Nat : (IF k = 0 THEN Nodes ELSE F[g[k - 1]])
                     = IF k = 0 THEN Nodes ELSE BackStep(p, g[k - 1])
  <2> HIDE DEF F
  <2> QED
    BY <1>3
<1> HIDE DEF F
<1>5. g = [k \in Nat |-> IF k = 0 THEN Nodes ELSE BackStep(p, g[k - 1])]
  BY <1>2, <1>4, Zenon
<1> QED
  BY <1>5

\* The arcs of the predecessor labels.
Labels == {pred[v][1] : v \in {w \in Nodes : pred[w] # NoArc}}

\* Every node has a label that leads to it, from a node with a smaller number; in a tree that
\* has no cycle the root has none.
Rooted ==
  /\ pred \in [Nodes -> Darts \cup {NoArc}]
  /\ \A v \in Nodes : IF v = r /\ ~cycle THEN pred[v] = NoArc
                      ELSE pred[v] \in Darts /\ EndNode(pred[v]) = v
  /\ \E t \in [Nodes -> Nat] : \A v \in Nodes \ {r} : t[StartNode(pred[v])] < t[v]

\* With such labels the predecessor arcs are the tree in the subgraph.
LEMMA RootedLabels ==
  ASSUME Rooted, sub = Labels, ~directed, cycle \in BOOLEAN
  PROVE  LabelsAreTheTree
<1>1. sub = {pred[v][1] : v \in {w \in Nodes : pred[w] # NoArc}}
  BY DEF Labels
<1>2. \A v \in Nodes : pred[v] = NoArc => v = r /\ ~cycle
  BY DartsAreArcs DEF Rooted
<1>3. \A v \in Nodes : pred[v] # NoArc => EndNode(pred[v]) = v /\ ~Blocking(pred[v])
  BY DartsAreArcs DEF Rooted, Blocking
<1> DEFINE Search(g) == g = [k \in Nat |-> IF k = 0 THEN Nodes ELSE BackStep(pred, g[k - 1])]
<1>4. \E g : Search(g)
  <2> PICK p : p = pred
    OBVIOUS
  <2>1. \A v \in Nodes \ {r} : StartNode(p[v]) \in Nodes
    BY DartEnds DEF Rooted
  <2>2. \E g : g = [k \in Nat |-> IF k = 0 THEN Nodes ELSE BackStep(p, g[k - 1])]
    BY <2>1, BackExists
  <2> QED
    BY <2>2
<1>5. PICK back : back = CHOOSE g : Search(g)
  OBVIOUS
<1>6. Search(back)
  BY <1>4, <1>5, Zenon
<1>7. back[0] = Nodes /\ \A k \in Nat : back[k + 1] = BackStep(pred, back[k])
  BY <1>6
<1>8. PICK t \in [Nodes -> Nat] : \A v \in Nodes \ {r} : t[StartNode(pred[v])] < t[v]
  BY DEF Rooted
<1>9. \A v \in Nodes \ {r} : StartNode(pred[v]) \in Nodes /\ t[StartNode(pred[v])] < t[v]
  BY <1>8, DartEnds DEF Rooted
<1>10. back[N] = {r}
  <2> HIDE DEF Search
  <2> QED
    BY <1>7, <1>9, BackLeadsToRoot
<1>11. LET g[k \in Nat] ==
             IF k = 0 THEN Nodes
             ELSE {IF v = r THEN r ELSE StartNode(pred[v]) : v \in g[k - 1]}
       IN  g[N] = {r}
  BY <1>5, <1>10, Zenon DEF BackStep
<1> QED
  BY <1>1, <1>2, <1>3, <1>11, Zenon DEF LabelsAreTheTree

-----------------------------------------------------------------------------
\* What the method of Prim returns.  There is a tree with the mandatory arcs that it cannot
\* refuse.
MandatoryForest ==
  \E A \in SpanningTrees : mandatory \ (IF cycle THEN AtRoot ELSE {}) \subseteq A

\* The arcs at the root are the labels of the root and of the first node.
ClosedAtRoot ==
  /\ StartNode(pred[first]) = r /\ EndNode(pred[first]) = first /\ EndNode(pred[r]) = r
  /\ pred[first][1] # pred[r][1] /\ {pred[first][1], pred[r][1]} \subseteq usable
  /\ mandatory \cap AtRoot \subseteq {pred[first][1], pred[r][1]}

\* While the tree grows, its arcs lead back to the root, and their number and length are known.
GrowInv ==
  /\ rank = Cardinality(Grown) /\ sum = Total(len, Promised)
  /\ first \in queue => dist[first] = 0
  /\ \E t \in [Nodes -> Nat] :
       /\ \A v \in Grown : t[v] < rank
       /\ \A v \in Grown \ {r} : StartNode(pred[v]) \in Grown /\ t[StartNode(pred[v])] < t[v]
  /\ IF cycle THEN ClosedAtRoot ELSE first = r

\* At the end the labels are an optimum.
TreeFound == IF Solutions = {} THEN sum = Failure
             ELSE Labels \in Optima /\ sum = Total(len, Labels) /\ Rooted

\* When no arc crosses a cut, there is no tree.
LEMMA CutOff ==
  ASSUME CallInv, method # "EDMONDS", NEW S \in SUBSET Verts, S # {}, S # Verts,
         \A a \in usable \cap Inside(Verts) : ~Crosses(a, S)
  PROVE  Solutions = {}
<1> SUFFICES ASSUME NEW A \in Solutions PROVE FALSE
  OBVIOUS
<1>1. Tree(A) \in Trees(Verts) /\ A \subseteq usable
  BY SolutionParts
<1>2. Tree(A) \in SUBSET Inside(Verts) /\ Connects(Tree(A), Verts)
  BY <1>1, VertsAreNodes, TreesConnect
<1>3. PICK a \in Tree(A) : Crosses(a, S)
  BY <1>2 DEF Connects
<1>4. a \in usable \cap Inside(Verts)
  BY <1>1, <1>2 DEF Tree
<1> QED
  BY <1>3, <1>4

\* A tree, and two arcs at the root, can be changed into one that has all the mandatory arcs.
LEMMA PartsMakeSolution ==
  ASSUME CallInv, method # "EDMONDS", MandatoryForest,
         NEW T \in Trees(Verts), T \subseteq usable, NEW a, NEW b,
         cycle => /\ {a, b} \subseteq AtRoot \cap usable /\ a # b
                  /\ mandatory \cap AtRoot \subseteq {a, b}
  PROVE  Solutions # {}
<1> DEFINE B == mandatory \ (IF cycle THEN AtRoot ELSE {})
<1>1. PICK A \in Trees(Nodes) : B \subseteq A
  BY DEF MandatoryForest, SpanningTrees
<1>2. A \in SUBSET Inside(Nodes)
  BY <1>1, TreesConnect
<1>3. B \subseteq Inside(Verts) /\ B \subseteq usable
  <2>1. B \subseteq Inside(Nodes) /\ (cycle => B \cap AtRoot = {})
    BY <1>1, <1>2
  <2>2. B \subseteq usable
    BY DEF CallInv
  <2> QED
    BY <2>1, <2>2 DEF Inside, Verts, AtRoot
<1>4. PICK D \in Trees(Verts) : B \subseteq D /\ D \subseteq usable
  <2>1. Verts \subseteq Nodes /\ Nodes \subseteq Nodes
    BY VertsAreNodes
  <2>2. B \subseteq A
    BY <1>1
  <2>3. B \subseteq Inside(Verts) /\ B \subseteq usable /\ T \in Trees(Verts) /\ T \subseteq usable
    BY <1>3
  <2>4. CanHave(Verts, usable, B)
    BY <1>1, <2>1, <2>2, <2>3 DEF CanHave
  <2>5. Has(Verts, usable, B)
    BY <2>4, TreeWith
  <2> QED
    BY <2>5 DEF Has
<1>5. D \in SUBSET Inside(Verts) /\ Cardinality(D) = Cardinality(Verts) - 1
  BY <1>4, VertsAreNodes, TreesConnect
<1>6. CASE ~cycle
  <2>1. Tree(D) = D /\ mandatory \subseteq D
    BY <1>4, <1>6 DEF Tree
  <2>2. D \in Solutions
    BY <1>4, <1>6, <2>1, PartsAreSolution
  <2> QED
    BY <2>2
<1>7. CASE cycle
  <2> DEFINE E == D \cup {a, b}
  <2>1. D \cap AtRoot = {}
    BY <1>5, <1>7 DEF Inside, AtRoot, Verts
  <2>2. Tree(E) = D /\ mandatory \subseteq E /\ E \subseteq usable
    BY <1>4, <1>7, <2>1 DEF Tree
  <2>3. Cardinality(E) = N
    <3>1. D \in SUBSET Arcs
      BY <1>5 DEF Inside
    <3>2. IsFiniteSet(D) /\ Cardinality(D) \in Nat
      BY <3>1, ArcSetsAreFinite
    <3> PICK F : F = D \cup {a}
      OBVIOUS
    <3>3. a \notin D /\ b \notin F
      BY <1>7, <2>1
    <3>4. IsFiniteSet(F) /\ Cardinality(F) = Cardinality(D) + 1
      <4>1. IsFiniteSet(D \cup {a}) /\ Cardinality(D \cup {a}) = Cardinality(D) + 1
        BY <3>2, <3>3, FS_AddElement
      <4> QED
        BY <4>1
    <3>5. Cardinality(F \cup {b}) = Cardinality(F) + 1
      BY <3>3, <3>4, FS_AddElement
    <3>6. F \cup {b} = E
      OBVIOUS
    <3>7. Cardinality(Verts) = N - 1 /\ N \in Nat
      BY <1>7, NodeCount
    <3> HIDE DEF E
    <3>8. Cardinality(E) = Cardinality(F) + 1
      BY <3>5, <3>6
    <3> QED
      BY <1>5, <3>2, <3>4, <3>7, <3>8
  <2>4. a \in AtRoot /\ b \in AtRoot /\ E = Tree(E) \cup {a, b}
    BY <1>7, <2>2
  <2>5. Tree(E) \in Trees(Verts)
    BY <1>4, <2>2
  <2> HIDE DEF E
  <2>6. E \in Solutions
    BY <2>2, <2>3, <2>4, <2>5, PartsAreSolution
  <2> QED
    BY <2>6
<1> QED
  BY <1>6, <1>7 DEF CallInv

\* The sum of two.
LEMMA TotalOfTwo ==
  ASSUME NEW f, NEW a, NEW b, a # b, f[a] \in Int, f[b] \in Int
  PROVE  Total(f, {a, b}) = f[a] + f[b]
<1> PICK S : S = {a}
  OBVIOUS
<1>1. IsFiniteSet(S) /\ \A x \in S : f[x] \in Int
  BY FS_Singleton
<1>2. Total(f, {} \cup {a}) = f[a] + Total(f, {}) /\ Total(f, {}) = 0
  BY TotalWith, TotalOfNothing, FS_EmptySet
<1>3. Total(f, S) = f[a]
  <2>1. {} \cup {a} = S
    OBVIOUS
  <2> QED
    BY <1>2, <2>1
<1>4. Total(f, S \cup {b}) = f[b] + Total(f, S)
  BY <1>1, TotalWith
<1>5. S \cup {b} = {a, b}
  OBVIOUS
<1> QED
  BY <1>3, <1>4, <1>5
\* Where the queue is empty, the tree has reached whatever can be reached.
LEMMA WholeTree ==
  ASSUME CallInv, method # "EDMONDS", ExpandInv, GrowInv, queue = {}
  PROVE  IF rank < N THEN Solutions = {} ELSE Grown = Nodes
<1>1. Grown \subseteq Nodes /\ first \in Grown /\ first \in Verts /\ Verts \subseteq Nodes
      /\ (cycle => r \in Grown)
  BY VertsAreNodes, RootType DEF ExpandInv, Grown
<1>2. IsFiniteSet(Nodes) /\ Cardinality(Nodes) = N /\ rank = Cardinality(Grown) /\ N \in Nat
  BY NodeCount DEF GrowInv
<1>3. Cardinality(Grown) \in Nat /\ Cardinality(Grown) <= N
      /\ (Cardinality(Grown) = N => Grown = Nodes)
  BY <1>1, <1>2, FS_Subset, FS_CardinalityType
<1>4. CASE rank < N
  <2>1. Grown # Nodes
    BY <1>2, <1>4
  <2>2. Inner \in SUBSET Verts /\ Inner # {} /\ Inner # Verts
    BY <1>1, <2>1 DEF Inner, Verts
  <2>3. ASSUME NEW a \in usable \cap Inside(Verts), Crosses(a, Inner) PROVE FALSE
    <3>1. a \in Arcs /\ From[a] \in Verts /\ To[a] \in Verts
      BY <2>3 DEF Inside
    <3>2. \E d \in Darts : d[1] = a /\ StartNode(d) \in Inner /\ EndNode(d) \in Verts \ Inner
      <4>1. /\ <<a, 0>> \in Darts /\ <<a, 1>> \in Darts
            /\ StartNode(<<a, 0>>) = From[a] /\ EndNode(<<a, 0>>) = To[a]
            /\ StartNode(<<a, 1>>) = To[a] /\ EndNode(<<a, 1>>) = From[a]
        BY <3>1 DEF Darts, StartNode, EndNode, Opposite
      <4>2. CASE From[a] \in Inner /\ To[a] \notin Inner
        BY <3>1, <4>1, <4>2
      <4>3. CASE From[a] \notin Inner /\ To[a] \in Inner
        BY <3>1, <4>1, <4>3
      <4> QED
        BY <2>3, <4>2, <4>3 DEF Crosses
    <3>3. PICK d \in Darts : d[1] = a /\ StartNode(d) \in Inner /\ EndNode(d) \in Verts \ Inner
      BY <3>2
    <3>4. EndNode(d) \in Verts \ Grown
      BY <3>3 DEF Inner
    <3> QED
      BY <2>3, <3>3, <3>4 DEF ExpandInv, Labelled
  <2>4. Solutions = {}
    BY <2>2, <2>3, CutOff
  <2> QED
    BY <1>4, <2>4
<1>5. CASE ~(rank < N)
  BY <1>2, <1>3, <1>5
<1> QED
  BY <1>4, <1>5

\* The labels of a tree that has reached all nodes.
LEMMA GrownTree ==
  ASSUME CallInv, ExpandInv, GrowInv, Grown = Nodes
  PROVE  /\ Rooted /\ Promised = Labels
         /\ \E T \in Trees(Verts) :
              /\ T \subseteq usable /\ T \subseteq Labels
              /\ IF cycle THEN Labels = T \cup {pred[first][1], pred[r][1]} ELSE Labels = T
<1>1. Inner = Verts /\ first \in Verts /\ Verts \subseteq Nodes /\ r \in Nodes
  BY VertsAreNodes, RootType DEF ExpandInv, Inner
<1>2. \A v \in Verts \ {first} : Joined(v)
  BY <1>1 DEF ExpandInv
<1>3. PICK t \in [Nodes -> Nat] : \A v \in Nodes \ {r} : t[StartNode(pred[v])] < t[v]
  BY DEF GrowInv
<1>4. IF cycle THEN ClosedAtRoot /\ pred[first] \in Darts /\ pred[r] \in Darts
               ELSE first = r /\ pred[r] = NoArc
  BY DEF GrowInv, ExpandInv
<1>5. Rooted
  <2>1. ASSUME NEW v \in Nodes
        PROVE  IF v = r /\ ~cycle THEN pred[v] = NoArc
               ELSE pred[v] \in Darts /\ EndNode(pred[v]) = v
    <3>1. CASE v \in Verts \ {first}
      BY <1>2, <1>4, <3>1 DEF Joined
    <3>2. CASE v \notin Verts \ {first}
      BY <1>4, <3>2 DEF Verts, ClosedAtRoot
    <3> QED
      BY <3>1, <3>2
  <2> QED
    BY <1>3, <2>1 DEF Rooted, ExpandInv
<1> DEFINE T == {pred[v][1] : v \in Verts \ {first}}
<1>6. T \in Trees(Verts)
  <2>1. \A v \in Verts \ {first} : v # r
    BY <1>4 DEF Verts
  <2>2. \A v \in Verts \ {first} : t[StartNode(pred[v])] < t[v]
    BY <1>1, <1>3, <2>1
  <2>3. \A v \in Verts \ {first} : pred[v] \in Darts /\ EndNode(pred[v]) = v /\ StartNode(pred[v]) \in Verts
    BY <1>1, <1>2 DEF Joined
  <2> PICK p, V, x : p = pred /\ V = Verts /\ x = first
    OBVIOUS
  <2>4. V \in SUBSET Nodes /\ x \in V
        /\ \A v \in V \ {x} : p[v] \in Darts /\ EndNode(p[v]) = v /\ StartNode(p[v]) \in V
    BY <1>1, <2>3
  <2>5. \A v \in V \ {x} : t[StartNode(p[v])] < t[v]
    BY <2>2
  <2>6. {p[v][1] : v \in V \ {x}} \in Trees(V)
    BY <2>4, <2>5, LabelledTree
  <2> QED
    BY <2>6
<1>7. T \subseteq usable
  BY <1>2 DEF Joined
<1>8. \A v \in Nodes : IF v = r /\ ~cycle THEN pred[v] = NoArc ELSE pred[v] # NoArc
  BY <1>5, DartsAreArcs DEF Rooted
<1>9. T \subseteq Labels
  <2>1. \A v \in Verts \ {first} : v \in Nodes /\ pred[v] # NoArc
    BY <1>1, <1>4, <1>8 DEF Verts
  <2> QED
    BY <2>1 DEF Labels
<1>10. IF cycle THEN Labels = T \cup {pred[first][1], pred[r][1]} ELSE Labels = T
  <2>1. CASE cycle
    <3>1. pred[first][1] \in Labels /\ pred[r][1] \in Labels
      BY <1>1, <1>8, <2>1 DEF Labels
    <3>2. \A v \in Nodes : v \in Verts \ {first} \/ v = first \/ v = r
      BY DEF Verts
    <3>3. Labels \subseteq T \cup {pred[first][1], pred[r][1]}
      BY <3>2 DEF Labels
    <3> QED
      BY <1>9, <2>1, <3>1, <3>3
  <2>2. CASE ~cycle
    <3>1. Labels \subseteq T
      BY <1>4, <1>8, <2>2 DEF Labels, Verts
    <3> QED
      BY <1>9, <2>2, <3>1
  <2> QED
    BY <2>1, <2>2
<1>11. Promised = Labels
  <2>1. cycle => {pred[first][1], pred[r][1]} \subseteq Labels
    BY <1>1, <1>8 DEF Labels
  <2> QED
    BY <2>1 DEF Promised, Labels
<1> HIDE DEF T
<1> QED
  BY <1>5, <1>6, <1>7, <1>9, <1>10, <1>11

\* Sets of arcs that contain one another and have the same size are the same.
LEMMA SameSize ==
  ASSUME NEW A \in SUBSET Arcs, NEW B \in SUBSET A, Cardinality(A) = Cardinality(B)
  PROVE  A = B
<1>1. IsFiniteSet(A)
  BY ArcSetsAreFinite
<1> QED
  BY <1>1, FS_Subset

\* What MST_Prim returns is an optimum, and it fails if and only if there is no tree.
LEMMA PrimFinds ==
  ASSUME CallInv, method # "EDMONDS", MandatoryForest, ExpandInv, GrowInv, queue = {}, ~(rank < N)
  PROVE  /\ Solutions # {} /\ Labels \in Optima /\ sum = Total(len, Labels) /\ Rooted
<1>1. Grown = Nodes
  BY WholeTree
<1>2. Rooted /\ Promised = Labels
  BY <1>1, GrownTree
<1>3. PICK T \in Trees(Verts) :
        /\ T \subseteq usable /\ T \subseteq Labels
        /\ IF cycle THEN Labels = T \cup {pred[first][1], pred[r][1]} ELSE Labels = T
  BY <1>1, GrownTree
<1> PICK a, b : a = pred[first][1] /\ b = pred[r][1]
  OBVIOUS
<1>4. cycle => /\ {a, b} \subseteq AtRoot \cap usable /\ a # b
               /\ mandatory \cap AtRoot \subseteq {a, b} /\ Labels = T \cup {a, b}
  BY <1>3 DEF GrowInv, ClosedAtRoot, ExpandInv
<1>5. Solutions # {}
  BY <1>3, <1>4, PartsMakeSolution
<1>6. PICK A \in Optima : Labels \subseteq A
  BY <1>2, <1>5 DEF ExpandInv, Extends
<1>7. A \in Solutions
  BY OptimaAreLeast DEF CallInv
<1>8. /\ Tree(A) \in Trees(Verts) /\ A \subseteq Arcs
      /\ cycle => \E x, y \in AtRoot : A = Tree(A) \cup {x, y}
      /\ cycle => Cardinality(A) = N
  BY <1>7, SolutionParts
<1>9. /\ T \in SUBSET Inside(Verts) /\ Cardinality(T) = Cardinality(Verts) - 1
      /\ Tree(A) \in SUBSET Inside(Verts) /\ Cardinality(Tree(A)) = Cardinality(Verts) - 1
  BY <1>3, <1>8, VertsAreNodes, TreesConnect
<1>10. T = Tree(A)
  <2>1. T \subseteq Tree(A)
    <3>1. cycle => T \cap AtRoot = {}
      BY <1>9 DEF Inside, AtRoot, Verts
    <3> QED
      BY <1>3, <1>6, <3>1 DEF Tree
  <2>2. Tree(A) \in SUBSET Arcs
    BY <1>9 DEF Inside
  <2> QED
    BY <1>9, <2>1, <2>2, SameSize
<1>11. Labels = A
  <2>1. CASE ~cycle
    BY <1>3, <1>10, <2>1 DEF Tree
  <2>2. CASE cycle
    <3>1. PICK x, y \in AtRoot : A = T \cup {x, y}
      BY <1>8, <1>10, <2>2
    <3>2. T \cap AtRoot = {}
      BY <1>10, <2>2 DEF Tree
    <3>3. {a, b} \subseteq {x, y}
      BY <1>4, <1>6, <2>2, <3>1, <3>2
    <3>4. {a, b} = {x, y}
      BY <1>4, <2>2, <3>3
    <3> QED
      BY <1>4, <2>2, <3>1, <3>4
  <2> QED
    BY <2>1, <2>2
<1>12. sum = Total(len, Labels)
  BY <1>2 DEF GrowInv
<1> QED
  BY <1>2, <1>5, <1>6, <1>11, <1>12

\* A cycle needs two arcs at the root.
LEMMA NoCycle ==
  ASSUME CallInv, method # "EDMONDS", cycle, NEW x, Leaving(r) \subseteq {x}
  PROVE  Solutions = {}
<1> SUFFICES ASSUME NEW A \in Solutions PROVE FALSE
  OBVIOUS
<1> PICK T : T = Tree(A)
  OBVIOUS
<1>1. T \in Trees(Verts) /\ A \subseteq usable /\ Cardinality(A) = N
  BY SolutionParts
<1>2. PICK a \in AtRoot, b \in AtRoot : A = T \cup {a, b}
  BY SolutionParts
<1>3. a = b
  <2>1. PICK d \in Leaving(r) : d[1] = a
    BY <1>1, <1>2, RootDarts
  <2>2. PICK e \in Leaving(r) : e[1] = b
    BY <1>1, <1>2, RootDarts
  <2> QED
    BY <2>1, <2>2
<1>4. T \in SUBSET Arcs /\ Cardinality(T) = (N - 1) - 1 /\ a \notin T /\ N \in Nat
  <2>1. T \in SUBSET Inside(Verts) /\ Cardinality(T) = Cardinality(Verts) - 1
    BY <1>1, VertsAreNodes, TreesConnect
  <2>2. Cardinality(Verts) = N - 1 /\ N \in Nat
    BY NodeCount DEF CallInv
  <2>3. a \notin T
    BY DEF Tree
  <2> QED
    BY <2>1, <2>2, <2>3 DEF Inside
<1>5. Cardinality(T \cup {a}) = Cardinality(T) + 1
  BY <1>4, ArcSetsAreFinite, FS_AddElement
<1>6. A = T \cup {a}
  BY <1>2, <1>3
<1>7. Cardinality(A) = Cardinality(T) + 1
  BY <1>5, <1>6, Zenon
<1> QED
  BY <1>1, <1>4, <1>7

\* What TreeFound says does not depend on anything but the call and the labels.
LEMMA FoundStays ==
  ASSUME UNCHANGED instance, UNCHANGED <<pred, sum>>
  PROVE  (TreeFound' <=> TreeFound) /\ (MandatoryForest' <=> MandatoryForest) /\ Labels' = Labels
<1>1. Solutions' = Solutions /\ Optima' = Optima
  BY CallStays
<1>2. UNCHANGED <<len, mandatory, cycle, sign>>
  BY DEF instance
<1>3. Labels' = Labels
  BY DEF Labels
<1>4. Failure' = Failure /\ (Rooted' <=> Rooted)
  BY <1>2 DEF Failure, Rooted
<1>5. Total(len, Labels)' = Total(len, Labels)
  BY <1>2, <1>3
<1>6. TreeFound' <=> TreeFound
  BY <1>1, <1>3, <1>4, <1>5 DEF TreeFound
<1>7. MandatoryForest' <=> MandatoryForest
  BY <1>2 DEF MandatoryForest
<1> QED
  BY <1>3, <1>6, <1>7

\* The loop of MST_Prim begins with an empty tree ...
LEMMA GrowthStarts ==
  ASSUME CallInv, PrimStart, ~cycle
  PROVE  GrowInv'
<1>1. /\ len' = len /\ cycle' = cycle /\ pc' = "expand" /\ queue' = {r} /\ first' = r
      /\ dist' = [v \in Nodes |-> IF v = r THEN 0 ELSE Inf]
      /\ sum' = 0 /\ rank' = 0
  BY DEF PrimStart
<1>2. Grown' = {}
  BY <1>1 DEF Grown, Inf
<1>3. Promised' = {}
  BY <1>1, <1>2 DEF Promised
<1>4. rank' = Cardinality(Grown') /\ sum' = Total(len', Promised')
  BY <1>1, <1>2, <1>3, FS_EmptySet, TotalOfNothing
<1>5. dist'[first'] = 0
  BY <1>1, RootType
<1>6. (\E t \in [Nodes -> Nat] :
         /\ \A v \in Grown : t[v] < rank
         /\ \A v \in Grown \ {r} : StartNode(pred[v]) \in Grown /\ t[StartNode(pred[v])] < t[v])'
  <2>1. [v \in Nodes |-> 0] \in [Nodes -> Nat]
    OBVIOUS
  <2> QED
    BY <1>2, <2>1
<1> QED
  BY <1>1, <1>4, <1>5, <1>6 DEF GrowInv

\* ... or with the root of the cycle.
LEMMA GrowthStartsAtCycle ==
  ASSUME CallInv, method \in Prims, PairInv, PrimCycle
  PROVE  GrowInv'
<1>1. PICK x, y \in Leaving(r) : Closes(x, y)
  BY CycleEffect
<1>2. UNCHANGED <<len, usable, mandatory, cycle>> /\ cycle
  BY DEF PrimCycle, PairInv, instance
<1>3. /\ x \in Darts /\ y \in Darts /\ x[1] \in AtRoot \cap usable /\ y[1] \in AtRoot \cap usable
      /\ x # y /\ x[1] # y[1] /\ StartNode(x) = r /\ StartNode(y) = r
  BY <1>1, RootDarts DEF Closes, Paired
<1>4. Opposite(y)[1] = y[1] /\ EndNode(Opposite(y)) = r
  BY <1>3, DartEnds
<1>5. mandatory \cap AtRoot \subseteq {x[1], y[1]}
  <2> SUFFICES ASSUME NEW a \in mandatory \cap AtRoot, a \notin {x[1], y[1]} PROVE FALSE
    OBVIOUS
  <2>1. PICK d \in Leaving(r) : d[1] = a
    BY RootDarts DEF CallInv
  <2>2. ~IsMandatory(d)
    BY <1>1, <2>1 DEF Closes, Paired
  <2> QED
    BY <2>1, <2>2 DEF IsMandatory
<1>6. ClosedAtRoot'
  BY <1>1, <1>2, <1>3, <1>4, <1>5 DEF Closes, ClosedAtRoot
<1>7. sum' = Total(len', Promised')
  <2>1. x[1] \in Arcs /\ y[1] \in Arcs
    BY <1>3, DartsAreArcs
  <2>2. len[x[1]] \in Int /\ len[y[1]] \in Int
    BY <2>1 DEF CallInv
  <2>3. Total(len, {x[1], y[1]}) = len[x[1]] + len[y[1]]
    BY <1>3, <2>2, TotalOfTwo
  <2> QED
    BY <1>1, <1>2, <2>3 DEF Closes
<1>8. rank' = Cardinality(Grown')
  BY <1>1, FS_Singleton DEF Closes
<1>9. (\E t \in [Nodes -> Nat] :
         /\ \A v \in Grown : t[v] < rank
         /\ \A v \in Grown \ {r} : StartNode(pred[v]) \in Grown /\ t[StartNode(pred[v])] < t[v])'
  <2> PICK t : t = [v \in Nodes |-> 0]
    OBVIOUS
  <2>1. t \in [Nodes -> Nat] /\ t[r] = 0
    BY RootType
  <2>2. Grown' = {r} /\ rank' = 1
    BY <1>1 DEF Closes
  <2> QED
    BY <2>1, <2>2
<1> QED
  BY <1>1, <1>2, <1>6, <1>7, <1>8, <1>9 DEF Closes, GrowInv

\* The length of the label, or of the predecessor arc, is what the node adds to the tree.
LEMMA GainIsLength ==
  ASSUME CallInv, method \in Prims, ExpandInv, GrowInv, NEW u \in queue
  PROVE  Gain(u) = IF u = first THEN 0 ELSE len[pred[u][1]]
<1>1. CASE u = first
  <2>1. dist[u] = 0
    BY <1>1 DEF GrowInv
  <2>2. sign * dist[u] = 0
    BY <2>1 DEF CallInv
  <2> QED
    BY <1>1, <2>2 DEF Gain
<1>2. CASE u # first /\ method = "PRIM"
  <2>1. Joined(u) /\ dist[u] = Key(pred[u]) /\ mandatory = {}
    BY <1>2 DEF ExpandInv
  <2>2. len[pred[u][1]] \in Int
    BY <2>1, DartsAreArcs DEF Joined, CallInv
  <2>3. dist[u] = sign * len[pred[u][1]]
    BY <1>2, <2>1 DEF Key, Cost
  <2>4. sign * dist[u] = len[pred[u][1]]
    BY <2>2, <2>3 DEF CallInv
  <2> QED
    BY <1>2, <2>4 DEF Gain
<1>3. CASE u # first /\ method # "PRIM"
  BY <1>3 DEF Gain
<1> QED
  BY <1>1, <1>2, <1>3

\* A node that joins the tree brings one new arc.
LEMMA GrowthGoesOn ==
  ASSUME CallInv, ShortLengths, method \in Prims, ExpandInv, GrowInv, PrimExpand
  PROVE  GrowInv'
<1>1. PICK u \in queue : Expands(u)
  BY ExpandEffect
<1>2. UNCHANGED instance /\ UNCHANGED <<len, usable, mandatory, cycle>> /\ first' = first
  BY DEF PrimExpand, instance
<1>3. /\ u \in Verts /\ u \notin Grown /\ Grown' = Grown \cup {u} /\ u \in Nodes
      /\ first \in Grown' /\ pred'[first] = pred[first] /\ pred'[u] = pred[u]
      /\ cycle => pred'[r] = pred[r]
      /\ \A v \in Grown : pred'[v] = pred[v]
      /\ Promised' = IF u = first THEN Promised ELSE Promised \cup {pred[u][1]}
  BY <1>1, TreeGrows, VertsAreNodes
<1>4. rank' = Cardinality(Grown') /\ rank \in Nat /\ rank' = rank + 1
  <2>1. IsFiniteSet(Grown)
    BY NodesAreFinite, FS_Subset DEF Grown
  <2>2. Cardinality(Grown \cup {u}) = Cardinality(Grown) + 1 /\ Cardinality(Grown) \in Nat
    BY <1>3, <2>1, FS_AddElement, FS_CardinalityType
  <2>3. rank' = rank + 1 /\ rank = Cardinality(Grown)
    BY <1>1 DEF Expands, GrowInv
  <2>4. Cardinality(Grown') = Cardinality(Grown) + 1
    BY <1>3, <2>2, Zenon
  <2> QED
    BY <2>2, <2>3, <2>4
<1>5. sum' = Total(len', Promised')
  <2>1. sum' = sum + Gain(u) /\ sum = Total(len, Promised)
    BY <1>1 DEF Expands, GrowInv
  <2>2. Gain(u) = IF u = first THEN 0 ELSE len[pred[u][1]]
    BY GainIsLength
  <2>3. Promised \in SUBSET Arcs
    <3>1. ASSUME NEW v \in Grown, pred[v] # NoArc PROVE pred[v][1] \in Arcs
      BY <3>1, DartsAreArcs DEF ExpandInv, Grown
    <3>2. cycle => pred[first][1] \in Arcs /\ pred[r][1] \in Arcs
      BY DartsAreArcs DEF ExpandInv
    <3> QED
      BY <3>1, <3>2 DEF Promised
  <2>4. IsFiniteSet(Promised) /\ \A a \in Promised : len[a] \in Int
    BY <2>3, ArcSetsAreFinite DEF CallInv
  <2>5. Total(len, Promised) \in Int
    BY <2>4, TotalIsInteger
  <2>6. CASE u = first
    BY <1>2, <1>3, <2>1, <2>2, <2>5, <2>6
  <2>7. CASE u # first
    <3> PICK a : a = pred[u][1]
      OBVIOUS
    <3>1. Joined(u)
      BY <2>7 DEF ExpandInv
    <3>2. a \in Arcs /\ StartNode(pred[u]) \in Inner /\ EndNode(pred[u]) = u /\ pred[u] \in Darts
      BY <3>1, DartsAreArcs DEF Joined
    <3>3. StartNode(pred[u]) \in Verts /\ u \notin Inner
      BY <1>3, <3>2 DEF Inner
    <3>4. a \in Inside(Verts) /\ Crosses(a, Inner)
      <4>1. \/ From[a] = StartNode(pred[u]) /\ To[a] = u
            \/ To[a] = StartNode(pred[u]) /\ From[a] = u
        BY <3>2, DartEnds
      <4> QED
        BY <1>3, <3>2, <3>3, <4>1 DEF Inside, Crosses
    <3>5. a \notin Promised
      BY <3>4, PromisedStayInside
    <3>6. len[a] \in Int
      BY <3>2 DEF CallInv
    <3>7. Total(len, Promised \cup {a}) = len[a] + Total(len, Promised)
      BY <2>4, <3>5, <3>6, TotalWith
    <3>8. sum' = len[a] + Total(len, Promised)
      BY <2>1, <2>2, <2>5, <2>7, <3>6
    <3> QED
      BY <1>2, <1>3, <2>7, <3>7, <3>8
  <2> QED
    BY <2>6, <2>7
<1>6. first \in queue' => dist'[first] = 0
  <2>1. first \in Grown'
    BY <1>3
  <2> QED
    BY <1>2, <2>1 DEF Grown
<1>7. \E t \in [Nodes -> Nat] :
        /\ \A v \in Grown' : t[v] < rank'
        /\ \A v \in Grown' \ {r} : StartNode(pred'[v]) \in Grown' /\ t[StartNode(pred'[v])] < t[v]
  <2>1. PICK t \in [Nodes -> Nat] :
          /\ \A v \in Grown : t[v] < rank
          /\ \A v \in Grown \ {r} : StartNode(pred[v]) \in Grown /\ t[StartNode(pred[v])] < t[v]
    BY DEF GrowInv
  <2> PICK s : s = [t EXCEPT ![u] = rank]
    OBVIOUS
  <2>2. s \in [Nodes -> Nat] /\ s[u] = rank /\ \A v \in Nodes : v # u => s[v] = t[v]
    BY <1>3, <1>4
  <2>3. u # r => StartNode(pred[u]) \in Grown
    <3>1. CASE u # first
      BY <3>1 DEF ExpandInv, Joined, Inner
    <3>2. CASE u = first
      <4>1. cycle => StartNode(pred[u]) = r /\ r \in Grown
        <5>1. cycle => StartNode(pred[u]) = r /\ dist[r] = -Inf /\ r \in Nodes /\ r \notin Verts /\ queue \subseteq Verts
          BY <3>2, RootType DEF GrowInv, ClosedAtRoot, ExpandInv, Verts
        <5> QED
          BY <5>1 DEF Grown
      <4>2. ~cycle => u = r
        BY <3>2 DEF GrowInv
      <4> QED
        BY <4>1, <4>2
    <3> QED
      BY <3>1, <3>2
  <2>4. Grown \subseteq Nodes
    BY DEF Grown
  <2>5. \A v \in Grown' : s[v] < rank'
    <3> SUFFICES ASSUME NEW v \in Grown' PROVE s[v] < rank'
      OBVIOUS
    <3>1. CASE v = u
      BY <1>4, <2>2, <3>1
    <3>2. CASE v # u
      <4>1. v \in Grown /\ t[v] < rank /\ s[v] = t[v] /\ t[v] \in Nat
        BY <1>3, <2>1, <2>2, <2>4, <3>2
      <4> QED
        BY <1>4, <4>1
    <3> QED
      BY <3>1, <3>2
  <2>6. ASSUME NEW v \in Grown' \ {r}
        PROVE  StartNode(pred'[v]) \in Grown' /\ s[StartNode(pred'[v])] < s[v]
    <3>1. CASE v = u
      <4>1. StartNode(pred[u]) \in Grown
        BY <2>3, <3>1
      <4>2. StartNode(pred[u]) \in Nodes /\ StartNode(pred[u]) # u /\ t[StartNode(pred[u])] < rank
        BY <1>3, <2>1, <2>4, <4>1
      <4> QED
        BY <1>3, <2>2, <3>1, <4>1, <4>2
    <3>2. CASE v # u
      <4>1. v \in Grown \ {r} /\ pred'[v] = pred[v]
        BY <1>3, <3>2
      <4>2. StartNode(pred[v]) \in Grown /\ t[StartNode(pred[v])] < t[v]
        BY <2>1, <4>1
      <4>3. StartNode(pred[v]) \in Nodes /\ StartNode(pred[v]) # u /\ v \in Nodes
        BY <1>3, <2>4, <4>1, <4>2
      <4> QED
        BY <1>3, <2>2, <3>2, <4>1, <4>2, <4>3
    <3> QED
      BY <3>1, <3>2
  <2> QED
    BY <2>2, <2>5, <2>6
<1>8. IF cycle THEN ClosedAtRoot' ELSE first' = r
  BY <1>2, <1>3 DEF GrowInv, ClosedAtRoot
<1> QED
  BY <1>2, <1>4, <1>5, <1>6, <1>7, <1>8 DEF GrowInv

\* What AddToSubgraph() and ExtractTree() leave, if there is a tree.
Delivered == TreeFound /\ (Solutions # {} => sub = Labels)

\* The method of Prim from the loop to the end.
PrimFound ==
  method \in Prims =>
    /\ MandatoryForest
    /\ pc = "expand" => GrowInv
    /\ pc = "add" => TreeFound
    /\ pc = "done" => Delivered

\* What has been delivered stays there.
LEMMA DeliveredStays ==
  ASSUME UNCHANGED instance, UNCHANGED <<pred, sum, sub>>
  PROVE  Delivered' <=> Delivered
<1>1. (TreeFound' <=> TreeFound) /\ Labels' = Labels
  BY FoundStays
<1>2. Solutions' = Solutions
  BY CallStays
<1> QED
  BY <1>1, <1>2 DEF Delivered

\* A tree that does not reach all nodes is a failure, and the others are optima.
LEMMA EndIsFound ==
  ASSUME CallInv, method # "EDMONDS", MandatoryForest, ExpandInv, GrowInv, PrimEnd
  PROVE  TreeFound'
<1>1. /\ UNCHANGED instance /\ pred' = pred /\ queue = {}
      /\ sum' = IF rank < N THEN Failure ELSE sum
  BY DEF PrimEnd
<1>2. Solutions' = Solutions /\ Optima' = Optima /\ UNCHANGED <<len, cycle, sign>>
  BY <1>1, CallStays DEF instance
<1>3. Failure' = Failure /\ Labels' = Labels /\ (Rooted' <=> Rooted)
  BY <1>1, <1>2 DEF Failure, Labels, Rooted
<1>4. CASE rank < N
  BY <1>1, <1>2, <1>3, <1>4, WholeTree DEF TreeFound
<1>5. CASE ~(rank < N)
  <2>1. Solutions # {} /\ Labels \in Optima /\ sum = Total(len, Labels) /\ Rooted
    BY <1>1, <1>5, PrimFinds
  <2>2. sum' = Total(len', Labels')
    BY <1>1, <1>2, <1>3, <1>5, <2>1
  <2> QED
    BY <1>2, <1>3, <2>1, <2>2 DEF TreeFound
<1> QED
  BY <1>4, <1>5

\* Without a second arc at the root there is no cycle.
LEMMA NoCycleIsFound ==
  ASSUME CallInv, method # "EDMONDS", PairInv, PrimNoCycle
  PROVE  TreeFound'
<1>1. UNCHANGED instance /\ todo = {} /\ picks[2] = NoArc /\ sum' = Failure
  BY DEF PrimNoCycle
<1>2. Solutions' = Solutions /\ Failure' = Failure
  BY <1>1, CallStays DEF instance, Failure
<1>3. Leaving(r) \subseteq {picks[1]}
  <2>1. Paired(picks[1], picks[2], Leaving(r))
    <3>1. Leaving(r) \ todo = Leaving(r)
      BY <1>1
    <3> QED
      BY <3>1 DEF PairInv
  <2>2. \A d \in Leaving(r) : d # NoArc
    BY RootDarts, DartsAreArcs
  <2> QED
    BY <1>1, <2>1, <2>2 DEF Paired
<1>4. Solutions = {}
  BY <1>3, NoCycle DEF PairInv
<1> QED
  BY <1>1, <1>2, <1>4 DEF TreeFound

\* AddToSubgraph() adds nothing but the tree: the mandatory arcs are part of it.
LEMMA AddDelivers ==
  ASSUME CallInv, TreeFound, AddToSubgraph
  PROVE  Delivered'
<1>1. UNCHANGED instance /\ UNCHANGED <<pred, sum>> /\ sub' = mandatory \cup Labels
  BY DEF AddToSubgraph, Labels
<1>2. Solutions' = Solutions /\ Labels' = Labels /\ TreeFound'
  BY <1>1, CallStays, FoundStays
<1>3. Solutions # {} => sub' = Labels
  <2> SUFFICES ASSUME Solutions # {} PROVE mandatory \subseteq Labels
    BY <1>1
  <2>1. Labels \in Solutions
    BY OptimaAreLeast DEF TreeFound, CallInv
  <2> QED
    BY <2>1 DEF Solutions
<1> QED
  BY <1>2, <1>3 DEF Delivered

\* The method of Prim keeps this invariant.
LEMMA PrimFindsTree ==
  ASSUME GreedyInv, PrimFound, PrimStep, method \in Prims
  PROVE  PrimFound'
<1>0. CallInv /\ ShortLengths /\ method # "EDMONDS" /\ MandatoryForest
  BY DEF GreedyInv, Prims, PrimFound
<1>1. CASE PrimStart
  <2>1. UNCHANGED <<mandatory, cycle>> /\ pc' = IF cycle THEN "pick" ELSE "expand"
    BY <1>1 DEF PrimStart
  <2>2. MandatoryForest'
    BY <1>0, <2>1 DEF MandatoryForest
  <2>3. ~cycle => GrowInv'
    BY <1>0, <1>1, GrowthStarts
  <2> QED
    BY <2>1, <2>2, <2>3 DEF PrimFound
<1>2. CASE PrimNoCycle
  <2>1. UNCHANGED instance /\ pred' = pred /\ pc' = "add" /\ PairInv
    BY <1>2 DEF PrimNoCycle, GreedyInv, PrimInv
  <2>2. TreeFound'
    BY <1>0, <1>2, <2>1, NoCycleIsFound
  <2>3. MandatoryForest'
    BY <1>0, <2>1 DEF MandatoryForest, instance
  <2> QED
    BY <2>1, <2>2, <2>3 DEF PrimFound
<1>3. CASE PrimCycle
  <2>1. UNCHANGED instance /\ pc' = "expand" /\ PairInv
    BY <1>3 DEF PrimCycle, GreedyInv, PrimInv
  <2>2. GrowInv'
    BY <1>0, <1>3, <2>1, GrowthStartsAtCycle
  <2>3. MandatoryForest'
    BY <1>0, <2>1 DEF MandatoryForest, instance
  <2> QED
    BY <2>1, <2>2, <2>3 DEF PrimFound
<1>4. CASE PrimExpand
  <2>1. UNCHANGED <<instance, pc>> /\ pc = "expand" /\ ExpandInv /\ GrowInv
    BY <1>4 DEF PrimExpand, GreedyInv, PrimInv, PrimFound
  <2>2. GrowInv'
    BY <1>0, <1>4, <2>1, GrowthGoesOn
  <2>3. MandatoryForest'
    BY <1>0, <2>1 DEF MandatoryForest, instance
  <2> QED
    BY <2>1, <2>2, <2>3 DEF PrimFound
<1>5. CASE PrimEnd
  <2>1. UNCHANGED instance /\ pc' = "add" /\ ExpandInv /\ GrowInv
    BY <1>5 DEF PrimEnd, GreedyInv, PrimInv, PrimFound
  <2>2. TreeFound'
    BY <1>0, <1>5, <2>1, EndIsFound
  <2>3. MandatoryForest'
    BY <1>0, <2>1 DEF MandatoryForest, instance
  <2> QED
    BY <2>1, <2>2, <2>3 DEF PrimFound
<1>6. CASE AddToSubgraph
  <2>1. UNCHANGED instance /\ pc' = "done" /\ TreeFound
    BY <1>6 DEF AddToSubgraph, PrimFound
  <2>2. Delivered'
    BY <1>0, <1>6, <2>1, AddDelivers
  <2>3. MandatoryForest'
    BY <1>0, <2>1 DEF MandatoryForest, instance
  <2> QED
    BY <2>1, <2>2, <2>3 DEF PrimFound
<1> QED
  BY <1>1, <1>2, <1>3, <1>4, <1>5, <1>6 DEF PrimStep

-----------------------------------------------------------------------------
\* What the method of Kruskal returns, for spanning trees.  The arcs in A, of which there are
\* n, join the nodes in V to the sets of s: as many as there are nodes in R.
Counted(V, A, s, n) ==
  /\ A \subseteq Inside(V) /\ n = Cardinality(A)
  /\ \E R \in SUBSET V : Cardinality(R) + n = Cardinality(V) /\ \A v \in V : s[v] \cap R # {}
  /\ \A S \in SUBSET V : (\A a \in A : ~Crosses(a, S)) => \A v \in S : s[v] \subseteq S

\* The sets of s are the classes of an equivalence.
Equivalence(V, s) ==
  /\ \A v \in V : v \in s[v] /\ s[v] \subseteq V
  /\ \A v, w \in V : w \in s[v] => s[w] = s[v]

\* The sets of s after those of u and v have been joined.
Joint(s, u, v) ==
  [x \in Nodes |-> IF x \in s[u] \cup s[v] THEN s[u] \cup s[v] ELSE s[x]]

\* An arc more, a set less.
LEMMA MergeCounts ==
  ASSUME NEW V \in SUBSET Nodes, NEW A, NEW s, NEW n, Counted(V, A, s, n), Equivalence(V, s),
         NEW a \in Inside(V) \ A, s[From[a]] # s[To[a]]
  PROVE  Counted(V, A \cup {a}, Joint(s, From[a], To[a]), n + 1)
<1> PICK x, y, m : x = From[a] /\ y = To[a] /\ m = Joint(s, x, y)
  OBVIOUS
<1>1. x \in V /\ y \in V /\ s[x] # s[y]
  BY DEF Inside
<1>2. \A v \in V : m[v] = IF v \in s[x] \cup s[y] THEN s[x] \cup s[y] ELSE s[v]
  BY DEF Joint
<1>3. A \cup {a} \subseteq Inside(V) /\ n + 1 = Cardinality(A \cup {a}) /\ n \in Nat
  <2>1. A \in SUBSET Arcs /\ n = Cardinality(A)
    BY DEF Counted, Inside
  <2>2. Cardinality(A \cup {a}) = Cardinality(A) + 1 /\ Cardinality(A) \in Nat
    BY <2>1, ArcSetsAreFinite, FS_AddElement
  <2> QED
    BY <2>1, <2>2 DEF Counted
<1>4. \E R \in SUBSET V : Cardinality(R) + (n + 1) = Cardinality(V) /\ \A v \in V : m[v] \cap R # {}
  <2>1. PICK R \in SUBSET V : Cardinality(R) + n = Cardinality(V) /\ \A v \in V : s[v] \cap R # {}
    BY DEF Counted
  <2>2. PICK q \in s[y] \cap R : TRUE
    BY <1>1, <2>1
  <2>3. Cardinality(R \ {q}) + (n + 1) = Cardinality(V)
    <3>1. IsFiniteSet(R)
      BY NodesAreFinite, FS_Subset
    <3>2. Cardinality(R \ {q}) = Cardinality(R) - 1 /\ Cardinality(R) \in Nat
      BY <2>2, <3>1, FS_RemoveElement, FS_CardinalityType
    <3> QED
      BY <1>3, <2>1, <3>2
  <2>4. ASSUME NEW v \in V PROVE m[v] \cap (R \ {q}) # {}
    <3>1. CASE v \in s[x] \cup s[y]
      <4>1. PICK p \in s[x] \cap R : TRUE
        BY <1>1, <2>1
      <4>2. p # q
        BY <1>1, <2>2, <4>1 DEF Equivalence
      <4> QED
        BY <1>2, <3>1, <4>1, <4>2
    <3>2. CASE v \notin s[x] \cup s[y]
      <4>1. PICK p \in s[v] \cap R : TRUE
        BY <2>1
      <4>2. p # q
        BY <1>1, <2>2, <3>2, <4>1 DEF Equivalence
      <4> QED
        BY <1>2, <3>2, <4>1, <4>2
    <3> QED
      BY <3>1, <3>2
  <2>5. R \ {q} \in SUBSET V
    OBVIOUS
  <2> QED
    BY <2>3, <2>4, <2>5
<1>5. ASSUME NEW S \in SUBSET V, \A b \in A \cup {a} : ~Crosses(b, S), NEW v \in S
      PROVE  m[v] \subseteq S
  <2>1. \A w \in S : s[w] \subseteq S
    BY <1>5 DEF Counted
  <2>2. x \in S <=> y \in S
    BY <1>5 DEF Crosses
  <2>3. CASE v \in s[x] \cup s[y]
    <3>1. s[v] = s[x] \/ s[v] = s[y]
      BY <1>1, <2>3 DEF Equivalence
    <3>2. x \in S \/ y \in S
      BY <1>1, <2>1, <3>1 DEF Equivalence
    <3> QED
      BY <1>2, <2>1, <2>2, <2>3, <3>2
  <2>4. CASE v \notin s[x] \cup s[y]
    BY <1>2, <2>1, <2>4
  <2> QED
    BY <2>3, <2>4
<1> QED
  BY <1>3, <1>4, <1>5 DEF Counted

\* An arc between nodes that are joined already closes a cycle: there is no tree with it.
LEMMA ChordsAreFatal ==
  ASSUME NEW V \in SUBSET Nodes, NEW A, NEW s, NEW n, Counted(V, A, s, n), Equivalence(V, s),
         NEW a, a \notin A, From[a] \in V, s[From[a]] = s[To[a]], To[a] \in V,
         NEW T \in Trees(V), A \cup {a} \subseteq T
  PROVE  FALSE
<1>1. \A S \in SUBSET V : (\A b \in A : ~Crosses(b, S)) => ~Crosses(a, S)
  <2> SUFFICES ASSUME NEW S \in SUBSET V, \A b \in A : ~Crosses(b, S) PROVE ~Crosses(a, S)
    OBVIOUS
  <2>1. \A v \in S : s[v] \subseteq S
    BY DEF Counted
  <2> QED
    BY <2>1 DEF Crosses, Equivalence
<1> QED
  BY <1>1, NoChord

\* When all sets have been joined the arcs are a tree ...
LEMMA OneSetIsTree ==
  ASSUME NEW V \in SUBSET Nodes, V # {}, NEW A, NEW s, NEW n, Counted(V, A, s, n),
         Equivalence(V, s), n >= Cardinality(V) - 1
  PROVE  A \in Trees(V)
<1>1. PICK R \in SUBSET V : Cardinality(R) + n = Cardinality(V) /\ \A v \in V : s[v] \cap R # {}
  BY DEF Counted
<1>2. A \in SUBSET Arcs /\ n = Cardinality(A)
  BY DEF Counted, Inside
<1>3. n \in Nat /\ IsFiniteSet(R) /\ Cardinality(R) \in Nat /\ Cardinality(V) \in Nat
  BY <1>2, ArcSetsAreFinite, NodesAreFinite, FS_Subset, FS_CardinalityType
<1>4. Cardinality(R) <= 1
  BY <1>1, <1>3
<1>5. PICK q \in R : TRUE
  BY <1>1
<1>6. R = {q} /\ Cardinality(R) = 1
  <2>1. Cardinality(R \ {q}) = Cardinality(R) - 1 /\ IsFiniteSet(R \ {q})
    BY <1>3, FS_RemoveElement
  <2>2. Cardinality(R \ {q}) \in Nat
    BY <2>1, FS_CardinalityType
  <2>3. Cardinality(R \ {q}) = 0 /\ Cardinality(R) = 1
    BY <1>3, <1>4, <2>1, <2>2
  <2>4. R \ {q} = {}
    BY <2>1, <2>3, FS_EmptySet
  <2> QED
    BY <2>3, <2>4
<1>7. n = Cardinality(V) - 1
  BY <1>1, <1>3, <1>6
<1>8. \A v \in V : s[v] = V
  <2>1. \A v \in V : s[v] = s[q]
    BY <1>1, <1>6 DEF Equivalence
  <2>2. V \subseteq s[q] /\ s[q] \subseteq V
    BY <2>1 DEF Equivalence
  <2> QED
    BY <2>1, <2>2
<1>9. Connects(A, V)
  <2> SUFFICES ASSUME NEW S \in SUBSET V, S # {}, \A a \in A : ~Crosses(a, S) PROVE S = V
    BY DEF Connects
  <2>1. PICK v \in S : s[v] \subseteq S
    BY DEF Counted
  <2> QED
    BY <1>8, <2>1
<1>10. A \in SUBSET Inside(V)
  BY DEF Counted
<1> QED
  BY <1>2, <1>7, <1>9, <1>10, TreesConnect

\* ... and otherwise there is no tree of arcs that stay within the sets.
LEMMA TreesNeedOneSet ==
  ASSUME NEW V \in SUBSET Nodes, V # {}, NEW A, NEW s, NEW n, Counted(V, A, s, n),
         Equivalence(V, s), n < Cardinality(V) - 1, NEW T \in Trees(V),
         \A a \in T : s[From[a]] = s[To[a]]
  PROVE  FALSE
<1>1. T \in SUBSET Inside(V) /\ Connects(T, V)
  BY TreesConnect
<1>2. \A v \in V : s[v] = V
  <2> SUFFICES ASSUME NEW v \in V, s[v] # V PROVE FALSE
    OBVIOUS
  <2>1. s[v] \in SUBSET V /\ s[v] # {}
    BY DEF Equivalence
  <2>2. PICK a \in T : Crosses(a, s[v])
    BY <1>1, <2>1 DEF Connects
  <2>3. From[a] \in V /\ To[a] \in V /\ s[From[a]] = s[To[a]]
    BY <1>1 DEF Inside
  <2>4. From[a] \in s[v] <=> To[a] \in s[v]
    BY <2>3 DEF Equivalence
  <2> QED
    BY <2>2, <2>4 DEF Crosses
<1>3. Connects(A, V)
  <2> SUFFICES ASSUME NEW S \in SUBSET V, S # {}, \A a \in A : ~Crosses(a, S) PROVE S = V
    BY DEF Connects
  <2>1. PICK v \in S : s[v] \subseteq S
    BY DEF Counted
  <2> QED
    BY <1>2, <2>1
<1>4. A \in SUBSET Inside(V) /\ n = Cardinality(A)
  BY DEF Counted
<1>5. Cardinality(A) >= Cardinality(V) - 1
  BY <1>3, <1>4, EnoughArcs
<1>6. Cardinality(A) \in Nat /\ Cardinality(V) \in Nat
  <2>1. A \in SUBSET Arcs
    BY <1>4 DEF Inside
  <2> QED
    BY <2>1, ArcSetsAreFinite, NodesAreFinite, FS_Subset, FS_CardinalityType
<1> QED
  BY <1>4, <1>5, <1>6

\* The arcs that have been merged are counted, and summed up.
Taken(A) == Counted(Verts, A, set, rank) /\ sum = Total(len, A)

\* The sets of the partition, without that of the root of a cycle.
LEMMA ClassesAreEquivalence ==
  ASSUME Classes, ~cycle
  PROVE  Equivalence(Verts, set) /\ Verts = Nodes /\ Verts # {} /\ Verts \in SUBSET Nodes
<1>1. Verts = Nodes /\ r \in Nodes
  BY RootType DEF Verts
<1>2. Equivalence(Nodes, set)
  BY DEF Classes, Equivalence
<1> QED
  BY <1>1, <1>2

\* At first no arc has been merged.
LEMMA CountStarts ==
  ASSUME CallInv, ~cycle, KruskalStart
  PROVE  Taken(sub \ todo)'
<1>1. /\ len' = len /\ Verts' = Nodes /\ (sub \ todo)' = {} /\ sum' = 0 /\ rank' = 0
      /\ set' = [v \in Nodes |-> {v}]
  <2>1. UNCHANGED <<len, mandatory, cycle>>
    BY DEF KruskalStart, instance
  <2> QED
    BY <2>1 DEF KruskalStart, Verts
<1>2. Counted(Nodes, {}, set', 0)
  <2>1. Cardinality({}) = 0 /\ Cardinality(Nodes) \in Nat
    BY FS_EmptySet, NodesAreFinite, FS_CardinalityType
  <2>2. Cardinality(Nodes) + 0 = Cardinality(Nodes)
    BY <2>1
  <2>3. \A v \in Nodes : set'[v] \cap Nodes # {}
    BY <1>1
  <2>4. \A S \in SUBSET Nodes : \A v \in S : set'[v] \subseteq S
    BY <1>1
  <2> QED
    BY <2>1, <2>2, <2>3, <2>4 DEF Counted
<1>3. sum' = Total(len', {})
  BY <1>1, TotalOfNothing
<1> QED
  BY <1>1, <1>2, <1>3 DEF Taken

\* What one more merged arc adds.
LEMMA TakenWith ==
  ASSUME CallInv, ~cycle, Classes, NEW A, Taken(A), NEW a \in Arcs \ A,
         set[From[a]] # set[To[a]], Merge(From[a], To[a]),
         sum' = sum + len[a], rank' = rank + 1, UNCHANGED instance
  PROVE  Taken(A \cup {a})'
<1>1. UNCHANGED <<len, cycle>> /\ Verts' = Verts
  BY DEF instance, Verts
<1>2. Equivalence(Verts, set) /\ Verts = Nodes /\ Verts \in SUBSET Nodes
  BY ClassesAreEquivalence
<1>3. a \in Inside(Verts) \ A
  BY <1>2, ArcEnds DEF Inside
<1>4. set' = Joint(set, From[a], To[a])
  BY DEF Merge, Joint
<1>5. Counted(Verts, A, set, rank) /\ sum = Total(len, A)
  BY DEF Taken
<1>6. Counted(Verts, A \cup {a}, Joint(set, From[a], To[a]), rank + 1)
  <2> PICK V, s, n : V = Verts /\ s = set /\ n = rank
    OBVIOUS
  <2>1. V \in SUBSET Nodes /\ Counted(V, A, s, n) /\ Equivalence(V, s) /\ a \in Inside(V) \ A
        /\ s[From[a]] # s[To[a]]
    BY <1>2, <1>3, <1>5
  <2>2. Counted(V, A \cup {a}, Joint(s, From[a], To[a]), n + 1)
    BY <2>1, MergeCounts
  <2> QED
    BY <2>2
<1>7. Total(len, A \cup {a}) = len[a] + Total(len, A) /\ Total(len, A) \in Int /\ len[a] \in Int
  <2>1. A \in SUBSET Arcs
    BY <1>5 DEF Counted, Inside
  <2>2. IsFiniteSet(A) /\ \A b \in A : len[b] \in Int
    BY <2>1, ArcSetsAreFinite DEF CallInv
  <2>3. len[a] \in Int
    BY DEF CallInv
  <2> QED
    BY <2>2, <2>3, TotalWith, TotalIsInteger
<1>8. sum' = Total(len', A \cup {a})
  BY <1>1, <1>5, <1>7
<1> QED
  BY <1>1, <1>4, <1>6, <1>8 DEF Taken

\* The mandatory arcs are taken one by one ...
LEMMA CountGoesOn ==
  ASSUME CallInv, ~cycle, MandatoryInv, Taken(sub \ todo), MergeMandatory
  PROVE  Taken(sub \ todo)'
<1>1. PICK a \in todo : /\ set[From[a]] # set[To[a]] /\ Merge(From[a], To[a])
                        /\ sum' = sum + len[a] /\ rank' = rank + 1 /\ todo' = todo \ {a}
  BY DEF MergeMandatory
<1>2. UNCHANGED instance /\ sub' = sub
  BY DEF MergeMandatory
<1>3. a \in Arcs \ (sub \ todo) /\ Classes /\ a \in sub
  BY DEF MandatoryInv, CallInv
<1> PICK A : A = sub \ todo
  OBVIOUS
<1>4. Taken(A)  /\ a \in Arcs \ A
  BY <1>3
<1>5. Taken(A \cup {a})'
  BY <1>1, <1>2, <1>3, <1>4, TakenWith
<1>6. (sub \ todo)' = A \cup {a}
  BY <1>1, <1>2, <1>3
<1> QED
  BY <1>5, <1>6 DEF Taken

\* ... and then the cheapest ones.
LEMMA CountContractions ==
  ASSUME CallInv, ~cycle, ContractInv, Taken(sub), KruskalStep
  PROVE  Taken(sub)'
<1>1. PICK a \in queue : IF Contractible(a)
                         THEN /\ Contract(a) /\ sub' = sub \cup {a}
                              /\ sum' = sum + len[a] /\ rank' = rank + 1
                         ELSE UNCHANGED <<set, sub, sum, rank>>
  BY DEF KruskalStep, Cheapest
<1>2. UNCHANGED instance
  BY DEF KruskalStep
<1>3. CASE Contractible(a)
  <2>1. set[From[a]] # set[To[a]] /\ Merge(From[a], To[a])
    BY <1>1, <1>3 DEF Contractible, Contract
  <2>2. a \in Arcs /\ a \notin sub /\ Classes
    BY <2>1 DEF ContractInv, CallInv, Merged
  <2> PICK A : A = sub
    OBVIOUS
  <2>3. Taken(A) /\ a \in Arcs \ A
    BY <2>2
  <2>4. Taken(A \cup {a})'
    BY <1>1, <1>2, <1>3, <2>1, <2>2, <2>3, TakenWith
  <2>5. sub' = A \cup {a}
    BY <1>1, <1>3
  <2> QED
    BY <2>4, <2>5 DEF Taken
<1>4. CASE ~Contractible(a)
  BY <1>1, <1>2, <1>4 DEF Taken, Verts, instance
<1> QED
  BY <1>3, <1>4

\* A cycle of mandatory arcs excludes all trees.
LEMMA SubtourIsFatal ==
  ASSUME CallInv, method = "KRUSKAL", ~cycle, MandatoryInv, Taken(sub \ todo), FixedSubtour
  PROVE  Solutions = {} /\ sum' = Failure
<1>1. PICK a \in todo : set[From[a]] = set[To[a]]
  BY DEF FixedSubtour
<1>2. sum' = Failure
  BY DEF FixedSubtour
<1> SUFFICES ASSUME NEW B \in Solutions PROVE FALSE
  BY <1>2
<1> PICK A : A = sub \ todo
  OBVIOUS
<1>3. Equivalence(Verts, set) /\ Verts = Nodes /\ Verts \in SUBSET Nodes
  BY ClassesAreEquivalence DEF MandatoryInv
<1>4. Tree(B) \in Trees(Verts) /\ mandatory \subseteq B /\ Tree(B) = B
  BY SolutionParts DEF Tree
<1>5. a \notin A /\ A \cup {a} \subseteq Tree(B) /\ a \in Arcs
  BY <1>4 DEF MandatoryInv, CallInv
<1>6. From[a] \in Verts /\ To[a] \in Verts
  BY <1>3, <1>5, ArcEnds
<1> PICK V, s, n, T : V = Verts /\ s = set /\ n = rank /\ T = Tree(B)
  OBVIOUS
<1>7. V \in SUBSET Nodes /\ Counted(V, A, s, n) /\ Equivalence(V, s) /\ T \in Trees(V)
      /\ From[a] \in V /\ To[a] \in V /\ s[From[a]] = s[To[a]] /\ A \cup {a} \subseteq T
  BY <1>1, <1>3, <1>4, <1>5, <1>6 DEF Taken
<1> QED
  BY <1>5, <1>7, ChordsAreFatal

\* At the end of the loop the subgraph is an optimum, or there is no tree.
LEMMA KruskalFinds ==
  ASSUME CallInv, method = "KRUSKAL", ~cycle, ContractInv, Taken(sub), GreedyEnds
  PROVE  IF rank < N - 1 THEN Solutions = {} ELSE sub \in Optima /\ sum = Total(len, sub)
<1>1. Equivalence(Verts, set) /\ Verts = Nodes /\ Verts \in SUBSET Nodes /\ Verts # {}
  BY ClassesAreEquivalence DEF ContractInv
<1>2. Cardinality(Verts) = N /\ N \in Nat /\ rank \in Nat
  <2>1. sub \in SUBSET Arcs /\ rank = Cardinality(sub)
    BY DEF Taken, Counted, Inside
  <2> QED
    BY <1>1, <2>1, NodeCount, ArcSetsAreFinite
<1>3. Tree(sub) = sub
  BY DEF Tree
<1> PICK V, A, s, n : V = Verts /\ A = sub /\ s = set /\ n = rank
  OBVIOUS
<1>4. V \in SUBSET Nodes /\ V # {} /\ Counted(V, A, s, n) /\ Equivalence(V, s)
  BY <1>1 DEF Taken
<1>5. CASE rank < N - 1
  <2> SUFFICES ASSUME NEW B \in Solutions PROVE FALSE
    BY <1>5
  <2>1. queue = {}
    BY <1>2, <1>5 DEF GreedyEnds
  <2>2. \A a \in usable : set[From[a]] = set[To[a]]
    BY <2>1 DEF ContractInv, Merged
  <2>3. Tree(B) \in Trees(Verts) /\ B \subseteq usable /\ Tree(B) = B
    BY SolutionParts DEF Tree
  <2>4. B \in Trees(V) /\ \A a \in B : s[From[a]] = s[To[a]]
    BY <2>2, <2>3
  <2>5. n < Cardinality(V) - 1
    BY <1>2, <1>5
  <2> QED
    BY <1>4, <2>4, <2>5, TreesNeedOneSet
<1>6. CASE ~(rank < N - 1)
  <2>1. n >= Cardinality(V) - 1
    BY <1>2, <1>6
  <2>2. sub \in Trees(Verts)
    BY <1>4, <2>1, OneSetIsTree
  <2>3. sub \in Solutions
    BY <1>3, <2>2, PartsAreSolution DEF ContractInv
  <2>4. PICK B \in Optima : sub \subseteq B
    BY <1>3, <2>3 DEF ContractInv, Extends
  <2>5. B \in Solutions
    BY OptimaAreLeast DEF CallInv
  <2>6. Tree(B) \in Trees(Verts) /\ Tree(B) = B
    BY <2>5, SolutionParts DEF Tree
  <2>7. Cardinality(B) = Cardinality(sub) /\ B \in SUBSET Arcs
    BY <1>1, <2>2, <2>6, TreesConnect DEF Inside
  <2>8. B = sub
    BY <2>4, <2>7, SameSize
  <2> QED
    BY <1>6, <2>4, <2>8 DEF Taken
<1> QED
  BY <1>5, <1>6

\* The nodes that have been found.
Found == {r} \cup {v \in Nodes : pred[v] # NoArc}

\* The labels of the nodes in L are arcs of the subgraph that lead back to the root.
LabelsLead(L) ==
  /\ pred \in [Nodes -> Darts \cup {NoArc}] /\ pred[r] = NoArc
  /\ \A v \in L \ {r} : pred[v] \in Darts /\ pred[v][1] \in sub /\ EndNode(pred[v]) = v
                        /\ StartNode(pred[v]) \in L
  /\ \E t \in [Nodes -> Nat] : \A v \in L \ {r} : t[StartNode(pred[v])] < t[v]

\* The nodes on the way back from the current one are those with arcs to read.
OnWay(L, K) ==
  /\ K \subseteq L /\ first \in K /\ r \in K
  /\ \A v \in K \ {r} : StartNode(pred[v]) \in K \ {first}
  /\ \A v, w \in K \ {r} : StartNode(pred[v]) = StartNode(pred[w]) => v = w
  /\ \A d \in todo : StartNode(d) \in L => StartNode(d) \in K

\* The search of ExtractTree().
SearchInv ==
  /\ LabelsLead(Found)
  /\ \A v \in Found \ {r} : pred[v] \notin todo
  /\ todo \subseteq Darts /\ \A d \in todo : d[1] \in sub
  /\ \A d \in Darts : d[1] \in sub /\ d \notin todo => StartNode(d) \in Found /\ EndNode(d) \in Found
  /\ \E K : OnWay(Found, K)

\* The subgraph is an optimum already.
FoundSub == sub \in Optima /\ sum = Total(len, sub)

\* An optimum is a tree.
LEMMA SubIsTree ==
  ASSUME CallInv, method # "EDMONDS", ~cycle, FoundSub
  PROVE  sub \in Trees(Nodes) /\ sub \in Solutions /\ mandatory \subseteq sub
<1>1. sub \in Solutions
  BY OptimaAreLeast DEF FoundSub, CallInv
<1>2. Tree(sub) \in Trees(Verts) /\ mandatory \subseteq sub
  BY <1>1, SolutionParts
<1> QED
  BY <1>1, <1>2 DEF Tree, Verts

\* The search begins at the root.
LEMMA SearchBegins ==
  ASSUME ~directed, ExtractStart
  PROVE  SearchInv'
<1>1. /\ UNCHANGED <<sub, directed>> /\ pred' = [v \in Nodes |-> NoArc] /\ first' = r
      /\ todo' = {d \in Darts : d[1] \in sub}
  BY DEF ExtractStart, Blocking, instance
<1>2. Found' = {r} /\ r \in Nodes
  BY <1>1, RootType DEF Found
<1>3. LabelsLead({r})'
  <2>1. [v \in Nodes |-> 0] \in [Nodes -> Nat]
    OBVIOUS
  <2> QED
    BY <1>1, <1>2, <2>1 DEF LabelsLead
<1>4. OnWay({r}, {r})'
  BY <1>1 DEF OnWay
<1>5. LabelsLead(Found)' /\ OnWay(Found, {r})'
  BY <1>2, <1>3, <1>4 DEF LabelsLead, OnWay
<1> QED
  BY <1>1, <1>2, <1>5 DEF SearchInv

\* An arc that is read leads to a new node, or is the one that has led to the current node: in
\* a tree there is no other way.
LEMMA NewNode ==
  ASSUME sub \in Trees(Nodes), SearchInv, NEW d \in Unread, Follows(d)
  PROVE  EndNode(d) \notin Found
<1> SUFFICES ASSUME EndNode(d) \in Found PROVE FALSE
  OBVIOUS
<1>1. /\ d \in Darts /\ d \in todo /\ d[1] \in sub /\ StartNode(d) = first
      /\ first \in Found /\ Found \subseteq Nodes /\ r \in Found
      /\ pred[first] # NoArc => d # Opposite(pred[first])
  BY RootType DEF SearchInv, OnWay, Unread, Found, Follows
<1> DEFINE B == {pred[v][1] : v \in Found \ {r}}
<1>2. B \in Trees(Found) /\ B \subseteq sub
  <2>1. PICK t \in [Nodes -> Nat] : \A v \in Found \ {r} : t[StartNode(pred[v])] < t[v]
    BY DEF SearchInv, LabelsLead
  <2>2. \A v \in Found \ {r} : pred[v] \in Darts /\ pred[v][1] \in sub /\ EndNode(pred[v]) = v
                               /\ StartNode(pred[v]) \in Found
    BY DEF SearchInv, LabelsLead
  <2> PICK p, V, x : p = pred /\ V = Found /\ x = r
    OBVIOUS
  <2>3. V \in SUBSET Nodes /\ x \in V
        /\ \A v \in V \ {x} : p[v] \in Darts /\ EndNode(p[v]) = v /\ StartNode(p[v]) \in V
    BY <1>1, <2>2
  <2>4. \A v \in V \ {x} : t[StartNode(p[v])] < t[v]
    BY <2>1
  <2>5. {p[v][1] : v \in V \ {x}} \in Trees(V)
    BY <2>3, <2>4, LabelledTree
  <2> QED
    BY <2>2, <2>5
<1>3. d[1] \notin B
  <2> SUFFICES ASSUME NEW v \in Found \ {r}, d[1] = pred[v][1] PROVE FALSE
    OBVIOUS
  <2>1. pred[v] \in Darts /\ EndNode(pred[v]) = v /\ pred[v] \notin todo /\ pred[v] # NoArc
    BY DartsAreArcs DEF SearchInv, LabelsLead
  <2>2. d = pred[v] \/ d = Opposite(pred[v])
    <3>1. /\ d = <<d[1], d[2]>> /\ d[2] \in {0, 1}
          /\ pred[v] = <<pred[v][1], pred[v][2]>> /\ pred[v][2] \in {0, 1}
      BY <1>1, <2>1, DartsAreArcs
    <3> PICK a, i, j : a = d[1] /\ i = d[2] /\ j = pred[v][2]
      OBVIOUS
    <3>2. d = <<a, i>> /\ pred[v] = <<a, j>> /\ Opposite(pred[v]) = <<a, 1 - j>>
          /\ i \in {0, 1} /\ j \in {0, 1}
      BY <3>1 DEF Opposite
    <3>3. i = j \/ i = 1 - j
      BY <3>2
    <3> QED
      BY <3>2, <3>3
  <2>3. d # pred[v]
    BY <1>1, <2>1
  <2>4. StartNode(d) = v
    BY <2>1, <2>2, <2>3, DartEnds
  <2> QED
    BY <1>1, <2>1, <2>2, <2>3, <2>4
<1>4. ASSUME NEW S \in SUBSET Nodes, \A b \in B : ~Crosses(b, S) PROVE ~Crosses(d[1], S)
  <2>1. B \in SUBSET Inside(Found) /\ Connects(B, Found)
    BY <1>1, <1>2, TreesConnect
  <2>2. \A b \in B : ~Crosses(b, S \cap Found)
    BY <1>4, <2>1 DEF Crosses, Inside
  <2>3. S \cap Found = {} \/ S \cap Found = Found
    BY <2>1, <2>2 DEF Connects
  <2>4. StartNode(d) \in Found /\ EndNode(d) \in Found
    BY <1>1
  <2>5. {From[d[1]], To[d[1]]} \subseteq Found
    BY <1>1, <2>4, DartEnds
  <2> QED
    BY <2>3, <2>5 DEF Crosses
<1> HIDE DEF B
<1>5. Nodes \in SUBSET Nodes /\ B \in SUBSET sub /\ d[1] \in sub \ B
  BY <1>1, <1>2, <1>3
<1> QED
  BY <1>4, <1>5, NoChord

\* The search goes on to the new node, or skips the arc that has led to the current one.
LEMMA SearchReads ==
  ASSUME sub \in Trees(Nodes), SearchInv, ExtractRead
  PROVE  SearchInv' /\ pc' = pc
<1>1. PICK d \in Unread :
        /\ todo' = todo \ {d} /\ sub' = sub
        /\ IF ~Follows(d) THEN UNCHANGED <<pred, first, pc>>
           ELSE IF pred[EndNode(d)] = NoArc
                THEN /\ pred' = [pred EXCEPT ![EndNode(d)] = d]
                     /\ first' = IF EndNode(d) # r THEN EndNode(d) ELSE first
                     /\ pc' = pc
                ELSE pc' = "done" /\ UNCHANGED <<pred, first>>
  BY DEF ExtractRead
<1> PICK K : OnWay(Found, K)
  BY DEF SearchInv
<1>2. /\ d \in Darts /\ d \in todo /\ d[1] \in sub /\ StartNode(d) = first
      /\ first \in Found /\ first \in K /\ Found \subseteq Nodes /\ r \in Found
      /\ EndNode(d) \in Nodes
  BY RootType, DartEnds DEF SearchInv, OnWay, Unread, Found
<1>3. CASE ~Follows(d)
  <2>1. UNCHANGED <<pred, first, sub>> /\ pc' = pc /\ todo' = todo \ {d} /\ Found' = Found
    BY <1>1, <1>3 DEF Found
  <2>2. LabelsLead(Found)'
    BY <2>1 DEF SearchInv, LabelsLead
  <2>3. EndNode(d) \in Found
    <3>1. pred[first] # NoArc /\ d = Opposite(pred[first])
      BY <1>3 DEF Follows
    <3>2. first \in Found \ {r}
      BY <1>2, <3>1 DEF SearchInv, LabelsLead
    <3>3. pred[first] \in Darts /\ StartNode(pred[first]) \in Found
      BY <3>2 DEF SearchInv, LabelsLead
    <3> QED
      BY <3>1, <3>3, DartEnds
  <2>4. OnWay(Found, K)'
    BY <2>1 DEF OnWay
  <2>5. \A v \in Found' \ {r} : pred'[v] \notin todo'
    BY <2>1 DEF SearchInv
  <2>6. todo' \subseteq Darts /\ \A e \in todo' : e[1] \in sub'
    BY <2>1 DEF SearchInv
  <2>7. \A e \in Darts : e[1] \in sub' /\ e \notin todo' => StartNode(e) \in Found' /\ EndNode(e) \in Found'
    BY <1>2, <2>1, <2>3 DEF SearchInv
  <2> QED
    BY <2>1, <2>2, <2>4, <2>5, <2>6, <2>7 DEF SearchInv
<1>4. CASE Follows(d)
  <2> PICK u : u = EndNode(d)
    OBVIOUS
  <2>1. u \notin Found /\ u \in Nodes /\ u # r /\ pred[u] = NoArc /\ u # first
    BY <1>2, <1>4, NewNode DEF Found
  <2>2. pred \in [Nodes -> Darts \cup {NoArc}] /\ pred[r] = NoArc
    BY DEF SearchInv, LabelsLead
  <2>3. /\ pred' = [pred EXCEPT ![u] = d] /\ first' = u /\ pc' = pc /\ todo' = todo \ {d}
        /\ sub' = sub
    BY <1>1, <1>4, <2>1
  <2>4. /\ pred' \in [Nodes -> Darts \cup {NoArc}] /\ pred'[u] = d /\ pred'[r] = NoArc
        /\ \A v \in Nodes : v # u => pred'[v] = pred[v]
    BY <1>2, <2>1, <2>2, <2>3, RootType
  <2>5. Found' = Found \cup {u}
    <3>1. d # NoArc
      BY <1>2, DartsAreArcs
    <3> QED
      BY <2>1, <2>4, <3>1 DEF Found
  <2>6. \A v \in Found : v \in Nodes /\ v # u /\ pred'[v] = pred[v]
    BY <1>2, <2>1, <2>4
  <2>7. ASSUME NEW v \in Found' \ {r}
        PROVE  /\ pred'[v] \in Darts /\ pred'[v][1] \in sub' /\ EndNode(pred'[v]) = v
               /\ StartNode(pred'[v]) \in Found' /\ pred'[v] \notin todo'
    <3>1. CASE v = u
      BY <1>2, <2>3, <2>4, <2>5, <3>1
    <3>2. CASE v # u
      <4>1. v \in Found \ {r} /\ pred'[v] = pred[v]
        BY <2>5, <2>6, <3>2
      <4>2. /\ pred[v] \in Darts /\ pred[v][1] \in sub /\ EndNode(pred[v]) = v
            /\ StartNode(pred[v]) \in Found /\ pred[v] \notin todo
        BY <4>1 DEF SearchInv, LabelsLead
      <4> QED
        BY <2>3, <2>5, <4>1, <4>2
    <3> QED
      BY <3>1, <3>2
  <2>8. \E t \in [Nodes -> Nat] : \A v \in Found' \ {r} : t[StartNode(pred'[v])] < t[v]
    <3>1. PICK t \in [Nodes -> Nat] : \A v \in Found \ {r} : t[StartNode(pred[v])] < t[v]
      BY DEF SearchInv, LabelsLead
    <3> PICK s : s = [t EXCEPT ![u] = t[first] + 1]
      OBVIOUS
    <3>2. first \in Nodes /\ t[first] \in Nat
      BY <1>2
    <3>3. s \in [Nodes -> Nat] /\ s[u] = t[first] + 1 /\ \A v \in Nodes : v # u => s[v] = t[v]
      BY <2>1, <3>2
    <3>4. ASSUME NEW v \in Found' \ {r} PROVE s[StartNode(pred'[v])] < s[v]
      <4>1. CASE v = u
        <5>1. StartNode(pred'[v]) = first /\ s[first] = t[first]
          BY <1>2, <2>1, <2>4, <3>2, <3>3, <4>1
        <5> QED
          BY <3>2, <3>3, <4>1, <5>1
      <4>2. CASE v # u
        <5>1. v \in Found \ {r} /\ pred'[v] = pred[v] /\ v \in Nodes
          BY <2>5, <2>6, <4>2
        <5>2. StartNode(pred[v]) \in Found
          BY <5>1 DEF SearchInv, LabelsLead
        <5>3. StartNode(pred[v]) \in Nodes /\ StartNode(pred[v]) # u
          BY <2>6, <5>2
        <5> QED
          BY <3>1, <3>3, <4>2, <5>1, <5>3
      <4> QED
        BY <4>1, <4>2
    <3> QED
      BY <3>3, <3>4
  <2>9. LabelsLead(Found)'
    BY <2>4, <2>7, <2>8 DEF LabelsLead
  <2>10. todo' \subseteq Darts /\ \A e \in todo' : e[1] \in sub'
    BY <2>3 DEF SearchInv
  <2>11. \A e \in Darts : e[1] \in sub' /\ e \notin todo' => StartNode(e) \in Found' /\ EndNode(e) \in Found'
    BY <1>2, <2>3, <2>5 DEF SearchInv
  <2>12. OnWay(Found, K \cup {u})'
    <3>1. K \subseteq Found /\ r \in K
      BY DEF OnWay
    <3>2. ASSUME NEW v \in (K \cup {u}) \ {r}
          PROVE  /\ StartNode(pred'[v]) \in (K \cup {u}) \ {u}
                 /\ v # u => StartNode(pred'[v]) = StartNode(pred[v]) /\ StartNode(pred'[v]) # first
                 /\ v = u => StartNode(pred'[v]) = first
      <4>1. CASE v = u
        BY <1>2, <2>1, <2>4, <4>1
      <4>2. CASE v # u
        <5>1. v \in K \ {r} /\ pred'[v] = pred[v]
          BY <2>6, <3>1, <4>2
        <5>2. StartNode(pred[v]) \in K \ {first}
          BY <5>1 DEF OnWay
        <5> QED
          BY <2>1, <3>1, <4>2, <5>1, <5>2
      <4> QED
        BY <4>1, <4>2
    <3>3. \A v, w \in (K \cup {u}) \ {r} : StartNode(pred'[v]) = StartNode(pred'[w]) => v = w
      BY <3>2 DEF OnWay
    <3>4. \A e \in todo' : StartNode(e) \in Found' => StartNode(e) \in K \cup {u}
      BY <2>3, <2>5 DEF OnWay
    <3> QED
      BY <2>3, <2>5, <3>1, <3>2, <3>3, <3>4 DEF OnWay
  <2> QED
    BY <2>3, <2>7, <2>9, <2>10, <2>11, <2>12 DEF SearchInv
<1> QED
  BY <1>3, <1>4

\* The search goes back when all the arcs of a node have been read.
LEMMA SearchGoesBack ==
  ASSUME SearchInv, ExtractBack
  PROVE  SearchInv'
<1>1. /\ UNCHANGED <<pred, sub, todo>> /\ Unread = {} /\ first # r /\ first' = StartNode(pred[first])
      /\ Found' = Found
  BY DEF ExtractBack, outcome, Found
<1>2. PICK K : OnWay(Found, K)
  BY DEF SearchInv
<1>3. LabelsLead(Found)'
  BY <1>1 DEF SearchInv, LabelsLead
<1> PICK M : M = K \ {first}
  OBVIOUS
<1>4. OnWay(Found, M)'
  <2>1. first' \in M /\ r \in M /\ M \subseteq Found
    BY <1>1, <1>2 DEF OnWay
  <2>2. \A v \in M \ {r} : StartNode(pred[v]) \in M \ {first'}
    BY <1>1, <1>2 DEF OnWay
  <2>3. \A d \in todo : StartNode(d) \in Found => StartNode(d) \in M
    BY <1>1, <1>2 DEF OnWay, Unread
  <2> QED
    BY <1>1, <1>2, <2>1, <2>2, <2>3 DEF OnWay
<1> QED
  BY <1>1, <1>3, <1>4 DEF SearchInv

\* When it ends at the root all nodes have been found, and every arc is a label.
LEMMA SearchFinds ==
  ASSUME sub \in Trees(Nodes), SearchInv, Unread = {}, first = r, ~cycle
  PROVE  Rooted /\ sub = Labels
<1>1. PICK K : OnWay(Found, K)
  BY DEF SearchInv
<1>2. PICK t \in [Nodes -> Nat] : \A v \in Found \ {r} : t[StartNode(pred[v])] < t[v]
  BY DEF SearchInv, LabelsLead
<1>3. Found \subseteq Nodes /\ r \in Found /\ r \in Nodes
  BY RootType DEF Found
<1>4. K = {r}
  <2> SUFFICES ASSUME K \ {r} # {} PROVE FALSE
    BY <1>1 DEF OnWay
  <2>1. K \ {r} \subseteq Nodes /\ K \ {r} \subseteq Found \ {r}
    BY <1>1, <1>3 DEF OnWay
  <2> PICK S : S = K \ {r}
    OBVIOUS
  <2> PICK f : f = [v \in S |-> t[v]]
    OBVIOUS
  <2>2. f \in [S -> Int] /\ IsFiniteSet(S) /\ \A v \in S : f[v] = t[v]
    BY <2>1, NodesAreFinite, FS_Subset
  <2>3. PICK v \in S : \A w \in S : f[v] <= f[w]
    BY <2>2, LeastValue
  <2>4. StartNode(pred[v]) \in S
    BY <1>1 DEF OnWay
  <2>5. t[StartNode(pred[v])] < t[v] /\ t[v] \in Nat /\ t[StartNode(pred[v])] \in Nat
    BY <1>2, <2>1, <2>4
  <2>6. t[v] <= t[StartNode(pred[v])]
    BY <2>2, <2>3, <2>4
  <2> QED
    BY <2>5, <2>6
<1>5. \A d \in Darts : d[1] \in sub /\ StartNode(d) \in Found => EndNode(d) \in Found
  <2>1. \A d \in todo : StartNode(d) \notin Found
    BY <1>1, <1>4 DEF OnWay, Unread
  <2> QED
    BY <2>1 DEF SearchInv
<1>6. sub \in SUBSET Inside(Nodes) /\ Cardinality(sub) = Cardinality(Nodes) - 1 /\ Connects(sub, Nodes)
  BY TreesConnect
<1>7. Found = Nodes
  <2> SUFFICES ASSUME Found # Nodes PROVE FALSE
    OBVIOUS
  <2>1. PICK a \in sub : Crosses(a, Found)
    BY <1>3, <1>6 DEF Connects
  <2>2. a \in Arcs
    BY <1>6 DEF Inside
  <2>3. /\ <<a, 0>> \in Darts /\ <<a, 1>> \in Darts
        /\ StartNode(<<a, 0>>) = From[a] /\ EndNode(<<a, 0>>) = To[a]
        /\ StartNode(<<a, 1>>) = To[a] /\ EndNode(<<a, 1>>) = From[a]
    BY <2>2 DEF Darts, StartNode, EndNode, Opposite
  <2>4. From[a] \in Found <=> To[a] \in Found
    BY <1>5, <2>1, <2>3
  <2> QED
    BY <2>1, <2>4 DEF Crosses
<1>8. \A v \in Nodes \ {r} : pred[v] \in Darts /\ pred[v][1] \in sub /\ EndNode(pred[v]) = v
  BY <1>7 DEF SearchInv, LabelsLead
<1>9. Rooted
  BY <1>2, <1>7, <1>8 DEF Rooted, SearchInv, LabelsLead
<1> DEFINE B == {pred[v][1] : v \in Nodes \ {r}}
<1>10. B \in Trees(Nodes) /\ B \subseteq sub
  <2>1. \A v \in Nodes \ {r} : pred[v] \in Darts /\ EndNode(pred[v]) = v /\ StartNode(pred[v]) \in Nodes
    BY <1>8, DartEnds
  <2> PICK p, V, x : p = pred /\ V = Nodes /\ x = r
    OBVIOUS
  <2>2. V \in SUBSET Nodes /\ x \in V
        /\ \A v \in V \ {x} : p[v] \in Darts /\ EndNode(p[v]) = v /\ StartNode(p[v]) \in V
    BY <1>3, <2>1
  <2>3. \A v \in V \ {x} : t[StartNode(p[v])] < t[v]
    BY <1>2, <1>7
  <2>4. {p[v][1] : v \in V \ {x}} \in Trees(V)
    BY <2>2, <2>3, LabelledTree
  <2> QED
    BY <1>8, <2>4
<1>11. B = Labels
  <2>1. \A v \in Nodes : pred[v] # NoArc <=> v # r
    BY <1>8, DartsAreArcs DEF SearchInv, LabelsLead
  <2>2. {w \in Nodes : pred[w] # NoArc} = Nodes \ {r}
    BY <2>1
  <2> QED
    BY <2>2 DEF Labels
<1> HIDE DEF B
<1>12. Nodes \in SUBSET Nodes /\ Cardinality(B) = Cardinality(Nodes) - 1
  BY <1>10, TreesConnect
<1>13. sub \in SUBSET Arcs
  BY <1>6 DEF Inside
<1>14. sub = B
  BY <1>6, <1>10, <1>12, <1>13, SameSize
<1> QED
  BY <1>9, <1>11, <1>14

\* The method of Kruskal from the start to the end, for a spanning tree of an undirected graph.
KruskalFound ==
  method = "KRUSKAL" /\ ~cycle /\ ~directed =>
    /\ pc \notin {"pick", "fix"}
    /\ pc = "mandatory" => Taken(sub \ todo)
    /\ pc = "greedy" => Taken(sub)
    /\ pc = "extract" => FoundSub
    /\ pc = "search" => FoundSub /\ SearchInv
    /\ pc = "done" => Delivered

\* A subgraph that is an optimum stays so.
LEMMA FoundSubStays ==
  ASSUME UNCHANGED instance, UNCHANGED <<sub, sum>>
  PROVE  FoundSub' <=> FoundSub
<1>1. Optima' = Optima /\ len' = len
  BY CallStays DEF instance
<1> QED
  BY <1>1 DEF FoundSub

\* The calls that fail.
LEMMA FailureIsFound ==
  ASSUME UNCHANGED instance, Solutions = {}, sum' = Failure
  PROVE  Delivered'
<1>1. Solutions' = Solutions /\ Failure' = Failure
  BY CallStays DEF Failure, instance
<1> QED
  BY <1>1 DEF Delivered, TreeFound

\* The method of Kruskal keeps this invariant.
LEMMA KruskalFindsTree ==
  ASSUME GreedyInv, KruskalFound, KruskalCall, method = "KRUSKAL", ~cycle, ~directed
  PROVE  KruskalFound'
<1>0. CallInv /\ method # "EDMONDS"
  BY DEF GreedyInv
<1>1. CASE KruskalStart
  BY <1>0, <1>1, CountStarts DEF KruskalFound, KruskalStart
<1>2. CASE MergeMandatory
  <2>1. pc' = pc /\ pc = "mandatory" /\ MandatoryInv /\ Taken(sub \ todo)
    BY <1>2 DEF MergeMandatory, GreedyInv, KruskalInv, KruskalFound
  <2>2. Taken(sub \ todo)'
    BY <1>0, <1>2, <2>1, CountGoesOn
  <2> QED
    BY <2>1, <2>2 DEF KruskalFound
<1>3. CASE FixedSubtour
  <2>1. pc' = "done" /\ UNCHANGED instance /\ MandatoryInv /\ Taken(sub \ todo)
    BY <1>3 DEF FixedSubtour, GreedyInv, KruskalInv, KruskalFound
  <2>2. Solutions = {} /\ sum' = Failure
    BY <1>0, <1>3, <2>1, SubtourIsFatal
  <2>3. Delivered'
    BY <2>1, <2>2, FailureIsFound
  <2> QED
    BY <2>1, <2>3 DEF KruskalFound
<1>4. CASE MandatoryMerged
  <2>1. pc' = "greedy" /\ UNCHANGED <<instance, outcome, set>> /\ Taken(sub \ todo) /\ todo = {}
    BY <1>4 DEF MandatoryMerged, KruskalFound, greedy
  <2>2. sub \ todo = sub
    BY <2>1
  <2>3. Taken(sub)
    BY <2>1, <2>2 DEF Taken
  <2>4. Taken(sub)'
    BY <2>1, <2>3 DEF Taken, Verts, instance, outcome
  <2> QED
    BY <2>1, <2>4 DEF KruskalFound
<1>5. CASE KruskalStep
  <2>1. pc' = pc /\ pc = "greedy" /\ ContractInv /\ Taken(sub)
    BY <1>5 DEF KruskalStep, GreedyInv, KruskalInv, KruskalFound
  <2>2. Taken(sub)'
    BY <1>0, <1>5, <2>1, CountContractions
  <2> QED
    BY <2>1, <2>2 DEF KruskalFound
<1>6. CASE KruskalEnd
  <2>1. /\ GreedyEnds /\ UNCHANGED instance /\ UNCHANGED <<pred, sub>>
        /\ sum' = IF rank < N - 1 THEN Failure ELSE sum
        /\ pc' = IF rank < N - 1 THEN "done" ELSE "extract"
    BY <1>6 DEF KruskalEnd
  <2>2. ContractInv /\ Taken(sub)
    BY <2>1 DEF GreedyEnds, GreedyInv, KruskalInv, KruskalFound
  <2>3. IF rank < N - 1 THEN Solutions = {} ELSE sub \in Optima /\ sum = Total(len, sub)
    BY <1>0, <2>1, <2>2, KruskalFinds
  <2>4. CASE rank < N - 1
    <3>1. Delivered'
      BY <2>1, <2>3, <2>4, FailureIsFound
    <3> QED
      BY <2>1, <2>4, <3>1 DEF KruskalFound
  <2>5. CASE ~(rank < N - 1)
    <3>1. FoundSub'
      BY <2>1, <2>3, <2>5, FoundSubStays DEF FoundSub
    <3> QED
      BY <2>1, <2>5, <3>1 DEF KruskalFound
  <2> QED
    BY <2>4, <2>5
<1>7. ASSUME CutNode \/ KruskalPick PROVE FALSE
  BY <1>7 DEF CutNode, KruskalPick
<1>8. ASSUME KruskalPicked \/ FixArc \/ KruskalNoCycle \/ KruskalCycle PROVE FALSE
  BY <1>8 DEF KruskalPicked, FixArc, KruskalNoCycle, KruskalCycle, KruskalFound
<1>9. CASE ExtractStart
  <2>1. pc' = "search" /\ UNCHANGED instance /\ UNCHANGED <<sub, sum>> /\ FoundSub
    BY <1>9 DEF ExtractStart, KruskalFound
  <2>2. FoundSub' /\ SearchInv'
    BY <1>9, <2>1, SearchBegins, FoundSubStays
  <2> QED
    BY <2>1, <2>2 DEF KruskalFound
<1>10. CASE ExtractRead
  <2>1. pc = "search" /\ UNCHANGED instance /\ UNCHANGED <<sub, sum>> /\ FoundSub /\ SearchInv
    BY <1>10 DEF ExtractRead, KruskalFound
  <2>2. sub \in Trees(Nodes)
    BY <1>0, <2>1, SubIsTree
  <2>3. SearchInv' /\ pc' = pc /\ FoundSub'
    BY <1>10, <2>1, <2>2, SearchReads, FoundSubStays
  <2> QED
    BY <2>1, <2>3 DEF KruskalFound
<1>11. CASE ExtractBack
  <2>1. /\ pc = "search" /\ pc' = pc /\ UNCHANGED instance /\ UNCHANGED <<sub, sum>>
        /\ FoundSub /\ SearchInv
    BY <1>11 DEF ExtractBack, KruskalFound, outcome
  <2>2. SearchInv' /\ FoundSub'
    BY <1>11, <2>1, SearchGoesBack, FoundSubStays
  <2> QED
    BY <2>1, <2>2 DEF KruskalFound
<1>12. CASE ExtractEnd
  <2>1. /\ pc = "search" /\ pc' = "done" /\ UNCHANGED instance /\ UNCHANGED <<pred, sub, sum>>
        /\ Unread = {} /\ first = r /\ FoundSub /\ SearchInv
    BY <1>12 DEF ExtractEnd, KruskalFound, outcome
  <2>2. sub \in Trees(Nodes) /\ sub \in Solutions
    BY <1>0, <2>1, SubIsTree
  <2>3. Rooted /\ sub = Labels
    BY <2>1, <2>2, SearchFinds
  <2>4. Delivered
    BY <2>1, <2>2, <2>3 DEF Delivered, TreeFound, FoundSub
  <2>5. Delivered'
    BY <2>1, <2>4, DeliveredStays
  <2> QED
    BY <2>1, <2>5 DEF KruskalFound
<1> QED
  BY <1>1, <1>2, <1>3, <1>4, <1>5, <1>6, <1>7, <1>8, <1>9, <1>10, <1>11, <1>12 DEF KruskalCall

-----------------------------------------------------------------------------
\* The invariant of both methods, with what they find.
FoundInv == GreedyInv /\ PrimFound /\ KruskalFound

\* It holds when a call begins: the call has mandatory arcs that the method of Prim can take
\* account of.
LEMMA FoundInit == LengthsAreShort /\ Init => FoundInv
<1> SUFFICES ASSUME LengthsAreShort, Init PROVE FoundInv
  OBVIOUS
<1>1. GreedyInv /\ pc = "start"
  BY GreedyInit DEF Init
<1>2. method # "KRUSKAL" => MandatoryForest
  BY DEF Init, Applicable, MandatoryForest
<1> QED
  BY <1>1, <1>2 DEF FoundInv, PrimFound, KruskalFound, Prims

\* Every step keeps it.
LEMMA FoundSteps == FoundInv /\ [Next]_vars => FoundInv'
<1> SUFFICES ASSUME FoundInv, [Next]_vars PROVE FoundInv'
  OBVIOUS
<1>0. GreedyInv' /\ GreedyInv /\ PrimFound /\ KruskalFound /\ Phases
  BY GreedySteps DEF FoundInv, GreedyInv
<1>1. CASE PrimStep
  <2>1. CASE method \in Prims
    <3>1. PrimFound'
      BY <1>0, <1>1, <2>1, PrimFindsTree
    <3>2. method' # "KRUSKAL"
      BY <1>1, <2>1 DEF PrimStep, PrimStart, PrimNoCycle, PrimCycle, PrimExpand, PrimEnd,
                        AddToSubgraph, instance, Prims
    <3> QED
      BY <1>0, <3>1, <3>2 DEF FoundInv, KruskalFound
  <2>2. CASE method \notin Prims
    <3>1. method = "EDMONDS" /\ AddToSubgraph
      BY <1>0, <1>1, <2>2 DEF Phases, Methods, Prims, PrimStep, PrimStart, PrimNoCycle, PrimCycle,
                              PrimExpand, PrimEnd, AddToSubgraph
    <3>2. method' = method
      BY <3>1 DEF AddToSubgraph, instance
    <3> QED
      BY <1>0, <3>1, <3>2 DEF FoundInv, PrimFound, KruskalFound, Prims
  <2> QED
    BY <2>1, <2>2
<1>2. CASE KruskalCall
  <2>1. UNCHANGED instance
    BY <1>2 DEF KruskalCall, KruskalStart, MergeMandatory, FixedSubtour, MandatoryMerged, KruskalStep,
                KruskalEnd, CutNode, KruskalPick, KruskalPicked, FixArc, KruskalNoCycle, KruskalCycle,
                ExtractStart, ExtractRead, ExtractBack, ExtractEnd
  <2>2. UNCHANGED <<cycle, directed, method>>
    BY <2>1 DEF instance
  <2>3. pc \in {"mandatory", "greedy", "fix", "extract", "search"} \/ method = "KRUSKAL"
    BY <1>2 DEF KruskalCall, KruskalStart, MergeMandatory, FixedSubtour, MandatoryMerged, KruskalStep,
                KruskalEnd, CutNode, KruskalPick, KruskalPicked, FixArc, KruskalNoCycle, KruskalCycle,
                ExtractStart, ExtractRead, ExtractBack, ExtractEnd, GreedyEnds
  <2>4. method = "KRUSKAL"
    BY <1>0, <2>3 DEF Phases, Methods, Prims
  <2>5. KruskalFound'
    <3>1. CASE ~cycle /\ ~directed
      BY <1>0, <1>2, <2>4, <3>1, KruskalFindsTree
    <3>2. CASE ~(~cycle /\ ~directed)
      BY <2>2, <3>2 DEF KruskalFound
    <3> QED
      BY <3>1, <3>2
  <2> QED
    BY <1>0, <2>2, <2>4, <2>5 DEF FoundInv, PrimFound, Prims
<1>3. CASE PickAtRoot
  <2>1. UNCHANGED <<instance, pc>> /\ pc = "pick" /\ UNCHANGED <<cycle, directed, method, mandatory>>
    BY <1>3 DEF PickAtRoot, instance
  <2>2. PrimFound'
    BY <1>0, <2>1 DEF PrimFound, MandatoryForest
  <2>3. KruskalFound'
    BY <1>0, <2>1 DEF KruskalFound
  <2> QED
    BY <1>0, <2>2, <2>3 DEF FoundInv
<1>4. CASE EdmondsStep
  <2>1. UNCHANGED instance
    BY <1>4 DEF EdmondsStep, EdmondsStart, SelectArc, ShrinkEnds, ExpandCycle, CloseCycle, EdmondsEnd
  <2>2. method = "EDMONDS" \/ pc \in {"shrink", "split", "sum"}
    BY <1>4 DEF EdmondsStep, EdmondsStart, SelectArc, ShrinkEnds, ExpandCycle, CloseCycle, EdmondsEnd
  <2>3. method = "EDMONDS" /\ method' = method
    BY <1>0, <2>1, <2>2 DEF Phases, Methods, Prims, instance
  <2> QED
    BY <1>0, <2>3 DEF FoundInv, PrimFound, KruskalFound, Prims
<1>5. CASE UNCHANGED vars
  <2>1. UNCHANGED <<instance, pc, pred, sub, sum, rank, dist, queue, first, todo, set>>
    BY <1>5 DEF vars, outcome, greedy
  <2>2. UNCHANGED <<len, usable, mandatory, directed, cycle, sign, method>>
    BY <2>1 DEF instance
  <2>3. /\ TreeFound' <=> TreeFound
        /\ Delivered' <=> Delivered
        /\ FoundSub' <=> FoundSub
        /\ MandatoryForest' <=> MandatoryForest
    BY <2>1, FoundStays, DeliveredStays, FoundSubStays
  <2>4. Verts' = Verts /\ Grown' = Grown /\ Found' = Found
    BY <2>1, <2>2 DEF Verts, Grown, Found
  <2>5. Promised' = Promised
    BY <2>1, <2>2, <2>4 DEF Promised
  <2>6. GrowInv => GrowInv'
    BY <2>1, <2>2, <2>4, <2>5 DEF GrowInv, ClosedAtRoot
  <2>7. (Taken(sub \ todo) => Taken(sub \ todo)') /\ (Taken(sub) => Taken(sub)')
    BY <2>1, <2>2, <2>4 DEF Taken
  <2>8. SearchInv => SearchInv'
    BY <2>1, <2>4 DEF SearchInv, LabelsLead, OnWay
  <2>9. PrimFound'
    BY <1>0, <2>1, <2>2, <2>3, <2>6 DEF PrimFound
  <2>10. KruskalFound'
    BY <1>0, <2>1, <2>2, <2>3, <2>7, <2>8 DEF KruskalFound
  <2> QED
    BY <1>0, <2>9, <2>10 DEF FoundInv
<1> QED
  BY <1>1, <1>2, <1>3, <1>4, <1>5 DEF Next, GreedyStep

\* The calls of the methods of Prim and Kruskal that the result is about.
PrimOrKruskal == ~directed /\ (method \in Prims \/ (method = "KRUSKAL" /\ ~cycle))

\* What has been delivered is what the call asked for.
LEMMA DeliveredIsOptimal == FoundInv => (PrimOrKruskal => TreeIsOptimal)
<1> SUFFICES ASSUME FoundInv, PrimOrKruskal, pc = "done" PROVE TreeIsOptimal
  BY DEF TreeIsOptimal
<1>1. Delivered /\ cycle \in BOOLEAN
  BY DEF FoundInv, PrimFound, KruskalFound, PrimOrKruskal, GreedyInv, CallInv
<1>2. CASE Solutions = {}
  BY <1>1, <1>2 DEF Delivered, TreeFound, TreeIsOptimal
<1>3. CASE Solutions # {}
  <2>1. sub = Labels /\ Labels \in Optima /\ sum = Total(len, Labels) /\ Rooted
    BY <1>1, <1>3 DEF Delivered, TreeFound
  <2>2. LabelsAreTheTree
    BY <1>1, <2>1, RootedLabels DEF PrimOrKruskal
  <2>3. sum = TotalLength(sub)
    BY <2>1, LengthIsTotal
  <2> QED
    BY <1>3, <2>1, <2>2, <2>3 DEF TreeIsOptimal
<1> QED
  BY <1>2, <1>3

\* The methods of Prim, for spanning trees and one cycle trees, and that of Kruskal, for
\* spanning trees, return the length of an optimum and leave it in the subgraph and in the
\* predecessor labels, in every undirected graph, with mandatory arcs, and in whatever order
\* arcs are read; they fail if and only if there is no tree.
THEOREM GreedyTreesAreOptimal ==
  LengthsAreShort => (Spec => [](PrimOrKruskal => TreeIsOptimal))
<1> SUFFICES ASSUME LengthsAreShort PROVE Spec => [](PrimOrKruskal => TreeIsOptimal)
  OBVIOUS
<1>1. Init => FoundInv
  BY FoundInit
<1>2. FoundInv /\ [Next]_vars => FoundInv'
  BY FoundSteps
<1>3. FoundInv => (PrimOrKruskal => TreeIsOptimal)
  BY DeliveredIsOptimal
<1> QED
  BY <1>1, <1>2, <1>3, PTL DEF Spec
===============================================================================
